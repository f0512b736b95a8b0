------------------------------ MODULE MCAtBuf ------------------------------
(* AtBuf on its own, with two byte values, a buffer of four bytes that may *)
(* double once and chunks of up to three bytes.                            *)
EXTENDS AtBuf
=============================================================================
