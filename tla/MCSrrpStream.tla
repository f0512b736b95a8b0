---------------------------- MODULE MCSrrpStream ----------------------------
EXTENDS SrrpStream

(* Packets of no to two data bytes: publish, request, request, response.   *)
MCSize == <<6, 7, 6, 8>>
MCKind == <<5, 1, 1, 2>>
=============================================================================
