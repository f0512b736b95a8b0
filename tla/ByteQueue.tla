----------------------------- MODULE ByteQueue -----------------------------
(***************************************************************************)
(* What a receive buffer promises its callers: a first-in first-out queue  *)
(* of bytes.  Nothing is reordered, duplicated or invented; a process that *)
(* fails an assertion stops serving.                                       *)
(***************************************************************************)
EXTENDS Naturals, Sequences

CONSTANTS Byte,   \* the byte values
          MaxLen  \* the longest chunk one call moves

VARIABLES q,      \* bytes written and not yet consumed, oldest first
          io,     \* the bytes the last write took or the last read or peek returned
          dead    \* the process has aborted

vars == <<q, io, dead>>

Chunks == UNION {[1..n -> Byte] : n \in 0..MaxLen}

Init == q = <<>> /\ io = <<>> /\ dead = FALSE

Put(s) == ~dead /\ io' = s /\ q' = q \o s /\ UNCHANGED dead

Rest(n) == SubSeq(q, n + 1, Len(q))

Take(n) == ~dead /\ io' = SubSeq(q, 1, n) /\ q' = Rest(n) /\ UNCHANGED dead

Skip(n) == ~dead /\ q' = Rest(n) /\ UNCHANGED <<io, dead>>

Look(n) == ~dead /\ io' = SubSeq(q, 1, n) /\ UNCHANGED <<q, dead>>

Die == ~dead /\ dead' = TRUE /\ UNCHANGED <<q, io>>

Next ==
  \/ \E s \in Chunks : Put(s)
  \/ \E n \in 0..Len(q) : Take(n) \/ Skip(n) \/ Look(n)
  \/ Die

Spec == Init /\ [][Next]_vars
=============================================================================
