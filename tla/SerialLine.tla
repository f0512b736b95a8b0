----------------------------- MODULE SerialLine -----------------------------
(***************************************************************************)
(* serial_ioctl() of src/apix-posix.c: the settings asked for become bits  *)
(* of the terminal's c_cflag.  Bits are numbered as in Linux, where the    *)
(* input flags INPCK and ISTRIP, which the code puts into c_cflag, share   *)
(* their numbers with the bits of the character size.                      *)
(***************************************************************************)
EXTENDS Integers

VARIABLES
  cflag,   \* the terminal's c_cflag, a set of bit numbers (speed left out)
  speed,   \* its speed
  asked    \* the settings of the last call that returned 0 (history)

vars == <<cflag, speed, asked>>

CS7 == {5}
CS8 == {4, 5}
CSIZE == {4, 5}
CSTOPB == {6}
CREAD == {7}
PARENB == {8}
PARODD == {9}
CLOCAL == {11}
INPCK == {4}
ISTRIP == {5}

(* struct ioctl_serial_param; 0 and "X" stand for every other value.       *)
Params == [baud : {9600, 115200, 0}, bits : {7, 8, 0},
           parity : {"O", "E", "N", "X"}, stop : {1, 2, 0}]

Valid(sp) == sp.baud # 0 /\ sp.bits # 0 /\ sp.parity # "X" /\ sp.stop # 0

Init == cflag = {} /\ speed = 0 /\ asked = [baud |-> 0, bits |-> 0, parity |-> "X", stop |-> 0]

SizeFlags(bits) == IF bits = 7 THEN CS7 ELSE CS8

(* Fault, for the mutation run: PARODD for the wrong one.                  *)
ParityFlagsSwapped(parity) ==
  CASE parity = "O" -> PARENB \cup INPCK \cup ISTRIP
    [] parity = "E" -> PARENB \cup PARODD \cup INPCK \cup ISTRIP
    [] parity = "N" -> {}

ParityFlags(parity) ==
  CASE parity = "O" -> PARENB \cup PARODD \cup INPCK \cup ISTRIP
    [] parity = "E" -> PARENB \cup INPCK \cup ISTRIP
    [] parity = "N" -> {}

StopFlags(stop) == IF stop = 2 THEN CSTOPB ELSE {}

(* tcgetattr() and tcsetattr() succeed; a call that fails changes nothing. *)
serial_ioctl(sp) ==
  /\ Valid(sp)
  /\ cflag' = CLOCAL \cup CREAD \cup SizeFlags(sp.bits) \cup ParityFlags(sp.parity)
              \cup StopFlags(sp.stop)
  /\ speed' = sp.baud
  /\ asked' = sp

Next == \E sp \in Params : serial_ioctl(sp)

Spec == Init /\ [][Next]_vars

-----------------------------------------------------------------------------

Line ==
  [baud |-> speed,
   bits |-> IF cflag \cap CSIZE = CS8 THEN 8 ELSE IF cflag \cap CSIZE = CS7 THEN 7 ELSE 0,
   parity |-> IF cflag \cap PARENB = {} THEN "N" ELSE IF cflag \cap PARODD = {} THEN "E" ELSE "O",
   stop |-> IF cflag \cap CSTOPB = {} THEN 1 ELSE 2]

(* The line is set as asked in the last successful call, whatever was set  *)
(* before, except that seven bits with parity come out as eight.           *)
SetAsAsked ==
  Valid(asked) =>
    Line = IF asked.bits = 7 /\ asked.parity # "N" THEN [asked EXCEPT !.bits = 8] ELSE asked

=============================================================================
