----------------------------- MODULE MCApibus -----------------------------
(* Small instances of Apibus: the packets of tests/test_apix.c.            *)
EXTENDS Apibus, TLC

CONSTANTS srv, cli, bak,   \* connections
          hOnline, hEcho,  \* "/8888/online" and "/8888/echo": station 1
          hNone,           \* a header that names no station
          hTopic, hRoot    \* "/test-topic" and its prefix "/"

MCHeaders == {hOnline, hEcho, hNone, hTopic, hRoot}

MCDstId == (hOnline :> 1) @@ (hEcho :> 1) @@ (hNone :> NoDst) @@ (hTopic :> NoDst) @@ (hRoot :> NoDst)

MCExtends == {<<h, h>> : h \in MCHeaders} \cup {<<hTopic, hRoot>>}

Pac(l, s, h, x) == [leader |-> l, srcid |-> s, header |-> h, crc |-> x]

Online == Pac(">", 1, hOnline, 1)     \* station 1 introduces itself
Echo == Pac(">", 2, hEcho, 2)         \* station 2 asks station 1
Reply == Pac("<", 2, hEcho, 2)        \* station 1 answers
Stray == Pac(">", 2, hNone, 1)        \* a request to nobody
Sub == Pac("#", 0, hTopic, 1)
Unsub == Pac("%", 0, hTopic, 1)
Pub == Pac("@", 0, hTopic, 1)
PubRoot == Pac("@", 0, hRoot, 1)
PubOther == Pac("@", 0, hNone, 1)

(* More connections than descriptors, here and below.                      *)
LiveScript == (srv :> {Online, Reply}) @@ (cli :> {Echo}) @@ (bak :> {Echo})

(* Two connections claim to be station 1.                                  *)
RequestScript == (srv :> {Online, Reply}) @@ (bak :> {Online}) @@ (cli :> {Echo})

(* Station 1 reconnects.                                                   *)
ReconnectScript == (srv :> {Online}) @@ (cli :> {Online, Reply})

TopicScript == (srv :> {Sub, Unsub}) @@ (cli :> {Pub, PubRoot, PubOther, Unsub, Stray})

(* How much each peer sends.                                               *)
TwoEach == [c \in Conns |-> 2]
TwoByServer == [c \in Conns |-> IF c = srv THEN 2 ELSE 1]

SubscribeScript == (srv :> {Sub}) @@ (cli :> {Sub})
=============================================================================
