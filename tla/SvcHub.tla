------------------------------- MODULE SvcHub -------------------------------
(***************************************************************************)
(* The service hub of src/svcx.c: a list of services, newest first, each   *)
(* with the header it serves.  A request goes to the first service whose   *)
(* header is a prefix of the request's, and svchub_del_service() finds the *)
(* service to remove by the same test.  Headers are sequences of           *)
(* characters, since prefixes and the cut at SERVICE_HEADER_LEN are what   *)
(* the hub is about.                                                       *)
(***************************************************************************)
EXTENDS Integers, Sequences, SequencesExt

CONSTANTS
  Names,        \* the headers callers use, sequences of characters
  Funcs,        \* the handlers
  HeaderLen,    \* the characters struct service has room for, without the NUL
  MaxServices   \* bound: no more services are added

HubAssumption ==
  /\ Names \subseteq Seq(Nat)
  /\ HeaderLen \in Nat

VARIABLES
  services,     \* hub->services, newest first
  meant,        \* what the callers registered and did not withdraw (history,
                \* kept until a call is ambiguous)
  ambiguous     \* a call named a header the hub cannot tell from another (history)

vars == <<services, meant, ambiguous>>

Init ==
  /\ services = <<>>
  /\ meant = <<>>
  /\ ambiguous = FALSE

-----------------------------------------------------------------------------

(* snprintf() into svc->header.                                            *)
Stored(name) == SubSeq(name, 1, IF Len(name) <= HeaderLen THEN Len(name) ELSE HeaderLen)

(* Fault, for the mutation run: the length of the shorter of the two is    *)
(* compared.                                                               *)
MatchesEither(svc, header) == IsPrefix(svc.header, header) \/ IsPrefix(header, svc.header)

(* strncmp(pos->header, header, strlen(pos->header)) == 0                  *)
Matches(svc, header) == IsPrefix(svc.header, header)

Hit(header, i) ==
  /\ Matches(services[i], header)
  /\ \A j \in 1..i-1 : ~Matches(services[j], header)

(* Two names of which the hub may take one for the other.                  *)
Confused(a, b) == a # b /\ (IsPrefix(Stored(a), b) \/ IsPrefix(Stored(b), a))

Remember(name, entries) ==
  /\ ambiguous' = (ambiguous \/ \E i \in DOMAIN meant : Confused(name, meant[i].name))
  /\ meant' = IF ambiguous' THEN <<>> ELSE entries

svchub_add_service(name, func) ==
  /\ Len(services) < MaxServices
  /\ services' = <<[header |-> Stored(name), func |-> func]>> \o services
  /\ Remember(name, <<[name |-> name, func |-> func]>> \o meant)

(* The newest registration under this name is what the caller withdraws.   *)
Withdrawn(name) ==
  IF \E i \in DOMAIN meant : meant[i].name = name
  THEN RemoveAt(meant, CHOOSE i \in DOMAIN meant :
                         meant[i].name = name /\ \A j \in 1..i-1 : meant[j].name # name)
  ELSE meant

svchub_del_service(name) ==
  /\ \/ \E i \in DOMAIN services : Hit(name, i) /\ services' = RemoveAt(services, i)
     \/ (\A i \in DOMAIN services : ~Hit(name, i)) /\ services' = services
  /\ Remember(name, Withdrawn(name))

svchub_destroy ==
  /\ services' = <<>>
  /\ meant' = <<>>
  /\ ambiguous' = FALSE

(* svchub_deal() changes nothing: the services it would call, none or one. *)
svchub_deal(header) == {services[i].func : i \in {j \in DOMAIN services : Hit(header, j)}}

Next ==
  \/ \E name \in Names, func \in Funcs : svchub_add_service(name, func)
  \/ \E name \in Names : svchub_del_service(name)
  \/ svchub_destroy

Spec == Init /\ [][Next]_vars

-----------------------------------------------------------------------------

(* As long as no two of its headers are prefixes of one another, the hub   *)
(* is a table: a removal takes out what was registered under that very name*)
(* and nothing else, and a request reaches the newest handler registered   *)
(* for a name its header begins with, as much of it as the hub has kept.   *)
ActsAsTable ==
  ambiguous \/
  /\ services = [i \in DOMAIN meant |-> [header |-> Stored(meant[i].name), func |-> meant[i].func]]
  /\ \A header \in Names :
       svchub_deal(header) =
         {meant[i].func : i \in {j \in DOMAIN meant :
            /\ IsPrefix(Stored(meant[j].name), header)
            /\ \A k \in 1..j-1 : meant[k].name # meant[j].name}}

=============================================================================
