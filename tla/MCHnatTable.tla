------------------------------ MODULE MCHnatTable ------------------------------
(* Instances of HnatTable for TLC.                                         *)
EXTENDS HnatTable, TLC

CONSTANTS c1, c2, f1, f2

AllHnapt == [f \in Flows |-> "hnapt"]
OneBridged == [f \in Flows |-> IF f = f1 THEN "hnapt" ELSE "l2"]
OneGroup == [f \in Flows |-> IF f = f1 THEN "hnapt" ELSE "group"]
OneDsa == [f \in Flows |-> IF f = f1 THEN "dsa" ELSE "plain"]
AllCrypto == [f \in Flows |-> "crypto"]
AllGmac1 == [f \in Flows |-> "gmac1ppd"]
All8021q == [f \in Flows |-> "8021q"]
FirstTagged == {f1}
SameHash == [f \in Flows |-> 1]

Change(s, v) == [set |-> s, val |-> v]

AllChanges == {Change(s, 1) : s \in {"qos", "dscp", "pppoe", "prior", "tid"}}
              \cup {Change("vlan", v) : v \in (0 .. 1) \X (0 .. 1)}

SomeChanges == {Change("qos", 1), Change("vlan", <<0, 0>>), Change("vlan", <<1, 0>>)}

Type(state, layer) == [state |-> state, layer |-> layer, qos |-> 0, tport |-> 0, dscp |-> 0]

SomeTyped == {Type("BIND", 0), Type("BIND", 1)}

(* Counters do not influence entries, and tags and settings do not          *)
(* influence counters: once a packet is counted, or a read is disturbed, no *)
(* entry is written by hand or changed, until no entry has a count left to  *)
(* compare.                                                                 *)
AsBuilt(e) ==
  \E f \in Flows, x \in States :
    e \in {Empty, [Built(f) EXCEPT !.state = x], [Empty EXCEPT !.flow = f, !.state = x]}

Uncounted == forwarded = 0 /\ crossed = {} /\ lossy = {}

SomeCount ==
  \/ Uncounted
  \/ /\ crossed # Slots
     /\ \A s \in Slots : AsBuilt(entry[s])
     /\ \A t \in CPUs : cpu[t].job \notin {"update", "static"}

Symm == Permutations(CPUs)
===============================================================================
