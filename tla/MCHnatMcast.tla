------------------------------ MODULE MCHnatMcast ------------------------------
(* Values of the constants of HnatMcast for TLC.                             *)
EXTENDS HnatMcast, TLC

CONSTANTS g1, g2, f1, f2, lan1, lan2, eth, wifi

MCOwnMac == [i \in Ips |-> i]

MCPseOf ==
  [d \in Devs |-> IF d = wifi THEN "tdma" ELSE IF d = eth THEN "gdma2" ELSE "gdma1"]

MCJoins == {[ip |-> i, dev |-> d, src |-> 0] : i \in Ips, d \in Devs}

(* The first device joins for two sources.                                   *)
MCJoinTwice == MCJoins \cup {[ip |-> g1, dev |-> eth, src |-> 1]}

MCGroup == [f \in Flows |-> IF f = f2 THEN g2 ELSE g1]

MCSlotOf == [f \in Flows |-> IF f = f2 THEN 2 ELSE 1]

MCOneSlot == [f \in Flows |-> 1]

MCOneEngine == [s \in 1 .. 2 |-> 0]

MCTwoEngines == [s \in 1 .. 2 |-> s]

MCPackets == Permutations(Skbs)
===============================================================================
