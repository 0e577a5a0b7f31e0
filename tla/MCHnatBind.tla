------------------------------- MODULE MCHnatBind -------------------------------
(* Values of the constants of HnatBind for TLC.                              *)
EXTENDS HnatBind, TLC

CONSTANTS f1, f2, f3, d1, d2, m1, m2

MCMoves == [ha : Macs, nud : {"connected", "failed"}]

MCRoams == [ha : Macs, nud : {"connected"}]

(* It fails with one of its addresses only.                                  *)
MCRoamsOrFails == MCRoams \cup {[ha |-> m1, nud |-> "failed"]}

MCAll == Neighbour

(* All flows share the first entry.                                          *)
MCCollide == [f \in Flows |-> 1]

MCPath == [f \in Flows |-> IF f = f1 THEN "eth" ELSE IF f = f2 THEN "wifi" ELSE "crypto"]

MCWifi == [f \in Flows |-> "wifi"]

MCOnLink == [f \in Flows |-> d1]

MCGateway == [f \in Flows |-> d2]

MCClears == {[by |-> "all", arg |-> None], [by |-> "mac", arg |-> m1],
             [by |-> "ip", arg |-> d1]}

MCPackets == Permutations(Skbs)
===============================================================================
