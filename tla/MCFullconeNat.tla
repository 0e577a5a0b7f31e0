----------------------------- MODULE MCFullconeNat -----------------------------
(***************************************************************************)
(* FullconeNat on small instances: two LAN hosts with one endpoint each    *)
(* (both on the same port, so that only one can keep it), one or two       *)
(* remotes, one WAN address, and three ports of which 1 and 2 are in the   *)
(* default range.                                                          *)
(***************************************************************************)
EXTENDS FullconeNat, TLC

MCIntEps == {[addr |-> "lan1", port |-> 1], [addr |-> "lan2", port |-> 1]}
MCOneInt == {[addr |-> "lan1", port |-> 1]}
MCRemote == {[addr |-> "wan1", port |-> 1]}
MCRemotes == MCRemote \cup {[addr |-> "wan2", port |-> 1]}

(* nft_fullcone_init stores no attributes, so priv->flags stays 0.          *)
MCNftRange == {[specified |-> FALSE, random |-> FALSE, min |-> 0, max |-> 0]}

(* The default range, or a single port: a caller of the exported functions. *)
MCRanges == MCNftRange
  \cup {[specified |-> TRUE, random |-> FALSE, min |-> 1, max |-> 1]}

(* Bounds on what is kept at a time; states beyond are not expanded.       *)
CONSTANTS MaxConntrack, MaxDying
Bounded == Cardinality(conntrack) <= MaxConntrack /\ Cardinality(dying) <= MaxDying

Symmetry == Permutations(Objs) \cup Permutations(Nodes)
===============================================================================
