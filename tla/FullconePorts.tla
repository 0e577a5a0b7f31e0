---------------------------- MODULE FullconePorts ----------------------------
(***************************************************************************)
(* The external port nf_nat_fullcone.c picks for a new mapping             *)
(* (find_appropriate_port and find_appropriate_port6, which differ only in *)
(* the address type).  Ports are uint16_t in the code; PortSpace is the    *)
(* number of values of that type, so every assignment to a uint16_t local  *)
(* is a value modulo PortSpace.                                            *)
(*                                                                         *)
(* Which ports are taken is a parameter, busy: the ports at which          *)
(* get_mapping_by_ext_port finds a mapping of the wanted external address. *)
(***************************************************************************)
EXTENDS Integers

CONSTANTS
  PortSpace,   \* values of a uint16_t: 65536
  DefaultMin   \* first port of the default range: 1024

ASSUME PortsAssumption ==
  /\ PortSpace \in Nat \ {0}
  /\ DefaultMin \in Nat
  /\ DefaultMin < PortSpace

Port == 0 .. PortSpace - 1

(* What the callers hand over of struct nf_nat_range2.  min and max matter  *)
(* only under NF_NAT_RANGE_PROTO_SPECIFIED, random stands for               *)
(* NF_NAT_RANGE_PROTO_RANDOM and _RANDOM_FULLY, which the code treats alike.*)
PortRange == [specified : BOOLEAN, random : BOOLEAN, min : Port, max : Port]

RangeMin(range) == IF range.specified THEN range.min ELSE DefaultMin

(* max - min + 1, stored in a uint16_t: the range of all ports, min 0 and   *)
(* max 65535, has size 0.  It then preserves no port and searches none.     *)
RangeSize(range) ==
  (IF range.specified THEN range.max - range.min + 1
                      ELSE (PortSpace - 1) - DefaultMin + 1) % PortSpace

(* Seeded fault: the range is not looked at.                                *)
MayPreserveAnywhere(range, original) == ~ range.random

(* The sum is an int: it does not wrap.                                     *)
MayPreserve(range, original) ==
  /\ ~ range.random
  /\ \/ ~ range.specified
     \/ /\ original >= RangeMin(range)
        /\ original <= RangeMin(range) + RangeSize(range) - 1

(* The possible values of start: any offset of the range under the random   *)
(* flags (whose % is undefined for a size of zero), else zero.              *)
Starts(range) == IF range.random THEN 0 .. RangeSize(range) - 1 ELSE {0}

(* The port tried in round i of the search loop.                            *)
Candidate(range, start, i) ==
  (RangeMin(range) + ((start + i) % RangeSize(range))) % PortSpace

FreeRounds(range, start, busy) ==
  {i \in 0 .. RangeSize(range) - 1 : Candidate(range, start, i) \notin busy}

(* The first round that finds a free port; only used when there is one.     *)
FirstFree(range, start, busy) ==
  CHOOSE i \in FreeRounds(range, start, busy) :
    \A j \in FreeRounds(range, start, busy) : i <= j

Preserves(range, busy, original) ==
  MayPreserve(range, original) /\ original \notin busy

(* Seeded fault: the search gives up without killing a mapping.             *)
NeverOverrides(range, start, busy, original) == FALSE

(* All ports taken, or a size that wrapped to 0 and leaves nothing to try:  *)
(* the mapping at the starting point, if there is one, is overridden.       *)
Overrides(range, start, busy, original) ==
  /\ ~ Preserves(range, busy, original)
  /\ FreeRounds(range, start, busy) = {}

OverridePort(range, start) == (RangeMin(range) + start) % PortSpace

AppropriatePort(range, start, busy, original) ==
  IF Preserves(range, busy, original) THEN original
  ELSE IF FreeRounds(range, start, busy) # {}
       THEN Candidate(range, start, FirstFree(range, start, busy))
       ELSE OverridePort(range, start)

(* The ports at which get_mapping_by_ext_port is called on the way: each    *)
(* call also drops dead conntracks from the mappings it walks over.         *)
ProbedPorts(range, start, busy, original) ==
  LET kept   == IF MayPreserve(range, original) THEN {original} ELSE {}
      rounds == IF FreeRounds(range, start, busy) # {}
                THEN 0 .. FirstFree(range, start, busy)
                ELSE 0 .. RangeSize(range) - 1
  IN IF Preserves(range, busy, original) THEN kept
     ELSE kept \cup {Candidate(range, start, i) : i \in rounds}
               \cup IF Overrides(range, start, busy, original)
                    THEN {OverridePort(range, start)} ELSE {}
=============================================================================
