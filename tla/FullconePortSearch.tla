-------------------------- MODULE FullconePortSearch --------------------------
(***************************************************************************)
(* find_appropriate_port as the loop it is: one step per call of           *)
(* get_mapping_by_ext_port, uint16_t locals.  FullconePorts states what    *)
(* the loop computes for the other modules; the run of this module         *)
(* compares the loop with it and with the range the caller asked for.      *)
(***************************************************************************)
EXTENDS FullconePorts

VARIABLES
  pc,        \* "preserve", "search", "done"
  range,     \* the nf_nat_range2 argument
  original,  \* original_port
  busy,      \* ports with a mapping of ext_ip (the caller holds fullconenat_lock)
  start,     \* starting point of the search
  i,         \* loop counter
  selected,  \* uint16_t: the port being tried, then the result
  killed     \* ports whose mapping kill_mapping freed

vars == <<pc, range, original, busy, start, i, selected, killed>>

(* Ranges a caller of the exported nf_nat_fullcone_ipv4/6 may pass: min is  *)
(* not above max, and a random search needs a range size that did not wrap. *)
Callable(r) == r.min <= r.max /\ Starts(r) # {}

Init ==
  /\ range \in {r \in PortRange : Callable(r)}
  /\ original \in Port
  /\ busy \in SUBSET Port
  /\ start \in Starts(range)
  /\ pc = IF MayPreserve(range, original) THEN "preserve" ELSE "search"
  /\ i = 0
  /\ selected = original
  /\ killed = {}

inputs == <<range, original, busy, start>>

(* 1. try to preserve the port if it's available *)
TryPreserve ==
  /\ pc = "preserve"
  /\ pc' = IF original \in busy THEN "search" ELSE "done"
  /\ UNCHANGED <<inputs, i, selected, killed>>

SearchStep(bound, port, next) ==
  /\ pc = "search"
  /\ i < bound
  /\ selected' = port
  /\ IF selected' \in busy
     THEN /\ i' = next
          /\ pc' = "search"
     ELSE /\ i' = i
          /\ pc' = "done"
  /\ UNCHANGED <<inputs, killed>>

(* Seeded faults: the starting point is forgotten; the counter has a type    *)
(* too narrow for the range.                                                *)
SearchFromMin ==
  SearchStep(RangeSize(range), Candidate(range, 0, i), (i + 1) % PortSpace)

SearchNarrow ==
  SearchStep(RangeSize(range), Candidate(range, start, i), (i + 1) % (PortSpace \div 2))

(* 2. try to find an available port *)
Search ==
  SearchStep(RangeSize(range), Candidate(range, start, i), (i + 1) % PortSpace)

(* 3. at least we tried. override a previous mapping. *)
Override ==
  /\ pc = "search"
  /\ i >= RangeSize(range)
  /\ selected' = OverridePort(range, start)
  /\ killed' = busy \cap {selected'}
  /\ pc' = "done"
  /\ UNCHANGED <<inputs, i>>

Next == TryPreserve \/ Search \/ Override

Spec == Init /\ [][Next]_vars /\ WF_vars(Next)
-------------------------------------------------------------------------------
TypeOK ==
  /\ pc \in {"preserve", "search", "done"}
  /\ range \in PortRange
  /\ original \in Port
  /\ busy \subseteq Port
  /\ start \in Port
  /\ i \in Port
  /\ selected \in Port
  /\ killed \subseteq busy

(* The ports the caller asked for, from the range itself and not from the   *)
(* size the code computes of it.                                            *)
Wanted ==
  IF range.specified THEN range.min .. range.max ELSE DefaultMin .. PortSpace - 1

(* Nothing is lost by keeping the port: the caller did not ask for a random *)
(* one and either asked for no range or the port lies in it.                *)
MayKeep == ~ range.random /\ (range.specified => original \in Wanted)

(* The ports tried before port, from the starting point circularly.         *)
Before(port) ==
  LET from == RangeMin(range) + start
  IN IF from <= port THEN {q \in Wanted : from <= q /\ q < port}
     ELSE {q \in Wanted : from <= q \/ q < port}

(* What the three comments of find_appropriate_port promise, for every      *)
(* range but that of all ports: 1. the original port is preserved if it may *)
(* be and is free; 2. otherwise the first free port of the range is found,  *)
(* counted circularly from the starting point; 3. a mapping is overridden   *)
(* only if every port of the range has one, and it is the one at the        *)
(* starting point.  Nothing else is freed.                                  *)
PromiseKept ==
  /\ (MayKeep /\ original \notin busy) => selected = original
  /\ ~ (MayKeep /\ original \notin busy) =>
       IF Wanted \subseteq busy
       THEN selected = RangeMin(range) + start
       ELSE selected \in Wanted \ busy /\ Before(selected) \subseteq busy
  /\ killed # {} => Wanted \subseteq busy /\ killed = {selected}

(* The range of all ports (min 0, max 65535), whose size is 0 in a          *)
(* uint16_t: no port is preserved or searched, the result is port 0 and its *)
(* mapping, if it has one, is overridden whatever else is free.  The random *)
(* flags would divide by that size.                                         *)
FirstPortOverridden == selected = 0 /\ killed = busy \cap {0}

(* The loop does what its comments promise for every range whose size fits  *)
(* the type, stated from the range asked for; the range of all ports is the *)
(* one where the promise fails, in the way stated.  In both cases the       *)
(* result is that of FullconePorts!AppropriatePort, the operator the other  *)
(* modules take the port from.                                              *)
LoopFindsFreePort ==
  pc = "done" =>
    /\ IF Wanted = Port THEN FirstPortOverridden ELSE PromiseKept
    /\ selected = AppropriatePort(range, start, busy, original)
    /\ (killed # {}) = (Overrides(range, start, busy, original) /\ selected \in busy)

(* "override a previous mapping" after "at least we tried": not for the     *)
(* range of all ports, which is overridden untried.                         *)
PromiseAlwaysKept == pc = "done" => PromiseKept

(* Every call returns: the counter cannot wrap below the range size.        *)
SearchTerminates == <>(pc = "done")
=============================================================================
