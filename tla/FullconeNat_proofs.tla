-------------------------- MODULE FullconeNat_proofs --------------------------
(***************************************************************************)
(* The mapping table stays a partial bijection with exact reference        *)
(* counts, for any number of CPUs, hosts, addresses and ports, with lost   *)
(* events and failing allocations.                                         *)
(*                                                                         *)
(* Every action changes the table in one of two ways: it prunes it (drops  *)
(* mappings and listed tuples, adds tuples to mappings that stay), or it   *)
(* prunes it and adds one mapping at an external port and for an internal  *)
(* endpoint that the pruned table no longer has.                           *)
(***************************************************************************)
EXTENDS FullconeNat, FullconeNotifier, FiniteSetTheorems, TLAPS

(***************************************************************************)
(* What the port search returns, for every width of the port type, every   *)
(* range, every starting point and every set of taken ports.               *)
(***************************************************************************)
(* Every non-empty set of naturals has a least element: of the intervals    *)
(* 0..x for its elements x, one is minimal under inclusion.                 *)
LEMMA LeastNatural ==
  ASSUME NEW S, S \subseteq Nat, S # {}
  PROVE  \E x \in S : \A y \in S : x <= y
<1> DEFINE T == {0 .. x : x \in S}
           R == StrictSubsetOrdering(Nat)
<1>1. T \subseteq FiniteSubsetsOf(Nat)
  <2>1. \A x \in S : 0 .. x \subseteq Nat /\ IsFiniteSet(0 .. x)
    BY FS_Interval
  <2> QED BY <2>1 DEF FiniteSubsetsOf
<1>2. T # {}
  OBVIOUS
<1>3. IsWellFoundedOn(R, FiniteSubsetsOf(Nat))
  BY FS_StrictSubsetOrderingWellFounded
<1>4. \E u \in T : \A v \in T : ~ (<<v, u>> \in R)
  <2> HIDE DEF T, R
  <2> QED BY <1>1, <1>2, <1>3, WFMin
<1>5. PICK x \in S : \A y \in S : ~ (<<0 .. y, 0 .. x>> \in R)
  BY <1>4
<1>6. ASSUME NEW y \in S, y < x
      PROVE  FALSE
  <2>1. x \in Nat /\ y \in Nat
    OBVIOUS
  <2>2. 0 .. y \subseteq 0 .. x
    BY <1>6, <2>1
  <2>3. x \in 0 .. x /\ x \notin 0 .. y
    BY <1>6, <2>1
  <2>4. 0 .. y # 0 .. x
    BY <2>3
  <2>5. 0 .. x \in SUBSET Nat /\ 0 .. y \in SUBSET Nat
    BY <2>1
  <2>6. <<0 .. y, 0 .. x>> \in R
    BY <2>2, <2>4, <2>5 DEF StrictSubsetOrdering
  <2> QED BY <1>5, <2>6
<1> QED BY <1>6

(* The search loop stops at a round whose port is free, if there is one.    *)
LEMMA FirstFreeIsFree ==
  ASSUME NEW range, NEW start, NEW busy, FreeRounds(range, start, busy) # {}
  PROVE  FirstFree(range, start, busy) \in FreeRounds(range, start, busy)
<1>1. FreeRounds(range, start, busy) \subseteq Nat
  BY DEF FreeRounds
<1>2. \E i \in FreeRounds(range, start, busy) :
        \A j \in FreeRounds(range, start, busy) : i <= j
  BY <1>1, LeastNatural
<1> QED BY <1>2 DEF FirstFree

(* The uint16_t locals min and range_size hold port values.                 *)
LEMMA RangeSizeType ==
  ASSUME NEW range \in PortRange
  PROVE  RangeMin(range) \in Port /\ RangeSize(range) \in Port
BY PortsAssumption DEF PortRange, Port, RangeMin, RangeSize

(* find_appropriate_port returns a port that has no mapping at the external *)
(* address, or one whose mapping it kills; it looked the port up, so dead   *)
(* mappings at it are gone.                                                 *)
THEOREM AppropriatePortIsVacant ==
  ASSUME NEW range \in PortRange, NEW start \in Starts(range),
         NEW busy \in SUBSET Port, NEW original \in Port
  PROVE  LET p == AppropriatePort(range, start, busy, original)
         IN /\ p \in Port
            /\ p \in ProbedPorts(range, start, busy, original)
            /\ p \in busy => Overrides(range, start, busy, original)
<1>1. start \in Int
  BY RangeSizeType DEF Starts, Port
<1>2. CASE Preserves(range, busy, original)
  BY <1>2 DEF Preserves, AppropriatePort, ProbedPorts
<1>3. CASE ~ Preserves(range, busy, original) /\ FreeRounds(range, start, busy) # {}
  <2> DEFINE k == FirstFree(range, start, busy)
  <2>1. k \in FreeRounds(range, start, busy)
    BY <1>3, FirstFreeIsFree
  <2>2. k \in 0 .. RangeSize(range) - 1 /\ Candidate(range, start, k) \notin busy
    BY <2>1 DEF FreeRounds
  <2>3. Candidate(range, start, k) \in Port
    <3>1. RangeSize(range) \in Nat \ {0} /\ RangeMin(range) \in Nat /\ k \in Int
      BY <2>2, RangeSizeType DEF Port
    <3>2. (start + k) % RangeSize(range) \in Nat
      BY <1>1, <3>1
    <3> HIDE DEF k
    <3> QED BY <3>1, <3>2, PortsAssumption DEF Candidate, Port
  <2>4. k \in 0 .. k
    BY <2>2
  <2> QED BY <1>3, <2>2, <2>3, <2>4 DEF AppropriatePort, ProbedPorts
<1>4. CASE Overrides(range, start, busy, original)
  <2>1. OverridePort(range, start) \in Port
    BY <1>1, RangeSizeType, PortsAssumption DEF OverridePort, Port
  <2> QED BY <1>4, <2>1 DEF Overrides, AppropriatePort, ProbedPorts
<1> QED BY <1>2, <1>3, <1>4 DEF Overrides
-------------------------------------------------------------------------------

(* The table invariant, of any table f so that the tables between two steps *)
(* of a hook have it too.                                                   *)
Sound(r) ==
  /\ r \in Mapping
  /\ IsFiniteSet(r.items)
  /\ r.refer_count = Cardinality(r.items)

TableInv(f) ==
  /\ f \in [Objs -> Mapping \cup {None}]
  /\ \A m \in Objs : f[m] # None => Sound(f[m])
  /\ \A m, n \in Objs :
       (/\ f[m] # None /\ f[n] # None
        /\ f[m].addr = f[n].addr
        /\ f[m].port = f[n].port \/ f[m].int = f[n].int) => m = n

IInv == TypeOK /\ TableInv(mapping)

SameEnds(r, s) == r.addr = s.addr /\ r.port = s.port /\ r.int = s.int

Prunes(f) ==
  /\ f \in [Objs -> Mapping \cup {None}]
  /\ \A m \in Objs :
       f[m] # None => /\ mapping[m] # None
                      /\ Sound(f[m])
                      /\ SameEnds(f[m], mapping[m])

(* Removing mappings and shortening lists keeps the table's invariant.       *)
LEMMA PrunedTable ==
  ASSUME TableInv(mapping), NEW f, Prunes(f)
  PROVE  TableInv(f)
BY DEF TableInv, Prunes, SameEnds

(* A mapping whose list was replaced together with its counter.             *)
LEMMA RelistedIsSound ==
  ASSUME NEW r \in Mapping, NEW I \in SUBSET Item, NEW n \in Int,
         IsFiniteSet(I), n = Cardinality(I)
  PROVE  Sound(Relisted(r, I, n)) /\ SameEnds(Relisted(r, I, n), r)
BY DEF Relisted, Sound, SameEnds, Mapping

(* check_mapping and the collector unlink tuples and count them.            *)
LEMMA WithoutItems ==
  ASSUME NEW r, Sound(r), NEW D, D \subseteq r.items,
         NEW n, n = r.refer_count - Cardinality(D)
  PROVE  Sound(Relisted(r, r.items \ D, n)) /\ SameEnds(Relisted(r, r.items \ D, n), r)
<1>1. r \in Mapping /\ IsFiniteSet(r.items) /\ r.items \in SUBSET Item
  BY DEF Sound, Mapping
<1>2. IsFiniteSet(r.items \ D) /\ Cardinality(r.items \ D) = Cardinality(r.items) - Cardinality(D)
  <2>1. r.items \cap D = D
    OBVIOUS
  <2> QED BY <1>1, <2>1, FS_Difference
<1>3. Cardinality(r.items \ D) \in Nat
  BY <1>2, FS_CardinalityType
<1>4. n = Cardinality(r.items \ D)
  BY <1>2 DEF Sound
<1> QED BY <1>1, <1>2, <1>3, <1>4, RelistedIsSound

(* add_original_tuple_to_mapping links at most one node and counts it.      *)
LEMMA AddTuple ==
  ASSUME NEW r, Sound(r), NEW t \in Tuple, NEW s \in WithTuple(r, t)
  PROVE  Sound(s) /\ SameEnds(s, r)
<1>1. CASE s = r
  BY <1>1 DEF SameEnds
<1>2. CASE s # r
  <2>1. PICK n \in Nodes \ {x.node : x \in r.items} :
          s = Relisted(r, r.items \cup {[node |-> n, tuple |-> t]}, r.refer_count + 1)
    BY <1>2 DEF WithTuple
  <2> DEFINE x == [node |-> n, tuple |-> t]
  <2>2. x \notin r.items /\ x \in Item
    BY DEF Item
  <2>3. r \in Mapping /\ IsFiniteSet(r.items) /\ r.items \in SUBSET Item
    BY DEF Sound, Mapping
  <2>4. /\ IsFiniteSet(r.items \cup {x})
        /\ Cardinality(r.items \cup {x}) = Cardinality(r.items) + 1
    BY <2>2, <2>3, FS_AddElement
  <2>5. r.refer_count = Cardinality(r.items) /\ r.refer_count \in Int
    BY DEF Sound, Mapping
  <2>6. r.items \cup {x} \in SUBSET Item
    BY <2>2, <2>3
  <2> HIDE DEF x
  <2>7. s = Relisted(r, r.items \cup {x}, r.refer_count + 1)
    BY <2>1 DEF x
  <2> QED BY <2>3, <2>4, <2>5, <2>6, <2>7, RelistedIsSound
<1> QED BY <1>1, <1>2

(* check_mapping keeps a mapping with its ends and a matching count.        *)
LEMMA CheckedMapping ==
  ASSUME IInv, NEW m \in Linked, Checks(m)
  PROVE  Sound(CheckMapping(m)) /\ SameEnds(CheckMapping(m), mapping[m])
<1> DEFINE n == mapping[m].refer_count - Cardinality(DeadItems(m))
           s == Relisted(mapping[m], mapping[m].items \ DeadItems(m), n)
<1>1. Sound(mapping[m])
  BY DEF IInv, TableInv, Linked
<1>2. DeadItems(m) \subseteq mapping[m].items
  BY DEF DeadItems
<1>3. Sound(s) /\ SameEnds(s, mapping[m])
  BY <1>1, <1>2, WithoutItems
<1> QED BY <1>3 DEF CheckMapping

(* A lookup, which checks every mapping it walks over, only prunes the table. *)
LEMMA CheckAllPrunes ==
  ASSUME IInv, NEW S, S \subseteq Linked
  PROVE  Prunes(CheckAll(S))
<1>1. ASSUME NEW m \in Objs
      PROVE  /\ CheckAll(S)[m] \in Mapping \cup {None}
             /\ CheckAll(S)[m] # None => /\ mapping[m] # None
                                         /\ Sound(CheckAll(S)[m])
                                         /\ SameEnds(CheckAll(S)[m], mapping[m])
  <2>1. CASE m \in S
    BY <2>1, CheckedMapping DEF CheckAll, CheckMapping, Linked, Sound
  <2>2. CASE m \notin S
    BY <2>2 DEF CheckAll, IInv, TableInv, SameEnds
  <2> QED BY <2>1, <2>2
<1>2. CheckAll(S) = [m \in Objs |-> CheckAll(S)[m]]
  BY DEF CheckAll
<1>3. CheckAll(S) \in [Objs -> Mapping \cup {None}]
  BY <1>1, <1>2
<1> QED BY <1>1, <1>3 DEF Prunes

(* A tuple is added to a mapping that passed its check.                     *)
LEMMA ListTuplePrunes ==
  ASSUME IInv, NEW f, Prunes(f), NEW m \in Linked, Checks(m),
         NEW t \in Tuple, NEW r \in WithTuple(CheckMapping(m), t)
  PROVE  Prunes([f EXCEPT ![m] = r])
<1>1. m \in Objs /\ mapping[m] # None
  BY DEF Linked
<1>2. Sound(CheckMapping(m)) /\ SameEnds(CheckMapping(m), mapping[m])
  BY CheckedMapping
<1>3. Sound(r) /\ SameEnds(r, CheckMapping(m))
  BY <1>2, AddTuple
<1>4. SameEnds(r, mapping[m]) /\ r \in Mapping
  BY <1>2, <1>3 DEF SameEnds, Sound
<1> QED BY <1>1, <1>3, <1>4 DEF Prunes

(* A mapping is added where the table has neither its external port nor its *)
(* internal endpoint.                                                       *)
LEMMA AllocateKeepsTable ==
  ASSUME NEW f, TableInv(f), NEW a \in ExtAddrs, NEW p \in Port, NEW t \in Tuple,
         \A m \in Objs : (f[m] # None /\ f[m].addr = a) => /\ f[m].port # p
                                                           /\ f[m].int # t.src,
         NEW g \in Allocated(f, a, p, t)
  PROVE  TableInv(g)
<1>1. CASE g = f
  BY <1>1
<1>2. CASE g # f
  <2>1. g \in {[f EXCEPT ![m] = r] : m \in {k \in Objs : f[k] = None},
                                     r \in WithTuple(NewMapping(a, p, t.src), t)}
    BY <1>2 DEF Allocated
  <2>2. PICK m \in Objs, r \in WithTuple(NewMapping(a, p, t.src), t) :
          f[m] = None /\ g = [f EXCEPT ![m] = r]
    BY <2>1
  <2>3. Sound(NewMapping(a, p, t.src))
    <3>1. t.src \in Endpoint
      BY DEF Tuple
    <3> QED BY <3>1, FS_EmptySet DEF NewMapping, Sound, Mapping
  <2>4. Sound(r) /\ SameEnds(r, NewMapping(a, p, t.src))
    BY <2>3, AddTuple
  <2>5. r \in Mapping /\ r.addr = a /\ r.port = p /\ r.int = t.src
    BY <2>4 DEF Sound, SameEnds, NewMapping
  <2> QED BY <2>1, <2>2, <2>4, <2>5 DEF TableInv
<1> QED BY <1>1, <1>2

(* find_appropriate_port clears the place of the mapping it finds a port    *)
(* for, and nothing in between is left half done.                           *)
LEMMA FindMappingKeepsTable ==
  ASSUME IInv, NEW c \in CPUs, NEW a \in ExtAddrs, cpu[c] # None, FindMapping(c, a)
  PROVE  TableInv(mapping') /\ \E p \in Port :
            \/ Accepted(c, [src |-> cpu[c].orig.dst, dst |-> [addr |-> a, port |-> p]])
            \/ Dropped(c)
<1>1. PICK range \in Ranges : \E start \in Starts(range) : FindPort(c, a, range, start)
  BY DEF FindMapping
<1>2. PICK start \in Starts(range) : FindPort(c, a, range, start)
  BY <1>1
<1> DEFINE t      == cpu[c].orig
           busy   == {p \in Port : ByExtPort(p, a) # {}}
           probed == ProbedPorts(range, start, busy, t.src.port)
           port   == AppropriatePort(range, start, busy, t.src.port)
           killed == IF Overrides(range, start, busy, t.src.port)
                     THEN ByExtPort(port, a) ELSE {}
           checked(W) == CheckAll(ByIntSrc(t.src, a) \cup W)
           table(W)   == [m \in Objs |-> IF m \in killed THEN None ELSE checked(W)[m]]
<1>3. PICK walk \in Walks(probed, a) :
        \/ /\ mapping' \in Allocated(table(walk), a, port, t)
           /\ Accepted(c, [src |-> t.dst, dst |-> [addr |-> a, port |-> port]])
        \/ /\ mapping' = table(walk)
           /\ Dropped(c)
  BY <1>2 DEF FindPort
<1> DEFINE looked == ByIntSrc(t.src, a) \cup walk
<1>4. t \in Tuple /\ t.src.port \in Port
  BY DEF IInv, TypeOK, Tuple, Endpoint
<1>5. /\ port \in Port
      /\ port \in probed
      /\ port \in busy => Overrides(range, start, busy, t.src.port)
  <2>1. range \in PortRange /\ busy \in SUBSET Port
    BY NatAssumption
  <2> HIDE DEF t, busy
  <2> QED BY <1>4, <2>1, AppropriatePortIsVacant DEF t
<1>6. looked \subseteq Linked
  BY DEF ByIntSrc, AtPort, Walks
<1>7. Prunes(checked(walk))
  <2>1. Prunes(CheckAll(looked))
    <3> HIDE DEF looked
    <3> QED BY <1>6, CheckAllPrunes
  <2> QED BY <2>1
<1>8. Prunes(table(walk))
  <2> HIDE DEF checked, killed
  <2> QED BY <1>7 DEF Prunes
<1>9. TableInv(table(walk))
  <2> HIDE DEF table
  <2> QED BY <1>8, PrunedTable DEF IInv
<1>10. ASSUME NEW m \in Objs, table(walk)[m] # None, table(walk)[m].addr = a
      PROVE  table(walk)[m].port # port /\ table(walk)[m].int # t.src
  <2>1. m \notin killed /\ checked(walk)[m] # None
    BY <1>10
  <2>2. m \in Linked /\ SameEnds(table(walk)[m], mapping[m])
    <3> HIDE DEF table
    <3> QED BY <1>8, <1>10 DEF Prunes, Linked
  <2>3. m \in looked => Checks(m)
    BY <2>1 DEF CheckAll, CheckMapping
  <2>4. ASSUME table(walk)[m].int = t.src
        PROVE  FALSE
    <3>1. m \in ByIntSrc(t.src, a)
      BY <1>10, <2>2, <2>4 DEF ByIntSrc, SameEnds
    <3>2. ~ Checks(m)
      BY <3>1 DEF FindMapping
    <3> QED BY <2>3, <3>1, <3>2
  <2>5. ASSUME table(walk)[m].port = port
        PROVE  FALSE
    <3>1. m \in AtPort(port) /\ mapping[m].addr = a
      BY <1>10, <2>2, <2>5 DEF AtPort, SameEnds
    <3>2. CASE port \in busy
      <4>1. PICK k \in ByExtPort(port, a) : TRUE
        BY <3>2
      <4>2. k = m
        BY <2>2, <3>1, <4>1 DEF ByExtPort, AtPort, Linked, IInv, TableInv
      <4> QED BY <1>5, <2>1, <3>2, <4>1, <4>2
    <3>3. CASE port \notin busy
      <4>1. m \in looked
        BY <1>5, <3>1, <3>3 DEF Walks
      <4>2. m \in ByExtPort(port, a)
        BY <2>3, <3>1, <4>1 DEF ByExtPort
      <4> QED BY <1>5, <3>3, <4>2
    <3> QED BY <3>2, <3>3
  <2> QED BY <2>4, <2>5
<1>11. CASE mapping' \in Allocated(table(walk), a, port, t) /\
            Accepted(c, [src |-> t.dst, dst |-> [addr |-> a, port |-> port]])
  <2>1. TableInv(mapping')
    <3> HIDE DEF table, port, t
    <3> QED BY <1>4, <1>5, <1>9, <1>10, <1>11, AllocateKeepsTable
  <2> QED BY <1>5, <1>11, <2>1
<1>12. CASE mapping' = table(walk) /\ Dropped(c)
  BY <1>5, <1>9, <1>12
<1> QED BY <1>3, <1>11, <1>12
-------------------------------------------------------------------------------
(* LAN hosts and remotes are endpoints.                                     *)
LEMMA EndpointType == IntEps \cup Remotes \subseteq Endpoint
BY NatAssumption DEF Endpoint

(* The empty table satisfies the invariant.                                 *)
LEMMA InitIInv == Init => IInv
BY DEF Init, IInv, TypeOK, TableInv

(* A packet that enters gets a conntrack of the right type.                 *)
LEMMA ArriveStep ==
  ASSUME IInv, NEW c \in CPUs, ArriveOutbound(c) \/ ArriveInbound(c)
  PROVE  IInv'
<1>1. \E h \in {"prerouting", "postrouting"}, t \in Tuple : Arrive(c, h, t)
  <2>1. CASE ArriveOutbound(c)
    BY <2>1, EndpointType DEF ArriveOutbound, Tuple
  <2>2. CASE ArriveInbound(c)
    <3>1. \A a \in ExtAddrs, p \in Port : [addr |-> a, port |-> p] \in Endpoint
      BY DEF Endpoint
    <3> QED BY <2>2, <3>1, EndpointType DEF ArriveInbound, Tuple
  <2> QED BY <2>1, <2>2
<1>2. PICK h \in {"prerouting", "postrouting"}, t \in Tuple : Arrive(c, h, t)
  BY <1>1
<1>3. Packet(h, t) \in [hook : {"prerouting", "postrouting", "confirm"}, orig : Tuple, reply : Tuple]
  BY DEF Packet, Reverse, Tuple
<1> QED BY <1>2, <1>3 DEF Arrive, IInv, TypeOK

(* The packet part of the type invariant, for both ways a hook ends.        *)
LEMMA VerdictType ==
  ASSUME TypeOK, NEW c \in CPUs, cpu[c] # None,
         (\E reply \in Tuple : Accepted(c, reply)) \/ Dropped(c)
  PROVE  cpu' \in [CPUs -> [hook : {"prerouting", "postrouting", "confirm"},
                            orig : Tuple, reply : Tuple] \cup {None}]
<1>1. CASE Dropped(c)
  BY <1>1 DEF Dropped, TypeOK
<1>2. ASSUME NEW reply \in Tuple, Accepted(c, reply)
      PROVE  cpu' \in [CPUs -> [hook : {"prerouting", "postrouting", "confirm"},
                                orig : Tuple, reply : Tuple] \cup {None}]
  <2>1. cpu[c].orig \in Tuple
    BY DEF TypeOK
  <2>2. [hook |-> "confirm", orig |-> cpu[c].orig, reply |-> reply]
          \in [hook : {"prerouting", "postrouting", "confirm"}, orig : Tuple, reply : Tuple]
    BY <2>1
  <2> QED BY <1>2, <2>2 DEF Accepted, TypeOK
<1> QED BY <1>1, <1>2

(* The inbound hook checks the walked mappings and lists at most one tuple. *)
LEMMA PreroutingStep ==
  ASSUME IInv, NEW c \in CPUs, Prerouting(c)
  PROVE  IInv'
<1> DEFINE t == cpu[c].orig
           match == ByExtPort(t.dst.port, t.dst.addr)
<1>1. cpu[c] # None /\ t \in Tuple
  BY DEF Prerouting, IInv, TypeOK
<1>2. PICK walk \in Walks({t.dst.port}, t.dst.addr) :
        \/ mapping' = CheckAll(walk) /\ Accepted(c, Reverse(t))
        \/ \E m \in match : \E r \in WithTuple(CheckMapping(m), t) :
             /\ mapping' = [CheckAll(walk) EXCEPT ![m] = r]
             /\ Accepted(c, [src |-> mapping[m].int, dst |-> t.src])
        \/ mapping' = CheckAll(walk) /\ Dropped(c)
  BY DEF Prerouting
<1>3. Prunes(CheckAll(walk))
  <2>1. walk \subseteq Linked
    BY DEF Walks, AtPort
  <2> QED BY <2>1, CheckAllPrunes
<1>4. CASE mapping' = CheckAll(walk) /\ (Accepted(c, Reverse(t)) \/ Dropped(c))
  <2>1. TableInv(mapping')
    BY <1>3, <1>4, PrunedTable DEF IInv
  <2>2. Reverse(t) \in Tuple
    BY <1>1 DEF Reverse, Tuple
  <2> QED BY <1>1, <1>4, <2>1, <2>2, VerdictType DEF IInv, TypeOK, TableInv, Prerouting
<1>5. ASSUME NEW m \in match, NEW r \in WithTuple(CheckMapping(m), t),
             mapping' = [CheckAll(walk) EXCEPT ![m] = r],
             Accepted(c, [src |-> mapping[m].int, dst |-> t.src])
      PROVE  IInv'
  <2>1. m \in Linked /\ Checks(m)
    BY DEF ByExtPort, AtPort
  <2>2. TableInv(mapping')
    <3>1. Prunes([CheckAll(walk) EXCEPT ![m] = r])
      BY <1>1, <1>3, <2>1, ListTuplePrunes
    <3> QED BY <1>5, <3>1, PrunedTable DEF IInv
  <2>3. [src |-> mapping[m].int, dst |-> t.src] \in Tuple
    BY <1>1, <2>1 DEF Tuple, Linked, IInv, TableInv, Sound, Mapping
  <2> QED BY <1>1, <1>5, <2>2, <2>3, VerdictType DEF IInv, TypeOK, TableInv, Prerouting
<1> QED BY <1>2, <1>4, <1>5

(* The outbound hook with an active source mapping lists one tuple in it.   *)
LEMMA ReuseMappingKeepsTable ==
  ASSUME IInv, NEW c \in CPUs, NEW a \in ExtAddrs, cpu[c] # None, ReuseMapping(c, a)
  PROVE  TableInv(mapping') /\ \E p \in Port :
            \/ Accepted(c, [src |-> cpu[c].orig.dst, dst |-> [addr |-> a, port |-> p]])
            \/ Dropped(c)
<1> DEFINE t == cpu[c].orig
<1>1. t \in Tuple
  BY DEF IInv, TypeOK
<1>2. PICK m \in ByIntSrc(t.src, a) :
        /\ Checks(m)
        /\ \/ \E r \in WithTuple(CheckMapping(m), t) :
                /\ mapping' = [mapping EXCEPT ![m] = r]
                /\ Accepted(c, [src |-> t.dst, dst |-> [addr |-> a, port |-> mapping[m].port]])
           \/ /\ mapping' = [mapping EXCEPT ![m] = CheckMapping(m)]
              /\ Dropped(c)
  BY DEF ReuseMapping
<1>3. m \in Linked /\ mapping[m].port \in Port
  BY DEF ByIntSrc, Linked, IInv, TableInv, Sound, Mapping
<1>4. Prunes(mapping)
  BY DEF Prunes, SameEnds, IInv, TableInv
<1>5. ASSUME NEW r \in WithTuple(CheckMapping(m), t),
             mapping' = [mapping EXCEPT ![m] = r]
      PROVE  TableInv(mapping')
  <2>1. Prunes([mapping EXCEPT ![m] = r])
    BY <1>1, <1>2, <1>3, <1>4, ListTuplePrunes
  <2> QED BY <1>5, <2>1, PrunedTable DEF IInv
<1>6. ASSUME mapping' = [mapping EXCEPT ![m] = CheckMapping(m)]
      PROVE  TableInv(mapping')
  <2>1. mapping' = CheckAll({m})
    BY <1>6 DEF CheckAll, IInv, TableInv
  <2>2. Prunes(CheckAll({m}))
    BY <1>3, CheckAllPrunes
  <2> QED BY <2>1, <2>2, PrunedTable DEF IInv
<1> QED BY <1>2, <1>3, <1>5, <1>6

(* The outbound hook, whichever way it takes, keeps the invariant.          *)
LEMMA PostroutingStep ==
  ASSUME IInv, NEW c \in CPUs, Postrouting(c)
  PROVE  IInv'
<1>1. cpu[c] # None /\ cpu[c].orig \in Tuple
  BY DEF Postrouting, IInv, TypeOK
<1>2. CASE \E a \in ExtAddrs : ReuseMapping(c, a) \/ FindMapping(c, a)
  <2>1. PICK a \in ExtAddrs : ReuseMapping(c, a) \/ FindMapping(c, a)
    BY <1>2
  <2>2. TableInv(mapping') /\ \E p \in Port :
            \/ Accepted(c, [src |-> cpu[c].orig.dst, dst |-> [addr |-> a, port |-> p]])
            \/ Dropped(c)
    BY <1>1, <2>1, ReuseMappingKeepsTable, FindMappingKeepsTable
  <2>3. \A p \in Port : [src |-> cpu[c].orig.dst, dst |-> [addr |-> a, port |-> p]] \in Tuple
    BY <1>1 DEF Tuple, Endpoint
  <2> QED BY <1>1, <2>2, <2>3, VerdictType DEF IInv, TypeOK, TableInv, Postrouting
<1>3. CASE mapping' = mapping /\ Dropped(c)
  BY <1>1, <1>3, VerdictType DEF IInv, TypeOK, TableInv, Postrouting
<1> QED BY <1>2, <1>3 DEF Postrouting

(* Confirming or dropping a packet leaves the table alone.                  *)
LEMMA ConntrackStep ==
  ASSUME IInv, NEW c \in CPUs, Confirm(c) \/ DropUnconfirmed(c)
  PROVE  IInv'
<1>1. cpu[c] # None /\ [orig |-> cpu[c].orig, reply |-> cpu[c].reply] \in Conntrack
  BY DEF Confirm, DropUnconfirmed, IInv, TypeOK, Conntrack
<1>2. Dropped(c) /\ mapping' = mapping
  BY DEF Confirm, DropUnconfirmed
<1> QED BY <1>1, <1>2, VerdictType DEF Confirm, DropUnconfirmed, IInv, TypeOK, TableInv

(* A destroy event only lists the conntrack as dying.                       *)
LEMMA DestroyStep ==
  ASSUME IInv, NEW ct \in conntrack, Destroy(ct)
  PROVE  IInv'
BY DEF Destroy, IInv, TypeOK, TableInv

(* The collector unlinks and counts the tuples of one dead conntrack.       *)
LEMMA HandleDyingStep ==
  ASSUME IInv, NEW ct \in dying, HandleDying(ct)
  PROVE  IInv'
<1> DEFINE f == [m \in Objs |-> IF m \in DyingMapping(ct) THEN WithoutTuple(m, ct.orig)
                                                        ELSE mapping[m]]
<1>1. ASSUME NEW m \in Linked
      PROVE  \/ WithoutTuple(m, ct.orig) = None
             \/ /\ Sound(WithoutTuple(m, ct.orig))
                /\ SameEnds(WithoutTuple(m, ct.orig), mapping[m])
  <2> DEFINE D == {x \in mapping[m].items : x.tuple = ct.orig}
             n == mapping[m].refer_count - Cardinality(D)
             r == Relisted(mapping[m], mapping[m].items \ D, n)
  <2>1. Sound(mapping[m])
    BY DEF IInv, TableInv, Linked
  <2>2. Sound(r) /\ SameEnds(r, mapping[m])
    BY <2>1, WithoutItems
  <2> QED BY <2>2 DEF WithoutTuple
<1>2. DyingMapping(ct) \subseteq Linked
  BY DEF DyingMapping, ByIntSrc
<1>3. Prunes(f)
  BY <1>1, <1>2 DEF Prunes, Linked, IInv, TableInv, Sound, SameEnds
<1>4. TableInv(mapping')
  BY <1>3, PrunedTable DEF HandleDying, IInv
<1> QED BY <1>4 DEF HandleDying, IInv, TypeOK, TableInv

(* Every step of the hooks, of conntrack and of the collector keeps IInv.   *)
LEMMA NextIInv == IInv /\ [Next]_vars => IInv'
<1> SUFFICES ASSUME IInv, [Next]_vars
             PROVE  IInv'
  OBVIOUS
<1>1. ASSUME NEW c \in CPUs,
             \/ ArriveOutbound(c) \/ ArriveInbound(c)
             \/ Prerouting(c) \/ Postrouting(c)
             \/ Confirm(c) \/ DropUnconfirmed(c)
      PROVE  IInv'
  BY <1>1, ArriveStep, PreroutingStep, PostroutingStep, ConntrackStep
<1>2. ASSUME NEW ct \in conntrack, Destroy(ct)
      PROVE  IInv'
  BY <1>2, DestroyStep
<1>3. ASSUME NEW ct \in dying, HandleDying(ct)
      PROVE  IInv'
  BY <1>3, HandleDyingStep
<1>4. CASE GcStart \/ GcEnd
  BY <1>4 DEF GcStart, GcEnd, IInv, TypeOK, TableInv
<1>5. CASE UNCHANGED vars
  BY <1>5 DEF vars, IInv, TypeOK, TableInv
<1> QED BY <1>1, <1>2, <1>3, <1>4, <1>5 DEF Next

(* The inductive invariant: the types, sound records with distinct external *)
(* endpoints, and one mapping per internal endpoint and external address,   *)
(* hold in every state the hooks, conntrack and the collector reach.        *)
THEOREM Invariance == Spec => []IInv
<1>1. Init => IInv
  BY InitIInv
<1>2. IInv /\ [Next]_vars => IInv'
  BY NextIInv
<1> QED BY <1>1, <1>2, PTL DEF Spec

(* The type invariant of the NAT table, its conntracks and its packets.     *)
THEOREM TypeCorrect == Spec => []TypeOK
<1>1. IInv => TypeOK
  BY DEF IInv
<1> QED BY <1>1, Invariance, PTL

(* No inbound packet has two mappings to follow: every lookup, override,    *)
(* allocation and collection keeps external endpoints apart.                *)
THEOREM ExternalUnique == Spec => []ExtUnique
<1>1. IInv => ExtUnique
  BY DEF IInv, TableInv, ExtUnique, Linked
<1> QED BY <1>1, Invariance, PTL

(* No outbound packet has two mappings to reuse at one external address.    *)
THEOREM InternalUnique == Spec => []IntUnique
<1>1. IInv => IntUnique
  BY DEF IInv, TableInv, IntUnique, Linked
<1> QED BY <1>1, Invariance, PTL

(* refer_count is the length of original_tuple_list after every hook, check *)
(* and collection: refer_count <= 0, on which check_mapping and the         *)
(* collector kill a mapping, means that its list is empty.                  *)
THEOREM ReferCountCorrect == Spec => []ReferCountIsLength
<1>1. IInv => ReferCountIsLength
  BY DEF IInv, TableInv, Sound, ReferCountIsLength, Linked
<1> QED BY <1>1, Invariance, PTL
-------------------------------------------------------------------------------
(***************************************************************************)
(* The full cone promise, where packets come one by one: one CPU, a flow   *)
(* comes back only after the collector saw its death, and memory and ports *)
(* do not run out.                                                         *)
(***************************************************************************)
ExtEps == [addr : ExtAddrs, port : Port]

(* LAN hosts are neither hosts on the WAN side nor the router.               *)
Topology ==
  /\ IntEps \cap Remotes = {}
  /\ \A e \in IntEps : e.addr \notin ExtAddrs

OneByOne == (\A c, d \in CPUs : c = d) /\ ~ QuickReuse /\ ~ AllocFails

(* A packet's hook finds a node for its tuple and, for a new mapping, an    *)
(* object and a port that is free.                                          *)
NodeLeft(m) == Nodes # {x.node : x \in mapping[m].items \ DeadItems(m)}

PortLeft(e, a) ==
  \A range \in Ranges : \A start \in Starts(range) :
    ~ Overrides(range, start, {p \in Port : ByExtPort(p, a) # {}}, e.port)

RoomInbound(t) ==
  \A m \in ByExtPort(t.dst.port, t.dst.addr) : NodeLeft(m)

RoomOutbound(t, a) ==
  IF \E m \in ByIntSrc(t.src, a) : Checks(m)
  THEN \A m \in ByIntSrc(t.src, a) : NodeLeft(m)
  ELSE /\ \E m \in Objs : m \in Linked => m \in ByIntSrc(t.src, a)
       /\ Nodes # {}
       /\ PortLeft(t.src, a)

Roomy ==
  \A c \in CPUs : cpu[c] # None =>
    /\ cpu[c].hook = "prerouting" => RoomInbound(cpu[c].orig)
    /\ cpu[c].hook = "postrouting" => \A a \in ExtAddrs : RoomOutbound(cpu[c].orig, a)

OutTuple(t) == t.src \in IntEps /\ t.dst \in Remotes
InTuple(t)  == t.src \in Remotes /\ t.dst \in ExtEps

(* Mapping m of table f is the one between e and x, and lists tuple t.      *)
Serves(f, m, e, x, t) ==
  /\ f[m] # None
  /\ f[m].int = e
  /\ f[m].addr = x.addr /\ f[m].port = x.port
  /\ \E i \in f[m].items : i.tuple = t

(* A conntrack, confirmed or about to be, and the mapping it goes by.       *)
OutServed(f, o, r) ==
  /\ OutTuple(o) /\ r.src = o.dst /\ r.dst \in ExtEps
  /\ \E m \in Objs : Serves(f, m, o.src, r.dst, o)

InServed(f, o, r) ==
  /\ InTuple(o) /\ r.dst = o.src /\ r.src \in IntEps
  /\ \E m \in Objs : Serves(f, m, r.src, o.dst, o)

Served(f, o, r) ==
  OutServed(f, o, r) \/ InServed(f, o, r) \/ (InTuple(o) /\ r = Reverse(o))

(* No two of: live conntracks, dying conntracks and packets, have one       *)
(* original tuple.                                                          *)
Distinct ==
  /\ \A d, e \in conntrack : d.orig = e.orig => d = e
  /\ \A d \in dying, e \in conntrack : d.orig # e.orig
  /\ \A c \in CPUs : cpu[c] # None =>
       ~ Found(cpu[c].orig) /\ \A d \in dying : d.orig # cpu[c].orig

PacketShape ==
  \A c \in CPUs : cpu[c] # None =>
    /\ cpu[c].hook = "prerouting"  => InTuple(cpu[c].orig)
    /\ cpu[c].hook = "postrouting" => OutTuple(cpu[c].orig)
    /\ cpu[c].hook = "confirm" => Served(mapping, cpu[c].orig, cpu[c].reply)

ConeInv ==
  /\ IInv
  /\ \A m \in Objs : mapping[m] # None => mapping[m].int \in IntEps
  /\ \A ct \in conntrack : Served(mapping, ct.orig, ct.reply)
  /\ Distinct
  /\ PacketShape

(* Table f keeps the mappings of live conntracks and the tuples they list.  *)
KeepsLive(f) ==
  \A m \in Linked : \A i \in mapping[m].items :
    Found(i.tuple) => /\ f[m] # None
                      /\ SameEnds(f[m], mapping[m])
                      /\ i \in f[m].items

(* Removing some of a list's tuples, but not all, leaves a positive count.  *)
LEMMA SomeLeft ==
  ASSUME NEW r, Sound(r), NEW D, D \subseteq r.items, NEW i \in r.items \ D
  PROVE  r.refer_count - Cardinality(D) > 0
<1>1. IsFiniteSet(r.items) /\ r.refer_count = Cardinality(r.items)
  BY DEF Sound
<1>2. /\ IsFiniteSet(r.items \ D)
      /\ Cardinality(r.items \ D) = Cardinality(r.items) - Cardinality(r.items \cap D)
  BY <1>1, FS_Difference
<1>3. r.items \cap D = D
  OBVIOUS
<1>4. Cardinality(r.items \ D) \in Nat /\ Cardinality(r.items \ D) # 0
  BY <1>2, FS_CardinalityType, FS_EmptySet
<1>5. r.refer_count - Cardinality(D) = Cardinality(r.items \ D)
  BY <1>1, <1>2, <1>3
<1> QED BY <1>4, <1>5

(* check_mapping spares a mapping that a live conntrack uses.               *)
LEMMA LiveItemKept ==
  ASSUME IInv, NEW m \in Linked, NEW i \in mapping[m].items, Found(i.tuple)
  PROVE  Checks(m) /\ i \in CheckMapping(m).items
<1>1. Sound(mapping[m])
  BY DEF IInv, TableInv, Linked
<1>2. DeadItems(m) \subseteq mapping[m].items /\ i \notin DeadItems(m)
  BY DEF DeadItems
<1>3. Checks(m)
  BY <1>1, <1>2, SomeLeft DEF Checks
<1> QED BY <1>2, <1>3 DEF CheckMapping, Relisted

LEMMA CheckAllKeepsLive ==
  ASSUME IInv, NEW S, S \subseteq Linked
  PROVE  KeepsLive(CheckAll(S))
<1> SUFFICES ASSUME NEW m \in Linked, NEW i \in mapping[m].items, Found(i.tuple)
             PROVE  /\ CheckAll(S)[m] # None
                    /\ SameEnds(CheckAll(S)[m], mapping[m])
                    /\ i \in CheckAll(S)[m].items
  BY DEF KeepsLive
<1>1. m \in Objs /\ mapping[m] # None
  BY DEF Linked
<1>2. CASE m \in S
  <2>1. CheckAll(S)[m] = CheckMapping(m)
    BY <1>1, <1>2 DEF CheckAll
  <2>2. Checks(m) /\ i \in CheckMapping(m).items
    BY LiveItemKept
  <2>3. Sound(CheckMapping(m)) /\ SameEnds(CheckMapping(m), mapping[m])
    BY <2>2, CheckedMapping
  <2>4. CheckMapping(m) # None
    BY <2>3, NatAssumption DEF Sound
  <2> QED BY <2>1, <2>2, <2>3, <2>4
<1>3. CASE m \notin S
  BY <1>1, <1>3 DEF CheckAll, SameEnds
<1> QED BY <1>2, <1>3

(* A live conntrack is still served by a table that keeps what it uses.     *)
LEMMA ServedKept ==
  ASSUME NEW f, KeepsLive(f), NEW ct \in conntrack,
         Served(mapping, ct.orig, ct.reply)
  PROVE  Served(f, ct.orig, ct.reply)
<1>1. ASSUME NEW m \in Objs, NEW e, NEW x, Serves(mapping, m, e, x, ct.orig)
      PROVE  Serves(f, m, e, x, ct.orig)
  <2>1. m \in Linked
    BY <1>1 DEF Serves, Linked
  <2>2. PICK i \in mapping[m].items : i.tuple = ct.orig
    BY <1>1 DEF Serves
  <2>3. Found(i.tuple)
    BY <2>2 DEF Found
  <2>4. f[m] # None /\ SameEnds(f[m], mapping[m]) /\ i \in f[m].items
    BY <2>1, <2>3 DEF KeepsLive
  <2> QED BY <1>1, <2>2, <2>4 DEF Serves, SameEnds
<1> QED BY <1>1 DEF Served, OutServed, InServed

(* With memory, add_original_tuple_to_mapping lists the tuple.              *)
LEMMA TupleListed ==
  ASSUME OneByOne, NEW r, Sound(r), Nodes # {x.node : x \in r.items},
         NEW t \in Tuple, NEW s \in WithTuple(r, t)
  PROVE  /\ Sound(s) /\ SameEnds(s, r)
         /\ r.items \subseteq s.items
         /\ \E i \in s.items : i.tuple = t
<1>1. Sound(s) /\ SameEnds(s, r)
  BY AddTuple
<1>2. Nodes \ {x.node : x \in r.items} # {}
  BY DEF Sound, Mapping, Item
<1>3. PICK n \in Nodes : s = Relisted(r, r.items \cup {[node |-> n, tuple |-> t]}, r.refer_count + 1)
  BY <1>2 DEF WithTuple, OneByOne
<1> DEFINE i == [node |-> n, tuple |-> t]
<1>4. s.items = r.items \cup {i} /\ i.tuple = t
  BY <1>3 DEF Relisted
<1> QED BY <1>1, <1>4

(* A tuple is listed in a mapping that passed its check.                    *)
LEMMA ListTupleServes ==
  ASSUME IInv, OneByOne, NEW f, KeepsLive(f), f \in [Objs -> Mapping \cup {None}],
         NEW m \in Linked, Checks(m), NodeLeft(m), NEW t \in Tuple,
         NEW r \in WithTuple(CheckMapping(m), t)
  PROVE  /\ KeepsLive([f EXCEPT ![m] = r])
         /\ Serves([f EXCEPT ![m] = r], m, mapping[m].int,
                   [addr |-> mapping[m].addr, port |-> mapping[m].port], t)
<1> DEFINE g == [f EXCEPT ![m] = r]
<1>1. Sound(CheckMapping(m)) /\ SameEnds(CheckMapping(m), mapping[m])
  BY CheckedMapping
<1>2. CheckMapping(m).items = mapping[m].items \ DeadItems(m)
  BY DEF CheckMapping, Relisted
<1>3. Nodes # {x.node : x \in CheckMapping(m).items}
  BY <1>2 DEF NodeLeft
<1>4. /\ Sound(r) /\ SameEnds(r, CheckMapping(m))
      /\ CheckMapping(m).items \subseteq r.items
      /\ \E i \in r.items : i.tuple = t
  BY <1>1, <1>3, TupleListed
<1>5. r # None /\ SameEnds(r, mapping[m])
  BY <1>1, <1>4, NatAssumption DEF Sound, SameEnds
<1>6. m \in Objs /\ g[m] = r /\ \A n \in Objs : n # m => g[n] = f[n]
  BY DEF Linked
<1>7. ASSUME NEW n \in Linked, NEW i \in mapping[n].items, Found(i.tuple)
      PROVE  g[n] # None /\ SameEnds(g[n], mapping[n]) /\ i \in g[n].items
  <2>1. CASE n = m
    <3>1. i \in CheckMapping(m).items
      BY <1>7, <2>1, LiveItemKept
    <3> HIDE DEF g
    <3> QED BY <1>4, <1>5, <1>6, <2>1, <3>1
  <2>2. CASE n # m
    <3> HIDE DEF g
    <3> QED BY <1>6, <1>7, <2>2 DEF KeepsLive, Linked
  <2> QED BY <2>1, <2>2
<1>8. KeepsLive(g)
  <2> HIDE DEF g
  <2> QED BY <1>7 DEF KeepsLive
<1>9. Serves(g, m, mapping[m].int, [addr |-> mapping[m].addr, port |-> mapping[m].port], t)
  <2> HIDE DEF g
  <2> QED BY <1>4, <1>5, <1>6 DEF Serves, SameEnds
<1> QED BY <1>8, <1>9

(* A new mapping takes a free object and no live conntrack's.               *)
LEMMA AllocateServes ==
  ASSUME OneByOne, Nodes # {}, NEW f \in [Objs -> Mapping \cup {None}], KeepsLive(f),
         \E m \in Objs : f[m] = None,
         NEW a \in ExtAddrs, NEW p \in Port, NEW t \in Tuple,
         NEW g \in Allocated(f, a, p, t)
  PROVE  /\ KeepsLive(g)
         /\ \E m \in Objs : Serves(g, m, t.src, [addr |-> a, port |-> p], t)
         /\ \A m \in Objs : g[m] # None => g[m].int = t.src \/ g[m] = f[m]
<1>1. g \in {[f EXCEPT ![m] = r] : m \in {k \in Objs : f[k] = None},
                                   r \in WithTuple(NewMapping(a, p, t.src), t)}
  BY DEF Allocated, OneByOne
<1>2. PICK m \in Objs, r \in WithTuple(NewMapping(a, p, t.src), t) :
        f[m] = None /\ g = [f EXCEPT ![m] = r]
  BY <1>1
<1>3. Sound(NewMapping(a, p, t.src)) /\ Nodes # {x.node : x \in NewMapping(a, p, t.src).items}
  BY FS_EmptySet DEF NewMapping, Sound, Mapping, Tuple
<1>4. /\ Sound(r) /\ SameEnds(r, NewMapping(a, p, t.src))
      /\ \E i \in r.items : i.tuple = t
  BY <1>3, TupleListed
<1>5. r.addr = a /\ r.port = p /\ r.int = t.src /\ r # None
  BY <1>4, NatAssumption DEF Sound, SameEnds, NewMapping
<1>6. g[m] = r /\ \A n \in Objs : n # m => g[n] = f[n]
  BY <1>2
<1>7. KeepsLive(g)
  BY <1>2, <1>6 DEF KeepsLive, Linked
<1> QED BY <1>4, <1>5, <1>6, <1>7 DEF Serves

(* Where a hook leaves the table and its packet.                            *)
HookServes(c) ==
  /\ KeepsLive(mapping')
  /\ \A m \in Objs : mapping'[m] # None => mapping'[m].int \in IntEps
  /\ \/ Dropped(c)
     \/ \E reply \in Tuple : Accepted(c, reply) /\ Served(mapping', cpu[c].orig, reply)

LEMMA HookStep ==
  ASSUME ConeInv, OneByOne, NEW c \in CPUs, cpu[c] # None, IInv', HookServes(c),
         UNCHANGED <<conntrack, dying, gc_queued, gc_locked>>
  PROVE  ConeInv'
<1>1. \A d \in CPUs : d = c
  BY DEF OneByOne
<1>2. \A ct \in conntrack' : Served(mapping', ct.orig, ct.reply)
  BY ServedKept DEF HookServes, ConeInv
<1>3. cpu'[c] # None =>
        /\ cpu'[c].hook = "confirm" /\ cpu'[c].orig = cpu[c].orig
        /\ Served(mapping', cpu'[c].orig, cpu'[c].reply)
  BY DEF HookServes, Dropped, Accepted, ConeInv, IInv, TypeOK
<1>4. Distinct'
  BY <1>1, <1>3 DEF Distinct, ConeInv, Found
<1>5. PacketShape'
  BY <1>1, <1>3 DEF PacketShape
<1> QED BY <1>2, <1>4, <1>5 DEF ConeInv, HookServes

(* A packet that enters has no conntrack, live or dying, of its tuple.      *)
LEMMA ArriveCone ==
  ASSUME ConeInv, OneByOne, NEW c \in CPUs, ArriveOutbound(c) \/ ArriveInbound(c), IInv'
  PROVE  ConeInv'
<1>1. \E h \in {"prerouting", "postrouting"}, t \in Tuple :
        /\ Arrive(c, h, t)
        /\ h = "postrouting" => OutTuple(t)
        /\ h = "prerouting" => InTuple(t)
  <2>1. CASE ArriveOutbound(c)
    BY <2>1, EndpointType DEF ArriveOutbound, OutTuple, Tuple
  <2>2. CASE ArriveInbound(c)
    <3>1. \A a \in ExtAddrs, p \in Port : [addr |-> a, port |-> p] \in ExtEps \cap Endpoint
      BY DEF ExtEps, Endpoint
    <3> QED BY <2>2, <3>1, EndpointType DEF ArriveInbound, InTuple, Tuple
  <2> QED BY <2>1, <2>2
<1>2. PICK h \in {"prerouting", "postrouting"}, t \in Tuple :
        /\ Arrive(c, h, t)
        /\ h = "postrouting" => OutTuple(t)
        /\ h = "prerouting" => InTuple(t)
  BY <1>1
<1>3. \A d \in CPUs : d = c
  BY DEF OneByOne
<1>4. cpu'[c] = Packet(h, t)
  BY <1>2 DEF Arrive, ConeInv, IInv, TypeOK
<1>5. cpu'[c].hook = h /\ cpu'[c].orig = t
  BY <1>4 DEF Packet
<1>6. Distinct'
  BY <1>2, <1>3, <1>5 DEF Arrive, Distinct, ConeInv, Found, OneByOne
<1>7. PacketShape'
  BY <1>2, <1>3, <1>5 DEF PacketShape
<1> QED BY <1>2, <1>6, <1>7 DEF Arrive, ConeInv

(* The inbound hook serves the packet by the mapping it finds.              *)
LEMMA PreroutingCone ==
  ASSUME ConeInv, OneByOne, Roomy, NEW c \in CPUs, Prerouting(c), IInv'
  PROVE  ConeInv'
<1> DEFINE t == cpu[c].orig
           match == ByExtPort(t.dst.port, t.dst.addr)
<1>1. cpu[c] # None /\ t \in Tuple /\ InTuple(t)
  BY DEF Prerouting, ConeInv, IInv, TypeOK, PacketShape
<1>2. PICK walk \in Walks({t.dst.port}, t.dst.addr) :
        \/ mapping' = CheckAll(walk) /\ Accepted(c, Reverse(t))
        \/ \E m \in match : \E r \in WithTuple(CheckMapping(m), t) :
             /\ mapping' = [CheckAll(walk) EXCEPT ![m] = r]
             /\ Accepted(c, [src |-> mapping[m].int, dst |-> t.src])
        \/ mapping' = CheckAll(walk) /\ Dropped(c)
  BY DEF Prerouting
<1>3. Prunes(CheckAll(walk)) /\ KeepsLive(CheckAll(walk))
  <2>1. walk \subseteq Linked
    BY DEF Walks, AtPort
  <2> QED BY <2>1, CheckAllPrunes, CheckAllKeepsLive DEF ConeInv
<1>4. CASE mapping' = CheckAll(walk) /\ (Accepted(c, Reverse(t)) \/ Dropped(c))
  <2>1. \A m \in Objs : mapping'[m] # None => mapping'[m].int \in IntEps
    BY <1>3, <1>4 DEF Prunes, SameEnds, ConeInv
  <2>2. Reverse(t) \in Tuple /\ Served(mapping', t, Reverse(t))
    BY <1>1 DEF Reverse, Tuple, Served
  <2>3. HookServes(c)
    BY <1>3, <1>4, <2>1, <2>2 DEF HookServes
  <2> QED BY <1>1, <2>3, HookStep DEF Prerouting
<1>5. ASSUME NEW m \in match, NEW r \in WithTuple(CheckMapping(m), t),
             mapping' = [CheckAll(walk) EXCEPT ![m] = r],
             Accepted(c, [src |-> mapping[m].int, dst |-> t.src])
      PROVE  ConeInv'
  <2>1. /\ m \in Linked /\ Checks(m) /\ NodeLeft(m)
        /\ mapping[m].addr = t.dst.addr /\ mapping[m].port = t.dst.port
    BY <1>1 DEF ByExtPort, AtPort, Roomy, RoomInbound, Prerouting
  <2> DEFINE g == [CheckAll(walk) EXCEPT ![m] = r]
  <2>2. /\ KeepsLive(g)
        /\ Serves(g, m, mapping[m].int, [addr |-> mapping[m].addr, port |-> mapping[m].port], t)
    BY <1>1, <1>3, <2>1, ListTupleServes DEF Prunes, ConeInv
  <2>3. Prunes(g)
    BY <1>1, <1>3, <2>1, ListTuplePrunes DEF ConeInv
  <2>4. m \in Objs /\ mapping[m].int \in IntEps
    BY <2>1 DEF Linked, ConeInv
  <2>5. [src |-> mapping[m].int, dst |-> t.src] \in Tuple
    BY <1>1, <2>4, EndpointType DEF Tuple
  <2> HIDE DEF g
  <2>6. Serves(g, m, mapping[m].int, t.dst, t)
    BY <2>1, <2>2 DEF Serves
  <2>7. InServed(g, t, [src |-> mapping[m].int, dst |-> t.src])
    BY <1>1, <2>4, <2>6 DEF InServed
  <2>8. \A n \in Objs : g[n] # None => g[n].int \in IntEps
    BY <2>3 DEF Prunes, SameEnds, ConeInv
  <2>9. mapping' = g
    BY <1>5 DEF g
  <2>10. HookServes(c)
    BY <1>5, <2>2, <2>5, <2>7, <2>8, <2>9 DEF HookServes, Served
  <2> QED BY <1>1, <2>10, HookStep DEF Prerouting
<1> QED BY <1>2, <1>4, <1>5

(* The outbound hook serves the packet by the mapping it reuses.            *)
LEMMA ReuseMappingServes ==
  ASSUME ConeInv, OneByOne, Roomy, NEW c \in CPUs, NEW a \in ExtAddrs,
         cpu[c] # None, cpu[c].hook = "postrouting", ReuseMapping(c, a)
  PROVE  HookServes(c)
<1> DEFINE t == cpu[c].orig
<1>1. t \in Tuple /\ OutTuple(t)
  BY DEF ConeInv, IInv, TypeOK, PacketShape
<1>2. PICK m \in ByIntSrc(t.src, a) :
        /\ Checks(m)
        /\ \/ \E r \in WithTuple(CheckMapping(m), t) :
                /\ mapping' = [mapping EXCEPT ![m] = r]
                /\ Accepted(c, [src |-> t.dst, dst |-> [addr |-> a, port |-> mapping[m].port]])
           \/ /\ mapping' = [mapping EXCEPT ![m] = CheckMapping(m)]
              /\ Dropped(c)
  BY DEF ReuseMapping
<1>3. /\ m \in Linked /\ mapping[m].port \in Port
      /\ mapping[m].int = t.src /\ mapping[m].addr = a
  BY DEF ByIntSrc, Linked, ConeInv, IInv, TableInv, Sound, Mapping
<1>4. Prunes(mapping) /\ KeepsLive(mapping) /\ mapping \in [Objs -> Mapping \cup {None}]
  BY DEF Prunes, KeepsLive, Linked, SameEnds, ConeInv, IInv, TableInv
<1>5. ASSUME NEW r \in WithTuple(CheckMapping(m), t),
             mapping' = [mapping EXCEPT ![m] = r],
             Accepted(c, [src |-> t.dst, dst |-> [addr |-> a, port |-> mapping[m].port]])
      PROVE  HookServes(c)
  <2> DEFINE g == [mapping EXCEPT ![m] = r]
             x == [addr |-> a, port |-> mapping[m].port]
  <2>1. NodeLeft(m)
    BY <1>2 DEF Roomy, RoomOutbound
  <2>2. KeepsLive(g) /\ Serves(g, m, t.src, x, t)
    BY <1>1, <1>2, <1>3, <1>4, <2>1, ListTupleServes DEF ConeInv
  <2>3. Prunes(g)
    BY <1>1, <1>2, <1>3, <1>4, ListTuplePrunes DEF ConeInv
  <2>4. x \in ExtEps /\ [src |-> t.dst, dst |-> x] \in Tuple
    BY <1>1, <1>3 DEF ExtEps, Tuple, Endpoint
  <2>5. mapping' = g /\ m \in Objs /\ Accepted(c, [src |-> t.dst, dst |-> x])
    BY <1>3, <1>5 DEF Linked
  <2> HIDE DEF g, x
  <2>6. OutServed(g, t, [src |-> t.dst, dst |-> x])
    BY <1>1, <2>2, <2>4, <2>5 DEF OutServed
  <2>7. \A n \in Objs : g[n] # None => g[n].int \in IntEps
    BY <2>3 DEF Prunes, SameEnds, ConeInv
  <2> QED BY <2>2, <2>4, <2>5, <2>6, <2>7 DEF HookServes, Served
<1>6. ASSUME mapping' = [mapping EXCEPT ![m] = CheckMapping(m)], Dropped(c)
      PROVE  HookServes(c)
  <2>1. mapping' = CheckAll({m})
    BY <1>6 DEF CheckAll, ConeInv, IInv, TableInv
  <2>2. Prunes(CheckAll({m})) /\ KeepsLive(CheckAll({m}))
    BY <1>3, CheckAllPrunes, CheckAllKeepsLive DEF ConeInv
  <2>3. \A n \in Objs : mapping'[n] # None => mapping'[n].int \in IntEps
    BY <2>1, <2>2 DEF Prunes, SameEnds, ConeInv
  <2> QED BY <1>6, <2>1, <2>2, <2>3 DEF HookServes
<1> QED BY <1>2, <1>5, <1>6

(* The outbound hook serves the packet by a new mapping at a free port.     *)
LEMMA FindMappingServes ==
  ASSUME ConeInv, OneByOne, Roomy, NEW c \in CPUs, NEW a \in ExtAddrs,
         cpu[c] # None, cpu[c].hook = "postrouting", FindMapping(c, a)
  PROVE  HookServes(c)
<1>1. PICK range \in Ranges : \E start \in Starts(range) : FindPort(c, a, range, start)
  BY DEF FindMapping
<1>2. PICK start \in Starts(range) : FindPort(c, a, range, start)
  BY <1>1
<1> DEFINE t      == cpu[c].orig
           busy   == {p \in Port : ByExtPort(p, a) # {}}
           probed == ProbedPorts(range, start, busy, t.src.port)
           port   == AppropriatePort(range, start, busy, t.src.port)
<1>3. t \in Tuple /\ OutTuple(t) /\ t.src.port \in Port
  BY DEF ConeInv, IInv, TypeOK, PacketShape, Tuple, Endpoint
<1>4. \A m \in ByIntSrc(t.src, a) : ~ Checks(m)
  BY DEF FindMapping
<1>5. /\ \E m \in Objs : m \in Linked => m \in ByIntSrc(t.src, a)
      /\ Nodes # {}
      /\ ~ Overrides(range, start, busy, t.src.port)
  BY <1>4 DEF Roomy, RoomOutbound, PortLeft
<1>6. port \in Port
  <2>1. range \in PortRange /\ busy \in SUBSET Port
    BY NatAssumption
  <2> HIDE DEF t, busy
  <2> QED BY <1>3, <2>1, AppropriatePortIsVacant DEF t
<1>7. PICK walk \in Walks(probed, a) :
        LET checked == CheckAll(ByIntSrc(t.src, a) \cup walk)
            table == [m \in Objs |-> IF m \in {} THEN None ELSE checked[m]]
        IN \/ /\ mapping' \in Allocated(table, a, port, t)
              /\ Accepted(c, [src |-> t.dst, dst |-> [addr |-> a, port |-> port]])
           \/ /\ mapping' = table
              /\ Dropped(c)
  BY <1>2, <1>5 DEF FindPort
<1> DEFINE looked == ByIntSrc(t.src, a) \cup walk
           f == CheckAll(looked)
<1>8. [m \in Objs |-> IF m \in {} THEN None ELSE f[m]] = f
  BY DEF CheckAll
<1>9. \/ /\ mapping' \in Allocated(f, a, port, t)
         /\ Accepted(c, [src |-> t.dst, dst |-> [addr |-> a, port |-> port]])
      \/ mapping' = f /\ Dropped(c)
  BY <1>7, <1>8
<1>10. looked \subseteq Linked
  BY DEF ByIntSrc, AtPort, Walks
<1>11. Prunes(f) /\ KeepsLive(f)
  <2> HIDE DEF looked
  <2> QED BY <1>10, CheckAllPrunes, CheckAllKeepsLive DEF ConeInv
<1>12. \E m \in Objs : f[m] = None
  <2>1. PICK m \in Objs : m \in Linked => m \in ByIntSrc(t.src, a)
    BY <1>5
  <2>2. CASE m \in Linked
    BY <1>4, <2>1, <2>2 DEF CheckAll, CheckMapping
  <2>3. CASE m \notin Linked
    <3>1. m \notin looked /\ mapping[m] = None
      BY <1>10, <2>3 DEF Linked
    <3> QED BY <3>1 DEF CheckAll
  <2> QED BY <2>2, <2>3
<1>13. \A m \in Objs : f[m] # None => f[m].int \in IntEps
  <2> HIDE DEF f
  <2> QED BY <1>11 DEF Prunes, SameEnds, ConeInv
<1>14. CASE mapping' \in Allocated(f, a, port, t) /\
            Accepted(c, [src |-> t.dst, dst |-> [addr |-> a, port |-> port]])
  <2> DEFINE x == [addr |-> a, port |-> port]
  <2>1. f \in [Objs -> Mapping \cup {None}]
    BY <1>11 DEF Prunes
  <2>2. PICK g \in Allocated(f, a, port, t) : mapping' = g
    BY <1>14
  <2>3. /\ KeepsLive(g)
        /\ \E m \in Objs : Serves(g, m, t.src, x, t)
        /\ \A m \in Objs : g[m] # None => g[m].int = t.src \/ g[m] = f[m]
    <3> HIDE DEF f, t, port
    <3> QED BY <1>3, <1>5, <1>6, <1>11, <1>12, <2>1, AllocateServes
  <2>4. x \in ExtEps /\ [src |-> t.dst, dst |-> x] \in Tuple
    <3> HIDE DEF port
    <3> QED BY <1>3, <1>6 DEF ExtEps, Tuple, Endpoint
  <2>5. Accepted(c, [src |-> t.dst, dst |-> x])
    BY <1>14
  <2> HIDE DEF f, x, port, t
  <2>6. OutServed(g, t, [src |-> t.dst, dst |-> x])
    BY <1>3, <2>3, <2>4 DEF OutServed
  <2>7. \A n \in Objs : g[n] # None => g[n].int \in IntEps
    BY <1>3, <1>13, <2>3 DEF OutTuple
  <2> QED BY <2>2, <2>3, <2>4, <2>5, <2>6, <2>7 DEF HookServes, Served, t
<1>15. CASE mapping' = f /\ Dropped(c)
  <2> HIDE DEF f
  <2> QED BY <1>11, <1>13, <1>15 DEF HookServes
<1> QED BY <1>9, <1>14, <1>15

LEMMA PostroutingCone ==
  ASSUME ConeInv, OneByOne, Roomy, NEW c \in CPUs, Postrouting(c), IInv'
  PROVE  ConeInv'
<1>1. cpu[c] # None /\ cpu[c].hook = "postrouting"
  BY DEF Postrouting
<1>2. HookServes(c)
  <2>1. CASE \E a \in ExtAddrs : ReuseMapping(c, a) \/ FindMapping(c, a)
    BY <1>1, <2>1, ReuseMappingServes, FindMappingServes
  <2>2. CASE mapping' = mapping /\ Dropped(c)
    <3>1. KeepsLive(mapping)
      BY DEF KeepsLive, Linked, SameEnds
    <3> QED BY <2>2, <3>1 DEF HookServes, ConeInv
  <2> QED BY <2>1, <2>2 DEF Postrouting
<1> QED BY <1>1, <1>2, HookStep DEF Postrouting

(* A confirmed conntrack was served by its hook, and nothing since then     *)
(* touched its mapping.                                                     *)
LEMMA ConfirmCone ==
  ASSUME ConeInv, OneByOne, NEW c \in CPUs, Confirm(c) \/ DropUnconfirmed(c), IInv'
  PROVE  ConeInv'
<1>1. \A d \in CPUs : d = c
  BY DEF OneByOne
<1>2. cpu'[c] = None /\ UNCHANGED <<mapping, dying>>
  BY DEF Confirm, DropUnconfirmed, Dropped, ConeInv, IInv, TypeOK
<1> DEFINE ct == [orig |-> cpu[c].orig, reply |-> cpu[c].reply]
<1>3. CASE conntrack' = conntrack
  BY <1>1, <1>2, <1>3 DEF ConeInv, Distinct, PacketShape
<1>4. CASE conntrack' = conntrack \cup {ct} /\ ~ Found(ct.orig) /\ Confirm(c)
  <2>1. Served(mapping, ct.orig, ct.reply)
    BY <1>4 DEF Confirm, ConeInv, PacketShape
  <2>2. \A d \in conntrack : d.orig # ct.orig
    BY <1>4 DEF Found
  <2>3. \A d \in dying : d.orig # ct.orig
    BY <1>4 DEF Confirm, ConeInv, Distinct
  <2>4. \A e \in conntrack' : e = ct \/ e \in conntrack
    BY <1>4
  <2> HIDE DEF ct
  <2>5. Distinct'
    BY <1>1, <1>2, <2>2, <2>3, <2>4 DEF ConeInv, Distinct
  <2>6. PacketShape'
    BY <1>1, <1>2 DEF PacketShape
  <2> QED BY <1>2, <2>1, <2>4, <2>5, <2>6 DEF ConeInv
<1> QED BY <1>3, <1>4 DEF Confirm, DropUnconfirmed

LEMMA DestroyCone ==
  ASSUME ConeInv, OneByOne, NEW ct \in conntrack, Destroy(ct), IInv'
  PROVE  ConeInv'
<1>1. /\ UNCHANGED <<mapping, cpu>>
      /\ conntrack' = conntrack \ {ct} /\ dying' = dying \cup {ct}
  BY DEF Destroy, OneByOne
<1>2. Distinct'
  <2>1. \A d \in dying', e \in conntrack' : d.orig # e.orig
    BY <1>1 DEF ConeInv, Distinct
  <2>2. ASSUME NEW c \in CPUs, cpu'[c] # None
        PROVE  ~ Found(cpu[c].orig)' /\ \A d \in dying' : d.orig # cpu'[c].orig
    BY <1>1, <2>2 DEF ConeInv, Distinct, Found
  <2> QED BY <1>1, <2>1, <2>2 DEF ConeInv, Distinct
<1>3. PacketShape'
  BY <1>1 DEF ConeInv, PacketShape
<1> QED BY <1>1, <1>2, <1>3 DEF ConeInv

(* The collector frees the tuples of a dead conntrack: those of live ones   *)
(* and of the packet that was served are others.                            *)
LEMMA HandleDyingCone ==
  ASSUME ConeInv, NEW ct \in dying, HandleDying(ct), IInv'
  PROVE  ConeInv'
<1>1. /\ UNCHANGED <<cpu, conntrack>>
      /\ dying' = dying \ {ct}
      /\ mapping' = [m \in Objs |-> IF m \in DyingMapping(ct) THEN WithoutTuple(m, ct.orig)
                                                            ELSE mapping[m]]
  BY DEF HandleDying
<1>2. ASSUME NEW t, t # ct.orig, NEW m \in Objs, NEW e, NEW x, Serves(mapping, m, e, x, t)
      PROVE  Serves(mapping', m, e, x, t)
  <2>1. CASE m \notin DyingMapping(ct)
    BY <1>1, <1>2, <2>1 DEF Serves
  <2>2. CASE m \in DyingMapping(ct)
    <3> DEFINE D == {i \in mapping[m].items : i.tuple = ct.orig}
               n == mapping[m].refer_count - Cardinality(D)
               r == Relisted(mapping[m], mapping[m].items \ D, n)
    <3>1. PICK i \in mapping[m].items : i.tuple = t
      BY <1>2 DEF Serves
    <3>2. Sound(mapping[m]) /\ i \in mapping[m].items \ D /\ D \subseteq mapping[m].items
      BY <1>2, <3>1 DEF Serves, ConeInv, IInv, TableInv
    <3>3. n > 0 /\ n \in Int
      <4>1. n > 0
        BY <3>2, SomeLeft
      <4>2. mapping[m].refer_count \in Int /\ Cardinality(D) \in Nat
        BY <3>2, FS_Subset, FS_CardinalityType DEF Sound, Mapping
      <4> QED BY <4>1, <4>2
    <3>4. Sound(r) /\ SameEnds(r, mapping[m])
      BY <3>2, WithoutItems
    <3>5. WithoutTuple(m, ct.orig) = r
      <4> HIDE DEF r
      <4>1. ~ (n <= 0)
        BY <3>3
      <4> QED BY <4>1 DEF WithoutTuple, r
    <3>6. mapping'[m] = r
      BY <1>1, <2>2, <3>5
    <3>7. i \in r.items /\ r # None
      BY <3>2, <3>4, NatAssumption DEF Relisted, Sound
    <3> HIDE DEF r
    <3> QED BY <1>2, <3>1, <3>4, <3>6, <3>7 DEF Serves, SameEnds
  <2> QED BY <2>1, <2>2
<1>3. ASSUME NEW t, t # ct.orig, NEW r, Served(mapping, t, r)
      PROVE  Served(mapping', t, r)
  BY <1>2, <1>3 DEF Served, OutServed, InServed
<1>4. ASSUME NEW m \in Objs, mapping'[m] # None
      PROVE  mapping'[m].int \in IntEps
  <2>1. CASE m \notin DyingMapping(ct)
    BY <1>1, <1>4, <2>1 DEF ConeInv
  <2>2. CASE m \in DyingMapping(ct)
    <3>1. mapping'[m] = WithoutTuple(m, ct.orig) /\ mapping[m] # None
      BY <1>1, <2>2 DEF DyingMapping, ByIntSrc, Linked
    <3> QED BY <1>4, <3>1 DEF WithoutTuple, Relisted, ConeInv
  <2> QED BY <2>1, <2>2
<1>5. \A e \in conntrack : Served(mapping', e.orig, e.reply)
  BY <1>3 DEF ConeInv, Distinct
<1>6. PacketShape'
  BY <1>1, <1>3 DEF PacketShape, ConeInv, Distinct
<1>7. Distinct'
  BY <1>1 DEF Distinct, ConeInv, Found
<1> QED BY <1>1, <1>4, <1>5, <1>6, <1>7 DEF ConeInv

LEMMA NextConeInv ==
  ASSUME OneByOne, Roomy, ConeInv, [Next]_vars
  PROVE  ConeInv'
<1>1. IInv'
  BY NextIInv DEF ConeInv
<1>2. ASSUME NEW c \in CPUs,
             \/ ArriveOutbound(c) \/ ArriveInbound(c)
             \/ Prerouting(c) \/ Postrouting(c)
             \/ Confirm(c) \/ DropUnconfirmed(c)
      PROVE  ConeInv'
  BY <1>1, <1>2, ArriveCone, PreroutingCone, PostroutingCone, ConfirmCone
<1>3. ASSUME NEW ct \in conntrack, Destroy(ct)
      PROVE  ConeInv'
  BY <1>1, <1>3, DestroyCone
<1>4. ASSUME NEW ct \in dying, HandleDying(ct)
      PROVE  ConeInv'
  BY <1>1, <1>4, HandleDyingCone
<1>5. CASE GcStart \/ GcEnd \/ UNCHANGED vars
  <2>1. UNCHANGED <<mapping, conntrack, cpu, dying>>
    BY <1>5 DEF GcStart, GcEnd, vars
  <2> QED BY <1>1, <2>1 DEF ConeInv, Distinct, PacketShape, Found
<1> QED BY <1>2, <1>3, <1>4, <1>5 DEF Next

LEMMA InitConeInv == Init => ConeInv
BY InitIInv DEF Init, ConeInv, Distinct, PacketShape

(* The flow of a translated conntrack.                                      *)
FlowOf(ct) ==
  IF ct.orig.src \in IntEps
  THEN [int |-> ct.orig.src, ext |-> ct.reply.dst, remote |-> ct.orig.dst]
  ELSE [int |-> ct.reply.src, ext |-> ct.orig.dst, remote |-> ct.orig.src]

Translated(C) == {ct \in C : ct.orig.src \in IntEps \/ ct.reply.src \in IntEps}

FlowsOf(C) == {FlowOf(ct) : ct \in Translated(C)}

(* A served conntrack is translated in one direction or not at all.         *)
LEMMA ServedFlow ==
  ASSUME Topology, NEW f, NEW o, NEW r, Served(f, o, r),
         NEW ct, ct.orig = o, ct.reply = r
  PROVE  /\ ~ (o.src \in IntEps /\ r.src \in IntEps)
         /\ ct \in Translated({ct}) =>
              /\ FlowOf(ct) \in Abstract!Flow
              /\ \E m \in Objs : Serves(f, m, FlowOf(ct).int, FlowOf(ct).ext, o)
<1>1. CASE OutServed(f, o, r)
  BY <1>1 DEF OutServed, OutTuple, Topology, Translated, FlowOf, Abstract!Flow, ExtEps
<1>2. CASE InServed(f, o, r)
  BY <1>2 DEF InServed, InTuple, Topology, Translated, FlowOf, Abstract!Flow, ExtEps
<1>3. CASE InTuple(o) /\ r = Reverse(o)
  BY <1>3 DEF InTuple, Reverse, Topology, Translated, ExtEps
<1> QED BY <1>1, <1>2, <1>3 DEF Served

LEMMA FlowsAreFlowsOf ==
  ASSUME Topology, NEW f, NEW C, \A ct \in C : Served(f, ct.orig, ct.reply)
  PROVE  FlowsOf(C) =
           {[int |-> ct.orig.src, ext |-> ct.reply.dst, remote |-> ct.orig.dst] :
              ct \in {d \in C : d.orig.src \in IntEps}}
           \cup
           {[int |-> ct.reply.src, ext |-> ct.orig.dst, remote |-> ct.orig.src] :
              ct \in {d \in C : d.reply.src \in IntEps}}
<1>1. \A ct \in C : ~ (ct.orig.src \in IntEps /\ ct.reply.src \in IntEps)
  BY ServedFlow
<1> QED BY <1>1 DEF FlowsOf, Translated, FlowOf

LEMMA ConeFlows ==
  ASSUME Topology, ConeInv
  PROVE  Flows = FlowsOf(conntrack)
BY FlowsAreFlowsOf DEF ConeInv, Flows, Outbound, Inbound

LEMMA ConeFlowsNext ==
  ASSUME Topology, ConeInv'
  PROVE  Flows' = FlowsOf(conntrack')
<1>1. \A ct \in conntrack' : Served(mapping', ct.orig, ct.reply)
  BY DEF ConeInv
<1> QED BY <1>1, FlowsAreFlowsOf DEF Flows, Outbound, Inbound

(* The bindings a table f stands for.                                       *)
BindingsOf(f) ==
  {[int |-> f[m].int, ext |-> [addr |-> f[m].addr, port |-> f[m].port]] :
     m \in {k \in Objs : f[k] # None}}

LEMMA BindingsFit ==
  ASSUME NEW f, TableInv(f), \A m \in Objs : f[m] # None => f[m].int \in IntEps
  PROVE  /\ BindingsOf(f) \in SUBSET Abstract!Binding
         /\ \A b, c \in BindingsOf(f) : Abstract!Compatible(b, c)
<1>1. \A m \in Objs : f[m] # None => f[m].addr \in ExtAddrs /\ f[m].port \in Port
  BY DEF TableInv, Sound, Mapping
<1>2. BindingsOf(f) \in SUBSET Abstract!Binding
  BY <1>1 DEF BindingsOf, Abstract!Binding
<1>3. ASSUME NEW b \in BindingsOf(f), NEW c \in BindingsOf(f)
      PROVE  Abstract!Compatible(b, c)
  <2>1. PICK m \in Objs : f[m] # None /\ b = [int |-> f[m].int, ext |-> [addr |-> f[m].addr, port |-> f[m].port]]
    BY DEF BindingsOf
  <2>2. PICK n \in Objs : f[n] # None /\ c = [int |-> f[n].int, ext |-> [addr |-> f[n].addr, port |-> f[n].port]]
    BY DEF BindingsOf
  <2>3. (f[m].addr = f[n].addr /\ (f[m].port = f[n].port \/ f[m].int = f[n].int)) => m = n
    BY <2>1, <2>2 DEF TableInv
  <2>4. b.ext = c.ext => f[m].addr = f[n].addr /\ f[m].port = f[n].port
    BY <2>1, <2>2
  <2>5. b.int = c.int /\ b.ext.addr = c.ext.addr => f[m].addr = f[n].addr /\ f[m].int = f[n].int
    BY <2>1, <2>2
  <2> QED BY <2>1, <2>2, <2>3, <2>4, <2>5 DEF Abstract!Compatible
<1> QED BY <1>2, <1>3

(* A flow of a served conntrack has its binding in the table.               *)
LEMMA ServedBound ==
  ASSUME Topology, NEW f, NEW ct, Served(f, ct.orig, ct.reply), ct \in Translated({ct})
  PROVE  /\ FlowOf(ct) \in Abstract!Flow
         /\ Abstract!BindingOf(FlowOf(ct)) \in BindingsOf(f)
<1>1. /\ FlowOf(ct) \in Abstract!Flow
      /\ \E m \in Objs : Serves(f, m, FlowOf(ct).int, FlowOf(ct).ext, ct.orig)
  BY ServedFlow
<1>2. PICK m \in Objs : Serves(f, m, FlowOf(ct).int, FlowOf(ct).ext, ct.orig)
  BY <1>1
<1>3. FlowOf(ct).ext = [addr |-> FlowOf(ct).ext.addr, port |-> FlowOf(ct).ext.port]
  BY <1>1 DEF Abstract!Flow
<1> QED BY <1>1, <1>2, <1>3 DEF Serves, BindingsOf, Abstract!BindingOf

(* Every live flow has its binding.                                         *)
LEMMA FlowsBound ==
  ASSUME Topology, NEW f, NEW C, \A ct \in C : Served(f, ct.orig, ct.reply)
  PROVE  \A x \in FlowsOf(C) :
           x \in Abstract!Flow /\ Abstract!BindingOf(x) \in BindingsOf(f)
<1> SUFFICES ASSUME NEW ct \in Translated(C)
             PROVE  /\ FlowOf(ct) \in Abstract!Flow
                    /\ Abstract!BindingOf(FlowOf(ct)) \in BindingsOf(f)
  BY DEF FlowsOf
<1> QED BY ServedBound DEF Translated

LEMMA BindingsAreBindingsOf ==
  /\ Bindings = BindingsOf(mapping)
  /\ Bindings' = BindingsOf(mapping')
BY DEF Bindings, BindingsOf, Linked

(* Hooks and the collector rebind, and keep the bindings that flows use.    *)
LEMMA TableStep ==
  ASSUME Topology, ConeInv, ConeInv', conntrack' = conntrack
  PROVE  Abstract!Rebind
<1>1. Flows' = Flows /\ Flows = FlowsOf(conntrack)
  BY ConeFlows, ConeFlowsNext
<1>2. /\ BindingsOf(mapping') \in SUBSET Abstract!Binding
      /\ \A b, c \in BindingsOf(mapping') : Abstract!Compatible(b, c)
  BY BindingsFit DEF ConeInv, IInv
<1>3. \A x \in FlowsOf(conntrack) : Abstract!BindingOf(x) \in BindingsOf(mapping')
  BY FlowsBound DEF ConeInv
<1> QED BY <1>1, <1>2, <1>3, BindingsAreBindingsOf DEF Abstract!Rebind, Abstract!Used

(* Confirming a translated conntrack opens its flow.                        *)
LEMMA ConfirmStep ==
  ASSUME Topology, ConeInv, ConeInv', NEW c \in CPUs, Confirm(c), conntrack' # conntrack
  PROVE  \/ \E x \in Abstract!Flow : Abstract!Open(x)
         \/ Bindings' = Bindings /\ Flows' = Flows
<1>1. PICK ct \in conntrack' : conntrack' = conntrack \cup {ct} /\ mapping' = mapping
  BY DEF Confirm
<1>2. Flows = FlowsOf(conntrack) /\ Flows' = FlowsOf(conntrack')
  BY ConeFlows, ConeFlowsNext
<1>3. Bindings' = Bindings /\ Bindings' = BindingsOf(mapping')
  BY <1>1, BindingsAreBindingsOf
<1>4. CASE ct \in Translated({ct})
  <2>1. /\ FlowOf(ct) \in Abstract!Flow
        /\ Abstract!BindingOf(FlowOf(ct)) \in BindingsOf(mapping')
    BY <1>4, ServedBound DEF ConeInv
  <2>2. Flows' = Flows \cup {FlowOf(ct)}
    BY <1>1, <1>2, <1>4 DEF FlowsOf, Translated
  <2> QED BY <1>3, <2>1, <2>2 DEF Abstract!Open
<1>5. CASE ct \notin Translated({ct})
  BY <1>1, <1>2, <1>3, <1>5 DEF FlowsOf, Translated
<1> QED BY <1>4, <1>5

(* A conntrack that dies closes its flow, if no other carries it.           *)
LEMMA CloseStep ==
  ASSUME Topology, ConeInv, ConeInv', NEW ct \in conntrack, Destroy(ct)
  PROVE  \/ \E x \in Abstract!Flow : Abstract!Close(x)
         \/ Bindings' = Bindings /\ Flows' = Flows
<1>1. conntrack' = conntrack \ {ct} /\ mapping' = mapping
  BY DEF Destroy
<1>2. Flows = FlowsOf(conntrack) /\ Flows' = FlowsOf(conntrack')
  BY ConeFlows, ConeFlowsNext
<1>3. Bindings' = Bindings
  BY <1>1, BindingsAreBindingsOf
<1>4. Flows \ {FlowOf(ct)} \subseteq Flows' /\ Flows' \subseteq Flows
  BY <1>1, <1>2 DEF FlowsOf, Translated
<1>5. CASE FlowOf(ct) \in Flows' \/ FlowOf(ct) \notin Flows
  BY <1>3, <1>4, <1>5
<1>6. CASE FlowOf(ct) \notin Flows' /\ FlowOf(ct) \in Flows
  <2>1. FlowOf(ct) \in Abstract!Flow
    BY <1>2, <1>6, FlowsBound DEF ConeInv
  <2> QED BY <1>3, <1>4, <1>6, <2>1 DEF Abstract!Close
<1> QED BY <1>5, <1>6

LEMMA AbstractStep ==
  ASSUME Topology, ConeInv, ConeInv', [Next]_vars
  PROVE  [Abstract!Next]_<<Bindings, Flows>>
<1>1. CASE conntrack' = conntrack
  BY <1>1, TableStep DEF Abstract!Next
<1>2. CASE conntrack' # conntrack
  <2>1. \/ \E c \in CPUs : Confirm(c)
        \/ \E ct \in conntrack : Destroy(ct)
    BY <1>2 DEF Next, Arrive, ArriveOutbound, ArriveInbound, Prerouting, Postrouting,
                DropUnconfirmed, HandleDying, GcStart, GcEnd, vars
  <2>2. \/ \E x \in Abstract!Flow : Abstract!Open(x) \/ Abstract!Close(x)
        \/ Bindings' = Bindings /\ Flows' = Flows
    BY <1>2, <2>1, ConfirmStep, CloseStep
  <2> QED BY <2>2 DEF Abstract!Next
<1> QED BY <1>1, <1>2

(* ConeInv is inductive where packets come one by one and there is room.    *)
THEOREM ConeInvariance ==
  ASSUME OneByOne
  PROVE  Spec /\ []Roomy => []ConeInv
<1>1. Init => ConeInv
  BY InitConeInv
<1>2. ConeInv /\ Roomy /\ [Next]_vars => ConeInv'
  BY NextConeInv
<1> QED BY <1>1, <1>2, PTL DEF Spec

(* While a translated flow lives, its mapping stays: no check, override,    *)
(* allocation or collection takes it away or gives its external endpoint to *)
(* another host.                                                            *)
THEOREM FlowsKeepMapping ==
  ASSUME Topology, OneByOne
  PROVE  Spec /\ []Roomy => []LiveFlowsKeepMapping
<1>1. ConeInv => LiveFlowsKeepMapping
  <2> SUFFICES ASSUME ConeInv PROVE LiveFlowsKeepMapping
    OBVIOUS
  <2>1. \A x \in FlowsOf(conntrack) : Abstract!BindingOf(x) \in BindingsOf(mapping)
    BY FlowsBound DEF ConeInv
  <2> QED BY <2>1, ConeFlows, BindingsAreBindingsOf DEF LiveFlowsKeepMapping, Abstract!BindingOf
<1> QED BY <1>1, ConeInvariance, PTL

(* The hooks, conntrack and the collector together implement a full cone    *)
(* NAT.                                                                     *)
THEOREM FullConeImplemented ==
  ASSUME Topology, OneByOne
  PROVE  Spec /\ []Roomy => ImplementsFullCone
<1>1. Init => Abstract!Init
  BY DEF Init, Abstract!Init, Bindings, Flows, Linked, Outbound, Inbound
<1>2. ConeInv /\ ConeInv' /\ [Next]_vars => [Abstract!Next]_<<Bindings, Flows>>
  BY AbstractStep
<1> QED BY <1>1, <1>2, ConeInvariance, PTL DEF Spec, ImplementsFullCone, Abstract!Spec
-------------------------------------------------------------------------------
(***************************************************************************)
(* The notifier of the fullcone expressions (FullconeNotifier), for any    *)
(* expressions and conntracks: where it can be kept, it is kept as long as *)
(* an expression needs it, and nothing of the module survives its          *)
(* unloading.                                                              *)
(***************************************************************************)
(* module_refer_count and the notifier belong to the module, the expression *)
(* to a net: with two nets the first registers, the last unregisters.       *)
OneNet == \A m, n \in Nets : m = n

(* A single slot is shared with whoever else wants it.                      *)
OwnPlace == ChainEvents \/ ~OtherModules

(* An expression that is dropped after it was counted is never discounted.  *)
NeverDropped == ~GetFails

Serviceable == OneNet /\ OwnPlace /\ NeverDropped

(* The count, the flag, the notifier and the expressions agree.             *)
UseInv ==
  /\ NotifierTypeOK
  /\ refs = Cardinality(Live)
  /\ registered => Live # {}
  /\ \A n \in Nets : "ours" \in notifiers[n] <=> registered
  /\ \A n \in Nets : OtherModules \/ "other" \notin notifiers[n]
  /\ module \notin {"registered", "ready"} => Live = {}

(* A callback runs only while registered; the work only with a workqueue.   *)
QuietInv ==
  /\ ~registered => Idle
  /\ module = "registered" => ~wq
  /\ ~wq => work = IdleWork
  /\ module \in {"handle", "unloaded"} => work = IdleWork
  /\ module = "unloaded" => dying_tuple_list = {}

LEMMA LiveFinite ==
  /\ IsFiniteSet(Live)
  /\ Cardinality(Live) \in 0 .. Cardinality(Exprs)
  /\ Cardinality(Live) = 0 <=> Live = {}
<1>1. Live \subseteq Exprs
  BY DEF Live
<1>2. IsFiniteSet(Exprs)
  BY NotifierAssumption
<1>3. IsFiniteSet(Live) /\ Cardinality(Live) <= Cardinality(Exprs)
  BY <1>1, <1>2, FS_Subset
<1>4. Cardinality(Live) \in Nat /\ Cardinality(Exprs) \in Nat
  BY <1>2, <1>3, FS_CardinalityType
<1>5. Cardinality(Live) = 0 <=> Live = {}
  BY <1>3, FS_EmptySet
<1> QED BY <1>3, <1>4, <1>5

LEMMA UseInit == NotifierInit => UseInv /\ QuietInv
<1> SUFFICES ASSUME NotifierInit PROVE UseInv /\ QuietInv
  OBVIOUS
<1>1. Live = {}
  BY DEF NotifierInit, Live
<1>2. Cardinality(Live) = 0
  BY <1>1, FS_EmptySet
<1>3. refs \in 0 .. Cardinality(Exprs)
  BY <1>2, LiveFinite DEF NotifierInit
<1>4. NotifierTypeOK
  BY <1>3 DEF NotifierInit, NotifierTypeOK, Phases, IdleWork
<1> QED BY <1>1, <1>2, <1>4 DEF NotifierInit, UseInv, QuietInv, Idle

(* A new expression: the first one registers.                               *)
LEMMA NewExprStep ==
  ASSUME Serviceable, UseInv, NEW e \in Exprs, NEW n \in Nets, NftInit(e, n)
  PROVE  UseInv'
<1>1. expr' = [expr EXCEPT ![e] = n]
  BY DEF NftInit, Serviceable, NeverDropped
<1>2. e \notin Live /\ n # NoNet
  BY NotifierAssumption DEF NftInit, Live
<1>3. Live' = Live \cup {e}
  BY <1>1, <1>2 DEF Live, UseInv, NotifierTypeOK
<1>4. Cardinality(Live') = Cardinality(Live) + 1
  BY <1>2, <1>3, LiveFinite, FS_AddElement
<1>5. refs' = Cardinality(Live')
  BY <1>4 DEF UseInv, NftInit
<1>6. refs' \in 0 .. Cardinality(Exprs)
  <2>1. IsFiniteSet(Live') /\ Live' \subseteq Exprs
    BY <1>2, <1>3, LiveFinite, FS_AddElement DEF Live
  <2>2. Cardinality(Live') <= Cardinality(Exprs) /\ Cardinality(Exprs) \in Nat /\ Cardinality(Live') \in Nat
    BY <2>1, NotifierAssumption, FS_Subset, FS_CardinalityType
  <2> QED BY <1>5, <2>2
<1>7. /\ registered' \in BOOLEAN
      /\ notifiers' \in [Nets -> SUBSET {"ours", "other"}]
      /\ \A m \in Nets : "ours" \in notifiers'[m] <=> registered'
      /\ \A m \in Nets : OtherModules \/ "other" \notin notifiers'[m]
  <2>1. CASE Live = {}
    <3>1. refs + 1 = 1 /\ ~registered
      BY <2>1, LiveFinite DEF UseInv
    <3>2. TryRegister(n)
      BY <3>1 DEF NftInit
    <3>3. "ours" \notin notifiers[n] /\ (ChainEvents \/ notifiers[n] = {})
      BY <3>1 DEF UseInv, Serviceable, OwnPlace, NotifierTypeOK
    <3>4. CASE notifiers' = Registered(n) /\ registered' = TRUE
      <4>1. notifiers' = [notifiers EXCEPT ![n] = notifiers[n] \cup {"ours"}]
        BY <3>3, <3>4 DEF Registered
      <4> QED BY <3>4, <4>1 DEF UseInv, NotifierTypeOK, Serviceable, OneNet
    <3>5. CASE UNCHANGED <<notifiers, registered>>
      BY <3>5 DEF UseInv, NotifierTypeOK
    <3> QED BY <3>2, <3>4, <3>5 DEF TryRegister
  <2>2. CASE Live # {}
    <3>1. refs + 1 # 1
      BY <2>2, LiveFinite DEF UseInv
    <3> QED BY <2>2, <3>1 DEF NftInit, UseInv, NotifierTypeOK
  <2> QED BY <2>1, <2>2
<1>8. NotifierTypeOK'
  BY <1>1, <1>6, <1>7 DEF NotifierTypeOK, UseInv, NftInit
<1>9. module' \in {"registered", "ready"}
  BY DEF NftInit
<1>10. Live' # {}
  BY <1>3
<1> QED BY <1>5, <1>7, <1>8, <1>9, <1>10 DEF UseInv

(* A destroyed expression: the last one unregisters.                        *)
LEMMA GoneExprStep ==
  ASSUME Serviceable, UseInv, NEW e \in Exprs, NftDestroy(e)
  PROVE  UseInv' /\ (registered /\ ~registered' => Waits)
<1>1. e \in Live /\ expr[e] \in Nets
  BY DEF NftDestroy, Live, UseInv, NotifierTypeOK
<1>2. Live' = Live \ {e}
  BY DEF Live, UseInv, NotifierTypeOK, NftDestroy
<1>3. IsFiniteSet(Live') /\ Cardinality(Live') = Cardinality(Live) - 1
  BY <1>1, <1>2, LiveFinite, FS_RemoveElement
<1>4. refs' = Cardinality(Live')
  BY <1>3 DEF UseInv, NftDestroy
<1>5. refs' \in 0 .. Cardinality(Exprs) /\ (refs' = 0 <=> Live' = {})
  <2>1. Cardinality(Live') \in Nat /\ (Cardinality(Live') = 0 <=> Live' = {})
    BY <1>3, FS_EmptySet, FS_CardinalityType
  <2>2. Cardinality(Live) \in Nat /\ Cardinality(Exprs) \in Nat /\ Cardinality(Live) <= Cardinality(Exprs)
    BY LiveFinite, NotifierAssumption, FS_CardinalityType
  <2>3. Cardinality(Live') <= Cardinality(Exprs)
    BY <1>3, <2>2
  <2> QED BY <1>4, <2>1, <2>2, <2>3
<1>6. /\ registered' \in BOOLEAN
      /\ registered' => Live' # {}
      /\ registered /\ ~registered' => Waits
      /\ notifiers' \in [Nets -> SUBSET {"ours", "other"}]
      /\ \A m \in Nets : "ours" \in notifiers'[m] <=> registered'
      /\ \A m \in Nets : OtherModules \/ "other" \notin notifiers'[m]
  <2>1. CASE Live' = {} /\ registered
    <3>1. notifiers' = Unregistered(expr[e]) /\ registered' = FALSE /\ Waits
      BY <1>1, <1>5, <2>1 DEF NftDestroy
    <3> QED BY <1>1, <2>1, <3>1 DEF Unregistered, UseInv, NotifierTypeOK, Serviceable, OneNet
  <2>2. CASE Live' # {} \/ ~registered
    <3>1. UNCHANGED <<notifiers, registered>>
      BY <1>4, <1>5, <2>2 DEF NftDestroy
    <3> QED BY <1>1, <2>2, <3>1 DEF UseInv, NotifierTypeOK
  <2> QED BY <2>1, <2>2
<1>7. NotifierTypeOK'
  BY <1>5, <1>6 DEF NotifierTypeOK, UseInv, NftDestroy
<1>8. module' \notin {"registered", "ready"} => Live' = {}
  BY <1>2 DEF NftDestroy, UseInv
<1> QED BY <1>4, <1>6, <1>7, <1>8 DEF UseInv

(* The notifier of another module comes and stays.                          *)
LEMMA OtherStep ==
  ASSUME UseInv, NEW n \in Nets, OtherRegisters(n)
  PROVE  UseInv'
<1>1. Live' = Live
  BY DEF Live, OtherRegisters
<1>2. /\ notifiers' \in [Nets -> SUBSET {"ours", "other"}]
      /\ \A m \in Nets : "ours" \in notifiers'[m] <=> "ours" \in notifiers[m]
  BY DEF OtherRegisters, UseInv, NotifierTypeOK
<1> QED BY <1>1, <1>2 DEF OtherRegisters, UseInv, NotifierTypeOK

(* What the callbacks and the collector make of gc_worker_wk.               *)
LEMMA WorkStep ==
  ASSUME UseInv, \/ Collector
                 \/ \E ct \in Conntracks : EventCb(ct) \/ AddDying(ct) \/ AddFails(ct) \/ QueueWork(ct)
  PROVE  work' \in [pending : BOOLEAN, running : {"no", "entered", "left"}]
<1>1. work \in [pending : BOOLEAN, running : {"no", "entered", "left"}]
  BY DEF UseInv, NotifierTypeOK
<1>2. CASE work' = work
  BY <1>1, <1>2
<1>3. CASE \E b \in BOOLEAN, r \in {"no", "entered", "left"} :
             \/ work' = [pending |-> b, running |-> r]
             \/ work' = [work EXCEPT !.pending = b]
             \/ work' = [work EXCEPT !.running = r]
  BY <1>1, <1>3
<1>4. \/ work' = work
      \/ work' = [pending |-> FALSE, running |-> "entered"]
      \/ work' = [work EXCEPT !.pending = TRUE]
      \/ work' = [work EXCEPT !.running = "left"]
      \/ work' = [work EXCEPT !.running = "no"]
  BY Zenon DEF Collector, WorkStart, GcWorker, WorkEnd, EventCb, AddDying, AddFails, QueueWork
<1> QED BY <1>2, <1>3, <1>4

LEMMA UseStep ==
  ASSUME Serviceable, UseInv, [NotifierNext]_notifiervars
  PROVE  UseInv'
<1>1. ASSUME NEW e \in Exprs, NEW n \in Nets, NftInit(e, n) PROVE UseInv'
  BY <1>1, NewExprStep
<1>2. ASSUME NEW e \in Exprs, NftDestroy(e) PROVE UseInv'
  BY <1>2, GoneExprStep
<1>3. ASSUME NEW n \in Nets, OtherRegisters(n) PROVE UseInv'
  BY <1>3, OtherStep
<1>4. CASE RegisterExprs
  <2>1. Live = {} /\ Live' = Live /\ Cardinality(Live) = 0 /\ ~registered
    BY <1>4, LiveFinite DEF RegisterExprs, UseInv, Live
  <2> QED BY <1>4, <2>1, LiveFinite DEF RegisterExprs, UseInv, NotifierTypeOK, Phases
<1>5. CASE CreateWorkqueue \/ ExitUnregisterExprs \/ Exit
  <2>1. Live' = Live /\ (Live = {} \/ CreateWorkqueue)
    BY <1>5 DEF Live, CreateWorkqueue, ExitUnregisterExprs, Exit, ExitCancelWork, ExitHandleDying, UseInv
  <2>2. NotifierTypeOK'
    BY <1>5 DEF CreateWorkqueue, ExitUnregisterExprs, Exit, ExitCancelWork, ExitHandleDying, UseInv, NotifierTypeOK, Phases
  <2> QED BY <1>5, <2>1, <2>2
        DEF CreateWorkqueue, ExitUnregisterExprs, Exit, ExitCancelWork, ExitHandleDying, UseInv
<1>6. ASSUME NEW ct \in Conntracks, EventCb(ct) \/ AddDying(ct) \/ AddFails(ct) \/ QueueWork(ct) PROVE UseInv'
  <2>1. Live' = Live
    BY <1>6 DEF Live, EventCb, AddDying, AddFails, QueueWork
  <2>2. work' \in [pending : BOOLEAN, running : {"no", "entered", "left"}]
    BY <1>6, WorkStep
  <2>3. NotifierTypeOK'
    <3>1. CASE EventCb(ct)
      BY <2>2, <3>1 DEF EventCb, UseInv, NotifierTypeOK
    <3>2. CASE AddDying(ct)
      BY <2>2, <3>2 DEF AddDying, UseInv, NotifierTypeOK
    <3>3. CASE QueueWork(ct)
      BY <2>2, <3>3 DEF QueueWork, UseInv, NotifierTypeOK
    <3>4. CASE AddFails(ct)
      BY <2>2, <3>4 DEF AddFails, UseInv, NotifierTypeOK
    <3> QED BY <1>6, <3>1, <3>2, <3>3, <3>4
  <2> QED BY <1>6, <2>1, <2>3 DEF EventCb, AddDying, AddFails, QueueWork, UseInv
<1>7. CASE Collector
  <2>1. Live' = Live
    BY <1>7 DEF Live, Collector, WorkStart, GcWorker, WorkEnd
  <2>2. work' \in [pending : BOOLEAN, running : {"no", "entered", "left"}]
    BY <1>7, WorkStep
  <2>3. NotifierTypeOK'
    BY <1>7, <2>2 DEF Collector, WorkStart, GcWorker, WorkEnd, UseInv, NotifierTypeOK
  <2> QED BY <1>7, <2>1, <2>3 DEF Collector, WorkStart, GcWorker, WorkEnd, UseInv
<1>8. CASE UNCHANGED notifiervars
  BY <1>8 DEF notifiervars, UseInv, NotifierTypeOK, Live
<1> QED BY <1>1, <1>2, <1>3, <1>4, <1>5, <1>6, <1>7, <1>8 DEF NotifierNext

(* While anything can call back, the module is there to be called.          *)
LEMMA QuietStep ==
  ASSUME Serviceable, ChainEvents, UseInv, QuietInv, [NotifierNext]_notifiervars
  PROVE  QuietInv'
<1>1. ASSUME NEW e \in Exprs, NEW n \in Nets, NftInit(e, n) PROVE QuietInv'
  BY <1>1 DEF NftInit, TryRegister, QuietInv, Idle
<1>2. ASSUME NEW e \in Exprs, NftDestroy(e) PROVE QuietInv'
  <2>1. registered /\ ~registered' => Idle
    BY <1>2, GoneExprStep DEF Waits
  <2> QED BY <1>2, <2>1 DEF NftDestroy, QuietInv, Idle
<1>3. ASSUME NEW n \in Nets, OtherRegisters(n) PROVE QuietInv'
  BY <1>3 DEF OtherRegisters, QuietInv, Idle
<1>4. CASE RegisterExprs
  <2>1. ~registered
    BY <1>4 DEF RegisterExprs, UseInv
  <2> QED BY <1>4, <2>1 DEF RegisterExprs, QuietInv, Idle
<1>5. CASE CreateWorkqueue
  BY <1>5 DEF CreateWorkqueue, QuietInv, Idle
<1>6. CASE ExitUnregisterExprs
  BY <1>6 DEF ExitUnregisterExprs, QuietInv, Idle
<1>7. CASE Exit
  <2>1. ExitCancelWork => work' = IdleWork
    BY DEF ExitCancelWork, IdleWork, UseInv, NotifierTypeOK
  <2> QED BY <1>7, <2>1 DEF Exit, ExitCancelWork, ExitHandleDying, QuietInv, Idle
<1>8. ASSUME NEW ct \in Conntracks, EventCb(ct) PROVE QuietInv'
  <2>1. registered
    BY <1>8 DEF EventCb, UseInv
  <2> QED BY <1>8, <2>1 DEF EventCb, QuietInv
<1>9. ASSUME NEW ct \in Conntracks, AddDying(ct) \/ AddFails(ct) \/ QueueWork(ct) PROVE QuietInv'
  <2>1. registered /\ Live # {} /\ module \in {"registered", "ready"}
    BY <1>9 DEF AddDying, AddFails, QueueWork, QuietInv, Idle, UseInv, NotifierTypeOK
  <2>2. /\ module' = module /\ registered' = registered /\ wq' = wq
        /\ ~wq => work' = work
    BY <1>9 DEF AddDying, AddFails, QueueWork
  <2> QED BY <2>1, <2>2 DEF QuietInv
<1>10. CASE Collector
  <2>1. work # IdleWork
    BY <1>10 DEF Collector, WorkStart, GcWorker, WorkEnd, IdleWork
  <2> QED BY <1>10, <2>1 DEF Collector, WorkStart, GcWorker, WorkEnd, QuietInv, Idle
<1>11. CASE UNCHANGED notifiervars
  BY <1>11 DEF notifiervars, QuietInv, Idle
<1> QED BY <1>1, <1>2, <1>3, <1>4, <1>5, <1>6, <1>7, <1>8, <1>9, <1>10, <1>11 DEF NotifierNext

(* The types of the variables, module_refer_count among them: it counts the *)
(* expressions there are.                                                   *)
THEOREM NotifierTypes ==
  ASSUME Serviceable PROVE NotifierSpec => []NotifierTypeOK
<1>1. NotifierInit => UseInv
  BY UseInit
<1>2. UseInv /\ [NotifierNext]_notifiervars => UseInv'
  BY UseStep
<1>3. UseInv => NotifierTypeOK
  BY DEF UseInv
<1> QED BY <1>1, <1>2, <1>3, PTL DEF NotifierSpec

(* The flag is not touched while an expression stays.                       *)
LEMMA FlagStep ==
  ASSUME Serviceable, UseInv, [NotifierNext]_notifiervars
  PROVE  Live \cap Live' # {} => registered' = registered
<1> SUFFICES ASSUME Live \cap Live' # {} PROVE registered' = registered
  OBVIOUS
<1>1. ASSUME NEW e \in Exprs, NEW n \in Nets, NftInit(e, n) PROVE registered' = registered
  <2>1. refs + 1 # 1
    BY LiveFinite DEF UseInv
  <2> QED BY <1>1, <2>1 DEF NftInit
<1>2. ASSUME NEW e \in Exprs, NftDestroy(e) PROVE registered' = registered
  <2>1. e \in Live /\ Live' = Live \ {e}
    BY <1>2 DEF NftDestroy, Live, UseInv, NotifierTypeOK
  <2>2. IsFiniteSet(Live') /\ Cardinality(Live') = Cardinality(Live) - 1
    BY <2>1, LiveFinite, FS_RemoveElement
  <2>3. Cardinality(Live') # 0
    BY <2>2, FS_EmptySet
  <2>4. refs - 1 # 0
    BY <2>2, <2>3 DEF UseInv
  <2> QED BY <1>2, <2>4 DEF NftDestroy
<1>3. CASE RegisterExprs
  BY <1>3 DEF RegisterExprs, UseInv
<1>4. CASE ~RegisterExprs /\ (\A e \in Exprs : ~NftDestroy(e) /\ \A n \in Nets : ~NftInit(e, n))
  BY <1>4, Zenon DEF NotifierNext, notifiervars, CreateWorkqueue, OtherRegisters, EventCb, AddDying,
       AddFails, QueueWork, Collector, WorkStart, GcWorker, WorkEnd, ExitUnregisterExprs, Exit,
       ExitCancelWork, ExitHandleDying
<1> QED BY <1>1, <1>2, <1>3, <1>4

(* What the first of the present expressions was given, all have: with the  *)
(* notifier registered every net with an expression in use reports its      *)
(* destroyed conntracks, and what was registered or refused stays so as     *)
(* long as one expression does (nft_fullcone_init, nft_fullcone_*_destroy). *)
THEOREM NotifierKept ==
  ASSUME Serviceable PROVE NotifierSpec => NotifierWhileUsed
<1> DEFINE Agree == \A e \in Live : registered <=> "ours" \in notifiers[expr[e]]
           Kept == Live \cap Live' # {} => registered' = registered
<1>1. NotifierInit => UseInv
  BY UseInit
<1>2. UseInv /\ [NotifierNext]_notifiervars => UseInv'
  BY UseStep
<1>3. UseInv => Agree
  BY DEF UseInv, NotifierTypeOK, Live
<1>4. UseInv /\ [NotifierNext]_notifiervars => [Kept]_notifiervars
  BY FlagStep
<1> HIDE DEF Agree, Kept
<1>5. NotifierSpec => []Agree /\ [][Kept]_notifiervars
  BY <1>1, <1>2, <1>3, <1>4, PTL DEF NotifierSpec
<1> QED BY <1>5 DEF NotifierWhileUsed, Agree, Kept

(* nft_fullcone_module_exit leaves no notifier, callback, dying tuple or    *)
(* work behind.                                                             *)
THEOREM UnloadedClean ==
  ASSUME Serviceable, ChainEvents PROVE NotifierSpec => []NothingLeftUnloaded
<1> DEFINE Inv == UseInv /\ QuietInv
<1>1. NotifierInit => Inv
  BY UseInit
<1>2. Inv /\ [NotifierNext]_notifiervars => Inv'
  BY UseStep, QuietStep
<1>3. Inv => NothingLeftUnloaded
  BY DEF UseInv, QuietInv, NothingLeftUnloaded
<1> QED BY <1>1, <1>2, <1>3, PTL DEF NotifierSpec
===============================================================================
