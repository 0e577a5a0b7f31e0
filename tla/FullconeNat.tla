------------------------------ MODULE FullconeNat ------------------------------
(***************************************************************************)
(* The full cone NAT of patch/emortal/nft-fullcone: the mapping table of   *)
(* nf_nat_fullcone.c, the two hooks that use it, and the garbage collector *)
(* that nft_ext_fullcone.c runs on conntrack destroy events.               *)
(*                                                                         *)
(* A mapping ties an internal endpoint to an external one and lists the    *)
(* original tuples of the conntracks that use it.  The hooks run on        *)
(* several CPUs, each under fullconenat_lock, on conntracks that are not   *)
(* yet in the conntrack table; netfilter confirms a conntrack later,       *)
(* outside that lock, and destroys it at any time after.  IPv4 and IPv6    *)
(* have tables and locks of their own and the same code; this module is    *)
(* one family.                                                             *)
(*                                                                         *)
(* Abstractions.  A hash bucket's order is not kept: a walk that stops at  *)
(* a match may have passed any of the other mappings at that port.  All    *)
(* lookups of one hook see the conntrack table at one instant.  Only UDP   *)
(* is modelled: for other protocols both hooks leave the table alone.      *)
(***************************************************************************)
EXTENDS FullconePorts, FiniteSets

CONSTANTS
  Objs,        \* memory objects a struct nat_mapping may occupy
  Nodes,       \* list nodes of one original_tuple_list
  CPUs,        \* CPUs that run the hooks
  IntEps,      \* internal endpoints: source address and port of LAN hosts
  Remotes,     \* endpoints of hosts on the WAN side
  ExtAddrs,    \* addresses the router may use on the WAN side
  Ranges,      \* struct nf_nat_range2 values the expression passes
  AllocFails,  \* whether kmalloc(GFP_ATOMIC) may fail while memory is left
  QuickReuse,  \* whether a flow may come back before the collector saw its death
  None         \* no mapping, no packet

Endpoint == [addr : {e.addr : e \in IntEps \cup Remotes} \cup ExtAddrs, port : Port]
Tuple    == [src : Endpoint, dst : Endpoint]
Conntrack == [orig : Tuple, reply : Tuple]

Reverse(t) == [src |-> t.dst, dst |-> t.src]

Item    == [node : Nodes, tuple : Tuple]
Mapping == [addr : ExtAddrs, port : Port, int : Endpoint,
            items : SUBSET Item, refer_count : Int]

ASSUME NatAssumption ==
  /\ IsFiniteSet(Objs) /\ IsFiniteSet(Nodes)
  /\ \A e \in IntEps \cup Remotes : e = [addr |-> e.addr, port |-> e.port] /\ e.port \in Port
  /\ Ranges \subseteq PortRange
  /\ AllocFails \in BOOLEAN /\ QuickReuse \in BOOLEAN
  /\ None \notin Objs \cup Mapping

VARIABLES
  mapping,    \* mapping_table_by_ext_port and _by_int_src: contents of each object
  conntrack,  \* confirmed conntracks
  cpu,        \* the packet each CPU is processing, with its unconfirmed conntrack
  dying,      \* dying_tuple_list
  gc_queued,  \* gc_worker_wk is pending on the workqueue
  gc_locked   \* gc_worker holds fullconenat_lock and dying_tuple_list_lock

vars == <<mapping, conntrack, cpu, dying, gc_queued, gc_locked>>

(* r with another tuple list and reference count.                           *)
Relisted(r, items, count) ==
  [addr |-> r.addr, port |-> r.port, int |-> r.int, items |-> items, refer_count |-> count]

(* Seeded fault: internal and external address exchanged.                   *)
NewMappingSwapped(a, p, e) ==
  [addr |-> e.addr, port |-> p, int |-> [addr |-> a, port |-> e.port],
   items |-> {}, refer_count |-> 0]

NewMapping(a, p, e) ==
  [addr |-> a, port |-> p, int |-> e, items |-> {}, refer_count |-> 0]

Init ==
  /\ mapping = [m \in Objs |-> None]
  /\ conntrack = {}
  /\ cpu = [c \in CPUs |-> None]
  /\ dying = {}
  /\ gc_queued = FALSE
  /\ gc_locked = FALSE
-------------------------------------------------------------------------------
(***************************************************************************)
(* Lookups and check_mapping.                                              *)
(***************************************************************************)
Linked == {m \in Objs : mapping[m] # None}

(* nf_conntrack_find_get: a confirmed conntrack with this tuple, in either  *)
(* direction.                                                               *)
Found(t) == \E ct \in conntrack : t \in {ct.orig, ct.reply}

DeadItems(m) == {x \in mapping[m].items : ~ Found(x.tuple)}

(* Seeded fault: a mapping with one conntrack left is not active.           *)
ChecksStrictly(m) == mapping[m].refer_count - Cardinality(DeadItems(m)) > 1

Checks(m) == mapping[m].refer_count - Cardinality(DeadItems(m)) > 0

(* check_mapping on one object: unlink dead tuples, then kill the mapping   *)
(* if nothing refers to it.                                                 *)
CheckMapping(m) ==
  IF Checks(m)
  THEN Relisted(mapping[m], mapping[m].items \ DeadItems(m),
                mapping[m].refer_count - Cardinality(DeadItems(m)))
  ELSE None

CheckAll(S) == [m \in Objs |-> IF m \in S THEN CheckMapping(m) ELSE mapping[m]]

(* Seeded fault: only the mapping that kept the source's port is found.     *)
ByIntSrcSamePort(e, a) ==
  {m \in Linked : mapping[m].int = e /\ mapping[m].addr = a /\ mapping[m].port = e.port}

ByIntSrc(e, a) == {m \in Linked : mapping[m].int = e /\ mapping[m].addr = a}

AtPort(p) == {m \in Linked : mapping[m].port = p}

(* What get_mapping_by_ext_port(p, a) may return.                           *)
ByExtPort(p, a) == {m \in AtPort(p) : mapping[m].addr = a /\ Checks(m)}

(* What lookups of address a at the ports P may have called check_mapping   *)
(* on: every mapping at a port without a match; else the match (ExtUnique:  *)
(* there is one) and any of the others, for the walk stops there.           *)
Walks(P, a) ==
  {S \in SUBSET UNION {AtPort(p) : p \in P} :
     \A p \in P : IF ByExtPort(p, a) = {} THEN AtPort(p) \subseteq S
                                          ELSE ByExtPort(p, a) \subseteq S}

(* add_original_tuple_to_mapping: the record with the tuple listed, or      *)
(* unchanged when no node can be allocated.                                 *)
WithTuple(r, t) ==
  LET unused == Nodes \ {x.node : x \in r.items}
  IN {Relisted(r, r.items \cup {[node |-> n, tuple |-> t]}, r.refer_count + 1) : n \in unused}
     \cup (IF AllocFails \/ unused = {} THEN {r} ELSE {})
-------------------------------------------------------------------------------
(***************************************************************************)
(* Packets.  A packet of an unknown flow gets an unconfirmed conntrack     *)
(* when it enters; its NAT hook runs at PRE_ROUTING for packets from the   *)
(* WAN and at POST_ROUTING for packets to it.                              *)
(***************************************************************************)
Packet(hook, t) == [hook |-> hook, orig |-> t, reply |-> Reverse(t)]

Arrive(c, hook, t) ==
  /\ cpu[c] = None
  /\ ~ Found(t)
  /\ QuickReuse \/ \A ct \in dying : ct.orig # t
  /\ cpu' = [cpu EXCEPT ![c] = Packet(hook, t)]
  /\ UNCHANGED <<mapping, conntrack, dying, gc_queued, gc_locked>>

ArriveOutbound(c) ==
  \E e \in IntEps, r \in Remotes : Arrive(c, "postrouting", [src |-> e, dst |-> r])

ArriveInbound(c) ==
  \E r \in Remotes, a \in ExtAddrs, p \in Port \ {0} :
    Arrive(c, "prerouting", [src |-> r, dst |-> [addr |-> a, port |-> p]])

(* nf_nat_setup_info accepted: the reply tuple carries the translation.     *)
Accepted(c, reply) ==
  cpu' = [cpu EXCEPT ![c] = [hook |-> "confirm", orig |-> @.orig, reply |-> reply]]

Dropped(c) == cpu' = [cpu EXCEPT ![c] = None]

(* nf_nat_handle_prerouting.                                                *)
Prerouting(c) ==
  /\ cpu[c] # None /\ cpu[c].hook = "prerouting"
  /\ ~ gc_locked
  /\ LET t == cpu[c].orig IN
     \E walk \in Walks({t.dst.port}, t.dst.addr) :
       LET hits == ByExtPort(t.dst.port, t.dst.addr) IN
       \/ /\ hits = {}                          \* NFT_CONTINUE, no translation
          /\ mapping' = CheckAll(walk)
          /\ Accepted(c, Reverse(t))
       \/ \E m \in hits :
            \E r \in WithTuple(CheckMapping(m), t) :
              /\ mapping' = [CheckAll(walk) EXCEPT ![m] = r]
              /\ Accepted(c, [src |-> mapping[m].int, dst |-> t.src])
       \/ /\ hits # {}                          \* nf_nat_setup_info: NF_DROP
          /\ mapping' = CheckAll(walk)
          /\ Dropped(c)
  /\ UNCHANGED <<conntrack, dying, gc_queued, gc_locked>>

(* The source mapping is active: its endpoint is used again.  By IntUnique  *)
(* below get_mapping_by_int_src has one mapping to find.                    *)
ReuseMapping(c, a) ==
  LET t == cpu[c].orig IN
  \E m \in ByIntSrc(t.src, a) :
    /\ Checks(m)
    /\ \/ \E r \in WithTuple(CheckMapping(m), t) :
            /\ mapping' = [mapping EXCEPT ![m] = r]
            /\ Accepted(c, [src |-> t.dst, dst |-> [addr |-> a, port |-> mapping[m].port]])
       \/ /\ mapping' = [mapping EXCEPT ![m] = CheckMapping(m)]
          /\ Dropped(c)

(* allocate_mapping and its first tuple, in any table the lookups may have  *)
(* left behind; without memory the packet is still translated.              *)
Allocated(table, a, p, t) ==
  LET free == {m \in Objs : table[m] = None}
  IN {[table EXCEPT ![m] = r] : m \in free, r \in WithTuple(NewMapping(a, p, t.src), t)}
     \cup (IF AllocFails \/ free = {} THEN {table} ELSE {})

(* No active source mapping: find_appropriate_port picks an external port,  *)
(* if need be by killing the mapping that has it.                           *)
FindPort(c, a, range, start) ==
  LET t      == cpu[c].orig
      busy   == {p \in Port : ByExtPort(p, a) # {}}
      probed == ProbedPorts(range, start, busy, t.src.port)
      port   == AppropriatePort(range, start, busy, t.src.port)
      killed == IF Overrides(range, start, busy, t.src.port)
                THEN ByExtPort(port, a) ELSE {}
  IN \E walk \in Walks(probed, a) :
       LET checked == CheckAll(ByIntSrc(t.src, a) \cup walk)
           table   == [m \in Objs |-> IF m \in killed THEN None ELSE checked[m]]
       IN \/ /\ mapping' \in Allocated(table, a, port, t)
             /\ Accepted(c, [src |-> t.dst, dst |-> [addr |-> a, port |-> port]])
          \/ /\ mapping' = table
             /\ Dropped(c)

FindMapping(c, a) ==
  /\ \A m \in ByIntSrc(cpu[c].orig.src, a) : ~ Checks(m)
  /\ \E range \in Ranges : \E start \in Starts(range) : FindPort(c, a, range, start)

(* nf_nat_handle_postrouting; inet_select_addr picks the address or none.   *)
Postrouting(c) ==
  /\ cpu[c] # None /\ cpu[c].hook = "postrouting"
  /\ UNCHANGED <<conntrack, dying, gc_queued, gc_locked>>
  /\ \/ /\ ~ gc_locked
        /\ \E a \in ExtAddrs : ReuseMapping(c, a) \/ FindMapping(c, a)
     \/ /\ mapping' = mapping
        /\ Dropped(c)
-------------------------------------------------------------------------------
(***************************************************************************)
(* What conntrack does with the packet afterwards (netfilter, external).   *)
(***************************************************************************)
Confirm(c) ==
  /\ cpu[c] # None /\ cpu[c].hook = "confirm"
  /\ LET ct == [orig |-> cpu[c].orig, reply |-> cpu[c].reply]
     IN conntrack' = IF Found(ct.orig) \/ Found(ct.reply)   \* clash: not inserted
                     THEN conntrack ELSE conntrack \cup {ct}
  /\ Dropped(c)
  /\ UNCHANGED <<mapping, dying, gc_queued, gc_locked>>

(* Dropped between its NAT hook and confirmation: no destroy event.         *)
DropUnconfirmed(c) ==
  /\ cpu[c] # None /\ cpu[c].hook = "confirm"
  /\ Dropped(c)
  /\ UNCHANGED <<mapping, conntrack, dying, gc_queued, gc_locked>>

(* A conntrack times out or is deleted; ct_event_cb gets its destroy event. *)
(* The callback takes dying_tuple_list_lock and loses the event if kmalloc  *)
(* fails.                                                                   *)
Destroy(ct) ==
  /\ ct \in conntrack
  /\ ~ gc_locked
  /\ conntrack' = conntrack \ {ct}
  /\ \/ /\ dying' = dying \cup {ct}
        /\ gc_queued' = TRUE
     \/ /\ AllocFails
        /\ UNCHANGED <<dying, gc_queued>>
  /\ UNCHANGED <<mapping, cpu, gc_locked>>
-------------------------------------------------------------------------------
(***************************************************************************)
(* gc_worker: nf_nat_fullcone_handle_dying_tuples holds all the locks for  *)
(* the whole list.  The list is a set here: an entry handled twice, or in  *)
(* another order, is found in the same mapping or in none.                 *)
(***************************************************************************)
GcStart ==
  /\ gc_queued /\ ~ gc_locked
  /\ gc_queued' = FALSE
  /\ gc_locked' = TRUE
  /\ UNCHANGED <<mapping, conntrack, cpu, dying>>

(* The mapping of a dead conntrack, tried as outbound first, then inbound.  *)
DyingMapping(ct) ==
  LET outbound == ByIntSrc(ct.orig.src, ct.reply.dst.addr)
  IN IF outbound # {} THEN outbound ELSE ByIntSrc(ct.reply.src, ct.orig.dst.addr)

(* Seeded faults: one reference is dropped however many tuples were; the    *)
(* mapping is killed with its last conntrack but one.                       *)
WithoutTupleOnce(m, t) ==
  LET outdated == {x \in mapping[m].items : x.tuple = t}
      left     == mapping[m].refer_count - 1
  IN IF left <= 0 THEN None
     ELSE Relisted(mapping[m], mapping[m].items \ outdated, left)

WithoutTupleEarly(m, t) ==
  LET outdated == {x \in mapping[m].items : x.tuple = t}
      left     == mapping[m].refer_count - Cardinality(outdated)
  IN IF left <= 1 THEN None
     ELSE Relisted(mapping[m], mapping[m].items \ outdated, left)

WithoutTuple(m, t) ==
  LET outdated == {x \in mapping[m].items : x.tuple = t}
      left     == mapping[m].refer_count - Cardinality(outdated)
  IN IF left <= 0 THEN None
     ELSE Relisted(mapping[m], mapping[m].items \ outdated, left)

HandleDying(ct) ==
  /\ gc_locked
  /\ ct \in dying
  /\ dying' = dying \ {ct}
  /\ mapping' = [m \in Objs |-> IF m \in DyingMapping(ct) THEN WithoutTuple(m, ct.orig)
                                                        ELSE mapping[m]]
  /\ UNCHANGED <<conntrack, cpu, gc_queued, gc_locked>>

GcEnd ==
  /\ gc_locked /\ dying = {}
  /\ gc_locked' = FALSE
  /\ UNCHANGED <<mapping, conntrack, cpu, dying, gc_queued>>
-------------------------------------------------------------------------------
Next ==
  \/ \E c \in CPUs :
       \/ ArriveOutbound(c) \/ ArriveInbound(c)
       \/ Prerouting(c) \/ Postrouting(c)
       \/ Confirm(c) \/ DropUnconfirmed(c)
  \/ \E ct \in conntrack : Destroy(ct)
  \/ \E ct \in dying : HandleDying(ct)
  \/ GcStart \/ GcEnd

Spec == Init /\ [][Next]_vars
-------------------------------------------------------------------------------
TypeOK ==
  /\ mapping \in [Objs -> Mapping \cup {None}]
  /\ conntrack \subseteq Conntrack
  /\ cpu \in [CPUs -> [hook : {"prerouting", "postrouting", "confirm"},
                       orig : Tuple, reply : Tuple] \cup {None}]
  /\ dying \subseteq Conntrack
  /\ gc_queued \in BOOLEAN
  /\ gc_locked \in BOOLEAN

(* One external endpoint has one mapping: an inbound packet can go to one   *)
(* internal host only, whatever the lookups removed or overrode before.     *)
ExtUnique ==
  \A m, n \in Linked :
    (mapping[m].addr = mapping[n].addr /\ mapping[m].port = mapping[n].port) => m = n

(* One internal endpoint has one mapping per external address: the lookup   *)
(* by source, which stops at the first match, has nothing to choose from.   *)
IntUnique ==
  \A m, n \in Linked :
    (mapping[m].int = mapping[n].int /\ mapping[m].addr = mapping[n].addr) => m = n

(* refer_count is the length of original_tuple_list ("how many references   *)
(* linked to this mapping", nf_nat_fullcone.h): the two are changed by      *)
(* separate statements in the hooks, check_mapping and the collector.       *)
ReferCountIsLength ==
  \A m \in Linked : mapping[m].refer_count = Cardinality(mapping[m].items)
-------------------------------------------------------------------------------
(***************************************************************************)
(* The full cone promise, about the conntracks that are in the table.      *)
(***************************************************************************)
Bindings ==
  {[int |-> mapping[m].int,
    ext |-> [addr |-> mapping[m].addr, port |-> mapping[m].port]] : m \in Linked}

Outbound == {ct \in conntrack : ct.orig.src \in IntEps}
Inbound  == {ct \in conntrack : ct.reply.src \in IntEps}

Flows ==
  {[int |-> ct.orig.src, ext |-> ct.reply.dst, remote |-> ct.orig.dst] : ct \in Outbound}
  \cup
  {[int |-> ct.reply.src, ext |-> ct.orig.dst, remote |-> ct.orig.src] : ct \in Inbound}

(* The table implements a full cone NAT: the mapping a live flow was        *)
(* translated by is in force when the flow is confirmed and until it is     *)
(* gone.  It needs what the README lists: no hook of another CPU between a  *)
(* packet's hook and its confirmation, no flow that comes back before the   *)
(* collector ran, memory, and a port for every host.                        *)
Abstract == INSTANCE FullCone WITH
  Int <- IntEps, Ext <- [addr : ExtAddrs, port : Port], Remote <- Remotes,
  bind <- Bindings, flow <- Flows

ImplementsFullCone == Abstract!Spec

(* An internal endpoint shows one external endpoint per external address to *)
(* all remotes: the first half of the full cone promise, which the module's *)
(* Kconfig help makes without conditions.                                   *)
EndpointIndependent ==
  \A c, d \in Outbound :
    (c.orig.src = d.orig.src /\ c.reply.dst.addr = d.reply.dst.addr)
      => c.reply.dst = d.reply.dst

(* The second half: while a translated flow lives, its external endpoint    *)
(* still leads to its internal endpoint.                                    *)
LiveFlowsKeepMapping == {[int |-> f.int, ext |-> f.ext] : f \in Flows} \subseteq Bindings

(* The collector frees tuples of conntracks that are gone, as its comment   *)
(* says ("look for the corresponding out-dated tuple and free it").         *)
CollectorFreesOutdated ==
  [][gc_locked =>
       \A m \in Linked :
         LET kept == IF mapping'[m] = None THEN {} ELSE mapping'[m].items
         IN \A x \in mapping[m].items \ kept : ~ Found(x.tuple)]_vars
===============================================================================
