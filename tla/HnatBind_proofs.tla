---------------------------- MODULE HnatBind_proofs ----------------------------
(***************************************************************************)
(* What holds of binding for any flows, packets, table size and events:    *)
(* the neighbour queue works as HnatNeigh says, the lock is held by the    *)
(* packet that commits, and a bound entry is not written.                  *)
(***************************************************************************)
EXTENDS HnatBind, SequenceTheorems, TLAPS

(***************************************************************************)
(* The queue of neighbour updates, for any neighbours, budget and limit:   *)
(* its counter is right and no update is left behind.                      *)
(***************************************************************************)
(* From the end of the locked section of cleanup on nothing is queued, as   *)
(* the notifier stays unregistered; only then may pending be taken away or  *)
(* the work refuse to queue itself.                                         *)
QuietAfterCleanup ==
  /\ control # "up" => ~registered
  /\ control \notin {"up", "cleanup"} => head = << >>

IInv == NeighTypeOK /\ PendingCountIsLength /\ QuietAfterCleanup /\ NoUpdateStranded

(* The counter does not wrap while it stays in its range.                   *)
LEMMA NoWrap ==
  ASSUME NEW n \in 0 .. PendingMax
  PROVE  n % CounterSpace = n
<1>1. n \in Nat /\ CounterSpace \in Nat \ {0} /\ n < CounterSpace
  BY NeighAssumption
<1> QED BY <1>1

(* The queue at the start.                                                  *)
LEMMA InitIInv == NeighInit => IInv
<1> SUFFICES ASSUME NeighInit
             PROVE  IInv
  OBVIOUS
<1>1. neigh \in [Neighbours -> Neighbour]
  BY DEF NeighInit
<1>2. << >> \in Seq(Update) /\ Len(head) = 0
  BY EmptySeq DEF NeighInit
<1>3. worker \in [pc : {"idle", "entered", "clear", "recheck"}, local : Seq(Update)]
  BY <1>2 DEF NeighInit
<1>4. pending_cnt \in 0 .. PendingMax
  BY NeighAssumption DEF NeighInit
<1>5. head \in Seq(Update) /\ notify \subseteq Neighbours /\ lost \subseteq Neighbours
  BY <1>2 DEF NeighInit
<1>6. NeighTypeOK
  BY <1>1, <1>3, <1>4, <1>5 DEF NeighInit, NeighTypeOK
<1> QED
  BY <1>2, <1>6 DEF NeighInit, IInv, PendingCountIsLength, QuietAfterCleanup, NoUpdateStranded

(* The handler queues one update below the limit, or drops it.              *)
LEMMA NeteventStep ==
  ASSUME IInv, NEW d \in Neighbours, Netevent(d)
  PROVE  IInv'
<1> USE DEF IInv, NeighTypeOK, PendingCountIsLength, QuietAfterCleanup, NoUpdateStranded
<1>1. UNCHANGED <<neigh, registered, control>> /\ notify' \subseteq Neighbours /\ registered
  BY DEF Netevent
<1>2. CASE UNCHANGED queueVars
  <2>1. lost' \subseteq Neighbours
    BY <1>2 DEF Netevent, Enqueue, Drop
  <2> QED BY <1>1, <1>2, <2>1 DEF queueVars
<1>3. CASE pending_cnt < PendingMax /\ Enqueue(d) /\ neigh[d].nud # "stale"
  <2>1. UpdateOf(d) \in Update
    BY <1>3 DEF UpdateOf, Update, Neighbour
  <2>2. head' \in Seq(Update) /\ Len(head') = Len(head) + 1 /\ head' # << >>
    BY <1>3, <2>1 DEF Enqueue
  <2>3. pending_cnt + 1 \in 0 .. PendingMax
    BY <1>3, NeighAssumption
  <2>4. pending_cnt' = pending_cnt + 1
    BY <1>3, <2>3, NoWrap DEF Enqueue
  <2>5. pending' /\ worker' = worker /\ lost' \subseteq Neighbours
    BY <1>3 DEF Enqueue
  <2>6. control = "up"
    BY <1>1
  <2> QED BY <1>1, <2>2, <2>3, <2>4, <2>5, <2>6
<1> QED BY <1>2, <1>3 DEF Netevent, Drop

(* A batch leaves the queue and the counter together.                       *)
LEMMA WorkerTakeStep ==
  ASSUME IInv, WorkerTake
  PROVE  IInv'
<1> USE DEF IInv, NeighTypeOK, PendingCountIsLength, QuietAfterCleanup, NoUpdateStranded
<1>1. Batch \in 0 .. Len(head)
  BY NeighAssumption DEF Batch
<1>2. /\ SubSeq(head, 1, Batch) \in Seq(Update)
      /\ SubSeq(head, Batch + 1, Len(head)) \in Seq(Update)
      /\ Len(SubSeq(head, Batch + 1, Len(head))) = Len(head) - Batch
  <2>1. \A i \in 1 .. Len(head) : head[i] \in Update
    OBVIOUS
  <2>2. Batch \in Int /\ Len(head) \in Int
    BY <1>1
  <2>3. SubSeq(head, 1, Batch) \in Seq(Update)
    BY <1>1, <2>1, <2>2, SubSeqProperties
  <2>4. SubSeq(head, Batch + 1, Len(head)) \in Seq(Update)
    BY <1>1, <2>1, <2>2, SubSeqProperties
  <2>5. Len(SubSeq(head, Batch + 1, Len(head))) = Len(head) - Batch
    <3>1. Len(SubSeq(head, Batch + 1, Len(head)))
            = IF Batch + 1 <= Len(head) THEN Len(head) - (Batch + 1) + 1 ELSE 0
      BY <1>1, <2>1, <2>2, SubSeqProperties
    <3> QED BY <1>1, <3>1
  <2> QED BY <2>3, <2>4, <2>5
<1>3. pending_cnt - Batch \in 0 .. PendingMax
  BY <1>1, NeighAssumption
<1>4. pending_cnt' = pending_cnt - Batch
  BY <1>3, NoWrap DEF WorkerTake
<1>5. head = << >> => head' = << >>
  BY <1>1, <1>2 DEF WorkerTake
<1> QED BY <1>2, <1>3, <1>4, <1>5 DEF WorkerTake

(* Cleanup empties both.                                                    *)
LEMMA CleanupListStep ==
  ASSUME IInv, CleanupList
  PROVE  IInv'
<1>1. lost' \subseteq Neighbours
  <2>1. lost \subseteq Neighbours /\ head \in Seq(Update)
    BY DEF IInv, NeighTypeOK
  <2>2. \A i \in 1 .. Len(head) : head[i].dip \in Neighbours
    <3>1. \A i \in 1 .. Len(head) : head[i] \in Update
      BY <2>1, ElementOfSeq
    <3> QED BY <3>1 DEF Update
  <2> QED BY <2>1, <2>2 DEF CleanupList
<1>2. control' \in {"cancel", "cleaned"} /\ ~registered'
  BY DEF CleanupList, IInv, QuietAfterCleanup
<1> QED BY <1>1, <1>2, NeighAssumption
        DEF CleanupList, IInv, NeighTypeOK, PendingCountIsLength, QuietAfterCleanup,
            NoUpdateStranded

(* All other steps leave queue and counter alone.                           *)
LEMMA NextIInv ==
  ASSUME IInv, [NeighNext]_neighVars
  PROVE  IInv'
<1> USE DEF IInv, NeighTypeOK, PendingCountIsLength, QuietAfterCleanup, NoUpdateStranded
<1>1. ASSUME NEW d \in Neighbours, NeighChange(d)
      PROVE  IInv'
  BY <1>1, NeighAssumption DEF NeighChange, queueVars
<1>2. ASSUME NEW d \in Neighbours, Netevent(d)
      PROVE  IInv'
  BY <1>2, NeteventStep
<1>3. ASSUME NEW d \in Neighbours, Unheard(d)
      PROVE  IInv'
  BY <1>3 DEF Unheard, queueVars
<1>4. CASE WorkStart
  BY <1>4 DEF WorkStart
<1>5. CASE WorkerTake
  BY <1>5, WorkerTakeStep
<1>6. CASE WorkerClear
  BY <1>6 DEF WorkerClear
<1>7. CASE WorkerRecheck
  BY <1>7 DEF WorkerRecheck
<1>8. CASE Unregister
  BY <1>8 DEF Unregister, queueVars
<1>9. CASE CleanupList
  BY <1>9, CleanupListStep
<1>10. CASE CancelWork
  BY <1>10 DEF CancelWork
<1>11. CASE CancelDone
  BY <1>11 DEF CancelDone, queueVars
<1>12. CASE ClearTables
  BY <1>12 DEF ClearTables, queueVars
<1>13. CASE Reregister
  BY <1>13 DEF Reregister, queueVars
<1>14. CASE Remove
  BY <1>14 DEF Remove, queueVars
<1>15. CASE UNCHANGED neighVars
  BY <1>15 DEF neighVars, queueVars
<1> QED
  BY <1>1, <1>2, <1>3, <1>4, <1>5, <1>6, <1>7, <1>8, <1>9, <1>10, <1>11, <1>12, <1>13,
     <1>14, <1>15 DEF NeighNext

(* The inductive invariant holds.                                           *)
LEMMA Inductive == NeighSpec => []IInv
<1>1. NeighInit => IInv
  BY InitIInv
<1>2. IInv /\ [NeighNext]_neighVars => IInv'
  BY NextIInv
<1> QED BY <1>1, <1>2, PTL DEF NeighSpec
-------------------------------------------------------------------------------
(* The types of the neighbour queue; in particular the counter stays below  *)
(* its limit and does not wrap (struct hnat_neigh_update, hnat.h).          *)
THEOREM TypeCorrect == NeighSpec => []NeighTypeOK
<1>1. IInv => NeighTypeOK
  BY DEF IInv
<1> QED BY <1>1, Inductive, PTL

(* pending_cnt is the length of the list, across batches and cleanup (lines *)
(* 579-614 and 659 of hnat_nf_hook.c).                                      *)
THEOREM CounterCorrect == NeighSpec => []PendingCountIsLength
<1>1. IInv => PendingCountIsLength
  BY DEF IInv
<1> QED BY <1>1, Inductive, PTL

(* A queued update has the work pending or a handler under way, whatever    *)
(* events, batches and cleanups interleave (lines 597-633 and 677-679).     *)
THEOREM UpdatesNotStranded == NeighSpec => []NoUpdateStranded
<1>1. IInv => NoUpdateStranded
  BY DEF IInv
<1> QED BY <1>1, Inductive, PTL
-------------------------------------------------------------------------------
(***************************************************************************)
(* Binding.                                                                *)
(***************************************************************************)

(* Every step of HnatBind is one of HnatNeigh or leaves its variables alone. *)
LEMMA NeighStepOrStutter == [Next]_vars => [NeighNext]_neighVars
<1> SUFFICES ASSUME Next \/ UNCHANGED vars
             PROVE  NeighNext \/ UNCHANGED neighVars
  BY DEF vars
<1>1. CASE UNCHANGED vars
  BY <1>1 DEF vars
<1>2. ASSUME NEW d \in Neighbours, Change(d)
      PROVE  NeighNext
  BY <1>2 DEF Change, NeighNext
<1>3. CASE NeighStep
  BY <1>3 DEF NeighStep, NeighNext
<1>4. CASE WorkerDone \/ WarmInit
  BY <1>4 DEF WorkerDone, WarmInit, NeighNext
<1>5. CASE WorkerTest \/ WorkerDelete \/ EventTest \/ EventDelete \/ EventEnd \/ Tick \/ Teardown
  BY <1>5 DEF WorkerTest, WorkerDelete, EventTest, EventDelete, EventEnd, Tick, Teardown
<1>6. ASSUME NEW f \in Flows, HwLearn(f)
      PROVE  UNCHANGED neighVars
  BY <1>6 DEF HwLearn
<1>7. ASSUME NEW s \in Slots, HwAge(s) \/ DeleteByIndex(s)
      PROVE  UNCHANGED neighVars
  BY <1>7 DEF HwAge, DeleteByIndex
<1>8. ASSUME NEW k \in Skbs, NEW f \in Flows, Receive(k, f)
      PROVE  UNCHANGED neighVars
  BY <1>8 DEF Receive
<1>9. ASSUME NEW k \in Skbs, Hook(k) \/ HookTx(k) \/ LeaveUnbound(k)
      PROVE  UNCHANGED neighVars
  BY <1>9 DEF Hook, PostRouting, BuildEntry, CryptoBuild, CryptoTest, PutTest, PutFlow, TakeLock,
              CommitBody, CommitState, HookTx, LeaveUnbound
<1>10. ASSUME NEW c \in Clears, EventStart(c)
       PROVE  UNCHANGED neighVars
  BY <1>10 DEF EventStart
<1> QED
  BY <1>1, <1>2, <1>3, <1>4, <1>5, <1>6, <1>7, <1>8, <1>9, <1>10 DEF Next

(* Binding implements the neighbour queue: what its handlers do to the FOE  *)
(* table never disturbs the queue (lines 566-690 of hnat_nf_hook.c), so the *)
(* theorems of NeighSpec hold of the whole.                                 *)
THEOREM BindingImplementsQueue == Spec => NeighSpec
<1>1. Init => NeighInit
  BY DEF Init
<1>2. [Next]_vars => [NeighNext]_neighVars
  BY NeighStepOrStutter
<1> QED BY <1>1, <1>2, PTL DEF Spec, NeighSpec
-------------------------------------------------------------------------------
(* What a packet carries by the time a hook uses it.                        *)
Ready(p) ==
  /\ p.pc # "idle" => p.flow \in Flows
  /\ p.pc = "nexthop" => p.ha \in Macs
  /\ p.pc \in {"test", "put", "insert", "lock", "body", "state"} =>
       p.data \in Body /\ p.data.act \in Action

(* A walk that found an entry is still in the table.                        *)
InTable(place) == place.hit => place.at \in Slots

PacketsOK ==
  /\ skb \in [Skbs -> Packet]
  /\ \A k \in Skbs : Ready(skb[k])

(* The holder of entry_lock is the packet that commits.                     *)
LockOK ==
  /\ entry_lock \in Skbs \cup {None}
  /\ \A k \in Skbs : skb[k].pc \in {"body", "state"} <=> entry_lock = k

TableOK == foe \in [Slots -> Entry] /\ foe_flow \subseteq FlowEntry /\ late \subseteq Slots

ScanOK ==
  /\ scan \in [worker : Place, event : Place, what : Clears \cup {None}]
  /\ InTable(scan.worker) /\ InTable(scan.event)

BInv == PacketsOK /\ LockOK /\ TableOK /\ ScanOK

(* The slot of a packet under way.                                          *)
LEMMA SlotType ==
  ASSUME BInv, NEW k \in Skbs, skb[k].pc # "idle"
  PROVE  skb[k].flow \in Flows /\ Slot(k) \in Slots
BY BindAssumption DEF BInv, PacketsOK, Ready, Slot

(* Where a packet holds the lock.                                           *)
Commits == {"body", "state"}

(* One packet becomes p; the lock goes with it or stays with another one.   *)
LEMMA PacketStep ==
  ASSUME PacketsOK, LockOK, NEW k \in Skbs, NEW p \in Packet, Ready(p),
         skb' = [skb EXCEPT ![k] = p],
         entry_lock' \in Skbs \cup {None},
         p.pc \in Commits <=> entry_lock' = k,
         \A j \in Skbs \ {k} : entry_lock' = j <=> entry_lock = j
  PROVE  PacketsOK' /\ LockOK'
<1>1. PacketsOK'
  BY DEF PacketsOK
<1>2. LockOK'
  BY DEF PacketsOK, LockOK, Commits
<1> QED BY <1>1, <1>2

(* A packet leaves the hooks without having the lock.                       *)
LEMMA FinishStep ==
  ASSUME PacketsOK, LockOK, NEW k \in Skbs, Finish(k), entry_lock' = entry_lock,
         skb[k].pc \notin Commits
  PROVE  PacketsOK' /\ LockOK'
<1>1. IdleSkb \in Packet /\ Ready(IdleSkb) /\ IdleSkb.pc \notin Commits
  BY DEF IdleSkb, Packet, Ready, Commits
<1>2. entry_lock # k /\ entry_lock \in Skbs \cup {None}
  BY DEF LockOK, Commits
<1> QED BY <1>1, <1>2, PacketStep DEF Finish

(* A packet that has its data goes to the next step.                        *)
LEMMA GotoStep ==
  ASSUME PacketsOK, LockOK, NEW k \in Skbs, NEW pc \in {"insert", "filled", "lock", "body", "state"},
         skb[k].pc \in {"test", "put", "insert", "lock", "body"}, Goto(k, pc),
         entry_lock' \in Skbs \cup {None},
         pc \in Commits <=> entry_lock' = k,
         \A j \in Skbs \ {k} : entry_lock' = j <=> entry_lock = j
  PROVE  PacketsOK' /\ LockOK'
<1> DEFINE p == [skb[k] EXCEPT !.pc = pc]
<1>1. skb[k] \in Packet /\ Ready(skb[k])
  BY DEF PacketsOK
<1>2. p \in Packet /\ p.pc = pc
  BY <1>1 DEF Packet
<1>3. Ready(p)
  BY <1>1 DEF Packet, Ready
<1>4. skb' = [skb EXCEPT ![k] = p]
  BY DEF Goto
<1> HIDE DEF p
<1> QED BY <1>2, <1>3, <1>4, PacketStep
-------------------------------------------------------------------------------
(* The entry a hook builds.                                                 *)
LEMMA PreparedType ==
  ASSUME BInv, NEW k \in Skbs, skb[k].pc # "idle", NEW ha \in Macs
  PROVE  Prepared(k, ha) \in Body /\ Prepared(k, ha).act \in Action
<1>1. skb[k].flow \in Flows /\ foe[Slot(k)].match \in Flows \cup {None}
  BY SlotType DEF BInv, TableOK, Entry
<1> QED BY <1>1 DEF Prepared, Body, Action

LEMMA NexthopType ==
  ASSUME NeighTypeOK, BInv, NEW k \in Skbs, skb[k].pc # "idle"
  PROVE  neigh[Via[skb[k].flow]].ha \in Macs
<1>1. skb[k].flow \in Flows
  BY SlotType
<1>2. neigh[Via[skb[k].flow]] \in Neighbour
  BY <1>1, BindAssumption DEF NeighTypeOK
<1> QED BY <1>2 DEF Neighbour

(* The steps of the hooks that only move a packet.                          *)
LEMMA HookMoves ==
  ASSUME NeighTypeOK, BInv, NEW k \in Skbs,
         PostRouting(k) \/ BuildEntry(k) \/ CryptoBuild(k) \/ CryptoTest(k)
  PROVE  BInv'
<1> DEFINE go == \E p \in Packet : /\ Ready(p) /\ p.pc \notin Commits
                                   /\ skb' = [skb EXCEPT ![k] = p]
<1>1. skb[k].pc \notin Commits /\ skb[k].pc # "idle" /\ entry_lock' = entry_lock
  BY DEF PostRouting, BuildEntry, CryptoBuild, CryptoTest, Commits
<1>2. skb[k] \in Packet /\ Ready(skb[k]) /\ skb[k].flow \in Flows
  BY <1>1, SlotType DEF BInv, PacketsOK
<1>3. ASSUME Finish(k)
      PROVE  go
  <2>1. IdleSkb \in Packet /\ Ready(IdleSkb) /\ IdleSkb.pc \notin Commits
    BY DEF IdleSkb, Packet, Ready, Commits
  <2> QED BY <1>3, <2>1 DEF Finish
<1>4. ASSUME PostRouting(k) /\ ~Finish(k)
      PROVE  go
  <2> DEFINE h == neigh[Via[skb[k].flow]].ha
             p == [skb[k] EXCEPT !.pc = "nexthop", !.ha = h]
  <2>1. h \in Macs
    BY <1>1, NexthopType
  <2>2. skb' = [skb EXCEPT ![k] = p]
    BY <1>4 DEF PostRouting
  <2> HIDE DEF h
  <2>3. p \in Packet /\ Ready(p) /\ p.pc \notin Commits
    BY <1>2, <2>1 DEF Packet, Ready, Commits
  <2> QED BY <2>2, <2>3
<1>5. ASSUME BuildEntry(k) /\ ~Finish(k)
      PROVE  go
  <2> DEFINE d == Prepared(k, skb[k].ha)
             pc == IF Path[skb[k].flow] = "wifi" THEN "put" ELSE "lock"
             p == [skb[k] EXCEPT !.data = d, !.pc = pc]
  <2>1. skb[k].pc = "nexthop" /\ skb[k].ha \in Macs
    BY <1>2, <1>5 DEF BuildEntry, Ready
  <2>2. d \in Body /\ d.act \in Action
    BY <1>1, <2>1, PreparedType
  <2>3. skb' = [skb EXCEPT ![k] = p]
    BY <1>5 DEF BuildEntry
  <2> HIDE DEF d
  <2>4. p \in Packet /\ Ready(p) /\ p.pc \notin Commits
    BY <1>2, <2>2 DEF Packet, Ready, Commits
  <2> QED BY <2>3, <2>4
<1>6. ASSUME CryptoBuild(k) /\ ~Finish(k)
      PROVE  go
  <2> DEFINE d == Prepared(k, neigh[Via[skb[k].flow]].ha)
             p == [skb[k] EXCEPT !.pc = "test", !.data = d]
  <2>1. d \in Body /\ d.act \in Action
    BY <1>1, NexthopType, PreparedType
  <2>2. skb' = [skb EXCEPT ![k] = p]
    BY <1>6 DEF CryptoBuild
  <2> HIDE DEF d
  <2>3. p \in Packet /\ Ready(p) /\ p.pc \notin Commits
    BY <1>2, <2>1 DEF Packet, Ready, Commits
  <2> QED BY <2>2, <2>3
<1>7. ASSUME CryptoTest(k) /\ ~Finish(k)
      PROVE  go
  <2> DEFINE p == [skb[k] EXCEPT !.pc = "lock"]
  <2>1. skb[k].pc = "test" /\ skb' = [skb EXCEPT ![k] = p]
    BY <1>7 DEF CryptoTest, Goto
  <2>2. p \in Packet /\ Ready(p) /\ p.pc \notin Commits
    BY <1>2, <2>1 DEF Packet, Ready, Commits
  <2> QED BY <2>1, <2>2
<1>8. go
  BY <1>3, <1>4, <1>5, <1>6, <1>7
<1>9. PacketsOK' /\ LockOK'
  <2>1. PICK p \in Packet : Ready(p) /\ p.pc \notin Commits /\ skb' = [skb EXCEPT ![k] = p]
    BY <1>8
  <2>2. entry_lock # k /\ entry_lock \in Skbs \cup {None}
    BY <1>1 DEF BInv, LockOK, Commits
  <2> QED BY <1>1, <2>1, <2>2, PacketStep DEF BInv
<1>10. UNCHANGED <<foe, foe_flow, late, scan>>
  BY DEF PostRouting, BuildEntry, CryptoBuild, CryptoTest
<1> QED BY <1>9, <1>10 DEF BInv, TableOK, ScanOK

(* The two phases of a WiFi bind.                                           *)
LEMMA WifiSteps ==
  ASSUME BInv, NEW k \in Skbs, PutTest(k) \/ PutFlow(k) \/ HookTx(k) \/ LeaveUnbound(k)
  PROVE  BInv'
<1>1. /\ skb[k].pc \in {"put", "insert", "filled"} /\ skb[k].pc \notin Commits
      /\ UNCHANGED <<foe, late, scan, entry_lock>>
  BY DEF PutTest, PutFlow, HookTx, LeaveUnbound, Commits
<1>2. entry_lock # k /\ entry_lock \in Skbs \cup {None}
  BY <1>1 DEF BInv, LockOK, Commits
<1>3. skb[k] \in Packet /\ Ready(skb[k]) /\ skb[k].flow \in Flows /\ Slot(k) \in Slots
  BY <1>1, SlotType DEF BInv, PacketsOK
<1>4. foe_flow' \subseteq FlowEntry
  <2>1. CASE skb[k].pc = "insert"
    <3>1. Filled(k) \in FlowEntry
      <4>1. skb[k].data \in Body /\ skb[k].data.act \in Action
        BY <1>3, <2>1 DEF Ready
      <4> QED BY <1>3, <4>1 DEF Filled, FlowEntry, Body
    <3> QED BY <2>1, <3>1 DEF PutTest, PutFlow, HookTx, LeaveUnbound, BInv, TableOK
  <2>2. CASE skb[k].pc \in {"put", "filled"}
    BY <2>2 DEF PutTest, PutFlow, HookTx, LeaveUnbound, BInv, TableOK
  <2> QED BY <1>1, <2>1, <2>2
<1>5. CASE Finish(k)
  BY <1>1, <1>4, <1>5, FinishStep DEF BInv, TableOK, ScanOK
<1>6. ASSUME NEW pc \in {"insert", "filled"}, skb[k].pc \in {"put", "insert"}, Goto(k, pc)
      PROVE  BInv'
  <2>1. pc \notin Commits
    BY DEF Commits
  <2>2. PacketsOK' /\ LockOK'
    BY <1>1, <1>2, <1>6, <2>1, GotoStep DEF BInv
  <2> QED BY <1>1, <1>4, <2>2 DEF BInv, TableOK, ScanOK
<1>7. CASE HookTx(k) /\ ~Finish(k)
  <2>1. PICK e \in foe_flow :
          skb' = [skb EXCEPT ![k].pc = "lock",
                             ![k].data = [match |-> e.match,
                                          act |-> [e.act EXCEPT !.sta = skb[k].flow]]]
    BY <1>7 DEF HookTx, Search
  <2> DEFINE d == [match |-> e.match, act |-> [e.act EXCEPT !.sta = skb[k].flow]]
             p == [skb[k] EXCEPT !.pc = "lock", !.data = d]
  <2>2. e \in FlowEntry
    BY DEF BInv, TableOK
  <2>3. d \in Body /\ d.act \in Action
    BY <1>3, <2>2 DEF FlowEntry, Body, Action
  <2>4. skb' = [skb EXCEPT ![k] = p]
    BY <2>1
  <2> HIDE DEF d
  <2>5. p \in Packet /\ Ready(p) /\ p.pc \notin Commits
    BY <1>3, <2>3 DEF Packet, Ready, Commits
  <2> HIDE DEF p
  <2>6. PacketsOK' /\ LockOK'
    BY <1>1, <1>2, <2>4, <2>5, PacketStep DEF BInv
  <2> QED BY <1>1, <1>4, <2>6 DEF BInv, TableOK, ScanOK
<1> QED BY <1>5, <1>6, <1>7 DEF PutTest, PutFlow, LeaveUnbound

(* The locked part of a bind.                                               *)
LEMMA CommitSteps ==
  ASSUME BInv, NEW k \in Skbs, TakeLock(k) \/ CommitBody(k) \/ CommitState(k)
  PROVE  BInv'
<1>1. skb[k].pc \in {"lock", "body", "state"} /\ UNCHANGED <<foe_flow, scan>>
  BY DEF TakeLock, CommitBody, CommitState
<1>2. /\ skb[k] \in Packet /\ Ready(skb[k]) /\ Slot(k) \in Slots
      /\ skb[k].data \in Body /\ skb[k].data.act \in Action
      /\ k # None
  BY <1>1, SlotType, BindAssumption DEF BInv, PacketsOK, Ready
<1>3. CASE TakeLock(k) /\ Finish(k)
  <2>1. UNCHANGED <<foe, late, entry_lock>> /\ skb[k].pc \notin Commits
    <3>1. ~Goto(k, "body")
      <4>1. IdleSkb # [skb[k] EXCEPT !.pc = "body"]
        BY <1>2 DEF IdleSkb, Packet
      <4> QED BY <1>3, <4>1 DEF Goto, Finish, BInv, PacketsOK
    <3> QED BY <1>3, <3>1 DEF TakeLock, Commits
  <2> QED BY <1>1, <1>3, <2>1, FinishStep DEF BInv, TableOK, ScanOK
<1>4. CASE TakeLock(k) /\ Goto(k, "body") /\ ~Finish(k)
  <2>1. entry_lock = None /\ entry_lock' = k /\ skb[k].pc = "lock"
        /\ UNCHANGED <<foe, late>>
    BY <1>4 DEF TakeLock
  <2>2. "body" \in Commits
    BY DEF Commits
  <2>3. PacketsOK' /\ LockOK'
    BY <1>4, <2>1, <2>2, GotoStep, BindAssumption DEF BInv
  <2> QED BY <1>1, <2>1, <2>3 DEF BInv, TableOK, ScanOK
<1>5. CASE CommitBody(k)
  <2>1. skb[k].pc = "body" /\ Goto(k, "state") /\ UNCHANGED <<late, entry_lock>>
    BY <1>5 DEF CommitBody
  <2>2. entry_lock = k /\ "state" \in Commits
    BY <2>1 DEF BInv, LockOK, Commits
  <2>3. PacketsOK' /\ LockOK'
    BY <2>1, <2>2, GotoStep DEF BInv
  <2>4. foe' \in [Slots -> Entry]
    <3>1. [foe[Slot(k)] EXCEPT !.match = skb[k].data.match, !.act = skb[k].data.act] \in Entry
      BY <1>2 DEF BInv, TableOK, Entry, Body
    <3>2. foe' = [foe EXCEPT ![Slot(k)] =
                    [foe[Slot(k)] EXCEPT !.match = skb[k].data.match, !.act = skb[k].data.act]]
      BY <1>5 DEF CommitBody
    <3> QED BY <3>1, <3>2 DEF BInv, TableOK
  <2> QED BY <1>1, <2>1, <2>3, <2>4 DEF BInv, TableOK, ScanOK
<1>6. CASE CommitState(k)
  <2>1. skb[k].pc = "state" /\ Finish(k) /\ entry_lock' = None
    BY <1>6 DEF CommitState
  <2>2. entry_lock = k
    BY <2>1 DEF BInv, LockOK
  <2>3. IdleSkb \in Packet /\ Ready(IdleSkb) /\ IdleSkb.pc \notin Commits
    BY DEF IdleSkb, Packet, Ready, Commits
  <2>4. PacketsOK' /\ LockOK'
    BY <1>2, <2>1, <2>2, <2>3, PacketStep, BindAssumption DEF BInv, Finish
  <2>5. foe' \in [Slots -> Entry]
    BY <1>2, <1>6 DEF CommitState, BInv, TableOK, Entry, States
  <2>6. late' \subseteq Slots
    BY <1>2, <1>6 DEF CommitState, BInv, TableOK
  <2> QED BY <1>1, <2>4, <2>5, <2>6 DEF BInv, TableOK, ScanOK
<1> QED BY <1>3, <1>4, <1>5, <1>6 DEF TakeLock
-------------------------------------------------------------------------------
(* Steps of the hardware and of time.                                       *)
LEMMA HardwareSteps ==
  ASSUME BInv
  PROVE  /\ \A f \in Flows : HwLearn(f) => BInv'
         /\ \A s \in Slots : HwAge(s) => BInv'
         /\ \A k \in Skbs, f \in Flows : Receive(k, f) => BInv'
         /\ Tick \/ Teardown => BInv'
<1>1. ASSUME NEW f \in Flows, HwLearn(f)
      PROVE  BInv'
  <2>1. [state |-> "UNBIND", match |-> f, act |-> None] \in Entry
    BY DEF Entry, States
  <2> QED BY <1>1, <2>1 DEF HwLearn, BInv, PacketsOK, LockOK, TableOK, ScanOK
<1>2. ASSUME NEW s \in Slots, HwAge(s)
      PROVE  BInv'
  BY <1>2 DEF HwAge, BInv, PacketsOK, LockOK, TableOK, ScanOK, Entry, States
<1>3. ASSUME NEW k \in Skbs, NEW f \in Flows, Receive(k, f)
      PROVE  BInv'
  <2> DEFINE p == [IdleSkb EXCEPT !.pc = "hook", !.flow = f]
  <2>1. p \in Packet /\ Ready(p) /\ p.pc \notin Commits
    BY DEF IdleSkb, Packet, Ready, Commits
  <2>2. skb' = [skb EXCEPT ![k] = p] /\ entry_lock' = entry_lock
    BY <1>3 DEF Receive
  <2>3. entry_lock # k /\ entry_lock \in Skbs \cup {None}
    BY <1>3 DEF Receive, BInv, LockOK
  <2> HIDE DEF p
  <2>4. PacketsOK' /\ LockOK'
    BY <2>1, <2>2, <2>3, PacketStep DEF BInv
  <2> QED BY <1>3, <2>4 DEF Receive, BInv, TableOK, ScanOK
<1>4. ASSUME Tick \/ Teardown
      PROVE  BInv'
  <2>1. foe_flow' \subseteq FlowEntry
    <3>1. \A e \in FlowEntry : [e EXCEPT !.age = IF @ < 2 THEN @ + 1 ELSE @] \in FlowEntry
      BY DEF FlowEntry
    <3> QED BY <1>4, <3>1 DEF Tick, Teardown, BInv, TableOK
  <2> QED BY <1>4, <2>1 DEF Tick, Teardown, BInv, PacketsOK, LockOK, TableOK, ScanOK
<1> QED BY <1>1, <1>2, <1>3, <1>4

(* A walk goes on.                                                          *)
LEMMA StepScan ==
  ASSUME ScanOK, NEW who \in {"worker", "event"}, NEW hit \in BOOLEAN,
         scan[who].at \in Slots, Step(who, hit)
  PROVE  ScanOK'
<1> DEFINE q == IF hit THEN [scan[who] EXCEPT !.hit = TRUE]
                ELSE [at |-> scan[who].at + 1, hit |-> FALSE]
<1>1. scan[who] \in Place
  BY DEF ScanOK
<1>2. q \in Place /\ InTable(q)
  <2>1. CASE hit
    <3>1. q = [scan[who] EXCEPT !.hit = TRUE]
      BY <2>1
    <3>2. q \in Place /\ q.at = scan[who].at
      BY <1>1, <3>1 DEF Place
    <3> QED BY <3>2 DEF InTable
  <2>2. CASE ~hit
    <3>1. q = [at |-> scan[who].at + 1, hit |-> FALSE]
      BY <2>2
    <3>2. scan[who].at + 1 \in 1 .. FoeSize + 1
      BY BindAssumption DEF Slots
    <3> QED BY <3>1, <3>2 DEF Place, InTable
  <2> QED BY <2>1, <2>2
<1>3. scan' = [scan EXCEPT ![who] = q]
  BY DEF Step
<1> HIDE DEF q
<1> QED BY <1>2, <1>3 DEF ScanOK

(* Deleting an entry.                                                       *)
LEMMA DeleteTable ==
  ASSUME TableOK, NEW s \in Slots, Delete(s), foe_flow' = foe_flow
  PROVE  TableOK'
BY DEF Delete, TableOK, Entry, States

(* The walks of the worker and of the event handlers.                       *)
LEMMA ScanSteps ==
  ASSUME BInv
  PROVE  /\ WorkerTest \/ WorkerDelete \/ WorkerDone => BInv'
         /\ EventTest \/ EventDelete \/ EventEnd => BInv'
         /\ \A c \in Clears : EventStart(c) => BInv'
<1> USE DEF BInv
<1>1. /\ scan \in [worker : Place, event : Place, what : Clears \cup {None}]
      /\ scan.worker.hit => scan.worker.at \in Slots
      /\ scan.event.hit => scan.event.at \in Slots
  BY DEF ScanOK, InTable
<1>2. Start \in Place /\ InTable(Start)
  BY BindAssumption DEF Start, Place, InTable
<1>3. ASSUME WorkerTest
      PROVE  BInv'
  <2>1. PICK hit \in BOOLEAN : Step("worker", hit)
    BY <1>3 DEF WorkerTest
  <2>2. ScanOK'
    BY <1>3, <2>1, StepScan DEF WorkerTest
  <2> QED BY <1>3, <2>2 DEF WorkerTest, PacketsOK, LockOK, TableOK
<1>4. ASSUME EventTest
      PROVE  BInv'
  <2>1. PICK hit \in BOOLEAN : Step("event", hit)
    BY <1>4 DEF EventTest, Deletes
  <2>2. ScanOK'
    BY <1>4, <2>1, StepScan DEF EventTest
  <2> QED BY <1>4, <2>2 DEF EventTest, PacketsOK, LockOK, TableOK
<1>5. ASSUME WorkerDelete
      PROVE  BInv'
  <2>1. ScanOK'
    BY <1>1, <1>5, StepScan DEF WorkerDelete
  <2>2. TableOK'
    BY <1>1, <1>5, DeleteTable DEF WorkerDelete
  <2> QED BY <1>5, <2>1, <2>2 DEF WorkerDelete, PacketsOK, LockOK
<1>6. ASSUME EventDelete
      PROVE  BInv'
  <2>1. ScanOK'
    BY <1>1, <1>6, StepScan DEF EventDelete
  <2>2. TableOK'
    BY <1>1, <1>6, DeleteTable DEF EventDelete
  <2> QED BY <1>6, <2>1, <2>2 DEF EventDelete, PacketsOK, LockOK
<1>7. ASSUME WorkerDone
      PROVE  BInv'
  <2>1. ScanOK'
    BY <1>2, <1>7 DEF WorkerDone, ScanOK
  <2> QED BY <1>7, <2>1 DEF WorkerDone, PacketsOK, LockOK, TableOK
<1>8. ASSUME EventEnd
      PROVE  BInv'
  <2>1. ScanOK'
    BY <1>2, <1>8 DEF EventEnd, ScanOK
  <2> QED BY <1>8, <2>1 DEF EventEnd, PacketsOK, LockOK, TableOK
<1>9. ASSUME NEW c \in Clears, EventStart(c)
      PROVE  BInv'
  <2>1. ScanOK'
    BY <1>2, <1>9 DEF EventStart, ScanOK
  <2> QED BY <1>9, <2>1 DEF EventStart, PacketsOK, LockOK, TableOK
<1> QED BY <1>3, <1>4, <1>5, <1>6, <1>7, <1>8, <1>9

(* Every step keeps the invariant.                                          *)
LEMMA NextBInv ==
  ASSUME NeighTypeOK, BInv, [Next]_vars
  PROVE  BInv'
<1>1. ASSUME UNCHANGED bindVars
      PROVE  BInv'
  BY <1>1 DEF bindVars, BInv, PacketsOK, LockOK, TableOK, ScanOK
<1>2. CASE UNCHANGED vars \/ NeighStep
  BY <1>1, <1>2 DEF vars, NeighStep
<1>3. ASSUME NEW d \in Neighbours, Change(d)
      PROVE  BInv'
  BY <1>3 DEF Change, BInv, PacketsOK, LockOK, TableOK, ScanOK
<1>4. CASE WarmInit
  <2>1. Cleared \in Entry
    BY DEF Cleared, Entry, States
  <2> QED BY <1>4, <2>1 DEF WarmInit, BInv, PacketsOK, LockOK, TableOK, ScanOK
<1>5. ASSUME NEW s \in Slots, DeleteByIndex(s)
      PROVE  BInv'
  BY <1>5, DeleteTable DEF DeleteByIndex, BInv, PacketsOK, LockOK, ScanOK
<1>6. ASSUME NEW k \in Skbs, Hook(k) \/ HookTx(k) \/ LeaveUnbound(k)
      PROVE  BInv'
  BY <1>6, HookMoves, WifiSteps, CommitSteps DEF Hook
<1> QED
  BY <1>2, <1>3, <1>4, <1>5, <1>6, HardwareSteps, ScanSteps DEF Next

LEMMA InitBInv == Init => BInv
<1> SUFFICES ASSUME Init
             PROVE  BInv
  OBVIOUS
<1>1. IdleSkb \in Packet /\ Ready(IdleSkb) /\ IdleSkb.pc \notin {"body", "state"}
  BY DEF IdleSkb, Packet, Ready
<1>2. PacketsOK /\ LockOK
  BY <1>1, BindAssumption DEF Init, PacketsOK, LockOK
<1>3. Cleared \in Entry
  BY DEF Cleared, Entry, States
<1>4. Start \in Place /\ InTable(Start)
  BY BindAssumption DEF Start, Place, InTable
<1> QED BY <1>2, <1>3, <1>4 DEF Init, BInv, TableOK, ScanOK

LEMMA BindInductive == Spec => []BInv
<1>1. Init => BInv
  BY InitBInv
<1>2. NeighTypeOK /\ BInv /\ [Next]_vars => BInv'
  BY NextBInv
<1>3. Spec => []NeighTypeOK
  BY BindingImplementsQueue, TypeCorrect, PTL
<1> QED BY <1>1, <1>2, <1>3, PTL DEF Spec
-------------------------------------------------------------------------------
(* The types of binding, and entry_lock: only the packet that commits an    *)
(* entry holds it, and every way out of the hooks has released it (lines    *)
(* 3121-3133 and 3481-3489 of hnat_nf_hook.c).                              *)
THEOREM BindTypeCorrect == Spec => []TypeOK
<1>1. NeighTypeOK /\ BInv => TypeOK
  BY DEF BInv, PacketsOK, LockOK, TableOK, ScanOK, TypeOK
<1>2. Spec => []NeighTypeOK
  BY BindingImplementsQueue, TypeCorrect, PTL
<1> QED BY <1>1, <1>2, BindInductive, PTL

(* The queue of updates works the same with the FOE table around it (lines  *)
(* 579-633 of hnat_nf_hook.c).                                              *)
THEOREM QueueCorrect == Spec => [](PendingCountIsLength /\ NoUpdateStranded)
BY BindingImplementsQueue, CounterCorrect, UpdatesNotStranded, PTL
-------------------------------------------------------------------------------
(* An entry is not bound while a packet commits it.                         *)
NotBoundYet == \A k \in Skbs : skb[k].pc \in Commits => foe[Slot(k)].state # "BIND"

(* Only a packet that commits makes an entry bound or fills one.            *)
LEMMA WhoWrites ==
  ASSUME BInv, [Next]_vars, NEW s \in Slots
  PROVE  \/ foe'[s] = foe[s]
         \/ foe'[s].state # "BIND"
         \/ \E k \in Skbs : (CommitBody(k) \/ CommitState(k)) /\ s = Slot(k)
<1> USE DEF BInv, TableOK
<1>1. CASE foe' = foe
  BY <1>1
<1>2. ASSUME NEW r \in Slots, Delete(r) \/ HwAge(r)
      PROVE  foe'[s] = foe[s] \/ foe'[s].state # "BIND"
  BY <1>2 DEF Delete, HwAge, Entry
<1>3. ASSUME NEW f \in Flows, HwLearn(f)
      PROVE  foe'[s] = foe[s] \/ foe'[s].state # "BIND"
  BY <1>3 DEF HwLearn
<1>4. CASE WarmInit
  BY <1>4 DEF WarmInit, Cleared
<1>5. ASSUME NEW k \in Skbs, CommitBody(k) \/ CommitState(k)
      PROVE  foe'[s] = foe[s] \/ s = Slot(k)
  BY <1>5 DEF CommitBody, CommitState
<1>6. CASE WorkerDelete \/ EventDelete
  BY <1>2, <1>6 DEF WorkerDelete, EventDelete, ScanOK, InTable
<1>7. ASSUME NEW k \in Skbs, Hook(k) \/ HookTx(k) \/ LeaveUnbound(k)
      PROVE  foe' = foe \/ CommitBody(k) \/ CommitState(k)
  BY <1>7 DEF Hook, PostRouting, BuildEntry, CryptoBuild, CryptoTest, PutTest, PutFlow, TakeLock,
              HookTx, LeaveUnbound
<1>8. CASE UNCHANGED vars \/ NeighStep
  BY <1>8 DEF vars, bindVars, NeighStep
<1>9. ASSUME \/ \E d \in Neighbours : Change(d)
             \/ \E k \in Skbs, f \in Flows : Receive(k, f)
             \/ \E c \in Clears : EventStart(c)
             \/ WorkerTest \/ WorkerDone \/ EventTest \/ EventEnd \/ Tick \/ Teardown
      PROVE  foe' = foe
  BY <1>9 DEF Change, Receive, EventStart, WorkerTest, WorkerDone, EventTest, EventEnd,
              Tick, Teardown
<1>10. ASSUME NEW r \in Slots, DeleteByIndex(r)
       PROVE  Delete(r)
  BY <1>10 DEF DeleteByIndex
<1> QED
  BY <1>1, <1>2, <1>3, <1>4, <1>5, <1>6, <1>7, <1>8, <1>9, <1>10 DEF Next

(* A packet commits because it did so before or because it took the lock.   *)
LEMMA WhoCommits ==
  ASSUME BInv, [Next]_vars, NEW j \in Skbs, skb'[j].pc \in Commits
  PROVE  /\ skb'[j].flow = skb[j].flow /\ skb'[j].data = skb[j].data
         /\ skb[j].pc \in Commits \/ (TakeLock(j) /\ Goto(j, "body"))
         /\ skb'[j].pc = "state" => skb[j].pc = "state" \/ CommitBody(j)
<1> USE DEF BInv, PacketsOK
<1>1. CASE skb' = skb
  BY <1>1
<1>2. ASSUME NEW k \in Skbs, NEW p, p.pc \notin Commits, skb' = [skb EXCEPT ![k] = p]
      PROVE  skb'[j] = skb[j]
  BY <1>2
<1>3. ASSUME NEW k \in Skbs, Finish(k)
      PROVE  skb'[j] = skb[j]
  BY <1>2, <1>3 DEF Finish, IdleSkb, Commits
<1>4. ASSUME NEW k \in Skbs, NEW pc \in {"lock", "insert", "filled"}, Goto(k, pc)
      PROVE  skb'[j] = skb[j]
  BY <1>4 DEF Goto, Packet, Commits
<1>5. ASSUME NEW k \in Skbs,
             PostRouting(k) \/ BuildEntry(k) \/ CryptoBuild(k) \/ CryptoTest(k)
      PROVE  skb'[j] = skb[j]
  BY <1>3, <1>4, <1>5 DEF PostRouting, BuildEntry, CryptoBuild, CryptoTest, Packet, Commits
<1>6. ASSUME NEW k \in Skbs, PutTest(k) \/ PutFlow(k) \/ HookTx(k) \/ LeaveUnbound(k)
      PROVE  skb'[j] = skb[j]
  BY <1>3, <1>4, <1>6 DEF PutTest, PutFlow, HookTx, LeaveUnbound, Packet, Commits
<1>7. ASSUME NEW k \in Skbs, NEW f \in Flows, Receive(k, f)
      PROVE  skb'[j] = skb[j]
  BY <1>7 DEF Receive, IdleSkb, Commits
<1>8. ASSUME NEW k \in Skbs, CommitState(k)
      PROVE  skb'[j] = skb[j]
  BY <1>3, <1>8 DEF CommitState
<1>9. ASSUME NEW k \in Skbs, CommitBody(k)
      PROVE  skb'[j].flow = skb[j].flow /\ skb'[j].data = skb[j].data
             /\ (k = j => skb[j].pc \in Commits) /\ (k # j => skb'[j] = skb[j])
  BY <1>9 DEF CommitBody, Goto, Packet, Commits
<1>10. ASSUME NEW k \in Skbs, TakeLock(k)
       PROVE  skb'[j] = skb[j]
              \/ /\ k = j /\ Goto(j, "body") /\ skb'[j].pc = "body"
                 /\ skb'[j].flow = skb[j].flow /\ skb'[j].data = skb[j].data
  BY <1>3, <1>10 DEF TakeLock, Goto, Packet
<1>11. CASE UNCHANGED vars \/ NeighStep
  BY <1>11 DEF vars, bindVars, NeighStep
<1>12. ASSUME \/ \E d \in Neighbours : Change(d)
              \/ \E c \in Clears : EventStart(c)
              \/ \E f \in Flows : HwLearn(f)
              \/ \E s \in Slots : HwAge(s) \/ DeleteByIndex(s)
              \/ WorkerTest \/ WorkerDelete \/ WorkerDone
              \/ EventTest \/ EventDelete \/ EventEnd \/ Tick \/ Teardown \/ WarmInit
      PROVE  skb' = skb
  BY <1>12 DEF Change, EventStart, HwLearn, HwAge, DeleteByIndex, WorkerTest, WorkerDelete,
               WorkerDone, EventTest, EventDelete, EventEnd, Tick, Teardown, WarmInit
<1> QED
  BY <1>1, <1>5, <1>6, <1>7, <1>8, <1>9, <1>10, <1>11, <1>12 DEF Next, Hook

(* Without crypto flows it stays so.                                        *)
LEMMA NotBoundStep ==
  ASSUME \A f \in Flows : Path[f] # "crypto", BInv, BInv', NotBoundYet, [Next]_vars
  PROVE  NotBoundYet'
<1>1. ASSUME NEW j \in Skbs, skb'[j].pc \in Commits
      PROVE  foe'[Slot(j)'].state # "BIND"
  <2>1. skb'[j].flow = skb[j].flow /\ skb[j].pc # "idle"
    BY <1>1, WhoCommits DEF Commits, TakeLock
  <2>2. Slot(j)' = Slot(j) /\ Slot(j) \in Slots /\ skb[j].flow \in Flows
    BY <2>1, SlotType DEF Slot
  <2>3. CASE TakeLock(j) /\ Goto(j, "body")
    <3>1. ~Finish(j)
      BY <1>1 DEF Finish, IdleSkb, Commits, BInv, PacketsOK
    <3> QED BY <2>2, <2>3, <3>1 DEF TakeLock
  <2>4. CASE skb[j].pc \in Commits
    <3>1. entry_lock = j /\ foe[Slot(j)].state # "BIND"
      BY <2>4 DEF BInv, LockOK, NotBoundYet, Commits
    <3>2. ASSUME NEW k \in Skbs, CommitBody(k) \/ CommitState(k)
          PROVE  k = j
      BY <3>1, <3>2 DEF CommitBody, CommitState, BInv, LockOK
    <3>3. CASE CommitBody(j)
      BY <2>2, <3>1, <3>3 DEF CommitBody, BInv, TableOK, Entry
    <3>4. CASE CommitState(j)
      BY <1>1, <3>4 DEF CommitState, Finish, IdleSkb, Commits, BInv, PacketsOK
    <3> QED BY <2>2, <3>1, <3>2, <3>3, <3>4, WhoWrites
  <2> QED BY <1>1, <2>3, <2>4, WhoCommits
<1> QED BY <1>1 DEF NotBoundYet

(* Nobody writes a bound entry then.                                        *)
LEMMA BoundStep ==
  ASSUME BInv, NotBoundYet, [Next]_vars, NEW s \in Slots,
         foe[s].state = "BIND", foe'[s].state = "BIND"
  PROVE  foe'[s] = foe[s]
<1>1. ASSUME NEW k \in Skbs, CommitBody(k) \/ CommitState(k), s = Slot(k)
      PROVE  FALSE
  BY <1>1 DEF CommitBody, CommitState, NotBoundYet, Commits
<1> QED BY <1>1, WhoWrites

-------------------------------------------------------------------------------
(* The first phase replaces what it finds; all else only takes entries out  *)
(* or lets them grow old.                                                   *)
LEMMA UniqueStep ==
  ASSUME BInv, FlowEntryUnique, [Next]_vars
  PROVE  FlowEntryUnique'
<1>1. ASSUME foe_flow' \subseteq foe_flow
      PROVE  FlowEntryUnique'
  BY <1>1 DEF FlowEntryUnique
<1>2. ASSUME NEW k \in Skbs, PutFlow(k)
      PROVE  FlowEntryUnique'
  <2> DEFINE old == Search(Slot(k), skb[k].data.match)
  <2>1. CASE foe_flow' = foe_flow
    BY <1>1, <2>1
  <2>2. CASE foe_flow' = (foe_flow \ old) \cup {Filled(k)}
    <3>1. Filled(k).slot = Slot(k) /\ Filled(k).match = skb[k].data.match
      BY DEF Filled
    <3>2. \A e \in foe_flow \ old : ~(e.slot = Slot(k) /\ e.match = skb[k].data.match)
      BY DEF Search
    <3> HIDE DEF old
    <3> QED BY <2>2, <3>1, <3>2 DEF FlowEntryUnique
  <2> QED BY <1>2, <2>1, <2>2 DEF PutFlow
<1>3. CASE Tick
  <2> DEFINE older(e) == [e EXCEPT !.age = IF @ < 2 THEN @ + 1 ELSE @]
  <2>1. \A e \in foe_flow : older(e).slot = e.slot /\ older(e).match = e.match
    BY DEF BInv, TableOK, FlowEntry
  <2>2. foe_flow' = {older(e) : e \in foe_flow}
    BY <1>3 DEF Tick
  <2> HIDE DEF older
  <2> QED BY <2>1, <2>2 DEF FlowEntryUnique
<1>4. ASSUME NEW k \in Skbs, Hook(k) \/ HookTx(k) \/ LeaveUnbound(k), ~PutFlow(k)
      PROVE  foe_flow' \subseteq foe_flow
  BY <1>4 DEF Hook, PostRouting, BuildEntry, CryptoBuild, CryptoTest, PutTest, TakeLock, CommitBody,
              CommitState, HookTx, LeaveUnbound
<1>5. CASE UNCHANGED vars \/ NeighStep
  BY <1>1, <1>5 DEF vars, bindVars, NeighStep
<1>6. ASSUME \/ \E d \in Neighbours : Change(d)
             \/ \E c \in Clears : EventStart(c)
             \/ \E f \in Flows : HwLearn(f)
             \/ \E k \in Skbs, f \in Flows : Receive(k, f)
             \/ \E s \in Slots : HwAge(s) \/ DeleteByIndex(s)
             \/ WorkerTest \/ WorkerDelete \/ WorkerDone
             \/ EventTest \/ EventDelete \/ EventEnd \/ Teardown \/ WarmInit
      PROVE  foe_flow' \subseteq foe_flow
  BY <1>6 DEF Change, EventStart, HwLearn, Receive, HwAge, DeleteByIndex, WorkerTest,
              WorkerDelete, WorkerDone, EventTest, EventDelete, EventEnd, Teardown, WarmInit
<1> QED BY <1>1, <1>2, <1>3, <1>4, <1>5, <1>6 DEF Next

(* Two prepared entries never answer the same search, whatever packets of   *)
(* one flow are between the phases (lines 3086-3101 of hnat_nf_hook.c).     *)
THEOREM PreparedEntriesUnique == Spec => []FlowEntryUnique
<1>1. Init => FlowEntryUnique
  BY DEF Init, FlowEntryUnique
<1>2. BInv /\ FlowEntryUnique /\ [Next]_vars => FlowEntryUnique'
  BY UniqueStep
<1> QED BY <1>1, <1>2, BindInductive, PTL DEF Spec
-------------------------------------------------------------------------------
(***************************************************************************)
(* Complete entries, where the crypto path and warm init do not meddle.    *)
(***************************************************************************)
NoCrypto == \A f \in Flows : Path[f] # "crypto"

(* What can happen to an entry in a step.                                   *)
Learned(s) == /\ foe[s].state = "INVALID"
              /\ foe'[s].state = "UNBIND" /\ foe'[s].act = None

Deleted(s) == /\ foe'[s].state = "INVALID" /\ foe'[s].act = foe[s].act
              /\ entry_lock = None \/ ~Busy(s)

LEMMA WhoChanges ==
  ASSUME BInv, [Next]_vars, NEW s \in Slots
  PROVE  \/ foe'[s] = foe[s]
         \/ Learned(s) \/ Deleted(s)
         \/ WarmInit /\ foe'[s] = Cleared
         \/ \E k \in Skbs : (CommitBody(k) \/ CommitState(k)) /\ s = Slot(k)
<1> USE DEF BInv, TableOK
<1>1. CASE foe' = foe
  BY <1>1
<1>2. ASSUME NEW r \in Slots, Delete(r)
      PROVE  foe'[s] = foe[s] \/ Deleted(s)
  BY <1>2 DEF Delete, Deleted, Entry
<1>3. ASSUME NEW r \in Slots, HwAge(r)
      PROVE  foe'[s] = foe[s] \/ Deleted(s)
  BY <1>3 DEF HwAge, Deleted, Entry
<1>4. ASSUME NEW f \in Flows, HwLearn(f)
      PROVE  foe'[s] = foe[s] \/ Learned(s)
  BY <1>4 DEF HwLearn, Learned
<1>5. CASE WarmInit
  BY <1>5 DEF WarmInit
<1>6. ASSUME NEW k \in Skbs, CommitBody(k) \/ CommitState(k)
      PROVE  foe'[s] = foe[s] \/ s = Slot(k)
  BY <1>6 DEF CommitBody, CommitState
<1>7. CASE WorkerDelete \/ EventDelete
  BY <1>2, <1>7 DEF WorkerDelete, EventDelete, ScanOK, InTable
<1>8. ASSUME NEW k \in Skbs, Hook(k) \/ HookTx(k) \/ LeaveUnbound(k)
      PROVE  foe' = foe \/ CommitBody(k) \/ CommitState(k)
  BY <1>8 DEF Hook, PostRouting, BuildEntry, CryptoBuild, CryptoTest, PutTest, PutFlow, TakeLock,
              HookTx, LeaveUnbound
<1>9. CASE UNCHANGED vars \/ NeighStep
  BY <1>9 DEF vars, bindVars, NeighStep
<1>10. ASSUME \/ \E d \in Neighbours : Change(d)
              \/ \E k \in Skbs, f \in Flows : Receive(k, f)
              \/ \E c \in Clears : EventStart(c)
              \/ WorkerTest \/ WorkerDone \/ EventTest \/ EventEnd \/ Tick \/ Teardown
       PROVE  foe' = foe
  BY <1>10 DEF Change, Receive, EventStart, WorkerTest, WorkerDone, EventTest, EventEnd,
               Tick, Teardown
<1>11. ASSUME NEW r \in Slots, DeleteByIndex(r)
       PROVE  Delete(r)
  BY <1>11 DEF DeleteByIndex
<1> QED
  BY <1>1, <1>2, <1>3, <1>4, <1>5, <1>6, <1>7, <1>8, <1>9, <1>10, <1>11 DEF Next

(* Between the two writes of a commit the entry is unbound and filled.      *)
CommitUnbound ==
  \A k \in Skbs : skb[k].pc \in Commits =>
    /\ foe[Slot(k)].state = "UNBIND"
    /\ skb[k].pc = "state" => foe[Slot(k)].act # None

CompleteInv == CommitUnbound /\ CompleteWhenBound

(* How the packet that commits came to its place.                           *)
LEMMA CommitsFrom ==
  ASSUME NoCrypto, BInv, [Next]_vars, NEW j \in Skbs, skb'[j].pc \in Commits
  PROVE  /\ Slot(j)' = Slot(j) /\ Slot(j) \in Slots
         /\ \/ TakeLock(j) /\ foe' = foe /\ foe[Slot(j)].state = "UNBIND" /\ skb'[j].pc = "body"
            \/ skb[j].pc \in Commits
<1>1. skb'[j].flow = skb[j].flow /\ skb[j].pc # "idle"
  BY WhoCommits DEF Commits, TakeLock
<1>2. Slot(j)' = Slot(j) /\ Slot(j) \in Slots /\ skb[j].flow \in Flows
  BY <1>1, SlotType DEF Slot
<1>3. ASSUME TakeLock(j), Goto(j, "body")
      PROVE  foe' = foe /\ foe[Slot(j)].state = "UNBIND" /\ skb'[j].pc = "body"
  <2>1. ~Finish(j)
    BY DEF Finish, IdleSkb, Commits, BInv, PacketsOK
  <2>2. skb'[j].pc = "body"
    BY <1>3 DEF Goto, BInv, PacketsOK, Packet
  <2> QED BY <1>2, <1>3, <2>1, <2>2 DEF TakeLock, NoCrypto
<1> QED BY <1>2, <1>3, WhoCommits

LEMMA CommitUnboundStep ==
  ASSUME NoCrypto, "warm_init" \notin Stops, BInv, BInv', CommitUnbound, [Next]_vars
  PROVE  CommitUnbound'
<1> SUFFICES ASSUME NEW j \in Skbs, skb'[j].pc \in Commits
             PROVE  /\ foe'[Slot(j)'].state = "UNBIND"
                    /\ skb'[j].pc = "state" => foe'[Slot(j)'].act # None
  BY DEF CommitUnbound
<1>1. Slot(j)' = Slot(j) /\ Slot(j) \in Slots
  BY CommitsFrom
<1>2. CASE TakeLock(j) /\ foe' = foe /\ foe[Slot(j)].state = "UNBIND" /\ skb'[j].pc = "body"
  BY <1>1, <1>2
<1>3. CASE skb[j].pc \in Commits
  <2>1. entry_lock = j /\ j # None /\ Busy(Slot(j))
    BY <1>3, BindAssumption DEF BInv, LockOK, Commits, Busy
  <2>2. /\ foe[Slot(j)].state = "UNBIND"
        /\ skb[j].pc = "state" => foe[Slot(j)].act # None
    BY <1>3 DEF CommitUnbound
  <2>3. ASSUME NEW k \in Skbs, CommitBody(k) \/ CommitState(k)
        PROVE  k = j
    BY <2>1, <2>3 DEF CommitBody, CommitState, BInv, LockOK
  <2>4. CASE CommitBody(j)
    <3>1. skb[j].data.act \in Action /\ None \notin Action
      BY <2>4, BindAssumption DEF CommitBody, BInv, PacketsOK, Ready
    <3>2. foe'[Slot(j)].act = skb[j].data.act /\ foe'[Slot(j)].state = foe[Slot(j)].state
      BY <1>1, <2>4 DEF CommitBody, BInv, TableOK, Entry
    <3> QED BY <1>1, <2>2, <3>1, <3>2
  <2>5. CASE CommitState(j)
    BY <2>5 DEF CommitState, Finish, IdleSkb, Commits, BInv, PacketsOK
  <2>6. CASE ~CommitBody(j) /\ ~CommitState(j)
    <3>1. ~WarmInit
      BY DEF WarmInit, ClearTables
    <3>2. foe'[Slot(j)] = foe[Slot(j)]
      BY <1>1, <2>1, <2>2, <2>3, <2>6, <3>1, WhoChanges DEF Learned, Deleted
    <3>3. skb'[j].pc = "state" => skb[j].pc = "state"
      BY <2>6, WhoCommits
    <3> QED BY <1>1, <2>2, <3>2, <3>3
  <2> QED BY <2>4, <2>5, <2>6
<1> QED BY <1>2, <1>3, CommitsFrom

LEMMA CompleteStep ==
  ASSUME NoCrypto, "warm_init" \notin Stops, BInv, BInv', CompleteInv, [Next]_vars
  PROVE  CompleteInv'
<1>1. CommitUnbound'
  BY CommitUnboundStep DEF CompleteInv
<1>2. ASSUME NEW s \in Slots, foe'[s].state = "BIND"
      PROVE  foe'[s].act # None
  <2>1. ~WarmInit
    BY DEF WarmInit, ClearTables
  <2>2. CASE foe'[s] = foe[s]
    BY <1>2, <2>2 DEF CompleteInv, CompleteWhenBound
  <2>3. ASSUME NEW k \in Skbs, CommitBody(k), s = Slot(k)
        PROVE  FALSE
    <3>1. foe'[s].state = foe[s].state
      BY <2>3 DEF CommitBody, BInv, TableOK, Entry
    <3> QED BY <1>2, <2>3, <3>1 DEF CommitBody, CompleteInv, CommitUnbound, Commits
  <2>4. ASSUME NEW k \in Skbs, CommitState(k), s = Slot(k)
        PROVE  foe'[s].act # None
    <3>1. foe'[s].act = foe[s].act
      BY <2>4 DEF CommitState, BInv, TableOK, Entry
    <3> QED BY <2>4, <3>1 DEF CommitState, CompleteInv, CommitUnbound, Commits
  <2> QED BY <1>2, <2>1, <2>2, <2>3, <2>4, WhoChanges DEF Learned, Deleted
<1> QED BY <1>1, <1>2 DEF CompleteInv, CompleteWhenBound

(* What the hardware forwards by is complete: the words of an entry are     *)
(* there before its state is, whatever is learned, aged or deleted between  *)
(* the hooks' tests and the two writes (line 1995 of hnat_nf_hook.c).       *)
THEOREM BoundComplete ==
  ASSUME NoCrypto, "warm_init" \notin Stops
  PROVE  Spec => []CompleteWhenBound
<1>1. Init => CompleteInv
  BY DEF Init, CompleteInv, CommitUnbound, CompleteWhenBound, IdleSkb, Commits, Cleared
<1>2. BInv /\ BInv' /\ CompleteInv /\ [Next]_vars => CompleteInv'
  BY CompleteStep
<1>3. CompleteInv => CompleteWhenBound
  BY DEF CompleteInv
<1> QED BY <1>1, <1>2, <1>3, BindInductive, PTL DEF Spec
-------------------------------------------------------------------------------
(***************************************************************************)
(* Entries with a wrong address.  A second packet of a crypto flow may     *)
(* write an entry that is bound, so either no flow takes that path or one  *)
(* packet is under way at a time.                                          *)
(***************************************************************************)
OneWriter == NoCrypto \/ \A j, k \in Skbs : j = k

(* With one packet, nobody binds an entry between its tests and its commit. *)
NotBoundAhead ==
  \A k \in Skbs : skb[k].pc \in {"test", "lock"} \cup Commits => foe[Slot(k)].state # "BIND"

LEMMA AheadStep ==
  ASSUME \A j, k \in Skbs : j = k, BInv, BInv', NotBoundAhead, [Next]_vars
  PROVE  NotBoundAhead'
<1> SUFFICES ASSUME NEW k \in Skbs, skb'[k].pc \in {"test", "lock"} \cup Commits
             PROVE  foe'[Slot(k)'].state # "BIND"
  BY DEF NotBoundAhead
<1> USE DEF BInv, PacketsOK, TableOK
<1>1. CASE skb' = skb
  <2>1. Slot(k)' = Slot(k) /\ Slot(k) \in Slots /\ foe[Slot(k)].state # "BIND"
    BY <1>1, SlotType DEF Slot, Commits, NotBoundAhead
  <2>2. ASSUME NEW j \in Skbs, CommitBody(j) \/ CommitState(j)
        PROVE  FALSE
    BY <1>1, <2>2 DEF CommitBody, CommitState, Goto, Finish, IdleSkb, Packet
  <2> QED BY <2>1, <2>2, WhoWrites
<1>2. ASSUME NEW f \in Flows, Receive(k, f)
      PROVE  FALSE
  BY <1>2 DEF Receive, IdleSkb, Commits
<1>3. ASSUME Finish(k)
      PROVE  FALSE
  BY <1>3 DEF Finish, IdleSkb, Commits
<1>4. CASE PostRouting(k) \/ BuildEntry(k) \/ CryptoBuild(k) \/ CryptoTest(k) \/ TakeLock(k)
  <2>1. foe' = foe /\ skb'[k].flow = skb[k].flow /\ skb[k].pc # "idle"
    BY <1>3, <1>4 DEF PostRouting, BuildEntry, CryptoBuild, CryptoTest, TakeLock, Goto, Packet
  <2>2. Slot(k)' = Slot(k) /\ Slot(k) \in Slots
    BY <2>1, SlotType DEF Slot
  <2>3. foe[Slot(k)].state # "BIND"
    BY <1>3, <1>4 DEF PostRouting, BuildEntry, CryptoBuild, CryptoTest, TakeLock, NotBoundAhead
  <2> QED BY <2>1, <2>2, <2>3
<1>5. CASE PutTest(k) \/ PutFlow(k) \/ LeaveUnbound(k)
  BY <1>3, <1>5 DEF PutTest, PutFlow, LeaveUnbound, Goto, Packet, Commits
<1>6. CASE HookTx(k)
  <2>1. foe' = foe /\ foe[Slot(k)].state = "UNBIND" /\ skb'[k].flow = skb[k].flow
    BY <1>3, <1>6 DEF HookTx, Packet
  <2>2. Slot(k)' = Slot(k)
    BY <2>1 DEF Slot
  <2> QED BY <2>1, <2>2
<1>7. CASE CommitBody(k)
  <2>1. skb'[k].flow = skb[k].flow /\ skb[k].pc = "body"
    BY <1>7 DEF CommitBody, Goto, Packet
  <2>2. Slot(k)' = Slot(k) /\ Slot(k) \in Slots
    BY <2>1, SlotType DEF Slot
  <2>3. foe'[Slot(k)].state = foe[Slot(k)].state
    BY <1>7, <2>2 DEF CommitBody, Entry
  <2> QED BY <2>1, <2>2, <2>3 DEF NotBoundAhead, Commits
<1>8. ASSUME ~ \E j \in Skbs : (\E f \in Flows : Receive(j, f)) \/ Hook(j) \/ HookTx(j) \/ LeaveUnbound(j)
      PROVE  skb' = skb
  BY <1>8 DEF Next, vars, bindVars, NeighStep, Change, EventStart, HwLearn, HwAge, DeleteByIndex,
              WorkerTest, WorkerDelete, WorkerDone, EventTest, EventDelete, EventEnd, Tick,
              Teardown, WarmInit
<1>9. CASE CommitState(k)
  BY <1>3, <1>9 DEF CommitState
<1> QED BY <1>1, <1>2, <1>4, <1>5, <1>6, <1>7, <1>8, <1>9 DEF Hook

(* Where one writer is guaranteed, a packet never commits over a bound      *)
(* entry.                                                                   *)
LEMMA NotBoundInductive ==
  ASSUME OneWriter
  PROVE  Spec => []NotBoundYet
<1>1. CASE NoCrypto
  <2>1. Init => NotBoundYet
    BY DEF Init, NotBoundYet, IdleSkb, Commits
  <2>2. BInv /\ BInv' /\ NotBoundYet /\ [Next]_vars => NotBoundYet'
    BY <1>1, NotBoundStep DEF NoCrypto
  <2> QED BY <2>1, <2>2, BindInductive, PTL DEF Spec
<1>2. CASE \A j, k \in Skbs : j = k
  <2>1. Init => NotBoundAhead
    BY DEF Init, NotBoundAhead, IdleSkb, Commits
  <2>2. BInv /\ BInv' /\ NotBoundAhead /\ [Next]_vars => NotBoundAhead'
    BY <1>2, AheadStep
  <2>3. NotBoundAhead => NotBoundYet
    BY DEF NotBoundAhead, NotBoundYet
  <2> QED BY <2>1, <2>2, <2>3, BindInductive, PTL DEF Spec
<1> QED BY <1>1, <1>2 DEF OneWriter

(* A bound entry is never written, whatever packets, events and neighbours  *)
(* do at the same time (lines 1995, 3125 and 3482 of hnat_nf_hook.c).       *)
THEOREM BoundKept ==
  ASSUME OneWriter
  PROVE  Spec => BoundNotRewritten
<1>1. BInv /\ NotBoundYet /\ [Next]_vars
        => \A s \in Slots :
             foe[s].state = "BIND" /\ foe'[s].state = "BIND" => foe'[s] = foe[s]
  BY BoundStep
<1> QED BY <1>1, NotBoundInductive, BindInductive, PTL DEF Spec, BoundNotRewritten

(* A packet is about to bind what it wrote, or what warm init left of it.   *)
DataWritten ==
  \A k \in Skbs : skb[k].pc = "state" => foe[Slot(k)].act \in {skb[k].data.act, None}

(* The worker is in the table only while it clears, and has a reason to     *)
(* delete only if it has updates.                                           *)
WorkerPlace ==
  /\ worker.pc # "clear" => scan.worker = Start
  /\ scan.worker.hit => worker.local # << >>

WrongInv == NotBoundYet /\ DataWritten /\ WorkerPlace /\ WrongAddressPending

(* Nobody writes another packet's entry between its two writes.             *)
LEMMA DataStep ==
  ASSUME BInv, BInv', DataWritten, NotBoundYet, [Next]_vars
  PROVE  DataWritten'
<1> SUFFICES ASSUME NEW j \in Skbs, skb'[j].pc = "state"
             PROVE  foe'[Slot(j)'].act \in {skb'[j].data.act, None}
  BY DEF DataWritten
<1>1. /\ skb'[j].flow = skb[j].flow /\ skb'[j].data = skb[j].data
      /\ skb[j].pc = "state" \/ CommitBody(j)
  BY WhoCommits DEF Commits
<1>2. skb[j].pc \in Commits /\ skb[j].pc # "idle"
  BY <1>1 DEF CommitBody, Commits
<1>3. Slot(j)' = Slot(j) /\ Slot(j) \in Slots
  BY <1>1, <1>2, SlotType DEF Slot
<1>4. CASE CommitBody(j)
  <2>1. foe'[Slot(j)].act = skb[j].data.act
    BY <1>3, <1>4 DEF CommitBody, BInv, TableOK, Entry
  <2> QED BY <1>1, <1>3, <2>1
<1>5. CASE skb[j].pc = "state" /\ ~CommitBody(j)
  <2>1. entry_lock = j
    BY <1>5 DEF BInv, LockOK
  <2>2. ASSUME NEW k \in Skbs, CommitBody(k) \/ CommitState(k)
        PROVE  k = j
    BY <2>1, <2>2 DEF CommitBody, CommitState, BInv, LockOK
  <2>3. ~CommitState(j)
    BY DEF CommitState, Finish, IdleSkb, BInv, PacketsOK
  <2>4. foe'[Slot(j)].act \in {foe[Slot(j)].act, None}
    BY <1>3, <1>5, <2>2, <2>3, WhoChanges DEF Learned, Deleted, Cleared
  <2> QED BY <1>1, <1>3, <1>5, <2>4 DEF DataWritten
<1> QED BY <1>1, <1>4, <1>5

(* Who moves the worker.                                                    *)
LEMMA WorkerPlaceStep ==
  ASSUME NeighTypeOK, BInv, WorkerPlace, [Next]_vars
  PROVE  WorkerPlace'
<1> USE DEF WorkerPlace
<1>1. scan \in [worker : Place, event : Place, what : Clears \cup {None}]
  BY DEF BInv, ScanOK
<1>2. ASSUME worker' = worker, scan'.worker = scan.worker
      PROVE  WorkerPlace'
  BY <1>2
<1>3. CASE WorkerTest
  BY <1>1, <1>3 DEF WorkerTest, Step, neighVars, queueVars
<1>4. CASE WorkerDelete
  BY <1>1, <1>4 DEF WorkerDelete, Step, neighVars, queueVars, Start
<1>5. CASE WorkerDone
  BY <1>1, <1>5 DEF WorkerDone, WorkerClear, Start
<1>6. CASE NeighStep
  <2>1. CASE WorkStart \/ WorkerTake \/ WorkerRecheck
    <3>1. worker \in [pc : {"idle", "entered", "clear", "recheck"}, local : Seq(Update)]
      BY DEF NeighTypeOK
    <3>2. worker.pc # "clear" /\ scan' = scan
      BY <1>6, <2>1 DEF NeighStep, bindVars, WorkStart, WorkerTake, WorkerRecheck
    <3> QED BY <3>1, <3>2 DEF Start
  <2>2. CASE ~(WorkStart \/ WorkerTake \/ WorkerRecheck)
    BY <1>2, <1>6, <2>2 DEF NeighStep, bindVars, Netevent, Enqueue, Drop, Unheard, Unregister,
         CleanupList, CancelWork, CancelDone, Reregister, Remove, queueVars
  <2> QED BY <2>1, <2>2
<1>7. ASSUME NEW c \in Clears, EventStart(c)
      PROVE  scan'.worker = scan.worker
  BY <1>1, <1>7 DEF EventStart
<1>8. ASSUME EventTest \/ EventDelete \/ EventEnd
      PROVE  scan'.worker = scan.worker
  BY <1>1, <1>8 DEF EventTest, EventDelete, EventEnd, Step
<1>9. ASSUME NEW k \in Skbs, Hook(k) \/ HookTx(k) \/ LeaveUnbound(k)
      PROVE  worker' = worker /\ scan' = scan
  BY <1>9 DEF Hook, PostRouting, BuildEntry, CryptoBuild, CryptoTest, PutTest, PutFlow, TakeLock,
              CommitBody, CommitState, HookTx, LeaveUnbound, neighVars, queueVars
<1>10. ASSUME \/ UNCHANGED vars
              \/ \E d \in Neighbours : Change(d)
              \/ \E f \in Flows : HwLearn(f)
              \/ \E k \in Skbs, f \in Flows : Receive(k, f)
              \/ \E s \in Slots : HwAge(s) \/ DeleteByIndex(s)
              \/ Tick \/ Teardown \/ WarmInit
       PROVE  worker' = worker /\ scan' = scan
  BY <1>10 DEF vars, bindVars, Change, NeighChange, HwLearn, Receive, HwAge, DeleteByIndex,
               Tick, Teardown, WarmInit, ClearTables, neighVars, queueVars
<1>11. ASSUME EventTest \/ EventDelete \/ EventEnd \/ \E c \in Clears : EventStart(c)
       PROVE  worker' = worker
  BY <1>11 DEF EventTest, EventDelete, EventEnd, EventStart, neighVars, queueVars
<1> QED
  BY <1>2, <1>3, <1>4, <1>5, <1>6, <1>7, <1>8, <1>9, <1>10, <1>11 DEF Next

(* An entry that a step leaves bound was so before, or was just bound to    *)
(* what its packet wrote.                                                   *)
LEMMA WrongWasBound ==
  ASSUME NeighTypeOK, BInv, BInv', NotBoundYet, DataWritten, [Next]_vars,
         NEW s \in Slots, WrongAddress(s)', s \notin late'
  PROVE  foe'[s] = foe[s]
<1> DEFINE act == foe'[s].act
<1>1. /\ foe'[s].state = "BIND" /\ act # None
      /\ neigh'[Via[act.flow]].ha # act.ha \/ neigh'[Via[act.flow]].nud = "failed"
  BY DEF WrongAddress, OutOfDate
<1>2. ASSUME NEW k \in Skbs, CommitBody(k), s = Slot(k)
      PROVE  FALSE
  <2>1. foe'[s].state = foe[s].state
    BY <1>2 DEF CommitBody, BInv, TableOK, Entry
  <2> QED BY <1>1, <1>2, <2>1 DEF CommitBody, NotBoundYet, Commits
<1>3. ASSUME NEW k \in Skbs, CommitState(k), s = Slot(k)
      PROVE  FALSE
  <2>1. foe'[s].act = foe[s].act /\ neigh' = neigh
    BY <1>3 DEF CommitState, BInv, TableOK, Entry, neighVars
  <2>2. foe[s].act = skb[k].data.act
    BY <1>1, <1>3, <2>1 DEF CommitState, DataWritten
  <2>3. OutOfDate(skb[k].data.act)
    BY <1>1, <2>1, <2>2 DEF OutOfDate
  <2> QED BY <1>3, <2>3 DEF CommitState
<1> QED BY <1>1, <1>2, <1>3, WhoChanges DEF Learned, Deleted, Cleared

(* What DueForDeletion says of an entry e with next hop n.                  *)
Listed(us, e) == \E i \in 1 .. Len(us) : Concerns(us[i], e)

(* A batch splits the queue, and an update is appended at its end.          *)
LEMMA ListedSplit ==
  ASSUME NEW us \in Seq(Update), NEW n \in 0 .. Len(us), NEW e, Listed(us, e)
  PROVE  Listed(SubSeq(us, 1, n), e) \/ Listed(SubSeq(us, n + 1, Len(us)), e)
<1>1. PICK i \in 1 .. Len(us) : Concerns(us[i], e)
  BY DEF Listed
<1>2. Len(us) \in Nat
  OBVIOUS
<1>3. CASE i <= n
  <2>1. i \in 1 .. Len(SubSeq(us, 1, n)) /\ SubSeq(us, 1, n)[i] = us[i]
    BY <1>2, <1>3
  <2> QED BY <1>1, <2>1 DEF Listed
<1>4. CASE i > n
  <2>1. i - n \in 1 .. Len(us) - n
    BY <1>2, <1>4
  <2>2. Len(SubSeq(us, n + 1, Len(us))) = Len(us) - n
    BY <1>2
  <2>3. SubSeq(us, n + 1, Len(us))[i - n] = us[i]
    BY <1>2, <2>1, <2>2
  <2> QED BY <1>1, <2>1, <2>2, <2>3 DEF Listed
<1> QED BY <1>2, <1>3, <1>4

LEMMA ListedAppend ==
  ASSUME NEW us \in Seq(Update), NEW u \in Update, NEW e, Listed(us, e) \/ Concerns(u, e)
  PROVE  Listed(Append(us, u), e)
<1>1. Len(Append(us, u)) = Len(us) + 1 /\ Len(us) \in Nat
  OBVIOUS
<1>2. \A i \in 1 .. Len(us) : Append(us, u)[i] = us[i]
  OBVIOUS
<1>3. Append(us, u)[Len(us) + 1] = u
  OBVIOUS
<1>4. CASE Listed(us, e)
  BY <1>1, <1>2, <1>4 DEF Listed
<1>5. CASE Concerns(u, e)
  BY <1>1, <1>3, <1>5 DEF Listed
<1> QED BY <1>4, <1>5

(* Every step leaves an update, or the announcement of one, for an entry    *)
(* that is wrong after it.                                                  *)
LEMMA WrongStep ==
  ASSUME \A f \in Flows : Dest[f] = Via[f],
         NeighTypeOK, BInv, BInv', WrongInv, [Next]_vars,
         NEW s \in Slots, WrongAddress(s)', s \notin late', NextHop(s)' \notin lost'
  PROVE  DueForDeletion(s)'
<1> DEFINE e == foe[s]
           d0 == Via[e.act.flow]
           Due == \/ d0 \in notify \/ neigh[d0].nud = "stale"
                  \/ Listed(head, e)
                  \/ worker.pc = "clear" /\ scan.worker.at <= s /\ Listed(worker.local, e)
                  \/ scan.worker = [at |-> s, hit |-> TRUE]
           DueNext == \/ d0 \in notify' \/ neigh'[d0].nud = "stale"
                      \/ Listed(head', e)
                      \/ worker'.pc = "clear" /\ scan'.worker.at <= s /\ Listed(worker'.local, e)
                      \/ scan'.worker = [at |-> s, hit |-> TRUE]
<1>1. foe'[s] = e
  BY WrongWasBound DEF WrongInv
<1>2. /\ e.state = "BIND" /\ e.act # None
      /\ neigh'[d0].ha # e.act.ha \/ neigh'[d0].nud = "failed"
      /\ d0 \notin lost'
  BY <1>1 DEF WrongAddress, OutOfDate, NextHop
<1>3. e.act \in Action /\ d0 \in Neighbours /\ Dest[e.act.flow] = d0
  <2>1. e.act \in Action
    BY <1>2 DEF BInv, TableOK, Entry
  <2> QED BY <2>1, BindAssumption DEF Action
<1>4. s \notin late /\ d0 \notin lost /\ (neigh[d0].ha # e.act.ha \/ neigh[d0].nud = "failed")
        => Due
  BY <1>2 DEF WrongInv, WrongAddressPending, WrongAddress, OutOfDate, NextHop, DueForDeletion, Listed
<1>5. DueNext => DueForDeletion(s)'
  BY <1>1 DEF DueForDeletion, NextHop, Listed
<1>6. /\ scan \in [worker : Place, event : Place, what : Clears \cup {None}]
      /\ s \in 1 .. FoeSize /\ FoeSize \in Nat
      /\ scan.worker.at \in Nat
  BY BindAssumption DEF BInv, ScanOK, Slots, Place
<1>7. /\ worker \in [pc : {"idle", "entered", "clear", "recheck"}, local : Seq(Update)]
      /\ head \in Seq(Update)
      /\ neigh \in [Neighbours -> Neighbour]
  BY DEF NeighTypeOK
<1> HIDE DEF e, d0
<1> SUFFICES DueNext
  BY <1>5
<1>8. ASSUME UNCHANGED <<neigh, lost, notify, head, worker>>, scan'.worker = scan.worker,
             s \in late => s \in late'
      PROVE  DueNext
  BY <1>2, <1>4, <1>8
<1>9. ASSUME NEW d \in Neighbours, Change(d)
      PROVE  DueNext
  <2>1. /\ UNCHANGED <<lost, head, worker, scan>>
        /\ notify' = notify \cup {d}
        /\ late' = {r \in late : foe[r].act # None /\ Via[foe[r].act.flow] # d}
        /\ \E v \in Values : neigh' = [neigh EXCEPT ![d] = v]
    BY <1>9 DEF Change, NeighChange, queueVars
  <2>2. CASE d = d0
    BY <2>1, <2>2
  <2>3. CASE d # d0
    <3>1. neigh'[d0] = neigh[d0]
      BY <1>3, <1>7, <2>1, <2>3
    <3>2. s \notin late
      BY <1>2, <2>1, <2>3 DEF e, d0
    <3> QED BY <1>2, <1>4, <2>1, <3>1, <3>2
  <2> QED BY <2>2, <2>3
<1>10. ASSUME NEW d \in Neighbours, Netevent(d), UNCHANGED bindVars
       PROVE  DueNext
  <2>1. /\ notify' = notify \ {d} /\ neigh' = neigh
        /\ UNCHANGED <<late, scan>>
    BY <1>10 DEF Netevent, bindVars
  <2>2. CASE neigh[d].nud = "stale"
    <3>1. UNCHANGED <<lost, head, worker>>
      BY <1>10, <2>2 DEF Netevent, queueVars
    <3> QED BY <1>2, <1>4, <2>1, <2>2, <3>1
  <2>3. CASE neigh[d].nud # "stale" /\ Enqueue(d)
    <3>1. UpdateOf(d) \in Update
      BY <1>7, <2>3 DEF UpdateOf, Update, Neighbour
    <3>2. head' = Append(head, UpdateOf(d)) /\ lost' = lost \ {d} /\ worker' = worker
      BY <2>3 DEF Enqueue
    <3>3. CASE d = d0
      <4>1. Concerns(UpdateOf(d), e)
        BY <1>2, <1>3, <2>1, <3>3 DEF Concerns, UpdateOf
      <4> QED BY <1>7, <3>1, <3>2, <4>1, ListedAppend
    <3>4. CASE d # d0
      <4>1. Due
        BY <1>2, <1>4, <2>1, <3>2, <3>4
      <4>2. Listed(head, e) => Listed(head', e)
        BY <1>7, <3>1, <3>2, ListedAppend
      <4> QED BY <2>1, <3>2, <3>4, <4>1, <4>2
    <3> QED BY <3>3, <3>4
  <2>4. CASE neigh[d].nud # "stale" /\ Drop(d)
    <3>1. lost' = lost \cup {d} /\ UNCHANGED <<head, worker>>
      BY <2>4 DEF Drop, queueVars
    <3> QED BY <1>2, <1>4, <2>1, <3>1
  <2> QED BY <1>10, <2>2, <2>3, <2>4 DEF Netevent
<1>11. ASSUME NEW d \in Neighbours, Unheard(d), UNCHANGED bindVars
       PROVE  DueNext
  <2>1. /\ notify' = notify \ {d} /\ lost' = lost \cup {d}
        /\ UNCHANGED <<neigh, head, worker, late, scan>>
    BY <1>11 DEF Unheard, bindVars, queueVars
  <2> QED BY <1>2, <1>4, <2>1
<1>12. ASSUME WorkStart \/ WorkerRecheck, UNCHANGED bindVars
       PROVE  DueNext
  <2>1. worker.pc # "clear" /\ UNCHANGED <<neigh, notify, lost, head, late, scan>>
    BY <1>12 DEF WorkStart, WorkerRecheck, bindVars
  <2> QED BY <1>2, <1>4, <2>1
<1>13. ASSUME WorkerTake, UNCHANGED bindVars
       PROVE  DueNext
  <2>1. /\ worker.pc = "entered"
        /\ worker' = [pc |-> "clear", local |-> SubSeq(head, 1, Batch)]
        /\ head' = SubSeq(head, Batch + 1, Len(head))
        /\ UNCHANGED <<neigh, notify, lost, late, scan>>
    BY <1>13 DEF WorkerTake, bindVars
  <2>2. Batch \in 0 .. Len(head)
    BY <1>7, NeighAssumption DEF Batch
  <2>3. scan.worker = Start /\ scan.worker.at = 1
    BY <2>1 DEF WrongInv, WorkerPlace, Start
  <2>4. Due
    BY <1>2, <1>4, <2>1
  <2>5. Listed(head, e) => Listed(worker'.local, e) \/ Listed(head', e)
    BY <1>7, <2>1, <2>2, ListedSplit
  <2> QED BY <1>6, <2>1, <2>3, <2>4, <2>5 DEF Start
<1>14. ASSUME Unregister \/ CancelWork \/ CancelDone \/ Reregister \/ Remove, UNCHANGED bindVars
       PROVE  DueNext
  BY <1>8, <1>14 DEF Unregister, CancelWork, CancelDone, Reregister, Remove, queueVars, bindVars
<1>15. ASSUME CleanupList, UNCHANGED bindVars
       PROVE  DueNext
  <2>1. /\ lost' = lost \cup {head[i].dip : i \in 1 .. Len(head)}
        /\ UNCHANGED <<neigh, notify, worker, late, scan>>
    BY <1>15 DEF CleanupList, bindVars
  <2>2. Listed(head, e) => d0 \in lost'
    BY <1>3, <2>1 DEF Listed, Concerns
  <2> QED BY <1>2, <1>4, <2>1, <2>2
<1>16. CASE WorkerTest
  <2>1. /\ worker.pc = "clear" /\ scan.worker.at \in Slots /\ ~scan.worker.hit
        /\ UNCHANGED <<neigh, notify, lost, head, worker, late>>
    BY <1>16 DEF WorkerTest, neighVars, queueVars
  <2> DEFINE hit == /\ foe[scan.worker.at].state = "BIND"
                    /\ Listed(worker.local, foe[scan.worker.at])
  <2>2. scan'.worker = IF hit THEN [scan.worker EXCEPT !.hit = TRUE]
                       ELSE [at |-> scan.worker.at + 1, hit |-> FALSE]
    BY <1>6, <1>16 DEF WorkerTest, Step, Listed
  <2>3. Due
    BY <1>2, <1>4, <2>1
  <2>4. CASE worker.pc = "clear" /\ scan.worker.at <= s /\ Listed(worker.local, e)
    <3>1. CASE scan.worker.at = s
      <4>1. hit
        BY <1>2, <2>4, <3>1 DEF e
      <4>2. scan'.worker = [scan.worker EXCEPT !.hit = TRUE]
        BY <2>2, <4>1
      <4>3. scan.worker \in Place
        BY <1>6
      <4> QED BY <3>1, <4>2, <4>3 DEF Place
    <3>2. CASE scan.worker.at < s
      <4>1. scan'.worker.at <= s
        <5>1. scan'.worker.at \in {scan.worker.at, scan.worker.at + 1}
          <6>1. scan.worker \in Place
            BY <1>6
          <6> HIDE DEF hit
          <6> QED BY <2>2, <6>1 DEF Place
        <5> QED BY <1>6, <3>2, <5>1
      <4> QED BY <2>1, <2>4, <4>1
    <3> QED BY <1>6, <2>4, <3>1, <3>2
  <2>5. CASE scan.worker = [at |-> s, hit |-> TRUE]
    BY <2>1, <2>5
  <2> QED BY <2>1, <2>3, <2>4, <2>5
<1>17. CASE WorkerDelete
  <2>1. /\ scan.worker.hit
        /\ foe' = [foe EXCEPT ![scan.worker.at].state = "INVALID"]
        /\ late' = late \ {scan.worker.at}
        /\ scan'.worker = [at |-> scan.worker.at + 1, hit |-> FALSE]
        /\ UNCHANGED <<neigh, notify, lost, head, worker>>
    BY <1>6, <1>17 DEF WorkerDelete, Delete, Step, neighVars, queueVars
  <2>2. scan.worker.at # s
    BY <1>1, <1>2, <2>1 DEF e, BInv, TableOK, Entry
  <2>3. Due
    BY <1>2, <1>4, <2>1, <2>2
  <2> QED BY <1>6, <2>1, <2>2, <2>3
<1>18. CASE WorkerDone
  <2>1. /\ scan.worker.at > FoeSize \/ worker.local = << >>
        /\ UNCHANGED <<neigh, notify, lost, head, late>>
    BY <1>18 DEF WorkerDone, WorkerClear
  <2>2. ~(scan.worker.at <= s /\ Listed(worker.local, e))
    BY <1>6, <2>1 DEF Listed
  <2>3. scan.worker # [at |-> s, hit |-> TRUE]
    BY <1>6, <2>1 DEF WrongInv, WorkerPlace
  <2> QED BY <1>2, <1>4, <2>1, <2>2, <2>3
<1>19. ASSUME NEW r \in Slots, HwAge(r) \/ DeleteByIndex(r)
       PROVE  DueNext
  <2>1. /\ foe' = [foe EXCEPT ![r].state = "INVALID"] /\ late' = late \ {r}
        /\ UNCHANGED <<neigh, notify, lost, head, worker, scan>>
    BY <1>19 DEF HwAge, DeleteByIndex, Delete, neighVars, queueVars
  <2>2. r # s
    BY <1>1, <1>2, <2>1 DEF e, BInv, TableOK, Entry
  <2> QED BY <1>8, <2>1, <2>2
<1>20. CASE EventDelete
  <2>1. /\ foe' = [foe EXCEPT ![scan.event.at].state = "INVALID"]
        /\ late' = late \ {scan.event.at} /\ scan'.worker = scan.worker
        /\ UNCHANGED <<neigh, notify, lost, head, worker>>
    BY <1>6, <1>20 DEF EventDelete, Delete, Step, neighVars, queueVars
  <2>2. scan.event.at # s
    BY <1>1, <1>2, <2>1 DEF e, BInv, TableOK, Entry
  <2> QED BY <1>8, <2>1, <2>2
<1>21. ASSUME EventTest \/ EventEnd \/ \E c \in Clears : EventStart(c)
       PROVE  DueNext
  <2>1. scan'.worker = scan.worker /\ UNCHANGED <<neigh, notify, lost, head, worker, late>>
    BY <1>6, <1>21 DEF EventTest, EventEnd, EventStart, Step, neighVars, queueVars
  <2> QED BY <1>8, <2>1
<1>22. ASSUME NEW k \in Skbs, CommitState(k)
       PROVE  DueNext
  <2>1. /\ late' = IF OutOfDate(skb[k].data.act) THEN late \cup {Slot(k)} ELSE late \ {Slot(k)}
        /\ foe' = [foe EXCEPT ![Slot(k)].state = "BIND"]
        /\ skb[k].pc = "state"
        /\ UNCHANGED <<neigh, notify, lost, head, worker, scan>>
    BY <1>22 DEF CommitState, neighVars, queueVars
  <2>2. Slot(k) # s
    BY <1>2, <2>1 DEF e, WrongInv, NotBoundYet, Commits
  <2> QED BY <1>8, <2>1, <2>2
<1>23. ASSUME NEW k \in Skbs, Hook(k) \/ HookTx(k) \/ LeaveUnbound(k), ~CommitState(k)
       PROVE  DueNext
  <2>1. UNCHANGED <<neigh, notify, lost, head, worker, scan, late>>
    BY <1>23 DEF Hook, PostRouting, BuildEntry, CryptoBuild, CryptoTest, PutTest, PutFlow, TakeLock,
                 CommitBody, HookTx, LeaveUnbound, neighVars, queueVars
  <2> QED BY <1>8, <2>1
<1>24. ASSUME \/ UNCHANGED vars
              \/ \E f \in Flows : HwLearn(f)
              \/ \E k \in Skbs, f \in Flows : Receive(k, f)
              \/ Tick \/ Teardown
       PROVE  DueNext
  <2>1. UNCHANGED <<neigh, notify, lost, head, worker, scan, late>>
    BY <1>24 DEF vars, bindVars, HwLearn, Receive, Tick, Teardown, neighVars, queueVars
  <2> QED BY <1>8, <2>1
<1>25. ~WarmInit
  BY <1>1, <1>2 DEF WarmInit, Cleared, e
<1> QED
  BY <1>9, <1>10, <1>11, <1>12, <1>13, <1>14, <1>15, <1>16, <1>17, <1>18, <1>19, <1>20,
     <1>21, <1>22, <1>23, <1>24, <1>25 DEF Next, NeighStep

(* What the driver deletes by is the destination of an entry; where flows   *)
(* are on link, so that it is the next hop, an entry that was right when it *)
(* was bound never is wrong without an update on its way: through batches,  *)
(* walks, cleanup and warm init, as long as the limit dropped none (lines   *)
(* 538-544 and 579-690 of hnat_nf_hook.c).                                  *)
THEOREM WrongAlwaysPending ==
  ASSUME OneWriter, \A f \in Flows : Dest[f] = Via[f]
  PROVE  Spec => []WrongAddressPending
<1>1. Init => DataWritten /\ WorkerPlace /\ WrongAddressPending
  BY DEF Init, NeighInit, DataWritten, WorkerPlace, WrongAddressPending, WrongAddress, IdleSkb,
         Start, Cleared
<1>2. /\ NeighTypeOK /\ BInv /\ BInv' /\ NotBoundYet /\ NotBoundYet'
      /\ DataWritten /\ WorkerPlace /\ WrongAddressPending /\ [Next]_vars
      => DataWritten' /\ WorkerPlace' /\ WrongAddressPending'
  <2> SUFFICES ASSUME NeighTypeOK, BInv, BInv', NotBoundYet, DataWritten, WorkerPlace,
                      WrongAddressPending, [Next]_vars
               PROVE  DataWritten' /\ WorkerPlace' /\ WrongAddressPending'
    OBVIOUS
  <2>1. \A s \in Slots : WrongAddress(s)' /\ s \notin late' /\ NextHop(s)' \notin lost'
                           => DueForDeletion(s)'
    BY WrongStep DEF WrongInv
  <2> QED BY <2>1, DataStep, WorkerPlaceStep DEF WrongAddressPending
<1>3. Spec => []NeighTypeOK
  BY BindingImplementsQueue, TypeCorrect, PTL
<1> QED BY <1>1, <1>2, <1>3, NotBoundInductive, BindInductive, PTL DEF Spec
===============================================================================
