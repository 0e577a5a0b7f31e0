-------------------------------- MODULE HnatBind --------------------------------
(***************************************************************************)
(* How mtk_hnat binds flows in the FOE table, the table of the packet      *)
(* engine (PPE), and unbinds them again (hnat_nf_hook.c, hnat.c).          *)
(*                                                                         *)
(* The hardware writes an UNBIND entry for a flow it does not know, and    *)
(* hands the packets to the kernel.  The hooks prepare the rest of the     *)
(* entry and commit it as BIND: at once for a wired port, in two phases    *)
(* for WiFi, where post-routing puts the prepared entry into foe_flow and  *)
(* the driver's transmit hook completes it.  Events delete bound entries   *)
(* while packets are on the way; deletions by neighbour updates are those  *)
(* of HnatNeigh, which this module extends.                                *)
(***************************************************************************)
EXTENDS HnatNeigh

CONSTANTS
  Flows,      \* what the hardware's hash and match tell apart
  FoeSize,    \* entries of the table
  Hash,       \* the entry of a flow
  Path,       \* how a flow's packets leave: "eth", "wifi", "crypto"
  Dest, Via,  \* destination address and next hop of a flow
  Skbs,       \* packets on their way at a time
  Clears,     \* events that delete bound entries: [by, arg]
  None

Slots == 1 .. FoeSize

(* The rest of an entry: the flow whose packet it was made from, the next   *)
(* hop's address, and the flow whose packet gave the WiFi fields.           *)
Action == [flow : Flows, ha : Macs, sta : Flows \cup {None}]

Body == [match : Flows \cup {None}, act : Action \cup {None}]

ASSUME BindAssumption ==
  /\ FoeSize \in Nat
  /\ Hash \in [Flows -> Slots]
  /\ Path \in [Flows -> {"eth", "wifi", "crypto"}]
  /\ Via \in [Flows -> Neighbours]
  /\ None \notin Flows \cup Macs \cup Skbs \cup Action \cup Body \cup Clears
  /\ \A c \in Clears : c.by \in {"all", "mac", "ip"}

VARIABLES
  foe,         \* foe_table_cpu: state, the tuple matched, the action
  foe_flow,    \* half-prepared entries of WiFi flows
  skb,         \* packets in the hooks or in the WiFi driver's queues
  entry_lock,  \* its holder
  scan,        \* where the worker and an event handler are in the table
  late         \* history: entries bound to an address already out of date

bindVars == <<foe, foe_flow, skb, entry_lock, scan, late>>

vars == <<neighVars, bindVars>>

States == {"INVALID", "UNBIND", "BIND"}

Cleared == [state |-> "INVALID", match |-> None, act |-> None]

IdleSkb == [pc |-> "idle", flow |-> None, ha |-> None, data |-> None]

Start == [at |-> 1, hit |-> FALSE]

Init ==
  /\ NeighInit
  /\ foe = [s \in Slots |-> Cleared]
  /\ foe_flow = {}
  /\ skb = [k \in Skbs |-> IdleSkb]
  /\ entry_lock = None
  /\ scan = [worker |-> Start, event |-> Start, what |-> None]
  /\ late = {}

Slot(k) == Hash[skb[k].flow]

(* Packets that a CPU is working on; a packet whose entry is filled may     *)
(* wait in a queue of the WiFi driver.                                      *)
Busy(s) == \E k \in Skbs : skb[k].pc \notin {"idle", "filled"} /\ Slot(k) = s

Finish(k) == skb' = [skb EXCEPT ![k] = IdleSkb]

Goto(k, pc) == skb' = [skb EXCEPT ![k].pc = pc]
-------------------------------------------------------------------------------
(***************************************************************************)
(* The hardware.  Ageing takes seconds (UNB_DLTA is 3), a hook takes far   *)
(* less: entries do not age while a packet of theirs is being worked on.   *)
(***************************************************************************)
HwLearn(f) ==
  /\ foe[Hash[f]].state = "INVALID"
  /\ foe' = [foe EXCEPT ![Hash[f]] = [state |-> "UNBIND", match |-> f, act |-> None]]
  /\ UNCHANGED <<neighVars, foe_flow, skb, entry_lock, scan, late>>

HwAge(s) ==
  /\ foe[s].state # "INVALID" /\ ~Busy(s)
  /\ foe' = [foe EXCEPT ![s].state = "INVALID"]
  /\ late' = late \ {s}
  /\ UNCHANGED <<neighVars, foe_flow, skb, entry_lock, scan>>

(* A packet that hits an unbound entry often enough comes with the reason   *)
(* HIT_UNBIND_RATE_REACH and the entry's index.                             *)
Receive(k, f) ==
  /\ skb[k].pc = "idle"
  /\ foe[Hash[f]].state = "UNBIND" /\ foe[Hash[f]].match = f
  /\ skb' = [skb EXCEPT ![k] = [IdleSkb EXCEPT !.pc = "hook", !.flow = f]]
  /\ UNCHANGED <<neighVars, foe, foe_flow, entry_lock, scan, late>>
-------------------------------------------------------------------------------
(***************************************************************************)
(* The hooks.  Entries are read without a lock.                            *)
(***************************************************************************)
(* mtk_hnat_nf_post_routing up to the next hop's address.                   *)
PostRouting(k) ==
  /\ skb[k].pc = "hook" /\ Path[skb[k].flow] # "crypto"
  /\ \/ /\ foe[Slot(k)].state = "BIND"
        /\ Finish(k)
     \/ /\ foe[Slot(k)].state # "BIND"
        /\ skb' = [skb EXCEPT ![k].pc = "nexthop", ![k].ha = neigh[Via[skb[k].flow]].ha]
  /\ UNCHANGED <<neighVars, foe, foe_flow, entry_lock, scan, late>>

(* The tuple is that of the hardware's entry, all else the packet's.        *)
Prepared(k, ha) ==
  [match |-> foe[Slot(k)].match,
   act |-> [flow |-> skb[k].flow, ha |-> ha, sta |-> None]]

(* skb_to_hnat_info up to the point where the paths part.                   *)
BuildEntry(k) ==
  /\ skb[k].pc = "nexthop"
  /\ \/ /\ foe[Slot(k)].state # "UNBIND"
        /\ Finish(k)
     \/ /\ foe[Slot(k)].state = "UNBIND"
        /\ skb' = [skb EXCEPT ![k].data = Prepared(k, skb[k].ha),
                              ![k].pc = IF Path[skb[k].flow] = "wifi" THEN "put" ELSE "lock"]
  /\ UNCHANGED <<neighVars, foe, foe_flow, entry_lock, scan, late>>

(* hnat_bind_crypto_entry: the address is the packet's own, and the entry   *)
(* is tested twice but for being bound only.                                *)
CryptoBuild(k) ==
  /\ skb[k].pc = "hook" /\ Path[skb[k].flow] = "crypto"
  /\ \/ /\ foe[Slot(k)].state = "BIND"
        /\ Finish(k)
     \/ /\ foe[Slot(k)].state # "BIND"
        /\ skb' = [skb EXCEPT ![k].pc = "test",
                              ![k].data = Prepared(k, neigh[Via[skb[k].flow]].ha)]
  /\ UNCHANGED <<neighVars, foe, foe_flow, entry_lock, scan, late>>

CryptoTest(k) ==
  /\ skb[k].pc = "test"
  /\ IF foe[Slot(k)].state = "BIND" THEN Finish(k) ELSE Goto(k, "lock")
  /\ UNCHANGED <<neighVars, foe, foe_flow, entry_lock, scan, late>>
-------------------------------------------------------------------------------
(***************************************************************************)
(* WiFi: between the phases the entry waits in foe_flow, whose lock is     *)
(* held in each of the following actions.  Ages are 0, 1 after 3 seconds   *)
(* and 2 after 30.                                                         *)
(***************************************************************************)
FlowEntry == [slot : Slots, match : Flows \cup {None}, act : Action, age : 0 .. 2]

(* hnat_flow_entry_search                                                   *)
Search(s, m) == {e \in foe_flow : e.slot = s /\ e.match = m}

Filled(k) ==
  [slot |-> Slot(k), match |-> skb[k].data.match, act |-> skb[k].data.act, age |-> 0]

(* First phase: the test, without the lock.                                 *)
PutTest(k) ==
  /\ skb[k].pc = "put"
  /\ IF foe[Slot(k)].state = "UNBIND" THEN Goto(k, "insert") ELSE Finish(k)
  /\ UNCHANGED <<neighVars, foe, foe_flow, entry_lock, scan, late>>

(* Seeded fault: the entry of an earlier packet is not looked for.          *)
PutFlowBlindly(k) ==
  /\ skb[k].pc = "insert"
  /\ \/ foe_flow' = foe_flow \cup {Filled(k)} /\ Goto(k, "filled")
     \/ AllocFails /\ Finish(k) /\ UNCHANGED foe_flow
  /\ UNCHANGED <<neighVars, foe, entry_lock, scan, late>>

(* Then the insertion; a new entry may find no memory.                      *)
PutFlow(k) ==
  LET old == Search(Slot(k), skb[k].data.match) IN
  /\ skb[k].pc = "insert"
  /\ \/ /\ foe_flow' = (foe_flow \ old) \cup {Filled(k)}
        /\ Goto(k, "filled")
     \/ /\ AllocFails /\ old = {}
        /\ Finish(k)
        /\ UNCHANGED foe_flow
  /\ UNCHANGED <<neighVars, foe, entry_lock, scan, late>>

(* Second phase, mtk_sw_nat_hook_tx: the prepared entry is looked up by the *)
(* tuple that the hardware has by now, taken out and completed with the     *)
(* packet's WiFi fields; it is deleted if it is too old or of no use.  When *)
(* it is taken, the packet may still prove one that is not bound, by its    *)
(* VLANs or its multicast group.                                            *)
HookTx(k) ==
  LET entries == Search(Slot(k), foe[Slot(k)].match)
      usable  == {e \in entries : foe[Slot(k)].state = "UNBIND" /\ e.age = 0}
  IN
  /\ skb[k].pc = "filled"
  /\ foe_flow' = foe_flow \ entries
  /\ \/ Finish(k)
     \/ \E e \in usable :
          skb' = [skb EXCEPT ![k].pc = "lock",
                             ![k].data = [match |-> e.match,
                                          act |-> [e.act EXCEPT !.sta = skb[k].flow]]]
  /\ UNCHANGED <<neighVars, foe, entry_lock, scan, late>>

(* The packet leaves by another port of the WiFi driver, or not at all.     *)
LeaveUnbound(k) ==
  /\ skb[k].pc = "filled"
  /\ Finish(k)
  /\ UNCHANGED <<neighVars, foe, foe_flow, entry_lock, scan, late>>

(* Seconds go by, longer than any hook runs.                                *)
Tick ==
  /\ \A s \in Slots : ~Busy(s)
  /\ \E e \in foe_flow : e.age < 2
  /\ foe_flow' = {[e EXCEPT !.age = IF @ < 2 THEN @ + 1 ELSE @] : e \in foe_flow}
  /\ UNCHANGED <<neighVars, foe, skb, entry_lock, scan, late>>

(* hnat_flow_entry_teardown_handler                                         *)
Teardown ==
  /\ \E e \in foe_flow : e.age = 2
  /\ foe_flow' = {e \in foe_flow : e.age < 2}
  /\ UNCHANGED <<neighVars, foe, skb, entry_lock, scan, late>>
-------------------------------------------------------------------------------
(***************************************************************************)
(* Commit, under entry_lock: all words but the first, then the first,      *)
(* which holds the state.                                                  *)
(***************************************************************************)
(* Seeded fault: the test is left to the hooks before.                      *)
TakeLockUntested(k) ==
  /\ skb[k].pc = "lock" /\ entry_lock = None
  /\ entry_lock' = k
  /\ Goto(k, "body")
  /\ UNCHANGED <<neighVars, foe, foe_flow, scan, late>>

(* The final check.  A wired packet does not wait for the lock; the crypto  *)
(* path does not check.                                                     *)
TakeLock(k) ==
  /\ skb[k].pc = "lock"
  /\ \/ /\ entry_lock = None
        /\ Path[skb[k].flow] = "crypto" \/ foe[Slot(k)].state = "UNBIND"
        /\ entry_lock' = k
        /\ Goto(k, "body")
     \/ /\ IF entry_lock = None
           THEN Path[skb[k].flow] # "crypto" /\ foe[Slot(k)].state # "UNBIND"
           ELSE Path[skb[k].flow] = "eth"
        /\ Finish(k)
        /\ UNCHANGED entry_lock
  /\ UNCHANGED <<neighVars, foe, foe_flow, scan, late>>

(* Seeded fault: the state goes first.                                      *)
CommitStateFirst(k) ==
  /\ skb[k].pc = "body"
  /\ foe' = [foe EXCEPT ![Slot(k)].state = "BIND"]
  /\ Goto(k, "state")
  /\ UNCHANGED <<neighVars, foe_flow, entry_lock, scan, late>>

CommitBody(k) ==
  /\ skb[k].pc = "body"
  /\ foe' = [foe EXCEPT ![Slot(k)].match = skb[k].data.match,
                        ![Slot(k)].act = skb[k].data.act]
  /\ Goto(k, "state")
  /\ UNCHANGED <<neighVars, foe_flow, entry_lock, scan, late>>

OutOfDate(a) == neigh[Via[a.flow]].ha # a.ha \/ neigh[Via[a.flow]].nud = "failed"

CommitState(k) ==
  /\ skb[k].pc = "state"
  /\ foe' = [foe EXCEPT ![Slot(k)].state = "BIND"]
  /\ late' = IF OutOfDate(skb[k].data.act) THEN late \cup {Slot(k)} ELSE late \ {Slot(k)}
  /\ entry_lock' = None
  /\ Finish(k)
  /\ UNCHANGED <<neighVars, foe_flow, scan>>
-------------------------------------------------------------------------------
(***************************************************************************)
(* Deletions.  A handler walks through the table, tests each entry without *)
(* entry_lock and deletes with it.                                         *)
(***************************************************************************)
(* __entry_delete                                                           *)
Delete(s) ==
  /\ entry_lock = None
  /\ foe' = [foe EXCEPT ![s].state = "INVALID"]
  /\ late' = late \ {s}

Step(who, hit) ==
  scan' = [scan EXCEPT ![who] = IF hit THEN [@ EXCEPT !.hit = TRUE]
                                ELSE [at |-> @.at + 1, hit |-> FALSE]]

(* Seeded fault: an entry with a new address counts as up to date.          *)
ConcernsIfFailed(u, e) ==
  /\ e.act # None /\ Dest[e.act.flow] = u.dip
  /\ u.nud = "failed"

(* foe_clear_entry's comparison of an update with an entry: the update's    *)
(* address is looked for among the destinations.                            *)
Concerns(u, e) ==
  /\ e.act # None /\ Dest[e.act.flow] = u.dip
  /\ u.nud = "failed" \/ u.ha # e.act.ha

WorkerTest ==
  /\ worker.pc = "clear" /\ scan.worker.at \in Slots /\ ~scan.worker.hit
  /\ LET e == foe[scan.worker.at] IN
       Step("worker", /\ e.state = "BIND"
                      /\ \E i \in 1 .. Len(worker.local) : Concerns(worker.local[i], e))
  /\ UNCHANGED <<neighVars, foe, foe_flow, skb, entry_lock, late>>

WorkerDelete ==
  /\ scan.worker.hit
  /\ Delete(scan.worker.at)
  /\ Step("worker", FALSE)
  /\ UNCHANGED <<neighVars, foe_flow, skb, entry_lock>>

(* Both ends of foe_clear_entry, which is not called for an empty list.     *)
WorkerDone ==
  /\ scan.worker.at > FoeSize \/ worker.local = << >>
  /\ WorkerClear
  /\ scan' = [scan EXCEPT !.worker = Start]
  /\ UNCHANGED <<foe, foe_flow, skb, entry_lock, late>>

(* What an event deletes: all bound entries (foe_clear_all_bind_entries),   *)
(* those with an address (entry_delete_by_mac) or a destination             *)
(* (entry_delete_by_ip).                                                    *)
Deletes(c, e) ==
  /\ e.state = "BIND"
  /\ \/ c.by = "all"
     \/ c.by = "mac" /\ e.act # None /\ e.act.ha = c.arg
     \/ c.by = "ip" /\ e.act # None /\ Dest[e.act.flow] = c.arg

EventStart(c) ==
  /\ scan.what = None
  /\ scan' = [scan EXCEPT !.what = c, !.event = Start]
  /\ UNCHANGED <<neighVars, foe, foe_flow, skb, entry_lock, late>>

EventTest ==
  /\ scan.what # None /\ scan.event.at \in Slots /\ ~scan.event.hit
  /\ Step("event", Deletes(scan.what, foe[scan.event.at]))
  /\ UNCHANGED <<neighVars, foe, foe_flow, skb, entry_lock, late>>

EventDelete ==
  /\ scan.event.hit
  /\ Delete(scan.event.at)
  /\ Step("event", FALSE)
  /\ UNCHANGED <<neighVars, foe_flow, skb, entry_lock>>

EventEnd ==
  /\ scan.what # None /\ scan.event.at > FoeSize
  /\ scan' = [scan EXCEPT !.what = None, !.event = Start]
  /\ UNCHANGED <<neighVars, foe, foe_flow, skb, entry_lock, late>>

(* entry_delete and mtk_hnat_delete_entry_by_index: any entry, untested.    *)
DeleteByIndex(s) ==
  /\ Clears # {}
  /\ Delete(s)
  /\ UNCHANGED <<neighVars, foe_flow, skb, entry_lock, scan>>

(* hnat_warm_init clears the whole table without the lock.                  *)
WarmInit ==
  /\ ClearTables
  /\ foe' = [s \in Slots |-> Cleared]
  /\ late' = {}
  /\ UNCHANGED <<foe_flow, skb, entry_lock, scan>>
-------------------------------------------------------------------------------
(* Every change of a neighbour is announced and corrects late binds, too.   *)
Change(d) ==
  /\ NeighChange(d)
  /\ late' = {s \in late : foe[s].act # None /\ Via[foe[s].act.flow] # d}
  /\ UNCHANGED <<foe, foe_flow, skb, entry_lock, scan>>

NeighStep ==
  /\ \/ \E d \in Neighbours : Netevent(d) \/ Unheard(d)
     \/ WorkStart \/ WorkerTake \/ WorkerRecheck
     \/ Unregister \/ CleanupList \/ CancelWork \/ CancelDone
     \/ Reregister \/ Remove
  /\ UNCHANGED bindVars

Hook(k) ==
  \/ PostRouting(k) \/ BuildEntry(k) \/ CryptoBuild(k) \/ CryptoTest(k) \/ PutTest(k) \/ PutFlow(k)
  \/ TakeLock(k) \/ CommitBody(k) \/ CommitState(k)

Next ==
  \/ \E d \in Neighbours : Change(d)
  \/ NeighStep
  \/ WorkerTest \/ WorkerDelete \/ WorkerDone
  \/ \E f \in Flows : HwLearn(f)
  \/ \E s \in Slots : HwAge(s) \/ DeleteByIndex(s)
  \/ \E k \in Skbs : (\E f \in Flows : Receive(k, f)) \/ Hook(k) \/ HookTx(k) \/ LeaveUnbound(k)
  \/ Tick \/ Teardown
  \/ \E c \in Clears : EventStart(c)
  \/ EventTest \/ EventDelete \/ EventEnd
  \/ WarmInit

Spec == Init /\ [][Next]_vars

(* Hooks do not sleep, the workqueue runs what is queued, notifiers are     *)
(* called, warm init that has begun goes on, and entry_lock is a queued      *)
(* spinlock: who waits for it gets it.                                      *)
FairSpec ==
  /\ Spec
  /\ \A d \in Neighbours : WF_vars(Netevent(d) /\ UNCHANGED bindVars)
  /\ WF_vars(WorkerTest \/ WorkerDone \/ ((WorkStart \/ WorkerTake \/ WorkerRecheck) /\ UNCHANGED bindVars))
  /\ SF_vars(WorkerDelete)
  /\ WF_vars(WarmInit \/ ((CleanupList \/ CancelWork \/ CancelDone \/ Reregister) /\ UNCHANGED bindVars))
  /\ \A k \in Skbs : WF_vars(Hook(k))
-------------------------------------------------------------------------------
Entry == [state : States, match : Flows \cup {None}, act : Action \cup {None}]

Packet ==
  [pc : {"idle", "hook", "nexthop", "test", "put", "insert", "filled", "lock", "body", "state"},
   flow : Flows \cup {None}, ha : Macs \cup {None}, data : Body \cup {None}]

Place == [at : 1 .. FoeSize + 1, hit : BOOLEAN]

TypeOK ==
  /\ NeighTypeOK
  /\ foe \in [Slots -> Entry]
  /\ foe_flow \subseteq FlowEntry
  /\ skb \in [Skbs -> Packet]
  /\ entry_lock \in Skbs \cup {None}
  /\ scan \in [worker : Place, event : Place, what : Clears \cup {None}]
  /\ late \subseteq Slots
  /\ \A k \in Skbs : skb[k].pc \in {"body", "state"} <=> entry_lock = k

(* A bound entry is never written: "we should not modify it right now"      *)
(* (lines 3125 and 3482 of hnat_nf_hook.c), whatever packets of its flow    *)
(* are under way at the same time.                                          *)
BoundNotRewritten ==
  [][\A s \in Slots :
       foe[s].state = "BIND" /\ foe'[s].state = "BIND" => foe'[s] = foe[s]]_vars

(* What the hardware forwards by is complete: "before entry enter BIND      *)
(* state, write other fields first" (line 1995 of hnat_nf_hook.c).          *)
CompleteWhenBound == \A s \in Slots : foe[s].state = "BIND" => foe[s].act # None

(* One prepared entry per flow and slot: a second one would be found or not *)
(* by its place in the list, and bring back what the first one replaced     *)
(* (lines 3086-3101 of hnat_nf_hook.c).                                     *)
FlowEntryUnique ==
  \A a, b \in foe_flow : a.slot = b.slot /\ a.match = b.match => a = b

WrongAddress(s) ==
  foe[s].state = "BIND" /\ foe[s].act # None /\ OutOfDate(foe[s].act)

NextHop(s) == Via[foe[s].act.flow]

(* The change is still to be announced, or its update is queued or under    *)
(* work and has this entry before it.                                       *)
DueForDeletion(s) ==
  \/ NextHop(s) \in notify \/ neigh[NextHop(s)].nud = "stale"
  \/ \E i \in 1 .. Len(head) : Concerns(head[i], foe[s])
  \/ /\ worker.pc = "clear" /\ scan.worker.at <= s
     /\ \E i \in 1 .. Len(worker.local) : Concerns(worker.local[i], foe[s])
  \/ scan.worker = [at |-> s, hit |-> TRUE]

(* An entry that was right when it was bound, and is not since its next hop *)
(* moved or failed, is deleted by an update under way, unless that update   *)
(* was dropped at the limit (lines 538-544 of hnat_nf_hook.c).              *)
WrongAddressPending ==
  \A s \in Slots : WrongAddress(s) /\ s \notin late /\ NextHop(s) \notin lost
                     => DueForDeletion(s)

(* The same without the exception of entries bound late: "delete entry if   *)
(* nud_state is NUD_FAILED or DMAC not match" (line 538).                   *)
WrongAddressDeleted ==
  \A s \in Slots : WrongAddress(s) /\ NextHop(s) \notin lost => DueForDeletion(s)

(* And it is deleted in the end.                                            *)
Outdated(s) ==
  /\ WrongAddress(s) /\ s \notin late
  /\ NextHop(s) \notin lost /\ neigh[NextHop(s)].nud # "stale"

WrongAddressUnbound == \A s \in Slots : Outdated(s) ~> ~Outdated(s)

(* The transmit hook completes "the flow_entry prepared in                  *)
(* skb_to_hnat_info" (line 3192) for its own packet: an entry never sends a *)
(* flow to the station of another one.                                      *)
StationMatchesFlow ==
  \A s \in Slots : foe[s].state = "BIND" /\ foe[s].act # None /\ foe[s].act.sta # None
                     => foe[s].act.sta = foe[s].act.flow
===============================================================================
