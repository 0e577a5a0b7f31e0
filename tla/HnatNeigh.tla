------------------------------- MODULE HnatNeigh -------------------------------
(***************************************************************************)
(* The neighbour updates of mtk_hnat (hnat_nf_hook.c): the netevent        *)
(* handler queues an update for every neighbour that became reachable or   *)
(* failed, a delayed work takes them in batches and unbinds what they      *)
(* concern, and cleanup empties the queue before a warm init or removal.   *)
(*                                                                         *)
(* What a batch does to the FOE table is HnatBind, which extends this      *)
(* module; here WorkerClear stands for it.                                 *)
(***************************************************************************)
EXTENDS Integers, Sequences, FiniteSets

CONSTANTS
  Neighbours,   \* destination addresses
  Macs,
  Values,       \* what the neighbour table may come to say of a neighbour
  Budget,       \* NEIGH_PROCESS_BUDGET
  PendingMax,   \* pending_max, the limit of queued updates
  CounterSpace, \* number of values of a u32
  AllocFails,   \* whether kzalloc may fail
  Stops         \* which of "warm_init" and "remove" may happen

Neighbour == [ha : Macs, nud : {"connected", "stale", "failed"}]

Update == [dip : Neighbours, ha : Macs, nud : {"connected", "failed"}]

ASSUME NeighAssumption ==
  /\ Macs # {}
  /\ Values \subseteq Neighbour
  /\ Budget \in Nat \ {0}
  /\ PendingMax \in Nat
  /\ CounterSpace \in Nat /\ PendingMax < CounterSpace
  /\ AllocFails \in BOOLEAN
  /\ Stops \subseteq {"warm_init", "remove"}

VARIABLES
  neigh,        \* the kernel's neighbour table
  notify,       \* neighbours whose change has not been announced yet
  lost,         \* history: neighbours whose last update was not queued
  registered,   \* nf_hnat_netevent_nb is registered
  head,         \* neigh_update.head
  pending_cnt,  \* neigh_update.pending_cnt
  pending,      \* delayed_work_pending(&neigh_update.work)
  worker,       \* hnat_neigh_update_work_handler: [pc, local]
  control       \* hnat_warm_init and hnat_remove

queueVars == <<head, pending_cnt, pending, worker>>

neighVars == <<neigh, notify, lost, registered, control, queueVars>>

NeighTypeOK ==
  /\ neigh \in [Neighbours -> Neighbour]
  /\ notify \subseteq Neighbours
  /\ lost \subseteq Neighbours
  /\ registered \in BOOLEAN
  /\ head \in Seq(Update)
  /\ pending_cnt \in 0 .. PendingMax
  /\ pending \in BOOLEAN
  /\ worker \in [pc : {"idle", "entered", "clear", "recheck"}, local : Seq(Update)]
  /\ control \in {"up", "cleanup", "cancel", "waiting",
                  "cleaned", "cleared", "removed"}

NeighInit ==
  /\ neigh \in [Neighbours -> {v \in Neighbour : v.nud = "connected"}]
  /\ notify = {}
  /\ lost = {}
  /\ registered = TRUE
  /\ head = << >>
  /\ pending_cnt = 0
  /\ pending = FALSE
  /\ worker = [pc |-> "idle", local |-> << >>]
  /\ control = "up"
-------------------------------------------------------------------------------
(***************************************************************************)
(* The kernel changes a neighbour under its lock and calls the netevent    *)
(* notifiers later without it.                                             *)
(***************************************************************************)
NeighChange(d) ==
  /\ \E v \in Values :
       /\ v.nud = "failed" => v.ha = neigh[d].ha
       /\ neigh' = [neigh EXCEPT ![d] = v]
  /\ notify' = notify \cup {d}
  /\ UNCHANGED <<lost, registered, control, queueVars>>

(* The update is copied from the neighbour as it is by now.                 *)
UpdateOf(d) == [dip |-> d, ha |-> neigh[d].ha, nud |-> neigh[d].nud]

Enqueue(d) ==
  /\ head' = Append(head, UpdateOf(d))
  /\ pending_cnt' = (pending_cnt + 1) % CounterSpace
  /\ pending' = TRUE
  /\ lost' = lost \ {d}
  /\ UNCHANGED worker

(* The queue is full, or kzalloc fails: the update is dropped.              *)
Drop(d) ==
  /\ AllocFails \/ pending_cnt >= PendingMax
  /\ lost' = lost \cup {d}
  /\ UNCHANGED queueVars

(* Seeded fault: the limit is tested one too late.                          *)
NeteventOverLimit(d) ==
  /\ registered /\ d \in notify
  /\ notify' = notify \ {d}
  /\ IF neigh[d].nud = "stale" THEN UNCHANGED <<lost, queueVars>>
     ELSE (pending_cnt <= PendingMax /\ Enqueue(d)) \/ Drop(d)
  /\ UNCHANGED <<neigh, registered, control>>

(* nf_hnat_netevent_handler: a neighbour that is neither connected nor      *)
(* failed is of no interest.                                                *)
Netevent(d) ==
  /\ registered /\ d \in notify
  /\ notify' = notify \ {d}
  /\ IF neigh[d].nud = "stale" THEN UNCHANGED <<lost, queueVars>>
     ELSE (pending_cnt < PendingMax /\ Enqueue(d)) \/ Drop(d)
  /\ UNCHANGED <<neigh, registered, control>>

(* With the notifier unregistered a change is announced to others only.     *)
Unheard(d) ==
  /\ ~registered /\ d \in notify
  /\ notify' = notify \ {d}
  /\ lost' = lost \cup {d}
  /\ UNCHANGED <<neigh, registered, control, queueVars>>
-------------------------------------------------------------------------------
(***************************************************************************)
(* The delayed work.  The workqueue clears its pending bit before it calls *)
(* the handler and never runs it twice at a time.                          *)
(***************************************************************************)
WorkStart ==
  /\ pending /\ worker.pc = "idle"
  /\ pending' = FALSE
  /\ worker' = [worker EXCEPT !.pc = "entered"]
  /\ UNCHANGED <<neigh, notify, lost, registered, head, pending_cnt, control>>

Batch == IF Len(head) < Budget THEN Len(head) ELSE Budget

(* Seeded fault: a full budget is subtracted from the counter.              *)
WorkerTakeMiscounted ==
  /\ worker.pc = "entered"
  /\ worker' = [pc |-> "clear", local |-> SubSeq(head, 1, Batch)]
  /\ head' = SubSeq(head, Batch + 1, Len(head))
  /\ pending_cnt' = (pending_cnt - Budget) % CounterSpace
  /\ UNCHANGED <<neigh, notify, lost, registered, pending, control>>

(* First locked section: up to a budget of updates moves to the local list. *)
WorkerTake ==
  /\ worker.pc = "entered"
  /\ worker' = [pc |-> "clear", local |-> SubSeq(head, 1, Batch)]
  /\ head' = SubSeq(head, Batch + 1, Len(head))
  /\ pending_cnt' = (pending_cnt - Batch) % CounterSpace
  /\ UNCHANGED <<neigh, notify, lost, registered, pending, control>>

(* foe_clear_entry is over and the local list is freed.                     *)
WorkerClear ==
  /\ worker.pc = "clear"
  /\ worker' = [pc |-> "recheck", local |-> << >>]
  /\ UNCHANGED <<neigh, notify, lost, registered, head, pending_cnt, pending, control>>

(* Seeded fault: what did not fit into the batch waits for the next event.  *)
WorkerLeave ==
  /\ worker.pc = "recheck"
  /\ worker' = [worker EXCEPT !.pc = "idle"]
  /\ UNCHANGED <<neigh, notify, lost, registered, head, pending_cnt, pending, control>>

(* Second locked section: the work queues itself if updates are left, which *)
(* a synchronous cancellation refuses.                                      *)
WorkerRecheck ==
  /\ worker.pc = "recheck"
  /\ worker' = [worker EXCEPT !.pc = "idle"]
  /\ pending' = (pending \/ (head # << >> /\ control # "waiting"))
  /\ UNCHANGED <<neigh, notify, lost, registered, head, pending_cnt, control>>
-------------------------------------------------------------------------------
(***************************************************************************)
(* hnat_warm_init and hnat_remove begin alike: the notifier is             *)
(* unregistered, which waits for handlers under way, then                  *)
(* hnat_neigh_update_cleanup runs.                                         *)
(***************************************************************************)
Unregister ==
  /\ control = "up" /\ Stops # {}
  /\ registered' = FALSE
  /\ control' = "cleanup"
  /\ UNCHANGED <<neigh, notify, lost, queueVars>>

(* Locked section of hnat_neigh_update_cleanup.  Every neighbour in the     *)
(* queue loses its update.                                                  *)
CleanupList ==
  /\ control = "cleanup"
  /\ control' = IF pending THEN "cancel" ELSE "cleaned"
  /\ head' = << >>
  /\ pending_cnt' = 0
  /\ lost' = lost \cup {head[i].dip : i \in 1 .. Len(head)}
  /\ UNCHANGED <<neigh, notify, registered, pending, worker>>

(* cancel_delayed_work_sync, called only if the work was pending: it takes  *)
(* the pending bit and waits for a handler that runs.                       *)
CancelWork ==
  /\ control = "cancel"
  /\ pending' = FALSE
  /\ control' = "waiting"
  /\ UNCHANGED <<neigh, notify, lost, registered, head, pending_cnt, worker>>

CancelDone ==
  /\ control = "waiting" /\ worker.pc = "idle"
  /\ control' = "cleaned"
  /\ UNCHANGED <<neigh, notify, lost, registered, queueVars>>

(* Warm init clears the FOE tables: updates lost until here concern nothing *)
(* any more.                                                                *)
ClearTables ==
  /\ control = "cleaned" /\ "warm_init" \in Stops
  /\ control' = "cleared"
  /\ lost' = {}
  /\ UNCHANGED <<neigh, notify, registered, queueVars>>

(* At its end warm init registers the notifier again.                       *)
Reregister ==
  /\ control = "cleared"
  /\ registered' = TRUE
  /\ control' = "up"
  /\ UNCHANGED <<neigh, notify, lost, queueVars>>

Remove ==
  /\ control = "cleaned" /\ "remove" \in Stops
  /\ control' = "removed"
  /\ UNCHANGED <<neigh, notify, lost, registered, queueVars>>

NeighNext ==
  \/ \E d \in Neighbours : NeighChange(d) \/ Netevent(d) \/ Unheard(d)
  \/ WorkStart \/ WorkerTake \/ WorkerClear \/ WorkerRecheck
  \/ Unregister \/ CleanupList \/ CancelWork \/ CancelDone
  \/ ClearTables \/ Reregister \/ Remove

NeighSpec == NeighInit /\ [][NeighNext]_neighVars
-------------------------------------------------------------------------------
(* The counter that limits the queue agrees with it, across batches,        *)
(* cleanup and warm init; were it ever too large, or wrapped below zero,    *)
(* every later update would be dropped (lines 579-614 and 659 of            *)
(* hnat_nf_hook.c).                                                         *)
PendingCountIsLength == pending_cnt = Len(head)

(* Queued updates never wait for an event that may not come: the work is    *)
(* pending, or a handler is under way that will look at the queue again     *)
(* (lines 627-633 and 677-679 of hnat_nf_hook.c).                           *)
NoUpdateStranded == head # << >> => pending \/ worker.pc # "idle"

(* Cleanup "cancels the work after clearing the list": when it returns, no  *)
(* handler runs any more (line 596 of hnat_nf_hook.c).                      *)
NoWorkAfterCleanup == control \in {"cleaned", "removed"} => worker.pc = "idle"
===============================================================================
