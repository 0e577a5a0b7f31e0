--------------------------- MODULE FullconeNotifier ---------------------------
(***************************************************************************)
(* The life of the fullcone expression module                              *)
(* (patch/emortal/nft-fullcone/src/nft_ext_fullcone.c): expressions come   *)
(* and go and share one conntrack notifier by module_refer_count; destroy  *)
(* events list dying tuples and queue the collector; module exit cancels   *)
(* the collector and empties the list itself.                              *)
(*                                                                         *)
(* The notifier of a net namespace is a single pointer, or a chain under   *)
(* CONFIG_NF_CONNTRACK_CHAIN_EVENTS; other modules (ctnetlink) register    *)
(* notifiers of their own.  What the collector does to the mapping table   *)
(* is FullconeNat.                                                         *)
(***************************************************************************)
EXTENDS Integers, FiniteSets

CONSTANTS
  Exprs,        \* fullcone expressions that may exist in rule sets
  Nets,         \* net namespaces
  Conntracks,   \* UDP conntracks that die (and are reborn as new ones)
  ChainEvents,  \* CONFIG_NF_CONNTRACK_CHAIN_EVENTS
  OtherModules, \* whether another module registers a notifier
  GetFails,     \* whether nf_ct_netns_get may fail
  WqFails,      \* whether create_singlethread_workqueue may return NULL
  NoNet

ASSUME NotifierAssumption ==
  /\ IsFiniteSet(Exprs)
  /\ {ChainEvents, OtherModules, GetFails, WqFails} \subseteq BOOLEAN
  /\ NoNet \notin Nets

VARIABLES
  module,      \* "unloaded", "registered", "ready", then the steps of exit
  wq,          \* whether the workqueue pointer is set
  expr,        \* the net each expression lives in
  refs,        \* module_refer_count
  registered,  \* ct_event_notifier_registered
  notifiers,   \* the notifiers each net calls: "ours", "other"
  event,       \* ct_event_cb running for a conntrack: "add", "queue", or "idle"
  dying_tuple_list,
  work         \* gc_worker_wk: [pending, running], running being "no", or
               \* "entered" or "left" as gc_worker has still to take the list

notifiervars == <<module, wq, expr, refs, registered, notifiers, event, dying_tuple_list, work>>

Phases == {"unloaded", "registered", "ready", "cancel", "handle"}

IdleWork == [pending |-> FALSE, running |-> "no"]

NotifierInit ==
  /\ module = "unloaded"
  /\ wq = FALSE
  /\ expr = [e \in Exprs |-> NoNet]
  /\ refs = 0
  /\ registered = FALSE
  /\ notifiers = [n \in Nets |-> {}]
  /\ event = [ct \in Conntracks |-> "idle"]
  /\ dying_tuple_list = {}
  /\ work = IdleWork

Live == {e \in Exprs : expr[e] # NoNet}

Idle == \A ct \in Conntracks : event[ct] = "idle"
-------------------------------------------------------------------------------
(***************************************************************************)
(* Module init: the expression types are registered before the workqueue   *)
(* exists.  The statics of a fresh load are zero.                          *)
(***************************************************************************)
RegisterExprs ==
  /\ module = "unloaded"
  /\ module' = "registered"
  /\ refs' = 0
  /\ registered' = FALSE
  /\ wq' = FALSE
  /\ UNCHANGED <<expr, notifiers, event, dying_tuple_list, work>>

CreateWorkqueue ==
  /\ module = "registered"
  /\ module' = "ready"
  /\ wq' = TRUE \/ (WqFails /\ wq' = FALSE)
  /\ UNCHANGED <<expr, refs, registered, notifiers, event, dying_tuple_list, work>>
-------------------------------------------------------------------------------
(***************************************************************************)
(* Expressions.                                                            *)
(***************************************************************************)
(* nf_conntrack_register_notifier under #ifdef: a chain takes any number, a *)
(* slot only if it is empty; the code counts both as registered.            *)
Registered(n) ==
  [notifiers EXCEPT ![n] = IF ChainEvents \/ @ = {} THEN @ \cup {"ours"} ELSE @]

(* Registering with a chain has a result: when it is not zero the module    *)
(* logs "Disable active GC for mappings" and goes on without the notifier,  *)
(* the flag as it was.  Nobody asks again while an expression is in use.    *)
TryRegister(n) ==
  \/ notifiers' = Registered(n) /\ registered' = TRUE
  \/ ChainEvents /\ UNCHANGED <<notifiers, registered>>

(* nf_conntrack_unregister_notifier: a slot is cleared whoever is in it.    *)
Unregistered(n) ==
  [notifiers EXCEPT ![n] = IF ChainEvents THEN @ \ {"ours"} ELSE {}]

(* Unlinking from a chain waits for the callbacks under way.                *)
Waits == ChainEvents => Idle

(* nft_fullcone_init; on error nf_tables drops the expression without       *)
(* calling destroy.                                                         *)
NftInit(e, n) ==
  /\ module \in {"registered", "ready"}
  /\ expr[e] = NoNet
  /\ refs' = refs + 1
  /\ IF refs + 1 = 1
     THEN TryRegister(n)
     ELSE UNCHANGED <<notifiers, registered>>
  /\ expr' = [expr EXCEPT ![e] = n] \/ (GetFails /\ expr' = expr)
  /\ UNCHANGED <<module, wq, event, dying_tuple_list, work>>

(* Seeded fault: any expression takes the notifier with it.                 *)
NftDestroyAny(e) ==
  /\ expr[e] # NoNet
  /\ refs' = refs - 1
  /\ IF registered
     THEN Waits /\ notifiers' = Unregistered(expr[e]) /\ registered' = FALSE
     ELSE UNCHANGED <<notifiers, registered>>
  /\ expr' = [expr EXCEPT ![e] = NoNet]
  /\ UNCHANGED <<module, wq, event, dying_tuple_list, work>>

(* nft_fullcone_*_destroy.                                                  *)
NftDestroy(e) ==
  /\ expr[e] # NoNet
  /\ refs' = refs - 1
  /\ IF refs - 1 = 0 /\ registered
     THEN Waits /\ notifiers' = Unregistered(expr[e]) /\ registered' = FALSE
     ELSE UNCHANGED <<notifiers, registered>>
  /\ expr' = [expr EXCEPT ![e] = NoNet]
  /\ UNCHANGED <<module, wq, event, dying_tuple_list, work>>

(* Another module's notifier (external).                                    *)
OtherRegisters(n) ==
  /\ OtherModules
  /\ "other" \notin notifiers[n]
  /\ ChainEvents \/ notifiers[n] = {}
  /\ notifiers' = [notifiers EXCEPT ![n] = @ \cup {"other"}]
  /\ UNCHANGED <<module, wq, expr, refs, registered, event, dying_tuple_list, work>>
-------------------------------------------------------------------------------
(***************************************************************************)
(* Destroy events and the collector.                                       *)
(***************************************************************************)
(* ct_event_cb is entered through a registered notifier.                    *)
EventCb(ct) ==
  /\ event[ct] = "idle" /\ ct \notin dying_tuple_list
  /\ \E n \in Nets : "ours" \in notifiers[n]
  /\ event' = [event EXCEPT ![ct] = "add"]
  /\ UNCHANGED <<module, wq, expr, refs, registered, notifiers, dying_tuple_list, work>>

(* nf_nat_fullcone_dying_tuple_list_add.                                    *)
AddDying(ct) ==
  /\ event[ct] = "add"
  /\ dying_tuple_list' = dying_tuple_list \cup {ct}
  /\ event' = [event EXCEPT ![ct] = "queue"]
  /\ UNCHANGED <<module, wq, expr, refs, registered, notifiers, work>>

(* kmalloc fails: the tuple is not listed and its mapping is left to the    *)
(* lazy check of FullconeNat.                                               *)
AddFails(ct) ==
  /\ event[ct] = "add"
  /\ event' = [event EXCEPT ![ct] = "idle"]
  /\ UNCHANGED <<module, wq, expr, refs, registered, notifiers, dying_tuple_list, work>>

(* Seeded fault: a running collector is trusted to see the new entry.       *)
QueueWorkUnlessRunning(ct) ==
  /\ event[ct] = "queue"
  /\ work' = IF wq /\ work.running = "no" THEN [work EXCEPT !.pending = TRUE] ELSE work
  /\ event' = [event EXCEPT ![ct] = "idle"]
  /\ UNCHANGED <<module, wq, expr, refs, registered, notifiers, dying_tuple_list>>

(* queue_delayed_work does nothing when the work is already pending.        *)
QueueWork(ct) ==
  /\ event[ct] = "queue"
  /\ work' = IF wq THEN [work EXCEPT !.pending = TRUE] ELSE work
  /\ event' = [event EXCEPT ![ct] = "idle"]
  /\ UNCHANGED <<module, wq, expr, refs, registered, notifiers, dying_tuple_list>>

(* The workqueue clears the pending bit, then calls gc_worker.              *)
WorkStart ==
  /\ work.pending /\ work.running = "no"
  /\ work' = [pending |-> FALSE, running |-> "entered"]
  /\ UNCHANGED <<module, wq, expr, refs, registered, notifiers, event, dying_tuple_list>>

(* nf_nat_fullcone_handle_dying_tuples empties the list under its lock;     *)
(* the work counts as running until it has returned from there.             *)
GcWorker ==
  /\ work.running = "entered"
  /\ dying_tuple_list' = {}
  /\ work' = [work EXCEPT !.running = "left"]
  /\ UNCHANGED <<module, wq, expr, refs, registered, notifiers, event>>

WorkEnd ==
  /\ work.running = "left"
  /\ work' = [work EXCEPT !.running = "no"]
  /\ UNCHANGED <<module, wq, expr, refs, registered, notifiers, event, dying_tuple_list>>
-------------------------------------------------------------------------------
(***************************************************************************)
(* Module exit, which waits until no expression holds the module.          *)
(***************************************************************************)
ExitUnregisterExprs ==
  /\ module = "ready"
  /\ Live = {}
  /\ module' = IF wq THEN "cancel" ELSE "handle"
  /\ UNCHANGED <<wq, expr, refs, registered, notifiers, event, dying_tuple_list, work>>

(* cancel_delayed_work_sync, flush_workqueue and destroy_workqueue.         *)
ExitCancelWork ==
  /\ module = "cancel"
  /\ work.running = "no"
  /\ work' = [work EXCEPT !.pending = FALSE]
  /\ module' = "handle"
  /\ UNCHANGED <<wq, expr, refs, registered, notifiers, event, dying_tuple_list>>

(* Seeded fault: exit relies on the collector having run.                   *)
ExitForgetDying ==
  /\ module = "handle"
  /\ module' = "unloaded"
  /\ UNCHANGED <<wq, expr, refs, registered, notifiers, event, dying_tuple_list, work>>

ExitHandleDying ==
  /\ module = "handle"
  /\ dying_tuple_list' = {}
  /\ module' = "unloaded"
  /\ UNCHANGED <<wq, expr, refs, registered, notifiers, event, work>>
-------------------------------------------------------------------------------
Collector == WorkStart \/ GcWorker \/ WorkEnd

Exit == ExitCancelWork \/ ExitHandleDying

NotifierNext ==
  \/ RegisterExprs \/ CreateWorkqueue
  \/ \E e \in Exprs : NftDestroy(e) \/ \E n \in Nets : NftInit(e, n)
  \/ \E n \in Nets : OtherRegisters(n)
  \/ \E ct \in Conntracks : EventCb(ct) \/ AddDying(ct) \/ AddFails(ct) \/ QueueWork(ct)
  \/ Collector
  \/ ExitUnregisterExprs \/ Exit

(* A callback that was entered runs to its end, the workqueue runs what is  *)
(* queued on it, and an exit that began goes on.                            *)
Fairness ==
  /\ \A ct \in Conntracks : WF_notifiervars(AddDying(ct)) /\ WF_notifiervars(QueueWork(ct))
  /\ WF_notifiervars(Collector)
  /\ WF_notifiervars(Exit)

NotifierSpec == NotifierInit /\ [][NotifierNext]_notifiervars

NotifierFairSpec == NotifierSpec /\ Fairness
-------------------------------------------------------------------------------
NotifierTypeOK ==
  /\ module \in Phases
  /\ wq \in BOOLEAN
  /\ expr \in [Exprs -> Nets \cup {NoNet}]
  /\ refs \in 0 .. Cardinality(Exprs)
  /\ registered \in BOOLEAN
  /\ notifiers \in [Nets -> SUBSET {"ours", "other"}]
  /\ event \in [Conntracks -> {"idle", "add", "queue"}]
  /\ dying_tuple_list \subseteq Conntracks
  /\ work \in [pending : BOOLEAN, running : {"no", "entered", "left"}]

(* Expressions share what the first of them was given.  Registered, every   *)
(* net with an expression in use reports its destroyed conntracks to the    *)
(* module, and no expression that comes or goes ends that for the others;   *)
(* refused, no expression in use has active collection until all have gone  *)
(* and the next one asks again.                                             *)
NotifierWhileUsed ==
  /\ [](\A e \in Live : registered <=> "ours" \in notifiers[expr[e]])
  /\ [][Live \cap Live' # {} => registered' = registered]_notifiervars

(* Nothing of the module is left to run, or to leak, once it is unloaded.   *)
NothingLeftUnloaded ==
  module = "unloaded" =>
    /\ \A n \in Nets : "ours" \notin notifiers[n]
    /\ Idle
    /\ dying_tuple_list = {}
    /\ work = IdleWork

(* The flag that the log line "ct_event_notifier registered" goes with is   *)
(* set only while the notifier is in place.                                 *)
RegisteredMeansOurs ==
  registered => \E n \in Nets : "ours" \in notifiers[n]

(* No wakeup is lost: a callback about to queue the work sees the list      *)
(* emptied, although the work may be pending, running or just finishing.    *)
DyingHandled ==
  \A ct \in Conntracks : (event[ct] = "queue" /\ wq) ~> (dying_tuple_list = {})
===============================================================================
