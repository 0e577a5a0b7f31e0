------------------------------ MODULE HnatControl ------------------------------
(***************************************************************************)
(* The life of the mtk_hnat driver: probe with its error paths, removal,   *)
(* hooks switched off and on by debugfs, the warm init after a reset of    *)
(* the frame engine, and the roaming work, while packets are forwarded and *)
(* network devices come and go.                                            *)
(*                                                                         *)
(* A function is a program: a sequence of steps, each of which is atomic   *)
(* towards the other actors.  The module is one for boards with WiFi hooks,*)
(* accounting and multicast offload (hnat_data_v5).                        *)
(***************************************************************************)
EXTENDS HnatDevs

CONSTANTS
  Writers,     \* processes that write debugfs files
  PpeNum,      \* CFG_PPE_NUM
  QueueMax,    \* notifications the roaming socket holds
  ProbeMax,    \* bound on probes
  RareMax      \* bound on writes, resets, and what stations and devices do

ASSUME ControlAssumption ==
  /\ PpeNum \in Nat \ {0} /\ {QueueMax, ProbeMax, RareMax} \subseteq Nat
  /\ Writers \cap {"admin", "event"} = {}

Ppes == 1 .. PpeNum

VARIABLES
  has,         \* what is set up and what is registered elsewhere
  nf,          \* how often the netfilter hooks are registered
  mem,         \* tables of an engine
  bound,       \* where the bound entry of an engine sends the station's packets, and if
               \* no hook was registered when it was bound
  sma,         \* what an engine does with a packet it knows nothing of
  timer,       \* hnat_sma_build_entry_timer
  roam, queue, \* _hnat_roam_work and what its socket received
  side,        \* where the station is
  pkt,         \* where a packet in a hook found the station
  dev, held, ppd, writing,  \* devices, see HnatDevs; hnat_priv->ppd; a write to hnat_ppd_if
  at,          \* program and next step of an actor
  count,       \* what happened that is bounded
  raced,       \* history: two actors probed, removed, or switched the hooks at a time, or a
               \* device went while a write replaced it
  lost         \* history: "hooks" when the WiFi driver's hooks are those a failed probe left,
               \* "timer" when the last arming of the timer came before the timer was set up

devvars == <<dev, held, ppd, writing>>
ppevars == <<mem, bound, sma>>
timervars == <<timer, lost>>
roamvars == <<roam, queue, side>>
vars == <<has, nf, ppevars, timervars, roamvars, pkt, devvars, at, count, raced>>

Actors == {"admin", "event"} \cup Writers

Idle == [prog |-> "none", pc |-> 0]
-------------------------------------------------------------------------------
(***************************************************************************)
(* Programs.                                                               *)
(***************************************************************************)
Once(ops) == [k \in DOMAIN ops |-> [op |-> ops[k], ppe |-> 0]]

(* The same steps for each engine in turn.                                  *)
EachPpe(ops) ==
  [k \in 1 .. Len(ops) * PpeNum |->
     [op |-> ops[((k - 1) % Len(ops)) + 1], ppe |-> ((k - 1) \div Len(ops)) + 1]]

(* hnat_enable_hook                                                         *)
Enable == Once(<<"ra_on", "nf_on", "del_on">>)

(* Seeded fault: nobody lets the engines build entries again.               *)
DisableForGood == Once(<<"ra_off", "nf_off">>) \o EachPpe(<<"fwd", "sweep">>) \o Once(<<"del_off">>)

(* Seeded fault: bound entries are deleted while hooks may bind.            *)
DisableSweepFirst ==
  EachPpe(<<"fwd", "sweep">>) \o Once(<<"ra_off", "nf_off", "sma_timer", "del_off">>)

(* hnat_disable_hook                                                        *)
Disable ==
  Once(<<"ra_off", "nf_off">>) \o EachPpe(<<"fwd", "sweep">>) \o Once(<<"sma_timer", "del_off">>)

(* hnat_start                                                               *)
StartSteps == <<"table", "mib", "hw_init">>

(* hnat_stop: entries, registers, memory                                    *)
StopSteps == <<"sweep", "off", "free">>

Probe ==
  Once(<<"alloc", "find_eth", "ioremap", "irq2", "debugfs_on", "ext">>) \o EachPpe(StartSteps)
    \o Once(<<"ports_on">>) \o Enable
    \o Once(<<"netdev_on", "netevent_on", "mcast_on", "timers_on", "roam_on", "teardown_on">>)

ErrOut2 == Once(<<"ports_off", "devres">>)

ErrOut1 == Once(<<"debugfs_off", "ext_free">>) \o ErrOut2

ErrOut == EachPpe(StopSteps) \o ErrOut1

(* Seeded fault: the tables are freed before the hooks are unregistered.    *)
RemoveTablesFirst ==
  Once(<<"roam_off", "teardown_off">>) \o EachPpe(StopSteps)
    \o Once(<<"netdev_off", "netevent_off">>) \o Disable
    \o Once(<<"mcast_off", "ports_off", "debugfs_off", "release", "timers_off", "devres">>)

(* hnat_remove                                                              *)
Remove ==
  Once(<<"roam_off", "teardown_off", "netdev_off", "netevent_off">>) \o Disable
    \o Once(<<"mcast_off">>) \o EachPpe(StopSteps)
    \o Once(<<"ports_off", "debugfs_off", "release", "timers_off", "devres">>)

(* hnat_warm_init; hnat_neigh_update_cleanup and hnat_mcast_ser_handle are  *)
(* in HnatNeigh and HnatMcast.                                              *)
WarmInit ==
  Once(<<"netevent_off">>) \o EachPpe(<<"clear", "hw_init">>) \o Once(<<"netevent_on">>)

Code(prog) ==
  CASE prog = "probe" -> Probe [] prog = "remove" -> Remove
    [] prog = "enable" -> Enable [] prog = "disable" -> Disable
    [] prog = "warm" -> WarmInit
    [] prog = "err_out" -> ErrOut [] prog = "err_out1" -> ErrOut1 [] prog = "err_out2" -> ErrOut2

(* Where a step that fails leads.                                           *)
OnError ==
  [alloc |-> "err_out2", find_eth |-> "err_out2", ioremap |-> "err_out2", debugfs_on |-> "err_out2",
   ext |-> "err_out1", table |-> "err_out", mib |-> "err_out", nf_on |-> "err_out"]

(* Steps that only add to what is set up, and steps that only take away.    *)
(* hook_toggle is set and cleared with the deletion hooks; no step clears   *)
(* ppe_dev_register_hook and its like.                                      *)
Adds ==
  [alloc |-> {"priv"}, find_eth |-> {}, ioremap |-> {"fe"}, irq2 |-> {"irq2"},
   debugfs_on |-> {"debugfs"}, ports_on |-> {}, ra_on |-> {"ra", "ppe_dev"},
   del_on |-> {"del", "hook_toggle"}, netevent_on |-> {"netevent_nb"}, mcast_on |-> {"mcast"},
   teardown_on |-> {"teardown", "ready"}]

Takes ==
  [ra_off |-> {"ra"}, del_off |-> {"del", "hook_toggle"}, netevent_off |-> {"netevent_nb"},
   mcast_off |-> {"mcast"}, teardown_off |-> {"teardown", "ready"}, off |-> {}, ports_off |-> {}]

Parts == UNION {Adds[o] : o \in DOMAIN Adds} \cup {"netdev_nb", "sock"}
-------------------------------------------------------------------------------
(***************************************************************************)
(* Starting programs and going through them.                               *)
(***************************************************************************)
Init ==
  /\ has = {} /\ nf = 0
  /\ mem = [e \in Ppes |-> {}]
  /\ bound = [e \in Ppes |-> None]
  /\ sma = [e \in Ppes |-> "build"]
  /\ timer = "unset"
  /\ roam = "none" /\ queue = <<>> /\ side = "old"
  /\ pkt = None
  /\ dev = [d \in Devs |-> IF d \in WifiDevs THEN "registered" ELSE "up"]
  /\ held = Unused /\ ppd = Wan
  /\ writing = [dev |-> None, step |-> 0]
  /\ at = [a \in Actors |-> Idle]
  /\ count = [probe |-> 0, rare |-> 0]
  /\ raced = FALSE /\ lost = {}

Rare == count.rare < RareMax /\ count' = [count EXCEPT !.rare = @ + 1]

Switching(a) == at[a].prog \notin {"none", "warm"}

Start(a, prog, counted, max) ==
  /\ at[a] = Idle
  /\ count[counted] < max
  /\ at' = [at EXCEPT ![a] = [prog |-> prog, pc |-> 1]]
  /\ count' = [count EXCEPT ![counted] = @ + (IF prog = "remove" THEN 0 ELSE 1)]
  /\ raced' = (raced \/ (prog # "warm" /\ \E b \in Actors \ {a} : Switching(b)))
  /\ UNCHANGED <<has, nf, ppevars, timervars, roamvars, pkt, devvars>>

hnat_probe == "priv" \notin has /\ Start("admin", "probe", "probe", ProbeMax)

hnat_remove == "ready" \in has /\ Start("admin", "remove", "probe", ProbeMax + 1)

(* hnat_hook_toggle_write                                                   *)
hook_toggle_write(w) ==
  /\ "debugfs" \in has
  /\ Start(w, IF "hook_toggle" \in has THEN "disable" ELSE "enable", "rare", RareMax)

(* MTK_FE_RESET_NAT_DONE                                                    *)
FeReset == "netdev_nb" \in has /\ Start("event", "warm", "rare", RareMax)

(* Netdevice notifiers are called and registered under the RTNL.            *)
RtnlFree == at["event"] = Idle

Next1(a) == IF at[a].pc = Len(Code(at[a].prog)) THEN Idle ELSE [at[a] EXCEPT !.pc = @ + 1]

Advance(a) == at' = [at EXCEPT ![a] = Next1(a)]

Is(a, op) == at[a] # Idle /\ Code(at[a].prog)[at[a].pc].op = op

Op(a) == Code(at[a].prog)[at[a].pc].op

Ppe(a) == Code(at[a].prog)[at[a].pc].ppe

Listed == {d \in Devs : dev[d] \in {"registered", "up"}}

Up == {d \in Devs : dev[d] = "up"}
-------------------------------------------------------------------------------
Install(a) ==
  /\ at[a] # Idle /\ Op(a) \in DOMAIN Adds
  /\ has' = has \cup Adds[Op(a)]
  /\ lost' = IF Op(a) = "ra_on" THEN lost \ {"hooks"} ELSE lost
  /\ Advance(a)
  /\ UNCHANGED <<nf, ppevars, timer, roamvars, pkt, devvars, count, raced>>

Uninstall(a) ==
  /\ at[a] # Idle /\ Op(a) \in DOMAIN Takes
  /\ has' = has \ Takes[Op(a)]
  /\ Advance(a)
  /\ UNCHANGED <<nf, ppevars, timervars, roamvars, pkt, devvars, count, raced>>

(* Probe goes to its error labels, a write to hook_toggle is over; neither  *)
(* takes back what hnat_enable_hook set for the WiFi driver.                *)
Fail(a) ==
  /\ at[a] # Idle /\ Op(a) \in DOMAIN OnError
  /\ at' = [at EXCEPT ![a] = IF @.prog = "probe" THEN [prog |-> OnError[Op(a)], pc |-> 1] ELSE Idle]
  /\ lost' = IF at[a].prog = "probe" /\ "ra" \in has THEN lost \cup {"hooks"} ELSE lost
  /\ UNCHANGED <<has, nf, ppevars, timer, roamvars, pkt, devvars, count, raced>>

(* Seeded fault: hooks that are not registered are unregistered.            *)
NfHooksUncounted(a) ==
  /\ \/ Is(a, "nf_on") /\ nf' = nf + 1
     \/ Is(a, "nf_off") /\ nf' = nf - 1
  /\ Advance(a)
  /\ UNCHANGED <<has, ppevars, timervars, roamvars, pkt, devvars, count, raced>>

(* hnat_register_nf_hooks, which nothing keeps from running twice, and      *)
(* hnat_unregister_nf_hooks                                                 *)
NfHooks(a) ==
  /\ \/ Is(a, "nf_on") /\ nf' = nf + 1
     \/ Is(a, "nf_off") /\ nf' = IF nf = 0 THEN 0 ELSE nf - 1
  /\ Advance(a)
  /\ UNCHANGED <<has, ppevars, timervars, roamvars, pkt, devvars, count, raced>>

(* The tables of an engine are allocated, emptied by warm init, and freed.  *)
Tables(a) ==
  /\ LET e == Ppe(a) IN
     \/ Is(a, "table") /\ mem' = [mem EXCEPT ![e] = @ \cup {"table", "flow"}] /\ UNCHANGED bound
     \/ Is(a, "mib") /\ mem' = [mem EXCEPT ![e] = @ \cup {"mib", "acct"}] /\ UNCHANGED bound
     \/ Is(a, "clear") /\ bound' = [bound EXCEPT ![e] = None] /\ UNCHANGED mem
     \/ Is(a, "free") /\ mem' = [mem EXCEPT ![e] = {}] /\ bound' = [bound EXCEPT ![e] = None]
  /\ Advance(a)
  /\ UNCHANGED <<has, nf, sma, timervars, roamvars, pkt, devvars, count, raced>>

(* The end of hnat_hw_init, after registers that HnatPpe has.               *)
HwInit(a) ==
  /\ Is(a, "hw_init")
  /\ sma' = [sma EXCEPT ![Ppe(a)] = "build"]
  /\ held' = LookedUp(held, Listed, ppd)
  /\ Advance(a)
  /\ UNCHANGED <<has, nf, mem, bound, timervars, roamvars, pkt, dev, ppd, writing, count, raced>>

(* SMA_ONLY_FWD_CPU, and the loop that deletes what is bound                *)
SwitchOff(a) ==
  /\ \/ Is(a, "fwd") /\ sma' = [sma EXCEPT ![Ppe(a)] = "fwd"] /\ UNCHANGED bound
     \/ Is(a, "sweep") /\ bound' = [bound EXCEPT ![Ppe(a)] = None] /\ UNCHANGED sma
  /\ Advance(a)
  /\ UNCHANGED <<has, nf, mem, timervars, roamvars, pkt, devvars, count, raced>>

(* mod_timer, which does nothing to a timer without a function              *)
ArmSmaTimer ==
  /\ timer' = IF timer = "unset" THEN "unset" ELSE "armed"
  /\ lost' = IF timer = "unset" THEN lost \cup {"timer"} ELSE lost \ {"timer"}

Timers(a) ==
  /\ \/ Is(a, "sma_timer") /\ ArmSmaTimer
     \/ Is(a, "timers_on") /\ timer' = "idle" /\ UNCHANGED lost
     \/ Is(a, "timers_off") /\ timer' = "unset" /\ lost' = lost \ {"timer"}
  /\ Advance(a)
  /\ UNCHANGED <<has, nf, ppevars, roamvars, pkt, devvars, count, raced>>

hnat_sma_build_entry ==
  /\ timer = "armed"
  /\ timer' = "idle"
  /\ sma' = [e \in Ppes |-> "build"]
  /\ UNCHANGED <<has, nf, mem, bound, lost, roamvars, pkt, devvars, at, count, raced>>

(* For device events; a program of steps in hnat_disable_hook               *)
foe_clear_all_bind_entries ==
  /\ sma' = [e \in Ppes |-> "fwd"]
  /\ bound' = [e \in Ppes |-> None]
  /\ ArmSmaTimer

(* Going down, it has the entries cleared.                                  *)
Ours(d) == d = Wan \/ NamedExt(held, d) # {}

(* The external interfaces of the device tree; the list when probe fails,   *)
(* or at removal; hnat_priv, when the device core frees it.                 *)
Interfaces(a) ==
  /\ \/ Is(a, "ext")
        /\ held' = [held EXCEPT !.ext = [i \in DOMAIN Exts |-> [name |-> Exts[i], dev |-> None]]]
     \/ Is(a, "ext_free") /\ held' = [held EXCEPT !.ext = Skipped(held)]
     \/ Is(a, "release") /\ held' = Released(held)
     \/ Is(a, "devres") /\ held' = [Unused EXCEPT !.refs = held.refs]
  /\ has' = IF Is(a, "devres") THEN has \ {"priv", "fe", "irq2"} ELSE has
  /\ Advance(a)
  /\ UNCHANGED <<nf, ppevars, timervars, roamvars, pkt, dev, ppd, writing, count, raced>>

(* The netdevice notifier, told of all devices when it comes and, as if     *)
(* they went down, when it goes                                             *)
NetdevNotifier(a) ==
  /\ RtnlFree
  /\ \/ Is(a, "netdev_on")
        /\ held' = Replayed(held, Listed, Up, ppd) /\ has' = has \cup {"netdev_nb"}
        /\ UNCHANGED <<bound, sma, timervars>>
     \/ Is(a, "netdev_off")
        /\ held' = Unreplayed(held, Listed, Up) /\ has' = has \ {"netdev_nb"}
        /\ IF \E d \in Up : Ours(d) THEN foe_clear_all_bind_entries ELSE UNCHANGED <<bound, sma, timervars>>
  /\ raced' = (raced \/ (Is(a, "netdev_off") /\ writing.step = 2))
  /\ Advance(a)
  /\ UNCHANGED <<nf, mem, roamvars, pkt, dev, ppd, writing, count>>

(* hnat_deinit_debugfs waits for writers of its files.                      *)
DebugfsOff(a) ==
  /\ Is(a, "debugfs_off") /\ writing.step = 0 /\ \A w \in Writers : at[w] = Idle
  /\ has' = has \ {"debugfs"}
  /\ Advance(a)
  /\ UNCHANGED <<nf, ppevars, timervars, roamvars, pkt, devvars, count, raced>>

(* hnat_roaming_enable, whose failure probe ignores, and                    *)
(* hnat_roaming_disable, which does not cancel the work                     *)
Roaming(a) ==
  /\ \/ Is(a, "roam_on") /\ has' = has \cup {"sock"} /\ roam' = "queued" /\ UNCHANGED queue
     \/ Is(a, "roam_on") /\ UNCHANGED <<has, roam, queue>>
     \/ Is(a, "roam_off") /\ has' = has \ {"sock"} /\ queue' = <<>> /\ UNCHANGED roam
  /\ Advance(a)
  /\ UNCHANGED <<nf, ppevars, timervars, side, pkt, devvars, count, raced>>

Step(a) ==
  \/ Install(a) \/ Uninstall(a) \/ NfHooks(a) \/ Tables(a) \/ HwInit(a) \/ SwitchOff(a)
  \/ Timers(a) \/ Interfaces(a) \/ NetdevNotifier(a) \/ DebugfsOff(a) \/ Roaming(a)
-------------------------------------------------------------------------------
(***************************************************************************)
(* Packets and roaming stations.                                           *)
(***************************************************************************)
Hooked == nf > 0 \/ "ra" \in has

(* A packet enters a hook; unregistering does not wait for it.              *)
PacketIn ==
  /\ Hooked /\ pkt = None
  /\ pkt' = side
  /\ UNCHANGED <<has, nf, ppevars, timervars, roamvars, devvars, at, count, raced>>

(* The hook binds an entry (HnatBind), or does not.                         *)
PacketOut ==
  /\ pkt # None
  /\ pkt' = None
  /\ \/ \E e \in Ppes :
          /\ "table" \in mem[e] /\ bound[e] = None
          /\ bound' = [bound EXCEPT ![e] = [to |-> pkt, late |-> ~Hooked]]
     \/ UNCHANGED bound
  /\ UNCHANGED <<has, nf, mem, sma, timervars, roamvars, devvars, at, count, raced>>

(* The bridge learns the station at another port, and the socket is told    *)
(* if it has room.                                                          *)
Roam ==
  /\ Rare
  /\ side = "old"
  /\ side' = "new"
  /\ queue' = IF "sock" \in has /\ Len(queue) < QueueMax THEN Append(queue, "moved") ELSE queue
  /\ UNCHANGED <<has, nf, ppevars, timervars, roam, pkt, devvars, at, raced>>

(* A neighbour message of another family                                    *)
OtherMessage ==
  /\ Rare
  /\ "sock" \in has /\ Len(queue) < QueueMax
  /\ queue' = Append(queue, "other")
  /\ UNCHANGED <<has, nf, ppevars, timervars, roam, side, pkt, devvars, at, raced>>

(* hnat_roam_handler up to kernel_recvmsg                                   *)
RoamStart ==
  /\ roam = "queued"
  /\ roam' = IF "sock" \in has THEN "running" ELSE "none"
  /\ UNCHANGED <<has, nf, ppevars, timervars, queue, side, pkt, devvars, at, count, raced>>

(* Seeded fault: the work is not scheduled after another family's message.  *)
RoamReceiveOnce ==
  /\ roam = "running" /\ queue # <<>>
  /\ queue' = Tail(queue)
  /\ roam' = IF Head(queue) = "moved" THEN "queued" ELSE "none"
  /\ bound' = IF Head(queue) = "moved" THEN [e \in Ppes |-> None] ELSE bound
  /\ UNCHANGED <<has, nf, mem, sma, timervars, side, pkt, devvars, at, count, raced>>

(* The rest of it, with entry_delete_by_mac for the station: every bound    *)
(* entry of its, wherever it sends packets.                                 *)
RoamReceive ==
  /\ roam = "running" /\ queue # <<>>
  /\ queue' = Tail(queue)
  /\ roam' = "queued"
  /\ bound' = IF Head(queue) = "moved" THEN [e \in Ppes |-> None] ELSE bound
  /\ UNCHANGED <<has, nf, mem, sma, timervars, side, pkt, devvars, at, count, raced>>
-------------------------------------------------------------------------------
(***************************************************************************)
(* Network devices (nf_hnat_netdevice_event).                              *)
(***************************************************************************)
Heard == "netdev_nb" \in has

(* The WiFi driver calls its hooks if it found them.                        *)
WifiHooked(d) == d \in WifiDevs /\ {"ppe_dev", "priv"} \subseteq has

Device(d, from, to) ==
  /\ RtnlFree /\ dev[d] = from
  /\ dev' = [dev EXCEPT ![d] = to]
  /\ UNCHANGED <<has, nf, mem, roamvars, pkt, ppd, writing, at>>

DevRegister(d) ==
  /\ Device(d, "gone", "registered") /\ Rare
  /\ held' = IF Heard THEN Registered(held, d, ppd) ELSE held
  /\ UNCHANGED <<bound, sma, timervars, raced>>

(* The driver's open, then NETDEV_UP                                        *)
DevUp(d) ==
  /\ Device(d, "registered", "up") /\ Rare
  /\ held' = LET h == IF WifiHooked(d) THEN mtk_ppe_dev_register_hook(held, d) ELSE held
             IN IF Heard THEN extif_set_dev(h, d) ELSE h
  /\ UNCHANGED <<bound, sma, timervars, raced>>

(* NETDEV_GOING_DOWN, which clears all bound entries and stops the engines  *)
(* from building others for interfaces of ours, then the driver's stop      *)
DevDown(d) ==
  /\ Device(d, "up", "registered") /\ Rare
  /\ held' = LET h == IF Heard THEN GoingDown(held, d) ELSE held
             IN IF WifiHooked(d) THEN mtk_ppe_dev_unregister_hook(h, d) ELSE h
  /\ IF Heard /\ Ours(d) THEN foe_clear_all_bind_entries ELSE UNCHANGED <<bound, sma, timervars>>
  /\ UNCHANGED raced

(* NETDEV_UNREGISTER is sent again and again while there are references.    *)
DevUnregister(d) ==
  /\ \/ Device(d, "registered", "dying") /\ Rare
     \/ Device(d, "dying", "dying") /\ UNCHANGED count
  /\ held' = IF Heard THEN Unregistered(held, d) ELSE held
  /\ raced' = (raced \/ (Heard /\ writing.step = 2 /\ held.ppdev = d))
  /\ UNCHANGED <<bound, sma, timervars>>

DevFree(d) ==
  /\ Device(d, "dying", "gone")
  /\ held.refs[d] <= 0
  /\ UNCHANGED <<held, bound, sma, timervars, count, raced>>

(* A packet that needs a device looks it up (get_wandev_from_index,         *)
(* mtk_hnat_ipv4_nf_pre_routing).                                           *)
LazyLookup ==
  /\ pkt # None
  /\ \/ held.wandev = None /\ Wan \in Listed /\ held' = [Hold(held, Wan) EXCEPT !.wandev = Wan]
     \/ held.ppdev = None /\ ppd \in Listed /\ held' = [Hold(held, ppd) EXCEPT !.ppdev = ppd]
  /\ UNCHANGED <<has, nf, ppevars, timervars, roamvars, pkt, dev, ppd, writing, at, count, raced>>

(* hnat_ppd_if_write: dev_get_by_name,                                      *)
PpdGet(d) ==
  /\ Rare
  /\ "debugfs" \in has /\ writing.step = 0 /\ d \in Listed
  /\ held' = Hold(held, d)
  /\ writing' = [dev |-> d, step |-> 1]
  /\ UNCHANGED <<has, nf, ppevars, timervars, roamvars, pkt, dev, ppd, at, raced>>

(* dev_put of the old device,                                               *)
PpdPut ==
  /\ writing.step = 1
  /\ held' = IF held.ppdev = None THEN held ELSE Put(held, held.ppdev)
  /\ writing' = [writing EXCEPT !.step = 2]
  /\ UNCHANGED <<has, nf, ppevars, timervars, roamvars, pkt, dev, ppd, at, count, raced>>

(* and the new one stored.                                                  *)
PpdStore ==
  /\ writing.step = 2
  /\ held' = [held EXCEPT !.ppdev = writing.dev]
  /\ ppd' = writing.dev
  /\ writing' = [dev |-> None, step |-> 0]
  /\ UNCHANGED <<has, nf, ppevars, timervars, roamvars, pkt, dev, at, count, raced>>
-------------------------------------------------------------------------------
Next ==
  \/ hnat_probe \/ hnat_remove \/ FeReset
  \/ \E w \in Writers : hook_toggle_write(w)
  \/ \E a \in Actors : Step(a) \/ Fail(a)
  \/ hnat_sma_build_entry
  \/ PacketIn \/ PacketOut \/ LazyLookup
  \/ Roam \/ OtherMessage \/ RoamStart \/ RoamReceive
  \/ \E d \in Devs : \/ DevRegister(d) \/ DevUp(d) \/ DevDown(d) \/ DevUnregister(d) \/ DevFree(d)
                     \/ PpdGet(d)
  \/ PpdPut \/ PpdStore

Spec == Init /\ [][Next]_vars

(* The workqueue runs the work, and kernel_recvmsg returns what came.       *)
FairSpec == Spec /\ WF_vars(RoamStart) /\ WF_vars(RoamReceive)
-------------------------------------------------------------------------------
TypeOK ==
  /\ has \subseteq Parts /\ nf \in 0 .. ProbeMax + RareMax
  /\ mem \in [Ppes -> SUBSET {"table", "flow", "mib", "acct"}]
  /\ \A e \in Ppes : bound[e] \in {None} \cup [to : {"old", "new"}, late : BOOLEAN]
  /\ sma \in [Ppes -> {"build", "fwd"}]
  /\ timer \in {"unset", "idle", "armed"} /\ roam \in {"none", "queued", "running"}
  /\ queue \in Seq({"moved", "other"}) /\ Len(queue) <= QueueMax
  /\ side \in {"old", "new"} /\ pkt \in {None, "old", "new"}
  /\ dev \in [Devs -> {"gone", "registered", "up", "dying"}] /\ ppd \in Devs
  /\ DOMAIN held = DOMAIN Unused
  /\ writing \in [dev : Devs \cup {None}, step : 0 .. 2]
  /\ \A a \in Actors : at[a] = Idle \/ at[a].pc \in DOMAIN Code(at[a].prog)
  /\ raced \in BOOLEAN /\ lost \subseteq {"hooks", "timer"}

Quiet == \A a \in Actors : ~Switching(a)

(* What finds entries by itself: netfilter hooks, deletion by MAC, device   *)
(* and neighbour events, and the hooks of the WiFi driver but for those     *)
(* that a failed probe left.                                                *)
Installed ==
  \/ nf > 0 \/ has \cap {"del", "netdev_nb", "netevent_nb"} # {}
  \/ "ra" \in has /\ "hooks" \notin lost

(* It is registered after the tables are there and unregistered before they *)
(* go (lines 1772-1797, 1470-1526 and 1846-1859 of hnat.c).                 *)
InstalledHasTables ==
  ~raced /\ Installed => \A e \in Ppes : "table" \in mem[e]

(* With the hooks off nothing is bound, unless by a packet that was in a    *)
(* hook then (lines 1505-1526 of hnat.c).                                   *)
NoBoundWhenOff ==
  Quiet /\ ~Hooked => \A e \in Ppes : bound[e] # None => bound[e].late

(* hnat_release_netdev puts references before hnat_priv goes.               *)
Releasing ==
  /\ at["admin"].prog = "remove"
  /\ \E k \in 1 .. at["admin"].pc - 1 : Remove[k].op = "release"

(* A device that is pointed to is not freed: there is a reference for each  *)
(* pointer (lines 166-202, 454-469, 3546-3605 of hnat_nf_hook.c, 2504-2534  *)
(* of hnat_debugfs.c).  A write puts the old device before it stores the    *)
(* new one.                                                                 *)
PointersHeld ==
  ~raced /\ ~Releasing =>
    \A d \in Devs :
      held.refs[d] + (IF writing.step = 2 /\ held.ppdev = d THEN 1 ELSE 0) >= Pointers(held, d)

(* An engine that only forwards will build entries again: the timer that    *)
(* tells it is pending (line 1528 of hnat.c, 380 of hnat_nf_hook.c), while  *)
(* the driver is there, whether a write or a device going down stopped it,  *)
(* unless a device went down since the notifier was registered (1800 of     *)
(* hnat.c) and before the timer was set up (1809), and nothing armed the    *)
(* timer after that.                                                        *)
SmaRestored ==
  ~raced /\ Quiet /\ "ready" \in has =>
    \A e \in Ppes : sma[e] = "fwd" => timer = "armed" \/ "timer" \in lost

(* A station's entries are deleted when its move was told, whatever else    *)
(* the socket received (lines 555-582 of hnat.c).                           *)
RoamedUnbound ==
  \A e \in Ppes :
    /\ \E i \in DOMAIN queue : queue[i] = "moved"
    /\ bound[e] # None /\ bound[e].to = "old"
    ~> bound[e] = None \/ bound[e].to = "new" \/ "sock" \notin has
-------------------------------------------------------------------------------
(* "value=%d, hook is %s now!" (line 2622 of hnat_debugfs.c)                *)
ToggleTellsHooks == Quiet => ("hook_toggle" \in has <=> nf > 0)

(* "manually disable the unused ports" (line 1781 of hnat.c): the registers *)
(* are mapped when ports are switched off.                                  *)
PortsMapped == \A a \in Actors : Is(a, "ports_off") => "fe" \in has

(* An engine that only forwards has the timer pending, whatever came first. *)
SmaAlwaysRestored ==
  ~raced /\ Quiet /\ "ready" \in has =>
    \A e \in Ppes : sma[e] = "fwd" => timer = "armed"

(* The WiFi driver's hooks find tables, also after a probe that failed.     *)
WifiHooksHaveTables == ~raced /\ "ra" \in has => \A e \in Ppes : "table" \in mem[e]

(* A packet in a hook finds tables.                                         *)
PacketHasTables == pkt # None => \A e \in Ppes : "table" \in mem[e]

(* Nothing is held when the driver is gone.                                 *)
AllReleased == "priv" \notin has => \A d \in Devs : held.refs[d] = 0
===============================================================================
