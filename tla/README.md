# A TLA+ development of the OpenWrt build tree's own network code

The repository is a build tree: scripts that configure OpenWrt, patches, board
files, and a few packages with code of their own. This directory models the
packages whose behaviour depends on order and time, checks the models with TLC
and proves the central facts with TLAPS. Paths below are relative to
`src/patch/` unless they begin with `src/`.

## The system

| part | code | state | operations | what is hard |
|---|---|---|---|---|
| full cone NAT | `emortal/nft-fullcone/src/nf_nat_fullcone.c`, `.h` | two hash tables over `struct nat_mapping`, each mapping with a list of original tuples and `refer_count`; the list of dying tuples | pre-routing and post-routing hooks (`nf_nat_handle_prerouting`, `_postrouting`), `check_mapping`, `find_appropriate_port`, `handle_dying_tuples` | packets on several CPUs before their conntracks are confirmed; lazy and delayed collection; failed allocations; a full port range |
| nft expression module | `emortal/nft-fullcone/src/nft_ext_fullcone.c` | `module_refer_count`, the notifier flag, a workqueue and its delayed work | module init and exit, expression init and destroy, `ct_event_cb`, `gc_worker` | rules that come and go in any order, another module's notifier, wakeups of work that is just finishing, exit under way |
| mtkreconnect | `emortal/mtkreconnect/src/mtkreconnect.c`, `files/mtkreconnect.init` | `ifaces[]` with per-interface retry state, `g_reload`; procd's instance | the loop of `main`, `load_sta_configs`, `do_connect_transaction`, the init script's `start_service` and `reload_service` | a reload that reorders or fails, links the driver reports for a moment, SIGHUP at a bad time, backoff |
| mtk_hnat: binding | `target/linux/mediatek/files-6.12/.../mtk_hnat/hnat_nf_hook.c` | the hardware FOE table, `foe_flow` of half-bound entries, `entry_lock`, `flow_entry_lock` | `mtk_hnat_nf_post_routing` and `skb_to_hnat_info` prepare an entry; `hnat_foe_entry_commit` binds it, for WiFi not before `mtk_sw_nat_hook_tx`; events delete it | a bind in two steps under different locks, events and a hardware that relearns in between |
| mtk_hnat: neighbour queue | the same file, lines 566 to 690 | `neigh_update`: a list, its counter, a delayed work | `nf_hnat_netevent_handler` queues, `hnat_neigh_update_work_handler` unbinds in batches, `hnat_neigh_update_cleanup` | a bounded queue, a worker that queues itself, unload |
| mtk_hnat: packet paths | `hnat_nf_hook.c`, hooks of bridge and IP | marks in packets, indices of devices in entries, the list of external devices | pre-routing, local-in, local-out and post-routing hooks; `do_hnat_ext_to_ge`, `do_hnat_ext_to_ge2`, `do_hnat_ge_to_ext`; 464xlat | the same hooks see a packet twice, and their order depends on the board; numbers outlive the devices they name |
| mtk_hnat: life of the driver | `.../mtk_hnat/hnat.c`, devices in `hnat_nf_hook.c` and `hnat_debugfs.c` | what is allocated and registered, learning mode of each engine, references to devices | probe with its error paths, removal, hook switching, reset, roaming work, learning timer | half a probe, a packet in a hook that is removed, a work that blocks and queues itself |
| mtk_hnat: registers | `hnat.c`, `hnat_debugfs.c` | registers of an engine, its cache, `cah_lock` | initialisation, cache clearing, settings and toggles | read, change and write without a common lock |
| mtk_hnat: multicast | `.../mtk_hnat/hnat_mcast.c`, `.h` | groups with members, rows of the multicast table, the black list | bridge messages, binding, interface down, path switch, offload toggle, reset | messages lost or repeated, a group that changes while its entry is bound, a walk without the lock |
| mtk_hnat: API, special tags, counters | `.../mtk_hnat/hnat_api.c`, `hnat_stag.c`, `hnat_debugfs.c` | what an entry says of VLANs, tags and queues; accounting | search, update, deletion, callbacks, `hnat_get_count`, entries by hand | an entry is copied, changed and written back; counters are read through one register |
| mtk_hnat: debugfs printing | `hnat_debugfs.c` | none | tables as text | none |
| xHCI test hooks, WiFi utility | `.../drivers/usb/host`, `files-6.12/drivers/net/wireless/wifi_utility` | registers | vendor test commands, MTD access | none |
| autocore, automount | `emortal/autocore-arm`, `emortal/automount` | none | scripts | none |
| firewall4, libnftnl, nftables patches | `fullcone` | none | rule generation | none |
| board support, build scripts | `target/linux/mediatek/dts`, `patches-6.12`, `src/sh` | none | none at run time | none |

How they interact. A rule with the `fullcone` expression makes nf_tables call
`nft_fullcone_init` once per rule and `nf_nat_fullcone_ipv4/6` once per new flow
and hook. The hooks look at the conntrack table (`nf_conntrack_find_get`) and
write the translation into the packet's conntrack (`nf_nat_setup_info`), which
netfilter confirms later. The death of a conntrack comes back through
`ct_event_cb`, which lists its tuples and queues the collector. mtk_hnat takes
flows that conntrack established into hardware and never calls the two modules
above. Inside it everything meets in the FOE table: hooks bind entries, the
neighbour queue, roaming, device events, the multicast groups, debugfs and the
exported API delete or change them, and the engine learns, ages and forwards by
them without any lock of the driver's. mtkreconnect is a process of its own; it talks to the WiFi driver through
ioctls and to the init script through SIGHUP and the UCI configuration.

What makes each part correct:

* NAT: one mapping per external endpoint and per internal endpoint; a live flow
  keeps its mapping; reference counts that agree with the lists; an endpoint
  independent of the remote.
* Expression module: a notifier while, and only while, it is needed; no lost
  wakeup; nothing left at unload.
* mtkreconnect: the cooldown of an attempt is waited for whatever reloads come;
  no dead link is forgotten; the last configuration wins.
* mtk_hnat: what hardware forwards agrees with conntrack, neighbours and
  interfaces; entries are unbound for every event; packets end where they
  belong; counters and settings agree with what they describe; nothing uses what
  is not there yet, or not any more.

## Modules

| module | what it models |
|---|---|
| `FullconePorts` | `find_appropriate_port` (and `..._port6`) as a function of the range, the starting point and the ports taken |
| `FullconePortSearch` | the same function as the loop it is, with `uint16_t` locals |
| `FullCone` | the abstract full cone: bindings and flows |
| `FullconeNat` | mapping table, hooks, `check_mapping`, conntrack around them, collector |
| `FullconeNotifier` | life of the expression module: notifier, destroy events, work, exit |
| `MtkReconnect` | daemon, init script and configuration |
| `HnatNeigh` | neighbour updates of mtk_hnat: netevent handler, delayed work, cleanup |
| `HnatBind` | life of a FOE entry: hardware, hooks, commit, deletion by updates and events |
| `HnatPath` | the ways of packets through all hooks, to the engine and back, and the devices they name |
| `HnatMcast` | multicast groups, their table rows and entries |
| `HnatPpe` | registers and cache of an engine, and the functions that write them |
| `HnatDevs` | references to network devices, as operators |
| `HnatControl` | probe, removal, switching of hooks, reset, roaming, devices |
| `HnatTable` | entries as the API, the tags, the counters and hand-written entries see them |
| `FullconeNat_proofs` (with `FullconePorts` and `FullconeNotifier`), `MtkReconnect_proofs`, `HnatBind_proofs` (with `HnatNeigh`), `HnatPath_proofs`, `HnatControl_proofs`, `HnatTable_proofs`, `HnatMcast_proofs`, `HnatPpe_proofs` | theorems |
| `MCFullconeNat`, `MCMtkReconnect`, `MCHnatBind`, `MCHnatPath`, `MCHnatMcast`, `MCHnatPpe`, `MCHnatControl`, `MCHnatTable` | constants of the instances that TLC checks |

`FullconeNat` extends `FullconePorts` and instantiates `FullCone` for the
refinement. `FullconeNotifier` and `FullconeNat` meet in the dying list: the
first shows when it is handled, the second what handling it does. `HnatBind`
extends `HnatNeigh`: its steps that change no entry are that module's, and its
walk over the table stands where `HnatNeigh` has the one step `WorkerClear`.
That the composition still implements `NeighSpec` is a theorem. `HnatControl`
extends `HnatDevs`, whose operators its steps call. The other modules of mtk_hnat
look at one table from different sides and share no variables: `HnatBind` at how an
entry gets bound and unbound when flows collide, `HnatPath` at which packets get
as far and where packets of bound flows go, `HnatTable` at what is in a bound
entry, `HnatMcast` at the entries of groups.

### FullconeNat and the code

`mapping` gives every object of the slab its `struct nat_mapping`, or `None` when
it is free; being linked in both hash tables is one fact, because the code
always links and unlinks both together. `items` is `original_tuple_list`, whose
nodes are finite so that the allocation of a node can fail. `cpu[c]` is the
packet a CPU carries through its hook to confirmation. `conntrack` is the table
that `nf_conntrack_find_get` searches, `dying` the list that `ct_event_cb` fills.

A hook is one action: it runs under `fullconenat_lock` from its first lookup to
its last assignment. Confirmation is another action, because it comes later
without that lock; the window between the two is where the interesting
interleavings are. `gc_locked` stands for the locks that
`nf_nat_fullcone_handle_dying_tuples` holds over the whole list; hooks and destroy
callbacks wait for it, confirmation does not.

`Walks` is the one abstraction that needs care. A lookup by external port walks
a bucket and calls `check_mapping`, which may free dead tuples and the mapping
itself, on every entry it passes until it finds its match. Which others lie
before the match depends on the bucket's order; the model allows any subset.

`IPv4` and `IPv6` code is written twice in the source, with the same statements.
The module is one family. The map of `PROJECT.json` names the v4 copy for most
definitions and the v6 copy where that is as good.

What is external, modelled from its use: arrival of packets, confirmation and
freeing of conntracks, `nf_conntrack_find_get`.

### FullconePorts, FullconePortSearch

`PortSpace` is the number of values of a `uint16_t`, so that wrapping can be
checked in a space of 5 ports. `FullconePorts` states the result of the search, which is
what the other modules take their ports from; `FullconePortSearch` is the loop.
`LoopFindsFreePort` compares the loop with both the operator and, independently of the
size the code computes, the range the caller asked for. For one range the comments of
`find_appropriate_port` do not hold: the range of all ports has 65536 of them, which is 0 in
the `uint16_t range_size`. Nothing is preserved or searched then, and the mapping at port 0 is
overridden (`FirstPortOverridden`) although other ports may be free; that the
promise is kept for every range, `PromiseAlwaysKept`, is violated.

### FullconeNotifier

`module` follows `nft_fullcone_module_init` and `_exit` step by step. `notifiers[n]`
is what a net calls: a chain under `CONFIG_NF_CONNTRACK_CHAIN_EVENTS`, otherwise
one slot. `event[ct]` is where a running `ct_event_cb` is, `work` is the delayed
work's pending and running bits. With a chain, unregistering waits for the
callbacks under way (the kernel's notifier chain does); with a slot it does not.

Registering with a chain may fail (`TryRegister`): the code logs "Disable active GC for
mappings", leaves its flag unset and goes on, so the expressions that come while one of them
lives have no notifier either; the first after all have gone asks again. A callback for
whose tuple there is no memory lists nothing (`AddFails`).

### MtkReconnect

`list` is `ifaces[0 .. count - 1]`, with `wait` for what is left of `next_try`. A round
of the loop is four steps: the test of `g_reload`, the load, one pass over all
interfaces, the sleep. Signals come at any of them. The init script's
`reload_service` runs when procd sees the configuration changed (`trigger`); it
starts, stops or signals the daemon, and a signal before `install_signals` kills
it. `quiet` and `connecting` are history: what is left of the cooldown of the last
attempt, and whom the last pass tried. `FailCap` and `Confirm` are exact ends of
counters: beyond them the code does not tell values apart.

### HnatNeigh and the code

`neigh` is the kernel's neighbour table and `notify` the neighbours whose change
has not reached the notifiers yet: both are external, and apart because the kernel
calls notifiers after it has dropped the neighbour's lock. `head`, `pending_cnt`
and `pending` are the fields of `neigh_update`, the last one the pending bit of its
delayed work. `worker` is where `hnat_neigh_update_work_handler` is between its two
locked sections, with the list it took. `control` is where `hnat_warm_init` or
`hnat_remove` is. `lost` is history: the neighbours whose latest change did not get
into the queue or was thrown out of it.

The 300 ms by which the work is delayed are not modelled; the work may start at
any time after it was queued, which includes theirs.

### HnatBind and the code

`foe[s]` is an entry: its state, the flow its tuple matches, and the rest of it
(`act`). Of the rest the properties need three things: the flow of the packet that
the fields were made from, the next hop's address, and the flow whose packet gave
the WiFi fields. INVALID stands for FIN too, since hardware forwards by neither and
relearns both. `foe_flow` is the list of prepared entries of WiFi flows with an age:
0 for less than the 3 s for which the transmit hook accepts it, 1 for older, 2 for more
than 30 s, when the teardown work frees it. `skb[k]` is a packet and where it is:
in the hook, before or after the next hop's address is read, between the test and
the lock, between the two halves of the commit, or in the driver's queue. Preparing an entry
for WiFi is two steps, the search of the list without `flow_entry_lock` (`PutTest`) and the
search and insertion under it (`PutFlow`). The hook may give up after the packet's entry was
found to be unbound: on VLANs it cannot express, on multicast and on the black list
(`hnat_nf_hook.c:3213-3284`, `3472-3479`). `scan` is
where the two walks are, the worker's and that of a device, MAC or address event;
each tests an entry without `entry_lock` and deletes it with the lock, without
testing again. `late` is history: entries whose address was out of date when they
were committed.

`HwLearn`, `HwAge` and `Receive` are the hardware, from the states the code expects of
it. Hooks are assumed fast against hardware: an entry does not age out while a
packet of it is being worked on (ageing takes seconds, `UNB_DLTA` in `hnat.c`). A
packet in a WiFi driver's queue has no such protection, and deletions happen at
any time.

After an event that clears the whole table the code stops the hardware from
learning for three seconds; in the model it may learn at once, which allows more.

### HnatPath and the code

A packet (`skb`) is where it is (`at`), its device, and what the hooks read of it:
`iface`, `tag`, `reason` and `alg` are the descriptor in its headroom (`skb_hnat_iface`,
the magic tag, `skb_hnat_reason`, `skb_hnat_alg`), `cb` its control block, `mark` the VLAN
tag that carries the index of the device it came from. Each hook is an operator
from a packet to a packet and the way it goes (`Hooked`), and `Onward` is the order
in which the stack calls them, which depends on the board (`whnat`, whose hooks
`whnat_adjust_nf_hooks` registers with other priorities) and on whether bridged
packets pass IP's hooks (`brnf`). Both are chosen at the start. What the engine does
with a packet depends on the entry of its flow only (`Answers`).

`foe[f]` is the entry of flow `f`: collisions are `HnatBind`'s matter, and so are bodies of
entries. `act` is `act_dp`, the number of the device that packets of the flow leave by
when the CPU must send them, 0 when a MAC does. Indices are taken modulo the width
of the fields that carry them. `last` is history: how a packet was handed on.

Devices unregister only when no packet is between the look at its device and the
commit: the kernel waits for hooks that run (`synchronize_net`).

### HnatMcast and the code

`mdb` is what the bridge knows, `nlq` the socket's queue of messages, `groups` the list
`pmcast->groups`, `mtbl` the multicast table of each engine. A packet of a group goes
through three steps: the test of the black list, `hnat_mcast_bind_handle` (here the group
takes the entry over), the commit. The work drains the queue message by message under
`mcast_lock`; `IfDownStart`, `IfDownGroup` and `IfDownEnd` are the walk of
`hnat_mcast_ifdown_handle`, which holds the lock throughout, and `IfDownFlush` is the clearing of
all bound entries that the device event does after it, without the lock
(`hnat_nf_hook.c:451`); until then the device is `flushing`, and no other device event comes
because both are under `rtnl`. A device that has no port of the engine (`PseOf` is `None`)
adds nothing to a group's ports, and a member that leaves no port behind leaves the group's
entry as it is (`Leaves`). `PathFind` and `PathSwitch` are
the two halves of the walks of `hnat_mcast_group_path_switch` and
`hnat_mcast_update_path_from_wifi`, which hold none. `raced` and `slipped`
are history and name the exceptions of two properties. A group is `raced` when it changed
between a packet's preparation and its commit, had no running member or was not asked at
that moment, or took over an entry that another packet had bound: `hnat_mcast_bind_handle`
records the slot and the ports, but the words of a bound entry are not written again. That
takes two packets, and an entry left bound by a group that lost it (deleted while the
offload is off, or between the two halves of a reset). A group is `slipped` when a
packet passed the black list before the group was on it, or while the offload was off, when
nobody looks.

### HnatPpe and the code

A function is a sequence of instructions (`Code`), each a register access or a change of
one variable; a field is written by a read and a write (`cr_set_field`). `hnat_cache_clr`
saves three registers, switches learning, scanning and the cache off, and writes back
what it saved, under `cah_lock`; the functions beside it know nothing of that lock.
`ppe_id` says which engine of the board it is: a board with two of them runs all of this
twice, and the default CPU port of the second stays that of the ADMA when TDMA is asked for
(`SkipWrite`, `hnat.c:1088-1092`). `Wished` is what the register of this engine should say.
`mixed` is history: two programs that write one register without a common lock ran side
by side, where the last writer wins and nothing is claimed.

### HnatControl, HnatDevs and the code

Probe, each of its error paths, removal, switching and reset are programs of steps. `has`
is the set of things that exist: allocations, debugfs files, notifiers, hooks, the
socket. `mem` is what is allocated for an engine, `bound` its bound entry, `sma` its
learning mode. `RoamStart` and `RoamReceive` are the work that blocks in `kernel_recvmsg` and
queues itself. `HnatDevs` has the reference counts: `extif_set_dev`, `extif_put_dev`,
`mtk_ppe_dev_register_hook` and `_unregister_hook`, `hnat_release_netdev`, with the loop that
deletes from the list it walks. `raced` is history: two actors probed, removed or switched
at a time, or a device went between the two halves of a write to `hnat_ppd_if`, which the
kernel's locks exclude in part only.

An interface of ours that goes down has all bound entries cleared, which also stops the
engines from building others and arms the timer that lets them build again
(`foe_clear_all_bind_entries`; one step here, since it is under `rtnl` and
what could come between is what `SwitchOff` shows step by step). Probe registers the
notifier that does it (`hnat.c:1800`) before it sets the timer up (1809): a device that
goes down in between arms a timer without a function. And `hnat_enable_hook` sets the hooks of
the WiFi driver (1474-1489) before the netfilter hooks can fail; the error path frees the
tables and leaves those hooks. Both are in the model, and `lost` remembers that they
happened ("timer", "hooks"). Not in it is the failure of `whnat_adjust_nf_hooks` that
`hnat.c:1790-1794` tests for: the function (`hnat_nf_hook.c:4465-4484`) returns 0 on
every path.

### HnatTable and the code

CPUs run jobs: bind, update by index or by tuple, read counters, answer keepalive
packets, change the DSCP, report FIN, write an entry by hand. An update is a copy, a change
of the copy and a write under `entry_lock` of all of it, as in
`hnat_update_entry_generic`. The engine (`Learn`, `Forward`, `SeeFin`, `Age`) takes no lock.

`sp_tag`, the two VLANs and the layer count are kept apart, since the code changes them
one by one. `Built` is the order in which a packet's way through the hooks writes them: what
the packet and its path carry (`ppe_fill_info_blk`), the tag of the switch port
(`hnat_dsa_fill_stag`) or, on boards with one GMAC, the VLAN that tells LAN from WAN
(`FillGmac1`), the crypto engine, and last the WiFi driver's hook or the crypto engine's
return, which count the layers anew and leave VLANs and tag where they are if there are none
(`Relayer`). An entry written by hand (`Written`) has the state and the layers that were
typed and neither tag nor, for an IP flow, VLANs; `hand` is history and marks it.

A count goes through the register of the engine to the account of the entry: `Select` and
`Fetch` around the wait for the register, `Load` and `Store` for the addition, which
`hnat_get_count` does without a lock (`hnat_debugfs.c:1269-1270`), `Credit` for the conntrack
and the device. `crossed` and `lossy` are history and belong to an entry. It is `crossed` when
another reader used the register while it was being read, or when an addition under way
brought an account back that had been reset; it is `lossy` when a read timed out or when two
additions to its account overlapped.

Left out are the magic tag of hierarchical QoS, packets that carry two VLANs, MAP-E, and the
tag of 6rd flows. `hnat_nf_hook.c:2870` writes the VLAN of the IPv4 layout for entries of
every family; the model has one layout.

## What is checked

Operators commented *Seeded fault* are wrong variants of the operator below
them. They are not part of any specification; they show for each property a
plausible error that breaks it, and `PROJECT.json` lists the pairs.

| run | question | instance |
|---|---|---|
| `port_search` | Does the loop end, with the port its comments promise of the range asked for (the range of all ports fails in the way stated), and with the one `FullconePorts` states? | 5 ports, default minimum 2; every range, starting point, original port and set of taken ports |
| `nat_race` | Does the table keep one mapping per external and per internal endpoint (`ExtUnique`, `IntUnique`) and right counts (`ReferCountIsLength`), when packets of two CPUs interleave with confirmation and collection, allocations fail and ranges are full? | 2 hosts on the same source port, 1 remote, 1 external address, the default range and a range of one port, 2 CPUs |
| `nat_full_cone` | Does the NAT implement the abstract full cone, and do live flows keep their mapping? | 2 hosts, 2 remotes, 1 CPU, memory enough |
| `notifier` | Does whether there is a notifier stay the same while an expression is in use, is nothing left at unload, no wakeup lost? | 2 expressions, 2 conntracks, a chain, another module, registrations and allocations that fail, a workqueue that may be missing |
| `reconnect` | Is an attempt never repeated within its cooldown, are failures forgotten only by a stable link, is a dead link retried for ever, is the last configuration reached? | 2 profiles in configurations that reorder them, loads that fail |
| `hnat_bind` | Is every bound entry complete, is a bound entry never rewritten, is a flow prepared once? | a wired and a WiFi flow that collide in one entry, 2 packets, deletions by MAC, by address and of everything, removal |
| `hnat_moves` | Does an entry whose neighbour moved or failed have an update on its way to it unless that was dropped, and is it deleted in the end? Is the counter right, is no update stranded? | a crypto flow, 2 addresses, a limit of 2 with a budget of 1, failing allocations, warm init |
| `mcast` | Do members follow the messages handled, does the entry of a group forward to its members' ports, is nothing on the black list bound? | 1 group, a switch port and a wired port that joins for two sources, 1 row, 1 packet; one of the rarer events (a lost message, a failed allocation, NPU, interface down, path switch, black list, debugfs, module, toggle, reset) per behaviour |
| `ppe` | Are learning, scanning and the cache on afterwards, do registers say what the settings say, is no deleted flow left in the cache? | 2 CPUs that run two of ten programs, both register layouts, the first and the second engine; behind a reset beside a hash change or a time stamp TLC does not look (`MCResetBeside`) |
| `control` | Have installed hooks their tables, disabled ones no bound entry, pointers their references? Does learning come back, are flows of a roamed station deleted? | 1 device, which the device tree names and is WAN and WiFi at once, 1 engine, 1 debugfs writer, 1 probe, two rarer events (such as the device going down, before the timer is set up too) |
| `table` | Do tags agree with VLANs, is every packet counted once, does an update undo no other's? | 2 CPUs, 1 entry, a tagged flow through a switch port, three settings, two blocks typed by hand, one counted packet; while there is a count to compare, states with a change of settings or an entry by hand are checked and not followed (`SomeCount`), nor are those where every entry is `crossed` |
| `path` | Does every packet's way end, does it return to its device and leave by the one it is for, is nothing bound that a hook rules out? | 8 flows of all kinds but 6rd, one of them of an unsupported type, between an external device that is a bridge port, one that is not, LAN and WAN; 1 packet, 4 boards; entries of two flows at a time (`MCSteady`) |

Further configurations belong to no run of `PROJECT.json`. Most keep the
counterexample to what one might expect, or to what a comment says:

| configuration | property | result |
|---|---|---|
| `MCFullconeNat_TwoCPUs` | `EndpointIndependent` | violated: the first packets of two flows of one host pass the hook on two CPUs before either is confirmed; the second hook does not find the first conntrack, takes its tuple for dead and kills the mapping |
| `MCFullconeNat_Reuse` | `CollectorFreesOutdated` | violated: a flow ends and returns with the same tuple before the collector runs, which compares tuples by value and frees the new entry |
| `MCFullconeNotifier_Slot` | `RegisteredMeansOurs` | violated: without a chain of notifiers an occupied slot counts as registered |
| `MCMtkReconnect_Disabled` | `DisabledLeftAlone` | violated: the init script counts enabled stations only, the daemon connects all |
| `MCHnatBind_Late` | `WrongAddressDeleted` | violated: a WiFi entry is prepared, the neighbour moves, its update passes the table, the old address is committed |
| `MCHnatBind_Gateway` | `WrongAddressPending` | violated: updates are compared with destinations, while an entry through a gateway holds the gateway's address |
| `MCHnatBind_Station` | `StationMatchesFlow` | violated: the transmit hook searches by the tuple the hardware holds by then, which after a relearn is another flow's |
| `MCHnatBind_Crypto` | `BoundNotRewritten` | violated: two crypto packets pass the test, which is before the lock, and commit one after the other |
| `MCHnatMcast_IfDown` | `TornDownUnused` | violated: "No members left: tear down everything" (`hnat_mcast.c:969`), while a member behind another switch port runs |
| `MCHnatMcast_Blist` | `OnlyListedBlocked` | violated: an address is put on the list with its mask still unset (`hnat_debugfs.c:3072`), and for that moment matches every group |
| `MCHnatMcast_Reused` | `OthersLeftAlone` | violated: a group writes to its entry without a look at whose it is by now |
| `MCHnatMcast_Rows` | `RowsDistinct` | passes: two groups never share a row |
| `MCHnatMcast_Live` | `MessagesHandled` | passes: every message is worked off, under `FairSpec` |
| `MCHnatTable_FinReported` | `FinReported` | violated: "register testing entry bind and fin callback" (`hnat_api.c:914`), but when the callback would be called the entry is in state FIN, which line 190 refuses |
| `MCHnatTable_PortVlan` | `PortVlanKept` | violated: setting a flow's VLAN overwrites the one that names its switch port |

More properties are defined at the end of their modules and are violated on the
instance of the run of that module:

* `FullconePortSearch`: `PromiseAlwaysKept` ("override a previous mapping" once "at least we
  tried"): the range of all ports.
* `HnatPpe`: `CacheStaysEnabled` ("restore cache enable", `hnat.c:906`): two functions save
  and restore the cache's bit, one of them without `cah_lock`. `TogglesHeld`: a reset takes the
  registers back, the toggles say what they said before.
* `HnatControl`: `ToggleTellsHooks` and `PacketHasTables` (the debugfs file that switches
  hooks is there before probe has allocated the tables and registered the hooks itself),
  `PortsMapped` (the last error path of probe writes registers that were never mapped),
  `AllReleased` (the error paths of probe put none of the references that
  `hnat_release_netdev` puts), `SmaAlwaysRestored` (a device goes down between the notifier's
  registration and the timer's setup, and the engine builds no entry until the next time the
  timer is armed), `WifiHooksHaveTables` (a failed probe leaves the WiFi driver's hooks and
  frees the tables they search).
* `HnatTable`: `AgedStaysOut` (an update writes the copy back, its BIND state too),
  `NoneLost` (two readers add to one account at once and one addition is lost, or a read
  times out), `CreditedOnce` (two readers of one register both credit what it latched;
  without the constraint `SomeCount`), `HandTells` (an entry by hand has no tag), `BitOfPort`
  (with one GMAC, setting VLANs sets the bit that belongs to a switch port's tag; with the
  instance's port `AllGmac1` and no tagged flow), `EnginePortKept` (a setting
  takes a flow away from the crypto engine; with the instance's port `AllCrypto`),
  `StaticInTable` (an entry by hand is put behind the last bucket, or on a bound entry).
* `HnatPath`: `FloodedUnbound` ("Don't bind unknown-unicast", `hnat_nf_hook.c:1451`: without
  `whnat` the hook that looks is not on the way), `DownInvalidated` ("invalidate related ppe
  entry", line 905: an entry committed after the device went down stays), `OneTrip`
  (`TripsEnd` says which packets go twice). With `Flows = {f6rd}` and `Odd = {f6rd}` a 6rd
  flow is bound whatever its type, which is why `OnlyEligibleBound` excepts it.
* `HnatNeigh`: `NoWorkAfterCleanup`: cleanup asks whether the work is pending before it
  cancels it; a handler that runs is not pending, so it is not waited for (`hnat_moves`).
* `HnatMcast`: `FoundGroupsLive` ("protect list", `hnat_mcast.h:69`, but the path switch walks
  it without the lock), `RowsOwned` (a group whose entry was taken away keeps its row, and
  goes without giving it back). `GroupsHaveMembers` holds, as does `TypeOK` of every module.

The exceptions in checked properties come from these: `ReferCountIsLength` instead
of the survival of the new tuple, the range of all ports in `LoopFindsFreePort`, `late` in
`WrongAddressPending`, destinations on the link in `hnat_moves`, no crypto flow in
`hnat_bind`, `raced` and `slipped` in `EntryAgrees` and `BlockedUnbound`, `mixed` in the
properties of `HnatPpe`, `lost` in `InstalledHasTables` and `SmaRestored`, `hand` in
`TagMatches`, `crossed` and `lossy` in `CountsConserved`.

### Bounds

* Ports: three in the NAT instances (0 is no port of a packet, 1 and 2 are in the
  default range), so that two hosts can compete for one port, the loser can
  get the other, and a range of one port is full with one mapping. Five in the
  port search, so that ranges, starting points and wrapping are all different.
* `Objs`, `Nodes`: two objects and two nodes; a third mapping or tuple meets the
  failing allocation.
* `MaxConntrack`, `MaxDying`: a state beyond them is reached and checked but not
  expanded. Two or three live flows and one dying flow are enough for two
  mappings to be shared, outlived and collected.
* `SYMMETRY` over objects and nodes, which the specification does not tell apart;
  it is used for safety runs only. `nat_full_cone` checks a refinement that is a
  safety property and does not mention objects.
* Reconnect: the numbers are scaled (cooldown 2 ticks, doubled once, confirmation
  after 2 polls) and keep their order. Two profiles show what a reload that reorders
  them does to their counters; slots do not influence one another in the loop.
* Hardware NAT: one entry of the table, so that flows collide in it; entries
  influence one another only through `foe_flow`, `entry_lock` and the walks. Two
  packets show every race of a test with a commit. A limit above the budget
  leaves updates for the handler to come back to, and a limit of two overflows.
  `CounterSpace` is larger than the limit, as 2^32 is.
* Paths: one packet, since packets influence one another through entries and devices
  only, which change at any time here. `IfMax` is 3: two devices, one of which returns
  under a third index while marks and entries still hold its first. `ActSpace` and
  `MarkSpace` hold all indices; see the assumption below. One MAC for each side, always up
  (`MCSteady`): a MAC that goes down clears the table, as the external device does.
* Multicast: one group, because groups meet only in rows (`MCHnatMcast_Rows`) and in a
  reused entry (`MCHnatMcast_Reused`), which have instances of their own. A queue of one
  message overflows. `RareMax` is 1: the rarer events do not depend on one another. One
  packet; with two (`Skbs = {k1, k2}`, `SYMMETRY MCPackets`) the same properties hold in
  6.7 million states, too many for a run of every day.
* Registers: two programs side by side (`RunMax`) show every lost update of two writers.
  The programs left out (`MCAll` has them) write one register as one of the ten does.
* Control: `ProbeMax` is 1 and `RareMax` 2, so that a removal or a failed probe is followed
  or crossed by a switch, a reset or a device event, and two of those by one another.
* Table: one entry and one flow: settings race on one entry. One counted packet shows
  a packet lost or counted twice. That readers of one entry do nothing to the count of
  another needs two entries, which are too many for TLC; the theorem `NoCountLost` shows it.

### Fairness

* `FullconePortSearch`: the loop goes on.
* `FullconeNotifier`: a callback that was entered ends, the workqueue runs what is
  queued, an exit that began goes on. No fairness for rules, events or loading.
* `MtkReconnect`: the daemon's loop does not block for good (its commands return,
  its sleeps end) and procd runs a pending trigger. Nothing about links: they
  may flap for ever; `RetriedForever` speaks of those that stay down.

* `HnatBind` (`FairSpec`): hooks do not sleep, the workqueue runs queued work, the
  kernel calls its notifiers, a warm init goes on, and the worker gets `entry_lock` although hooks take it
  again and again, since it is a queued spinlock (strong fairness of
  `WorkerDelete`). Nothing about hardware, events or new packets.

* `HnatControl` (`FairSpec`): the workqueue starts the queued roaming work, and
  `kernel_recvmsg` returns what has come.
* `HnatMcast` (`FairSpec`, in `MCHnatMcast_Live`): the work runs and goes on; it gets
  `mcast_lock` although others take it again and again (strong fairness), and nobody sleeps
  with the lock held.

The NAT has no liveness property: packets and timeouts are free to stop.

## What is proved

`FullconeNat_proofs`, for the function `FindAppropriatePort` and from `PortsAssumption`:

* `AppropriatePortIsVacant`: the port returned is a port that was looked up, and is
  either free or the one whose mapping is overridden.

The same module, from `PortsAssumption` and `NatAssumption`, for any sets of
objects, nodes, CPUs, endpoints, addresses and ranges:

* `TypeCorrect`: `Spec => []TypeOK`.
* `ExternalUnique`, `InternalUnique`: `Spec => []ExtUnique`, `Spec => []IntUnique`.
* `ReferCountCorrect`: `Spec => []ReferCountIsLength`.

The inductive invariant is `TypeOK` with `ExtUnique`, `IntUnique`,
`ReferCountIsLength` and the finiteness of every tuple list. `ExtUnique` alone is
not inductive: that a port found free is free needs that no mapping at that
address survived, which the lookup guarantees only for mappings whose count is
right and whose dead tuples are known. The argument has three parts. *Pruning*: what
lookups, the collector and the override do to the table is to keep a subset of
the objects, with the same endpoints and with counts that agree with their
lists; pruning preserves the invariant whatever it removes. *Adding*: a new
mapping preserves it when the pruned table has none at the same external
endpoint and none of the same source at that address. *The hook*: the first holds
by `AppropriatePortIsVacant` (a probed port either has a match, or all that was
there is checked and none of that address is left), the second because
post-routing allocates only when the check has removed the source's mapping.

Two more theorems of `FullconeNat_proofs` are about packets that come one by one into a
table with room for them:

* `FlowsKeepMapping`: `Spec /\ []Roomy => []LiveFlowsKeepMapping`.
* `FullConeImplemented`: `Spec /\ []Roomy => ImplementsFullCone`. Every hook, confirmation,
  destroy event, timeout and collection is a step of `FullCone` or a stutter.

They assume `Topology` (no internal endpoint is also a remote or at an external address),
`OneByOne` (one CPU, no tuple reused before it is collected, no failing allocation) and
`Roomy`: whenever a packet is in its hook, the mapping it will use has a node left, or
there is an object, a node and a port that need not be overridden. Each is needed: with
two CPUs, with `QuickReuse`, with a failed allocation or with an override a live flow loses
its mapping, as the configurations above and the hazards tell. The run `nat_full_cone`
satisfies all of them. `ConeInv` adds to the inductive invariant that every live
conntrack is served (`Served`: a mapping has its internal and external endpoint and lists
its tuple), that live conntracks have distinct tuples (`Distinct`), and what the packet on
its way looks like (`PacketShape`). Pruning takes no tuple that conntrack finds
(`KeepsLive`), and a flow's tuple is listed before it is confirmed; so its mapping
survives until conntrack has forgotten it.

The last part of `FullconeNat_proofs`, which extends `FullconeNotifier` too, is about the
expression module, from `NotifierAssumption`, for any expressions, conntracks and collectors:

* `NotifierTypes`: `NotifierSpec => []NotifierTypeOK`.
* `NotifierKept`: `NotifierSpec => NotifierWhileUsed`: an expression in use has a notifier if
  and only if the registration for the first of them succeeded, and no expression that
  comes or goes changes that for the others.
* `UnloadedClean`: `NotifierSpec => []NothingLeftUnloaded`.

They assume `Serviceable`: one net, a chain of notifiers or no other module, and
`nf_ct_netns_get` that does not fail. The code needs all three. Its count and its flag belong
to the module and the notifier to a net; an occupied slot counts as registered; and
an expression that failed after it was counted is never discounted. `UnloadedClean`
assumes the chain. `UseInv` says that the count is the number of live
expressions and that the flag and every net's notifier agree with it; `QuietInv` that
callbacks run only while registered and work only with a workqueue, and follows exit step
by step. The run `notifier` has one net, a chain and no failing `nf_ct_netns_get`.

`MtkReconnect_proofs`, from `ReconnectAssumption` and `CooldownAssumption`, for any
profiles, configurations and numbers:

* `ReconnectTypes`: `Spec => []TypeOK`.
* `CooldownKept`: `Spec => NoEarlyRetry`.
* `FailuresKept`: `Spec => FailuresForgottenWhenStable`.

`CooldownAssumption` says that the shifted cooldown is a natural number; it is arithmetic,
of which the provers know too little. `Distinct` is assumed: no configuration lists a
profile with an ssid twice, since the code recognises a station by interface and ssid and
takes the first it finds. `WaitInv` says the same of the list, and that the cooldown of a
profile's last attempt (`quiet`) is never longer than its `wait`. That holds across a reload
because the saved list (`Selected`) has every slot with an ssid and restoring finds
each by its profile; `AnyStep` shows of every action that it keeps the invariant
and forgets no failure early (`Kept`).

`HnatBind_proofs`, for the queue and from `NeighAssumption`, for any limit, budget and neighbours:

* `TypeCorrect`, `CounterCorrect`, `UpdatesNotStranded`: `NeighSpec` implies `[]` of
  `NeighTypeOK`, `PendingCountIsLength` and `NoUpdateStranded`.

The inductive invariant adds `QuietAfterCleanup`: from the emptied list to the next
registration of the notifier the queue stays empty. Without it a synchronous
cancellation, which refuses the work's own rescheduling, could strand updates.
The counter is a `u32`; that its sums do not wrap follows from the limit.

The same module, from `NeighAssumption` and `BindAssumption`, for any table, hash,
flows and packets:

* `BindingImplementsQueue`: `Spec => NeighSpec`. Every step of `HnatBind` is one of
  `HnatNeigh` or leaves its variables alone; so `QueueCorrect` carries the queue's
  invariants over.
* `BindTypeCorrect`: `Spec => []TypeOK`, which includes that the holder of
  `entry_lock` is the one packet between the halves of a commit.
* `BoundKept`: no step writes an entry that is bound. The
  invariant behind it, `NotBoundYet`, says that the entry of a packet that commits
  is not bound: the test under the lock established it, and only the holder of the
  lock binds. It assumes `OneWriter`: no crypto flows, whose packets test before the lock,
  or one packet at a time.
* `PreparedEntriesUnique`: `foe_flow` never holds two entries for one slot and tuple.
* `BoundComplete`: `Spec => []CompleteWhenBound`, without crypto flows and without warm init,
  which clears entries without `entry_lock`. `CompleteInv` adds that the entry under a commit
  is not bound: the commit writes the body before the state, and what deletes an
  entry between the two halves leaves it unbound until a commit of its own.
* `WrongAlwaysPending`: `Spec => []WrongAddressPending`, under `OneWriter` and where every flow's
  destination is its next hop, since updates are compared with destinations (through a
  gateway the property is false). `WrongInv` adds what a commit has written so far
  (`DataWritten`) and where the worker's walk can be (`WorkerPlace`). An entry that has
  become wrong is covered by a change not yet told, by an update in the queue, or by one in
  the worker's batch whose walk has not passed it; each step hands the cover on.

`HnatPath_proofs`, from `PathAssumption` and `NumbersFit`, for any devices, flows and
packets:

* `ReturnsSafe`: `Spec => []ReturnsToSource`.
* `DeliverySafe`: `Spec => []NotMisdelivered`.
* `TripsSafe`: `Spec => []TripsEnd`.
* `EligibleSafe`: `Spec => []OnlyEligibleBound`, if `FloodedByPorts`: what the bridge floods
  came by one of its ports, and ppd is one too. `mtketh-ppd` of the device tree names any
  device (`hnat.c:1672`); the runs take a port of the bridge. What is received on a ppd
  outside the bridge meets no hook that looks for the address.

A mark or an entry may hold a number long after its device went. The invariant says
that such a number still *names* one device: it was given out before, and whoever has
it now is the device it was written for (`Names`). Indices are not given out twice, so
an unregistration leaves a number with nobody and a registration takes a new one
(`StillNames`, `DeviceStep`); and a packet on its way is at its own device or at ppd, so
the number an external device's packet is marked with is that of its source
(`ExtToGeGood`). `HookedGood` goes through the hooks once and for all: whatever a hook makes
of a packet is a packet that names the right devices. `NumbersFit` says that indices fit
the seven bits of `act_dp`; the code does not test it, and with an index of 128 or more
both the entry and `NotMisdelivered` are wrong.

For the other two, `PInv` adds to that invariant what holds of a packet at each hook
(`Way`). A packet at an external device has made no trip, or is marked as returned, or has
made one and lost its mark where at most one more hook can send it (`Trips`); the second
trip carries no number, so nothing is found to return it to (`ReturnWay`). A packet behind
a hook that would rule its flow out is marked (`Ruled`), and 464xlat keeps descriptors of
translated flows of supported types only (`Translated`). `Passed` is what a hook must
establish of a packet it accepts; `AcceptWay` shows that the next hook's condition follows
from it on every kind of board, and each hook has one lemma (`PongWay`, `LocalInWay`,
`PreRoutingWay`, `LocalOutWay`) and each action another.

`HnatControl_proofs`, from `ControlAssumption` and `DevsAssumption`, for any engines,
writers and devices:

* `BasicInvariant`: `Spec => []Basic`: an actor is idle or at a step its program has.
* `HooksOffUnbound`: `Spec => []NoBoundWhenOff`, races included.
* `BuildingRestored`: `Spec => []SmaRestored`.
* `TablesFirst`: `Spec => []InstalledHasTables`.
* `PointersAreHeld`: `Spec => []PointersHeld`.

Programs are sequences joined with `\o` and repeated for each engine. The module first
proves a listing of each, what is done at step k, as a disjunction with the engine's rows in
closed form; everything later is about a program and a number. For the first property
`SweptInv` says that with the hooks off a bound entry was bound late, by a packet already in
a hook, or some actor has still to sweep that engine; it is inductive for any number of
actors that switch at a time. The other two hold as long as nobody raced, as the
properties say; `OneInv` turns that into one switching actor, and `AdminInv` has what
only the administrator and the event actor change. `SmaInv` says that an engine which only
forwards, whether a write or a device that went down stopped it, waits for the writer about
to arm the timer, for the timer, or is the case `lost` remembers; `TimerInv` says between
which steps of probe and removal the timer is set up, `WifiInv` that
WiFi hooks which no failed probe left are set only while the tables are there. `LifeInv` describes for
each step of the actor that switches what is registered, how often, and which tables are
there (`Phase`), and the same when none does (`Quiescent`); probe, removal and each
error path hand over from one to the other.

`PointersHeld` needs `HeldInv`, which counts for each device the references that nothing
points with: `Slack` is what the list of interfaces and the table of WiFi devices leave
over, `Spare` what the port device and the WAN device leave of that. As long as nobody
raced it is at least 0, and at least 1 for the device a write to `hnat_ppd_if` has looked
up; it is without the port device between the write's `dev_put` and its store, and without
both from the release at removal on, where the pointers dangle until `hnat_priv` goes.
`Removed` says why the release finds no write half done: debugfs is gone by then, and the
notifier. The WiFi hooks, devices that go up or down, leave `Slack` and the two pointers as
they were (`Even`); every other handler leaves `Spare` as it was or greater (`Better`):
devices that come and go, the lookups at the end of `hnat_hw_init`, and the loop that
deletes from the list it walks, which skips every other entry and thereby puts too little
and never too much (`SkippedIs`, `ReleasedIs`). Registering the notifier replays an event
for every device, a fold over a set: the fold theorems of the library take operators, so
the module proves by the well-founded order on finite sets that what each event preserves,
the fold does (`SubsetInduction`, `FoldStays`). `DevsAssumption` therefore says that
devices are finitely many and that no device is `None`.

`HnatTable_proofs`, from `TableAssumption`, for any CPUs, flows, entries and commands:

* `TagsKept`: `Spec => []TagMatches`.
* `UpdatesOwn`: `Spec => UpdateOnlyOwn`.
* `NoCountLost`: `Spec => []CountsConserved`.

The second needs the first's invariant. `EntryInv` says that an entry of the table in use
names its flow and a bound one is complete (the tag and the layers tell what the hardware
inserts); that what a job is about to write is complete when it is written; and that the
writer of an entry holds `entry_lock` (`JobInv`). `CopyInv` says of the changed copy that is
about to be written back that it still agrees with the bound entry but for the DSCP, unless
an entry written by hand overtook it: the engine ages entries under the lock, and a new
packet of the flow may learn, but nobody else binds.

`TagsKept` holds for any port of a flow, with one GMAC too, and for flows whose layers the
WiFi driver or the crypto engine counted anew; of these `Tells` claims less, since a VLAN
that does not count may be left in the entry. It says nothing of entries written by hand.

The third is, for each entry, a sum over CPUs. `LeastSet` picks the smallest subset of a
finite set for which something fails, which is induction over its subsets done by hand; with
it `SumExists` and `SumIs` show that the function a sum is defined by exists, and
`SumChanges` that a sum changes by what one of its terms changes. `CountInv` has three parts:
the job of a CPU that holds a count is at a step that does something with it (`Sound`, in
`CountTypes`); two CPUs that wait for the register made their entries `crossed` (`Alone`); and
every entry that is not crossed keeps its own account (`SlotInv`). Its account and what is
afoot never exceed what the hardware counted, nor will they once an addition under way has
stored its sum (`Bounded`); and unless the entry is `lossy` they are equal, with at most one
addition under way, which started from the account as it still is (`Exact`). It needs
finitely many CPUs.

`HnatMcast_proofs`, from `McastAssumption`, for any groups, devices, flows, packets, rows
and engines:

* `McastTypes`: `Spec => []TypeOK`.
* `ListedUnbound`: `Spec => []BlockedUnbound`.
* `MembersKept`: `Spec => []MembersFollow`.
* `EntriesAgree`: `Apart => (Spec => []EntryAgrees)`.
* `RowsNeverShared`: `Apart => (Spec => []RowsApart)`.

An update of a group's entry is first treated by itself, as a function of the record `u` that
it works on: each helper keeps other rows, the members and the flow of the entry (`Handed`),
and a whole update leaves an entry that sends to the ports it was given, or a group without
an entry (`UpdatedFacts`). The three callers then differ in what they store of it only
(`EventHwUpdate`, `IfDownUpdate`, `BindUpdate`). `BlockInv` adds to `BlockedUnbound` that
no packet of a listed group is behind the test. `MembersInv` adds to `MembersFollow` that
no prefix of the queue takes more members away than there are by then (`Paid`): a leave
that found no member would be ignored, and the sum be wrong afterwards; with the driver
disabled there is neither a group nor a message.

`AgreeInv` has six parts: a group's entry is that of one of its flows (`OwnSlots`), its row is
written (`RowsHeld`) and no other group's (`RowsApart`), the NPU's flag appears with MediaTek's
tag only (`TopsTagged`), what is bound agrees with its group (`BoundAgrees`), and so does
what a packet is about to commit, or belongs to nobody (`PreparedAgrees`). The last is what
`raced` is about: a group that changed meanwhile, or that had no running member when it was
asked, has no such claim. Most actions only take things away, and one lemma covers all of
them (`FadingAgrees`). `Apart` says that the flows of two groups never share an entry and
those of one group go through one engine. Without the first a group writes to an entry that
has become another's (`MCHnatMcast_Reused` shows it); without the second the row number,
which a group keeps once for all engines, is looked up in the table of one engine and used
in that of another (lines 216-268 of `hnat_mcast.c`). The code ensures neither: the first
depends on how addresses hash, the second on the devices that flows come in by.

`HnatPpe_proofs`, from `PpeAssumption`, for any CPUs, flows, programs and numbers of them:

* `PpeTypes`: `Spec => []TypeOK`.
* `StaleIsDropped`: `Spec => []StaleDropped`.
* `EngineIsKeptWorking`: `Spec => []EngineWorks`.
* `SettingsAreHeld`: `Spec => []SettingsHeld`.

A program is a table of rows (`Row`), one for each instruction. Lemmas read off the rows
where a program holds `cah_lock`, which registers it writes and what it writes there.
`Typed` adds to `TypeOK` that every program counter lies in its program and that what a CPU
has read or saved is a value of that register.

`StaleInv` is the strengthening of `StaleDropped`: beside a line that is out of date there is a
program with its invalidation still before it. Nothing but deletion makes a line stale, and
deletion is followed by the clearing of the cache in the same program.

`EngineWorks` and `SettingsHeld` speak of an engine at rest, and hold because every program puts
back what it found. That what it found was right is the invariant `GoodInv`: as long as
nothing `mixed`, what a CPU has saved or read is what belongs there (`SavedOK`, `ReadOK`), and
each of the fields the properties name either has its value or a program that took it away
is on its way to put it back (`ItemInv`). Two more invariants give the reason. `LockInv` says
that a program holds `cah_lock` between the two instructions that take and release it; `Apart`
that, while nothing `mixed`, a program that writes a register outside the lock is the only
one that writes it. Together they give every register one owner at a time (`OneOwner`), and a
program that does not own a register leaves it alone. The second engine's default CPU port
is where a setting and a register part by design, which `Wished` says. `Next` sets `mixed` exactly when two
such programs overlap, so the theorems say that this is the only way to lose a setting, as
the hazards tell of it.

### Only model-checked

* `LoopFindsFreePort`, for a space of five ports. What later modules need of the port,
  `AppropriatePortIsVacant`, is proved of the operator the loop is compared with.
* Liveness (`SearchTerminates`, `DyingHandled`, `RetriedForever`, `LastConfigLoaded`,
  `WrongAddressUnbound`, `RoamedUnbound`): the prover does no ENABLED.

## Not modelled, and why

* Ranges of addresses (`NF_NAT_RANGE_MAP_IPS` with different ends,
  `find_leastused_ip`, `get_mapping_by_int_src_inrange`): `nft_fullcone_set_regs`
  passes no address.
* Zones and several nets in one table. One zone is modelled; with several,
  `check_mapping` uses the zone of the packet at hand. Planned.
* Protocols other than UDP, which take the MASQUERADE path and leave the
  module's state alone.
* `nf_ct_netns_get` failing in `nft_fullcone_init`: modelled (`GetFails`), with the
  constant FALSE in the runs. The reference is counted, and nf_tables does not
  destroy the expression, so the notifier outlives its users.
* Two profiles of the same name, and several ssids on one interface
  (`MtkReconnect` lists each once).
* Signals by which procd stops the daemon: it is gone at once in the model.
* mtk_hnat binding and paths: MAP-E, the tags of hierarchical QoS, and the offload of
  tunnels (tops) and of IPsec by their own engines in `HnatPath`, where a tunnelled flow is
  what the router itself sends; flows served by WED and multicast flows are in `HnatBind`
  and `HnatMcast`. The second bridge hook of V1_2 boards.
* The header formats of IPv6, DS-Lite and 6rd entries: layout, of which the
  properties tell nothing apart.
* The device tree, boards without WiFi hooks (`HnatControl`), registers of the QDMA
  scheduler and rate limits, which one function each writes.
* `debugfs` and `procfs` as text; what their commands change is in the models.
* xHCI test hooks, WiFi utilities, autocore, automount, patches against other
  repositories, board files and build scripts: no state of their own at run time.

## Hazards that no property covers

Beside those that `PROJECT.json` lists, reading the code showed places where order
or boundaries matter and that the models leave out or pass by:

* `nf_nat_fullcone.c:935`: a range of all 65536 ports has the size 0, by which the random
  flags divide. The default range begins at 1024. What such a range does without those flags
  is in `LoopFindsFreePort`.
* `nf_nat_fullcone.c:740`: `check_mapping` looks up tuples in the zone of the packet at hand,
  while mappings of all zones share the table.
* `nft_ext_fullcone.c:150` and `:169`: the reference is counted although `nf_ct_netns_get`
  failed; only the first net gets a notifier, and the last one loses it.
* `mtkreconnect.init:13`: a disabled station is not counted and yet connected.
* `hnat.c:1552`: warm init clears the table without `entry_lock`; `hnat_nf_hook.c:3953`:
  464xlat writes an entry, state included, without it (`XlatPost` of `HnatPath` has the step,
  not the interleaving with half a commit).
* `hnat.c:1801`: the netevent notifier is registered before `hnat_neigh_update_init` ran.
  `HnatNeigh` begins after both.
* `hnat.c:669`: `cancel_delayed_work` of the flow teardown work, which queues itself.
* `g_ppdev` is tested and then used without a lock or reference of the user's.
* A failed `vlan_insert_tag` frees the packet, which the hook then accepts.
* `do_hnat_ge_to_ext` counts a packet as stolen when no device has its number; nobody frees it.
* `hnat_mcast.c:827`: a row is lost when no entry can be had for it.
* `hnat_debugfs.c:3564`: the search for a place of a hand-written entry probes past its bucket.

## Plan

Done: NAT core with its collector and expression module, the reconnect daemon, and of
mtk_hnat the neighbour queue, the binding of entries, packet paths, multicast,
registers, driver life, and the table as the API sees it, with the proofs above. What
is left, in order:

1. An abstract specification of hardware forwarding, "what is bound agrees with the
   neighbour table or is about to be deleted", refined by `HnatBind`.
2. A second net and zones in the NAT models.
3. MAP-E and the engines for tunnels and crypto in `HnatPath`.
