------------------------------- MODULE HnatMcast -------------------------------
(***************************************************************************)
(* Multicast groups of mtk_hnat (hnat_mcast.c).                            *)
(*                                                                         *)
(* The bridge announces who joins and leaves; a work keeps a list of       *)
(* groups with their members.  The hooks offer the entry of a multicast    *)
(* flow before they commit it, and from then on the group rewrites that    *)
(* entry when its members change: one port, or the row of a small table,   *)
(* MTBL, for several.  A network processor (NPU) may copy to switch ports. *)
(* All but the path switch of the WiFi driver runs under mcast_lock.       *)
(***************************************************************************)
EXTENDS Integers, Sequences, FiniteSets

CONSTANTS
  Ips,           \* group addresses
  MacOf,         \* hnat_mcast_get_mac_from_mdb
  Devs, PseOf,   \* devices and the engine's port that leads to them, None if no port does
  Lan,           \* IS_DSA_LAN: ports of the switch behind gdma1
  Flushing,      \* devices whose going down unbinds everything
  Joins,         \* memberships a bridge may have: [ip, dev, src]
  Flows, Group,  \* multicast flows, the group each is sent to
  SlotOf, PpeOf, \* the entry of a flow, the engine of an entry
  MaxEntry,      \* pmcast->max_entry
  Skbs, MtkDsa,  \* packets on their way; eth0 uses MediaTek's DSA tag
  QueueMax,      \* messages the netlink socket holds
  NpuFails,      \* whether the NPU may refuse a port
  Events,        \* which of the rarer events may happen,
  RareMax,       \* and how many of them
  None

Ports == {"gdma1", "gdma2", "gdma3", "tdma"}

Slots == {SlotOf[f] : f \in Flows}

Ppes == {PpeOf[s] : s \in Slots}

Rows == 1 .. MaxEntry

Row == [mac : {MacOf[i] : i \in Ips}, bmp : SUBSET Ports]

(* struct ppe_mcast_group; members may be listed more than once.            *)
GroupRecord ==
  [members : [Devs -> Nat], row : Rows \cup {None}, slot : Slots \cup {None},
   bmp : SUBSET Ports, offload : BOOLEAN]

ASSUME McastAssumption ==
  /\ PseOf \in [Devs -> Ports \cup {None}]
  /\ \A d \in Lan : d \in Devs /\ PseOf[d] = "gdma1"
  /\ Group \in [Flows -> Ips]
  /\ MaxEntry \in Nat /\ QueueMax \in Nat /\ RareMax \in Nat
  /\ \A j \in Joins : j.ip \in Ips /\ j.dev \in Devs
  /\ {MtkDsa, NpuFails} \subseteq BOOLEAN
  /\ None \notin Nat \cup Ports \cup Devs \cup Flows \cup Slots \cup Row \cup GroupRecord

VARIABLES
  mdb, nlq, lost,  \* the bridge's memberships, sk_receive_queue, history: one was missed
  work,            \* pmcast->work
  up, flushing,    \* devices that are running, the one whose entries are cleared next
  on,              \* hnat_priv->pmcast is there
  groups,          \* pmcast->groups
  mtbl,            \* the multicast table of each engine
  foe,             \* foe_table_cpu
  npu, clients,    \* hnat_mc_ops, and the ports the NPU copies a group to
  blist,           \* mcast_blist_list
  toggle,          \* mcast_hook_toggle
  switching,       \* hnat_mcast_offload_handle is under way
  skb,             \* packets in the hooks
  mcast_lock,      \* held by hnat_mcast_ifdown_handle: its device and the groups left
  walker,          \* the lock-free walk of a path switch
  ser,             \* progress of hnat_warm_init
  rare,            \* how many of the rarer events there were
  raced,           \* history: groups that changed while a packet of theirs was being
                   \* bound, had no running member or were not asked then, or took an
                   \* entry that another packet had bound
  slipped          \* history: groups black-listed when a packet of theirs had passed the test,
                   \* or was not tested since the offload was switched off

devices == <<up, flushing>>
bridge == <<mdb, nlq, lost, work, devices>>
hw == <<groups, mtbl, foe, clients>>
control == <<npu, blist, toggle, switching, ser, on>>

history == <<raced, slipped>>

vars == <<bridge, hw, control, skb, mcast_lock, walker, rare, history>>

Out == [mcast : BOOLEAN, dp : Ports \cup {None}, stag : SUBSET Lan, tops : BOOLEAN]

Blank == [mcast |-> FALSE, dp |-> None, stag |-> {}, tops |-> FALSE]

Entry == [state : {"INVALID", "UNBIND", "BIND"}, flow : Flows \cup {None}, out : Out]

Zero == [state |-> "INVALID", flow |-> None, out |-> Blank]

NewGroup ==
  [members |-> [d \in Devs |-> 0], row |-> None, slot |-> None, bmp |-> {}, offload |-> TRUE]

IdleSkb == [pc |-> "idle", flow |-> None, dev |-> None, e |-> Zero]

Init ==
  /\ mdb = {} /\ nlq = << >> /\ lost = FALSE /\ work = [pc |-> "idle", pending |-> FALSE]
  /\ up = Devs /\ flushing = None
  /\ groups = [i \in Ips |-> None]
  /\ mtbl = [p \in Ppes |-> [r \in Rows |-> None]]
  /\ foe = [s \in Slots |-> Zero]
  /\ npu \in IF "npu" \in Events THEN BOOLEAN ELSE {FALSE}
  /\ clients = [i \in Ips |-> {}]
  /\ blist = {} /\ toggle = TRUE /\ switching = FALSE /\ ser = "idle"
  /\ skb = [k \in Skbs |-> IdleSkb]
  /\ on = TRUE /\ mcast_lock = None /\ walker = None
  /\ rare = 0 /\ raced = {} /\ slipped = {}
-------------------------------------------------------------------------------
(***************************************************************************)
(* One update of a group's entry.  A record u carries what it works on:    *)
(* the group g, the entry e (of the table, or the one about to be          *)
(* committed), the rows of the engine's table, the NPU's clients, and      *)
(* whether the entry in the table gets deleted (which returns -1).         *)
(***************************************************************************)
Single(b) == Cardinality(b) = 1

Multi(b) == Cardinality(b) > 1

Members(g) == {d \in Devs : g.members[d] > 0}

(* hnat_mcast_get_pse_tx_bmp, its bitmap and its switch tag                 *)
Bmp(g) == {PseOf[d] : d \in Members(g) \cap up} \ {None}

Stag(g) == Members(g) \cap up \cap Lan

Work(i) ==
  LET g == groups[i] IN
  [g |-> g, e |-> foe[g.slot], rows |-> mtbl[PpeOf[g.slot]], mac |-> MacOf[i],
   cl |-> clients[i], deleted |-> FALSE]

OnePort(u, b) ==
  [u EXCEPT !.e.out.mcast = FALSE, !.e.out.dp = CHOOSE p \in b : TRUE, !.e.out.tops = FALSE]

Tag(u, stag) == [u EXCEPT !.e.out.stag = stag]

FreeRow(u) ==
  IF u.g.row = None THEN u
  ELSE [u EXCEPT !.rows[u.g.row] = None, !.g.row = None]

(* Seeded fault: the row after the last one when none is free.              *)
FirstFreeOver(rows) ==
  CHOOSE r \in 1 .. MaxEntry + 1 :
    /\ r \in Rows => rows[r] = None
    /\ \A q \in 1 .. r - 1 : rows[q] # None

FirstFree(rows) ==
  IF \A r \in Rows : rows[r] # None THEN None
  ELSE CHOOSE r \in Rows : rows[r] = None /\ \A q \in 1 .. r - 1 : rows[q] # None

(* Seeded fault: a row the group already has is not written again.          *)
TableOnce(u, b, toNpu) ==
  LET row == FirstFree(u.rows) IN
  CASE u.g.row # None -> u
    [] u.g.row = None /\ row = None -> [u EXCEPT !.e = Zero, !.g.slot = None]
    [] OTHER -> [u EXCEPT !.g.row = row, !.e.out.mcast = TRUE, !.e.out.dp = None, !.e.out.tops = toNpu,
                   !.rows[row] = [mac |-> u.mac,
                                  bmp |-> IF toNpu THEN (b \ {"gdma1"}) \cup {"tdma"} ELSE b]]

(* hnat_mcast_mtbl_setup and hnat_mcast_foe_mc_enable                       *)
Table(u, b, toNpu) ==
  LET row == IF u.g.row # None THEN u.g.row ELSE FirstFree(u.rows)
      bmp == IF toNpu THEN (b \ {"gdma1"}) \cup {"tdma"} ELSE b
  IN
  IF row = None THEN [u EXCEPT !.e = Zero, !.g.slot = None]
  ELSE [u EXCEPT !.g.row = row, !.rows[row] = [mac |-> u.mac, bmp |-> bmp],
                 !.e.out.mcast = TRUE, !.e.out.dp = None, !.e.out.tops = @ \/ toNpu]

Withdraw(u) ==
  [FreeRow(u) EXCEPT !.deleted = TRUE, !.g.bmp = {}, !.g.slot = None]

Done(u, b) == [u EXCEPT !.g.bmp = b]

(* Without an NPU the kernel serves groups that WiFi belongs to, and with   *)
(* MediaTek's tag all groups of several ports.                              *)
WithoutNpu(u, b, stag) ==
  IF Single(b) /\ b # {"tdma"} THEN Done(FreeRow(OnePort(Tag(u, stag), b)), b)
  ELSE IF MtkDsa \/ "tdma" \in b THEN Withdraw(u)
  ELSE Done(Table(u, b, FALSE), b)

(* hnat_mcast_npu_update: the switch ports to copy to are those inserted    *)
(* while gdma1 is one of several ports.                                     *)
Inserted(u, b, stag, type, dev) ==
  IF type = "new" /\ Multi(b) /\ "gdma1" \in b
     /\ ~("gdma1" \in u.g.bmp /\ Multi(u.g.bmp) /\ dev \notin Lan)
  THEN IF dev \in Lan THEN {dev} ELSE stag
  ELSE {}

Removed(u, b, stag, type, dev) ==
  IF type # "del" THEN {}
  ELSE IF Single(b)
       THEN IF ~("gdma1" \in u.g.bmp /\ Multi(u.g.bmp)) THEN {}
            ELSE IF dev \in Lan THEN {dev} ELSE stag
       ELSE IF dev \in Lan /\ "gdma1" \in b \cup u.g.bmp THEN {dev} ELSE {}

(* An insertion that fails turns the group's offload off; a client known    *)
(* before fails, too, unless it is dev itself.                              *)
NpuUpdate(u, b, stag, type, dev, bad) ==
  LET new == Inserted(u, b, stag, type, dev)
      failing == (new \cap bad) \cup (IF dev \in Lan THEN {} ELSE new \cap u.cl)
  IN [u EXCEPT !.cl = (@ \cup (new \ bad)) \ Removed(u, b, stag, type, dev),
               !.g.offload = @ /\ failing = {}]

PortOrTable(u, b, toNpu) ==
  IF Single(b) THEN FreeRow(OnePort(u, b)) ELSE Table(u, b, toNpu)

(* hnat_mcast_hw_update                                                     *)
Updated(u, b, stag, type, dev, bad) ==
  CASE ~npu -> WithoutNpu(u, b, stag)
    [] npu /\ MtkDsa ->
         Done(PortOrTable(NpuUpdate(Tag(u, stag), b, stag, type, dev, bad), b, TRUE), b)
    [] OTHER -> Done(PortOrTable(u, b, FALSE), b)

(* What an update of group i leaves behind.                                 *)
Store(i, s, u) ==
  /\ groups' = [groups EXCEPT ![i] = u.g]
  /\ mtbl' = [mtbl EXCEPT ![PpeOf[s]] = u.rows]
  /\ foe' = [foe EXCEPT ![s] = IF u.deleted THEN [@ EXCEPT !.state = "INVALID"] ELSE u.e]
  /\ clients' = [clients EXCEPT ![i] = u.cl]

(* Events that happen RareMax times at most.                                *)
Rare(event) == event \in Events /\ rare < RareMax /\ rare' = rare + 1

(* Packets of a group in one of the given states, and what a change of the  *)
(* group does to the history.                                               *)
Under(i, pcs) == \E k \in Skbs : skb[k].pc \in pcs /\ Group[skb[k].flow] = i

Race(i) == raced' = IF Under(i, {"commit"}) THEN raced \cup {i} ELSE raced \ {i}

Races(is, pcs) ==
  raced' = raced \cup {i \in is : Under(i, pcs)}

Bad == IF NpuFails THEN SUBSET Lan ELSE {{}}

(* Group g loses its entry: entry_delete and the invalid indices; its row   *)
(* stays.                                                                   *)
Detached(g) == IF g = None THEN None ELSE [g EXCEPT !.bmp = {}, !.slot = None]

Detach(is) ==
  /\ groups' = [i \in Ips |-> IF i \in is THEN Detached(groups[i]) ELSE groups[i]]
  /\ foe' = [s \in Slots |->
              IF \E i \in is : groups[i] # None /\ groups[i].slot = s
              THEN [foe[s] EXCEPT !.state = "INVALID"] ELSE foe[s]]
  /\ UNCHANGED mtbl
-------------------------------------------------------------------------------
(***************************************************************************)
(* The bridge and the work that follows it.                                *)
(***************************************************************************)
(* hnat_mcast_nlmsg_rcv.  A message that finds the socket full is lost, as  *)
(* are all while there is none.                                             *)
Announce(type, j) ==
  \/ /\ on /\ Len(nlq) < QueueMax
     /\ nlq' = Append(nlq, [type |-> type, ip |-> j.ip, dev |-> j.dev])
     /\ work' = [work EXCEPT !.pending = TRUE]
     /\ UNCHANGED <<lost, rare>>
  \/ /\ on /\ Len(nlq) = QueueMax /\ Rare("loss")
     /\ lost' = TRUE
     /\ UNCHANGED <<nlq, work>>
  \/ /\ ~on
     /\ lost' = TRUE
     /\ UNCHANGED <<nlq, work, rare>>

BridgeJoin(j) ==
  /\ j \notin mdb /\ j.dev \in up
  /\ mdb' = mdb \cup {j}
  /\ Announce("new", j)
  /\ UNCHANGED <<devices, hw, control, skb, mcast_lock, walker, history>>

BridgeLeave(j) ==
  /\ j \in mdb
  /\ mdb' = mdb \ {j}
  /\ Announce("del", j)
  /\ UNCHANGED <<devices, hw, control, skb, mcast_lock, walker, history>>

WorkStart ==
  /\ work.pending /\ work.pc = "idle"
  /\ work' = [pc |-> "run", pending |-> FALSE]
  /\ UNCHANGED <<mdb, nlq, lost, devices, hw, control, skb, mcast_lock, walker, rare, history>>

(* Seeded fault: a member is listed once however often it joined.           *)
WithMemberOnce(g, m) ==
  [g EXCEPT !.members[m.dev] = IF m.type = "new" THEN 1 ELSE 0]

(* hnat_mcast_group_add_station, hnat_mcast_group_del_station               *)
WithMember(g, m) ==
  [g EXCEPT !.members[m.dev] = IF m.type = "new" THEN @ + 1 ELSE IF @ > 0 THEN @ - 1 ELSE 0]

(* hnat_mcast_group_del                                                     *)
Kept(g) == IF Members(g) = {} THEN None ELSE g

(* hnat_mcast_event_hw_handle for a group that owns an entry.               *)
EventHw(i, g, m) ==
  LET b == Bmp(g)
      u == [Work(i) EXCEPT !.g = g]
      gone == [u EXCEPT !.deleted = TRUE, !.g = Detached(g)]
  IN
  \E bad \in Bad :
    LET v == IF b = {} THEN gone ELSE Updated(u, b, Stag(g), m.type, m.dev, bad) IN
    Store(i, g.slot, [v EXCEPT !.g = Kept(@)])

(* A walk of a path switch that stands at a group that is freed.            *)
Freed(is) ==
  walker' = IF walker # None /\ walker.ip \in is THEN [walker EXCEPT !.freed = TRUE] ELSE walker

(* hnat_mcast_group_update for the next message                             *)
HandleMdb ==
  LET m == Head(nlq)
      g == WithMember(IF groups[m.ip] = None THEN NewGroup ELSE groups[m.ip], m)
  IN
  /\ work.pc = "run" /\ nlq # << >> /\ mcast_lock = None
  /\ nlq' = Tail(nlq)
  /\ \/ /\ m.type = "new" /\ Rare("alloc")
        /\ lost' = TRUE
        /\ UNCHANGED <<hw, walker, raced>>
     \/ /\ IF toggle /\ g.slot # None
           THEN EventHw(m.ip, g, m) /\ Race(m.ip)
           ELSE /\ groups' = [groups EXCEPT ![m.ip] = Kept(g)]
                /\ UNCHANGED <<mtbl, foe, clients>>
                /\ Races({m.ip}, {"commit"})
        /\ Freed(IF Kept(g) = None THEN {m.ip} ELSE {})
        /\ UNCHANGED <<lost, rare>>
  /\ UNCHANGED <<mdb, work, devices, control, skb, mcast_lock, slipped>>

(* The queue was found empty; the work ends a moment later.                 *)
WorkDrained ==
  /\ work.pc = "run" /\ nlq = << >>
  /\ work' = [work EXCEPT !.pc = "end"]
  /\ UNCHANGED <<mdb, nlq, lost, devices, hw, control, skb, mcast_lock, walker, rare, history>>

WorkEnd ==
  /\ work.pc = "end"
  /\ work' = [work EXCEPT !.pc = "idle"]
  /\ UNCHANGED <<mdb, nlq, lost, devices, hw, control, skb, mcast_lock, walker, rare, history>>
-------------------------------------------------------------------------------
(***************************************************************************)
(* The hardware and the hooks.                                             *)
(***************************************************************************)
HwLearn(f) ==
  /\ foe[SlotOf[f]].state = "INVALID"
  /\ foe' = [foe EXCEPT ![SlotOf[f]] = [state |-> "UNBIND", flow |-> f, out |-> Blank]]
  /\ UNCHANGED <<bridge, groups, mtbl, clients, control, skb, mcast_lock, walker, rare, history>>

(* Ageing, by the hardware, or by hnat_mcast_check_timestamp for MT7629.    *)
HwAge(s) ==
  /\ foe[s].state # "INVALID"
  /\ \A k \in Skbs : skb[k].pc # "idle" => SlotOf[skb[k].flow] # s
  /\ foe' = [foe EXCEPT ![s].state = "INVALID"]
  /\ UNCHANGED <<bridge, groups, mtbl, clients, control, skb, mcast_lock, walker, rare, history>>

(* A packet of an unbound entry on its way out to a member, with the entry  *)
(* that skb_to_hnat_info has made for it.                                   *)
Receive(k, f, d) ==
  /\ skb[k].pc = "idle" /\ on /\ toggle
  /\ foe[SlotOf[f]].state = "UNBIND" /\ foe[SlotOf[f]].flow = f
  /\ d \in up /\ \E j \in mdb : j.ip = Group[f] /\ j.dev = d
  /\ skb' = [skb EXCEPT ![k] =
              [pc |-> "check", flow |-> f, dev |-> d,
               e |-> [state |-> "UNBIND", flow |-> f,
                      out |-> [Blank EXCEPT !.dp = PseOf[d], !.stag = {d} \cap Lan]]]]
  /\ UNCHANGED <<bridge, hw, control, mcast_lock, walker, rare, history>>

Finish(k) == skb' = [skb EXCEPT ![k] = IdleSkb]

(* hnat_mcast_chk_blist: no mask at all matches every address.              *)
Blocked(i) == \E b \in blist : ~b.masked \/ b.ip = i

ChkBlist(k) ==
  LET i == Group[skb[k].flow] IN
  /\ skb[k].pc = "check"
  /\ IF toggle /\ Blocked(i) THEN Finish(k) /\ UNCHANGED slipped
     ELSE /\ skb' = [skb EXCEPT ![k].pc = "bind"]
          /\ slipped' = IF [ip |-> i, masked |-> TRUE] \in blist THEN slipped \cup {i} ELSE slipped
  /\ UNCHANGED <<bridge, hw, control, mcast_lock, walker, rare, raced>>

(* hnat_mcast_no_npu_teardown                                               *)
LeftToKernel(g) == ~npu /\ g.slot = None /\ (Bmp(g) = {"tdma"} \/ Multi(Bmp(g)))

Refuses(g) == IF g = None THEN TRUE ELSE ~g.offload \/ LeftToKernel(g)

(* hnat_mcast_foe_bind_handle.  The group takes the entry before it is      *)
(* known whether the packet will be allowed to commit it.                   *)
BindHandle(k) ==
  LET i == Group[skb[k].flow]
      s == SlotOf[skb[k].flow]
      g == groups[i]
  IN
  /\ skb[k].pc = "bind" /\ mcast_lock = None
  /\ \/ /\ ~toggle
        /\ skb' = [skb EXCEPT ![k].pc = "commit"]
        /\ raced' = raced \cup {i}
        /\ UNCHANGED hw
     \/ /\ toggle /\ Refuses(g)
        /\ Finish(k)
        /\ UNCHANGED <<hw, raced>>
     \/ /\ toggle /\ ~Refuses(g)
        /\ \E bad \in Bad :
             LET taken == [g EXCEPT !.slot = s]
                 u == [g |-> taken, e |-> skb[k].e, rows |-> mtbl[PpeOf[s]],
                       mac |-> MacOf[i], cl |-> clients[i], deleted |-> FALSE]
                 v == IF Bmp(g) = {} THEN u
                      ELSE Updated(u, Bmp(g), Stag(g), "new", skb[k].dev, bad)
             IN
             /\ Store(i, s, [v EXCEPT !.e = foe[s]])
             /\ IF v.deleted \/ ~v.g.offload THEN Finish(k)
                ELSE skb' = [skb EXCEPT ![k].pc = "commit", ![k].e = v.e]
        /\ IF Bmp(g) = {} \/ foe[s].state = "BIND" THEN raced' = raced \cup {i}
           ELSE Races({i}, {"commit"})
  /\ UNCHANGED <<bridge, control, mcast_lock, walker, rare, slipped>>

(* hnat_foe_entry_commit after the final check, both under entry_lock       *)
Commit(k) ==
  LET s == SlotOf[skb[k].flow] IN
  /\ skb[k].pc = "commit"
  /\ foe' = IF foe[s].state = "UNBIND"
            THEN [foe EXCEPT ![s] = [skb[k].e EXCEPT !.state = "BIND"]] ELSE foe
  /\ Finish(k)
  /\ UNCHANGED <<bridge, groups, mtbl, clients, control, mcast_lock, walker, rare, history>>
-------------------------------------------------------------------------------
(***************************************************************************)
(* Interfaces that go down.  The device counts as running until its        *)
(* notifiers have been called.                                             *)
(***************************************************************************)
IfDownStart(d) ==
  /\ Rare("ifdown") /\ d \in up /\ mcast_lock = None /\ flushing = None
  /\ mcast_lock' = [dev |-> d,
       left |-> IF ~toggle THEN {}
                ELSE {i \in Ips : groups[i] # None /\ groups[i].members[d] > 0}]
  /\ UNCHANGED <<bridge, hw, control, skb, walker, history>>

(* A group that has no entry is left alone, as is one that has ports left   *)
(* but no running member: without an NPU an update for no port does nothing. *)
Leaves(g, d) ==
  \/ g.slot = None
  \/ ~npu /\ Bmp(g) = {} /\ ~(g.bmp \subseteq {PseOf[d]})

(* hnat_mcast_ifdown_handle, one group of the list                          *)
IfDownGroup(i) ==
  LET d == mcast_lock.dev
      g == groups[i]
  IN
  /\ mcast_lock # None /\ i \in mcast_lock.left
  /\ mcast_lock' = [mcast_lock EXCEPT !.left = @ \ {i}]
  /\ IF Leaves(g, d) THEN UNCHANGED <<hw, raced>>
     ELSE /\ \E bad \in Bad :
               Store(i, g.slot, IF g.bmp \subseteq {PseOf[d]} THEN Withdraw(Work(i))
                                ELSE Updated(Work(i), Bmp(g), Stag(g), "del", d, bad))
          /\ Race(i)
  /\ UNCHANGED <<bridge, control, skb, walker, rare, slipped>>

IfDownEnd ==
  /\ mcast_lock # None /\ mcast_lock.left = {}
  /\ mcast_lock' = None
  /\ flushing' = mcast_lock.dev
  /\ UNCHANGED <<mdb, nlq, lost, work, up, hw, control, skb, walker, rare, history>>

(* foe_clear_all_bind_entries, without the lock.                            *)
IfDownFlush ==
  /\ flushing # None
  /\ flushing' = None
  /\ up' = up \ {flushing}
  /\ foe' = IF flushing \in Flushing
            THEN [s \in Slots |-> IF foe[s].state = "BIND"
                                  THEN [foe[s] EXCEPT !.state = "INVALID"] ELSE foe[s]]
            ELSE foe
  /\ UNCHANGED <<mdb, nlq, lost, work, groups, mtbl, clients, control, skb, mcast_lock, walker, rare, history>>

(* The networking stack's lock lets one device change at a time.            *)
IfUp(d) ==
  /\ d \notin up /\ mcast_lock = None /\ flushing = None
  /\ up' = up \cup {d}
  /\ UNCHANGED <<mdb, nlq, lost, work, flushing, hw, control, skb, mcast_lock, walker, rare, history>>
-------------------------------------------------------------------------------
(***************************************************************************)
(* Events of other drivers and of the user.                                *)
(***************************************************************************)
(* hnat_mcast_group_path_switch and hnat_mcast_update_path_from_wifi find   *)
(* the group without mcast_lock, then write to it.                          *)
PathFind(i, hw_path) ==
  /\ Rare("path") /\ walker = None /\ on
  /\ groups[i] # None
  /\ walker' = [ip |-> i, hw_path |-> hw_path, freed |-> FALSE]
  /\ UNCHANGED <<bridge, hw, control, skb, mcast_lock, history>>

PathSwitch ==
  /\ walker # None
  /\ walker' = None
  /\ LET i == walker.ip
         g == [groups[i] EXCEPT !.offload = walker.hw_path]
     IN
     CASE walker.freed -> UNCHANGED <<hw, raced>>
       [] ~walker.freed /\ walker.hw_path ->
            /\ groups' = [groups EXCEPT ![i] = g]
            /\ UNCHANGED <<mtbl, foe, clients, raced>>
       [] OTHER ->
            /\ groups' = [groups EXCEPT ![i] = Detached(g)]
            /\ foe' = IF g.slot = None THEN foe
                      ELSE [foe EXCEPT ![g.slot].state = "INVALID"]
            /\ Races({i}, {"commit"})
            /\ UNCHANGED <<mtbl, clients>>
  /\ UNCHANGED <<bridge, control, skb, mcast_lock, rare, slipped>>

(* Seeded fault: the group keeps its entry.                                 *)
BlistAddOnly(i) ==
  /\ Rare("blist") /\ on /\ mcast_lock = None
  /\ blist' = blist \cup {[ip |-> i, masked |-> TRUE]}
  /\ UNCHANGED <<bridge, hw, npu, toggle, switching, ser, on, skb, mcast_lock, walker, history>>

(* hnat_mcast_blist_handle, for one address                                 *)
BlistAdd(i) ==
  /\ Rare("blist") /\ on /\ mcast_lock = None
  /\ [ip |-> i, masked |-> TRUE] \notin blist
  /\ blist' = blist \cup {[ip |-> i, masked |-> TRUE]}
  /\ Detach({i})
  /\ clients' = IF groups[i] = None \/ groups[i].slot = None THEN clients
                ELSE [clients EXCEPT ![i] = @ \ Stag(groups[i])]
  /\ Races({i}, {"commit"})
  /\ slipped' = IF Under(i, {"bind", "commit"}) THEN slipped \cup {i} ELSE slipped
  /\ UNCHANGED <<bridge, npu, toggle, switching, ser, on, skb, mcast_lock, walker>>

(* hnat_mcast_blist_write sets no mask, and unbinds nothing.                *)
BlistWrite(i) ==
  /\ Rare("debugfs") /\ on /\ mcast_lock = None
  /\ \A b \in blist : b.ip # i
  /\ blist' = blist \cup {[ip |-> i, masked |-> FALSE]}
  /\ UNCHANGED <<bridge, hw, npu, toggle, switching, ser, on, skb, mcast_lock, walker, history>>

BlistDel(b) ==
  /\ on /\ mcast_lock = None
  /\ blist' = blist \ {b}
  /\ UNCHANGED <<bridge, hw, npu, toggle, switching, ser, on, skb, mcast_lock, walker, rare, history>>

(* hnat_mcast_offload_handle: the toggle changes first, the lock is taken   *)
(* for the groups only.                                                     *)
Toggle(enable) ==
  /\ Rare("toggle") /\ on /\ ~switching
  /\ toggle # enable
  /\ toggle' = enable
  /\ switching' = TRUE
  /\ UNCHANGED <<bridge, hw, npu, blist, ser, on, skb, mcast_lock, walker, history>>

OffloadGroups ==
  LET owners == {i \in Ips : groups[i] # None /\ groups[i].slot # None} IN
  /\ switching /\ mcast_lock = None
  /\ switching' = FALSE
  /\ IF toggle THEN UNCHANGED <<hw, raced>>
     ELSE /\ Detach(owners)
          /\ clients' = [i \in Ips |-> IF i \in owners THEN clients[i] \ Stag(groups[i])
                                       ELSE clients[i]]
          /\ Races(Ips, {"commit"})
  /\ UNCHANGED <<bridge, npu, blist, toggle, ser, on, skb, mcast_lock, walker, rare, slipped>>

(* mtk_npu_hnat_mcast_ops_register, _unregister: the NPU driver comes and   *)
(* goes.                                                                    *)
NpuChange ==
  /\ Rare("npu")
  /\ npu' = ~npu
  /\ clients' = [i \in Ips |-> {}]
  /\ UNCHANGED <<bridge, groups, mtbl, foe, blist, toggle, switching, ser, on, skb, mcast_lock, walker, history>>

(* The engines were reset, their registers with them.  hnat_mcast_ser_handle*)
(* forgets what the groups own, hnat_warm_init then clears the entries.     *)
SerGroups ==
  /\ Rare("reset") /\ ser = "idle" /\ on /\ mcast_lock = None
  /\ ser' = "clear"
  /\ groups' = [i \in Ips |-> IF groups[i] = None THEN None
                              ELSE [Detached(groups[i]) EXCEPT !.row = None]]
  /\ mtbl' = [p \in Ppes |-> [r \in Rows |-> None]]
  /\ Races(Ips, {"commit"})
  /\ UNCHANGED <<bridge, foe, clients, npu, blist, toggle, switching, on, skb, mcast_lock, walker, slipped>>

SerClear ==
  /\ ser = "clear"
  /\ ser' = "idle"
  /\ foe' = [s \in Slots |-> Zero]
  /\ UNCHANGED <<bridge, groups, mtbl, clients, npu, blist, toggle, switching, on, skb, mcast_lock, walker, rare, history>>

(* hnat_mcast_disable, called when the hooks are gone: the work is flushed, *)
(* the lists are freed, and hnat_stop frees the tables of entries.          *)
Disable ==
  /\ Rare("module") /\ on /\ ser = "idle" /\ mcast_lock = None
  /\ \A k \in Skbs : skb[k].pc = "idle"
  /\ work = [pc |-> "idle", pending |-> FALSE]
  /\ on' = FALSE
  /\ groups' = [i \in Ips |-> None] /\ nlq' = << >> /\ blist' = {}
  /\ foe' = [s \in Slots |-> Zero]
  /\ lost' = (mdb # {})
  /\ Freed(Ips)
  /\ raced' = {}
  /\ UNCHANGED <<mdb, work, devices, mtbl, clients, npu, toggle, switching, ser, skb, mcast_lock, slipped>>

(* hnat_mcast_enable; memberships from before are never asked for.          *)
Enable ==
  /\ ~on
  /\ on' = TRUE
  /\ lost' = (mdb # {})
  /\ UNCHANGED <<mdb, nlq, work, devices, hw, npu, blist, toggle, switching, ser, skb, mcast_lock, walker, rare, history>>
-------------------------------------------------------------------------------
Next ==
  \/ \E j \in Joins : BridgeJoin(j) \/ BridgeLeave(j)
  \/ WorkStart \/ HandleMdb \/ WorkDrained \/ WorkEnd
  \/ \E f \in Flows : HwLearn(f)
  \/ \E s \in Slots : HwAge(s)
  \/ \E k \in Skbs : \/ \E f \in Flows, d \in Devs : Receive(k, f, d)
                     \/ ChkBlist(k) \/ BindHandle(k) \/ Commit(k)
  \/ \E d \in Devs : IfDownStart(d) \/ IfUp(d)
  \/ \E i \in Ips : IfDownGroup(i) \/ BlistAdd(i) \/ BlistWrite(i)
  \/ IfDownEnd \/ IfDownFlush
  \/ \E i \in Ips, hw_path \in BOOLEAN : PathFind(i, hw_path)
  \/ PathSwitch
  \/ \E b \in blist : BlistDel(b)
  \/ \E enable \in BOOLEAN : Toggle(enable)
  \/ OffloadGroups
  \/ NpuChange \/ SerGroups \/ SerClear \/ Disable \/ Enable

Spec == Init /\ [][Next]_vars

(* A workqueue runs what is queued, and nobody sleeps with mcast_lock held. *)
FairSpec ==
  /\ Spec
  /\ WF_vars(WorkStart) /\ WF_vars(WorkDrained) /\ WF_vars(WorkEnd)
  /\ SF_vars(HandleMdb)
  /\ \A i \in Ips : WF_vars(IfDownGroup(i))
  /\ WF_vars(IfDownEnd)
-------------------------------------------------------------------------------
Packet ==
  [pc : {"idle", "check", "bind", "commit"}, flow : Flows \cup {None},
   dev : Devs \cup {None}, e : Entry]

Message == [type : {"new", "del"}, ip : Ips, dev : Devs]

TypeOK ==
  /\ mdb \subseteq Joins /\ nlq \in Seq(Message) /\ lost \in BOOLEAN
  /\ work \in [pc : {"idle", "run", "end"}, pending : BOOLEAN]
  /\ up \subseteq Devs /\ flushing \in Devs \cup {None} /\ on \in BOOLEAN
  /\ groups \in [Ips -> GroupRecord \cup {None}]
  /\ mtbl \in [Ppes -> [Rows -> Row \cup {None}]]
  /\ foe \in [Slots -> Entry]
  /\ npu \in BOOLEAN /\ clients \in [Ips -> SUBSET Lan]
  /\ blist \subseteq [ip : Ips, masked : BOOLEAN] /\ toggle \in BOOLEAN /\ switching \in BOOLEAN
  /\ skb \in [Skbs -> Packet]
  /\ mcast_lock \in [dev : Devs, left : SUBSET Ips] \cup {None}
  /\ walker \in [ip : Ips, hw_path : BOOLEAN, freed : BOOLEAN] \cup {None}
  /\ ser \in {"idle", "clear"} /\ rare \in 0 .. RareMax /\ raced \subseteq Ips /\ slipped \subseteq Ips

(* As long as no message is missed, the members are those of the bridge     *)
(* once the queue is worked off (lines 1084-1093 of hnat_mcast.c).          *)
Count(type, i, d) ==
  Cardinality({n \in 1 .. Len(nlq) : nlq[n] = [type |-> type, ip |-> i, dev |-> d]})

MembersFollow ==
  ~lost => \A i \in Ips, d \in Devs :
    (IF groups[i] = None THEN 0 ELSE groups[i].members[d]) + Count("new", i, d)
      = Cardinality({j \in mdb : j.ip = i /\ j.dev = d}) + Count("del", i, d)

Owner(i) ==
  /\ groups[i] # None /\ groups[i].slot # None
  /\ foe[groups[i].slot].state = "BIND"
  /\ foe[groups[i].slot].flow # None /\ Group[foe[groups[i].slot].flow] = i

(* The hardware copies to the ports the group recorded, unless the group    *)
(* changed between the preparation of the entry and its commit (lines       *)
(* 660-672 and 771-781 of hnat_mcast.c).                                    *)
Forwards(i) ==
  LET g == groups[i]
      e == foe[g.slot]
  IN
  IF ~e.out.mcast THEN {e.out.dp} = g.bmp
  ELSE /\ g.row # None
       /\ mtbl[PpeOf[g.slot]][g.row] =
            [mac |-> MacOf[i],
             bmp |-> IF e.out.tops THEN (g.bmp \ {"gdma1"}) \cup {"tdma"} ELSE g.bmp]

EntryAgrees == \A i \in Ips : Owner(i) /\ i \notin raced => Forwards(i)

(* No two groups write to one row: each would undo what the other set up    *)
(* (lines 216-268 of hnat_mcast.c).                                         *)
RowsDistinct ==
  \A i, j \in Ips :
    i # j /\ groups[i] # None /\ groups[j] # None /\ groups[i].row # None
      => groups[i].row # groups[j].row

(* Every message is worked off: the work is queued again for one that comes *)
(* when the last run has found the queue empty (lines 1164-1171).           *)
MessagesHandled == nlq # << >> ~> nlq = << >>

(* "Delete group if no member in group" (line 1095): and none else.         *)
GroupsHaveMembers == \A i \in Ips : groups[i] # None => Members(groups[i]) # {}

(* "No members left: tear down everything" (line 969): an entry is torn     *)
(* down by an interface that goes down only if no other member runs.        *)
TornDownUnused ==
  [][\A i \in Ips :
       /\ mcast_lock # None /\ i \in mcast_lock.left
       /\ mcast_lock' # None /\ i \notin mcast_lock'.left
       /\ groups[i].slot # None /\ groups'[i].slot = None
       => Members(groups[i]) \cap up \subseteq {mcast_lock.dev}]_vars

(* mcast_lock shall "protect list" (line 69 of hnat_mcast.h): who found a   *)
(* group in the list does not write to it after it was freed.               *)
FoundGroupsLive == walker # None => ~walker.freed

(* A group that is on the black list is not bound, unless it got there      *)
(* while a packet was between the test and the commit, or a packet passed   *)
(* while the test was switched off.                                         *)
BlockedUnbound ==
  \A i \in Ips : i \notin slipped /\ Owner(i) => [ip |-> i, masked |-> TRUE] \notin blist

(* Only who is on the black list is refused: "add mcast ip" (line 3072 of   *)
(* hnat_debugfs.c).                                                         *)
OnlyListedBlocked == \A i \in Ips : Blocked(i) => \E b \in blist : b.ip = i

(* An entry that belongs to another flow is left alone.                     *)
OthersLeftAlone ==
  [][\A s \in Slots : foe[s].state = "BIND" /\ foe'[s].state = "BIND"
        /\ foe'[s].out # foe[s].out
       => \E i \in Ips : foe[s].flow # None /\ Group[foe[s].flow] = i
                         /\ groups'[i] # groups[i]]_vars

(* Rows in use belong to groups.                                            *)
RowsOwned ==
  \A p \in Ppes : \A r \in Rows : mtbl[p][r] # None =>
    \E i \in Ips : groups[i] # None /\ groups[i].row = r
===============================================================================
