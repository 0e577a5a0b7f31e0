-------------------------------- MODULE HnatPath --------------------------------
(***************************************************************************)
(* The ways of packets through the netfilter hooks of mtk_hnat.            *)
(*                                                                         *)
(* The engine sees packets of the MACs only.  A packet of an external      *)
(* device is sent out through the port device ppd, marked with the device  *)
(* it came from; the engine returns it, and it is received again on its    *)
(* device, now with what the engine knows of its flow.  Packets of a bound *)
(* flow that leave by an external device are sent up with the number of    *)
(* that device in the entry.  Devices come and go meanwhile.               *)
(*                                                                         *)
(* Each flow has an entry of its own; HnatBind is about collisions, and    *)
(* about devices that WED serves, whose packets take no such way.          *)
(***************************************************************************)
EXTENDS Integers, FiniteSets

CONSTANTS
  Flows, Skbs,
  From, To,    \* [Flows -> Devs]
  Kind,        \* [Flows -> {"bridged", "routed", "6rd", "tunnel4", "tunnel6", "xlat"}]
  Odd,         \* flows of types the engine does not support
  Missed,      \* bridged flows to an address the bridge has not learned
  Exts,        \* external devices, by name
  WifiDevs,    \* those of them whose driver uses the WiFi hooks
  Macs,        \* LAN and WAN devices of the MACs
  Ppd,         \* hnat_priv->ppd
  Ports,       \* ports of the bridge
  ActSpace,    \* numbers act_dp can hold: 2^7
  MarkSpace,   \* numbers a VLAN tag can hold: 2^12
  IfMax,       \* bound on interface indices
  None

Devs == Exts \cup Macs \cup {Ppd}

ASSUME PathAssumption ==
  /\ From \in [Flows -> Exts \cup Macs] /\ To \in [Flows -> Exts \cup Macs]
  /\ Kind \in [Flows -> {"bridged", "routed", "6rd", "tunnel4", "tunnel6", "xlat"}]
  /\ Odd \subseteq Flows /\ Missed \subseteq {f \in Flows : Kind[f] = "bridged"}
  /\ WifiDevs \subseteq Exts /\ Ports \subseteq Devs /\ Exts \cap (Macs \cup {Ppd}) = {}
  /\ {ActSpace, MarkSpace, IfMax} \subseteq Nat \ {0}
  /\ None \notin Flows \cup Devs /\ "br" \notin Devs
  /\ IsFiniteSet(Exts) /\ Cardinality(Exts) <= IfMax

(* Numbers of devices fit the fields that carry them; an entry's has seven  *)
(* bits, and the code does not look whether the number does.                *)
ASSUME NumbersFit == IfMax < ActSpace /\ IfMax < MarkSpace

VARIABLES
  whnat, brnf, \* data->whnat, and whether bridged packets pass the hooks of IP
  ifindex,     \* of a registered external device, 0 otherwise
  up,          \* IFF_UP
  ext,         \* external devices extif_set_dev holds
  count,       \* interface indices given out
  foe,         \* state and act_dp of a flow's entry
  headroom,    \* flows whose descriptor was kept for 464xlat
  skb,
  last         \* history: what was just sent or received again, and how

vars == <<whnat, brnf, ifindex, up, ext, count, foe, headroom, skb, last>>

devvars == <<whnat, brnf, ifindex, up, ext, count>>

Free ==
  [at |-> "free", flow |-> None, dev |-> None, iface |-> "none", cb |-> "none", tag |-> FALSE,
   mark |-> 0, reason |-> "none", sport |-> "none", alg |-> FALSE, trips |-> 0, act |-> 0]

(* The hook that sees a packet of a device first: the bridge's for its      *)
(* ports.                                                                   *)
First(d) == IF d \in Ports THEN "br_pre" ELSE "ip_pre"

(* state->in: IP sees packets of the ports as the bridge's.                 *)
In(s) == IF s.at = "ip_pre" /\ s.dev \in Ports THEN "br" ELSE s.dev

Routed(s) == Kind[s.flow] # "bridged"
-------------------------------------------------------------------------------
(***************************************************************************)
(* Looking at packets and devices.                                         *)
(***************************************************************************)
is_magic_tag_valid(s) == s.tag

is_ppe_support_type(s) == s.tag /\ s.flow \notin Odd

(* An entry other than 0x7fff: the engine has seen the packet.              *)
skb_hnat_is_hashed(s) == s.tag /\ s.reason # "none"

skb_hnat_reason_ready_bind(s) == s.reason = "rate"

(* IS_EXT: get_index_from_dev finds the device.                             *)
IsExt(d) == d \in ext

(* Seeded fault: any device that is there will do.                          *)
AnyDevice(i) ==
  LET D == {d \in ext : ifindex[d] # 0 /\ i # 0} IN IF D = {} THEN None ELSE CHOOSE d \in D : TRUE

get_dev_from_index(i) ==
  LET D == {d \in ext : ifindex[d] = i} IN IF D = {} THEN None ELSE CHOOSE d \in D : TRUE

(* The bridge itself leaves it as it is; hnat_set_iif.                      *)
hnat_set_iif(s) ==
  IF In(s) \in Macs THEN [s EXCEPT !.iface = "ge"]
  ELSE IF In(s) = Ppd THEN [s EXCEPT !.iface = "ppd"]
  ELSE IF IsExt(In(s)) THEN [s EXCEPT !.iface = "ext"]
  ELSE IF In(s) = "br" THEN s
  ELSE [s EXCEPT !.iface = "none", !.tag = FALSE, !.reason = "none", !.alg = FALSE]

do_ext2ge_fast_try(s) == s.iface = "ext" /\ s.cb # "from_extge"

do_ge2ext_fast(s) == In(s) \in Macs \cup {Ppd} /\ skb_hnat_is_hashed(s) /\ s.reason = "force"

do_ext2ge_fast_learn(s) == In(s) = Ppd /\ s.sport = "cpu" /\ get_dev_from_index(s.mark) # None

(* hnat_bridge_flood_check: negative.                                       *)
Floods(s) ==
  s.dev \in Ports /\ ~s.alg /\ skb_hnat_reason_ready_bind(s) /\ s.flow \in Missed

(* Seeded fault: addresses the bridge does not know are bound.              *)
NeverFloods(s) == FALSE /\ Floods(s)

hnat_bridge_flood_check(s) == Floods(s)
-------------------------------------------------------------------------------
(***************************************************************************)
(* What the hooks do: a result is the packet, and the way it went.         *)
(***************************************************************************)
Done(s, how, d) == [skb |-> s, how |-> how, dev |-> d]

Drop(s) == Done(Free, "drop", None)

(* After pre-routing: what the router tunnels it sends as its own.          *)
Leaving(s) == IF Kind[s.flow] \in {"6rd", "tunnel4", "tunnel6"} THEN "local_out" ELSE "post"

(* The next hook of a packet that was accepted (mtk_hnat_nf_ops, and        *)
(* whnat_adjust_nf_hooks).  Without whnat, bridged packets that do not pass *)
(* the hooks of IP meet no other hook; with it the hook of local input sits *)
(* before the bridge, and that of local output behind it.  With brnf, IP's  *)
(* pre-routing hooks are called by the bridge.                              *)
Onward(s) ==
  CASE s.at = "br_pre" ->
         IF brnf \/ (whnat /\ Routed(s)) THEN "ip_pre"
         ELSE IF Routed(s) THEN "br_in"
         ELSE IF whnat THEN "post" ELSE "out"
    [] s.at = "br_in" -> IF brnf THEN Leaving(s) ELSE "ip_pre"
    [] s.at = "ip_pre" -> IF brnf /\ ~whnat /\ Routed(s) /\ s.dev \in Ports THEN "br_in" ELSE Leaving(s)
    [] s.at = "local_out" -> "post"

Accept(s) ==
  IF Onward(s) = "out" THEN Done(Free, "stack", To[s.flow])
  ELSE Done([s EXCEPT !.at = Onward(s)], "accept", None)

(* do_hnat_ext_to_ge: the mark says where the packet comes from.            *)
ExtToGe(s, in) ==
  IF up[Ppd]
  THEN Done([s EXCEPT !.at = "ppe", !.dev = Ppd, !.cb = "to_ppe", !.trips = @ + 1,
                      !.mark = IF in = "br" THEN 0 ELSE ifindex[in] % MarkSpace], "ppe", Ppd)
  ELSE Accept(s)

(* Seeded fault: nothing tells the packet from one of the device's own.     *)
ReceivedUnmarked(s, d) == [s EXCEPT !.at = First(d), !.dev = d, !.mark = 0]

Received(s, d) == [s EXCEPT !.at = First(d), !.dev = d, !.mark = 0, !.cb = "from_extge"]

(* do_hnat_ext_to_ge2: received again on the device the mark names.         *)
do_hnat_ext_to_ge2(s) ==
  LET d == get_dev_from_index(s.mark) IN
  IF ~skb_hnat_is_hashed(s) THEN Drop(s) ELSE Done(Received(s, d), "return", d)

(* do_hnat_ge_to_ext: by the number in the entry, whatever its state.  If   *)
(* no device has it the packet counts as handed on, and nobody has it.      *)
do_hnat_ge_to_ext(s) ==
  LET d == get_dev_from_index(foe[s.flow].act) IN
  IF d = None THEN Done(Free, "lost", None) ELSE Done(Free, "fast", d)

(* mtk_pong_hqos_handler, before the bridge.                                *)
Pong(s0) ==
  LET s == IF s0.iface = "ext" THEN [s0 EXCEPT !.cb = "none"] ELSE s0 IN
  IF ~is_magic_tag_valid(s0) THEN Accept(s0)
  ELSE IF do_ext2ge_fast_learn(s) THEN do_hnat_ext_to_ge2(s)
  ELSE IF do_ge2ext_fast(s) THEN do_hnat_ge_to_ext(s)
  ELSE Accept(s)

(* The second half of mtk_hnat_br_nf_local_in, for boards with whnat.       *)
LocalInWhnat(s0) ==
  LET s == IF s0.iface = "ext" THEN [s0 EXCEPT !.cb = "none"] ELSE s0 IN
  IF do_ext2ge_fast_learn(s) THEN do_hnat_ext_to_ge2(s)
  ELSE IF do_ge2ext_fast(s) THEN do_hnat_ge_to_ext(s)
  ELSE Accept(s)

mtk_hnat_br_nf_local_in(s0) ==
  LET s == hnat_set_iif(s0) IN
  IF ~is_magic_tag_valid(s0) THEN Accept(s0)
  ELSE IF ~is_ppe_support_type(s0) THEN Accept([s0 EXCEPT !.alg = TRUE])
  ELSE IF hnat_bridge_flood_check(s) THEN Accept([s EXCEPT !.alg = TRUE])
  ELSE IF do_ext2ge_fast_try(s) THEN ExtToGe(s, In(s))
  ELSE IF whnat THEN LocalInWhnat(s)
  ELSE Accept(s)

(* mtk_hnat_ipv4_nf_pre_routing, mtk_hnat_ipv6_nf_pre_routing.  A packet    *)
(* that the router translates passes it once more, on the translator's      *)
(* device, where hnat_set_iif clears its descriptor.                        *)
PreRouting(s0) ==
  LET s == hnat_set_iif(s0) IN
  IF ~is_magic_tag_valid(s0) THEN Accept(s0)
  ELSE IF ~is_ppe_support_type(s0) THEN Accept([s0 EXCEPT !.alg = TRUE])
  ELSE IF do_ext2ge_fast_try(s) THEN ExtToGe(s, In(s))
  ELSE IF do_ge2ext_fast(s) THEN do_hnat_ge_to_ext(s)
  ELSE Accept(IF Kind[s.flow] = "xlat" THEN [s EXCEPT !.tag = FALSE, !.reason = "none"] ELSE s)

(* mtk_hnat_ipv4_nf_local_out: "Make the flow from local not be bound",     *)
(* with the exception of 6rd; mtk_hnat_ipv6_nf_local_out changes the type   *)
(* of an entry only.                                                        *)
LocalOut(s) ==
  Accept(IF Kind[s.flow] \in {"6rd", "tunnel4"} /\ skb_hnat_is_hashed(s)
         THEN [s EXCEPT !.alg = Kind[s.flow] = "tunnel4"] ELSE s)

Hooked(s) ==
  CASE s.at = "br_pre" -> IF whnat THEN mtk_hnat_br_nf_local_in(s) ELSE Pong(s)
    [] s.at = "br_in" -> mtk_hnat_br_nf_local_in(s)
    [] s.at = "ip_pre" -> PreRouting(s)
    [] s.at = "local_out" -> LocalOut(s)
-------------------------------------------------------------------------------
(***************************************************************************)
(* Packets.                                                                *)
(***************************************************************************)
Init ==
  /\ whnat \in BOOLEAN /\ brnf \in BOOLEAN
  /\ ifindex \in [Exts -> 1 .. Cardinality(Exts)] /\ \A d, e \in Exts : ifindex[d] = ifindex[e] => d = e
  /\ up = [d \in Devs |-> TRUE] /\ ext = Exts
  /\ count = Cardinality(Exts)
  /\ foe = [f \in Flows |-> [state |-> "INVALID", act |-> 0]]
  /\ headroom = {}
  /\ skb = [k \in Skbs |-> Free]
  /\ last = [how |-> "none", flow |-> None, dev |-> None]

Nothing == [how |-> "none", flow |-> None, dev |-> None]

Tell(f, r) ==
  last' = IF r.how \in {"fast", "return", "lost"} THEN [how |-> r.how, flow |-> f, dev |-> r.dev]
          ELSE Nothing

(* What the engine answers to a packet: it learns a flow, forwards by a     *)
(* bound entry, with a copy of an old packet now and then, or sends up.     *)
Answers(e) ==
  CASE e.state = "INVALID" -> {"unhit"}
    [] e.state = "UNBIND" -> {"unbind", "rate"}
    [] e.state = "BIND" -> IF e.act = 0 THEN {"hw", "dup"} ELSE {"force"}

Learned(f) == [foe EXCEPT ![f].state = IF @ = "INVALID" THEN "UNBIND" ELSE @]

(* The engine hands a packet to the CPU as one of device d.  By a bound     *)
(* entry it also rewrote the VLAN tags, the mark with them.                 *)
FromEngine(k, s, d) ==
  /\ \E r \in Answers(foe[s.flow]) :
       skb' = [skb EXCEPT ![k] =
                 IF r = "hw" THEN Free
                 ELSE [s EXCEPT !.at = First(d), !.dev = d, !.iface = "none", !.cb = "none", !.tag = TRUE,
                                !.reason = r, !.alg = FALSE, !.mark = IF r = "force" THEN 0 ELSE @]]
  /\ foe' = Learned(s.flow)

(* A packet arrives.  A driver of an external device may have tagged it or  *)
(* not; it is not hashed then.                                              *)
Arrive(k, f) ==
  /\ skb[k] = Free /\ up[From[f]]
  /\ IF From[f] \in Macs
     THEN FromEngine(k, [Free EXCEPT !.flow = f, !.sport = "mac"], From[f])
     ELSE \E t \in BOOLEAN :
            /\ skb' = [skb EXCEPT ![k] = [Free EXCEPT !.at = First(From[f]), !.flow = f, !.dev = From[f], !.tag = t]]
            /\ UNCHANGED foe
  /\ last' = Nothing
  /\ UNCHANGED <<devvars, headroom>>

(* The engine is done with a packet sent through ppd.                       *)
Loop(k) ==
  /\ skb[k].at = "ppe"
  /\ FromEngine(k, [skb[k] EXCEPT !.sport = "cpu"], Ppd)
  /\ last' = Nothing
  /\ UNCHANGED <<devvars, headroom>>

(* mtk_464xlat_pre_process, for packets that go on.                         *)
Kept(s) ==
  IF Kind[s.flow] # "xlat" \/ s.at # "ip_pre" THEN headroom
  ELSE IF foe[s.flow].state = "BIND" THEN headroom \ {s.flow}
  ELSE IF skb_hnat_reason_ready_bind(s) THEN headroom \cup {s.flow} ELSE headroom

Hook(k) ==
  /\ skb[k].at \in {"br_pre", "br_in", "ip_pre", "local_out"}
  /\ LET r == Hooked(skb[k]) IN
     /\ skb' = [skb EXCEPT ![k] = r.skb]
     /\ Tell(skb[k].flow, r)
     /\ headroom' = IF r.how = "accept" /\ is_ppe_support_type(skb[k]) THEN Kept(skb[k]) ELSE headroom
  /\ UNCHANGED <<devvars, foe>>

(* A descriptor that was ready is kept for the entry the packet's addresses *)
(* lead to after translation (mtk_464xlat_get_hash).                        *)
XlatReady(s) == Kind[s.flow] = "xlat" /\ s.flow \in headroom

(* What mtk_464xlat_fill_info1 and its like make of an empty entry: it is   *)
(* bound, and leads to a MAC.                                               *)
XlatEntry == [state |-> "BIND", act |-> 0]

(* mtk_464xlat_post_process: all of the entry is written, without a lock    *)
(* and without a look at what it is.  It may fail before, for want of a     *)
(* mapping or a neighbour; PostRouting is what happens then.                *)
XlatPost(k) ==
  LET f == skb[k].flow IN
  /\ skb[k].at = "post" /\ XlatReady(skb[k])
  /\ foe' = [foe EXCEPT ![f] = XlatEntry]
  /\ skb' = [skb EXCEPT ![k] = Free]
  /\ last' = Nothing
  /\ UNCHANGED <<devvars, headroom>>

(* mtk_hnat_nf_post_routing and skb_to_hnat_info.                           *)
Binds(s) ==
  /\ ~s.alg /\ skb_hnat_is_hashed(s) /\ skb_hnat_reason_ready_bind(s)
  /\ foe[s.flow].state # "BIND"
  /\ To[s.flow] \in Macs \/ (IsExt(To[s.flow]) /\ s.iface \in {"ge", "ppd"})

(* Seeded fault: the number of the device the packet came in by.            *)
ActOfIn(s) == IF From[s.flow] \in Macs THEN 0 ELSE ifindex[From[s.flow]] % ActSpace

(* act_dp of an entry that leads to a device of the CPU's.                  *)
ActOf(s) == IF To[s.flow] \in Macs THEN 0 ELSE ifindex[To[s.flow]] % ActSpace

(* The entry needs the address of the next hop, which a routed packet may   *)
(* lack; a bridged one has its own (hnat_ipv4_get_nexthop and _ipv6_).      *)
Prepared(s) ==
  {[s EXCEPT !.at = "commit", !.act = ActOf(s)]} \cup (IF Routed(s) THEN {Free} ELSE {})

(* The hooks of post-routing: the packet is to bind its flow, or it leaves, *)
(* or it is dropped as a copy of one the engine forwarded.                  *)
PostRouting(k) ==
  LET s == skb[k] IN
  /\ s.at = "post"
  /\ \E t \in IF Binds(s) THEN Prepared(s) ELSE {Free} : skb' = [skb EXCEPT ![k] = t]
  /\ last' = Nothing
  /\ UNCHANGED <<devvars, foe, headroom>>

(* hnat_foe_entry_commit                                                    *)
Commit(k) ==
  LET f == skb[k].flow IN
  /\ skb[k].at = "commit"
  /\ foe' = IF foe[f].state = "UNBIND" THEN [foe EXCEPT ![f] = [state |-> "BIND", act |-> skb[k].act]] ELSE foe
  /\ skb' = [skb EXCEPT ![k] = Free]
  /\ last' = Nothing
  /\ UNCHANGED <<devvars, headroom>>
-------------------------------------------------------------------------------
(***************************************************************************)
(* Devices, and the end of entries.                                        *)
(***************************************************************************)
Cleared == [f \in Flows |-> IF foe[f].state = "BIND" THEN [foe[f] EXCEPT !.state = "INVALID"] ELSE foe[f]]

(* NETDEV_GOING_DOWN: a WiFi device stays until its driver takes it back.   *)
GoingDown(d) ==
  /\ up[d]
  /\ up' = [up EXCEPT ![d] = FALSE]
  /\ ext' = IF d \in WifiDevs THEN ext ELSE ext \ {d}
  /\ foe' = IF d \in Exts \cup Macs THEN Cleared ELSE foe
  /\ last' = Nothing
  /\ UNCHANGED <<whnat, brnf, ifindex, count, headroom, skb>>

(* NETDEV_UP                                                                *)
Up(d) ==
  /\ ~up[d]
  /\ d \in Exts => ifindex[d] # 0
  /\ up' = [up EXCEPT ![d] = TRUE]
  /\ ext' = ext \cup ({d} \cap Exts)
  /\ last' = Nothing
  /\ UNCHANGED <<whnat, brnf, ifindex, count, foe, headroom, skb>>

(* An external device is unregistered: its driver took it back, packets     *)
(* that are in a hook leave it before, and those that wait are dropped.     *)
Unregister(d) ==
  /\ ~up[d] /\ ifindex[d] # 0
  /\ \A k \in Skbs : skb[k].at # "commit"
  /\ ifindex' = [ifindex EXCEPT ![d] = 0]
  /\ ext' = ext \ {d}
  /\ skb' = [k \in Skbs |-> IF skb[k].dev = d THEN Free ELSE skb[k]]
  /\ last' = Nothing
  /\ UNCHANGED <<whnat, brnf, up, count, foe, headroom>>

(* Indices are not given out twice.                                         *)
Register(d) ==
  /\ ifindex[d] = 0 /\ count < IfMax
  /\ ifindex' = [ifindex EXCEPT ![d] = count + 1]
  /\ count' = count + 1
  /\ last' = Nothing
  /\ UNCHANGED <<whnat, brnf, up, ext, foe, headroom, skb>>

(* NETDEV_CHANGE: a slave of a bond has lost its link; the entries of its   *)
(* port go (foe_clear_ethdev_bind_entries).                                 *)
LinkDown(d) ==
  /\ up[d]
  /\ \E f \in Flows : foe[f].state = "BIND" /\ To[f] = d
  /\ foe' = [f \in Flows |-> IF To[f] = d THEN Cleared[f] ELSE foe[f]]
  /\ last' = Nothing
  /\ UNCHANGED <<devvars, headroom, skb>>

(* An entry is deleted for an event, or ages.  act_dp stays.                *)
Remove(f) ==
  /\ foe[f].state # "INVALID"
  /\ foe' = [foe EXCEPT ![f].state = "INVALID"]
  /\ last' = Nothing
  /\ UNCHANGED <<devvars, headroom, skb>>
-------------------------------------------------------------------------------
Next ==
  \/ \E k \in Skbs : \/ \E f \in Flows : Arrive(k, f)
                     \/ Loop(k) \/ Hook(k) \/ XlatPost(k) \/ PostRouting(k) \/ Commit(k)
  \/ \E d \in Devs : GoingDown(d) \/ Up(d)
  \/ \E d \in Exts : Unregister(d) \/ Register(d)
  \/ \E d \in Macs : LinkDown(d)
  \/ \E f \in Flows : Remove(f)

Spec == Init /\ [][Next]_vars
-------------------------------------------------------------------------------
(* Fields hold what they can hold (struct hnat_desc, foe_entry).            *)
TypeOK ==
  /\ whnat \in BOOLEAN /\ brnf \in BOOLEAN
  /\ ifindex \in [Exts -> 0 .. IfMax] /\ up \in [Devs -> BOOLEAN] /\ ext \subseteq Exts
  /\ count \in 0 .. IfMax /\ headroom \subseteq Flows
  /\ foe \in [Flows -> [state : {"INVALID", "UNBIND", "BIND"}, act : 0 .. ActSpace - 1]]
  /\ \A k \in Skbs : skb[k].at = "free" <=> skb[k].flow = None

(* No packet of an external device goes round and round: it makes one trip  *)
(* through the engine.  On a board with whnat the bridge hook takes the     *)
(* mark of the first trip away (lines 1563-1565 of hnat_nf_hook.c), so that *)
(* a packet of a port makes a second one if IP's hooks see it then; that    *)
(* one tells the engine of no device, and ends the matter.                  *)
Twice(f) == whnat /\ From[f] \in Ports /\ (brnf \/ Kind[f] # "bridged")

TripsEnd ==
  \A k \in Skbs : skb[k].at # "free" => skb[k].trips <= IF Twice(skb[k].flow) THEN 2 ELSE 1

(* A packet that comes back from the engine is received again on the device *)
(* it came in by, whatever devices came and went while it was on its way    *)
(* (do_hnat_ext_to_ge2).                                                    *)
ReturnsToSource == last.how = "return" => last.dev = From[last.flow]

(* What the engine sends up for a bound flow leaves by the device the flow  *)
(* is routed to and by no other, though the number in the entry is older    *)
(* than the devices (do_hnat_ge_to_ext), as long as numbers fit the field.  *)
NotMisdelivered == last.how = "fast" => last.dev = To[last.flow]

(* No way through the hooks binds a flow one of them rules out: a type the  *)
(* engine does not support, what the router tunnels over IPv4 itself, and,  *)
(* with whnat, frames to an address the bridge would flood (lines 1451-1453 *)
(* and 4371 of hnat_nf_hook.c).  For 6rd the local output hook forgets what *)
(* the others found.                                                        *)
OnlyEligibleBound ==
  \A f \in Flows : foe[f].state = "BIND" =>
    /\ f \notin Odd \/ Kind[f] = "6rd"
    /\ Kind[f] # "tunnel4"
    /\ whnat => f \notin Missed
-------------------------------------------------------------------------------
(* What the code does not promise, or promises in vain.                     *)

(* "Don't bind unknown-unicast (FDB miss) flows to the PPE"                 *)
(* (hnat_nf_hook.c:1451), on boards without whnat too.                      *)
FloodedUnbound == \A f \in Missed : foe[f].state # "BIND"

(* "if external devices is down, invalidate related ppe entry"              *)
(* (hnat_nf_hook.c:905).                                                    *)
DownInvalidated == last.how = "lost" => foe[last.flow].state # "BIND"

(* One trip through the engine is enough.                                   *)
OneTrip == \A k \in Skbs : skb[k].trips <= 1
===============================================================================
