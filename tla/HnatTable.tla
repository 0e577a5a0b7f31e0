------------------------------- MODULE HnatTable -------------------------------
(***************************************************************************)
(* Flow entries of one engine as other modules use them: the functions     *)
(* hnat_api.c exports, the counters of a flow, and entries written by hand. *)
(*                                                                         *)
(* CPUs run jobs on an entry: they bind it, change one of its settings,    *)
(* delete it, read its counter, or handle a packet the engine sent up.     *)
(* The engine learns, forwards, ages and sees FIN at any time; no lock     *)
(* stops it.  The counters are read through one register of the engine.    *)
(***************************************************************************)
EXTENDS Integers, FiniteSets, FiniteSetsExt, Functions

CONSTANTS
  CPUs,
  Flows,
  Kind,        \* [Flows -> {"hnapt", "group", "l2"}]: API supported, other IP, bridged
  Port,        \* [Flows -> Ports]: what a flow goes out by
  Tagged,      \* flows whose packets or paths carry a VLAN when an entry is prepared
  Retagged,    \* those that do when the WiFi driver or the crypto engine is done with them
  Hash,        \* [Flows -> Nat]: the mixed words of the tuple
  Entries,     \* foe_etry_num
  Ways,        \* entries of a bucket: 4 in the code
  Changes,     \* settings other modules ask for: [set |-> name, val |-> value]
  Typed,       \* information blocks an administrator types for an entry
  ForwardMax,  \* packets the engine counts at most
  None

(* One GMAC alone is "gmac1" for packets to an external device that came    *)
(* from LAN or WAN, and "gmac1ppd" for those that came from elsewhere.      *)
Ports == {"plain", "dsa", "8021q", "crypto", "wifi", "gmac1", "gmac1ppd"}

States == {"INVALID", "UNBIND", "BIND", "FIN"}

ASSUME TableAssumption ==
  /\ Ways \in Nat \ {0} /\ Entries \in Nat \ {0} /\ Entries % Ways = 0
  /\ ForwardMax \in Nat
  /\ Kind \in [Flows -> {"hnapt", "group", "l2"}]
  /\ Port \in [Flows -> Ports] /\ Tagged \subseteq Flows /\ Retagged \subseteq Flows
  /\ \A f \in Retagged : Port[f] = "crypto" => f \in Tagged
  /\ Typed \subseteq [state : States, layer : 0 .. 7, qos : Nat, tport : Nat, dscp : Nat]
  /\ Hash \in [Flows -> Nat]
  /\ IsFiniteSet(CPUs)
  /\ None \notin CPUs \cup Flows \cup {"static", "bind", "update", "read", "keepalive", "fin"}
  /\ \A c \in Changes : \/ c.set \in {"qos", "dscp", "pppoe", "prior", "tid"} /\ c.val \in Nat
                        \/ c.set = "vlan" /\ c.val \in Nat \X Nat

Slots == 0 .. Entries - 1

VARIABLES
  entry,       \* the FOE table
  entry_lock,
  mib,         \* packets the engine counted in an entry since it was read
  ser,         \* PPE_MIB_SER_R*: what the last read latched
  acct,        \* hnat_priv->acct: packets, and the ingress device of a flow
  nf_ct, vif,  \* packets credited to conntracks and to virtual devices, by flow
  forwarded,   \* history: packets the engine counted
  due,         \* history: packets counted in an entry, less those its account was reset with
  crossed,     \* history: entries whose reads shared the register, or whose reset was undone
  lossy,       \* history: entries with a read that timed out, or additions that overlapped
  past,        \* something was written behind the table
  cpu

counters == <<mib, ser, acct, nf_ct, vif, forwarded, due, crossed, lossy>>

vars == <<entry, entry_lock, mib, ser, acct, nf_ct, vif, forwarded, due, crossed, lossy,
          past, cpu>>

Settings == {"qos", "tport", "dscp", "pppoe", "prior", "tid"}

(* tag is sp_tag: ETH_P_8021Q, ETH_P_IP, a switch port's bit, or nothing,   *)
(* and whether bit 8 says that a VLAN follows.  hand is history: who wrote. *)
Tag(kind) == [kind |-> kind, vlan |-> FALSE]

Empty ==
  [state |-> "INVALID", flow |-> None, opt |-> [f \in Settings |-> 0],
   layer |-> 0, vlan1 |-> 0, vlan2 |-> 0, tag |-> Tag("ip"), hand |-> FALSE]

Rest == [job |-> None, pc |-> "rest", slot |-> 0, copy |-> Empty, change |-> None,
         val |-> 0, base |-> 0, saw |-> None]
-------------------------------------------------------------------------------
(***************************************************************************)
(* Building an entry, and changing it.                                     *)
(***************************************************************************)
Bool(b) == IF b THEN 1 ELSE 0

(* A VLAN of the packet or the path, and the tag that goes with it.        *)
ppe_fill_info_blk(e, f) ==
  IF f \in Tagged THEN [e EXCEPT !.layer = 1, !.vlan1 = 1, !.tag = Tag("8021q")] ELSE e

(* 802.1Q tagging names the switch port in the outer VLAN.                  *)
hnat_dsa_fill_stag(e, f) ==
  CASE Port[f] = "8021q" -> [e EXCEPT !.vlan2 = @ + e.vlan1, !.vlan1 = 2, !.tag = Tag("8021q"),
                                      !.layer = 1 + Bool(e.vlan1 # 0)]
    [] Port[f] = "dsa"   -> [e EXCEPT !.layer = IF @ = 0 THEN 1 ELSE @,
                                      !.tag = [kind |-> "port", vlan |-> e.layer # 0]]
    [] OTHER             -> e

(* With one GMAC a VLAN tells LAN from WAN, for packets that came from them. *)
FillGmac1(e, f) ==
  CASE Port[f] = "gmac1"    -> [e EXCEPT !.layer = 1, !.vlan1 = 1]
    [] Port[f] = "gmac1ppd" -> [e EXCEPT !.layer = 1]
    [] OTHER                -> e

hnat_fill_offload_engine_entry(e, f) ==
  IF Port[f] = "crypto" THEN [e EXCEPT !.opt.tport = 2] ELSE e

(* The WiFi driver's hook, and a packet back from the crypto engine, count  *)
(* the layers anew, and leave VLANs and tag if there are none.              *)
Relayer(e, f) ==
  LET again == Port[f] \in {"wifi", "crypto"} IN
  CASE again /\ f \in Retagged    -> [e EXCEPT !.layer = 1, !.vlan1 = 1, !.tag = Tag("8021q")]
    [] again /\ f \notin Retagged -> [e EXCEPT !.layer = 0]
    [] OTHER                     -> e

Built(f) ==
  LET filled == ppe_fill_info_blk([Empty EXCEPT !.flow = f], f)
      ported == FillGmac1(hnat_dsa_fill_stag(filled, f), f)
  IN  [Relayer(hnat_fill_offload_engine_entry(ported, f), f) EXCEPT !.state = "BIND"]

IsIp(e) == e.flow # None /\ Kind[e.flow] # "l2"

ApiSupported(e) == e.flow # None /\ Kind[e.flow] = "hnapt"

hnat_entry_set_hqos(e, v) == [e EXCEPT !.opt.tport = v, !.opt.qos = v]

hnat_entry_set_dscp(e, v) == [e EXCEPT !.opt.dscp = v]

hnat_entry_set_pppoe(e, v) == [e EXCEPT !.opt.pppoe = v]

hnat_entry_set_is_prior(e, v) == [e EXCEPT !.opt.prior = v]

hnat_entry_set_tid(e, v) == [e EXCEPT !.opt.tid = v]

(* Seeded fault: whether the entry has a port tag is decided with the new   *)
(* number of layers.                                                        *)
SetVlanLate(e, v) ==
  LET layer == Bool(v[1] # 0) + Bool(v[2] # 0)
      dsa   == layer # 0 /\ e.tag.kind # "8021q"
  IN  [e EXCEPT !.vlan1 = v[1], !.vlan2 = v[2],
                !.layer = IF dsa /\ layer = 0 THEN 1 ELSE layer,
                !.tag = CASE dsa -> [e.tag EXCEPT !.vlan = layer # 0]
                          [] ~dsa /\ layer # 0 -> Tag("8021q")
                          [] OTHER -> @]

hnat_entry_set_vlan(e, v) ==
  LET layer == Bool(v[1] # 0) + Bool(v[2] # 0)
      dsa   == e.layer # 0 /\ e.tag.kind # "8021q"
  IN  [e EXCEPT !.vlan1 = v[1], !.vlan2 = v[2],
                !.layer = IF dsa /\ layer = 0 THEN 1 ELSE layer,
                !.tag = CASE dsa -> [e.tag EXCEPT !.vlan = layer # 0]
                          [] ~dsa /\ layer # 0 -> Tag("8021q")
                          [] OTHER -> @]

Changed(e, c) ==
  CASE c.set = "qos"    -> hnat_entry_set_hqos(e, c.val)
    [] c.set = "dscp"   -> hnat_entry_set_dscp(e, c.val)
    [] c.set = "vlan"   -> hnat_entry_set_vlan(e, c.val)
    [] c.set = "pppoe"  -> hnat_entry_set_pppoe(e, c.val)
    [] c.set = "prior"  -> hnat_entry_set_is_prior(e, c.val)
    [] c.set = "tid"    -> hnat_entry_set_tid(e, c.val)

(* HNAT_ALREADY_SET                                                         *)
Already(e, c) ==
  IF c.set = "vlan"
  THEN e.layer = Bool(c.val[1] # 0) + Bool(c.val[2] # 0) /\ <<e.vlan1, e.vlan2>> = c.val
  ELSE e.opt[c.set] = c.val

(* hash <<= 2, within the table.                                            *)
hnat_get_ppe_hash(f) == (Ways * Hash[f]) % Entries

Bucket(f) == {hnat_get_ppe_hash(f) + i : i \in 0 .. Ways - 1}
-------------------------------------------------------------------------------
(***************************************************************************)
(* Jobs.                                                                   *)
(***************************************************************************)
Init ==
  /\ entry = [s \in Slots |-> Empty]
  /\ entry_lock = None
  /\ mib = [s \in Slots |-> 0]
  /\ ser = 0
  /\ acct = [s \in Slots |-> [packets |-> 0, iif |-> None]]
  /\ nf_ct = [f \in Flows |-> 0]
  /\ vif = [f \in Flows |-> 0]
  /\ forwarded = 0
  /\ due = [s \in Slots |-> 0]
  /\ crossed = {}
  /\ lossy = {}
  /\ past = FALSE
  /\ cpu = [t \in CPUs |-> Rest]

Goto(t, pc) == cpu' = [cpu EXCEPT ![t].pc = pc]

End(t) == cpu' = [cpu EXCEPT ![t] = Rest]

Begin(t, job, s, pc) ==
  /\ cpu[t].job = None
  /\ cpu' = [cpu EXCEPT ![t] = [Rest EXCEPT !.job = job, !.slot = s, !.pc = pc, !.copy.flow = entry[s].flow]]

At(t, pc) == cpu[t].pc = pc
-------------------------------------------------------------------------------
(* A packet whose flow is not bound yet; skb_to_hnat_info or the WiFi hook  *)
(* has prepared the entry.                                                  *)
BindStart(t) ==
  \E s \in Slots :
    /\ entry[s].state = "UNBIND"
    /\ Begin(t, "bind", s, "commit")
    /\ UNCHANGED <<entry, entry_lock, counters, past>>

(* Without the lock, or if the entry is not UNBIND any more, the packet     *)
(* goes on alone.                                                           *)
BindCommit(t) ==
  LET s == cpu[t].slot IN
  /\ At(t, "commit")
  /\ IF entry_lock = None /\ entry[s].state = "UNBIND"
     THEN entry' = [entry EXCEPT ![s] = Built(cpu[t].copy.flow)] /\ Goto(t, "bound")
     ELSE End(t) /\ UNCHANGED entry
  /\ UNCHANGED <<entry_lock, counters, past>>

(* hnat_trigger_callback: what is reported is what the entry holds by now,  *)
(* if it is bound; saw keeps it.                                            *)
Reported(s) == IF entry[s].state = "BIND" THEN entry[s].flow ELSE None

BindTell(t) ==
  /\ At(t, "bound")
  /\ cpu' = [cpu EXCEPT ![t].pc = "reset",
                        ![t].saw = IF ApiSupported(Built(cpu[t].copy.flow)) THEN Reported(cpu[t].slot) ELSE None]
  /\ UNCHANGED <<entry, entry_lock, counters, past>>

(* Whose addition to the account of s is under way.                         *)
Storing(s) == {u \in CPUs : At(u, "store") /\ cpu[u].slot = s}

(* memset of accounts.  An addition under way brings the old count back.    *)
Clear(S) ==
  /\ acct' = [s \in Slots |-> IF s \in S THEN [packets |-> 0, iif |-> None] ELSE acct[s]]
  /\ due' = [s \in Slots |-> IF s \in S THEN due[s] - acct[s].packets ELSE due[s]]
  /\ crossed' = crossed \cup {s \in S : Storing(s) # {}}
  /\ UNCHANGED <<mib, ser, nf_ct, vif, forwarded, lossy>>

AcctReset(t) ==
  /\ At(t, "reset")
  /\ Clear({cpu[t].slot})
  /\ End(t)
  /\ UNCHANGED <<entry, entry_lock, past>>
-------------------------------------------------------------------------------
(* hnat_update_entry_generic, by index or by the skb of a keep-alive packet *)
(* that names the entry it hit.                                             *)
Update(t) ==
  \E s \in Slots, c \in Changes :
    /\ cpu[t].job = None
    /\ cpu' = [cpu EXCEPT ![t] = [Rest EXCEPT !.job = "update", !.pc = "copy", !.slot = s, !.change = c]]
    /\ UNCHANGED <<entry, entry_lock, counters, past>>

(* An index computed from a tuple: the first of the bucket.  A bridged flow *)
(* has none.                                                                *)
UpdateByTuple(t) ==
  \E f \in Flows, c \in Changes :
    /\ Kind[f] = "hnapt" /\ cpu[t].job = None
    /\ cpu' = [cpu EXCEPT ![t] = [Rest EXCEPT !.job = "update", !.pc = "copy", !.change = c,
                                              !.slot = hnat_get_ppe_hash(f)]]
    /\ UNCHANGED <<entry, entry_lock, counters, past>>

(* Seeded fault: the entry is not locked.                                   *)
UpdateCopyFree(t) ==
  LET e == entry[cpu[t].slot] IN
  /\ At(t, "copy")
  /\ IF e.state # "BIND" \/ ~IsIp(e) \/ Already(e, cpu[t].change)
     THEN End(t)
     ELSE cpu' = [cpu EXCEPT ![t].pc = "write", ![t].copy = e]
  /\ UNCHANGED <<entry, entry_lock, counters, past>>

UpdateCopy(t) ==
  LET e == entry[cpu[t].slot] IN
  /\ At(t, "copy") /\ entry_lock = None
  /\ IF e.state # "BIND" \/ ~IsIp(e) \/ Already(e, cpu[t].change)
     THEN End(t) /\ UNCHANGED entry_lock
     ELSE /\ entry_lock' = t
          /\ cpu' = [cpu EXCEPT ![t].pc = "write", ![t].copy = e]
  /\ UNCHANGED <<entry, counters, past>>

(* All of the copy is written back, its state included, and unlocked; the   *)
(* cache is cleared after.                                                  *)
UpdateWrite(t) ==
  /\ At(t, "write")
  /\ entry' = [entry EXCEPT ![cpu[t].slot] = Changed(cpu[t].copy, cpu[t].change)]
  /\ entry_lock' = None
  /\ End(t)
  /\ UNCHANGED <<counters, past>>

(* mtk_hnat_delete_entry_by_index.                                          *)
DeleteByIndex ==
  \E s \in Slots :
    /\ entry_lock = None
    /\ entry' = [entry EXCEPT ![s].state = "INVALID"]
    /\ UNCHANGED <<entry_lock, counters, past, cpu>>
-------------------------------------------------------------------------------
(* Reading a counter, and where the count goes.                             *)
Busy == {u \in CPUs : At(u, "fetch")}

(* Who reads while another waits for the register shares it with it.        *)
Latch(t) ==
  /\ At(t, "select")
  /\ ser' = mib[cpu[t].slot]
  /\ crossed' = crossed \cup (IF Busy = {} THEN {} ELSE {cpu[u].slot : u \in Busy \cup {t}})
  /\ Goto(t, "fetch")
  /\ UNCHANGED <<entry, entry_lock, acct, nf_ct, vif, forwarded, due, lossy, past>>

(* Seeded fault: reading does not clear (MIB_READ_CLEAR).                   *)
SelectKept(t) == Latch(t) /\ UNCHANGED mib

(* read_mib names an entry; the engine latches its count and clears it.     *)
Select(t) == Latch(t) /\ mib' = [mib EXCEPT ![cpu[t].slot] = 0]

Fetch(t) ==
  /\ At(t, "fetch")
  /\ cpu' = [cpu EXCEPT ![t].pc = "load", ![t].val = ser]
  /\ UNCHANGED <<entry, entry_lock, counters, past>>

After(t) == IF cpu[t].job = "fin" THEN "fintell" ELSE IF cpu[t].job = "keepalive" THEN "dscp" ELSE "rest"

Leave(t) ==
  IF After(t) = "rest" THEN End(t)
  ELSE cpu' = [cpu EXCEPT ![t].pc = After(t), ![t].val = 0, ![t].base = 0]

(* "mib busy, please check later": the count stays latched, and is lost.    *)
FetchTimedOut(t) ==
  /\ At(t, "fetch")
  /\ lossy' = lossy \cup {cpu[t].slot}
  /\ Leave(t)
  /\ UNCHANGED <<entry, entry_lock, mib, ser, acct, nf_ct, vif, forwarded, due, crossed, past>>

(* hnat_get_count adds to the account of the entry without a lock: it loads *)
(* the total, and stores what it makes of it.                               *)
Load(t) ==
  LET s == cpu[t].slot IN
  /\ At(t, "load")
  /\ cpu' = [cpu EXCEPT ![t].pc = "store", ![t].base = acct[s].packets]
  /\ lossy' = lossy \cup (IF Storing(s) = {} THEN {} ELSE {s})
  /\ UNCHANGED <<entry, entry_lock, mib, ser, acct, nf_ct, vif, forwarded, due, crossed, past>>

Store(t) ==
  /\ At(t, "store")
  /\ acct' = [acct EXCEPT ![cpu[t].slot].packets = cpu[t].base + cpu[t].val]
  /\ Goto(t, "credit")
  /\ UNCHANGED <<entry, entry_lock, mib, ser, nf_ct, vif, forwarded, due, crossed, lossy, past>>

(* Then it credits the device the account names, and the conntrack of the   *)
(* flow the entry holds by now.                                             *)
Credit(t) ==
  LET s == cpu[t].slot IN
  /\ At(t, "credit")
  /\ vif' = IF acct[s].iif = None THEN vif ELSE [vif EXCEPT ![acct[s].iif] = @ + cpu[t].val]
  /\ nf_ct' = IF IsIp(entry[s]) THEN [nf_ct EXCEPT ![entry[s].flow] = @ + cpu[t].val] ELSE nf_ct
  /\ Leave(t)
  /\ UNCHANGED <<entry, entry_lock, mib, ser, acct, forwarded, due, crossed, lossy, past>>

(* mtk_hnat_get_mib_count_by_index.                                         *)
ReadCount(t) ==
  \E s \in Slots :
    /\ entry[s].state = "BIND"
    /\ Begin(t, "read", s, "select")
    /\ UNCHANGED <<entry, entry_lock, counters, past>>

(* The debugfs listing reads entries in any state but INVALID.              *)
Show(t) ==
  \E s \in Slots :
    /\ entry[s].state # "INVALID"
    /\ Begin(t, "read", s, "select")
    /\ UNCHANGED <<entry, entry_lock, counters, past>>
-------------------------------------------------------------------------------
(* A packet of a bound flow the engine sends up now and then: pre-routing   *)
(* notes where it came in, post-routing counts.                             *)
Keepalive(t) ==
  \E s \in Slots :
    /\ entry[s].state = "BIND"
    /\ Begin(t, "keepalive", s, "select")
    /\ acct' = [acct EXCEPT ![s].iif = IF @ = None THEN entry[s].flow ELSE @]
    /\ UNCHANGED <<entry, entry_lock, mib, ser, nf_ct, vif, forwarded, due, crossed, lossy, past>>

(* mtk_hnat_dscp_update takes no lock and does not look at the state; the   *)
(* packet carries 0 or 1.                                                   *)
DscpUpdate(t) ==
  LET s == cpu[t].slot IN
  /\ At(t, "dscp")
  /\ \E v \in 0 .. 1 : entry' = IF IsIp(entry[s]) THEN [entry EXCEPT ![s].opt.dscp = v] ELSE entry
  /\ End(t)
  /\ UNCHANGED <<entry_lock, counters, past>>

(* "only FIN/RST alerts matter"                                             *)
FinPacket(t) ==
  \E s \in Slots :
    /\ entry[s].state = "FIN"
    /\ Begin(t, "fin", s, "select")
    /\ UNCHANGED <<entry, entry_lock, counters, past>>

(* hnat_fin_callback through hnat_trigger_callback.                        *)
FinTell(t) ==
  /\ At(t, "fintell")
  /\ cpu' = [cpu EXCEPT ![t].pc = "finend",
                        ![t].saw = IF ApiSupported(entry[cpu[t].slot]) THEN Reported(cpu[t].slot) ELSE None]
  /\ UNCHANGED <<entry, entry_lock, counters, past>>

FinEnd(t) ==
  /\ At(t, "finend")
  /\ End(t)
  /\ UNCHANGED <<entry, entry_lock, counters, past>>
-------------------------------------------------------------------------------
(* hnat_static_entry_write fills in what is typed: state, layers, queue and *)
(* DSCP, but no tag, and no VLAN of an IP flow.                             *)
Written(f, w) ==
  [Empty EXCEPT !.hand = TRUE, !.flow = f, !.state = w.state, !.layer = w.layer, !.tag = Tag("none"),
                !.opt = [@ EXCEPT !["qos"] = w.qos, !["tport"] = w.tport, !["dscp"] = w.dscp]]

(* It goes to the first entry from the hash, typed or computed, that is not *)
(* bound, after Ways steps to any; without the lock.  A CPU that holds it keeps *)
(* in saw, as history, that its copy was overtaken.                         *)
Free(h) == {i \in 0 .. Ways - 1 : h + i \in Slots /\ entry[h + i].state # "BIND"}

StaticPlace(h) == IF Free(h) = {} THEN h + Ways ELSE h + Min(Free(h))

StaticFind(t) ==
  \E f \in Flows, h \in Slots, w \in Typed :
    /\ cpu[t].job = None
    /\ cpu' = [cpu EXCEPT ![t] = [Rest EXCEPT !.job = "static", !.pc = "put", !.slot = StaticPlace(h),
                                              !.copy = Written(f, w)]]
    /\ UNCHANGED <<entry, entry_lock, counters, past>>

StaticPut(t) ==
  LET s == cpu[t].slot IN
  /\ At(t, "put")
  /\ IF s \in Slots
     THEN entry' = [entry EXCEPT ![s] = cpu[t].copy] /\ UNCHANGED past
     ELSE past' = TRUE /\ UNCHANGED entry
  /\ cpu' = [u \in CPUs |-> IF u = t THEN Rest
                             ELSE IF At(u, "write") /\ cpu[u].slot = s THEN [cpu[u] EXCEPT !.saw = "static"]
                             ELSE cpu[u]]
  /\ UNCHANGED <<entry_lock, counters>>

(* hash_mode: table and accounts are cleared under the feet of all.         *)
SetHashMode ==
  /\ entry' = [s \in Slots |-> Empty]
  /\ Clear(Slots)
  /\ UNCHANGED <<entry_lock, past, cpu>>
-------------------------------------------------------------------------------
(* The engine.                                                              *)
Learn ==
  \E f \in Flows, s \in Slots :
    /\ s \in Bucket(f) /\ entry[s].state = "INVALID"
    /\ \A r \in Bucket(f) : entry[r].flow = f => entry[r].state = "INVALID"
    /\ entry' = [entry EXCEPT ![s] = [Empty EXCEPT !.state = "UNBIND", !.flow = f]]
    /\ UNCHANGED <<entry_lock, counters, past, cpu>>

Forward ==
  \E s \in Slots :
    /\ entry[s].state = "BIND" /\ forwarded < ForwardMax
    /\ mib' = [mib EXCEPT ![s] = @ + 1]
    /\ forwarded' = forwarded + 1
    /\ due' = [due EXCEPT ![s] = @ + 1]
    /\ UNCHANGED <<entry, entry_lock, ser, acct, nf_ct, vif, crossed, lossy, past, cpu>>

SeeFin ==
  \E s \in Slots :
    /\ entry[s].state = "BIND"
    /\ entry' = [entry EXCEPT ![s].state = "FIN"]
    /\ UNCHANGED <<entry_lock, counters, past, cpu>>

Age ==
  \E s \in Slots :
    /\ entry[s].state # "INVALID"
    /\ entry' = [entry EXCEPT ![s].state = "INVALID"]
    /\ UNCHANGED <<entry_lock, counters, past, cpu>>
-------------------------------------------------------------------------------
Next ==
  \/ \E t \in CPUs :
       \/ BindStart(t) \/ BindCommit(t) \/ BindTell(t) \/ AcctReset(t)
       \/ Update(t) \/ UpdateByTuple(t) \/ UpdateCopy(t) \/ UpdateWrite(t)
       \/ ReadCount(t) \/ Show(t) \/ Select(t) \/ Fetch(t) \/ FetchTimedOut(t)
       \/ Load(t) \/ Store(t) \/ Credit(t)
       \/ Keepalive(t) \/ DscpUpdate(t) \/ FinPacket(t) \/ FinTell(t) \/ FinEnd(t)
       \/ StaticFind(t) \/ StaticPut(t)
  \/ DeleteByIndex \/ SetHashMode
  \/ Learn \/ Forward \/ SeeFin \/ Age

Spec == Init /\ [][Next]_vars
-------------------------------------------------------------------------------
EntryTypes ==
  [state : States, flow : Flows \cup {None}, opt : [Settings -> 0 .. 2],
   layer : 0 .. 7, vlan1 : 0 .. 2, vlan2 : 0 .. 2,
   tag : [kind : {"ip", "8021q", "port", "none"}, vlan : BOOLEAN], hand : BOOLEAN]

(* Entries, counters and registers stay within their fields, and the lock   *)
(* is held by a CPU that is about to write (hnat.h, union of foe_entry).    *)
TypeOK ==
  /\ entry \in [Slots -> EntryTypes]
  /\ entry_lock # None => At(entry_lock, "write")
  /\ \A t \in CPUs : At(t, "write") => entry_lock = t
  /\ ser \in 0 .. ForwardMax
  /\ \A t \in CPUs : cpu[t].slot \in 0 .. Entries + Ways

(* What an entry says of what follows: a flow through a switch port keeps   *)
(* the port's bit, with bit 8 exactly if a VLAN follows, behind one GMAC    *)
(* too there is bit 8 only if one follows, and the layers count the VLANs   *)
(* and the tag; the WiFi driver may have left a VLAN that does not count.   *)
Tells(e) ==
  LET n    == Bool(e.vlan1 # 0) + Bool(e.vlan2 # 0)
      port == Port[e.flow]
  IN  /\ port = "dsa" => e.tag = [kind |-> "port", vlan |-> n # 0] /\ e.layer = n + Bool(n = 0)
      /\ port \in {"gmac1", "gmac1ppd"} =>
           /\ e.tag.vlan => n # 0
           /\ e.layer = IF e.tag.kind = "8021q" /\ n = 0 /\ e.layer = 0 THEN 0 ELSE n + Bool(n = 0)
      /\ port \notin {"dsa", "gmac1", "gmac1ppd"} =>
           /\ e.layer = n \/ (port \in {"wifi", "crypto"} /\ e.layer < n)
           /\ e.layer # 0 => e.tag = Tag("8021q")

(* Whatever is set in whatever order, a bound entry that the driver wrote   *)
(* says what follows (hnat_entry_set_vlan, hnat_dsa_fill_stag).             *)
TagMatches ==
  \A s \in Slots : LET e == entry[s] IN e.state = "BIND" /\ IsIp(e) /\ ~e.hand => Tells(e)

(* Packets of entry s that a CPU has read and not yet added.                *)
OnItsWay(t, s) ==
  IF cpu[t].slot # s THEN 0
  ELSE IF At(t, "fetch") THEN ser ELSE IF cpu[t].pc \in {"load", "store"} THEN cpu[t].val ELSE 0

(* Whatever becomes of an entry, the packets the engine counted in it are   *)
(* in its counter, on their way, or in its account: never twice, unless     *)
(* reads shared the register or an addition brought a reset account back,   *)
(* and none is missing unless a read timed out or additions overlapped.     *)
(* What two readers do to one another's entries stays with those entries    *)
(* (read_mib, hnat_get_count).                                              *)
CountsConserved ==
  \A s \in Slots \ crossed :
    LET found == mib[s] + acct[s].packets + FoldFunction(+, 0, [t \in CPUs |-> OnItsWay(t, s)])
    IN  found <= due[s] /\ (s \notin lossy => found = due[s])

(* Writing back a changed copy undoes nothing that another CPU set in the   *)
(* meantime.  Left out are what is written without the lock: the DSCP, and  *)
(* entries by hand (hnat_update_entry_generic).                             *)
UpdateOnlyOwn ==
  [][\A t \in CPUs, f \in Settings \ {"dscp"} :
       LET s == cpu[t].slot
           old == entry[s]
       IN  UpdateWrite(t) /\ old.state = "BIND" /\ old.flow = cpu[t].copy.flow /\ cpu[t].saw = None
             => entry'[s].opt[f] = old.opt[f] \/ f = cpu[t].change.set
                  \/ (f = "tport" /\ cpu[t].change.set = "qos")]_vars
-------------------------------------------------------------------------------
(* What the code does not promise.                                          *)

(* "register testing entry bind and fin callback" (hnat_api.c:914): a FIN   *)
(* that hits the entry of a supported flow is reported to the callback.     *)
FinReported ==
  \A t \in CPUs : At(t, "finend") /\ ApiSupported(cpu[t].copy) => cpu[t].saw = cpu[t].copy.flow

(* What the engine aged stays out of the table until it is bound again.     *)
AgedStaysOut ==
  [][\A t \in CPUs : UpdateWrite(t) => entry[cpu[t].slot].state = "BIND"]_vars

(* Two readers of counters at once lose nothing, and count nothing twice.   *)
NoneLost ==
  \A s \in Slots : (\A t \in CPUs : OnItsWay(t, s) = 0) => mib[s] + acct[s].packets = due[s]

(* An entry written by hand says what follows like any other.               *)
HandTells == \A s \in Slots : entry[s].state = "BIND" /\ IsIp(entry[s]) => Tells(entry[s])

(* Bit 8 goes with a switch port's bit.  Behind one GMAC it does not.       *)
BitOfPort ==
  \A s \in Slots :
    LET e == entry[s] IN e.state = "BIND" /\ ~e.hand /\ e.tag.vlan => e.tag.kind = "port"

(* Conntracks are credited no more than the engine counted.                 *)
CreditedOnce == FoldFunction(+, 0, nf_ct) <= forwarded

(* A flow that goes through the crypto engine keeps doing so.               *)
EnginePortKept ==
  \A s \in Slots : entry[s].state = "BIND" /\ Port[entry[s].flow] = "crypto" => entry[s].opt.tport = 2

(* A flow through a port with 802.1Q tags keeps the VLAN that names it.     *)
PortVlanKept ==
  \A s \in Slots : entry[s].state = "BIND" /\ Port[entry[s].flow] = "8021q" => entry[s].vlan1 = 2

(* An entry written by hand lands in the table, and on no bound entry.      *)
StaticInTable ==
  /\ ~past
  /\ \A t \in CPUs : At(t, "put") /\ cpu[t].slot \in Slots => entry[cpu[t].slot].state # "BIND"
===============================================================================
