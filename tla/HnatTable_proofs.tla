---------------------------- MODULE HnatTable_proofs ----------------------------
(***************************************************************************)
(* What an entry says of VLANs, switch ports and settings, for any table,  *)
(* any flows, CPUs and settings asked for: every function that builds or   *)
(* changes an entry leaves it with a tag that tells what follows, and an   *)
(* update that copies an entry and writes it back under entry_lock undoes  *)
(* nothing of another's.  And what the counters say: no packet is added    *)
(* twice, and none is lost, but for the entries whose readers met.         *)
(***************************************************************************)
EXTENDS HnatTable, FiniteSetTheorems, WellFoundedInduction, TLAPS

Kinds == {"ip", "8021q", "port", "none"}

Form ==
  [state : States, flow : Flows \cup {None}, opt : [Settings -> Nat],
   layer : Nat, vlan1 : Nat, vlan2 : Nat, tag : [kind : Kinds, vlan : BOOLEAN], hand : BOOLEAN]

(* How many VLANs an entry has.                                             *)
Vlans(e) == Bool(e.vlan1 # 0) + Bool(e.vlan2 # 0)

(* An entry says what follows, and bit 8 is no part of an 802.1Q tag.       *)
Tagging(e) == Tells(e) /\ (e.tag.kind = "8021q" => e.tag = Tag("8021q"))

(* An entry that hardware forwards by.                                      *)
Complete(e) == e.state = "BIND" /\ e.flow \in Flows /\ (~e.hand => Tagging(e))

LEMMA VlansType ==
  ASSUME NEW e
  PROVE  Vlans(e) \in {0, 1, 2} /\ (Vlans(e) = 0 <=> e.vlan1 = 0 /\ e.vlan2 = 0)
BY DEF Vlans, Bool

LEMMA EmptyForm == Empty \in Form
BY DEF Empty, Form, States, Settings, Tag, Kinds

(* A record with these fields, each of its kind.                            *)
LEMMA FormIs ==
  ASSUME NEW e \in Form, NEW e2, e2 = [x \in DOMAIN e |-> e2[x]],
         e2.state \in States, e2.flow \in Flows \cup {None}, e2.opt \in [Settings -> Nat],
         e2.layer \in Nat, e2.vlan1 \in Nat, e2.vlan2 \in Nat,
         e2.tag \in [kind : Kinds, vlan : BOOLEAN], e2.hand \in BOOLEAN
  PROVE  e2 \in Form
<1>1. DOMAIN e = {"state", "flow", "opt", "layer", "vlan1", "vlan2", "tag", "hand"}
  BY DEF Form
<1>2. e2 = [x \in {"state", "flow", "opt", "layer", "vlan1", "vlan2", "tag", "hand"} |-> e2[x]]
  BY <1>1
<1> QED BY <1>2 DEF Form

LEMMA TagType ==
  /\ \A k \in Kinds : Tag(k) \in [kind : Kinds, vlan : BOOLEAN] /\ Tag(k).kind = k /\ Tag(k).vlan = FALSE
  /\ "8021q" \in Kinds /\ "ip" \in Kinds /\ "port" \in Kinds /\ "none" \in Kinds
BY DEF Tag, Kinds

(* Entries that agree in what Form asks for besides layers, VLANs and tag.  *)
Same(e, e2) == e2.state = e.state /\ e2.flow = e.flow /\ e2.opt = e.opt /\ e2.hand = e.hand

(* What skb_to_hnat_info fills in of a VLAN.                                *)
LEMMA Filled ==
  ASSUME NEW e \in Form, NEW f, e.layer = 0, e.vlan1 = 0, e.vlan2 = 0, e.tag = Tag("ip")
  PROVE  LET e2 == ppe_fill_info_blk(e, f) IN
         /\ e2 \in Form /\ Same(e, e2) /\ e2.vlan2 = 0
         /\ \/ e2.layer = 0 /\ e2.vlan1 = 0 /\ e2.tag = Tag("ip")
            \/ e2.layer = 1 /\ e2.vlan1 = 1 /\ e2.tag = Tag("8021q")
<1> DEFINE e2 == [e EXCEPT !.layer = 1, !.vlan1 = 1, !.tag = Tag("8021q")]
<1>1. e2 = [x \in DOMAIN e |-> e2[x]]
  OBVIOUS
<1>2. /\ Same(e, e2) /\ e2.vlan2 = 0 /\ e2.layer = 1 /\ e2.vlan1 = 1 /\ e2.tag = Tag("8021q")
  BY DEF Form, Same
<1>3. e2 \in Form
  <2> HIDE DEF e2
  <2>1. /\ e2.state \in States /\ e2.flow \in Flows \cup {None} /\ e2.opt \in [Settings -> Nat]
        /\ e2.hand \in BOOLEAN
    BY <1>2 DEF Form, Same
  <2>2. e2.tag \in [kind : Kinds, vlan : BOOLEAN]
    BY <1>2, TagType
  <2> QED BY <1>1, <1>2, <2>1, <2>2, FormIs
<1> HIDE DEF e2
<1>4. CASE f \in Tagged
  BY <1>2, <1>3, <1>4 DEF ppe_fill_info_blk, e2
<1>5. CASE f \notin Tagged
  BY <1>5 DEF ppe_fill_info_blk, Same
<1> QED BY <1>4, <1>5

(* An entry that ppe_fill_info_blk leaves.                                  *)
Plain(e) ==
  /\ e \in Form /\ e.vlan2 = 0
  /\ \/ e.layer = 0 /\ e.vlan1 = 0 /\ e.tag = Tag("ip")
     \/ e.layer = 1 /\ e.vlan1 = 1 /\ e.tag = Tag("8021q")

LEMMA PlainVlans ==
  ASSUME NEW e, Plain(e)
  PROVE  /\ e.layer \in {0, 1} /\ Vlans(e) = e.layer /\ Bool(e.vlan1 # 0) = e.layer
         /\ e.vlan1 = e.layer
         /\ e.tag.vlan = FALSE /\ (e.tag.kind = "8021q" => e.tag = Tag("8021q"))
         /\ e.layer # 0 => e.tag = Tag("8021q")
BY TagType DEF Plain, Vlans, Bool

(* 802.1Q tagging of switch ports.                                          *)
LEMMA Stag8021q ==
  ASSUME NEW e, Plain(e), NEW f, Port[f] = "8021q", e.flow = f
  PROVE  LET e2 == hnat_dsa_fill_stag(e, f) IN e2 \in Form /\ Same(e, e2) /\ Tagging(e2)
<1> DEFINE e2 == [e EXCEPT !.vlan2 = @ + e.vlan1, !.vlan1 = 2, !.tag = Tag("8021q"),
                           !.layer = 1 + Bool(e.vlan1 # 0)]
<1>1. hnat_dsa_fill_stag(e, f) = e2
  BY DEF hnat_dsa_fill_stag
<1>2. e2 = [x \in DOMAIN e |-> e2[x]]
  OBVIOUS
<1>3. e \in Form
  BY DEF Plain
<1>4. /\ Same(e, e2) /\ e2.vlan1 = 2 /\ e2.vlan2 = e.vlan1 /\ e2.tag = Tag("8021q")
      /\ e2.layer = 1 + e.layer
  <2>1. e.vlan2 = 0 /\ e.vlan1 \in Nat /\ Bool(e.vlan1 # 0) = e.layer
    BY <1>3, PlainVlans DEF Form, Plain
  <2>2. /\ e2.vlan1 = 2 /\ e2.vlan2 = e.vlan2 + e.vlan1 /\ e2.tag = Tag("8021q")
        /\ e2.layer = 1 + Bool(e.vlan1 # 0)
    BY <1>3 DEF Form
  <2>3. Same(e, e2)
    BY <1>3 DEF Form, Same
  <2> QED BY <2>1, <2>2, <2>3
<1> HIDE DEF e2
<1>5. e2 \in Form
  <2>1. /\ e2.state \in States /\ e2.flow \in Flows \cup {None} /\ e2.opt \in [Settings -> Nat]
        /\ e2.hand \in BOOLEAN
    BY <1>3, <1>4 DEF Form, Same
  <2>2. e2.tag \in [kind : Kinds, vlan : BOOLEAN]
    BY <1>4, TagType
  <2>3. e.layer \in {0, 1} /\ e.vlan1 \in {0, 1}
    BY PlainVlans
  <2>4. e2.layer \in Nat /\ e2.vlan1 \in Nat /\ e2.vlan2 \in Nat
    BY <1>4, <2>3
  <2> QED BY <1>2, <1>3, <2>1, <2>2, <2>4, FormIs
<1>6. Vlans(e2) = e2.layer
  <2>1. Bool(e2.vlan1 # 0) = 1
    BY <1>4 DEF Bool
  <2>3. e2.vlan2 = e.vlan1 /\ e.vlan1 = e.layer
    BY <1>4, PlainVlans
  <2>2. Bool(e2.vlan2 # 0) = e.layer
    BY <2>3, PlainVlans
  <2> QED BY <1>4, <2>1, <2>2 DEF Vlans
<1>7. Port[e2.flow] = "8021q"
  BY <1>4 DEF Same
<1>8. Tells(e2)
  BY <1>4, <1>6, <1>7 DEF Tells, Vlans
<1> QED BY <1>1, <1>4, <1>5, <1>8 DEF Tagging

(* A switch port's bit.                                                     *)
LEMMA StagDsa ==
  ASSUME NEW e, Plain(e), NEW f, Port[f] = "dsa", e.flow = f
  PROVE  LET e2 == hnat_dsa_fill_stag(e, f) IN e2 \in Form /\ Same(e, e2) /\ Tagging(e2)
<1> DEFINE tag == [kind |-> "port", vlan |-> e.layer # 0]
           e2 == [e EXCEPT !.layer = IF @ = 0 THEN 1 ELSE @, !.tag = tag]
<1>1. hnat_dsa_fill_stag(e, f) = e2
  BY DEF hnat_dsa_fill_stag
<1>2. e2 = [x \in DOMAIN e |-> e2[x]]
  OBVIOUS
<1>3. e \in Form
  BY DEF Plain
<1>4. tag \in [kind : Kinds, vlan : BOOLEAN] /\ tag.kind = "port" /\ tag = [kind |-> "port", vlan |-> Vlans(e) # 0]
  BY PlainVlans, TagType
<1> HIDE DEF tag
<1>5. /\ Same(e, e2) /\ e2.vlan1 = e.vlan1 /\ e2.vlan2 = 0 /\ e2.tag = tag /\ e2.layer = 1
  BY <1>3, PlainVlans DEF Form, Same, Plain
<1> HIDE DEF e2
<1>6. e2 \in Form
  <2>1. /\ e2.state \in States /\ e2.flow \in Flows \cup {None} /\ e2.opt \in [Settings -> Nat]
        /\ e2.hand \in BOOLEAN
    BY <1>3, <1>5 DEF Form, Same
  <2>2. e2.layer \in Nat /\ e2.vlan1 \in Nat /\ e2.vlan2 \in Nat
    BY <1>3, <1>5 DEF Form
  <2> QED BY <1>2, <1>3, <1>4, <1>5, <2>1, <2>2, FormIs
<1>7. Vlans(e2) = Vlans(e) /\ Vlans(e) \in {0, 1} /\ Vlans(e) + Bool(Vlans(e) = 0) = 1
  BY <1>5, PlainVlans DEF Vlans, Plain, Bool
<1>8. Port[e2.flow] = "dsa"
  BY <1>5 DEF Same
<1>9. Tells(e2)
  <2> DEFINE n == Vlans(e2)
  <2>1. e2.tag = [kind |-> "port", vlan |-> n # 0] /\ e2.layer = n + Bool(n = 0)
    BY <1>4, <1>5, <1>7
  <2> QED BY <1>8, <2>1 DEF Tells, Vlans
<1> QED BY <1>1, <1>4, <1>5, <1>6, <1>9 DEF Tagging

LEMMA StagNone ==
  ASSUME NEW e, NEW f, Port[f] \notin {"8021q", "dsa"}
  PROVE  hnat_dsa_fill_stag(e, f) = e
BY DEF hnat_dsa_fill_stag

(* One GMAC alone.                                                          *)
LEMMA Gmac1Filled ==
  ASSUME NEW e, Plain(e), NEW f, Port[f] \in {"gmac1", "gmac1ppd"}, e.flow = f
  PROVE  LET e2 == FillGmac1(e, f) IN e2 \in Form /\ Same(e, e2) /\ Tagging(e2)
<1> DEFINE e2 == FillGmac1(e, f)
<1>1. e \in Form
  BY DEF Plain
<1>2. /\ e2 = [x \in DOMAIN e |-> e2[x]]
      /\ Same(e, e2) /\ e2.vlan1 \in {0, 1} /\ e2.vlan2 = 0 /\ e2.tag = e.tag /\ e2.layer = 1
  <2>1. CASE Port[f] = "gmac1"
    <3>1. e2 = [e EXCEPT !.layer = 1, !.vlan1 = 1]
      BY <2>1 DEF FillGmac1
    <3> QED BY <1>1, <3>1 DEF Form, Same, Plain
  <2>2. CASE Port[f] = "gmac1ppd"
    <3>1. e2 = [e EXCEPT !.layer = 1]
      BY <2>2 DEF FillGmac1
    <3>2. e.vlan1 \in {0, 1}
      BY DEF Plain
    <3> QED BY <1>1, <3>1, <3>2 DEF Form, Same, Plain
  <2> QED BY <2>1, <2>2
<1> HIDE DEF e2
<1>3. e2 \in Form
  <2>1. /\ e2.state \in States /\ e2.flow \in Flows \cup {None} /\ e2.opt \in [Settings -> Nat]
        /\ e2.hand \in BOOLEAN /\ e2.tag \in [kind : Kinds, vlan : BOOLEAN]
    BY <1>1, <1>2 DEF Form, Same
  <2>2. e2.layer \in Nat /\ e2.vlan1 \in Nat /\ e2.vlan2 \in Nat
    BY <1>2
  <2> QED BY <1>1, <1>2, <2>1, <2>2, FormIs
<1> DEFINE n == Vlans(e2)
<1>4. n \in {0, 1} /\ n + Bool(n = 0) = 1
  BY <1>2 DEF Vlans, Bool
<1>5. Port[e2.flow] \in {"gmac1", "gmac1ppd"} /\ e2.tag.vlan = FALSE
      /\ (e2.tag.kind = "8021q" => e2.tag = Tag("8021q"))
  BY <1>2, PlainVlans DEF Same
<1>6. e2.layer = IF e2.tag.kind = "8021q" /\ n = 0 /\ e2.layer = 0 THEN 0 ELSE n + Bool(n = 0)
  BY <1>2, <1>4
<1>7. Tells(e2)
  BY <1>5, <1>6 DEF Tells, Vlans
<1> QED BY <1>3, <1>2, <1>5, <1>7 DEF Tagging, e2

LEMMA Gmac1None ==
  ASSUME NEW e, NEW f, Port[f] \notin {"gmac1", "gmac1ppd"}
  PROVE  FillGmac1(e, f) = e
BY DEF FillGmac1

(* The crypto engine's port.                                                *)
LEMMA EngineFilled ==
  ASSUME NEW e \in Form, NEW f
  PROVE  LET e2 == hnat_fill_offload_engine_entry(e, f) IN
         /\ e2 \in Form /\ e2.flow = e.flow /\ e2.vlan1 = e.vlan1 /\ e2.vlan2 = e.vlan2
         /\ e2.layer = e.layer /\ e2.tag = e.tag
         /\ Tagging(e) => Tagging(e2)
<1> DEFINE e2 == hnat_fill_offload_engine_entry(e, f)
<1>1. /\ e2.flow = e.flow /\ e2.vlan1 = e.vlan1 /\ e2.vlan2 = e.vlan2
      /\ e2.layer = e.layer /\ e2.tag = e.tag /\ e2.state = e.state /\ e2.hand = e.hand
      /\ e2.opt \in [Settings -> Nat] /\ e2 = [x \in DOMAIN e |-> e2[x]]
  BY DEF Form, hnat_fill_offload_engine_entry, Settings
<1> HIDE DEF e2
<1>2. e2 \in Form
  <2>1. /\ e2.state \in States /\ e2.flow \in Flows \cup {None} /\ e2.hand \in BOOLEAN
        /\ e2.tag \in [kind : Kinds, vlan : BOOLEAN] /\ e2.layer \in Nat /\ e2.vlan1 \in Nat
        /\ e2.vlan2 \in Nat
    BY <1>1 DEF Form
  <2> QED BY <1>1, <2>1, FormIs
<1>3. Tagging(e) => Tagging(e2)
  BY <1>1 DEF Tagging, Tells
<1> QED BY <1>1, <1>2, <1>3 DEF e2

(* The WiFi driver's hook, and packets back from the crypto engine.         *)
LEMMA Relayered ==
  ASSUME NEW e, Plain(e), NEW f, Port[f] \in {"wifi", "crypto"}, e.flow = f
  PROVE  LET e2 == Relayer(e, f) IN e2 \in Form /\ Same(e, e2) /\ Tagging(e2)
<1> DEFINE e2 == Relayer(e, f)
<1>1. e \in Form
  BY DEF Plain
<1>2. /\ e2 = [x \in DOMAIN e |-> e2[x]] /\ Same(e, e2) /\ e2.vlan1 \in {0, 1} /\ e2.vlan2 = 0
      /\ e2.tag \in [kind : Kinds, vlan : BOOLEAN]
      /\ (e2.tag.kind = "8021q" => e2.tag = Tag("8021q"))
      /\ \/ e2.layer = 1 /\ e2.vlan1 = 1 /\ e2.tag = Tag("8021q")
         \/ e2.layer = 0
  <2>1. CASE f \in Retagged
    <3>1. e2 = [e EXCEPT !.layer = 1, !.vlan1 = 1, !.tag = Tag("8021q")]
      BY <2>1 DEF Relayer
    <3>2. /\ e2 = [x \in DOMAIN e |-> e2[x]] /\ Same(e, e2) /\ e2.vlan1 = 1 /\ e2.vlan2 = 0
          /\ e2.layer = 1 /\ e2.tag = Tag("8021q")
      BY <1>1, <3>1 DEF Form, Same, Plain
    <3> QED BY <3>2, TagType
  <2>2. CASE f \notin Retagged
    <3>1. e2 = [e EXCEPT !.layer = 0]
      BY <2>2 DEF Relayer
    <3>2. /\ e2 = [x \in DOMAIN e |-> e2[x]] /\ Same(e, e2) /\ e2.vlan1 = e.vlan1 /\ e2.vlan2 = 0
          /\ e2.layer = 0 /\ e2.tag = e.tag
      BY <1>1, <3>1 DEF Form, Same, Plain
    <3>3. e.vlan1 \in {0, 1} /\ e.tag \in [kind : Kinds, vlan : BOOLEAN]
          /\ (e.tag.kind = "8021q" => e.tag = Tag("8021q"))
      BY <1>1, PlainVlans DEF Form, Plain
    <3> QED BY <3>2, <3>3
  <2> QED BY <2>1, <2>2
<1> HIDE DEF e2
<1>3. e2 \in Form
  <2>1. /\ e2.state \in States /\ e2.flow \in Flows \cup {None} /\ e2.opt \in [Settings -> Nat]
        /\ e2.hand \in BOOLEAN
    BY <1>1, <1>2 DEF Form, Same
  <2>2. e2.layer \in Nat /\ e2.vlan1 \in Nat /\ e2.vlan2 \in Nat
    BY <1>2
  <2> QED BY <1>1, <1>2, <2>1, <2>2, FormIs
<1> DEFINE n == Vlans(e2)
<1>4. n = e2.vlan1
  BY <1>2 DEF Vlans, Bool
<1>5. Port[e2.flow] \in {"wifi", "crypto"}
  BY <1>2 DEF Same
<1>6. e2.layer = n \/ e2.layer < n
  BY <1>2, <1>4
<1>7. Tells(e2)
  BY <1>2, <1>5, <1>6 DEF Tells, Vlans
<1> QED BY <1>2, <1>3, <1>7 DEF Tagging, e2

LEMMA RelayerNone ==
  ASSUME NEW e, NEW f, Port[f] \notin {"wifi", "crypto"}
  PROVE  Relayer(e, f) = e
BY DEF Relayer

LEMMA PlainTells ==
  ASSUME NEW e, Plain(e), Port[e.flow] = "plain"
  PROVE  Tagging(e)
<1>1. Vlans(e) = e.layer /\ (e.layer # 0 => e.tag = Tag("8021q"))
      /\ (e.tag.kind = "8021q" => e.tag = Tag("8021q"))
  BY PlainVlans
<1>2. Tells(e)
  BY <1>1 DEF Tells, Vlans
<1> QED BY <1>1, <1>2 DEF Tagging

(* What skb_to_hnat_info and the hooks build for a packet.                  *)
LEMMA BuiltComplete ==
  ASSUME NEW f \in Flows
  PROVE  Built(f) \in Form /\ Built(f).flow = f /\ Complete(Built(f))
<1> DEFINE e0 == [Empty EXCEPT !.flow = f]
           e1 == ppe_fill_info_blk(e0, f)
           e2 == hnat_dsa_fill_stag(e1, f)
           e3 == FillGmac1(e2, f)
           e4 == hnat_fill_offload_engine_entry(e3, f)
           e5 == Relayer(e4, f)
<1>1. /\ e0 \in Form /\ e0.flow = f
      /\ e0.layer = 0 /\ e0.vlan1 = 0 /\ e0.vlan2 = 0 /\ e0.tag = Tag("ip")
  BY EmptyForm DEF Form, Empty
<1> HIDE DEF e0
<1>2. Plain(e1) /\ e1.flow = f
  BY <1>1, Filled DEF Plain, Same
<1> HIDE DEF e1
<1>3. Port[f] \in Ports
  BY TableAssumption
<1>4. e5 \in Form /\ e5.flow = f /\ Tagging(e5)
  <2>1. CASE Port[f] \in {"8021q", "dsa"}
    <3>1. e2 \in Form /\ e2.flow = f /\ Tagging(e2)
      BY <1>2, <2>1, Stag8021q, StagDsa DEF Same
    <3>2. e3 = e2 /\ e5 = e4
      BY <2>1, Gmac1None, RelayerNone
    <3> HIDE DEF e2, e3, e4, e5
    <3> QED BY <3>1, <3>2, EngineFilled DEF e4
  <2>2. CASE Port[f] \in {"gmac1", "gmac1ppd"}
    <3>1. e2 = e1
      BY <2>2, StagNone
    <3>2. e3 \in Form /\ e3.flow = f /\ Tagging(e3)
      BY <1>2, <2>2, <3>1, Gmac1Filled DEF Same
    <3>3. e5 = e4
      BY <2>2, RelayerNone
    <3> HIDE DEF e2, e3, e4, e5
    <3> QED BY <3>2, <3>3, EngineFilled DEF e4
  <2>3. CASE Port[f] \in {"wifi", "crypto", "plain"}
    <3>1. e3 = e1
      BY <2>3, StagNone, Gmac1None
    <3>2. Plain(e4) /\ e4.flow = f
      <4> HIDE DEF e2, e3, e4, e5
      <4>1. e4 \in Form /\ e4.flow = e1.flow /\ e4.vlan1 = e1.vlan1 /\ e4.vlan2 = e1.vlan2
            /\ e4.layer = e1.layer /\ e4.tag = e1.tag
        BY <1>2, <3>1, EngineFilled DEF e4, Plain
      <4> QED BY <1>2, <4>1 DEF Plain
    <3> HIDE DEF e2, e3, e4
    <3>3. CASE Port[f] = "plain"
      <4>1. e5 = e4
        BY <3>3, RelayerNone
      <4> QED BY <3>2, <3>3, <4>1, PlainTells DEF Plain
    <3>4. CASE Port[f] \in {"wifi", "crypto"}
      BY <3>2, <3>4, Relayered DEF Same
    <3> QED BY <2>3, <3>3, <3>4
  <2> QED BY <1>3, <2>1, <2>2, <2>3 DEF Ports
<1>5. Built(f) = [e5 EXCEPT !.state = "BIND"]
  BY DEF Built, e0, e1, e2, e3, e4, e5
<1> HIDE DEF e5
<1>6. /\ Built(f) \in Form /\ Built(f).flow = f /\ Built(f).state = "BIND"
      /\ Built(f).vlan1 = e5.vlan1 /\ Built(f).vlan2 = e5.vlan2
      /\ Built(f).tag = e5.tag /\ Built(f).layer = e5.layer
  BY <1>4, <1>5 DEF Form, States
<1> QED BY <1>4, <1>6 DEF Complete, Tagging, Tells

(* What an administrator writes.                                            *)
LEMMA WrittenForm ==
  ASSUME NEW f \in Flows, NEW w \in Typed
  PROVE  Written(f, w) \in Form /\ Written(f, w).flow = f /\ Written(f, w).hand
<1>1. w.state \in States /\ w.layer \in Nat /\ w.qos \in Nat /\ w.tport \in Nat /\ w.dscp \in Nat
  BY TableAssumption
<1> DEFINE o == [Empty.opt EXCEPT !["qos"] = w.qos, !["tport"] = w.tport, !["dscp"] = w.dscp]
           e == [Empty EXCEPT !.hand = TRUE, !.flow = f, !.state = w.state, !.layer = w.layer,
                              !.tag = Tag("none"), !.opt = o]
<1>2. o \in [Settings -> Nat]
  BY <1>1, EmptyForm DEF Form, Settings
<1>3. Written(f, w) = e
  BY DEF Written
<1> HIDE DEF o
<1>4. /\ e.state = w.state /\ e.flow = f /\ e.opt = o /\ e.layer = w.layer /\ e.vlan1 = 0
      /\ e.vlan2 = 0 /\ e.tag = Tag("none") /\ e.hand /\ e.hand \in BOOLEAN
      /\ e = [x \in DOMAIN Empty |-> e[x]]
  BY DEF Empty
<1> HIDE DEF e
<1>5. e \in Form
  <2>1. e.flow \in Flows \cup {None} /\ e.hand \in BOOLEAN /\ e.vlan1 \in Nat /\ e.vlan2 \in Nat
    BY <1>4
  <2>3. e.state \in States /\ e.layer \in Nat /\ e.opt \in [Settings -> Nat]
    BY <1>1, <1>2, <1>4
  <2>2. e.tag \in [kind : Kinds, vlan : BOOLEAN]
    BY <1>4, TagType
  <2> QED BY <1>4, <2>1, <2>2, <2>3, EmptyForm, FormIs
<1> QED BY <1>3, <1>4, <1>5
-------------------------------------------------------------------------------
LEMMA ChangeType ==
  ASSUME NEW c \in Changes
  PROVE  \/ c.set \in {"qos", "dscp", "pppoe", "prior", "tid"} /\ c.val \in Nat
         \/ c.set = "vlan" /\ c.val \in Nat \X Nat
BY TableAssumption

(* Entries that agree in all but their settings.                            *)
SameForward(e, e2) ==
  /\ e2 \in Form /\ e2.state = e.state /\ e2.flow = e.flow /\ e2.vlan1 = e.vlan1
  /\ e2.vlan2 = e.vlan2 /\ e2.layer = e.layer /\ e2.tag = e.tag /\ e2.hand = e.hand

LEMMA OptionSet ==
  ASSUME NEW e \in Form, NEW f \in Settings, NEW v \in Nat,
         NEW e2, e2 = [e EXCEPT !.opt[f] = v]
  PROVE  /\ SameForward(e, e2)
         /\ \A g \in Settings \ {f} : e2.opt[g] = e.opt[g]
<1>1. /\ e2.state = e.state /\ e2.flow = e.flow /\ e2.vlan1 = e.vlan1
      /\ e2.vlan2 = e.vlan2 /\ e2.layer = e.layer /\ e2.tag = e.tag /\ e2.hand = e.hand
  BY DEF Form
<1>2. e2.opt = [e.opt EXCEPT ![f] = v]
  BY DEF Form
<1>3. e2.opt \in [Settings -> Nat] /\ \A g \in Settings \ {f} : e2.opt[g] = e.opt[g]
  BY <1>2 DEF Form
<1>4. e2 = [x \in DOMAIN e |-> e2[x]]
  OBVIOUS
<1>5. e2 \in Form
  <2>1. /\ e2.state \in States /\ e2.flow \in Flows \cup {None} /\ e2.hand \in BOOLEAN
        /\ e2.tag \in [kind : Kinds, vlan : BOOLEAN] /\ e2.layer \in Nat /\ e2.vlan1 \in Nat
        /\ e2.vlan2 \in Nat
    BY <1>1 DEF Form
  <2> QED BY <1>3, <1>4, <2>1, FormIs
<1> QED BY <1>1, <1>3, <1>5 DEF SameForward

LEMMA SameComplete ==
  ASSUME NEW e, NEW e2, SameForward(e, e2), Complete(e)
  PROVE  Complete(e2)
BY DEF SameForward, Complete, Tagging, Tells

(* Setting the VLANs of an entry keeps a switch port's bit where there is   *)
(* one, and needs none where there is not.                                  *)
LEMMA VlanSet ==
  ASSUME NEW e \in Form, NEW v \in Nat \X Nat
  PROVE  LET e2 == hnat_entry_set_vlan(e, v) IN
         /\ e2 \in Form /\ e2.state = e.state /\ e2.flow = e.flow /\ e2.opt = e.opt
         /\ Complete(e) => Complete(e2)
<1> DEFINE n == Bool(v[1] # 0) + Bool(v[2] # 0)
           dsa == e.layer # 0 /\ e.tag.kind # "8021q"
           layer2 == IF dsa /\ n = 0 THEN 1 ELSE n
           tag2 == CASE dsa -> [e.tag EXCEPT !.vlan = n # 0]
                     [] ~dsa /\ n # 0 -> Tag("8021q")
                     [] OTHER -> e.tag
           e2 == [e EXCEPT !.vlan1 = v[1], !.vlan2 = v[2], !.layer = layer2, !.tag = tag2]
<1>1. hnat_entry_set_vlan(e, v) = e2
  BY DEF hnat_entry_set_vlan
<1>2. n \in {0, 1, 2} /\ v[1] \in Nat /\ v[2] \in Nat /\ e.layer \in Nat
      /\ e.tag \in [kind : Kinds, vlan : BOOLEAN]
  BY DEF Bool, Form
<1>3. /\ dsa => layer2 = n + Bool(n = 0) /\ tag2 = [kind |-> e.tag.kind, vlan |-> n # 0]
      /\ ~dsa /\ n # 0 => layer2 = n /\ tag2 = Tag("8021q")
      /\ ~dsa /\ n = 0 => layer2 = n /\ tag2 = e.tag
  BY <1>2 DEF Bool
<1> HIDE DEF layer2, tag2, n
<1>4. layer2 \in Nat /\ tag2 \in [kind : Kinds, vlan : BOOLEAN]
  <2>1. layer2 \in Nat
    BY <1>2, <1>3 DEF Bool
  <2>2. [kind |-> e.tag.kind, vlan |-> n # 0] \in [kind : Kinds, vlan : BOOLEAN]
    BY <1>2
  <2>3. Tag("8021q") \in [kind : Kinds, vlan : BOOLEAN]
    BY TagType
  <2> HIDE DEF dsa
  <2>4. tag2 \in [kind : Kinds, vlan : BOOLEAN]
    BY <1>2, <1>3, <2>2, <2>3
  <2> QED BY <2>1, <2>4
<1>5. /\ e2.state = e.state /\ e2.flow = e.flow /\ e2.opt = e.opt /\ e2.hand = e.hand
      /\ e2.vlan1 = v[1] /\ e2.vlan2 = v[2] /\ e2.layer = layer2 /\ e2.tag = tag2
      /\ e2 = [x \in DOMAIN e |-> e2[x]]
  BY DEF Form
<1> HIDE DEF e2
<1>6. e2 \in Form
  <2>1. e2.state \in States /\ e2.flow \in Flows \cup {None} /\ e2.opt \in [Settings -> Nat]
        /\ e2.hand \in BOOLEAN
    BY <1>5 DEF Form
  <2> QED BY <1>2, <1>4, <1>5, <2>1, FormIs
<1>7. Vlans(e2) = n
  BY <1>5 DEF Vlans, n
<1>8. ASSUME Complete(e), ~e.hand PROVE Tagging(e2)
  <2>1. Tells(e) /\ Vlans(e) \in {0, 1, 2} /\ (e.tag.kind = "8021q" => e.tag = Tag("8021q"))
    BY <1>8, VlansType DEF Complete, Tagging
  <2>2. Port[e2.flow] = Port[e.flow]
    BY <1>5
  <2>3. CASE Port[e.flow] = "dsa"
    <3>1. e.tag.kind = "port" /\ e.layer = Vlans(e) + Bool(Vlans(e) = 0)
      BY <2>1, <2>3 DEF Tells, Vlans
    <3>2. dsa
      BY <2>1, <3>1 DEF Bool
    <3> HIDE DEF dsa
    <3>3. e2.layer = n + Bool(n = 0) /\ e2.tag = [kind |-> "port", vlan |-> n # 0]
      BY <1>3, <1>5, <3>1, <3>2
    <3>4. Tells(e2)
      BY <1>7, <2>2, <2>3, <3>3 DEF Tells, Vlans
    <3> QED BY <3>3, <3>4 DEF Tagging
  <2>4. CASE Port[e.flow] \in {"gmac1", "gmac1ppd"}
    <3> DEFINE m == Vlans(e)
    <3>1. e.layer = IF e.tag.kind = "8021q" /\ m = 0 /\ e.layer = 0 THEN 0 ELSE m + Bool(m = 0)
      BY <2>1, <2>4 DEF Tells, Vlans
    <3> HIDE DEF m
    <3>2. CASE e.tag.kind = "8021q"
      <4>1. ~dsa /\ e.tag = Tag("8021q")
        BY <2>1, <3>2
      <4> HIDE DEF dsa
      <4>2. e2.layer = n /\ e2.tag = Tag("8021q")
        BY <1>3, <1>5, <4>1
      <4>3. e2.layer = (IF e2.tag.kind = "8021q" /\ n = 0 /\ e2.layer = 0 THEN 0 ELSE n + Bool(n = 0))
        BY <1>2, <4>2, TagType DEF Bool
      <4>4. Tells(e2)
        BY <1>7, <2>2, <2>4, <4>2, <4>3, TagType DEF Tells, Vlans
      <4> QED BY <4>2, <4>4 DEF Tagging
    <3>3. CASE e.tag.kind # "8021q"
      <4>1. dsa
        <5>1. m + Bool(m = 0) # 0
          BY <2>1 DEF Bool, m
        <5> QED BY <3>1, <3>3, <5>1
      <4> HIDE DEF dsa
      <4>2. e2.layer = n + Bool(n = 0) /\ e2.tag = [kind |-> e.tag.kind, vlan |-> n # 0]
        BY <1>3, <1>5, <4>1
      <4>4. e2.tag.kind # "8021q" /\ (e2.tag.vlan => n # 0)
        <5> DEFINE k == e.tag.kind
                   b == n # 0
        <5>1. e2.tag = [kind |-> k, vlan |-> b] /\ k # "8021q"
          BY <3>3, <4>2
        <5> HIDE DEF k, b
        <5>2. e2.tag.kind = k /\ (e2.tag.vlan <=> b)
          BY <5>1
        <5> QED BY <5>1, <5>2 DEF b
      <4>3. Tells(e2)
        BY <1>7, <2>2, <2>4, <4>2, <4>4 DEF Tells, Vlans
      <4> QED BY <4>3, <4>4 DEF Tagging
    <3> QED BY <3>2, <3>3
  <2>5. CASE Port[e.flow] \notin {"dsa", "gmac1", "gmac1ppd"}
    <3>1. ~dsa
      BY <2>1, <2>5, TagType DEF Tells
    <3> HIDE DEF dsa
    <3>2. e2.layer = n /\ (n # 0 => e2.tag = Tag("8021q"))
          /\ (e2.tag.kind = "8021q" => e2.tag = Tag("8021q"))
      BY <1>3, <1>5, <2>1, <3>1
    <3>3. Tells(e2)
      BY <1>7, <2>2, <2>5, <3>2 DEF Tells, Vlans
    <3> QED BY <3>2, <3>3 DEF Tagging
  <2> QED BY <2>3, <2>4, <2>5
<1>9. Complete(e) => Complete(e2)
  BY <1>5, <1>8 DEF Complete
<1> QED BY <1>1, <1>5, <1>6, <1>9

(* Every setting is one of these.                                           *)
LEMMA ChangeKeeps ==
  ASSUME NEW e \in Form, NEW c \in Changes
  PROVE  LET e2 == Changed(e, c) IN
         /\ e2 \in Form /\ e2.state = e.state /\ e2.flow = e.flow
         /\ Complete(e) => Complete(e2)
         /\ \A f \in Settings :
              f = c.set \/ (f = "tport" /\ c.set = "qos") \/ e2.opt[f] = e.opt[f]
<1> DEFINE e2 == Changed(e, c)
           v == c.val
<1>1. CASE c.set = "vlan"
  <2>1. e2 = hnat_entry_set_vlan(e, v) /\ v \in Nat \X Nat
    BY <1>1, ChangeType DEF Changed
  <2> HIDE DEF e2, v
  <2>2. e2 \in Form /\ e2.state = e.state /\ e2.flow = e.flow /\ e2.opt = e.opt
        /\ (Complete(e) => Complete(e2))
    BY <2>1, VlanSet
  <2> QED BY <2>2 DEF e2
<1>2. CASE c.set = "qos"
  <2> DEFINE e1 == [e EXCEPT !.opt["tport"] = v]
  <2>1. v \in Nat
    BY <1>2, ChangeType
  <2>2. e2 = [e1 EXCEPT !.opt["qos"] = v]
    BY <1>2 DEF Changed, hnat_entry_set_hqos
  <2> HIDE DEF e2, v
  <2>3. SameForward(e, e1) /\ \A g \in Settings \ {"tport"} : e1.opt[g] = e.opt[g]
    BY <2>1, OptionSet DEF Settings
  <2> HIDE DEF e1
  <2>4. e1 \in Form
    BY <2>3 DEF SameForward
  <2>5. SameForward(e1, e2) /\ \A g \in Settings \ {"qos"} : e2.opt[g] = e1.opt[g]
    BY <2>1, <2>2, <2>4, OptionSet DEF Settings
  <2>6. Complete(e) => Complete(e2)
    BY <2>3, <2>5, SameComplete
  <2>7. e2 \in Form /\ e2.state = e.state /\ e2.flow = e.flow
    BY <2>3, <2>5 DEF SameForward
  <2> QED BY <1>2, <2>3, <2>5, <2>6, <2>7 DEF e2
<1>3. CASE c.set \in {"dscp", "pppoe", "prior", "tid"}
  <2>1. v \in Nat /\ c.set \in Settings
    BY <1>3, ChangeType DEF Settings
  <2>2. e2 = [e EXCEPT !.opt[c.set] = v]
    BY <1>3 DEF Changed, hnat_entry_set_dscp, hnat_entry_set_pppoe, hnat_entry_set_is_prior,
                hnat_entry_set_tid
  <2> HIDE DEF e2, v
  <2>3. SameForward(e, e2) /\ \A g \in Settings \ {c.set} : e2.opt[g] = e.opt[g]
    BY <2>1, <2>2, OptionSet
  <2>4. Complete(e) => Complete(e2)
    BY <2>3, SameComplete
  <2> QED BY <2>3, <2>4 DEF e2, SameForward
<1> QED BY <1>1, <1>2, <1>3, ChangeType
-------------------------------------------------------------------------------
(***************************************************************************)
(* The invariant.                                                          *)
(***************************************************************************)
(* Entries the table may hold: one in use names its flow, and one that the  *)
(* driver has bound says what follows.                                      *)
Good == {e \in Form : /\ e.state # "INVALID" => e.flow \in Flows
                      /\ e.state = "BIND" => Complete(e)}

JobFields == {"job", "pc", "slot", "copy", "change", "val", "base", "saw"}

(* What a job relies on at the step it takes next.                          *)
Prepared(j) ==
  /\ j.pc = "commit" => j.copy.flow \in Flows
  /\ j.pc \in {"copy", "write"} => j.change \in Changes /\ j.slot \in Slots
  /\ j.pc = "write" => j.copy \in Form /\ Complete(j.copy)
  /\ j.pc = "put" => j.copy \in Good

(* The copy that job j writes back still has what entry e says.             *)
Current(e, j) ==
  j.saw = None /\ e.state = "BIND" /\ e.flow = j.copy.flow
    => \A f \in Settings \ {"dscp"} : e.opt[f] = j.copy.opt[f]

TableInv == entry \in [Slots -> Good]

JobInv ==
  /\ cpu = [t \in CPUs |-> [x \in JobFields |-> cpu[t][x]]]
  /\ \A t \in CPUs : Prepared(cpu[t])
  /\ \A t \in CPUs : cpu[t].pc = "write" => entry_lock = t

CopyInv == \A t \in CPUs : cpu[t].pc = "write" => Current(entry[cpu[t].slot], cpu[t])

EntryInv == TableInv /\ JobInv /\ CopyInv

Shaped(j) == j = [x \in JobFields |-> j[x]]

(* A step does not make a bound entry of another one, and of one that is    *)
(* bound changes no more than the DSCP.                                     *)
Harmless(e, e2) ==
  e2.state = "BIND" => /\ e.state = "BIND" /\ e2.flow = e.flow
                       /\ \A f \in Settings \ {"dscp"} : e2.opt[f] = e.opt[f]

LEMMA NobodyWrites ==
  ASSUME JobInv, entry_lock = None
  PROVE  \A t \in CPUs : cpu[t].pc # "write"
BY TableAssumption DEF JobInv

LEMMA NobodyElseWrites ==
  ASSUME JobInv, NEW t \in CPUs, cpu[t].pc = "write"
  PROVE  \A u \in CPUs \ {t} : cpu[u].pc # "write"
BY DEF JobInv

(* One CPU goes on with a job that does not write an entry back.            *)
LEMMA JobStep ==
  ASSUME JobInv, NEW t \in CPUs, NEW j, cpu' = [cpu EXCEPT ![t] = j],
         Shaped(j), Prepared(j), j.pc # "write", UNCHANGED entry_lock
  PROVE  JobInv' /\ \A u \in CPUs : cpu'[u].pc = "write" => cpu'[u] = cpu[u] /\ cpu[u].pc = "write"
<1>1. \A u \in CPUs : cpu'[u] = IF u = t THEN j ELSE cpu[u]
  BY DEF JobInv
<1>2. cpu' = [u \in CPUs |-> cpu'[u]]
  BY DEF JobInv
<1>3. \A u \in CPUs : Shaped(cpu[u])
  BY DEF JobInv, Shaped
<1>4. \A u \in CPUs : Shaped(cpu'[u]) /\ Prepared(cpu'[u])
  BY <1>1, <1>3 DEF JobInv
<1>5. cpu' = [u \in CPUs |-> [x \in JobFields |-> cpu'[u][x]]]
  BY <1>2, <1>4 DEF Shaped
<1>6. \A u \in CPUs : cpu'[u].pc = "write" => cpu'[u] = cpu[u] /\ cpu[u].pc = "write"
  BY <1>1
<1>7. \A u \in CPUs : cpu'[u].pc = "write" => entry_lock' = u
  BY <1>6 DEF JobInv
<1> QED BY <1>4, <1>5, <1>6, <1>7 DEF JobInv, Prepared

(* Entries change at most harmlessly while copies are held.                 *)
LEMMA HarmlessStep ==
  ASSUME JobInv, CopyInv, TableInv,
         \A u \in CPUs : cpu'[u].pc = "write" => cpu'[u] = cpu[u] /\ cpu[u].pc = "write",
         \A s \in Slots : Harmless(entry[s], entry'[s])
  PROVE  CopyInv'
<1> SUFFICES ASSUME NEW u \in CPUs, cpu'[u].pc = "write"
             PROVE  Current(entry[cpu[u].slot], cpu[u])' 
  BY DEF CopyInv
<1>1. cpu'[u] = cpu[u] /\ cpu[u].slot \in Slots /\ Current(entry[cpu[u].slot], cpu[u])
  BY DEF JobInv, Prepared, CopyInv
<1>2. Harmless(entry[cpu[u].slot], entry'[cpu[u].slot])
  BY <1>1
<1> QED BY <1>1, <1>2 DEF Current, Harmless

LEMMA SameHarmless == \A e : Harmless(e, e)
BY DEF Harmless
-------------------------------------------------------------------------------
(***************************************************************************)
(* Entries the actions make.                                               *)
(***************************************************************************)
LEMMA EmptyGood == Empty \in Good
BY EmptyForm DEF Good, Empty

LEMMA StateGood ==
  ASSUME NEW e \in Good, NEW v \in {"INVALID", "FIN"}, v = "FIN" => e.state = "BIND"
  PROVE  LET e2 == [e EXCEPT !.state = v] IN e2 \in Good /\ Harmless(e, e2)
<1> DEFINE e2 == [e EXCEPT !.state = v]
<1>1. e \in Form
  BY DEF Good
<1>2. e2 \in Form /\ e2.state = v /\ e2.flow = e.flow
  BY <1>1 DEF Form, States
<1> HIDE DEF e2
<1>3. v # "BIND" /\ (v # "INVALID" => e.flow \in Flows)
  BY DEF Good
<1> QED BY <1>2, <1>3 DEF Good, Harmless, e2

LEMMA LearntGood ==
  ASSUME NEW f \in Flows
  PROVE  LET e2 == [Empty EXCEPT !.state = "UNBIND", !.flow = f] IN
         e2 \in Good /\ e2.state = "UNBIND"
<1> DEFINE e2 == [Empty EXCEPT !.state = "UNBIND", !.flow = f]
<1>1. e2 \in Form /\ e2.state = "UNBIND" /\ e2.flow = f
  BY EmptyForm DEF Form, States, Empty
<1> HIDE DEF e2
<1> QED BY <1>1 DEF Good, e2

LEMMA DscpGood ==
  ASSUME NEW e \in Good, NEW v \in Nat
  PROVE  LET e2 == [e EXCEPT !.opt["dscp"] = v] IN e2 \in Good /\ Harmless(e, e2)
<1> DEFINE e2 == [e EXCEPT !.opt["dscp"] = v]
<1>1. e \in Form /\ "dscp" \in Settings
  BY DEF Good, Settings
<1>2. SameForward(e, e2) /\ \A g \in Settings \ {"dscp"} : e2.opt[g] = e.opt[g]
  BY <1>1, OptionSet
<1> HIDE DEF e2
<1>3. Complete(e) => Complete(e2)
  BY <1>2, SameComplete
<1>4. e2 \in Good
  BY <1>2, <1>3 DEF Good, SameForward
<1>5. Harmless(e, e2)
  BY <1>2 DEF Harmless, SameForward
<1> QED BY <1>4, <1>5 DEF e2

LEMMA CompleteGood ==
  ASSUME NEW e \in Form, Complete(e)
  PROVE  e \in Good
BY DEF Good, Complete

(* One entry is replaced.                                                   *)
LEMMA OneEntry ==
  ASSUME TableInv, NEW s, NEW e2, s \in Slots => e2 \in Good, entry' = [entry EXCEPT ![s] = e2]
  PROVE  /\ TableInv'
         /\ \A r \in Slots : entry'[r] = IF r = s THEN e2 ELSE entry[r]
BY DEF TableInv

LEMMA OneHarmless ==
  ASSUME TableInv, NEW s, NEW e2, s \in Slots => e2 \in Good /\ Harmless(entry[s], e2),
         entry' = [entry EXCEPT ![s] = e2]
  PROVE  TableInv' /\ \A r \in Slots : Harmless(entry[r], entry'[r])
<1>1. TableInv' /\ \A r \in Slots : entry'[r] = IF r = s THEN e2 ELSE entry[r]
  BY OneEntry
<1> SUFFICES ASSUME NEW r \in Slots PROVE Harmless(entry[r], entry'[r])
  BY <1>1
<1>2. CASE r = s
  BY <1>1, <1>2
<1>3. CASE r # s
  BY <1>1, <1>3, SameHarmless
<1> QED BY <1>2, <1>3

(***************************************************************************)
(* Steps of jobs that leave the table alone.                               *)
(***************************************************************************)
LEMMA RestShape == Shaped(Rest) /\ Prepared(Rest) /\ Rest.pc = "rest"
<1>1. Rest.pc = "rest" /\ DOMAIN Rest = JobFields
  BY DEF Rest, JobFields
<1>2. Rest = [x \in JobFields |-> Rest[x]]
  BY DEF Rest, JobFields
<1> QED BY <1>1, <1>2 DEF Shaped, Prepared

(* The steps that change nothing but the CPU's own job.                     *)
Onwards(t, j) ==
  /\ cpu' = [cpu EXCEPT ![t] = j]
  /\ Shaped(j) /\ Prepared(j) /\ j.pc # "write"
  /\ UNCHANGED entry_lock

LEMMA OnwardsKeeps ==
  ASSUME EntryInv, NEW t \in CPUs, NEW j, Onwards(t, j), UNCHANGED entry
  PROVE  EntryInv'
<1>1. JobInv' /\ \A u \in CPUs : cpu'[u].pc = "write" => cpu'[u] = cpu[u] /\ cpu[u].pc = "write"
  BY JobStep DEF Onwards, EntryInv
<1>2. TableInv' /\ \A s \in Slots : Harmless(entry[s], entry'[s])
  BY SameHarmless DEF EntryInv, TableInv
<1>3. CopyInv'
  BY <1>1, <1>2, HarmlessStep DEF EntryInv
<1> QED BY <1>1, <1>2, <1>3 DEF EntryInv

LEMMA OnwardsHarmless ==
  ASSUME EntryInv, NEW t \in CPUs, NEW j, Onwards(t, j), TableInv',
         \A s \in Slots : Harmless(entry[s], entry'[s])
  PROVE  EntryInv'
<1>1. JobInv' /\ \A u \in CPUs : cpu'[u].pc = "write" => cpu'[u] = cpu[u] /\ cpu[u].pc = "write"
  BY JobStep DEF Onwards, EntryInv
<1>2. CopyInv'
  BY <1>1, HarmlessStep DEF EntryInv
<1> QED BY <1>1, <1>2 DEF EntryInv

LEMMA EndOnwards ==
  ASSUME NEW t \in CPUs, End(t), UNCHANGED entry_lock
  PROVE  Onwards(t, Rest)
BY RestShape DEF End, Onwards

(* A job that begins, and needs nothing of the entry but its flow.          *)
LEMMA BeginOnwards ==
  ASSUME NEW t \in CPUs, NEW job, NEW s, NEW pc,
         pc \in {"commit", "select"}, pc = "commit" => entry[s].flow \in Flows,
         Begin(t, job, s, pc), UNCHANGED entry_lock
  PROVE  \E j : Onwards(t, j)
<1> DEFINE j == [Rest EXCEPT !.job = job, !.slot = s, !.pc = pc, !.copy.flow = entry[s].flow]
<1>1. j.pc = pc /\ j.copy.flow = entry[s].flow
  BY DEF Rest, Empty
<1>2. Shaped(j)
  BY RestShape DEF Shaped, JobFields, Rest
<1>3. cpu' = [cpu EXCEPT ![t] = j]
  BY DEF Begin
<1> HIDE DEF j
<1>4. Prepared(j)
  BY <1>1 DEF Prepared
<1> QED BY <1>1, <1>2, <1>3, <1>4 DEF Onwards

(* A job whose next step needs no more than is known now.                   *)
Later == {"bound", "reset", "fetch", "load", "store", "credit", "dscp", "fintell", "finend"}

LEMMA GotoLater ==
  ASSUME EntryInv, NEW t \in CPUs, NEW pc \in Later, Goto(t, pc), UNCHANGED entry_lock
  PROVE  \E j : Onwards(t, j)
<1> DEFINE j == [cpu[t] EXCEPT !.pc = pc]
<1>1. cpu[t] = [x \in JobFields |-> cpu[t][x]]
  BY DEF EntryInv, JobInv
<1>2. Shaped(j) /\ j.pc = pc
  BY <1>1 DEF Shaped, JobFields
<1>3. cpu' = [cpu EXCEPT ![t] = j]
  BY DEF Goto
<1> HIDE DEF j
<1>4. Prepared(j) /\ j.pc # "write"
  BY <1>2 DEF Prepared, Later
<1> QED BY <1>2, <1>3, <1>4 DEF Onwards

LEMMA LeaveOnwards ==
  ASSUME EntryInv, NEW t \in CPUs, Leave(t), UNCHANGED entry_lock
  PROVE  \E j : Onwards(t, j)
<1>1. CASE After(t) = "rest"
  BY <1>1, EndOnwards DEF Leave
<1>2. CASE After(t) # "rest"
  <2> DEFINE j == [cpu[t] EXCEPT !.pc = After(t), !.val = 0, !.base = 0]
  <2>1. cpu[t] = [x \in JobFields |-> cpu[t][x]]
    BY DEF EntryInv, JobInv
  <2>2. Shaped(j) /\ j.pc = After(t)
    BY <2>1 DEF Shaped, JobFields
  <2>3. cpu' = [cpu EXCEPT ![t] = j]
    BY <1>2 DEF Leave
  <2>4. After(t) \in {"fintell", "dscp"}
    BY <1>2 DEF After
  <2> HIDE DEF j
  <2>5. Prepared(j) /\ j.pc # "write"
    BY <2>2, <2>4 DEF Prepared
  <2> QED BY <2>2, <2>3, <2>5 DEF Onwards
<1> QED BY <1>1, <1>2

LEMMA BindTellKeeps ==
  ASSUME EntryInv, NEW t \in CPUs, BindTell(t)
  PROVE  EntryInv'
<1> DEFINE w == IF ApiSupported(Built(cpu[t].copy.flow)) THEN Reported(cpu[t].slot) ELSE None
           j == [cpu[t] EXCEPT !.pc = "reset", !.saw = w]
<1>1. cpu[t] = [x \in JobFields |-> cpu[t][x]]
  BY DEF EntryInv, JobInv
<1>2. cpu' = [cpu EXCEPT ![t] = j] /\ UNCHANGED <<entry, entry_lock>>
  BY DEF BindTell
<1> HIDE DEF w
<1>3. Shaped(j) /\ j.pc = "reset"
  BY <1>1 DEF Shaped, JobFields
<1> HIDE DEF j
<1>4. Onwards(t, j)
  BY <1>2, <1>3 DEF Onwards, Prepared
<1> QED BY <1>2, <1>4, OnwardsKeeps

LEMMA FinTellKeeps ==
  ASSUME EntryInv, NEW t \in CPUs, FinTell(t)
  PROVE  EntryInv'
<1> DEFINE w == IF ApiSupported(entry[cpu[t].slot]) THEN Reported(cpu[t].slot) ELSE None
           j == [cpu[t] EXCEPT !.pc = "finend", !.saw = w]
<1>1. cpu[t] = [x \in JobFields |-> cpu[t][x]]
  BY DEF EntryInv, JobInv
<1>2. cpu' = [cpu EXCEPT ![t] = j] /\ UNCHANGED <<entry, entry_lock>>
  BY DEF FinTell
<1> HIDE DEF w
<1>3. Shaped(j) /\ j.pc = "finend"
  BY <1>1 DEF Shaped, JobFields
<1> HIDE DEF j
<1>4. Onwards(t, j)
  BY <1>2, <1>3 DEF Onwards, Prepared
<1> QED BY <1>2, <1>4, OnwardsKeeps

LEMMA FetchKeeps ==
  ASSUME EntryInv, NEW t \in CPUs, Fetch(t)
  PROVE  EntryInv'
<1> DEFINE j == [cpu[t] EXCEPT !.pc = "load", !.val = ser]
<1>1. cpu[t] = [x \in JobFields |-> cpu[t][x]]
  BY DEF EntryInv, JobInv
<1>2. cpu' = [cpu EXCEPT ![t] = j] /\ UNCHANGED <<entry, entry_lock>>
  BY DEF Fetch
<1>3. Shaped(j) /\ j.pc = "load"
  BY <1>1 DEF Shaped, JobFields
<1> HIDE DEF j
<1>4. Onwards(t, j)
  BY <1>2, <1>3 DEF Onwards, Prepared
<1> QED BY <1>2, <1>4, OnwardsKeeps

LEMMA LoadKeeps ==
  ASSUME EntryInv, NEW t \in CPUs, Load(t)
  PROVE  EntryInv'
<1> DEFINE b == acct[cpu[t].slot].packets
           j == [cpu[t] EXCEPT !.pc = "store", !.base = b]
<1>1. cpu[t] = [x \in JobFields |-> cpu[t][x]]
  BY DEF EntryInv, JobInv
<1>2. cpu' = [cpu EXCEPT ![t] = j] /\ UNCHANGED <<entry, entry_lock>>
  BY DEF Load
<1> HIDE DEF b
<1>3. Shaped(j) /\ j.pc = "store"
  BY <1>1 DEF Shaped, JobFields
<1> HIDE DEF j
<1>4. Onwards(t, j)
  BY <1>2, <1>3 DEF Onwards, Prepared
<1> QED BY <1>2, <1>4, OnwardsKeeps

LEMMA PlainStepsKeep ==
  ASSUME EntryInv, NEW t \in CPUs,
         \/ AcctReset(t) \/ Select(t) \/ FetchTimedOut(t) \/ Store(t) \/ Credit(t) \/ FinEnd(t)
         \/ ReadCount(t) \/ Show(t) \/ Keepalive(t) \/ FinPacket(t)
  PROVE  EntryInv'
<1>1. CASE AcctReset(t) \/ FinEnd(t)
  BY <1>1, EndOnwards, OnwardsKeeps DEF AcctReset, FinEnd
<1>2. CASE Select(t) \/ Store(t)
  BY <1>2, GotoLater, OnwardsKeeps DEF Select, Latch, Store, Later
<1>3. CASE FetchTimedOut(t) \/ Credit(t)
  BY <1>3, LeaveOnwards, OnwardsKeeps DEF FetchTimedOut, Credit
<1>4. CASE ReadCount(t) \/ Show(t)
  BY <1>4, BeginOnwards, OnwardsKeeps DEF ReadCount, Show
<1>5. CASE Keepalive(t) \/ FinPacket(t)
  BY <1>5, BeginOnwards, OnwardsKeeps DEF Keepalive, FinPacket
<1> QED BY <1>1, <1>2, <1>3, <1>4, <1>5

LEMMA BindStartKeeps ==
  ASSUME EntryInv, NEW t \in CPUs, BindStart(t)
  PROVE  EntryInv'
<1>1. PICK s \in Slots : entry[s].state = "UNBIND" /\ Begin(t, "bind", s, "commit")
  BY DEF BindStart
<1>2. entry[s].flow \in Flows
  BY <1>1 DEF EntryInv, TableInv, Good
<1> QED BY <1>1, <1>2, BeginOnwards, OnwardsKeeps DEF BindStart

(* The index of a tuple is an entry of the table.                           *)
LEMMA HashInTable == \A f \in Flows : hnat_get_ppe_hash(f) \in Slots
<1> SUFFICES ASSUME NEW f \in Flows PROVE hnat_get_ppe_hash(f) \in Slots
  OBVIOUS
<1> DEFINE x == Ways * Hash[f]
<1>1. x \in Nat
  <2>1. Ways \in Nat /\ Hash[f] \in Nat
    BY TableAssumption
  <2> HIDE DEF x
  <2>2. \A a, b \in Nat : a * b \in Nat
    OBVIOUS
  <2> QED BY <2>1, <2>2 DEF x
<1>2. Entries \in Nat \ {0}
  BY TableAssumption
<1> HIDE DEF x
<1>3. x % Entries \in 0 .. Entries - 1
  BY <1>1, <1>2
<1> QED BY <1>3 DEF hnat_get_ppe_hash, Slots, x

LEMMA UpdateKeeps ==
  ASSUME EntryInv, NEW t \in CPUs, Update(t) \/ UpdateByTuple(t)
  PROVE  EntryInv'
<1>1. PICK s \in Slots, c \in Changes :
         cpu' = [cpu EXCEPT ![t] = [Rest EXCEPT !.job = "update", !.pc = "copy", !.slot = s, !.change = c]]
  <2>1. CASE Update(t)
    BY <2>1 DEF Update
  <2>2. CASE UpdateByTuple(t)
    <3>1. PICK f \in Flows, c \in Changes :
            cpu' = [cpu EXCEPT ![t] = [Rest EXCEPT !.job = "update", !.pc = "copy", !.change = c,
                                                   !.slot = hnat_get_ppe_hash(f)]]
      BY <2>2 DEF UpdateByTuple
    <3> DEFINE h == hnat_get_ppe_hash(f)
    <3>2. h \in Slots
      BY HashInTable
    <3> HIDE DEF h
    <3>3. [Rest EXCEPT !.job = "update", !.pc = "copy", !.change = c, !.slot = h]
            = [Rest EXCEPT !.job = "update", !.pc = "copy", !.slot = h, !.change = c]
      BY DEF Rest
    <3> QED BY <3>1, <3>2, <3>3 DEF h
  <2> QED BY <2>1, <2>2
<1> DEFINE j == [Rest EXCEPT !.job = "update", !.pc = "copy", !.slot = s, !.change = c]
<1>2. Shaped(j) /\ j.pc = "copy" /\ j.slot = s /\ j.change = c
  BY RestShape DEF Shaped, JobFields, Rest
<1> HIDE DEF j
<1>3. Prepared(j)
  BY <1>2 DEF Prepared
<1>4. UNCHANGED <<entry, entry_lock>>
  BY DEF Update, UpdateByTuple
<1>5. Onwards(t, j)
  BY <1>1, <1>2, <1>3, <1>4 DEF Onwards, j
<1> QED BY <1>4, <1>5, OnwardsKeeps

LEMMA StaticFindKeeps ==
  ASSUME EntryInv, NEW t \in CPUs, StaticFind(t)
  PROVE  EntryInv'
<1>1. PICK f \in Flows, h \in Slots, w \in Typed :
         cpu' = [cpu EXCEPT ![t] = [Rest EXCEPT !.job = "static", !.pc = "put", !.slot = StaticPlace(h),
                                                !.copy = Written(f, w)]]
  BY DEF StaticFind
<1> DEFINE j == [Rest EXCEPT !.job = "static", !.pc = "put", !.slot = StaticPlace(h), !.copy = Written(f, w)]
<1>2. Shaped(j) /\ j.pc = "put" /\ j.copy = Written(f, w)
  BY RestShape DEF Shaped, JobFields, Rest
<1>3. cpu' = [cpu EXCEPT ![t] = j]
  BY <1>1
<1> HIDE DEF j
<1>4. Prepared(j)
  BY <1>2, WrittenForm DEF Prepared, Good, Complete
<1>5. UNCHANGED <<entry, entry_lock>>
  BY DEF StaticFind
<1>6. Onwards(t, j)
  BY <1>2, <1>3, <1>4, <1>5 DEF Onwards
<1> QED BY <1>5, <1>6, OnwardsKeeps

(***************************************************************************)
(* Steps that change the table harmlessly.                                 *)
(***************************************************************************)
LEMMA DscpUpdateKeeps ==
  ASSUME EntryInv, NEW t \in CPUs, DscpUpdate(t)
  PROVE  EntryInv'
<1> DEFINE s == cpu[t].slot
<1>1. End(t) /\ UNCHANGED entry_lock
  BY DEF DscpUpdate
<1>2. Onwards(t, Rest)
  BY <1>1, EndOnwards
<1>3. PICK v \in 0 .. 1 : entry' = IF IsIp(entry[s]) THEN [entry EXCEPT ![s].opt.dscp = v] ELSE entry
  BY DEF DscpUpdate
<1> DEFINE e2 == [entry[s] EXCEPT !.opt["dscp"] = v]
<1>4. CASE IsIp(entry[s])
  <2>1. entry' = [entry EXCEPT ![s] = e2]
    BY <1>3, <1>4
  <2>2. s \in Slots => e2 \in Good /\ Harmless(entry[s], e2)
    BY DscpGood DEF EntryInv, TableInv
  <2> HIDE DEF e2
  <2>3. TableInv' /\ \A r \in Slots : Harmless(entry[r], entry'[r])
    BY <2>1, <2>2, OneHarmless DEF EntryInv
  <2> QED BY <1>2, <2>3, OnwardsHarmless
<1>5. CASE ~IsIp(entry[s])
  BY <1>2, <1>3, <1>5, OnwardsKeeps
<1> QED BY <1>4, <1>5

LEMMA CpusStill ==
  ASSUME EntryInv, UNCHANGED <<cpu, entry_lock>>, TableInv',
         \A r \in Slots : Harmless(entry[r], entry'[r])
  PROVE  EntryInv'
<1>1. JobInv'
  BY DEF EntryInv, JobInv, Prepared
<1>2. CopyInv'
  BY HarmlessStep DEF EntryInv
<1> QED BY <1>1, <1>2 DEF EntryInv

LEMMA StateStepsKeep ==
  ASSUME EntryInv, DeleteByIndex \/ SeeFin \/ Age
  PROVE  EntryInv'
<1>1. PICK s \in Slots, v \in {"INVALID", "FIN"} :
         /\ v = "FIN" => entry[s].state = "BIND"
         /\ entry' = [entry EXCEPT ![s].state = v]
  BY DEF DeleteByIndex, SeeFin, Age
<1> DEFINE e2 == [entry[s] EXCEPT !.state = v]
<1>2. entry' = [entry EXCEPT ![s] = e2]
  BY <1>1
<1>3. e2 \in Good /\ Harmless(entry[s], e2)
  BY <1>1, StateGood DEF EntryInv, TableInv
<1> HIDE DEF e2
<1>4. TableInv' /\ \A r \in Slots : Harmless(entry[r], entry'[r])
  BY <1>2, <1>3, OneHarmless DEF EntryInv
<1>5. UNCHANGED <<cpu, entry_lock>>
  BY DEF DeleteByIndex, SeeFin, Age
<1> QED BY <1>4, <1>5, CpusStill

LEMMA LearnKeeps ==
  ASSUME EntryInv, Learn
  PROVE  EntryInv'
<1>1. PICK f \in Flows, s \in Slots : entry' = [entry EXCEPT ![s] = [Empty EXCEPT !.state = "UNBIND", !.flow = f]]
  BY DEF Learn
<1> DEFINE e2 == [Empty EXCEPT !.state = "UNBIND", !.flow = f]
<1>2. entry' = [entry EXCEPT ![s] = e2] /\ UNCHANGED <<cpu, entry_lock>>
  BY <1>1 DEF Learn
<1>3. e2 \in Good /\ e2.state = "UNBIND"
  BY LearntGood
<1> HIDE DEF e2
<1>4. Harmless(entry[s], e2)
  BY <1>3 DEF Harmless
<1>5. TableInv' /\ \A r \in Slots : Harmless(entry[r], entry'[r])
  BY <1>2, <1>3, <1>4, OneHarmless DEF EntryInv
<1> QED BY <1>2, <1>5, CpusStill

LEMMA SetHashModeKeeps ==
  ASSUME EntryInv, SetHashMode
  PROVE  EntryInv'
<1>1. entry' = [s \in Slots |-> Empty] /\ UNCHANGED <<cpu, entry_lock>>
  BY DEF SetHashMode
<1>2. TableInv'
  BY <1>1, EmptyGood DEF TableInv
<1>3. Empty.state = "INVALID"
  BY DEF Empty
<1>4. \A r \in Slots : Harmless(entry[r], entry'[r])
  BY <1>1, <1>3 DEF Harmless
<1> QED BY <1>1, <1>2, <1>4, CpusStill
-------------------------------------------------------------------------------
(***************************************************************************)
(* Steps that bind, copy, write back, or overtake a copy.                  *)
(***************************************************************************)
LEMMA NoCopies ==
  ASSUME TableInv', JobInv', \A u \in CPUs : cpu'[u].pc # "write"
  PROVE  EntryInv'
BY DEF EntryInv, CopyInv

LEMMA BindCommitKeeps ==
  ASSUME EntryInv, NEW t \in CPUs, BindCommit(t)
  PROVE  EntryInv'
<1> DEFINE s == cpu[t].slot
           f == cpu[t].copy.flow
<1>1. UNCHANGED entry_lock /\ f \in Flows
  BY DEF BindCommit, At, EntryInv, JobInv, Prepared
<1>2. CASE entry_lock = None /\ entry[s].state = "UNBIND"
  <2>1. entry' = [entry EXCEPT ![s] = Built(f)] /\ Goto(t, "bound")
    BY <1>2 DEF BindCommit
  <2> HIDE DEF s, f
  <2>2. Built(f) \in Good
    BY <1>1, BuiltComplete, CompleteGood
  <2>3. TableInv'
    BY <2>1, <2>2, OneEntry DEF EntryInv
  <2>4. PICK j : Onwards(t, j)
    BY <1>1, <2>1, GotoLater DEF Later
  <2>5. JobInv' /\ \A u \in CPUs : cpu'[u].pc = "write" => cpu[u].pc = "write"
    BY <2>4, JobStep DEF Onwards, EntryInv
  <2> QED BY <1>2, <2>3, <2>5, NoCopies, NobodyWrites DEF EntryInv
<1>3. CASE ~(entry_lock = None /\ entry[s].state = "UNBIND")
  BY <1>1, <1>3, EndOnwards, OnwardsKeeps DEF BindCommit
<1> QED BY <1>2, <1>3

LEMMA UpdateCopyKeeps ==
  ASSUME EntryInv, NEW t \in CPUs, UpdateCopy(t)
  PROVE  EntryInv'
<1> DEFINE s == cpu[t].slot
           e == entry[s]
           idle == e.state # "BIND" \/ ~IsIp(e) \/ Already(e, cpu[t].change)
<1>1. entry_lock = None /\ UNCHANGED entry /\ cpu[t].pc = "copy"
  BY DEF UpdateCopy, At
<1>2. s \in Slots /\ cpu[t].change \in Changes
  BY <1>1 DEF EntryInv, JobInv, Prepared
<1>3. e \in Good
  BY <1>2 DEF EntryInv, TableInv
<1>4. CASE idle
  <2>1. End(t) /\ UNCHANGED entry_lock
    BY <1>4 DEF UpdateCopy
  <2> QED BY <1>1, <2>1, EndOnwards, OnwardsKeeps
<1>5. CASE ~idle
  <2> DEFINE j == [cpu[t] EXCEPT !.pc = "write", !.copy = e]
  <2>1. entry_lock' = t /\ cpu' = [cpu EXCEPT ![t] = j] /\ e.state = "BIND"
    BY <1>5 DEF UpdateCopy
  <2>2. cpu[t] = [x \in JobFields |-> cpu[t][x]]
    BY DEF EntryInv, JobInv
  <2>3. Shaped(j) /\ j.pc = "write" /\ j.copy = e /\ j.slot = s /\ j.change = cpu[t].change
    BY <2>2 DEF Shaped, JobFields
  <2> HIDE DEF j, idle, e, s
  <2>4. Prepared(j)
    BY <1>2, <1>3, <2>1, <2>3 DEF Prepared, Good
  <2>5. \A u \in CPUs : cpu'[u] = IF u = t THEN j ELSE cpu[u]
    BY <2>1 DEF EntryInv, JobInv
  <2>6. \A u \in CPUs \ {t} : cpu'[u].pc # "write"
    BY <1>1, <2>5, NobodyWrites DEF EntryInv
  <2>7. JobInv'
    <3>1. cpu' = [u \in CPUs |-> cpu'[u]]
      BY <2>1 DEF EntryInv, JobInv
    <3>2. \A u \in CPUs : Shaped(cpu[u]) /\ Prepared(cpu[u])
      BY DEF EntryInv, JobInv, Shaped
    <3>3. \A u \in CPUs : Shaped(cpu'[u]) /\ Prepared(cpu'[u])
      BY <2>3, <2>4, <2>5, <3>2
    <3>4. cpu' = [u \in CPUs |-> [x \in JobFields |-> cpu'[u][x]]]
      BY <3>1, <3>3 DEF Shaped
    <3>5. \A u \in CPUs : cpu'[u].pc = "write" => entry_lock' = u
      BY <2>1, <2>6
    <3> QED BY <3>3, <3>4, <3>5 DEF JobInv, Prepared
  <2>8. CopyInv'
    <3> SUFFICES ASSUME NEW u \in CPUs, cpu'[u].pc = "write"
                 PROVE  Current(entry[cpu[u].slot], cpu[u])'
      BY DEF CopyInv
    <3>1. u = t /\ cpu'[u] = j
      BY <2>5, <2>6
    <3>2. entry'[s] = j.copy
      BY <1>1, <2>3 DEF e
    <3> QED BY <2>3, <3>1, <3>2 DEF Current
  <2>9. TableInv'
    BY <1>1 DEF EntryInv, TableInv
  <2> QED BY <2>7, <2>8, <2>9 DEF EntryInv
<1> QED BY <1>4, <1>5

LEMMA UpdateWriteKeeps ==
  ASSUME EntryInv, NEW t \in CPUs, UpdateWrite(t)
  PROVE  EntryInv'
<1> DEFINE s == cpu[t].slot
           e == cpu[t].copy
           c == cpu[t].change
<1>1. /\ cpu[t].pc = "write" /\ entry' = [entry EXCEPT ![s] = Changed(e, c)]
      /\ entry_lock' = None /\ End(t)
  BY DEF UpdateWrite, At
<1>2. s \in Slots /\ c \in Changes /\ e \in Form /\ Complete(e)
  BY <1>1 DEF EntryInv, JobInv, Prepared
<1> HIDE DEF s, e, c
<1>3. Changed(e, c) \in Good
  BY <1>2, ChangeKeeps, CompleteGood
<1>4. TableInv'
  BY <1>1, <1>3, OneEntry DEF EntryInv
<1>5. \A u \in CPUs : cpu'[u] = IF u = t THEN Rest ELSE cpu[u]
  BY <1>1 DEF EntryInv, JobInv, End
<1>6. \A u \in CPUs : cpu'[u].pc # "write"
  BY <1>1, <1>5, RestShape, NobodyElseWrites DEF EntryInv
<1>7. JobInv'
  <2>1. cpu' = [u \in CPUs |-> cpu'[u]]
    BY <1>1 DEF EntryInv, JobInv, End
  <2>2. \A u \in CPUs : Shaped(cpu[u]) /\ Prepared(cpu[u])
    BY DEF EntryInv, JobInv, Shaped
  <2>3. \A u \in CPUs : Shaped(cpu'[u]) /\ Prepared(cpu'[u])
    BY <1>5, <2>2, RestShape
  <2>4. cpu' = [u \in CPUs |-> [x \in JobFields |-> cpu'[u][x]]]
    BY <2>1, <2>3 DEF Shaped
  <2> QED BY <1>6, <2>3, <2>4 DEF JobInv, Prepared
<1> QED BY <1>4, <1>6, <1>7, NoCopies

LEMMA StaticPutKeeps ==
  ASSUME EntryInv, NEW t \in CPUs, StaticPut(t)
  PROVE  EntryInv'
<1> DEFINE s == cpu[t].slot
           e == cpu[t].copy
           over(u) == u # t /\ cpu[u].pc = "write" /\ cpu[u].slot = s
           marked(u) == [cpu[u] EXCEPT !.saw = "static"]
<1>1. /\ cpu[t].pc = "put" /\ UNCHANGED entry_lock
      /\ s \in Slots => entry' = [entry EXCEPT ![s] = e]
      /\ s \notin Slots => entry' = entry
      /\ cpu' = [u \in CPUs |-> IF u = t THEN Rest ELSE IF over(u) THEN marked(u) ELSE cpu[u]]
  BY DEF StaticPut, At
<1>2. e \in Good
  BY <1>1 DEF EntryInv, JobInv, Prepared
<1>3. \A u \in CPUs : cpu'[u] = IF u = t THEN Rest ELSE IF over(u) THEN marked(u) ELSE cpu[u]
  BY <1>1
<1>4. \A u \in CPUs : Shaped(cpu[u]) /\ Prepared(cpu[u])
  BY DEF EntryInv, JobInv, Shaped
<1>5. ASSUME NEW u \in CPUs
      PROVE  /\ Shaped(marked(u)) /\ marked(u).pc = cpu[u].pc /\ marked(u).slot = cpu[u].slot
             /\ marked(u).copy = cpu[u].copy /\ marked(u).change = cpu[u].change
             /\ marked(u).saw = "static" /\ Prepared(marked(u))
  <2>1. cpu[u] = [x \in JobFields |-> cpu[u][x]]
    BY <1>4 DEF Shaped
  <2>2. /\ Shaped(marked(u)) /\ marked(u).pc = cpu[u].pc /\ marked(u).slot = cpu[u].slot
        /\ marked(u).copy = cpu[u].copy /\ marked(u).change = cpu[u].change
        /\ marked(u).saw = "static"
    BY <2>1 DEF Shaped, JobFields
  <2> HIDE DEF marked
  <2> QED BY <1>4, <2>2 DEF Prepared
<1> HIDE DEF e, marked
<1>6. /\ TableInv'
      /\ \A r \in Slots : r # s => entry'[r] = entry[r]
  <2>1. CASE s \in Slots
    BY <1>1, <1>2, <2>1, OneEntry DEF EntryInv
  <2>2. CASE s \notin Slots
    BY <1>1, <2>2 DEF EntryInv, TableInv
  <2> QED BY <2>1, <2>2
<1>7. JobInv'
  <2>1. cpu' = [u \in CPUs |-> cpu'[u]]
    BY <1>1, <1>3
  <2>2. \A u \in CPUs : Shaped(cpu'[u]) /\ Prepared(cpu'[u])
    BY <1>3, <1>4, <1>5, RestShape
  <2>3. cpu' = [u \in CPUs |-> [x \in JobFields |-> cpu'[u][x]]]
    BY <2>1, <2>2 DEF Shaped
  <2>4. \A u \in CPUs : cpu'[u].pc = "write" => entry_lock' = u
    BY <1>1, <1>3, <1>5, RestShape DEF EntryInv, JobInv
  <2> QED BY <2>2, <2>3, <2>4 DEF JobInv, Prepared
<1>8. CopyInv'
  <2> SUFFICES ASSUME NEW u \in CPUs, cpu'[u].pc = "write"
               PROVE  Current(entry[cpu[u].slot], cpu[u])'
    BY DEF CopyInv
  <2>1. u # t
    BY <1>3, RestShape
  <2>2. CASE over(u)
    <3>1. cpu'[u].saw = "static"
      BY <1>3, <1>5, <2>1, <2>2
    <3>2. "static" # None
      BY TableAssumption
    <3> QED BY <3>1, <3>2 DEF Current
  <2>3. CASE ~over(u)
    <3>1. cpu'[u] = cpu[u]
      BY <1>3, <2>1, <2>3
    <3>2. cpu[u].pc = "write" /\ cpu[u].slot \in Slots /\ cpu[u].slot # s
      BY <1>4, <2>1, <2>3, <3>1 DEF Prepared
    <3>3. Current(entry[cpu[u].slot], cpu[u]) /\ entry'[cpu[u].slot] = entry[cpu[u].slot]
      BY <1>6, <3>2 DEF EntryInv, CopyInv
    <3> QED BY <3>1, <3>3 DEF Current
  <2> QED BY <2>2, <2>3
<1> QED BY <1>6, <1>7, <1>8 DEF EntryInv
-------------------------------------------------------------------------------
(***************************************************************************)
(* The theorems.                                                           *)
(***************************************************************************)
LEMMA InitEntries == Init => EntryInv
<1> SUFFICES ASSUME Init PROVE EntryInv
  OBVIOUS
<1>1. TableInv
  BY EmptyGood DEF Init, TableInv
<1>2. \A t \in CPUs : cpu[t] = Rest
  BY DEF Init
<1>3. cpu = [t \in CPUs |-> [x \in JobFields |-> cpu[t][x]]]
  BY <1>2, RestShape DEF Init, Shaped
<1> QED BY <1>1, <1>2, <1>3, RestShape DEF EntryInv, JobInv, CopyInv, Prepared

LEMMA NextEntries == EntryInv /\ [Next]_vars => EntryInv'
<1> SUFFICES ASSUME EntryInv, [Next]_vars PROVE EntryInv'
  OBVIOUS
<1>1. ASSUME NEW t \in CPUs, BindStart(t) \/ BindCommit(t) \/ BindTell(t) PROVE EntryInv'
  BY <1>1, BindStartKeeps, BindCommitKeeps, BindTellKeeps
<1>2. ASSUME NEW t \in CPUs, Update(t) \/ UpdateByTuple(t) \/ UpdateCopy(t) \/ UpdateWrite(t)
      PROVE  EntryInv'
  BY <1>2, UpdateKeeps, UpdateCopyKeeps, UpdateWriteKeeps
<1>3. ASSUME NEW t \in CPUs,
             \/ AcctReset(t) \/ Select(t) \/ FetchTimedOut(t) \/ Store(t) \/ Credit(t) \/ FinEnd(t)
             \/ ReadCount(t) \/ Show(t) \/ Keepalive(t) \/ FinPacket(t)
      PROVE  EntryInv'
  BY <1>3, PlainStepsKeep
<1>4. ASSUME NEW t \in CPUs, Fetch(t) \/ Load(t) \/ FinTell(t) \/ DscpUpdate(t) PROVE EntryInv'
  BY <1>4, FetchKeeps, LoadKeeps, FinTellKeeps, DscpUpdateKeeps
<1>5. ASSUME NEW t \in CPUs, StaticFind(t) \/ StaticPut(t) PROVE EntryInv'
  BY <1>5, StaticFindKeeps, StaticPutKeeps
<1>6. CASE DeleteByIndex \/ SeeFin \/ Age
  BY <1>6, StateStepsKeep
<1>7. CASE Learn \/ SetHashMode
  BY <1>7, LearnKeeps, SetHashModeKeeps
<1>8. CASE Forward \/ UNCHANGED vars
  <2>1. UNCHANGED <<entry, entry_lock, cpu>>
    BY <1>8 DEF Forward, vars
  <2> QED BY <2>1 DEF EntryInv, TableInv, JobInv, CopyInv, Prepared, Current
<1> QED BY <1>1, <1>2, <1>3, <1>4, <1>5, <1>6, <1>7, <1>8 DEF Next

LEMMA EntriesTell == EntryInv => TagMatches
BY DEF EntryInv, TableInv, Good, Complete, Tagging, TagMatches

(* However an entry was built, for whatever port and by whichever hooks,    *)
(* and whatever other modules set in whatever order and by however many     *)
(* CPUs at once, a bound entry that no administrator wrote says what        *)
(* follows: tag, bit 8 and layers are those of its VLANs and its port       *)
(* (hnat_entry_set_vlan, hnat_dsa_fill_stag).                               *)
THEOREM TagsKept == Spec => []TagMatches
<1>1. Spec => []EntryInv
  BY InitEntries, NextEntries, PTL DEF Spec
<1> QED BY <1>1, EntriesTell, PTL

LEMMA WriteOwn ==
  ASSUME EntryInv, NEW t \in CPUs, NEW f \in Settings \ {"dscp"}, UpdateWrite(t),
         entry[cpu[t].slot].state = "BIND", entry[cpu[t].slot].flow = cpu[t].copy.flow,
         cpu[t].saw = None
  PROVE  \/ entry'[cpu[t].slot].opt[f] = entry[cpu[t].slot].opt[f]
         \/ f = cpu[t].change.set \/ (f = "tport" /\ cpu[t].change.set = "qos")
<1> DEFINE s == cpu[t].slot
           e == cpu[t].copy
           c == cpu[t].change
<1>1. cpu[t].pc = "write" /\ entry' = [entry EXCEPT ![s] = Changed(e, c)]
  BY DEF UpdateWrite, At
<1>2. s \in Slots /\ c \in Changes /\ e \in Form
  BY <1>1 DEF EntryInv, JobInv, Prepared
<1>3. entry[s].opt[f] = e.opt[f]
  BY <1>1 DEF EntryInv, CopyInv, Current
<1> HIDE DEF s, e, c
<1>4. entry'[s] = Changed(e, c)
  BY <1>1, <1>2 DEF EntryInv, TableInv
<1>5. \/ Changed(e, c).opt[f] = e.opt[f] \/ f = c.set \/ (f = "tport" /\ c.set = "qos")
  BY <1>2, ChangeKeeps
<1>6. entry'[s].opt[f] = entry[s].opt[f] \/ f = c.set \/ (f = "tport" /\ c.set = "qos")
  BY <1>3, <1>4, <1>5
<1> QED BY <1>6 DEF s, c

(* An update that copied an entry under entry_lock writes back only its own *)
(* setting: none that another CPU made in between is lost, unless it was    *)
(* written without the lock (hnat_update_entry_generic).                    *)
THEOREM UpdatesOwn == Spec => UpdateOnlyOwn
<1>1. Spec => []EntryInv
  BY InitEntries, NextEntries, PTL DEF Spec
<1> DEFINE Own == \A t \in CPUs, f \in Settings \ {"dscp"} :
             LET s == cpu[t].slot
                 old == entry[s]
             IN  UpdateWrite(t) /\ old.state = "BIND" /\ old.flow = cpu[t].copy.flow /\ cpu[t].saw = None
                   => entry'[s].opt[f] = old.opt[f] \/ f = cpu[t].change.set
                        \/ (f = "tport" /\ cpu[t].change.set = "qos")
<1>2. EntryInv => Own
  BY WriteOwn
<1> HIDE DEF Own
<1>3. EntryInv => [Own]_vars
  BY <1>2
<1>4. []EntryInv => [][Own]_vars
  BY <1>3, PTL
<1> QED BY <1>1, <1>4 DEF UpdateOnlyOwn, Own
-------------------------------------------------------------------------------
(***************************************************************************)
(* Sums over finite sets.                                                  *)
(***************************************************************************)
(* Induction over subsets of a finite set.                                  *)
LEMMA LeastSet ==
  ASSUME NEW D, IsFiniteSet(D), NEW T, T \subseteq SUBSET D, T # {}
  PROVE  \E u \in T : \A v \in T : v \subseteq u => v = u
<1> DEFINE R == StrictSubsetOrdering(D)
<1>1. T \subseteq FiniteSubsetsOf(D)
  BY FS_Subset DEF FiniteSubsetsOf
<1>2. IsWellFoundedOn(R, FiniteSubsetsOf(D))
  BY FS_StrictSubsetOrderingWellFounded
<1>3. \E u \in T : \A v \in T : ~ (<<v, u>> \in R)
  <2> HIDE DEF R
  <2> QED BY <1>1, <1>2, WFMin
<1> QED BY <1>3 DEF StrictSubsetOrdering

Total(f) == FoldFunction(+, 0, f)

Chosen(s) == CHOOSE x \in s : TRUE

(* The function by which a fold over D is defined.                          *)
IsSum(g, f, T) ==
  g = [s \in T |-> IF s = {} THEN 0 ELSE f[Chosen(s)] + g[s \ {Chosen(s)}]]

LEMMA Without ==
  ASSUME NEW D, IsFiniteSet(D), NEW s \in SUBSET D, s # {}
  PROVE  /\ Chosen(s) \in s /\ s \ {Chosen(s)} \in SUBSET D /\ s \ {Chosen(s)} # s
         /\ Cardinality(s) \in Nat \ {0} /\ Cardinality(s \ {Chosen(s)}) = Cardinality(s) - 1
<1>1. Chosen(s) \in s
  BY DEF Chosen
<1>2. IsFiniteSet(s)
  BY FS_Subset
<1>3. Cardinality(s) \in Nat /\ Cardinality(s) # 0
  BY <1>2, FS_CardinalityType, FS_EmptySet
<1>4. Cardinality(s \ {Chosen(s)}) = Cardinality(s) - 1
  BY <1>1, <1>2, FS_RemoveElement
<1> QED BY <1>1, <1>3, <1>4

LEMMA SumExists ==
  ASSUME NEW D, IsFiniteSet(D), NEW f
  PROVE  \E g : IsSum(g, f, SUBSET D)
<1> DEFINE Upto(u) == {s \in SUBSET D : Cardinality(s) <= Cardinality(u)}
           Bad == {u \in SUBSET D : ~ \E g : IsSum(g, f, Upto(u))}
<1>1. Bad = {}
  <2> SUFFICES ASSUME Bad # {} PROVE FALSE
    OBVIOUS
  <2>1. PICK u \in Bad : \A v \in Bad : v \subseteq u => v = u
    <3>1. Bad \subseteq SUBSET D
      OBVIOUS
    <3> HIDE DEF Bad
    <3> QED BY <3>1, LeastSet
  <2>2. u \in SUBSET D /\ ~ \E g : IsSum(g, f, Upto(u))
    BY <2>1
  <2>3. CASE u = {}
    <3>1. \A s \in Upto(u) : s = {}
      <4> TAKE s \in Upto(u)
      <4>1. IsFiniteSet(s) /\ Cardinality(s) <= 0
        BY <2>3, FS_Subset, FS_EmptySet
      <4> QED BY <4>1, FS_CardinalityType, FS_EmptySet
    <3>2. IsSum([s \in Upto(u) |-> 0], f, Upto(u))
      <4> HIDE DEF Upto
      <4> QED BY <3>1 DEF IsSum
    <3> QED BY <3>2, <2>2
  <2>4. CASE u # {}
    <3> DEFINE v == u \ {Chosen(u)}
    <3>1. v \in SUBSET D /\ v # u /\ v \subseteq u /\ Cardinality(u) \in Nat \ {0}
          /\ Cardinality(v) = Cardinality(u) - 1
      BY <2>2, <2>4, Without
    <3>2. PICK g : IsSum(g, f, Upto(v))
      BY <2>1, <3>1
    <3> DEFINE h == [s \in Upto(u) |-> IF s = {} THEN 0 ELSE f[Chosen(s)] + g[s \ {Chosen(s)}]]
    <3>3. \A s \in Upto(u) : s # {} => s \ {Chosen(s)} \in Upto(v)
      <4> TAKE s \in Upto(u)
      <4> HAVE s # {}
      <4>1. s \in SUBSET D /\ Cardinality(s) <= Cardinality(u)
        OBVIOUS
      <4>2. s \ {Chosen(s)} \in SUBSET D /\ Cardinality(s) \in Nat
            /\ Cardinality(s \ {Chosen(s)}) = Cardinality(s) - 1
        BY <4>1, Without
      <4> QED BY <4>1, <4>2, <3>1
    <3>4. \A s \in Upto(v) : s \in Upto(u)
      <4> TAKE s \in Upto(v)
      <4>1. IsFiniteSet(s) /\ s \in SUBSET D /\ Cardinality(s) <= Cardinality(v)
        BY FS_Subset
      <4> QED BY <4>1, <3>1, FS_CardinalityType
    <3>5. \A s \in Upto(v) : h[s] = g[s]
      <4> HIDE DEF Upto, v
      <4> QED BY <3>2, <3>4 DEF IsSum
    <3>6. IsSum(h, f, Upto(u))
      <4>1. \A s \in Upto(u) : s # {} => h[s \ {Chosen(s)}] = g[s \ {Chosen(s)}]
        BY <3>3, <3>5
      <4> HIDE DEF Upto
      <4> QED BY <4>1 DEF IsSum
    <3> HIDE DEF h, Upto
    <3> QED BY <3>6, <2>2
  <2> QED BY <2>3, <2>4
<1>2. D \in SUBSET D /\ Upto(D) = SUBSET D
  <2>1. \A s \in SUBSET D : Cardinality(s) <= Cardinality(D)
    BY FS_Subset
  <2> QED BY <2>1
<1> QED BY <1>1, <1>2

LEMMA SumIs ==
  ASSUME NEW f, IsFiniteSet(DOMAIN f)
  PROVE  \E g : IsSum(g, f, SUBSET DOMAIN f) /\ Total(f) = g[DOMAIN f]
<1> DEFINE g == CHOOSE h : IsSum(h, f, SUBSET DOMAIN f)
<1>1. Total(f) = g[DOMAIN f]
  BY DEF Total, FoldFunction, FoldFunctionOnSet, MapThenFoldSet, Chosen, IsSum
<1>2. IsSum(g, f, SUBSET DOMAIN f)
  <2>1. \E h : IsSum(h, f, SUBSET DOMAIN f)
    BY SumExists
  <2> QED BY <2>1, Zenon
<1> QED BY <1>1, <1>2

(* A sum changes by what one of its terms changes.                          *)
LEMMA SumChanges ==
  ASSUME NEW D, IsFiniteSet(D), NEW f \in [D -> Int], NEW h \in [D -> Int], NEW a,
         \A x \in D \ {a} : h[x] = f[x]
  PROVE  /\ Total(f) \in Int
         /\ Total(h) = Total(f) + (IF a \in D THEN h[a] - f[a] ELSE 0)
         /\ (\A x \in D : f[x] = 0) => Total(f) = 0
<1>1. PICK p : IsSum(p, f, SUBSET D) /\ Total(f) = p[D]
  BY SumIs
<1>2. PICK q : IsSum(q, h, SUBSET D) /\ Total(h) = q[D]
  BY SumIs
<1> DEFINE Fits(s) ==
      /\ p[s] \in Int
      /\ q[s] = p[s] + (IF a \in s THEN h[a] - f[a] ELSE 0)
      /\ (\A x \in D : f[x] = 0) => p[s] = 0
           Bad == {s \in SUBSET D : ~Fits(s)}
<1>3. Bad = {}
  <2> SUFFICES ASSUME Bad # {} PROVE FALSE
    OBVIOUS
  <2>1. PICK u \in Bad : \A v \in Bad : v \subseteq u => v = u
    <3>1. Bad \subseteq SUBSET D
      OBVIOUS
    <3> HIDE DEF Bad
    <3> QED BY <3>1, LeastSet
  <2>2. u \in SUBSET D /\ ~Fits(u)
    BY <2>1
  <2>3. CASE u = {}
    <3>1. p[u] = 0 /\ q[u] = 0
      BY <1>1, <1>2, <2>3 DEF IsSum
    <3> QED BY <3>1, <2>2, <2>3
  <2>4. CASE u # {}
    <3> DEFINE x == Chosen(u)
               v == u \ {x}
    <3>1. x \in u /\ v \in SUBSET D /\ v # u /\ v \subseteq u
      BY <2>2, <2>4, Without
    <3>2. Fits(v)
      BY <2>1, <3>1
    <3>3. p[u] = f[x] + p[v]
      BY <1>1, <2>2, <2>4 DEF IsSum
    <3>4. q[u] = h[x] + q[v]
      BY <1>2, <2>2, <2>4 DEF IsSum
    <3>5. x \in D /\ f[x] \in Int /\ h[x] \in Int
      BY <2>2, <3>1
    <3>6. p[v] \in Int /\ p[u] \in Int
      BY <3>2, <3>3, <3>5
    <3>7. (\A y \in D : f[y] = 0) => p[u] = 0
      BY <3>2, <3>3, <3>5
    <3>8. CASE x = a
      <4>1. a \notin v /\ a \in u
        BY <3>1, <3>8
      <4>2. q[v] = p[v]
        BY <3>2, <4>1, <3>6
      <4> HIDE DEF x, v
      <4> QED BY <4>1, <4>2, <3>3, <3>4, <3>5, <3>6, <3>7, <3>8, <2>2
    <3>9. CASE x # a
      <4>1. h[x] = f[x] /\ (a \in v <=> a \in u)
        BY <2>2, <3>1, <3>5, <3>9
      <4>2. a \in u => h[a] \in Int /\ f[a] \in Int
        BY <2>2
      <4> DEFINE d == IF a \in u THEN h[a] - f[a] ELSE 0
      <4>3. d \in Int /\ q[v] = p[v] + d
        BY <3>2, <4>1, <4>2
      <4> HIDE DEF x, v, d
      <4>4. q[u] = p[u] + d
        BY <4>1, <4>3, <3>3, <3>4, <3>5, <3>6
      <4> QED BY <4>4, <3>6, <3>7, <2>2 DEF d
    <3> QED BY <3>8, <3>9
  <2> QED BY <2>3, <2>4
<1>4. Fits(D)
  BY <1>3
<1> QED BY <1>1, <1>2, <1>4
-------------------------------------------------------------------------------
(***************************************************************************)
(* Every packet the engine counted in an entry is in its counter, on its   *)
(* way to the account, or in it.                                           *)
(***************************************************************************)
(* Packets of entry s that job j has taken from the engine and not yet      *)
(* added.                                                                   *)
Carries(j, s, latched) ==
  IF j.slot # s THEN 0
  ELSE IF j.pc = "fetch" THEN latched ELSE IF j.pc \in {"load", "store"} THEN j.val ELSE 0

Carried(jobs, s, latched) == Total([t \in CPUs |-> Carries(jobs[t], s, latched)])

(* Packets of entry s that are not in the account.                          *)
Afoot(s) == mib[s] + Carried(cpu, s, ser)

Sound(j) ==
  /\ Shaped(j) /\ j.val \in Nat /\ j.base \in Nat
  /\ j.pc \in {"select", "fetch", "load", "store"} => j.slot \in Slots
  /\ j.job = None => j.pc = "rest"

AcctInv ==
  /\ acct = [s \in Slots |-> [packets |-> acct[s].packets, iif |-> acct[s].iif]]
  /\ \A s \in Slots : acct[s].packets \in Nat

CountTypes ==
  /\ mib \in [Slots -> Nat] /\ ser \in Nat /\ due \in [Slots -> Int] /\ AcctInv
  /\ cpu = [t \in CPUs |-> cpu[t]] /\ \A t \in CPUs : Sound(cpu[t])

(* Readers that share the register are known.                               *)
Alone ==
  \A t, u \in CPUs : At(t, "fetch") /\ At(u, "fetch") /\ t # u => cpu[t].slot \in crossed

(* Neither the account nor what an addition under way makes of it counts    *)
(* more than there was ...                                                  *)
Bounded(s) ==
  /\ acct[s].packets + Afoot(s) <= due[s]
  /\ \A t \in Storing(s) : cpu[t].base + Afoot(s) <= due[s]

(* ... nor less, if one at a time adds.                                     *)
Exact(s) ==
  /\ acct[s].packets + Afoot(s) = due[s]
  /\ \A t \in Storing(s) : cpu[t].base = acct[s].packets
  /\ \A t, u \in Storing(s) : t = u

SlotInv(s) == s \notin crossed => Bounded(s) /\ (s \notin lossy => Exact(s))

CountInv == CountTypes /\ Alone /\ \A s \in Slots : SlotInv(s)

LEMMA CarriedType ==
  ASSUME NEW c, \A t \in CPUs : c[t].val \in Nat, NEW n \in Nat, NEW s
  PROVE  /\ [t \in CPUs |-> Carries(c[t], s, n)] \in [CPUs -> Int]
         /\ Carried(c, s, n) \in Int
<1> DEFINE f == [t \in CPUs |-> Carries(c[t], s, n)]
<1>1. f \in [CPUs -> Int]
  BY DEF Carries
<1> HIDE DEF f
<1>2. Total(f) \in Int
  BY <1>1, TableAssumption, SumChanges
<1> QED BY <1>1, <1>2 DEF Carried, f

(* What is on its way changes by what one CPU's share does.                 *)
LEMMA CarriedChanges ==
  ASSUME NEW c, \A t \in CPUs : c[t].val \in Nat, NEW n \in Nat,
         NEW d, \A t \in CPUs : d[t].val \in Nat, NEW m \in Nat,
         NEW s, NEW a \in CPUs, \A u \in CPUs \ {a} : Carries(d[u], s, m) = Carries(c[u], s, n)
  PROVE  /\ Carried(c, s, n) \in Int
         /\ Carried(d, s, m) = Carried(c, s, n) + (Carries(d[a], s, m) - Carries(c[a], s, n))
<1> DEFINE f == [t \in CPUs |-> Carries(c[t], s, n)]
           h == [t \in CPUs |-> Carries(d[t], s, m)]
<1>1. f \in [CPUs -> Int] /\ Carried(c, s, n) \in Int
  BY CarriedType
<1>2. h \in [CPUs -> Int]
  BY CarriedType
<1>3. \A u \in CPUs \ {a} : h[u] = f[u]
  OBVIOUS
<1>4. h[a] = Carries(d[a], s, m) /\ f[a] = Carries(c[a], s, n)
  OBVIOUS
<1>5. Carried(c, s, n) = Total(f) /\ Carried(d, s, m) = Total(h)
  BY DEF Carried
<1> HIDE DEF f, h
<1>6. Total(h) = Total(f) + (IF a \in CPUs THEN h[a] - f[a] ELSE 0)
  BY <1>1, <1>2, <1>3, TableAssumption, SumChanges
<1> QED BY <1>1, <1>4, <1>5, <1>6

LEMMA CarriedSame ==
  ASSUME NEW c, NEW n, NEW d, NEW m, NEW s,
         \A u \in CPUs : Carries(d[u], s, m) = Carries(c[u], s, n)
  PROVE  Carried(d, s, m) = Carried(c, s, n)
<1>1. [t \in CPUs |-> Carries(d[t], s, m)] = [t \in CPUs |-> Carries(c[t], s, n)]
  OBVIOUS
<1> QED BY <1>1 DEF Carried

LEMMA SlotTypes ==
  ASSUME CountTypes, NEW s \in Slots
  PROVE  /\ acct[s].packets \in Int /\ mib[s] \in Nat /\ due[s] \in Int
         /\ Carried(cpu, s, ser) \in Int /\ Afoot(s) \in Int
         /\ \A t \in CPUs : cpu[t].val \in Nat /\ cpu[t].base \in Nat
<1>1. ser \in Nat /\ \A t \in CPUs : cpu[t].val \in Nat /\ cpu[t].base \in Nat
  BY DEF CountTypes, Sound
<1>2. Carried(cpu, s, ser) \in Int
  BY <1>1, CarriedType
<1>3. acct[s].packets \in Int /\ mib[s] \in Nat /\ due[s] \in Int
  BY DEF CountTypes, AcctInv
<1>4. Afoot(s) \in Int
  BY <1>2, <1>3 DEF Afoot
<1> QED BY <1>1, <1>2, <1>3, <1>4

LEMMA ConservedCounts == CountInv => CountsConserved
<1> SUFFICES ASSUME CountInv, NEW s \in Slots \ crossed
             PROVE  LET found == mib[s] + acct[s].packets
                                   + FoldFunction(+, 0, [t \in CPUs |-> OnItsWay(t, s)])
                    IN  found <= due[s] /\ (s \notin lossy => found = due[s])
  BY DEF CountsConserved
<1> DEFINE way == FoldFunction(+, 0, [t \in CPUs |-> OnItsWay(t, s)])
<1>1. \A t \in CPUs : OnItsWay(t, s) = Carries(cpu[t], s, ser)
  BY DEF OnItsWay, Carries, At
<1>2. way = Carried(cpu, s, ser)
  <2>1. [t \in CPUs |-> OnItsWay(t, s)] = [t \in CPUs |-> Carries(cpu[t], s, ser)]
    BY <1>1
  <2> QED BY <2>1 DEF Carried, Total
<1> HIDE DEF way
<1>3. Bounded(s) /\ (s \notin lossy => Exact(s))
  BY DEF CountInv, SlotInv
<1>4. /\ acct[s].packets \in Int /\ mib[s] \in Nat /\ due[s] \in Int
      /\ Carried(cpu, s, ser) \in Int
  BY SlotTypes DEF CountInv
<1>5. mib[s] + acct[s].packets + way = acct[s].packets + Afoot(s)
  BY <1>2, <1>4 DEF Afoot
<1>6. acct[s].packets + Afoot(s) <= due[s] /\ (s \notin lossy => acct[s].packets + Afoot(s) = due[s])
  BY <1>3 DEF Bounded, Exact
<1>7. mib[s] + acct[s].packets + way <= due[s]
      /\ (s \notin lossy => mib[s] + acct[s].packets + way = due[s])
  BY <1>5, <1>6
<1> QED BY <1>7 DEF way

LEMMA RestSound == Sound(Rest) /\ \A s, n : Carries(Rest, s, n) = 0
BY RestShape DEF Sound, Rest, Carries

LEMMA InitCounts == Init => CountInv
<1> SUFFICES ASSUME Init PROVE CountInv
  OBVIOUS
<1>1. /\ mib = [s \in Slots |-> 0] /\ ser = 0 /\ due = [s \in Slots |-> 0]
      /\ acct = [s \in Slots |-> [packets |-> 0, iif |-> None]]
      /\ cpu = [t \in CPUs |-> cpu[t]] /\ \A t \in CPUs : cpu[t] = Rest
  BY DEF Init
<1>2. AcctInv
  <2>1. \A s \in Slots : acct[s].packets = 0 /\ acct[s].iif = None
    BY <1>1
  <2>2. acct = [s \in Slots |-> [packets |-> acct[s].packets, iif |-> acct[s].iif]]
    BY <1>1, <2>1
  <2> QED BY <2>1, <2>2 DEF AcctInv
<1>3. CountTypes
  BY <1>1, <1>2, RestSound DEF CountTypes
<1>4. \A t \in CPUs : cpu[t].pc = "rest"
  BY <1>1, RestShape
<1>5. Alone
  BY <1>4 DEF Alone, At
<1>6. ASSUME NEW s \in Slots PROVE SlotInv(s)
  <2>1. Storing(s) = {}
    BY <1>4 DEF Storing, At
  <2>2. Carried(cpu, s, ser) = 0
    <3> DEFINE f == [t \in CPUs |-> Carries(cpu[t], s, ser)]
    <3>1. f \in [CPUs -> Int] /\ \A t \in CPUs : f[t] = 0
      BY <1>1, RestSound
    <3> HIDE DEF f
    <3>2. Total(f) = 0
      BY <3>1, TableAssumption, SumChanges
    <3> QED BY <3>2 DEF f, Carried
  <2>3. mib[s] = 0 /\ acct[s].packets = 0 /\ due[s] = 0
    BY <1>1
  <2>4. acct[s].packets + Afoot(s) = due[s] /\ acct[s].packets + Afoot(s) <= due[s]
    BY <2>2, <2>3 DEF Afoot
  <2> QED BY <2>1, <2>4 DEF SlotInv, Bounded, Exact
<1> QED BY <1>3, <1>5, <1>6 DEF CountInv

(* One CPU goes on with job j.                                              *)
Takes(t, j) == cpu' = [cpu EXCEPT ![t] = j] /\ Sound(j)

LEMMA TakesSound ==
  ASSUME CountTypes, NEW t \in CPUs, NEW j, Takes(t, j)
  PROVE  /\ cpu' = [u \in CPUs |-> cpu'[u]] /\ \A u \in CPUs : Sound(cpu'[u])
         /\ \A u \in CPUs : cpu'[u] = IF u = t THEN j ELSE cpu[u]
<1>1. cpu' = [u \in CPUs |-> IF u = t THEN j ELSE cpu[u]]
  BY DEF CountTypes, Takes
<1> QED BY <1>1 DEF CountTypes, Takes

(* An entry for which k packets more are due and k more are afoot, while    *)
(* nobody begins to add.                                                    *)
LEMMA SlotSame ==
  ASSUME CountInv, NEW r \in Slots, NEW k \in Int,
         r \notin crossed' => r \notin crossed, r \notin lossy' => r \notin lossy,
         acct'[r].packets = acct[r].packets, Afoot(r)' = Afoot(r) + k, due'[r] = due[r] + k,
         \A u \in CPUs : cpu'[u].pc = "store" /\ cpu'[u].slot = r
           => cpu[u].pc = "store" /\ cpu[u].slot = r /\ cpu'[u].base = cpu[u].base
  PROVE  SlotInv(r)'
<1> SUFFICES ASSUME r \notin crossed' PROVE Bounded(r)' /\ (r \notin lossy' => Exact(r)')
  BY DEF SlotInv
<1>1. Bounded(r) /\ (r \notin lossy => Exact(r))
  BY DEF CountInv, SlotInv
<1>2. /\ acct[r].packets \in Int /\ due[r] \in Int /\ Afoot(r) \in Int
      /\ \A t \in CPUs : cpu[t].base \in Nat
  BY SlotTypes DEF CountInv
<1> DEFINE a == Afoot(r)
           b == Afoot(r)'
<1>3. a \in Int /\ b = a + k
  BY <1>2
<1>4. Storing(r)' \subseteq Storing(r) /\ \A u \in Storing(r)' : cpu'[u].base = cpu[u].base
  BY DEF Storing, At
<1>5. /\ acct[r].packets + a <= due[r]
      /\ \A t \in Storing(r) : cpu[t].base + a <= due[r] /\ t \in CPUs
  BY <1>1 DEF Bounded, Storing
<1>6. r \notin lossy => /\ acct[r].packets + a = due[r]
                        /\ \A t \in Storing(r) : cpu[t].base = acct[r].packets
                        /\ \A t, u \in Storing(r) : t = u
  BY <1>1 DEF Exact
<1> HIDE DEF a, b
<1>7. acct'[r].packets + b <= due'[r]
  BY <1>2, <1>3, <1>5
<1>8. \A t \in Storing(r)' : cpu'[t].base + b <= due'[r]
  <2> DEFINE S == Storing(r)
             S2 == Storing(r)'
  <2> SUFFICES ASSUME NEW t \in S2 PROVE cpu'[t].base + b <= due'[r]
    OBVIOUS
  <2>1. t \in S /\ cpu'[t].base = cpu[t].base
    BY <1>4
  <2>2. cpu[t].base + a <= due[r] /\ cpu[t].base \in Nat
    BY <1>2, <1>5, <2>1
  <2> HIDE DEF S, S2
  <2> QED BY <1>2, <1>3, <2>1, <2>2
<1>9. Bounded(r)'
  BY <1>7, <1>8 DEF Bounded, b
<1>10. ASSUME r \notin lossy' PROVE Exact(r)'
  <2>1. acct'[r].packets + b = due'[r]
    BY <1>2, <1>3, <1>6, <1>10
  <2>2. /\ \A t \in Storing(r)' : cpu'[t].base = acct'[r].packets
        /\ \A t, u \in Storing(r)' : t = u
    BY <1>4, <1>6, <1>10
  <2> QED BY <2>1, <2>2 DEF Exact, b
<1> QED BY <1>9, <1>10

(* Jobs that read, fetch and add, and those whose counts do not change.     *)
Reading == {"fetch", "load", "store"}

Alike(j, k) ==
  \/ k.pc = j.pc /\ k.slot = j.slot /\ k.val = j.val /\ k.base = j.base
  \/ j.pc \notin Reading /\ k.pc \notin Reading

(* A step that moves no count.                                              *)
LEMMA QuietCounts ==
  ASSUME CountInv, cpu' = [u \in CPUs |-> cpu'[u]],
         \A u \in CPUs : Sound(cpu'[u]) /\ Alike(cpu[u], cpu'[u]),
         UNCHANGED <<mib, ser, due, crossed, lossy>>, AcctInv',
         \A s \in Slots : acct'[s].packets = acct[s].packets
  PROVE  CountInv'
<1>1. CountTypes'
  BY DEF CountInv, CountTypes
<1>2. Alone'
  <2>1. \A u \in CPUs : cpu'[u].pc = "fetch" => cpu[u].pc = "fetch" /\ cpu'[u].slot = cpu[u].slot
    BY DEF Alike, Reading
  <2> QED BY <2>1 DEF CountInv, Alone, At
<1>3. ASSUME NEW s \in Slots PROVE SlotInv(s)'
  <2>1. \A u \in CPUs : Carries(cpu'[u], s, ser') = Carries(cpu[u], s, ser)
    BY DEF Alike, Carries, Reading
  <2>2. Carried(cpu', s, ser') = Carried(cpu, s, ser)
    BY <2>1, CarriedSame
  <2>3. Afoot(s)' = Afoot(s)
    BY <2>2 DEF Afoot
  <2>4. Afoot(s) \in Int /\ due[s] \in Int
    BY SlotTypes DEF CountInv
  <2>5. Afoot(s)' = Afoot(s) + 0 /\ due'[s] = due[s] + 0
    BY <2>3, <2>4
  <2>6. \A u \in CPUs : cpu'[u].pc = "store" /\ cpu'[u].slot = s
          => cpu[u].pc = "store" /\ cpu[u].slot = s /\ cpu'[u].base = cpu[u].base
    BY DEF Alike, Reading
  <2>7. (s \notin crossed' => s \notin crossed) /\ (s \notin lossy' => s \notin lossy)
        /\ acct'[s].packets = acct[s].packets
    OBVIOUS
  <2>8. 0 \in Int
    OBVIOUS
  <2> QED BY <2>5, <2>6, <2>7, <2>8, SlotSame, Zenon
<1> QED BY <1>1, <1>2, <1>3 DEF CountInv

LEMMA QuietTakes ==
  ASSUME CountInv, NEW t \in CPUs, NEW j, Takes(t, j), Alike(cpu[t], j),
         UNCHANGED <<mib, ser, due, crossed, lossy>>, AcctInv',
         \A s \in Slots : acct'[s].packets = acct[s].packets
  PROVE  CountInv'
<1>1. /\ cpu' = [u \in CPUs |-> cpu'[u]] /\ \A u \in CPUs : Sound(cpu'[u])
      /\ \A u \in CPUs : cpu'[u] = IF u = t THEN j ELSE cpu[u]
  BY TakesSound DEF CountInv
<1>2. \A u \in CPUs : Alike(cpu[u], cpu'[u])
  BY <1>1 DEF Alike
<1> QED BY <1>1, <1>2, QuietCounts

LEMMA SameAcct ==
  ASSUME CountInv, UNCHANGED acct
  PROVE  AcctInv' /\ \A s \in Slots : acct'[s].packets = acct[s].packets
BY DEF CountInv, CountTypes, AcctInv

LEMMA EndTakes ==
  ASSUME NEW t \in CPUs, End(t)
  PROVE  Takes(t, Rest) /\ Rest.pc \notin Reading
BY RestSound, RestShape DEF End, Takes, Reading

LEMMA BeginTakes ==
  ASSUME CountInv, NEW t \in CPUs, NEW job \in {"bind", "read", "keepalive", "fin"},
         NEW s \in Slots, NEW pc \in {"commit", "select"}, Begin(t, job, s, pc)
  PROVE  \E j : Takes(t, j) /\ Alike(cpu[t], j)
<1> DEFINE j == [Rest EXCEPT !.job = job, !.slot = s, !.pc = pc, !.copy.flow = entry[s].flow]
<1>1. j.pc = pc /\ j.job = job /\ j.slot = s /\ j.val = 0 /\ j.base = 0
  BY DEF Rest
<1>2. Shaped(j)
  BY RestShape DEF Shaped, JobFields, Rest
<1>3. cpu' = [cpu EXCEPT ![t] = j] /\ cpu[t].job = None
  BY DEF Begin
<1> HIDE DEF j
<1>4. j.job # None
  BY <1>1, TableAssumption
<1>5. Sound(j)
  BY <1>1, <1>2, <1>4 DEF Sound
<1>6. cpu[t].pc = "rest"
  BY <1>3 DEF CountInv, CountTypes, Sound
<1>7. Alike(cpu[t], j)
  BY <1>1, <1>6 DEF Alike, Reading
<1> QED BY <1>3, <1>5, <1>7 DEF Takes

(* A job whose pc, and what is given besides, change.                       *)
LEMMA NextSound ==
  ASSUME CountTypes, NEW t \in CPUs, cpu[t].pc # "rest", NEW j, Shaped(j), j.job = cpu[t].job,
         j.slot = cpu[t].slot, j.val \in Nat, j.base \in Nat,
         j.pc \in {"select", "fetch", "load", "store"} => cpu[t].pc \in {"select", "fetch", "load", "store"}
  PROVE  Sound(j)
BY DEF CountTypes, Sound

LEMMA LeaveTakes ==
  ASSUME CountInv, NEW t \in CPUs, cpu[t].pc # "rest", Leave(t)
  PROVE  \E j : Takes(t, j) /\ j.pc \notin Reading
<1>1. CASE After(t) = "rest"
  BY <1>1, EndTakes DEF Leave
<1>2. CASE After(t) # "rest"
  <2> DEFINE j == [cpu[t] EXCEPT !.pc = After(t), !.val = 0, !.base = 0]
  <2>1. cpu[t] = [x \in JobFields |-> cpu[t][x]]
    BY DEF CountInv, CountTypes, Sound, Shaped
  <2>2. /\ Shaped(j) /\ j.pc = After(t) /\ j.job = cpu[t].job /\ j.slot = cpu[t].slot
        /\ j.val = 0 /\ j.base = 0
    BY <2>1 DEF Shaped, JobFields
  <2>3. cpu' = [cpu EXCEPT ![t] = j]
    BY <1>2 DEF Leave
  <2>4. After(t) \in {"fintell", "dscp"}
    BY <1>2 DEF After
  <2> HIDE DEF j
  <2>5. Sound(j)
    BY <2>2, <2>4, NextSound DEF CountInv
  <2>6. j.pc \notin Reading
    BY <2>2, <2>4 DEF Reading
  <2> QED BY <2>3, <2>5, <2>6 DEF Takes
<1> QED BY <1>1, <1>2

(* A job goes on to a step that has nothing to do with counts.              *)
LEMMA AsideSound ==
  ASSUME CountInv, NEW t \in CPUs, cpu[t].pc \notin Reading \cup {"rest"}, NEW j,
         Shaped(j), j.job = cpu[t].job, j.slot = cpu[t].slot, j.val = cpu[t].val, j.base = cpu[t].base,
         j.pc \notin Reading \cup {"select"}, cpu' = [cpu EXCEPT ![t] = j]
  PROVE  Takes(t, j) /\ Alike(cpu[t], j)
<1>1. j.val \in Nat /\ j.base \in Nat
  BY DEF CountInv, CountTypes, Sound
<1>2. Sound(j)
  BY <1>1, NextSound DEF CountInv, Reading
<1> QED BY <1>2 DEF Takes, Alike

(* Jobs that start or go on without a count.                                *)
LEMMA OtherJobsCount ==
  ASSUME CountInv, NEW t \in CPUs,
         \/ BindStart(t) \/ BindTell(t) \/ ReadCount(t) \/ Show(t)
         \/ FinPacket(t) \/ FinTell(t) \/ FinEnd(t) \/ DscpUpdate(t) \/ BindCommit(t)
  PROVE  CountInv'
<1>1. UNCHANGED <<mib, ser, due, crossed, lossy>> /\ UNCHANGED acct
  BY DEF BindStart, BindTell, ReadCount, Show, FinPacket, FinTell, FinEnd, DscpUpdate, BindCommit,
         counters
<1>2. AcctInv' /\ \A s \in Slots : acct'[s].packets = acct[s].packets
  BY <1>1, SameAcct
<1>3. \/ End(t) /\ cpu[t].pc \in {"finend", "dscp", "commit"}
      \/ \E s \in Slots : Begin(t, "bind", s, "commit")
      \/ \E s \in Slots : \E job \in {"read", "fin"} : Begin(t, job, s, "select")
      \/ \E w : \/ cpu[t].pc = "bound" /\ cpu' = [cpu EXCEPT ![t] = [cpu[t] EXCEPT !.pc = "reset", !.saw = w]]
                \/ cpu[t].pc = "fintell" /\ cpu' = [cpu EXCEPT ![t] = [cpu[t] EXCEPT !.pc = "finend", !.saw = w]]
      \/ cpu[t].pc = "commit" /\ Goto(t, "bound")
  <2>1. CASE BindTell(t)
    <3> DEFINE w == IF ApiSupported(Built(cpu[t].copy.flow)) THEN Reported(cpu[t].slot) ELSE None
    <3>1. cpu[t].pc = "bound" /\ cpu' = [cpu EXCEPT ![t] = [cpu[t] EXCEPT !.pc = "reset", !.saw = w]]
      BY <2>1 DEF BindTell, At
    <3> HIDE DEF w
    <3> QED BY <3>1
  <2>2. CASE FinTell(t)
    <3> DEFINE w == IF ApiSupported(entry[cpu[t].slot]) THEN Reported(cpu[t].slot) ELSE None
    <3>1. cpu[t].pc = "fintell" /\ cpu' = [cpu EXCEPT ![t] = [cpu[t] EXCEPT !.pc = "finend", !.saw = w]]
      BY <2>2 DEF FinTell, At
    <3> HIDE DEF w
    <3> QED BY <3>1
  <2>3. CASE FinEnd(t) \/ DscpUpdate(t) \/ BindCommit(t)
    BY <2>3 DEF FinEnd, DscpUpdate, BindCommit, At
  <2>4. CASE BindStart(t) \/ ReadCount(t) \/ Show(t) \/ FinPacket(t)
    BY <2>4 DEF BindStart, ReadCount, Show, FinPacket
  <2> QED BY <2>1, <2>2, <2>3, <2>4
<1>4. CASE End(t) /\ cpu[t].pc \in {"finend", "dscp", "commit"}
  <2>1. Takes(t, Rest) /\ Alike(cpu[t], Rest)
    BY <1>4, EndTakes DEF Alike, Reading
  <2> QED BY <1>1, <1>2, <2>1, QuietTakes
<1>5. ASSUME NEW s \in Slots, NEW job \in {"bind", "read", "keepalive", "fin"},
             NEW pc \in {"commit", "select"}, Begin(t, job, s, pc)
      PROVE  CountInv'
  BY <1>1, <1>2, <1>5, BeginTakes, QuietTakes
<1>6. ASSUME NEW w, NEW a \in {"bound", "fintell"}, NEW b \in {"reset", "finend"}, cpu[t].pc = a,
             cpu' = [cpu EXCEPT ![t] = [cpu[t] EXCEPT !.pc = b, !.saw = w]]
      PROVE  CountInv'
  <2> DEFINE j == [cpu[t] EXCEPT !.pc = b, !.saw = w]
  <2>1. cpu[t] = [x \in JobFields |-> cpu[t][x]]
    BY DEF CountInv, CountTypes, Sound, Shaped
  <2>2. /\ Shaped(j) /\ j.pc = b /\ j.job = cpu[t].job /\ j.slot = cpu[t].slot /\ j.val = cpu[t].val
        /\ j.base = cpu[t].base
    BY <2>1 DEF Shaped, JobFields
  <2>3. cpu' = [cpu EXCEPT ![t] = j]
    BY <1>6
  <2> HIDE DEF j
  <2>4. Takes(t, j) /\ Alike(cpu[t], j)
    BY <1>6, <2>2, <2>3, AsideSound DEF Reading
  <2> QED BY <1>1, <1>2, <2>4, QuietTakes
<1>7. CASE cpu[t].pc = "commit" /\ Goto(t, "bound")
  <2> DEFINE j == [cpu[t] EXCEPT !.pc = "bound"]
  <2>1. cpu[t] = [x \in JobFields |-> cpu[t][x]]
    BY DEF CountInv, CountTypes, Sound, Shaped
  <2>2. /\ Shaped(j) /\ j.pc = "bound" /\ j.job = cpu[t].job /\ j.slot = cpu[t].slot /\ j.val = cpu[t].val
        /\ j.base = cpu[t].base
    BY <2>1 DEF Shaped, JobFields
  <2>3. cpu' = [cpu EXCEPT ![t] = j]
    BY <1>7 DEF Goto
  <2> HIDE DEF j
  <2>4. Takes(t, j) /\ Alike(cpu[t], j)
    BY <1>7, <2>2, <2>3, AsideSound DEF Reading
  <2> QED BY <1>1, <1>2, <2>4, QuietTakes
<1> QED BY <1>3, <1>4, <1>5, <1>6, <1>7

(* A keep-alive packet notes the device of the account, not its packets.    *)
LEMMA KeepaliveCounts ==
  ASSUME CountInv, NEW t \in CPUs, Keepalive(t)
  PROVE  CountInv'
<1>1. PICK s \in Slots :
        /\ Begin(t, "keepalive", s, "select")
        /\ acct' = [acct EXCEPT ![s].iif = IF acct[s].iif = None THEN entry[s].flow ELSE acct[s].iif]
  BY DEF Keepalive
<1>2. UNCHANGED <<mib, ser, due, crossed, lossy>>
  BY DEF Keepalive
<1> DEFINE w == IF acct[s].iif = None THEN entry[s].flow ELSE acct[s].iif
<1>3. acct' = [acct EXCEPT ![s] = [acct[s] EXCEPT !.iif = w]]
  BY <1>1
<1> HIDE DEF w
<1>4. acct = [r \in Slots |-> [packets |-> acct[r].packets, iif |-> acct[r].iif]]
  BY DEF CountInv, CountTypes, AcctInv
<1>5. acct' = [r \in Slots |-> [packets |-> acct[r].packets, iif |-> IF r = s THEN w ELSE acct[r].iif]]
  BY <1>3, <1>4
<1>6. \A r \in Slots : acct'[r].packets = acct[r].packets /\ acct[r].packets \in Nat
  BY <1>5 DEF CountInv, CountTypes, AcctInv
<1>7. AcctInv'
  <2>1. \A r \in Slots : acct'[r] = [packets |-> acct'[r].packets, iif |-> acct'[r].iif]
    BY <1>5
  <2>2. acct' = [r \in Slots |-> acct'[r]]
    BY <1>5
  <2>3. acct' = [r \in Slots |-> [packets |-> acct'[r].packets, iif |-> acct'[r].iif]]
    BY <2>1, <2>2
  <2> QED BY <1>6, <2>3 DEF AcctInv
<1>8. PICK j : Takes(t, j) /\ Alike(cpu[t], j)
  BY <1>1, BeginTakes
<1> QED BY <1>2, <1>6, <1>7, <1>8, QuietTakes

(* A job of another module, or of who writes entries by hand, begins.       *)
LEMMA AsideTakes ==
  ASSUME CountInv, NEW t \in CPUs, cpu[t].job = None, NEW j, cpu' = [cpu EXCEPT ![t] = j],
         Shaped(j), j.val = 0, j.base = 0, j.job \in {"update", "static"}, j.pc \in {"copy", "put"}
  PROVE  Takes(t, j) /\ Alike(cpu[t], j)
<1>1. j.job # None
  BY TableAssumption
<1>2. cpu[t].pc = "rest"
  BY DEF CountInv, CountTypes, Sound
<1> QED BY <1>1, <1>2 DEF Takes, Sound, Alike, Reading

LEMMA UpdatesCount ==
  ASSUME CountInv, NEW t \in CPUs, Update(t) \/ UpdateByTuple(t) \/ StaticFind(t)
  PROVE  CountInv'
<1>1. UNCHANGED <<mib, ser, due, crossed, lossy>> /\ UNCHANGED acct /\ cpu[t].job = None
  BY DEF Update, UpdateByTuple, StaticFind, counters
<1>2. AcctInv' /\ \A s \in Slots : acct'[s].packets = acct[s].packets
  BY <1>1, SameAcct
<1>3. \/ \E s, c : cpu' = [cpu EXCEPT ![t] = [Rest EXCEPT !.job = "update", !.pc = "copy", !.slot = s, !.change = c]]
      \/ \E s, c : cpu' = [cpu EXCEPT ![t] = [Rest EXCEPT !.job = "update", !.pc = "copy", !.change = c, !.slot = s]]
      \/ \E s, e : cpu' = [cpu EXCEPT ![t] = [Rest EXCEPT !.job = "static", !.pc = "put", !.slot = s, !.copy = e]]
  <2>1. CASE Update(t)
    BY <2>1 DEF Update
  <2>2. CASE UpdateByTuple(t)
    BY <2>2 DEF UpdateByTuple
  <2>3. CASE StaticFind(t)
    BY <2>3 DEF StaticFind
  <2> QED BY <2>1, <2>2, <2>3
<1>4. PICK j : /\ cpu' = [cpu EXCEPT ![t] = j] /\ Shaped(j) /\ j.val = 0 /\ j.base = 0
               /\ j.job \in {"update", "static"} /\ j.pc \in {"copy", "put"}
  <2> DEFINE fits(j) == /\ cpu' = [cpu EXCEPT ![t] = j] /\ Shaped(j) /\ j.val = 0 /\ j.base = 0
                        /\ j.job \in {"update", "static"} /\ j.pc \in {"copy", "put"}
  <2>1. ASSUME NEW s, NEW c,
               cpu' = [cpu EXCEPT ![t] = [Rest EXCEPT !.job = "update", !.pc = "copy", !.slot = s, !.change = c]]
        PROVE  \E j : fits(j)
    <3> DEFINE j == [Rest EXCEPT !.job = "update", !.pc = "copy", !.slot = s, !.change = c]
    <3>1. Shaped(j) /\ j.val = 0 /\ j.base = 0 /\ j.job = "update" /\ j.pc = "copy"
      BY DEF Shaped, JobFields, Rest
    <3>2. cpu' = [cpu EXCEPT ![t] = j]
      BY <2>1
    <3> HIDE DEF j
    <3>3. fits(j)
      BY <3>1, <3>2
    <3> QED BY <3>3
  <2>2. ASSUME NEW s, NEW c,
               cpu' = [cpu EXCEPT ![t] = [Rest EXCEPT !.job = "update", !.pc = "copy", !.change = c, !.slot = s]]
        PROVE  \E j : fits(j)
    <3> DEFINE j == [Rest EXCEPT !.job = "update", !.pc = "copy", !.change = c, !.slot = s]
    <3>1. Shaped(j) /\ j.val = 0 /\ j.base = 0 /\ j.job = "update" /\ j.pc = "copy"
      BY DEF Shaped, JobFields, Rest
    <3>2. cpu' = [cpu EXCEPT ![t] = j]
      BY <2>2
    <3> HIDE DEF j
    <3>3. fits(j)
      BY <3>1, <3>2
    <3> QED BY <3>3
  <2>3. ASSUME NEW s, NEW e,
               cpu' = [cpu EXCEPT ![t] = [Rest EXCEPT !.job = "static", !.pc = "put", !.slot = s, !.copy = e]]
        PROVE  \E j : fits(j)
    <3> DEFINE j == [Rest EXCEPT !.job = "static", !.pc = "put", !.slot = s, !.copy = e]
    <3>1. Shaped(j) /\ j.val = 0 /\ j.base = 0 /\ j.job = "static" /\ j.pc = "put"
      BY DEF Shaped, JobFields, Rest
    <3>2. cpu' = [cpu EXCEPT ![t] = j]
      BY <2>3
    <3> HIDE DEF j
    <3>3. fits(j)
      BY <3>1, <3>2
    <3> QED BY <3>3
  <2>4. \E j : fits(j)
    <3> HIDE DEF fits
    <3> QED BY <1>3, <2>1, <2>2, <2>3
  <2> QED BY <2>4
<1>5. Takes(t, j) /\ Alike(cpu[t], j)
  BY <1>1, <1>4, AsideTakes
<1> QED BY <1>1, <1>2, <1>5, QuietTakes

LEMMA UpdateCopyCounts ==
  ASSUME CountInv, NEW t \in CPUs, UpdateCopy(t) \/ UpdateWrite(t)
  PROVE  CountInv'
<1> DEFINE j == [cpu[t] EXCEPT !.pc = "write", !.copy = entry[cpu[t].slot]]
<1>1. cpu[t].pc \in {"copy", "write"} /\ UNCHANGED <<mib, ser, due, crossed, lossy>> /\ UNCHANGED acct
  BY DEF UpdateCopy, UpdateWrite, At, counters
<1>2. AcctInv' /\ \A s \in Slots : acct'[s].packets = acct[s].packets
  BY <1>1, SameAcct
<1>3. End(t) \/ cpu' = [cpu EXCEPT ![t] = j]
  BY DEF UpdateCopy, UpdateWrite
<1>4. CASE End(t)
  <2>1. Takes(t, Rest) /\ Alike(cpu[t], Rest)
    BY <1>1, <1>4, EndTakes DEF Alike, Reading
  <2> QED BY <1>1, <1>2, <2>1, QuietTakes
<1>5. CASE cpu' = [cpu EXCEPT ![t] = j]
  <2>1. cpu[t] = [x \in JobFields |-> cpu[t][x]]
    BY DEF CountInv, CountTypes, Sound, Shaped
  <2>2. /\ Shaped(j) /\ j.pc = "write" /\ j.job = cpu[t].job /\ j.slot = cpu[t].slot /\ j.val = cpu[t].val
        /\ j.base = cpu[t].base
    BY <2>1 DEF Shaped, JobFields
  <2>3. cpu' = [cpu EXCEPT ![t] = j]
    BY <1>5
  <2> HIDE DEF j
  <2>4. Takes(t, j) /\ Alike(cpu[t], j)
    BY <1>1, <2>2, <2>3, AsideSound DEF Reading
  <2> QED BY <1>1, <1>2, <2>4, QuietTakes
<1> QED BY <1>3, <1>4, <1>5

(* An entry written by hand overtakes copies, which its writer marks.       *)
LEMMA StaticPutCounts ==
  ASSUME CountInv, NEW t \in CPUs, StaticPut(t)
  PROVE  CountInv'
<1> DEFINE over(u) == At(u, "write") /\ cpu[u].slot = cpu[t].slot
           j(u) == IF u = t THEN Rest ELSE IF over(u) THEN [cpu[u] EXCEPT !.saw = "static"] ELSE cpu[u]
<1>1. cpu[t].pc = "put" /\ UNCHANGED <<mib, ser, due, crossed, lossy>> /\ UNCHANGED acct
  BY DEF StaticPut, At, counters
<1>2. cpu' = [u \in CPUs |-> j(u)]
  BY DEF StaticPut
<1>3. ASSUME NEW u \in CPUs PROVE Sound(j(u)) /\ Alike(cpu[u], j(u))
  <2>1. CASE u = t
    BY <1>1, <2>1, RestSound, RestShape DEF Alike, Reading
  <2>2. CASE u # t /\ over(u)
    <3> DEFINE k == [cpu[u] EXCEPT !.saw = "static"]
    <3>1. cpu[u] = [x \in JobFields |-> cpu[u][x]]
      BY DEF CountInv, CountTypes, Sound, Shaped
    <3>2. /\ Shaped(k) /\ k.pc = cpu[u].pc /\ k.job = cpu[u].job /\ k.slot = cpu[u].slot
          /\ k.val = cpu[u].val /\ k.base = cpu[u].base
      BY <3>1 DEF Shaped, JobFields
    <3>3. j(u) = k
      BY <2>2
    <3> HIDE DEF k, j
    <3>4. Sound(k) /\ Alike(cpu[u], k)
      BY <3>2 DEF CountInv, CountTypes, Sound, Alike
    <3> QED BY <3>3, <3>4
  <2>3. CASE u # t /\ ~over(u)
    BY <2>3 DEF CountInv, CountTypes, Alike
  <2> QED BY <2>1, <2>2, <2>3
<1> HIDE DEF j
<1>4. /\ cpu' = [u \in CPUs |-> cpu'[u]]
      /\ \A u \in CPUs : Sound(cpu'[u]) /\ Alike(cpu[u], cpu'[u])
  BY <1>2, <1>3
<1>5. AcctInv' /\ \A s \in Slots : acct'[s].packets = acct[s].packets
  BY <1>1, SameAcct
<1> QED BY <1>1, <1>4, <1>5, QuietCounts

LEMMA CreditCounts ==
  ASSUME CountInv, NEW t \in CPUs, Credit(t)
  PROVE  CountInv'
<1>1. /\ cpu[t].pc = "credit" /\ Leave(t)
      /\ UNCHANGED <<mib, ser, due, crossed, lossy>> /\ UNCHANGED acct
  BY DEF Credit, At
<1>2. PICK j : Takes(t, j) /\ j.pc \notin Reading
  BY <1>1, LeaveTakes
<1>3. Alike(cpu[t], j)
  BY <1>1, <1>2 DEF Alike, Reading
<1> QED BY <1>1, <1>2, <1>3, SameAcct, QuietTakes
-------------------------------------------------------------------------------
(***************************************************************************)
(* Steps that move counts.                                                 *)
(***************************************************************************)
(* What one CPU's step makes of an entry whose share of others stays.       *)
LEMMA ShareMoves ==
  ASSUME CountInv, NEW t \in CPUs, NEW j, Takes(t, j), ser' \in Nat, NEW r \in Slots,
         \A u \in CPUs \ {t} : Carries(cpu[u], r, ser') = Carries(cpu[u], r, ser)
  PROVE  /\ Carried(cpu, r, ser) \in Int
         /\ Carried(cpu', r, ser') = Carried(cpu, r, ser) + (Carries(j, r, ser') - Carries(cpu[t], r, ser))
<1>1. /\ \A u \in CPUs : Sound(cpu'[u])
      /\ \A u \in CPUs : cpu'[u] = IF u = t THEN j ELSE cpu[u]
  BY TakesSound DEF CountInv
<1> DEFINE c == cpu
           d == cpu'
           n == ser
           m == ser'
<1>2. /\ \A u \in CPUs : c[u].val \in Nat /\ d[u].val \in Nat
      /\ n \in Nat /\ m \in Nat
  BY <1>1 DEF CountInv, CountTypes, Sound
<1>3. \A u \in CPUs \ {t} : Carries(d[u], r, m) = Carries(c[u], r, n)
  BY <1>1
<1>4. d[t] = j
  BY <1>1
<1> HIDE DEF c, d, n, m
<1>5. /\ Carried(c, r, n) \in Int
      /\ Carried(d, r, m) = Carried(c, r, n) + (Carries(d[t], r, m) - Carries(c[t], r, n))
  BY <1>2, <1>3, CarriedChanges
<1> QED BY <1>4, <1>5 DEF c, d, n, m

(* read_mib moves a count to the register; who shares it is known.          *)
LEMMA SelectCounts ==
  ASSUME CountInv, NEW t \in CPUs, Select(t)
  PROVE  CountInv'
<1> DEFINE s == cpu[t].slot
           j == [cpu[t] EXCEPT !.pc = "fetch"]
<1>1. /\ cpu[t].pc = "select" /\ ser' = mib[s] /\ mib' = [mib EXCEPT ![s] = 0]
      /\ cpu' = [cpu EXCEPT ![t] = j] /\ UNCHANGED <<due, lossy>> /\ UNCHANGED acct
  BY DEF Select, Latch, At, Goto
<1>2. crossed' = crossed \cup (IF Busy = {} THEN {} ELSE {cpu[u].slot : u \in Busy \cup {t}})
  BY DEF Select, Latch
<1>3. s \in Slots /\ cpu[t] = [x \in JobFields |-> cpu[t][x]] /\ cpu[t].val \in Nat /\ cpu[t].base \in Nat
  BY <1>1 DEF CountInv, CountTypes, Sound, Shaped
<1>4. /\ Shaped(j) /\ j.pc = "fetch" /\ j.job = cpu[t].job /\ j.slot = cpu[t].slot
      /\ j.val = cpu[t].val /\ j.base = cpu[t].base
  BY <1>3 DEF Shaped, JobFields
<1> HIDE DEF j
<1>5. Takes(t, j)
  BY <1>1, <1>3, <1>4, NextSound DEF Takes, CountInv
<1>6. /\ cpu' = [u \in CPUs |-> cpu'[u]] /\ \A u \in CPUs : Sound(cpu'[u])
      /\ \A u \in CPUs : cpu'[u] = IF u = t THEN j ELSE cpu[u]
  BY <1>5, TakesSound DEF CountInv
<1>7. ser' \in Nat /\ mib' \in [Slots -> Nat] /\ mib[s] \in Nat
      /\ \A r \in Slots : mib'[r] = IF r = s THEN 0 ELSE mib[r]
  BY <1>1, <1>3 DEF CountInv, CountTypes
<1>8. CountTypes'
  BY <1>1, <1>6, <1>7, SameAcct DEF CountInv, CountTypes
<1>9. \A u \in Busy : cpu[u].slot \in crossed' /\ s \in crossed'
  BY <1>2
<1>10. Alone'
  <2> SUFFICES ASSUME NEW u \in CPUs, NEW v \in CPUs, cpu'[u].pc = "fetch", cpu'[v].pc = "fetch", u # v
               PROVE  cpu'[u].slot \in crossed'
    BY DEF Alone, At
  <2>1. CASE u = t
    <3>1. v \in Busy /\ cpu'[u].slot = s
      BY <1>4, <1>6, <2>1 DEF Busy, At
    <3> QED BY <1>9, <3>1
  <2>2. CASE u # t
    <3>1. u \in Busy /\ cpu'[u] = cpu[u]
      BY <1>6, <2>2 DEF Busy, At
    <3> QED BY <1>9, <3>1
  <2> QED BY <2>1, <2>2
<1>11. ASSUME NEW r \in Slots PROVE SlotInv(r)'
  <2> SUFFICES ASSUME r \notin crossed' PROVE SlotInv(r)'
    BY DEF SlotInv
  <2>1. \A u \in CPUs \ {t} : Carries(cpu[u], r, ser') = Carries(cpu[u], r, ser)
    BY <1>9 DEF Carries, Busy, At
  <2>2. /\ Carried(cpu, r, ser) \in Int
        /\ Carried(cpu', r, ser') = Carried(cpu, r, ser) + (Carries(j, r, ser') - Carries(cpu[t], r, ser))
    BY <1>5, <1>7, <2>1, ShareMoves
  <2>3. Carries(j, r, ser') = (IF r = s THEN mib[s] ELSE 0) /\ Carries(cpu[t], r, ser) = 0
    BY <1>1, <1>4 DEF Carries
  <2>4. mib[r] \in Nat
    BY DEF CountInv, CountTypes
  <2> HIDE DEF s
  <2>5. Carried(cpu', r, ser') = Carried(cpu, r, ser) + (IF r = s THEN mib[s] ELSE 0)
    BY <1>7, <2>2, <2>3
  <2>6. mib'[r] + Carried(cpu', r, ser') = mib[r] + Carried(cpu, r, ser) + 0
    BY <1>7, <2>2, <2>4, <2>5
  <2>7. Afoot(r)' = Afoot(r) + 0
    BY <2>6 DEF Afoot
  <2>8. due[r] \in Int /\ due'[r] = due[r] + 0
    BY <1>1 DEF CountInv, CountTypes
  <2>9. \A u \in CPUs : cpu'[u].pc = "store" /\ cpu'[u].slot = r
          => cpu[u].pc = "store" /\ cpu[u].slot = r /\ cpu'[u].base = cpu[u].base
    BY <1>4, <1>6
  <2>10. r \notin crossed /\ acct'[r].packets = acct[r].packets /\ lossy' = lossy
    BY <1>1, <1>2
  <2> QED BY <2>7, <2>8, <2>9, <2>10, SlotSame
<1> QED BY <1>8, <1>10, <1>11 DEF CountInv

(* The register is read: the count is the CPU's now.                        *)
LEMMA FetchCounts ==
  ASSUME CountInv, NEW t \in CPUs, Fetch(t)
  PROVE  CountInv'
<1> DEFINE j == [cpu[t] EXCEPT !.pc = "load", !.val = ser]
<1>1. /\ cpu[t].pc = "fetch" /\ cpu' = [cpu EXCEPT ![t] = j]
      /\ UNCHANGED <<mib, ser, due, crossed, lossy>> /\ UNCHANGED acct
  BY DEF Fetch, At, counters
<1>2. cpu[t] = [x \in JobFields |-> cpu[t][x]] /\ ser \in Nat /\ cpu[t].base \in Nat
  BY DEF CountInv, CountTypes, Sound, Shaped
<1>3. /\ Shaped(j) /\ j.pc = "load" /\ j.job = cpu[t].job /\ j.slot = cpu[t].slot /\ j.val = ser
      /\ j.base = cpu[t].base
  BY <1>2 DEF Shaped, JobFields
<1> HIDE DEF j
<1>4. Takes(t, j)
  BY <1>1, <1>2, <1>3, NextSound DEF Takes, CountInv
<1>5. /\ cpu' = [u \in CPUs |-> cpu'[u]] /\ \A u \in CPUs : Sound(cpu'[u])
      /\ \A u \in CPUs : cpu'[u] = IF u = t THEN j ELSE cpu[u]
  BY <1>4, TakesSound DEF CountInv
<1>6. CountTypes'
  BY <1>1, <1>5, SameAcct DEF CountInv, CountTypes
<1>7. Alone'
  <2>1. \A u \in CPUs : cpu'[u].pc = "fetch" => cpu[u].pc = "fetch" /\ cpu'[u] = cpu[u]
    BY <1>3, <1>5
  <2> QED BY <1>1, <2>1 DEF CountInv, Alone, At
<1>8. ASSUME NEW r \in Slots PROVE SlotInv(r)'
  <2>1. \A u \in CPUs : Carries(cpu'[u], r, ser') = Carries(cpu[u], r, ser)
    BY <1>1, <1>3, <1>5 DEF Carries
  <2>2. Carried(cpu', r, ser') = Carried(cpu, r, ser)
    BY <2>1, CarriedSame
  <2>3. Afoot(r)' = Afoot(r)
    BY <1>1, <2>2 DEF Afoot
  <2>4. Afoot(r) \in Int /\ due[r] \in Int
    BY SlotTypes DEF CountInv
  <2>5. Afoot(r)' = Afoot(r) + 0 /\ due'[r] = due[r] + 0
    BY <1>1, <2>3, <2>4
  <2>6. \A u \in CPUs : cpu'[u].pc = "store" /\ cpu'[u].slot = r
          => cpu[u].pc = "store" /\ cpu[u].slot = r /\ cpu'[u].base = cpu[u].base
    BY <1>3, <1>5
  <2>7. crossed' = crossed /\ lossy' = lossy /\ acct'[r].packets = acct[r].packets
    BY <1>1
  <2> QED BY <2>5, <2>6, <2>7, SlotSame
<1> QED BY <1>6, <1>7, <1>8 DEF CountInv

(* A count that was not ready in time is lost, as lossy tells.              *)
LEMMA TimedOutCounts ==
  ASSUME CountInv, NEW t \in CPUs, FetchTimedOut(t)
  PROVE  CountInv'
<1> DEFINE s == cpu[t].slot
<1>1. /\ cpu[t].pc = "fetch" /\ Leave(t) /\ lossy' = lossy \cup {s}
      /\ UNCHANGED <<mib, ser, due, crossed>> /\ UNCHANGED acct
  BY DEF FetchTimedOut, At
<1>2. PICK j : Takes(t, j) /\ j.pc \notin Reading
  BY <1>1, LeaveTakes
<1>3. /\ cpu' = [u \in CPUs |-> cpu'[u]] /\ \A u \in CPUs : Sound(cpu'[u])
      /\ \A u \in CPUs : cpu'[u] = IF u = t THEN j ELSE cpu[u]
  BY <1>2, TakesSound DEF CountInv
<1>4. CountTypes'
  BY <1>1, <1>3, SameAcct DEF CountInv, CountTypes
<1>5. \A u \in CPUs : cpu'[u].pc \in Reading => u # t /\ cpu'[u] = cpu[u]
  BY <1>2, <1>3
<1>6. Alone'
  BY <1>1, <1>5 DEF CountInv, Alone, At, Reading
<1>7. ASSUME NEW r \in Slots PROVE SlotInv(r)'
  <2>1. /\ Carried(cpu, r, ser) \in Int
        /\ Carried(cpu', r, ser') = Carried(cpu, r, ser) + (Carries(j, r, ser') - Carries(cpu[t], r, ser))
    BY <1>1, <1>2, ShareMoves DEF CountInv, CountTypes
  <2>2. Carries(j, r, ser') = 0 /\ Carries(cpu[t], r, ser) = (IF r = s THEN ser ELSE 0) /\ ser \in Nat
    BY <1>1, <1>2 DEF Carries, Reading, CountInv, CountTypes
  <2> HIDE DEF s
  <2>3. \A u \in CPUs : cpu'[u].pc = "store" /\ cpu'[u].slot = r
          => cpu[u].pc = "store" /\ cpu[u].slot = r /\ cpu'[u].base = cpu[u].base
    BY <1>5 DEF Reading
  <2>4. mib[r] \in Nat /\ due[r] \in Int /\ Afoot(r) \in Int /\ acct[r].packets \in Int
        /\ \A u \in CPUs : cpu[u].base \in Nat
    BY SlotTypes DEF CountInv
  <2>5. CASE r # s
    <3>1. Carried(cpu', r, ser') = Carried(cpu, r, ser)
      BY <2>1, <2>2, <2>5
    <3>2. Afoot(r)' = Afoot(r) + 0 /\ due'[r] = due[r] + 0
      BY <1>1, <2>4, <3>1 DEF Afoot
    <3>3. crossed' = crossed /\ (r \notin lossy' => r \notin lossy) /\ acct'[r].packets = acct[r].packets
      BY <1>1
    <3> QED BY <2>3, <3>2, <3>3, SlotSame
  <2>6. CASE r = s
    <3>0. crossed' = crossed /\ r \in lossy'
      BY <1>1, <2>6
    <3> SUFFICES ASSUME r \notin crossed PROVE Bounded(r)' /\ (r \notin lossy' => Exact(r)')
      BY <3>0 DEF SlotInv
    <3> DEFINE a == Afoot(r)
               b == Afoot(r)'
    <3>1. mib'[r] + Carried(cpu', r, ser') = (mib[r] + Carried(cpu, r, ser)) - ser
      BY <1>1, <2>1, <2>2, <2>4, <2>6
    <3>2. b = a - ser /\ a \in Int
      <4>1. Afoot(r) = mib[r] + Carried(cpu, r, ser)
        BY DEF Afoot
      <4>2. Afoot(r)' = mib'[r] + Carried(cpu', r, ser')
        BY DEF Afoot
      <4>3. Afoot(r)' = Afoot(r) - ser
        BY <3>1, <4>1, <4>2
      <4> QED BY <2>4, <4>3
    <3>3. acct[r].packets + a <= due[r] /\ \A u \in Storing(r) : cpu[u].base + a <= due[r]
      BY DEF CountInv, SlotInv, Bounded
    <3> HIDE DEF a, b
    <3>4. acct'[r].packets + b <= due'[r]
      BY <1>1, <2>2, <2>4, <3>2, <3>3
    <3>5. ASSUME NEW u \in CPUs, cpu'[u].pc = "store", cpu'[u].slot = r
          PROVE  cpu'[u].base + b <= due'[r]
      <4>1. u \in Storing(r) /\ cpu'[u].base = cpu[u].base
        BY <2>3, <3>5 DEF Storing, At
      <4>2. cpu[u].base + a <= due[r] /\ cpu[u].base \in Nat
        BY <2>4, <3>3, <4>1
      <4> QED BY <1>1, <2>2, <2>4, <3>2, <4>1, <4>2
    <3>6. \A u \in Storing(r)' : cpu'[u].base + b <= due'[r]
      BY <3>5 DEF Storing, At
    <3> QED BY <3>0, <3>4, <3>6 DEF Bounded, b
  <2> QED BY <2>5, <2>6
<1> QED BY <1>4, <1>6, <1>7 DEF CountInv

(* hnat_get_count loads the total; who adds meanwhile is known.             *)
LEMMA LoadCounts ==
  ASSUME CountInv, NEW t \in CPUs, Load(t)
  PROVE  CountInv'
<1> DEFINE s == cpu[t].slot
           p == acct[s].packets
           j == [cpu[t] EXCEPT !.pc = "store", !.base = p]
<1>1. /\ cpu[t].pc = "load" /\ cpu' = [cpu EXCEPT ![t] = j]
      /\ lossy' = lossy \cup (IF Storing(s) = {} THEN {} ELSE {s})
      /\ UNCHANGED <<mib, ser, due, crossed>> /\ UNCHANGED acct
  BY DEF Load, At
<1>2. s \in Slots /\ cpu[t] = [x \in JobFields |-> cpu[t][x]] /\ cpu[t].val \in Nat /\ p \in Nat
  BY <1>1 DEF CountInv, CountTypes, Sound, Shaped, AcctInv
<1> HIDE DEF p
<1>3. /\ Shaped(j) /\ j.pc = "store" /\ j.job = cpu[t].job /\ j.slot = cpu[t].slot
      /\ j.val = cpu[t].val /\ j.base = p
  BY <1>2 DEF Shaped, JobFields
<1> HIDE DEF j
<1>4. Takes(t, j)
  BY <1>1, <1>2, <1>3, NextSound DEF Takes, CountInv
<1>5. /\ cpu' = [u \in CPUs |-> cpu'[u]] /\ \A u \in CPUs : Sound(cpu'[u])
      /\ \A u \in CPUs : cpu'[u] = IF u = t THEN j ELSE cpu[u]
  BY <1>4, TakesSound DEF CountInv
<1>6. CountTypes'
  BY <1>1, <1>5, SameAcct DEF CountInv, CountTypes
<1>7. Alone'
  <2>1. \A u \in CPUs : cpu'[u].pc = "fetch" => cpu[u].pc = "fetch" /\ cpu'[u] = cpu[u]
    BY <1>3, <1>5
  <2> QED BY <1>1, <2>1 DEF CountInv, Alone, At
<1>8. ASSUME NEW r \in Slots PROVE SlotInv(r)'
  <2>1. \A u \in CPUs : Carries(cpu'[u], r, ser') = Carries(cpu[u], r, ser)
    BY <1>1, <1>3, <1>5 DEF Carries
  <2>2. Carried(cpu', r, ser') = Carried(cpu, r, ser)
    BY <2>1, CarriedSame
  <2>3. Afoot(r)' = Afoot(r)
    BY <1>1, <2>2 DEF Afoot
  <2>4. Afoot(r) \in Int /\ due[r] \in Int
    BY SlotTypes DEF CountInv
  <2>5. CASE r # s
    <3>1. Afoot(r)' = Afoot(r) + 0 /\ due'[r] = due[r] + 0
      BY <1>1, <2>3, <2>4
    <3>2. \A u \in CPUs : cpu'[u].pc = "store" /\ cpu'[u].slot = r
            => cpu[u].pc = "store" /\ cpu[u].slot = r /\ cpu'[u].base = cpu[u].base
      BY <1>3, <1>5, <2>5
    <3>3. crossed' = crossed /\ (r \notin lossy' => r \notin lossy) /\ acct'[r].packets = acct[r].packets
      BY <1>1
    <3> QED BY <3>1, <3>2, <3>3, SlotSame
  <2>6. CASE r = s
    <3> SUFFICES ASSUME r \notin crossed PROVE Bounded(r)' /\ (r \notin lossy' => Exact(r)')
      BY <1>1 DEF SlotInv
    <3>1. Bounded(r) /\ (r \notin lossy => Exact(r))
      BY DEF CountInv, SlotInv
    <3> DEFINE a == Afoot(r)
    <3>2. acct[r].packets = p /\ p + a <= due[r] /\ \A u \in Storing(r) : cpu[u].base + a <= due[r]
      BY <2>6, <3>1 DEF Bounded, p
    <3>3. \A u \in CPUs : cpu'[u].pc = "store" /\ cpu'[u].slot = r
            => \/ u = t /\ cpu'[u].base = p
               \/ u \in Storing(r) /\ cpu'[u].base = cpu[u].base
      BY <1>3, <1>5 DEF Storing, At
    <3> HIDE DEF a
    <3>4. \A u \in CPUs : cpu'[u].pc = "store" /\ cpu'[u].slot = r => cpu'[u].base + a <= due'[r]
      BY <1>1, <3>2, <3>3
    <3>5. acct'[r].packets + a <= due'[r]
      BY <1>1, <3>2
    <3>6. Afoot(r)' = a
      BY <2>3 DEF a
    <3>7. Bounded(r)'
      BY <3>4, <3>5, <3>6 DEF Bounded, Storing, At
    <3>8. ASSUME r \notin lossy' PROVE Exact(r)'
      <4>1. Storing(r) = {} /\ r \notin lossy
        BY <1>1, <2>6, <3>8
      <4>2. p + a = due[r]
        BY <3>1, <3>2, <4>1 DEF Exact, a
      <4>3. \A u \in CPUs : cpu'[u].pc = "store" /\ cpu'[u].slot = r => u = t /\ cpu'[u].base = p
        BY <3>3, <4>1
      <4>4. acct'[r].packets = p /\ acct'[r].packets + Afoot(r)' = due'[r]
        BY <1>1, <3>2, <3>6, <4>2
      <4> QED BY <4>3, <4>4 DEF Exact, Storing, At
    <3> QED BY <3>7, <3>8
  <2> QED BY <2>5, <2>6
<1> QED BY <1>6, <1>7, <1>8 DEF CountInv

(* It stores what it makes of the total.                                    *)
LEMMA StoreCounts ==
  ASSUME CountInv, NEW t \in CPUs, Store(t)
  PROVE  CountInv'
<1> DEFINE s == cpu[t].slot
           v == cpu[t].val
           x == cpu[t].base
           j == [cpu[t] EXCEPT !.pc = "credit"]
<1>1. /\ cpu[t].pc = "store" /\ cpu' = [cpu EXCEPT ![t] = j]
      /\ acct' = [acct EXCEPT ![s].packets = x + v]
      /\ UNCHANGED <<mib, ser, due, crossed, lossy>>
  BY DEF Store, At, Goto
<1>2. s \in Slots /\ cpu[t] = [y \in JobFields |-> cpu[t][y]] /\ v \in Nat /\ x \in Nat
  BY <1>1 DEF CountInv, CountTypes, Sound, Shaped
<1>3. /\ Shaped(j) /\ j.pc = "credit" /\ j.job = cpu[t].job /\ j.slot = cpu[t].slot
      /\ j.val = cpu[t].val /\ j.base = cpu[t].base
  BY <1>2 DEF Shaped, JobFields
<1> HIDE DEF j
<1>4. Takes(t, j)
  BY <1>1, <1>2, <1>3, NextSound DEF Takes, CountInv
<1>5. /\ cpu' = [u \in CPUs |-> cpu'[u]] /\ \A u \in CPUs : Sound(cpu'[u])
      /\ \A u \in CPUs : cpu'[u] = IF u = t THEN j ELSE cpu[u]
  BY <1>4, TakesSound DEF CountInv
<1>6. \A u \in CPUs : cpu'[u].pc \in Reading => u # t /\ cpu'[u] = cpu[u]
  BY <1>3, <1>5 DEF Reading
<1>7. AcctInv' /\ \A r \in Slots : acct'[r].packets = IF r = s THEN x + v ELSE acct[r].packets
  <2> HIDE DEF s, x, v
  <2>1. acct = [r \in Slots |-> [packets |-> acct[r].packets, iif |-> acct[r].iif]]
        /\ \A r \in Slots : acct[r].packets \in Nat
    BY DEF CountInv, CountTypes, AcctInv
  <2>2. x + v \in Nat
    BY <1>2
  <2>3. acct' = [r \in Slots |-> [packets |-> IF r = s THEN x + v ELSE acct[r].packets, iif |-> acct[r].iif]]
    BY <1>1, <1>2, <2>1
  <2>4. \A r \in Slots : acct'[r].packets = IF r = s THEN x + v ELSE acct[r].packets
    BY <2>3
  <2>5. \A r \in Slots : acct'[r] = [packets |-> acct'[r].packets, iif |-> acct'[r].iif]
    BY <2>3
  <2>6. acct' = [r \in Slots |-> acct'[r]]
    BY <2>3
  <2>7. acct' = [r \in Slots |-> [packets |-> acct'[r].packets, iif |-> acct'[r].iif]]
    BY <2>5, <2>6
  <2>8. \A r \in Slots : acct'[r].packets \in Nat
    BY <2>1, <2>2, <2>4
  <2> QED BY <2>4, <2>7, <2>8 DEF AcctInv
<1>8. CountTypes'
  BY <1>1, <1>5, <1>7 DEF CountInv, CountTypes
<1>9. Alone'
  BY <1>1, <1>6 DEF CountInv, Alone, At, Reading
<1>10. ASSUME NEW r \in Slots PROVE SlotInv(r)'
  <2>1. /\ Carried(cpu, r, ser) \in Int
        /\ Carried(cpu', r, ser') = Carried(cpu, r, ser) + (Carries(j, r, ser') - Carries(cpu[t], r, ser))
    BY <1>1, <1>4, ShareMoves DEF CountInv, CountTypes
  <2>2. Carries(j, r, ser') = 0 /\ Carries(cpu[t], r, ser) = (IF r = s THEN v ELSE 0)
    BY <1>1, <1>3 DEF Carries
  <2>3. \A u \in CPUs : cpu'[u].pc = "store" /\ cpu'[u].slot = r
          => u # t /\ cpu[u].pc = "store" /\ cpu[u].slot = r /\ cpu'[u].base = cpu[u].base
    BY <1>6 DEF Reading
  <2>4. mib[r] \in Nat /\ due[r] \in Int /\ Afoot(r) \in Int /\ acct[r].packets \in Int
        /\ \A u \in CPUs : cpu[u].base \in Nat
    BY SlotTypes DEF CountInv
  <2>5. CASE r # s
    <3>1. Carried(cpu', r, ser') = Carried(cpu, r, ser)
      BY <2>1, <2>2, <2>5
    <3>2. Afoot(r)' = Afoot(r) + 0 /\ due'[r] = due[r] + 0
      BY <1>1, <2>4, <3>1 DEF Afoot
    <3>3. acct'[r].packets = acct[r].packets
      BY <1>7, <2>5
    <3>4. crossed' = crossed /\ lossy' = lossy
      BY <1>1
    <3> QED BY <2>3, <3>2, <3>3, <3>4, SlotSame
  <2>6. CASE r = s
    <3>0. crossed' = crossed /\ lossy' = lossy
      BY <1>1
    <3> SUFFICES ASSUME r \notin crossed PROVE Bounded(r)' /\ (r \notin lossy' => Exact(r)')
      BY <3>0 DEF SlotInv
    <3> DEFINE a == Afoot(r)
               b == Afoot(r)'
    <3>1. t \in Storing(r)
      BY <1>1, <2>6 DEF Storing, At
    <3>2. Bounded(r) /\ (r \notin lossy => Exact(r))
      BY DEF CountInv, SlotInv
    <3>3. x + a <= due[r] /\ \A u \in Storing(r) : cpu[u].base + a <= due[r]
      BY <3>1, <3>2 DEF Bounded
    <3>4. r \notin lossy => acct[r].packets + a = due[r] /\ x = acct[r].packets
                            /\ \A u \in Storing(r) : u = t
      BY <3>1, <3>2 DEF Exact
    <3>5. acct'[r].packets = x + v
      BY <1>7, <2>6
    <3> HIDE DEF s, x, v
    <3>6. mib'[r] + Carried(cpu', r, ser') = (mib[r] + Carried(cpu, r, ser)) - v
      BY <1>1, <1>2, <2>1, <2>2, <2>4, <2>6
    <3>7. b = a - v /\ a \in Int
      <4>1. Afoot(r) = mib[r] + Carried(cpu, r, ser)
        BY DEF Afoot
      <4>2. Afoot(r)' = mib'[r] + Carried(cpu', r, ser')
        BY DEF Afoot
      <4>3. Afoot(r)' = Afoot(r) - v
        BY <3>6, <4>1, <4>2
      <4> QED BY <2>4, <4>3
    <3> HIDE DEF a, b
    <3>8. acct'[r].packets + b <= due'[r]
      BY <1>1, <1>2, <2>4, <3>3, <3>5, <3>7
    <3>9. ASSUME NEW u \in CPUs, cpu'[u].pc = "store", cpu'[u].slot = r
          PROVE  u \in Storing(r) \ {t} /\ cpu'[u].base + b <= due'[r]
      <4>1. u \in Storing(r) \ {t} /\ cpu'[u].base = cpu[u].base
        BY <2>3, <3>9 DEF Storing, At
      <4>2. cpu[u].base + a <= due[r] /\ cpu[u].base \in Nat
        BY <2>4, <3>3, <4>1
      <4> QED BY <1>1, <1>2, <2>4, <3>7, <4>1, <4>2
    <3>10. Bounded(r)'
      BY <3>8, <3>9 DEF Bounded, Storing, At, b
    <3>11. ASSUME r \notin lossy PROVE Exact(r)'
      <4>1. \A u \in CPUs : ~(cpu'[u].pc = "store" /\ cpu'[u].slot = r)
        BY <3>4, <3>9, <3>11
      <4>2. acct'[r].packets + b = due'[r]
        BY <1>1, <1>2, <2>4, <3>4, <3>5, <3>7, <3>11
      <4> QED BY <4>1, <4>2 DEF Exact, Storing, At, b
    <3> QED BY <3>0, <3>10, <3>11
  <2> QED BY <2>5, <2>6
<1> QED BY <1>8, <1>9, <1>10 DEF CountInv

(* Accounts are reset.  One with an addition under way will be brought      *)
(* back, as crossed tells.                                                  *)
LEMMA ClearCounts ==
  ASSUME CountInv, NEW S, Clear(S), cpu' = [u \in CPUs |-> cpu'[u]],
         \A u \in CPUs : Sound(cpu'[u]) /\ Alike(cpu[u], cpu'[u])
  PROVE  CountInv'
<1>1. /\ acct' = [s \in Slots |-> IF s \in S THEN [packets |-> 0, iif |-> None] ELSE acct[s]]
      /\ due' = [s \in Slots |-> IF s \in S THEN due[s] - acct[s].packets ELSE due[s]]
      /\ crossed' = crossed \cup {s \in S : Storing(s) # {}}
      /\ UNCHANGED <<mib, ser, lossy>>
  BY DEF Clear
<1>2. /\ acct = [s \in Slots |-> [packets |-> acct[s].packets, iif |-> acct[s].iif]]
      /\ \A s \in Slots : acct[s].packets \in Nat /\ due[s] \in Int
  BY DEF CountInv, CountTypes, AcctInv
<1>3. AcctInv'
  <2>1. \A s \in Slots : acct'[s] = [packets |-> acct'[s].packets, iif |-> acct'[s].iif]
    BY <1>1, <1>2
  <2>2. \A s \in Slots : acct'[s].packets \in Nat
    BY <1>1, <1>2
  <2>3. acct' = [s \in Slots |-> acct'[s]]
    BY <1>1
  <2>4. acct' = [s \in Slots |-> [packets |-> acct'[s].packets, iif |-> acct'[s].iif]]
    BY <2>1, <2>3
  <2> QED BY <2>2, <2>4 DEF AcctInv
<1>4. due' \in [Slots -> Int]
  BY <1>1, <1>2
<1>5. CountTypes'
  BY <1>1, <1>3, <1>4 DEF CountInv, CountTypes
<1>6. Alone'
  <2>1. \A u \in CPUs : cpu'[u].pc = "fetch" => cpu[u].pc = "fetch" /\ cpu'[u].slot = cpu[u].slot
    BY DEF Alike, Reading
  <2> QED BY <1>1, <2>1 DEF CountInv, Alone, At
<1>7. ASSUME NEW r \in Slots PROVE SlotInv(r)'
  <2>1. \A u \in CPUs : Carries(cpu'[u], r, ser') = Carries(cpu[u], r, ser)
    BY <1>1 DEF Alike, Carries, Reading
  <2>2. Carried(cpu', r, ser') = Carried(cpu, r, ser)
    BY <2>1, CarriedSame
  <2>3. Afoot(r)' = Afoot(r)
    BY <1>1, <2>2 DEF Afoot
  <2>4. Afoot(r) \in Int /\ due[r] \in Int /\ acct[r].packets \in Int
    BY SlotTypes DEF CountInv
  <2>5. \A u \in CPUs : cpu'[u].pc = "store" /\ cpu'[u].slot = r
          => cpu[u].pc = "store" /\ cpu[u].slot = r /\ cpu'[u].base = cpu[u].base
    BY DEF Alike, Reading
  <2>6. CASE r \notin S
    <3>1. Afoot(r)' = Afoot(r) + 0 /\ due'[r] = due[r] + 0 /\ acct'[r].packets = acct[r].packets
      BY <1>1, <2>3, <2>4, <2>6
    <3> QED BY <1>1, <2>5, <3>1, SlotSame
  <2>7. CASE r \in S
    <3> SUFFICES ASSUME r \notin crossed' PROVE Bounded(r)' /\ (r \notin lossy => Exact(r)')
      BY <1>1 DEF SlotInv
    <3>1. r \notin crossed /\ Storing(r) = {}
      BY <1>1, <2>7
    <3>2. \A u \in CPUs : ~(cpu'[u].pc = "store" /\ cpu'[u].slot = r)
      BY <2>5, <3>1 DEF Storing, At
    <3> DEFINE a == Afoot(r)
    <3>3. Afoot(r)' = a /\ a \in Int
      BY <2>3, <2>4
    <3>4. acct[r].packets + a <= due[r] /\ (r \notin lossy => acct[r].packets + a = due[r])
      BY <3>1 DEF CountInv, SlotInv, Bounded, Exact
    <3>5. acct'[r].packets = 0 /\ due'[r] = due[r] - acct[r].packets
      BY <1>1, <2>7
    <3> HIDE DEF a
    <3>6. /\ acct'[r].packets + a <= due'[r]
          /\ r \notin lossy => acct'[r].packets + a = due'[r]
      BY <2>4, <3>3, <3>4, <3>5
    <3> QED BY <3>2, <3>3, <3>6 DEF Bounded, Exact, Storing, At
  <2> QED BY <2>6, <2>7
<1> QED BY <1>5, <1>6, <1>7 DEF CountInv

LEMMA ResetCounts ==
  ASSUME CountInv, NEW t \in CPUs, AcctReset(t)
  PROVE  CountInv'
<1>1. cpu[t].pc = "reset" /\ Clear({cpu[t].slot}) /\ End(t)
  BY DEF AcctReset, At
<1>2. Takes(t, Rest) /\ Alike(cpu[t], Rest)
  BY <1>1, EndTakes DEF Alike, Reading
<1>3. /\ cpu' = [u \in CPUs |-> cpu'[u]] /\ \A u \in CPUs : Sound(cpu'[u])
      /\ \A u \in CPUs : cpu'[u] = IF u = t THEN Rest ELSE cpu[u]
  BY <1>2, TakesSound DEF CountInv
<1>4. \A u \in CPUs : Alike(cpu[u], cpu'[u])
  BY <1>2, <1>3 DEF Alike
<1> QED BY <1>1, <1>3, <1>4, ClearCounts

LEMMA HashModeCounts ==
  ASSUME CountInv, SetHashMode
  PROVE  CountInv'
<1>1. Clear(Slots) /\ UNCHANGED cpu
  BY DEF SetHashMode
<1>2. cpu' = [u \in CPUs |-> cpu'[u]] /\ \A u \in CPUs : Sound(cpu'[u]) /\ Alike(cpu[u], cpu'[u])
  BY <1>1 DEF CountInv, CountTypes, Alike
<1> QED BY <1>1, <1>2, ClearCounts

LEMMA ForwardCounts ==
  ASSUME CountInv, Forward
  PROVE  CountInv'
<1>1. PICK s \in Slots : mib' = [mib EXCEPT ![s] = mib[s] + 1] /\ due' = [due EXCEPT ![s] = due[s] + 1]
  BY DEF Forward
<1>2. UNCHANGED <<cpu, ser, crossed, lossy>> /\ UNCHANGED acct
  BY DEF Forward
<1>3. \A r \in Slots : mib[r] \in Nat /\ due[r] \in Int
  BY DEF CountInv, CountTypes
<1>4. /\ mib' \in [Slots -> Nat] /\ due' \in [Slots -> Int]
      /\ \A r \in Slots : mib'[r] = (IF r = s THEN mib[r] + 1 ELSE mib[r])
                          /\ due'[r] = (IF r = s THEN due[r] + 1 ELSE due[r])
  BY <1>1, <1>3 DEF CountInv, CountTypes
<1>5. CountTypes'
  BY <1>2, <1>4, SameAcct DEF CountInv, CountTypes
<1>6. Alone'
  BY <1>2 DEF CountInv, Alone, At
<1>7. ASSUME NEW r \in Slots PROVE SlotInv(r)'
  <2> DEFINE k == IF r = s THEN 1 ELSE 0
  <2>1. Carried(cpu, r, ser) \in Int
    BY SlotTypes DEF CountInv
  <2>2. mib'[r] = mib[r] + k /\ due'[r] = due[r] + k /\ k \in Int
    BY <1>3, <1>4
  <2> HIDE DEF k
  <2>3. Afoot(r)' = mib'[r] + Carried(cpu, r, ser)
    BY <1>2 DEF Afoot
  <2>4. Afoot(r)' = Afoot(r) + k
    BY <1>3, <2>1, <2>2, <2>3 DEF Afoot
  <2> QED BY <1>2, <2>2, <2>4, SlotSame
<1> QED BY <1>5, <1>6, <1>7 DEF CountInv

LEMMA NextCounts == CountInv /\ [Next]_vars => CountInv'
<1> SUFFICES ASSUME CountInv, [Next]_vars PROVE CountInv'
  OBVIOUS
<1>1. ASSUME NEW t \in CPUs,
             \/ BindStart(t) \/ BindTell(t) \/ ReadCount(t) \/ Show(t)
             \/ FinPacket(t) \/ FinTell(t) \/ FinEnd(t) \/ DscpUpdate(t) \/ BindCommit(t)
      PROVE  CountInv'
  BY <1>1, OtherJobsCount
<1>2. ASSUME NEW t \in CPUs,
             \/ Update(t) \/ UpdateByTuple(t) \/ UpdateCopy(t) \/ UpdateWrite(t)
             \/ StaticFind(t) \/ StaticPut(t)
      PROVE  CountInv'
  BY <1>2, UpdatesCount, UpdateCopyCounts, StaticPutCounts
<1>3. ASSUME NEW t \in CPUs, Select(t) \/ Fetch(t) \/ FetchTimedOut(t)
      PROVE  CountInv'
  BY <1>3, SelectCounts, FetchCounts, TimedOutCounts
<1>4. ASSUME NEW t \in CPUs, Load(t) \/ Store(t) \/ Credit(t) \/ AcctReset(t) \/ Keepalive(t)
      PROVE  CountInv'
  BY <1>4, LoadCounts, StoreCounts, CreditCounts, ResetCounts, KeepaliveCounts
<1>5. CASE DeleteByIndex \/ Learn \/ SeeFin \/ Age \/ UNCHANGED vars
  <2>1. UNCHANGED <<mib, ser, due, crossed, lossy>> /\ UNCHANGED <<cpu, acct>>
    BY <1>5 DEF DeleteByIndex, Learn, SeeFin, Age, vars, counters
  <2>2. cpu' = [u \in CPUs |-> cpu'[u]] /\ \A u \in CPUs : Sound(cpu'[u]) /\ Alike(cpu[u], cpu'[u])
    BY <2>1 DEF CountInv, CountTypes, Alike
  <2> QED BY <2>1, <2>2, SameAcct, QuietCounts
<1>6. CASE Forward \/ SetHashMode
  BY <1>6, ForwardCounts, HashModeCounts
<1> QED BY <1>1, <1>2, <1>3, <1>4, <1>5, <1>6 DEF Next

(* Though readers and administrators add to an account without a lock, and  *)
(* binding, deleting, ageing and rewriting go on, no packet of an entry is  *)
(* added twice unless its readers shared the register or a reset came in an *)
(* addition, and none is lost unless a read timed out or two additions      *)
(* overlapped, each for that entry: what two readers do to one another      *)
(* never reaches a third entry (hnat_get_count, read_mib).                  *)
THEOREM NoCountLost == Spec => []CountsConserved
<1>1. Spec => []CountInv
  BY InitCounts, NextCounts, PTL DEF Spec
<1> QED BY <1>1, ConservedCounts, PTL
================================================================================
