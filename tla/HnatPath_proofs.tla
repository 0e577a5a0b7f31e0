----------------------------- MODULE HnatPath_proofs -----------------------------
(***************************************************************************)
(* Packets get where they belong, for any devices, flows and packets:      *)
(* numbers of devices lie in marks and entries for longer than the devices *)
(* have them, and still name no other device.                              *)
(***************************************************************************)
EXTENDS HnatPath, FiniteSetTheorems, TLAPS

Place == {"free", "br_pre", "br_in", "ip_pre", "local_out", "ppe", "post", "out", "commit"}

Skb ==
  [at : Place, flow : Flows \cup {None}, dev : Devs \cup {None},
   iface : {"none", "ge", "ppd", "ext"}, cb : {"none", "to_ppe", "from_extge"},
   tag : BOOLEAN, mark : Nat, reason : {"none", "unhit", "unbind", "rate", "force", "dup"},
   sport : {"none", "mac", "cpu"}, alg : BOOLEAN, trips : Nat, act : Nat]

Entry == [state : {"INVALID", "UNBIND", "BIND"}, act : Nat]

(* A number that was given out before and belongs to no device but d.       *)
Names(n, d) == n <= count /\ \A e \in Exts : n # 0 /\ ifindex[e] = n => e = d

NumbersOK ==
  /\ ifindex \in [Exts -> Nat] /\ count \in Nat /\ count <= IfMax
  /\ ext \subseteq Exts /\ \A d \in ext : ifindex[d] # 0
  /\ \A d \in Exts : ifindex[d] <= count
  /\ \A d, e \in Exts : ifindex[d] = ifindex[e] /\ ifindex[d] # 0 => d = e

EntriesName == foe \in [Flows -> Entry] /\ \A f \in Flows : Names(foe[f].act, To[f])

(* A packet on its way is at its own device or at ppd.                      *)
OnItsWay(s) ==
  /\ s.flow \in Flows
  /\ s.dev = From[s.flow] \/ s.dev = Ppd
  /\ Names(s.mark, From[s.flow])
  /\ s.at = "commit" => Names(s.act, To[s.flow])

SkbOK(s) == s \in Skb /\ (s.at # "free" => OnItsWay(s))

IInv ==
  /\ NumbersOK
  /\ EntriesName
  /\ skb \in [Skbs -> Skb] /\ \A k \in Skbs : SkbOK(skb[k])
  /\ ReturnsToSource
  /\ NotMisdelivered

(* What a hook may do with a packet of flow f.                              *)
Good(r, f) ==
  /\ SkbOK(r.skb) /\ r.skb.at \notin {"commit"}
  /\ r.how = "return" => r.dev = From[f]
  /\ r.how = "fast" => r.dev = To[f]

(* A packet that a hook sees.                                               *)
Seen(s) == SkbOK(s) /\ s.at \in {"br_pre", "br_in", "ip_pre", "local_out"}

(* The numbers of devices pass a field of their width.                      *)
LEMMA NoCut ==
  ASSUME NEW n \in Nat, n <= IfMax
  PROVE  n % ActSpace = n /\ n % MarkSpace = n
<1>1. ActSpace \in Nat \ {0} /\ MarkSpace \in Nat \ {0} /\ IfMax \in Nat
  BY PathAssumption
<1>2. n < ActSpace /\ n < MarkSpace
  BY <1>1, NumbersFit
<1> QED BY <1>1, <1>2

LEMMA FreeOK == SkbOK(Free)
<1>1. Free \in Skb
  BY DEF Skb, Place, Free
<1>2. Free.at = "free"
  BY DEF Free
<1> QED BY <1>1, <1>2 DEF SkbOK

(* The lookup by number finds the device the number names, or none.         *)
LEMMA LookupNamed ==
  ASSUME NumbersOK, NEW d, NEW n \in Nat, Names(n, d)
  PROVE  get_dev_from_index(n) \in {d, None}
<1> DEFINE D == {e \in ext : ifindex[e] = n}
<1>1. CASE D = {}
  BY <1>1 DEF get_dev_from_index
<1>2. CASE D # {}
  <2>1. PICK e \in D : TRUE
    BY <1>2
  <2>2. get_dev_from_index(n) \in D
    BY <1>2 DEF get_dev_from_index
  <2> QED BY <2>2 DEF NumbersOK, Names
<1> QED BY <1>1, <1>2

(* The number of a device names it.                                         *)
LEMMA OwnNumber ==
  ASSUME NumbersOK, NEW d \in Exts
  PROVE  Names(ifindex[d], d) /\ Names(ifindex[d] % ActSpace, d) /\ Names(ifindex[d] % MarkSpace, d)
<1>1. ifindex[d] \in Nat /\ ifindex[d] <= IfMax
  BY PathAssumption DEF NumbersOK
<1>2. Names(ifindex[d], d)
  BY DEF NumbersOK, Names
<1> QED BY <1>1, <1>2, NoCut

LEMMA NoNumber == ASSUME NumbersOK, NEW d PROVE Names(0, d)
BY DEF NumbersOK, Names

(* hnat_set_iif leaves all but the descriptor, and finds external devices.  *)
LEMMA SetIif ==
  ASSUME NumbersOK, NEW s, Seen(s)
  PROVE  LET t == hnat_set_iif(s) IN
         /\ Seen(t) /\ t.flow = s.flow /\ t.dev = s.dev /\ t.at = s.at
         /\ t.iface = "ext" => In(t) = "br" \/ In(t) \in Exts
<1> DEFINE t == hnat_set_iif(s)
<1>0. PICK i \in {"ge", "ppd", "ext"} :
         \/ t = s
         \/ t = [s EXCEPT !.iface = i]
         \/ t = [s EXCEPT !.iface = "none", !.tag = FALSE, !.reason = "none", !.alg = FALSE]
  BY DEF hnat_set_iif
<1> HIDE DEF t
<1>1. t \in Skb /\ t.flow = s.flow /\ t.dev = s.dev /\ t.at = s.at /\ t.mark = s.mark /\ t.act = s.act
  <2>1. CASE t = s
    BY <2>1 DEF Seen, SkbOK
  <2>2. CASE t = [s EXCEPT !.iface = i]
    BY <2>2 DEF Seen, SkbOK, Skb
  <2>3. CASE t = [s EXCEPT !.iface = "none", !.tag = FALSE, !.reason = "none", !.alg = FALSE]
    BY <2>3 DEF Seen, SkbOK, Skb
  <2> QED BY <1>0, <2>1, <2>2, <2>3
<1>2. Seen(t)
  BY <1>1 DEF Seen, SkbOK, OnItsWay
<1>3. In(t) = In(s)
  BY <1>1 DEF In
<1>4. t.iface = "ext" => In(s) = "br" \/ In(s) \in Exts
  BY <1>0 DEF t, hnat_set_iif, IsExt, NumbersOK, Seen, SkbOK, Skb
<1> QED BY <1>1, <1>2, <1>3, <1>4 DEF t

LEMMA AcceptGood ==
  ASSUME NEW s, Seen(s)
  PROVE  Good(Accept(s), s.flow)
<1>1. CASE Onward(s) = "out"
  BY <1>1, FreeOK DEF Accept, Good, Done, Free
<1>2. CASE Onward(s) # "out"
  <2> DEFINE t == [s EXCEPT !.at = Onward(s)]
  <2>1. Onward(s) \in {"ip_pre", "br_in", "post", "out", "local_out"}
    BY DEF Onward, Leaving, Seen
  <2>2. t \in Skb /\ t.at = Onward(s) /\ t.flow = s.flow /\ t.dev = s.dev /\ t.mark = s.mark
    BY <2>1 DEF Seen, SkbOK, Skb, Place
  <2>3. SkbOK(t)
    BY <2>1, <2>2 DEF Seen, SkbOK, OnItsWay
  <2> QED BY <1>2, <2>1, <2>2, <2>3 DEF Accept, Good, Done
<1> QED BY <1>1, <1>2

LEMMA ExtToGeGood ==
  ASSUME NumbersOK, NEW s, Seen(s), s.iface = "ext", In(s) = "br" \/ In(s) \in Exts
  PROVE  Good(ExtToGe(s, In(s)), s.flow)
<1>1. CASE ~up[Ppd]
  BY <1>1, AcceptGood DEF ExtToGe
<1>2. CASE up[Ppd]
  <2> DEFINE n == IF In(s) = "br" THEN 0 ELSE ifindex[In(s)] % MarkSpace
             t == [s EXCEPT !.at = "ppe", !.dev = Ppd, !.cb = "to_ppe", !.trips = @ + 1, !.mark = n]
  <2>1. n \in Nat /\ Names(n, From[s.flow])
    <3>1. CASE In(s) = "br"
      BY <3>1, NoNumber
    <3>2. CASE In(s) # "br"
      <4>1. In(s) = s.dev /\ s.dev \in Exts
        BY <3>2 DEF In
      <4>2. s.dev = From[s.flow]
        BY <4>1, PathAssumption DEF Seen, SkbOK, OnItsWay
      <4>3. ifindex[s.dev] \in Nat /\ ifindex[s.dev] <= IfMax
        BY <4>1, PathAssumption DEF NumbersOK
      <4> QED BY <3>2, <4>1, <4>2, <4>3, OwnNumber, NoCut
    <3> QED BY <3>1, <3>2
  <2>2. Ppd \in Devs
    BY DEF Devs
  <2> HIDE DEF n
  <2>3. s \in Skb /\ s.trips + 1 \in Nat
    BY DEF Seen, SkbOK, Skb
  <2>4. t \in Skb /\ t.at = "ppe" /\ t.dev = Ppd /\ t.mark = n /\ t.flow = s.flow
    BY <2>1, <2>2, <2>3 DEF Skb, Place
  <2>5. SkbOK(t)
    BY <2>1, <2>4 DEF Seen, SkbOK, OnItsWay
  <2> QED BY <1>2, <2>4, <2>5 DEF ExtToGe, Good, Done, n
<1> QED BY <1>1, <1>2

LEMMA ReturnGood ==
  ASSUME NumbersOK, NEW s, Seen(s), do_ext2ge_fast_learn(s)
  PROVE  Good(do_hnat_ext_to_ge2(s), s.flow)
<1> DEFINE d == get_dev_from_index(s.mark)
           t == Received(s, d)
<1>1. s \in Skb /\ s.flow \in Flows /\ Names(s.mark, From[s.flow])
  BY DEF Seen, SkbOK, OnItsWay
<1>2. s.mark \in Nat
  BY <1>1 DEF Skb
<1>3. d = From[s.flow]
  BY <1>1, <1>2, LookupNamed DEF do_ext2ge_fast_learn
<1>4. d \in Devs
  BY <1>1, <1>3, PathAssumption DEF Devs
<1>5. t \in Skb /\ t.at = First(d) /\ t.dev = d /\ t.mark = 0 /\ t.flow = s.flow
  BY <1>1, <1>4 DEF Received, Skb, Place, First
<1>6. t.at # "commit"
  BY <1>5 DEF First
<1>7. SkbOK(t)
  BY <1>1, <1>3, <1>5, <1>6, NoNumber DEF SkbOK, OnItsWay
<1> HIDE DEF t
<1>8. CASE skb_hnat_is_hashed(s)
  BY <1>3, <1>6, <1>7, <1>8 DEF do_hnat_ext_to_ge2, Good, Done, t
<1>9. CASE ~skb_hnat_is_hashed(s)
  BY <1>9, FreeOK DEF do_hnat_ext_to_ge2, Drop, Good, Done, Free
<1> QED BY <1>8, <1>9

LEMMA FastGood ==
  ASSUME NumbersOK, EntriesName, NEW s, Seen(s)
  PROVE  Good(do_hnat_ge_to_ext(s), s.flow)
<1> DEFINE d == get_dev_from_index(foe[s.flow].act)
<1>1. s.flow \in Flows
  BY DEF Seen, SkbOK, OnItsWay
<1>2. foe[s.flow].act \in Nat /\ Names(foe[s.flow].act, To[s.flow])
  BY <1>1 DEF EntriesName, Entry
<1>3. d \in {To[s.flow], None}
  BY <1>2, LookupNamed
<1> QED BY <1>3, FreeOK DEF do_hnat_ge_to_ext, Good, Done, Free

(* What only concerns the descriptor does not lead a packet astray.         *)
LEMMA Described ==
  ASSUME NEW s, Seen(s), NEW a \in BOOLEAN
  PROVE  /\ Seen([s EXCEPT !.alg = a]) /\ Seen([s EXCEPT !.cb = "none"])
         /\ Seen([s EXCEPT !.tag = FALSE, !.reason = "none"])
         /\ [s EXCEPT !.alg = a].flow = s.flow /\ [s EXCEPT !.cb = "none"].flow = s.flow
         /\ [s EXCEPT !.tag = FALSE, !.reason = "none"].flow = s.flow
<1>1. s \in Skb
  BY DEF Seen, SkbOK
<1>2. ASSUME NEW t \in Skb, t.at = s.at, t.flow = s.flow, t.dev = s.dev, t.mark = s.mark, t.act = s.act
      PROVE  Seen(t)
  BY <1>2 DEF Seen, SkbOK, OnItsWay
<1>3. [s EXCEPT !.alg = a] \in Skb
  BY <1>1 DEF Skb
<1>4. [s EXCEPT !.cb = "none"] \in Skb
  BY <1>1 DEF Skb
<1>5. [s EXCEPT !.tag = FALSE, !.reason = "none"] \in Skb
  BY <1>1 DEF Skb
<1>6. Seen([s EXCEPT !.alg = a])
  BY <1>1, <1>2, <1>3 DEF Skb
<1>7. Seen([s EXCEPT !.cb = "none"])
  BY <1>1, <1>2, <1>4 DEF Skb
<1>8. Seen([s EXCEPT !.tag = FALSE, !.reason = "none"])
  BY <1>1, <1>2, <1>5 DEF Skb
<1> QED BY <1>1, <1>6, <1>7, <1>8 DEF Skb

LEMMA BridgeGood ==
  ASSUME NumbersOK, EntriesName, NEW s, Seen(s)
  PROVE  Good(Pong(s), s.flow) /\ Good(LocalInWhnat(s), s.flow)
<1> DEFINE t == IF s.iface = "ext" THEN [s EXCEPT !.cb = "none"] ELSE s
<1>1. Seen(t) /\ t.flow = s.flow
  BY Described
<1> HIDE DEF t
<1>2. Good(Accept(t), s.flow) /\ Good(Accept(s), s.flow) /\ Good(do_hnat_ge_to_ext(t), s.flow)
  BY <1>1, AcceptGood, FastGood
<1>3. do_ext2ge_fast_learn(t) => Good(do_hnat_ext_to_ge2(t), s.flow)
  BY <1>1, ReturnGood
<1> QED BY <1>2, <1>3 DEF t, Pong, LocalInWhnat

LEMMA LocalInGood ==
  ASSUME NumbersOK, EntriesName, NEW s, Seen(s)
  PROVE  Good(mtk_hnat_br_nf_local_in(s), s.flow)
<1> DEFINE t == hnat_set_iif(s)
<1>1. Seen(t) /\ t.flow = s.flow /\ (t.iface = "ext" => In(t) = "br" \/ In(t) \in Exts)
  BY SetIif
<1> HIDE DEF t
<1>2. Seen([t EXCEPT !.alg = TRUE]) /\ [t EXCEPT !.alg = TRUE].flow = s.flow
  BY <1>1, Described
<1>3. Seen([s EXCEPT !.alg = TRUE]) /\ [s EXCEPT !.alg = TRUE].flow = s.flow
  BY Described
<1>4. /\ Good(Accept(s), s.flow) /\ Good(Accept(t), s.flow)
      /\ Good(Accept([t EXCEPT !.alg = TRUE]), s.flow) /\ Good(Accept([s EXCEPT !.alg = TRUE]), s.flow)
  BY <1>1, <1>2, <1>3, AcceptGood
<1>5. do_ext2ge_fast_try(t) => Good(ExtToGe(t, In(t)), s.flow)
  BY <1>1, ExtToGeGood DEF do_ext2ge_fast_try
<1>6. Good(LocalInWhnat(t), s.flow)
  BY <1>1, BridgeGood
<1> QED BY <1>4, <1>5, <1>6 DEF t, mtk_hnat_br_nf_local_in

LEMMA PreRoutingGood ==
  ASSUME NumbersOK, EntriesName, NEW s, Seen(s)
  PROVE  Good(PreRouting(s), s.flow)
<1> DEFINE t == hnat_set_iif(s)
           u == [t EXCEPT !.tag = FALSE, !.reason = "none"]
<1>1. Seen(t) /\ t.flow = s.flow /\ (t.iface = "ext" => In(t) = "br" \/ In(t) \in Exts)
  BY SetIif
<1> HIDE DEF t
<1>2. Seen(u) /\ u.flow = s.flow
  BY <1>1, Described
<1>3. Seen([s EXCEPT !.alg = TRUE]) /\ [s EXCEPT !.alg = TRUE].flow = s.flow
  BY Described
<1>4. /\ Good(Accept(s), s.flow) /\ Good(Accept(t), s.flow)
      /\ Good(Accept(u), s.flow) /\ Good(Accept([s EXCEPT !.alg = TRUE]), s.flow)
  BY <1>1, <1>2, <1>3, AcceptGood
<1>5. do_ext2ge_fast_try(t) => Good(ExtToGe(t, In(t)), s.flow)
  BY <1>1, ExtToGeGood DEF do_ext2ge_fast_try
<1>6. Good(do_hnat_ge_to_ext(t), s.flow)
  BY <1>1, FastGood
<1>7. Good(Accept(IF Kind[t.flow] = "xlat" THEN u ELSE t), s.flow)
  BY <1>4
<1> HIDE DEF u
<1> QED BY <1>4, <1>5, <1>6, <1>7 DEF t, u, PreRouting

LEMMA HookedGood ==
  ASSUME NumbersOK, EntriesName, NEW s, Seen(s)
  PROVE  Good(Hooked(s), s.flow)
<1> DEFINE b == Kind[s.flow] = "tunnel4"
<1>1. Good(Accept([s EXCEPT !.alg = b]), s.flow) /\ Good(Accept(s), s.flow)
  BY Described, AcceptGood
<1>2. Good(LocalOut(s), s.flow)
  BY <1>1 DEF LocalOut
<1> QED BY <1>2, BridgeGood, LocalInGood, PreRoutingGood DEF Hooked, Seen

(* At the start every device has a number of its own, and nothing else has. *)
LEMMA InitIInv == Init => IInv
<1> SUFFICES ASSUME Init PROVE IInv
  OBVIOUS
<1>1. Cardinality(Exts) \in Nat /\ Cardinality(Exts) <= IfMax
  BY PathAssumption, FS_CardinalityType
<1>2. NumbersOK
  BY <1>1 DEF Init, NumbersOK
<1>3. EntriesName
  <2>1. foe \in [Flows -> Entry] /\ \A f \in Flows : foe[f].act = 0
    BY DEF Init, Entry
  <2> QED BY <1>2, <2>1, NoNumber DEF EntriesName
<1>4. skb \in [Skbs -> Skb] /\ \A k \in Skbs : SkbOK(skb[k])
  BY FreeOK DEF Init, SkbOK
<1>5. last.how = "none"
  BY DEF Init
<1> QED BY <1>2, <1>3, <1>4, <1>5 DEF IInv, ReturnsToSource, NotMisdelivered

(* Devices may get new numbers and lose them; what a number named it names, *)
(* or nothing.                                                              *)
LEMMA StillNames ==
  ASSUME NumbersOK, count' \in Nat, count <= count',
         \A d \in Exts : ifindex'[d] \in {ifindex[d], 0} \/ ifindex'[d] > count,
         NEW n \in Nat, NEW d, Names(n, d)
  PROVE  Names(n, d)'
BY DEF Names, NumbersOK

LEMMA StillOK ==
  ASSUME NumbersOK, count' \in Nat, count <= count',
         \A d \in Exts : ifindex'[d] \in {ifindex[d], 0} \/ ifindex'[d] > count,
         NEW s, SkbOK(s)
  PROVE  SkbOK(s)'
<1>1. CASE s.at = "free"
  BY <1>1 DEF SkbOK
<1>2. CASE s.at # "free"
  <2>1. s \in Skb /\ OnItsWay(s)
    BY <1>2 DEF SkbOK
  <2>2. s.mark \in Nat /\ s.act \in Nat
    BY <2>1 DEF Skb
  <2>3. Names(s.mark, From[s.flow])'
    BY <2>1, <2>2, StillNames DEF OnItsWay
  <2>4. s.at = "commit" => Names(s.act, To[s.flow])'
    BY <2>1, <2>2, StillNames DEF OnItsWay
  <2>5. OnItsWay(s)'
    BY <2>1, <2>3, <2>4 DEF OnItsWay
  <2> QED BY <2>1, <2>5 DEF SkbOK
<1> QED BY <1>1, <1>2

(* Events of devices.                                                       *)
LEMMA DeviceStep ==
  ASSUME IInv, NumbersOK', last' = Nothing, count <= count',
         \A d \in Exts : ifindex'[d] \in {ifindex[d], 0} \/ ifindex'[d] > count,
         foe' \in [Flows -> Entry], \A f \in Flows : foe'[f].act = foe[f].act,
         skb' \in [Skbs -> Skb], \A k \in Skbs : skb'[k] \in {skb[k], Free}
  PROVE  IInv'
<1>1. count' \in Nat /\ NumbersOK
  BY DEF NumbersOK, IInv
<1>2. EntriesName'
  <2>1. ASSUME NEW f \in Flows PROVE Names(foe[f].act, To[f])'
    <3>1. PICK n \in Nat : n = foe[f].act
      BY DEF IInv, EntriesName, Entry
    <3>2. PICK d : d = To[f]
      OBVIOUS
    <3>3. Names(n, d)
      BY <3>1, <3>2 DEF IInv, EntriesName
    <3>4. Names(n, d)'
      BY <1>1, <3>3, StillNames
    <3> QED BY <3>1, <3>2, <3>4 DEF Names
  <2> QED BY <2>1 DEF EntriesName
<1>3. ASSUME NEW k \in Skbs PROVE SkbOK(skb[k])'
  <2>1. PICK s : s = skb'[k]
    OBVIOUS
  <2>2. SkbOK(s)
    BY <2>1, FreeOK DEF IInv
  <2>3. SkbOK(s)'
    BY <1>1, <2>2, StillOK
  <2> QED BY <2>1, <2>3 DEF SkbOK, OnItsWay, Names
<1> QED BY <1>2, <1>3 DEF IInv, ReturnsToSource, NotMisdelivered, Nothing

(* A step of a packet's.                                                    *)
LEMMA SkbStep ==
  ASSUME IInv, UNCHANGED <<ifindex, count, ext>>, EntriesName',
         NEW k \in Skbs, NEW t, SkbOK(t), skb' = [skb EXCEPT ![k] = t],
         ReturnsToSource', NotMisdelivered'
  PROVE  IInv'
<1>1. NumbersOK'
  BY DEF IInv, NumbersOK
<1>2. skb' \in [Skbs -> Skb] /\ \A j \in Skbs : skb'[j] \in {skb[j], t}
  BY DEF IInv, SkbOK
<1>3. ASSUME NEW j \in Skbs PROVE SkbOK(skb[j])'
  <2>1. SkbOK(skb'[j])
    BY <1>2 DEF IInv
  <2> QED BY <2>1 DEF SkbOK, OnItsWay, Names
<1> QED BY <1>1, <1>2, <1>3 DEF IInv

(* What is written in the entry of a flow.                                  *)
LEMMA EntryStep ==
  ASSUME IInv, UNCHANGED <<ifindex, count>>, NEW f \in Flows, NEW e \in Entry, Names(e.act, To[f]),
         foe' = [foe EXCEPT ![f] = e]
  PROVE  EntriesName'
<1>1. foe' \in [Flows -> Entry] /\ \A g \in Flows : foe'[g] = IF g = f THEN e ELSE foe[g]
  BY DEF IInv, EntriesName
<1>2. \A g \in Flows : Names(foe'[g].act, To[g])
  BY <1>1 DEF IInv, EntriesName
<1> QED BY <1>1, <1>2 DEF EntriesName, Names

LEMMA LearnedOK ==
  ASSUME IInv, UNCHANGED <<ifindex, count>>, NEW f \in Flows, foe' = Learned(f)
  PROVE  EntriesName'
<1> DEFINE e == [foe[f] EXCEPT !.state = IF foe[f].state = "INVALID" THEN "UNBIND" ELSE foe[f].state]
<1>1. foe[f] \in Entry /\ Names(foe[f].act, To[f])
  BY DEF IInv, EntriesName
<1>2. e \in Entry /\ e.act = foe[f].act
  BY <1>1 DEF Entry
<1>3. foe' = [foe EXCEPT ![f] = e]
  BY DEF Learned, IInv, EntriesName
<1>4. Names(e.act, To[f])
  BY <1>1, <1>2
<1> HIDE DEF e
<1>5. PICK n : n = e
  OBVIOUS
<1> QED BY <1>2, <1>3, <1>4, <1>5, EntryStep

(* What the engine hands on.                                                *)
LEMMA EngineStep ==
  ASSUME IInv, UNCHANGED devvars, last' = Nothing, NEW k \in Skbs, NEW s \in Skb, s.flow \in Flows,
         Names(s.mark, From[s.flow]), NEW d \in {From[s.flow], Ppd}, FromEngine(k, s, d)
  PROVE  IInv'
<1>1. PICK r \in Answers(foe[s.flow]) :
        skb' = [skb EXCEPT ![k] =
                 IF r = "hw" THEN Free
                 ELSE [s EXCEPT !.at = First(d), !.dev = d, !.iface = "none", !.cb = "none", !.tag = TRUE,
                                !.reason = r, !.alg = FALSE, !.mark = IF r = "force" THEN 0 ELSE @]]
  BY DEF FromEngine
<1> DEFINE m == IF r = "force" THEN 0 ELSE s.mark
           u == [s EXCEPT !.at = First(d), !.dev = d, !.iface = "none", !.cb = "none", !.tag = TRUE,
                          !.reason = r, !.alg = FALSE, !.mark = m]
           t == IF r = "hw" THEN Free ELSE u
<1>2. r \in {"hw", "unhit", "unbind", "rate", "force", "dup"}
  BY DEF Answers, IInv, EntriesName, Entry
<1>3. d \in Devs /\ First(d) \in {"br_pre", "ip_pre"}
  BY PathAssumption DEF Devs, First
<1>4. m \in Nat /\ Names(m, From[s.flow])
  BY NoNumber DEF Skb, IInv
<1> HIDE DEF m
<1>5. ASSUME r # "hw" PROVE SkbOK(u)
  <2>1. PICK a : a = First(d)
    OBVIOUS
  <2>2. a \in Place /\ a # "commit" /\ d \in Devs \cup {None}
    BY <1>3, <2>1 DEF Place
  <2>3. r \in {"none", "unhit", "unbind", "rate", "force", "dup"}
    BY <1>2, <1>5
  <2>4. u = [s EXCEPT !.at = a, !.dev = d, !.iface = "none", !.cb = "none", !.tag = TRUE,
                      !.reason = r, !.alg = FALSE, !.mark = m]
    BY <2>1
  <2> HIDE DEF u
  <2>5. u \in Skb /\ u.at = a /\ u.flow = s.flow /\ u.dev = d /\ u.mark = m
    BY <1>4, <2>2, <2>3, <2>4 DEF Skb
  <2> QED BY <1>4, <2>2, <2>5 DEF SkbOK, OnItsWay
<1>6. SkbOK(t)
  BY <1>5, FreeOK
<1>7. skb' = [skb EXCEPT ![k] = t]
  BY <1>1 DEF m
<1>8. EntriesName'
  BY LearnedOK DEF FromEngine, devvars
<1>9. ReturnsToSource' /\ NotMisdelivered'
  BY DEF ReturnsToSource, NotMisdelivered, Nothing
<1> HIDE DEF t
<1> QED BY <1>6, <1>7, <1>8, <1>9, SkbStep DEF devvars

(* A step that neither returns a packet nor hands one on.                   *)
LEMMA Untold == ASSUME last' = Nothing PROVE ReturnsToSource' /\ NotMisdelivered'
BY DEF ReturnsToSource, NotMisdelivered, Nothing

(* A step that leaves the entries as they are.                              *)
LEMMA SameEntries ==
  ASSUME IInv, UNCHANGED <<ifindex, count, foe>>
  PROVE  EntriesName'
BY DEF IInv, EntriesName, Names

LEMMA ArriveStep ==
  ASSUME IInv, NEW k \in Skbs, NEW f \in Flows, Arrive(k, f)
  PROVE  IInv'
<1>1. CASE From[f] \in Macs
  <2> DEFINE s == [Free EXCEPT !.flow = f, !.sport = "mac"]
  <2>1. s \in Skb /\ s.flow = f /\ s.mark = 0
    BY DEF Skb, Place, Free
  <2>2. Names(s.mark, From[s.flow])
    BY <2>1, NoNumber DEF IInv
  <2>3. FromEngine(k, s, From[f]) /\ last' = Nothing /\ UNCHANGED devvars
    BY <1>1 DEF Arrive
  <2> HIDE DEF s
  <2>4. PICK d : d = From[f]
    OBVIOUS
  <2> QED BY <2>1, <2>2, <2>3, <2>4, EngineStep
<1>2. CASE From[f] \notin Macs
  <2>1. PICK t \in BOOLEAN :
          skb' = [skb EXCEPT ![k] = [Free EXCEPT !.at = First(From[f]), !.flow = f, !.dev = From[f], !.tag = t]]
    BY <1>2 DEF Arrive
  <2> DEFINE u == [Free EXCEPT !.at = First(From[f]), !.flow = f, !.dev = From[f], !.tag = t]
  <2>2. First(From[f]) \in {"br_pre", "ip_pre"} /\ From[f] \in Devs
    BY PathAssumption DEF First, Devs
  <2>3. u \in Skb /\ u.at = First(From[f]) /\ u.flow = f /\ u.dev = From[f] /\ u.mark = 0
    BY <2>2 DEF Skb, Place, Free
  <2>4. SkbOK(u)
    BY <2>2, <2>3, NoNumber DEF SkbOK, OnItsWay, IInv
  <2>5. UNCHANGED <<ifindex, count, ext, foe>> /\ last' = Nothing
    BY <1>2 DEF Arrive, devvars
  <2>6. EntriesName' /\ ReturnsToSource' /\ NotMisdelivered'
    BY <2>5, SameEntries, Untold
  <2> HIDE DEF u
  <2> QED BY <2>1, <2>4, <2>5, <2>6, SkbStep DEF u
<1> QED BY <1>1, <1>2

LEMMA LoopStep ==
  ASSUME IInv, NEW k \in Skbs, Loop(k)
  PROVE  IInv'
<1>1. PICK s : s = [skb[k] EXCEPT !.sport = "cpu"]
  OBVIOUS
<1>2. SkbOK(skb[k]) /\ skb[k].at = "ppe"
  BY DEF IInv, Loop
<1>3. s \in Skb /\ s.flow = skb[k].flow /\ s.mark = skb[k].mark
  BY <1>1, <1>2 DEF SkbOK, Skb
<1>4. s.flow \in Flows /\ Names(s.mark, From[s.flow])
  BY <1>2, <1>3 DEF SkbOK, OnItsWay
<1>5. FromEngine(k, s, Ppd) /\ last' = Nothing /\ UNCHANGED devvars
  BY <1>1 DEF Loop
<1> QED BY <1>3, <1>4, <1>5, EngineStep

LEMMA HookStep ==
  ASSUME IInv, NEW k \in Skbs, Hook(k)
  PROVE  IInv'
<1>1. PICK s : s = skb[k]
  OBVIOUS
<1>2. PICK r : r = Hooked(s)
  OBVIOUS
<1>3. Seen(s) /\ s.flow \in Flows
  BY <1>1 DEF Hook, IInv, Seen, SkbOK, OnItsWay
<1>4. Good(r, s.flow)
  BY <1>2, <1>3, HookedGood DEF IInv
<1>5. /\ skb' = [skb EXCEPT ![k] = r.skb] /\ Tell(s.flow, r)
      /\ UNCHANGED <<ifindex, count, ext, foe>>
  BY <1>1, <1>2 DEF Hook, devvars
<1>6. ReturnsToSource' /\ NotMisdelivered'
  <2>1. CASE r.how \in {"fast", "return", "lost"}
    <3>1. last' = [how |-> r.how, flow |-> s.flow, dev |-> r.dev]
      BY <1>5, <2>1 DEF Tell
    <3> QED BY <1>4, <3>1 DEF Good, ReturnsToSource, NotMisdelivered
  <2>2. CASE r.how \notin {"fast", "return", "lost"}
    BY <1>5, <2>2, Untold DEF Tell
  <2> QED BY <2>1, <2>2
<1>7. EntriesName'
  BY <1>5, SameEntries
<1> QED BY <1>4, <1>5, <1>6, <1>7, SkbStep DEF Good

LEMMA XlatPostStep ==
  ASSUME IInv, NEW k \in Skbs, XlatPost(k)
  PROVE  IInv'
<1>1. PICK f : f = skb[k].flow
  OBVIOUS
<1>2. f \in Flows
  BY <1>1 DEF XlatPost, IInv, SkbOK, OnItsWay
<1>3. XlatEntry \in Entry /\ Names(XlatEntry.act, To[f])
  BY NoNumber DEF XlatEntry, Entry, IInv
<1>4. PICK e : e = XlatEntry
  OBVIOUS
<1>5. /\ foe' = [foe EXCEPT ![f] = e] /\ skb' = [skb EXCEPT ![k] = Free]
      /\ last' = Nothing /\ UNCHANGED <<ifindex, count, ext>>
  BY <1>1, <1>4 DEF XlatPost, devvars
<1>6. EntriesName'
  BY <1>2, <1>3, <1>4, <1>5, EntryStep
<1>7. PICK t : t = Free
  OBVIOUS
<1> QED BY <1>5, <1>6, <1>7, FreeOK, Untold, SkbStep

LEMMA PostRoutingStep ==
  ASSUME IInv, NEW k \in Skbs, PostRouting(k)
  PROVE  IInv'
<1>1. PICK s : s = skb[k]
  OBVIOUS
<1>2. PICK t \in IF Binds(s) THEN Prepared(s) ELSE {Free} : skb' = [skb EXCEPT ![k] = t]
  BY <1>1 DEF PostRouting
<1>3. s \in Skb /\ OnItsWay(s)
  BY <1>1 DEF PostRouting, IInv, SkbOK
<1>4. ASSUME t # Free PROVE SkbOK(t)
  <2>1. PICK n : n = ActOf(s)
    OBVIOUS
  <2>2. Binds(s) /\ t = [s EXCEPT !.at = "commit", !.act = n]
    BY <1>4, <1>2, <2>1 DEF Prepared
  <2>3. n \in Nat /\ Names(n, To[s.flow])
    <3>1. CASE To[s.flow] \in Macs
      BY <2>1, <3>1, NoNumber DEF ActOf, IInv
    <3>2. CASE To[s.flow] \notin Macs
      <4>1. To[s.flow] \in Exts
        BY <1>3, <3>2, PathAssumption DEF OnItsWay
      <4>2. ifindex[To[s.flow]] \in Nat /\ ifindex[To[s.flow]] <= IfMax
        BY <4>1, PathAssumption DEF IInv, NumbersOK
      <4>3. ifindex[To[s.flow]] % ActSpace \in Nat
        BY <4>2, NoCut
      <4> QED BY <2>1, <3>2, <4>1, <4>3, OwnNumber DEF ActOf, IInv
    <3> QED BY <3>1, <3>2
  <2>4. t \in Skb /\ t.flow = s.flow /\ t.dev = s.dev /\ t.mark = s.mark /\ t.act = n
    BY <1>3, <2>2, <2>3 DEF Skb, Place
  <2> QED BY <1>3, <2>3, <2>4 DEF SkbOK, OnItsWay
<1>5. UNCHANGED <<ifindex, count, ext, foe>> /\ last' = Nothing
  BY DEF PostRouting, devvars
<1>6. EntriesName' /\ ReturnsToSource' /\ NotMisdelivered'
  BY <1>5, SameEntries, Untold
<1>7. SkbOK(t)
  BY <1>4, FreeOK
<1> QED BY <1>2, <1>5, <1>6, <1>7, SkbStep

LEMMA CommitStep ==
  ASSUME IInv, NEW k \in Skbs, Commit(k)
  PROVE  IInv'
<1>1. PICK s : s = skb[k]
  OBVIOUS
<1>2. s \in Skb /\ OnItsWay(s) /\ s.at = "commit"
  BY <1>1 DEF Commit, IInv, SkbOK
<1>3. PICK e : e = [state |-> "BIND", act |-> s.act]
  OBVIOUS
<1>4. e \in Entry /\ Names(e.act, To[s.flow]) /\ s.flow \in Flows
  BY <1>2, <1>3 DEF Skb, Entry, OnItsWay
<1>5. /\ foe' = (IF foe[s.flow].state = "UNBIND" THEN [foe EXCEPT ![s.flow] = e] ELSE foe)
      /\ skb' = [skb EXCEPT ![k] = Free]
      /\ last' = Nothing /\ UNCHANGED <<ifindex, count, ext>>
  BY <1>1, <1>3 DEF Commit, devvars
<1>6. EntriesName'
  <2>1. CASE foe' = foe
    BY <1>5, <2>1, SameEntries
  <2>2. CASE foe' = [foe EXCEPT ![s.flow] = e]
    <3>1. PICK f : f = s.flow
      OBVIOUS
    <3> QED BY <1>4, <1>5, <2>2, <3>1, EntryStep
  <2> QED BY <1>5, <2>1, <2>2
<1>7. PICK t : t = Free
  OBVIOUS
<1> QED BY <1>5, <1>6, <1>7, FreeOK, Untold, SkbStep

(* Devices and entries that end.                                            *)
LEMMA ClearedActs ==
  ASSUME EntriesName
  PROVE  /\ Cleared \in [Flows -> Entry]
         /\ \A f \in Flows : Cleared[f].act = foe[f].act
<1>1. ASSUME NEW f \in Flows PROVE Cleared[f] \in Entry /\ Cleared[f].act = foe[f].act
  <2>1. foe[f] \in Entry
    BY DEF EntriesName
  <2> QED BY <2>1 DEF Cleared, Entry
<1> QED BY <1>1 DEF Cleared

(* A step that concerns entries alone, and takes none elsewhere.            *)
LEMMA EntriesStep ==
  ASSUME IInv, UNCHANGED <<ifindex, count, ext, skb>>, last' = Nothing,
         foe' \in [Flows -> Entry], \A f \in Flows : foe'[f].act = foe[f].act
  PROVE  IInv'
<1>1. NumbersOK' /\ count <= count'
  BY DEF IInv, NumbersOK
<1>2. \A d \in Exts : ifindex'[d] \in {ifindex[d], 0} \/ ifindex'[d] > count
  OBVIOUS
<1>3. skb' \in [Skbs -> Skb] /\ \A k \in Skbs : skb'[k] \in {skb[k], Free}
  BY DEF IInv
<1> QED BY <1>1, <1>2, <1>3, DeviceStep

LEMMA DownStep ==
  ASSUME IInv, NEW d \in Devs, GoingDown(d) \/ Up(d)
  PROVE  IInv'
<1>1. NumbersOK'
  BY PathAssumption DEF IInv, NumbersOK, GoingDown, Up
<1>2. UNCHANGED <<ifindex, count, skb>> /\ last' = Nothing /\ foe' \in {foe, Cleared}
  BY DEF GoingDown, Up
<1>3. foe' \in [Flows -> Entry] /\ \A f \in Flows : foe'[f].act = foe[f].act
  BY <1>2, ClearedActs DEF IInv, EntriesName
<1>4. skb' \in [Skbs -> Skb] /\ \A k \in Skbs : skb'[k] \in {skb[k], Free}
  BY <1>2 DEF IInv
<1>5. count <= count' /\ \A e \in Exts : ifindex'[e] \in {ifindex[e], 0} \/ ifindex'[e] > count
  BY <1>2 DEF IInv, NumbersOK
<1> QED BY <1>1, <1>2, <1>3, <1>4, <1>5, DeviceStep

LEMMA RegisterStep ==
  ASSUME IInv, NEW d \in Exts, Unregister(d) \/ Register(d)
  PROVE  IInv'
<1>1. UNCHANGED foe /\ last' = Nothing
  BY DEF Unregister, Register
<1>2. foe' \in [Flows -> Entry] /\ \A f \in Flows : foe'[f].act = foe[f].act
  BY <1>1 DEF IInv, EntriesName
<1>3. CASE Unregister(d)
  <2>1. NumbersOK' /\ count <= count' /\ \A e \in Exts : ifindex'[e] \in {ifindex[e], 0}
    BY <1>3 DEF IInv, NumbersOK, Unregister
  <2>2. skb' \in [Skbs -> Skb] /\ \A k \in Skbs : skb'[k] \in {skb[k], Free}
    BY <1>3, FreeOK DEF IInv, Unregister, SkbOK
  <2> QED BY <1>1, <1>2, <2>1, <2>2, DeviceStep
<1>4. CASE Register(d)
  <2>1. /\ NumbersOK' /\ count <= count'
        /\ \A e \in Exts : ifindex'[e] \in {ifindex[e], 0} \/ ifindex'[e] > count
    BY <1>4, PathAssumption DEF IInv, NumbersOK, Register
  <2>2. skb' \in [Skbs -> Skb] /\ \A k \in Skbs : skb'[k] \in {skb[k], Free}
    BY <1>4 DEF IInv, Register
  <2> QED BY <1>1, <1>2, <2>1, <2>2, DeviceStep
<1> QED BY <1>3, <1>4

LEMMA GoneStep ==
  ASSUME IInv, (\E d \in Macs : LinkDown(d)) \/ (\E f \in Flows : Remove(f))
  PROVE  IInv'
<1>1. UNCHANGED <<ifindex, count, ext, skb>> /\ last' = Nothing
  BY DEF LinkDown, Remove, devvars
<1>2. foe' \in [Flows -> Entry] /\ \A f \in Flows : foe'[f].act = foe[f].act
  <2>1. CASE \E d \in Macs : LinkDown(d)
    BY <2>1, ClearedActs DEF LinkDown, IInv, EntriesName
  <2>2. CASE \E f \in Flows : Remove(f)
    BY <2>2 DEF Remove, IInv, EntriesName, Entry
  <2> QED BY <2>1, <2>2
<1> QED BY <1>1, <1>2, EntriesStep

LEMMA NextIInv == IInv /\ [Next]_vars => IInv'
<1> SUFFICES ASSUME IInv, [Next]_vars PROVE IInv'
  OBVIOUS
<1>1. CASE UNCHANGED vars
  BY <1>1 DEF vars, IInv, NumbersOK, EntriesName, Names, SkbOK, OnItsWay, ReturnsToSource, NotMisdelivered
<1>2. CASE \E k \in Skbs : \E f \in Flows : Arrive(k, f)
  BY <1>2, ArriveStep
<1>3. CASE \E k \in Skbs : Loop(k) \/ Hook(k)
  BY <1>3, LoopStep, HookStep
<1>4. CASE \E k \in Skbs : XlatPost(k) \/ PostRouting(k) \/ Commit(k)
  BY <1>4, XlatPostStep, PostRoutingStep, CommitStep
<1>5. CASE \E d \in Devs : GoingDown(d) \/ Up(d)
  BY <1>5, DownStep
<1>6. CASE \E d \in Exts : Unregister(d) \/ Register(d)
  BY <1>6, RegisterStep
<1>7. CASE (\E d \in Macs : LinkDown(d)) \/ (\E f \in Flows : Remove(f))
  BY <1>7, GoneStep
<1> QED BY <1>1, <1>2, <1>3, <1>4, <1>5, <1>6, <1>7 DEF Next

(* What comes back from the engine is received again on the device it came  *)
(* in by (do_hnat_ext_to_ge2).                                              *)
THEOREM ReturnsSafe == Spec => []ReturnsToSource
<1>1. IInv => ReturnsToSource
  BY DEF IInv
<1> QED BY <1>1, InitIInv, NextIInv, PTL DEF Spec

(* What the engine sends up for a bound flow leaves by the device the flow  *)
(* goes to and by no other (do_hnat_ge_to_ext).                             *)
THEOREM DeliverySafe == Spec => []NotMisdelivered
<1>1. IInv => NotMisdelivered
  BY DEF IInv
<1> QED BY <1>1, InitIInv, NextIInv, PTL DEF Spec
-------------------------------------------------------------------------------
(***************************************************************************)
(* How often a packet goes round, and what is bound.                       *)
(***************************************************************************)
(* Trips through the engine: a packet that came back is marked, or has lost *)
(* its mark where one more trip is possible; the second trip has no number. *)
Trips(s) ==
  IF s.dev \in Exts
  THEN \/ s.trips = 0
       \/ s.trips = 1 /\ s.cb = "from_extge"
       \/ /\ s.trips = 1 /\ s.at \notin {"br_pre", "br_in"}
          /\ s.at = "ip_pre" => s.dev \in Ports /\ Twice(s.flow)
  ELSE s.trips <= 1 \/ (s.trips = 2 /\ s.mark = 0 /\ Twice(s.flow))

(* What the bridge floods came by a port of it, and so does what the engine *)
(* returns of it.                                                           *)
FloodedByPorts == \A f \in Missed : From[f] \in Ports /\ Ppd \in Ports

(* What a hook ruled out stays so: behind it the packet is marked.          *)
Ruled(s) ==
  /\ s.at \in {"local_out", "post"} /\ s.tag /\ s.flow \in Odd => s.alg \/ Kind[s.flow] = "6rd"
  /\ s.at = "post" /\ s.tag /\ s.reason # "none" /\ Kind[s.flow] = "tunnel4" => s.alg
  /\ FloodedByPorts /\ whnat /\ s.at \in {"ip_pre", "local_out", "post"}
       /\ s.flow \in Missed /\ s.tag /\ s.reason = "rate" => s.alg

Eligible(f) ==
  /\ f \notin Odd \/ Kind[f] = "6rd"
  /\ Kind[f] # "tunnel4"
  /\ FloodedByPorts /\ whnat => f \notin Missed

Way(s) ==
  /\ s.at = "br_pre" => s.dev \in Ports /\ s.iface # "ext"
  /\ s.at = "br_in" => ~whnat
  /\ s.at = "ppe" => s.dev \notin Exts
  /\ s.at # "ppe" /\ s.iface = "ext" => s.dev \in Exts
  /\ Trips(s) /\ Ruled(s)
  /\ s.at = "commit" => Eligible(s.flow)

OnWay(s) == s.at # "free" => Way(s)

Translated == {f \in Flows : Kind[f] = "xlat" /\ f \notin Odd}

PInv ==
  /\ IInv
  /\ \A k \in Skbs : OnWay(skb[k])
  /\ headroom \subseteq Translated
  /\ \A f \in Flows : foe[f].state = "BIND" => Eligible(f)

(* What holds of a packet when a hook has accepted it.                      *)
Passed(s) ==
  /\ s.at = "br_pre" => s.dev \in Ports
  /\ s.at = "br_in" => ~whnat
  /\ s.iface = "ext" => s.dev \in Exts
  /\ IF s.dev \in Exts
     THEN \/ s.trips = 0
          \/ s.trips = 1 /\ s.cb = "from_extge"
          \/ /\ s.trips = 1 /\ s.at # "br_in"
             /\ s.at \in {"br_pre", "ip_pre"} => whnat
     ELSE s.trips <= 1 \/ (s.trips = 2 /\ s.mark = 0 /\ Twice(s.flow))
  /\ (s.at = "br_pre" => whnat) /\ s.tag /\ s.flow \in Odd
       => s.alg \/ (s.at = "local_out" /\ Kind[s.flow] = "6rd")
  /\ s.at = "local_out" /\ s.tag /\ s.reason # "none" /\ Kind[s.flow] = "tunnel4" => s.alg
  /\ FloodedByPorts /\ whnat /\ s.flow \in Missed /\ s.tag /\ s.reason = "rate" => s.alg

(* A packet of an external device is at the one it came in by.              *)
LEMMA AtSource == ASSUME NEW s, Seen(s), s.dev \in Exts PROVE s.dev = From[s.flow]
BY PathAssumption DEF Seen, SkbOK, OnItsWay

LEMMA AcceptWay ==
  ASSUME NEW s, Seen(s), Passed(s)
  PROVE  OnWay(Accept(s).skb)
<1>1. CASE Onward(s) = "out"
  BY <1>1 DEF Accept, Done, OnWay, Free
<1>2. CASE Onward(s) # "out"
  <2> DEFINE t == [s EXCEPT !.at = Onward(s)]
  <2>0. PICK a : a = Onward(s)
    OBVIOUS
  <2>1. t = [s EXCEPT !.at = a] /\ s \in Skb /\ a # "br_pre" /\ a # "commit" /\ a # "ppe"
    BY <2>0 DEF Seen, SkbOK, Onward, Leaving
  <2> HIDE DEF t
  <2>2. /\ t.at = a /\ t.flow = s.flow /\ t.dev = s.dev /\ t.iface = s.iface /\ t.cb = s.cb
        /\ t.trips = s.trips /\ t.mark = s.mark /\ t.tag = s.tag /\ t.alg = s.alg /\ t.reason = s.reason
    BY <2>1 DEF Skb
  <2>3. a = "br_in" => ~whnat
    BY <2>0 DEF Onward, Leaving, Seen, Passed
  <2>4. Trips(t)
    <3>1. CASE s.dev \in Exts /\ s.at = "br_pre" /\ whnat
      <4>1. From[s.flow] \in Ports
        BY <3>1, AtSource DEF Passed
      <4>2. a = "ip_pre" => Twice(s.flow)
        BY <2>0, <3>1, <4>1 DEF Onward, Twice, Routed
      <4> QED BY <2>2, <2>3, <3>1, <4>2, <2>1 DEF Trips, Passed
    <3>2. CASE s.dev \in Exts /\ s.at = "ip_pre"
      BY <2>0, <2>2, <3>2 DEF Trips, Passed, Onward, Leaving
    <3>3. CASE s.dev \in Exts /\ s.at = "local_out"
      BY <2>0, <2>2, <3>3 DEF Trips, Passed, Onward
    <3>4. CASE s.dev \in Exts /\ (s.at = "br_in" \/ (s.at = "br_pre" /\ ~whnat))
      BY <2>2, <3>4 DEF Trips, Passed
    <3>5. CASE s.dev \notin Exts
      BY <2>2, <3>5 DEF Trips, Passed
    <3> QED BY <3>1, <3>2, <3>3, <3>4, <3>5 DEF Seen
  <2>5. Ruled(t)
    BY <2>0, <2>2 DEF Ruled, Passed, Onward, Leaving, Seen, Routed
  <2>6. Way(t)
    BY <2>1, <2>2, <2>3, <2>4, <2>5 DEF Way, Passed
  <2> QED BY <1>2, <2>6 DEF Accept, Done, OnWay, t
<1> QED BY <1>1, <1>2

(* A packet sent to the engine: the second time nothing tells its device.   *)
LEMMA ExtToGeWay ==
  ASSUME NEW s, Seen(s), Passed(s),
         s.trips = 0 \/ (s.trips = 1 /\ In(s) = "br" /\ Twice(s.flow))
  PROVE  OnWay(ExtToGe(s, In(s)).skb)
<1>1. CASE ~up[Ppd]
  BY <1>1, AcceptWay DEF ExtToGe
<1>2. CASE up[Ppd]
  <2> DEFINE n == IF In(s) = "br" THEN 0 ELSE ifindex[In(s)] % MarkSpace
             t == [s EXCEPT !.at = "ppe", !.dev = Ppd, !.cb = "to_ppe", !.trips = @ + 1, !.mark = n]
  <2>1. In(s) = "br" => n = 0
    OBVIOUS
  <2> HIDE DEF n
  <2>2. s \in Skb /\ Ppd \notin Exts
    BY PathAssumption DEF Seen, SkbOK
  <2>3. /\ t.at = "ppe" /\ t.dev = Ppd /\ t.mark = n /\ t.flow = s.flow /\ t.trips = s.trips + 1
    BY <2>2 DEF Skb
  <2> HIDE DEF t
  <2>4. Trips(t)
    BY <2>1, <2>2, <2>3 DEF Trips
  <2>5. Way(t)
    BY <2>2, <2>3, <2>4 DEF Way, Ruled
  <2> QED BY <1>2, <2>5 DEF ExtToGe, Done, OnWay, t, n
<1> QED BY <1>1, <1>2

(* A packet that came back had a number, so it made one trip at most.       *)
LEMMA ReturnWay ==
  ASSUME NumbersOK, NEW s, Seen(s), s.at \in {"br_pre", "br_in"}, do_ext2ge_fast_learn(s),
         s.iface = "ext" => s.dev \in Exts,
         s.trips <= 1 \/ s.mark = 0
  PROVE  OnWay(do_hnat_ext_to_ge2(s).skb)
<1>1. CASE ~skb_hnat_is_hashed(s)
  BY <1>1 DEF do_hnat_ext_to_ge2, Drop, Done, OnWay, Free
<1>2. CASE skb_hnat_is_hashed(s)
  <2> DEFINE d == get_dev_from_index(s.mark)
             t == Received(s, d)
  <2>1. s \in Skb /\ s.mark \in Nat /\ s.trips \in Nat /\ Names(s.mark, From[s.flow])
    BY DEF Seen, SkbOK, OnItsWay, Skb
  <2>2. d = From[s.flow]
    BY <2>1, LookupNamed DEF do_ext2ge_fast_learn
  <2>3. d \in ext /\ ifindex[d] = s.mark
    <3> DEFINE D == {e \in ext : ifindex[e] = s.mark}
    <3>1. D # {}
      BY DEF do_ext2ge_fast_learn, get_dev_from_index
    <3> QED BY <3>1 DEF get_dev_from_index
  <2>4. s.mark # 0 /\ d \in Exts
    BY <2>3 DEF NumbersOK
  <2>5. s.iface # "ext"
    BY PathAssumption DEF do_ext2ge_fast_learn, In
  <2> HIDE DEF d
  <2>6. /\ t.at = First(d) /\ t.dev = d /\ t.mark = 0 /\ t.flow = s.flow /\ t.trips = s.trips
        /\ t.cb = "from_extge" /\ t.iface = s.iface
    BY <2>1 DEF Received, Skb
  <2> HIDE DEF t
  <2>7. First(d) \in {"br_pre", "ip_pre"} /\ (First(d) = "br_pre" <=> d \in Ports)
    BY DEF First
  <2>8. Trips(t)
    BY <2>1, <2>4, <2>6 DEF Trips
  <2>9. Ruled(t)
    BY <2>2, <2>6, <2>7 DEF Ruled, FloodedByPorts
  <2>10. Way(t)
    BY <2>4, <2>5, <2>6, <2>7, <2>8, <2>9 DEF Way
  <2> QED BY <1>2, <2>10 DEF do_hnat_ext_to_ge2, Done, OnWay, t, d
<1> QED BY <1>1, <1>2

LEMMA FastWay == ASSUME NEW s PROVE OnWay(do_hnat_ge_to_ext(s).skb)
BY DEF do_hnat_ge_to_ext, Done, OnWay, Free

(* What hnat_set_iif leaves as it is, and what it finds.                    *)
LEMMA SetIifSame ==
  ASSUME NumbersOK, NEW s, Seen(s), s.iface = "ext" => s.dev \in Exts
  PROVE  LET t == hnat_set_iif(s) IN
         /\ t.cb = s.cb /\ t.trips = s.trips /\ t.mark = s.mark
         /\ t.iface = "ext" => t.dev \in Exts
         /\ (t.tag = s.tag /\ t.reason = s.reason /\ t.alg = s.alg) \/ t.tag = FALSE
<1> DEFINE t == hnat_set_iif(s)
<1>0. PICK i \in {"ge", "ppd", "ext"} :
         \/ t = s
         \/ t = [s EXCEPT !.iface = i]
         \/ t = [s EXCEPT !.iface = "none", !.tag = FALSE, !.reason = "none", !.alg = FALSE]
  BY DEF hnat_set_iif
<1>1. t.iface = "ext" => s.dev \in Exts
  <2>1. s \in Skb
    BY DEF Seen, SkbOK
  <2>2. IsExt(In(s)) => In(s) \in Exts
    BY DEF IsExt, NumbersOK
  <2>3. In(s) \in Exts => s.dev \in Exts
    BY PathAssumption DEF In, Devs
  <2>4. t.iface = "ext" => IsExt(In(s)) \/ s.iface = "ext"
    BY <2>1 DEF hnat_set_iif, Skb
  <2> QED BY <2>2, <2>3, <2>4
<1> HIDE DEF t
<1>2. /\ t.cb = s.cb /\ t.trips = s.trips /\ t.mark = s.mark /\ t.dev = s.dev
      /\ (t.tag = s.tag /\ t.reason = s.reason /\ t.alg = s.alg) \/ t.tag = FALSE
  <2>1. s \in Skb
    BY DEF Seen, SkbOK
  <2>2. CASE t = s
    BY <2>2
  <2>3. CASE t = [s EXCEPT !.iface = i]
    BY <2>1, <2>3 DEF Skb
  <2>4. CASE t = [s EXCEPT !.iface = "none", !.tag = FALSE, !.reason = "none", !.alg = FALSE]
    BY <2>1, <2>4 DEF Skb
  <2> QED BY <1>0, <2>2, <2>3, <2>4
<1> QED BY <1>1, <1>2 DEF t

(* Without whnat the hook of the bridge sees no packet of an external       *)
(* device but to pass it on.                                                *)
LEMMA PongWay ==
  ASSUME NumbersOK, NEW s, Seen(s), Way(s), s.at = "br_pre", ~whnat
  PROVE  OnWay(Pong(s).skb)
<1>1. s.iface # "ext" /\ (s.trips <= 1 \/ s.mark = 0)
  BY PathAssumption DEF Way, Trips, Seen, SkbOK, Skb
<1>2. OnWay(Accept(s).skb)
  <2>1. Passed(s)
    BY DEF Way, Trips, Passed
  <2> QED BY <2>1, AcceptWay
<1>3. do_ext2ge_fast_learn(s) => OnWay(do_hnat_ext_to_ge2(s).skb)
  BY <1>1, ReturnWay
<1> QED BY <1>1, <1>2, <1>3, FastWay DEF Pong

LEMMA LocalInWay ==
  ASSUME NumbersOK, NEW s, Seen(s), Way(s), s.at = "br_in" \/ (s.at = "br_pre" /\ whnat)
  PROVE  OnWay(mtk_hnat_br_nf_local_in(s).skb)
<1> DEFINE t == hnat_set_iif(s)
           a == [s EXCEPT !.alg = TRUE]
           b == [t EXCEPT !.alg = TRUE]
           c == [t EXCEPT !.cb = "none"]
<1>1. Seen(t) /\ t.flow = s.flow /\ t.dev = s.dev /\ t.at = s.at
  BY SetIif
<1>2. /\ t.cb = s.cb /\ t.trips = s.trips /\ t.mark = s.mark
      /\ t.iface = "ext" => t.dev \in Exts
      /\ (t.tag = s.tag /\ t.reason = s.reason /\ t.alg = s.alg) \/ t.tag = FALSE
  BY SetIifSame DEF Way
<1> HIDE DEF t
<1>3. Seen(a) /\ Seen(b) /\ Seen(c)
  BY <1>1, Described
<1>4. s \in Skb /\ t \in Skb
  BY <1>1 DEF Seen, SkbOK
<1>5. /\ a.alg /\ a.at = s.at /\ a.flow = s.flow /\ a.dev = s.dev /\ a.iface = s.iface /\ a.cb = s.cb
      /\ a.trips = s.trips /\ a.mark = s.mark
  BY <1>4 DEF Skb
<1>6. /\ b.alg /\ b.at = t.at /\ b.flow = t.flow /\ b.dev = t.dev /\ b.iface = t.iface /\ b.cb = t.cb
      /\ b.trips = t.trips /\ b.mark = t.mark
  BY <1>4 DEF Skb
<1>7. /\ c.alg = t.alg /\ c.at = t.at /\ c.flow = t.flow /\ c.dev = t.dev /\ c.iface = t.iface
      /\ c.tag = t.tag /\ c.reason = t.reason /\ c.trips = t.trips /\ c.mark = t.mark /\ c.cb = "none"
  BY <1>4 DEF Skb
<1> HIDE DEF a, b, c
<1>8. /\ s.at = "br_pre" => s.dev \in Ports
      /\ s.at = "br_in" => ~whnat
      /\ s.iface = "ext" => s.dev \in Exts
      /\ s.dev \in Exts => s.trips = 0 \/ (s.trips = 1 /\ s.cb = "from_extge")
      /\ s.dev \notin Exts => s.trips <= 1 \/ (s.trips = 2 /\ s.mark = 0 /\ Twice(s.flow))
  BY DEF Way, Trips
<1>9. s.trips <= 1 \/ s.mark = 0
  BY <1>4, <1>8 DEF Skb
<1>10. OnWay(Accept(a).skb) /\ OnWay(Accept(b).skb)
  <2>1. Passed(a) /\ Passed(b)
    BY <1>1, <1>2, <1>5, <1>6, <1>8 DEF Passed
  <2> QED BY <1>3, <2>1, AcceptWay
<1>11. ASSUME ~s.tag PROVE OnWay(Accept(s).skb)
  <2>1. Passed(s)
    BY <1>8, <1>11 DEF Passed
  <2> QED BY <2>1, AcceptWay
<1>12. ASSUME s.flow \notin Odd, ~hnat_bridge_flood_check(t)
       PROVE  /\ Passed(t)
              /\ t.iface = "ext" /\ t.cb = "from_extge" /\ whnat => Passed(c)
  <2>1. whnat /\ t.flow \in Missed /\ t.tag /\ t.reason = "rate" => t.alg
    BY <1>1, <1>8, <1>12 DEF hnat_bridge_flood_check, Floods, skb_hnat_reason_ready_bind
  <2>2. t.at # "local_out" /\ t.at \in {"br_pre", "br_in"}
    BY <1>1
  <2>3. Passed(t)
    BY <1>1, <1>2, <1>8, <1>12, <2>1, <2>2 DEF Passed
  <2>4. whnat => Passed(c)
    BY <1>1, <1>2, <1>7, <1>8, <1>12, <2>1, <2>2 DEF Passed
  <2> QED BY <2>3, <2>4
<1>13. ASSUME s.flow \notin Odd, ~hnat_bridge_flood_check(t), do_ext2ge_fast_try(t)
       PROVE  OnWay(ExtToGe(t, In(t)).skb)
  <2>1. t.trips = 0
    BY <1>1, <1>2, <1>8, <1>13 DEF do_ext2ge_fast_try
  <2> QED BY <1>1, <1>12, <1>13, <2>1, ExtToGeWay
<1>14. ASSUME s.flow \notin Odd, ~hnat_bridge_flood_check(t), ~do_ext2ge_fast_try(t), whnat
       PROVE  OnWay(LocalInWhnat(t).skb)
  <2> DEFINE u == IF t.iface = "ext" THEN c ELSE t
  <2>1. Seen(u) /\ u.at = t.at /\ u.iface = t.iface /\ u.dev = t.dev /\ u.trips = t.trips /\ u.mark = t.mark
    BY <1>1, <1>3, <1>7
  <2>2. Passed(u)
    BY <1>12, <1>14 DEF do_ext2ge_fast_try
  <2>3. LocalInWhnat(t) =
          IF do_ext2ge_fast_learn(u) THEN do_hnat_ext_to_ge2(u)
          ELSE IF do_ge2ext_fast(u) THEN do_hnat_ge_to_ext(u)
          ELSE Accept(u)
    BY DEF LocalInWhnat, c
  <2> HIDE DEF u
  <2>4. OnWay(Accept(u).skb)
    BY <2>1, <2>2, AcceptWay
  <2>5. do_ext2ge_fast_learn(u) => OnWay(do_hnat_ext_to_ge2(u).skb)
    BY <1>1, <1>2, <1>9, <2>1, ReturnWay
  <2> QED BY <2>3, <2>4, <2>5, FastWay
<1>15. ASSUME s.flow \notin Odd, ~hnat_bridge_flood_check(t) PROVE OnWay(Accept(t).skb)
  BY <1>1, <1>12, <1>15, AcceptWay
<1> QED
  BY <1>10, <1>11, <1>13, <1>14, <1>15
  DEF mtk_hnat_br_nf_local_in, is_magic_tag_valid, is_ppe_support_type, t, a, b

LEMMA PreRoutingWay ==
  ASSUME NumbersOK, NEW s, Seen(s), Way(s), s.at = "ip_pre"
  PROVE  OnWay(PreRouting(s).skb)
<1> DEFINE t == hnat_set_iif(s)
           a == [s EXCEPT !.alg = TRUE]
           b == [t EXCEPT !.tag = FALSE, !.reason = "none"]
<1>1. Seen(t) /\ t.flow = s.flow /\ t.dev = s.dev /\ t.at = s.at
  BY SetIif
<1>2. /\ t.cb = s.cb /\ t.trips = s.trips /\ t.mark = s.mark
      /\ t.iface = "ext" => t.dev \in Exts
      /\ (t.tag = s.tag /\ t.reason = s.reason /\ t.alg = s.alg) \/ t.tag = FALSE
  BY SetIifSame DEF Way
<1> HIDE DEF t
<1>3. Seen(a) /\ Seen(b)
  BY <1>1, Described
<1>4. s \in Skb /\ t \in Skb
  BY <1>1 DEF Seen, SkbOK
<1>5. /\ a.alg /\ a.at = s.at /\ a.flow = s.flow /\ a.dev = s.dev /\ a.iface = s.iface /\ a.cb = s.cb
      /\ a.trips = s.trips /\ a.mark = s.mark
  BY <1>4 DEF Skb
<1>6. /\ ~b.tag /\ b.at = t.at /\ b.flow = t.flow /\ b.dev = t.dev /\ b.iface = t.iface /\ b.cb = t.cb
      /\ b.trips = t.trips /\ b.mark = t.mark
  BY <1>4 DEF Skb
<1> HIDE DEF a, b
<1>7. /\ s.iface = "ext" => s.dev \in Exts
      /\ s.dev \in Exts =>
           \/ s.trips = 0
           \/ s.trips = 1 /\ s.cb = "from_extge"
           \/ s.trips = 1 /\ s.dev \in Ports /\ Twice(s.flow)
      /\ s.dev \notin Exts => s.trips <= 1 \/ (s.trips = 2 /\ s.mark = 0 /\ Twice(s.flow))
      /\ FloodedByPorts /\ whnat /\ s.flow \in Missed /\ s.tag /\ s.reason = "rate" => s.alg
  BY DEF Way, Trips, Ruled
<1>8. Twice(s.flow) => whnat
  BY DEF Twice
<1>9. OnWay(Accept(a).skb) /\ OnWay(Accept(b).skb)
  <2>1. Passed(a) /\ Passed(b)
    BY <1>1, <1>2, <1>5, <1>6, <1>7, <1>8 DEF Passed
  <2> QED BY <1>3, <2>1, AcceptWay
<1>10. ASSUME ~s.tag PROVE OnWay(Accept(s).skb)
  <2>1. Passed(s)
    BY <1>7, <1>8, <1>10 DEF Passed
  <2> QED BY <2>1, AcceptWay
<1>11. ASSUME s.flow \notin Odd PROVE Passed(t) /\ OnWay(Accept(t).skb)
  <2>1. Passed(t)
    BY <1>1, <1>2, <1>7, <1>8, <1>11 DEF Passed
  <2> QED BY <1>1, <2>1, AcceptWay
<1>12. ASSUME s.flow \notin Odd, do_ext2ge_fast_try(t) PROVE OnWay(ExtToGe(t, In(t)).skb)
  <2>1. t.trips = 0 \/ (t.trips = 1 /\ In(t) = "br" /\ Twice(t.flow))
    BY <1>1, <1>2, <1>7, <1>12 DEF do_ext2ge_fast_try, In
  <2> QED BY <1>1, <1>11, <1>12, <2>1, ExtToGeWay
<1>13. OnWay(do_hnat_ge_to_ext(t).skb)
  BY FastWay
<1> QED
  BY <1>9, <1>10, <1>11, <1>12, <1>13
  DEF PreRouting, is_magic_tag_valid, is_ppe_support_type, t, a, b

LEMMA LocalOutWay ==
  ASSUME NEW s, Seen(s), Way(s), s.at = "local_out"
  PROVE  OnWay(LocalOut(s).skb)
<1> DEFINE c == Kind[s.flow] = "tunnel4"
           t == IF Kind[s.flow] \in {"6rd", "tunnel4"} /\ skb_hnat_is_hashed(s)
                THEN [s EXCEPT !.alg = c] ELSE s
<1>1. Seen(t)
  BY Described
<1>2. s \in Skb /\ s.flow \in Flows
  BY DEF Seen, SkbOK, OnItsWay
<1>3. /\ t.at = s.at /\ t.flow = s.flow /\ t.dev = s.dev /\ t.iface = s.iface /\ t.cb = s.cb
      /\ t.trips = s.trips /\ t.mark = s.mark /\ t.tag = s.tag /\ t.reason = s.reason
      /\ t.alg = IF Kind[s.flow] \in {"6rd", "tunnel4"} /\ skb_hnat_is_hashed(s) THEN c ELSE s.alg
  BY <1>2 DEF Skb
<1> HIDE DEF t
<1>4. s.flow \in Missed => Kind[s.flow] = "bridged"
  BY PathAssumption
<1>5. Passed(t)
  BY <1>3, <1>4 DEF Passed, Way, Trips, Ruled, skb_hnat_is_hashed
<1> QED BY <1>1, <1>5, AcceptWay DEF LocalOut, t

LEMMA HookedWay ==
  ASSUME NumbersOK, NEW s, Seen(s), Way(s)
  PROVE  OnWay(Hooked(s).skb)
<1>1. s.at = "br_in" => ~whnat
  BY DEF Way
<1> QED BY <1>1, PongWay, LocalInWay, PreRoutingWay, LocalOutWay DEF Hooked, Seen

(* Whatever becomes of packets, entries and devices, the board stays what   *)
(* it is.                                                                   *)
LEMMA PStep ==
  ASSUME IInv', UNCHANGED <<whnat, brnf>>, \A k \in Skbs : OnWay(skb'[k]),
         headroom' \subseteq Translated, \A f \in Flows : foe'[f].state = "BIND" => Eligible(f)
  PROVE  PInv'
<1>1. ASSUME NEW k \in Skbs PROVE OnWay(skb[k])'
  <2>1. OnWay(skb'[k])
    OBVIOUS
  <2> QED BY <2>1 DEF OnWay, Way, Trips, Ruled, Eligible, Twice, FloodedByPorts
<1>2. ASSUME NEW f \in Flows PROVE (foe[f].state = "BIND" => Eligible(f))'
  <2>1. foe'[f].state = "BIND" => Eligible(f)
    OBVIOUS
  <2> QED BY <2>1 DEF Eligible, FloodedByPorts
<1>3. (headroom \subseteq Translated)'
  BY DEF Translated
<1> QED BY <1>1, <1>2, <1>3 DEF PInv

(* A step that only one packet takes part in, and binds nothing.            *)
LEMMA OnePacket ==
  ASSUME PInv, NEW k \in Skbs, NEW t, OnWay(t), skb' = [skb EXCEPT ![k] = t]
  PROVE  \A j \in Skbs : OnWay(skb'[j])
<1>1. \A j \in Skbs : skb'[j] \in {skb[j], t}
  BY DEF PInv, IInv
<1> QED BY <1>1 DEF PInv

LEMMA FreeWay == OnWay(Free)
BY DEF OnWay, Free

LEMMA LearnedBound ==
  ASSUME PInv, NEW g \in Flows, foe' = Learned(g), NEW f \in Flows, foe'[f].state = "BIND"
  PROVE  Eligible(f)
<1>1. foe[g] \in Entry /\ foe \in [Flows -> Entry]
  BY DEF PInv, IInv, EntriesName
<1>2. foe[f].state = "BIND"
  BY <1>1 DEF Learned, Entry
<1> QED BY <1>2 DEF PInv

LEMMA EngineWay ==
  ASSUME PInv, NEW k \in Skbs, NEW s \in Skb, s.flow \in Flows, NEW d \in {From[s.flow], Ppd},
         d \notin Exts, s.trips <= 1 \/ (s.trips = 2 /\ s.mark = 0 /\ Twice(s.flow)),
         FromEngine(k, s, d)
  PROVE  \A j \in Skbs : OnWay(skb'[j])
<1>1. PICK r \in Answers(foe[s.flow]) :
        skb' = [skb EXCEPT ![k] =
                 IF r = "hw" THEN Free
                 ELSE [s EXCEPT !.at = First(d), !.dev = d, !.iface = "none", !.cb = "none", !.tag = TRUE,
                                !.reason = r, !.alg = FALSE, !.mark = IF r = "force" THEN 0 ELSE @]]
  BY DEF FromEngine
<1>2. PICK m : m = IF r = "force" THEN 0 ELSE s.mark
  OBVIOUS
<1>3. PICK a : a = First(d)
  OBVIOUS
<1> DEFINE u == [s EXCEPT !.at = a, !.dev = d, !.iface = "none", !.cb = "none", !.tag = TRUE,
                          !.reason = r, !.alg = FALSE, !.mark = m]
<1>4. a \in {"br_pre", "ip_pre"} /\ (a = "br_pre" <=> d \in Ports)
  BY <1>3 DEF First
<1>5. /\ u.at = a /\ u.dev = d /\ u.iface = "none" /\ u.flow = s.flow /\ u.mark = m /\ u.trips = s.trips
  BY DEF Skb
<1>6. skb' = [skb EXCEPT ![k] = IF r = "hw" THEN Free ELSE u]
  BY <1>1, <1>2, <1>3
<1> HIDE DEF u
<1>7. Trips(u)
  BY <1>2, <1>5 DEF Trips
<1>8. Ruled(u)
  BY <1>4, <1>5 DEF Ruled, FloodedByPorts
<1>9. OnWay(u)
  BY <1>4, <1>5, <1>7, <1>8 DEF OnWay, Way
<1>10. PICK t : t = IF r = "hw" THEN Free ELSE u
  OBVIOUS
<1> QED BY <1>6, <1>9, <1>10, FreeWay, OnePacket

LEMMA ArriveWay ==
  ASSUME PInv, NEW k \in Skbs, NEW f \in Flows, Arrive(k, f)
  PROVE  PInv'
<1>1. IInv' /\ UNCHANGED <<whnat, brnf, headroom>>
  BY ArriveStep DEF PInv, Arrive, devvars
<1>2. CASE From[f] \in Macs
  <2> DEFINE s == [Free EXCEPT !.flow = f, !.sport = "mac"]
  <2>1. s \in Skb /\ s.flow = f /\ s.trips = 0
    BY DEF Skb, Place, Free
  <2>2. FromEngine(k, s, From[f])
    BY <1>2 DEF Arrive
  <2> HIDE DEF s
  <2>3. PICK d : d = From[f]
    OBVIOUS
  <2>4. d \notin Exts
    BY <1>2, <2>3, PathAssumption
  <2>5. \A j \in Skbs : OnWay(skb'[j])
    BY <2>1, <2>2, <2>3, <2>4, EngineWay
  <2>6. foe' = Learned(f)
    BY <2>1, <2>2 DEF FromEngine
  <2>7. \A g \in Flows : foe'[g].state = "BIND" => Eligible(g)
    BY <2>6, LearnedBound
  <2> QED BY <1>1, <2>5, <2>7, PStep DEF PInv
<1>3. CASE From[f] \notin Macs
  <2>1. PICK t \in BOOLEAN :
          skb' = [skb EXCEPT ![k] = [Free EXCEPT !.at = First(From[f]), !.flow = f, !.dev = From[f], !.tag = t]]
    BY <1>3 DEF Arrive
  <2> DEFINE u == [Free EXCEPT !.at = First(From[f]), !.flow = f, !.dev = From[f], !.tag = t]
  <2>2. /\ u.at = First(From[f]) /\ u.dev = From[f] /\ u.flow = f /\ u.iface = "none" /\ u.trips = 0
        /\ u.reason = "none"
    BY DEF Free
  <2>3. skb' = [skb EXCEPT ![k] = u]
    BY <2>1
  <2> HIDE DEF u
  <2>4. OnWay(u)
    BY <2>2 DEF OnWay, Way, Trips, Ruled, First
  <2>5. \A j \in Skbs : OnWay(skb'[j])
    BY <2>3, <2>4, OnePacket
  <2>6. UNCHANGED foe
    BY <1>3 DEF Arrive
  <2> QED BY <1>1, <2>5, <2>6, PStep DEF PInv
<1> QED BY <1>2, <1>3

LEMMA LoopWay ==
  ASSUME PInv, NEW k \in Skbs, Loop(k)
  PROVE  PInv'
<1>1. PICK s : s = [skb[k] EXCEPT !.sport = "cpu"]
  OBVIOUS
<1>2. SkbOK(skb[k]) /\ skb[k].at = "ppe" /\ Way(skb[k])
  BY DEF PInv, IInv, Loop, OnWay
<1>3. /\ s \in Skb /\ s.flow = skb[k].flow /\ s.mark = skb[k].mark /\ s.trips = skb[k].trips
      /\ s.flow \in Flows
  BY <1>1, <1>2 DEF SkbOK, Skb, OnItsWay
<1>4. s.trips <= 1 \/ (s.trips = 2 /\ s.mark = 0 /\ Twice(s.flow))
  BY <1>2, <1>3 DEF Way, Trips
<1>5. FromEngine(k, s, Ppd) /\ UNCHANGED <<whnat, brnf, headroom>>
  BY <1>1 DEF Loop, devvars
<1>6. Ppd \notin Exts
  BY PathAssumption
<1>7. \A j \in Skbs : OnWay(skb'[j])
  BY <1>3, <1>4, <1>5, <1>6, EngineWay
<1>8. PICK g \in Flows : foe' = Learned(g)
  BY <1>3, <1>5 DEF FromEngine
<1>9. \A f \in Flows : foe'[f].state = "BIND" => Eligible(f)
  BY <1>8, LearnedBound
<1>10. IInv'
  BY LoopStep DEF PInv
<1> QED BY <1>5, <1>7, <1>9, <1>10, PStep DEF PInv

LEMMA HookWay ==
  ASSUME PInv, NEW k \in Skbs, Hook(k)
  PROVE  PInv'
<1>1. PICK s : s = skb[k]
  OBVIOUS
<1>2. PICK t : t = Hooked(s).skb
  OBVIOUS
<1>3. Seen(s) /\ s.flow \in Flows /\ Way(s)
  BY <1>1 DEF Hook, PInv, IInv, Seen, SkbOK, OnItsWay, OnWay
<1>4. OnWay(t)
  BY <1>2, <1>3, HookedWay DEF PInv, IInv
<1>5. skb' = [skb EXCEPT ![k] = t] /\ UNCHANGED <<whnat, brnf, foe>>
  BY <1>1, <1>2 DEF Hook, devvars
<1>6. \A j \in Skbs : OnWay(skb'[j])
  BY <1>4, <1>5, OnePacket
<1>7. headroom' \subseteq Translated
  <2>1. headroom' = headroom \/ (is_ppe_support_type(s) /\ headroom' = Kept(s))
    BY <1>1 DEF Hook
  <2>2. Kept(s) \subseteq headroom \cup {s.flow} /\ (Kind[s.flow] # "xlat" => Kept(s) = headroom)
    BY DEF Kept
  <2>3. headroom \subseteq Translated
    BY DEF PInv
  <2> QED BY <1>3, <2>1, <2>2, <2>3 DEF is_ppe_support_type, Translated
<1>8. IInv'
  BY HookStep DEF PInv
<1> QED BY <1>5, <1>6, <1>7, <1>8, PStep DEF PInv

LEMMA XlatPostWay ==
  ASSUME PInv, NEW k \in Skbs, XlatPost(k)
  PROVE  PInv'
<1>1. PICK f : f = skb[k].flow
  OBVIOUS
<1>2. f \in Translated /\ headroom' = headroom /\ UNCHANGED <<whnat, brnf>>
  BY <1>1 DEF XlatPost, XlatReady, PInv, devvars
<1>3. Eligible(f) /\ f \in Flows
  BY <1>2, PathAssumption DEF Translated, Eligible
<1>4. foe' = [foe EXCEPT ![f] = XlatEntry]
  BY <1>1 DEF XlatPost
<1>5. \A g \in Flows : foe'[g].state = "BIND" => Eligible(g)
  BY <1>3, <1>4 DEF PInv, IInv, EntriesName
<1>6. PICK t : t = Free
  OBVIOUS
<1>7. \A j \in Skbs : OnWay(skb'[j])
  BY <1>6, FreeWay, OnePacket DEF XlatPost
<1>8. IInv'
  BY XlatPostStep DEF PInv
<1> QED BY <1>2, <1>5, <1>7, <1>8, PStep DEF PInv

LEMMA PostRoutingWay ==
  ASSUME PInv, NEW k \in Skbs, PostRouting(k)
  PROVE  PInv'
<1>1. PICK s : s = skb[k]
  OBVIOUS
<1>2. PICK t \in IF Binds(s) THEN Prepared(s) ELSE {Free} : skb' = [skb EXCEPT ![k] = t]
  BY <1>1 DEF PostRouting
<1>3. s \in Skb /\ Way(s) /\ s.at = "post"
  BY <1>1 DEF PostRouting, PInv, IInv, SkbOK, OnWay
<1>4. OnWay(t)
  <2>1. CASE t = Free
    BY <2>1, FreeWay
  <2>2. CASE t # Free
    <3>1. PICK n : n = ActOf(s)
      OBVIOUS
    <3>2. Binds(s) /\ t = [s EXCEPT !.at = "commit", !.act = n]
      BY <1>2, <2>2, <3>1 DEF Prepared
    <3>3. /\ t.at = "commit" /\ t.flow = s.flow /\ t.dev = s.dev /\ t.iface = s.iface /\ t.cb = s.cb
          /\ t.trips = s.trips /\ t.mark = s.mark
      BY <1>3, <3>2 DEF Skb
    <3>4. Eligible(s.flow)
      BY <1>3, <3>2 DEF Way, Ruled, Binds, skb_hnat_is_hashed, skb_hnat_reason_ready_bind, Eligible
    <3>5. Trips(t)
      BY <1>3, <3>3 DEF Way, Trips
    <3>6. Ruled(t)
      BY <3>3 DEF Ruled
    <3> QED BY <1>3, <3>3, <3>4, <3>5, <3>6 DEF OnWay, Way
  <2> QED BY <2>1, <2>2
<1>5. \A j \in Skbs : OnWay(skb'[j])
  BY <1>2, <1>4, OnePacket
<1>6. UNCHANGED <<whnat, brnf, foe, headroom>> /\ IInv'
  BY PostRoutingStep DEF PostRouting, PInv, devvars
<1> QED BY <1>5, <1>6, PStep DEF PInv

LEMMA CommitWay ==
  ASSUME PInv, NEW k \in Skbs, Commit(k)
  PROVE  PInv'
<1>1. PICK f : f = skb[k].flow
  OBVIOUS
<1>2. Eligible(f)
  BY <1>1 DEF Commit, PInv, OnWay, Way
<1>3. \A g \in Flows : foe'[g].state = "BIND" => Eligible(g)
  <2>1. foe' = foe \/ foe' = [foe EXCEPT ![f] = [state |-> "BIND", act |-> skb[k].act]]
    BY <1>1 DEF Commit
  <2>2. \A g \in Flows \ {f} : foe'[g] = foe[g]
    BY <2>1 DEF PInv, IInv, EntriesName
  <2> QED BY <1>2, <2>2 DEF PInv
<1>4. PICK t : t = Free
  OBVIOUS
<1>5. \A j \in Skbs : OnWay(skb'[j])
  BY <1>4, FreeWay, OnePacket DEF Commit
<1>6. UNCHANGED <<whnat, brnf, headroom>> /\ IInv'
  BY CommitStep DEF Commit, PInv, devvars
<1> QED BY <1>3, <1>5, <1>6, PStep DEF PInv

(* Devices and entries that end bind nothing.                               *)
LEMMA EndWay ==
  ASSUME PInv, IInv', UNCHANGED <<whnat, brnf, headroom>>,
         \A k \in Skbs : skb'[k] \in {skb[k], Free},
         \A f \in Flows : foe'[f].state = "BIND" => foe[f].state = "BIND"
  PROVE  PInv'
<1>1. \A k \in Skbs : OnWay(skb'[k])
  BY FreeWay DEF PInv
<1>2. \A f \in Flows : foe'[f].state = "BIND" => Eligible(f)
  BY DEF PInv
<1> QED BY <1>1, <1>2, PStep DEF PInv

LEMMA DeviceWay ==
  ASSUME PInv, \/ \E d \in Devs : GoingDown(d) \/ Up(d)
               \/ \E d \in Exts : Unregister(d) \/ Register(d)
               \/ \E d \in Macs : LinkDown(d)
               \/ \E f \in Flows : Remove(f)
  PROVE  PInv'
<1>1. IInv'
  BY DownStep, RegisterStep, GoneStep DEF PInv
<1>2. UNCHANGED <<whnat, brnf, headroom>> /\ \A k \in Skbs : skb'[k] \in {skb[k], Free}
  BY DEF GoingDown, Up, Unregister, Register, LinkDown, Remove, devvars
<1>3. foe \in [Flows -> Entry]
  BY DEF PInv, IInv, EntriesName
<1>4. \A f \in Flows : Cleared[f].state # "BIND"
  BY <1>3 DEF Cleared, Entry
<1>5. ASSUME NEW f \in Flows, foe'[f].state = "BIND" PROVE foe[f].state = "BIND"
  <2>1. CASE UNCHANGED foe
    BY <1>5, <2>1
  <2>2. CASE foe' = Cleared
    BY <1>4, <1>5, <2>2
  <2>3. CASE \E d \in Macs : LinkDown(d)
    BY <1>4, <1>5, <2>3 DEF LinkDown
  <2>4. CASE \E g \in Flows : Remove(g)
    BY <1>3, <1>5, <2>4 DEF Remove, Entry
  <2> QED BY <2>1, <2>2, <2>3, <2>4 DEF GoingDown, Up, Unregister, Register
<1> QED BY <1>1, <1>2, <1>5, EndWay

LEMMA InitPInv == Init => PInv
<1> SUFFICES ASSUME Init PROVE PInv
  OBVIOUS
<1>1. \A k \in Skbs : OnWay(skb[k])
  BY FreeWay DEF Init
<1> QED BY <1>1, InitIInv DEF Init, PInv

LEMMA NextPInv == PInv /\ [Next]_vars => PInv'
<1> SUFFICES ASSUME PInv, [Next]_vars PROVE PInv'
  OBVIOUS
<1>1. CASE UNCHANGED vars
  <2>1. IInv'
    BY NextIInv DEF PInv
  <2>2. UNCHANGED <<whnat, brnf, headroom, skb, foe>>
    BY <1>1 DEF vars
  <2>3. \A k \in Skbs : skb'[k] \in {skb[k], Free}
    BY <2>2
  <2>4. \A f \in Flows : foe'[f].state = "BIND" => foe[f].state = "BIND"
    BY <2>2
  <2> QED BY <2>1, <2>2, <2>3, <2>4, EndWay
<1>2. CASE \E k \in Skbs : \E f \in Flows : Arrive(k, f)
  BY <1>2, ArriveWay
<1>3. CASE \E k \in Skbs : Loop(k) \/ Hook(k)
  BY <1>3, LoopWay, HookWay
<1>4. CASE \E k \in Skbs : XlatPost(k) \/ PostRouting(k) \/ Commit(k)
  BY <1>4, XlatPostWay, PostRoutingWay, CommitWay
<1>5. CASE \/ \E d \in Devs : GoingDown(d) \/ Up(d)
           \/ \E d \in Exts : Unregister(d) \/ Register(d)
           \/ \E d \in Macs : LinkDown(d)
           \/ \E f \in Flows : Remove(f)
  BY <1>5, DeviceWay
<1> QED BY <1>1, <1>2, <1>3, <1>4, <1>5 DEF Next

(* No packet of an external device goes round and round, whatever the       *)
(* engine makes of it and whatever devices come and go                      *)
(* (do_hnat_ext_to_ge, do_hnat_ext_to_ge2, hnat_set_iif).                   *)
THEOREM TripsSafe == Spec => []TripsEnd
<1>1. PInv => TripsEnd
  <2> SUFFICES ASSUME PInv, NEW k \in Skbs, skb[k].at # "free"
               PROVE  skb[k].trips <= IF Twice(skb[k].flow) THEN 2 ELSE 1
    BY DEF TripsEnd
  <2>1. skb[k].trips \in Nat /\ Trips(skb[k])
    BY DEF PInv, IInv, Skb, OnWay, Way
  <2> QED BY <2>1 DEF Trips
<1> QED BY <1>1, InitPInv, NextPInv, PTL DEF Spec

(* What one hook rules out no other binds: types the engine does not        *)
(* support, tunnels over IPv4, and with whnat frames the bridge would flood *)
(* if they come by its ports (is_ppe_support_type, mtk_hnat_ipv4_nf_local_out, *)
(* hnat_bridge_flood_check).                                                *)
THEOREM EligibleSafe == ASSUME FloodedByPorts PROVE Spec => []OnlyEligibleBound
<1>1. PInv => OnlyEligibleBound
  BY DEF PInv, Eligible, OnlyEligibleBound
<1> QED BY <1>1, InitPInv, NextPInv, PTL DEF Spec
===============================================================================
