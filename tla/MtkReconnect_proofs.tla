-------------------------- MODULE MtkReconnect_proofs --------------------------
(***************************************************************************)
(* Cooldowns and failure counts of mtkreconnect last, for any              *)
(* configurations, delays and thresholds: through reloads, failed reloads  *)
(* and changes of place a profile keeps what it has to wait for.           *)
(***************************************************************************)
EXTENDS MtkReconnect, FiniteSetTheorems, TLAPS

(* load_sta_configs takes ifname and ssid for the identity of a profile:    *)
(* two sections that agree in both cannot be told apart.                    *)
Distinct ==
  \A cfg \in Configs : \A i, j \in DOMAIN cfg :
    cfg[i].profile = cfg[j].profile /\ cfg[i].profile \notin NoSsid => i = j

(* The slots of a list, whose profiles with an ssid are found by it.        *)
Slots(l) ==
  /\ l \in Seq(Slot) /\ Len(l) <= MaxSta
  /\ \A i, j \in DOMAIN l : l[i].profile = l[j].profile /\ l[i].profile \notin NoSsid => i = j

(* The history q of cooldowns is what the slots of l wait for at least.     *)
Waiting(l, q) ==
  /\ q \in [Profiles -> Nat]
  /\ \A p \in Profiles \ NoSsid : (\A i \in DOMAIN l : l[i].profile # p) => q[p] = 0
  /\ \A i \in DOMAIN l : l[i].profile \notin NoSsid => q[l[i].profile] <= l[i].wait

WaitInv ==
  /\ TypeOK
  /\ Slots(list)
  /\ Waiting(list, quiet)
  /\ pc \in {"stopped", "boot"} => list = <<>>

(* SlotOf for any list.                                                     *)
At(l, p) == l[CHOOSE i \in DOMAIN l : l[i].profile = p]
-------------------------------------------------------------------------------
LEMMA SlotType ==
  ASSUME NEW s \in Slot
  PROVE  /\ s.profile \in Profiles /\ s.wait \in Nat /\ s.fail_count \in 0 .. FailCap
         /\ s.disconn_streak \in 0 .. 2 /\ s.connected_streak \in 0 .. Confirm
BY DEF Slot

LEMMA Small ==
  /\ FailCap \in Nat \ {0} /\ Confirm \in Nat \ {0} /\ MaxSta \in Nat \ {0}
  /\ \A a, b \in Nat : AtMost(a, b) \in 0 .. b /\ Minus(a, b) \in 0 .. a /\ AtMost(a, b) <= a
  /\ \A n \in 0 .. FailCap : NextCooldown(n) \in Nat
BY ReconnectAssumption, CooldownAssumption DEF FailCap, AtMost, Minus

LEMMA FailsNat ==
  ASSUME NEW l, Slots(l), NEW i \in DOMAIN l
  PROVE  l[i] \in Slot /\ l[i].fail_count \in Nat
<1>1. l[i] \in Slot
  BY DEF Slots
<1>2. l[i].fail_count \in 0 .. FailCap /\ FailCap \in Nat
  BY <1>1, SlotType, Small
<1> QED BY <1>1, <1>2

(* A profile with an ssid is in one slot.                                   *)
LEMMA OnePlace ==
  ASSUME NEW l, Slots(l), NEW i \in DOMAIN l, l[i].profile \notin NoSsid
  PROVE  At(l, l[i].profile) = l[i]
<1> DEFINE c == CHOOSE j \in DOMAIN l : l[j].profile = l[i].profile
<1>1. c \in DOMAIN l /\ l[c].profile = l[i].profile
  OBVIOUS
<1>2. c = i
  BY <1>1 DEF Slots
<1> QED BY <1>2 DEF At

LEMMA Indices ==
  ASSUME NEW n \in Nat, NEW K \in SUBSET (1 .. n)
  PROVE  /\ IsFiniteSet(K) /\ Cardinality(K) \in 0 .. n
         /\ IsFiniteSet(1 .. Cardinality(K)) /\ Cardinality(1 .. Cardinality(K)) = Cardinality(K)
         /\ \A i \in K : i \in Nat
<1>1. IsFiniteSet(1 .. n) /\ Cardinality(1 .. n) = n
  BY FS_Interval
<1>2. IsFiniteSet(K) /\ Cardinality(K) <= n /\ Cardinality(K) \in Nat
  BY <1>1, FS_Subset, FS_CardinalityType
<1>3. IsFiniteSet(1 .. Cardinality(K)) /\ Cardinality(1 .. Cardinality(K)) = Cardinality(K)
  BY <1>2, FS_Interval
<1> QED BY <1>2, <1>3

(* Indices have an order, and every one of them has its place there.        *)
LEMMA Ordered ==
  ASSUME NEW n \in Nat, NEW K \in SUBSET (1 .. n)
  PROVE  LET c == Cardinality(K) IN
         /\ c \in 0 .. n
         /\ \E f \in [1 .. c -> K] : \A i, j \in 1 .. c : i < j => f[i] < f[j]
<1> DEFINE c == Cardinality(K)
           Upto(i) == {j \in K : j <= i}
           P(i) == Cardinality(Upto(i))
           R == {k \in 1 .. c : \E i \in K : P(i) = k}
           g == [i \in K |-> P(i)]
           f == [k \in 1 .. c |-> CHOOSE i \in K : P(i) = k]
<1>1. IsFiniteSet(K) /\ c \in Nat /\ c \in 0 .. n /\ \A i \in K : i \in Nat
  <2>1. IsFiniteSet(K) /\ Cardinality(K) \in 0 .. n /\ \A i \in K : i \in Nat
    BY Indices, Zenon
  <2> QED BY <2>1
<1>2. \A i \in K : IsFiniteSet(Upto(i)) /\ P(i) \in 1 .. c
  <2> TAKE i \in K
  <2>1. IsFiniteSet(Upto(i)) /\ Cardinality(Upto(i)) <= c
    BY <1>1, FS_Subset
  <2>2. i \in Upto(i)
    BY <1>1
  <2>3. P(i) \in Nat /\ P(i) # 0
    BY <2>1, <2>2, FS_EmptySet, FS_CardinalityType
  <2> QED BY <1>1, <2>1, <2>3, FS_EmptySet, FS_CardinalityType
<1>3. \A i, j \in K : i < j => P(i) < P(j)
  <2> SUFFICES ASSUME NEW i \in K, NEW j \in K, i < j PROVE P(i) < P(j)
    OBVIOUS
  <2>0. i \in Nat /\ j \in Nat /\ \A k \in K : k \in Nat
    BY <1>1
  <2>1. Upto(i) \in SUBSET Upto(j) /\ j \in Upto(j) /\ j \notin Upto(i)
    <3>1. \A k \in K : k <= i => k <= j
      BY <2>0
    <3>2. j <= j /\ ~(j <= i)
      BY <2>0
    <3> QED BY <3>1, <3>2
  <2>2. IsFiniteSet(Upto(j)) /\ P(i) \in Nat /\ P(j) \in Nat
    BY <1>1, <1>2
  <2> HIDE DEF Upto
  <2>3. Cardinality(Upto(i)) <= Cardinality(Upto(j)) /\ Cardinality(Upto(i)) # Cardinality(Upto(j))
    BY <2>1, <2>2, FS_Subset
  <2> QED BY <2>2, <2>3
<1> HIDE DEF P, c
<1>4. g \in Injection(K, R) /\ g \in Surjection(K, R)
  <2>1. g \in [K -> R] /\ \A k \in R : \E i \in K : g[i] = k
    BY <1>2
  <2>2. \A i, j \in K : g[i] = g[j] => i = j
    <3> SUFFICES ASSUME NEW i \in K, NEW j \in K, P(i) = P(j) PROVE i = j
      OBVIOUS
    <3>1. i \in Nat /\ j \in Nat
      BY <1>1
    <3>2. P(i) \in 1 .. c /\ c \in Nat
      BY <1>1, <1>2
    <3>3. ~(P(i) < P(j)) /\ ~(P(j) < P(i))
      BY <3>2
    <3> QED BY <1>3, <3>1, <3>3
  <2>3. g \in Injection(K, R)
    BY <2>1, <2>2 DEF Injection, IsInjective
  <2>4. g \in Surjection(K, R)
    BY <2>1 DEF Surjection
  <2> QED BY <2>3, <2>4
<1>5. Cardinality(R) = Cardinality(K)
  BY <1>1, <1>4, FS_Surjection
<1>6. R = 1 .. c
  <2>1. IsFiniteSet(1 .. c) /\ Cardinality(1 .. c) = c
    BY Indices DEF c
  <2>2. R \in SUBSET (1 .. c)
    OBVIOUS
  <2> QED BY <1>5, <2>1, <2>2, FS_Subset DEF c
<1>7. \A k \in 1 .. c : f[k] \in K /\ P(f[k]) = k
  BY <1>6
<1>8. \A i, j \in 1 .. c : i < j => f[i] < f[j]
  <2> SUFFICES ASSUME NEW i \in 1 .. c, NEW j \in 1 .. c, i < j PROVE f[i] < f[j]
    OBVIOUS
  <2> HIDE DEF f
  <2>1. f[i] \in K /\ f[j] \in K /\ P(f[i]) = i /\ P(f[j]) = j
    BY <1>7
  <2>2. f[j] < f[i] => j < i
    BY <1>3, <2>1
  <2>0. i \in Int /\ j \in Int
    OBVIOUS
  <2>3. i \in Int /\ j \in Int /\ f[i] \in Nat /\ f[j] \in Nat
    BY <1>1, <2>0, <2>1
  <2>4. f[i] # f[j]
    BY <2>1, <2>3
  <2> QED BY <2>2, <2>3, <2>4
<1>9. f \in [1 .. c -> K]
  BY <1>7
<1> HIDE DEF f
<1> QED BY <1>1, <1>8, <1>9 DEF c

(* An order of all indices meets each of them.                              *)
LEMMA Complete ==
  ASSUME NEW n \in Nat, NEW K \in SUBSET (1 .. n), NEW f \in [1 .. Cardinality(K) -> K],
         \A i, j \in 1 .. Cardinality(K) : i < j => f[i] < f[j]
  PROVE  /\ \A i, j \in 1 .. Cardinality(K) : f[i] = f[j] => i = j
         /\ \A k \in K : \E i \in 1 .. Cardinality(K) : f[i] = k
<1>1. IsFiniteSet(K) /\ Cardinality(K) \in Nat /\ \A i \in K : i \in Nat
  BY Indices
<1>2. \A i, j \in 1 .. Cardinality(K) : f[i] = f[j] => i = j
  <2> SUFFICES ASSUME NEW i \in 1 .. Cardinality(K), NEW j \in 1 .. Cardinality(K), f[i] = f[j]
               PROVE  i = j
    OBVIOUS
  <2>0. f[i] \in K /\ f[j] \in K /\ i \in Int /\ j \in Int
    OBVIOUS
  <2>1. f[i] \in Nat /\ f[j] \in Nat /\ i \in Int /\ j \in Int
    BY <1>1, <2>0
  <2>2. ~(i < j) /\ ~(j < i)
    BY <2>1
  <2> QED BY <2>1, <2>2
<1>3. f \in Injection(1 .. Cardinality(K), K)
  BY <1>2 DEF Injection, IsInjective
<1>4. Cardinality(1 .. Cardinality(K)) = Cardinality(K)
  BY Indices
<1>5. f \in Surjection(1 .. Cardinality(K), K)
  BY <1>1, <1>3, <1>4, FS_Injection
<1> QED BY <1>2, <1>5 DEF Surjection

(* What is backed up: the slots with an ssid, each of them once.            *)
LEMMA BackedUp ==
  ASSUME NEW l, Slots(l)
  PROVE  /\ Slots(Backup(l))
         /\ \A k \in DOMAIN Backup(l) :
              Backup(l)[k].profile \notin NoSsid /\ \E i \in DOMAIN l : Backup(l)[k] = l[i]
         /\ \A i \in DOMAIN l : l[i].profile \notin NoSsid =>
              \E k \in DOMAIN Backup(l) : Backup(l)[k] = l[i]
<1> DEFINE K == {i \in DOMAIN l : l[i].profile \notin NoSsid}
           c == Cardinality(K)
           f == CHOOSE g \in [1 .. c -> K] : \A i, j \in DOMAIN g : i < j => g[i] < g[j]
<1>1. Len(l) \in Nat /\ DOMAIN l = 1 .. Len(l) /\ l \in [1 .. Len(l) -> Slot] /\ K \in SUBSET (1 .. Len(l))
  BY DEF Slots
<1>2. c \in 0 .. Len(l)
  BY <1>1, Ordered
<1>3. \E g \in [1 .. c -> K] : \A i, j \in DOMAIN g : i < j => g[i] < g[j]
  <2>1. PICK g \in [1 .. c -> K] : \A i, j \in 1 .. c : i < j => g[i] < g[j]
    BY <1>1, Ordered
  <2> QED BY <2>1
<1>4. f \in [1 .. c -> K] /\ \A i, j \in 1 .. c : i < j => f[i] < f[j]
  BY <1>3
<1>6. Backup(l) = [i \in 1 .. c |-> l[f[i]]]
  BY <1>4 DEF Backup, Selected
<1> HIDE DEF f
<1>5. /\ \A i, j \in 1 .. c : f[i] = f[j] => i = j
      /\ \A k \in K : \E i \in 1 .. c : f[i] = k
  <2> HIDE DEF K
  <2> QED BY <1>1, <1>4, Complete
<1> HIDE DEF c
<1>7. \A i \in 1 .. c : f[i] \in DOMAIN l /\ l[f[i]] \in Slot /\ l[f[i]].profile \notin NoSsid
  BY <1>1, <1>4
<1>8. Backup(l) \in Seq(Slot) /\ Len(Backup(l)) = c /\ DOMAIN Backup(l) = 1 .. c
  BY <1>2, <1>6, <1>7
<1>9. Slots(Backup(l))
  <2>1. Len(Backup(l)) <= MaxSta
    BY <1>1, <1>2, <1>8, Small DEF Slots
  <2>2. ASSUME NEW i \in 1 .. c, NEW j \in 1 .. c, Backup(l)[i].profile = Backup(l)[j].profile
        PROVE  i = j
    BY <1>5, <1>6, <1>7, <2>2 DEF Slots
  <2> QED BY <1>8, <2>1, <2>2 DEF Slots
<1> QED BY <1>5, <1>6, <1>7, <1>8, <1>9

(* What a load of configuration cfg, or a failed one, makes of slots l with *)
(* cooldowns q: profiles that stay keep slots as they were.                 *)
Loaded(new, l) ==
  /\ Slots(new)
  /\ \A k \in DOMAIN new : new[k].profile \notin NoSsid =>
       \/ \E i \in DOMAIN l : new[k] = l[i]
       \/ new[k] = Fresh(new[k].profile) /\ \A i \in DOMAIN l : l[i].profile # new[k].profile

LEMMA FreshType == ASSUME NEW p \in Profiles PROVE Fresh(p) \in Slot /\ Fresh(p).profile = p
BY Small DEF Fresh, Slot

LEMMA LoadKeeps ==
  ASSUME Distinct, NEW cfg \in Configs, NEW l, Slots(l)
  PROVE  Loaded(Load(cfg, l), l) /\ Loaded(Backup(l), l)
<1> DEFINE old == Backup(l)
           w == Wanted(cfg)
           n == AtMost(Len(cfg), MaxSta)
           new == Load(cfg, l)
<1>1. cfg \in Seq(Section) /\ Len(cfg) \in Nat /\ n \in 0 .. MaxSta /\ n <= Len(cfg)
  <2>1. cfg \in Seq(Section) /\ Len(cfg) \in Nat
    BY ReconnectAssumption
  <2> QED BY <2>1, Small
<1>2. w = [i \in 1 .. n |-> cfg[i].profile] /\ \A i \in 1 .. n : cfg[i] \in Section /\ w[i] \in Profiles
  <2>1. \A i \in 1 .. n : i \in 1 .. Len(cfg)
    BY <1>1
  <2>2. \A i \in 1 .. n : cfg[i] \in Section
    BY <1>1, <2>1
  <2> QED BY <2>2 DEF Wanted, Section
<1>3. new = [i \in 1 .. n |-> Restored(w[i], old)]
  BY <1>2 DEF Load
<1>4. ASSUME NEW p \in Profiles
      PROVE  /\ Restored(p, old) \in Slot /\ Restored(p, old).profile = p
             /\ \/ \E i \in DOMAIN l : Restored(p, old) = l[i]
                \/ Restored(p, old) = Fresh(p) /\ \A j \in DOMAIN old : old[j].profile # p
  <2> DEFINE same == {j \in DOMAIN old : old[j].profile = p}
  <2>1. CASE same = {}
    BY <2>1, FreshType DEF Restored
  <2>2. CASE same # {}
    <3>1. PICK i \in same : TRUE
      BY <2>2
    <3>2. old \in [1 .. Len(old) -> Slot] /\ DOMAIN old = 1 .. Len(old)
      BY BackedUp DEF Slots
    <3>3. \A j \in same : old[j].profile = old[i].profile /\ old[j].profile \notin NoSsid
      BY BackedUp
    <3>4. \A j \in same : j = i
      BY <3>3, BackedUp DEF Slots
    <3>5. \A j \in same : j <= i
      BY <3>2, <3>4
    <3>6. \E j \in same : \A k \in same : j <= k
      BY <3>2, <3>4
    <3>7. Restored(p, old) = old[i]
      BY <2>2, <3>1, <3>4, <3>6 DEF Restored
    <3> QED BY <3>1, <3>2, <3>7, BackedUp
  <2> QED BY <2>1, <2>2
<1> HIDE DEF old
<1>5. new \in Seq(Slot) /\ Len(new) = n /\ DOMAIN new = 1 .. n
  BY <1>1, <1>2, <1>3, <1>4
<1>6. \A i \in 1 .. n : new[i].profile = cfg[i].profile /\ new[i].profile \in Profiles
  BY <1>2, <1>3, <1>4
<1>7. Slots(new)
  <2>1. ASSUME NEW i \in 1 .. n, NEW j \in 1 .. n, new[i].profile = new[j].profile, new[i].profile \notin NoSsid
        PROVE  i = j
    BY <1>1, <1>6, <2>1 DEF Distinct
  <2> QED BY <1>1, <1>5, <2>1 DEF Slots
<1>8. ASSUME NEW k \in DOMAIN new, new[k].profile \notin NoSsid
      PROVE  \/ \E i \in DOMAIN l : new[k] = l[i]
             \/ new[k] = Fresh(new[k].profile) /\ \A i \in DOMAIN l : l[i].profile # new[k].profile
  <2>1. w[k] \in Profiles /\ new[k] = Restored(w[k], old) /\ new[k].profile = w[k]
    BY <1>2, <1>3, <1>4, <1>5, <1>8
  <2>2. CASE \E i \in DOMAIN l : Restored(w[k], old) = l[i]
    BY <2>1, <2>2
  <2>3. CASE Restored(w[k], old) = Fresh(w[k]) /\ \A j \in DOMAIN old : old[j].profile # w[k]
    <3>1. \A i \in DOMAIN l : l[i].profile \notin NoSsid => \E j \in DOMAIN old : old[j] = l[i]
      BY BackedUp DEF old
    <3> QED BY <1>8, <2>1, <2>3, <3>1
  <2> QED BY <1>4, <2>1, <2>2, <2>3
<1>9. Loaded(new, l)
  BY <1>7, <1>8 DEF Loaded
<1>10. Loaded(old, l)
  BY BackedUp DEF Loaded, old
<1> QED BY <1>9, <1>10 DEF old

(* The slots of l2 are those of l but for the retry state.                  *)
SameProfiles(l2, l) ==
  /\ l2 \in Seq(Slot) /\ Len(l2) = Len(l)
  /\ \A i \in DOMAIN l : l2[i].profile = l[i].profile

LEMMA SameSlots ==
  ASSUME NEW l, Slots(l), NEW l2, SameProfiles(l2, l)
  PROVE  Slots(l2) /\ DOMAIN l2 = DOMAIN l
<1>1. l \in Seq(Slot) /\ DOMAIN l2 = DOMAIN l
  BY DEF Slots, SameProfiles
<1> QED BY <1>1 DEF Slots, SameProfiles

LEMMA SlotBySlot ==
  ASSUME NEW l, Slots(l), NEW l2, l2 = [i \in DOMAIN l |-> l2[i]],
         \A i \in DOMAIN l : l2[i] \in Slot /\ l2[i].profile = l[i].profile
  PROVE  SameProfiles(l2, l)
<1>1. Len(l) \in Nat /\ DOMAIN l = 1 .. Len(l)
  BY DEF Slots
<1>2. l2 \in [1 .. Len(l) -> Slot]
  BY <1>1
<1>3. l2 \in Seq(Slot) /\ Len(l2) = Len(l)
  BY <1>1, <1>2
<1> QED BY <1>3 DEF SameProfiles

(* Loading keeps the cooldowns of what stays listed.                        *)
LEMMA LoadWaiting ==
  ASSUME NEW l, Slots(l), NEW q, Waiting(l, q), NEW new, Loaded(new, l),
         NEW q2, q2 = [p \in Profiles |-> IF \E i \in DOMAIN new : new[i].profile = p THEN q[p] ELSE 0]
  PROVE  Waiting(new, q2)
<1>1. q2 \in [Profiles -> Nat]
  BY DEF Waiting
<1>2. \A p \in Profiles \ NoSsid : (\A i \in DOMAIN new : new[i].profile # p) => q2[p] = 0
  OBVIOUS
<1>3. ASSUME NEW k \in DOMAIN new, new[k].profile \notin NoSsid PROVE q2[new[k].profile] <= new[k].wait
  <2>1. new[k] \in Slot
    BY DEF Loaded, Slots
  <2>2. new[k].profile \in Profiles /\ new[k].wait \in Nat /\ q2[new[k].profile] = q[new[k].profile]
    BY <2>1, SlotType
  <2>3. CASE \E i \in DOMAIN l : new[k] = l[i]
    BY <1>3, <2>2, <2>3 DEF Waiting
  <2>4. CASE \A i \in DOMAIN l : l[i].profile # new[k].profile
    BY <1>3, <2>2, <2>4 DEF Waiting
  <2> QED BY <1>3, <2>3, <2>4 DEF Loaded
<1> QED BY <1>1, <1>2, <1>3 DEF Waiting

(* Slots that wait for as long or longer.                                   *)
LEMMA LongerWaiting ==
  ASSUME NEW l, Slots(l), NEW q, Waiting(l, q), NEW l2, SameProfiles(l2, l),
         \A i \in DOMAIN l : l2[i].wait >= l[i].wait
  PROVE  Waiting(l2, q)
<1>1. DOMAIN l2 = DOMAIN l /\ \A i \in DOMAIN l : l[i] \in Slot /\ l2[i] \in Slot
  BY SameSlots DEF Slots, SameProfiles
<1>2. \A i \in DOMAIN l : /\ l[i].profile \in Profiles /\ q[l[i].profile] \in Nat
                          /\ l[i].wait \in Nat /\ l2[i].wait \in Nat
  BY <1>1, SlotType DEF Waiting
<1>3. \A i \in DOMAIN l2 : l2[i].profile \notin NoSsid => q[l2[i].profile] <= l2[i].wait
  BY <1>1, <1>2 DEF Waiting, SameProfiles
<1> QED BY <1>1, <1>3 DEF Waiting, SameProfiles

LEMMA RescheduledOK ==
  ASSUME NEW l, Slots(l)
  PROVE  /\ SameProfiles(Rescheduled(l), l)
         /\ \A i \in DOMAIN l : Rescheduled(l)[i].wait >= l[i].wait
                             /\ Rescheduled(l)[i].fail_count = l[i].fail_count
<1> DEFINE r == Rescheduled(l)
<1>1. Len(l) \in Nat /\ DOMAIN l = 1 .. Len(l) /\ \A i \in 1 .. Len(l) : l[i] \in Slot
  BY DEF Slots
<1>2. DOMAIN r = 1 .. Len(l)
  BY <1>1 DEF Rescheduled
<1>3. ASSUME NEW i \in 1 .. Len(l)
      PROVE  /\ r[i] \in Slot /\ r[i].profile = l[i].profile /\ r[i].fail_count = l[i].fail_count
             /\ r[i].wait >= l[i].wait
  <2> DEFINE wt == IF l[i].wait = 0 THEN ReloadDelay + (i - 1) * ReloadStagger ELSE l[i].wait
  <2>1. (i - 1) * ReloadStagger \in Nat
    BY <1>1, ReconnectAssumption
  <2>2. wt \in Nat /\ wt >= l[i].wait
    BY <1>1, <2>1, SlotType, ReconnectAssumption
  <2>3. r[i] = [l[i] EXCEPT !.wait = wt, !.disconn_streak = 0, !.connected_streak = 0]
    BY <1>1 DEF Rescheduled
  <2>4. l[i] \in Slot /\ 0 \in 0 .. 2 /\ 0 \in 0 .. Confirm
    BY <1>1, Small
  <2> HIDE DEF wt, r
  <2>5. r[i] \in Slot
    BY <2>2, <2>3, <2>4 DEF Slot
  <2>6. r[i].profile = l[i].profile /\ r[i].fail_count = l[i].fail_count /\ r[i].wait = wt
    BY <2>2, <2>3, <2>4 DEF Slot
  <2> QED BY <2>2, <2>5, <2>6
<1>4. r \in Seq(Slot) /\ Len(r) = Len(l)
  <2>1. r = [i \in 1 .. Len(l) |-> r[i]]
    BY <1>1 DEF Rescheduled
  <2> HIDE DEF r
  <2> QED BY <1>1, <1>3, <2>1
<1> QED BY <1>1, <1>3, <1>4 DEF SameProfiles
-------------------------------------------------------------------------------
(* One poll of a profile that is up ...                                     *)
LEMMA UpOK ==
  ASSUME NEW s \in Slot
  PROVE  /\ SeenUp(s) \in Slot
         /\ SeenUp(s).profile = s.profile /\ SeenUp(s).wait = s.wait
         /\ SeenUp(s).fail_count < s.fail_count => s.connected_streak >= Confirm - 1 /\ s.wait = 0
<1> DEFINE streak == AtMost(s.connected_streak + 1, Confirm)
           fails == IF streak >= Confirm /\ s.wait = 0 THEN 0 ELSE s.fail_count
<1>1. /\ s.connected_streak \in 0 .. Confirm /\ s.fail_count \in 0 .. FailCap /\ s.wait \in Nat
      /\ Confirm \in Nat \ {0} /\ FailCap \in Nat
  BY SlotType, Small
<1>2. streak \in 0 .. Confirm /\ streak <= s.connected_streak + 1
  <2>1. s.connected_streak + 1 \in Nat
    BY <1>1
  <2> QED BY <1>1, <2>1, Small
<1> HIDE DEF streak
<1>3. fails \in 0 .. FailCap /\ (fails < s.fail_count => s.connected_streak >= Confirm - 1 /\ s.wait = 0)
  BY <1>1, <1>2
<1>4. SeenUp(s) = [s EXCEPT !.connected_streak = streak, !.disconn_streak = 0, !.fail_count = fails]
  BY DEF SeenUp, streak
<1> HIDE DEF fails
<1>5. SeenUp(s) \in Slot
  <2>1. 0 \in 0 .. 2
    OBVIOUS
  <2> QED BY <1>2, <1>3, <1>4, <2>1 DEF Slot
<1>6. SeenUp(s).profile = s.profile /\ SeenUp(s).wait = s.wait /\ SeenUp(s).fail_count = fails
  BY <1>4 DEF Slot
<1> QED BY <1>3, <1>5, <1>6

(* ... and down: an attempt is followed by its cooldown.                    *)
LEMMA DownOK ==
  ASSUME NEW s \in Slot, NEW j \in Jitter
  PROVE  /\ SeenDown(s, j) \in Slot
         /\ SeenDown(s, j).profile = s.profile
         /\ SeenDown(s, j).fail_count >= s.fail_count
         /\ ~ Due(s) => SeenDown(s, j).wait = s.wait
         /\ Due(s) => s.wait = 0 /\ SeenDown(s, j).wait >= NextCooldown(SeenDown(s, j).fail_count)
<1> DEFINE fails == AtMost(s.fail_count + 1, FailCap)
           wt == NextCooldown(fails) + j
           streak == AtMost(s.disconn_streak + 1, 2)
<1>1. /\ s.disconn_streak \in 0 .. 2 /\ s.fail_count \in 0 .. FailCap /\ s.wait \in Nat
      /\ FailCap \in Nat /\ j \in Nat /\ 0 \in 0 .. Confirm /\ 0 \in 0 .. 2
  <2>1. j \in Nat
    BY ReconnectAssumption
  <2> QED BY <2>1, SlotType, Small
<1>2. fails \in 0 .. FailCap /\ streak \in 0 .. 2
  <2>1. s.fail_count + 1 \in Nat /\ s.disconn_streak + 1 \in Nat /\ 2 \in Nat
    BY <1>1
  <2> QED BY <1>1, <2>1, Small
<1>3. fails >= s.fail_count
  BY <1>1 DEF AtMost
<1>4. wt \in Nat /\ wt >= NextCooldown(fails)
  <2> HIDE DEF fails
  <2>1. NextCooldown(fails) \in Nat
    BY <1>2, Small
  <2> QED BY <1>1, <2>1
<1>5. CASE Due(s)
  <2>1. SeenDown(s, j) = [s EXCEPT !.connected_streak = 0, !.disconn_streak = 0,
                                   !.fail_count = fails, !.wait = wt]
    BY <1>5 DEF SeenDown, Tried
  <2> HIDE DEF fails, wt
  <2>2. SeenDown(s, j) \in Slot
    BY <1>1, <1>2, <1>4, <2>1 DEF Slot
  <2>3. /\ SeenDown(s, j).profile = s.profile
        /\ SeenDown(s, j).fail_count = fails /\ SeenDown(s, j).wait = wt
    BY <2>1 DEF Slot
  <2> QED BY <1>3, <1>4, <1>5, <2>2, <2>3 DEF Due
<1>6. CASE ~ Due(s)
  <2>1. SeenDown(s, j) = [s EXCEPT !.connected_streak = 0, !.disconn_streak = streak]
    BY <1>6 DEF SeenDown
  <2> HIDE DEF streak
  <2>2. SeenDown(s, j) \in Slot
    BY <1>1, <1>2, <2>1 DEF Slot
  <2>3. /\ SeenDown(s, j).profile = s.profile
        /\ SeenDown(s, j).fail_count = s.fail_count /\ SeenDown(s, j).wait = s.wait
    BY <2>1 DEF Slot
  <2> QED BY <1>1, <1>6, <2>2, <2>3
<1> QED BY <1>5, <1>6

(* Some time passes.                                                        *)
LEMMA TimePasses ==
  ASSUME NEW l, Slots(l), NEW q, Waiting(l, q), NEW t \in Nat,
         NEW l2, l2 = [i \in DOMAIN l |-> [l[i] EXCEPT !.wait = Minus(l[i].wait, t)]],
         NEW q2, q2 = [p \in Profiles |-> Minus(q[p], t)]
  PROVE  /\ SameProfiles(l2, l) /\ Waiting(l2, q2)
         /\ \A i \in DOMAIN l : l2[i].fail_count = l[i].fail_count
<1>1. Len(l) \in Nat /\ DOMAIN l = 1 .. Len(l) /\ \A i \in 1 .. Len(l) : l[i] \in Slot
  BY DEF Slots
<1>2. \A i \in 1 .. Len(l) :
        /\ l2[i] \in Slot /\ l2[i].profile = l[i].profile /\ l2[i].fail_count = l[i].fail_count
        /\ l2[i].wait = Minus(l[i].wait, t)
  <2> TAKE i \in 1 .. Len(l)
  <2> DEFINE wt == Minus(l[i].wait, t)
  <2>1. wt \in Nat
    BY <1>1, SlotType, Small
  <2>2. l2[i] = [l[i] EXCEPT !.wait = wt] /\ l[i] \in Slot
    BY <1>1
  <2> HIDE DEF wt
  <2>3. l2[i] \in Slot /\ l2[i].profile = l[i].profile /\ l2[i].fail_count = l[i].fail_count /\ l2[i].wait = wt
    BY <2>1, <2>2 DEF Slot
  <2> QED BY <2>3 DEF wt
<1>3. SameProfiles(l2, l)
  <2>1. l2 = [i \in DOMAIN l |-> l2[i]]
    OBVIOUS
  <2> QED BY <1>1, <1>2, <2>1, SlotBySlot
<1>4. q2 \in [Profiles -> Nat]
  BY Small DEF Waiting
<1>5. \A p \in Profiles \ NoSsid : (\A i \in DOMAIN l2 : l2[i].profile # p) => q2[p] = 0
  <2>1. \A t2 \in Nat : Minus(0, t2) = 0
    BY DEF Minus
  <2> QED BY <1>1, <1>2, <2>1 DEF Waiting
<1>6. ASSUME NEW i \in DOMAIN l2, l2[i].profile \notin NoSsid PROVE q2[l2[i].profile] <= l2[i].wait
  <2>1. /\ i \in DOMAIN l /\ l[i].profile = l2[i].profile /\ l[i].profile \in Profiles
        /\ l[i].wait \in Nat /\ q[l[i].profile] \in Nat
    BY <1>1, <1>2, SlotType DEF Waiting
  <2>2. q[l[i].profile] <= l[i].wait
    BY <1>6, <2>1 DEF Waiting
  <2>3. Minus(q[l[i].profile], t) <= Minus(l[i].wait, t)
    BY <2>1, <2>2 DEF Minus
  <2> QED BY <1>1, <1>2, <2>1, <2>3
<1> QED BY <1>1, <1>2, <1>3, <1>4, <1>5, <1>6 DEF Waiting

LEMMA NothingListed ==
  /\ Slots(<<>>) /\ DOMAIN <<>> = {}
  /\ Waiting(<<>>, [p \in Profiles |-> 0])
BY Small DEF Slots, Waiting

(* What a step does to the slots: it drops all of them, loads them anew, or *)
(* passes time, or polls, after which those tried have their cooldown.      *)
Kept(l, q, l2, q2, tried) ==
  /\ Slots(l2) /\ Waiting(l2, q2)
  /\ \A p \in tried \ NoSsid : q[p] = 0
  /\ \A i \in DOMAIN l : \A k \in DOMAIN l2 :
       l[i].profile = l2[k].profile /\ l[i].profile \notin NoSsid /\ l2[k].fail_count < l[i].fail_count
         => l[i].connected_streak >= Confirm - 1 /\ q[l[i].profile] = 0

LEMMA KeptGone ==
  ASSUME NEW l, NEW q
  PROVE  Kept(l, q, <<>>, [p \in Profiles |-> 0], {})
BY NothingListed DEF Kept

LEMMA KeptSame ==
  ASSUME NEW l, NEW q, Slots(l), Waiting(l, q), NEW tried, tried \subseteq {}
  PROVE  Kept(l, q, l, q, tried)
<1>1. \A i \in DOMAIN l : l[i].fail_count \in Nat
  BY FailsNat
<1>2. \A i, k \in DOMAIN l : l[i].profile = l[k].profile /\ l[i].profile \notin NoSsid => i = k
  BY DEF Slots
<1> QED BY <1>1, <1>2 DEF Kept

(* A load, rescheduled.                                                     *)
LEMMA KeptLoaded ==
  ASSUME NEW l, NEW q, Slots(l), Waiting(l, q), NEW new, Loaded(new, l)
  PROVE  Kept(l, q, Rescheduled(new),
              [p \in Profiles |-> IF \E i \in DOMAIN new : new[i].profile = p THEN q[p] ELSE 0], {})
<1> DEFINE q2 == [p \in Profiles |-> IF \E i \in DOMAIN new : new[i].profile = p THEN q[p] ELSE 0]
           l2 == Rescheduled(new)
<1>1. Slots(new) /\ Waiting(new, q2)
  BY LoadWaiting DEF Loaded
<1>2. SameProfiles(l2, new) /\ \A i \in DOMAIN new : l2[i].wait >= new[i].wait
                                                  /\ l2[i].fail_count = new[i].fail_count
  BY <1>1, RescheduledOK
<1> HIDE DEF l2, q2
<1>3. Slots(l2) /\ Waiting(l2, q2) /\ DOMAIN l2 = DOMAIN new
  BY <1>1, <1>2, SameSlots, LongerWaiting
<1>4. ASSUME NEW i \in DOMAIN l, NEW k \in DOMAIN l2, l[i].profile = l2[k].profile,
             l[i].profile \notin NoSsid
      PROVE  l2[k].fail_count = l[i].fail_count
  <2>1. k \in DOMAIN new /\ new[k].profile = l[i].profile /\ l2[k].fail_count = new[k].fail_count
    BY <1>2, <1>3, <1>4 DEF SameProfiles
  <2>2. PICK j \in DOMAIN l : new[k] = l[j]
    BY <1>4, <2>1 DEF Loaded
  <2>3. j = i
    BY <1>4, <2>1, <2>2 DEF Slots
  <2> QED BY <2>1, <2>2, <2>3
<1>5. \A i \in DOMAIN l : l[i].fail_count \in Nat
  BY FailsNat
<1>6. Kept(l, q, l2, q2, {})
  BY <1>3, <1>4, <1>5 DEF Kept
<1> QED BY <1>6 DEF l2, q2

LEMMA KeptSleep ==
  ASSUME NEW l, NEW q, Slots(l), Waiting(l, q), NEW t \in Nat
  PROVE  Kept(l, q, [i \in DOMAIN l |-> [l[i] EXCEPT !.wait = Minus(l[i].wait, t)]],
              [p \in Profiles |-> Minus(q[p], t)], {})
<1> DEFINE l2 == [i \in DOMAIN l |-> [l[i] EXCEPT !.wait = Minus(l[i].wait, t)]]
           q2 == [p \in Profiles |-> Minus(q[p], t)]
<1>1. /\ SameProfiles(l2, l) /\ Waiting(l2, q2)
      /\ \A i \in DOMAIN l : l2[i].fail_count = l[i].fail_count
  BY TimePasses
<1> HIDE DEF l2, q2
<1>2. Slots(l2) /\ DOMAIN l2 = DOMAIN l
  BY <1>1, SameSlots
<1>3. \A i \in DOMAIN l : l[i].fail_count \in Nat
  BY FailsNat
<1>4. \A i, k \in DOMAIN l : l[i].profile = l2[k].profile /\ l[i].profile \notin NoSsid => i = k
  BY <1>1 DEF Slots, SameProfiles
<1>5. Kept(l, q, l2, q2, {})
  BY <1>1, <1>2, <1>3, <1>4 DEF Kept
<1> QED BY <1>5 DEF l2, q2

(* A poll.                                                                  *)
Polled(l, q, up, jitter, l2, q2, tried) ==
  /\ up \in SUBSET DOMAIN l /\ jitter \in [DOMAIN l -> Jitter]
  /\ l2 = [i \in DOMAIN l |-> IF i \in up THEN SeenUp(l[i]) ELSE SeenDown(l[i], jitter[i])]
  /\ tried = {l[i].profile : i \in {j \in DOMAIN l \ up : Due(l[j])}}
  /\ q2 = [p \in Profiles |-> IF p \in tried THEN NextCooldown(At(l2, p).fail_count) ELSE q[p]]

LEMMA KeptPoll ==
  ASSUME NEW l, NEW q, Slots(l), Waiting(l, q), NEW up, NEW jitter, NEW l2, NEW q2, NEW tried,
         Polled(l, q, up, jitter, l2, q2, tried)
  PROVE  Kept(l, q, l2, q2, tried) /\ tried \subseteq Profiles
<1>0. /\ up \in SUBSET DOMAIN l /\ jitter \in [DOMAIN l -> Jitter]
      /\ l2 = [i \in DOMAIN l |-> IF i \in up THEN SeenUp(l[i]) ELSE SeenDown(l[i], jitter[i])]
      /\ tried = {l[i].profile : i \in {j \in DOMAIN l \ up : Due(l[j])}}
      /\ q2 = [p \in Profiles |-> IF p \in tried THEN NextCooldown(At(l2, p).fail_count) ELSE q[p]]
  BY DEF Polled
<1>1. Len(l) \in Nat /\ DOMAIN l = 1 .. Len(l) /\ \A i \in DOMAIN l : l[i] \in Slot
  BY DEF Slots
<1>2. \A i \in DOMAIN l :
        /\ l2[i] \in Slot /\ l2[i].profile = l[i].profile
        /\ l2[i].fail_count < l[i].fail_count => l[i].connected_streak >= Confirm - 1 /\ l[i].wait = 0
        /\ i \in up \/ ~Due(l[i]) => l2[i].wait = l[i].wait
        /\ i \notin up /\ Due(l[i]) => l[i].wait = 0 /\ l2[i].wait >= NextCooldown(l2[i].fail_count)
  <2> TAKE i \in DOMAIN l
  <2>1. CASE i \in up
    <3>1. l2[i] = SeenUp(l[i])
      BY <1>0, <2>1
    <3> QED BY <1>1, <2>1, <3>1, UpOK
  <2>2. CASE i \notin up
    <3>1. l2[i] = SeenDown(l[i], jitter[i]) /\ jitter[i] \in Jitter
      BY <1>0, <2>2
    <3>2. /\ SeenDown(l[i], jitter[i]) \in Slot /\ SeenDown(l[i], jitter[i]).profile = l[i].profile
          /\ SeenDown(l[i], jitter[i]).fail_count >= l[i].fail_count
          /\ ~ Due(l[i]) => SeenDown(l[i], jitter[i]).wait = l[i].wait
          /\ Due(l[i]) => /\ l[i].wait = 0
                          /\ SeenDown(l[i], jitter[i]).wait
                               >= NextCooldown(SeenDown(l[i], jitter[i]).fail_count)
      BY <1>1, <3>1, DownOK
    <3>3. l2[i].fail_count \in Int /\ l[i].fail_count \in Int
      <4>1. l2[i].fail_count \in 0 .. FailCap /\ l[i].fail_count \in 0 .. FailCap /\ FailCap \in Nat
        BY <1>1, <3>1, <3>2, SlotType, Small
      <4> QED BY <4>1
    <3> QED BY <2>2, <3>1, <3>2, <3>3
  <2> QED BY <2>1, <2>2
<1>3. SameProfiles(l2, l) /\ Slots(l2) /\ DOMAIN l2 = DOMAIN l
  <2>1. l2 = [i \in 1 .. Len(l) |-> l2[i]]
    BY <1>0, <1>1
  <2>2. SameProfiles(l2, l)
    BY <1>1, <1>2, <2>1 DEF SameProfiles
  <2> QED BY <2>2, SameSlots
<1>4. tried \subseteq Profiles
  BY <1>0, <1>1, SlotType
<1>5. ASSUME NEW p \in tried PROVE At(l2, p).fail_count \in 0 .. FailCap
  <2>1. PICK i \in DOMAIN l : l[i].profile = p
    BY <1>0
  <2>2. \E j \in DOMAIN l2 : l2[j].profile = p
    BY <1>2, <1>3, <2>1
  <2> DEFINE c == CHOOSE j \in DOMAIN l2 : l2[j].profile = p
  <2>3. c \in DOMAIN l2 /\ At(l2, p) = l2[c]
    BY <2>2 DEF At
  <2> HIDE DEF c
  <2>4. At(l2, p) \in Slot
    BY <1>2, <1>3, <2>3
  <2> QED BY <2>4, SlotType
<1>6. q2 \in [Profiles -> Nat]
  <2>1. \A p \in tried : NextCooldown(At(l2, p).fail_count) \in Nat
    BY <1>5, Small
  <2> QED BY <1>0, <2>1 DEF Waiting
<1>7. ASSUME NEW i \in DOMAIN l, l[i].profile \notin NoSsid
      PROVE  /\ l[i].profile \in Profiles /\ l[i].wait \in Nat /\ q[l[i].profile] \in Nat
             /\ q[l[i].profile] <= l[i].wait
             /\ l[i].wait = 0 => q[l[i].profile] = 0
  <2>1. l[i].profile \in Profiles /\ l[i].wait \in Nat /\ q[l[i].profile] \in Nat
    BY <1>1, SlotType DEF Waiting
  <2>2. q[l[i].profile] <= l[i].wait
    BY <1>7 DEF Waiting
  <2> QED BY <2>1, <2>2
<1>8. ASSUME NEW p \in tried \ NoSsid PROVE q[p] = 0
  <2>1. PICK i \in DOMAIN l \ up : l[i].profile = p /\ Due(l[i])
    BY <1>0, <1>8
  <2> QED BY <1>2, <1>7, <1>8, <2>1
<1>9. ASSUME NEW i \in DOMAIN l2, l2[i].profile \notin NoSsid PROVE q2[l2[i].profile] <= l2[i].wait
  <2>1. /\ i \in DOMAIN l /\ l2[i].profile = l[i].profile /\ l[i].profile \notin NoSsid
        /\ l[i].profile \in Profiles
    BY <1>2, <1>3, <1>7, <1>9
  <2>2. CASE l[i].profile \in tried
    <3>1. PICK j \in DOMAIN l \ up : l[j].profile = l[i].profile /\ Due(l[j])
      BY <1>0, <2>2
    <3>2. j = i
      BY <2>1, <3>1 DEF Slots
    <3>3. At(l2, l2[i].profile) = l2[i]
      BY <1>3, <1>9, OnePlace
    <3>4. q2[l2[i].profile] = NextCooldown(l2[i].fail_count)
      BY <1>0, <2>1, <2>2, <3>3
    <3>5. l2[i].fail_count \in 0 .. FailCap /\ l2[i].wait \in Nat /\ NextCooldown(l2[i].fail_count) \in Nat
      BY <1>2, <2>1, SlotType, Small
    <3> QED BY <1>2, <2>1, <3>1, <3>2, <3>4, <3>5
  <2>3. CASE l[i].profile \notin tried
    <3>1. i \in up \/ ~Due(l[i])
      BY <1>0, <2>1, <2>3
    <3>2. q2[l2[i].profile] = q[l[i].profile] /\ l2[i].wait = l[i].wait
      BY <1>0, <1>2, <2>1, <2>3, <3>1
    <3> QED BY <1>7, <2>1, <3>2
  <2> QED BY <2>2, <2>3
<1>10. \A p \in Profiles \ NoSsid : (\A i \in DOMAIN l2 : l2[i].profile # p) => q2[p] = 0
  <2> SUFFICES ASSUME NEW p \in Profiles \ NoSsid, \A i \in DOMAIN l2 : l2[i].profile # p
               PROVE  q2[p] = 0
    OBVIOUS
  <2>1. \A i \in DOMAIN l : l[i].profile # p
    BY <1>2, <1>3
  <2>2. p \notin tried
    BY <1>0, <2>1
  <2> QED BY <1>0, <2>1, <2>2 DEF Waiting
<1>11. ASSUME NEW i \in DOMAIN l, NEW k \in DOMAIN l2, l[i].profile = l2[k].profile,
              l[i].profile \notin NoSsid, l2[k].fail_count < l[i].fail_count
       PROVE  l[i].connected_streak >= Confirm - 1 /\ q[l[i].profile] = 0
  <2>1. k = i
    BY <1>2, <1>3, <1>11 DEF Slots
  <2> QED BY <1>2, <1>7, <1>11, <2>1
<1> QED BY <1>3, <1>4, <1>6, <1>8, <1>9, <1>10, <1>11 DEF Kept, Waiting
-------------------------------------------------------------------------------
LEMMA InitWait == Init => WaitInv
<1> SUFFICES ASSUME Init PROVE WaitInv
  OBVIOUS
<1>1. list = <<>> /\ quiet = [p \in Profiles |-> 0]
  BY DEF Init
<1>2. Slots(list) /\ Waiting(list, quiet)
  BY <1>1, NothingListed
<1>3. TypeOK
  <2>1. list \in Seq(Slot) /\ Len(list) <= MaxSta /\ quiet \in [Profiles -> Nat]
    BY <1>2 DEF Slots, Waiting
  <2> QED BY <2>1 DEF Init, TypeOK
<1> QED BY <1>1, <1>2, <1>3 DEF WaitInv

LEMMA LoadsOK ==
  ASSUME Distinct, config \in Configs, NEW l, Slots(l), NEW new \in Loads(l)
  PROVE  Loaded(new, l)
BY LoadKeeps DEF Loads

(* Each step keeps the slots in the sense of Kept.                          *)
LEMMA GoneStep ==
  ASSUME WaitInv, NEW state \in {"stopped", "boot"}, Gone(state),
         UNCHANGED config, trigger' = FALSE
  PROVE  TypeOK' /\ Kept(list, quiet, list', quiet', connecting' \ connecting)
         /\ (pc' \in {"stopped", "boot"} => list' = <<>>)
<1>1. list' = <<>> /\ quiet' = [p \in Profiles |-> 0] /\ connecting' = {}
  BY DEF Gone
<1>2. Kept(list, quiet, list', quiet', connecting' \ connecting)
  BY <1>1, KeptGone DEF Kept
<1>3. TypeOK'
  <2>1. list' \in Seq(Slot) /\ Len(list') <= MaxSta /\ quiet' \in [Profiles -> Nat]
    BY <1>1, NothingListed DEF Slots, Waiting
  <2>2. config' \in Configs /\ trigger' \in BOOLEAN /\ connecting' \subseteq Profiles
    BY <1>1 DEF WaitInv, TypeOK
  <2>3. pc' \in {"stopped", "boot"} /\ g_reload' = FALSE /\ failed' = FALSE
    BY DEF Gone
  <2> QED BY <2>1, <2>2, <2>3 DEF TypeOK
<1> QED BY <1>1, <1>2, <1>3

LEMMA BootStep ==
  ASSUME Distinct, WaitInv, Boot
  PROVE  TypeOK' /\ Kept(list, quiet, list', quiet', connecting' \ connecting)
         /\ (pc' \in {"stopped", "boot"} => list' = <<>>)
<1>1. PICK l \in Loads(<<>>) :
        list' = [i \in DOMAIN l |-> [l[i] EXCEPT !.wait = (i - 1) * StartStagger]]
          /\ failed' = (l # Load(config, <<>>))
  BY DEF Boot
<1>2. Slots(l)
  BY <1>1, NothingListed, LoadsOK DEF Loaded, WaitInv, TypeOK
<1>3. list = <<>> /\ quiet' = quiet /\ connecting' = connecting
  BY DEF Boot, WaitInv
<1>4. \A i \in DOMAIN l :
        list'[i] \in Slot /\ list'[i].profile = l[i].profile /\ list'[i].wait \in Nat
  <2> TAKE i \in DOMAIN l
  <2> DEFINE wt == (i - 1) * StartStagger
  <2>1. i \in Nat \ {0} /\ l[i] \in Slot
    BY <1>2 DEF Slots
  <2>2. wt \in Nat
    BY <2>1, ReconnectAssumption
  <2>3. list'[i] = [l[i] EXCEPT !.wait = wt]
    BY <1>1
  <2> HIDE DEF wt
  <2> QED BY <2>1, <2>2, <2>3 DEF Slot
<1>5. SameProfiles(list', l)
  <2>1. list' = [i \in DOMAIN l |-> list'[i]]
    BY <1>1
  <2> QED BY <1>2, <1>4, <2>1, SlotBySlot
<1>6. Slots(list') /\ DOMAIN list' = DOMAIN l
  BY <1>2, <1>5, SameSlots
<1>7. Waiting(list', quiet)
  <2>1. quiet \in [Profiles -> Nat] /\ \A p \in Profiles \ NoSsid : quiet[p] = 0
    BY <1>3, NothingListed DEF WaitInv, Waiting
  <2>2. \A i \in DOMAIN list' : list'[i].profile \in Profiles /\ list'[i].wait \in Nat
    BY <1>4, <1>6, SlotType
  <2> QED BY <2>1, <2>2 DEF Waiting
<1>8. Kept(list, quiet, list', quiet', connecting' \ connecting)
  BY <1>3, <1>6, <1>7, NothingListed DEF Kept
<1>9. TypeOK'
  BY <1>6 DEF Boot, WaitInv, TypeOK, Slots
<1> QED BY <1>8, <1>9 DEF Boot

LEMMA ReloadStep ==
  ASSUME Distinct, WaitInv, Reload
  PROVE  TypeOK' /\ Kept(list, quiet, list', quiet', connecting' \ connecting)
         /\ (pc' \in {"stopped", "boot"} => list' = <<>>)
<1>1. Slots(list) /\ Waiting(list, quiet) /\ config \in Configs
  BY DEF WaitInv, TypeOK
<1>2. connecting' \ connecting = {}
  BY DEF Reload
<1>3. Kept(list, quiet, list', quiet', {})
  <2>1. CASE UNCHANGED <<list, quiet>>
    BY <1>1, <2>1, KeptSame
  <2>2. ASSUME NEW l \in Loads(list), list' = Rescheduled(l), quiet' = QuietOf(l)
        PROVE  Kept(list, quiet, list', quiet', {})
    <3>1. Loaded(l, list)
      BY <1>1, <2>2, LoadsOK
    <3> QED BY <1>1, <2>2, <3>1, KeptLoaded DEF QuietOf
  <2> QED BY <2>1, <2>2 DEF Reload
<1>4. TypeOK'
  BY <1>3 DEF Reload, WaitInv, TypeOK, Kept, Slots, Waiting
<1> QED BY <1>2, <1>3, <1>4 DEF Reload

LEMMA PollStep ==
  ASSUME WaitInv, Poll
  PROVE  TypeOK' /\ Kept(list, quiet, list', quiet', connecting' \ connecting)
         /\ (pc' \in {"stopped", "boot"} => list' = <<>>)
<1>1. Slots(list) /\ Waiting(list, quiet)
  BY DEF WaitInv
<1>2. PICK up \in SUBSET DOMAIN list, jitter \in [DOMAIN list -> Jitter] :
        /\ list' = [i \in DOMAIN list |-> IF i \in up THEN SeenUp(list[i])
                                          ELSE SeenDown(list[i], jitter[i])]
        /\ connecting' = {list[i].profile : i \in {j \in DOMAIN list \ up : Due(list[j])}}
        /\ quiet' = [p \in Profiles |-> IF p \in connecting' THEN NextCooldown(SlotOf(p)'.fail_count)
                                                             ELSE quiet[p]]
  BY DEF Poll
<1>3. quiet' = [p \in Profiles |-> IF p \in connecting' THEN NextCooldown(At(list', p).fail_count)
                                                        ELSE quiet[p]]
  BY <1>2 DEF SlotOf, At
<1>4. Kept(list, quiet, list', quiet', connecting') /\ connecting' \subseteq Profiles
  <2>1. Polled(list, quiet, up, jitter, list', quiet', connecting')
    BY <1>2, <1>3 DEF Polled
  <2> QED BY <1>1, <2>1, KeptPoll
<1>5. TypeOK'
  BY <1>4 DEF Poll, WaitInv, TypeOK, Kept, Slots, Waiting
<1> QED BY <1>4, <1>5 DEF Poll, Kept

LEMMA SleepStep ==
  ASSUME WaitInv, Sleep
  PROVE  TypeOK' /\ Kept(list, quiet, list', quiet', connecting' \ connecting)
         /\ (pc' \in {"stopped", "boot"} => list' = <<>>)
<1>1. Slots(list) /\ Waiting(list, quiet)
  BY DEF WaitInv
<1>2. PICK t \in Nat : /\ list' = [i \in DOMAIN list |-> [list[i] EXCEPT !.wait = Minus(list[i].wait, t)]]
                       /\ quiet' = [p \in Profiles |-> Minus(quiet[p], t)]
  BY ReconnectAssumption DEF Sleep
<1>3. Kept(list, quiet, list', quiet', {})
  BY <1>1, <1>2, KeptSleep
<1>4. connecting' \ connecting = {} /\ connecting' = {}
  BY DEF Sleep
<1>5. TypeOK'
  BY <1>3, <1>4 DEF Sleep, WaitInv, TypeOK, Kept, Slots, Waiting
<1> QED BY <1>3, <1>4, <1>5 DEF Sleep

LEMMA AnyStep ==
  ASSUME Distinct, WaitInv, [Next]_vars
  PROVE  WaitInv' /\ Kept(list, quiet, list', quiet', connecting' \ connecting)
<1> DEFINE Goal == TypeOK' /\ Kept(list, quiet, list', quiet', connecting' \ connecting)
                   /\ (pc' \in {"stopped", "boot"} => list' = <<>>)
<1> SUFFICES Goal
  BY DEF WaitInv, Kept
<1>1. ASSUME UNCHANGED <<list, quiet, connecting>> PROVE
        Kept(list, quiet, list', quiet', connecting' \ connecting)
  BY <1>1, KeptSame DEF WaitInv
<1>2. ASSUME NEW cfg \in Configs, Commit(cfg) PROVE Goal
  BY <1>1, <1>2 DEF Commit, WaitInv, TypeOK
<1>3. CASE ReloadService
  <2>1. CASE Gone("boot") \/ Gone("stopped")
    BY <1>3, <2>1, GoneStep DEF ReloadService
  <2>2. CASE UNCHANGED <<pc, g_reload, list, connecting, quiet, failed>>
    BY <1>1, <1>3, <2>2 DEF ReloadService, WaitInv, TypeOK
  <2>3. CASE pc \notin {"stopped", "boot", "booted"} /\ g_reload' = TRUE
               /\ UNCHANGED <<pc, list, connecting, quiet, failed>>
    BY <1>1, <1>3, <2>3 DEF ReloadService, WaitInv, TypeOK
  <2> QED BY <1>3, <2>1, <2>2, <2>3 DEF ReloadService
<1>4. CASE Boot
  BY <1>4, BootStep
<1>5. CASE InstallSignals
  BY <1>1, <1>5 DEF InstallSignals, WaitInv, TypeOK
<1>6. CASE CheckReload
  BY <1>1, <1>6 DEF CheckReload, WaitInv, TypeOK
<1>7. CASE Reload
  BY <1>7, ReloadStep
<1>8. CASE Poll
  BY <1>8, PollStep
<1>9. CASE Sleep
  BY <1>9, SleepStep
<1>10. CASE UNCHANGED vars
  BY <1>1, <1>10 DEF vars, WaitInv, TypeOK
<1> QED BY <1>2, <1>3, <1>4, <1>5, <1>6, <1>7, <1>8, <1>9, <1>10 DEF Next, Daemon
-------------------------------------------------------------------------------
(* The types of the variables: among them, a list that never outgrows       *)
(* MAX_STA and counters that stay within what the code compares them with.  *)
THEOREM ReconnectTypes ==
  ASSUME Distinct PROVE Spec => []TypeOK
<1>1. Init => WaitInv
  BY InitWait
<1>2. WaitInv /\ [Next]_vars => WaitInv'
  BY AnyStep
<1>3. WaitInv => TypeOK
  BY DEF WaitInv
<1> QED BY <1>1, <1>2, <1>3, PTL DEF Spec

(* A profile that stays configured is not tried again before the cooldown   *)
(* of its last attempt is over (load_sta_configs, main).                    *)
THEOREM CooldownKept ==
  ASSUME Distinct PROVE Spec => NoEarlyRetry
<1> DEFINE Held == \A p \in (connecting' \ connecting) \ NoSsid : quiet[p] = 0
<1>1. Init => WaitInv
  BY InitWait
<1>2. WaitInv /\ [Next]_vars => WaitInv'
  BY AnyStep
<1>3. WaitInv /\ [Next]_vars => [Held]_vars
  BY AnyStep DEF Kept
<1> QED BY <1>1, <1>2, <1>3, PTL DEF Spec, NoEarlyRetry

(* Failures are forgotten only by a link that lasted (main, the comment on  *)
(* CONNECT_CONFIRM_TICKS).                                                  *)
THEOREM FailuresKept ==
  ASSUME Distinct PROVE Spec => FailuresForgottenWhenStable
<1> DEFINE Held == \A p \in Listed \ NoSsid :
                     (p \in Listed' /\ SlotOf(p)'.fail_count < SlotOf(p).fail_count)
                       => SlotOf(p).connected_streak >= Confirm - 1 /\ quiet[p] = 0
<1>1. Init => WaitInv
  BY InitWait
<1>2. WaitInv /\ [Next]_vars => WaitInv'
  BY AnyStep
<1>3. ASSUME WaitInv, [Next]_vars PROVE Held
  <2> SUFFICES ASSUME NEW p \in Listed \ NoSsid, p \in Listed',
                      SlotOf(p)'.fail_count < SlotOf(p).fail_count
               PROVE  SlotOf(p).connected_streak >= Confirm - 1 /\ quiet[p] = 0
    OBVIOUS
  <2>1. PICK i \in DOMAIN list : list[i].profile = p
    BY DEF Listed
  <2>2. PICK k \in DOMAIN list' : list'[k].profile = p
    BY DEF Listed
  <2>3. Slots(list) /\ Slots(list')
    BY <1>3, AnyStep DEF WaitInv, Kept
  <2>4. At(list, p) = list[i] /\ At(list', p) = list'[k]
    BY <2>1, <2>2, <2>3, OnePlace
  <2>5. SlotOf(p) = list[i] /\ SlotOf(p)' = list'[k]
    BY <2>4 DEF SlotOf, At
  <2> QED BY <1>3, <2>1, <2>2, <2>5, AnyStep DEF Kept
<1>4. WaitInv /\ [Next]_vars => [Held]_vars
  BY <1>3
<1> HIDE DEF Held
<1>5. Spec => [][Held]_vars
  BY <1>1, <1>2, <1>4, PTL DEF Spec
<1> QED BY <1>5 DEF FailuresForgottenWhenStable, Held
===============================================================================
