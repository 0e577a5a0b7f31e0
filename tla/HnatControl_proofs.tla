--------------------------- MODULE HnatControl_proofs ---------------------------
(***************************************************************************)
(* The life of the mtk_hnat driver, for any number of engines, any writers *)
(* and devices and any bounds: what switching the hooks, failing probes    *)
(* and removal leave behind, step by step.                                 *)
(*                                                                         *)
(* A program of HnatControl is a sequence built with \o.  The proofs start *)
(* with what each has at its step k, as a listing: a disjunction over the  *)
(* rows of the program, with the rows repeated for each engine in closed   *)
(* form (DisableAt, ProbeAt, WarmAt, RemoveAt, ErrOutAt).  From there on   *)
(* an actor is a program and a number, and a step adds and takes away what *)
(* Plus and Minus say of its row.  Seven invariants follow:                *)
(*   Basic     where an actor can be: AtOK and Domains;                    *)
(*   SweptInv  with the hooks off, what is bound was bound late or some    *)
(*             actor has still to sweep its engine;                        *)
(*   SmaInv    an engine that only forwards waits for a writer that is     *)
(*             about to arm the timer, or for the timer (with AdminInv,    *)
(*             what only the administrator changes, and OneInv, that one   *)
(*             actor at a time switches);                                  *)
(*   TimerInv  the timer is set up from a step of probe to a step of       *)
(*             removal;                                                    *)
(*   WifiInv   the WiFi hooks are set while the tables are there, or a     *)
(*             failed probe is on record as having left them;              *)
(*   LifeInv   what is registered and allocated at every step of the actor *)
(*             that switches, and when none does (Phase, Quiescent);       *)
(*   HeldInv   what hnat_priv points to has its references, and removal    *)
(*             releases them after the last event and the last write.      *)
(***************************************************************************)
EXTENDS HnatControl, FiniteSetTheorems, WellFoundedInduction, TLAPS

N == PpeNum

Ops ==
  {"alloc", "find_eth", "ioremap", "irq2", "debugfs_on", "ext", "table", "mib", "hw_init",
   "ports_on", "ra_on", "nf_on", "del_on", "netdev_on", "netevent_on", "mcast_on", "timers_on",
   "roam_on", "teardown_on", "roam_off", "teardown_off", "netdev_off", "netevent_off", "ra_off",
   "nf_off", "fwd", "sweep", "sma_timer", "del_off", "mcast_off", "off", "free", "ports_off",
   "debugfs_off", "release", "timers_off", "devres", "ext_free", "clear"}

Instr == [op : Ops, ppe : 0 .. N]

LEMMA NType == N \in Nat \ {0} /\ 2 * N \in Nat /\ 3 * N \in Nat
BY ControlAssumption DEF N

LEMMA SeqOf ==
  ASSUME NEW S, NEW n \in Nat, NEW s \in [1 .. n -> S]
  PROVE  s \in Seq(S) /\ Len(s) = n /\ DOMAIN s = 1 .. n
OBVIOUS

(* u is s followed by t.                                                     *)
Joined(s, t, u) ==
  /\ u \in Seq(Instr) /\ Len(u) = Len(s) + Len(t)
  /\ \A k \in 1 .. Len(u) :
       \/ k \in 1 .. Len(s) /\ u[k] = s[k]
       \/ k - Len(s) \in 1 .. Len(t) /\ u[k] = t[k - Len(s)]

LEMMA Join ==
  ASSUME NEW s \in Seq(Instr), NEW t \in Seq(Instr)
  PROVE  Joined(s, t, s \o t)
<1> DEFINE u == s \o t
<1>1. u \in Seq(Instr) /\ Len(u) = Len(s) + Len(t) /\ Len(s) \in Nat /\ Len(t) \in Nat
  OBVIOUS
<1>2. ASSUME NEW k \in 1 .. Len(u)
      PROVE  \/ k \in 1 .. Len(s) /\ u[k] = s[k]
             \/ k - Len(s) \in 1 .. Len(t) /\ u[k] = t[k - Len(s)]
  <2>1. CASE k <= Len(s)
    <3>1. k \in 1 .. Len(s)
      BY <1>1, <2>1
    <3> QED BY <3>1
  <2>2. CASE k > Len(s)
    <3>1. k - Len(s) \in 1 .. Len(t)
      BY <1>1, <2>2
    <3>2. u[k] = t[k - Len(s)]
      BY <1>1, <2>2
    <3> QED BY <3>1, <3>2
  <2> QED BY <1>1, <2>1, <2>2
<1> HIDE DEF u
<1>3. Joined(s, t, u)
  BY <1>1, <1>2 DEF Joined
<1> QED BY <1>3 DEF u

LEMMA StepOf ==
  ASSUME NEW s \in Seq(Instr), NEW k \in 1 .. Len(s)
  PROVE  s[k] \in Instr
OBVIOUS

(* The steps of s are the ones a listing has after the first n.              *)
Fits(s, n, listing) == \A k \in 1 .. Len(s) : <<n + k, s[k]>> \in listing

LEMMA JoinFits ==
  ASSUME NEW s \in Seq(Instr), NEW t \in Seq(Instr), NEW u, Joined(s, t, u),
         NEW n \in Nat, NEW listing, Fits(s, n, listing), Fits(t, n + Len(s), listing)
  PROVE  u \in Seq(Instr) /\ Len(u) = Len(s) + Len(t) /\ Fits(u, n, listing)
<1>1. u \in Seq(Instr) /\ Len(u) = Len(s) + Len(t) /\ Len(s) \in Nat /\ Len(t) \in Nat
  BY DEF Joined
<1>2. ASSUME NEW k \in 1 .. Len(u) PROVE <<n + k, u[k]>> \in listing
  <2>1. CASE k \in 1 .. Len(s) /\ u[k] = s[k]
    BY <2>1 DEF Fits
  <2>2. CASE k - Len(s) \in 1 .. Len(t) /\ u[k] = t[k - Len(s)]
    <3>1. n + Len(s) + (k - Len(s)) = n + k
      BY <1>1
    <3> QED BY <2>2, <3>1 DEF Fits
  <2> QED BY <2>1, <2>2 DEF Joined
<1> QED BY <1>1, <1>2 DEF Fits

LEMMA EachTwo ==
  ASSUME NEW a \in Ops, NEW b \in Ops
  PROVE  /\ EachPpe(<<a, b>>) \in Seq(Instr)
         /\ Len(EachPpe(<<a, b>>)) = 2 * N
         /\ \A k \in 1 .. 2 * N :
              /\ EachPpe(<<a, b>>)[k].ppe \in Ppes
              /\ \/ EachPpe(<<a, b>>)[k].op = a /\ k = 2 * EachPpe(<<a, b>>)[k].ppe - 1
                 \/ EachPpe(<<a, b>>)[k].op = b /\ k = 2 * EachPpe(<<a, b>>)[k].ppe
<1> DEFINE s == EachPpe(<<a, b>>)
<1>0. Len(<<a, b>>) = 2
  OBVIOUS
<1>1. s = [k \in 1 .. 2 * N |-> [op |-> <<a, b>>[((k - 1) % 2) + 1], ppe |-> ((k - 1) \div 2) + 1]]
  BY <1>0 DEF EachPpe, N
<1>2. ASSUME NEW k \in 1 .. 2 * N
      PROVE  /\ s[k] \in Instr /\ s[k].ppe \in Ppes
             /\ \/ s[k].op = a /\ k = 2 * s[k].ppe - 1
                \/ s[k].op = b /\ k = 2 * s[k].ppe
  <2> DEFINE q == (k - 1) \div 2
  <2>1. q \in Nat /\ (k = 2 * q + 1 \/ k = 2 * q + 2)
    BY NType
  <2>2. CASE k = 2 * q + 1
    <3>1. (k - 1) % 2 = 0 /\ (k - 1) \div 2 = q /\ q + 1 \in Ppes /\ q + 1 \in 0 .. N
      BY NType, <2>2 DEF Ppes, N
    <3> QED BY <1>1, <2>2, <3>1 DEF Instr
  <2>3. CASE k = 2 * q + 2
    <3>1. (k - 1) % 2 = 1 /\ (k - 1) \div 2 = q /\ q + 1 \in Ppes /\ q + 1 \in 0 .. N
      BY NType, <2>3 DEF Ppes, N
    <3> QED BY <1>1, <2>3, <3>1 DEF Instr
  <2> QED BY <2>1, <2>2, <2>3
<1> HIDE DEF s
<1>3. s \in [1 .. 2 * N -> Instr]
  <2>1. s = [k \in 1 .. 2 * N |-> s[k]]
    BY <1>1
  <2> QED BY <1>2, <2>1
<1>4. s \in Seq(Instr) /\ Len(s) = 2 * N
  BY <1>3, NType, SeqOf
<1> QED BY <1>2, <1>4 DEF s

LEMMA EachThree ==
  ASSUME NEW a \in Ops, NEW b \in Ops, NEW c \in Ops
  PROVE  /\ EachPpe(<<a, b, c>>) \in Seq(Instr)
         /\ Len(EachPpe(<<a, b, c>>)) = 3 * N
         /\ \A k \in 1 .. 3 * N :
              /\ EachPpe(<<a, b, c>>)[k].ppe \in Ppes
              /\ \/ EachPpe(<<a, b, c>>)[k].op = a /\ k = 3 * EachPpe(<<a, b, c>>)[k].ppe - 2
                 \/ EachPpe(<<a, b, c>>)[k].op = b /\ k = 3 * EachPpe(<<a, b, c>>)[k].ppe - 1
                 \/ EachPpe(<<a, b, c>>)[k].op = c /\ k = 3 * EachPpe(<<a, b, c>>)[k].ppe
<1> DEFINE s == EachPpe(<<a, b, c>>)
<1>0. Len(<<a, b, c>>) = 3
  OBVIOUS
<1>1. s = [k \in 1 .. 3 * N |-> [op |-> <<a, b, c>>[((k - 1) % 3) + 1], ppe |-> ((k - 1) \div 3) + 1]]
  BY <1>0 DEF EachPpe, N
<1>2. ASSUME NEW k \in 1 .. 3 * N
      PROVE  /\ s[k] \in Instr /\ s[k].ppe \in Ppes
             /\ \/ s[k].op = a /\ k = 3 * s[k].ppe - 2
                \/ s[k].op = b /\ k = 3 * s[k].ppe - 1
                \/ s[k].op = c /\ k = 3 * s[k].ppe
  <2> DEFINE q == (k - 1) \div 3
  <2>1. q \in Nat /\ (k = 3 * q + 1 \/ k = 3 * q + 2 \/ k = 3 * q + 3)
    BY NType
  <2>2. CASE k = 3 * q + 1
    <3>1. (k - 1) % 3 = 0 /\ (k - 1) \div 3 = q /\ q + 1 \in Ppes /\ q + 1 \in 0 .. N
      BY NType, <2>2 DEF Ppes, N
    <3> QED BY <1>1, <2>2, <3>1 DEF Instr
  <2>3. CASE k = 3 * q + 2
    <3>1. (k - 1) % 3 = 1 /\ (k - 1) \div 3 = q /\ q + 1 \in Ppes /\ q + 1 \in 0 .. N
      BY NType, <2>3 DEF Ppes, N
    <3> QED BY <1>1, <2>3, <3>1 DEF Instr
  <2>4. CASE k = 3 * q + 3
    <3>1. (k - 1) % 3 = 2 /\ (k - 1) \div 3 = q /\ q + 1 \in Ppes /\ q + 1 \in 0 .. N
      BY NType, <2>4 DEF Ppes, N
    <3> QED BY <1>1, <2>4, <3>1 DEF Instr
  <2> QED BY <2>1, <2>2, <2>3, <2>4
<1> HIDE DEF s
<1>3. s \in [1 .. 3 * N -> Instr]
  <2>1. s = [k \in 1 .. 3 * N |-> s[k]]
    BY <1>1
  <2> QED BY <1>2, <2>1
<1>4. s \in Seq(Instr) /\ Len(s) = 3 * N
  BY <1>3, NType, SeqOf
<1> QED BY <1>2, <1>4 DEF s

-------------------------------------------------------------------------------
(***************************************************************************)
(* What each program does at its step k.                                   *)
(***************************************************************************)
DisableAt(n, k, i) ==
  \/ k = n + 1 /\ i.op = "ra_off"
  \/ k = n + 2 /\ i.op = "nf_off"
  \/ i.op = "fwd" /\ i.ppe \in Ppes /\ k = n + 2 * i.ppe + 1
  \/ i.op = "sweep" /\ i.ppe \in Ppes /\ k = n + 2 * i.ppe + 2
  \/ k = n + 3 + 2 * N /\ i.op = "sma_timer"
  \/ k = n + 4 + 2 * N /\ i.op = "del_off"

Disabling(n) == {w \in Nat \X Instr : DisableAt(n, w[1], w[2])}

LEMMA DisableCode ==
  ASSUME NEW n \in Nat
  PROVE  Disable \in Seq(Instr) /\ Len(Disable) = 4 + 2 * N /\ Fits(Disable, n, Disabling(n))
<1> DEFINE A == Once(<<"ra_off", "nf_off">>)
           B == EachPpe(<<"fwd", "sweep">>)
           C == Once(<<"sma_timer", "del_off">>)
           AB == A \o B
           L == Disabling(n)
<1>0. N \in Nat \ {0} /\ 0 \in 0 .. N
  BY NType
<1>1. A = <<[op |-> "ra_off", ppe |-> 0], [op |-> "nf_off", ppe |-> 0]>>
  BY DEF Once
<1>2. C = <<[op |-> "sma_timer", ppe |-> 0], [op |-> "del_off", ppe |-> 0]>>
  BY DEF Once
<1>3. /\ B \in Seq(Instr) /\ Len(B) = 2 * N
      /\ \A k \in 1 .. 2 * N : /\ B[k].ppe \in Ppes
                               /\ \/ B[k].op = "fwd" /\ k = 2 * B[k].ppe - 1
                                  \/ B[k].op = "sweep" /\ k = 2 * B[k].ppe
  <2>1. "fwd" \in Ops /\ "sweep" \in Ops
    BY DEF Ops
  <2> QED BY <2>1, EachTwo
<1>4. Disable = AB \o C
  BY DEF Disable
<1> HIDE DEF A, B, C
<1>5. A \in Seq(Instr) /\ C \in Seq(Instr) /\ Len(A) = 2 /\ Len(C) = 2
  BY <1>0, <1>1, <1>2 DEF Instr, Ops
<1>6. Joined(A, B, AB)
  BY <1>3, <1>5, Join
<1> HIDE DEF AB, L
<1>7. Fits(A, n, L)
  <2> SUFFICES ASSUME NEW k \in 1 .. 2 PROVE <<n + k, A[k]>> \in L
    BY <1>5 DEF Fits
  <2>1. k = 1 \/ k = 2
    OBVIOUS
  <2>2. A[k] \in Instr /\ n + k \in Nat
    BY <1>5
  <2>3. DisableAt(n, n + k, A[k])
    BY <1>1, <2>1 DEF DisableAt
  <2> QED BY <2>2, <2>3 DEF L, Disabling
<1>8. Fits(B, n + 2, L)
  <2> SUFFICES ASSUME NEW k \in 1 .. 2 * N PROVE <<n + 2 + k, B[k]>> \in L
    BY <1>3 DEF Fits
  <2>1. B[k] \in Instr /\ n + 2 + k \in Nat /\ B[k].ppe \in Nat
    BY <1>0, <1>3 DEF Ppes, N
  <2>2. \/ B[k].op = "fwd" /\ n + 2 + k = n + 2 * B[k].ppe + 1
        \/ B[k].op = "sweep" /\ n + 2 + k = n + 2 * B[k].ppe + 2
    <3>1. \/ B[k].op = "fwd" /\ k = 2 * B[k].ppe - 1
          \/ B[k].op = "sweep" /\ k = 2 * B[k].ppe
      BY <1>3
    <3>2. k = 2 * B[k].ppe - 1 => n + 2 + k = n + 2 * B[k].ppe + 1
      BY <2>1
    <3>3. k = 2 * B[k].ppe => n + 2 + k = n + 2 * B[k].ppe + 2
      BY <2>1
    <3> QED BY <3>1, <3>2, <3>3
  <2>3. DisableAt(n, n + 2 + k, B[k])
    BY <1>3, <2>2 DEF DisableAt
  <2> QED BY <2>1, <2>3 DEF L, Disabling
<1>9. Fits(C, n + (2 + 2 * N), L)
  <2> SUFFICES ASSUME NEW k \in 1 .. 2 PROVE <<n + (2 + 2 * N) + k, C[k]>> \in L
    BY <1>5 DEF Fits
  <2>1. k = 1 \/ k = 2
    OBVIOUS
  <2>2. C[k] \in Instr /\ n + (2 + 2 * N) + k \in Nat
    <3>1. C[k] \in Instr
      BY <1>5
    <3>2. n + (2 + 2 * N) + k \in Nat
      BY NType
    <3> QED BY <3>1, <3>2
  <2>3. DisableAt(n, n + (2 + 2 * N) + k, C[k])
    BY <1>0, <1>2, <2>1 DEF DisableAt
  <2> QED BY <2>2, <2>3 DEF L, Disabling
<1>10. AB \in Seq(Instr) /\ Len(AB) = 2 + 2 * N /\ Fits(AB, n, L)
  <2>1. Fits(B, n + Len(A), L)
    BY <1>5, <1>8
  <2>2. AB \in Seq(Instr) /\ Len(AB) = Len(A) + Len(B) /\ Fits(AB, n, L)
    BY <1>3, <1>5, <1>6, <1>7, <2>1, JoinFits
  <2> QED BY <1>3, <1>5, <2>2
<1>11. Joined(AB, C, Disable)
  BY <1>4, <1>5, <1>10, Join
<1>12. Disable \in Seq(Instr) /\ Len(Disable) = Len(AB) + Len(C) /\ Fits(Disable, n, L)
  BY <1>5, <1>9, <1>10, <1>11, JoinFits
<1>13. Len(AB) + Len(C) = 4 + 2 * N
  BY <1>0, <1>5, <1>10
<1> QED BY <1>12, <1>13 DEF L

(* Probe                                                                    *)
ProbeAt(k, i) ==
  \/ k = 1 /\ i.op = "alloc"
  \/ k = 2 /\ i.op = "find_eth"
  \/ k = 3 /\ i.op = "ioremap"
  \/ k = 4 /\ i.op = "irq2"
  \/ k = 5 /\ i.op = "debugfs_on"
  \/ k = 6 /\ i.op = "ext"
  \/ i.op = "table" /\ i.ppe \in Ppes /\ k = 3 * i.ppe + 4
  \/ i.op = "mib" /\ i.ppe \in Ppes /\ k = 3 * i.ppe + 5
  \/ i.op = "hw_init" /\ i.ppe \in Ppes /\ k = 3 * i.ppe + 6
  \/ k = 7 + 3 * N /\ i.op = "ports_on"
  \/ k = 8 + 3 * N /\ i.op = "ra_on"
  \/ k = 9 + 3 * N /\ i.op = "nf_on"
  \/ k = 10 + 3 * N /\ i.op = "del_on"
  \/ k = 11 + 3 * N /\ i.op = "netdev_on"
  \/ k = 12 + 3 * N /\ i.op = "netevent_on"
  \/ k = 13 + 3 * N /\ i.op = "mcast_on"
  \/ k = 14 + 3 * N /\ i.op = "timers_on"
  \/ k = 15 + 3 * N /\ i.op = "roam_on"
  \/ k = 16 + 3 * N /\ i.op = "teardown_on"

Probing == {w \in Nat \X Instr : ProbeAt(w[1], w[2])}

LEMMA ErrOut1Is ==
  /\ ErrOut1 = <<[op |-> "debugfs_off", ppe |-> 0], [op |-> "ext_free", ppe |-> 0],
                 [op |-> "ports_off", ppe |-> 0], [op |-> "devres", ppe |-> 0]>>
  /\ ErrOut2 = <<[op |-> "ports_off", ppe |-> 0], [op |-> "devres", ppe |-> 0]>>
<1>1. ErrOut2 = <<[op |-> "ports_off", ppe |-> 0], [op |-> "devres", ppe |-> 0]>>
  BY DEF ErrOut2, Once
<1>2. Once(<<"debugfs_off", "ext_free">>) = <<[op |-> "debugfs_off", ppe |-> 0], [op |-> "ext_free", ppe |-> 0]>>
  BY DEF Once
<1>3. ErrOut1 = <<[op |-> "debugfs_off", ppe |-> 0], [op |-> "ext_free", ppe |-> 0],
                  [op |-> "ports_off", ppe |-> 0], [op |-> "devres", ppe |-> 0]>>
  <2> DEFINE a == [op |-> "debugfs_off", ppe |-> 0]
             b == [op |-> "ext_free", ppe |-> 0]
             c == [op |-> "ports_off", ppe |-> 0]
             d == [op |-> "devres", ppe |-> 0]
  <2>1. ErrOut1 = <<a, b>> \o <<c, d>>
    BY <1>1, <1>2 DEF ErrOut1
  <2> HIDE DEF a, b, c, d
  <2>2. <<a, b>> \o <<c, d>> = <<a, b, c, d>>
    <3> DEFINE s == <<a, b>>
               t == <<c, d>>
               u == s \o t
    <3>1. s \in Seq(Instr) /\ t \in Seq(Instr) /\ Len(s) = 2 /\ Len(t) = 2
      <4>1. a \in Instr /\ b \in Instr /\ c \in Instr /\ d \in Instr
        BY NType DEF a, b, c, d, Instr, Ops
      <4> QED BY <4>1
    <3>2. s[1] = a /\ s[2] = b /\ t[1] = c /\ t[2] = d
      OBVIOUS
    <3> HIDE DEF s, t
    <3>3. Joined(s, t, u)
      BY <3>1, Join
    <3> HIDE DEF u
    <3>4. u \in Seq(Instr) /\ Len(u) = 4 /\ u[1] = s[1] /\ u[2] = s[2]
      BY <3>1, <3>3 DEF Joined
    <3>5. u[3] = t[1] /\ u[4] = t[2]
      BY <3>1, <3>3, <3>4 DEF Joined
    <3>6. u = <<a, b, c, d>>
      BY <3>2, <3>3, <3>4, <3>5
    <3> QED BY <3>6 DEF s, t, u
  <2> QED BY <2>1, <2>2 DEF a, b, c, d
<1> QED BY <1>1, <1>3

LEMMA ProbeCode ==
  Probe \in Seq(Instr) /\ Len(Probe) = 16 + 3 * N /\ Fits(Probe, 0, Probing)
<1> DEFINE A == Once(<<"alloc", "find_eth", "ioremap", "irq2", "debugfs_on", "ext">>)
           B == EachPpe(StartSteps)
           C == Once(<<"ports_on">>)
           D == Once(<<"ra_on", "nf_on", "del_on">>)
           E == Once(<<"netdev_on", "netevent_on", "mcast_on", "timers_on", "roam_on", "teardown_on">>)
           AB == A \o B
           ABC == AB \o C
           ABCD == ABC \o D
<1>0. N \in Nat \ {0} /\ 0 \in 0 .. N /\ 2 * N \in Nat /\ 3 * N \in Nat /\ 0 \in Nat
  BY NType
<1>1. A = <<[op |-> "alloc", ppe |-> 0], [op |-> "find_eth", ppe |-> 0],
            [op |-> "ioremap", ppe |-> 0], [op |-> "irq2", ppe |-> 0],
            [op |-> "debugfs_on", ppe |-> 0], [op |-> "ext", ppe |-> 0]>>
  BY DEF Once
<1>2. C = <<[op |-> "ports_on", ppe |-> 0]>>
  BY DEF Once
<1>3. D = <<[op |-> "ra_on", ppe |-> 0], [op |-> "nf_on", ppe |-> 0],
            [op |-> "del_on", ppe |-> 0]>>
  BY DEF Once
<1>4. E = <<[op |-> "netdev_on", ppe |-> 0], [op |-> "netevent_on", ppe |-> 0],
            [op |-> "mcast_on", ppe |-> 0], [op |-> "timers_on", ppe |-> 0],
            [op |-> "roam_on", ppe |-> 0], [op |-> "teardown_on", ppe |-> 0]>>
  BY DEF Once
<1>5. /\ B \in Seq(Instr) /\ Len(B) = 3 * N
      /\ \A k \in 1 .. 3 * N : /\ B[k].ppe \in Ppes
                               /\ \/ B[k].op = "table" /\ k = 3 * B[k].ppe - 2
                                  \/ B[k].op = "mib" /\ k = 3 * B[k].ppe - 1
                                  \/ B[k].op = "hw_init" /\ k = 3 * B[k].ppe
  <2>1. "table" \in Ops /\ "mib" \in Ops /\ "hw_init" \in Ops
    BY DEF Ops
  <2> QED BY <2>1, EachThree DEF StartSteps
<1>6. Probe = ABCD \o E
  BY DEF Probe, Enable
<1> HIDE DEF A, B, C, D, E
<1>7. A \in Seq(Instr) /\ Len(A) = 6 /\ C \in Seq(Instr) /\ Len(C) = 1 /\ D \in Seq(Instr) /\ Len(D) = 3 /\ E \in Seq(Instr) /\ Len(E) = 6
  BY <1>0, <1>1, <1>2, <1>3, <1>4 DEF Instr, Ops
<1> DEFINE L == Probing
<1> HIDE DEF L
<1>8. Fits(A, 0, L)
  <2> SUFFICES ASSUME NEW k \in 1 .. 6 PROVE <<0 + k, A[k]>> \in L
    BY <1>7 DEF Fits
  <2>1. k = 1 \/ k = 2 \/ k = 3 \/ k = 4 \/ k = 5 \/ k = 6
    OBVIOUS
  <2>2. A[k] \in Instr
    <3>1. k \in 1 .. Len(A)
      BY <1>7
    <3> QED BY <1>7, <3>1, StepOf
  <2>3. 0 + k \in Nat
    BY NType
  <2>4. ProbeAt(0 + k, A[k])
    <3>1. CASE k = 1
      <4>1. 0 + 1 = 1
        BY <1>0
      <4> QED BY <1>1, <3>1, <4>1 DEF ProbeAt
    <3>2. CASE k = 2
      <4>1. 0 + 2 = 2
        BY <1>0
      <4> QED BY <1>1, <3>2, <4>1 DEF ProbeAt
    <3>3. CASE k = 3
      <4>1. 0 + 3 = 3
        BY <1>0
      <4> QED BY <1>1, <3>3, <4>1 DEF ProbeAt
    <3>4. CASE k = 4
      <4>1. 0 + 4 = 4
        BY <1>0
      <4> QED BY <1>1, <3>4, <4>1 DEF ProbeAt
    <3>5. CASE k = 5
      <4>1. 0 + 5 = 5
        BY <1>0
      <4> QED BY <1>1, <3>5, <4>1 DEF ProbeAt
    <3>6. CASE k = 6
      <4>1. 0 + 6 = 6
        BY <1>0
      <4> QED BY <1>1, <3>6, <4>1 DEF ProbeAt
    <3> QED BY <2>1, <3>1, <3>2, <3>3, <3>4, <3>5, <3>6
  <2> QED BY <2>2, <2>3, <2>4 DEF L, Probing
<1>9. Fits(B, 6, L)
  <2> SUFFICES ASSUME NEW k \in 1 .. 3 * N PROVE <<6 + k, B[k]>> \in L
    BY <1>5 DEF Fits
  <2>1. B[k] \in Instr /\ B[k].ppe \in Nat
    <3>1. k \in 1 .. Len(B) /\ B[k].ppe \in Ppes
      BY <1>5
    <3> QED BY <1>0, <1>5, <3>1, StepOf DEF Ppes, N
  <2>2. 6 + k \in Nat
    BY NType
  <2>3. ProbeAt(6 + k, B[k])
    <3>1. CASE B[k].op = "table" /\ k = 3 * B[k].ppe - 2
      <4>1. 6 + k = 3 * B[k].ppe + 4
        BY <1>0, <2>1, <3>1
      <4> QED BY <1>5, <3>1, <4>1 DEF ProbeAt
    <3>2. CASE B[k].op = "mib" /\ k = 3 * B[k].ppe - 1
      <4>1. 6 + k = 3 * B[k].ppe + 5
        BY <1>0, <2>1, <3>2
      <4> QED BY <1>5, <3>2, <4>1 DEF ProbeAt
    <3>3. CASE B[k].op = "hw_init" /\ k = 3 * B[k].ppe
      <4>1. 6 + k = 3 * B[k].ppe + 6
        BY <1>0, <2>1, <3>3
      <4> QED BY <1>5, <3>3, <4>1 DEF ProbeAt
    <3> QED BY <1>5, <3>1, <3>2, <3>3
  <2> QED BY <2>1, <2>2, <2>3 DEF L, Probing
<1>10. Fits(C, (6 + 3 * N), L)
  <2> SUFFICES ASSUME NEW k \in 1 .. 1 PROVE <<(6 + 3 * N) + k, C[k]>> \in L
    BY <1>7 DEF Fits
  <2>1. k = 1
    OBVIOUS
  <2>2. C[k] \in Instr
    <3>1. k \in 1 .. Len(C)
      BY <1>7
    <3> QED BY <1>7, <3>1, StepOf
  <2>3. (6 + 3 * N) + k \in Nat
    BY NType
  <2>4. ProbeAt((6 + 3 * N) + k, C[k])
    <3>1. CASE k = 1
      <4>1. (6 + 3 * N) + 1 = 7 + 3 * N
        BY <1>0
      <4> QED BY <1>2, <3>1, <4>1 DEF ProbeAt
    <3> QED BY <2>1, <3>1
  <2> QED BY <2>2, <2>3, <2>4 DEF L, Probing
<1>11. Fits(D, (7 + 3 * N), L)
  <2> SUFFICES ASSUME NEW k \in 1 .. 3 PROVE <<(7 + 3 * N) + k, D[k]>> \in L
    BY <1>7 DEF Fits
  <2>1. k = 1 \/ k = 2 \/ k = 3
    OBVIOUS
  <2>2. D[k] \in Instr
    <3>1. k \in 1 .. Len(D)
      BY <1>7
    <3> QED BY <1>7, <3>1, StepOf
  <2>3. (7 + 3 * N) + k \in Nat
    BY NType
  <2>4. ProbeAt((7 + 3 * N) + k, D[k])
    <3>1. CASE k = 1
      <4>1. (7 + 3 * N) + 1 = 8 + 3 * N
        BY <1>0
      <4> QED BY <1>3, <3>1, <4>1 DEF ProbeAt
    <3>2. CASE k = 2
      <4>1. (7 + 3 * N) + 2 = 9 + 3 * N
        BY <1>0
      <4> QED BY <1>3, <3>2, <4>1 DEF ProbeAt
    <3>3. CASE k = 3
      <4>1. (7 + 3 * N) + 3 = 10 + 3 * N
        BY <1>0
      <4> QED BY <1>3, <3>3, <4>1 DEF ProbeAt
    <3> QED BY <2>1, <3>1, <3>2, <3>3
  <2> QED BY <2>2, <2>3, <2>4 DEF L, Probing
<1>12. Fits(E, (10 + 3 * N), L)
  <2> SUFFICES ASSUME NEW k \in 1 .. 6 PROVE <<(10 + 3 * N) + k, E[k]>> \in L
    BY <1>7 DEF Fits
  <2>1. k = 1 \/ k = 2 \/ k = 3 \/ k = 4 \/ k = 5 \/ k = 6
    OBVIOUS
  <2>2. E[k] \in Instr
    <3>1. k \in 1 .. Len(E)
      BY <1>7
    <3> QED BY <1>7, <3>1, StepOf
  <2>3. (10 + 3 * N) + k \in Nat
    BY NType
  <2>4. ProbeAt((10 + 3 * N) + k, E[k])
    <3>1. CASE k = 1
      <4>1. (10 + 3 * N) + 1 = 11 + 3 * N
        BY <1>0
      <4> QED BY <1>4, <3>1, <4>1 DEF ProbeAt
    <3>2. CASE k = 2
      <4>1. (10 + 3 * N) + 2 = 12 + 3 * N
        BY <1>0
      <4> QED BY <1>4, <3>2, <4>1 DEF ProbeAt
    <3>3. CASE k = 3
      <4>1. (10 + 3 * N) + 3 = 13 + 3 * N
        BY <1>0
      <4> QED BY <1>4, <3>3, <4>1 DEF ProbeAt
    <3>4. CASE k = 4
      <4>1. (10 + 3 * N) + 4 = 14 + 3 * N
        BY <1>0
      <4> QED BY <1>4, <3>4, <4>1 DEF ProbeAt
    <3>5. CASE k = 5
      <4>1. (10 + 3 * N) + 5 = 15 + 3 * N
        BY <1>0
      <4> QED BY <1>4, <3>5, <4>1 DEF ProbeAt
    <3>6. CASE k = 6
      <4>1. (10 + 3 * N) + 6 = 16 + 3 * N
        BY <1>0
      <4> QED BY <1>4, <3>6, <4>1 DEF ProbeAt
    <3> QED BY <2>1, <3>1, <3>2, <3>3, <3>4, <3>5, <3>6
  <2> QED BY <2>2, <2>3, <2>4 DEF L, Probing
<1>13. AB \in Seq(Instr) /\ Len(AB) = 6 + 3 * N /\ Fits(AB, 0, L)
  <2>1. Joined(A, B, AB)
    BY <1>7, <1>5, Join
  <2> HIDE DEF AB
  <2>2. 0 + Len(A) = 6
    BY <1>0, <1>7
  <2>3. Fits(B, 0 + Len(A), L)
    BY <1>9, <2>2
  <2>4. AB \in Seq(Instr) /\ Len(AB) = Len(A) + Len(B) /\ Fits(AB, 0, L)
    BY <1>0, <1>7, <1>8, <1>5, <2>1, <2>3, JoinFits
  <2>5. Len(A) + Len(B) = 6 + 3 * N
    BY <1>0, <1>7, <1>5
  <2> QED BY <2>4, <2>5
<1> HIDE DEF AB
<1>14. ABC \in Seq(Instr) /\ Len(ABC) = 7 + 3 * N /\ Fits(ABC, 0, L)
  <2>1. Joined(AB, C, ABC)
    BY <1>13, <1>7, Join
  <2> HIDE DEF ABC
  <2>2. 0 + Len(AB) = (6 + 3 * N)
    BY <1>0, <1>13
  <2>3. Fits(C, 0 + Len(AB), L)
    BY <1>10, <2>2
  <2>4. ABC \in Seq(Instr) /\ Len(ABC) = Len(AB) + Len(C) /\ Fits(ABC, 0, L)
    BY <1>0, <1>13, <1>13, <1>7, <2>1, <2>3, JoinFits
  <2>5. Len(AB) + Len(C) = 7 + 3 * N
    BY <1>0, <1>13, <1>7
  <2> QED BY <2>4, <2>5
<1> HIDE DEF ABC
<1>15. ABCD \in Seq(Instr) /\ Len(ABCD) = 10 + 3 * N /\ Fits(ABCD, 0, L)
  <2>1. Joined(ABC, D, ABCD)
    BY <1>14, <1>7, Join
  <2> HIDE DEF ABCD
  <2>2. 0 + Len(ABC) = (7 + 3 * N)
    BY <1>0, <1>14
  <2>3. Fits(D, 0 + Len(ABC), L)
    BY <1>11, <2>2
  <2>4. ABCD \in Seq(Instr) /\ Len(ABCD) = Len(ABC) + Len(D) /\ Fits(ABCD, 0, L)
    BY <1>0, <1>14, <1>14, <1>7, <2>1, <2>3, JoinFits
  <2>5. Len(ABC) + Len(D) = 10 + 3 * N
    BY <1>0, <1>14, <1>7
  <2> QED BY <2>4, <2>5
<1> HIDE DEF ABCD
<1>16. Probe \in Seq(Instr) /\ Len(Probe) = 16 + 3 * N /\ Fits(Probe, 0, L)
  <2>1. Joined(ABCD, E, Probe)
    BY <1>15, <1>7, Join, <1>6
  <2>2. 0 + Len(ABCD) = (10 + 3 * N)
    BY <1>0, <1>15
  <2>3. Fits(E, 0 + Len(ABCD), L)
    BY <1>12, <2>2
  <2>4. Probe \in Seq(Instr) /\ Len(Probe) = Len(ABCD) + Len(E) /\ Fits(Probe, 0, L)
    BY <1>0, <1>15, <1>15, <1>7, <2>1, <2>3, JoinFits
  <2>5. Len(ABCD) + Len(E) = 16 + 3 * N
    BY <1>0, <1>15, <1>7
  <2> QED BY <2>4, <2>5
<1> QED BY <1>16 DEF L

(* err_out                                                                  *)
ErrOutAt(k, i) ==
  \/ i.op = "sweep" /\ i.ppe \in Ppes /\ k = 3 * i.ppe - 2
  \/ i.op = "off" /\ i.ppe \in Ppes /\ k = 3 * i.ppe - 1
  \/ i.op = "free" /\ i.ppe \in Ppes /\ k = 3 * i.ppe
  \/ k = 1 + 3 * N /\ i.op = "debugfs_off"
  \/ k = 2 + 3 * N /\ i.op = "ext_free"
  \/ k = 3 + 3 * N /\ i.op = "ports_off"
  \/ k = 4 + 3 * N /\ i.op = "devres"

ErringOut == {w \in Nat \X Instr : ErrOutAt(w[1], w[2])}

LEMMA ErrOutCode ==
  ErrOut \in Seq(Instr) /\ Len(ErrOut) = 4 + 3 * N /\ Fits(ErrOut, 0, ErringOut)
<1> DEFINE A == EachPpe(StopSteps)
           B == ErrOut1
<1>0. N \in Nat \ {0} /\ 0 \in 0 .. N /\ 2 * N \in Nat /\ 3 * N \in Nat /\ 0 \in Nat
  BY NType
<1>1. B = <<[op |-> "debugfs_off", ppe |-> 0], [op |-> "ext_free", ppe |-> 0],
            [op |-> "ports_off", ppe |-> 0], [op |-> "devres", ppe |-> 0]>>
  BY ErrOut1Is
<1>2. /\ A \in Seq(Instr) /\ Len(A) = 3 * N
      /\ \A k \in 1 .. 3 * N : /\ A[k].ppe \in Ppes
                               /\ \/ A[k].op = "sweep" /\ k = 3 * A[k].ppe - 2
                                  \/ A[k].op = "off" /\ k = 3 * A[k].ppe - 1
                                  \/ A[k].op = "free" /\ k = 3 * A[k].ppe
  <2>1. "sweep" \in Ops /\ "off" \in Ops /\ "free" \in Ops
    BY DEF Ops
  <2> QED BY <2>1, EachThree DEF StopSteps
<1>3. ErrOut = A \o B
  BY DEF ErrOut
<1> HIDE DEF A, B
<1>4. B \in Seq(Instr) /\ Len(B) = 4
  BY <1>0, <1>1 DEF Instr, Ops
<1> DEFINE L == ErringOut
<1> HIDE DEF L
<1>5. Fits(A, 0, L)
  <2> SUFFICES ASSUME NEW k \in 1 .. 3 * N PROVE <<0 + k, A[k]>> \in L
    BY <1>2 DEF Fits
  <2>1. A[k] \in Instr /\ A[k].ppe \in Nat
    <3>1. k \in 1 .. Len(A) /\ A[k].ppe \in Ppes
      BY <1>2
    <3> QED BY <1>0, <1>2, <3>1, StepOf DEF Ppes, N
  <2>2. 0 + k \in Nat
    BY NType
  <2>3. ErrOutAt(0 + k, A[k])
    <3>1. CASE A[k].op = "sweep" /\ k = 3 * A[k].ppe - 2
      <4>1. 0 + k = 3 * A[k].ppe - 2
        BY <1>0, <2>1, <3>1
      <4> QED BY <1>2, <3>1, <4>1 DEF ErrOutAt
    <3>2. CASE A[k].op = "off" /\ k = 3 * A[k].ppe - 1
      <4>1. 0 + k = 3 * A[k].ppe - 1
        BY <1>0, <2>1, <3>2
      <4> QED BY <1>2, <3>2, <4>1 DEF ErrOutAt
    <3>3. CASE A[k].op = "free" /\ k = 3 * A[k].ppe
      <4>1. 0 + k = 3 * A[k].ppe
        BY <1>0, <2>1, <3>3
      <4> QED BY <1>2, <3>3, <4>1 DEF ErrOutAt
    <3> QED BY <1>2, <3>1, <3>2, <3>3
  <2> QED BY <2>1, <2>2, <2>3 DEF L, ErringOut
<1>6. Fits(B, (3 * N), L)
  <2> SUFFICES ASSUME NEW k \in 1 .. 4 PROVE <<(3 * N) + k, B[k]>> \in L
    BY <1>4 DEF Fits
  <2>1. k = 1 \/ k = 2 \/ k = 3 \/ k = 4
    OBVIOUS
  <2>2. B[k] \in Instr
    <3>1. k \in 1 .. Len(B)
      BY <1>4
    <3> QED BY <1>4, <3>1, StepOf
  <2>3. (3 * N) + k \in Nat
    BY NType
  <2>4. ErrOutAt((3 * N) + k, B[k])
    <3>1. CASE k = 1
      <4>1. (3 * N) + 1 = 1 + 3 * N
        BY <1>0
      <4> QED BY <1>1, <3>1, <4>1 DEF ErrOutAt
    <3>2. CASE k = 2
      <4>1. (3 * N) + 2 = 2 + 3 * N
        BY <1>0
      <4> QED BY <1>1, <3>2, <4>1 DEF ErrOutAt
    <3>3. CASE k = 3
      <4>1. (3 * N) + 3 = 3 + 3 * N
        BY <1>0
      <4> QED BY <1>1, <3>3, <4>1 DEF ErrOutAt
    <3>4. CASE k = 4
      <4>1. (3 * N) + 4 = 4 + 3 * N
        BY <1>0
      <4> QED BY <1>1, <3>4, <4>1 DEF ErrOutAt
    <3> QED BY <2>1, <3>1, <3>2, <3>3, <3>4
  <2> QED BY <2>2, <2>3, <2>4 DEF L, ErringOut
<1>7. ErrOut \in Seq(Instr) /\ Len(ErrOut) = 4 + 3 * N /\ Fits(ErrOut, 0, L)
  <2>1. Joined(A, B, ErrOut)
    BY <1>2, <1>4, Join, <1>3
  <2>2. 0 + Len(A) = (3 * N)
    BY <1>0, <1>2
  <2>3. Fits(B, 0 + Len(A), L)
    BY <1>6, <2>2
  <2>4. ErrOut \in Seq(Instr) /\ Len(ErrOut) = Len(A) + Len(B) /\ Fits(ErrOut, 0, L)
    BY <1>0, <1>2, <1>5, <1>4, <2>1, <2>3, JoinFits
  <2>5. Len(A) + Len(B) = 4 + 3 * N
    BY <1>0, <1>2, <1>4
  <2> QED BY <2>4, <2>5
<1> QED BY <1>7 DEF L

(* hnat_warm_init                                                           *)
WarmAt(k, i) ==
  \/ k = 1 /\ i.op = "netevent_off"
  \/ i.op = "clear" /\ i.ppe \in Ppes /\ k = 2 * i.ppe
  \/ i.op = "hw_init" /\ i.ppe \in Ppes /\ k = 2 * i.ppe + 1
  \/ k = 2 + 2 * N /\ i.op = "netevent_on"

Warming == {w \in Nat \X Instr : WarmAt(w[1], w[2])}

LEMMA WarmCode ==
  WarmInit \in Seq(Instr) /\ Len(WarmInit) = 2 + 2 * N /\ Fits(WarmInit, 0, Warming)
<1> DEFINE A == Once(<<"netevent_off">>)
           B == EachPpe(<<"clear", "hw_init">>)
           C == Once(<<"netevent_on">>)
           AB == A \o B
<1>0. N \in Nat \ {0} /\ 0 \in 0 .. N /\ 2 * N \in Nat /\ 3 * N \in Nat /\ 0 \in Nat
  BY NType
<1>1. A = <<[op |-> "netevent_off", ppe |-> 0]>>
  BY DEF Once
<1>2. C = <<[op |-> "netevent_on", ppe |-> 0]>>
  BY DEF Once
<1>3. /\ B \in Seq(Instr) /\ Len(B) = 2 * N
      /\ \A k \in 1 .. 2 * N : /\ B[k].ppe \in Ppes
                               /\ \/ B[k].op = "clear" /\ k = 2 * B[k].ppe - 1
                                  \/ B[k].op = "hw_init" /\ k = 2 * B[k].ppe
  <2>1. "clear" \in Ops /\ "hw_init" \in Ops
    BY DEF Ops
  <2> QED BY <2>1, EachTwo
<1>4. WarmInit = AB \o C
  BY DEF WarmInit
<1> HIDE DEF A, B, C
<1>5. A \in Seq(Instr) /\ Len(A) = 1 /\ C \in Seq(Instr) /\ Len(C) = 1
  BY <1>0, <1>1, <1>2 DEF Instr, Ops
<1> DEFINE L == Warming
<1> HIDE DEF L
<1>6. Fits(A, 0, L)
  <2> SUFFICES ASSUME NEW k \in 1 .. 1 PROVE <<0 + k, A[k]>> \in L
    BY <1>5 DEF Fits
  <2>1. k = 1
    OBVIOUS
  <2>2. A[k] \in Instr
    <3>1. k \in 1 .. Len(A)
      BY <1>5
    <3> QED BY <1>5, <3>1, StepOf
  <2>3. 0 + k \in Nat
    BY NType
  <2>4. WarmAt(0 + k, A[k])
    <3>1. CASE k = 1
      <4>1. 0 + 1 = 1
        BY <1>0
      <4> QED BY <1>1, <3>1, <4>1 DEF WarmAt
    <3> QED BY <2>1, <3>1
  <2> QED BY <2>2, <2>3, <2>4 DEF L, Warming
<1>7. Fits(B, 1, L)
  <2> SUFFICES ASSUME NEW k \in 1 .. 2 * N PROVE <<1 + k, B[k]>> \in L
    BY <1>3 DEF Fits
  <2>1. B[k] \in Instr /\ B[k].ppe \in Nat
    <3>1. k \in 1 .. Len(B) /\ B[k].ppe \in Ppes
      BY <1>3
    <3> QED BY <1>0, <1>3, <3>1, StepOf DEF Ppes, N
  <2>2. 1 + k \in Nat
    BY NType
  <2>3. WarmAt(1 + k, B[k])
    <3>1. CASE B[k].op = "clear" /\ k = 2 * B[k].ppe - 1
      <4>1. 1 + k = 2 * B[k].ppe
        BY <1>0, <2>1, <3>1
      <4> QED BY <1>3, <3>1, <4>1 DEF WarmAt
    <3>2. CASE B[k].op = "hw_init" /\ k = 2 * B[k].ppe
      <4>1. 1 + k = 2 * B[k].ppe + 1
        BY <1>0, <2>1, <3>2
      <4> QED BY <1>3, <3>2, <4>1 DEF WarmAt
    <3> QED BY <1>3, <3>1, <3>2
  <2> QED BY <2>1, <2>2, <2>3 DEF L, Warming
<1>8. Fits(C, (1 + 2 * N), L)
  <2> SUFFICES ASSUME NEW k \in 1 .. 1 PROVE <<(1 + 2 * N) + k, C[k]>> \in L
    BY <1>5 DEF Fits
  <2>1. k = 1
    OBVIOUS
  <2>2. C[k] \in Instr
    <3>1. k \in 1 .. Len(C)
      BY <1>5
    <3> QED BY <1>5, <3>1, StepOf
  <2>3. (1 + 2 * N) + k \in Nat
    BY NType
  <2>4. WarmAt((1 + 2 * N) + k, C[k])
    <3>1. CASE k = 1
      <4>1. (1 + 2 * N) + 1 = 2 + 2 * N
        BY <1>0
      <4> QED BY <1>2, <3>1, <4>1 DEF WarmAt
    <3> QED BY <2>1, <3>1
  <2> QED BY <2>2, <2>3, <2>4 DEF L, Warming
<1>9. AB \in Seq(Instr) /\ Len(AB) = 1 + 2 * N /\ Fits(AB, 0, L)
  <2>1. Joined(A, B, AB)
    BY <1>5, <1>3, Join
  <2> HIDE DEF AB
  <2>2. 0 + Len(A) = 1
    BY <1>0, <1>5
  <2>3. Fits(B, 0 + Len(A), L)
    BY <1>7, <2>2
  <2>4. AB \in Seq(Instr) /\ Len(AB) = Len(A) + Len(B) /\ Fits(AB, 0, L)
    BY <1>0, <1>5, <1>6, <1>3, <2>1, <2>3, JoinFits
  <2>5. Len(A) + Len(B) = 1 + 2 * N
    BY <1>0, <1>5, <1>3
  <2> QED BY <2>4, <2>5
<1> HIDE DEF AB
<1>10. WarmInit \in Seq(Instr) /\ Len(WarmInit) = 2 + 2 * N /\ Fits(WarmInit, 0, L)
  <2>1. Joined(AB, C, WarmInit)
    BY <1>9, <1>5, Join, <1>4
  <2>2. 0 + Len(AB) = (1 + 2 * N)
    BY <1>0, <1>9
  <2>3. Fits(C, 0 + Len(AB), L)
    BY <1>8, <2>2
  <2>4. WarmInit \in Seq(Instr) /\ Len(WarmInit) = Len(AB) + Len(C) /\ Fits(WarmInit, 0, L)
    BY <1>0, <1>9, <1>9, <1>5, <2>1, <2>3, JoinFits
  <2>5. Len(AB) + Len(C) = 2 + 2 * N
    BY <1>0, <1>9, <1>5
  <2> QED BY <2>4, <2>5
<1> QED BY <1>10 DEF L

(* hnat_remove                                                              *)
RemoveAt(k, i) ==
  \/ k = 1 /\ i.op = "roam_off"
  \/ k = 2 /\ i.op = "teardown_off"
  \/ k = 3 /\ i.op = "netdev_off"
  \/ k = 4 /\ i.op = "netevent_off"
  \/ DisableAt(4, k, i)
  \/ k = 9 + 2 * N /\ i.op = "mcast_off"
  \/ i.op = "sweep" /\ i.ppe \in Ppes /\ k = 3 * i.ppe + 7 + 2 * N
  \/ i.op = "off" /\ i.ppe \in Ppes /\ k = 3 * i.ppe + 8 + 2 * N
  \/ i.op = "free" /\ i.ppe \in Ppes /\ k = 3 * i.ppe + 9 + 2 * N
  \/ k = 10 + 5 * N /\ i.op = "ports_off"
  \/ k = 11 + 5 * N /\ i.op = "debugfs_off"
  \/ k = 12 + 5 * N /\ i.op = "release"
  \/ k = 13 + 5 * N /\ i.op = "timers_off"
  \/ k = 14 + 5 * N /\ i.op = "devres"

Removing == {w \in Nat \X Instr : RemoveAt(w[1], w[2])}

LEMMA RemoveCode ==
  Remove \in Seq(Instr) /\ Len(Remove) = 14 + 5 * N /\ Fits(Remove, 0, Removing)
<1> DEFINE A == Once(<<"roam_off", "teardown_off", "netdev_off", "netevent_off">>)
           B == Disable
           C == Once(<<"mcast_off">>)
           D == EachPpe(StopSteps)
           E == Once(<<"ports_off", "debugfs_off", "release", "timers_off", "devres">>)
           AB == A \o B
           ABC == AB \o C
           ABCD == ABC \o D
<1>0. N \in Nat \ {0} /\ 0 \in 0 .. N /\ 2 * N \in Nat /\ 3 * N \in Nat /\ 0 \in Nat
  BY NType
<1>1. A = <<[op |-> "roam_off", ppe |-> 0], [op |-> "teardown_off", ppe |-> 0],
            [op |-> "netdev_off", ppe |-> 0], [op |-> "netevent_off", ppe |-> 0]>>
  BY DEF Once
<1>2. C = <<[op |-> "mcast_off", ppe |-> 0]>>
  BY DEF Once
<1>3. E = <<[op |-> "ports_off", ppe |-> 0], [op |-> "debugfs_off", ppe |-> 0],
            [op |-> "release", ppe |-> 0], [op |-> "timers_off", ppe |-> 0],
            [op |-> "devres", ppe |-> 0]>>
  BY DEF Once
<1>4. B \in Seq(Instr) /\ Len(B) = 4 + 2 * N /\ Fits(B, 4, Disabling(4))
  <2>1. 4 \in Nat
    BY NType
  <2> QED BY <2>1, DisableCode
<1>5. /\ D \in Seq(Instr) /\ Len(D) = 3 * N
      /\ \A k \in 1 .. 3 * N : /\ D[k].ppe \in Ppes
                               /\ \/ D[k].op = "sweep" /\ k = 3 * D[k].ppe - 2
                                  \/ D[k].op = "off" /\ k = 3 * D[k].ppe - 1
                                  \/ D[k].op = "free" /\ k = 3 * D[k].ppe
  <2>1. "sweep" \in Ops /\ "off" \in Ops /\ "free" \in Ops
    BY DEF Ops
  <2> QED BY <2>1, EachThree DEF StopSteps
<1>6. Remove = ABCD \o E
  BY DEF Remove
<1> HIDE DEF A, B, C, D, E
<1>7. A \in Seq(Instr) /\ Len(A) = 4 /\ C \in Seq(Instr) /\ Len(C) = 1 /\ E \in Seq(Instr) /\ Len(E) = 5
  BY <1>0, <1>1, <1>2, <1>3 DEF Instr, Ops
<1> DEFINE L == Removing
<1> HIDE DEF L
<1>8. Fits(A, 0, L)
  <2> SUFFICES ASSUME NEW k \in 1 .. 4 PROVE <<0 + k, A[k]>> \in L
    BY <1>7 DEF Fits
  <2>1. k = 1 \/ k = 2 \/ k = 3 \/ k = 4
    OBVIOUS
  <2>2. A[k] \in Instr
    <3>1. k \in 1 .. Len(A)
      BY <1>7
    <3> QED BY <1>7, <3>1, StepOf
  <2>3. 0 + k \in Nat
    BY NType
  <2>4. RemoveAt(0 + k, A[k])
    <3>1. CASE k = 1
      <4>1. 0 + 1 = 1
        BY <1>0
      <4> QED BY <1>1, <3>1, <4>1 DEF RemoveAt
    <3>2. CASE k = 2
      <4>1. 0 + 2 = 2
        BY <1>0
      <4> QED BY <1>1, <3>2, <4>1 DEF RemoveAt
    <3>3. CASE k = 3
      <4>1. 0 + 3 = 3
        BY <1>0
      <4> QED BY <1>1, <3>3, <4>1 DEF RemoveAt
    <3>4. CASE k = 4
      <4>1. 0 + 4 = 4
        BY <1>0
      <4> QED BY <1>1, <3>4, <4>1 DEF RemoveAt
    <3> QED BY <2>1, <3>1, <3>2, <3>3, <3>4
  <2> QED BY <2>2, <2>3, <2>4 DEF L, Removing
<1>9. Fits(B, 4, L)
  <2> SUFFICES ASSUME NEW k \in 1 .. 4 + 2 * N PROVE <<4 + k, B[k]>> \in L
    BY <1>4 DEF Fits
  <2>1. <<4 + k, B[k]>> \in Disabling(4)
    BY <1>4 DEF Fits
  <2> DEFINE n == 4 + k
                i == B[k]
  <2> HIDE DEF n, i
  <2>2. n \in Nat /\ i \in Instr /\ DisableAt(4, n, i)
    BY <2>1 DEF n, i, Disabling
  <2>3. RemoveAt(n, i)
    BY <2>2 DEF RemoveAt
  <2> QED BY <2>2, <2>3 DEF n, i, L, Removing
<1>10. Fits(C, (8 + 2 * N), L)
  <2> SUFFICES ASSUME NEW k \in 1 .. 1 PROVE <<(8 + 2 * N) + k, C[k]>> \in L
    BY <1>7 DEF Fits
  <2>1. k = 1
    OBVIOUS
  <2>2. C[k] \in Instr
    <3>1. k \in 1 .. Len(C)
      BY <1>7
    <3> QED BY <1>7, <3>1, StepOf
  <2>3. (8 + 2 * N) + k \in Nat
    BY NType
  <2>4. RemoveAt((8 + 2 * N) + k, C[k])
    <3>1. CASE k = 1
      <4>1. (8 + 2 * N) + 1 = 9 + 2 * N
        BY <1>0
      <4> QED BY <1>2, <3>1, <4>1 DEF RemoveAt
    <3> QED BY <2>1, <3>1
  <2> QED BY <2>2, <2>3, <2>4 DEF L, Removing
<1>11. Fits(D, (9 + 2 * N), L)
  <2> SUFFICES ASSUME NEW k \in 1 .. 3 * N PROVE <<(9 + 2 * N) + k, D[k]>> \in L
    BY <1>5 DEF Fits
  <2>1. D[k] \in Instr /\ D[k].ppe \in Nat
    <3>1. k \in 1 .. Len(D) /\ D[k].ppe \in Ppes
      BY <1>5
    <3> QED BY <1>0, <1>5, <3>1, StepOf DEF Ppes, N
  <2>2. (9 + 2 * N) + k \in Nat
    BY NType
  <2>3. RemoveAt((9 + 2 * N) + k, D[k])
    <3>1. CASE D[k].op = "sweep" /\ k = 3 * D[k].ppe - 2
      <4>1. (9 + 2 * N) + k = 3 * D[k].ppe + 7 + 2 * N
        BY <1>0, <2>1, <3>1
      <4> QED BY <1>5, <3>1, <4>1 DEF RemoveAt
    <3>2. CASE D[k].op = "off" /\ k = 3 * D[k].ppe - 1
      <4>1. (9 + 2 * N) + k = 3 * D[k].ppe + 8 + 2 * N
        BY <1>0, <2>1, <3>2
      <4> QED BY <1>5, <3>2, <4>1 DEF RemoveAt
    <3>3. CASE D[k].op = "free" /\ k = 3 * D[k].ppe
      <4>1. (9 + 2 * N) + k = 3 * D[k].ppe + 9 + 2 * N
        BY <1>0, <2>1, <3>3
      <4> QED BY <1>5, <3>3, <4>1 DEF RemoveAt
    <3> QED BY <1>5, <3>1, <3>2, <3>3
  <2> QED BY <2>1, <2>2, <2>3 DEF L, Removing
<1>12. Fits(E, (9 + 5 * N), L)
  <2> SUFFICES ASSUME NEW k \in 1 .. 5 PROVE <<(9 + 5 * N) + k, E[k]>> \in L
    BY <1>7 DEF Fits
  <2>1. k = 1 \/ k = 2 \/ k = 3 \/ k = 4 \/ k = 5
    OBVIOUS
  <2>2. E[k] \in Instr
    <3>1. k \in 1 .. Len(E)
      BY <1>7
    <3> QED BY <1>7, <3>1, StepOf
  <2>3. (9 + 5 * N) + k \in Nat
    BY NType
  <2>4. RemoveAt((9 + 5 * N) + k, E[k])
    <3>1. CASE k = 1
      <4>1. (9 + 5 * N) + 1 = 10 + 5 * N
        BY <1>0
      <4> QED BY <1>3, <3>1, <4>1 DEF RemoveAt
    <3>2. CASE k = 2
      <4>1. (9 + 5 * N) + 2 = 11 + 5 * N
        BY <1>0
      <4> QED BY <1>3, <3>2, <4>1 DEF RemoveAt
    <3>3. CASE k = 3
      <4>1. (9 + 5 * N) + 3 = 12 + 5 * N
        BY <1>0
      <4> QED BY <1>3, <3>3, <4>1 DEF RemoveAt
    <3>4. CASE k = 4
      <4>1. (9 + 5 * N) + 4 = 13 + 5 * N
        BY <1>0
      <4> QED BY <1>3, <3>4, <4>1 DEF RemoveAt
    <3>5. CASE k = 5
      <4>1. (9 + 5 * N) + 5 = 14 + 5 * N
        BY <1>0
      <4> QED BY <1>3, <3>5, <4>1 DEF RemoveAt
    <3> QED BY <2>1, <3>1, <3>2, <3>3, <3>4, <3>5
  <2> QED BY <2>2, <2>3, <2>4 DEF L, Removing
<1>13. AB \in Seq(Instr) /\ Len(AB) = 8 + 2 * N /\ Fits(AB, 0, L)
  <2>1. Joined(A, B, AB)
    BY <1>7, <1>4, Join
  <2> HIDE DEF AB
  <2>2. 0 + Len(A) = 4
    BY <1>0, <1>7
  <2>3. Fits(B, 0 + Len(A), L)
    BY <1>9, <2>2
  <2>4. AB \in Seq(Instr) /\ Len(AB) = Len(A) + Len(B) /\ Fits(AB, 0, L)
    BY <1>0, <1>7, <1>8, <1>4, <2>1, <2>3, JoinFits
  <2>5. Len(A) + Len(B) = 8 + 2 * N
    BY <1>0, <1>7, <1>4
  <2> QED BY <2>4, <2>5
<1> HIDE DEF AB
<1>14. ABC \in Seq(Instr) /\ Len(ABC) = 9 + 2 * N /\ Fits(ABC, 0, L)
  <2>1. Joined(AB, C, ABC)
    BY <1>13, <1>7, Join
  <2> HIDE DEF ABC
  <2>2. 0 + Len(AB) = (8 + 2 * N)
    BY <1>0, <1>13
  <2>3. Fits(C, 0 + Len(AB), L)
    BY <1>10, <2>2
  <2>4. ABC \in Seq(Instr) /\ Len(ABC) = Len(AB) + Len(C) /\ Fits(ABC, 0, L)
    BY <1>0, <1>13, <1>13, <1>7, <2>1, <2>3, JoinFits
  <2>5. Len(AB) + Len(C) = 9 + 2 * N
    BY <1>0, <1>13, <1>7
  <2> QED BY <2>4, <2>5
<1> HIDE DEF ABC
<1>15. ABCD \in Seq(Instr) /\ Len(ABCD) = 9 + 5 * N /\ Fits(ABCD, 0, L)
  <2>1. Joined(ABC, D, ABCD)
    BY <1>14, <1>5, Join
  <2> HIDE DEF ABCD
  <2>2. 0 + Len(ABC) = (9 + 2 * N)
    BY <1>0, <1>14
  <2>3. Fits(D, 0 + Len(ABC), L)
    BY <1>11, <2>2
  <2>4. ABCD \in Seq(Instr) /\ Len(ABCD) = Len(ABC) + Len(D) /\ Fits(ABCD, 0, L)
    BY <1>0, <1>14, <1>14, <1>5, <2>1, <2>3, JoinFits
  <2>5. Len(ABC) + Len(D) = 9 + 5 * N
    BY <1>0, <1>14, <1>5
  <2> QED BY <2>4, <2>5
<1> HIDE DEF ABCD
<1>16. Remove \in Seq(Instr) /\ Len(Remove) = 14 + 5 * N /\ Fits(Remove, 0, L)
  <2>1. Joined(ABCD, E, Remove)
    BY <1>15, <1>7, Join, <1>6
  <2>2. 0 + Len(ABCD) = (9 + 5 * N)
    BY <1>0, <1>15
  <2>3. Fits(E, 0 + Len(ABCD), L)
    BY <1>12, <2>2
  <2>4. Remove \in Seq(Instr) /\ Len(Remove) = Len(ABCD) + Len(E) /\ Fits(Remove, 0, L)
    BY <1>0, <1>15, <1>15, <1>7, <2>1, <2>3, JoinFits
  <2>5. Len(ABCD) + Len(E) = 14 + 5 * N
    BY <1>0, <1>15, <1>7
  <2> QED BY <2>4, <2>5
<1> QED BY <1>16 DEF L

-------------------------------------------------------------------------------
(***************************************************************************)
(* Where an actor is, and what a step does to what the invariants speak    *)
(* of.                                                                     *)
(***************************************************************************)
Programs == {"none", "probe", "remove", "enable", "disable", "warm", "err_out", "err_out1", "err_out2"}

ProgramsOf(a) ==
  IF a = "admin" THEN {"probe", "remove", "err_out", "err_out1", "err_out2"}
  ELSE IF a = "event" THEN {"warm"} ELSE {"enable", "disable"}

LastStep ==
  [probe |-> 16 + 3 * N, remove |-> 14 + 5 * N, enable |-> 3, disable |-> 4 + 2 * N,
   warm |-> 2 + 2 * N, err_out |-> 4 + 3 * N, err_out1 |-> 4, err_out2 |-> 2]

InProgram(l, progs) == l.prog \in progs /\ l.pc \in 1 .. LastStep[l.prog]

AtOK ==
  /\ at \in [Actors -> [prog : Programs, pc : Nat]]
  /\ \A a \in Actors : at[a] = Idle \/ InProgram(at[a], ProgramsOf(a))

EnableAt(k, i) ==
  \/ k = 1 /\ i.op = "ra_on"
  \/ k = 2 /\ i.op = "nf_on"
  \/ k = 3 /\ i.op = "del_on"

ErrOut1At(k, i) ==
  \/ k = 1 /\ i.op = "debugfs_off"
  \/ k = 2 /\ i.op = "ext_free"
  \/ k = 3 /\ i.op = "ports_off"
  \/ k = 4 /\ i.op = "devres"

ErrOut2At(k, i) ==
  \/ k = 1 /\ i.op = "ports_off"
  \/ k = 2 /\ i.op = "devres"

Domains ==
  /\ nf \in Nat /\ DOMAIN mem = Ppes /\ DOMAIN bound = Ppes
  /\ sma \in [Ppes -> {"build", "fwd"}] /\ raced \in BOOLEAN

(* The instruction of a program at its step k.                              *)
Does(prog, k, i) ==
  \/ prog = "probe" /\ ProbeAt(k, i)
  \/ prog = "remove" /\ RemoveAt(k, i)
  \/ prog = "enable" /\ EnableAt(k, i)
  \/ prog = "disable" /\ DisableAt(0, k, i)
  \/ prog = "warm" /\ WarmAt(k, i)
  \/ prog = "err_out" /\ ErrOutAt(k, i)
  \/ prog = "err_out1" /\ ErrOut1At(k, i)
  \/ prog = "err_out2" /\ ErrOut2At(k, i)

(* What an instruction adds, and takes away.                                *)
Plus(i, x) ==
  \/ i.op = "alloc" /\ x = "priv"
  \/ i.op = "debugfs_on" /\ x = "debugfs"
  \/ i.op = "ra_on" /\ x = "ra"
  \/ i.op = "del_on" /\ x \in {"del", "hook_toggle"}
  \/ i.op = "netdev_on" /\ x = "netdev_nb"
  \/ i.op = "netevent_on" /\ x = "netevent_nb"
  \/ i.op = "teardown_on" /\ x = "ready"

Minus(i, x) ==
  \/ i.op = "devres" /\ x = "priv"
  \/ i.op = "debugfs_off" /\ x = "debugfs"
  \/ i.op = "ra_off" /\ x = "ra"
  \/ i.op = "del_off" /\ x \in {"del", "hook_toggle"}
  \/ i.op = "netdev_off" /\ x = "netdev_nb"
  \/ i.op = "netevent_off" /\ x = "netevent_nb"
  \/ i.op = "teardown_off" /\ x = "ready"

Flags == {"priv", "debugfs", "ra", "del", "hook_toggle", "netdev_nb", "netevent_nb", "ready"}

Effect(i, h, n, m, h2, n2, m2) ==
  /\ \A x \in Flags : x \in h2 <=> Plus(i, x) \/ (x \in h /\ ~Minus(i, x))
  /\ n2 = IF i.op = "nf_on" THEN n + 1 ELSE IF i.op = "nf_off" /\ n # 0 THEN n - 1 ELSE n
  /\ \A e \in Ppes :
       "table" \in m2[e] <=> \/ i.op = "table" /\ i.ppe = e
                             \/ "table" \in m[e] /\ ~(i.op = "free" /\ i.ppe = e)
-------------------------------------------------------------------------------
(***************************************************************************)
(* The life of the driver, as long as nothing raced.                       *)
(***************************************************************************)
Tabled(m) == \A e \in Ppes : "table" \in m[e]

Bare(h, n) == n = 0 /\ {"del", "hook_toggle", "netdev_nb", "netevent_nb"} \cap h = {}

(* Nobody probes, removes or switches.                                      *)
Quiescent(h, n, m) ==
  IF "ready" \in h
  THEN /\ Tabled(m) /\ n \in {0, 1}
       /\ "hook_toggle" \in h <=> n = 1
       /\ "del" \in h <=> n = 1
  ELSE Bare(h, n) /\ "debugfs" \notin h

(* An actor is at l.                                                        *)
Phase(l, h, n, m) ==
  \/ /\ l.prog = "probe"
     /\ n = IF l.pc <= 9 + 3 * N THEN 0 ELSE 1
     /\ "del" \in h <=> l.pc > 10 + 3 * N
     /\ "hook_toggle" \in h <=> l.pc > 10 + 3 * N
     /\ {"netdev_nb", "netevent_nb"} \cap h # {} => l.pc > 11 + 3 * N
     /\ "debugfs" \in h => l.pc > 5
     /\ \A e \in Ppes : l.pc > 3 * e + 4 => "table" \in m[e]
  \/ /\ l.prog = "err_out" /\ Bare(h, n)
     /\ "debugfs" \in h => l.pc <= 1 + 3 * N
  \/ /\ l.prog = "err_out1" /\ Bare(h, n)
     /\ "debugfs" \in h => l.pc <= 1
  \/ /\ l.prog = "err_out2" /\ Bare(h, n) /\ "debugfs" \notin h
  \/ /\ l.prog = "remove"
     /\ n \in {0, 1} /\ (n = 1 => l.pc <= 6)
     /\ {"del", "hook_toggle"} \cap h # {} => l.pc <= 8 + 2 * N
     /\ "netdev_nb" \in h => l.pc <= 3
     /\ "netevent_nb" \in h => l.pc <= 4
     /\ "debugfs" \in h => l.pc <= 11 + 5 * N
     /\ l.pc <= 9 + 2 * N => Tabled(m)
  \/ /\ l.prog = "enable" /\ "ready" \in h /\ Tabled(m)
     /\ n = IF l.pc <= 2 THEN 0 ELSE 1
     /\ {"del", "hook_toggle"} \cap h = {}
  \/ /\ l.prog = "disable" /\ "ready" \in h /\ Tabled(m)
     /\ n = IF l.pc <= 2 THEN 1 ELSE 0
     /\ {"del", "hook_toggle"} \subseteq h

(* What only the administrator and the event actor change.                  *)
AdminInv ==
  /\ "ready" \in has => "priv" \in has
  /\ at["admin"].prog \in {"probe", "err_out", "err_out1", "err_out2"} => "ready" \notin has
  /\ at["admin"].prog = "probe" /\ at["admin"].pc > 1 => "priv" \in has
  /\ at["admin"].prog = "remove" /\ at["admin"].pc > 2 => "ready" \notin has
  /\ at["event"] # Idle => "netdev_nb" \in has

OneAtATime == \A a, b \in Actors : Switching(a) /\ Switching(b) => a = b

OneInv == ~raced => OneAtATime

LifeInv ==
  ~raced =>
    /\ \A a \in Actors : Switching(a) => Phase(at[a], has, nf, mem)
    /\ Quiet => Quiescent(has, nf, mem)

(* A program that has yet to delete what engine e has bound.                *)
Unswept(e) ==
  \E a \in Actors : \/ at[a].prog = "disable" /\ at[a].pc <= 2 + 2 * e
                    \/ at[a].prog = "remove" /\ at[a].pc <= 6 + 2 * e

SweptInv ==
  ~Hooked => \A e \in Ppes : bound[e] # None => bound[e].late \/ Unswept(e)

(* A write that switched an engine off and has yet to arm the timer.         *)
Forwarding == \E w \in Writers : at[w].prog = "disable" /\ at[w].pc <= 3 + 2 * N

(* The timer will have engine e build entries, or was armed too early.       *)
Waiting(e) == sma[e] = "fwd" => timer = "armed" \/ "timer" \in lost

SmaInv ==
  /\ ~raced /\ "ready" \in has /\ ~Forwarding => \A e \in Ppes : Waiting(e)
  /\ ~raced /\ at["admin"].prog = "probe" =>
       \A e \in Ppes : at["admin"].pc > 3 * e + 6 => Waiting(e)

(* The timer is set up from a step of probe to a step of removal.            *)
TimerInv ==
  timer # "unset" =>
    /\ "priv" \in has
    /\ at["admin"].prog = "probe" => at["admin"].pc > 14 + 3 * N
    /\ at["admin"].prog = "remove" => at["admin"].pc <= 13 + 5 * N
    /\ at["admin"].prog \notin {"err_out", "err_out1", "err_out2"}

(* The WiFi driver's hooks, but for those that a failed probe left, are set  *)
(* after the tables are there and go before them.                            *)
WifiInv ==
  ~raced /\ "ra" \in has /\ "hooks" \notin lost =>
    \/ "ready" \in has
    \/ at["admin"].prog = "probe" /\ at["admin"].pc > 8 + 3 * N
    \/ at["admin"].prog = "remove" /\ at["admin"].pc <= 5
-------------------------------------------------------------------------------
(***************************************************************************)
(* Steps.                                                                  *)
(***************************************************************************)
LEMMA Actor ==
  /\ "admin" \in Actors /\ "event" \in Actors /\ \A w \in Writers : w \in Actors /\ w # "admin" /\ w # "event"
  /\ \A a \in Actors : ProgramsOf(a) \subseteq Programs \ {"none"}
BY ControlAssumption DEF Actors, ProgramsOf, Programs

LEMMA Lengths ==
  /\ Enable \in Seq(Instr) /\ Len(Enable) = 3 /\ \A k \in 1 .. 3 : EnableAt(k, Enable[k])
  /\ ErrOut1 \in Seq(Instr) /\ Len(ErrOut1) = 4 /\ \A k \in 1 .. 4 : ErrOut1At(k, ErrOut1[k])
  /\ ErrOut2 \in Seq(Instr) /\ Len(ErrOut2) = 2 /\ \A k \in 1 .. 2 : ErrOut2At(k, ErrOut2[k])
<1>0. 0 \in 0 .. N
  BY NType
<1>1. Enable = <<[op |-> "ra_on", ppe |-> 0], [op |-> "nf_on", ppe |-> 0], [op |-> "del_on", ppe |-> 0]>>
  BY DEF Enable, Once
<1>2. Enable \in Seq(Instr) /\ Len(Enable) = 3
  BY <1>0, <1>1 DEF Instr, Ops
<1>3. ErrOut1 \in Seq(Instr) /\ Len(ErrOut1) = 4
  BY <1>0, ErrOut1Is DEF Instr, Ops
<1>4. ErrOut2 \in Seq(Instr) /\ Len(ErrOut2) = 2
  BY <1>0, ErrOut1Is DEF Instr, Ops
<1>5. \A k \in 1 .. 3 : EnableAt(k, Enable[k])
  <2> SUFFICES ASSUME NEW k \in 1 .. 3 PROVE EnableAt(k, Enable[k])
    OBVIOUS
  <2>1. k = 1 \/ k = 2 \/ k = 3
    OBVIOUS
  <2> QED BY <1>1, <2>1 DEF EnableAt
<1>6. \A k \in 1 .. 4 : ErrOut1At(k, ErrOut1[k])
  <2> SUFFICES ASSUME NEW k \in 1 .. 4 PROVE ErrOut1At(k, ErrOut1[k])
    OBVIOUS
  <2>1. k = 1 \/ k = 2 \/ k = 3 \/ k = 4
    OBVIOUS
  <2> QED BY <2>1, ErrOut1Is DEF ErrOut1At
<1>7. \A k \in 1 .. 2 : ErrOut2At(k, ErrOut2[k])
  <2> SUFFICES ASSUME NEW k \in 1 .. 2 PROVE ErrOut2At(k, ErrOut2[k])
    OBVIOUS
  <2>1. k = 1 \/ k = 2
    OBVIOUS
  <2> QED BY <2>1, ErrOut1Is DEF ErrOut2At
<1> QED BY <1>2, <1>3, <1>4, <1>5, <1>6, <1>7

LEMMA CodeIs ==
  ASSUME NEW p \in Programs \ {"none"}
  PROVE  /\ Code(p) \in Seq(Instr) /\ Len(Code(p)) = LastStep[p] /\ LastStep[p] \in Nat
         /\ \A k \in 1 .. LastStep[p] : Does(p, k, Code(p)[k])
<1>0. N \in Nat /\ 2 * N \in Nat /\ 3 * N \in Nat /\ 5 * N \in Nat /\ 0 \in Nat /\ 4 \in Nat
  BY NType
<1>1. CASE p = "probe"
  <2>1. Code(p) = Probe /\ LastStep[p] = 16 + 3 * N
    BY <1>1 DEF Code, LastStep
  <2>2. ASSUME NEW k \in 1 .. 16 + 3 * N PROVE Does(p, k, Probe[k])
    <3>1. <<0 + k, Probe[k]>> \in Probing
      BY <2>2, ProbeCode DEF Fits
    <3>2. 0 + k = k
      BY <1>0
    <3> DEFINE i == Probe[k]
    <3> HIDE DEF i
    <3>3. ProbeAt(k, i)
      BY <3>1, <3>2 DEF Probing, i
    <3> QED BY <1>1, <3>3 DEF Does, i
  <2> QED BY <1>0, <2>1, <2>2, ProbeCode
<1>2. CASE p = "remove"
  <2>1. Code(p) = Remove /\ LastStep[p] = 14 + 5 * N
    BY <1>2 DEF Code, LastStep
  <2>2. ASSUME NEW k \in 1 .. 14 + 5 * N PROVE Does(p, k, Remove[k])
    <3>1. <<0 + k, Remove[k]>> \in Removing
      BY <2>2, RemoveCode DEF Fits
    <3>2. 0 + k = k
      BY <1>0
    <3> DEFINE i == Remove[k]
    <3> HIDE DEF i
    <3>3. RemoveAt(k, i)
      BY <3>1, <3>2 DEF Removing, i
    <3> QED BY <1>2, <3>3 DEF Does, i
  <2> QED BY <1>0, <2>1, <2>2, RemoveCode
<1>3. CASE p = "enable"
  <2>1. Code(p) = Enable /\ LastStep[p] = 3
    BY <1>3 DEF Code, LastStep
  <2> QED BY <1>3, <2>1, Lengths DEF Does
<1>4. CASE p = "disable"
  <2>1. Code(p) = Disable /\ LastStep[p] = 4 + 2 * N
    BY <1>4 DEF Code, LastStep
  <2>0. Disable \in Seq(Instr) /\ Len(Disable) = 4 + 2 * N /\ Fits(Disable, 0, Disabling(0))
    BY <1>0, DisableCode
  <2>2. ASSUME NEW k \in 1 .. 4 + 2 * N PROVE Does(p, k, Disable[k])
    <3>1. <<0 + k, Disable[k]>> \in Disabling(0)
      BY <2>0, <2>2 DEF Fits
    <3>2. 0 + k = k
      BY <1>0
    <3> DEFINE i == Disable[k]
    <3> HIDE DEF i
    <3>3. DisableAt(0, k, i)
      BY <3>1, <3>2 DEF Disabling, i
    <3> QED BY <1>4, <3>3 DEF Does, i
  <2> QED BY <1>0, <2>0, <2>1, <2>2
<1>5. CASE p = "warm"
  <2>1. Code(p) = WarmInit /\ LastStep[p] = 2 + 2 * N
    BY <1>5 DEF Code, LastStep
  <2>2. ASSUME NEW k \in 1 .. 2 + 2 * N PROVE Does(p, k, WarmInit[k])
    <3>1. <<0 + k, WarmInit[k]>> \in Warming
      BY <2>2, WarmCode DEF Fits
    <3>2. 0 + k = k
      BY <1>0
    <3> DEFINE i == WarmInit[k]
    <3> HIDE DEF i
    <3>3. WarmAt(k, i)
      BY <3>1, <3>2 DEF Warming, i
    <3> QED BY <1>5, <3>3 DEF Does, i
  <2> QED BY <1>0, <2>1, <2>2, WarmCode
<1>6. CASE p = "err_out"
  <2>1. Code(p) = ErrOut /\ LastStep[p] = 4 + 3 * N
    BY <1>6 DEF Code, LastStep
  <2>2. ASSUME NEW k \in 1 .. 4 + 3 * N PROVE Does(p, k, ErrOut[k])
    <3>1. <<0 + k, ErrOut[k]>> \in ErringOut
      BY <2>2, ErrOutCode DEF Fits
    <3>2. 0 + k = k
      BY <1>0
    <3> DEFINE i == ErrOut[k]
    <3> HIDE DEF i
    <3>3. ErrOutAt(k, i)
      BY <3>1, <3>2 DEF ErringOut, i
    <3> QED BY <1>6, <3>3 DEF Does, i
  <2> QED BY <1>0, <2>1, <2>2, ErrOutCode
<1>7. CASE p = "err_out1"
  <2>1. Code(p) = ErrOut1 /\ LastStep[p] = 4
    BY <1>7 DEF Code, LastStep
  <2> QED BY <1>7, <2>1, Lengths DEF Does
<1>8. CASE p = "err_out2"
  <2>1. Code(p) = ErrOut2 /\ LastStep[p] = 2
    BY <1>8 DEF Code, LastStep
  <2> QED BY <1>8, <2>1, Lengths DEF Does
<1> QED BY <1>1, <1>2, <1>3, <1>4, <1>5, <1>6, <1>7, <1>8 DEF Programs

(* Where the step an actor is at stands.                                     *)
LEMMA StepAt ==
  ASSUME AtOK, NEW a \in Actors, at[a] # Idle
  PROVE  /\ at[a].prog \in ProgramsOf(a) /\ at[a].prog \in Programs \ {"none"}
         /\ at[a].pc \in 1 .. LastStep[at[a].prog] /\ LastStep[at[a].prog] \in Nat
         /\ Code(at[a].prog)[at[a].pc] \in Instr
         /\ Does(at[a].prog, at[a].pc, Code(at[a].prog)[at[a].pc])
         /\ Len(Code(at[a].prog)) = LastStep[at[a].prog]
<1>1. InProgram(at[a], ProgramsOf(a))
  BY DEF AtOK
<1>2. at[a].prog \in ProgramsOf(a) /\ at[a].pc \in 1 .. LastStep[at[a].prog]
  BY <1>1 DEF InProgram
<1>3. at[a].prog \in Programs \ {"none"}
  BY <1>2, Actor
<1>4. PICK p \in Programs \ {"none"} : p = at[a].prog
  BY <1>3
<1>5. /\ Code(p) \in Seq(Instr) /\ Len(Code(p)) = LastStep[p] /\ LastStep[p] \in Nat
      /\ \A k \in 1 .. LastStep[p] : Does(p, k, Code(p)[k])
  BY CodeIs
<1>6. PICK k \in 1 .. LastStep[p] : k = at[a].pc
  BY <1>2, <1>4
<1>7. Code(p)[k] \in Instr
  BY <1>5, <1>6, StepOf
<1> QED BY <1>2, <1>3, <1>4, <1>5, <1>6, <1>7

Instruction(a) == Code(at[a].prog)[at[a].pc]

LEMMA AdvanceIs ==
  ASSUME AtOK, NEW a \in Actors, at[a] # Idle, Advance(a)
  PROVE  /\ AtOK'
         /\ \A b \in Actors \ {a} : at'[b] = at[b]
         /\ \/ at'[a] = Idle /\ at[a].pc = LastStep[at[a].prog]
            \/ /\ at'[a] # Idle /\ at'[a].prog = at[a].prog /\ at'[a].pc = at[a].pc + 1
               /\ at[a].pc < LastStep[at[a].prog]
<1> DEFINE l == at[a]
           l2 == Next1(a)
<1>1. /\ l.prog \in ProgramsOf(a) /\ l.prog \in Programs \ {"none"}
      /\ l.pc \in 1 .. LastStep[l.prog] /\ LastStep[l.prog] \in Nat
      /\ Len(Code(l.prog)) = LastStep[l.prog]
  BY StepAt
<1>2. at \in [Actors -> [prog : Programs, pc : Nat]] /\ l \in [prog : Programs, pc : Nat]
  BY DEF AtOK
<1>3. at' = [at EXCEPT ![a] = l2]
  BY DEF Advance
<1>4. Idle \in [prog : Programs, pc : Nat] /\ Idle.prog = "none"
  BY DEF Idle, Programs
<1>5. CASE l.pc = LastStep[l.prog]
  <2>1. l2 = Idle
    BY <1>1, <1>5 DEF Next1
  <2>2. at' \in [Actors -> [prog : Programs, pc : Nat]] /\ at'[a] = Idle /\ \A b \in Actors \ {a} : at'[b] = at[b]
    BY <1>2, <1>3, <1>4, <2>1
  <2>3. AtOK'
    BY <2>2 DEF AtOK
  <2> QED BY <1>5, <2>2, <2>3
<1>6. CASE l.pc # LastStep[l.prog]
  <2>1. l2 = [l EXCEPT !.pc = @ + 1]
    BY <1>1, <1>6 DEF Next1
  <2>2. l2 \in [prog : Programs, pc : Nat] /\ l2.prog = l.prog /\ l2.pc = l.pc + 1 /\ l.pc < LastStep[l.prog]
    BY <1>1, <1>2, <1>6, <2>1
  <2> HIDE DEF l2
  <2>3. at' \in [Actors -> [prog : Programs, pc : Nat]] /\ at'[a] = l2 /\ \A b \in Actors \ {a} : at'[b] = at[b]
    BY <1>2, <1>3, <2>2
  <2>4. InProgram(l2, ProgramsOf(a))
    BY <1>1, <2>2 DEF InProgram
  <2>5. AtOK'
    BY <2>3, <2>4 DEF AtOK
  <2>6. l2 # Idle
    BY <1>1, <1>4, <2>2
  <2> QED BY <2>2, <2>3, <2>5, <2>6
<1> QED BY <1>5, <1>6

LEMMA AddsIs ==
  ASSUME NEW i, i.op \in DOMAIN Adds
  PROVE  /\ \A x \in Flags : (x \in Adds[i.op] <=> Plus(i, x)) /\ ~Minus(i, x)
         /\ i.op \notin {"nf_on", "nf_off", "table", "free"}
<1>1. /\ Adds["alloc"] = {"priv"} /\ Adds["find_eth"] = {} /\ Adds["ioremap"] = {"fe"} /\ Adds["irq2"] = {"irq2"}
      /\ Adds["debugfs_on"] = {"debugfs"} /\ Adds["ports_on"] = {} /\ Adds["ra_on"] = {"ra", "ppe_dev"}
      /\ Adds["del_on"] = {"del", "hook_toggle"} /\ Adds["netevent_on"] = {"netevent_nb"}
      /\ Adds["mcast_on"] = {"mcast"} /\ Adds["teardown_on"] = {"teardown", "ready"}
  BY DEF Adds
<1>2. i.op \in {"alloc", "find_eth", "ioremap", "irq2", "debugfs_on", "ports_on", "ra_on", "del_on",
                "netevent_on", "mcast_on", "teardown_on"}
  BY DEF Adds
<1> HIDE DEF Adds
<1>3. i.op \notin {"nf_on", "nf_off", "table", "free"}
  BY <1>2
<1>4. ASSUME NEW x \in Flags PROVE (x \in Adds[i.op] <=> Plus(i, x)) /\ ~Minus(i, x)
  BY <1>1, <1>2, <1>4 DEF Plus, Minus, Flags
<1> QED BY <1>3, <1>4

LEMMA TakesIs ==
  ASSUME NEW i, i.op \in DOMAIN Takes
  PROVE  /\ \A x \in Flags : (x \in Takes[i.op] <=> Minus(i, x)) /\ ~Plus(i, x)
         /\ i.op \notin {"nf_on", "nf_off", "table", "free"}
<1>1. /\ Takes["ra_off"] = {"ra"} /\ Takes["del_off"] = {"del", "hook_toggle"}
      /\ Takes["netevent_off"] = {"netevent_nb"} /\ Takes["mcast_off"] = {"mcast"}
      /\ Takes["teardown_off"] = {"teardown", "ready"} /\ Takes["off"] = {} /\ Takes["ports_off"] = {}
  BY DEF Takes
<1>2. i.op \in {"ra_off", "del_off", "netevent_off", "mcast_off", "teardown_off", "off", "ports_off"}
  BY DEF Takes
<1> HIDE DEF Takes
<1>3. i.op \notin {"nf_on", "nf_off", "table", "free"}
  BY <1>2
<1>4. ASSUME NEW x \in Flags PROVE (x \in Takes[i.op] <=> Minus(i, x)) /\ ~Plus(i, x)
  BY <1>1, <1>2, <1>4 DEF Plus, Minus, Flags
<1> QED BY <1>3, <1>4

(* An instruction that registers nothing, and leaves hooks and tables.       *)
LEMMA NoEffect ==
  ASSUME NEW i, NEW h, NEW h2, NEW n, NEW m,
         i.op \in {"mib", "clear", "hw_init", "fwd", "sweep", "sma_timer", "timers_on", "timers_off",
                   "ext", "ext_free", "release", "roam_on", "roam_off"},
         \A x \in Flags : x \in h2 <=> x \in h
  PROVE  Effect(i, h, n, m, h2, n, m)
<1>1. \A x \in Flags : ~Plus(i, x) /\ ~Minus(i, x)
  BY DEF Plus, Minus
<1>2. i.op \notin {"nf_on", "nf_off", "table", "free"}
  OBVIOUS
<1> QED BY <1>1, <1>2 DEF Effect

LEMMA StepEffect ==
  ASSUME AtOK, Domains, NEW a \in Actors, Step(a)
  PROVE  /\ at[a] # Idle /\ Advance(a)
         /\ Effect(Instruction(a), has, nf, mem, has', nf', mem')
<1> DEFINE i == Instruction(a)
<1>0. Op(a) = i.op /\ Ppe(a) = i.ppe /\ \A o : Is(a, o) => at[a] # Idle /\ i.op = o
  BY DEF Op, Ppe, Is, Instruction
<1> HIDE DEF i
<1>1. CASE Install(a)
  <2>1. at[a] # Idle /\ i.op \in DOMAIN Adds /\ has' = has \cup Adds[i.op] /\ Advance(a)
        /\ nf' = nf /\ mem' = mem
    BY <1>0, <1>1 DEF Install, ppevars
  <2>2. /\ \A x \in Flags : (x \in Adds[i.op] <=> Plus(i, x)) /\ ~Minus(i, x)
        /\ i.op \notin {"nf_on", "nf_off", "table", "free"}
    BY <2>1, AddsIs
  <2>3. Effect(i, has, nf, mem, has', nf', mem')
    BY <2>1, <2>2 DEF Effect
  <2> QED BY <2>1, <2>3 DEF i
<1>2. CASE Uninstall(a)
  <2>1. at[a] # Idle /\ i.op \in DOMAIN Takes /\ has' = has \ Takes[i.op] /\ Advance(a)
        /\ nf' = nf /\ mem' = mem
    BY <1>0, <1>2 DEF Uninstall, ppevars
  <2>2. /\ \A x \in Flags : (x \in Takes[i.op] <=> Minus(i, x)) /\ ~Plus(i, x)
        /\ i.op \notin {"nf_on", "nf_off", "table", "free"}
    BY <2>1, TakesIs
  <2>3. Effect(i, has, nf, mem, has', nf', mem')
    BY <2>1, <2>2 DEF Effect
  <2> QED BY <2>1, <2>3 DEF i
<1>3. CASE NfHooks(a)
  <2>1. /\ at[a] # Idle /\ Advance(a) /\ has' = has /\ mem' = mem
        /\ \/ i.op = "nf_on" /\ nf' = nf + 1
           \/ i.op = "nf_off" /\ nf' = IF nf = 0 THEN 0 ELSE nf - 1
    BY <1>0, <1>3 DEF NfHooks, ppevars
  <2>2. \A x \in Flags : ~Plus(i, x) /\ ~Minus(i, x)
    BY <2>1 DEF Plus, Minus
  <2>3. Effect(i, has, nf, mem, has', nf', mem')
    BY <2>1, <2>2 DEF Effect
  <2> QED BY <2>1, <2>3 DEF i
<1>4. CASE Tables(a)
  <2>1. /\ at[a] # Idle /\ Advance(a) /\ has' = has /\ nf' = nf
        /\ \/ i.op = "table" /\ mem' = [mem EXCEPT ![i.ppe] = @ \cup {"table", "flow"}]
           \/ i.op = "mib" /\ mem' = [mem EXCEPT ![i.ppe] = @ \cup {"mib", "acct"}]
           \/ i.op = "clear" /\ mem' = mem
           \/ i.op = "free" /\ mem' = [mem EXCEPT ![i.ppe] = {}]
    BY <1>0, <1>4 DEF Tables
  <2>2. \A x \in Flags : ~Plus(i, x) /\ ~Minus(i, x)
    BY <2>1 DEF Plus, Minus
  <2>3. DOMAIN mem = Ppes
    BY DEF Domains
  <2>4. \A e \in Ppes :
          "table" \in mem'[e] <=> \/ i.op = "table" /\ i.ppe = e
                                  \/ "table" \in mem[e] /\ ~(i.op = "free" /\ i.ppe = e)
    BY <2>1, <2>3
  <2>5. Effect(i, has, nf, mem, has', nf', mem')
    BY <2>1, <2>2, <2>4 DEF Effect
  <2> QED BY <2>1, <2>5 DEF i
<1>5. CASE HwInit(a) \/ SwitchOff(a) \/ Timers(a)
  <2>1. /\ at[a] # Idle /\ Advance(a) /\ has' = has /\ nf' = nf /\ mem' = mem
        /\ i.op \in {"hw_init", "fwd", "sweep", "sma_timer", "timers_on", "timers_off"}
    BY <1>0, <1>5 DEF HwInit, SwitchOff, Timers, ppevars
  <2>2. Effect(i, has, nf, mem, has', nf', mem')
    BY <2>1, NoEffect
  <2> QED BY <2>1, <2>2 DEF i
<1>6. CASE Interfaces(a)
  <2>1. /\ at[a] # Idle /\ Advance(a) /\ nf' = nf /\ mem' = mem
        /\ i.op \in {"ext", "ext_free", "release", "devres"}
        /\ has' = IF i.op = "devres" THEN has \ {"priv", "fe", "irq2"} ELSE has
    BY <1>6 DEF Interfaces, ppevars, Is, i, Instruction
  <2>2. CASE i.op # "devres"
    <3>1. Effect(i, has, nf, mem, has', nf', mem')
      BY <2>1, <2>2, NoEffect
    <3> QED BY <2>1, <3>1 DEF i
  <2>3. CASE i.op = "devres"
    <3>1. \A x \in Flags : ~Plus(i, x) /\ (Minus(i, x) <=> x = "priv")
      BY <2>3 DEF Plus, Minus
    <3>2. \A x \in Flags : x \in has' <=> x \in has /\ x # "priv"
      BY <2>1, <2>3 DEF Flags
    <3>3. Effect(i, has, nf, mem, has', nf', mem')
      BY <2>1, <2>3, <3>1, <3>2 DEF Effect
    <3> QED BY <2>1, <3>3 DEF i
  <2> QED BY <2>2, <2>3
<1>7. CASE NetdevNotifier(a)
  <2>1. /\ at[a] # Idle /\ Advance(a) /\ nf' = nf /\ mem' = mem
        /\ \/ i.op = "netdev_on" /\ has' = has \cup {"netdev_nb"}
           \/ i.op = "netdev_off" /\ has' = has \ {"netdev_nb"}
    BY <1>0, <1>7 DEF NetdevNotifier, ppevars
  <2>2. \A x \in Flags : /\ Plus(i, x) <=> i.op = "netdev_on" /\ x = "netdev_nb"
                         /\ Minus(i, x) <=> i.op = "netdev_off" /\ x = "netdev_nb"
    BY <2>1 DEF Plus, Minus
  <2>3. Effect(i, has, nf, mem, has', nf', mem')
    BY <2>1, <2>2 DEF Effect
  <2> QED BY <2>1, <2>3 DEF i
<1>8. CASE DebugfsOff(a)
  <2>1. /\ at[a] # Idle /\ Advance(a) /\ nf' = nf /\ mem' = mem
        /\ i.op = "debugfs_off" /\ has' = has \ {"debugfs"}
    BY <1>0, <1>8 DEF DebugfsOff, ppevars
  <2>2. \A x \in Flags : ~Plus(i, x) /\ (Minus(i, x) <=> x = "debugfs")
    BY <2>1 DEF Plus, Minus
  <2>3. Effect(i, has, nf, mem, has', nf', mem')
    BY <2>1, <2>2 DEF Effect
  <2> QED BY <2>1, <2>3 DEF i
<1>9. CASE Roaming(a)
  <2>1. /\ at[a] # Idle /\ Advance(a) /\ nf' = nf /\ mem' = mem /\ i.op \in {"roam_on", "roam_off"}
        /\ has' \in {has, has \cup {"sock"}, has \ {"sock"}}
    BY <1>0, <1>9 DEF Roaming, ppevars
  <2>2. \A x \in Flags : x \in has' <=> x \in has
    BY <2>1 DEF Flags
  <2>3. Effect(i, has, nf, mem, has', nf', mem')
    BY <2>1, <2>2, NoEffect
  <2> QED BY <2>1, <2>3 DEF i
<1> QED BY <1>1, <1>2, <1>3, <1>4, <1>5, <1>6, <1>7, <1>8, <1>9 DEF Step

(* What an instruction does to the engines and the timer.                    *)
EngineStep(i) ==
  \/ i.op = "netdev_off" /\ ArmSmaTimer
  \/ /\ \A e \in Ppes : sma'[e] = IF i.op = "fwd" /\ i.ppe = e THEN "fwd"
                                  ELSE IF i.op = "hw_init" /\ i.ppe = e THEN "build" ELSE sma[e]
     /\ i.op = "sma_timer" => ArmSmaTimer
     /\ i.op = "timers_on" => timer' = "idle" /\ lost' = lost
     /\ i.op = "timers_off" => timer' = "unset"
     /\ i.op \notin {"sma_timer", "timers_on", "timers_off"} =>
          timer' = timer /\ ("timer" \in lost' <=> "timer" \in lost)

(* What a step does to bound entries, the engines and the timer.             *)
LEMMA StepOnEngines ==
  ASSUME AtOK, Domains, NEW a \in Actors, Step(a)
  PROVE  /\ Domains'
         /\ \A e \in Ppes :
              /\ bound'[e] \in {bound[e], None}
              /\ Instruction(a).op = "sweep" /\ Instruction(a).ppe = e => bound'[e] = None
         /\ EngineStep(Instruction(a))
         /\ "hooks" \in lost' <=> "hooks" \in lost /\ Instruction(a).op # "ra_on"
         /\ raced => raced'
         /\ Instruction(a).op \in {"netdev_on", "netdev_off"} => at["event"] = Idle
<1> DEFINE i == Instruction(a)
           Others == {"sweep", "fwd", "hw_init", "sma_timer", "timers_on", "timers_off", "netdev_on", "netdev_off"}
<1>0. Op(a) = i.op /\ Ppe(a) = i.ppe /\ \A o : Is(a, o) => at[a] # Idle /\ i.op = o
  BY DEF Op, Ppe, Is, Instruction
<1>d. /\ nf \in Nat /\ DOMAIN mem = Ppes /\ DOMAIN bound = Ppes /\ sma \in [Ppes -> {"build", "fwd"}]
      /\ raced \in BOOLEAN
  BY DEF Domains
<1> HIDE DEF i
<1> USE DEF EngineStep
<1>1. CASE Install(a) \/ Uninstall(a)
  <2>1. /\ i.op \in DOMAIN Adds \cup DOMAIN Takes
        /\ UNCHANGED <<nf, mem, bound, sma, timer, raced>>
        /\ lost' = IF i.op = "ra_on" THEN lost \ {"hooks"} ELSE lost
    <3>1. CASE Install(a)
      BY <1>0, <3>1 DEF Install, ppevars
    <3>2. CASE Uninstall(a)
      <4>1. "ra_on" \notin DOMAIN Takes
        BY DEF Takes
      <4> QED BY <1>0, <3>2, <4>1 DEF Uninstall, ppevars, timervars
    <3> QED BY <1>1, <3>1, <3>2
  <2>2. i.op \notin Others
    BY <2>1 DEF Adds, Takes
  <2>3. Domains'
    BY <1>d, <2>1 DEF Domains
  <2> QED BY <2>1, <2>2, <2>3 DEF i
<1>2. CASE NfHooks(a)
  <2>1. /\ i.op \in {"nf_on", "nf_off"} /\ nf' \in {nf + 1, IF nf = 0 THEN 0 ELSE nf - 1}
        /\ UNCHANGED <<mem, bound, sma, timer, lost, raced>>
    BY <1>0, <1>2 DEF NfHooks, ppevars, timervars
  <2>2. i.op \notin Others
    BY <2>1
  <2>3. nf' \in Nat
    BY <1>d, <2>1
  <2>4. Domains'
    BY <1>d, <2>1, <2>3 DEF Domains
  <2> QED BY <2>1, <2>2, <2>4 DEF i
<1>3. CASE Tables(a)
  <2>1. /\ i.op \in {"table", "mib", "clear", "free"}
        /\ DOMAIN mem' = DOMAIN mem
        /\ bound' = bound \/ bound' = [bound EXCEPT ![i.ppe] = None]
        /\ UNCHANGED <<nf, sma, timer, lost, raced>>
    <3>1. CASE i.op = "table" /\ mem' = [mem EXCEPT ![i.ppe] = @ \cup {"table", "flow"}] /\ bound' = bound
      BY <1>0, <1>3, <3>1, <1>d DEF Tables, timervars
    <3>2. CASE i.op = "mib" /\ mem' = [mem EXCEPT ![i.ppe] = @ \cup {"mib", "acct"}] /\ bound' = bound
      BY <1>0, <1>3, <3>2, <1>d DEF Tables, timervars
    <3>3. CASE i.op = "clear" /\ bound' = [bound EXCEPT ![i.ppe] = None] /\ mem' = mem
      BY <1>0, <1>3, <3>3, <1>d DEF Tables, timervars
    <3>4. CASE i.op = "free" /\ mem' = [mem EXCEPT ![i.ppe] = {}] /\ bound' = [bound EXCEPT ![i.ppe] = None]
      BY <1>0, <1>3, <3>4, <1>d DEF Tables, timervars
    <3> QED BY <1>0, <1>3, <3>1, <3>2, <3>3, <3>4 DEF Tables, timervars
  <2>2. i.op \notin Others
    BY <2>1
  <2>3. DOMAIN mem' = Ppes /\ DOMAIN bound' = Ppes
    BY <1>d, <2>1
  <2>4. Domains'
    BY <1>d, <2>1, <2>3 DEF Domains
  <2>5. \A e \in Ppes : bound'[e] \in {bound[e], None}
    BY <1>d, <2>1
  <2> QED BY <2>1, <2>2, <2>4, <2>5 DEF i
<1>4. CASE HwInit(a)
  <2>1. /\ i.op = "hw_init" /\ sma' = [sma EXCEPT ![i.ppe] = "build"]
        /\ UNCHANGED <<nf, mem, bound, timer, lost, raced>>
    BY <1>0, <1>4 DEF HwInit, timervars
  <2>2. Domains'
    BY <1>d, <2>1 DEF Domains
  <2>3. \A e \in Ppes : sma'[e] = IF i.ppe = e THEN "build" ELSE sma[e]
    BY <1>d, <2>1
  <2> QED BY <2>1, <2>2, <2>3 DEF i
<1>5. CASE SwitchOff(a)
  <2>1. /\ \/ i.op = "fwd" /\ sma' = [sma EXCEPT ![i.ppe] = "fwd"] /\ bound' = bound
           \/ i.op = "sweep" /\ bound' = [bound EXCEPT ![i.ppe] = None] /\ sma' = sma
        /\ UNCHANGED <<nf, mem, timer, lost, raced>>
    BY <1>0, <1>5 DEF SwitchOff, timervars
  <2>2. CASE i.op = "fwd" /\ sma' = [sma EXCEPT ![i.ppe] = "fwd"] /\ bound' = bound
    <3>1. Domains'
      BY <1>d, <2>1, <2>2 DEF Domains
    <3>2. \A e \in Ppes : sma'[e] = IF i.ppe = e THEN "fwd" ELSE sma[e]
      BY <1>d, <2>2
    <3> QED BY <2>1, <2>2, <3>1, <3>2 DEF i
  <2>3. CASE i.op = "sweep" /\ bound' = [bound EXCEPT ![i.ppe] = None] /\ sma' = sma
    <3>1. Domains'
      BY <1>d, <2>1, <2>3 DEF Domains
    <3>2. \A e \in Ppes : bound'[e] = IF i.ppe = e THEN None ELSE bound[e]
      BY <1>d, <2>3
    <3> QED BY <2>1, <2>3, <3>1, <3>2 DEF i
  <2> QED BY <2>1, <2>2, <2>3
<1>6. CASE Timers(a)
  <2>1. /\ \/ i.op = "sma_timer" /\ ArmSmaTimer
           \/ i.op = "timers_on" /\ timer' = "idle" /\ lost' = lost
           \/ i.op = "timers_off" /\ timer' = "unset" /\ lost' = lost \ {"timer"}
        /\ UNCHANGED <<nf, mem, bound, sma, raced>>
    BY <1>0, <1>6 DEF Timers, ppevars
  <2>2. Domains'
    BY <1>d, <2>1 DEF Domains
  <2>3. "hooks" \in lost' <=> "hooks" \in lost
    BY <2>1 DEF ArmSmaTimer
  <2> QED BY <2>1, <2>2, <2>3 DEF i
<1>7. CASE Interfaces(a)
  <2>1. /\ i.op \in {"ext", "ext_free", "release", "devres"}
        /\ UNCHANGED <<nf, mem, bound, sma, timer, lost, raced>>
    BY <1>0, <1>7 DEF Interfaces, ppevars, timervars
  <2>2. i.op \notin Others
    BY <2>1
  <2>3. Domains'
    BY <1>d, <2>1 DEF Domains
  <2> QED BY <2>1, <2>2, <2>3 DEF i
<1>8. CASE NetdevNotifier(a)
  <2>1. /\ i.op \in {"netdev_on", "netdev_off"} /\ at["event"] = Idle
        /\ raced' = (raced \/ (Is(a, "netdev_off") /\ writing.step = 2))
        /\ UNCHANGED <<nf, mem>>
        /\ \/ UNCHANGED <<bound, sma, timer, lost>>
           \/ i.op = "netdev_off" /\ foe_clear_all_bind_entries
    BY <1>0, <1>8 DEF NetdevNotifier, RtnlFree, timervars
  <2>2. raced' \in BOOLEAN /\ (raced => raced')
    BY <2>1
  <2>3. CASE UNCHANGED <<bound, sma, timer, lost>>
    <3>1. Domains'
      BY <1>d, <2>1, <2>2, <2>3 DEF Domains
    <3> QED BY <2>1, <2>2, <2>3, <3>1 DEF i
  <2>4. CASE i.op = "netdev_off" /\ foe_clear_all_bind_entries
    <3>1. /\ sma' = [e \in Ppes |-> "fwd"] /\ bound' = [e \in Ppes |-> None] /\ ArmSmaTimer
      BY <2>4 DEF foe_clear_all_bind_entries
    <3>2. Domains'
      BY <1>d, <2>1, <2>2, <3>1 DEF Domains
    <3>3. "hooks" \in lost' <=> "hooks" \in lost
      BY <3>1 DEF ArmSmaTimer
    <3> QED BY <2>1, <2>2, <2>4, <3>1, <3>2, <3>3 DEF i
  <2> QED BY <2>1, <2>3, <2>4
<1>9. CASE DebugfsOff(a) \/ Roaming(a)
  <2>1. /\ i.op \in {"debugfs_off", "roam_on", "roam_off"}
        /\ UNCHANGED <<nf, mem, bound, sma, timer, lost, raced>>
    BY <1>0, <1>9 DEF DebugfsOff, Roaming, ppevars, timervars
  <2>2. i.op \notin Others
    BY <2>1
  <2>3. Domains'
    BY <1>d, <2>1 DEF Domains
  <2> QED BY <2>1, <2>2, <2>3 DEF i
<1> QED BY <1>1, <1>2, <1>3, <1>4, <1>5, <1>6, <1>7, <1>8, <1>9 DEF Step

(* A step of packets, stations, devices, the timer or a write to            *)
(* hnat_ppd_if.                                                             *)
Outside ==
  /\ Domains' /\ UNCHANGED <<has, nf, mem, at>> /\ (raced => raced')
  /\ "hooks" \in lost' <=> "hooks" \in lost
  /\ \/ UNCHANGED <<sma, timer, lost>>
     \/ timer # "unset" /\ timer' = "idle" /\ \A e \in Ppes : sma'[e] = "build"
     \/ ArmSmaTimer
  /\ \A e \in Ppes : bound'[e] \in {bound[e], None} \/ (~Hooked => bound'[e].late)

LEMMA OutsideIs ==
  ASSUME Domains,
         \/ hnat_sma_build_entry \/ PacketIn \/ PacketOut \/ LazyLookup
         \/ Roam \/ OtherMessage \/ RoamStart \/ RoamReceive
         \/ \E d \in Devs : \/ DevRegister(d) \/ DevUp(d) \/ DevDown(d) \/ DevUnregister(d) \/ DevFree(d)
                            \/ PpdGet(d)
         \/ PpdPut \/ PpdStore \/ UNCHANGED vars
  PROVE  Outside
<1>d. /\ nf \in Nat /\ DOMAIN mem = Ppes /\ DOMAIN bound = Ppes /\ sma \in [Ppes -> {"build", "fwd"}]
      /\ raced \in BOOLEAN
  BY DEF Domains
<1>1. CASE hnat_sma_build_entry
  <2>1. /\ UNCHANGED <<has, nf, mem, bound, lost, at, raced>>
        /\ timer # "unset" /\ timer' = "idle" /\ sma' = [e \in Ppes |-> "build"]
    BY <1>1 DEF hnat_sma_build_entry
  <2>2. Domains'
    BY <1>d, <2>1 DEF Domains
  <2> QED BY <2>1, <2>2 DEF Outside
<1>2. CASE PacketOut
  <2>1. UNCHANGED <<has, nf, mem, sma, timer, lost, at, raced>>
    BY <1>2 DEF PacketOut, timervars
  <2>2. CASE bound' = bound
    <3>1. Domains'
      BY <1>d, <2>1, <2>2 DEF Domains
    <3> QED BY <2>1, <2>2, <3>1 DEF Outside
  <2>3. ASSUME NEW e \in Ppes, bound' = [bound EXCEPT ![e] = [to |-> pkt, late |-> ~Hooked]]
        PROVE  Outside
    <3>1. Domains'
      BY <1>d, <2>1, <2>3 DEF Domains
    <3>2. \A f \in Ppes \ {e} : bound'[f] = bound[f]
      BY <1>d, <2>3
    <3>3. bound'[e] = [to |-> pkt, late |-> ~Hooked]
      BY <1>d, <2>3
    <3>4. bound'[e].late = ~Hooked
      BY <3>3
    <3> QED BY <2>1, <3>1, <3>2, <3>4 DEF Outside
  <2> QED BY <1>2, <2>2, <2>3 DEF PacketOut
<1>3. CASE RoamReceive
  <2>1. UNCHANGED <<has, nf, mem, sma, timer, lost, at, raced>> /\ bound' \in {bound, [e \in Ppes |-> None]}
    BY <1>3 DEF RoamReceive, timervars
  <2>2. Domains'
    BY <1>d, <2>1 DEF Domains
  <2> QED BY <2>1, <2>2 DEF Outside
<1>4. ASSUME NEW d \in Devs,
             DevRegister(d) \/ DevUp(d) \/ DevDown(d) \/ DevUnregister(d) \/ DevFree(d)
      PROVE  Outside
  <2>1. /\ UNCHANGED <<has, nf, mem, at>> /\ raced' \in BOOLEAN /\ (raced => raced')
        /\ UNCHANGED <<bound, sma, timer, lost>> \/ foe_clear_all_bind_entries
    <3>1. CASE DevRegister(d) \/ DevUp(d) \/ DevFree(d)
      BY <1>d, <3>1 DEF DevRegister, DevUp, DevFree, Device, timervars
    <3>2. CASE DevDown(d)
      BY <1>d, <3>2 DEF DevDown, Device, timervars
    <3>3. CASE DevUnregister(d)
      BY <1>d, <3>3 DEF DevUnregister, Device, timervars
    <3> QED BY <1>4, <3>1, <3>2, <3>3
  <2>2. CASE UNCHANGED <<bound, sma, timer, lost>>
    <3>1. Domains'
      BY <1>d, <2>1, <2>2 DEF Domains
    <3> QED BY <2>1, <2>2, <3>1 DEF Outside
  <2>3. CASE foe_clear_all_bind_entries
    <3>1. sma' = [e \in Ppes |-> "fwd"] /\ bound' = [e \in Ppes |-> None] /\ ArmSmaTimer
      BY <2>3 DEF foe_clear_all_bind_entries
    <3>2. Domains'
      BY <1>d, <2>1, <3>1 DEF Domains
    <3>3. "hooks" \in lost' <=> "hooks" \in lost
      BY <3>1 DEF ArmSmaTimer
    <3> QED BY <2>1, <3>1, <3>2, <3>3 DEF Outside
  <2> QED BY <2>1, <2>2, <2>3
<1>5. CASE \/ PacketIn \/ LazyLookup \/ Roam \/ OtherMessage \/ RoamStart \/ PpdPut \/ PpdStore
           \/ (\E d \in Devs : PpdGet(d)) \/ UNCHANGED vars
  <2>1. UNCHANGED <<has, nf, mem, bound, sma, timer, lost, at, raced>>
    BY <1>5 DEF PacketIn, LazyLookup, Roam, OtherMessage, RoamStart, PpdPut, PpdStore, PpdGet, ppevars,
                timervars, vars
  <2>2. Domains'
    BY <1>d, <2>1 DEF Domains
  <2> QED BY <2>1, <2>2 DEF Outside
<1> QED BY <1>1, <1>2, <1>3, <1>4, <1>5

(* An actor starts a program.                                                *)
Starts(a, prog) ==
  /\ Domains' /\ UNCHANGED <<has, nf, mem, bound, sma, timer, lost>> /\ (raced => raced')
  /\ at[a] = Idle /\ at' = [at EXCEPT ![a] = [prog |-> prog, pc |-> 1]]
  /\ ~raced' /\ prog # "warm" => \A b \in Actors \ {a} : ~Switching(b)
  /\ prog = "probe" => "priv" \notin has
  /\ prog = "remove" => "ready" \in has
  /\ prog = "warm" => "netdev_nb" \in has
  /\ prog = "enable" => "debugfs" \in has /\ "hook_toggle" \notin has
  /\ prog = "disable" => "debugfs" \in has /\ "hook_toggle" \in has

LEMMA StartIs ==
  ASSUME Domains, NEW a, NEW prog, NEW counted, NEW max, Start(a, prog, counted, max),
         prog = "probe" => "priv" \notin has,
         prog = "remove" => "ready" \in has,
         prog = "warm" => "netdev_nb" \in has,
         prog = "enable" => "debugfs" \in has /\ "hook_toggle" \notin has,
         prog = "disable" => "debugfs" \in has /\ "hook_toggle" \in has
  PROVE  Starts(a, prog)
<1>d. /\ nf \in Nat /\ DOMAIN mem = Ppes /\ DOMAIN bound = Ppes /\ sma \in [Ppes -> {"build", "fwd"}]
      /\ raced \in BOOLEAN
  BY DEF Domains
<1>1. /\ UNCHANGED <<has, nf, mem, bound, sma, timer, lost>>
      /\ at[a] = Idle /\ at' = [at EXCEPT ![a] = [prog |-> prog, pc |-> 1]]
      /\ raced' = (raced \/ (prog # "warm" /\ \E b \in Actors \ {a} : Switching(b)))
  BY DEF Start, ppevars, timervars
<1>2. raced' \in BOOLEAN /\ (raced => raced')
  BY <1>1, <1>d
<1>3. ~raced' /\ prog # "warm" => \A b \in Actors \ {a} : ~Switching(b)
  BY <1>1
<1>4. Domains'
  BY <1>d, <1>1, <1>2 DEF Domains
<1> QED BY <1>1, <1>2, <1>3, <1>4 DEF Starts

(* A step fails: the program is over, or goes to an error label.             *)
Fails(a) ==
  /\ Domains' /\ UNCHANGED <<has, nf, mem, bound, sma, timer, raced>>
  /\ at[a] # Idle /\ Instruction(a).op \in DOMAIN OnError
  /\ at' = [at EXCEPT ![a] = IF at[a].prog = "probe" THEN [prog |-> OnError[Instruction(a).op], pc |-> 1]
                             ELSE Idle]
  /\ "timer" \in lost' <=> "timer" \in lost
  /\ "hooks" \in lost' <=> "hooks" \in lost \/ (at[a].prog = "probe" /\ "ra" \in has)

LEMMA Kinds ==
  ASSUME AtOK, Domains, [Next]_vars
  PROVE  \/ \E a \in Actors : \E p \in ProgramsOf(a) \ {"err_out", "err_out1", "err_out2"} : Starts(a, p)
         \/ \E a \in Actors : Step(a)
         \/ \E a \in Actors : Fails(a)
         \/ Outside
<1>1. CASE hnat_probe
  <2>1. Starts("admin", "probe")
    BY <1>1, StartIs DEF hnat_probe
  <2> QED BY <2>1, Actor DEF ProgramsOf
<1>2. CASE hnat_remove
  <2>1. Starts("admin", "remove")
    BY <1>2, StartIs DEF hnat_remove
  <2> QED BY <2>1, Actor DEF ProgramsOf
<1>3. CASE FeReset
  <2>1. Starts("event", "warm")
    BY <1>3, StartIs DEF FeReset
  <2> QED BY <2>1, Actor DEF ProgramsOf
<1>4. ASSUME NEW w \in Writers, hook_toggle_write(w)
      PROVE  \E p \in ProgramsOf(w) \ {"err_out", "err_out1", "err_out2"} : Starts(w, p)
  <2>1. "debugfs" \in has /\ Start(w, IF "hook_toggle" \in has THEN "disable" ELSE "enable", "rare", RareMax)
    BY <1>4 DEF hook_toggle_write
  <2>2. CASE "hook_toggle" \in has
    <3>1. Start(w, "disable", "rare", RareMax)
      BY <2>1, <2>2
    <3>2. Starts(w, "disable")
      BY <2>1, <2>2, <3>1, StartIs
    <3> QED BY <3>2, Actor DEF ProgramsOf
  <2>3. CASE "hook_toggle" \notin has
    <3>1. Start(w, "enable", "rare", RareMax)
      BY <2>1, <2>3
    <3>2. Starts(w, "enable")
      BY <2>1, <2>3, <3>1, StartIs
    <3> QED BY <3>2, Actor DEF ProgramsOf
  <2> QED BY <2>2, <2>3
<1>5. ASSUME NEW a \in Actors, Fail(a) PROVE Fails(a)
  <2>1. /\ UNCHANGED <<has, nf, mem, bound, sma, timer, raced>>
        /\ at[a] # Idle /\ Instruction(a).op \in DOMAIN OnError
        /\ at' = [at EXCEPT ![a] = IF at[a].prog = "probe" THEN [prog |-> OnError[Instruction(a).op], pc |-> 1]
                                   ELSE Idle]
    BY <1>5 DEF Fail, ppevars, Op, Instruction
  <2>2. Domains'
    BY <2>1 DEF Domains
  <2>3. lost' = IF at[a].prog = "probe" /\ "ra" \in has THEN lost \cup {"hooks"} ELSE lost
    BY <1>5 DEF Fail
  <2>4. /\ "timer" \in lost' <=> "timer" \in lost
        /\ "hooks" \in lost' <=> "hooks" \in lost \/ (at[a].prog = "probe" /\ "ra" \in has)
    BY <2>3
  <2> QED BY <2>1, <2>2, <2>4 DEF Fails
<1>6. CASE \/ hnat_sma_build_entry \/ PacketIn \/ PacketOut \/ LazyLookup
           \/ Roam \/ OtherMessage \/ RoamStart \/ RoamReceive
           \/ \E d \in Devs : \/ DevRegister(d) \/ DevUp(d) \/ DevDown(d) \/ DevUnregister(d) \/ DevFree(d)
                              \/ PpdGet(d)
           \/ PpdPut \/ PpdStore \/ UNCHANGED vars
  BY <1>6, OutsideIs
<1>7. CASE \E a \in Actors : Step(a) \/ Fail(a)
  BY <1>5, <1>7
<1>8. CASE \E w \in Writers : hook_toggle_write(w)
  BY <1>4, <1>8, Actor
<1> QED BY <1>1, <1>2, <1>3, <1>6, <1>7, <1>8 DEF Next

LEMMA StartsAt ==
  ASSUME AtOK, NEW a \in Actors, NEW p \in ProgramsOf(a) \ {"err_out", "err_out1", "err_out2"}, Starts(a, p)
  PROVE  AtOK' /\ at'[a].prog = p /\ at'[a].pc = 1 /\ \A b \in Actors \ {a} : at'[b] = at[b]
<1> DEFINE l2 == [prog |-> p, pc |-> 1]
<1>0. N \in Nat /\ 2 * N \in Nat /\ 3 * N \in Nat /\ 5 * N \in Nat
  BY NType
<1>1. p \in Programs \ {"none"} /\ 1 \in Nat
  BY Actor
<1>2. 1 \in 1 .. LastStep[p]
  <2>1. LastStep["probe"] = 16 + 3 * N /\ LastStep["remove"] = 14 + 5 * N /\ LastStep["enable"] = 3
        /\ LastStep["disable"] = 4 + 2 * N /\ LastStep["warm"] = 2 + 2 * N
    BY DEF LastStep
  <2>2. p \in {"probe", "remove", "enable", "disable", "warm"}
    BY DEF ProgramsOf
  <2> QED BY <1>0, <2>1, <2>2
<1>3. l2 \in [prog : Programs, pc : Nat] /\ l2.prog = p /\ l2.pc = 1
  BY <1>1
<1>4. at \in [Actors -> [prog : Programs, pc : Nat]] /\ at' = [at EXCEPT ![a] = l2]
  BY DEF AtOK, Starts
<1> HIDE DEF l2
<1>5. at' \in [Actors -> [prog : Programs, pc : Nat]] /\ at'[a] = l2 /\ \A b \in Actors \ {a} : at'[b] = at[b]
  BY <1>3, <1>4
<1>6. InProgram(l2, ProgramsOf(a))
  BY <1>2, <1>3 DEF InProgram
<1>7. AtOK'
  BY <1>5, <1>6 DEF AtOK
<1> QED BY <1>3, <1>5, <1>7

LEMMA FailsAt ==
  ASSUME AtOK, NEW a \in Actors, Fails(a)
  PROVE  /\ AtOK' /\ \A b \in Actors \ {a} : at'[b] = at[b]
         /\ \/ at[a].prog = "enable" /\ at'[a] = Idle /\ at[a].pc = 2
            \/ /\ at[a].prog = "probe" /\ a = "admin" /\ at'[a].pc = 1
               /\ \/ at'[a].prog = "err_out2" /\ at[a].pc <= 5
                  \/ at'[a].prog = "err_out1" /\ at[a].pc = 6
                  \/ at'[a].prog = "err_out" /\ at[a].pc <= 9 + 3 * N
<1> DEFINE i == Instruction(a)
           l == at[a]
           l2 == IF l.prog = "probe" THEN [prog |-> OnError[i.op], pc |-> 1] ELSE Idle
<1>0. N \in Nat \ {0} /\ 3 * N \in Nat
  BY NType
<1>1. /\ l # Idle /\ i.op \in DOMAIN OnError /\ at' = [at EXCEPT ![a] = l2]
      /\ at \in [Actors -> [prog : Programs, pc : Nat]]
  BY DEF Fails, AtOK
<1>2. l.prog \in ProgramsOf(a) /\ l.pc \in Nat /\ Does(l.prog, l.pc, i)
  BY <1>1, StepAt DEF Instruction
<1>3. i.op \in {"alloc", "find_eth", "ioremap", "debugfs_on", "ext", "table", "mib", "nf_on"}
  BY <1>1 DEF OnError
<1> HIDE DEF i
<1>4. CASE l.prog = "probe"
  <2>1. ProbeAt(l.pc, i) /\ a = "admin"
    BY <1>2, <1>4 DEF Does, ProgramsOf
  <2>2. \/ OnError[i.op] = "err_out2" /\ l.pc <= 5
        \/ OnError[i.op] = "err_out1" /\ l.pc = 6
        \/ OnError[i.op] = "err_out" /\ l.pc <= 9 + 3 * N
    <3>1. CASE i.op \in {"alloc", "find_eth", "ioremap", "debugfs_on"}
      <4>1. OnError[i.op] = "err_out2"
        BY <3>1 DEF OnError
      <4>2. l.pc <= 5
        BY <2>1, <3>1 DEF ProbeAt
      <4> QED BY <4>1, <4>2
    <3>2. CASE i.op = "ext"
      <4>1. OnError[i.op] = "err_out1"
        BY <3>2 DEF OnError
      <4>2. l.pc = 6
        BY <2>1, <3>2 DEF ProbeAt
      <4> QED BY <4>1, <4>2
    <3>3. CASE i.op \in {"table", "mib", "nf_on"}
      <4>1. OnError[i.op] = "err_out"
        BY <3>3 DEF OnError
      <4>2. l.pc <= 9 + 3 * N
        <5>1. CASE i.op = "nf_on"
          BY <1>0, <2>1, <5>1 DEF ProbeAt
        <5>2. CASE i.op = "table" \/ i.op = "mib"
          <6>1. i.ppe \in Ppes /\ (l.pc = 3 * i.ppe + 4 \/ l.pc = 3 * i.ppe + 5)
            BY <2>1, <5>2 DEF ProbeAt
          <6>2. i.ppe \in 1 .. N
            BY <6>1 DEF Ppes, N
          <6>3. 3 * i.ppe <= 3 * N
            BY <1>0, <6>2
          <6> QED BY <1>0, <6>1, <6>2, <6>3
        <5> QED BY <3>3, <5>1, <5>2
      <4> QED BY <4>1, <4>2
    <3> QED BY <1>3, <3>1, <3>2, <3>3
  <2>3. l2 = [prog |-> OnError[i.op], pc |-> 1]
    BY <1>4
  <2> HIDE DEF l2
  <2>4. PICK p \in {"err_out", "err_out1", "err_out2"} : p = OnError[i.op]
    BY <2>2
  <2>5. l2 \in [prog : Programs, pc : Nat] /\ l2.prog = p /\ l2.pc = 1
    BY <2>3, <2>4 DEF Programs
  <2>6. at' \in [Actors -> [prog : Programs, pc : Nat]] /\ at'[a] = l2 /\ \A b \in Actors \ {a} : at'[b] = at[b]
    BY <1>1, <2>5
  <2>7. InProgram(l2, ProgramsOf(a))
    <3>1. LastStep["err_out"] = 4 + 3 * N /\ LastStep["err_out1"] = 4 /\ LastStep["err_out2"] = 2
      BY DEF LastStep
    <3>2. 1 \in 1 .. LastStep[p]
      BY <1>0, <2>4, <3>1
    <3>3. p \in ProgramsOf(a)
      BY <2>1, <2>4 DEF ProgramsOf
    <3> QED BY <2>5, <3>2, <3>3 DEF InProgram
  <2>8. AtOK'
    BY <2>6, <2>7 DEF AtOK
  <2> QED BY <1>4, <2>1, <2>2, <2>4, <2>5, <2>6, <2>8
<1>5. CASE l.prog # "probe"
  <2>1. l2 = Idle /\ Idle \in [prog : Programs, pc : Nat]
    BY <1>5 DEF Idle, Programs
  <2>2. l.prog = "enable" /\ l.pc = 2
    <3>1. l.prog # "remove"
      BY <1>2, <1>3 DEF Does, RemoveAt, DisableAt
    <3>2. l.prog # "disable" /\ l.prog # "warm"
      BY <1>2, <1>3 DEF Does, DisableAt, WarmAt
    <3>3. l.prog \notin {"err_out", "err_out1", "err_out2"}
      BY <1>2, <1>3 DEF Does, ErrOutAt, ErrOut1At, ErrOut2At
    <3>4. l.prog = "enable" /\ EnableAt(l.pc, i)
      BY <1>2, <1>5, <3>1, <3>2, <3>3 DEF Does
    <3> QED BY <1>3, <3>4 DEF EnableAt
  <2> HIDE DEF l2
  <2>3. at' \in [Actors -> [prog : Programs, pc : Nat]] /\ at'[a] = Idle /\ \A b \in Actors \ {a} : at'[b] = at[b]
    BY <1>1, <2>1
  <2>4. AtOK'
    BY <2>3 DEF AtOK
  <2> QED BY <2>2, <2>3, <2>4
<1> QED BY <1>4, <1>5

Basic == AtOK /\ Domains

LEMMA BasicStep ==
  ASSUME Basic, [Next]_vars
  PROVE  Basic'
<1>1. AtOK /\ Domains
  BY DEF Basic
<1>2. ASSUME NEW a \in Actors, NEW p \in ProgramsOf(a) \ {"err_out", "err_out1", "err_out2"}, Starts(a, p)
      PROVE  Basic'
  <2>1. AtOK'
    BY <1>1, <1>2, StartsAt
  <2> QED BY <1>2, <2>1 DEF Basic, Starts
<1>3. ASSUME NEW a \in Actors, Step(a) PROVE Basic'
  <2>1. at[a] # Idle /\ Advance(a)
    BY <1>1, <1>3, StepEffect
  <2>2. AtOK' /\ Domains'
    BY <1>1, <1>3, <2>1, AdvanceIs, StepOnEngines
  <2> QED BY <2>2 DEF Basic
<1>4. ASSUME NEW a \in Actors, Fails(a) PROVE Basic'
  <2>1. AtOK'
    BY <1>1, <1>4, FailsAt
  <2> QED BY <1>4, <2>1 DEF Basic, Fails
<1>5. CASE Outside
  BY <1>1, <1>5 DEF Basic, Outside, AtOK
<1> QED BY <1>1, <1>2, <1>3, <1>4, <1>5, Kinds

LEMMA BasicInit ==
  ASSUME Init
  PROVE  Basic
<1>1. at = [a \in Actors |-> Idle] /\ nf = 0 /\ mem = [e \in Ppes |-> {}] /\ bound = [e \in Ppes |-> None]
      /\ sma = [e \in Ppes |-> "build"] /\ raced = FALSE
  BY DEF Init
<1>2. AtOK
  BY <1>1 DEF AtOK, Idle, Programs
<1>3. Domains
  BY <1>1 DEF Domains
<1> QED BY <1>2, <1>3 DEF Basic

(* An actor is idle or within a program that it runs, and the tables,       *)
(* engines and hooks have their types: a program has a step at every pc an  *)
(* actor reaches.                                                           *)
THEOREM BasicInvariant == Spec => []Basic
<1>1. Init => Basic
  BY BasicInit
<1>2. Basic /\ [Next]_vars => Basic'
  BY BasicStep
<1> QED BY <1>1, <1>2, PTL DEF Spec

(* What the programs of writers and of the event actor do.                   *)
LEMMA OthersOps ==
  ASSUME AtOK, NEW a \in Actors \ {"admin"}, at[a] # Idle
  PROVE  /\ a = "event" => /\ at[a].prog = "warm"
                           /\ Instruction(a).op \in {"netevent_off", "clear", "hw_init", "netevent_on"}
         /\ a # "event" => /\ at[a].prog \in {"enable", "disable"} /\ a \in Writers
                           /\ Instruction(a).op \in {"ra_on", "nf_on", "del_on", "ra_off", "nf_off", "fwd",
                                                     "sweep", "sma_timer", "del_off"}
<1> DEFINE i == Instruction(a)
<1>1. at[a].prog \in ProgramsOf(a) /\ Does(at[a].prog, at[a].pc, i)
  BY StepAt DEF Instruction
<1> HIDE DEF i
<1>2. CASE a = "event"
  <2>1. at[a].prog = "warm"
    BY <1>1, <1>2 DEF ProgramsOf
  <2>2. i.op \in {"netevent_off", "clear", "hw_init", "netevent_on"}
    BY <1>1, <2>1 DEF Does, WarmAt
  <2> QED BY <1>2, <2>1, <2>2 DEF i
<1>3. CASE a # "event"
  <2>1. at[a].prog \in {"enable", "disable"} /\ a \in Writers
    BY <1>1, <1>3 DEF ProgramsOf, Actors
  <2>2. i.op \in {"ra_on", "nf_on", "del_on", "ra_off", "nf_off", "fwd", "sweep", "sma_timer", "del_off"}
    BY <1>1, <2>1 DEF Does, EnableAt, DisableAt
  <2> QED BY <1>3, <2>1, <2>2 DEF i
<1> QED BY <1>2, <1>3

LEMMA OthersKeep ==
  ASSUME AtOK, Domains, NEW a \in Actors \ {"admin"}, Step(a)
  PROVE  /\ \A x \in {"priv", "ready", "netdev_nb", "debugfs"} : x \in has' <=> x \in has
         /\ a = "event" => \A x \in {"ra", "del", "hook_toggle"} : x \in has' <=> x \in has
<1> DEFINE i == Instruction(a)
<1>1. at[a] # Idle /\ Effect(i, has, nf, mem, has', nf', mem')
  BY StepEffect
<1>2. /\ a = "event" => i.op \in {"netevent_off", "clear", "hw_init", "netevent_on"}
      /\ a # "event" => i.op \in {"ra_on", "nf_on", "del_on", "ra_off", "nf_off", "fwd",
                                  "sweep", "sma_timer", "del_off"}
  BY <1>1, OthersOps
<1> HIDE DEF i
<1>3. \A x \in Flags : x \in has' <=> Plus(i, x) \/ (x \in has /\ ~Minus(i, x))
  BY <1>1 DEF Effect
<1>4. \A x \in {"priv", "ready", "netdev_nb", "debugfs"} : x \in Flags /\ ~Plus(i, x) /\ ~Minus(i, x)
  BY <1>2 DEF Flags, Plus, Minus
<1>5. a = "event" => \A x \in {"ra", "del", "hook_toggle"} : x \in Flags /\ ~Plus(i, x) /\ ~Minus(i, x)
  BY <1>2 DEF Flags, Plus, Minus
<1> QED BY <1>3, <1>4, <1>5

LEMMA AdminStep ==
  ASSUME Basic, AdminInv, [Next]_vars
  PROVE  AdminInv'
<1>b. AtOK /\ Domains /\ N \in Nat \ {0} /\ 3 * N \in Nat /\ 5 * N \in Nat
  BY NType DEF Basic
<1>w. "admin" \in Actors /\ "event" \in Actors /\ "admin" # "event" /\ Idle.prog = "none" /\ at \in [Actors -> [prog : Programs, pc : Nat]]
  BY <1>b, Actor DEF Idle, AtOK
<1>1. ASSUME NEW a \in Actors, NEW p \in ProgramsOf(a) \ {"err_out", "err_out1", "err_out2"}, Starts(a, p)
      PROVE  AdminInv'
  <2>1. at'[a].prog = p /\ at'[a].pc = 1 /\ \A b \in Actors \ {a} : at'[b] = at[b]
    BY <1>b, <1>1, StartsAt
  <2>2. /\ has' = has /\ (p = "probe" => "priv" \notin has) /\ (p = "warm" => "netdev_nb" \in has)
    BY <1>1 DEF Starts
  <2>3. CASE a = "admin"
    <3>1. p \in {"probe", "remove"} /\ at'["event"] = at["event"]
      BY <1>w, <2>1, <2>3 DEF ProgramsOf
    <3> QED BY <2>1, <2>2, <2>3, <3>1 DEF AdminInv
  <2>4. CASE a = "event"
    <3>1. p = "warm" /\ at'["admin"] = at["admin"]
      BY <1>w, <2>1, <2>4 DEF ProgramsOf
    <3> QED BY <2>1, <2>2, <2>4, <3>1 DEF AdminInv
  <2>5. CASE a \notin {"admin", "event"}
    <3>1. at'["event"] = at["event"] /\ at'["admin"] = at["admin"]
      BY <1>w, <2>1, <2>5
    <3> QED BY <2>2, <3>1 DEF AdminInv
  <2> QED BY <2>3, <2>4, <2>5
<1>2. ASSUME NEW a \in Actors, Step(a), a # "admin" PROVE AdminInv'
  <2>1. \A x \in {"priv", "ready", "netdev_nb", "debugfs"} : x \in has' <=> x \in has
    BY <1>b, <1>2, OthersKeep
  <2>2. at[a] # Idle /\ Advance(a)
    BY <1>b, <1>2, StepEffect
  <2>3. at'["admin"] = at["admin"] /\ (at'["event"] # Idle => at["event"] # Idle)
    BY <1>b, <1>w, <1>2, <2>2, AdvanceIs
  <2> QED BY <2>1, <2>3 DEF AdminInv
<1>3. ASSUME Step("admin") PROVE AdminInv'
  <2> DEFINE i == Instruction("admin")
             l == at["admin"]
             l2 == at'["admin"]
  <2>1. at["admin"] # Idle /\ Advance("admin") /\ Effect(i, has, nf, mem, has', nf', mem')
    BY <1>b, <1>w, <1>3, StepEffect
  <2>2. /\ at'["event"] = at["event"]
        /\ \/ l2 = Idle /\ l.pc = LastStep[l.prog]
           \/ l2.prog = l.prog /\ l2.pc = l.pc + 1
    BY <1>b, <1>w, <2>1, AdvanceIs
  <2>3. /\ l.prog \in ProgramsOf("admin") /\ l.pc \in 1 .. LastStep[l.prog] /\ LastStep[l.prog] \in Nat
        /\ Does(l.prog, l.pc, i) /\ l.pc \in Nat
    BY <1>b, <1>w, <2>1, StepAt DEF Instruction
  <2>4. i.op \in {"netdev_on", "netdev_off"} => at["event"] = Idle
    BY <1>b, <1>w, <1>3, StepOnEngines
  <2> HIDE DEF i
  <2>5. /\ "ready" \in has' <=> i.op = "teardown_on" \/ ("ready" \in has /\ i.op # "teardown_off")
        /\ "priv" \in has' <=> i.op = "alloc" \/ ("priv" \in has /\ i.op # "devres")
        /\ "netdev_nb" \in has' <=> i.op = "netdev_on" \/ ("netdev_nb" \in has /\ i.op # "netdev_off")
    BY <2>1 DEF Effect, Plus, Minus, Flags
  <2>6. at'["event"] # Idle => "netdev_nb" \in has'
    BY <2>2, <2>4, <2>5 DEF AdminInv
  <2>7. CASE l.prog = "probe"
    <3>1. ProbeAt(l.pc, i) /\ LastStep[l.prog] = 16 + 3 * N
      BY <2>3, <2>7 DEF Does, LastStep
    <3>2. i.op \notin {"teardown_off", "devres"} /\ (i.op = "teardown_on" => l.pc = 16 + 3 * N)
          /\ (l.pc = 1 => i.op = "alloc")
      <4>1. i.op \notin {"teardown_off", "devres"}
        BY <3>1 DEF ProbeAt
      <4>2. i.op = "teardown_on" => l.pc = 16 + 3 * N
        BY <3>1 DEF ProbeAt
      <4>3. l.pc = 1 => i.op = "alloc"
        <5> SUFFICES ASSUME l.pc = 1 PROVE i.op = "alloc"
          OBVIOUS
        <5>1. \A e \in Ppes : 1 # 3 * e + 4 /\ 1 # 3 * e + 5 /\ 1 # 3 * e + 6
          BY DEF Ppes
        <5> QED BY <1>b, <3>1, <5>1 DEF ProbeAt
      <4> QED BY <4>1, <4>2, <4>3
    <3>3. "ready" \notin has
      BY <2>7 DEF AdminInv
    <3>4. "priv" \in has'
      BY <2>3, <2>5, <2>7, <3>2 DEF AdminInv
    <3>5. CASE l2 = Idle
      BY <1>w, <2>6, <3>4, <3>5 DEF AdminInv
    <3>6. CASE l2.prog = l.prog /\ l2.pc = l.pc + 1 /\ l2 # Idle
      <4>1. l.pc # 16 + 3 * N
        BY <1>b, <1>w, <2>1, <3>1, <3>6, AdvanceIs, <2>3
      <4>2. "ready" \notin has'
        BY <2>5, <3>2, <3>3, <4>1
      <4> QED BY <2>6, <2>7, <3>4, <3>6, <4>2 DEF AdminInv
    <3> QED BY <2>2, <3>5, <3>6
  <2>8. CASE l.prog = "remove"
    <3>1. RemoveAt(l.pc, i)
      BY <2>3, <2>8 DEF Does
    <3>2. i.op \notin {"teardown_on", "alloc"} /\ (l.pc = 2 => i.op = "teardown_off") /\ (i.op = "devres" => l.pc = 14 + 5 * N)
      <4>1. i.op \notin {"teardown_on", "alloc"}
        BY <3>1 DEF RemoveAt, DisableAt
      <4>2. i.op = "devres" => l.pc = 14 + 5 * N
        BY <3>1 DEF RemoveAt, DisableAt
      <4>3. l.pc = 2 => i.op = "teardown_off"
        <5> SUFFICES ASSUME l.pc = 2 PROVE i.op = "teardown_off"
          OBVIOUS
        <5>1. \A e \in Ppes : e \in Nat
          BY DEF Ppes
        <5>2. ~DisableAt(4, 2, i)
          BY <1>b, <5>1 DEF DisableAt
        <5> QED BY <1>b, <3>1, <5>1, <5>2 DEF RemoveAt
      <4> QED BY <4>1, <4>2, <4>3
    <3>3. "ready" \in has' => "ready" \in has /\ l.pc < 2 /\ "priv" \in has'
      <4> SUFFICES ASSUME "ready" \in has' PROVE "ready" \in has /\ l.pc < 2 /\ "priv" \in has'
        OBVIOUS
      <4>1. "ready" \in has /\ i.op # "teardown_off"
        BY <2>5, <3>2
      <4>2. l.pc <= 2 /\ l.pc # 2
        BY <2>3, <2>8, <3>2, <4>1 DEF AdminInv
      <4>3. i.op # "devres" /\ "priv" \in has
        BY <1>b, <2>3, <3>2, <4>1, <4>2 DEF AdminInv
      <4> QED BY <2>3, <2>5, <4>1, <4>2, <4>3
    <3>4. CASE l2 = Idle
      BY <1>w, <2>6, <3>3, <3>4 DEF AdminInv
    <3>5. CASE l2.prog = l.prog /\ l2.pc = l.pc + 1
      <4>1. l2.pc > 2 => "ready" \notin has'
        BY <2>3, <3>3, <3>5
      <4> QED BY <2>6, <2>8, <3>3, <3>5, <4>1 DEF AdminInv
    <3> QED BY <2>2, <3>4, <3>5
  <2>9. CASE l.prog \in {"err_out", "err_out1", "err_out2"}
    <3>1. i.op \notin {"teardown_on", "alloc"} /\ "ready" \notin has
      <4>1. "ready" \notin has
        BY <2>9 DEF AdminInv
      <4>2. i.op \notin {"teardown_on", "alloc"}
        BY <2>3, <2>9 DEF Does, ErrOutAt, ErrOut1At, ErrOut2At
      <4> QED BY <4>1, <4>2
    <3>2. "ready" \notin has'
      BY <2>5, <3>1
    <3> QED BY <1>w, <2>2, <2>6, <2>9, <3>2 DEF AdminInv
  <2> QED BY <2>3, <2>7, <2>8, <2>9 DEF ProgramsOf
<1>4. ASSUME NEW a \in Actors, Fails(a) PROVE AdminInv'
  <2>1. /\ \A b \in Actors \ {a} : at'[b] = at[b]
        /\ \/ at[a].prog = "enable" /\ at'[a] = Idle
           \/ at[a].prog = "probe" /\ a = "admin" /\ at'[a].prog \in {"err_out", "err_out1", "err_out2"}
    BY <1>b, <1>4, FailsAt
  <2>2. has' = has
    BY <1>4 DEF Fails
  <2>3. CASE a = "admin"
    <3>1. at'["event"] = at["event"]
      BY <1>w, <2>1, <2>3
    <3> QED BY <1>w, <2>1, <2>2, <2>3, <3>1 DEF AdminInv
  <2>4. CASE a # "admin"
    <3>1. at'["admin"] = at["admin"]
      BY <1>w, <2>1, <2>4
    <3>2. at'["event"] # Idle => at["event"] # Idle
      BY <1>w, <2>1, <2>4
    <3> QED BY <2>2, <3>1, <3>2 DEF AdminInv
  <2> QED BY <2>3, <2>4
<1>5. CASE Outside
  BY <1>5 DEF AdminInv, Outside
<1> QED BY <1>b, <1>1, <1>2, <1>3, <1>4, <1>5, Kinds

LEMMA Started ==
  ASSUME Init
  PROVE  /\ Basic /\ AdminInv /\ OneInv /\ SweptInv /\ SmaInv /\ LifeInv
         /\ TimerInv /\ WifiInv
<1>1. /\ at = [a \in Actors |-> Idle] /\ has = {} /\ nf = 0 /\ sma = [e \in Ppes |-> "build"]
      /\ bound = [e \in Ppes |-> None] /\ timer = "unset"
      /\ Idle.prog = "none" /\ "admin" \in Actors /\ "event" \in Actors
  BY Actor DEF Init, Idle
<1>2. \A a \in Actors : at[a] = Idle /\ ~Switching(a)
  BY <1>1 DEF Switching
<1>3. AdminInv
  BY <1>1, <1>2 DEF AdminInv
<1>4. OneInv
  BY <1>2 DEF OneInv, OneAtATime
<1>5. SmaInv /\ SweptInv /\ TimerInv /\ WifiInv
  BY <1>1 DEF SmaInv, Waiting, SweptInv, TimerInv, WifiInv
<1>6. LifeInv
  BY <1>1, <1>2 DEF LifeInv, Quiescent, Bare
<1> QED BY <1>3, <1>4, <1>5, <1>6, BasicInit
-------------------------------------------------------------------------------
(***************************************************************************)
(* Bound entries.                                                          *)
(***************************************************************************)
LEMMA Parity ==
  ASSUME NEW n \in Nat, NEW e \in Nat, NEW p \in Nat
  PROVE  n + 2 + 2 * e # n + 2 * p + 1 /\ (n + 2 + 2 * e = n + 2 * p + 2 => p = e)
<1>1. n + 2 + 2 * e = n + 2 * p + 1 => FALSE
  OBVIOUS
<1>2. n + 2 + 2 * e = n + 2 * p + 2 => p = e
  OBVIOUS
<1> QED BY <1>1, <1>2

(* The step that deletes what engine e has bound.                            *)
LEMMA AtSweep ==
  ASSUME NEW n \in Nat, NEW e \in Ppes, NEW i, DisableAt(n, n + 2 + 2 * e, i)
  PROVE  i.op = "sweep" /\ i.ppe = e
<1>0. N \in Nat \ {0} /\ 2 * N \in Nat /\ e \in Nat /\ 1 <= e /\ e <= N
  BY NType DEF Ppes, N
<1>1. n + 2 + 2 * e # n + 1 /\ n + 2 + 2 * e # n + 2
  BY <1>0
<1>2. n + 2 + 2 * e # n + 3 + 2 * N /\ n + 2 + 2 * e # n + 4 + 2 * N
  BY <1>0
<1>3. PICK k \in Nat : k = n + 2 + 2 * e /\ DisableAt(n, k, i)
  BY <1>0
<1>4. \/ i.op = "fwd" /\ i.ppe \in Ppes /\ k = n + 2 * i.ppe + 1
      \/ i.op = "sweep" /\ i.ppe \in Ppes /\ k = n + 2 * i.ppe + 2
  BY <1>1, <1>2, <1>3 DEF DisableAt
<1>5. PICK p \in Nat : p = i.ppe
  BY <1>4 DEF Ppes
<1>6. k # n + 2 * p + 1 /\ (k = n + 2 * p + 2 => p = e)
  BY <1>0, <1>3, Parity
<1> QED BY <1>4, <1>5, <1>6

LEMMA KeepsUnswept ==
  ASSUME AtOK, NEW a \in Actors, at[a] # Idle, Advance(a), NEW e \in Ppes, Unswept(e),
         ~(Instruction(a).op = "sweep" /\ Instruction(a).ppe = e)
  PROVE  Unswept(e)'
<1> DEFINE i == Instruction(a)
<1>0. N \in Nat \ {0} /\ 2 * N \in Nat /\ 5 * N \in Nat /\ e \in Nat /\ e <= N
  BY NType DEF Ppes, N
<1>1. PICK b \in Actors : \/ at[b].prog = "disable" /\ at[b].pc <= 2 + 2 * e
                          \/ at[b].prog = "remove" /\ at[b].pc <= 6 + 2 * e
  BY DEF Unswept
<1>2. /\ \A c \in Actors \ {a} : at'[c] = at[c]
      /\ \/ at'[a] = Idle /\ at[a].pc = LastStep[at[a].prog]
         \/ at'[a].prog = at[a].prog /\ at'[a].pc = at[a].pc + 1
  BY AdvanceIs
<1>3. /\ at[a].pc \in 1 .. LastStep[at[a].prog] /\ LastStep[at[a].prog] \in Nat
      /\ Does(at[a].prog, at[a].pc, i) /\ i \in Instr
  BY StepAt DEF Instruction
<1> HIDE DEF i
<1>4. CASE b # a
  <2>1. at'[b] = at[b]
    BY <1>2, <1>4
  <2> QED BY <1>1, <2>1 DEF Unswept
<1>5. CASE b = a /\ at[a].prog = "disable" /\ at[a].pc <= 2 + 2 * e
  <2>1. DisableAt(0, at[a].pc, i) /\ LastStep[at[a].prog] = 4 + 2 * N
    BY <1>3, <1>5 DEF Does, LastStep
  <2>2. at[a].pc \in Nat /\ at[a].pc # 4 + 2 * N
    BY <1>0, <1>3, <1>5
  <2>3. at[a].pc # 2 + 2 * e
    <3> SUFFICES ASSUME at[a].pc = 2 + 2 * e PROVE FALSE
      OBVIOUS
    <3>1. 0 + 2 + 2 * e = 2 + 2 * e
      BY <1>0
    <3>2. DisableAt(0, 0 + 2 + 2 * e, i) /\ 0 \in Nat
      BY <2>1, <3>1
    <3>4. i.op = "sweep" /\ i.ppe = e
      BY <3>2, AtSweep
    <3> QED BY <3>4 DEF i
  <2>4. at'[a].prog = "disable" /\ at'[a].pc = at[a].pc + 1
    BY <1>2, <1>5, <2>1, <2>2
  <2>5. at'[a].pc <= 2 + 2 * e
    BY <1>0, <1>5, <2>2, <2>3, <2>4
  <2> QED BY <2>4, <2>5 DEF Unswept
<1>6. CASE b = a /\ at[a].prog = "remove" /\ at[a].pc <= 6 + 2 * e
  <2>1. RemoveAt(at[a].pc, i) /\ LastStep[at[a].prog] = 14 + 5 * N
    BY <1>3, <1>6 DEF Does, LastStep
  <2>2. at[a].pc \in Nat /\ at[a].pc # 14 + 5 * N
    BY <1>0, <1>3, <1>6
  <2>3. at[a].pc # 6 + 2 * e
    <3> SUFFICES ASSUME at[a].pc = 6 + 2 * e PROVE FALSE
      OBVIOUS
    <3>1. 6 + 2 * e \notin {1, 2, 3, 4, 9 + 2 * N, 10 + 5 * N, 11 + 5 * N, 12 + 5 * N, 13 + 5 * N, 14 + 5 * N}
      BY <1>0
    <3>2. ASSUME NEW p \in Ppes
          PROVE  6 + 2 * e # 3 * p + 7 + 2 * N /\ 6 + 2 * e # 3 * p + 8 + 2 * N /\ 6 + 2 * e # 3 * p + 9 + 2 * N
      <4>1. p \in Nat
        BY DEF Ppes
      <4> QED BY <1>0, <4>1
    <3>3. DisableAt(4, 6 + 2 * e, i)
      BY <2>1, <3>1, <3>2 DEF RemoveAt
    <3>4. i.op = "sweep" /\ i.ppe = e
      <4>1. 4 + 2 + 2 * e = 6 + 2 * e
        BY <1>0
      <4> QED BY <3>3, <4>1, AtSweep
    <3> QED BY <3>4 DEF i
  <2>4. at'[a].prog = "remove" /\ at'[a].pc = at[a].pc + 1
    BY <1>2, <1>6, <2>1, <2>2
  <2>5. at'[a].pc <= 6 + 2 * e
    BY <1>0, <1>6, <2>2, <2>3, <2>4
  <2> QED BY <2>4, <2>5 DEF Unswept
<1> QED BY <1>1, <1>4, <1>5, <1>6

(* Hooks go in programs that then delete what is bound.                      *)
LEMMA HooksGo ==
  ASSUME AtOK, NEW a \in Actors, at[a] # Idle, Advance(a), Instruction(a).op \in {"ra_off", "nf_off"}, NEW e \in Ppes
  PROVE  Unswept(e)'
<1> DEFINE i == Instruction(a)
<1>0. N \in Nat \ {0} /\ 2 * N \in Nat /\ 5 * N \in Nat /\ e \in Nat /\ 1 <= e
  BY NType DEF Ppes, N
<1>2. \/ at'[a] = Idle /\ at[a].pc = LastStep[at[a].prog]
      \/ at'[a].prog = at[a].prog /\ at'[a].pc = at[a].pc + 1
  BY AdvanceIs
<1>3. Does(at[a].prog, at[a].pc, i)
  BY StepAt DEF Instruction
<1> HIDE DEF i
<1>4. i.op \in {"ra_off", "nf_off"}
  BY DEF i
<1>5. at[a].prog \notin {"probe", "enable", "warm", "err_out", "err_out1", "err_out2"}
  BY <1>3, <1>4 DEF Does, ProbeAt, EnableAt, WarmAt, ErrOutAt, ErrOut1At, ErrOut2At
<1>6. CASE at[a].prog = "disable"
  <2>1. at[a].pc \in {1, 2}
    BY <1>3, <1>4, <1>6 DEF Does, DisableAt
  <2>2. LastStep[at[a].prog] = 4 + 2 * N
    BY <1>6 DEF LastStep
  <2>3. at'[a].prog = "disable" /\ at'[a].pc <= 2 + 2 * e
    BY <1>0, <1>2, <1>6, <2>1, <2>2
  <2> QED BY <2>3 DEF Unswept
<1>7. CASE at[a].prog = "remove"
  <2>1. at[a].pc \in {5, 6}
    BY <1>3, <1>4, <1>7 DEF Does, RemoveAt, DisableAt
  <2>2. LastStep[at[a].prog] = 14 + 5 * N
    BY <1>7 DEF LastStep
  <2>3. at'[a].prog = "remove" /\ at'[a].pc <= 6 + 2 * e
    BY <1>0, <1>2, <1>7, <2>1, <2>2
  <2> QED BY <2>3 DEF Unswept
<1> QED BY <1>3, <1>5, <1>6, <1>7 DEF Does

LEMMA SweptStep ==
  ASSUME Basic, SweptInv, [Next]_vars
  PROVE  SweptInv'
<1>b. AtOK /\ Domains /\ nf \in Nat /\ Idle.prog = "none"
  BY DEF Basic, Domains, Idle
<1> USE DEF Hooked
<1>1. ASSUME NEW a \in Actors, NEW p \in ProgramsOf(a) \ {"err_out", "err_out1", "err_out2"}, Starts(a, p)
      PROVE  SweptInv'
  <2>1. (\A b \in Actors \ {a} : at'[b] = at[b]) /\ at[a] = Idle /\ UNCHANGED <<has, nf, bound>>
    BY <1>b, <1>1, StartsAt DEF Starts
  <2>2. \A e \in Ppes : Unswept(e) => Unswept(e)'
    BY <1>b, <2>1 DEF Unswept
  <2> QED BY <2>1, <2>2 DEF SweptInv
<1>2. ASSUME NEW a \in Actors, Step(a) PROVE SweptInv'
  <2> DEFINE i == Instruction(a)
  <2>1. at[a] # Idle /\ Advance(a) /\ Effect(i, has, nf, mem, has', nf', mem')
    BY <1>b, <1>2, StepEffect
  <2> SUFFICES ASSUME ~Hooked', NEW e \in Ppes, bound'[e] # None
               PROVE  bound'[e].late \/ Unswept(e)'
    BY DEF SweptInv
  <2>2. bound'[e] = bound[e] /\ ~(i.op = "sweep" /\ i.ppe = e)
    BY <1>b, <1>2, StepOnEngines
  <2>3. CASE ~Hooked
    <3>1. bound[e].late \/ Unswept(e)
      BY <2>2, <2>3 DEF SweptInv
    <3>2. Unswept(e) => Unswept(e)'
      BY <1>b, <2>1, <2>2, KeepsUnswept
    <3> QED BY <2>2, <3>1, <3>2
  <2>4. CASE Hooked
    <3> HIDE DEF i
    <3>1. /\ "ra" \in has' <=> i.op = "ra_on" \/ ("ra" \in has /\ i.op # "ra_off")
          /\ nf' = IF i.op = "nf_on" THEN nf + 1 ELSE IF i.op = "nf_off" /\ nf # 0 THEN nf - 1 ELSE nf
      BY <2>1 DEF Effect, Plus, Minus, Flags
    <3>2. i.op \in {"ra_off", "nf_off"}
      BY <1>b, <2>4, <3>1
    <3> QED BY <1>b, <2>1, <3>2, HooksGo DEF i
  <2> QED BY <2>3, <2>4
<1>3. ASSUME NEW a \in Actors, Fails(a) PROVE SweptInv'
  <2>1. (\A b \in Actors \ {a} : at'[b] = at[b]) /\ at[a].prog \in {"enable", "probe"} /\ UNCHANGED <<has, nf, bound>>
    BY <1>b, <1>3, FailsAt DEF Fails
  <2>2. \A e \in Ppes : Unswept(e) => Unswept(e)'
    BY <2>1 DEF Unswept
  <2> QED BY <2>1, <2>2 DEF SweptInv
<1>4. CASE Outside
  <2>1. /\ UNCHANGED <<has, nf, at>>
        /\ \A e \in Ppes : bound'[e] \in {bound[e], None} \/ (~Hooked => bound'[e].late)
    BY <1>4 DEF Outside
  <2>2. \A e \in Ppes : Unswept(e) <=> Unswept(e)'
    BY <2>1 DEF Unswept
  <2> QED BY <2>1, <2>2 DEF SweptInv
<1> QED BY <1>b, <1>1, <1>2, <1>3, <1>4, Kinds

(* With the hooks off nothing is bound, unless by a packet that was in a     *)
(* hook then (lines 1505-1526 of hnat.c): whoever unregisters hooks goes on  *)
(* to delete what every engine has bound.                                    *)
THEOREM HooksOffUnbound == Spec => []NoBoundWhenOff
<1>1. Init => SweptInv
  BY Started
<1>2. Basic /\ SweptInv /\ [Next]_vars => SweptInv'
  BY SweptStep
<1>3. SweptInv => NoBoundWhenOff
  <2> SUFFICES ASSUME SweptInv, Quiet, ~Hooked, NEW e \in Ppes, bound[e] # None
               PROVE  bound[e].late
    BY DEF NoBoundWhenOff
  <2>1. bound[e].late \/ Unswept(e)
    BY DEF SweptInv
  <2>2. ~Unswept(e)
    BY DEF Quiet, Switching, Unswept
  <2> QED BY <2>1, <2>2
<1> QED BY <1>1, <1>2, <1>3, BasicInvariant, PTL DEF Spec
-------------------------------------------------------------------------------
(***************************************************************************)
(* Engines that only forward.                                              *)
(***************************************************************************)
LEMMA OneStep ==
  ASSUME Basic, OneInv, [Next]_vars
  PROVE  OneInv'
<1>b. AtOK /\ Domains /\ Idle.prog = "none"
  BY DEF Basic, Idle
<1>1. ASSUME NEW a \in Actors, NEW p \in ProgramsOf(a) \ {"err_out", "err_out1", "err_out2"}, Starts(a, p)
      PROVE  OneInv'
  <2>1. /\ at'[a].prog = p /\ \A b \in Actors \ {a} : at'[b] = at[b]
        /\ raced => raced'
        /\ ~raced' /\ p # "warm" => \A b \in Actors \ {a} : ~Switching(b)
    BY <1>b, <1>1, StartsAt DEF Starts
  <2>2. CASE p = "warm"
    <3>1. \A b \in Actors : Switching(b)' => Switching(b)
      BY <2>1, <2>2 DEF Switching
    <3> QED BY <2>1, <3>1 DEF OneInv, OneAtATime
  <2>3. CASE p # "warm"
    <3>1. ~raced' => \A b \in Actors \ {a} : ~Switching(b)'
      BY <2>1, <2>3 DEF Switching
    <3> QED BY <3>1 DEF OneInv, OneAtATime
  <2> QED BY <2>2, <2>3
<1>2. ASSUME NEW a \in Actors, Step(a) PROVE OneInv'
  <2>1. at[a] # Idle /\ Advance(a) /\ (raced => raced')
    BY <1>b, <1>2, StepEffect, StepOnEngines
  <2>2. \A b \in Actors : Switching(b)' => Switching(b)
    BY <1>b, <2>1, AdvanceIs DEF Switching
  <2> QED BY <2>1, <2>2 DEF OneInv, OneAtATime
<1>3. ASSUME NEW a \in Actors, Fails(a) PROVE OneInv'
  <2>1. \A b \in Actors : Switching(b)' => Switching(b)
    BY <1>b, <1>3, FailsAt DEF Switching
  <2> QED BY <1>3, <2>1 DEF OneInv, OneAtATime, Fails
<1>4. CASE Outside
  <2>1. \A b \in Actors : Switching(b)' => Switching(b)
    BY <1>4 DEF Outside, Switching
  <2> QED BY <1>4, <2>1 DEF OneInv, OneAtATime, Outside
<1> QED BY <1>b, <1>1, <1>2, <1>3, <1>4, Kinds

(* The step that resets engine e.                                            *)
LEMMA AtReset ==
  ASSUME NEW e \in Ppes, NEW i, ProbeAt(3 * e + 6, i)
  PROVE  i.op = "hw_init" /\ i.ppe = e
<1>0. N \in Nat \ {0} /\ 3 * N \in Nat /\ e \in Nat /\ 1 <= e /\ e <= N
  BY NType DEF Ppes, N
<1>1. 3 * e + 6 > 6 /\ 3 * e + 6 < 7 + 3 * N
  BY <1>0
<1>2. PICK k \in Nat : k = 3 * e + 6 /\ ProbeAt(k, i)
  BY <1>0
<1>3. /\ i.op \in {"table", "mib", "hw_init"} /\ i.ppe \in Ppes
      /\ \/ i.op = "table" /\ k = 3 * i.ppe + 4
         \/ i.op = "mib" /\ k = 3 * i.ppe + 5
         \/ i.op = "hw_init" /\ k = 3 * i.ppe + 6
  BY <1>0, <1>1, <1>2 DEF ProbeAt
<1>4. PICK p \in Nat : p = i.ppe
  BY <1>3 DEF Ppes
<1>5. 3 * e + 6 # 3 * p + 4
  BY <1>0
<1>6. 3 * e + 6 # 3 * p + 5
  BY <1>0
<1>7. 3 * e + 6 = 3 * p + 6 => p = e
  BY <1>0
<1> QED BY <1>2, <1>3, <1>4, <1>5, <1>6, <1>7

(* The step that takes the timers back.                                      *)
LEMMA RemoveTimers ==
  ASSUME NEW k \in Nat, NEW i, RemoveAt(k, i), k = 13 + 5 * N
  PROVE  i.op = "timers_off"
<1>0. N \in Nat \ {0} /\ 2 * N \in Nat /\ 3 * N \in Nat /\ 5 * N \in Nat
  BY NType
<1>1. ASSUME NEW e \in Ppes
      PROVE  3 * e + 9 + 2 * N <= 9 + 5 * N /\ 4 + 2 * e + 2 < 7 + 2 * N
  <2>1. e \in Nat /\ 1 <= e /\ e <= N
    BY DEF Ppes, N
  <2> QED BY <1>0, <2>1
<1>2. \A e \in Ppes : e \in Nat
  BY DEF Ppes
<1>3. ~DisableAt(4, k, i)
  BY <1>0, <1>1, <1>2 DEF DisableAt
<1> QED BY <1>0, <1>1, <1>2, <1>3 DEF RemoveAt

(* Only probe sets the timer up, and only removal takes it back.             *)
LEMMA TimerStep ==
  ASSUME Basic, AdminInv, TimerInv, [Next]_vars
  PROVE  TimerInv'
<1>b. AtOK /\ Domains /\ Idle.prog = "none" /\ N \in Nat \ {0} /\ 3 * N \in Nat /\ 5 * N \in Nat
  BY NType DEF Basic, Idle
<1>w. "admin" \in Actors /\ "event" \in Actors /\ "admin" # "event"
  BY Actor
<1>1. ASSUME NEW a \in Actors, NEW p \in ProgramsOf(a) \ {"err_out", "err_out1", "err_out2"}, Starts(a, p)
      PROVE  TimerInv'
  <2>1. /\ at'[a].prog = p /\ at'[a].pc = 1 /\ \A b \in Actors \ {a} : at'[b] = at[b]
        /\ UNCHANGED <<has, timer>> /\ (p = "probe" => "priv" \notin has)
    BY <1>b, <1>1, StartsAt DEF Starts
  <2>2. CASE a = "admin"
    <3>1. 1 <= 13 + 5 * N
      BY <1>b
    <3> QED BY <2>1, <2>2, <3>1 DEF TimerInv
  <2>3. CASE a # "admin"
    BY <1>w, <2>1, <2>3 DEF TimerInv
  <2> QED BY <2>2, <2>3
<1>2. ASSUME NEW a \in Actors, Step(a), a # "admin" PROVE TimerInv'
  <2>1. at[a] # Idle /\ Advance(a) /\ ("priv" \in has' <=> "priv" \in has)
    BY <1>b, <1>2, StepEffect, OthersKeep
  <2>2. at'["admin"] = at["admin"]
    BY <1>b, <1>w, <1>2, <2>1, AdvanceIs
  <2>3. /\ EngineStep(Instruction(a))
        /\ Instruction(a).op \notin {"timers_on", "timers_off"}
    BY <1>b, <1>2, <2>1, StepOnEngines, OthersOps
  <2>4. timer' # "unset" => timer # "unset"
    BY <2>3 DEF EngineStep, ArmSmaTimer
  <2> QED BY <2>1, <2>2, <2>4 DEF TimerInv
<1>3. ASSUME Step("admin") PROVE TimerInv'
  <2> DEFINE i == Instruction("admin")
             l == at["admin"]
             l2 == at'["admin"]
  <2>1. at["admin"] # Idle /\ Advance("admin") /\ Effect(i, has, nf, mem, has', nf', mem')
    BY <1>b, <1>w, <1>3, StepEffect
  <2>2. \/ l2 = Idle /\ l.pc = LastStep[l.prog]
        \/ l2.prog = l.prog /\ l2.pc = l.pc + 1 /\ l.pc < LastStep[l.prog]
    BY <1>b, <1>w, <2>1, AdvanceIs
  <2>3. /\ l.prog \in ProgramsOf("admin") /\ l.pc \in 1 .. LastStep[l.prog] /\ LastStep[l.prog] \in Nat
        /\ Does(l.prog, l.pc, i) /\ l.pc \in Nat
    BY <1>b, <1>w, <2>1, StepAt DEF Instruction
  <2>4. EngineStep(i)
    BY <1>b, <1>w, <1>3, StepOnEngines
  <2> HIDE DEF i
  <2>5. "priv" \in has' <=> i.op = "alloc" \/ ("priv" \in has /\ i.op # "devres")
    BY <2>1 DEF Effect, Plus, Minus, Flags
  <2>6. timer' # "unset" => i.op # "timers_off" /\ (timer # "unset" \/ i.op = "timers_on")
    BY <2>4 DEF EngineStep, ArmSmaTimer
  <2>7. CASE l.prog = "probe"
    <3>1. ProbeAt(l.pc, i) /\ LastStep[l.prog] = 16 + 3 * N
      BY <2>3, <2>7 DEF Does, LastStep
    <3>2. i.op # "devres" /\ (i.op = "timers_on" => l.pc = 14 + 3 * N)
      BY <3>1 DEF ProbeAt
    <3>3. timer' # "unset" => l.pc > 13 + 3 * N
      BY <1>b, <2>3, <2>6, <2>7, <3>2 DEF TimerInv
    <3>4. l.pc > 13 + 3 * N => "priv" \in has' /\ l.pc + 1 > 14 + 3 * N
      <4>1. l.pc > 13 + 3 * N => l.pc > 1 /\ l.pc + 1 > 14 + 3 * N
        BY <1>b, <2>3
      <4> QED BY <2>5, <2>7, <3>2, <4>1 DEF AdminInv
    <3> QED BY <1>b, <2>2, <2>7, <3>3, <3>4 DEF TimerInv
  <2>8. CASE l.prog = "remove"
    <3>1. RemoveAt(l.pc, i) /\ LastStep[l.prog] = 14 + 5 * N
      BY <2>3, <2>8 DEF Does, LastStep
    <3>2. i.op # "timers_on" /\ (i.op = "devres" => l.pc = 14 + 5 * N)
          /\ (l.pc = 13 + 5 * N => i.op = "timers_off")
      <4>1. i.op # "timers_on" /\ (i.op = "devres" => l.pc = 14 + 5 * N)
        BY <3>1 DEF RemoveAt, DisableAt
      <4>2. l.pc = 13 + 5 * N => i.op = "timers_off"
        BY <2>3, <3>1, RemoveTimers
      <4> QED BY <4>1, <4>2
    <3>3. timer' # "unset" => "priv" \in has /\ l.pc <= 13 + 5 * N /\ l.pc # 13 + 5 * N
      BY <2>6, <2>8, <3>2 DEF TimerInv
    <3>4. timer' # "unset" => "priv" \in has' /\ l.pc + 1 <= 13 + 5 * N /\ l.pc # 14 + 5 * N
      <4>1. l.pc <= 13 + 5 * N /\ l.pc # 13 + 5 * N => l.pc + 1 <= 13 + 5 * N /\ l.pc # 14 + 5 * N
        BY <1>b, <2>3
      <4> QED BY <2>5, <3>2, <3>3, <4>1
    <3> QED BY <1>b, <2>2, <2>8, <3>1, <3>4 DEF TimerInv
  <2>9. CASE l.prog \in {"err_out", "err_out1", "err_out2"}
    <3>1. i.op # "timers_on"
      BY <2>3, <2>9 DEF Does, ErrOutAt, ErrOut1At, ErrOut2At
    <3>2. timer' = "unset"
      BY <2>6, <2>9, <3>1 DEF TimerInv
    <3> QED BY <3>2 DEF TimerInv
  <2> QED BY <2>3, <2>7, <2>8, <2>9 DEF ProgramsOf
<1>4. ASSUME NEW a \in Actors, Fails(a) PROVE TimerInv'
  <2>1. /\ \A b \in Actors \ {a} : at'[b] = at[b]
        /\ \/ at[a].prog = "enable" /\ at'[a] = Idle
           \/ /\ at[a].prog = "probe" /\ a = "admin"
              /\ \/ at[a].pc <= 5
                 \/ at[a].pc = 6
                 \/ at[a].pc <= 9 + 3 * N
        /\ UNCHANGED <<has, timer>>
    BY <1>b, <1>4, FailsAt DEF Fails
  <2>2. CASE a = "admin" /\ at[a].prog = "probe"
    <3>1. at[a].pc \in Nat
      BY <1>b DEF AtOK
    <3>2. ~(at[a].pc > 14 + 3 * N)
      BY <1>b, <2>1, <2>2, <3>1
    <3> QED BY <2>1, <2>2, <3>2 DEF TimerInv
  <2>3. CASE a = "admin" /\ at'[a] = Idle
    BY <1>b, <2>1, <2>3 DEF TimerInv
  <2>4. CASE a # "admin"
    BY <1>w, <2>1, <2>4 DEF TimerInv
  <2> QED BY <2>1, <2>2, <2>3, <2>4
<1>5. CASE Outside
  <2>1. UNCHANGED <<has, at>> /\ (timer' # "unset" => timer # "unset")
    BY <1>5 DEF Outside, ArmSmaTimer
  <2> QED BY <2>1 DEF TimerInv
<1> QED BY <1>b, <1>1, <1>2, <1>3, <1>4, <1>5, Kinds

LEMMA SmaStep ==
  ASSUME Basic, AdminInv, OneInv, SmaInv, TimerInv, [Next]_vars
  PROVE  SmaInv'
<1>b. AtOK /\ Domains /\ Idle.prog = "none" /\ N \in Nat \ {0} /\ 2 * N \in Nat /\ 3 * N \in Nat
  BY NType DEF Basic, Idle
<1>w. /\ "admin" \in Actors /\ "event" \in Actors /\ "admin" # "event"
      /\ \A w \in Writers : w \in Actors /\ w # "admin" /\ w # "event"
  BY Actor
<1>s. SmaInv <=> /\ ~raced /\ "ready" \in has /\ ~Forwarding => \A e \in Ppes : Waiting(e)
                 /\ ~raced /\ at["admin"].prog = "probe" =>
                      \A e \in Ppes : at["admin"].pc > 3 * e + 6 => Waiting(e)
  BY DEF SmaInv, Forwarding
<1>1. ASSUME NEW a \in Actors, NEW p \in ProgramsOf(a) \ {"err_out", "err_out1", "err_out2"}, Starts(a, p)
      PROVE  SmaInv'
  <2>1. /\ at'[a].prog = p /\ at'[a].pc = 1 /\ \A b \in Actors \ {a} : at'[b] = at[b]
        /\ at[a] = Idle /\ UNCHANGED <<has, sma, timer, lost>> /\ (raced => raced')
    BY <1>b, <1>1, StartsAt DEF Starts
  <2>5. \A e \in Ppes : Waiting(e)' <=> Waiting(e)
    BY <2>1 DEF Waiting
  <2>2. Forwarding => Forwarding'
    BY <1>b, <1>w, <2>1 DEF Forwarding
  <2>3. at'["admin"].prog = "probe" => at'["admin"] = at["admin"] \/ at'["admin"].pc = 1
    BY <1>w, <2>1
  <2>4. \A e \in Ppes : ~(1 > 3 * e + 6)
    BY DEF Ppes
  <2> QED BY <1>s, <2>1, <2>2, <2>3, <2>4, <2>5 DEF SmaInv, Forwarding
<1>2. ASSUME NEW a \in Actors, Step(a) PROVE SmaInv'
  <2> DEFINE i == Instruction(a)
  <2>1. at[a] # Idle /\ Advance(a) /\ Effect(i, has, nf, mem, has', nf', mem')
    BY <1>b, <1>2, StepEffect
  <2>2. /\ \A b \in Actors \ {a} : at'[b] = at[b]
        /\ \/ at'[a] = Idle /\ at[a].pc = LastStep[at[a].prog]
           \/ /\ at'[a] # Idle /\ at'[a].prog = at[a].prog /\ at'[a].pc = at[a].pc + 1
              /\ at[a].pc < LastStep[at[a].prog]
    BY <1>b, <2>1, AdvanceIs
  <2>3. /\ at[a].prog \in ProgramsOf(a) /\ at[a].pc \in 1 .. LastStep[at[a].prog] /\ LastStep[at[a].prog] \in Nat
        /\ Does(at[a].prog, at[a].pc, i) /\ at[a].pc \in Nat
    BY <1>b, <2>1, StepAt DEF Instruction
  <2>4. (raced => raced') /\ EngineStep(i)
    BY <1>b, <1>2, StepOnEngines
  <2>5. "ready" \in has' <=> i.op = "teardown_on" \/ ("ready" \in has /\ i.op # "teardown_off")
    BY <2>1 DEF Effect, Plus, Minus, Flags
  <2>6. a # "admin" => /\ a = "event" => i.op \in {"netevent_off", "clear", "hw_init", "netevent_on"}
                       /\ a # "event" => /\ at[a].prog \in {"enable", "disable"} /\ a \in Writers
    BY <1>b, <2>1, OthersOps
  <2> HIDE DEF i
  <2>a. ArmSmaTimer => \A e \in Ppes : Waiting(e)'
    BY DEF ArmSmaTimer, Waiting
  <2>c. ASSUME NEW e \in Ppes, Waiting(e), i.op \notin {"fwd", "timers_on", "timers_off"}
        PROVE  Waiting(e)'
    <3>1. CASE ArmSmaTimer
      BY <2>a, <3>1
    <3>2. CASE ~ArmSmaTimer
      <4>1. timer' = timer /\ ("timer" \in lost' <=> "timer" \in lost) /\ sma'[e] \in {sma[e], "build"}
        BY <2>4, <2>c, <3>2 DEF EngineStep
      <4> QED BY <2>c, <4>1 DEF Waiting
    <3> QED BY <3>1, <3>2
  <2>7. ASSUME ~raced', "ready" \in has', ~Forwarding', NEW e \in Ppes
        PROVE  Waiting(e)'
    <3>1. ASSUME ~Forwarding, "ready" \in has, i.op \notin {"fwd", "timers_on", "timers_off"}
          PROVE  Waiting(e)'
      BY <1>s, <2>4, <2>7, <2>c, <3>1
    <3>2. CASE a = "admin"
      <4>1. ~Forwarding
        BY <1>w, <2>2, <2>7, <3>2 DEF Forwarding
      <4>2. CASE at[a].prog = "probe"
        <5>1. ProbeAt(at[a].pc, i) /\ "ready" \notin has
          BY <2>3, <3>2, <4>2 DEF Does, AdminInv
        <5>2. i.op = "teardown_on" /\ at[a].pc = 16 + 3 * N
          BY <2>5, <2>7, <5>1 DEF ProbeAt
        <5>3. 16 + 3 * N > 3 * e + 6
          BY <1>b DEF Ppes, N
        <5>4. Waiting(e)
          BY <1>s, <2>4, <2>7, <3>2, <4>2, <5>2, <5>3
        <5> QED BY <2>c, <5>2, <5>4
      <4>3. CASE at[a].prog = "remove"
        <5>1. RemoveAt(at[a].pc, i)
          BY <2>3, <4>3 DEF Does
        <5>2. i.op # "teardown_on"
          BY <5>1 DEF RemoveAt, DisableAt
        <5>3. "ready" \in has
          BY <2>5, <2>7, <5>2
        <5>4. at[a].pc <= 2
          BY <2>3, <3>2, <4>3, <5>3 DEF AdminInv
        <5>5. i.op \notin {"fwd", "timers_on", "timers_off"}
          <6>1. \A p \in Ppes : ~(4 + 2 * p + 1 <= 2)
            BY DEF Ppes
          <6>2. i.op # "fwd"
            BY <5>1, <5>4, <6>1 DEF RemoveAt, DisableAt
          <6>3. i.op # "timers_on"
            BY <5>1 DEF RemoveAt, DisableAt
          <6>4. i.op = "timers_off" => at[a].pc = 13 + 5 * N
            BY <5>1 DEF RemoveAt, DisableAt
          <6>5. ~(13 + 5 * N <= 2)
            BY <1>b
          <6> QED BY <5>4, <6>2, <6>3, <6>4, <6>5
        <5> QED BY <3>1, <4>1, <5>3, <5>5
      <4>4. CASE at[a].prog \in {"err_out", "err_out1", "err_out2"}
        <5>1. "ready" \notin has
          BY <3>2, <4>4 DEF AdminInv
        <5>2. i.op # "teardown_on"
          BY <2>3, <4>4 DEF Does, ErrOutAt, ErrOut1At, ErrOut2At
        <5> QED BY <2>5, <2>7, <5>1, <5>2
      <4> QED BY <2>3, <3>2, <4>2, <4>3, <4>4 DEF ProgramsOf
    <3>3. CASE a = "event"
      <4>1. i.op \in {"netevent_off", "clear", "hw_init", "netevent_on"}
        BY <1>w, <2>6, <3>3
      <4>2. ~Forwarding
        BY <1>w, <2>2, <2>7, <3>3 DEF Forwarding
      <4> QED BY <2>5, <2>7, <3>1, <4>1, <4>2
    <3>4. CASE a \notin {"admin", "event"} /\ at[a].prog = "enable"
      <4>1. i.op \in {"ra_on", "nf_on", "del_on"}
        BY <2>3, <3>4 DEF Does, EnableAt
      <4>2. ~Forwarding
        BY <1>w, <2>2, <2>7, <3>4 DEF Forwarding
      <4> QED BY <2>5, <2>7, <3>1, <4>1, <4>2
    <3>5. CASE a \in Writers /\ at[a].prog = "disable"
      <4>1. DisableAt(0, at[a].pc, i) /\ LastStep[at[a].prog] = 4 + 2 * N
        BY <2>3, <3>5 DEF Does, LastStep
      <4>2. CASE at[a].pc < 3 + 2 * N
        <5>1. at'[a].prog = "disable" /\ at'[a].pc <= 3 + 2 * N
          BY <1>b, <2>2, <2>3, <3>5, <4>1, <4>2
        <5> QED BY <2>7, <3>5, <5>1 DEF Forwarding
      <4>3. CASE at[a].pc = 3 + 2 * N
        <5>1. \A p \in Ppes : 3 + 2 * N # 0 + 2 * p + 1 /\ 3 + 2 * N # 0 + 2 * p + 2
          <6> SUFFICES ASSUME NEW p \in Ppes PROVE 3 + 2 * N # 0 + 2 * p + 1 /\ 3 + 2 * N # 0 + 2 * p + 2
            OBVIOUS
          <6>1. p \in Nat /\ p <= N
            BY DEF Ppes, N
          <6> QED BY <1>b, <6>1
        <5>2. 3 + 2 * N # 0 + 1 /\ 3 + 2 * N # 0 + 2 /\ 3 + 2 * N # 0 + 4 + 2 * N
          BY <1>b
        <5>3. i.op = "sma_timer"
          BY <4>1, <4>3, <5>1, <5>2 DEF DisableAt
        <5> QED BY <2>4, <2>a, <5>3 DEF EngineStep
      <4>4. CASE at[a].pc > 3 + 2 * N
        <5>1. i.op \notin {"fwd", "timers_on", "timers_off", "teardown_on"}
          <6>1. \A p \in Ppes : ~(0 + 2 * p + 1 > 3 + 2 * N)
            <7> SUFFICES ASSUME NEW p \in Ppes PROVE ~(0 + 2 * p + 1 > 3 + 2 * N)
              OBVIOUS
            <7>1. p \in Nat /\ p <= N
              BY DEF Ppes, N
            <7> QED BY <1>b, <7>1
          <6>2. i.op # "fwd"
            BY <4>1, <4>4, <6>1 DEF DisableAt
          <6> QED BY <4>1, <6>2 DEF DisableAt
        <5>2. ~Forwarding
          <6> SUFFICES ASSUME NEW w \in Writers, at[w].prog = "disable", at[w].pc <= 3 + 2 * N PROVE FALSE
            BY DEF Forwarding
          <6>1. w # a
            BY <1>b, <2>3, <4>4
          <6>2. at'[w] = at[w]
            BY <1>w, <2>2, <6>1
          <6> QED BY <2>7, <6>2 DEF Forwarding
        <5> QED BY <2>5, <2>7, <3>1, <5>1, <5>2
      <4> QED BY <1>b, <2>3, <4>2, <4>3, <4>4
    <3> QED BY <2>6, <3>2, <3>3, <3>4, <3>5
  <2>8. ASSUME ~raced', at'["admin"].prog = "probe", NEW e \in Ppes, at'["admin"].pc > 3 * e + 6
        PROVE  Waiting(e)'
    <3>0. e \in Nat
      BY DEF Ppes
    <3>1. CASE a = "admin"
      <4>1. at[a].prog = "probe" /\ at'[a].pc = at[a].pc + 1
        BY <1>b, <2>2, <2>8, <3>1
      <4>2. ProbeAt(at[a].pc, i)
        BY <2>3, <4>1 DEF Does
      <4>3. i.op \notin {"fwd", "timers_off", "netdev_off"} /\ (i.op = "timers_on" => at[a].pc = 14 + 3 * N)
        BY <4>2 DEF ProbeAt
      <4>4. CASE at[a].pc = 3 * e + 6
        <5>1. i.op = "hw_init" /\ i.ppe = e
          BY <4>2, <4>4, AtReset
        <5>2. sma'[e] = "build"
          BY <2>4, <5>1 DEF EngineStep
        <5> QED BY <5>2 DEF Waiting
      <4>5. CASE at[a].pc > 3 * e + 6
        <5>1. Waiting(e)
          BY <1>s, <2>4, <2>8, <3>1, <4>1, <4>5
        <5>2. CASE i.op = "timers_on"
          <6>1. timer = "unset"
            BY <1>b, <2>3, <3>1, <4>1, <4>3, <5>2 DEF TimerInv
          <6>2. sma'[e] = sma[e] /\ lost' = lost
            BY <2>4, <4>3, <5>2 DEF EngineStep
          <6> QED BY <5>1, <6>1, <6>2 DEF Waiting
        <5> QED BY <2>c, <4>3, <5>1, <5>2
      <4> QED BY <2>3, <2>8, <3>0, <3>1, <4>1, <4>4, <4>5
    <3>2. CASE a # "admin"
      <4>1. at'["admin"] = at["admin"] /\ Switching("admin")
        BY <1>w, <2>2, <2>8, <3>2 DEF Switching
      <4>2. ~Switching(a)
        BY <1>w, <2>4, <2>8, <3>2, <4>1 DEF OneInv, OneAtATime
      <4>3. a = "event"
        BY <2>6, <3>2, <4>2 DEF Switching
      <4>4. i.op \notin {"fwd", "timers_on", "timers_off"}
        BY <2>6, <3>2, <4>3
      <4>5. Waiting(e)
        BY <1>s, <2>4, <2>8, <4>1
      <4> QED BY <2>c, <4>4, <4>5
    <3> QED BY <3>1, <3>2
  <2> QED BY <2>7, <2>8 DEF SmaInv, Forwarding
<1>3. ASSUME NEW a \in Actors, Fails(a) PROVE SmaInv'
  <2>1. /\ \A b \in Actors \ {a} : at'[b] = at[b]
        /\ \/ at[a].prog = "enable" /\ at'[a] = Idle
           \/ at[a].prog = "probe" /\ a = "admin" /\ at'[a].prog \in {"err_out", "err_out1", "err_out2"}
        /\ UNCHANGED <<has, sma, timer, raced>> /\ ("timer" \in lost' <=> "timer" \in lost)
    BY <1>b, <1>3, FailsAt DEF Fails
  <2>4. \A e \in Ppes : Waiting(e)' <=> Waiting(e)
    BY <2>1 DEF Waiting
  <2>2. Forwarding => Forwarding'
    BY <1>w, <2>1 DEF Forwarding
  <2>3. at'["admin"].prog = "probe" => at'["admin"] = at["admin"]
    BY <1>b, <1>w, <2>1
  <2> QED BY <1>s, <2>1, <2>2, <2>3, <2>4 DEF SmaInv, Forwarding
<1>4. CASE Outside
  <2>1. UNCHANGED <<has, at>> /\ (raced => raced')
    BY <1>4 DEF Outside
  <2>2. \A e \in Ppes : Waiting(e) => Waiting(e)'
    BY <1>4 DEF Outside, ArmSmaTimer, Waiting
  <2> QED BY <1>s, <2>1, <2>2 DEF SmaInv, Forwarding
<1> QED BY <1>b, <1>1, <1>2, <1>3, <1>4, Kinds

(* Whoever stops the engines from building entries, a write (line 1528 of    *)
(* hnat.c), a device going down or the notifier going (380 of                *)
(* hnat_nf_hook.c), arms the timer that lets them build again, and nothing   *)
(* loses it while the driver is there, but a device that goes down between   *)
(* lines 1800 and 1809 of hnat.c, until something arms the timer again.      *)
THEOREM BuildingRestored == Spec => []SmaRestored
<1>1. Init => AdminInv /\ OneInv /\ SmaInv /\ TimerInv
  BY Started
<1>2. Basic /\ AdminInv /\ OneInv /\ SmaInv /\ TimerInv /\ [Next]_vars
        => AdminInv' /\ OneInv' /\ SmaInv' /\ TimerInv'
  BY AdminStep, OneStep, SmaStep, TimerStep
<1>3. SmaInv => SmaRestored
  <2> SUFFICES ASSUME SmaInv, ~raced, Quiet, "ready" \in has, NEW e \in Ppes, sma[e] = "fwd"
               PROVE  timer = "armed" \/ "timer" \in lost
    BY DEF SmaRestored
  <2>1. \A w \in Writers : at[w].prog # "disable"
    BY Actor DEF Quiet, Switching
  <2> QED BY <2>1 DEF SmaInv, Forwarding, Waiting
<1> QED BY <1>1, <1>2, <1>3, BasicInvariant, PTL DEF Spec
-------------------------------------------------------------------------------
(***************************************************************************)
(* Tables.                                                                 *)
(***************************************************************************)
LEMMA AtTable ==
  ASSUME NEW e \in Ppes, NEW i, ProbeAt(3 * e + 4, i)
  PROVE  i.op = "table" /\ i.ppe = e
<1>0. N \in Nat \ {0} /\ 3 * N \in Nat /\ e \in Nat /\ 1 <= e /\ e <= N
  BY NType DEF Ppes, N
<1>1. 3 * e + 4 > 6 /\ 3 * e + 4 < 7 + 3 * N
  BY <1>0
<1>2. PICK k \in Nat : k = 3 * e + 4 /\ ProbeAt(k, i)
  BY <1>0
<1>3. /\ i.op \in {"table", "mib", "hw_init"} /\ i.ppe \in Ppes
      /\ \/ i.op = "table" /\ k = 3 * i.ppe + 4
         \/ i.op = "mib" /\ k = 3 * i.ppe + 5
         \/ i.op = "hw_init" /\ k = 3 * i.ppe + 6
  BY <1>0, <1>1, <1>2 DEF ProbeAt
<1>4. PICK p \in Nat : p = i.ppe
  BY <1>3 DEF Ppes
<1>5. 3 * e + 4 # 3 * p + 5
  BY <1>0
<1>6. 3 * e + 4 # 3 * p + 6
  BY <1>0
<1>7. 3 * e + 4 = 3 * p + 4 => p = e
  BY <1>0
<1> QED BY <1>2, <1>3, <1>4, <1>5, <1>6, <1>7

(* Where the instructions stand that the invariant speaks of.                *)
LEMMA ProbeOps ==
  ASSUME NEW k \in Nat, NEW i, ProbeAt(k, i)
  PROVE  /\ i.op = "debugfs_on" => k = 5
         /\ i.op = "nf_on" <=> k = 9 + 3 * N
         /\ i.op = "del_on" <=> k = 10 + 3 * N
         /\ i.op = "netdev_on" => k = 11 + 3 * N
         /\ i.op = "netevent_on" => k = 12 + 3 * N
         /\ i.op = "teardown_on" <=> k = 16 + 3 * N
         /\ i.op \notin {"debugfs_off", "nf_off", "del_off", "netdev_off", "netevent_off", "teardown_off",
                         "free"}
<1>0. N \in Nat \ {0} /\ 3 * N \in Nat
  BY NType
<1>1. ASSUME NEW c \in {9, 10, 16}, NEW e \in Ppes
      PROVE  c + 3 * N \notin {3 * e + 4, 3 * e + 5, 3 * e + 6}
  <2>1. e \in Nat /\ e <= N
    BY DEF Ppes, N
  <2> QED BY <1>0, <2>1
<1>2. i.op = "debugfs_on" => k = 5
  BY DEF ProbeAt
<1>3. (i.op = "nf_on" => k = 9 + 3 * N) /\ (i.op = "del_on" => k = 10 + 3 * N)
  BY DEF ProbeAt
<1>4. (i.op = "netdev_on" => k = 11 + 3 * N) /\ (i.op = "netevent_on" => k = 12 + 3 * N)
  BY DEF ProbeAt
<1>5. i.op = "teardown_on" => k = 16 + 3 * N
  BY DEF ProbeAt
<1>6. k = 9 + 3 * N => i.op = "nf_on"
  BY <1>0, <1>1 DEF ProbeAt
<1>7. k = 10 + 3 * N => i.op = "del_on"
  BY <1>0, <1>1 DEF ProbeAt
<1>8. k = 16 + 3 * N => i.op = "teardown_on"
  BY <1>0, <1>1 DEF ProbeAt
<1>9. i.op \notin {"debugfs_off", "nf_off", "del_off", "netdev_off", "netevent_off", "teardown_off", "free"}
  BY DEF ProbeAt
<1> QED BY <1>2, <1>3, <1>4, <1>5, <1>6, <1>7, <1>8, <1>9

LEMMA RemoveOps ==
  ASSUME NEW k \in Nat, NEW i, RemoveAt(k, i)
  PROVE  /\ k = 3 => i.op = "netdev_off"
         /\ k = 4 => i.op = "netevent_off"
         /\ k = 6 => i.op = "nf_off"
         /\ k = 8 + 2 * N => i.op = "del_off"
         /\ k = 11 + 5 * N => i.op = "debugfs_off"
         /\ i.op = "free" => k > 9 + 2 * N
         /\ k = 14 + 5 * N => i.op = "devres"
         /\ i.op \notin {"debugfs_on", "nf_on", "del_on", "netdev_on", "netevent_on", "teardown_on", "table"}
<1>0. N \in Nat \ {0} /\ 2 * N \in Nat /\ 3 * N \in Nat /\ 5 * N \in Nat
  BY NType
<1>1. ASSUME NEW e \in Ppes
      PROVE  /\ 3 * e + 7 + 2 * N > 9 + 2 * N /\ 3 * e + 9 + 2 * N <= 9 + 5 * N
             /\ 4 + 2 * e + 1 > 6 /\ 4 + 2 * e + 2 < 7 + 2 * N
  <2>1. e \in Nat /\ 1 <= e /\ e <= N
    BY DEF Ppes, N
  <2> QED BY <1>0, <2>1
<1>2. \A e \in Ppes : e \in Nat
  BY DEF Ppes
<1>3. k <= 4 => ~DisableAt(4, k, i)
  <2> SUFFICES ASSUME k <= 4, DisableAt(4, k, i) PROVE FALSE
    OBVIOUS
  <2> QED BY <1>0, <1>1, <1>2 DEF DisableAt
<1>4. k = 3 => i.op = "netdev_off"
  BY <1>0, <1>1, <1>2, <1>3 DEF RemoveAt
<1>5. k = 4 => i.op = "netevent_off"
  BY <1>0, <1>1, <1>2, <1>3 DEF RemoveAt
<1>6. k = 6 => i.op = "nf_off"
  <2> SUFFICES ASSUME k = 6 PROVE i.op = "nf_off"
    OBVIOUS
  <2>1. DisableAt(4, 6, i)
    BY <1>0, <1>1, <1>2 DEF RemoveAt
  <2> QED BY <1>0, <1>1, <1>2, <2>1 DEF DisableAt
<1>7. k = 8 + 2 * N => i.op = "del_off"
  <2> SUFFICES ASSUME k = 8 + 2 * N PROVE i.op = "del_off"
    OBVIOUS
  <2>1. DisableAt(4, k, i)
    BY <1>0, <1>1, <1>2 DEF RemoveAt
  <2> QED BY <1>0, <1>1, <1>2, <2>1 DEF DisableAt
<1>8. k > 9 + 2 * N => ~DisableAt(4, k, i)
  <2> SUFFICES ASSUME k > 9 + 2 * N, DisableAt(4, k, i) PROVE FALSE
    OBVIOUS
  <2> QED BY <1>0, <1>1, <1>2 DEF DisableAt
<1>9. k = 11 + 5 * N => i.op = "debugfs_off"
  <2> SUFFICES ASSUME k = 11 + 5 * N PROVE i.op = "debugfs_off"
    OBVIOUS
  <2>1. ~DisableAt(4, k, i)
    BY <1>0, <1>8
  <2> QED BY <1>0, <1>1, <1>2, <2>1 DEF RemoveAt
<1>10. k = 14 + 5 * N => i.op = "devres"
  <2> SUFFICES ASSUME k = 14 + 5 * N PROVE i.op = "devres"
    OBVIOUS
  <2>1. ~DisableAt(4, k, i)
    BY <1>0, <1>8
  <2> QED BY <1>0, <1>1, <1>2, <2>1 DEF RemoveAt
<1>11. i.op = "free" => k > 9 + 2 * N
  <2> SUFFICES ASSUME i.op = "free" PROVE k > 9 + 2 * N
    OBVIOUS
  <2>1. i.ppe \in Ppes /\ k = 3 * i.ppe + 9 + 2 * N
    BY DEF RemoveAt, DisableAt
  <2>2. PICK p \in Ppes : p = i.ppe
    BY <2>1
  <2>3. p \in Nat /\ 3 * p + 7 + 2 * N > 9 + 2 * N
    BY <1>1, <1>2
  <2> QED BY <1>0, <2>1, <2>2, <2>3
<1>12. i.op \notin {"debugfs_on", "nf_on", "del_on", "netdev_on", "netevent_on", "teardown_on", "table"}
  BY DEF RemoveAt, DisableAt
<1> QED BY <1>4, <1>5, <1>6, <1>7, <1>9, <1>10, <1>11, <1>12

LEMMA ErrOps ==
  ASSUME NEW k \in Nat, NEW i, ErrOutAt(k, i)
  PROVE  /\ k = 1 + 3 * N => i.op = "debugfs_off"
         /\ i.op \in {"sweep", "off", "free", "debugfs_off", "ext_free", "ports_off", "devres"}
<1>0. N \in Nat \ {0} /\ 3 * N \in Nat
  BY NType
<1>1. ASSUME NEW e \in Ppes PROVE 3 * e < 1 + 3 * N /\ e \in Nat
  <2>1. e \in Nat /\ e <= N
    BY DEF Ppes, N
  <2> QED BY <1>0, <2>1
<1>2. k = 1 + 3 * N => i.op = "debugfs_off"
  <2> SUFFICES ASSUME k = 1 + 3 * N PROVE i.op = "debugfs_off"
    OBVIOUS
  <2> QED BY <1>0, <1>1 DEF ErrOutAt
<1>3. i.op \in {"sweep", "off", "free", "debugfs_off", "ext_free", "ports_off", "devres"}
  BY DEF ErrOutAt
<1> QED BY <1>2, <1>3

(* A step of actor a, as the phases see it.                                  *)
Stepped(a) ==
  /\ at[a].prog \in ProgramsOf(a) /\ at[a].pc \in Nat /\ at[a].pc >= 1
  /\ Does(at[a].prog, at[a].pc, Instruction(a))
  /\ \/ at'[a] = Idle /\ at[a].pc = LastStep[at[a].prog]
     \/ /\ at'[a] # Idle /\ at'[a].prog = at[a].prog /\ at'[a].pc = at[a].pc + 1
        /\ at[a].pc < LastStep[at[a].prog]
  /\ nf \in Nat /\ Effect(Instruction(a), has, nf, mem, has', nf', mem')

LEMMA SteppedIs ==
  ASSUME Basic, NEW a \in Actors, Step(a)
  PROVE  Stepped(a) /\ \A b \in Actors \ {a} : at'[b] = at[b]
<1>1. AtOK /\ Domains /\ nf \in Nat
  BY DEF Basic, Domains
<1>2. at[a] # Idle /\ Advance(a) /\ Effect(Instruction(a), has, nf, mem, has', nf', mem')
  BY <1>1, StepEffect
<1>3. /\ at[a].prog \in ProgramsOf(a) /\ at[a].pc \in 1 .. LastStep[at[a].prog] /\ LastStep[at[a].prog] \in Nat
      /\ Does(at[a].prog, at[a].pc, Instruction(a))
  BY <1>1, <1>2, StepAt DEF Instruction
<1>4. /\ \A b \in Actors \ {a} : at'[b] = at[b]
      /\ \/ at'[a] = Idle /\ at[a].pc = LastStep[at[a].prog]
         \/ /\ at'[a] # Idle /\ at'[a].prog = at[a].prog /\ at'[a].pc = at[a].pc + 1
            /\ at[a].pc < LastStep[at[a].prog]
  BY <1>1, <1>2, AdvanceIs
<1>5. at[a].pc \in Nat /\ at[a].pc >= 1
  BY <1>3
<1> QED BY <1>1, <1>2, <1>3, <1>4, <1>5 DEF Stepped

(* Effect, flag by flag.                                                     *)
LEMMA EffectIs ==
  ASSUME NEW i, NEW h, NEW n, NEW m, NEW h2, NEW n2, NEW m2, Effect(i, h, n, m, h2, n2, m2)
  PROVE  /\ "debugfs" \in h2 <=> i.op = "debugfs_on" \/ ("debugfs" \in h /\ i.op # "debugfs_off")
         /\ "ready" \in h2 <=> i.op = "teardown_on" \/ ("ready" \in h /\ i.op # "teardown_off")
         /\ "del" \in h2 <=> i.op = "del_on" \/ ("del" \in h /\ i.op # "del_off")
         /\ "hook_toggle" \in h2 <=> i.op = "del_on" \/ ("hook_toggle" \in h /\ i.op # "del_off")
         /\ "netdev_nb" \in h2 <=> i.op = "netdev_on" \/ ("netdev_nb" \in h /\ i.op # "netdev_off")
         /\ "netevent_nb" \in h2 <=> i.op = "netevent_on" \/ ("netevent_nb" \in h /\ i.op # "netevent_off")
         /\ n2 = IF i.op = "nf_on" THEN n + 1 ELSE IF i.op = "nf_off" /\ n # 0 THEN n - 1 ELSE n
         /\ \A e \in Ppes : "table" \in m2[e] <=> \/ i.op = "table" /\ i.ppe = e
                                                  \/ "table" \in m[e] /\ ~(i.op = "free" /\ i.ppe = e)
BY DEF Effect, Flags, Plus, Minus

(* A step of actor a leads to the next phase, or to rest.                    *)
Onward(a) ==
  /\ at'[a] # Idle => Phase(at'[a], has', nf', mem')
  /\ at'[a] = Idle => Quiescent(has', nf', mem')

LEMMA ProbeOnward ==
  ASSUME NEW a \in Actors, at[a].prog = "probe", Stepped(a), Phase(at[a], has, nf, mem), "ready" \notin has
  PROVE  Onward(a)
<1> DEFINE i == Instruction(a)
           k == at[a].pc
<1>0. N \in Nat \ {0} /\ 3 * N \in Nat /\ LastStep["probe"] = 16 + 3 * N
  BY NType DEF LastStep
<1>1. /\ k \in Nat /\ k >= 1 /\ ProbeAt(k, i) /\ Effect(i, has, nf, mem, has', nf', mem') /\ nf \in Nat
      /\ \/ at'[a] = Idle /\ k = 16 + 3 * N
         \/ at'[a] # Idle /\ at'[a].prog = "probe" /\ at'[a].pc = k + 1 /\ k < 16 + 3 * N
  BY <1>0 DEF Stepped, Does
<1>2. /\ nf = IF k <= 9 + 3 * N THEN 0 ELSE 1
      /\ "del" \in has <=> k > 10 + 3 * N
      /\ "hook_toggle" \in has <=> k > 10 + 3 * N
      /\ {"netdev_nb", "netevent_nb"} \cap has # {} => k > 11 + 3 * N
      /\ "debugfs" \in has => k > 5
      /\ \A e \in Ppes : k > 3 * e + 4 => "table" \in mem[e]
  BY DEF Phase
<1> HIDE DEF i
<1>3. /\ "debugfs" \in has' <=> i.op = "debugfs_on" \/ ("debugfs" \in has /\ i.op # "debugfs_off")
      /\ "ready" \in has' <=> i.op = "teardown_on" \/ ("ready" \in has /\ i.op # "teardown_off")
      /\ "del" \in has' <=> i.op = "del_on" \/ ("del" \in has /\ i.op # "del_off")
      /\ "hook_toggle" \in has' <=> i.op = "del_on" \/ ("hook_toggle" \in has /\ i.op # "del_off")
      /\ "netdev_nb" \in has' <=> i.op = "netdev_on" \/ ("netdev_nb" \in has /\ i.op # "netdev_off")
      /\ "netevent_nb" \in has' <=> i.op = "netevent_on" \/ ("netevent_nb" \in has /\ i.op # "netevent_off")
      /\ nf' = IF i.op = "nf_on" THEN nf + 1 ELSE IF i.op = "nf_off" /\ nf # 0 THEN nf - 1 ELSE nf
      /\ \A e \in Ppes : "table" \in mem'[e] <=> \/ i.op = "table" /\ i.ppe = e
                                                 \/ "table" \in mem[e] /\ ~(i.op = "free" /\ i.ppe = e)
  BY <1>1, EffectIs
<1>4. /\ i.op = "debugfs_on" => k = 5
      /\ i.op = "nf_on" <=> k = 9 + 3 * N
      /\ i.op = "del_on" <=> k = 10 + 3 * N
      /\ i.op = "netdev_on" => k = 11 + 3 * N
      /\ i.op = "netevent_on" => k = 12 + 3 * N
      /\ i.op = "teardown_on" <=> k = 16 + 3 * N
      /\ i.op \notin {"debugfs_off", "nf_off", "del_off", "netdev_off", "netevent_off", "teardown_off", "free"}
  BY <1>1, ProbeOps
<1>5. nf' = IF k + 1 <= 9 + 3 * N THEN 0 ELSE 1
  BY <1>0, <1>1, <1>2, <1>3, <1>4
<1>6. ("del" \in has' <=> k + 1 > 10 + 3 * N) /\ ("hook_toggle" \in has' <=> k + 1 > 10 + 3 * N)
  <2>1. k + 1 > 10 + 3 * N <=> k = 10 + 3 * N \/ k > 10 + 3 * N
    BY <1>0, <1>1
  <2> QED BY <1>2, <1>3, <1>4, <2>1
<1>7. {"netdev_nb", "netevent_nb"} \cap has' # {} => k + 1 > 11 + 3 * N
  <2>1. ("netdev_nb" \in has' => k = 11 + 3 * N \/ k > 11 + 3 * N)
        /\ ("netevent_nb" \in has' => k = 12 + 3 * N \/ k > 11 + 3 * N)
    BY <1>2, <1>3, <1>4
  <2>2. k = 11 + 3 * N \/ k = 12 + 3 * N \/ k > 11 + 3 * N => k + 1 > 11 + 3 * N
    BY <1>0, <1>1
  <2> QED BY <2>1, <2>2
<1>8. "debugfs" \in has' => k + 1 > 5
  BY <1>1, <1>2, <1>3, <1>4
<1>9. ASSUME NEW e \in Ppes, k + 1 > 3 * e + 4 PROVE "table" \in mem'[e]
  <2>1. e \in Nat
    BY DEF Ppes
  <2>2. CASE k = 3 * e + 4
    <3>1. i.op = "table" /\ i.ppe = e
      BY <1>1, <2>2, AtTable
    <3> QED BY <1>3, <3>1
  <2>3. CASE k > 3 * e + 4
    BY <1>2, <1>3, <1>4, <2>3
  <2> QED BY <1>1, <1>9, <2>1, <2>2, <2>3
<1>10. CASE at'[a] = Idle
  <2>1. k = 16 + 3 * N
    BY <1>1, <1>10
  <2>2. nf' = 1 /\ "del" \in has' /\ "hook_toggle" \in has' /\ "ready" \in has'
    BY <1>0, <1>3, <1>4, <1>5, <1>6, <2>1
  <2>3. ASSUME NEW e \in Ppes PROVE "table" \in mem'[e]
    <3>1. e \in Nat /\ e <= N
      BY DEF Ppes, N
    <3>2. k + 1 > 3 * e + 4
      BY <1>0, <2>1, <3>1
    <3> QED BY <1>9, <3>2
  <2>4. Quiescent(has', nf', mem')
    BY <2>2, <2>3 DEF Quiescent, Tabled
  <2> QED BY <1>10, <2>4 DEF Onward
<1>11. CASE at'[a] # Idle /\ at'[a].prog = "probe" /\ at'[a].pc = k + 1
  <2>1. Phase(at'[a], has', nf', mem')
    BY <1>5, <1>6, <1>7, <1>8, <1>9, <1>11 DEF Phase
  <2> QED BY <1>11, <2>1 DEF Onward
<1> QED BY <1>1, <1>10, <1>11

LEMMA RemoveOnward ==
  ASSUME NEW a \in Actors, at[a].prog = "remove", Stepped(a), Phase(at[a], has, nf, mem),
         at[a].pc > 2 => "ready" \notin has
  PROVE  Onward(a)
<1> DEFINE i == Instruction(a)
           k == at[a].pc
<1>0. N \in Nat \ {0} /\ 2 * N \in Nat /\ 5 * N \in Nat /\ LastStep["remove"] = 14 + 5 * N
  BY NType DEF LastStep
<1>1. /\ k \in Nat /\ k >= 1 /\ RemoveAt(k, i) /\ Effect(i, has, nf, mem, has', nf', mem') /\ nf \in Nat
      /\ \/ at'[a] = Idle /\ k = 14 + 5 * N
         \/ at'[a] # Idle /\ at'[a].prog = "remove" /\ at'[a].pc = k + 1 /\ k < 14 + 5 * N
  BY <1>0 DEF Stepped, Does
<1>2. /\ nf \in {0, 1} /\ (nf = 1 => k <= 6)
      /\ {"del", "hook_toggle"} \cap has # {} => k <= 8 + 2 * N
      /\ "netdev_nb" \in has => k <= 3
      /\ "netevent_nb" \in has => k <= 4
      /\ "debugfs" \in has => k <= 11 + 5 * N
      /\ k <= 9 + 2 * N => \A e \in Ppes : "table" \in mem[e]
  BY DEF Phase, Tabled
<1> HIDE DEF i
<1>3. /\ "debugfs" \in has' <=> i.op = "debugfs_on" \/ ("debugfs" \in has /\ i.op # "debugfs_off")
      /\ "ready" \in has' <=> i.op = "teardown_on" \/ ("ready" \in has /\ i.op # "teardown_off")
      /\ "del" \in has' <=> i.op = "del_on" \/ ("del" \in has /\ i.op # "del_off")
      /\ "hook_toggle" \in has' <=> i.op = "del_on" \/ ("hook_toggle" \in has /\ i.op # "del_off")
      /\ "netdev_nb" \in has' <=> i.op = "netdev_on" \/ ("netdev_nb" \in has /\ i.op # "netdev_off")
      /\ "netevent_nb" \in has' <=> i.op = "netevent_on" \/ ("netevent_nb" \in has /\ i.op # "netevent_off")
      /\ nf' = IF i.op = "nf_on" THEN nf + 1 ELSE IF i.op = "nf_off" /\ nf # 0 THEN nf - 1 ELSE nf
      /\ \A e \in Ppes : "table" \in mem'[e] <=> \/ i.op = "table" /\ i.ppe = e
                                                 \/ "table" \in mem[e] /\ ~(i.op = "free" /\ i.ppe = e)
  BY <1>1, EffectIs
<1>4. /\ k = 3 => i.op = "netdev_off"
      /\ k = 4 => i.op = "netevent_off"
      /\ k = 6 => i.op = "nf_off"
      /\ k = 8 + 2 * N => i.op = "del_off"
      /\ k = 11 + 5 * N => i.op = "debugfs_off"
      /\ i.op = "free" => k > 9 + 2 * N
      /\ k = 14 + 5 * N => i.op = "devres"
      /\ i.op \notin {"debugfs_on", "nf_on", "del_on", "netdev_on", "netevent_on", "teardown_on", "table"}
  BY <1>1, RemoveOps
<1>5. nf' \in {0, 1} /\ (nf' = 1 => k + 1 <= 6)
  <2>1. CASE nf = 0
    BY <1>3, <1>4, <2>1
  <2>2. CASE nf = 1 /\ i.op = "nf_off"
    BY <1>3, <1>4, <2>2
  <2>3. CASE nf = 1 /\ i.op # "nf_off"
    <3>1. nf' = 1 /\ k <= 6 /\ k # 6
      BY <1>2, <1>3, <1>4, <2>3
    <3> QED BY <1>1, <3>1
  <2> QED BY <1>2, <2>1, <2>2, <2>3
<1>6. {"del", "hook_toggle"} \cap has' # {} => k + 1 <= 8 + 2 * N
  <2> SUFFICES ASSUME {"del", "hook_toggle"} \cap has' # {} PROVE k + 1 <= 8 + 2 * N
    OBVIOUS
  <2>1. {"del", "hook_toggle"} \cap has # {} /\ i.op # "del_off"
    BY <1>3, <1>4
  <2>2. k <= 8 + 2 * N /\ k # 8 + 2 * N
    BY <1>2, <1>4, <2>1
  <2> QED BY <1>0, <1>1, <2>2
<1>7. ("netdev_nb" \in has' => k + 1 <= 3) /\ ("netevent_nb" \in has' => k + 1 <= 4)
  <2>1. ("netdev_nb" \in has' => k <= 3 /\ k # 3) /\ ("netevent_nb" \in has' => k <= 4 /\ k # 4)
    BY <1>2, <1>3, <1>4
  <2> QED BY <1>1, <2>1
<1>8. "debugfs" \in has' => k + 1 <= 11 + 5 * N
  <2>1. "debugfs" \in has' => k <= 11 + 5 * N /\ k # 11 + 5 * N
    BY <1>2, <1>3, <1>4
  <2> QED BY <1>0, <1>1, <2>1
<1>9. k + 1 <= 9 + 2 * N => \A e \in Ppes : "table" \in mem'[e]
  <2> SUFFICES ASSUME k + 1 <= 9 + 2 * N, NEW e \in Ppes PROVE "table" \in mem'[e]
    OBVIOUS
  <2>1. k <= 9 + 2 * N /\ ~(k > 9 + 2 * N)
    BY <1>0, <1>1
  <2> QED BY <1>2, <1>3, <1>4, <2>1
<1>10. CASE at'[a] = Idle
  <2>1. k = 14 + 5 * N /\ i.op = "devres"
    BY <1>1, <1>4, <1>10
  <2>2. "ready" \notin has'
    BY <1>0, <1>1, <1>3, <1>4, <2>1
  <2>3. ~(k + 1 <= 6) /\ ~(k + 1 <= 3) /\ ~(k + 1 <= 4)
    BY <1>0, <2>1
  <2>4. ~(k + 1 <= 8 + 2 * N) /\ ~(k + 1 <= 11 + 5 * N)
    BY <1>0, <2>1
  <2>5. Bare(has', nf') /\ "debugfs" \notin has'
    BY <1>5, <1>6, <1>7, <1>8, <2>3, <2>4 DEF Bare
  <2>6. Quiescent(has', nf', mem')
    BY <2>2, <2>5 DEF Quiescent
  <2> QED BY <1>10, <2>6 DEF Onward
<1>11. CASE at'[a] # Idle /\ at'[a].prog = "remove" /\ at'[a].pc = k + 1
  <2>1. Phase(at'[a], has', nf', mem')
    BY <1>5, <1>6, <1>7, <1>8, <1>9, <1>11 DEF Phase, Tabled
  <2> QED BY <1>11, <2>1 DEF Onward
<1> QED BY <1>1, <1>10, <1>11

LEMMA ErrOnward ==
  ASSUME NEW a \in Actors, at[a].prog \in {"err_out", "err_out1", "err_out2"}, Stepped(a),
         Phase(at[a], has, nf, mem), "ready" \notin has
  PROVE  Onward(a)
<1> DEFINE i == Instruction(a)
           k == at[a].pc
<1>0. /\ N \in Nat \ {0} /\ 3 * N \in Nat
      /\ LastStep["err_out"] = 4 + 3 * N /\ LastStep["err_out1"] = 4 /\ LastStep["err_out2"] = 2
  BY NType DEF LastStep
<1>1. /\ k \in Nat /\ k >= 1 /\ Does(at[a].prog, k, i) /\ Effect(i, has, nf, mem, has', nf', mem') /\ nf \in Nat
      /\ \/ at'[a] = Idle /\ k = LastStep[at[a].prog]
         \/ at'[a] # Idle /\ at'[a].prog = at[a].prog /\ at'[a].pc = k + 1
  BY DEF Stepped
<1>2. Bare(has, nf)
  BY DEF Phase
<1> HIDE DEF i
<1>3. /\ "debugfs" \in has' <=> i.op = "debugfs_on" \/ ("debugfs" \in has /\ i.op # "debugfs_off")
      /\ "ready" \in has' <=> i.op = "teardown_on" \/ ("ready" \in has /\ i.op # "teardown_off")
      /\ "del" \in has' <=> i.op = "del_on" \/ ("del" \in has /\ i.op # "del_off")
      /\ "hook_toggle" \in has' <=> i.op = "del_on" \/ ("hook_toggle" \in has /\ i.op # "del_off")
      /\ "netdev_nb" \in has' <=> i.op = "netdev_on" \/ ("netdev_nb" \in has /\ i.op # "netdev_off")
      /\ "netevent_nb" \in has' <=> i.op = "netevent_on" \/ ("netevent_nb" \in has /\ i.op # "netevent_off")
      /\ nf' = IF i.op = "nf_on" THEN nf + 1 ELSE IF i.op = "nf_off" /\ nf # 0 THEN nf - 1 ELSE nf
  BY <1>1, EffectIs
<1>4. i.op \in {"sweep", "off", "free", "debugfs_off", "ext_free", "ports_off", "devres"}
  BY <1>1, ErrOps DEF Does, ErrOut1At, ErrOut2At
<1>5. Bare(has', nf') /\ "ready" \notin has' /\ ("debugfs" \in has' => "debugfs" \in has /\ i.op # "debugfs_off")
  <2>1. "ready" \notin has'
    BY <1>3, <1>4
  <2>2. nf' = 0
    BY <1>2, <1>3, <1>4 DEF Bare
  <2>3. {"del", "hook_toggle", "netdev_nb", "netevent_nb"} \cap has' = {}
    BY <1>2, <1>3, <1>4 DEF Bare
  <2> QED BY <1>3, <1>4, <2>1, <2>2, <2>3 DEF Bare
<1>6. CASE at[a].prog = "err_out"
  <2>1. ("debugfs" \in has => k <= 1 + 3 * N) /\ ErrOutAt(k, i)
    BY <1>1, <1>6 DEF Phase, Does
  <2>2. "debugfs" \in has' => k <= 1 + 3 * N /\ k # 1 + 3 * N
    BY <1>1, <1>5, <2>1, ErrOps
  <2>3. "debugfs" \in has' => k + 1 <= 1 + 3 * N
    BY <1>0, <1>1, <2>2
  <2>4. CASE at'[a] = Idle /\ k = LastStep[at[a].prog]
    <3>1. "debugfs" \notin has'
      BY <1>0, <1>6, <2>3, <2>4
    <3> QED BY <1>5, <2>4, <3>1 DEF Onward, Quiescent
  <2>5. CASE at'[a] # Idle /\ at'[a].prog = at[a].prog /\ at'[a].pc = k + 1
    <3>1. Phase(at'[a], has', nf', mem')
      BY <1>5, <1>6, <2>3, <2>5 DEF Phase
    <3> QED BY <2>5, <3>1 DEF Onward
  <2> QED BY <1>1, <2>4, <2>5
<1>7. CASE at[a].prog = "err_out1"
  <2>1. ("debugfs" \in has => k <= 1) /\ ErrOut1At(k, i)
    BY <1>1, <1>7 DEF Phase, Does
  <2>2. "debugfs" \notin has'
    BY <1>1, <1>5, <2>1 DEF ErrOut1At
  <2>4. CASE at'[a] = Idle
    BY <1>5, <2>2, <2>4 DEF Onward, Quiescent
  <2>5. CASE at'[a] # Idle /\ at'[a].prog = at[a].prog /\ at'[a].pc = k + 1
    <3>1. Phase(at'[a], has', nf', mem')
      BY <1>5, <1>7, <2>2, <2>5 DEF Phase
    <3> QED BY <2>5, <3>1 DEF Onward
  <2> QED BY <1>1, <2>4, <2>5
<1>8. CASE at[a].prog = "err_out2"
  <2>2. "debugfs" \notin has'
    BY <1>5, <1>8 DEF Phase
  <2>4. CASE at'[a] = Idle
    BY <1>5, <2>2, <2>4 DEF Onward, Quiescent
  <2>5. CASE at'[a] # Idle /\ at'[a].prog = at[a].prog /\ at'[a].pc = k + 1
    <3>1. Phase(at'[a], has', nf', mem')
      BY <1>5, <1>8, <2>2, <2>5 DEF Phase
    <3> QED BY <2>5, <3>1 DEF Onward
  <2> QED BY <1>1, <2>4, <2>5
<1> QED BY <1>6, <1>7, <1>8

LEMMA EnableOnward ==
  ASSUME NEW a \in Actors, at[a].prog = "enable", Stepped(a), Phase(at[a], has, nf, mem)
  PROVE  Onward(a)
<1> DEFINE i == Instruction(a)
           k == at[a].pc
<1>0. LastStep["enable"] = 3
  BY DEF LastStep
<1>1. /\ k \in Nat /\ k >= 1 /\ EnableAt(k, i) /\ Effect(i, has, nf, mem, has', nf', mem') /\ nf \in Nat
      /\ \/ at'[a] = Idle /\ k = 3
         \/ at'[a] # Idle /\ at'[a].prog = "enable" /\ at'[a].pc = k + 1 /\ k < 3
  BY <1>0 DEF Stepped, Does
<1>2. /\ "ready" \in has /\ \A e \in Ppes : "table" \in mem[e]
      /\ nf = IF k <= 2 THEN 0 ELSE 1
      /\ {"del", "hook_toggle"} \cap has = {}
  BY DEF Phase, Tabled
<1> HIDE DEF i
<1>3. /\ "ready" \in has' <=> i.op = "teardown_on" \/ ("ready" \in has /\ i.op # "teardown_off")
      /\ "del" \in has' <=> i.op = "del_on" \/ ("del" \in has /\ i.op # "del_off")
      /\ "hook_toggle" \in has' <=> i.op = "del_on" \/ ("hook_toggle" \in has /\ i.op # "del_off")
      /\ nf' = IF i.op = "nf_on" THEN nf + 1 ELSE IF i.op = "nf_off" /\ nf # 0 THEN nf - 1 ELSE nf
      /\ \A e \in Ppes : "table" \in mem'[e] <=> \/ i.op = "table" /\ i.ppe = e
                                                 \/ "table" \in mem[e] /\ ~(i.op = "free" /\ i.ppe = e)
  BY <1>1, EffectIs
<1>4. \/ k = 1 /\ i.op = "ra_on"
      \/ k = 2 /\ i.op = "nf_on"
      \/ k = 3 /\ i.op = "del_on"
  BY <1>1 DEF EnableAt
<1>5. "ready" \in has' /\ Tabled(mem')
  BY <1>2, <1>3, <1>4 DEF Tabled
<1>6. CASE k = 1 \/ k = 2
  <2>1. nf' = (IF k + 1 <= 2 THEN 0 ELSE 1) /\ {"del", "hook_toggle"} \cap has' = {}
    BY <1>2, <1>3, <1>4, <1>6
  <2>2. Phase(at'[a], has', nf', mem')
    BY <1>1, <1>5, <1>6, <2>1 DEF Phase
  <2> QED BY <1>1, <1>6, <2>2 DEF Onward
<1>7. CASE k = 3
  <2>1. nf' = 1 /\ "del" \in has' /\ "hook_toggle" \in has'
    BY <1>2, <1>3, <1>4, <1>7
  <2>2. Quiescent(has', nf', mem')
    BY <1>5, <2>1 DEF Quiescent
  <2> QED BY <1>1, <1>7, <2>2 DEF Onward
<1> QED BY <1>4, <1>6, <1>7

LEMMA DisableOnward ==
  ASSUME NEW a \in Actors, at[a].prog = "disable", Stepped(a), Phase(at[a], has, nf, mem)
  PROVE  Onward(a)
<1> DEFINE i == Instruction(a)
           k == at[a].pc
<1>0. LastStep["disable"] = 4 + 2 * N /\ N \in Nat \ {0} /\ 2 * N \in Nat
  BY NType DEF LastStep
<1>1. /\ k \in Nat /\ k >= 1 /\ DisableAt(0, k, i) /\ Effect(i, has, nf, mem, has', nf', mem') /\ nf \in Nat
      /\ \/ at'[a] = Idle /\ k = 4 + 2 * N
         \/ at'[a] # Idle /\ at'[a].prog = "disable" /\ at'[a].pc = k + 1 /\ k < 4 + 2 * N
  BY <1>0 DEF Stepped, Does
<1>2. /\ "ready" \in has /\ \A e \in Ppes : "table" \in mem[e]
      /\ nf = IF k <= 2 THEN 1 ELSE 0
      /\ {"del", "hook_toggle"} \subseteq has
  BY DEF Phase, Tabled
<1> HIDE DEF i
<1>3. /\ "ready" \in has' <=> i.op = "teardown_on" \/ ("ready" \in has /\ i.op # "teardown_off")
      /\ "del" \in has' <=> i.op = "del_on" \/ ("del" \in has /\ i.op # "del_off")
      /\ "hook_toggle" \in has' <=> i.op = "del_on" \/ ("hook_toggle" \in has /\ i.op # "del_off")
      /\ nf' = IF i.op = "nf_on" THEN nf + 1 ELSE IF i.op = "nf_off" /\ nf # 0 THEN nf - 1 ELSE nf
      /\ \A e \in Ppes : "table" \in mem'[e] <=> \/ i.op = "table" /\ i.ppe = e
                                                 \/ "table" \in mem[e] /\ ~(i.op = "free" /\ i.ppe = e)
  BY <1>1, EffectIs
<1>4. /\ i.op \in {"ra_off", "nf_off", "fwd", "sweep", "sma_timer", "del_off"}
      /\ i.op = "nf_off" <=> k = 2
      /\ i.op = "del_off" <=> k = 4 + 2 * N
  <2>1. i.op \in {"ra_off", "nf_off", "fwd", "sweep", "sma_timer", "del_off"}
    BY <1>1 DEF DisableAt
  <2>2. ASSUME NEW e \in Ppes PROVE /\ 0 + 2 * e + 1 > 2 /\ 0 + 2 * e + 1 < 4 + 2 * N
                                    /\ 0 + 2 * e + 2 > 2 /\ 0 + 2 * e + 2 < 4 + 2 * N
    <3>1. e \in Nat /\ 1 <= e /\ e <= N
      BY DEF Ppes, N
    <3> QED BY <1>0, <3>1
  <2>3. i.op = "nf_off" => k = 2
    BY <1>0, <1>1 DEF DisableAt
  <2>4. i.op = "del_off" => k = 4 + 2 * N
    BY <1>0, <1>1 DEF DisableAt
  <2>5. k = 2 => i.op = "nf_off"
    <3> SUFFICES ASSUME k = 2 PROVE i.op = "nf_off"
      OBVIOUS
    <3>1. 2 # 0 + 1 /\ 2 # 0 + 3 + 2 * N /\ 2 # 0 + 4 + 2 * N
      BY <1>0
    <3> QED BY <1>1, <2>2, <3>1 DEF DisableAt
  <2>6. k = 4 + 2 * N => i.op = "del_off"
    <3> SUFFICES ASSUME k = 4 + 2 * N PROVE i.op = "del_off"
      OBVIOUS
    <3>1. k # 0 + 1 /\ k # 0 + 2 /\ k # 0 + 3 + 2 * N
      BY <1>0
    <3>2. \A e \in Ppes : k # 0 + 2 * e + 1 /\ k # 0 + 2 * e + 2
      BY <1>0, <2>2
    <3> QED BY <1>1, <3>1, <3>2 DEF DisableAt
  <2> QED BY <2>1, <2>3, <2>4, <2>5, <2>6
<1>5. "ready" \in has' /\ Tabled(mem')
  BY <1>2, <1>3, <1>4 DEF Tabled
<1>6. nf' = IF k + 1 <= 2 THEN 1 ELSE 0
  BY <1>1, <1>2, <1>3, <1>4
<1>7. CASE k < 4 + 2 * N
  <2>1. i.op # "del_off"
    BY <1>0, <1>1, <1>4, <1>7
  <2>2. {"del", "hook_toggle"} \subseteq has'
    BY <1>2, <1>3, <2>1
  <2>3. at'[a] # Idle /\ at'[a].prog = "disable" /\ at'[a].pc = k + 1
    BY <1>0, <1>1, <1>7
  <2>4. Phase(at'[a], has', nf', mem')
    BY <1>5, <1>6, <2>2, <2>3 DEF Phase
  <2> QED BY <2>3, <2>4 DEF Onward
<1>8. CASE k = 4 + 2 * N
  <2>1. "del" \notin has' /\ "hook_toggle" \notin has'
    BY <1>3, <1>4, <1>8
  <2>2. nf' = 0
    BY <1>0, <1>6, <1>8
  <2>3. Quiescent(has', nf', mem')
    BY <1>5, <2>1, <2>2 DEF Quiescent
  <2>4. at'[a] = Idle
    BY <1>0, <1>1, <1>8
  <2> QED BY <2>3, <2>4 DEF Onward
<1> QED BY <1>1, <1>7, <1>8

(* Warm init, beside whatever goes on.                                       *)
LEMMA WarmKeeps ==
  ASSUME Basic, AdminInv, Step("event")
  PROVE  /\ \A l : l.pc \in Nat /\ Phase(l, has, nf, mem) => Phase(l, has', nf', mem')
         /\ Quiescent(has, nf, mem) => Quiescent(has', nf', mem')
<1> DEFINE i == Instruction("event")
<1>0. "event" \in Actors /\ "event" # "admin" /\ AtOK /\ Domains /\ N \in Nat
  BY Actor, NType DEF Basic
<1>1. at["event"] # Idle /\ Effect(i, has, nf, mem, has', nf', mem')
  BY <1>0, StepEffect
<1>2. i.op \in {"netevent_off", "clear", "hw_init", "netevent_on"} /\ "netdev_nb" \in has
  BY <1>0, <1>1, OthersOps DEF AdminInv
<1> HIDE DEF i
<1>3. /\ "debugfs" \in has' <=> "debugfs" \in has
      /\ "ready" \in has' <=> "ready" \in has
      /\ "del" \in has' <=> "del" \in has
      /\ "hook_toggle" \in has' <=> "hook_toggle" \in has
      /\ "netdev_nb" \in has' /\ "netdev_nb" \in has
      /\ nf' = nf
      /\ \A e \in Ppes : "table" \in mem'[e] <=> "table" \in mem[e]
  BY <1>1, <1>2, EffectIs
<1>4. ~Bare(has, nf)
  BY <1>2 DEF Bare
<1>5. ASSUME NEW l, l.pc \in Nat, Phase(l, has, nf, mem) PROVE Phase(l, has', nf', mem')
  <2>1. l.prog \notin {"err_out", "err_out1", "err_out2"}
    BY <1>4, <1>5 DEF Phase
  <2>2. CASE l.prog = "probe"
    BY <1>3, <1>5, <2>2 DEF Phase
  <2>3. CASE l.prog = "remove"
    <3>1. /\ nf \in {0, 1} /\ (nf = 1 => l.pc <= 6)
          /\ {"del", "hook_toggle"} \cap has # {} => l.pc <= 8 + 2 * N
          /\ l.pc <= 3
          /\ "debugfs" \in has => l.pc <= 11 + 5 * N
          /\ l.pc <= 9 + 2 * N => Tabled(mem)
      BY <1>3, <1>5, <2>3 DEF Phase
    <3>2. "netevent_nb" \in has' => l.pc <= 4
      BY <1>5, <3>1
    <3> QED BY <1>3, <2>3, <3>1, <3>2 DEF Phase, Tabled
  <2>4. CASE l.prog = "enable" \/ l.prog = "disable"
    BY <1>3, <1>5, <2>4 DEF Phase, Tabled
  <2> QED BY <1>5, <2>1, <2>2, <2>3, <2>4 DEF Phase
<1>6. Quiescent(has, nf, mem) => Quiescent(has', nf', mem')
  BY <1>3, <1>4 DEF Quiescent, Tabled
<1> QED BY <1>5, <1>6

LEMMA LifeStep ==
  ASSUME Basic, AdminInv, OneInv, LifeInv, [Next]_vars
  PROVE  LifeInv'
<1>b. AtOK /\ Domains /\ Idle.prog = "none" /\ N \in Nat \ {0} /\ 2 * N \in Nat /\ 3 * N \in Nat /\ 5 * N \in Nat
  BY NType DEF Basic, Idle
<1>w. /\ "admin" \in Actors /\ "event" \in Actors /\ "admin" # "event"
      /\ \A c \in Actors : at[c].pc \in Nat /\ (at[c].prog = "none" => at[c] = Idle)
  <2>1. \A c \in Actors : at[c].pc \in Nat
    BY <1>b DEF AtOK
  <2>2. \A c \in Actors : at[c] # Idle => at[c].prog \in Programs \ {"none"}
    BY <1>b, StepAt
  <2> QED BY <2>1, <2>2, Actor
<1>1. ASSUME NEW a \in Actors, NEW p \in ProgramsOf(a) \ {"err_out", "err_out1", "err_out2"}, Starts(a, p)
      PROVE  LifeInv'
  <2>1. /\ at'[a].prog = p /\ at'[a].pc = 1 /\ \A b \in Actors \ {a} : at'[b] = at[b]
        /\ at[a] = Idle /\ UNCHANGED <<has, nf, mem>> /\ (raced => raced')
        /\ ~raced' /\ p # "warm" => \A b \in Actors \ {a} : ~Switching(b)
    BY <1>b, <1>1, StartsAt DEF Starts
  <2>2. CASE p = "warm"
    <3>1. \A b \in Actors : /\ Switching(b)' <=> Switching(b)
                            /\ Switching(b) => at'[b] = at[b]
      BY <1>b, <2>1, <2>2 DEF Switching
    <3> QED BY <2>1, <3>1 DEF LifeInv, Quiet
  <2>3. CASE p # "warm"
    <3> SUFFICES ASSUME ~raced' PROVE LifeInv'
      BY DEF LifeInv
    <3>1. \A b \in Actors \ {a} : ~Switching(b)'
      BY <2>1, <2>3 DEF Switching
    <3>2. Quiescent(has, nf, mem)
      <4>1. Quiet
        BY <1>b, <2>1, <2>3 DEF Quiet, Switching
      <4> QED BY <2>1, <4>1 DEF LifeInv
    <3>3. Switching(a)'
      <4>1. p # "none"
        BY Actor
      <4> QED BY <2>1, <2>3, <4>1 DEF Switching
    <3>4. Phase(at'[a], has, nf, mem)
      <4>1. CASE p = "probe"
        <5>1. "ready" \notin has
          BY <1>1, <4>1 DEF Starts, AdminInv
        <5>2. Bare(has, nf) /\ "debugfs" \notin has
          BY <3>2, <5>1 DEF Quiescent
        <5>3. 1 <= 9 + 3 * N /\ ~(1 > 10 + 3 * N) /\ \A e \in Ppes : ~(1 > 3 * e + 4)
          BY <1>b DEF Ppes
        <5> QED BY <2>1, <4>1, <5>2, <5>3 DEF Phase, Bare
      <4>2. CASE p = "remove"
        <5>1. "ready" \in has
          BY <1>1, <4>2 DEF Starts
        <5>2. Tabled(mem) /\ nf \in {0, 1}
          BY <3>2, <5>1 DEF Quiescent
        <5>3. 1 <= 8 + 2 * N /\ 1 <= 11 + 5 * N
          BY <1>b
        <5> QED BY <2>1, <4>2, <5>2, <5>3 DEF Phase
      <4>3. CASE p \in {"enable", "disable"}
        <5>1. "debugfs" \in has /\ ("hook_toggle" \in has <=> p = "disable")
          BY <1>1, <4>3 DEF Starts
        <5>2. "ready" \in has
          BY <3>2, <5>1 DEF Quiescent
        <5>3. Tabled(mem) /\ nf \in {0, 1} /\ ("hook_toggle" \in has <=> nf = 1) /\ ("del" \in has <=> nf = 1)
          BY <3>2, <5>2 DEF Quiescent
        <5> QED BY <2>1, <4>3, <5>1, <5>2, <5>3 DEF Phase
      <4> QED BY <2>3, <4>1, <4>2, <4>3 DEF ProgramsOf
    <3> QED BY <2>1, <3>1, <3>3, <3>4 DEF LifeInv, Quiet
  <2> QED BY <2>2, <2>3
<1>2. CASE Step("event")
  <2>1. /\ \A l : l.pc \in Nat /\ Phase(l, has, nf, mem) => Phase(l, has', nf', mem')
        /\ Quiescent(has, nf, mem) => Quiescent(has', nf', mem')
    BY <1>2, WarmKeeps
  <2>2. Stepped("event") /\ \A b \in Actors \ {"event"} : at'[b] = at[b]
    BY <1>2, <1>w, SteppedIs
  <2>3. at["event"].prog = "warm" /\ ~Switching("event") /\ ~Switching("event")'
    BY <1>b, <2>2 DEF Stepped, ProgramsOf, Switching
  <2>4. \A b \in Actors : /\ Switching(b)' <=> Switching(b)
                          /\ Switching(b) => at'[b] = at[b]
    BY <2>2, <2>3 DEF Switching
  <2>5. raced => raced'
    BY <1>b, <1>w, <1>2, StepOnEngines
  <2> QED BY <1>w, <2>1, <2>4, <2>5 DEF LifeInv, Quiet
<1>3. ASSUME NEW a \in Actors, a # "event", Step(a) PROVE LifeInv'
  <2> SUFFICES ASSUME ~raced' PROVE LifeInv'
    BY DEF LifeInv
  <2>1. ~raced
    BY <1>b, <1>3, StepOnEngines
  <2>2. Stepped(a) /\ \A b \in Actors \ {a} : at'[b] = at[b]
    BY <1>3, SteppedIs
  <2>3. at[a].prog \in {"probe", "remove", "err_out", "err_out1", "err_out2", "enable", "disable"}
        /\ (at[a].prog \in {"probe", "remove", "err_out", "err_out1", "err_out2"} => a = "admin")
    BY <1>3, <2>2 DEF Stepped, ProgramsOf
  <2>4. Switching(a) /\ Phase(at[a], has, nf, mem)
    BY <2>1, <2>3 DEF LifeInv, Switching
  <2>5. \A b \in Actors \ {a} : ~Switching(b)'
    BY <2>1, <2>2, <2>4 DEF OneInv, OneAtATime, Switching
  <2>6. Onward(a)
    <3>1. CASE at[a].prog = "probe"
      BY <2>2, <2>3, <2>4, <3>1, ProbeOnward DEF AdminInv
    <3>2. CASE at[a].prog = "remove"
      BY <2>2, <2>3, <2>4, <3>2, RemoveOnward DEF AdminInv
    <3>3. CASE at[a].prog \in {"err_out", "err_out1", "err_out2"}
      BY <2>2, <2>3, <2>4, <3>3, ErrOnward DEF AdminInv
    <3>4. CASE at[a].prog = "enable"
      BY <2>2, <2>4, <3>4, EnableOnward
    <3>5. CASE at[a].prog = "disable"
      BY <2>2, <2>4, <3>5, DisableOnward
    <3> QED BY <2>3, <3>1, <3>2, <3>3, <3>4, <3>5
  <2>7. CASE at'[a] = Idle
    <3>1. ~Switching(a)' /\ Quiescent(has', nf', mem')
      BY <1>b, <2>6, <2>7 DEF Onward, Switching
    <3> QED BY <2>5, <3>1 DEF LifeInv
  <2>8. CASE at'[a] # Idle
    <3>1. at'[a].prog = at[a].prog
      BY <2>2, <2>8 DEF Stepped
    <3>2. Switching(a)' /\ Phase(at'[a], has', nf', mem')
      BY <2>4, <2>6, <2>8, <3>1 DEF Onward, Switching
    <3> QED BY <2>5, <3>2 DEF LifeInv, Quiet
  <2> QED BY <2>7, <2>8
<1>4. ASSUME NEW a \in Actors, Fails(a) PROVE LifeInv'
  <2>1. /\ \A b \in Actors \ {a} : at'[b] = at[b]
        /\ \/ at[a].prog = "enable" /\ at'[a] = Idle /\ at[a].pc = 2
           \/ /\ at[a].prog = "probe" /\ a = "admin" /\ at'[a].pc = 1
              /\ \/ at'[a].prog = "err_out2" /\ at[a].pc <= 5
                 \/ at'[a].prog = "err_out1" /\ at[a].pc = 6
                 \/ at'[a].prog = "err_out" /\ at[a].pc <= 9 + 3 * N
        /\ UNCHANGED <<has, nf, mem, raced>>
    BY <1>b, <1>4, FailsAt DEF Fails
  <2> SUFFICES ASSUME ~raced' PROVE LifeInv'
    BY DEF LifeInv
  <2>2. Switching(a) /\ Phase(at[a], has, nf, mem)
    BY <2>1 DEF LifeInv, Switching
  <2>3. \A b \in Actors \ {a} : ~Switching(b)'
    BY <2>1, <2>2 DEF OneInv, OneAtATime, Switching
  <2>4. CASE at[a].prog = "enable"
    <3>1. at'[a] = Idle /\ at[a].pc = 2
      BY <2>1, <2>4
    <3>2. /\ "ready" \in has /\ Tabled(mem) /\ nf = 0 /\ {"del", "hook_toggle"} \cap has = {}
      BY <2>2, <2>4, <3>1 DEF Phase
    <3>3. Quiescent(has', nf', mem')
      BY <2>1, <3>2 DEF Quiescent
    <3>4. ~Switching(a)'
      BY <1>b, <3>1 DEF Switching
    <3> QED BY <2>3, <3>3, <3>4 DEF LifeInv
  <2>5. CASE at[a].prog = "probe"
    <3>1. at[a].pc <= 9 + 3 * N
      BY <1>b, <1>w, <2>1, <2>5
    <3>2. ~(at[a].pc > 10 + 3 * N) /\ ~(at[a].pc > 11 + 3 * N)
      BY <1>b, <1>w, <3>1
    <3>3. Bare(has, nf) /\ ("debugfs" \in has => at[a].pc > 5)
      BY <2>2, <2>5, <3>1, <3>2 DEF Phase, Bare
    <3>4. 1 <= 1 + 3 * N
      BY <1>b
    <3>5. Phase(at'[a], has', nf', mem') /\ Switching(a)'
      <4>1. CASE at'[a].prog = "err_out2"
        <5>1. "debugfs" \notin has
          BY <1>w, <2>1, <2>5, <3>3, <4>1
        <5> QED BY <2>1, <3>3, <4>1, <5>1 DEF Phase, Switching
      <4>2. CASE at'[a].prog = "err_out1"
        BY <2>1, <2>5, <3>3, <4>2 DEF Phase, Switching
      <4>3. CASE at'[a].prog = "err_out"
        BY <2>1, <2>5, <3>3, <3>4, <4>3 DEF Phase, Switching
      <4> QED BY <2>1, <2>5, <4>1, <4>2, <4>3
    <3> QED BY <2>3, <3>5 DEF LifeInv, Quiet
  <2> QED BY <2>1, <2>4, <2>5
<1>5. CASE Outside
  <2>1. UNCHANGED <<has, nf, mem, at>> /\ (raced => raced')
    BY <1>5 DEF Outside
  <2> QED BY <2>1 DEF LifeInv, Quiet, Switching
<1> QED BY <1>b, <1>1, <1>2, <1>3, <1>4, <1>5, Kinds

(* The step of removal that takes the WiFi driver's hooks back.              *)
LEMMA RemoveWifi ==
  ASSUME NEW k \in Nat, NEW i, RemoveAt(k, i), k = 5
  PROVE  i.op = "ra_off"
<1>0. N \in Nat \ {0} /\ 2 * N \in Nat /\ 3 * N \in Nat /\ 5 * N \in Nat
  BY NType
<1>1. ASSUME NEW e \in Ppes
      PROVE  3 * e + 7 + 2 * N > 9 + 2 * N /\ 4 + 2 * e + 1 > 6 /\ e \in Nat
  <2>1. e \in Nat /\ 1 <= e
    BY DEF Ppes
  <2> QED BY <1>0, <2>1
<1>2. DisableAt(4, 5, i)
  BY <1>0, <1>1 DEF RemoveAt
<1> QED BY <1>0, <1>1, <1>2 DEF DisableAt

LEMMA WifiStep ==
  ASSUME Basic, AdminInv, OneInv, LifeInv, WifiInv, [Next]_vars
  PROVE  WifiInv'
<1>b. AtOK /\ Domains /\ Idle.prog = "none" /\ N \in Nat \ {0} /\ 3 * N \in Nat /\ 5 * N \in Nat
  BY NType DEF Basic, Idle
<1>w. "admin" \in Actors /\ "event" \in Actors /\ "admin" # "event"
  BY Actor
<1>1. ASSUME NEW a \in Actors, NEW p \in ProgramsOf(a) \ {"err_out", "err_out1", "err_out2"}, Starts(a, p)
      PROVE  WifiInv'
  <2>1. /\ \A b \in Actors \ {a} : at'[b] = at[b]
        /\ at[a] = Idle /\ UNCHANGED <<has, lost>> /\ (raced => raced')
    BY <1>b, <1>1, StartsAt DEF Starts
  <2>2. CASE a = "admin"
    BY <1>b, <2>1, <2>2 DEF WifiInv
  <2>3. CASE a # "admin"
    BY <1>w, <2>1, <2>3 DEF WifiInv
  <2> QED BY <2>2, <2>3
<1>2. ASSUME NEW a \in Actors, Step(a) PROVE WifiInv'
  <2> DEFINE i == Instruction(a)
  <2> SUFFICES ASSUME ~raced', "ra" \in has', "hooks" \notin lost'
               PROVE  \/ "ready" \in has'
                      \/ at'["admin"].prog = "probe" /\ at'["admin"].pc > 8 + 3 * N
                      \/ at'["admin"].prog = "remove" /\ at'["admin"].pc <= 5
    BY DEF WifiInv
  <2>1. /\ at[a] # Idle /\ Advance(a) /\ Effect(i, has, nf, mem, has', nf', mem')
        /\ "hooks" \in lost' <=> "hooks" \in lost /\ i.op # "ra_on"
        /\ ~raced
    BY <1>b, <1>2, StepEffect, StepOnEngines
  <2>2. /\ \A b \in Actors \ {a} : at'[b] = at[b]
        /\ \/ at'[a] = Idle /\ at[a].pc = LastStep[at[a].prog]
           \/ /\ at'[a] # Idle /\ at'[a].prog = at[a].prog /\ at'[a].pc = at[a].pc + 1
              /\ at[a].pc < LastStep[at[a].prog]
    BY <1>b, <2>1, AdvanceIs
  <2>3. /\ at[a].prog \in ProgramsOf(a) /\ at[a].pc \in 1 .. LastStep[at[a].prog] /\ LastStep[at[a].prog] \in Nat
        /\ Does(at[a].prog, at[a].pc, i) /\ at[a].pc \in Nat
    BY <1>b, <2>1, StepAt DEF Instruction
  <2>4. a # "admin" => /\ "ready" \in has' <=> "ready" \in has
                       /\ a = "event" => i.op \in {"netevent_off", "clear", "hw_init", "netevent_on"}
    BY <1>b, <1>2, <2>1, OthersOps, OthersKeep
  <2> HIDE DEF i
  <2>5. /\ "ra" \in has' <=> i.op = "ra_on" \/ ("ra" \in has /\ i.op # "ra_off")
        /\ "ready" \in has' <=> i.op = "teardown_on" \/ ("ready" \in has /\ i.op # "teardown_off")
    BY <2>1 DEF Effect, Plus, Minus, Flags
  <2>6. CASE i.op = "ra_on"
    <3>1. at[a].prog \in {"probe", "enable"}
      BY <2>3, <2>6 DEF Does, RemoveAt, DisableAt, WarmAt, ErrOutAt, ErrOut1At, ErrOut2At
    <3>2. CASE at[a].prog = "probe"
      <4>1. a = "admin" /\ ProbeAt(at[a].pc, i) /\ LastStep[at[a].prog] = 16 + 3 * N
        BY <2>3, <3>2 DEF Does, ProgramsOf, LastStep
      <4>2. at[a].pc = 8 + 3 * N
        BY <2>6, <4>1 DEF ProbeAt
      <4>3. at'[a].prog = "probe" /\ at'[a].pc = 8 + 3 * N + 1
        BY <1>b, <2>2, <3>2, <4>1, <4>2
      <4> QED BY <1>b, <4>1, <4>3
    <3>3. CASE at[a].prog = "enable"
      <4>1. Switching(a) /\ a # "admin"
        BY <2>3, <3>3 DEF Switching, ProgramsOf
      <4>2. "ready" \in has
        BY <2>1, <3>3, <4>1 DEF LifeInv, Phase
      <4> QED BY <2>4, <4>1, <4>2
    <3> QED BY <3>1, <3>2, <3>3
  <2>7. CASE i.op # "ra_on"
    <3>1. "ra" \in has /\ "hooks" \notin lost /\ i.op # "ra_off"
      BY <2>1, <2>5, <2>7
    <3>2. \/ "ready" \in has
          \/ at["admin"].prog = "probe" /\ at["admin"].pc > 8 + 3 * N
          \/ at["admin"].prog = "remove" /\ at["admin"].pc <= 5
      BY <2>1, <3>1 DEF WifiInv
    <3>3. CASE a # "admin"
      BY <1>w, <2>2, <2>4, <3>2, <3>3
    <3>4. CASE a = "admin" /\ at[a].prog = "probe"
      <4>1. ProbeAt(at[a].pc, i) /\ LastStep[at[a].prog] = 16 + 3 * N /\ at[a].pc > 8 + 3 * N
        BY <2>3, <3>2, <3>4 DEF Does, LastStep, AdminInv
      <4>2. CASE at'[a] = Idle
        <5>1. i.op = "teardown_on"
          BY <2>2, <2>3, <4>1, <4>2, <1>b, ProbeOps
        <5> QED BY <2>5, <5>1
      <4>3. CASE at'[a].prog = at[a].prog /\ at'[a].pc = at[a].pc + 1
        BY <1>b, <2>3, <3>4, <4>1, <4>3
      <4> QED BY <2>2, <4>2, <4>3
    <3>5. CASE a = "admin" /\ at[a].prog = "remove"
      <4>1. RemoveAt(at[a].pc, i) /\ LastStep[at[a].prog] = 14 + 5 * N
        BY <2>3, <3>5 DEF Does, LastStep
      <4>2. at[a].pc <= 5
        BY <2>3, <3>2, <3>5 DEF AdminInv
      <4>3. at[a].pc # 5
        BY <2>3, <3>1, <4>1, RemoveWifi
      <4>4. at[a].pc # 14 + 5 * N
        BY <1>b, <2>3, <4>2
      <4>5. at'[a].prog = "remove" /\ at'[a].pc = at[a].pc + 1
        BY <2>2, <3>5, <4>1, <4>4
      <4> QED BY <2>3, <3>5, <4>2, <4>3, <4>5
    <3>6. CASE a = "admin" /\ at[a].prog \in {"err_out", "err_out1", "err_out2"}
      BY <3>2, <3>6 DEF AdminInv
    <3> QED BY <2>3, <3>3, <3>4, <3>5, <3>6 DEF ProgramsOf
  <2> QED BY <2>6, <2>7
<1>3. ASSUME NEW a \in Actors, Fails(a) PROVE WifiInv'
  <2>1. /\ \A b \in Actors \ {a} : at'[b] = at[b]
        /\ \/ at[a].prog = "enable" /\ at'[a] = Idle
           \/ at[a].prog = "probe" /\ a = "admin"
        /\ UNCHANGED <<has, raced>>
        /\ "hooks" \in lost' <=> "hooks" \in lost \/ (at[a].prog = "probe" /\ "ra" \in has)
    BY <1>b, <1>3, FailsAt DEF Fails
  <2>2. CASE at[a].prog = "probe"
    BY <2>1, <2>2 DEF WifiInv
  <2>3. CASE at[a].prog = "enable"
    <3>1. a # "admin"
      <4>1. at[a].prog \in ProgramsOf(a)
        BY <1>b, <1>3, StepAt DEF Fails
      <4> QED BY <2>3, <4>1 DEF ProgramsOf
    <3> QED BY <1>w, <2>1, <2>3, <3>1 DEF WifiInv
  <2> QED BY <2>1, <2>2, <2>3
<1>4. CASE Outside
  <2>1. UNCHANGED <<has, at>> /\ (raced => raced') /\ ("hooks" \in lost' <=> "hooks" \in lost)
    BY <1>4 DEF Outside
  <2> QED BY <2>1 DEF WifiInv
<1> QED BY <1>b, <1>1, <1>2, <1>3, <1>4, Kinds

(* Whatever finds entries by itself, hooks of netfilter and of the WiFi      *)
(* driver, deletion by MAC, device and neighbour events, is registered after *)
(* the tables are there and unregistered before they go (lines 1470-1526,    *)
(* 1772-1797 and 1846-1859 of hnat.c), when probe, removal and switching do  *)
(* not race; what a failed probe leaves to the WiFi driver is excepted.      *)
THEOREM TablesFirst == Spec => []InstalledHasTables
<1>1. Init => Basic /\ AdminInv /\ OneInv /\ LifeInv /\ WifiInv
  BY Started
<1>2. Basic /\ AdminInv /\ OneInv /\ LifeInv /\ WifiInv /\ [Next]_vars
        => AdminInv' /\ OneInv' /\ LifeInv' /\ WifiInv'
  BY AdminStep, OneStep, LifeStep, WifiStep
<1>3. ASSUME Basic, AdminInv, LifeInv, ~raced, nf > 0 \/ has \cap {"del", "netdev_nb", "netevent_nb"} # {}
      PROVE  Tabled(mem)
  <2>1. ~Bare(has, nf)
    BY <1>3 DEF Bare
  <2>2. CASE Quiet
    BY <1>3, <2>1, <2>2 DEF LifeInv, Quiescent
  <2>3. ASSUME NEW a \in Actors, Switching(a) PROVE Tabled(mem)
    <3>0. N \in Nat \ {0} /\ 2 * N \in Nat /\ 3 * N \in Nat /\ at[a].pc \in Nat
      BY <1>3, NType DEF Basic, AtOK
    <3>1. Phase(at[a], has, nf, mem)
      BY <1>3, <2>3 DEF LifeInv
    <3>2. CASE at[a].prog = "probe"
      <4>1. at[a].pc > 9 + 3 * N
        BY <1>3, <3>0, <3>1, <3>2 DEF Phase
      <4>2. ASSUME NEW e \in Ppes PROVE at[a].pc > 3 * e + 4
        <5>1. e \in Nat /\ e <= N
          BY DEF Ppes, N
        <5> QED BY <3>0, <4>1, <5>1
      <4> QED BY <3>1, <3>2, <4>2 DEF Phase, Tabled
    <3>3. CASE at[a].prog = "remove"
      <4>1. at[a].pc <= 9 + 2 * N
        <5>1. /\ nf \in {0, 1} /\ (nf = 1 => at[a].pc <= 6)
              /\ {"del", "hook_toggle"} \cap has # {} => at[a].pc <= 8 + 2 * N
              /\ "netdev_nb" \in has => at[a].pc <= 3
              /\ "netevent_nb" \in has => at[a].pc <= 4
          BY <3>1, <3>3 DEF Phase
        <5>2. at[a].pc <= 6 \/ at[a].pc <= 8 + 2 * N \/ at[a].pc <= 3 \/ at[a].pc <= 4
          BY <1>3, <2>3, <5>1
        <5> QED BY <3>0, <5>2
      <4> QED BY <3>1, <3>3, <4>1 DEF Phase
    <3> QED BY <2>1, <3>1, <3>2, <3>3 DEF Phase
  <2> QED BY <2>2, <2>3 DEF Quiet
<1>4. ASSUME Basic, AdminInv, LifeInv, WifiInv, ~raced, "ra" \in has, "hooks" \notin lost
      PROVE  Tabled(mem)
  <2>0. N \in Nat \ {0} /\ 2 * N \in Nat /\ 3 * N \in Nat /\ at["admin"].pc \in Nat /\ "admin" \in Actors
    BY <1>4, NType, Actor DEF Basic, AtOK
  <2>1. CASE at["admin"].prog = "probe" /\ at["admin"].pc > 8 + 3 * N
    <3>1. Phase(at["admin"], has, nf, mem)
      BY <1>4, <2>0, <2>1 DEF LifeInv, Switching
    <3>2. ASSUME NEW e \in Ppes PROVE at["admin"].pc > 3 * e + 4
      <4>1. e \in Nat /\ e <= N
        BY DEF Ppes, N
      <4> QED BY <2>0, <2>1, <4>1
    <3> QED BY <2>1, <3>1, <3>2 DEF Phase, Tabled
  <2>2. CASE at["admin"].prog = "remove" /\ at["admin"].pc <= 5
    <3>1. Phase(at["admin"], has, nf, mem)
      BY <1>4, <2>0, <2>2 DEF LifeInv, Switching
    <3>2. at["admin"].pc <= 9 + 2 * N
      BY <2>0, <2>2
    <3> QED BY <2>2, <3>1, <3>2 DEF Phase
  <2>3. CASE "ready" \in has /\ Quiet
    BY <1>4, <2>3 DEF LifeInv, Quiescent
  <2>4. ASSUME "ready" \in has, NEW a \in Actors, Switching(a) PROVE Tabled(mem)
    <3>1. Phase(at[a], has, nf, mem)
      BY <1>4, <2>4 DEF LifeInv
    <3>2. CASE at[a].prog \in {"enable", "disable"}
      BY <3>1, <3>2 DEF Phase
    <3>3. CASE at[a].prog \in {"probe", "remove", "err_out", "err_out1", "err_out2"}
      <4>1. a = "admin"
        <5>1. at[a] # Idle
          BY <2>4 DEF Switching, Idle
        <5>2. at[a].prog \in ProgramsOf(a)
          BY <1>4, <5>1, StepAt DEF Basic
        <5> QED BY <3>3, <5>2 DEF ProgramsOf
      <4>2. at[a].prog = "remove" /\ at[a].pc <= 2
        BY <1>4, <2>0, <2>4, <3>3, <4>1 DEF AdminInv
      <4>3. at[a].pc <= 9 + 2 * N
        BY <2>0, <4>1, <4>2
      <4> QED BY <3>1, <4>2, <4>3 DEF Phase
    <3> QED BY <3>1, <3>2, <3>3 DEF Phase
  <2> QED BY <1>4, <2>1, <2>2, <2>3, <2>4 DEF WifiInv, Quiet
<1>5. Basic /\ AdminInv /\ LifeInv /\ WifiInv => InstalledHasTables
  BY <1>3, <1>4 DEF InstalledHasTables, Installed, Tabled
<1> QED BY <1>1, <1>2, <1>5, BasicInvariant, PTL DEF Spec
-------------------------------------------------------------------------------
(***************************************************************************)
(* Folds over a finite set.  FoldSet takes elements in the order CHOOSE    *)
(* gives; a fold is one element more than the fold without that element,   *)
(* so what holds of the empty set and survives one element holds of all.   *)
(***************************************************************************)
(* Induction over subsets of a finite set.                                  *)
LEMMA LeastSet ==
  ASSUME NEW D, IsFiniteSet(D), NEW T, T \subseteq SUBSET D, T # {}
  PROVE  \E u \in T : \A v \in T : v \subseteq u => v = u
<1> DEFINE R == StrictSubsetOrdering(D)
<1>1. T \subseteq FiniteSubsetsOf(D)
  BY FS_Subset DEF FiniteSubsetsOf
<1>2. IsWellFoundedOn(R, FiniteSubsetsOf(D))
  BY FS_StrictSubsetOrderingWellFounded
<1>3. \E u \in T : \A v \in T : ~ (<<v, u>> \in R)
  <2> HIDE DEF R
  <2> QED BY <1>1, <1>2, WFMin
<1> QED BY <1>3 DEF StrictSubsetOrdering

(* The element that a fold of s takes last.                                  *)
Chosen(s) == CHOOSE x \in s : TRUE

(* g folds F over the sets in T.                                             *)
IsFold(g, F, base, T) ==
  g = [s \in T |-> IF s = {} THEN base ELSE F[Chosen(s)][g[s \ {Chosen(s)}]]]

LEMMA Without ==
  ASSUME NEW D, IsFiniteSet(D), NEW s \in SUBSET D, s # {}
  PROVE  /\ Chosen(s) \in s /\ s \ {Chosen(s)} \in SUBSET D /\ s \ {Chosen(s)} # s
         /\ Cardinality(s) \in Nat \ {0} /\ Cardinality(s \ {Chosen(s)}) = Cardinality(s) - 1
<1>1. Chosen(s) \in s
  BY DEF Chosen
<1>2. IsFiniteSet(s)
  BY FS_Subset
<1>3. Cardinality(s) \in Nat /\ Cardinality(s) # 0
  BY <1>2, FS_CardinalityType, FS_EmptySet
<1>4. Cardinality(s \ {Chosen(s)}) = Cardinality(s) - 1
  BY <1>1, <1>2, FS_RemoveElement
<1> QED BY <1>1, <1>3, <1>4

LEMMA FoldExists ==
  ASSUME NEW D, IsFiniteSet(D), NEW F, NEW base
  PROVE  \E g : IsFold(g, F, base, SUBSET D)
<1> DEFINE Upto(u) == {s \in SUBSET D : Cardinality(s) <= Cardinality(u)}
           Bad == {u \in SUBSET D : ~ \E g : IsFold(g, F, base, Upto(u))}
<1>1. Bad = {}
  <2> SUFFICES ASSUME Bad # {} PROVE FALSE
    OBVIOUS
  <2>1. PICK u \in Bad : \A v \in Bad : v \subseteq u => v = u
    <3>1. Bad \subseteq SUBSET D
      OBVIOUS
    <3> HIDE DEF Bad
    <3> QED BY <3>1, LeastSet
  <2>2. u \in SUBSET D /\ ~ \E g : IsFold(g, F, base, Upto(u))
    BY <2>1
  <2>3. CASE u = {}
    <3>1. \A s \in Upto(u) : s = {}
      <4> TAKE s \in Upto(u)
      <4>1. IsFiniteSet(s) /\ Cardinality(s) <= 0
        BY <2>3, FS_Subset, FS_EmptySet
      <4> QED BY <4>1, FS_CardinalityType, FS_EmptySet
    <3>2. IsFold([s \in Upto(u) |-> base], F, base, Upto(u))
      <4> HIDE DEF Upto
      <4> QED BY <3>1 DEF IsFold
    <3> QED BY <3>2, <2>2
  <2>4. CASE u # {}
    <3> DEFINE v == u \ {Chosen(u)}
    <3>1. v \in SUBSET D /\ v # u /\ v \subseteq u /\ Cardinality(u) \in Nat \ {0}
          /\ Cardinality(v) = Cardinality(u) - 1
      BY <2>2, <2>4, Without
    <3>2. PICK g : IsFold(g, F, base, Upto(v))
      BY <2>1, <3>1
    <3> DEFINE h == [s \in Upto(u) |-> IF s = {} THEN base ELSE F[Chosen(s)][g[s \ {Chosen(s)}]]]
    <3>3. \A s \in Upto(u) : s # {} => s \ {Chosen(s)} \in Upto(v)
      <4> TAKE s \in Upto(u)
      <4> HAVE s # {}
      <4>1. s \in SUBSET D /\ Cardinality(s) <= Cardinality(u)
        OBVIOUS
      <4>2. s \ {Chosen(s)} \in SUBSET D /\ Cardinality(s) \in Nat
            /\ Cardinality(s \ {Chosen(s)}) = Cardinality(s) - 1
        BY <4>1, Without
      <4> QED BY <4>1, <4>2, <3>1
    <3>4. \A s \in Upto(v) : s \in Upto(u)
      <4> TAKE s \in Upto(v)
      <4>1. IsFiniteSet(s) /\ s \in SUBSET D /\ Cardinality(s) <= Cardinality(v)
        BY FS_Subset
      <4> QED BY <4>1, <3>1, FS_CardinalityType
    <3>5. \A s \in Upto(v) : h[s] = g[s]
      <4> HIDE DEF Upto, v
      <4> QED BY <3>2, <3>4 DEF IsFold
    <3>6. IsFold(h, F, base, Upto(u))
      <4>1. \A s \in Upto(u) : s # {} => h[s \ {Chosen(s)}] = g[s \ {Chosen(s)}]
        BY <3>3, <3>5
      <4> HIDE DEF Upto
      <4> QED BY <4>1 DEF IsFold
    <3> HIDE DEF h, Upto
    <3> QED BY <3>6, <2>2
  <2> QED BY <2>3, <2>4
<1>2. D \in SUBSET D /\ Upto(D) = SUBSET D
  <2>1. \A s \in SUBSET D : Cardinality(s) <= Cardinality(D)
    BY FS_Subset
  <2> QED BY <2>1
<1> QED BY <1>1, <1>2

(* What holds of the empty set, and of a set if without its chosen element.  *)
LEMMA SubsetInduction ==
  ASSUME NEW D, IsFiniteSet(D), NEW Z, {} \in Z,
         \A s \in SUBSET D : s # {} /\ s \ {Chosen(s)} \in Z => s \in Z
  PROVE  \A s \in SUBSET D : s \in Z
<1> DEFINE Bad == {s \in SUBSET D : s \notin Z}
<1>1. Bad = {}
  <2> SUFFICES ASSUME Bad # {} PROVE FALSE
    OBVIOUS
  <2>1. PICK u \in Bad : \A v \in Bad : v \subseteq u => v = u
    <3>1. Bad \subseteq SUBSET D
      OBVIOUS
    <3> HIDE DEF Bad
    <3> QED BY <3>1, LeastSet
  <2>2. u # {} /\ u \in SUBSET D /\ u \notin Z
    BY <2>1
  <2>3. u \ {Chosen(u)} \in SUBSET D /\ u \ {Chosen(u)} # u
    BY <2>2, Without
  <2>4. u \ {Chosen(u)} \in Z
    BY <2>1, <2>3
  <2> QED BY <2>2, <2>4
<1> QED BY <1>1

(* A fold of a function that stays in U.                                     *)
LEMMA FoldStays ==
  ASSUME NEW D, IsFiniteSet(D), NEW U, NEW base \in U, NEW F,
         \A x \in D : \A t \in U : F[x][t] \in U
  PROVE  \E g : IsFold(g, F, base, SUBSET D) /\ \A s \in SUBSET D : g[s] \in U
<1>1. PICK g : IsFold(g, F, base, SUBSET D)
  BY FoldExists
<1> DEFINE Z == {s \in SUBSET D : g[s] \in U}
<1>2. {} \in Z
  BY <1>1 DEF IsFold
<1>3. ASSUME NEW s \in SUBSET D, s # {}, s \ {Chosen(s)} \in Z PROVE s \in Z
  <2>1. Chosen(s) \in D
    BY <1>3, Without
  <2>2. g[s] = F[Chosen(s)][g[s \ {Chosen(s)}]]
    BY <1>1, <1>3 DEF IsFold
  <2> QED BY <1>3, <2>1, <2>2
<1>4. \A s \in SUBSET D : s \in Z
  <2> HIDE DEF Z
  <2> QED BY <1>2, <1>3, SubsetInduction
<1> QED BY <1>1, <1>4

LEMMA CardDiffers ==
  ASSUME NEW A, IsFiniteSet(A), NEW B, NEW x, A \ {x} = B \ {x}
  PROVE  /\ IsFiniteSet(B) /\ Cardinality(A) \in Nat /\ Cardinality(B) \in Nat
         /\ Cardinality(B) = Cardinality(A) - (IF x \in A THEN 1 ELSE 0) + (IF x \in B THEN 1 ELSE 0)
<1> DEFINE C == A \ {x}
<1>1. IsFiniteSet(C) /\ Cardinality(C) = IF x \in A THEN Cardinality(A) - 1 ELSE Cardinality(A)
  BY FS_RemoveElement
<1>2. Cardinality(C) \in Nat /\ Cardinality(A) \in Nat
  BY <1>1, FS_CardinalityType
<1>3. B = IF x \in B THEN C \cup {x} ELSE C
  OBVIOUS
<1>4. x \notin C
  OBVIOUS
<1>5. IsFiniteSet(C \cup {x}) /\ Cardinality(C \cup {x}) = Cardinality(C) + 1
  BY <1>1, <1>4, FS_AddElement
<1> HIDE DEF C
<1>6. IsFiniteSet(B) /\ Cardinality(B) = Cardinality(C) + (IF x \in B THEN 1 ELSE 0)
  BY <1>1, <1>2, <1>3, <1>5
<1> QED BY <1>1, <1>2, <1>6
-------------------------------------------------------------------------------
(***************************************************************************)
(* What is held, and what the handlers of devices do to it.                *)
(***************************************************************************)
MaybeDev == Devs \cup {None}

HeldType ==
  [refs : [Devs -> Int], ext : Seq([name : Devs, dev : MaybeDev]), wifi : [1 .. MaxIf -> MaybeDev],
   ppdev : MaybeDev, wandev : MaybeDev]

(* References to e that the list and the table do not use.                   *)
Slack(t, e) == t.refs[e] - Cardinality(ExtOf(t, e)) - Cardinality(SlotsOf(t, e))

(* References that what is pointed to does not use, the port device and the  *)
(* WAN device counted or not.                                                *)
Spare(t, p, w, e) ==
  Slack(t, e) - (IF p /\ t.ppdev = e THEN 1 ELSE 0) - (IF w /\ t.wandev = e THEN 1 ELSE 0)

(* A handler of device d that takes a reference for each pointer it sets.    *)
Even(t, u) ==
  /\ u \in HeldType /\ u.ppdev = t.ppdev /\ u.wandev = t.wandev
  /\ \A e \in Devs : Slack(u, e) = Slack(t, e)

LEMMA Fields ==
  ASSUME NEW t \in HeldType
  PROVE  /\ t.refs \in [Devs -> Int] /\ t.ext \in Seq([name : Devs, dev : MaybeDev])
         /\ t.wifi \in [1 .. MaxIf -> MaybeDev] /\ t.ppdev \in MaybeDev /\ t.wandev \in MaybeDev
         /\ t = [refs |-> t.refs, ext |-> t.ext, wifi |-> t.wifi, ppdev |-> t.ppdev, wandev |-> t.wandev]
BY DEF HeldType

LEMMA ListIs ==
  ASSUME NEW t \in HeldType
  PROVE  /\ Len(t.ext) \in Nat /\ DOMAIN t.ext = 1 .. Len(t.ext)
         /\ \A i \in DOMAIN t.ext : t.ext[i] \in [name : Devs, dev : MaybeDev]
<1> DEFINE x == t.ext
           E == [name : Devs, dev : MaybeDev]
<1>1. x \in Seq(E)
  BY Fields
<1> HIDE DEF x, E
<1>2. Len(x) \in Nat /\ DOMAIN x = 1 .. Len(x) /\ \A i \in DOMAIN x : x[i] \in E
  BY <1>1
<1> QED BY <1>2 DEF x, E

LEMMA ListType ==
  ASSUME NEW t \in HeldType, NEW e \in Devs
  PROVE  /\ IsFiniteSet(ExtOf(t, e)) /\ Cardinality(ExtOf(t, e)) \in Nat
         /\ IsFiniteSet(SlotsOf(t, e)) /\ Cardinality(SlotsOf(t, e)) \in Nat
         /\ Len(t.ext) \in Nat /\ DOMAIN t.ext = 1 .. Len(t.ext)
         /\ \A i \in DOMAIN t.ext : t.ext[i] \in [name : Devs, dev : MaybeDev]
         /\ t.refs[e] \in Int /\ Slack(t, e) \in Int
<1>1. /\ Len(t.ext) \in Nat /\ DOMAIN t.ext = 1 .. Len(t.ext)
      /\ \A i \in DOMAIN t.ext : t.ext[i] \in [name : Devs, dev : MaybeDev]
      /\ t.refs[e] \in Int
  BY ListIs, Fields
<1>2. IsFiniteSet(1 .. Len(t.ext)) /\ IsFiniteSet(1 .. MaxIf)
  <2>1. 1 \in Int /\ Len(t.ext) \in Int /\ MaxIf \in Int
    BY <1>1, DevsAssumption
  <2> QED BY <2>1, FS_Interval
<1>3. ExtOf(t, e) \in SUBSET (1 .. Len(t.ext)) /\ SlotsOf(t, e) \in SUBSET (1 .. MaxIf)
  BY <1>1 DEF ExtOf, SlotsOf
<1>4. IsFiniteSet(ExtOf(t, e)) /\ IsFiniteSet(SlotsOf(t, e))
  BY <1>2, <1>3, FS_Subset
<1>5. Cardinality(ExtOf(t, e)) \in Nat /\ Cardinality(SlotsOf(t, e)) \in Nat
  BY <1>4, FS_CardinalityType
<1>6. Slack(t, e) \in Int
  BY <1>1, <1>5 DEF Slack
<1> QED BY <1>1, <1>4, <1>5, <1>6

(* t with n more references to d.                                            *)
More(t, d, n) == [t EXCEPT !.refs[d] = @ + n]

LEMMA MoreIs ==
  ASSUME NEW t \in HeldType, NEW d \in Devs, NEW n \in Int
  PROVE  /\ More(t, d, n) \in HeldType
         /\ More(t, d, n).ext = t.ext /\ More(t, d, n).wifi = t.wifi
         /\ More(t, d, n).ppdev = t.ppdev /\ More(t, d, n).wandev = t.wandev
         /\ \A e \in Devs : /\ More(t, d, n).refs[e] = t.refs[e] + (IF e = d THEN n ELSE 0)
                            /\ Slack(More(t, d, n), e) = Slack(t, e) + (IF e = d THEN n ELSE 0)
<1> DEFINE u == More(t, d, n)
<1>1. t.refs \in [Devs -> Int]
  BY DEF HeldType
<1>2. /\ u.ext = t.ext /\ u.wifi = t.wifi /\ u.ppdev = t.ppdev /\ u.wandev = t.wandev
      /\ u.refs = [t.refs EXCEPT ![d] = @ + n]
      /\ u \in HeldType
  <2> DEFINE r == [t.refs EXCEPT ![d] = @ + n]
  <2>1. r \in [Devs -> Int]
    BY <1>1
  <2>2. u = [t EXCEPT !.refs = r]
    BY Fields DEF More
  <2> HIDE DEF r, u
  <2>3. u = [refs |-> r, ext |-> t.ext, wifi |-> t.wifi, ppdev |-> t.ppdev, wandev |-> t.wandev]
    BY <2>2, Fields
  <2>4. u \in HeldType
    BY <2>1, <2>3, Fields DEF HeldType
  <2> QED BY <2>3, <2>4 DEF r
<1> HIDE DEF u
<1>3. ASSUME NEW e \in Devs
      PROVE  /\ u.refs[e] = t.refs[e] + (IF e = d THEN n ELSE 0)
             /\ Slack(u, e) = Slack(t, e) + (IF e = d THEN n ELSE 0)
  <2>1. u.refs[e] = t.refs[e] + (IF e = d THEN n ELSE 0)
    BY <1>1, <1>2
  <2>2. ExtOf(u, e) = ExtOf(t, e) /\ SlotsOf(u, e) = SlotsOf(t, e)
    BY <1>2 DEF ExtOf, SlotsOf
  <2>3. /\ Cardinality(ExtOf(t, e)) \in Nat /\ Cardinality(SlotsOf(t, e)) \in Nat
        /\ t.refs[e] \in Int
    BY ListType
  <2> QED BY <2>1, <2>2, <2>3 DEF Slack
<1> QED BY <1>2, <1>3 DEF u

LEMMA HoldPut ==
  ASSUME NEW t \in HeldType, NEW d \in Devs
  PROVE  Hold(t, d) = More(t, d, 1) /\ Put(t, d) = More(t, d, -1)
<1>1. t.refs \in [Devs -> Int]
  BY DEF HeldType
<1>2. t.refs[d] - 1 = t.refs[d] + (-1)
  BY <1>1
<1> QED BY <1>2 DEF Hold, Put, More

(* The entry at i of the list points to v instead.                           *)
LEMMA Repoint ==
  ASSUME NEW t \in HeldType, NEW i \in DOMAIN t.ext, NEW v \in MaybeDev, NEW u,
         u = [t EXCEPT !.ext[i].dev = v]
  PROVE  /\ u \in HeldType /\ u.ppdev = t.ppdev /\ u.wandev = t.wandev /\ u.wifi = t.wifi
         /\ u.refs = t.refs /\ Len(u.ext) = Len(t.ext)
         /\ \A e \in Devs : Slack(u, e) = Slack(t, e) + (IF t.ext[i].dev = e THEN 1 ELSE 0)
                                                     - (IF v = e THEN 1 ELSE 0)
<1> DEFINE x == [t.ext EXCEPT ![i].dev = v]
<1>1. t.ext \in Seq([name : Devs, dev : MaybeDev]) /\ t.ext[i] \in [name : Devs, dev : MaybeDev]
  BY Fields, ListIs
<1>2. /\ x \in Seq([name : Devs, dev : MaybeDev]) /\ Len(x) = Len(t.ext) /\ DOMAIN x = DOMAIN t.ext
      /\ x[i].dev = v /\ \A j \in DOMAIN t.ext \ {i} : x[j] = t.ext[j]
  <2> DEFINE E == [name : Devs, dev : MaybeDev]
             y == [t.ext[i] EXCEPT !.dev = v]
  <2>1. y \in E /\ y.dev = v
    BY <1>1
  <2>2. x = [t.ext EXCEPT ![i] = y]
    BY <1>1
  <2>3. t.ext \in Seq(E)
    BY <1>1
  <2> HIDE DEF E, y, x
  <2>4. x \in Seq(E) /\ Len(x) = Len(t.ext) /\ DOMAIN x = DOMAIN t.ext
        /\ x[i] = y /\ \A j \in DOMAIN t.ext \ {i} : x[j] = t.ext[j]
    BY <2>1, <2>2, <2>3
  <2> QED BY <2>1, <2>4 DEF E
<1>3. /\ u.ext = x /\ u.wifi = t.wifi /\ u.ppdev = t.ppdev /\ u.wandev = t.wandev
      /\ u.refs = t.refs
  BY DEF HeldType
<1> HIDE DEF x
<1>4. u \in HeldType
  <2>1. u = [t EXCEPT !.ext = x]
    BY DEF HeldType, x
  <2> QED BY <1>2, <2>1 DEF HeldType
<1>5. ASSUME NEW e \in Devs
      PROVE  Slack(u, e) = Slack(t, e) + (IF t.ext[i].dev = e THEN 1 ELSE 0) - (IF v = e THEN 1 ELSE 0)
  <2>1. ExtOf(u, e) \ {i} = ExtOf(t, e) \ {i}
    BY <1>2, <1>3 DEF ExtOf
  <2>2. (i \in ExtOf(t, e) <=> t.ext[i].dev = e) /\ (i \in ExtOf(u, e) <=> v = e)
    BY <1>2, <1>3 DEF ExtOf
  <2>3. /\ IsFiniteSet(ExtOf(t, e)) /\ Cardinality(ExtOf(t, e)) \in Nat /\ Cardinality(SlotsOf(t, e)) \in Nat
        /\ t.refs[e] \in Int /\ Slack(t, e) \in Int
    BY ListType
  <2>4. Cardinality(ExtOf(u, e)) = Cardinality(ExtOf(t, e)) - (IF t.ext[i].dev = e THEN 1 ELSE 0)
                                     + (IF v = e THEN 1 ELSE 0)
    BY <2>1, <2>2, <2>3, CardDiffers
  <2>5. SlotsOf(u, e) = SlotsOf(t, e) /\ u.refs[e] = t.refs[e]
    BY <1>3 DEF SlotsOf
  <2> QED BY <2>3, <2>4, <2>5 DEF Slack
<1> QED BY <1>2, <1>3, <1>4, <1>5

(* Slot i of the table points to v instead.                                  *)
Slotted(t, i, v) == [t EXCEPT !.wifi[i] = v]

LEMMA Reslot ==
  ASSUME NEW t \in HeldType, NEW i \in 1 .. MaxIf, NEW v \in MaybeDev
  PROVE  /\ Slotted(t, i, v) \in HeldType /\ Slotted(t, i, v).ppdev = t.ppdev
         /\ Slotted(t, i, v).wandev = t.wandev
         /\ \A e \in Devs : Slack(Slotted(t, i, v), e) = Slack(t, e) + (IF t.wifi[i] = e THEN 1 ELSE 0)
                                                     - (IF v = e THEN 1 ELSE 0)
<1> DEFINE u == Slotted(t, i, v)
           x == [t.wifi EXCEPT ![i] = v]
<1>1. t.wifi \in [1 .. MaxIf -> MaybeDev]
  BY DEF HeldType
<1>2. x \in [1 .. MaxIf -> MaybeDev] /\ x[i] = v /\ \A j \in (1 .. MaxIf) \ {i} : x[j] = t.wifi[j]
  BY <1>1
<1>3. /\ u.wifi = x /\ u.ext = t.ext /\ u.ppdev = t.ppdev /\ u.wandev = t.wandev
      /\ u.refs = t.refs
  BY DEF HeldType, Slotted
<1> HIDE DEF x, u
<1>4. u \in HeldType
  <2>1. u = [t EXCEPT !.wifi = x]
    BY DEF HeldType, x, u, Slotted
  <2> QED BY <1>2, <2>1 DEF HeldType
<1>5. ASSUME NEW e \in Devs
      PROVE  Slack(u, e) = Slack(t, e) + (IF t.wifi[i] = e THEN 1 ELSE 0) - (IF v = e THEN 1 ELSE 0)
  <2>1. SlotsOf(u, e) \ {i} = SlotsOf(t, e) \ {i}
    BY <1>2, <1>3 DEF SlotsOf
  <2>2. (i \in SlotsOf(t, e) <=> t.wifi[i] = e) /\ (i \in SlotsOf(u, e) <=> v = e)
    BY <1>2, <1>3 DEF SlotsOf
  <2>3. /\ IsFiniteSet(SlotsOf(t, e)) /\ Cardinality(ExtOf(t, e)) \in Nat /\ Cardinality(SlotsOf(t, e)) \in Nat
        /\ t.refs[e] \in Int /\ Slack(t, e) \in Int
    BY ListType
  <2>4. Cardinality(SlotsOf(u, e)) = Cardinality(SlotsOf(t, e)) - (IF t.wifi[i] = e THEN 1 ELSE 0)
                                     + (IF v = e THEN 1 ELSE 0)
    BY <2>1, <2>2, <2>3, CardDiffers
  <2>5. ExtOf(u, e) = ExtOf(t, e) /\ u.refs[e] = t.refs[e]
    BY <1>3 DEF ExtOf
  <2> QED BY <2>3, <2>4, <2>5 DEF Slack
<1> QED BY <1>3, <1>4, <1>5 DEF u

LEMMA FirstIs ==
  ASSUME NEW n \in Nat, NEW I, I \subseteq 1 .. n, I # {}
  PROVE  First(I) \in I
<1> DEFINE D == 1 .. n
           T == {1 .. k : k \in I}
<1>1. IsFiniteSet(D)
  BY FS_Interval
<1>2. T \subseteq SUBSET D /\ T # {}
  <2>1. ASSUME NEW k \in I PROVE 1 .. k \in SUBSET D
    <3>1. k \in Nat /\ k <= n
      OBVIOUS
    <3> QED BY <3>1
  <2> QED BY <2>1
<1>u. \E u \in T : \A v \in T : v \subseteq u => v = u
  <2> HIDE DEF T, D
  <2> QED BY <1>1, <1>2, LeastSet
<1>3. PICK i \in I : \A v \in T : v \subseteq 1 .. i => v = 1 .. i
  BY <1>u
<1>4. ASSUME NEW j \in I PROVE i <= j
  <2> SUFFICES ASSUME j < i PROVE FALSE
    OBVIOUS
  <2>0. i \in Nat /\ j \in Nat
    OBVIOUS
  <2>1. 1 .. j = 1 .. i
    <3>1. 1 .. j \subseteq 1 .. i /\ 1 .. j \in T
      BY <2>0
    <3> QED BY <1>3, <3>1
  <2>2. i \in 1 .. i /\ i \notin 1 .. j
    BY <2>0
  <2> QED BY <2>1, <2>2
<1>5. \E k \in I : \A j \in I : k <= j
  BY <1>4
<1> QED BY <1>5, Zenon DEF First

LEMMA SetDevIs ==
  ASSUME NEW t \in HeldType, NEW d \in Devs
  PROVE  Even(t, extif_set_dev(t, d))
<1> DEFINE I == {i \in NamedExt(t, d) : t.ext[i].dev = None}
           u == extif_set_dev(t, d)
<1>1. CASE I = {}
  <2>1. u = t
    BY <1>1 DEF extif_set_dev
  <2> QED BY <2>1 DEF Even
<1>2. CASE I # {}
  <2> DEFINE h == More(t, d, 1)
             i == First(I)
  <2>1. u = [h EXCEPT !.ext[i].dev = d]
    BY <1>2, HoldPut DEF extif_set_dev
  <2>2. /\ h \in HeldType /\ h.ext = t.ext /\ h.ppdev = t.ppdev /\ h.wandev = t.wandev
        /\ \A e \in Devs : Slack(h, e) = Slack(t, e) + (IF e = d THEN 1 ELSE 0)
    BY MoreIs
  <2>3. i \in I
    <3>1. Len(t.ext) \in Nat /\ I \subseteq 1 .. Len(t.ext)
      BY ListIs DEF NamedExt
    <3> HIDE DEF I
    <3> QED BY <1>2, <3>1, FirstIs
  <2>4. i \in DOMAIN t.ext /\ t.ext[i].dev = None
    BY <2>3 DEF NamedExt
  <2>5. d \in MaybeDev /\ None \notin Devs
    BY DevsAssumption DEF MaybeDev
  <2> HIDE DEF h, i, u
  <2>6. /\ u \in HeldType /\ u.ppdev = h.ppdev /\ u.wandev = h.wandev
        /\ \A e \in Devs : Slack(u, e) = Slack(h, e) + (IF h.ext[i].dev = e THEN 1 ELSE 0)
                                                     - (IF d = e THEN 1 ELSE 0)
    BY <2>1, <2>2, <2>4, <2>5, Repoint
  <2>7. ASSUME NEW e \in Devs PROVE Slack(u, e) = Slack(t, e)
    <3>1. Slack(t, e) \in Int /\ None # e
      BY ListType, <2>5
    <3> QED BY <2>2, <2>4, <2>6, <3>1
  <2>8. Even(t, u)
    BY <2>2, <2>6, <2>7 DEF Even
  <2> QED BY <2>8 DEF u
<1> QED BY <1>1, <1>2

LEMMA PutDevIs ==
  ASSUME NEW t \in HeldType, NEW d \in Devs
  PROVE  Even(t, extif_put_dev(t, d))
<1> DEFINE I == ExtOf(t, d)
           u == extif_put_dev(t, d)
<1>1. CASE I = {}
  <2>1. u = t
    BY <1>1 DEF extif_put_dev
  <2> QED BY <2>1 DEF Even
<1>2. CASE I # {}
  <2> DEFINE h == More(t, d, -1)
             i == First(I)
  <2>1. u = [h EXCEPT !.ext[i].dev = None]
    BY <1>2, HoldPut DEF extif_put_dev
  <2>2. /\ h \in HeldType /\ h.ext = t.ext /\ h.ppdev = t.ppdev /\ h.wandev = t.wandev
        /\ \A e \in Devs : Slack(h, e) = Slack(t, e) + (IF e = d THEN -1 ELSE 0)
    BY MoreIs
  <2>3. i \in I
    <3>1. Len(t.ext) \in Nat /\ I \subseteq 1 .. Len(t.ext)
      BY ListIs DEF ExtOf
    <3> HIDE DEF I
    <3> QED BY <1>2, <3>1, FirstIs
  <2>4. i \in DOMAIN t.ext /\ t.ext[i].dev = d
    BY <2>3 DEF ExtOf
  <2>5. None \in MaybeDev /\ None \notin Devs
    BY DevsAssumption DEF MaybeDev
  <2> HIDE DEF h, i, u
  <2>6. /\ u \in HeldType /\ u.ppdev = h.ppdev /\ u.wandev = h.wandev
        /\ \A e \in Devs : Slack(u, e) = Slack(h, e) + (IF h.ext[i].dev = e THEN 1 ELSE 0)
                                                     - (IF None = e THEN 1 ELSE 0)
    <3>1. i \in DOMAIN h.ext /\ h \in HeldType /\ None \in MaybeDev
      BY <2>2, <2>4, <2>5
    <3>2. u = [h EXCEPT !.ext[i].dev = None]
      BY <2>1
    <3>3. /\ [h EXCEPT !.ext[i].dev = None] \in HeldType
          /\ [h EXCEPT !.ext[i].dev = None].ppdev = h.ppdev
          /\ [h EXCEPT !.ext[i].dev = None].wandev = h.wandev
          /\ \A e \in Devs : Slack([h EXCEPT !.ext[i].dev = None], e)
               = Slack(h, e) + (IF h.ext[i].dev = e THEN 1 ELSE 0) - (IF None = e THEN 1 ELSE 0)
      BY <3>1, Repoint
    <3> QED BY <3>2, <3>3
  <2>7. ASSUME NEW e \in Devs PROVE Slack(u, e) = Slack(t, e)
    <3>1. Slack(t, e) \in Int /\ None # e
      BY ListType, <2>5
    <3> QED BY <2>2, <2>4, <2>6, <3>1
  <2>8. Even(t, u)
    BY <2>2, <2>6, <2>7 DEF Even
  <2> QED BY <2>8 DEF u
<1> QED BY <1>1, <1>2

LEMMA EvenTwice ==
  ASSUME NEW t, NEW u, NEW v, Even(t, u), Even(u, v)
  PROVE  Even(t, v)
BY DEF Even

(* A reference and a free slot for d.                                        *)
LEMMA SlotFilled ==
  ASSUME NEW t \in HeldType, NEW d \in Devs, NEW i \in 1 .. MaxIf, t.wifi[i] = None
  PROVE  Even(t, Slotted(More(t, d, 1), i, d))
<1> DEFINE h == More(t, d, 1)
           u == Slotted(h, i, d)
<1>1. /\ h \in HeldType /\ h.wifi = t.wifi /\ h.ppdev = t.ppdev /\ h.wandev = t.wandev
      /\ \A e \in Devs : Slack(h, e) = Slack(t, e) + (IF e = d THEN 1 ELSE 0)
  BY MoreIs
<1>2. d \in MaybeDev /\ None \notin Devs
  BY DevsAssumption DEF MaybeDev
<1> HIDE DEF h
<1>3. /\ u \in HeldType /\ u.ppdev = h.ppdev /\ u.wandev = h.wandev
      /\ \A e \in Devs : Slack(u, e) = Slack(h, e) + (IF h.wifi[i] = e THEN 1 ELSE 0)
                                                   - (IF d = e THEN 1 ELSE 0)
  <2> HIDE DEF u
  <2> QED BY <1>1, <1>2, Reslot DEF u
<1> HIDE DEF u
<1>4. ASSUME NEW e \in Devs PROVE Slack(u, e) = Slack(t, e)
  <2>1. Slack(t, e) \in Int /\ None # e
    BY ListType, <1>2
  <2> QED BY <1>1, <1>3, <2>1
<1>5. Even(t, u)
  BY <1>1, <1>3, <1>4 DEF Even
<1> QED BY <1>5 DEF u, h

LEMMA SlotTaken ==
  ASSUME NEW t \in HeldType, NEW d \in Devs, SlotsOf(t, None) # {}, NEW s, s.wifi = t.wifi
  PROVE  Even(t, [Hold(t, d) EXCEPT !.wifi[First(SlotsOf(s, None))] = d])
<1> DEFINE i == First(SlotsOf(s, None))
<1>1. SlotsOf(s, None) = SlotsOf(t, None)
  BY DEF SlotsOf
<1>2. i \in SlotsOf(t, None)
  <2>1. MaxIf \in Nat /\ SlotsOf(t, None) \subseteq 1 .. MaxIf
    BY DevsAssumption DEF SlotsOf
  <2> QED BY <1>1, <2>1, FirstIs
<1>3. i \in 1 .. MaxIf /\ t.wifi[i] = None
  BY <1>2 DEF SlotsOf
<1>4. [Hold(t, d) EXCEPT !.wifi[i] = d] = Slotted(More(t, d, 1), i, d)
  BY HoldPut DEF Slotted
<1> HIDE DEF i
<1>5. Even(t, Slotted(More(t, d, 1), i, d))
  BY <1>3, SlotFilled
<1>6. Even(t, [Hold(t, d) EXCEPT !.wifi[i] = d])
  BY <1>4, <1>5, Zenon
<1> QED BY <1>6 DEF i

LEMMA AddedIs ==
  ASSUME NEW t \in HeldType, NEW d \in Devs, Len(t.ext) < MaxExt
  PROVE  /\ Even(t, ext_if_add(Hold(t, d), d, d))
         /\ ext_if_add(Hold(t, d), d, d).wifi = t.wifi
<1> DEFINE h == More(t, d, 1)
           c == [name |-> d, dev |-> d]
           x == Append(t.ext, c)
           u == ext_if_add(Hold(t, d), d, d)
           E == [name : Devs, dev : MaybeDev]
           n == Len(t.ext) + 1
<1>1. /\ h \in HeldType /\ h.ext = t.ext /\ h.wifi = t.wifi /\ h.ppdev = t.ppdev /\ h.wandev = t.wandev
      /\ \A e \in Devs : h.refs[e] = t.refs[e] + (IF e = d THEN 1 ELSE 0)
  BY MoreIs
<1>2. c \in E /\ c.dev = d
  BY DEF MaybeDev
<1>3. t.ext \in Seq(E) /\ Len(t.ext) \in Nat /\ DOMAIN t.ext = 1 .. Len(t.ext)
  BY Fields, ListIs
<1>4. u = [h EXCEPT !.ext = x]
  <2>1. h.ext = t.ext
    BY <1>1
  <2>2. u = [h EXCEPT !.ext = Append(@, c)]
    BY HoldPut, <2>1 DEF ext_if_add
  <2>3. h.ext = t.ext /\ h = [refs |-> h.refs, ext |-> h.ext, wifi |-> h.wifi, ppdev |-> h.ppdev, wandev |-> h.wandev]
    BY <1>1, Fields
  <2> HIDE DEF h, u, c
  <2> QED BY <2>2, <2>3
<1> HIDE DEF c, E, h
<1>5. /\ x \in Seq(E) /\ Len(x) = n /\ x[n] = c /\ DOMAIN x = 1 .. n
      /\ \A i \in DOMAIN t.ext : x[i] = t.ext[i]
  BY <1>2, <1>3
<1> HIDE DEF x, u
<1>6. u = [refs |-> h.refs, ext |-> x, wifi |-> h.wifi, ppdev |-> h.ppdev, wandev |-> h.wandev]
  BY <1>1, <1>4, Fields
<1>7. u \in HeldType
  BY <1>1, <1>5, <1>6, Fields DEF HeldType, E
<1>8. ASSUME NEW e \in Devs PROVE Slack(u, e) = Slack(t, e)
  <2>1. n \notin DOMAIN t.ext /\ n \in 1 .. n /\ DOMAIN t.ext \subseteq 1 .. n /\ \A i \in 1 .. n : i = n \/ i \in DOMAIN t.ext
    BY <1>3
  <2>2. u.ext = x
    BY <1>6
  <2> HIDE DEF n
  <2>3. ExtOf(u, e) \ {n} = ExtOf(t, e) \ {n}
    BY <1>5, <2>1, <2>2 DEF ExtOf
  <2>4. n \notin ExtOf(t, e) /\ (n \in ExtOf(u, e) <=> d = e)
    BY <1>2, <1>5, <2>1, <2>2 DEF ExtOf
  <2>5. /\ IsFiniteSet(ExtOf(t, e)) /\ Cardinality(ExtOf(t, e)) \in Nat
        /\ Cardinality(SlotsOf(t, e)) \in Nat /\ t.refs[e] \in Int
    BY ListType
  <2>6. Cardinality(ExtOf(u, e)) = Cardinality(ExtOf(t, e)) + (IF d = e THEN 1 ELSE 0)
    BY <2>3, <2>4, <2>5, CardDiffers
  <2>7. SlotsOf(u, e) = SlotsOf(t, e) /\ u.refs[e] = t.refs[e] + (IF e = d THEN 1 ELSE 0)
    BY <1>1, <1>6 DEF SlotsOf
  <2> QED BY <2>5, <2>6, <2>7 DEF Slack
<1>9. Even(t, u) /\ u.wifi = t.wifi
  BY <1>1, <1>6, <1>7, <1>8 DEF Even
<1> QED BY <1>9 DEF u

LEMMA SetDevKeeps ==
  ASSUME NEW t \in HeldType, NEW d \in Devs
  PROVE  extif_set_dev(t, d).wifi = t.wifi
<1> DEFINE I == {i \in NamedExt(t, d) : t.ext[i].dev = None}
           h == Hold(t, d)
<1>1. h.wifi = t.wifi /\ h = More(t, d, 1) /\ h \in HeldType
  BY HoldPut, MoreIs
<1>2. extif_set_dev(t, d) = IF I = {} THEN t ELSE [h EXCEPT !.ext[First(I)].dev = d]
  BY DEF extif_set_dev
<1> HIDE DEF h, I
<1>3. [h EXCEPT !.ext[First(I)].dev = d].wifi = h.wifi
  BY <1>1, Fields
<1> QED BY <1>1, <1>2, <1>3

LEMMA RegisterHookIs ==
  ASSUME NEW t \in HeldType, NEW d \in Devs
  PROVE  Even(t, mtk_ppe_dev_register_hook(t, d))
<1>1. Even(t, t)
  BY DEF Even
<1>2. CASE ~(SlotsOf(t, d) # {} \/ SlotsOf(t, None) = {}) /\ NamedExt(t, d) # {}
  <2> DEFINE s == extif_set_dev(t, d)
  <2>1. Even(t, s) /\ s \in HeldType /\ s.wifi = t.wifi
    BY SetDevIs, SetDevKeeps DEF Even
  <2>2. SlotsOf(s, None) # {}
    BY <1>2, <2>1 DEF SlotsOf
  <2>3. mtk_ppe_dev_register_hook(t, d) = [Hold(s, d) EXCEPT !.wifi[First(SlotsOf(t, None))] = d]
    BY <1>2 DEF mtk_ppe_dev_register_hook, RegisterNamed
  <2> HIDE DEF s
  <2>4. Even(s, [Hold(s, d) EXCEPT !.wifi[First(SlotsOf(t, None))] = d])
    BY <2>1, <2>2, SlotTaken
  <2> QED BY <2>1, <2>3, <2>4, EvenTwice
<1>3. CASE ~(SlotsOf(t, d) # {} \/ SlotsOf(t, None) = {}) /\ NamedExt(t, d) = {} /\ ~(Len(t.ext) >= MaxExt)
  <2> DEFINE s == ext_if_add(Hold(t, d), d, d)
  <2>1. Even(t, s) /\ s \in HeldType /\ s.wifi = t.wifi
    <3>1. Len(t.ext) < MaxExt
      BY <1>3, ListIs, DevsAssumption
    <3> QED BY <3>1, AddedIs DEF Even
  <2>2. SlotsOf(s, None) # {}
    BY <1>3, <2>1 DEF SlotsOf
  <2>3. mtk_ppe_dev_register_hook(t, d) = [Hold(s, d) EXCEPT !.wifi[First(SlotsOf(t, None))] = d]
    BY <1>3 DEF mtk_ppe_dev_register_hook, RegisterNew
  <2> HIDE DEF s
  <2>4. Even(s, [Hold(s, d) EXCEPT !.wifi[First(SlotsOf(t, None))] = d])
    BY <2>1, <2>2, SlotTaken
  <2> QED BY <2>1, <2>3, <2>4, EvenTwice
<1>4. CASE \/ SlotsOf(t, d) # {} \/ SlotsOf(t, None) = {}
           \/ NamedExt(t, d) = {} /\ Len(t.ext) >= MaxExt
  <2>1. mtk_ppe_dev_register_hook(t, d) = t
    BY <1>4 DEF mtk_ppe_dev_register_hook
  <2> QED BY <1>1, <2>1
<1> QED BY <1>2, <1>3, <1>4

LEMMA UnregisterHookIs ==
  ASSUME NEW t \in HeldType, NEW d \in Devs
  PROVE  Even(t, mtk_ppe_dev_unregister_hook(t, d))
<1> DEFINE I == SlotsOf(t, d)
           s == IF I = {} THEN t ELSE [Put(t, d) EXCEPT !.wifi[First(I)] = None]
<1>1. mtk_ppe_dev_unregister_hook(t, d) = extif_put_dev(s, d)
  BY DEF mtk_ppe_dev_unregister_hook
<1>2. Even(t, s)
  <2>1. CASE I = {}
    BY <2>1 DEF Even
  <2>2. CASE I # {}
    <3> DEFINE h == More(t, d, -1)
               i == First(I)
               u == Slotted(h, i, None)
    <3>1. s = u
      BY <2>2, HoldPut DEF Slotted
    <3>2. i \in I
      <4>1. MaxIf \in Nat /\ I \subseteq 1 .. MaxIf
        BY DevsAssumption DEF SlotsOf
      <4> HIDE DEF I
      <4> QED BY <2>2, <4>1, FirstIs
    <3>3. i \in 1 .. MaxIf /\ t.wifi[i] = d
      BY <3>2 DEF SlotsOf
    <3>4. /\ h \in HeldType /\ h.wifi = t.wifi /\ h.ppdev = t.ppdev /\ h.wandev = t.wandev
          /\ \A e \in Devs : Slack(h, e) = Slack(t, e) + (IF e = d THEN -1 ELSE 0)
      BY MoreIs
    <3>5. None \in MaybeDev /\ None \notin Devs
      BY DevsAssumption DEF MaybeDev
    <3> HIDE DEF h, i, s, I
    <3>6. /\ u \in HeldType /\ u.ppdev = h.ppdev /\ u.wandev = h.wandev
          /\ \A e \in Devs : Slack(u, e) = Slack(h, e) + (IF h.wifi[i] = e THEN 1 ELSE 0)
                                                       - (IF None = e THEN 1 ELSE 0)
      BY <3>3, <3>4, <3>5, Reslot
    <3> HIDE DEF u
    <3>7. ASSUME NEW e \in Devs PROVE Slack(u, e) = Slack(t, e)
      <4>1. Slack(t, e) \in Int /\ None # e
        BY ListType, <3>5
      <4> QED BY <3>3, <3>4, <3>6, <4>1
    <3>8. Even(t, u)
      BY <3>4, <3>6, <3>7 DEF Even
    <3> QED BY <3>1, <3>8
  <2> QED BY <2>1, <2>2
<1> HIDE DEF s
<1>3. Even(s, extif_put_dev(s, d))
  BY <1>2, PutDevIs DEF Even
<1> QED BY <1>1, <1>2, <1>3, EvenTwice

LEMMA GoingDownIs ==
  ASSUME NEW t \in HeldType, NEW d \in Devs
  PROVE  Even(t, GoingDown(t, d))
<1>1. Even(t, t)
  BY DEF Even
<1> QED BY <1>1, PutDevIs DEF GoingDown
-------------------------------------------------------------------------------
(* What is pointed to has no fewer references to spare.                      *)
Better(t, u, p, w) ==
  u \in HeldType /\ \A e \in Devs : Spare(u, p, w, e) >= Spare(t, p, w, e)

LEMMA SpareType ==
  ASSUME NEW t \in HeldType, NEW p, NEW w, NEW e \in Devs
  PROVE  Spare(t, p, w, e) \in Int /\ Slack(t, e) \in Int /\ Spare(t, p, w, e) <= Slack(t, e)
BY ListType DEF Spare

LEMMA EvenBetter ==
  ASSUME NEW t \in HeldType, NEW u, Even(t, u), NEW p, NEW w
  PROVE  Better(t, u, p, w)
<1>1. ASSUME NEW e \in Devs PROVE Spare(u, p, w, e) >= Spare(t, p, w, e)
  <2>1. Spare(u, p, w, e) = Spare(t, p, w, e)
    BY DEF Even, Spare
  <2> QED BY <2>1, SpareType
<1> QED BY <1>1 DEF Better, Even

LEMMA BetterTwice ==
  ASSUME NEW t \in HeldType, NEW u, NEW v, NEW p, NEW w, Better(t, u, p, w), Better(u, v, p, w)
  PROVE  Better(t, v, p, w)
<1>1. u \in HeldType /\ v \in HeldType
  BY DEF Better
<1>2. ASSUME NEW e \in Devs PROVE Spare(v, p, w, e) >= Spare(t, p, w, e)
  <2>1. Spare(t, p, w, e) \in Int /\ Spare(u, p, w, e) \in Int /\ Spare(v, p, w, e) \in Int
    BY <1>1, SpareType
  <2>2. Spare(v, p, w, e) >= Spare(u, p, w, e) /\ Spare(u, p, w, e) >= Spare(t, p, w, e)
    BY DEF Better
  <2> QED BY <2>1, <2>2
<1> QED BY <1>1, <1>2 DEF Better

(* The port device or the WAN device is replaced.                            *)
LEMMA PointIs ==
  ASSUME NEW t \in HeldType, NEW v \in MaybeDev
  PROVE  /\ [t EXCEPT !.ppdev = v] \in HeldType /\ [t EXCEPT !.wandev = v] \in HeldType
         /\ [t EXCEPT !.ppdev = v].ppdev = v /\ [t EXCEPT !.ppdev = v].wandev = t.wandev
         /\ [t EXCEPT !.wandev = v].wandev = v /\ [t EXCEPT !.wandev = v].ppdev = t.ppdev
         /\ \A e \in Devs : /\ Slack([t EXCEPT !.ppdev = v], e) = Slack(t, e)
                            /\ Slack([t EXCEPT !.wandev = v], e) = Slack(t, e)
<1> DEFINE a == [t EXCEPT !.ppdev = v]
           b == [t EXCEPT !.wandev = v]
<1>1. /\ a = [refs |-> t.refs, ext |-> t.ext, wifi |-> t.wifi, ppdev |-> v, wandev |-> t.wandev]
      /\ b = [refs |-> t.refs, ext |-> t.ext, wifi |-> t.wifi, ppdev |-> t.ppdev, wandev |-> v]
  BY Fields
<1> HIDE DEF a, b
<1>2. a \in HeldType /\ b \in HeldType
  BY <1>1, Fields DEF HeldType
<1>3. /\ a.refs = t.refs /\ a.ext = t.ext /\ a.wifi = t.wifi /\ a.ppdev = v /\ a.wandev = t.wandev
      /\ b.refs = t.refs /\ b.ext = t.ext /\ b.wifi = t.wifi /\ b.ppdev = t.ppdev /\ b.wandev = v
  BY <1>1
<1>4. \A e \in Devs : Slack(a, e) = Slack(t, e) /\ Slack(b, e) = Slack(t, e)
  BY <1>3 DEF Slack, ExtOf, SlotsOf
<1> QED BY <1>2, <1>3, <1>4 DEF a, b

LEMMA PortPointed ==
  ASSUME NEW t \in HeldType, NEW d \in Devs, t.ppdev = None, NEW p, NEW w
  PROVE  LET u == [Hold(t, d) EXCEPT !.ppdev = d]
         IN Better(t, u, p, w) /\ u.wandev = t.wandev
<1> DEFINE h == More(t, d, 1)
           u == [h EXCEPT !.ppdev = d]
<1>0. d \in MaybeDev /\ None \notin Devs
  BY DevsAssumption DEF MaybeDev
<1>1. /\ h \in HeldType /\ h.ppdev = t.ppdev /\ h.wandev = t.wandev
      /\ \A e \in Devs : Slack(h, e) = Slack(t, e) + (IF e = d THEN 1 ELSE 0)
  BY MoreIs
<1>2. [Hold(t, d) EXCEPT !.ppdev = d] = u
  BY HoldPut
<1> HIDE DEF h
<1>3. u \in HeldType /\ u.ppdev = d /\ u.wandev = t.wandev /\ \A e \in Devs : Slack(u, e) = Slack(h, e)
  BY <1>0, <1>1, PointIs
<1> HIDE DEF u
<1>4. ASSUME NEW e \in Devs PROVE Spare(u, p, w, e) >= Spare(t, p, w, e)
  <2>1. Slack(t, e) \in Int /\ None # e
    BY <1>0, ListType
  <2>2. Slack(u, e) = Slack(t, e) + (IF e = d THEN 1 ELSE 0)
    BY <1>1, <1>3
  <2> QED BY <1>3, <2>1, <2>2 DEF Spare
<1> QED BY <1>2, <1>3, <1>4 DEF Better

LEMMA WanPointed ==
  ASSUME NEW t \in HeldType, NEW d \in Devs, t.wandev = None, NEW p, NEW w
  PROVE  LET u == [Hold(t, d) EXCEPT !.wandev = d]
         IN Better(t, u, p, w) /\ u.ppdev = t.ppdev
<1> DEFINE h == More(t, d, 1)
           u == [h EXCEPT !.wandev = d]
<1>0. d \in MaybeDev /\ None \notin Devs
  BY DevsAssumption DEF MaybeDev
<1>1. /\ h \in HeldType /\ h.ppdev = t.ppdev /\ h.wandev = t.wandev
      /\ \A e \in Devs : Slack(h, e) = Slack(t, e) + (IF e = d THEN 1 ELSE 0)
  BY MoreIs
<1>2. [Hold(t, d) EXCEPT !.wandev = d] = u
  BY HoldPut
<1> HIDE DEF h
<1>3. u \in HeldType /\ u.wandev = d /\ u.ppdev = t.ppdev /\ \A e \in Devs : Slack(u, e) = Slack(h, e)
  BY <1>0, <1>1, PointIs
<1> HIDE DEF u
<1>4. ASSUME NEW e \in Devs PROVE Spare(u, p, w, e) >= Spare(t, p, w, e)
  <2>1. Slack(t, e) \in Int /\ None # e
    BY <1>0, ListType
  <2>2. Slack(u, e) = Slack(t, e) + (IF e = d THEN 1 ELSE 0)
    BY <1>1, <1>3
  <2> QED BY <1>3, <2>1, <2>2 DEF Spare
<1> QED BY <1>2, <1>3, <1>4 DEF Better

LEMMA RegisteredIs ==
  ASSUME NEW t \in HeldType, NEW d \in Devs, NEW q, NEW p, NEW w
  PROVE  Better(t, Registered(t, d, q), p, w)
<1> DEFINE u == IF d = q /\ t.ppdev = None THEN [Hold(t, d) EXCEPT !.ppdev = d] ELSE t
           v == IF d = Wan /\ t.wandev = None THEN [Hold(u, d) EXCEPT !.wandev = d] ELSE u
<1>1. Better(t, u, p, w) /\ u.wandev = t.wandev
  <2>1. CASE d = q /\ t.ppdev = None
    BY <2>1, PortPointed
  <2>2. CASE ~(d = q /\ t.ppdev = None)
    <3>1. u = t /\ Even(t, t)
      BY <2>2 DEF Even
    <3> QED BY <3>1, EvenBetter
  <2> QED BY <2>1, <2>2
<1> HIDE DEF u
<1>2. u \in HeldType
  BY <1>1 DEF Better
<1>3. Better(u, v, p, w)
  <2>1. CASE d = Wan /\ t.wandev = None
    <3>1. u.wandev = None
      BY <1>1, <2>1
    <3> QED BY <1>2, <2>1, <3>1, WanPointed
  <2>2. CASE ~(d = Wan /\ t.wandev = None)
    <3>1. v = u /\ Even(u, u)
      BY <1>2, <2>2 DEF Even
    <3> QED BY <1>2, <3>1, EvenBetter
  <2> QED BY <2>1, <2>2
<1>4. Registered(t, d, q) = v
  BY DEF Registered, u
<1> HIDE DEF v
<1>5. Better(t, v, p, w)
  BY <1>1, <1>3, BetterTwice
<1> QED BY <1>4, <1>5

LEMMA UnregisteredIs ==
  ASSUME NEW t \in HeldType, NEW d \in Devs
  PROVE  /\ Unregistered(t, d) \in HeldType
         /\ Better(t, Unregistered(t, d), TRUE, TRUE)
         /\ t.ppdev # d => Better(t, Unregistered(t, d), FALSE, TRUE)
<1> DEFINE u == IF t.ppdev = d THEN [Put(t, d) EXCEPT !.ppdev = None] ELSE t
           v == IF u.wandev = d THEN [Put(u, d) EXCEPT !.wandev = None] ELSE u
<1>0. None \in MaybeDev /\ None \notin Devs
  BY DevsAssumption DEF MaybeDev
<1>1. /\ u \in HeldType /\ u.wandev = t.wandev
      /\ u.ppdev = IF t.ppdev = d THEN None ELSE t.ppdev
      /\ \A e \in Devs : Slack(u, e) = Slack(t, e) - (IF t.ppdev = d /\ e = d THEN 1 ELSE 0)
  <2>1. CASE t.ppdev = d
    <3> DEFINE h == More(t, d, -1)
    <3>1. /\ h \in HeldType /\ h.ppdev = t.ppdev /\ h.wandev = t.wandev
          /\ \A e \in Devs : Slack(h, e) = Slack(t, e) + (IF e = d THEN -1 ELSE 0)
      BY MoreIs
    <3>2. u = [h EXCEPT !.ppdev = None]
      BY <2>1, HoldPut
    <3> HIDE DEF h, u
    <3>3. u \in HeldType /\ u.ppdev = None /\ u.wandev = t.wandev /\ \A e \in Devs : Slack(u, e) = Slack(h, e)
      BY <1>0, <3>1, <3>2, PointIs
    <3>4. ASSUME NEW e \in Devs PROVE Slack(u, e) = Slack(t, e) - (IF t.ppdev = d /\ e = d THEN 1 ELSE 0)
      <4>1. Slack(t, e) \in Int
        BY ListType
      <4> QED BY <2>1, <3>1, <3>3, <4>1
    <3> QED BY <2>1, <3>3, <3>4
  <2>2. CASE t.ppdev # d
    <3>1. u = t
      BY <2>2
    <3> HIDE DEF u
    <3>2. \A e \in Devs : Slack(u, e) = Slack(t, e) - (IF t.ppdev = d /\ e = d THEN 1 ELSE 0)
      BY <2>2, <3>1, ListType
    <3> QED BY <2>2, <3>1, <3>2
  <2> QED BY <2>1, <2>2
<1> HIDE DEF u
<1>2. /\ v \in HeldType /\ v.ppdev = u.ppdev
      /\ v.wandev = IF u.wandev = d THEN None ELSE u.wandev
      /\ \A e \in Devs : Slack(v, e) = Slack(u, e) - (IF u.wandev = d /\ e = d THEN 1 ELSE 0)
  <2>1. CASE u.wandev = d
    <3> DEFINE h == More(u, d, -1)
    <3>1. /\ h \in HeldType /\ h.ppdev = u.ppdev /\ h.wandev = u.wandev
          /\ \A e \in Devs : Slack(h, e) = Slack(u, e) + (IF e = d THEN -1 ELSE 0)
      BY <1>1, MoreIs
    <3>2. v = [h EXCEPT !.wandev = None]
      BY <1>1, <2>1, HoldPut
    <3> HIDE DEF h, v
    <3>3. v \in HeldType /\ v.wandev = None /\ v.ppdev = u.ppdev /\ \A e \in Devs : Slack(v, e) = Slack(h, e)
      BY <1>0, <3>1, <3>2, PointIs
    <3>4. ASSUME NEW e \in Devs PROVE Slack(v, e) = Slack(u, e) - (IF u.wandev = d /\ e = d THEN 1 ELSE 0)
      <4>1. Slack(u, e) \in Int
        BY <1>1, ListType
      <4> QED BY <2>1, <3>1, <3>3, <4>1
    <3> QED BY <2>1, <3>3, <3>4
  <2>2. CASE u.wandev # d
    <3>1. v = u
      BY <2>2
    <3> HIDE DEF v
    <3>2. \A e \in Devs : Slack(v, e) = Slack(u, e) - (IF u.wandev = d /\ e = d THEN 1 ELSE 0)
      BY <1>1, <2>2, <3>1, ListType
    <3> QED BY <1>1, <2>2, <3>1, <3>2
  <2> QED BY <2>1, <2>2
<1>3. Unregistered(t, d) = v
  BY DEF Unregistered, u
<1> HIDE DEF v
<1>4. ASSUME NEW e \in Devs
      PROVE  /\ Spare(v, TRUE, TRUE, e) >= Spare(t, TRUE, TRUE, e)
             /\ t.ppdev # d => Spare(v, FALSE, TRUE, e) >= Spare(t, FALSE, TRUE, e)
  <2>1. Slack(t, e) \in Int /\ None # e
    BY <1>0, ListType
  <2>2. Slack(v, e) = Slack(t, e) - (IF t.ppdev = d /\ e = d THEN 1 ELSE 0) - (IF t.wandev = d /\ e = d THEN 1 ELSE 0)
    BY <1>1, <1>2, <2>1
  <2> QED BY <1>1, <1>2, <2>1, <2>2 DEF Spare
<1> QED BY <1>2, <1>3, <1>4 DEF Better

LEMMA HoldFoundIs ==
  ASSUME NEW t \in HeldType, NEW v \in MaybeDev
  PROVE  /\ HoldFound(t, v) \in HeldType
         /\ \A e \in Devs : Slack(HoldFound(t, v), e) = Slack(t, e) + (IF v = e THEN 1 ELSE 0)
<1>0. None \notin Devs
  BY DevsAssumption
<1>1. CASE v = None
  <2>1. HoldFound(t, v) = t
    BY <1>1 DEF HoldFound
  <2>2. \A e \in Devs : Slack(t, e) \in Int
    BY ListType
  <2> QED BY <1>0, <1>1, <2>1, <2>2
<1>2. CASE v \in Devs
  <2>1. HoldFound(t, v) = More(t, v, 1)
    BY <1>0, <1>2, HoldPut DEF HoldFound
  <2> QED BY <1>2, <2>1, MoreIs
<1> QED BY <1>1, <1>2 DEF MaybeDev

LEMMA LookedUpIs ==
  ASSUME NEW t \in HeldType, NEW L, NEW q \in Devs, NEW p, NEW w
  PROVE  Better(t, LookedUp(t, L, q), p, w)
<1> DEFINE a == Found(q, L)
           b == Found(Wan, L)
           h == HoldFound(t, a)
           k == HoldFound(h, b)
           m == [k EXCEPT !.ppdev = a]
           u == [m EXCEPT !.wandev = b]
<1>1. a \in MaybeDev /\ b \in MaybeDev
  BY DevsAssumption DEF Found, MaybeDev
<1>2. LookedUp(t, L, q) = [k EXCEPT !.ppdev = a, !.wandev = b]
  BY DEF LookedUp
<1> HIDE DEF a, b
<1>3. h \in HeldType /\ \A e \in Devs : Slack(h, e) = Slack(t, e) + (IF a = e THEN 1 ELSE 0)
  BY <1>1, HoldFoundIs
<1> HIDE DEF h
<1>4. k \in HeldType /\ \A e \in Devs : Slack(k, e) = Slack(h, e) + (IF b = e THEN 1 ELSE 0)
  BY <1>1, <1>3, HoldFoundIs
<1> HIDE DEF k
<1>5. m \in HeldType /\ m.ppdev = a /\ \A e \in Devs : Slack(m, e) = Slack(k, e)
  BY <1>1, <1>4, PointIs
<1>6. [k EXCEPT !.ppdev = a, !.wandev = b] = u
  BY <1>4, Fields
<1> HIDE DEF m
<1>7. u \in HeldType /\ u.ppdev = a /\ u.wandev = b /\ \A e \in Devs : Slack(u, e) = Slack(m, e)
  BY <1>1, <1>5, PointIs
<1> HIDE DEF u
<1>8. ASSUME NEW e \in Devs PROVE Spare(u, p, w, e) >= Spare(t, p, w, e)
  <2>1. Slack(t, e) \in Int /\ Spare(t, p, w, e) \in Int /\ Spare(t, p, w, e) <= Slack(t, e)
    BY SpareType
  <2>2. Slack(u, e) = Slack(t, e) + (IF a = e THEN 1 ELSE 0) + (IF b = e THEN 1 ELSE 0)
    BY <1>3, <1>4, <1>5, <1>7, <2>1
  <2> QED BY <1>7, <2>1, <2>2 DEF Spare
<1> QED BY <1>2, <1>6, <1>7, <1>8 DEF Better
-------------------------------------------------------------------------------
(***************************************************************************)
(* The loops over devices.                                                 *)
(***************************************************************************)
ReplayOne(t, d, up, q) ==
  IF d \in up THEN extif_set_dev(Registered(t, d, q), d) ELSE Registered(t, d, q)

UnreplayOne(t, d, up) == Unregistered(IF d \in up THEN GoingDown(t, d) ELSE t, d)

LEMMA ReplayOneIs ==
  ASSUME NEW t \in HeldType, NEW d \in Devs, NEW up, NEW q, NEW p, NEW w
  PROVE  Better(t, ReplayOne(t, d, up, q), p, w)
<1> DEFINE u == Registered(t, d, q)
<1>1. Better(t, u, p, w) /\ u \in HeldType
  BY RegisteredIs DEF Better
<1>2. ReplayOne(t, d, up, q) \in {u, extif_set_dev(u, d)}
  BY DEF ReplayOne
<1> HIDE DEF u
<1>3. Better(u, extif_set_dev(u, d), p, w)
  BY <1>1, SetDevIs, EvenBetter
<1>4. Better(t, extif_set_dev(u, d), p, w)
  BY <1>1, <1>3, BetterTwice
<1> QED BY <1>1, <1>2, <1>4

LEMMA UnreplayOneIs ==
  ASSUME NEW t \in HeldType, NEW d \in Devs, NEW up
  PROVE  Better(t, UnreplayOne(t, d, up), TRUE, TRUE)
<1> DEFINE u == IF d \in up THEN GoingDown(t, d) ELSE t
<1>1. Even(t, u) /\ u \in HeldType
  BY GoingDownIs DEF Even
<1>2. UnreplayOne(t, d, up) = Unregistered(u, d)
  BY DEF UnreplayOne
<1> HIDE DEF u
<1>3. Better(t, u, TRUE, TRUE) /\ Better(u, Unregistered(u, d), TRUE, TRUE)
  BY <1>1, EvenBetter, UnregisteredIs
<1> QED BY <1>2, <1>3, BetterTwice

LEMMA ReplayedIs ==
  ASSUME NEW t \in HeldType, NEW L \in SUBSET Devs, NEW up, NEW q, NEW p, NEW w
  PROVE  Better(t, Replayed(t, L, up, q), p, w)
<1> DEFINE IsReplay(g) ==
             g = [s \in SUBSET L |-> IF s = {} THEN t ELSE ReplayOne(g[s \ {Chosen(s)}], Chosen(s), up, q)]
           g == CHOOSE f : IsReplay(f)
           F == [d \in L |-> [r \in HeldType |-> ReplayOne(r, d, up, q)]]
           Z == {s \in SUBSET L : Better(t, g[s], p, w)}
<1>1. IsFiniteSet(L)
  BY DevsAssumption, FS_Subset
<1>2. Replayed(t, L, up, q) = g[L]
  BY DEF Replayed, FoldSet, MapThenFoldSet, ReplayOne, Chosen
<1>3. \E f : IsReplay(f)
  <2>1. \A d \in L : \A r \in HeldType : F[d][r] = ReplayOne(r, d, up, q) /\ F[d][r] \in HeldType
    BY ReplayOneIs DEF Better
  <2> HIDE DEF F
  <2>2. PICK f : IsFold(f, F, t, SUBSET L) /\ \A s \in SUBSET L : f[s] \in HeldType
    BY <1>1, <2>1, FoldStays
  <2>3. ASSUME NEW s \in SUBSET L, s # {}
        PROVE  F[Chosen(s)][f[s \ {Chosen(s)}]] = ReplayOne(f[s \ {Chosen(s)}], Chosen(s), up, q)
    <3>1. Chosen(s) \in L /\ s \ {Chosen(s)} \in SUBSET L
      BY <1>1, <2>3, Without
    <3> QED BY <2>1, <2>2, <3>1
  <2>4. IsReplay(f)
    BY <2>2, <2>3 DEF IsFold
  <2> QED BY <2>4
<1>4. IsReplay(g)
  <2> HIDE DEF IsReplay
  <2> QED BY <1>3, Zenon
<1> HIDE DEF g
<1>5. {} \in Z
  <2>1. g[{}] = t /\ Even(t, t)
    BY <1>4 DEF Even
  <2> QED BY <2>1, EvenBetter
<1>6. ASSUME NEW s \in SUBSET L, s # {}, s \ {Chosen(s)} \in Z PROVE s \in Z
  <2>1. Chosen(s) \in Devs
    BY <1>1, <1>6, Without
  <2>2. g[s] = ReplayOne(g[s \ {Chosen(s)}], Chosen(s), up, q)
    BY <1>4, <1>6
  <2>3. Better(t, g[s \ {Chosen(s)}], p, w) /\ g[s \ {Chosen(s)}] \in HeldType
    BY <1>6 DEF Better
  <2>4. Better(t, g[s], p, w)
    BY <2>1, <2>2, <2>3, ReplayOneIs, BetterTwice
  <2> QED BY <2>4
<1>7. \A s \in SUBSET L : s \in Z
  <2> HIDE DEF Z
  <2> QED BY <1>1, <1>5, <1>6, SubsetInduction
<1> QED BY <1>2, <1>7

LEMMA UnreplayedIs ==
  ASSUME NEW t \in HeldType, NEW L \in SUBSET Devs, NEW up
  PROVE  Better(t, Unreplayed(t, L, up), TRUE, TRUE)
<1> DEFINE IsReplay(g) ==
             g = [s \in SUBSET L |-> IF s = {} THEN t ELSE UnreplayOne(g[s \ {Chosen(s)}], Chosen(s), up)]
           g == CHOOSE f : IsReplay(f)
           F == [d \in L |-> [r \in HeldType |-> UnreplayOne(r, d, up)]]
           Z == {s \in SUBSET L : Better(t, g[s], TRUE, TRUE)}
<1>1. IsFiniteSet(L)
  BY DevsAssumption, FS_Subset
<1>2. Unreplayed(t, L, up) = g[L]
  BY DEF Unreplayed, FoldSet, MapThenFoldSet, UnreplayOne, Chosen
<1>3. \E f : IsReplay(f)
  <2>1. \A d \in L : \A r \in HeldType : F[d][r] = UnreplayOne(r, d, up) /\ F[d][r] \in HeldType
    BY UnreplayOneIs DEF Better
  <2> HIDE DEF F
  <2>2. PICK f : IsFold(f, F, t, SUBSET L) /\ \A s \in SUBSET L : f[s] \in HeldType
    BY <1>1, <2>1, FoldStays
  <2>3. ASSUME NEW s \in SUBSET L, s # {}
        PROVE  F[Chosen(s)][f[s \ {Chosen(s)}]] = UnreplayOne(f[s \ {Chosen(s)}], Chosen(s), up)
    <3>1. Chosen(s) \in L /\ s \ {Chosen(s)} \in SUBSET L
      BY <1>1, <2>3, Without
    <3> QED BY <2>1, <2>2, <3>1
  <2>4. IsReplay(f)
    BY <2>2, <2>3 DEF IsFold
  <2> QED BY <2>4
<1>4. IsReplay(g)
  <2> HIDE DEF IsReplay
  <2> QED BY <1>3, Zenon
<1> HIDE DEF g
<1>5. {} \in Z
  <2>1. g[{}] = t /\ Even(t, t)
    BY <1>4 DEF Even
  <2> QED BY <2>1, EvenBetter
<1>6. ASSUME NEW s \in SUBSET L, s # {}, s \ {Chosen(s)} \in Z PROVE s \in Z
  <2>1. Chosen(s) \in Devs
    BY <1>1, <1>6, Without
  <2>2. g[s] = UnreplayOne(g[s \ {Chosen(s)}], Chosen(s), up)
    BY <1>4, <1>6
  <2>3. Better(t, g[s \ {Chosen(s)}], TRUE, TRUE) /\ g[s \ {Chosen(s)}] \in HeldType
    BY <1>6 DEF Better
  <2>4. Better(t, g[s], TRUE, TRUE)
    <3>1. PICK r \in HeldType : r = g[s \ {Chosen(s)}]
      BY <2>3
    <3>2. Better(r, UnreplayOne(r, Chosen(s), up), TRUE, TRUE)
      BY <2>1, UnreplayOneIs
    <3>3. Better(t, UnreplayOne(r, Chosen(s), up), TRUE, TRUE)
      BY <2>3, <3>1, <3>2, BetterTwice
    <3> QED BY <2>2, <3>1, <3>3
  <2> QED BY <2>4
<1>7. \A s \in SUBSET L : s \in Z
  <2> HIDE DEF Z
  <2> QED BY <1>1, <1>5, <1>6, SubsetInduction
<1> QED BY <1>2, <1>7
-------------------------------------------------------------------------------
(***************************************************************************)
(* The list when probe fails and at removal.                               *)
(***************************************************************************)
LEMMA EvenIndex ==
  ASSUME NEW n \in Nat, NEW i \in 1 .. n \div 2
  PROVE  2 * i \in 1 .. n /\ (2 * i) % 2 # 1
OBVIOUS

LEMMA HalfNat ==
  ASSUME NEW n \in Nat
  PROVE  n \div 2 \in Nat
OBVIOUS

(* Every other entry stays; those that stay and those that are deleted are   *)
(* different.                                                                *)
LEMMA SkippedIs ==
  ASSUME NEW t \in HeldType, NEW e \in Devs
  PROVE  LET gone == {i \in Deleted(t) : t.ext[i].dev = e}
             kept == {i \in DOMAIN Skipped(t) : Skipped(t)[i].dev = e}
         IN /\ Skipped(t) \in Seq([name : Devs, dev : MaybeDev])
            /\ IsFiniteSet(gone) /\ IsFiniteSet(kept) /\ Cardinality(gone) \in Nat /\ Cardinality(kept) \in Nat
            /\ Cardinality(gone) + Cardinality(kept) <= Cardinality(ExtOf(t, e))
<1> DEFINE n == Len(t.ext)
           m == n \div 2
           E == [name : Devs, dev : MaybeDev]
           x == t.ext
           gone == {i \in Deleted(t) : t.ext[i].dev = e}
           kept == {i \in DOMAIN Skipped(t) : Skipped(t)[i].dev = e}
           even == ExtOf(t, e) \ gone
<1>1. n \in Nat /\ m \in Nat /\ DOMAIN x = 1 .. n /\ \A i \in 1 .. n : x[i] \in E
  <2>1. n \in Nat /\ DOMAIN x = 1 .. n
    BY ListIs
  <2>2. \A i \in DOMAIN x : x[i] \in E
    BY ListIs
  <2>3. m \in Nat
    BY <2>1, HalfNat
  <2> QED BY <2>1, <2>2, <2>3
<1>2. Skipped(t) = [i \in 1 .. m |-> x[2 * i]]
  BY DEF Skipped
<1>3. Deleted(t) = {i \in 1 .. n : i % 2 = 1}
  BY <1>1 DEF Deleted
<1>4. ExtOf(t, e) = {i \in 1 .. n : x[i].dev = e}
  BY <1>1 DEF ExtOf
<1>5. IsFiniteSet(ExtOf(t, e)) /\ Cardinality(ExtOf(t, e)) \in Nat
  BY ListType
<1>12. kept = {i \in 1 .. m : x[2 * i].dev = e}
  BY <1>2
<1>13. gone = {i \in Deleted(t) : x[i].dev = e}
  OBVIOUS
<1> HIDE DEF n, E, x, gone, kept
<1>6. \A i \in 1 .. m : 2 * i \in 1 .. n /\ (2 * i) % 2 # 1
  BY <1>1, EvenIndex
<1>7. Skipped(t) \in Seq(E)
  <2> DEFINE y == [i \in 1 .. m |-> x[2 * i]]
  <2>1. y \in [1 .. m -> E]
    BY <1>1, <1>6
  <2> HIDE DEF y, m
  <2>2. y \in Seq(E)
    BY <1>1, <2>1
  <2> QED BY <1>2, <2>2 DEF y
<1>8. gone \in SUBSET ExtOf(t, e)
  BY <1>3, <1>4, <1>13
<1>9. /\ IsFiniteSet(gone) /\ Cardinality(gone) \in Nat /\ IsFiniteSet(even)
      /\ Cardinality(even) = Cardinality(ExtOf(t, e)) - Cardinality(gone)
  <2>1. ExtOf(t, e) \cap gone = gone
    BY <1>8
  <2>2. IsFiniteSet(gone)
    BY <1>5, <1>8, FS_Subset
  <2>3. IsFiniteSet(even) /\ Cardinality(even) = Cardinality(ExtOf(t, e)) - Cardinality(ExtOf(t, e) \cap gone)
    BY <1>5, FS_Difference
  <2> QED BY <2>1, <2>2, <2>3, FS_CardinalityType
<1>10. IsFiniteSet(kept) /\ Cardinality(kept) <= Cardinality(even)
  <2> DEFINE f == [i \in kept |-> 2 * i]
  <2>1. \A i \in kept : 2 * i \in even
    <3> TAKE i \in kept
    <3>1. i \in 1 .. m /\ x[2 * i].dev = e
      BY <1>12
    <3>2. 2 * i \in ExtOf(t, e)
      BY <1>4, <1>6, <3>1
    <3>3. 2 * i \notin gone
      BY <1>3, <1>6, <1>13, <3>1
    <3> QED BY <3>2, <3>3
  <2>2. \A i, j \in kept : 2 * i = 2 * j => i = j
    BY <1>1, <1>12
  <2> HIDE DEF even
  <2>3. f \in Injection(kept, even)
    BY <2>1, <2>2 DEF Injection, IsInjective
  <2> HIDE DEF f
  <2> QED BY <1>9, <2>3, FS_Injection
<1>11. Cardinality(kept) \in Nat /\ Cardinality(even) \in Nat
  BY <1>9, <1>10, FS_CardinalityType
<1>14. /\ Skipped(t) \in Seq(E)
       /\ IsFiniteSet(gone) /\ IsFiniteSet(kept) /\ Cardinality(gone) \in Nat /\ Cardinality(kept) \in Nat
       /\ Cardinality(gone) + Cardinality(kept) <= Cardinality(ExtOf(t, e))
  <2> HIDE DEF even
  <2> QED BY <1>5, <1>7, <1>9, <1>10, <1>11
<1> QED BY <1>14 DEF E, gone, kept

(* The list is replaced by one that points to e no more often.               *)
LEMMA ListReplaced ==
  ASSUME NEW t \in HeldType, NEW x \in Seq([name : Devs, dev : MaybeDev]), NEW p, NEW w,
         \A e \in Devs : LET kept == {i \in DOMAIN x : x[i].dev = e}
                         IN Cardinality(kept) \in Nat /\ Cardinality(kept) <= Cardinality(ExtOf(t, e))
  PROVE  Better(t, [t EXCEPT !.ext = x], p, w)
<1> DEFINE u == [t EXCEPT !.ext = x]
<1>1. u = [refs |-> t.refs, ext |-> x, wifi |-> t.wifi, ppdev |-> t.ppdev, wandev |-> t.wandev]
  <2>1. t = [refs |-> t.refs, ext |-> t.ext, wifi |-> t.wifi, ppdev |-> t.ppdev, wandev |-> t.wandev]
    BY Fields
  <2> QED BY <2>1
<1> HIDE DEF u
<1>2. u \in HeldType
  BY <1>1, Fields DEF HeldType
<1>3. ASSUME NEW e \in Devs PROVE Spare(u, p, w, e) >= Spare(t, p, w, e)
  <2>1. ExtOf(u, e) = {i \in DOMAIN x : x[i].dev = e} /\ SlotsOf(u, e) = SlotsOf(t, e)
        /\ u.refs = t.refs /\ u.ppdev = t.ppdev /\ u.wandev = t.wandev
    BY <1>1 DEF ExtOf, SlotsOf
  <2>2. Cardinality(ExtOf(u, e)) \in Nat /\ Cardinality(ExtOf(u, e)) <= Cardinality(ExtOf(t, e))
    BY <2>1
  <2>3. /\ t.refs[e] \in Int /\ Cardinality(SlotsOf(t, e)) \in Nat /\ Cardinality(ExtOf(t, e)) \in Nat
        /\ Slack(t, e) \in Int
    BY ListType
  <2>4. Slack(u, e) \in Int /\ Slack(u, e) >= Slack(t, e)
    BY <2>1, <2>2, <2>3 DEF Slack
  <2> QED BY <2>1, <2>3, <2>4 DEF Spare
<1> QED BY <1>2, <1>3 DEF Better, u

LEMMA FreedIs ==
  ASSUME NEW t \in HeldType, NEW p, NEW w
  PROVE  Better(t, [t EXCEPT !.ext = Skipped(t)], p, w)
<1>0. Devs # {}
  BY DevsAssumption
<1>1. Skipped(t) \in Seq([name : Devs, dev : MaybeDev])
  BY <1>0, SkippedIs
<1>2. ASSUME NEW e \in Devs
      PROVE  LET kept == {i \in DOMAIN Skipped(t) : Skipped(t)[i].dev = e}
             IN Cardinality(kept) \in Nat /\ Cardinality(kept) <= Cardinality(ExtOf(t, e))
  <2> DEFINE gone == {i \in Deleted(t) : t.ext[i].dev = e}
             kept == {i \in DOMAIN Skipped(t) : Skipped(t)[i].dev = e}
  <2>1. /\ Cardinality(gone) \in Nat /\ Cardinality(kept) \in Nat
        /\ Cardinality(gone) + Cardinality(kept) <= Cardinality(ExtOf(t, e))
    BY SkippedIs
  <2>2. Cardinality(ExtOf(t, e)) \in Nat
    BY ListType
  <2> HIDE DEF gone, kept
  <2>3. Cardinality(kept) \in Nat /\ Cardinality(kept) <= Cardinality(ExtOf(t, e))
    BY <2>1, <2>2
  <2> QED BY <2>3 DEF kept
<1> QED BY <1>1, <1>2, ListReplaced

LEMMA UnpointedIs ==
  ASSUME NEW t \in HeldType, NEW p, NEW w
  PROVE  Better(t, [t EXCEPT !.ext = [i \in DOMAIN Exts |-> [name |-> Exts[i], dev |-> None]]], p, w)
<1> DEFINE E == [name : Devs, dev : MaybeDev]
           x == [i \in DOMAIN Exts |-> [name |-> Exts[i], dev |-> None]]
<1>1. x \in Seq(E)
  <2>1. Exts \in Seq(Devs) /\ None \in MaybeDev
    BY DevsAssumption DEF MaybeDev
  <2>2. Len(Exts) \in Nat /\ DOMAIN Exts = 1 .. Len(Exts) /\ \A i \in DOMAIN Exts : Exts[i] \in Devs
    BY <2>1
  <2>3. \A i \in DOMAIN Exts : x[i] \in E
    BY <2>1, <2>2
  <2>4. x = [i \in 1 .. Len(Exts) |-> x[i]]
    BY <2>2
  <2> HIDE DEF x, E
  <2> QED BY <2>2, <2>3, <2>4
<1>2. ASSUME NEW e \in Devs
      PROVE  LET kept == {i \in DOMAIN x : x[i].dev = e}
             IN Cardinality(kept) \in Nat /\ Cardinality(kept) <= Cardinality(ExtOf(t, e))
  <2>1. {i \in DOMAIN x : x[i].dev = e} = {}
    BY DevsAssumption
  <2>2. Cardinality({}) = 0 /\ Cardinality(ExtOf(t, e)) \in Nat
    BY FS_EmptySet, ListType
  <2> DEFINE kept == {i \in DOMAIN x : x[i].dev = e}
  <2>3. Cardinality(kept) \in Nat /\ Cardinality(kept) <= Cardinality(ExtOf(t, e))
    <3> HIDE DEF kept
    <3>1. kept = {}
      BY <2>1 DEF kept
    <3> QED BY <2>2, <3>1
  <2> HIDE DEF x
  <2> QED BY <2>3
<1> HIDE DEF x
<1>3. Better(t, [t EXCEPT !.ext = x], p, w)
  BY <1>1, <1>2, ListReplaced
<1> QED BY <1>3 DEF x

(* hnat_priv is gone: nothing is pointed to.                                 *)
LEMMA ForgottenIs ==
  ASSUME NEW t \in HeldType, NEW p, NEW w
  PROVE  LET u == [Unused EXCEPT !.refs = t.refs]
         IN u \in HeldType /\ \A e \in Devs : Spare(u, p, w, e) >= Slack(t, e)
<1> DEFINE u == [Unused EXCEPT !.refs = t.refs]
<1>0. None \in MaybeDev /\ None \notin Devs
  BY DevsAssumption DEF MaybeDev
<1>1. u = [refs |-> t.refs, ext |-> <<>>, wifi |-> [i \in 1 .. MaxIf |-> None], ppdev |-> None, wandev |-> None]
  <2> DEFINE r == [d \in Devs |-> 0]
             f == [i \in 1 .. MaxIf |-> None]
             s == t.refs
  <2>1. Unused = [refs |-> r, ext |-> <<>>, wifi |-> f, ppdev |-> None, wandev |-> None]
    BY DEF Unused
  <2> HIDE DEF r, f, s
  <2>2. [Unused EXCEPT !.refs = s] = [refs |-> s, ext |-> <<>>, wifi |-> f, ppdev |-> None, wandev |-> None]
    BY <2>1
  <2> QED BY <2>2 DEF s, f
<1> HIDE DEF u
<1>2. u \in HeldType
  BY <1>0, <1>1, Fields DEF HeldType
<1>3. ASSUME NEW e \in Devs PROVE Spare(u, p, w, e) >= Slack(t, e)
  <2>1. ExtOf(u, e) = {} /\ SlotsOf(u, e) = {}
    BY <1>0, <1>1 DEF ExtOf, SlotsOf
  <2>2. Cardinality({}) = 0
    BY FS_EmptySet
  <2>3. t.refs[e] \in Int /\ Cardinality(SlotsOf(t, e)) \in Nat /\ Cardinality(ExtOf(t, e)) \in Nat
    BY ListType
  <2>4. u.refs = t.refs /\ u.ppdev # e /\ u.wandev # e
    BY <1>0, <1>1
  <2>5. Slack(u, e) = t.refs[e]
    BY <2>1, <2>2, <2>3, <2>4 DEF Slack
  <2>6. Spare(u, p, w, e) = t.refs[e]
    BY <2>3, <2>4, <2>5 DEF Spare
  <2> QED BY <2>3, <2>6 DEF Slack
<1> QED BY <1>2, <1>3 DEF u

Drop(t, d) == IF d = None THEN t ELSE Put(t, d)

LEMMA DropIs ==
  ASSUME NEW t \in HeldType, NEW v \in MaybeDev
  PROVE  /\ Drop(t, v) \in HeldType /\ Drop(t, v).ext = t.ext /\ Drop(t, v).wifi = t.wifi
         /\ \A e \in Devs : Drop(t, v).refs[e] = t.refs[e] - (IF v = e THEN 1 ELSE 0)
<1>0. None \notin Devs /\ \A e \in Devs : t.refs[e] \in Int
  BY DevsAssumption, Fields
<1>1. CASE v = None
  <2>1. Drop(t, v) = t
    BY <1>1 DEF Drop
  <2> QED BY <1>0, <1>1, <2>1
<1>2. CASE v \in Devs
  <2>1. Drop(t, v) = More(t, v, -1)
    BY <1>0, <1>2, HoldPut DEF Drop
  <2>2. /\ More(t, v, -1) \in HeldType /\ More(t, v, -1).ext = t.ext /\ More(t, v, -1).wifi = t.wifi
        /\ \A e \in Devs : More(t, v, -1).refs[e] = t.refs[e] + (IF e = v THEN -1 ELSE 0)
    BY <1>2, MoreIs
  <2>3. \A e \in Devs : Drop(t, v).refs[e] = t.refs[e] - (IF v = e THEN 1 ELSE 0)
    BY <1>0, <2>1, <2>2
  <2> QED BY <2>1, <2>2, <2>3
<1> QED BY <1>1, <1>2 DEF MaybeDev

(* The references of the entries in r are put.                               *)
Dropped(t, u, r) ==
  /\ u \in HeldType /\ u.ext = t.ext /\ u.wifi = t.wifi
  /\ \A e \in Devs : u.refs[e] = t.refs[e] - Cardinality({i \in r : t.ext[i].dev = e})

LEMMA DroppedMore ==
  ASSUME NEW t \in HeldType, NEW r \in SUBSET Deleted(t), NEW i \in r, NEW u, Dropped(t, u, r \ {i})
  PROVE  Dropped(t, Drop(u, t.ext[i].dev), r)
<1> DEFINE v == t.ext[i].dev
           s == Drop(u, v)
<1>1. i \in DOMAIN t.ext /\ r \subseteq DOMAIN t.ext
  BY DEF Deleted
<1>2. v \in MaybeDev
  BY <1>1, ListIs
<1>3. u \in HeldType
  BY DEF Dropped
<1>4. /\ s \in HeldType /\ s.ext = u.ext /\ s.wifi = u.wifi
      /\ \A e \in Devs : s.refs[e] = u.refs[e] - (IF v = e THEN 1 ELSE 0)
  <2> HIDE DEF v
  <2> QED BY <1>2, <1>3, DropIs
<1> HIDE DEF s
<1>5. ASSUME NEW e \in Devs PROVE s.refs[e] = t.refs[e] - Cardinality({j \in r : t.ext[j].dev = e})
  <2> DEFINE A == {j \in r : t.ext[j].dev = e}
             B == {j \in r \ {i} : t.ext[j].dev = e}
  <2>1. B \ {i} = A \ {i} /\ i \notin B /\ (i \in A <=> v = e)
    OBVIOUS
  <2>2. IsFiniteSet(A)
    <3>1. IsFiniteSet(ExtOf(t, e)) /\ A \in SUBSET ExtOf(t, e)
      BY <1>1, ListType DEF ExtOf
    <3> HIDE DEF A
    <3> QED BY <3>1, FS_Subset
  <2>3. u.refs[e] = t.refs[e] - Cardinality(B)
    BY DEF Dropped
  <2> HIDE DEF A, B, v
  <2>4. Cardinality(A) \in Nat /\ Cardinality(B) \in Nat
        /\ Cardinality(B) = Cardinality(A) - (IF v = e THEN 1 ELSE 0)
    <3>1. /\ Cardinality(A) \in Nat /\ Cardinality(B) \in Nat
          /\ Cardinality(B) = Cardinality(A) - (IF i \in A THEN 1 ELSE 0) + (IF i \in B THEN 1 ELSE 0)
      BY <2>1, <2>2, CardDiffers
    <3> QED BY <2>1, <3>1
  <2>5. t.refs[e] \in Int
    BY ListType
  <2>6. s.refs[e] = t.refs[e] - Cardinality(A)
    BY <1>4, <2>3, <2>4, <2>5
  <2> QED BY <2>6 DEF A
<1>6. Dropped(t, s, r)
  BY <1>4, <1>5 DEF Dropped
<1> QED BY <1>6 DEF s

LEMMA ReleasedIs ==
  ASSUME NEW t \in HeldType
  PROVE  /\ Released(t) \in HeldType
         /\ \A e \in Devs : Slack(Released(t), e) >= Spare(t, TRUE, TRUE, e)
<1> DEFINE D == Deleted(t)
           IsRelease(g) ==
             g = [s \in SUBSET D |-> IF s = {} THEN t ELSE Drop(g[s \ {Chosen(s)}], t.ext[Chosen(s)].dev)]
           g == CHOOSE f : IsRelease(f)
           F == [i \in D |-> [r \in HeldType |-> Drop(r, t.ext[i].dev)]]
           Z == {s \in SUBSET D : Dropped(t, g[s], s)}
           u == g[D]
           v == Drop(Drop(u, t.ppdev), t.wandev)
<1>0. DOMAIN t.ext = 1 .. Len(t.ext) /\ Len(t.ext) \in Nat /\ \A i \in D : t.ext[i].dev \in MaybeDev
  BY ListIs DEF Deleted
<1>1. IsFiniteSet(D)
  <2>1. IsFiniteSet(1 .. Len(t.ext))
    BY <1>0, FS_Interval
  <2>2. D \in SUBSET (1 .. Len(t.ext))
    BY <1>0 DEF Deleted
  <2> QED BY <2>1, <2>2, FS_Subset
<1>2. Released(t) = [v EXCEPT !.ext = Skipped(t)]
  BY DEF Released, FoldSet, MapThenFoldSet, Drop, Chosen
<1>3. \E f : IsRelease(f)
  <2>1. \A i \in D : \A r \in HeldType : F[i][r] = Drop(r, t.ext[i].dev) /\ F[i][r] \in HeldType
    BY <1>0, DropIs
  <2> HIDE DEF F, D
  <2>2. PICK f : IsFold(f, F, t, SUBSET D) /\ \A s \in SUBSET D : f[s] \in HeldType
    BY <1>1, <2>1, FoldStays
  <2>3. ASSUME NEW s \in SUBSET D, s # {}
        PROVE  F[Chosen(s)][f[s \ {Chosen(s)}]] = Drop(f[s \ {Chosen(s)}], t.ext[Chosen(s)].dev)
    <3>1. Chosen(s) \in D /\ s \ {Chosen(s)} \in SUBSET D
      BY <1>1, <2>3, Without
    <3> QED BY <2>1, <2>2, <3>1
  <2>4. IsRelease(f)
    BY <2>2, <2>3 DEF IsFold
  <2> QED BY <2>4
<1>4. IsRelease(g)
  <2> HIDE DEF IsRelease
  <2> QED BY <1>3, Zenon
<1> HIDE DEF g, D
<1>5. {} \in Z
  <2>1. g[{}] = t
    BY <1>4
  <2>2. ASSUME NEW e \in Devs PROVE t.refs[e] = t.refs[e] - Cardinality({i \in {} : t.ext[i].dev = e})
    <3>1. {i \in {} : t.ext[i].dev = e} = {} /\ Cardinality({}) = 0 /\ t.refs[e] \in Int
      BY FS_EmptySet, ListType
    <3>2. Cardinality({i \in {} : t.ext[i].dev = e}) = 0
      BY <3>1, Zenon
    <3> QED BY <3>1, <3>2
  <2>3. Dropped(t, t, {})
    BY <2>2 DEF Dropped
  <2> QED BY <2>1, <2>3
<1>6. ASSUME NEW s \in SUBSET D, s # {}, s \ {Chosen(s)} \in Z PROVE s \in Z
  <2>1. Chosen(s) \in s /\ s \in SUBSET Deleted(t)
    BY <1>1, <1>6, Without DEF D
  <2>2. g[s] = Drop(g[s \ {Chosen(s)}], t.ext[Chosen(s)].dev)
    BY <1>4, <1>6
  <2>3. Dropped(t, g[s \ {Chosen(s)}], s \ {Chosen(s)})
    BY <1>6
  <2>4. Dropped(t, g[s], s)
    BY <2>1, <2>2, <2>3, DroppedMore
  <2> QED BY <2>4
<1>7. \A s \in SUBSET D : s \in Z
  <2> HIDE DEF Z
  <2> QED BY <1>1, <1>5, <1>6, SubsetInduction
<1>8. Dropped(t, u, D)
  BY <1>7
<1> HIDE DEF u
<1>9. u \in HeldType /\ t.ppdev \in MaybeDev /\ t.wandev \in MaybeDev
  BY <1>8, Fields DEF Dropped
<1>10. /\ v \in HeldType /\ v.ext = u.ext /\ v.wifi = u.wifi
       /\ \A e \in Devs : v.refs[e] = u.refs[e] - (IF t.ppdev = e THEN 1 ELSE 0) - (IF t.wandev = e THEN 1 ELSE 0)
  <2> DEFINE h == Drop(u, t.ppdev)
  <2>1. /\ h \in HeldType /\ h.ext = u.ext /\ h.wifi = u.wifi
        /\ \A e \in Devs : h.refs[e] = u.refs[e] - (IF t.ppdev = e THEN 1 ELSE 0)
    BY <1>9, DropIs
  <2> HIDE DEF h
  <2>2. /\ v \in HeldType /\ v.ext = h.ext /\ v.wifi = h.wifi
        /\ \A e \in Devs : v.refs[e] = h.refs[e] - (IF t.wandev = e THEN 1 ELSE 0)
    BY <1>9, <2>1, DropIs DEF h
  <2> HIDE DEF v
  <2> QED BY <2>1, <2>2
<1> HIDE DEF v
<1> DEFINE x == Skipped(t)
           y == [v EXCEPT !.ext = x]
<1>11. y = [refs |-> v.refs, ext |-> x, wifi |-> v.wifi, ppdev |-> v.ppdev, wandev |-> v.wandev]
  <2>1. v = [refs |-> v.refs, ext |-> v.ext, wifi |-> v.wifi, ppdev |-> v.ppdev, wandev |-> v.wandev]
    BY <1>10, Fields
  <2> HIDE DEF x
  <2> QED BY <2>1
<1> HIDE DEF y
<1>12. y \in HeldType
  <2>1. x \in Seq([name : Devs, dev : MaybeDev])
    BY SkippedIs, DevsAssumption
  <2> HIDE DEF x
  <2> QED BY <1>10, <1>11, <2>1, Fields DEF HeldType
<1>13. ASSUME NEW e \in Devs PROVE Slack(y, e) >= Spare(t, TRUE, TRUE, e)
  <2> DEFINE gone == {i \in D : t.ext[i].dev = e}
             kept == {i \in DOMAIN x : x[i].dev = e}
  <2>1. /\ Cardinality(gone) \in Nat /\ Cardinality(kept) \in Nat
        /\ Cardinality(gone) + Cardinality(kept) <= Cardinality(ExtOf(t, e))
    BY SkippedIs DEF D
  <2>2. u.refs[e] = t.refs[e] - Cardinality(gone)
    BY <1>8 DEF Dropped
  <2>3. ExtOf(y, e) = kept /\ SlotsOf(y, e) = SlotsOf(t, e) /\ y.refs = v.refs
    <3>1. y.ext = x /\ y.wifi = t.wifi /\ y.refs = v.refs
      BY <1>8, <1>10, <1>11 DEF Dropped
    <3> HIDE DEF x
    <3> QED BY <3>1 DEF ExtOf, SlotsOf
  <2> HIDE DEF gone, kept
  <2>4. /\ t.refs[e] \in Int /\ Cardinality(SlotsOf(t, e)) \in Nat /\ Cardinality(ExtOf(t, e)) \in Nat
        /\ u.refs[e] \in Int
    BY <1>9, ListType
  <2>5. Slack(y, e) = t.refs[e] - Cardinality(gone) - (IF t.ppdev = e THEN 1 ELSE 0) - (IF t.wandev = e THEN 1 ELSE 0)
                        - Cardinality(kept) - Cardinality(SlotsOf(t, e))
    BY <1>10, <2>2, <2>3, <2>4 DEF Slack
  <2> QED BY <2>1, <2>4, <2>5 DEF Spare, Slack
<1> QED BY <1>2, <1>12, <1>13 DEF y, x
-------------------------------------------------------------------------------
(***************************************************************************)
(* References and pointers.                                                *)
(***************************************************************************)
(* Removal has put the references of hnat_priv's pointers.                   *)
Rel == at["admin"].prog = "remove" /\ at["admin"].pc > 12 + 5 * N

(* What is pointed to has its references, and the device a write w looked up *)
(* has one.  A write that is about to store has put the port device; with q, *)
(* the port device and the WAN device are not pointed to any more.           *)
Enough(t, q, w) ==
  \A e \in Devs :
    Spare(t, ~q /\ w.step # 2, ~q, e) >= IF w.step # 0 /\ w.dev = e THEN 1 ELSE 0

WriteType == [dev : MaybeDev, step : 0 .. 2]

(* Removal comes to release what is held when neither events nor writes can  *)
(* come any more.                                                            *)
Removed(l, h, w) ==
  l.prog = "remove" =>
    /\ l.pc > 3 => "netdev_nb" \notin h
    /\ l.pc > 11 + 5 * N => "debugfs" \notin h /\ w.step = 0

HeldInv ==
  /\ held \in HeldType /\ ppd \in Devs
  /\ writing \in WriteType /\ (writing.step # 0 => writing.dev \in Devs)
  /\ Removed(at["admin"], has, writing)
  /\ ~raced => Enough(held, Rel, writing)

LEMMA BetterEnough ==
  ASSUME NEW t \in HeldType, NEW u, NEW q, NEW w, Enough(t, q, w), Better(t, u, ~q /\ w.step # 2, ~q)
  PROVE  u \in HeldType /\ Enough(u, q, w)
<1> DEFINE p == ~q /\ w.step # 2
           m == ~q
<1>1. u \in HeldType /\ \A e \in Devs : Spare(u, p, m, e) >= Spare(t, p, m, e)
  BY DEF Better
<1>2. \A e \in Devs : Spare(t, p, m, e) >= IF w.step # 0 /\ w.dev = e THEN 1 ELSE 0
  BY DEF Enough
<1> HIDE DEF p, m
<1>3. ASSUME NEW e \in Devs PROVE Spare(u, p, m, e) >= IF w.step # 0 /\ w.dev = e THEN 1 ELSE 0
  <2>1. Spare(t, p, m, e) \in Int /\ Spare(u, p, m, e) \in Int
    BY <1>1, SpareType
  <2> QED BY <1>1, <1>2, <2>1
<1> QED BY <1>1, <1>3 DEF Enough, p, m

(* Where removal releases.                                                   *)
LEMMA RemoveEnd ==
  ASSUME NEW k \in Nat, NEW i, RemoveAt(k, i)
  PROVE  /\ i.op = "release" <=> k = 12 + 5 * N
         /\ i.op = "devres" <=> k = 14 + 5 * N
         /\ i.op = "netdev_off" => k = 3
         /\ i.op \notin {"ext", "ext_free", "hw_init", "netdev_on", "debugfs_on"}
<1>0. N \in Nat \ {0} /\ 2 * N \in Nat /\ 3 * N \in Nat /\ 5 * N \in Nat
  BY NType
<1>1. ASSUME NEW e \in Ppes
      PROVE  e \in Nat /\ 3 * e + 9 + 2 * N <= 9 + 5 * N
  <2>1. e \in Nat /\ 1 <= e /\ e <= N
    BY DEF Ppes, N
  <2> QED BY <1>0, <2>1
<1>2. k > 9 + 2 * N => ~DisableAt(4, k, i)
  <2> SUFFICES ASSUME k > 9 + 2 * N, DisableAt(4, k, i) PROVE FALSE
    OBVIOUS
  <2>1. \A e \in Ppes : e \in Nat /\ e <= N
    BY DEF Ppes, N
  <2> QED BY <1>0, <2>1 DEF DisableAt
<1>3. k = 12 + 5 * N => i.op = "release"
  <2> SUFFICES ASSUME k = 12 + 5 * N PROVE i.op = "release"
    OBVIOUS
  <2>1. ~DisableAt(4, k, i)
    BY <1>0, <1>2
  <2> QED BY <1>0, <1>1, <2>1 DEF RemoveAt
<1>4. (i.op = "release" => k = 12 + 5 * N) /\ (i.op = "devres" => k = 14 + 5 * N)
  BY DEF RemoveAt, DisableAt
<1>5. i.op = "netdev_off" => k = 3
  BY DEF RemoveAt, DisableAt
<1>6. i.op \notin {"ext", "ext_free", "hw_init", "netdev_on", "debugfs_on"}
  BY DEF RemoveAt, DisableAt
<1> QED BY <1>3, <1>4, <1>5, <1>6, RemoveOps

LEMMA RelReleasing ==
  ASSUME Basic, Rel
  PROVE  Releasing
<1> DEFINE k == 12 + 5 * N
<1>0. N \in Nat \ {0} /\ 5 * N \in Nat /\ k \in Nat
  BY NType
<1>1. at["admin"].prog = "remove" /\ at["admin"].pc > k /\ at["admin"].pc \in Nat
  <2>1. at["admin"] \in [prog : Programs, pc : Nat]
    BY Actor DEF Basic, AtOK
  <2> QED BY <2>1 DEF Rel
<1>2. Remove[k].op = "release"
  <2>1. LastStep["remove"] = 14 + 5 * N /\ "remove" \in Programs \ {"none"}
    BY DEF LastStep, Programs
  <2>2. Does("remove", k, Code("remove")[k])
    <3>1. k \in 1 .. LastStep["remove"]
      BY <1>0, <2>1
    <3> QED BY <2>1, <3>1, CodeIs
  <2>3. RemoveAt(k, Remove[k])
    BY <2>2 DEF Does, Code
  <2> QED BY <1>0, <2>3, RemoveEnd
<1>3. k \in 1 .. at["admin"].pc - 1
  BY <1>0, <1>1
<1> QED BY <1>1, <1>2, <1>3 DEF Releasing

LEMMA HeldPointers ==
  ASSUME Basic, HeldInv
  PROVE  PointersHeld
<1> SUFFICES ASSUME ~raced, ~Releasing, NEW d \in Devs
             PROVE  held.refs[d] + (IF writing.step = 2 /\ held.ppdev = d THEN 1 ELSE 0) >= Pointers(held, d)
  BY DEF PointersHeld
<1>1. held \in HeldType /\ ~Rel
  BY RelReleasing DEF HeldInv
<1>2. Spare(held, writing.step # 2, TRUE, d) >= IF writing.step # 0 /\ writing.dev = d THEN 1 ELSE 0
  BY <1>1 DEF HeldInv, Enough
<1>3. /\ held.refs[d] \in Int /\ Cardinality(SlotsOf(held, d)) \in Nat
      /\ Cardinality(ExtOf(held, d)) \in Nat
  BY <1>1, ListType
<1> DEFINE x == Cardinality(ExtOf(held, d))
           y == Cardinality(SlotsOf(held, d))
           r == held.refs[d]
<1>4. /\ Spare(held, writing.step # 2, TRUE, d) =
           r - x - y - (IF writing.step # 2 /\ held.ppdev = d THEN 1 ELSE 0) - (IF held.wandev = d THEN 1 ELSE 0)
      /\ Pointers(held, d) = x + y + (IF held.ppdev = d THEN 1 ELSE 0) + (IF held.wandev = d THEN 1 ELSE 0)
  BY DEF Spare, Slack, Pointers
<1> HIDE DEF x, y, r
<1>5. r \in Int /\ x \in Nat /\ y \in Nat
  BY <1>3 DEF x, y, r
<1>6. r + (IF writing.step = 2 /\ held.ppdev = d THEN 1 ELSE 0)
        >= x + y + (IF held.ppdev = d THEN 1 ELSE 0) + (IF held.wandev = d THEN 1 ELSE 0)
  <2> DEFINE z == IF held.ppdev = d THEN 1 ELSE 0
             v == IF held.wandev = d THEN 1 ELSE 0
             b == writing.step = 2
  <2>1. Spare(held, ~b, TRUE, d) \in Int /\ Spare(held, ~b, TRUE, d) >= 0
    <3> DEFINE f == Spare(held, ~b, TRUE, d)
               c == IF writing.step # 0 /\ writing.dev = d THEN 1 ELSE 0
    <3>1. f >= c /\ c \in {0, 1}
      BY <1>2
    <3>2. f \in Int
      BY <1>1, SpareType
    <3> HIDE DEF f, c
    <3>3. f >= 0
      BY <3>1, <3>2
    <3> QED BY <3>2, <3>3 DEF f
  <2>2. CASE b
    <3>1. r - x - y - 0 - v >= 0
      BY <1>4, <2>1, <2>2
    <3>2. z \in {0, 1} /\ v \in {0, 1}
      OBVIOUS
    <3>3. r + z >= x + y + z + v
      <4> HIDE DEF z, v
      <4> QED BY <1>5, <3>1, <3>2
    <3> QED BY <2>2, <3>3
  <2>3. CASE ~b
    <3>1. r - x - y - z - v >= 0
      BY <1>4, <2>1, <2>3
    <3>2. z \in {0, 1} /\ v \in {0, 1}
      OBVIOUS
    <3>3. r + 0 >= x + y + z + v
      <4> HIDE DEF z, v
      <4> QED BY <1>5, <3>1, <3>2
    <3> QED BY <2>3, <3>3
  <2> QED BY <2>2, <2>3
<1> QED BY <1>4, <1>6 DEF r

LEMMA HeldInit ==
  ASSUME Init
  PROVE  HeldInv
<1>0. None \in MaybeDev /\ None \notin Devs /\ Wan \in Devs
  BY DevsAssumption DEF MaybeDev
<1>1. /\ held = Unused /\ ppd = Wan /\ writing = [dev |-> None, step |-> 0]
      /\ at["admin"] = Idle
  BY Actor DEF Init
<1>2. Unused \in HeldType
  BY <1>0 DEF Unused, HeldType
<1>3. ASSUME NEW e \in Devs, NEW p, NEW m PROVE Spare(Unused, p, m, e) = 0
  <2>1. ExtOf(Unused, e) = {} /\ SlotsOf(Unused, e) = {} /\ Unused.refs[e] = 0
        /\ Unused.ppdev # e /\ Unused.wandev # e
    BY <1>0 DEF ExtOf, SlotsOf, Unused
  <2>2. Cardinality({}) = 0
    BY FS_EmptySet
  <2> QED BY <2>1, <2>2 DEF Spare, Slack
<1>4. Enough(held, Rel, writing)
  <2>1. writing.step = 0
    BY <1>1
  <2> QED BY <1>1, <1>3, <2>1 DEF Enough
<1>5. Removed(at["admin"], has, writing)
  BY <1>1 DEF Removed, Idle
<1>6. writing \in WriteType /\ writing.step = 0
  BY <1>0, <1>1 DEF WriteType
<1> QED BY <1>0, <1>1, <1>2, <1>4, <1>5, <1>6 DEF HeldInv

(* What a step does to what is held, to the write and to raced.              *)
HeldStep(i) ==
  \/ UNCHANGED held /\ i.op \notin {"release", "devres", "hw_init", "ext", "ext_free", "netdev_on", "netdev_off"}
  \/ i.op = "hw_init" /\ held' = LookedUp(held, Listed, ppd)
  \/ i.op = "ext" /\ held' = [held EXCEPT !.ext = [k \in DOMAIN Exts |-> [name |-> Exts[k], dev |-> None]]]
  \/ i.op = "ext_free" /\ held' = [held EXCEPT !.ext = Skipped(held)]
  \/ i.op = "release" /\ held' = Released(held)
  \/ i.op = "devres" /\ held' = [Unused EXCEPT !.refs = held.refs]
  \/ i.op = "netdev_on" /\ held' = Replayed(held, Listed, Up, ppd)
  \/ i.op = "netdev_off" /\ held' = Unreplayed(held, Listed, Up) /\ (writing.step = 2 => raced')

LEMMA StepHeld ==
  ASSUME AtOK, Domains, NEW a \in Actors, Step(a)
  PROVE  /\ UNCHANGED <<ppd, writing>> /\ (raced => raced')
         /\ Instruction(a).op = "debugfs_off" => writing.step = 0
         /\ HeldStep(Instruction(a))
<1> DEFINE i == Instruction(a)
<1>0. Op(a) = i.op /\ \A o : Is(a, o) <=> at[a] # Idle /\ i.op = o
  BY DEF Op, Is, Instruction
<1>r. raced \in BOOLEAN
  BY DEF Domains
<1> HIDE DEF i
<1>1. CASE Install(a) \/ Uninstall(a)
  <2>1. i.op \in DOMAIN Adds \cup DOMAIN Takes
    BY <1>0, <1>1 DEF Install, Uninstall
  <2>2. i.op \notin {"release", "devres", "hw_init", "ext", "ext_free", "netdev_on", "netdev_off", "debugfs_off"}
    BY <2>1 DEF Adds, Takes
  <2>3. UNCHANGED <<held, ppd, writing, raced>>
    BY <1>1 DEF Install, Uninstall, devvars
  <2> QED BY <2>2, <2>3 DEF HeldStep, i
<1>2. CASE NfHooks(a)
  <2>1. i.op \in {"nf_on", "nf_off"}
    BY <1>0, <1>2 DEF NfHooks
  <2>3. UNCHANGED <<held, ppd, writing, raced>>
    BY <1>2 DEF NfHooks, devvars
  <2> QED BY <2>1, <2>3 DEF HeldStep, i
<1>3. CASE Tables(a)
  <2>1. i.op \in {"table", "mib", "clear", "free"}
    BY <1>0, <1>3 DEF Tables
  <2>3. UNCHANGED <<held, ppd, writing, raced>>
    BY <1>3 DEF Tables, devvars
  <2> QED BY <2>1, <2>3 DEF HeldStep, i
<1>4. CASE HwInit(a)
  <2>1. i.op = "hw_init" /\ held' = LookedUp(held, Listed, ppd)
    BY <1>0, <1>4 DEF HwInit
  <2>3. UNCHANGED <<ppd, writing, raced>>
    BY <1>4 DEF HwInit
  <2> QED BY <2>1, <2>3 DEF HeldStep, i
<1>5. CASE SwitchOff(a)
  <2>1. i.op \in {"fwd", "sweep"}
    BY <1>0, <1>5 DEF SwitchOff
  <2>3. UNCHANGED <<held, ppd, writing, raced>>
    BY <1>5 DEF SwitchOff, devvars
  <2> QED BY <2>1, <2>3 DEF HeldStep, i
<1>6. CASE Timers(a)
  <2>1. i.op \in {"sma_timer", "timers_on", "timers_off"}
    BY <1>0, <1>6 DEF Timers
  <2>3. UNCHANGED <<held, ppd, writing, raced>>
    BY <1>6 DEF Timers, devvars
  <2> QED BY <2>1, <2>3 DEF HeldStep, i
<1>7. CASE Interfaces(a)
  <2>1. /\ i.op \in {"ext", "ext_free", "release", "devres"}
        /\ HeldStep(i)
    BY <1>0, <1>7 DEF Interfaces, HeldStep
  <2>3. UNCHANGED <<ppd, writing, raced>>
    BY <1>7 DEF Interfaces
  <2> QED BY <2>1, <2>3 DEF i
<1>8. CASE NetdevNotifier(a)
  <2>1. /\ \/ i.op = "netdev_on" /\ held' = Replayed(held, Listed, Up, ppd)
           \/ i.op = "netdev_off" /\ held' = Unreplayed(held, Listed, Up)
        /\ raced' = (raced \/ (Is(a, "netdev_off") /\ writing.step = 2))
        /\ i.op = "netdev_off" => Is(a, "netdev_off")
    BY <1>0, <1>8 DEF NetdevNotifier
  <2>3. UNCHANGED <<ppd, writing>>
    BY <1>8 DEF NetdevNotifier
  <2>4. (raced => raced') /\ (i.op = "netdev_off" /\ writing.step = 2 => raced')
    BY <2>1
  <2>5. HeldStep(i) /\ i.op # "debugfs_off"
    BY <2>1, <2>4 DEF HeldStep
  <2> QED BY <2>3, <2>4, <2>5 DEF i
<1>9. CASE DebugfsOff(a)
  <2>1. i.op = "debugfs_off" /\ writing.step = 0
    BY <1>0, <1>9 DEF DebugfsOff
  <2>3. UNCHANGED <<held, ppd, writing, raced>>
    BY <1>9 DEF DebugfsOff, devvars
  <2> QED BY <2>1, <2>3 DEF HeldStep, i
<1>10. CASE Roaming(a)
  <2>1. i.op \in {"roam_on", "roam_off"}
    BY <1>0, <1>10 DEF Roaming
  <2>3. UNCHANGED <<held, ppd, writing, raced>>
    BY <1>10 DEF Roaming, devvars
  <2> QED BY <2>1, <2>3 DEF HeldStep, i
<1> QED BY <1>1, <1>2, <1>3, <1>4, <1>5, <1>6, <1>7, <1>8, <1>9, <1>10 DEF Step

(* Removal goes past the release of what is held by releasing it.            *)
LEMMA RelIs ==
  ASSUME Basic, NEW a \in Actors, Step(a)
  PROVE  /\ Instruction(a).op = "release" => /\ a = "admin" /\ at["admin"].prog = "remove"
                                              /\ at["admin"].pc = 12 + 5 * N /\ ~Rel /\ Rel'
         /\ Instruction(a).op = "devres" => ~Rel'
         /\ Instruction(a).op \notin {"release", "devres"} => (Rel' <=> Rel)
         /\ Instruction(a).op \in {"netdev_on", "netdev_off", "ext", "ext_free"} => ~Rel
<1>0. N \in Nat \ {0} /\ 2 * N \in Nat /\ 3 * N \in Nat /\ 5 * N \in Nat
  BY NType
<1> DEFINE i == Instruction(a)
           l == at["admin"]
           m == at'["admin"]
           k == 5 * N
<1>s. Stepped(a) /\ \A b \in Actors \ {a} : at'[b] = at[b]
  BY SteppedIs
<1>t. (Rel <=> l.prog = "remove" /\ l.pc > 12 + k) /\ (Rel' <=> m.prog = "remove" /\ m.pc > 12 + k)
  BY DEF Rel
<1>1. CASE a # "admin"
  <2>1. m = l
    BY <1>1, <1>s, Actor
  <2>2. at[a] # Idle
    BY <1>s, StepEffect DEF Basic
  <2>3. i.op \notin {"release", "devres", "netdev_on", "netdev_off", "ext", "ext_free"}
    BY <1>1, <2>2, OthersOps DEF Basic
  <2> HIDE DEF i, l, m, k
  <2> QED BY <1>t, <2>1, <2>3 DEF i
<1>2. CASE a = "admin"
  <2>1. /\ l.prog \in {"probe", "remove", "err_out", "err_out1", "err_out2"} /\ l.pc \in Nat
        /\ Does(l.prog, l.pc, i)
        /\ \/ m = Idle /\ l.pc = LastStep[l.prog]
           \/ m # Idle /\ m.prog = l.prog /\ m.pc = l.pc + 1 /\ l.pc < LastStep[l.prog]
    BY <1>2, <1>s DEF Stepped, ProgramsOf
  <2>2. Idle.prog = "none"
    BY DEF Idle
  <2>3. LastStep["remove"] = 14 + k
    BY DEF LastStep
  <2> HIDE DEF i, l, m
  <2>4. CASE l.prog = "remove"
    <3>1. /\ i.op = "release" <=> l.pc = 12 + k
          /\ i.op = "devres" <=> l.pc = 14 + k
          /\ i.op = "netdev_off" => l.pc = 3
          /\ i.op \notin {"ext", "ext_free", "netdev_on"}
      <4>1. RemoveAt(l.pc, i)
        BY <2>1, <2>4 DEF Does
      <4> QED BY <2>1, <4>1, RemoveEnd
    <3>2. \/ m.prog = "none" /\ l.pc = 14 + k
          \/ m.prog = "remove" /\ m.pc = l.pc + 1 /\ l.pc < 14 + k
      BY <2>1, <2>2, <2>3, <2>4
    <3>3. k \in Nat
      BY <1>0
    <3>n. l.pc \in Nat
      BY <2>1
    <3> HIDE DEF k
    <3>4. CASE m.prog = "none" /\ l.pc = 14 + k
      <4>1. Rel /\ ~Rel'
        BY <1>t, <2>4, <3>3, <3>4, <3>n
      <4>2. i.op = "devres"
        BY <3>1, <3>4
      <4> QED BY <4>1, <4>2 DEF i
    <3>5. CASE m.prog = "remove" /\ m.pc = l.pc + 1 /\ l.pc < 14 + k
      <4>1. Rel' <=> l.pc >= 12 + k
        BY <1>t, <3>3, <3>5, <3>n
      <4>2. Rel <=> l.pc > 12 + k
        BY <1>t, <2>4
      <4>3. i.op # "devres" /\ (i.op # "release" => (Rel' <=> Rel)) /\ (i.op = "release" => Rel' /\ ~Rel)
        BY <2>1, <3>1, <3>3, <3>5, <4>1, <4>2
      <4>4. i.op = "netdev_off" => ~Rel
        BY <2>1, <3>1, <3>3, <4>2
      <4> QED BY <1>2, <2>4, <3>1, <4>3, <4>4 DEF i, l, k
    <3> QED BY <3>2, <3>4, <3>5
  <2>5. CASE l.prog # "remove"
    <3>1. m.prog # "remove"
      BY <2>1, <2>2, <2>5
    <3>2. i.op # "release"
      <4>1. CASE l.prog = "probe"
        BY <2>1, <4>1 DEF Does, ProbeAt
      <4>2. CASE l.prog = "err_out"
        BY <2>1, <4>2 DEF Does, ErrOutAt
      <4>3. CASE l.prog = "err_out1"
        BY <2>1, <4>3 DEF Does, ErrOut1At
      <4>4. CASE l.prog = "err_out2"
        BY <2>1, <4>4 DEF Does, ErrOut2At
      <4> QED BY <2>1, <2>5, <4>1, <4>2, <4>3, <4>4
    <3> QED BY <1>t, <2>5, <3>1, <3>2 DEF i
  <2> QED BY <2>4, <2>5
<1> QED BY <1>1, <1>2

LEMMA RemovedKept ==
  ASSUME Basic, NEW a \in Actors, Step(a), Removed(at["admin"], has, writing)
  PROVE  Removed(at'["admin"], has', writing')
<1>0. N \in Nat \ {0} /\ 2 * N \in Nat /\ 3 * N \in Nat /\ 5 * N \in Nat
  BY NType
<1> DEFINE i == Instruction(a)
           l == at["admin"]
           m == at'["admin"]
<1>s. Stepped(a) /\ \A b \in Actors \ {a} : at'[b] = at[b]
  BY SteppedIs
<1>w. writing' = writing /\ (i.op = "debugfs_off" => writing.step = 0)
  BY StepHeld DEF Basic
<1>1. CASE a # "admin"
  <2>1. m = l
    BY <1>1, <1>s, Actor
  <2>2. \A x \in {"netdev_nb", "debugfs"} : x \in has' <=> x \in has
    BY <1>1, OthersKeep DEF Basic
  <2> QED BY <1>w, <2>1, <2>2 DEF Removed
<1>2. CASE a = "admin" /\ m.prog = "remove"
  <2>1. /\ l.pc \in Nat
        /\ Does(l.prog, l.pc, i)
        /\ m = Idle \/ (m.prog = l.prog /\ m.pc = l.pc + 1)
        /\ Effect(i, has, nf, mem, has', nf', mem')
    BY <1>2, <1>s DEF Stepped
  <2>2. l.prog = "remove" /\ m.pc = l.pc + 1
    BY <1>2, <2>1 DEF Idle
  <2>3. RemoveAt(l.pc, i)
    BY <2>1, <2>2 DEF Does
  <2>4. /\ l.pc = 3 => i.op = "netdev_off"
        /\ l.pc = 11 + 5 * N => i.op = "debugfs_off"
        /\ i.op \notin {"debugfs_on", "netdev_on"}
    BY <2>1, <2>3, RemoveOps
  <2>5. /\ "debugfs" \in has' <=> i.op = "debugfs_on" \/ ("debugfs" \in has /\ i.op # "debugfs_off")
        /\ "netdev_nb" \in has' <=> i.op = "netdev_on" \/ ("netdev_nb" \in has /\ i.op # "netdev_off")
    BY <2>1, EffectIs
  <2>6. /\ l.pc > 3 => "netdev_nb" \notin has
        /\ l.pc > 11 + 5 * N => "debugfs" \notin has /\ writing.step = 0
    BY <2>2 DEF Removed
  <2>n. l.pc \in Nat
    BY <2>1
  <2> HIDE DEF i, l, m
  <2>7. m.pc > 3 => "netdev_nb" \notin has'
    <3>1. m.pc > 3 => l.pc = 3 \/ l.pc > 3
      BY <2>2, <2>n
    <3> QED BY <2>4, <2>5, <2>6, <3>1
  <2>8. m.pc > 11 + 5 * N => "debugfs" \notin has' /\ writing'.step = 0
    <3>1. m.pc > 11 + 5 * N => l.pc = 11 + 5 * N \/ l.pc > 11 + 5 * N
      BY <1>0, <2>2, <2>n
    <3> QED BY <1>w, <2>4, <2>5, <2>6, <3>1
  <2> QED BY <2>7, <2>8 DEF Removed, m
<1>3. CASE m.prog # "remove"
  BY <1>3 DEF Removed
<1> QED BY <1>1, <1>2, <1>3

LEMMA LoopsType == Listed \in SUBSET Devs
BY DEF Listed

(* A step of a program keeps the references.                                 *)
LEMMA HeldOnStep ==
  ASSUME Basic, HeldInv, NEW a \in Actors, Step(a)
  PROVE  HeldInv'
<1> DEFINE i == Instruction(a)
<1>0. held \in HeldType /\ ppd \in Devs /\ writing \in WriteType
  BY DEF HeldInv
<1>h. /\ UNCHANGED <<ppd, writing>> /\ (raced => raced')
      /\ HeldStep(i)
  BY StepHeld DEF Basic
<1>r. /\ i.op = "release" => /\ a = "admin" /\ at["admin"].prog = "remove"
                              /\ at["admin"].pc = 12 + 5 * N /\ ~Rel /\ Rel'
      /\ i.op = "devres" => ~Rel'
      /\ i.op \notin {"release", "devres"} => (Rel' <=> Rel)
      /\ i.op \in {"netdev_on", "netdev_off", "ext", "ext_free"} => ~Rel
  BY RelIs
<1>e. raced \/ Enough(held, Rel, writing)
  BY DEF HeldInv
<1>m. Removed(at'["admin"], has', writing')
  BY RemovedKept DEF HeldInv
<1>w. /\ writing.step \in 0 .. 2
      /\ Rel => writing.step = 0
      /\ i.op = "release" => writing.step = 0
  <2>1. 5 * N \in Nat
    BY NType
  <2>2. at["admin"] \in [prog : Programs, pc : Nat]
    BY Actor DEF Basic, AtOK
  <2>3. at["admin"].prog = "remove" => (at["admin"].pc > 11 + 5 * N => writing.step = 0)
    BY DEF HeldInv, Removed
  <2>4. Rel => at["admin"].prog = "remove" /\ at["admin"].pc > 11 + 5 * N
    BY <2>1, <2>2 DEF Rel
  <2>5. i.op = "release" => at["admin"].prog = "remove" /\ at["admin"].pc > 11 + 5 * N
    BY <1>r, <2>1
  <2> QED BY <1>0, <2>3, <2>4, <2>5 DEF WriteType
<1> HIDE DEF i
<1>1. ASSUME NEW u, u = held', ~raced', Rel' <=> Rel, \A p, w : Better(held, u, p, w)
      PROVE  u \in HeldType /\ Enough(u, Rel', writing')
  <2>1. Enough(held, Rel, writing)
    BY <1>1, <1>e, <1>h
  <2>2. u \in HeldType /\ Enough(u, Rel, writing)
    BY <1>0, <1>1, <2>1, BetterEnough
  <2> QED BY <1>1, <1>h, <2>2 DEF Enough
<1>2. held' \in HeldType /\ (~raced' => Enough(held', Rel', writing'))
  <2>1. CASE UNCHANGED held /\ i.op \notin {"release", "devres", "hw_init", "ext", "ext_free", "netdev_on", "netdev_off"}
    <3>1. Rel' <=> Rel
      BY <1>r, <2>1
    <3> QED BY <1>0, <1>e, <1>h, <2>1, <3>1 DEF Enough
  <2>2. CASE i.op = "hw_init" /\ held' = LookedUp(held, Listed, ppd)
    <3>1. (Rel' <=> Rel)
      BY <1>r, <2>2
    <3>2. \A p, w : Better(held, LookedUp(held, Listed, ppd), p, w)
      BY <1>0, LookedUpIs
    <3>3. held' \in HeldType
      BY <2>2, <3>2 DEF Better
    <3> QED BY <1>1, <2>2, <3>1, <3>2, <3>3
  <2>3. CASE i.op = "ext"
             /\ held' = [held EXCEPT !.ext = [k \in DOMAIN Exts |-> [name |-> Exts[k], dev |-> None]]]
    <3>1. (Rel' <=> Rel)
      BY <1>r, <2>3
    <3>2. \A p, w : Better(held, held', p, w)
      BY <1>0, <2>3, UnpointedIs
    <3>3. held' \in HeldType
      BY <2>3, <3>2 DEF Better
    <3> QED BY <1>1, <3>1, <3>2, <3>3
  <2>4. CASE i.op = "ext_free" /\ held' = [held EXCEPT !.ext = Skipped(held)]
    <3>1. (Rel' <=> Rel)
      BY <1>r, <2>4
    <3>2. \A p, w : Better(held, held', p, w)
      BY <1>0, <2>4, FreedIs
    <3>3. held' \in HeldType
      BY <2>4, <3>2 DEF Better
    <3> QED BY <1>1, <3>1, <3>2, <3>3
  <2>5. CASE i.op = "release" /\ held' = Released(held)
    <3>1. writing.step = 0 /\ ~Rel /\ Rel'
      BY <1>r, <1>w, <2>5
    <3>2. /\ Released(held) \in HeldType
          /\ \A e \in Devs : Slack(Released(held), e) >= Spare(held, TRUE, TRUE, e)
      BY <1>0, ReleasedIs
    <3>3. ASSUME ~raced', NEW e \in Devs
          PROVE  Spare(Released(held), FALSE, FALSE, e) >= 0
      <4> DEFINE y == Spare(held, ~Rel /\ writing.step # 2, ~Rel, e)
                 x == Spare(held, TRUE, TRUE, e)
                 z == Slack(Released(held), e)
      <4>1. y >= 0
        BY <1>e, <1>h, <3>1, <3>3 DEF Enough
      <4>2. x = y
        BY <3>1 DEF Spare
      <4>3. x \in Int /\ z \in Int
        BY <1>0, <3>2, SpareType
      <4>4. z >= x
        BY <3>2
      <4> HIDE DEF x, y, z
      <4>5. z >= 0
        BY <4>1, <4>2, <4>3, <4>4
      <4>6. Slack(Released(held), e) >= 0
        BY <4>5 DEF z
      <4>7. Slack(Released(held), e) \in Int
        BY <4>3 DEF z
      <4> QED BY <4>6, <4>7 DEF Spare
    <3>4. Enough(Released(held), TRUE, writing) <=>
            \A e \in Devs : Spare(Released(held), FALSE, FALSE, e) >= 0
      BY <3>1 DEF Enough
    <3> QED BY <1>h, <2>5, <3>1, <3>2, <3>3, <3>4 DEF Enough
  <2>6. CASE i.op = "devres" /\ held' = [Unused EXCEPT !.refs = held.refs]
    <3> DEFINE u == [Unused EXCEPT !.refs = held.refs]
    <3>1. ~Rel'
      BY <1>r, <2>6
    <3>2. u \in HeldType /\ \A p, w : \A e \in Devs : Spare(u, p, w, e) >= Slack(held, e)
      BY <1>0, ForgottenIs
    <3>u. held' = u
      BY <2>6
    <3> HIDE DEF u
    <3>3. ASSUME ~raced', NEW e \in Devs
          PROVE  Spare(u, writing.step # 2, TRUE, e)
                   >= IF writing.step # 0 /\ writing.dev = e THEN 1 ELSE 0
      <4> DEFINE x == IF writing.step # 0 /\ writing.dev = e THEN 1 ELSE 0
                 y == Spare(held, ~Rel /\ writing.step # 2, ~Rel, e)
                 z == Spare(u, writing.step # 2, TRUE, e)
      <4>1. y >= x
        BY <1>e, <1>h, <3>3 DEF Enough
      <4>2. y \in Int /\ Slack(held, e) \in Int /\ y <= Slack(held, e) /\ z \in Int
        BY <1>0, <3>2, SpareType
      <4>3. z >= Slack(held, e)
        BY <3>2
      <4>4. x \in {0, 1}
        OBVIOUS
      <4> HIDE DEF x, y, z
      <4>5. z >= x
        BY <4>1, <4>2, <4>3, <4>4
      <4> QED BY <4>5 DEF x, z
    <3>4. Enough(u, FALSE, writing) <=>
            \A e \in Devs : Spare(u, writing.step # 2, TRUE, e)
                              >= IF writing.step # 0 /\ writing.dev = e THEN 1 ELSE 0
      BY DEF Enough
    <3> QED BY <1>h, <3>1, <3>2, <3>3, <3>4, <3>u DEF Enough
  <2>7. CASE i.op = "netdev_on" /\ held' = Replayed(held, Listed, Up, ppd)
    <3>1. (Rel' <=> Rel)
      BY <1>r, <2>7
    <3>2. \A p, w : Better(held, Replayed(held, Listed, Up, ppd), p, w)
      BY <1>0, ReplayedIs, LoopsType
    <3>3. held' \in HeldType
      BY <2>7, <3>2 DEF Better
    <3> QED BY <1>1, <2>7, <3>1, <3>2, <3>3
  <2>8. CASE i.op = "netdev_off" /\ held' = Unreplayed(held, Listed, Up) /\ (writing.step = 2 => raced')
    <3>1. ~Rel /\ ~Rel'
      BY <1>r, <2>8
    <3>2. Better(held, Unreplayed(held, Listed, Up), TRUE, TRUE)
      BY <1>0, UnreplayedIs, LoopsType
    <3>3. held' \in HeldType
      BY <2>8, <3>2 DEF Better
    <3>4. ASSUME ~raced' PROVE Enough(Unreplayed(held, Listed, Up), Rel, writing)
      <4>1. Enough(held, FALSE, writing) /\ writing.step # 2
        BY <1>e, <1>h, <2>8, <3>1, <3>4 DEF Enough
      <4>2. Better(held, Unreplayed(held, Listed, Up), ~FALSE /\ writing.step # 2, ~FALSE)
        BY <3>2, <4>1
      <4>3. Enough(Unreplayed(held, Listed, Up), FALSE, writing)
        BY <1>0, <4>1, <4>2, BetterEnough
      <4> QED BY <3>1, <4>3 DEF Enough
    <3> QED BY <1>h, <2>8, <3>1, <3>3, <3>4 DEF Enough
  <2> QED BY <1>h, <2>1, <2>2, <2>3, <2>4, <2>5, <2>6, <2>7, <2>8 DEF HeldStep
<1>3. ppd' \in Devs /\ writing' \in WriteType /\ (writing'.step # 0 => writing'.dev \in Devs)
  BY <1>h DEF HeldInv
<1> QED BY <1>2, <1>3, <1>m DEF HeldInv, WriteType, HeldType, MaybeDev

LEMMA RelLate ==
  ASSUME Basic, Rel
  PROVE  /\ at["admin"].prog = "remove" /\ at["admin"].pc > 3 /\ at["admin"].pc > 11 + 5 * N
<1>1. 5 * N \in Nat
  BY NType
<1>2. at["admin"] \in [prog : Programs, pc : Nat]
  BY Actor DEF Basic, AtOK
<1> QED BY <1>1, <1>2 DEF Rel

(* What the notifier and the WiFi hooks do.                                  *)
DevEvent ==
  \E d \in Devs : DevRegister(d) \/ DevUp(d) \/ DevDown(d) \/ DevUnregister(d) \/ DevFree(d)

LEMMA HeldOnDevice ==
  ASSUME Basic, HeldInv, DevEvent, raced => raced'
  PROVE  held' \in HeldType /\ (~raced' => Enough(held', Rel, writing))
<1>0. held \in HeldType /\ writing \in WriteType /\ Even(held, held)
  BY DEF HeldInv, Even
<1>e. ~raced' => Enough(held, Rel, writing)
  BY DEF HeldInv
<1>b. ASSUME NEW u, Better(held, u, ~Rel /\ writing.step # 2, ~Rel)
      PROVE  u \in HeldType /\ (~raced' => Enough(u, Rel, writing))
  <2>1. u \in HeldType
    BY <1>b DEF Better
  <2>2. ASSUME ~raced' PROVE Enough(u, Rel, writing)
    BY <1>0, <1>b, <1>e, <2>2, BetterEnough
  <2> QED BY <2>1, <2>2
<1>1. ASSUME NEW u, Even(held, u) PROVE u \in HeldType /\ (~raced' => Enough(u, Rel, writing))
  BY <1>0, <1>1, <1>b, EvenBetter
<1>2. PICK d \in Devs : DevRegister(d) \/ DevUp(d) \/ DevDown(d) \/ DevUnregister(d) \/ DevFree(d)
  BY DEF DevEvent
<1>3. CASE DevRegister(d)
  <2>1. held' = held \/ held' = Registered(held, d, ppd)
    BY <1>3 DEF DevRegister
  <2>2. Better(held, Registered(held, d, ppd), ~Rel /\ writing.step # 2, ~Rel)
    BY <1>0, RegisteredIs
  <2> QED BY <1>0, <1>b, <1>e, <2>1, <2>2
<1>4. CASE DevUp(d)
  <2> DEFINE h == IF WifiHooked(d) THEN mtk_ppe_dev_register_hook(held, d) ELSE held
  <2>1. Even(held, h)
    BY <1>0, RegisterHookIs
  <2>2. held' = h \/ held' = extif_set_dev(h, d)
    BY <1>4 DEF DevUp
  <2> HIDE DEF h
  <2>3. h \in HeldType
    BY <2>1 DEF Even
  <2>4. Even(h, extif_set_dev(h, d))
    BY <2>3, SetDevIs
  <2>5. Even(held, extif_set_dev(h, d))
    BY <2>1, <2>4, EvenTwice
  <2> QED BY <1>1, <2>1, <2>2, <2>5
<1>5. CASE DevDown(d)
  <2> DEFINE h == IF Heard THEN GoingDown(held, d) ELSE held
  <2>1. Even(held, h)
    BY <1>0, GoingDownIs
  <2>2. held' = h \/ held' = mtk_ppe_dev_unregister_hook(h, d)
    BY <1>5 DEF DevDown
  <2> HIDE DEF h
  <2>3. h \in HeldType
    BY <2>1 DEF Even
  <2>4. Even(h, mtk_ppe_dev_unregister_hook(h, d))
    BY <2>3, UnregisterHookIs
  <2>5. Even(held, mtk_ppe_dev_unregister_hook(h, d))
    BY <2>1, <2>4, EvenTwice
  <2> QED BY <1>1, <2>1, <2>2, <2>5
<1>6. CASE DevUnregister(d)
  <2> DEFINE u == Unregistered(held, d)
  <2>1. /\ held' = IF Heard THEN u ELSE held
        /\ ~raced' => ~(Heard /\ writing.step = 2 /\ held.ppdev = d)
    BY <1>6 DEF DevUnregister
  <2>2. CASE ~Heard
    BY <1>0, <1>e, <2>1, <2>2
  <2>3. CASE Heard
    <3>1. ~Rel
      <4>1. at["admin"].prog = "remove" => ~(at["admin"].pc > 3)
        BY <2>3 DEF Heard, HeldInv, Removed
      <4> QED BY <4>1, RelLate
    <3>2. /\ u \in HeldType
          /\ Better(held, u, TRUE, TRUE)
          /\ held.ppdev # d => Better(held, u, FALSE, TRUE)
      BY <1>0, UnregisteredIs
    <3>3. held' = u /\ (~raced' => ~(writing.step = 2 /\ held.ppdev = d))
      BY <2>1, <2>3
    <3> HIDE DEF u
    <3>4. ASSUME ~raced' PROVE Better(held, u, ~Rel /\ writing.step # 2, ~Rel)
      <4>1. CASE writing.step = 2
        <5>1. Better(held, u, FALSE, TRUE)
          BY <3>2, <3>3, <3>4, <4>1
        <5> QED BY <3>1, <4>1, <5>1 DEF Better, Spare
      <4>2. CASE writing.step # 2
        <5>1. Better(held, u, TRUE, TRUE)
          BY <3>2
        <5> QED BY <3>1, <4>2, <5>1 DEF Better, Spare
      <4> QED BY <4>1, <4>2
    <3> QED BY <1>b, <3>2, <3>3, <3>4
  <2> QED BY <2>2, <2>3
<1>7. CASE DevFree(d)
  BY <1>0, <1>e, <1>7 DEF DevFree
<1> QED BY <1>2, <1>3, <1>4, <1>5, <1>6, <1>7

(* A lookup, and the three steps of a write to hnat_ppd_if.                  *)
LEMMA HeldOnLookup ==
  ASSUME HeldInv, LazyLookup
  PROVE  HeldInv'
<1>0. held \in HeldType /\ ppd \in Devs /\ Wan \in Devs
  BY DevsAssumption DEF HeldInv
<1>1. UNCHANGED <<has, ppd, writing, at, raced>>
  BY DEF LazyLookup
<1>2. \A p, w : Better(held, held', p, w)
  <2>1. CASE held.wandev = None /\ held' = [Hold(held, Wan) EXCEPT !.wandev = Wan]
    BY <1>0, <2>1, WanPointed
  <2>2. CASE held.ppdev = None /\ held' = [Hold(held, ppd) EXCEPT !.ppdev = ppd]
    BY <1>0, <2>2, PortPointed
  <2> QED BY <2>1, <2>2 DEF LazyLookup
<1>3. PICK u : u = held'
  OBVIOUS
<1>4. Better(held, u, ~Rel /\ writing.step # 2, ~Rel)
  BY <1>2, <1>3
<1>5. held' \in HeldType
  BY <1>3, <1>4 DEF Better
<1>6. ~raced => Enough(u, Rel, writing)
  BY <1>0, <1>4, BetterEnough DEF HeldInv
<1>7. Rel' <=> Rel
  BY <1>1 DEF Rel
<1>8. ~raced => Enough(held', Rel', writing')
  BY <1>1, <1>3, <1>6, <1>7 DEF Enough
<1> QED BY <1>1, <1>5, <1>8 DEF HeldInv, WriteType, HeldType, MaybeDev

LEMMA HeldOnGet ==
  ASSUME Basic, HeldInv, NEW d \in Devs, PpdGet(d)
  PROVE  HeldInv'
<1>0. held \in HeldType /\ ppd \in Devs /\ d \in MaybeDev
  BY DEF HeldInv, MaybeDev
<1>1. /\ UNCHANGED <<has, ppd, at, raced>> /\ "debugfs" \in has
      /\ writing.step = 0 /\ writing' = [dev |-> d, step |-> 1] /\ held' = Hold(held, d)
  BY DEF PpdGet
<1>2. ~(at["admin"].prog = "remove" /\ at["admin"].pc > 11 + 5 * N) /\ ~Rel /\ (Rel' <=> Rel)
  <2>1. ~(at["admin"].prog = "remove" /\ at["admin"].pc > 11 + 5 * N)
    BY <1>1 DEF HeldInv, Removed
  <2> QED BY <1>1, <2>1, RelLate DEF Rel
<1> DEFINE u == More(held, d, 1)
           W == [dev |-> d, step |-> 1]
<1>3. /\ u \in HeldType /\ u.ppdev = held.ppdev /\ u.wandev = held.wandev
      /\ \A e \in Devs : Slack(u, e) = Slack(held, e) + (IF e = d THEN 1 ELSE 0)
      /\ held' = u
  BY <1>0, <1>1, MoreIs, HoldPut
<1> HIDE DEF u
<1>4. ASSUME ~raced PROVE Enough(u, FALSE, W)
  <2>1. ASSUME NEW e \in Devs
        PROVE  Spare(u, TRUE, TRUE, e) >= IF d = e THEN 1 ELSE 0
    <3> DEFINE x == Spare(held, TRUE, TRUE, e)
               y == Spare(u, TRUE, TRUE, e)
               n == Slack(held, e)
    <3>1. Spare(held, ~Rel /\ writing.step # 2, ~Rel, e) >= 0
      BY <1>1, <1>4 DEF HeldInv, Enough
    <3>2. Spare(held, ~Rel /\ writing.step # 2, ~Rel, e) = x
      BY <1>1, <1>2 DEF Spare
    <3>3. n \in Int
      BY <1>0, SpareType
    <3>4. y = x + (IF e = d THEN 1 ELSE 0) /\ x \in Int
      BY <1>3, <3>3 DEF Spare
    <3>5. x >= 0
      BY <3>1, <3>2
    <3> HIDE DEF x, y
    <3>6. y >= IF d = e THEN 1 ELSE 0
      BY <3>4, <3>5
    <3> QED BY <3>6 DEF y
  <2> QED BY <2>1 DEF Enough, Spare
<1>5. writing' \in WriteType /\ writing'.dev \in Devs
  BY <1>0, <1>1 DEF WriteType
<1>6. Removed(at'["admin"], has', writing')
  <2>1. at["admin"].prog = "remove" /\ at["admin"].pc > 3 => "netdev_nb" \notin has
    BY DEF HeldInv, Removed
  <2> QED BY <1>1, <1>2, <2>1 DEF Removed
<1>7. ~raced' => Enough(held', Rel', writing')
  BY <1>1, <1>2, <1>3, <1>4 DEF Enough
<1> QED BY <1>0, <1>1, <1>3, <1>5, <1>6, <1>7 DEF HeldInv, WriteType, HeldType, MaybeDev

LEMMA WriteEarly ==
  ASSUME Basic, HeldInv, writing.step # 0
  PROVE  ~Rel /\ (at["admin"].prog = "remove" => ~(at["admin"].pc > 11 + 5 * N))
<1>1. at["admin"].prog = "remove" => ~(at["admin"].pc > 11 + 5 * N)
  BY DEF HeldInv, Removed
<1> QED BY <1>1, RelLate

LEMMA HeldOnPut ==
  ASSUME Basic, HeldInv, PpdPut
  PROVE  HeldInv'
<1>0. held \in HeldType /\ ppd \in Devs /\ None \notin Devs /\ writing \in WriteType /\ writing.dev \in Devs
  BY DevsAssumption DEF HeldInv, PpdPut
<1>1. /\ UNCHANGED <<has, ppd, at, raced>>
      /\ writing.step = 1 /\ writing' = [writing EXCEPT !.step = 2]
      /\ held' = IF held.ppdev = None THEN held ELSE Put(held, held.ppdev)
  BY DEF PpdPut
<1>2. ~Rel /\ (Rel' <=> Rel) /\ Removed(at["admin"], has, writing)
  BY <1>1, WriteEarly DEF Rel, HeldInv
<1> DEFINE u == IF held.ppdev = None THEN held ELSE More(held, held.ppdev, -1)
<1>3. /\ u \in HeldType /\ u.ppdev = held.ppdev /\ u.wandev = held.wandev
      /\ \A e \in Devs : Slack(u, e) = Slack(held, e) - (IF held.ppdev = e THEN 1 ELSE 0)
      /\ held' = u
  <2>1. CASE held.ppdev = None
    BY <1>0, <1>1, <2>1, SpareType
  <2>2. CASE held.ppdev # None
    <3>1. held.ppdev \in Devs
      BY <1>0, <2>2 DEF HeldType, MaybeDev
    <3> DEFINE h == More(held, held.ppdev, -1)
    <3>2. /\ h \in HeldType /\ h.ppdev = held.ppdev /\ h.wandev = held.wandev
          /\ \A e \in Devs : Slack(h, e) = Slack(held, e) + (IF e = held.ppdev THEN -1 ELSE 0)
      BY <1>0, <3>1, MoreIs
    <3>3. held' = h /\ u = h
      BY <1>0, <1>1, <2>2, <3>1, HoldPut
    <3> HIDE DEF h, u
    <3>4. ASSUME NEW e \in Devs
          PROVE  Slack(u, e) = Slack(held, e) - (IF held.ppdev = e THEN 1 ELSE 0)
      <4>1. Slack(held, e) \in Int
        BY <1>0, SpareType
      <4> QED BY <3>2, <3>3, <4>1
    <3> QED BY <3>2, <3>3, <3>4
  <2> QED BY <2>1, <2>2
<1> HIDE DEF u
<1>4. writing'.step = 2 /\ writing'.dev = writing.dev /\ writing' \in WriteType
  BY <1>0, <1>1 DEF WriteType
<1>5. ASSUME ~raced, NEW e \in Devs
      PROVE  Spare(u, FALSE, TRUE, e) >= IF writing.dev = e THEN 1 ELSE 0
  <2> DEFINE x == Spare(held, TRUE, TRUE, e)
             y == Spare(u, FALSE, TRUE, e)
             c == IF writing.dev = e THEN 1 ELSE 0
  <2>1. Spare(held, ~Rel /\ writing.step # 2, ~Rel, e) >= c
    BY <1>1, <1>5 DEF HeldInv, Enough
  <2>2. Spare(held, ~Rel /\ writing.step # 2, ~Rel, e) = x
    BY <1>1, <1>2 DEF Spare
  <2>3. Slack(held, e) \in Int
    BY <1>0, SpareType
  <2>4. y = x
    BY <1>3, <2>3 DEF Spare
  <2> QED BY <2>1, <2>2, <2>4
<1>6. Removed(at'["admin"], has', writing')
  BY <1>1, <1>2, WriteEarly DEF Removed
<1>7. ~raced' => Enough(held', Rel', writing')
  <2>1. ASSUME ~raced PROVE Enough(u, FALSE, writing')
    BY <1>4, <1>5, <2>1 DEF Enough, Spare
  <2> QED BY <1>1, <1>2, <1>3, <2>1 DEF Enough
<1> QED BY <1>0, <1>1, <1>3, <1>4, <1>6, <1>7 DEF HeldInv, WriteType, HeldType, MaybeDev

LEMMA HeldOnStore ==
  ASSUME Basic, HeldInv, PpdStore
  PROVE  HeldInv'
<1>0. /\ held \in HeldType /\ None \in MaybeDev /\ None \notin Devs
      /\ writing.dev \in Devs /\ writing.dev \in MaybeDev
  BY DevsAssumption DEF HeldInv, PpdStore, MaybeDev
<1>1. /\ UNCHANGED <<has, at, raced>> /\ ppd' = writing.dev
      /\ writing.step = 2 /\ writing' = [dev |-> None, step |-> 0]
      /\ held' = [held EXCEPT !.ppdev = writing.dev]
  BY DEF PpdStore
<1>2. ~Rel /\ (Rel' <=> Rel) /\ Removed(at["admin"], has, writing)
  BY <1>1, WriteEarly DEF Rel, HeldInv
<1> DEFINE u == [held EXCEPT !.ppdev = writing.dev]
<1>3. /\ u \in HeldType /\ u.ppdev = writing.dev /\ u.wandev = held.wandev
      /\ \A e \in Devs : Slack(u, e) = Slack(held, e)
      /\ held' = u
  BY <1>0, <1>1, PointIs
<1> HIDE DEF u
<1>4. writing'.step = 0 /\ writing' \in WriteType
  BY <1>0, <1>1 DEF WriteType
<1>5. ASSUME ~raced, NEW e \in Devs
      PROVE  Spare(u, TRUE, TRUE, e) >= 0
  <2> DEFINE x == Spare(held, FALSE, TRUE, e)
             y == Spare(u, TRUE, TRUE, e)
             c == IF writing.dev = e THEN 1 ELSE 0
  <2>1. Spare(held, ~Rel /\ writing.step # 2, ~Rel, e) >= c
    BY <1>1, <1>5 DEF HeldInv, Enough
  <2>2. Spare(held, ~Rel /\ writing.step # 2, ~Rel, e) = x
    BY <1>1, <1>2 DEF Spare
  <2>3. Slack(held, e) \in Int
    BY <1>0, SpareType
  <2>4. y = x - c /\ x \in Int /\ c \in Int
    BY <1>3, <2>3 DEF Spare
  <2>5. x >= c
    BY <2>1, <2>2
  <2> HIDE DEF x, y, c
  <2>6. y >= 0
    BY <2>4, <2>5
  <2> QED BY <2>6 DEF y
<1>6. Removed(at'["admin"], has', writing')
  BY <1>1, <1>2, WriteEarly DEF Removed
<1>7. ~raced' => Enough(held', Rel', writing')
  <2>1. ASSUME ~raced PROVE Enough(u, FALSE, writing')
    BY <1>4, <1>5, <2>1 DEF Enough, Spare
  <2> QED BY <1>1, <1>2, <1>3, <2>1 DEF Enough
<1> QED BY <1>0, <1>1, <1>3, <1>4, <1>6, <1>7 DEF HeldInv, WriteType, HeldType, MaybeDev

(* What leaves the pointers, the references and the write alone.             *)
LEMMA HeldSame ==
  ASSUME HeldInv, UNCHANGED <<held, ppd, writing>>, raced => raced',
         Removed(at'["admin"], has', writing), Rel' <=> Rel
  PROVE  HeldInv'
<1>1. /\ held \in HeldType /\ ppd \in Devs /\ writing \in WriteType
      /\ writing.step # 0 => writing.dev \in Devs
      /\ ~raced => Enough(held, Rel, writing)
  BY DEF HeldInv
<1>2. held' = held /\ ppd' = ppd /\ writing' = writing
  OBVIOUS
<1>3. ~raced' => Enough(held', Rel', writing')
  BY <1>1, <1>2 DEF Enough
<1> QED BY <1>1, <1>2, <1>3 DEF HeldInv, WriteType, HeldType, MaybeDev

LEMMA HeldOnStart ==
  ASSUME Basic, HeldInv, NEW a \in Actors, NEW p, NEW counted, NEW max, Start(a, p, counted, max)
  PROVE  HeldInv'
<1>0. 5 * N \in Nat
  BY NType
<1>1. /\ UNCHANGED <<held, ppd, writing, has>> /\ (raced => raced')
      /\ at[a] = Idle /\ at' = [at EXCEPT ![a] = [prog |-> p, pc |-> 1]]
  BY DEF Start, devvars, Domains, Basic
<1>2. at \in [Actors -> [prog : Programs, pc : Nat]] /\ "admin" \in Actors
  BY Actor DEF Basic, AtOK
<1>3. CASE a = "admin"
  <2>1. at["admin"].prog = "none" /\ at'["admin"].pc = 1
    BY <1>1, <1>2, <1>3 DEF Idle
  <2>2. (Rel' <=> Rel) /\ Removed(at'["admin"], has', writing)
    BY <1>0, <2>1 DEF Rel, Removed
  <2> QED BY <1>1, <2>2, HeldSame
<1>4. CASE a # "admin"
  <2>1. at'["admin"] = at["admin"]
    BY <1>1, <1>2, <1>4
  <2>2. (Rel' <=> Rel) /\ Removed(at'["admin"], has', writing)
    BY <1>1, <2>1 DEF Rel, HeldInv
  <2> QED BY <1>1, <2>2, HeldSame
<1> QED BY <1>3, <1>4

LEMMA HeldOnFail ==
  ASSUME Basic, HeldInv, NEW a \in Actors, Fail(a)
  PROVE  HeldInv'
<1>1. UNCHANGED <<held, ppd, writing, has, raced>>
  BY DEF Fail, devvars
<1>2. Fails(a)
  <2>1. lost' = IF at[a].prog = "probe" /\ "ra" \in has THEN lost \cup {"hooks"} ELSE lost
    BY DEF Fail
  <2>2. /\ "timer" \in lost' <=> "timer" \in lost
        /\ "hooks" \in lost' <=> "hooks" \in lost \/ (at[a].prog = "probe" /\ "ra" \in has)
    BY <2>1
  <2> QED BY <2>2 DEF Fail, Fails, Basic, Domains, Op, Instruction, ppevars
<1>3. /\ AtOK' /\ \A b \in Actors \ {a} : at'[b] = at[b]
      /\ \/ at[a].prog = "enable" /\ at'[a] = Idle
         \/ at[a].prog = "probe" /\ at'[a].prog \in {"err_out2", "err_out1", "err_out"}
  BY <1>2, FailsAt DEF Basic
<1>4. (Rel' <=> Rel) /\ Removed(at'["admin"], has', writing)
  <2>1. CASE a = "admin"
    <3>1. at["admin"].prog # "remove" /\ at'["admin"].prog # "remove"
      BY <1>3, <2>1 DEF Idle
    <3> QED BY <3>1 DEF Rel, Removed
  <2>2. CASE a # "admin"
    <3>1. at'["admin"] = at["admin"]
      BY <1>3, <2>2, Actor
    <3> QED BY <1>1, <3>1 DEF Rel, HeldInv
  <2> QED BY <2>1, <2>2
<1> QED BY <1>1, <1>4, HeldSame

LEMMA HeldNext ==
  ASSUME Basic, HeldInv, [Next]_vars
  PROVE  HeldInv'
<1>1. CASE hnat_probe \/ hnat_remove \/ FeReset \/ \E w \in Writers : hook_toggle_write(w)
  <2>1. PICK a \in Actors : \E p, counted, max : Start(a, p, counted, max)
    BY <1>1, Actor DEF hnat_probe, hnat_remove, FeReset, hook_toggle_write
  <2> QED BY <2>1, HeldOnStart
<1>2. CASE \E a \in Actors : Step(a) \/ Fail(a)
  BY <1>2, HeldOnStep, HeldOnFail
<1>3. CASE \/ hnat_sma_build_entry \/ PacketIn \/ PacketOut
           \/ Roam \/ OtherMessage \/ RoamStart \/ RoamReceive \/ UNCHANGED vars
  <2>1. UNCHANGED <<held, ppd, writing, has, at, raced>>
    BY <1>3 DEF hnat_sma_build_entry, PacketIn, PacketOut, Roam, OtherMessage, RoamStart, RoamReceive,
                vars, devvars
  <2>2. (Rel' <=> Rel) /\ Removed(at'["admin"], has', writing)
    BY <2>1 DEF Rel, HeldInv
  <2> QED BY <2>1, <2>2, HeldSame
<1>4. CASE LazyLookup
  BY <1>4, HeldOnLookup
<1>5. CASE DevEvent
  <2>1. UNCHANGED <<has, at, ppd, writing>> /\ (raced => raced')
    BY <1>5 DEF DevEvent, DevRegister, DevUp, DevDown, DevUnregister, DevFree, Device, Basic, Domains
  <2>2. held' \in HeldType /\ (~raced' => Enough(held', Rel, writing))
    BY <1>5, <2>1, HeldOnDevice
  <2>3. (Rel' <=> Rel) /\ Removed(at'["admin"], has', writing')
    BY <2>1 DEF Rel, HeldInv
  <2>4. ~raced' => Enough(held', Rel', writing')
    BY <2>1, <2>2, <2>3 DEF Enough
  <2>5. ppd' \in Devs /\ writing' \in WriteType /\ (writing'.step # 0 => writing'.dev \in Devs)
    BY <2>1 DEF HeldInv
  <2> QED BY <2>2, <2>3, <2>4, <2>5 DEF HeldInv, WriteType, HeldType, MaybeDev
<1>6. CASE \E d \in Devs : PpdGet(d)
  BY <1>6, HeldOnGet
<1>7. CASE PpdPut
  BY <1>7, HeldOnPut
<1>8. CASE PpdStore
  BY <1>8, HeldOnStore
<1> QED BY <1>1, <1>2, <1>3, <1>4, <1>5, <1>6, <1>7, <1>8 DEF Next, DevEvent

(* A device that is pointed to is not freed: for each pointer to it there is *)
(* a reference (nf_hnat_netdevice_event, the WiFi hooks and the lookups of   *)
(* hnat_nf_hook.c, hnat_ppd_if_write of hnat_debugfs.c, hnat_hw_init and     *)
(* hnat_release_netdev of hnat.c).                                           *)
THEOREM PointersAreHeld == Spec => []PointersHeld
<1>1. Init => Basic /\ HeldInv
  BY BasicInit, HeldInit
<1>2. Basic /\ HeldInv /\ [Next]_vars => (Basic /\ HeldInv)'
  BY BasicStep, HeldNext
<1>3. Basic /\ HeldInv => PointersHeld
  BY HeldPointers
<1> QED BY <1>1, <1>2, <1>3, PTL DEF Spec
===============================================================================
