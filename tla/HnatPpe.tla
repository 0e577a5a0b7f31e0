-------------------------------- MODULE HnatPpe --------------------------------
(***************************************************************************)
(* The registers of a packet processing engine, the first or the second of *)
(* a board, and who writes them.                                           *)
(*                                                                         *)
(* Functions of mtk_hnat that configure the engine are programs of         *)
(* register accesses; CPUs run them side by side.  A field is written by   *)
(* reading its register, changing the field and writing all of it back.    *)
(* Clearing the engine's cache switches learning, the scanner and the      *)
(* cache off and puts back what it found.  Only that is done under         *)
(* cah_lock.                                                               *)
(***************************************************************************)
EXTENDS Integers, Sequences, FiniteSets

CONSTANTS
  CPUs,
  Programs,    \* what they may run, see Code
  Flows,       \* flows that share an entry
  RunMax,      \* programs started at most
  None

VARIABLES
  version,     \* data->version
  ppe_id,      \* which engine of the board this is
  reg,         \* the registers, by field
  soft,        \* what hnat_priv and the toggles say
  foe, line,   \* an entry's state in memory, and in the cache
  gdm,         \* the MACs send to the engine
  cah_lock,    \* its holder
  cpu,         \* program, next instruction, value read, values saved
  runs,        \* programs started
  mixed,       \* history: registers two programs wrote at a time, not both under cah_lock
  timedout     \* history: the cache was not cleared, as it stayed busy

vars == <<version, ppe_id, reg, soft, foe, line, gdm, cah_lock, cpu, runs, mixed, timedout>>

(* The settings hnat_hw_init takes from hnat_priv, and the toggles it does  *)
(* not look at.                                                             *)
Kept == {"threshold", "tcp", "udp", "fin", "tcp_ka", "udp_ka", "cport", "prot_3t"}

Toggles == {"mape", "xlat", "l2br", "l4s"}

ProgramNames ==
  {"clear", "delete", "dump", "timestamp", "reset", "sma", "mape", "xlat", "l2br", "l4s", "hash"}
    \cup Kept

ASSUME PpeAssumption ==
  /\ RunMax \in Nat
  /\ Programs \subseteq ProgramNames
  /\ None \notin CPUs \cup Flows \cup ProgramNames

(* Values of hnat_priv->dft_cport.  Packets may reach the second engine by  *)
(* way of the TDMA, so it is to stay on the ADMA, the value after a reset.  *)
PSE_ADMA_PORT == 0

PSE_TDMA_PORT == 1

(* What an engine's register is to say for a setting.                       *)
Wished(s) == IF s = "cport" /\ ppe_id = 1 THEN PSE_ADMA_PORT ELSE soft[s]

(* Where a setting is found in the registers.                               *)
Place ==
  [threshold |-> <<"bndr", "rate">>, tcp |-> <<"age1", "tcp">>, fin |-> <<"age1", "fin">>,
   udp |-> <<"age0", "udp">>, tcp_ka |-> <<"ka", "tcp">>, udp_ka |-> <<"ka", "udp">>,
   cport |-> <<"cport", "sp">>, prot_3t |-> <<"flow", "blist">>,
   mape |-> <<"flow", "no_dsl">>, xlat |-> <<"flow", "xlat">>, l2br |-> <<"flow", "l2br">>,
   l4s |-> <<"tb", "ecn">>]

(* After a reset.  Of the flow register, nat stands for all that lets the   *)
(* engine learn, no_dsl for BIT_IPV4_DSL_EN being 0.                        *)
Fresh ==
  [flow |-> [nat |-> 0, no_dsl |-> 1, xlat |-> 0, l2br |-> 0, blist |-> 0],
   tb |-> [scan |-> 0, sma |-> 0, ecn |-> 0, hash |-> 0, age |-> 0],
   cah |-> [en |-> 0], glo |-> [en |-> 0], bndr |-> [rate |-> 0],
   age0 |-> [udp |-> 0], age1 |-> [tcp |-> 0, fin |-> 0], ka |-> [tcp |-> 0, udp |-> 0],
   cport |-> [sp |-> 0]]

Idle == [prog |-> None, arg |-> 0, pc |-> 0, tmp |-> None, saved |-> [flow |-> None, tb |-> None, cah |-> None]]
-------------------------------------------------------------------------------
(***************************************************************************)
(* Instructions.                                                           *)
(***************************************************************************)
Instr(op, r, f, v) == [op |-> op, reg |-> r, field |-> f, val |-> v]

(* cr_set_field, cr_set_bits and cr_clr_bits: readl, then writel.           *)
Set(r, f, v) == Instr("set", r, f, v)

(* The same with the value of a setting.                                    *)
Apply(s) == Instr("apply", Place[s][1], Place[s][2], s)

Choose(s, v) == Instr("choose", "none", s, v)

Save(r) == Instr("save", r, "none", 0)

(* A field, or a whole register, as it was saved.                           *)
PutBack(r, f) == Instr("putback", r, f, 0)

Plain(op) == Instr(op, "none", "none", 0)

Write(r) == Instr("write", r, "none", 0)

(* set_gmac_ppe_fwd for the three MACs                                      *)
Forward(on) == Instr("forward", "none", "none", on)
-------------------------------------------------------------------------------
(***************************************************************************)
(* Programs.                                                               *)
(***************************************************************************)
(* __hnat_cache_clr: without nat the engine learns nothing.                 *)
ClearBody ==
  <<Save("flow"), Instr("learn", "flow", "nat", 0), Plain("idle"),
    Save("tb"), Set("tb", "scan", 0), Save("cah"), Set("cah", "en", 0),
    Plain("invalidate"), PutBack("cah", "en"), PutBack("tb", "scan"), Write("flow")>>

(* Seeded fault: the flow register is saved before the lock is taken.       *)
ClearSavedEarly ==
  <<Save("flow"), Plain("lock")>> \o Tail(ClearBody) \o <<Plain("unlock")>>

(* hnat_cache_clr                                                           *)
Clear == <<Plain("lock")>> \o ClearBody \o <<Plain("unlock")>>

(* __hnat_cache_ebl                                                         *)
CacheEnable == <<Plain("lock")>> \o ClearBody \o <<Set("cah", "en", 1), Plain("unlock")>>

CacheDisable == <<Plain("lock"), Set("cah", "en", 0), Plain("unlock")>>

(* hnat_handle_fe_irq2 and hnat_dump_cache_entry, for the entry that failed *)
(* the engine's check; the tag search and the reads change nothing.         *)
Dump ==
  <<Save("tb"), Set("tb", "scan", 0), Save("cah"), Set("cah", "en", 0),
    PutBack("cah", "en"), PutBack("tb", "scan")>>

(* Seeded fault: the entry is deleted after the cache was cleared.          *)
DeleteLast == Clear \o <<Plain("delete")>>

(* entry_delete                                                             *)
Delete == <<Plain("delete")>> \o Clear

(* hnat_mape_toggle_write, hnat_xlat_toggle_write, hnat_l2br_toggle_write   *)
Mape(v) == <<Choose("mape", v), Set("flow", "no_dsl", v)>>

Xlat(v) == <<Choose("xlat", v), Set("flow", "xlat", v)>>

L2br(v) == <<Choose("l2br", v), Set("flow", "l2br", 0), Set("flow", "l2br", v)>>

(* hnat_l4s_toggle_write                                                    *)
L4s(v) == <<Choose("l4s", v), Set("tb", "ecn", v), Forward(1)>>

(* hnat_proto_3tuple_write and hnat_hw_set_prot_3t                          *)
Prot3t(v) == <<Choose("prot_3t", v), Apply("prot_3t")>>

(* set_default_cpu_port, which takes the TDMA port for V3 only, and         *)
(* hnat_hw_set_dft_cport, whose early return is SkipWrite                   *)
CpuPort(v) == <<Choose("cport", v), Apply("cport")>>

(* binding_threshold, tcp_bind_lifetime, fin_bind_lifetime,                 *)
(* udp_bind_lifetime, tcp_keep_alive, udp_keep_alive                        *)
Setting(s, v) == <<Choose(s, v), Set(Place[s][1], Place[s][2], v)>>

(* set_hash_simple_mode                                                     *)
HashMode(v) ==
  <<Forward(0), Set("tb", "hash", v), Plain("empty")>> \o CacheEnable
    \o <<Forward(1)>>

(* hnat_disable_hook's and hnat_sma_build_entry's access                    *)
Sma(build) == <<Set("tb", "sma", build)>>

(* hnat_reset_timestamp                                                     *)
ResetTimestamp ==
  CacheDisable \o <<Set("tb", "age", 0), Set("tb", "age", 1)>> \o CacheEnable

(* Seeded fault: the default CPU port is written before the registers that  *)
(* hold it are cleared.                                                     *)
HwInitEarly ==
  <<Set("tb", "sma", 1), Set("flow", "nat", 1), Set("flow", "no_dsl", 0), Set("tb", "age", 1),
    Apply("udp"), Apply("fin"), Apply("tcp"), Set("tb", "scan", 2),
    Apply("tcp_ka"), Apply("udp_ka"), Apply("threshold"), Set("glo", "en", 1), Apply("cport"),
    Set("cport", "sp", 0)>> \o CacheEnable \o <<Apply("prot_3t")>>

(* hnat_hw_init: TB_CFG gets new hash, SMA, aging and scan fields, the flow *)
(* register the bits of all kinds of entries.                               *)
HwInit ==
  <<Set("tb", "sma", 1), Set("flow", "nat", 1), Set("flow", "no_dsl", 0), Set("tb", "age", 1),
    Apply("udp"), Apply("fin"), Apply("tcp"), Set("tb", "scan", 2),
    Apply("tcp_ka"), Apply("udp_ka"), Apply("threshold"), Set("glo", "en", 1),
    Set("cport", "sp", 0)>> \o CacheEnable \o <<Apply("cport"), Apply("prot_3t")>>

(* hnat_warm_init after MTK_FE_RESET_NAT_DONE: the reset took the registers.*)
WarmInit == <<Plain("reset"), Plain("empty")>> \o HwInit \o <<Forward(1)>>

Code(p, v) ==
  CASE p = "clear" -> Clear
    [] p = "delete" -> Delete
    [] p = "dump" -> Dump
    [] p = "timestamp" -> ResetTimestamp
    [] p = "reset" -> WarmInit
    [] p = "sma" -> Sma(v)
    [] p = "mape" -> Mape(v)
    [] p = "xlat" -> Xlat(v)
    [] p = "l2br" -> L2br(v)
    [] p = "l4s" -> L4s(v)
    [] p = "hash" -> HashMode(v)
    [] p = "prot_3t" -> Prot3t(v)
    [] p = "cport" -> CpuPort(v)
    [] OTHER -> Setting(p, v)

Program(c) == Code(cpu[c].prog, cpu[c].arg)

(* The PPE flow check interrupt and the time stamp timer are those of one   *)
(* version each, the TDMA port is that of V3.                               *)
Runs(p, v) ==
  /\ p = "dump" \/ (p = "cport" /\ v = PSE_TDMA_PORT) => version = "V3"
  /\ p = "timestamp" => version = "V1_3"

(* Arguments of a program.                                                  *)
Args(p) == IF p \in {"clear", "delete", "dump", "timestamp", "reset"} THEN {0} ELSE 0 .. 1

(* Registers a program writes, and whether it holds cah_lock then.          *)
Writes(code) ==
  {<<code[n].reg, \E k \in 1 .. n : code[k].op = "lock" /\ \A j \in k .. n : code[j].op # "unlock">> :
     n \in {k \in 1 .. Len(code) : code[k].op \in {"set", "apply", "learn", "putback", "write"}}}

Conflict(p, q) ==
  \/ "reset" \in {p, q}
  \/ \E w \in Writes(Code(p, 0)), x \in Writes(Code(q, 0)) : w[1] = x[1] /\ ~(w[2] /\ x[2])
-------------------------------------------------------------------------------
(* The registers as hnat_hw_init leaves them, with the default settings.    *)
Started ==
  [Fresh EXCEPT !.flow.nat = 1, !.flow.no_dsl = 0, !.tb.scan = 2, !.tb.sma = 1, !.tb.age = 1,
                !.cah.en = 1, !.glo.en = 1]

Init ==
  /\ version \in {"V1_3", "V3"}
  /\ ppe_id \in IF version = "V3" THEN 0 .. 1 ELSE {0}
  /\ reg = Started
  /\ soft = [s \in Kept \cup Toggles |-> 0]
  /\ foe = None /\ line = None /\ gdm = 1
  /\ cah_lock = None
  /\ cpu = [c \in CPUs |-> Idle]
  /\ runs = 0 /\ mixed = FALSE /\ timedout = FALSE

(* A reset is done under rtnl_lock, by one CPU at a time.                   *)
Start(c, p, v) ==
  /\ cpu[c].prog = None /\ runs < RunMax /\ Runs(p, v)
  /\ p = "reset" => \A d \in CPUs : cpu[d].prog # "reset"
  /\ cpu' = [cpu EXCEPT ![c] = [Idle EXCEPT !.prog = p, !.arg = v, !.pc = 1]]
  /\ runs' = runs + 1
  /\ mixed' = (mixed \/ \E d \in CPUs \ {c} : cpu[d].prog # None /\ Conflict(p, cpu[d].prog))
  /\ UNCHANGED <<version, ppe_id, reg, soft, foe, line, gdm, cah_lock, timedout>>

(* Seeded fault: a program goes on after its last instruction.              *)
NextOver(c) ==
  IF cpu[c].pc > Len(Program(c)) THEN Idle ELSE [cpu[c] EXCEPT !.pc = @ + 1, !.tmp = None]

Next1(c) ==
  IF cpu[c].pc = Len(Program(c)) THEN Idle ELSE [cpu[c] EXCEPT !.pc = @ + 1, !.tmp = None]

Advance(c) == cpu' = [cpu EXCEPT ![c] = Next1(c)]

Is(c, op) == cpu[c].prog # None /\ Program(c)[cpu[c].pc].op = op

Now(c) == Program(c)[cpu[c].pc]

(* Seeded fault: the second engine is told as the first.                    *)
SkippedNever(c) == FALSE

(* The second engine is not told of the TDMA port.                          *)
Skipped(c) ==
  Is(c, "apply") /\ Now(c).val = "cport" /\ ppe_id = 1 /\ soft["cport"] = PSE_TDMA_PORT

(* The return before cr_set_field                                           *)
SkipWrite(c) ==
  /\ Skipped(c) /\ cpu[c].tmp = None
  /\ Advance(c)
  /\ UNCHANGED <<version, ppe_id, reg, soft, foe, line, gdm, cah_lock, runs, mixed, timedout>>

(* The first half of cr_set_field                                           *)
Read(c) ==
  /\ \E op \in {"set", "apply", "putback"} : Is(c, op)
  /\ cpu[c].tmp = None /\ ~Skipped(c)
  /\ cpu' = [cpu EXCEPT ![c].tmp = reg[Now(c).reg]]
  /\ UNCHANGED <<version, ppe_id, reg, soft, foe, line, gdm, cah_lock, runs, mixed, timedout>>

NewValue(c) ==
  LET i == Now(c) IN
  CASE i.op = "set" -> i.val
    [] i.op = "apply" -> soft[i.val]
    [] OTHER -> cpu[c].saved[i.reg][i.field]

(* and the second                                                           *)
WriteField(c) ==
  /\ \E op \in {"set", "apply", "putback"} : Is(c, op)
  /\ cpu[c].tmp # None
  /\ reg' = [reg EXCEPT ![Now(c).reg] = [cpu[c].tmp EXCEPT ![Now(c).field] = NewValue(c)]]
  /\ Advance(c)
  /\ UNCHANGED <<version, ppe_id, soft, foe, line, gdm, cah_lock, runs, mixed, timedout>>

SaveRegister(c) ==
  /\ Is(c, "save")
  /\ cpu' = [cpu EXCEPT ![c] = [Next1(c) EXCEPT !.saved[Now(c).reg] = reg[Now(c).reg]]]
  /\ UNCHANGED <<version, ppe_id, reg, soft, foe, line, gdm, cah_lock, runs, mixed, timedout>>

(* writel of what was saved, with nothing but the masked bits for "learn"   *)
WriteRegister(c) ==
  /\ Is(c, "write") \/ Is(c, "learn")
  /\ LET r == Now(c).reg IN
     reg' = [reg EXCEPT ![r] = IF Is(c, "write") THEN cpu[c].saved[r]
                               ELSE [f \in DOMAIN reg[r] |->
                                       IF f = "no_dsl" THEN 1
                                       ELSE IF f = "blist" THEN cpu[c].saved[r][f] ELSE 0]]
  /\ Advance(c)
  /\ UNCHANGED <<version, ppe_id, soft, foe, line, gdm, cah_lock, runs, mixed, timedout>>

(* The engine is idle, or was busy ten times: then only the flow register   *)
(* is put back.                                                             *)
WaitIdle(c) ==
  /\ Is(c, "idle")
  /\ \/ Advance(c) /\ UNCHANGED timedout
     \/ /\ cpu' = [cpu EXCEPT ![c].pc = CHOOSE n \in @ .. Len(Program(c)) :
                     /\ Program(c)[n].op = "write"
                     /\ \A k \in @ .. n - 1 : Program(c)[k].op # "write"]
        /\ timedout' = TRUE
  /\ UNCHANGED <<version, ppe_id, reg, soft, foe, line, gdm, cah_lock, runs, mixed>>

Lock(c) ==
  /\ Is(c, "lock") /\ cah_lock = None
  /\ cah_lock' = c
  /\ Advance(c)
  /\ UNCHANGED <<version, ppe_id, reg, soft, foe, line, gdm, runs, mixed, timedout>>

Unlock(c) ==
  /\ Is(c, "unlock")
  /\ cah_lock' = None
  /\ Advance(c)
  /\ UNCHANGED <<version, ppe_id, reg, soft, foe, line, gdm, runs, mixed, timedout>>

Invalidate(c) ==
  /\ Is(c, "invalidate")
  /\ line' = None
  /\ Advance(c)
  /\ UNCHANGED <<version, ppe_id, reg, soft, foe, gdm, cah_lock, runs, mixed, timedout>>

(* __entry_delete, or memset for the whole table                            *)
Remove(c) ==
  /\ Is(c, "delete") \/ Is(c, "empty")
  /\ foe' = None
  /\ Advance(c)
  /\ UNCHANGED <<version, ppe_id, reg, soft, line, gdm, cah_lock, runs, mixed, timedout>>

ChooseSetting(c) ==
  /\ Is(c, "choose")
  /\ soft' = [soft EXCEPT ![Now(c).field] = Now(c).val]
  /\ Advance(c)
  /\ UNCHANGED <<version, ppe_id, reg, foe, line, gdm, cah_lock, runs, mixed, timedout>>

ForwardMacs(c) ==
  /\ Is(c, "forward")
  /\ gdm' = Now(c).val
  /\ Advance(c)
  /\ UNCHANGED <<version, ppe_id, reg, soft, foe, line, cah_lock, runs, mixed, timedout>>

Reset(c) ==
  /\ Is(c, "reset")
  /\ reg' = Fresh /\ gdm' = 0
  /\ Advance(c)
  /\ UNCHANGED <<version, ppe_id, soft, foe, line, cah_lock, runs, mixed, timedout>>

(* A flow is bound (hnat_foe_entry_commit).                                 *)
Bind(f) ==
  /\ foe = None
  /\ foe' = f
  /\ UNCHANGED <<version, ppe_id, reg, soft, line, gdm, cah_lock, cpu, runs, mixed, timedout>>

(* The engine loads a bound entry, or drops it.                             *)
Load ==
  /\ reg.cah.en = 1 /\ line = None /\ foe # None
  /\ line' = foe
  /\ UNCHANGED <<version, ppe_id, reg, soft, foe, gdm, cah_lock, cpu, runs, mixed, timedout>>

Evict ==
  /\ line # None
  /\ line' = None
  /\ UNCHANGED <<version, ppe_id, reg, soft, foe, gdm, cah_lock, cpu, runs, mixed, timedout>>

Step(c) ==
  \/ SkipWrite(c) \/ Read(c) \/ WriteField(c) \/ SaveRegister(c) \/ WriteRegister(c) \/ WaitIdle(c)
  \/ Lock(c) \/ Unlock(c) \/ Invalidate(c) \/ Remove(c) \/ ChooseSetting(c)
  \/ ForwardMacs(c) \/ Reset(c)

Next ==
  \/ \E c \in CPUs : Step(c) \/ \E p \in Programs : \E v \in Args(p) : Start(c, p, v)
  \/ \E f \in Flows : Bind(f)
  \/ Load \/ Evict

Spec == Init /\ [][Next]_vars
-------------------------------------------------------------------------------
TypeOK ==
  /\ version \in {"V1_3", "V3"} /\ ppe_id \in 0 .. 1
  /\ DOMAIN reg = DOMAIN Fresh /\ \A r \in DOMAIN reg : reg[r] \in [DOMAIN Fresh[r] -> 0 .. 2]
  /\ soft \in [Kept \cup Toggles -> 0 .. 1]
  /\ {foe, line} \subseteq Flows \cup {None} /\ gdm \in 0 .. 1
  /\ cah_lock \in CPUs \cup {None}
  /\ \A c \in CPUs : /\ cpu[c].prog \in Programs \cup {None} /\ cpu[c].arg \in 0 .. 1
                     /\ cpu[c].pc \in IF cpu[c].prog = None THEN {0} ELSE 1 .. Len(Program(c))
  /\ runs \in 0 .. RunMax /\ mixed \in BOOLEAN /\ timedout \in BOOLEAN

Quiet == \A c \in CPUs : cpu[c].prog = None

(* Learning, the scanner and the cache are on again when everybody is done, *)
(* however many CPUs clear the cache (lines 1034-1041 of hnat.c).           *)
EngineWorks ==
  Quiet /\ ~mixed => /\ reg.flow.nat = 1 /\ reg.tb.scan = 2 /\ reg.tb.age = 1 /\ reg.cah.en = 1
                     /\ gdm = 1

(* The registers say what hnat_priv says, also after a reset took them      *)
(* (lines 1131-1252 of hnat.c), but for the default CPU port of the second  *)
(* engine: whatever was chosen and however often the engine was started, it *)
(* is the ADMA port (lines 1088-1092), or packets would go in circles.      *)
SettingsHeld ==
  Quiet /\ ~mixed => \A s \in Kept : reg[Place[s][1]][Place[s][2]] = Wished(s)

(* The cache holds no entry that is gone, or somebody is about to drop it   *)
(* (line 804 of hnat_debugfs.c), unless the engine stayed busy.             *)
StaleDropped ==
  line \notin {None, foe} /\ ~timedout =>
    \E c \in CPUs : cpu[c].prog # None
      /\ \E n \in cpu[c].pc .. Len(Program(c)) : Program(c)[n].op = "invalidate"

(* "restore cache enable" (line 906 of hnat.c): the cache stays on whatever *)
(* else is done to the engine.                                              *)
CacheStaysEnabled == Quiet => reg.cah.en = 1

(* "mape is enabled now!" (line 2565 of hnat_debugfs.c): what the toggles   *)
(* report is how the engine is set.                                         *)
TogglesHeld ==
  Quiet /\ ~mixed => \A s \in Toggles : reg[Place[s][1]][Place[s][2]] = soft[s]
===============================================================================
