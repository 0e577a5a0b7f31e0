---------------------------- MODULE HnatPpe_proofs -----------------------------
(***************************************************************************)
(* The registers of the engine, for any number of CPUs, any of the         *)
(* programs and any number of them: what a program puts back is what       *)
(* belongs there, as the one program that owns a register at a time, by    *)
(* cah_lock or by being the only one that writes it, found it at rest.     *)
(*                                                                         *)
(* A program is a table of rows, one for each instruction; facts about     *)
(* what it does at which instruction are read off the rows.                *)
(***************************************************************************)
EXTENDS HnatPpe, TLAPS

Clearing == {"clear", "delete", "hash", "timestamp", "reset"}

Base(p) ==
  IF p = "clear" THEN 1 ELSE IF p = "delete" THEN 2 ELSE IF p = "hash" THEN 4
  ELSE IF p = "timestamp" THEN 6 ELSE 16

Length(p) ==
  CASE p = "clear" -> 13 [] p = "delete" -> 14 [] p = "dump" -> 6 [] p = "timestamp" -> 19
    [] p = "reset" -> 32 [] p = "sma" -> 1 [] p = "l2br" -> 3 [] p = "l4s" -> 3 [] p = "hash" -> 18
    [] OTHER -> 2

(* The rows of __hnat_cache_clr after n others.                             *)
BodyRow(n, k, i) ==
  \/ k = n + 1 /\ i = Save("flow")
  \/ k = n + 2 /\ i = Instr("learn", "flow", "nat", 0)
  \/ k = n + 3 /\ i = Plain("idle")
  \/ k = n + 4 /\ i = Save("tb")
  \/ k = n + 5 /\ i = Set("tb", "scan", 0)
  \/ k = n + 6 /\ i = Save("cah")
  \/ k = n + 7 /\ i = Set("cah", "en", 0)
  \/ k = n + 8 /\ i = Plain("invalidate")
  \/ k = n + 9 /\ i = PutBack("cah", "en")
  \/ k = n + 10 /\ i = PutBack("tb", "scan")
  \/ k = n + 11 /\ i = Write("flow")

ClearRow(k, i) == (k = 1 /\ i = Plain("lock")) \/ BodyRow(1, k, i) \/ (k = 13 /\ i = Plain("unlock"))

DeleteRow(k, i) ==
  \/ k = 1 /\ i = Plain("delete")
  \/ k = 2 /\ i = Plain("lock")
  \/ BodyRow(2, k, i)
  \/ k = 14 /\ i = Plain("unlock")

DumpRow(k, i) ==
  \/ k = 1 /\ i = Save("tb")
  \/ k = 2 /\ i = Set("tb", "scan", 0)
  \/ k = 3 /\ i = Save("cah")
  \/ k = 4 /\ i = Set("cah", "en", 0)
  \/ k = 5 /\ i = PutBack("cah", "en")
  \/ k = 6 /\ i = PutBack("tb", "scan")

EnableRow(n, k, i) ==
  \/ k = n + 1 /\ i = Plain("lock")
  \/ BodyRow(n + 1, k, i)
  \/ k = n + 13 /\ i = Set("cah", "en", 1)
  \/ k = n + 14 /\ i = Plain("unlock")

HashRow(v, k, i) ==
  \/ k = 1 /\ i = Forward(0)
  \/ k = 2 /\ i = Set("tb", "hash", v)
  \/ k = 3 /\ i = Plain("empty")
  \/ EnableRow(3, k, i)
  \/ k = 18 /\ i = Forward(1)

TimestampRow(k, i) ==
  \/ k = 1 /\ i = Plain("lock")
  \/ k = 2 /\ i = Set("cah", "en", 0)
  \/ k = 3 /\ i = Plain("unlock")
  \/ k = 4 /\ i = Set("tb", "age", 0)
  \/ k = 5 /\ i = Set("tb", "age", 1)
  \/ EnableRow(5, k, i)

ResetRow(k, i) ==
  \/ k = 1 /\ i = Plain("reset")
  \/ k = 2 /\ i = Plain("empty")
  \/ k = 3 /\ i = Set("tb", "sma", 1)
  \/ k = 4 /\ i = Set("flow", "nat", 1)
  \/ k = 5 /\ i = Set("flow", "no_dsl", 0)
  \/ k = 6 /\ i = Set("tb", "age", 1)
  \/ k = 7 /\ i = Apply("udp")
  \/ k = 8 /\ i = Apply("fin")
  \/ k = 9 /\ i = Apply("tcp")
  \/ k = 10 /\ i = Set("tb", "scan", 2)
  \/ k = 11 /\ i = Apply("tcp_ka")
  \/ k = 12 /\ i = Apply("udp_ka")
  \/ k = 13 /\ i = Apply("threshold")
  \/ k = 14 /\ i = Set("glo", "en", 1)
  \/ k = 15 /\ i = Set("cport", "sp", 0)
  \/ EnableRow(15, k, i)
  \/ k = 30 /\ i = Apply("cport")
  \/ k = 31 /\ i = Apply("prot_3t")
  \/ k = 32 /\ i = Forward(1)

ToggleRow(p, v, k, i) ==
  \/ k = 1 /\ i = Choose(p, v)
  \/ p = "mape" /\ k = 2 /\ i = Set("flow", "no_dsl", v)
  \/ p = "xlat" /\ k = 2 /\ i = Set("flow", "xlat", v)
  \/ p = "l2br" /\ k = 2 /\ i = Set("flow", "l2br", 0)
  \/ p = "l2br" /\ k = 3 /\ i = Set("flow", "l2br", v)
  \/ p = "l4s" /\ k = 2 /\ i = Set("tb", "ecn", v)
  \/ p = "l4s" /\ k = 3 /\ i = Forward(1)

SettingRow(p, v, k, i) ==
  \/ k = 1 /\ i = Choose(p, v)
  \/ p \in {"cport", "prot_3t"} /\ k = 2 /\ i = Apply(p)
  \/ p \notin {"cport", "prot_3t"} /\ k = 2 /\ i = Set(Place[p][1], Place[p][2], v)

(* Instruction k of program p with argument v.                              *)
Row(p, v, k, i) ==
  \/ p = "clear" /\ ClearRow(k, i)
  \/ p = "delete" /\ DeleteRow(k, i)
  \/ p = "dump" /\ DumpRow(k, i)
  \/ p = "timestamp" /\ TimestampRow(k, i)
  \/ p = "reset" /\ ResetRow(k, i)
  \/ p = "sma" /\ k = 1 /\ i = Set("tb", "sma", v)
  \/ p \in Toggles /\ ToggleRow(p, v, k, i)
  \/ p = "hash" /\ HashRow(v, k, i)
  \/ p \in Kept /\ SettingRow(p, v, k, i)

LEMMA BodyIs == Len(ClearBody) = 11 /\ \A k \in 1 .. 11 : BodyRow(0, k, ClearBody[k])
BY DEF ClearBody, BodyRow

LEMMA ClearIs == Len(Clear) = 13 /\ \A k \in 1 .. 13 : ClearRow(k, Clear[k])
BY DEF ClearBody, BodyRow, Clear, ClearRow

LEMMA DeleteIs == Len(Delete) = 14 /\ \A k \in 1 .. 14 : DeleteRow(k, Delete[k])
BY DEF ClearBody, BodyRow, Clear, Delete, DeleteRow

LEMMA DumpIs == Len(Dump) = 6 /\ \A k \in 1 .. 6 : DumpRow(k, Dump[k])
BY DEF Dump, DumpRow

LEMMA EnableIs == Len(CacheEnable) = 14 /\ \A k \in 1 .. 14 : EnableRow(0, k, CacheEnable[k])
BY DEF ClearBody, BodyRow, CacheEnable, EnableRow

LEMMA TimestampIs ==
  Len(ResetTimestamp) = 19 /\ \A k \in 1 .. 19 : TimestampRow(k, ResetTimestamp[k])
BY DEF ClearBody, BodyRow, CacheEnable, EnableRow, CacheDisable, ResetTimestamp, TimestampRow

LEMMA HashIs ==
  ASSUME NEW v PROVE Len(HashMode(v)) = 18 /\ \A k \in 1 .. 18 : HashRow(v, k, HashMode(v)[k])
BY DEF ClearBody, BodyRow, CacheEnable, EnableRow, HashMode, HashRow

LEMMA ResetIs ==
  Len(WarmInit) = 32 /\ \A k \in 1 .. 32 : ResetRow(k, WarmInit[k])
BY DEF ClearBody, BodyRow, CacheEnable, EnableRow, HwInit, WarmInit, ResetRow

LEMMA CodeIs ==
  ASSUME NEW p \in ProgramNames, NEW v
  PROVE  Len(Code(p, v)) = Length(p) /\ \A k \in 1 .. Length(p) : Row(p, v, k, Code(p, v)[k])
<1>1. CASE p = "clear"
  BY <1>1, ClearIs DEF Code, Length, Row
<1>2. CASE p = "delete"
  BY <1>2, DeleteIs DEF Code, Length, Row
<1>3. CASE p = "dump"
  BY <1>3, DumpIs DEF Code, Length, Row
<1>4. CASE p = "timestamp"
  BY <1>4, TimestampIs DEF Code, Length, Row
<1>5. CASE p = "reset"
  BY <1>5, ResetIs DEF Code, Length, Row
<1>6. CASE p = "hash"
  BY <1>6, HashIs DEF Code, Length, Row
<1>7. CASE p = "sma"
  BY <1>7 DEF Code, Length, Row, Sma
<1>8. CASE p \in {"mape", "xlat"}
  BY <1>8 DEF Code, Length, Row, Toggles, Mape, Xlat, ToggleRow
<1>9. CASE p \in {"l2br", "l4s"}
  BY <1>9 DEF Code, Length, Row, Toggles, L2br, L4s, ToggleRow
<1>10. CASE p \in {"cport", "prot_3t"}
  BY <1>10 DEF Code, Length, Row, Kept, CpuPort, Prot3t, SettingRow
<1>11. CASE p \in Kept \ {"cport", "prot_3t"}
  BY <1>11 DEF Code, Length, Row, Kept, Setting, SettingRow
<1> QED BY <1>1, <1>2, <1>3, <1>4, <1>5, <1>6, <1>7, <1>8, <1>9, <1>10, <1>11 DEF ProgramNames
-------------------------------------------------------------------------------
(***************************************************************************)
(* Where a program can be, and what it holds there.                        *)
(***************************************************************************)
Registers == DOMAIN Fresh

RegType(r) == [DOMAIN Fresh[r] -> 0 .. 2]

SavedType ==
  [flow : RegType("flow") \cup {None}, tb : RegType("tb") \cup {None}, cah : RegType("cah") \cup {None}]

CpuType ==
  [prog : ProgramNames \cup {None}, arg : 0 .. 1, pc : 0 .. 32,
   tmp : (UNION {RegType(r) : r \in Registers}) \cup {None}, saved : SavedType]

Running(c) == cpu[c].prog # None

(* Whether CPU c is past instruction a and not past b of __hnat_cache_clr.  *)
InBody(c, a, b) ==
  /\ cpu[c].prog \in Clearing
  /\ cpu[c].pc \in Base(cpu[c].prog) + a .. Base(cpu[c].prog) + b

InDump(c, a, b) == cpu[c].prog = "dump" /\ cpu[c].pc \in a .. b

Fields == {"set", "apply", "putback"}

CpuOK(c) ==
  /\ Running(c) => cpu[c].pc \in 1 .. Length(cpu[c].prog)
  /\ ~Running(c) => cpu[c].pc = 0
  /\ cpu[c].tmp # None =>
       Running(c) /\ Now(c).op \in Fields /\ cpu[c].tmp \in RegType(Now(c).reg)
  /\ InBody(c, 2, 11) => cpu[c].saved.flow \in RegType("flow")
  /\ InBody(c, 5, 10) \/ InDump(c, 2, 6) => cpu[c].saved.tb \in RegType("tb")
  /\ InBody(c, 7, 9) \/ InDump(c, 4, 5) => cpu[c].saved.cah \in RegType("cah")

RegsOK == DOMAIN reg = Registers /\ \A r \in Registers : reg[r] \in RegType(r)

Typed ==
  /\ version \in {"V1_3", "V3"} /\ ppe_id \in 0 .. 1
  /\ RegsOK
  /\ soft \in [Kept \cup Toggles -> 0 .. 1]
  /\ {foe, line} \subseteq Flows \cup {None} /\ gdm \in 0 .. 1
  /\ cah_lock \in CPUs \cup {None}
  /\ cpu \in [CPUs -> CpuType]
  /\ \A c \in CPUs : CpuOK(c) /\ cpu[c].prog \in Programs \cup {None}
  /\ runs \in 0 .. RunMax /\ mixed \in BOOLEAN /\ timedout \in BOOLEAN

LEMMA FreshIs ==
  /\ Registers = {"flow", "tb", "cah", "glo", "bndr", "age0", "age1", "ka", "cport"}
  /\ DOMAIN Fresh["flow"] = {"nat", "no_dsl", "xlat", "l2br", "blist"}
  /\ DOMAIN Fresh["tb"] = {"scan", "sma", "ecn", "hash", "age"}
  /\ DOMAIN Fresh["cah"] = {"en"}
  /\ DOMAIN Fresh["glo"] = {"en"}
  /\ DOMAIN Fresh["bndr"] = {"rate"}
  /\ DOMAIN Fresh["age0"] = {"udp"}
  /\ DOMAIN Fresh["age1"] = {"tcp", "fin"}
  /\ DOMAIN Fresh["ka"] = {"tcp", "udp"}
  /\ DOMAIN Fresh["cport"] = {"sp"}
BY DEF Registers, Fresh

LEMMA NoneIs == None \notin ProgramNames /\ None \notin CPUs /\ None \notin Flows
BY PpeAssumption

LEMMA CodeNow ==
  ASSUME Typed, NEW c \in CPUs, Running(c)
  PROVE  /\ cpu[c].prog \in ProgramNames /\ Program(c) = Code(cpu[c].prog, cpu[c].arg)
         /\ Len(Program(c)) = Length(cpu[c].prog)
         /\ cpu[c].pc \in 1 .. Length(cpu[c].prog) /\ cpu[c].pc \in 1 .. 32
         /\ Row(cpu[c].prog, cpu[c].arg, cpu[c].pc, Now(c))
<1>1. cpu[c] \in CpuType /\ CpuOK(c)
  BY DEF Typed
<1>2. cpu[c].prog \in ProgramNames /\ cpu[c].arg \in 0 .. 1 /\ cpu[c].pc \in 1 .. Length(cpu[c].prog)
  BY <1>1 DEF CpuType, CpuOK, Running
<1>3. Program(c) = Code(cpu[c].prog, cpu[c].arg)
  BY DEF Program
<1>4. Len(Code(cpu[c].prog, cpu[c].arg)) = Length(cpu[c].prog)
      /\ \A k \in 1 .. Length(cpu[c].prog) : Row(cpu[c].prog, cpu[c].arg, k, Code(cpu[c].prog, cpu[c].arg)[k])
  BY <1>2, CodeIs
<1>5. Length(cpu[c].prog) \in 1 .. 32
  BY <1>2 DEF Length, ProgramNames
<1>6. cpu[c].pc \in 1 .. 32
  BY <1>2, <1>5
<1>7. Row(cpu[c].prog, cpu[c].arg, cpu[c].pc, Now(c))
  BY <1>2, <1>3, <1>4 DEF Now
<1> QED BY <1>2, <1>3, <1>4, <1>6, <1>7

(* The instructions that are not the change of a field, and those only the  *)
(* clearing of the cache has.                                               *)
LEMMA RowOps ==
  ASSUME NEW p \in ProgramNames, NEW v \in 0 .. 1, NEW k \in 1 .. Length(p), NEW i, Row(p, v, k, i)
  PROVE  /\ i.op = "write" <=> p \in Clearing /\ k = Base(p) + 11
         /\ i.op = "learn" <=> p \in Clearing /\ k = Base(p) + 2
         /\ i.op = "idle" <=> p \in Clearing /\ k = Base(p) + 3
         /\ i.op = "invalidate" <=> p \in Clearing /\ k = Base(p) + 8
         /\ i.op \in {"write", "learn"} => i.reg = "flow"
<1> USE DEF ClearRow, DeleteRow, DumpRow, TimestampRow, ResetRow, HashRow, ToggleRow, SettingRow,
        EnableRow, BodyRow, Instr, Set, Apply, Choose, Save, PutBack, Plain, Write, Forward, Clearing, Base
<1>1. CASE p = "clear" BY <1>1 DEF Row, Toggles, Kept
<1>2. CASE p = "delete" BY <1>2 DEF Row, Toggles, Kept
<1>3. CASE p = "dump" BY <1>3 DEF Row, Toggles, Kept
<1>4. CASE p = "timestamp" BY <1>4 DEF Row, Toggles, Kept
<1>5. CASE p = "reset" BY <1>5 DEF Row, Toggles, Kept
<1>6. CASE p = "hash" BY <1>6 DEF Row, Toggles, Kept
<1>7. CASE p = "sma" BY <1>7 DEF Row, Toggles, Kept
<1>8. CASE p \in Toggles BY <1>8 DEF Row, Toggles, Kept
<1>9. CASE p \in Kept BY <1>9 DEF Row, Toggles, Kept
<1> QED BY <1>1, <1>2, <1>3, <1>4, <1>5, <1>6, <1>7, <1>8, <1>9 DEF ProgramNames, Toggles

LEMMA RowSaves ==
  ASSUME NEW p \in ProgramNames, NEW v \in 0 .. 1, NEW k \in 1 .. Length(p), NEW i, Row(p, v, k, i)
  PROVE  /\ i.op = "save" => i.reg \in {"flow", "tb", "cah"}
         /\ i.op = "save" /\ i.reg = "flow" <=> p \in Clearing /\ k = Base(p) + 1
         /\ i.op = "save" /\ i.reg = "tb" <=>
              (p \in Clearing /\ k = Base(p) + 4) \/ (p = "dump" /\ k = 1)
         /\ i.op = "save" /\ i.reg = "cah" <=>
              (p \in Clearing /\ k = Base(p) + 6) \/ (p = "dump" /\ k = 3)
         /\ i.op = "save" => k < Length(p)
         /\ i.op = "putback" =>
              \/ /\ i.reg = "cah" /\ i.field = "en"
                 /\ (p \in Clearing /\ k = Base(p) + 9) \/ (p = "dump" /\ k = 5)
              \/ /\ i.reg = "tb" /\ i.field = "scan"
                 /\ (p \in Clearing /\ k = Base(p) + 10) \/ (p = "dump" /\ k = 6)
<1> USE DEF ClearRow, DeleteRow, DumpRow, TimestampRow, ResetRow, HashRow, ToggleRow, SettingRow,
        EnableRow, BodyRow, Instr, Set, Apply, Choose, Save, PutBack, Plain, Write, Forward, Clearing, Base, Length
<1>1. CASE p = "clear" BY <1>1 DEF Row, Toggles, Kept
<1>2. CASE p = "delete" BY <1>2 DEF Row, Toggles, Kept
<1>3. CASE p = "dump" BY <1>3 DEF Row, Toggles, Kept
<1>4. CASE p = "timestamp" BY <1>4 DEF Row, Toggles, Kept
<1>5. CASE p = "reset" BY <1>5 DEF Row, Toggles, Kept
<1>6. CASE p = "hash" BY <1>6 DEF Row, Toggles, Kept
<1>7. CASE p = "sma" BY <1>7 DEF Row, Toggles, Kept
<1>8. CASE p \in Toggles BY <1>8 DEF Row, Toggles, Kept
<1>9. CASE p \in Kept BY <1>9 DEF Row, Toggles, Kept
<1> QED BY <1>1, <1>2, <1>3, <1>4, <1>5, <1>6, <1>7, <1>8, <1>9 DEF ProgramNames, Toggles

LEMMA RowRemoves ==
  ASSUME NEW p \in ProgramNames, NEW v \in 0 .. 1, NEW k \in 1 .. Length(p), NEW i, Row(p, v, k, i),
         i.op \in {"delete", "empty"}
  PROVE  p \in Clearing /\ k <= Base(p) /\ k < Length(p)
<1> USE DEF ClearRow, DeleteRow, DumpRow, TimestampRow, ResetRow, HashRow, ToggleRow, SettingRow,
        EnableRow, BodyRow, Instr, Set, Apply, Choose, Save, PutBack, Plain, Write, Forward, Clearing, Base, Length
<1>1. CASE p = "clear" BY <1>1 DEF Row, Toggles, Kept
<1>2. CASE p = "delete" BY <1>2 DEF Row, Toggles, Kept
<1>3. CASE p = "dump" BY <1>3 DEF Row, Toggles, Kept
<1>4. CASE p = "timestamp" BY <1>4 DEF Row, Toggles, Kept
<1>5. CASE p = "reset" BY <1>5 DEF Row, Toggles, Kept
<1>6. CASE p = "hash" BY <1>6 DEF Row, Toggles, Kept
<1>7. CASE p = "sma" BY <1>7 DEF Row, Toggles, Kept
<1>8. CASE p \in Toggles BY <1>8 DEF Row, Toggles, Kept
<1>9. CASE p \in Kept BY <1>9 DEF Row, Toggles, Kept
<1> QED BY <1>1, <1>2, <1>3, <1>4, <1>5, <1>6, <1>7, <1>8, <1>9 DEF ProgramNames, Toggles

LEMMA RowFields ==
  ASSUME NEW p \in ProgramNames, NEW v \in 0 .. 1, NEW k \in 1 .. Length(p), NEW i, Row(p, v, k, i)
  PROVE  /\ i.op \in Fields => i.reg \in Registers /\ i.field \in DOMAIN Fresh[i.reg]
         /\ i.op = "set" => i.val \in 0 .. 2
         /\ i.op = "apply" => i.val \in Kept
         /\ i.op = "forward" => i.val \in 0 .. 1
         /\ i.op = "choose" => k = 1 /\ i.field = p /\ i.val = v /\ p \in Kept \cup Toggles
         /\ i.op = "reset" <=> p = "reset" /\ k = 1
<1> USE DEF ClearRow, DeleteRow, DumpRow, TimestampRow, ResetRow, HashRow, ToggleRow, SettingRow,
        EnableRow, BodyRow, Instr, Set, Apply, Choose, Save, PutBack, Plain, Write, Forward, Clearing, Base, Fields, Place
<1>1. CASE p = "clear" BY <1>1, FreshIs DEF Row, Toggles, Kept
<1>2. CASE p = "delete" BY <1>2, FreshIs DEF Row, Toggles, Kept
<1>3. CASE p = "dump" BY <1>3, FreshIs DEF Row, Toggles, Kept
<1>4. CASE p = "timestamp" BY <1>4, FreshIs DEF Row, Toggles, Kept
<1>5. CASE p = "reset" BY <1>5, FreshIs DEF Row, Toggles, Kept
<1>6. CASE p = "hash" BY <1>6, FreshIs DEF Row, Toggles, Kept
<1>7. CASE p = "sma" BY <1>7, FreshIs DEF Row, Toggles, Kept
<1>8. CASE p \in Toggles BY <1>8, FreshIs DEF Row, Toggles, Kept
<1>9. CASE p \in Kept BY <1>9, FreshIs DEF Row, Toggles, Kept
<1> QED BY <1>1, <1>2, <1>3, <1>4, <1>5, <1>6, <1>7, <1>8, <1>9 DEF ProgramNames, Toggles

-------------------------------------------------------------------------------
(***************************************************************************)
(* What a step does to the CPU that takes it.                              *)
(***************************************************************************)
Going(c) ==
  /\ cpu[c].pc < Length(cpu[c].prog)
  /\ cpu'[c].prog = cpu[c].prog /\ cpu'[c].arg = cpu[c].arg
  /\ cpu'[c].pc = cpu[c].pc + 1 /\ cpu'[c].tmp = None

Ending(c) == cpu[c].pc = Length(cpu[c].prog) /\ cpu'[c] = Idle

Moving(c) == (Going(c) /\ cpu'[c].saved = cpu[c].saved) \/ Ending(c)

Saving(c) ==
  Going(c) /\ cpu'[c].saved = [cpu[c].saved EXCEPT ![Now(c).reg] = reg[Now(c).reg]]

Reading(c) ==
  /\ cpu'[c].prog = cpu[c].prog /\ cpu'[c].arg = cpu[c].arg /\ cpu'[c].pc = cpu[c].pc
  /\ cpu'[c].tmp = reg[Now(c).reg] /\ cpu'[c].saved = cpu[c].saved

(* The engine stayed busy.                                                  *)
Jumping(c) ==
  /\ cpu'[c].prog = cpu[c].prog /\ cpu'[c].arg = cpu[c].arg
  /\ cpu'[c].pc = Base(cpu[c].prog) + 11
  /\ cpu'[c].tmp = cpu[c].tmp /\ cpu'[c].saved = cpu[c].saved

LEMMA NextIs ==
  ASSUME Typed, NEW c \in CPUs, Running(c)
  PROVE  /\ cpu[c].pc = Length(cpu[c].prog) => Next1(c) = Idle
         /\ cpu[c].pc # Length(cpu[c].prog) =>
              Next1(c) = [prog |-> cpu[c].prog, arg |-> cpu[c].arg, pc |-> cpu[c].pc + 1,
                          tmp |-> None, saved |-> cpu[c].saved]
<1>1. cpu[c] \in CpuType /\ Len(Program(c)) = Length(cpu[c].prog)
  BY CodeNow DEF Typed
<1>2. cpu[c] = [prog |-> cpu[c].prog, arg |-> cpu[c].arg, pc |-> cpu[c].pc, tmp |-> cpu[c].tmp,
                saved |-> cpu[c].saved]
  BY <1>1 DEF CpuType
<1> QED BY <1>1, <1>2 DEF Next1

LEMMA Typically ==
  ASSUME NEW p \in ProgramNames \cup {None}, NEW a \in 0 .. 1, NEW k \in 0 .. 32, NEW s \in SavedType
  PROVE  [prog |-> p, arg |-> a, pc |-> k, tmp |-> None, saved |-> s] \in CpuType
<1> DEFINE T == (UNION {RegType(r) : r \in Registers}) \cup {None}
<1>1. None \in T
  OBVIOUS
<1> HIDE DEF T
<1>2. CpuType = [prog : ProgramNames \cup {None}, arg : 0 .. 1, pc : 0 .. 32, tmp : T, saved : SavedType]
  BY DEF CpuType, T
<1> QED BY <1>1, <1>2

LEMMA IdleIs ==
  /\ Idle \in CpuType /\ Idle.prog = None /\ Idle.pc = 0 /\ Idle.tmp = None
<1>1. [flow |-> None, tb |-> None, cah |-> None] \in SavedType
  BY DEF SavedType
<1> HIDE DEF SavedType
<1>2. None \in ProgramNames \cup {None} /\ 0 \in 0 .. 1 /\ 0 \in 0 .. 32
  OBVIOUS
<1>3. Idle \in CpuType
  BY <1>1, <1>2, Typically DEF Idle
<1> QED BY <1>3 DEF Idle

(* Advance, and what happens with the value of a register in it.            *)
LEMMA AdvanceIs ==
  ASSUME Typed, NEW c \in CPUs, Running(c), Advance(c)
  PROVE  Moving(c) /\ cpu' \in [CPUs -> CpuType] /\ \A d \in CPUs \ {c} : cpu'[d] = cpu[d]
<1>1. cpu \in [CPUs -> CpuType] /\ cpu' = [cpu EXCEPT ![c] = Next1(c)] /\ cpu[c] \in CpuType
  BY DEF Advance, Typed
<1>2. cpu'[c] = Next1(c) /\ \A d \in CPUs \ {c} : cpu'[d] = cpu[d]
  BY <1>1
<1>3. cpu[c].pc \in 1 .. Length(cpu[c].prog) /\ cpu[c].pc \in 1 .. 32 /\ cpu[c].prog \in ProgramNames
  BY CodeNow
<1>31. Length(cpu[c].prog) \in 1 .. 32
  BY <1>3 DEF Length, ProgramNames
<1>4. CASE cpu[c].pc = Length(cpu[c].prog)
  <2>1. Next1(c) = Idle
    BY <1>4, NextIs
  <2> QED BY <1>1, <1>2, <1>4, <2>1, IdleIs DEF Moving, Ending
<1>5. CASE cpu[c].pc # Length(cpu[c].prog)
  <2>1. cpu'[c] = [prog |-> cpu[c].prog, arg |-> cpu[c].arg, pc |-> cpu[c].pc + 1,
                   tmp |-> None, saved |-> cpu[c].saved]
    BY <1>2, <1>5, NextIs
  <2>2. cpu[c].pc < Length(cpu[c].prog) /\ cpu[c].pc + 1 \in 0 .. 32
    BY <1>3, <1>31, <1>5
  <2>3. Moving(c)
    BY <2>1, <2>2 DEF Moving, Going
  <2>31. cpu[c].arg \in 0 .. 1 /\ cpu[c].saved \in SavedType
    BY <1>1 DEF CpuType
  <2>4. cpu'[c] \in CpuType
    BY <1>3, <2>1, <2>2, <2>31, Typically
  <2> QED BY <1>1, <1>2, <2>3, <2>4
<1> QED BY <1>4, <1>5

LEMMA SaveIs ==
  ASSUME Typed, NEW c \in CPUs, SaveRegister(c)
  PROVE  Running(c) /\ Saving(c) /\ cpu' \in [CPUs -> CpuType] /\ \A d \in CPUs \ {c} : cpu'[d] = cpu[d]
<1>1. Running(c) /\ Now(c).op = "save"
  BY DEF SaveRegister, Is, Running, Now
<1>2. /\ cpu[c].prog \in ProgramNames /\ cpu[c].pc \in 1 .. Length(cpu[c].prog) /\ cpu[c].pc \in 1 .. 32
      /\ Row(cpu[c].prog, cpu[c].arg, cpu[c].pc, Now(c))
  BY <1>1, CodeNow
<1>3. cpu \in [CPUs -> CpuType] /\ cpu[c] \in CpuType /\ cpu[c].arg \in 0 .. 1
  BY DEF Typed, CpuType
<1>4. Now(c).reg \in {"flow", "tb", "cah"} /\ cpu[c].pc < Length(cpu[c].prog)
  BY <1>1, <1>2, <1>3, RowSaves
<1>5. Length(cpu[c].prog) \in 1 .. 32
  BY <1>2 DEF Length, ProgramNames
<1> DEFINE r == Now(c).reg
           s == [cpu[c].saved EXCEPT ![r] = reg[r]]
<1>6. Next1(c) = [prog |-> cpu[c].prog, arg |-> cpu[c].arg, pc |-> cpu[c].pc + 1,
                  tmp |-> None, saved |-> cpu[c].saved]
  BY <1>1, <1>2, <1>4, <1>5, NextIs
<1>7. cpu' = [cpu EXCEPT ![c] = [Next1(c) EXCEPT !.saved[r] = reg[r]]]
  BY DEF SaveRegister
<1>8. [Next1(c) EXCEPT !.saved[r] = reg[r]] =
        [prog |-> cpu[c].prog, arg |-> cpu[c].arg, pc |-> cpu[c].pc + 1, tmp |-> None, saved |-> s]
  BY <1>6
<1>9. reg[r] \in RegType(r)
  BY <1>4, FreshIs DEF Typed, RegsOK
<1>10. cpu[c].saved \in SavedType /\ cpu[c].prog \in ProgramNames
  BY <1>2, <1>3 DEF CpuType
<1>11. s \in SavedType
  BY <1>4, <1>9, <1>10 DEF SavedType
<1> HIDE DEF s
<1>12. cpu'[c] = [prog |-> cpu[c].prog, arg |-> cpu[c].arg, pc |-> cpu[c].pc + 1, tmp |-> None, saved |-> s]
       /\ \A d \in CPUs \ {c} : cpu'[d] = cpu[d]
  BY <1>3, <1>7, <1>8
<1>13. cpu[c].pc + 1 \in 0 .. 32
  BY <1>2, <1>4, <1>5
<1>14. cpu'[c] \in CpuType
  <2>1. [prog |-> cpu[c].prog, arg |-> cpu[c].arg, pc |-> cpu[c].pc + 1, tmp |-> None, saved |-> s] \in CpuType
    BY <1>3, <1>10, <1>11, <1>13, Typically
  <2> QED BY <1>12, <2>1
<1>15. cpu' \in [CPUs -> CpuType]
  BY <1>3, <1>7, <1>12, <1>14
<1>16. Saving(c)
  BY <1>4, <1>12 DEF Saving, Going, s
<1> QED BY <1>1, <1>12, <1>15, <1>16

LEMMA ReadIs ==
  ASSUME Typed, NEW c \in CPUs, Read(c)
  PROVE  /\ Running(c) /\ Reading(c) /\ cpu' \in [CPUs -> CpuType] /\ \A d \in CPUs \ {c} : cpu'[d] = cpu[d]
         /\ Now(c).op \in Fields
<1>1. Running(c) /\ Now(c).op \in Fields
  BY DEF Read, Is, Running, Now, Fields
<1>2. cpu[c].prog \in ProgramNames /\ cpu[c].pc \in 1 .. Length(cpu[c].prog)
      /\ Row(cpu[c].prog, cpu[c].arg, cpu[c].pc, Now(c))
  BY <1>1, CodeNow
<1>3. cpu \in [CPUs -> CpuType] /\ cpu[c] \in CpuType /\ cpu[c].arg \in 0 .. 1
  BY DEF Typed, CpuType
<1>4. Now(c).reg \in Registers
  BY <1>1, <1>2, <1>3, RowFields
<1>5. reg[Now(c).reg] \in RegType(Now(c).reg)
  BY <1>4 DEF Typed, RegsOK
<1>6. cpu' = [cpu EXCEPT ![c] = [cpu[c] EXCEPT !.tmp = reg[Now(c).reg]]]
  BY DEF Read
<1> DEFINE x == [cpu[c] EXCEPT !.tmp = reg[Now(c).reg]]
<1>7. x \in CpuType
  BY <1>3, <1>4, <1>5 DEF CpuType
<1>8. /\ x.prog = cpu[c].prog /\ x.arg = cpu[c].arg /\ x.pc = cpu[c].pc
      /\ x.tmp = reg[Now(c).reg] /\ x.saved = cpu[c].saved
  BY <1>3 DEF CpuType
<1> HIDE DEF x
<1>9. cpu' = [cpu EXCEPT ![c] = x]
  BY <1>6 DEF x
<1>10. cpu'[c] = x /\ cpu' \in [CPUs -> CpuType] /\ \A d \in CPUs \ {c} : cpu'[d] = cpu[d]
  BY <1>3, <1>7, <1>9
<1> QED BY <1>1, <1>8, <1>10 DEF Reading

LEMMA IdleWaitIs ==
  ASSUME Typed, NEW c \in CPUs, WaitIdle(c)
  PROVE  /\ Running(c) /\ cpu' \in [CPUs -> CpuType] /\ \A d \in CPUs \ {c} : cpu'[d] = cpu[d]
         /\ InBody(c, 3, 3) /\ Now(c).op = "idle"
         /\ (Moving(c) /\ UNCHANGED timedout) \/ (Jumping(c) /\ timedout')
<1>1. Running(c) /\ Now(c).op = "idle"
  BY DEF WaitIdle, Is, Running, Now
<1>2. /\ cpu[c].prog \in ProgramNames /\ cpu[c].pc \in 1 .. Length(cpu[c].prog)
      /\ Row(cpu[c].prog, cpu[c].arg, cpu[c].pc, Now(c))
      /\ Program(c) = Code(cpu[c].prog, cpu[c].arg) /\ Len(Program(c)) = Length(cpu[c].prog)
  BY <1>1, CodeNow
<1>3. cpu \in [CPUs -> CpuType] /\ cpu[c] \in CpuType /\ cpu[c].arg \in 0 .. 1
  BY DEF Typed, CpuType
<1> DEFINE p == cpu[c].prog
           k == cpu[c].pc
<1>4. p \in Clearing /\ k = Base(p) + 3
  BY <1>1, <1>2, <1>3, RowOps
<1>5. Base(p) + 11 \in k .. Length(p) /\ Base(p) \in 1 .. 16 /\ Length(p) \in 1 .. 32
  BY <1>4 DEF Clearing, Base, Length
<1>6. \A n \in 1 .. Length(p) : Program(c)[n].op = "write" <=> n = Base(p) + 11
  <2> TAKE n \in 1 .. Length(p)
  <2>1. Row(p, cpu[c].arg, n, Program(c)[n])
    BY <1>2, CodeIs
  <2> QED BY <1>2, <1>3, <1>4, <2>1, RowOps
<1> DEFINE Q(n) == Program(c)[n].op = "write" /\ \A j \in k .. n - 1 : Program(c)[j].op # "write"
<1>7. (CHOOSE n \in k .. Len(Program(c)) : Q(n)) = Base(p) + 11
  <2> DEFINE e == Base(p) + 11
  <2>0. e \in 1 .. Length(p) /\ e \in Int
    BY <1>2, <1>5
  <2>00. \A j \in k .. e - 1 : j \in 1 .. Length(p) /\ j # e
    <3> SUFFICES ASSUME NEW j \in k .. e - 1 PROVE j \in 1 .. Length(p) /\ j # e
      OBVIOUS
    <3>1. k \in Int /\ 1 <= k
      BY <1>2
    <3> HIDE DEF p, k, e
    <3>2. Length(p) \in Int
      BY <1>5
    <3> QED BY <2>0, <3>1, <3>2
  <2>01. Program(c)[e].op = "write" /\ \A j \in k .. e - 1 : Program(c)[j].op # "write"
    <3> HIDE DEF e
    <3>1. \A n \in 1 .. Length(p) : Program(c)[n].op = "write" <=> n = e
      BY <1>6 DEF e
    <3> QED BY <2>0, <2>00, <3>1
  <2>1. Q(Base(p) + 11)
    BY <2>01
  <2>2. \A n \in k .. Len(Program(c)) : Q(n) => n = Base(p) + 11
    BY <1>2, <1>6
  <2>3. Base(p) + 11 \in k .. Len(Program(c))
    BY <1>2, <1>5
  <2> HIDE DEF Q
  <2> QED BY <2>1, <2>2, <2>3
<1>8. CASE Advance(c) /\ UNCHANGED timedout
  BY <1>1, <1>4, <1>8, AdvanceIs DEF InBody
<1>9. CASE /\ cpu' = [cpu EXCEPT ![c].pc = CHOOSE n \in k .. Len(Program(c)) : Q(n)]
           /\ timedout'
  <2>1. cpu' = [cpu EXCEPT ![c] = [cpu[c] EXCEPT !.pc = Base(p) + 11]]
    BY <1>7, <1>9
  <2> DEFINE x == [cpu[c] EXCEPT !.pc = Base(p) + 11]
  <2>2. Base(p) + 11 \in 0 .. 32
    BY <1>5
  <2>3. x \in CpuType /\ x.prog = p /\ x.arg = cpu[c].arg /\ x.pc = Base(p) + 11
        /\ x.tmp = cpu[c].tmp /\ x.saved = cpu[c].saved
    BY <1>3, <2>2 DEF CpuType
  <2> HIDE DEF x
  <2>4. cpu' = [cpu EXCEPT ![c] = x]
    BY <2>1 DEF x
  <2>5. cpu'[c] = x /\ cpu' \in [CPUs -> CpuType] /\ \A d \in CPUs \ {c} : cpu'[d] = cpu[d]
    BY <1>3, <2>3, <2>4
  <2>6. Jumping(c)
    BY <2>3, <2>5 DEF Jumping
  <2> QED BY <1>1, <1>4, <1>9, <2>5, <2>6 DEF InBody
<1> QED BY <1>8, <1>9 DEF WaitIdle
LEMMA Bases == \A p : Base(p) \in 1 .. 16
BY DEF Base

(* The CPU that steps stays where a program can be, with what it saved.     *)
LEMMA CpuStays ==
  ASSUME Typed, NEW c \in CPUs, Running(c), cpu'[c] \in CpuType,
         \/ Reading(c) /\ Now(c).op \in Fields
         \/ Moving(c) /\ Now(c).op # "save"
         \/ Saving(c) /\ Now(c).op = "save"
         \/ Jumping(c) /\ InBody(c, 3, 3) /\ Now(c).op = "idle"
  PROVE  CpuOK(c)' /\ cpu'[c].prog \in {cpu[c].prog, None}
<1> DEFINE p == cpu[c].prog
           k == cpu[c].pc
           i == Now(c)
<1>1. /\ p \in ProgramNames /\ k \in 1 .. Length(p) /\ k \in 1 .. 32 /\ Row(p, cpu[c].arg, k, i)
      /\ cpu[c].arg \in 0 .. 1
  BY CodeNow DEF Typed, CpuType
<1>2. CpuOK(c) /\ cpu[c] \in CpuType
  BY DEF Typed
<1>3. Base(p) \in 1 .. 16 /\ Length(p) \in 1 .. 32
  BY <1>1, Bases DEF Length, ProgramNames
<1>4. i.op \in Fields => i.reg \in Registers
  BY <1>1, RowFields
<1>5. /\ i.op = "save" => i.reg \in {"flow", "tb", "cah"}
      /\ i.op = "save" /\ i.reg = "flow" <=> p \in Clearing /\ k = Base(p) + 1
      /\ i.op = "save" /\ i.reg = "tb" <=>
           (p \in Clearing /\ k = Base(p) + 4) \/ (p = "dump" /\ k = 1)
      /\ i.op = "save" /\ i.reg = "cah" <=>
           (p \in Clearing /\ k = Base(p) + 6) \/ (p = "dump" /\ k = 3)
  BY <1>1, RowSaves
<1>6. \A r \in Registers : reg[r] \in RegType(r)
  BY DEF Typed, RegsOK
<1>7. "dump" \notin Clearing
  BY DEF Clearing
<1>8. CASE Reading(c) /\ i.op \in Fields
  <2>1. Now(c)' = Now(c)
    BY <1>8 DEF Reading, Now, Program
  <2> QED BY <1>1, <1>2, <1>4, <1>6, <1>8, <2>1 DEF Reading, CpuOK, Running, InBody, InDump
<1>9. CASE Ending(c)
  <2>1. cpu'[c].prog = None /\ cpu'[c].pc = 0 /\ cpu'[c].tmp = None
    BY <1>9, IdleIs DEF Ending
  <2>2. None \notin Clearing /\ None # "dump"
    BY NoneIs DEF Clearing, ProgramNames
  <2> QED BY <2>1, <2>2 DEF CpuOK, Running, InBody, InDump
<1>10. CASE Going(c) /\ cpu'[c].saved = cpu[c].saved /\ i.op # "save"
  <2>1. cpu'[c].prog = p /\ cpu'[c].pc = k + 1 /\ cpu'[c].tmp = None /\ k < Length(p)
    BY <1>10 DEF Going
  <2>2. /\ InBody(c, 2, 11)' => InBody(c, 2, 11)
        /\ InBody(c, 5, 10)' => InBody(c, 5, 10)
        /\ InBody(c, 7, 9)' => InBody(c, 7, 9)
        /\ InDump(c, 2, 6)' => InDump(c, 2, 6)
        /\ InDump(c, 4, 5)' => InDump(c, 4, 5)
    <3> HIDE DEF p, k, i
    <3>1. ASSUME p \in Clearing, NEW m \in {2, 5, 7}, NEW n \in {11, 10, 9}, k # Base(p) + m - 1,
                 k + 1 \in Base(p) + m .. Base(p) + n
          PROVE  k \in Base(p) + m .. Base(p) + n
      BY <1>1, <1>3, <3>1
    <3>2. ASSUME NEW m \in {2, 4}, NEW n \in {6, 5}, k # m - 1, k + 1 \in m .. n
          PROVE  k \in m .. n
      BY <1>1, <3>2
    <3>3. p \in Clearing => k # Base(p) + 2 - 1 /\ k # Base(p) + 5 - 1 /\ k # Base(p) + 7 - 1
      BY <1>1, <1>3, <1>5, <1>10
    <3>4. p = "dump" => k # 2 - 1 /\ k # 4 - 1
      BY <1>5, <1>10
    <3>5. cpu[c].prog = p /\ cpu[c].pc = k
      BY DEF p, k
    <3> QED BY <2>1, <3>1, <3>2, <3>3, <3>4, <3>5 DEF InBody, InDump
  <2>3. k + 1 \in 1 .. Length(p)
    <3> HIDE DEF p, k
    <3> QED BY <1>1, <1>3, <2>1
  <2> QED BY <1>1, <1>2, <1>10, <2>1, <2>2, <2>3, NoneIs DEF CpuOK, Running
<1>11. CASE Saving(c) /\ i.op = "save"
  <2>1. cpu'[c].prog = p /\ cpu'[c].pc = k + 1 /\ cpu'[c].tmp = None /\ k < Length(p)
        /\ cpu'[c].saved = [cpu[c].saved EXCEPT ![i.reg] = reg[i.reg]]
    BY <1>11 DEF Saving, Going
  <2>2. k + 1 \in 1 .. Length(p)
    <3> HIDE DEF p, k
    <3> QED BY <1>1, <1>3, <2>1
  <2>3. cpu[c].saved \in SavedType /\ i.reg \in {"flow", "tb", "cah"}
    BY <1>2, <1>5, <1>11 DEF CpuType
  <2>4. /\ cpu'[c].saved[i.reg] \in RegType(i.reg)
        /\ i.reg # "flow" => cpu'[c].saved.flow = cpu[c].saved.flow
        /\ i.reg # "tb" => cpu'[c].saved.tb = cpu[c].saved.tb
        /\ i.reg # "cah" => cpu'[c].saved.cah = cpu[c].saved.cah
    <3>1. i.reg \in Registers
      BY <2>3, FreshIs
    <3>2. reg[i.reg] \in RegType(i.reg)
      BY <1>6, <3>1
    <3> QED BY <2>1, <2>3, <3>2 DEF SavedType
  <2>5. /\ InBody(c, 2, 11)' /\ i.reg # "flow" => InBody(c, 2, 11)
        /\ InBody(c, 5, 10)' /\ i.reg # "tb" => InBody(c, 5, 10)
        /\ InBody(c, 7, 9)' /\ i.reg # "cah" => InBody(c, 7, 9)
        /\ InDump(c, 2, 6)' /\ i.reg # "tb" => InDump(c, 2, 6)
        /\ InDump(c, 4, 5)' /\ i.reg # "cah" => InDump(c, 4, 5)
    <3> HIDE DEF p, k, i
    <3>1. ASSUME p \in Clearing, NEW m \in {2, 5, 7}, NEW n \in {11, 10, 9}, k # Base(p) + m - 1,
                 k + 1 \in Base(p) + m .. Base(p) + n
          PROVE  k \in Base(p) + m .. Base(p) + n
      BY <1>1, <1>3, <3>1
    <3>2. ASSUME NEW m \in {2, 4}, NEW n \in {6, 5}, k # m - 1, k + 1 \in m .. n
          PROVE  k \in m .. n
      BY <1>1, <3>2
    <3>3. p \in Clearing => /\ i.reg # "flow" => k # Base(p) + 2 - 1
                            /\ i.reg # "tb" => k # Base(p) + 5 - 1
                            /\ i.reg # "cah" => k # Base(p) + 7 - 1
      BY <1>1, <1>3, <1>5, <1>11
    <3>4. p = "dump" => (i.reg # "tb" => k # 2 - 1) /\ (i.reg # "cah" => k # 4 - 1)
      BY <1>5, <1>11
    <3>5. cpu[c].prog = p /\ cpu[c].pc = k
      BY DEF p, k
    <3> QED BY <2>1, <3>1, <3>2, <3>3, <3>4, <3>5 DEF InBody, InDump
  <2> HIDE DEF p, k, i
  <2>6. /\ InBody(c, 2, 11)' => cpu'[c].saved.flow \in RegType("flow")
        /\ InBody(c, 5, 10)' \/ InDump(c, 2, 6)' => cpu'[c].saved.tb \in RegType("tb")
        /\ InBody(c, 7, 9)' \/ InDump(c, 4, 5)' => cpu'[c].saved.cah \in RegType("cah")
    BY <1>2, <2>4, <2>5 DEF CpuOK
  <2>7. cpu[c].prog = p /\ p # None
    BY <1>1, NoneIs DEF p
  <2> QED BY <2>1, <2>2, <2>6, <2>7 DEF CpuOK, Running
<1>12. CASE Jumping(c) /\ InBody(c, 3, 3) /\ i.op = "idle"
  <2>1. cpu[c].tmp = None
    BY <1>2, <1>12 DEF CpuOK, Fields
  <2>2. cpu'[c].prog = p /\ cpu'[c].pc = Base(p) + 11 /\ cpu'[c].tmp = None /\ cpu'[c].saved = cpu[c].saved
    BY <1>12, <2>1 DEF Jumping
  <2>3. p \in Clearing /\ k = Base(p) + 3
    BY <1>3, <1>12 DEF InBody
  <2>4. Base(p) + 11 \in 1 .. Length(p)
    BY <2>3 DEF Clearing, Base, Length
  <2>5. ~InBody(c, 5, 10)' /\ ~InBody(c, 7, 9)' /\ ~InDump(c, 2, 6)' /\ ~InDump(c, 4, 5)'
    <3> HIDE DEF p, k
    <3> QED BY <1>3, <1>7, <2>2, <2>3 DEF InBody, InDump
  <2>6. InBody(c, 2, 11)
    <3>1. k \in Base(p) + 2 .. Base(p) + 11
      BY <1>3, <2>3
    <3> QED BY <2>3, <3>1 DEF InBody
  <2> QED BY <1>1, <1>2, <2>2, <2>4, <2>5, <2>6, NoneIs DEF CpuOK, Running
<1> QED BY <1>8, <1>9, <1>10, <1>11, <1>12 DEF Moving
(* What is written is a value of its register.                              *)
LEMMA ValueOK ==
  ASSUME Typed, NEW c \in CPUs, Running(c), Now(c).op \in Fields
  PROVE  NewValue(c) \in 0 .. 2
<1> DEFINE p == cpu[c].prog
           k == cpu[c].pc
           i == Now(c)
<1>1. /\ p \in ProgramNames /\ k \in 1 .. Length(p) /\ k \in 1 .. 32 /\ Row(p, cpu[c].arg, k, i)
      /\ cpu[c].arg \in 0 .. 1
  BY CodeNow DEF Typed, CpuType
<1>2. /\ i.op = "set" => i.val \in 0 .. 2
      /\ i.op = "apply" => i.val \in Kept
  BY <1>1, RowFields
<1>3. CASE i.op = "set"
  BY <1>2, <1>3 DEF NewValue
<1>4. CASE i.op = "apply"
  BY <1>2, <1>4 DEF NewValue, Typed
<1>5. CASE i.op = "putback"
  <2>1. Base(p) \in 1 .. 16
    BY Bases
  <2>2. \/ i.reg = "cah" /\ i.field = "en" /\ (InBody(c, 7, 9) \/ InDump(c, 4, 5))
        \/ i.reg = "tb" /\ i.field = "scan" /\ (InBody(c, 5, 10) \/ InDump(c, 2, 6))
    <3>1. \/ /\ i.reg = "cah" /\ i.field = "en"
             /\ (p \in Clearing /\ k = Base(p) + 9) \/ (p = "dump" /\ k = 5)
          \/ /\ i.reg = "tb" /\ i.field = "scan"
             /\ (p \in Clearing /\ k = Base(p) + 10) \/ (p = "dump" /\ k = 6)
      BY <1>1, <1>5, RowSaves
    <3>2. k = Base(p) + 9 => k \in Base(p) + 7 .. Base(p) + 9
      BY <2>1
    <3>3. k = Base(p) + 10 => k \in Base(p) + 5 .. Base(p) + 10
      BY <2>1
    <3> QED BY <3>1, <3>2, <3>3 DEF InBody, InDump
  <2>3. CpuOK(c)
    BY DEF Typed
  <2>4. cpu[c].saved[i.reg][i.field] \in 0 .. 2
    BY <2>2, <2>3, FreshIs DEF CpuOK, RegType
  <2> QED BY <1>5, <2>4 DEF NewValue
<1> QED BY <1>3, <1>4, <1>5 DEF Fields

LEMMA RegsStay ==
  ASSUME Typed, NEW c \in CPUs, Step(c)
  PROVE  RegsOK'
<1>1. CASE UNCHANGED reg
  BY <1>1 DEF Typed, RegsOK
<1>2. CASE WriteField(c)
  <2> DEFINE r == Now(c).reg
             x == [cpu[c].tmp EXCEPT ![Now(c).field] = NewValue(c)]
  <2>1. Running(c) /\ Now(c).op \in Fields /\ cpu[c].tmp # None
    BY <1>2 DEF WriteField, Is, Running, Now, Fields
  <2>2. cpu[c].tmp \in RegType(r)
    BY <2>1 DEF Typed, CpuOK
  <2>3. NewValue(c) \in 0 .. 2
    BY <2>1, ValueOK
  <2>4. x \in RegType(r)
    BY <2>2, <2>3 DEF RegType
  <2>5. reg' = [reg EXCEPT ![r] = x]
    BY <1>2 DEF WriteField
  <2> HIDE DEF x, r
  <2> QED BY <2>4, <2>5 DEF Typed, RegsOK
<1>3. CASE WriteRegister(c)
  <2>1. Running(c) /\ Now(c).op \in {"write", "learn"}
    BY <1>3 DEF WriteRegister, Is, Running, Now
  <2>2. /\ cpu[c].prog \in ProgramNames /\ cpu[c].pc \in 1 .. Length(cpu[c].prog)
        /\ cpu[c].pc \in 1 .. 32 /\ Row(cpu[c].prog, cpu[c].arg, cpu[c].pc, Now(c))
        /\ cpu[c].arg \in 0 .. 1
    BY <2>1, CodeNow DEF Typed, CpuType
  <2>3. Now(c).reg = "flow" /\ cpu[c].prog \in Clearing
        /\ (cpu[c].pc = Base(cpu[c].prog) + 11 \/ cpu[c].pc = Base(cpu[c].prog) + 2)
    BY <2>1, <2>2, RowOps
  <2>4. InBody(c, 2, 11)
    BY <2>3, Bases DEF InBody
  <2>5. cpu[c].saved.flow \in RegType("flow") /\ reg["flow"] \in RegType("flow")
    BY <2>4, FreshIs DEF Typed, CpuOK, RegsOK
  <2> DEFINE y == IF Is(c, "write") THEN cpu[c].saved["flow"]
                  ELSE [f \in DOMAIN reg["flow"] |->
                          IF f = "no_dsl" THEN 1
                          ELSE IF f = "blist" THEN cpu[c].saved["flow"][f] ELSE 0]
  <2>6. y \in RegType("flow")
    BY <2>5, FreshIs DEF RegType
  <2>7. reg' = [reg EXCEPT !["flow"] = y]
    BY <1>3, <2>3 DEF WriteRegister
  <2> HIDE DEF y
  <2> QED BY <2>6, <2>7 DEF Typed, RegsOK
<1>4. CASE Reset(c)
  <2>1. \A r \in Registers : Fresh[r] \in RegType(r)
    BY DEF Registers, Fresh, RegType
  <2> QED BY <1>4, <2>1 DEF Reset, RegsOK, Registers
<1> QED BY <1>1, <1>2, <1>3, <1>4, Zenon
      DEF Step, SkipWrite, Read, SaveRegister, WaitIdle, Lock, Unlock, Invalidate, Remove, ChooseSetting, ForwardMacs

(* The CPU that steps runs a program; the others do not notice.             *)
LEMMA StepCpu ==
  ASSUME Typed, NEW c \in CPUs, Step(c)
  PROVE  /\ Running(c) /\ cpu' \in [CPUs -> CpuType] /\ \A d \in CPUs \ {c} : cpu'[d] = cpu[d]
         /\ \/ Reading(c) /\ Now(c).op \in Fields
            \/ Moving(c) /\ Now(c).op # "save"
            \/ Saving(c) /\ Now(c).op = "save"
            \/ Jumping(c) /\ InBody(c, 3, 3) /\ Now(c).op = "idle"
<1>1. CASE Read(c)
  BY <1>1, ReadIs
<1>2. CASE SaveRegister(c)
  BY <1>2, SaveIs DEF SaveRegister, Is, Now
<1>3. CASE WaitIdle(c)
  BY <1>3, IdleWaitIs
<1>4. CASE SkipWrite(c) \/ WriteField(c) \/ WriteRegister(c) \/ Lock(c) \/ Unlock(c) \/ Invalidate(c)
  <2>1. Running(c) /\ Advance(c) /\ Now(c).op # "save"
    BY <1>4 DEF SkipWrite, Skipped, WriteField, WriteRegister, Lock, Unlock, Invalidate, Is, Now, Running
  <2> QED BY <2>1, AdvanceIs
<1>5. CASE Remove(c) \/ ChooseSetting(c) \/ ForwardMacs(c) \/ Reset(c)
  <2>1. Running(c) /\ Advance(c) /\ Now(c).op # "save"
    BY <1>5 DEF Remove, ChooseSetting, ForwardMacs, Reset, Is, Now, Running
  <2> QED BY <2>1, AdvanceIs
<1> QED BY <1>1, <1>2, <1>3, <1>4, <1>5 DEF Step

LEMMA OthersOK ==
  ASSUME Typed, NEW d \in CPUs, cpu'[d] = cpu[d]
  PROVE  CpuOK(d)' /\ cpu'[d].prog \in Programs \cup {None}
<1>1. CpuOK(d) /\ cpu[d].prog \in Programs \cup {None}
  BY DEF Typed
<1>2. Now(d)' = Now(d)
  BY DEF Now, Program
<1> QED BY <1>1, <1>2 DEF CpuOK, Running, InBody, InDump

LEMMA StepTyped ==
  ASSUME Typed, NEW c \in CPUs, Step(c)
  PROVE  Typed'
<1>1. /\ Running(c) /\ cpu' \in [CPUs -> CpuType] /\ \A d \in CPUs \ {c} : cpu'[d] = cpu[d]
      /\ CpuOK(c)' /\ cpu'[c].prog \in {cpu[c].prog, None}
  BY StepCpu, CpuStays
<1>2. \A d \in CPUs : CpuOK(d)' /\ cpu'[d].prog \in Programs \cup {None}
  BY <1>1, OthersOK DEF Typed
<1>3. RegsOK'
  BY RegsStay
<1>4. UNCHANGED <<version, ppe_id, runs, mixed>> /\ timedout' \in BOOLEAN
  <2>1. timedout \in BOOLEAN
    BY DEF Typed
  <2> QED BY <2>1, Zenon DEF Step, SkipWrite, Read, WriteField, SaveRegister, WriteRegister, WaitIdle, Lock, Unlock,
        Invalidate, Remove, ChooseSetting, ForwardMacs, Reset
<1>5. /\ Row(cpu[c].prog, cpu[c].arg, cpu[c].pc, Now(c)) /\ cpu[c].arg \in 0 .. 1
      /\ cpu[c].prog \in ProgramNames /\ cpu[c].pc \in 1 .. Length(cpu[c].prog)
  BY <1>1, CodeNow DEF Typed, CpuType
<1>6. soft' \in [Kept \cup Toggles -> 0 .. 1]
  <2>1. CASE ChooseSetting(c)
    <3>1. Now(c).val \in 0 .. 1
      BY <1>5, <2>1, RowFields DEF ChooseSetting, Is, Now
    <3> QED BY <2>1, <3>1 DEF ChooseSetting, Typed
  <2>2. CASE UNCHANGED soft
    BY <2>2 DEF Typed
  <2> QED BY <2>1, <2>2, Zenon DEF Step, SkipWrite, Read, WriteField, SaveRegister, WriteRegister, WaitIdle, Lock,
        Unlock, Invalidate, Remove, ForwardMacs, Reset
<1>7. gdm' \in 0 .. 1
  <2>1. CASE ForwardMacs(c)
    <3>1. Now(c).val \in 0 .. 1
      BY <1>5, <2>1, RowFields DEF ForwardMacs, Is, Now
    <3> QED BY <2>1, <3>1 DEF ForwardMacs
  <2>2. CASE UNCHANGED gdm \/ gdm' = 0
    BY <2>2 DEF Typed
  <2> QED BY <2>1, <2>2, Zenon DEF Step, SkipWrite, Read, WriteField, SaveRegister, WriteRegister, WaitIdle, Lock,
        Unlock, Invalidate, Remove, ChooseSetting, Reset
<1>8. {foe', line'} \subseteq Flows \cup {None} /\ cah_lock' \in CPUs \cup {None}
  <2>1. foe' \in {foe, None} /\ line' \in {line, None} /\ cah_lock' \in {cah_lock, c, None}
    BY Zenon DEF Step, SkipWrite, Read, WriteField, SaveRegister, WriteRegister, WaitIdle, Lock,
        Unlock, Invalidate, Remove, ChooseSetting, ForwardMacs, Reset
  <2> QED BY <2>1 DEF Typed
<1> QED BY <1>1, <1>2, <1>3, <1>4, <1>6, <1>7, <1>8 DEF Typed
LEMMA StartTyped ==
  ASSUME Typed, NEW c \in CPUs, NEW p \in Programs, NEW v \in Args(p), Start(c, p, v)
  PROVE  /\ Typed' /\ \A d \in CPUs \ {c} : cpu'[d] = cpu[d]
         /\ ~Running(c)
         /\ cpu'[c].prog = p /\ cpu'[c].arg = v /\ cpu'[c].pc = 1 /\ cpu'[c].tmp = None
         /\ p \in ProgramNames /\ v \in 0 .. 1
<1>1. p \in ProgramNames /\ v \in 0 .. 1
  BY PpeAssumption DEF Args
<1> DEFINE x == [Idle EXCEPT !.prog = p, !.arg = v, !.pc = 1]
<1>2. x \in CpuType /\ x.prog = p /\ x.arg = v /\ x.pc = 1 /\ x.tmp = None
  <2> DEFINE s == [flow |-> None, tb |-> None, cah |-> None]
  <2>1. s \in SavedType
    BY DEF SavedType
  <2>2. Idle = [prog |-> None, arg |-> 0, pc |-> 0, tmp |-> None, saved |-> s]
    BY DEF Idle
  <2> HIDE DEF s
  <2>3. x = [prog |-> p, arg |-> v, pc |-> 1, tmp |-> None, saved |-> s]
    <3> DEFINE I == [prog |-> None, arg |-> 0, pc |-> 0, tmp |-> None, saved |-> s]
               J == [I EXCEPT !.prog = p]
               K == [J EXCEPT !.arg = v]
               L == [K EXCEPT !.pc = 1]
    <3>1. J = [prog |-> p, arg |-> 0, pc |-> 0, tmp |-> None, saved |-> s]
      OBVIOUS
    <3> HIDE DEF J
    <3>2. K = [prog |-> p, arg |-> v, pc |-> 0, tmp |-> None, saved |-> s]
      BY <3>1
    <3> HIDE DEF K
    <3>3. L = [prog |-> p, arg |-> v, pc |-> 1, tmp |-> None, saved |-> s]
      BY <3>2
    <3> HIDE DEF L
    <3>4. x = L
      BY <2>2 DEF J, K, L
    <3> QED BY <3>3, <3>4
  <2>4. p \in ProgramNames \cup {None} /\ 1 \in 0 .. 32
    BY <1>1
  <2>5. [prog |-> p, arg |-> v, pc |-> 1, tmp |-> None, saved |-> s] \in CpuType
    BY <1>1, <2>1, <2>4, Typically
  <2> QED BY <2>3, <2>5
<1>3. cpu' = [cpu EXCEPT ![c] = x] /\ cpu \in [CPUs -> CpuType]
  BY DEF Start, Typed
<1> HIDE DEF x
<1>4. cpu'[c] = x /\ cpu' \in [CPUs -> CpuType] /\ \A d \in CPUs \ {c} : cpu'[d] = cpu[d]
  BY <1>2, <1>3
<1>5. CpuOK(c)'
  <2>1. Length(p) \in 1 .. 32 /\ Base(p) \in 1 .. 16
    BY <1>1, Bases DEF Length, ProgramNames
  <2>2. 1 \in 1 .. Length(p)
    BY <2>1
  <2>3. ~InBody(c, 2, 11)' /\ ~InBody(c, 5, 10)' /\ ~InBody(c, 7, 9)' /\ ~InDump(c, 2, 6)' /\ ~InDump(c, 4, 5)'
    BY <1>2, <1>4, <2>1 DEF InBody, InDump
  <2> QED BY <1>1, <1>2, <1>4, <2>2, <2>3, NoneIs DEF CpuOK, Running
<1>6. \A d \in CPUs : CpuOK(d)' /\ cpu'[d].prog \in Programs \cup {None}
  <2>1. \A d \in CPUs \ {c} : CpuOK(d)' /\ cpu'[d].prog \in Programs \cup {None}
    BY <1>4, OthersOK
  <2> QED BY <1>2, <1>4, <1>5, <2>1
<1>7. runs' \in 0 .. RunMax
  BY PpeAssumption DEF Start, Typed
<1>8. mixed' \in BOOLEAN
  <2>1. mixed \in BOOLEAN
    BY DEF Typed
  <2> QED BY <2>1, Zenon DEF Start
<1>9. UNCHANGED <<version, ppe_id, reg, soft, foe, line, gdm, cah_lock, timedout>>
  BY DEF Start
<1>10. RegsOK'
  BY <1>9 DEF Typed, RegsOK
<1>11. Typed'
  BY <1>4, <1>6, <1>7, <1>8, <1>9, <1>10 DEF Typed
<1>12. ~Running(c)
  BY DEF Start, Running
<1> QED BY <1>1, <1>2, <1>4, <1>11, <1>12

(* The engine and a bound flow change the entry and its copy only.          *)
Outside == (\E f \in Flows : Bind(f)) \/ Load \/ Evict

LEMMA OutsideTyped ==
  ASSUME Typed, Outside \/ UNCHANGED vars
  PROVE  Typed' /\ UNCHANGED <<ppe_id, reg, soft, gdm, cah_lock, cpu, mixed, timedout>>
<1>1. /\ UNCHANGED <<version, ppe_id, reg, soft, gdm, cah_lock, cpu, runs, mixed, timedout>>
      /\ foe' \in Flows \cup {foe} /\ line' \in {line, foe, None}
  BY Zenon DEF Outside, Bind, Load, Evict, vars
<1>2. {foe', line'} \subseteq Flows \cup {None}
  BY <1>1 DEF Typed
<1>3. RegsOK'
  BY <1>1 DEF Typed, RegsOK
<1>4. \A d \in CPUs : CpuOK(d)' /\ cpu'[d].prog \in Programs \cup {None}
  BY <1>1, OthersOK
<1> QED BY <1>1, <1>2, <1>3, <1>4 DEF Typed

LEMMA StartedIs ==
  Started = [flow |-> [nat |-> 1, no_dsl |-> 0, xlat |-> 0, l2br |-> 0, blist |-> 0],
             tb |-> [scan |-> 2, sma |-> 1, ecn |-> 0, hash |-> 0, age |-> 1],
             cah |-> [en |-> 1], glo |-> [en |-> 1], bndr |-> [rate |-> 0],
             age0 |-> [udp |-> 0], age1 |-> [tcp |-> 0, fin |-> 0], ka |-> [tcp |-> 0, udp |-> 0],
             cport |-> [sp |-> 0]]
<1> DEFINE a == [Fresh EXCEPT !.flow.nat = 1]
           b == [a EXCEPT !.flow.no_dsl = 0]
           d == [b EXCEPT !.tb.scan = 2]
           e == [d EXCEPT !.tb.sma = 1]
           f == [e EXCEPT !.tb.age = 1]
           g == [f EXCEPT !.cah.en = 1]
           h == [g EXCEPT !.glo.en = 1]
<1>1. Started = h
  BY DEF Started
<1> DEFINE fl == [nat |-> 1, no_dsl |-> 0, xlat |-> 0, l2br |-> 0, blist |-> 0]
           t0 == [scan |-> 0, sma |-> 0, ecn |-> 0, hash |-> 0, age |-> 0]
           tb == [scan |-> 2, sma |-> 1, ecn |-> 0, hash |-> 0, age |-> 1]
           R(x, y, z, w) ==
             [flow |-> x, tb |-> y, cah |-> [en |-> z], glo |-> [en |-> w], bndr |-> [rate |-> 0],
              age0 |-> [udp |-> 0], age1 |-> [tcp |-> 0, fin |-> 0], ka |-> [tcp |-> 0, udp |-> 0],
              cport |-> [sp |-> 0]]
<1>2. a = R([nat |-> 1, no_dsl |-> 1, xlat |-> 0, l2br |-> 0, blist |-> 0], t0, 0, 0)
  BY DEF Fresh
<1> HIDE DEF a
<1>3. b = R(fl, t0, 0, 0)
  BY <1>2
<1> HIDE DEF b
<1>4. d = R(fl, [scan |-> 2, sma |-> 0, ecn |-> 0, hash |-> 0, age |-> 0], 0, 0)
  BY <1>3
<1> HIDE DEF d
<1>5. e = R(fl, [scan |-> 2, sma |-> 1, ecn |-> 0, hash |-> 0, age |-> 0], 0, 0)
  BY <1>4
<1> HIDE DEF e
<1>6. f = R(fl, tb, 0, 0)
  BY <1>5
<1> HIDE DEF f
<1>7. g = R(fl, tb, 1, 0)
  BY <1>6
<1> HIDE DEF g
<1>8. h = R(fl, tb, 1, 1)
  BY <1>7
<1> QED BY <1>1, <1>8

LEMMA TypedInit == Init => Typed
<1> SUFFICES ASSUME Init PROVE Typed
  OBVIOUS
<1>2. RegsOK
  BY StartedIs DEF Init, RegsOK, Registers, RegType, Fresh
<1>3. \A c \in CPUs : cpu[c] = Idle
  BY DEF Init
<1>4. \A c \in CPUs : CpuOK(c)
  <2> SUFFICES ASSUME NEW c \in CPUs PROVE CpuOK(c)
    OBVIOUS
  <2>1. cpu[c].prog = None /\ cpu[c].pc = 0 /\ cpu[c].tmp = None
    BY <1>3, IdleIs
  <2>2. None \notin Clearing /\ None # "dump"
    BY NoneIs DEF Clearing, ProgramNames
  <2> QED BY <2>1, <2>2 DEF CpuOK, Running, InBody, InDump
<1>5. cpu \in [CPUs -> CpuType]
  BY IdleIs DEF Init
<1>6. soft \in [Kept \cup Toggles -> 0 .. 1]
  BY DEF Init
<1>7. runs \in 0 .. RunMax
  BY PpeAssumption DEF Init
<1>8. \A c \in CPUs : CpuOK(c) /\ cpu[c].prog \in Programs \cup {None}
  BY <1>3, <1>4, IdleIs
<1>9. /\ version \in {"V1_3", "V3"} /\ ppe_id \in 0 .. 1 /\ {foe, line} \subseteq Flows \cup {None} /\ gdm \in 0 .. 1
      /\ cah_lock \in CPUs \cup {None}
  BY DEF Init
<1>10. mixed \in BOOLEAN /\ timedout \in BOOLEAN
  BY Zenon DEF Init
<1> QED BY <1>2, <1>5, <1>6, <1>7, <1>8, <1>9, <1>10 DEF Typed

LEMMA NextCases ==
  ASSUME [Next]_vars
  PROVE  \/ \E c \in CPUs : Step(c)
         \/ \E c \in CPUs, p \in Programs : \E v \in Args(p) : Start(c, p, v)
         \/ Outside \/ UNCHANGED vars
BY DEF Next, Outside

LEMMA TypedNext == Typed /\ [Next]_vars => Typed'
BY NextCases, StepTyped, StartTyped, OutsideTyped

LEMMA TypedIsTypeOK == Typed => TypeOK
<1> SUFFICES ASSUME Typed PROVE TypeOK
  OBVIOUS
<1>1. \A r \in DOMAIN reg : reg[r] \in [DOMAIN Fresh[r] -> 0 .. 2]
  BY DEF Typed, RegsOK, RegType
<1>2. DOMAIN reg = DOMAIN Fresh
  BY DEF Typed, RegsOK, Registers
<1>3. ASSUME NEW c \in CPUs
      PROVE  /\ cpu[c].prog \in Programs \cup {None} /\ cpu[c].arg \in 0 .. 1
             /\ cpu[c].pc \in IF cpu[c].prog = None THEN {0} ELSE 1 .. Len(Program(c))
  <2>1. CpuOK(c) /\ cpu[c] \in CpuType /\ cpu[c].prog \in Programs \cup {None}
    BY DEF Typed
  <2>2. cpu[c].arg \in 0 .. 1
    BY <2>1 DEF CpuType
  <2>3. CASE Running(c)
    BY <2>1, <2>2, <2>3, CodeNow DEF Running
  <2>4. CASE ~Running(c)
    BY <2>1, <2>2, <2>4 DEF Running, CpuOK
  <2> QED BY <2>3, <2>4
<1> QED BY <1>1, <1>2, <1>3 DEF Typed, TypeOK

(* Every register keeps the values of its fields, and a CPU is within the   *)
(* program it runs, whoever steps between the read and the write of others. *)
THEOREM PpeTypes == Spec => []TypeOK
<1>1. Typed /\ [Next]_vars => Typed'
  BY TypedNext
<1> QED BY <1>1, TypedInit, TypedIsTypeOK, PTL DEF Spec
-------------------------------------------------------------------------------
(***************************************************************************)
(* An entry that is gone leaves the cache.                                 *)
(***************************************************************************)
(* CPU c has still to drop the lines of the cache.                          *)
Due(c) == cpu[c].prog \in Clearing /\ cpu[c].pc <= Base(cpu[c].prog) + 8

StaleInv == line \notin {None, foe} /\ ~timedout => \E c \in CPUs : Due(c)

LEMMA DueIs ==
  ASSUME Typed, NEW c \in CPUs, Due(c)
  PROVE  /\ cpu[c].prog # None
         /\ \E n \in cpu[c].pc .. Len(Program(c)) : Program(c)[n].op = "invalidate"
<1> DEFINE p == cpu[c].prog
           n == Base(p) + 8
<1>1. p # None /\ p \in Clearing
  BY NoneIs DEF Due, Clearing, ProgramNames
<1>2. /\ p \in ProgramNames /\ Program(c) = Code(p, cpu[c].arg) /\ Len(Program(c)) = Length(p)
      /\ cpu[c].arg \in 0 .. 1
      /\ cpu[c].pc \in 1 .. Length(p)
  BY <1>1, CodeNow DEF Running, Typed, CpuType
<1>3. Base(p) + 8 \in 1 .. Length(p)
  BY <1>1 DEF Clearing, Base, Length
<1>4. Row(p, cpu[c].arg, n, Program(c)[n])
  BY <1>2, <1>3, CodeIs
<1>5. Program(c)[n].op = "invalidate"
  BY <1>1, <1>2, <1>3, <1>4, RowOps
<1>6. n \in cpu[c].pc .. Len(Program(c))
  BY <1>2, <1>3 DEF Due
<1> QED BY <1>1, <1>5, <1>6

LEMMA DueStays ==
  ASSUME Typed, NEW c \in CPUs, Step(c), Due(c)
  PROVE  Due(c)' \/ line' = None \/ timedout'
<1> DEFINE p == cpu[c].prog
           k == cpu[c].pc
<1>1. /\ Running(c) /\ p \in ProgramNames /\ k \in 1 .. Length(p) /\ k \in 1 .. 32
      /\ Row(p, cpu[c].arg, k, Now(c)) /\ cpu[c].arg \in 0 .. 1
  BY StepCpu, CodeNow DEF Typed, CpuType
<1>2. p \in Clearing /\ k <= Base(p) + 8 /\ Base(p) \in 1 .. 16
  BY Bases DEF Due
<1>3. Base(p) + 8 < Length(p)
  BY <1>2 DEF Clearing, Base, Length
<1>4. CASE Reading(c)
  BY <1>2, <1>4 DEF Reading, Due
<1>5. CASE Going(c)
  <2>1. CASE k = Base(p) + 8
    <3>1. Now(c).op = "invalidate"
      BY <1>1, <1>2, <2>1, RowOps
    <3>2. Invalidate(c)
      BY <3>1 DEF Step, SkipWrite, Skipped, Read, WriteField, SaveRegister, WriteRegister, WaitIdle, Lock, Unlock, Remove,
           ChooseSetting, ForwardMacs, Reset, Is, Now
    <3> QED BY <3>2 DEF Invalidate
  <2>2. CASE k # Base(p) + 8
    <3>1. k + 1 <= Base(p) + 8
      BY <1>1, <1>2, <2>2
    <3> QED BY <1>2, <1>5, <3>1 DEF Going, Due
  <2> QED BY <2>1, <2>2
<1>6. CASE Ending(c)
  BY <1>1, <1>2, <1>3, <1>6 DEF Ending
<1>7. CASE Jumping(c) /\ Now(c).op = "idle"
  <2>1. WaitIdle(c)
    BY <1>7 DEF Step, SkipWrite, Skipped, Read, WriteField, SaveRegister, WriteRegister, Invalidate, Lock, Unlock, Remove,
         ChooseSetting, ForwardMacs, Reset, Is, Now
  <2>2. (Moving(c) /\ UNCHANGED timedout) \/ timedout'
    BY <2>1, IdleWaitIs
  <2> QED BY <1>5, <1>6, <2>2 DEF Moving
<1> QED BY <1>4, <1>5, <1>6, <1>7, StepCpu DEF Moving, Saving

LEMMA StaleStep ==
  ASSUME Typed, StaleInv, NEW c \in CPUs, Step(c)
  PROVE  StaleInv'
<1>1. /\ \A d \in CPUs \ {c} : cpu'[d] = cpu[d]
      /\ Running(c)
  BY StepCpu
<1>2. CASE Remove(c)
  <2>1. Now(c).op \in {"delete", "empty"} /\ Advance(c)
    BY <1>2 DEF Remove, Is, Now
  <2>2. /\ cpu[c].prog \in ProgramNames /\ cpu[c].pc \in 1 .. Length(cpu[c].prog) /\ cpu[c].pc \in 1 .. 32
        /\ Row(cpu[c].prog, cpu[c].arg, cpu[c].pc, Now(c)) /\ cpu[c].arg \in 0 .. 1
    BY <1>1, CodeNow DEF Typed, CpuType
  <2>3. cpu[c].prog \in Clearing /\ cpu[c].pc <= Base(cpu[c].prog) /\ cpu[c].pc < Length(cpu[c].prog)
    BY <2>1, <2>2, RowRemoves
  <2>4. Going(c)
    <3>1. Length(cpu[c].prog) \in 1 .. 32
      BY <2>2 DEF Length, ProgramNames
    <3> QED BY <1>1, <2>1, <2>2, <2>3, <3>1, AdvanceIs DEF Moving, Ending
  <2>5. cpu[c].pc + 1 <= Base(cpu[c].prog) + 8
    BY <2>2, <2>3, Bases
  <2>6. Due(c)'
    BY <2>3, <2>4, <2>5 DEF Going, Due
  <2> QED BY <2>6 DEF StaleInv
<1>3. CASE UNCHANGED foe
  <2>0. timedout' = timedout \/ timedout' = TRUE
    BY Zenon DEF Step, SkipWrite, Read, WriteField, SaveRegister, WriteRegister, WaitIdle, Lock, Unlock, Invalidate,
         Remove, ChooseSetting, ForwardMacs, Reset
  <2>1. line' = line \/ line' = None
    BY Zenon DEF Step, SkipWrite, Read, WriteField, SaveRegister, WriteRegister, WaitIdle, Lock, Unlock, Invalidate,
         Remove, ChooseSetting, ForwardMacs, Reset
  <2> SUFFICES ASSUME line' \notin {None, foe'}, ~timedout' PROVE \E d \in CPUs : Due(d)'
    BY DEF StaleInv
  <2>2. PICK d \in CPUs : Due(d)
    BY <1>3, <2>0, <2>1 DEF StaleInv
  <2>3. CASE d = c
    BY <2>2, <2>3, DueStays
  <2>4. CASE d # c
    BY <1>1, <2>2, <2>4 DEF Due
  <2> QED BY <2>3, <2>4
<1> QED BY <1>2, <1>3, Zenon DEF Step, SkipWrite, Read, WriteField, SaveRegister, WriteRegister, WaitIdle, Lock, Unlock,
      Invalidate, ChooseSetting, ForwardMacs, Reset

LEMMA StaleNext == Typed /\ StaleInv /\ [Next]_vars => StaleInv'
<1> SUFFICES ASSUME Typed, StaleInv, [Next]_vars PROVE StaleInv'
  OBVIOUS
<1>1. ASSUME NEW c \in CPUs, Step(c) PROVE StaleInv'
  BY <1>1, StaleStep
<1>2. ASSUME NEW c \in CPUs, NEW p \in Programs, NEW v \in Args(p), Start(c, p, v) PROVE StaleInv'
  <2>1. /\ \A d \in CPUs \ {c} : cpu'[d] = cpu[d]
        /\ ~Running(c)
        /\ UNCHANGED <<foe, line, timedout>>
    BY <1>2, StartTyped DEF Start
  <2>2. \A d \in CPUs : Due(d) => d # c
    BY <2>1, NoneIs DEF Due, Running, Clearing, ProgramNames
  <2>3. \A d \in CPUs : Due(d) => Due(d)'
    BY <2>1, <2>2 DEF Due
  <2> QED BY <2>1, <2>3 DEF StaleInv
<1>3. CASE Outside \/ UNCHANGED vars
  <2>1. UNCHANGED <<cpu, timedout>>
    BY <1>3, OutsideTyped
  <2>2. line' \in {None, foe'} \/ (line' = line /\ (foe' = foe \/ foe = None))
    BY <1>3, Zenon DEF Outside, Bind, Load, Evict, vars
  <2>3. \A d \in CPUs : Due(d) => Due(d)'
    BY <2>1 DEF Due
  <2> QED BY <2>1, <2>2, <2>3 DEF StaleInv
<1> QED BY <1>1, <1>2, <1>3, NextCases

(* The cache holds no entry that is gone, unless a CPU is about to drop it  *)
(* or the engine stayed busy (entry_delete, hnat_cache_clr).                *)
THEOREM StaleIsDropped == Spec => []StaleDropped
<1>1. Init => StaleInv
  BY DEF Init, StaleInv
<1>2. Typed /\ StaleInv => StaleDropped
  BY DueIs DEF StaleInv, StaleDropped
<1>3. Typed /\ StaleInv /\ [Next]_vars => Typed' /\ StaleInv'
  BY TypedNext, StaleNext
<1> QED BY <1>1, <1>2, <1>3, TypedInit, PTL DEF Spec
-------------------------------------------------------------------------------
(***************************************************************************)
(* Who may write a register, as long as no two programs mix: a program     *)
(* that writes it outside cah_lock, or one that holds the lock.            *)
(***************************************************************************)
Keys == {"flow", "tb", "bndr", "age0", "age1", "ka", "cport"}

(* The engine's cache goes with the table, a global enable with a reset.    *)
Key(r) == IF r = "cah" THEN "tb" ELSE IF r = "glo" THEN "flow" ELSE r

Open(r) ==
  CASE r = "flow" -> {"mape", "xlat", "l2br", "prot_3t", "reset"}
    [] r = "tb" -> {"dump", "l4s", "hash", "sma", "timestamp", "reset"}
    [] r = "bndr" -> {"threshold", "reset"}
    [] r = "age0" -> {"udp", "reset"}
    [] r = "age1" -> {"tcp", "fin", "reset"}
    [] r = "ka" -> {"tcp_ka", "udp_ka", "reset"}
    [] OTHER -> {"cport", "reset"}

Closed(r) ==
  CASE r = "flow" -> {"clear", "delete", "hash", "timestamp"}
    [] r = "tb" -> {"clear", "delete"}
    [] OTHER -> {}

(* Between taking cah_lock and giving it back.                              *)
UnlockAt(p) ==
  CASE p = "clear" -> 13 [] p = "delete" -> 14 [] p = "hash" -> 17 [] p = "timestamp" -> 19 [] OTHER -> 29

LockedAt(p, k) ==
  (p \in Clearing /\ k \in Base(p) + 1 .. UnlockAt(p)) \/ (p = "timestamp" /\ k \in 2 .. 3)

Owner(p, k, r) == p \in Open(r) \/ (p \in Closed(r) /\ LockedAt(p, k))

LEMMA RowLocks ==
  ASSUME NEW p \in ProgramNames, NEW v \in 0 .. 1, NEW k \in 1 .. Length(p), NEW i, Row(p, v, k, i)
  PROVE  /\ i.op = "lock" => ~LockedAt(p, k) /\ LockedAt(p, k + 1) /\ k < Length(p)
         /\ i.op = "unlock" => LockedAt(p, k) /\ ~LockedAt(p, k + 1)
         /\ i.op \notin {"lock", "unlock"} /\ k < Length(p) => (LockedAt(p, k) <=> LockedAt(p, k + 1))
         /\ i.op # "unlock" /\ k = Length(p) => ~LockedAt(p, k)
         /\ i.op = "idle" => LockedAt(p, k) /\ LockedAt(p, Base(p) + 11)
<1> USE DEF ClearRow, DeleteRow, DumpRow, TimestampRow, ResetRow, HashRow, ToggleRow, SettingRow,
        EnableRow, BodyRow, Instr, Set, Apply, Choose, Save, PutBack, Plain, Write, Forward, Clearing, Base,
        Length, LockedAt, UnlockAt
<1>1. CASE p = "clear" BY <1>1 DEF Row, Toggles, Kept
<1>2. CASE p = "delete" BY <1>2 DEF Row, Toggles, Kept
<1>3. CASE p = "dump" BY <1>3 DEF Row, Toggles, Kept
<1>4. CASE p = "timestamp" BY <1>4 DEF Row, Toggles, Kept
<1>5. CASE p = "reset" BY <1>5 DEF Row, Toggles, Kept
<1>6. CASE p = "hash" BY <1>6 DEF Row, Toggles, Kept
<1>7. CASE p = "sma" BY <1>7 DEF Row, Toggles, Kept
<1>8. CASE p \in Toggles BY <1>8 DEF Row, Toggles, Kept
<1>9. CASE p \in Kept BY <1>9 DEF Row, Toggles, Kept
<1> QED BY <1>1, <1>2, <1>3, <1>4, <1>5, <1>6, <1>7, <1>8, <1>9 DEF ProgramNames, Toggles

(* What touches a register owns it.                                         *)
LEMMA RowOwner ==
  ASSUME NEW p \in ProgramNames, NEW v \in 0 .. 1, NEW k \in 1 .. Length(p), NEW i, Row(p, v, k, i)
  PROVE  /\ i.op \in {"set", "apply", "putback", "save", "write", "learn"} => Owner(p, k, Key(i.reg)) /\ Key(i.reg) \in Keys
         /\ i.op = "forward" => Owner(p, k, "tb")
         /\ i.op = "choose" /\ p \in Kept => Owner(p, k, Place[p][1])
         /\ i.op = "reset" => \A r \in Keys : Owner(p, k, r)
<1> USE DEF ClearRow, DeleteRow, DumpRow, TimestampRow, ResetRow, HashRow, ToggleRow, SettingRow,
        EnableRow, BodyRow, Instr, Set, Apply, Choose, Save, PutBack, Plain, Write, Forward, Clearing, Base,
        Length, LockedAt, UnlockAt, Owner, Open, Closed, Key, Keys, Place
<1>1. CASE p = "clear" BY <1>1 DEF Row, Toggles, Kept
<1>2. CASE p = "delete" BY <1>2 DEF Row, Toggles, Kept
<1>3. CASE p = "dump" BY <1>3 DEF Row, Toggles, Kept
<1>4. CASE p = "timestamp" BY <1>4 DEF Row, Toggles, Kept
<1>5. CASE p = "reset" BY <1>5 DEF Row, Toggles, Kept
<1>6. CASE p = "hash" BY <1>6 DEF Row, Toggles, Kept
<1>7. CASE p = "sma" BY <1>7 DEF Row, Toggles, Kept
<1>8. CASE p \in Toggles BY <1>8 DEF Row, Toggles, Kept
<1>9. CASE p \in Kept BY <1>9 DEF Row, Toggles, Kept
<1> QED BY <1>1, <1>2, <1>3, <1>4, <1>5, <1>6, <1>7, <1>8, <1>9 DEF ProgramNames, Toggles

Covered(p, r) == p \in Open(r) \cup Closed(r)

(* Of two programs that could own a register at a time, Conflict knows.     *)
LEMMA OpenWrites ==
  ASSUME NEW r \in Keys, NEW p \in Open(r), p # "reset"
  PROVE  <<r, FALSE>> \in Writes(Code(p, 0))
<1> DEFINE C == Code(p, 0)
           W(n) == C[n].op \in {"set", "apply", "learn", "putback", "write"}
           L(n) == \E k \in 1 .. n : C[k].op = "lock" /\ \A j \in k .. n : C[j].op # "unlock"
<1>1. p \in ProgramNames
  BY DEF Open, Keys, ProgramNames, Kept
<1>2. Len(C) = Length(p) /\ \A k \in 1 .. Length(p) : Row(p, 0, k, C[k])
  BY <1>1, CodeIs
<1> HIDE DEF C
<1>3. \E n \in 1 .. Length(p) : W(n) /\ ~L(n) /\ C[n].reg = r
  <2> USE DEF DumpRow, TimestampRow, HashRow, ToggleRow, SettingRow, Instr, Set, Apply, Choose, Save, Plain,
          Forward, Length, Open, Keys, Row, Toggles, Kept, Place
  <2>1. CASE p = "sma"
    <3>1. Row(p, 0, 1, C[1])
      BY <1>2, <2>1
    <3>2. W(1) /\ ~L(1) /\ C[1].reg = r
      BY <2>1, <3>1
    <3> QED BY <2>1, <3>2
  <2>2. CASE p = "timestamp"
    <3>1. Row(p, 0, 1, C[1]) /\ Row(p, 0, 2, C[2]) /\ Row(p, 0, 3, C[3]) /\ Row(p, 0, 4, C[4])
      BY <1>2, <2>2
    <3>2. /\ C[1].op = "lock" /\ C[2].op = "set" /\ C[3].op = "unlock" /\ C[4].op = "set"
          /\ C[4].reg = r
      BY <2>2, <3>1 DEF EnableRow, BodyRow, PutBack, Write
    <3>3. ~L(4)
      BY <3>2
    <3> QED BY <2>2, <3>2, <3>3
  <2>3. CASE p \notin {"sma", "timestamp"}
    <3>1. Row(p, 0, 1, C[1]) /\ Row(p, 0, 2, C[2]) /\ 2 \in 1 .. Length(p)
      <4> USE <2>3
      <4>1. Length(p) \in 2 .. 40
        BY <1>1 DEF ProgramNames
      <4>2. 1 \in 1 .. Length(p) /\ 2 \in 1 .. Length(p)
        <5> HIDE DEF Length
        <5> QED BY <4>1
      <4> HIDE DEF Row, Length
      <4> QED BY <1>2, <4>2
    <3>2. C[1].op # "lock" /\ C[2].op \in {"set", "apply"} /\ C[2].reg = r
      <4>1. CASE p \in {"hash", "dump"}
        BY <3>1, <4>1 DEF EnableRow, BodyRow, PutBack, Write
      <4>2. CASE p \in Toggles
        BY <3>1, <4>2
      <4>3. CASE p \in Kept
        BY <3>1, <4>3
      <4> QED BY <2>3, <4>1, <4>2, <4>3
    <3>3. ~L(2)
      BY <3>2
    <3> QED BY <3>1, <3>2, <3>3
  <2> QED BY <2>1, <2>2, <2>3
<1>4. PICK n \in 1 .. Len(C) : W(n) /\ ~L(n) /\ C[n].reg = r
  BY <1>2, <1>3
<1>5. <<C[n].reg, L(n)>> \in Writes(C)
  BY <1>4 DEF Writes
<1>6. <<C[n].reg, L(n)>> = <<r, FALSE>>
  BY <1>4
<1> HIDE DEF L
<1> QED BY <1>5, <1>6 DEF C

LEMMA CoveredWrites ==
  ASSUME NEW r \in Keys, NEW p, Covered(p, r), p # "reset"
  PROVE  \E b : <<r, b>> \in Writes(Code(p, 0))
<1>1. CASE p \in Open(r)
  BY <1>1, OpenWrites
<1>2. CASE p \in Closed(r)
  <2> DEFINE C == Code(p, 0)
             n == IF r = "flow" THEN Base(p) + 2 ELSE Base(p) + 5
             L(m) == \E k \in 1 .. m : C[k].op = "lock" /\ \A j \in k .. m : C[j].op # "unlock"
  <2>1. p \in {"clear", "delete", "hash", "timestamp"} /\ r \in {"flow", "tb"}
        /\ (r = "tb" => p \in {"clear", "delete"})
    BY <1>2 DEF Closed, Keys
  <2>2. p \in ProgramNames
    BY <2>1 DEF ProgramNames
  <2>3. Len(C) = Length(p) /\ \A k \in 1 .. Length(p) : Row(p, 0, k, C[k])
    BY <2>2, CodeIs
  <2>4. n \in 1 .. Length(p)
    BY <2>1 DEF Base, Length
  <2>5. Row(p, 0, n, C[n])
    BY <2>3, <2>4
  <2> HIDE DEF C
  <2>6. C[n].op \in {"learn", "set"} /\ C[n].reg = r
    <3> USE DEF ClearRow, DeleteRow, TimestampRow, HashRow, EnableRow, BodyRow, Instr, Set, Save, Plain,
            PutBack, Write, Forward, Base, Row, Toggles, Kept
    <3>1. CASE p = "clear" BY <2>1, <2>5, <3>1
    <3>2. CASE p = "delete" BY <2>1, <2>5, <3>2
    <3>3. CASE p = "hash" BY <2>1, <2>5, <3>3
    <3>4. CASE p = "timestamp" BY <2>1, <2>5, <3>4
    <3> QED BY <2>1, <3>1, <3>2, <3>3, <3>4
  <2> HIDE DEF n
  <2>7. <<C[n].reg, L(n)>> \in Writes(C)
    BY <2>3, <2>4, <2>6 DEF Writes
  <2> QED BY <2>6, <2>7 DEF C
<1> QED BY <1>1, <1>2 DEF Covered

LEMMA ConflictIs ==
  ASSUME NEW r \in Keys, NEW p \in Open(r), NEW q, Covered(q, r)
  PROVE  Conflict(p, q) /\ Conflict(q, p)
<1>1. CASE "reset" \in {p, q}
  BY <1>1 DEF Conflict
<1>2. CASE "reset" \notin {p, q}
  <2>1. <<r, FALSE>> \in Writes(Code(p, 0))
    BY <1>2, OpenWrites
  <2>2. PICK b : <<r, b>> \in Writes(Code(q, 0))
    BY <1>2, CoveredWrites
  <2> DEFINE w == <<r, FALSE>>
             x == <<r, b>>
  <2>3. w[1] = x[1] /\ ~(w[2] /\ x[2]) /\ ~(x[2] /\ w[2]) /\ x[1] = w[1]
    OBVIOUS
  <2> HIDE DEF w, x
  <2>4. w \in Writes(Code(p, 0)) /\ x \in Writes(Code(q, 0))
    BY <2>1, <2>2 DEF w, x
  <2> QED BY <2>3, <2>4 DEF Conflict
<1> QED BY <1>1, <1>2

Own(c, r) == Running(c) /\ Owner(cpu[c].prog, cpu[c].pc, r)

LockInv ==
  \A c \in CPUs : Running(c) /\ LockedAt(cpu[c].prog, cpu[c].pc) <=> cah_lock = c

Apart ==
  ~mixed => \A c, d \in CPUs : \A r \in Keys :
    Running(c) /\ Running(d) /\ cpu[c].prog \in Open(r) /\ Covered(cpu[d].prog, r) => c = d

LEMMA OneOwner ==
  ASSUME LockInv, Apart, ~mixed, NEW c \in CPUs, NEW d \in CPUs, NEW r \in Keys, Own(c, r), Own(d, r)
  PROVE  c = d
<1>1. CASE cpu[c].prog \in Open(r)
  BY <1>1 DEF Own, Owner, Apart, Covered
<1>2. CASE cpu[d].prog \in Open(r)
  BY <1>2 DEF Own, Owner, Apart, Covered
<1>3. CASE cpu[c].prog \notin Open(r) /\ cpu[d].prog \notin Open(r)
  BY <1>3 DEF Own, Owner, LockInv
<1> QED BY <1>1, <1>2, <1>3

LEMMA LockInit == Init => LockInv /\ Apart
<1> SUFFICES ASSUME Init PROVE LockInv /\ Apart
  OBVIOUS
<1>1. \A c \in CPUs : ~Running(c)
  BY IdleIs DEF Init, Running
<1>2. \A c \in CPUs : cah_lock # c
  BY NoneIs DEF Init
<1> QED BY <1>1, <1>2 DEF LockInv, Apart

LEMMA LockedEnds == ~LockedAt(None, 0)
BY NoneIs DEF LockedAt, Clearing, ProgramNames

LEMMA LockStep ==
  ASSUME Typed, LockInv, NEW c \in CPUs, Step(c)
  PROVE  LockInv'
<1> DEFINE p == cpu[c].prog
           k == cpu[c].pc
           i == Now(c)
<1>1. /\ Running(c) /\ \A d \in CPUs \ {c} : cpu'[d] = cpu[d]
      /\ \/ Reading(c) /\ i.op \in Fields
         \/ Moving(c) /\ i.op # "save"
         \/ Saving(c) /\ i.op = "save"
         \/ Jumping(c) /\ InBody(c, 3, 3) /\ i.op = "idle"
  BY StepCpu
<1>2. /\ p \in ProgramNames /\ k \in 1 .. Length(p) /\ k \in 1 .. 32 /\ Row(p, cpu[c].arg, k, i)
      /\ cpu[c].arg \in 0 .. 1
  BY <1>1, CodeNow DEF Typed, CpuType
<1>3. /\ i.op = "lock" => ~LockedAt(p, k) /\ LockedAt(p, k + 1) /\ k < Length(p)
      /\ i.op = "unlock" => LockedAt(p, k) /\ ~LockedAt(p, k + 1)
      /\ i.op \notin {"lock", "unlock"} /\ k < Length(p) => (LockedAt(p, k) <=> LockedAt(p, k + 1))
      /\ i.op # "unlock" /\ k = Length(p) => ~LockedAt(p, k)
      /\ i.op = "idle" => LockedAt(p, k) /\ LockedAt(p, Base(p) + 11)
  BY <1>2, RowLocks
<1>4. \/ i.op = "lock" /\ cah_lock = None /\ cah_lock' = c
      \/ i.op = "unlock" /\ cah_lock' = None
      \/ i.op \notin {"lock", "unlock"} /\ cah_lock' = cah_lock
  BY Zenon DEF Step, SkipWrite, Skipped, Read, WriteField, SaveRegister, WriteRegister, WaitIdle, Lock, Unlock,
       Invalidate, Remove, ChooseSetting, ForwardMacs, Reset, Is, Now
<1>5. p # None /\ c # None
  BY <1>2, NoneIs
<1> DEFINE At(d) == Running(d) /\ LockedAt(cpu[d].prog, cpu[d].pc)
<1>6. \A d \in CPUs \ {c} : At(d)' <=> At(d)
  BY <1>1 DEF Running
<1>7. At(c) <=> LockedAt(p, k)
  BY <1>1
<1>8. \/ i.op = "lock" /\ ~At(c) /\ At(c)'
      \/ i.op = "unlock" /\ At(c) /\ ~At(c)'
      \/ i.op \notin {"lock", "unlock"} /\ (At(c)' <=> At(c))
  <2>1. CASE Reading(c) /\ i.op \in Fields
    <3>1. i.op \notin {"lock", "unlock"}
      BY <2>1 DEF Fields
    <3> QED BY <2>1, <3>1 DEF Reading, Running
  <2>2. CASE Going(c)
    <3>1. At(c)' <=> LockedAt(p, k + 1)
      BY <1>5, <2>2 DEF Going, Running
    <3>2. k < Length(p)
      BY <2>2 DEF Going
    <3> HIDE DEF At, p, k, i
    <3> QED BY <1>3, <1>7, <3>1, <3>2
  <2>3. CASE Ending(c)
    <3>1. ~At(c)' /\ k = Length(p)
      BY <2>3, IdleIs DEF Ending, Running
    <3>2. i.op # "lock"
      BY <1>2, <1>3, <3>1
    <3> HIDE DEF At, p, k, i
    <3> QED BY <1>3, <1>7, <3>1, <3>2
  <2>4. CASE Jumping(c) /\ i.op = "idle"
    <3>1. At(c)'
      BY <1>3, <1>5, <2>4 DEF Jumping, Running
    <3> QED BY <1>3, <1>7, <2>4, <3>1
  <2> QED BY <1>1, <2>1, <2>2, <2>3, <2>4 DEF Moving, Saving
<1>9. \A d \in CPUs : At(d) <=> cah_lock = d
  BY DEF LockInv
<1> HIDE DEF At
<1>10. \A d \in CPUs : At(d)' <=> cah_lock' = d
  <2> TAKE d \in CPUs
  <2>1. d # None
    BY NoneIs
  <2>2. CASE d = c
    BY <1>4, <1>5, <1>8, <1>9, <2>2
  <2>3. CASE d # c
    BY <1>4, <1>6, <1>8, <1>9, <2>1, <2>3
  <2> QED BY <2>2, <2>3
<1> QED BY <1>10 DEF At, LockInv

LEMMA LockNext ==
  ASSUME Typed, LockInv, [Next]_vars
  PROVE  LockInv'
<1>1. ASSUME NEW c \in CPUs, Step(c) PROVE LockInv'
  BY <1>1, LockStep
<1>2. ASSUME NEW c \in CPUs, NEW p \in Programs, NEW v \in Args(p), Start(c, p, v) PROVE LockInv'
  <2>1. /\ \A d \in CPUs \ {c} : cpu'[d] = cpu[d]
        /\ ~Running(c) /\ cpu'[c].prog = p /\ cpu'[c].pc = 1 /\ p \in ProgramNames
    BY <1>2, StartTyped
  <2>2. cah_lock' = cah_lock
    BY <1>2 DEF Start
  <2>3. ~LockedAt(p, 1)
    BY Bases DEF LockedAt
  <2>4. cah_lock # c
    BY <2>1 DEF LockInv
  <2> QED BY <2>1, <2>2, <2>3, <2>4 DEF LockInv, Running
<1>3. CASE Outside \/ UNCHANGED vars
  <2>1. UNCHANGED <<cpu, cah_lock>>
    BY <1>3, OutsideTyped
  <2> QED BY <2>1 DEF LockInv, Running
<1> QED BY <1>1, <1>2, <1>3, NextCases

LEMMA ApartNext ==
  ASSUME Typed, Apart, [Next]_vars
  PROVE  Apart'
<1>1. ASSUME NEW c \in CPUs, Step(c) PROVE Apart'
  <2>1. /\ \A d \in CPUs : cpu'[d].prog \in {cpu[d].prog, None}
        /\ mixed' = mixed
    <3>1. cpu'[c].prog \in {cpu[c].prog, None}
      BY <1>1, StepCpu, CpuStays
    <3>2. mixed' = mixed
      BY <1>1, Zenon DEF Step, SkipWrite, Read, WriteField, SaveRegister, WriteRegister, WaitIdle, Lock, Unlock, Invalidate,
           Remove, ChooseSetting, ForwardMacs, Reset
    <3> QED BY <1>1, <3>1, <3>2, StepCpu
  <2>2. \A d \in CPUs : Running(d)' => Running(d) /\ cpu'[d].prog = cpu[d].prog
    BY <2>1 DEF Running
  <2> QED BY <2>1, <2>2 DEF Apart
<1>2. ASSUME NEW c \in CPUs, NEW p \in Programs, NEW v \in Args(p), Start(c, p, v) PROVE Apart'
  <2>1. /\ \A d \in CPUs \ {c} : cpu'[d] = cpu[d]
        /\ cpu'[c].prog = p
    BY <1>2, StartTyped
  <2> SUFFICES ASSUME ~mixed', NEW a \in CPUs, NEW b \in CPUs, NEW r \in Keys, Running(a)', Running(b)',
                      cpu'[a].prog \in Open(r), Covered(cpu'[b].prog, r), a # b
               PROVE  FALSE
    BY DEF Apart
  <2>2. ~mixed /\ \A d \in CPUs \ {c} : Running(d) => ~Conflict(p, cpu[d].prog)
    BY <1>2 DEF Start, Running
  <2>3. CASE a = c
    <3>1. b \in CPUs \ {c} /\ Running(b) /\ Covered(cpu[b].prog, r) /\ p \in Open(r)
      BY <2>1, <2>3 DEF Running
    <3> QED BY <2>2, <3>1, ConflictIs
  <2>4. CASE b = c
    <3>1. a \in CPUs \ {c} /\ Running(a) /\ cpu[a].prog \in Open(r) /\ Covered(p, r)
      BY <2>1, <2>4 DEF Running
    <3> QED BY <2>2, <3>1, ConflictIs
  <2>5. CASE a # c /\ b # c
    BY <2>1, <2>2, <2>5 DEF Apart, Running
  <2> QED BY <2>3, <2>4, <2>5
<1>3. CASE Outside \/ UNCHANGED vars
  <2>1. UNCHANGED <<cpu, mixed>>
    BY <1>3, OutsideTyped
  <2> QED BY <2>1 DEF Apart, Running
<1> QED BY <1>1, <1>2, <1>3, NextCases
-------------------------------------------------------------------------------
(***************************************************************************)
(* What the engine needs and what was chosen, and which programs have, at  *)
(* which step, taken it away.  All of them own its register there.         *)
(***************************************************************************)
Items == {"nat", "scan", "age", "en", "macs"} \cup Kept

(* The register and the field of an item; the MACs' are not the engine's.   *)
Spot(x) ==
  CASE x = "nat" -> <<"flow", "nat">>
    [] x = "scan" -> <<"tb", "scan">>
    [] x = "age" -> <<"tb", "age">>
    [] x = "en" -> <<"cah", "en">>
    [] x = "macs" -> <<"none", "none">>
    [] OTHER -> Place[x]

Home(x) == IF x = "macs" THEN "tb" ELSE Key(Spot(x)[1])

Value(x) == reg[Spot(x)[1]][Spot(x)[2]]

Holds(x) ==
  CASE x = "macs" -> gdm = 1
    [] x = "scan" -> Value(x) = 2
    [] x \in Kept -> Value(x) = Wished(x)
    [] OTHER -> Value(x) = 1

(* The instruction of a reset that restores an item.                        *)
ResetAt(x) ==
  CASE x = "nat" -> 4 [] x = "age" -> 6 [] x = "udp" -> 7 [] x = "fin" -> 8 [] x = "tcp" -> 9
    [] x = "scan" -> 10 [] x = "tcp_ka" -> 11 [] x = "udp_ka" -> 12 [] x = "threshold" -> 13
    [] x = "en" -> 28 [] x = "cport" -> 30 [] x = "prot_3t" -> 31 [] OTHER -> 32

(* Program p has taken item x away when it is at instruction k.             *)
AwayAt(x, p, k) ==
  \/ p = "reset" /\ k \in 2 .. ResetAt(x)
  \/ x = "nat" /\ p \in Clearing /\ k \in Base(p) + 3 .. Base(p) + 11
  \/ x = "scan" /\ p \in Clearing /\ k \in Base(p) + 6 .. Base(p) + 10
  \/ x = "scan" /\ p = "dump" /\ k \in 3 .. 6
  \/ x = "age" /\ p = "timestamp" /\ k = 5
  \/ x = "en" /\ p \in Clearing /\ k \in Base(p) + 8 .. Base(p) + 9
  \/ x = "en" /\ p = "dump" /\ k = 5
  \/ x = "en" /\ p = "timestamp" /\ k \in 3 .. 18
  \/ x = "macs" /\ p = "hash" /\ k \in 2 .. 18
  \/ x \in Kept /\ p = x /\ k = 2

Away(x, c) == AwayAt(x, cpu[c].prog, cpu[c].pc)

ItemInv(x) == Holds(x) \/ \E c \in CPUs : Away(x, c)

(* What a CPU has read or saved is what belongs there.                      *)
SavedOK(c) ==
  /\ InBody(c, 2, 11) => cpu[c].saved.flow["nat"] = 1
  /\ InBody(c, 2, 11) /\ cpu[c].prog # "reset" => cpu[c].saved.flow["blist"] = soft["prot_3t"]
  /\ InBody(c, 5, 10) \/ InDump(c, 2, 6) => cpu[c].saved.tb["scan"] = 2
  /\ (InBody(c, 7, 9) /\ cpu[c].prog \notin {"timestamp", "reset"}) \/ InDump(c, 4, 5) =>
       cpu[c].saved.cah["en"] = 1
  /\ cpu[c].prog \in Kept /\ cpu[c].pc = 2 => soft[cpu[c].prog] = cpu[c].arg

ReadOK(c) ==
  cpu[c].tmp # None => /\ cpu[c].tmp = reg[Now(c).reg]
                       /\ Now(c).op = "apply" => soft[Now(c).val] = Wished(Now(c).val)

(* The second engine never leaves the ADMA port.                            *)
PortKept == ppe_id = 1 => reg["cport"]["sp"] = PSE_ADMA_PORT

Good ==
  /\ PortKept
  /\ \A c \in CPUs : SavedOK(c) /\ ReadOK(c)
  /\ \A x \in Items : ItemInv(x)

GoodInv == ~mixed => Good
(* Where the settings are written, and what is written to the port.         *)
LEMMA RowPort ==
  ASSUME NEW p \in ProgramNames, NEW v \in 0 .. 1, NEW k \in 1 .. Length(p), NEW i, Row(p, v, k, i)
  PROVE  /\ i.op = "apply" => i.val \in Kept /\ i.reg = Place[i.val][1] /\ i.field = Place[i.val][2]
         /\ i.op = "apply" /\ i.val = "cport" => i.reg = "cport" /\ i.field = "sp"
         /\ i.op \in Fields /\ i.reg = "cport" =>
              (i.op = "set" /\ i.val = 0) \/ (i.op = "apply" /\ i.val = "cport")
<1> USE DEF ClearRow, DeleteRow, DumpRow, TimestampRow, ResetRow, HashRow, ToggleRow, SettingRow,
        EnableRow, BodyRow, Instr, Set, Apply, Choose, Save, PutBack, Plain, Write, Forward, Fields, Place
<1>1. CASE p = "clear" BY <1>1 DEF Row, Toggles, Kept
<1>2. CASE p = "delete" BY <1>2 DEF Row, Toggles, Kept
<1>3. CASE p = "dump" BY <1>3 DEF Row, Toggles, Kept
<1>4. CASE p = "timestamp" BY <1>4 DEF Row, Toggles, Kept
<1>5. CASE p = "reset" BY <1>5 DEF Row, Toggles, Kept
<1>6. CASE p = "hash" BY <1>6 DEF Row, Toggles, Kept
<1>7. CASE p = "sma" BY <1>7 DEF Row, Toggles, Kept
<1>8. CASE p \in Toggles BY <1>8 DEF Row, Toggles, Kept
<1>9. CASE p \in Kept BY <1>9 DEF Row, Toggles, Kept
<1> QED BY <1>1, <1>2, <1>3, <1>4, <1>5, <1>6, <1>7, <1>8, <1>9 DEF ProgramNames, Toggles
-------------------------------------------------------------------------------
(***************************************************************************)
(* What a step does to the registers.                                      *)
(***************************************************************************)
SetsField(c) ==
  /\ Moving(c) /\ Now(c).op \in Fields
  /\ \A r \in Registers : \A f \in DOMAIN Fresh[r] :
       reg'[r][f] = IF r = Now(c).reg /\ f = Now(c).field THEN NewValue(c) ELSE reg[r][f]

PutsFlow(c) ==
  /\ Moving(c) /\ Now(c).op = "write" /\ reg'["flow"] = cpu[c].saved.flow
  /\ \A r \in Registers \ {"flow"} : reg'[r] = reg[r]

StopsLearning(c) ==
  /\ Moving(c) /\ Now(c).op = "learn" /\ reg'["flow"]["blist"] = cpu[c].saved.flow["blist"]
  /\ \A r \in Registers \ {"flow"} : reg'[r] = reg[r]

Resets(c) == Moving(c) /\ Now(c).op = "reset"

Leaves(c) ==
  /\ reg' = reg
  /\ \/ Reading(c) /\ Now(c).op \in Fields
     \/ Moving(c) /\ Now(c).op \notin Fields \cup {"save", "write", "learn", "reset"}
     \/ Saving(c) /\ Now(c).op = "save"
     \/ Jumping(c) /\ InBody(c, 3, 3) /\ Now(c).op = "idle"

(* The second engine is not told of the TDMA port.                          *)
Skips(c) == Moving(c) /\ reg' = reg /\ Now(c).op = "apply" /\ Now(c).val = "cport" /\ ppe_id = 1

LEMMA Effect ==
  ASSUME Typed, NEW c \in CPUs, Step(c), ReadOK(c)
  PROVE  /\ SetsField(c) \/ PutsFlow(c) \/ StopsLearning(c) \/ Resets(c) \/ Leaves(c) \/ Skips(c)
         /\ SetsField(c) /\ Now(c).op = "apply" =>
              Skips(c) \/ soft[Now(c).val] = Wished(Now(c).val)
         /\ ppe_id' = ppe_id
         /\ IF Now(c).op = "forward" THEN gdm' = Now(c).val ELSE Now(c).op = "reset" \/ gdm' = gdm
         /\ IF Now(c).op = "choose" THEN soft' = [soft EXCEPT ![Now(c).field] = Now(c).val] ELSE soft' = soft
         /\ mixed' = mixed
<1>1. CASE WriteField(c)
  <2> DEFINE r == Now(c).reg
             g == Now(c).field
             x == [cpu[c].tmp EXCEPT ![g] = NewValue(c)]
  <2>1. Running(c) /\ Now(c).op \in Fields /\ cpu[c].tmp # None /\ Advance(c)
    BY <1>1 DEF WriteField, Is, Running, Now, Fields
  <2>2. cpu[c].tmp \in RegType(r) /\ cpu[c].tmp = reg[r]
    BY <2>1 DEF Typed, CpuOK, ReadOK
  <2>3. reg' = [reg EXCEPT ![r] = x]
    BY <1>1 DEF WriteField
  <2>4. \A f \in DOMAIN Fresh[r] : x[f] = IF f = g THEN NewValue(c) ELSE reg[r][f]
    BY <2>2 DEF RegType
  <2> HIDE DEF x, r, g
  <2>5. DOMAIN reg = Registers
    BY DEF Typed, RegsOK
  <2>6. \A q \in Registers : reg'[q] = IF q = r THEN x ELSE reg[q]
    BY <2>3, <2>5
  <2>7. \A q \in Registers : \A f \in DOMAIN Fresh[q] :
          reg'[q][f] = IF q = r /\ f = g THEN NewValue(c) ELSE reg[q][f]
    BY <2>4, <2>6
  <2>8. SetsField(c)
    BY <2>1, <2>7, AdvanceIs DEF SetsField, r, g
  <2>9. Now(c).op = "apply" => soft[Now(c).val] = Wished(Now(c).val)
    BY <2>1 DEF ReadOK
  <2> QED BY <1>1, <2>1, <2>8, <2>9 DEF WriteField, Fields
<1>2. CASE WriteRegister(c)
  <2>1. Running(c) /\ Now(c).op \in {"write", "learn"} /\ Advance(c)
    BY <1>2 DEF WriteRegister, Is, Running, Now
  <2>2. /\ cpu[c].prog \in ProgramNames /\ cpu[c].pc \in 1 .. Length(cpu[c].prog)
        /\ cpu[c].pc \in 1 .. 32 /\ Row(cpu[c].prog, cpu[c].arg, cpu[c].pc, Now(c))
        /\ cpu[c].arg \in 0 .. 1
    BY <2>1, CodeNow DEF Typed, CpuType
  <2>3. Now(c).reg = "flow"
    BY <2>1, <2>2, RowOps
  <2> DEFINE y == IF Is(c, "write") THEN cpu[c].saved["flow"]
                  ELSE [f \in DOMAIN reg["flow"] |->
                          IF f = "no_dsl" THEN 1
                          ELSE IF f = "blist" THEN cpu[c].saved["flow"][f] ELSE 0]
  <2>4. reg' = [reg EXCEPT !["flow"] = y]
    BY <1>2, <2>3 DEF WriteRegister
  <2>5. Now(c).op = "write" => y = cpu[c].saved.flow
    BY <2>1 DEF Is, Now, Running
  <2>6. Now(c).op = "learn" => y["blist"] = cpu[c].saved.flow["blist"]
    BY <2>1, FreshIs DEF Is, Now, Typed, RegsOK, RegType
  <2> HIDE DEF y
  <2>7. reg'["flow"] = y /\ \A r \in Registers \ {"flow"} : reg'[r] = reg[r]
    BY <2>4, FreshIs DEF Typed, RegsOK
  <2>8. Moving(c)
    BY <2>1, AdvanceIs
  <2> QED BY <1>2, <2>1, <2>5, <2>6, <2>7, <2>8 DEF PutsFlow, StopsLearning, WriteRegister, SetsField, Fields
<1>3. CASE Reset(c)
  <2>1. Running(c) /\ Now(c).op = "reset" /\ Advance(c)
    BY <1>3 DEF Reset, Is, Running, Now
  <2> QED BY <1>3, <2>1, AdvanceIs DEF Resets, Reset, SetsField, Fields
<1>4. CASE Read(c) \/ SaveRegister(c) \/ WaitIdle(c) \/ Lock(c)
  <2>1. Now(c).op \in Fields \cup {"save", "idle", "lock"} /\ UNCHANGED <<ppe_id, reg, gdm, soft, mixed>>
    BY <1>4 DEF Read, SaveRegister, WaitIdle, Lock, Is, Now, Fields
  <2>2. Now(c).op \in Fields => Reading(c)
    <3>1. Now(c).op \in Fields => Read(c)
      BY <1>4 DEF SaveRegister, WaitIdle, Lock, Is, Now, Fields
    <3> QED BY <3>1, ReadIs
  <2>3. Running(c) /\ cpu[c].pc \in 1 .. 32
    BY StepCpu, CodeNow
  <2>4. ~(Now(c).op \in Fields /\ Moving(c))
    BY <2>2, <2>3, IdleIs DEF Reading, Moving, Going, Ending, Running
  <2> QED BY <2>1, <2>2, <2>4, StepCpu DEF Leaves, Fields, SetsField
<1>5. CASE Unlock(c) \/ Invalidate(c) \/ Remove(c)
  <2>1. /\ Now(c).op \in {"unlock", "invalidate", "delete", "empty"} /\ UNCHANGED <<ppe_id, reg, gdm, soft, mixed>>
        /\ Running(c) /\ Advance(c)
    BY <1>5 DEF Unlock, Invalidate, Remove, Is, Now, Running
  <2> QED BY <2>1, AdvanceIs DEF Leaves, Fields, SetsField
<1>6. CASE ChooseSetting(c) \/ ForwardMacs(c)
  <2>1. /\ Now(c).op \in {"choose", "forward"} /\ UNCHANGED <<ppe_id, reg, mixed>> /\ Running(c) /\ Advance(c)
    BY <1>6 DEF ChooseSetting, ForwardMacs, Is, Now, Running
  <2>2. Leaves(c)
    BY <2>1, AdvanceIs DEF Leaves, Fields
  <2> QED BY <1>6, <2>1, <2>2 DEF ChooseSetting, ForwardMacs, Is, Now, SetsField, Fields
<1>7. CASE SkipWrite(c)
  <2>1. /\ Now(c).op = "apply" /\ Now(c).val = "cport" /\ ppe_id = 1
        /\ UNCHANGED <<ppe_id, reg, gdm, soft, mixed>> /\ Running(c) /\ Advance(c)
    BY <1>7 DEF SkipWrite, Skipped, Is, Now, Running
  <2>2. Skips(c)
    BY <2>1, AdvanceIs DEF Skips
  <2> QED BY <2>1, <2>2
<1> QED BY <1>1, <1>2, <1>3, <1>4, <1>5, <1>6, <1>7 DEF Step

(* Who changes a register, the MACs or a setting owns it.                   *)
LEMMA Touches ==
  ASSUME Typed, NEW c \in CPUs, Step(c), ReadOK(c)
  PROVE  /\ \A r \in Registers : reg'[r] = reg[r] \/ Own(c, Key(r))
         /\ gdm' = gdm \/ Own(c, "tb")
         /\ \A s \in Kept : soft'[s] = soft[s] \/ (Own(c, Place[s][1]) /\ cpu[c].prog = s /\ cpu[c].pc = 1)
<1> DEFINE p == cpu[c].prog
           k == cpu[c].pc
           i == Now(c)
<1>1. /\ Running(c) /\ p \in ProgramNames /\ k \in 1 .. Length(p) /\ k \in 1 .. 32
      /\ Row(p, cpu[c].arg, k, i) /\ cpu[c].arg \in 0 .. 1
  BY StepCpu, CodeNow DEF Typed, CpuType
<1>2. /\ i.op \in {"set", "apply", "putback", "save", "write", "learn"} => Owner(p, k, Key(i.reg)) /\ Key(i.reg) \in Keys
      /\ i.op = "forward" => Owner(p, k, "tb")
      /\ i.op = "choose" /\ p \in Kept => Owner(p, k, Place[p][1])
      /\ i.op = "reset" => \A r \in Keys : Owner(p, k, r)
  BY <1>1, RowOwner
<1>3. /\ i.op \in Fields => i.reg \in Registers /\ i.field \in DOMAIN Fresh[i.reg]
      /\ i.op = "choose" => k = 1 /\ i.field = p /\ i.val = cpu[c].arg /\ p \in Kept \cup Toggles
  BY <1>1, RowFields
<1>4. i.op \in {"write", "learn"} => i.reg = "flow"
  BY <1>1, RowOps
<1>5. \A r \in Registers : Key(r) \in Keys
  BY FreshIs DEF Key, Keys
<1>6. ASSUME NEW r \in Registers PROVE reg'[r] = reg[r] \/ Own(c, Key(r))
  <2>1. CASE SetsField(c)
    <3>1. CASE r = i.reg
      BY <1>1, <1>2, <2>1, <3>1 DEF SetsField, Fields, Own
    <3>2. CASE r # i.reg
      <4>1. \A f \in DOMAIN Fresh[r] : reg'[r][f] = reg[r][f]
        BY <2>1, <3>2 DEF SetsField
      <4>2. reg[r] \in RegType(r) /\ reg'[r] \in RegType(r)
        BY StepTyped DEF Typed, RegsOK
      <4>3. reg'[r] = reg[r]
        BY <4>1, <4>2 DEF RegType
      <4> QED BY <4>3
    <3> QED BY <3>1, <3>2
  <2>2. CASE PutsFlow(c) \/ StopsLearning(c)
    <3>1. r = "flow" => Own(c, Key(r))
      BY <1>1, <1>2, <1>4, <2>2 DEF PutsFlow, StopsLearning, Own
    <3> QED BY <2>2, <3>1 DEF PutsFlow, StopsLearning
  <2>3. CASE Resets(c)
    BY <1>1, <1>2, <1>5, <2>3 DEF Resets, Own
  <2>4. CASE Leaves(c) \/ Skips(c)
    BY <2>4 DEF Leaves, Skips
  <2> QED BY <2>1, <2>2, <2>3, <2>4, Effect
<1>7. gdm' = gdm \/ Own(c, "tb")
  <2>1. "tb" \in Keys
    BY DEF Keys
  <2> QED BY <1>1, <1>2, <2>1, Effect DEF Own
<1>8. ASSUME NEW s \in Kept
      PROVE  soft'[s] = soft[s] \/ (Own(c, Place[s][1]) /\ cpu[c].prog = s /\ cpu[c].pc = 1)
  <2>1. CASE i.op = "choose" /\ p = s
    BY <1>1, <1>2, <1>3, <2>1 DEF Own
  <2>2. CASE i.op = "choose" /\ p # s
    BY <1>3, <2>2, Effect DEF Typed
  <2>3. CASE i.op # "choose"
    BY <2>3, Effect
  <2> QED BY <2>1, <2>2, <2>3
<1> QED BY <1>6, <1>7, <1>8
-------------------------------------------------------------------------------
(***************************************************************************)
(* The instructions that change an item, and the way through a program     *)
(* that has taken it away.                                                 *)
(***************************************************************************)
Does(x, i) ==
  \/ i.op \in Fields /\ i.reg = Spot(x)[1] /\ i.field = Spot(x)[2]
  \/ i.op \in {"write", "learn"} /\ Spot(x)[1] = "flow"
  \/ i.op = "forward" /\ x = "macs"
  \/ i.op = "choose" /\ x \in Kept /\ i.field = x

LEMMA NatStrays ==
  ASSUME NEW p \in ProgramNames, NEW v \in 0 .. 1, NEW k \in 1 .. Length(p), NEW i, Row(p, v, k, i)
  PROVE  /\ AwayAt("nat", p, k) /\ ~Does("nat", i) => k < Length(p) /\ AwayAt("nat", p, k + 1)
         /\ i.op = "idle" /\ AwayAt("nat", p, k) => AwayAt("nat", p, Base(p) + 11)
         /\ i.op = "reset" => k < Length(p) /\ AwayAt("nat", p, k + 1)
<1> USE DEF ClearRow, DeleteRow, DumpRow, TimestampRow, ResetRow, HashRow, ToggleRow, SettingRow,
        EnableRow, BodyRow, Instr, Set, Apply, Choose, Save, PutBack, Plain, Write, Forward, Clearing, Base,
        Length, AwayAt, ResetAt, Does, Fields, Spot
<1>1. CASE p = "clear" BY <1>1 DEF Row, Toggles, Kept
<1>2. CASE p = "delete" BY <1>2 DEF Row, Toggles, Kept
<1>3. CASE p = "dump" BY <1>3 DEF Row, Toggles, Kept
<1>4. CASE p = "timestamp" BY <1>4 DEF Row, Toggles, Kept
<1>5. CASE p = "reset" BY <1>5 DEF Row, Toggles, Kept
<1>6. CASE p = "hash" BY <1>6 DEF Row, Toggles, Kept
<1>7. CASE p = "sma" BY <1>7 DEF Row, Toggles, Kept
<1>8. CASE p \in Toggles BY <1>8 DEF Row, Toggles, Kept
<1>9. CASE p \in Kept BY <1>9 DEF Row, Toggles, Kept
<1> QED BY <1>1, <1>2, <1>3, <1>4, <1>5, <1>6, <1>7, <1>8, <1>9 DEF ProgramNames, Toggles

LEMMA ScanStrays ==
  ASSUME NEW p \in ProgramNames, NEW v \in 0 .. 1, NEW k \in 1 .. Length(p), NEW i, Row(p, v, k, i)
  PROVE  /\ AwayAt("scan", p, k) /\ ~Does("scan", i) => k < Length(p) /\ AwayAt("scan", p, k + 1)
         /\ i.op = "idle" /\ AwayAt("scan", p, k) => AwayAt("scan", p, Base(p) + 11)
         /\ i.op = "reset" => k < Length(p) /\ AwayAt("scan", p, k + 1)
<1> USE DEF ClearRow, DeleteRow, DumpRow, TimestampRow, ResetRow, HashRow, ToggleRow, SettingRow,
        EnableRow, BodyRow, Instr, Set, Apply, Choose, Save, PutBack, Plain, Write, Forward, Clearing, Base,
        Length, AwayAt, ResetAt, Does, Fields, Spot
<1>1. CASE p = "clear" BY <1>1 DEF Row, Toggles, Kept
<1>2. CASE p = "delete" BY <1>2 DEF Row, Toggles, Kept
<1>3. CASE p = "dump" BY <1>3 DEF Row, Toggles, Kept
<1>4. CASE p = "timestamp" BY <1>4 DEF Row, Toggles, Kept
<1>5. CASE p = "reset" BY <1>5 DEF Row, Toggles, Kept
<1>6. CASE p = "hash" BY <1>6 DEF Row, Toggles, Kept
<1>7. CASE p = "sma" BY <1>7 DEF Row, Toggles, Kept
<1>8. CASE p \in Toggles BY <1>8 DEF Row, Toggles, Kept
<1>9. CASE p \in Kept BY <1>9 DEF Row, Toggles, Kept
<1> QED BY <1>1, <1>2, <1>3, <1>4, <1>5, <1>6, <1>7, <1>8, <1>9 DEF ProgramNames, Toggles

LEMMA AgeStrays ==
  ASSUME NEW p \in ProgramNames, NEW v \in 0 .. 1, NEW k \in 1 .. Length(p), NEW i, Row(p, v, k, i)
  PROVE  /\ AwayAt("age", p, k) /\ ~Does("age", i) => k < Length(p) /\ AwayAt("age", p, k + 1)
         /\ i.op = "idle" /\ AwayAt("age", p, k) => AwayAt("age", p, Base(p) + 11)
         /\ i.op = "reset" => k < Length(p) /\ AwayAt("age", p, k + 1)
<1> USE DEF ClearRow, DeleteRow, DumpRow, TimestampRow, ResetRow, HashRow, ToggleRow, SettingRow,
        EnableRow, BodyRow, Instr, Set, Apply, Choose, Save, PutBack, Plain, Write, Forward, Clearing, Base,
        Length, AwayAt, ResetAt, Does, Fields, Spot
<1>1. CASE p = "clear" BY <1>1 DEF Row, Toggles, Kept
<1>2. CASE p = "delete" BY <1>2 DEF Row, Toggles, Kept
<1>3. CASE p = "dump" BY <1>3 DEF Row, Toggles, Kept
<1>4. CASE p = "timestamp" BY <1>4 DEF Row, Toggles, Kept
<1>5. CASE p = "reset" BY <1>5 DEF Row, Toggles, Kept
<1>6. CASE p = "hash" BY <1>6 DEF Row, Toggles, Kept
<1>7. CASE p = "sma" BY <1>7 DEF Row, Toggles, Kept
<1>8. CASE p \in Toggles BY <1>8 DEF Row, Toggles, Kept
<1>9. CASE p \in Kept BY <1>9 DEF Row, Toggles, Kept
<1> QED BY <1>1, <1>2, <1>3, <1>4, <1>5, <1>6, <1>7, <1>8, <1>9 DEF ProgramNames, Toggles

LEMMA CacheStrays ==
  ASSUME NEW p \in ProgramNames, NEW v \in 0 .. 1, NEW k \in 1 .. Length(p), NEW i, Row(p, v, k, i)
  PROVE  /\ AwayAt("en", p, k) /\ ~Does("en", i) => k < Length(p) /\ AwayAt("en", p, k + 1)
         /\ i.op = "idle" /\ AwayAt("en", p, k) => AwayAt("en", p, Base(p) + 11)
         /\ i.op = "reset" => k < Length(p) /\ AwayAt("en", p, k + 1)
<1> USE DEF ClearRow, DeleteRow, DumpRow, TimestampRow, ResetRow, HashRow, ToggleRow, SettingRow,
        EnableRow, BodyRow, Instr, Set, Apply, Choose, Save, PutBack, Plain, Write, Forward, Clearing, Base,
        Length, AwayAt, ResetAt, Does, Fields, Spot
<1>1. CASE p = "clear" BY <1>1 DEF Row, Toggles, Kept
<1>2. CASE p = "delete" BY <1>2 DEF Row, Toggles, Kept
<1>3. CASE p = "dump" BY <1>3 DEF Row, Toggles, Kept
<1>4. CASE p = "timestamp" BY <1>4 DEF Row, Toggles, Kept
<1>5. CASE p = "reset" BY <1>5 DEF Row, Toggles, Kept
<1>6. CASE p = "hash" BY <1>6 DEF Row, Toggles, Kept
<1>7. CASE p = "sma" BY <1>7 DEF Row, Toggles, Kept
<1>8. CASE p \in Toggles BY <1>8 DEF Row, Toggles, Kept
<1>9. CASE p \in Kept BY <1>9 DEF Row, Toggles, Kept
<1> QED BY <1>1, <1>2, <1>3, <1>4, <1>5, <1>6, <1>7, <1>8, <1>9 DEF ProgramNames, Toggles

LEMMA MacsStrays ==
  ASSUME NEW p \in ProgramNames, NEW v \in 0 .. 1, NEW k \in 1 .. Length(p), NEW i, Row(p, v, k, i)
  PROVE  /\ AwayAt("macs", p, k) /\ ~Does("macs", i) => k < Length(p) /\ AwayAt("macs", p, k + 1)
         /\ i.op = "idle" /\ AwayAt("macs", p, k) => AwayAt("macs", p, Base(p) + 11)
         /\ i.op = "reset" => k < Length(p) /\ AwayAt("macs", p, k + 1)
<1> USE DEF ClearRow, DeleteRow, DumpRow, TimestampRow, ResetRow, HashRow, ToggleRow, SettingRow,
        EnableRow, BodyRow, Instr, Set, Apply, Choose, Save, PutBack, Plain, Write, Forward, Clearing, Base,
        Length, AwayAt, ResetAt, Does, Fields, Spot
<1>1. CASE p = "clear" BY <1>1 DEF Row, Toggles, Kept
<1>2. CASE p = "delete" BY <1>2 DEF Row, Toggles, Kept
<1>3. CASE p = "dump" BY <1>3 DEF Row, Toggles, Kept
<1>4. CASE p = "timestamp" BY <1>4 DEF Row, Toggles, Kept
<1>5. CASE p = "reset" BY <1>5 DEF Row, Toggles, Kept
<1>6. CASE p = "hash" BY <1>6 DEF Row, Toggles, Kept
<1>7. CASE p = "sma" BY <1>7 DEF Row, Toggles, Kept
<1>8. CASE p \in Toggles BY <1>8 DEF Row, Toggles, Kept
<1>9. CASE p \in Kept BY <1>9 DEF Row, Toggles, Kept
<1> QED BY <1>1, <1>2, <1>3, <1>4, <1>5, <1>6, <1>7, <1>8, <1>9 DEF ProgramNames, Toggles

LEMMA SettingStrays ==
  ASSUME NEW x \in Kept,
         NEW p \in ProgramNames, NEW v \in 0 .. 1, NEW k \in 1 .. Length(p), NEW i, Row(p, v, k, i)
  PROVE  /\ AwayAt(x, p, k) /\ ~Does(x, i) => k < Length(p) /\ AwayAt(x, p, k + 1)
         /\ i.op = "idle" /\ AwayAt(x, p, k) => AwayAt(x, p, Base(p) + 11)
         /\ i.op = "reset" => k < Length(p) /\ AwayAt(x, p, k + 1)
<1> USE DEF ClearRow, DeleteRow, DumpRow, TimestampRow, ResetRow, HashRow, ToggleRow, SettingRow,
        EnableRow, BodyRow, Instr, Set, Apply, Choose, Save, PutBack, Plain, Write, Forward, Clearing, Base,
        Length, AwayAt, ResetAt, Does, Fields, Spot, Place
<1>1. CASE p = "clear" BY <1>1 DEF Row, Toggles, Kept
<1>2. CASE p = "delete" BY <1>2 DEF Row, Toggles, Kept
<1>3. CASE p = "dump" BY <1>3 DEF Row, Toggles, Kept
<1>4. CASE p = "timestamp" BY <1>4 DEF Row, Toggles, Kept
<1>5. CASE p = "reset" BY <1>5 DEF Row, Toggles, Kept
<1>6. CASE p = "hash" BY <1>6 DEF Row, Toggles, Kept
<1>7. CASE p = "sma" BY <1>7 DEF Row, Toggles, Kept
<1>8. CASE p \in Toggles BY <1>8 DEF Row, Toggles, Kept
<1>9. CASE p \in Kept BY <1>9 DEF Row, Toggles, Kept
<1> QED BY <1>1, <1>2, <1>3, <1>4, <1>5, <1>6, <1>7, <1>8, <1>9 DEF ProgramNames, Toggles

(* The item is gone after the change, or it is right.                      *)
LEMMA NatDoes ==
  ASSUME NEW p \in ProgramNames, NEW v \in 0 .. 1, NEW k \in 1 .. Length(p), NEW i, Row(p, v, k, i), Does("nat", i)
  PROVE  \/ k < Length(p) /\ AwayAt("nat", p, k + 1)
         \/ i.op = "set" /\ i.val = 1
         \/ i.op = "write" /\ p \in Clearing /\ k = Base(p) + 11
<1> USE DEF ClearRow, DeleteRow, DumpRow, TimestampRow, ResetRow, HashRow, ToggleRow, SettingRow,
        EnableRow, BodyRow, Instr, Set, Apply, Choose, Save, PutBack, Plain, Write, Forward, Clearing, Base,
        Length, AwayAt, ResetAt, Does, Fields, Spot, Place
<1>1. CASE p = "clear" BY <1>1 DEF Row, Toggles, Kept
<1>2. CASE p = "delete" BY <1>2 DEF Row, Toggles, Kept
<1>3. CASE p = "dump" BY <1>3 DEF Row, Toggles, Kept
<1>4. CASE p = "timestamp" BY <1>4 DEF Row, Toggles, Kept
<1>5. CASE p = "reset" BY <1>5 DEF Row, Toggles, Kept
<1>6. CASE p = "hash" BY <1>6 DEF Row, Toggles, Kept
<1>7. CASE p = "sma" BY <1>7 DEF Row, Toggles, Kept
<1>8. CASE p \in Toggles BY <1>8 DEF Row, Toggles, Kept
<1>9. CASE p \in Kept BY <1>9 DEF Row, Toggles, Kept
<1> QED BY <1>1, <1>2, <1>3, <1>4, <1>5, <1>6, <1>7, <1>8, <1>9 DEF ProgramNames, Toggles

LEMMA ScanDoes ==
  ASSUME NEW p \in ProgramNames, NEW v \in 0 .. 1, NEW k \in 1 .. Length(p), NEW i, Row(p, v, k, i), Does("scan", i)
  PROVE  \/ k < Length(p) /\ AwayAt("scan", p, k + 1)
         \/ i.op = "set" /\ i.val = 2
         \/ i.op = "putback" /\ ((p \in Clearing /\ k = Base(p) + 10) \/ (p = "dump" /\ k = 6))
<1> USE DEF ClearRow, DeleteRow, DumpRow, TimestampRow, ResetRow, HashRow, ToggleRow, SettingRow,
        EnableRow, BodyRow, Instr, Set, Apply, Choose, Save, PutBack, Plain, Write, Forward, Clearing, Base,
        Length, AwayAt, ResetAt, Does, Fields, Spot, Place
<1>1. CASE p = "clear" BY <1>1 DEF Row, Toggles, Kept
<1>2. CASE p = "delete" BY <1>2 DEF Row, Toggles, Kept
<1>3. CASE p = "dump" BY <1>3 DEF Row, Toggles, Kept
<1>4. CASE p = "timestamp" BY <1>4 DEF Row, Toggles, Kept
<1>5. CASE p = "reset" BY <1>5 DEF Row, Toggles, Kept
<1>6. CASE p = "hash" BY <1>6 DEF Row, Toggles, Kept
<1>7. CASE p = "sma" BY <1>7 DEF Row, Toggles, Kept
<1>8. CASE p \in Toggles BY <1>8 DEF Row, Toggles, Kept
<1>9. CASE p \in Kept BY <1>9 DEF Row, Toggles, Kept
<1> QED BY <1>1, <1>2, <1>3, <1>4, <1>5, <1>6, <1>7, <1>8, <1>9 DEF ProgramNames, Toggles

LEMMA AgeDoes ==
  ASSUME NEW p \in ProgramNames, NEW v \in 0 .. 1, NEW k \in 1 .. Length(p), NEW i, Row(p, v, k, i), Does("age", i)
  PROVE  \/ k < Length(p) /\ AwayAt("age", p, k + 1)
         \/ i.op = "set" /\ i.val = 1
<1> USE DEF ClearRow, DeleteRow, DumpRow, TimestampRow, ResetRow, HashRow, ToggleRow, SettingRow,
        EnableRow, BodyRow, Instr, Set, Apply, Choose, Save, PutBack, Plain, Write, Forward, Clearing, Base,
        Length, AwayAt, ResetAt, Does, Fields, Spot, Place
<1>1. CASE p = "clear" BY <1>1 DEF Row, Toggles, Kept
<1>2. CASE p = "delete" BY <1>2 DEF Row, Toggles, Kept
<1>3. CASE p = "dump" BY <1>3 DEF Row, Toggles, Kept
<1>4. CASE p = "timestamp" BY <1>4 DEF Row, Toggles, Kept
<1>5. CASE p = "reset" BY <1>5 DEF Row, Toggles, Kept
<1>6. CASE p = "hash" BY <1>6 DEF Row, Toggles, Kept
<1>7. CASE p = "sma" BY <1>7 DEF Row, Toggles, Kept
<1>8. CASE p \in Toggles BY <1>8 DEF Row, Toggles, Kept
<1>9. CASE p \in Kept BY <1>9 DEF Row, Toggles, Kept
<1> QED BY <1>1, <1>2, <1>3, <1>4, <1>5, <1>6, <1>7, <1>8, <1>9 DEF ProgramNames, Toggles

LEMMA CacheDoes ==
  ASSUME NEW p \in ProgramNames, NEW v \in 0 .. 1, NEW k \in 1 .. Length(p), NEW i, Row(p, v, k, i), Does("en", i)
  PROVE  \/ k < Length(p) /\ AwayAt("en", p, k + 1)
         \/ i.op = "set" /\ i.val = 1
         \/ /\ i.op = "putback"
            /\ (p \in Clearing \ {"timestamp", "reset"} /\ k = Base(p) + 9) \/ (p = "dump" /\ k = 5)
<1> USE DEF ClearRow, DeleteRow, DumpRow, TimestampRow, ResetRow, HashRow, ToggleRow, SettingRow,
        EnableRow, BodyRow, Instr, Set, Apply, Choose, Save, PutBack, Plain, Write, Forward, Clearing, Base,
        Length, AwayAt, ResetAt, Does, Fields, Spot, Place
<1>1. CASE p = "clear" BY <1>1 DEF Row, Toggles, Kept
<1>2. CASE p = "delete" BY <1>2 DEF Row, Toggles, Kept
<1>3. CASE p = "dump" BY <1>3 DEF Row, Toggles, Kept
<1>4. CASE p = "timestamp" BY <1>4 DEF Row, Toggles, Kept
<1>5. CASE p = "reset" BY <1>5 DEF Row, Toggles, Kept
<1>6. CASE p = "hash" BY <1>6 DEF Row, Toggles, Kept
<1>7. CASE p = "sma" BY <1>7 DEF Row, Toggles, Kept
<1>8. CASE p \in Toggles BY <1>8 DEF Row, Toggles, Kept
<1>9. CASE p \in Kept BY <1>9 DEF Row, Toggles, Kept
<1> QED BY <1>1, <1>2, <1>3, <1>4, <1>5, <1>6, <1>7, <1>8, <1>9 DEF ProgramNames, Toggles

LEMMA MacsDoes ==
  ASSUME NEW p \in ProgramNames, NEW v \in 0 .. 1, NEW k \in 1 .. Length(p), NEW i, Row(p, v, k, i), Does("macs", i)
  PROVE  \/ k < Length(p) /\ AwayAt("macs", p, k + 1)
         \/ i.op = "forward" /\ i.val = 1
<1> USE DEF ClearRow, DeleteRow, DumpRow, TimestampRow, ResetRow, HashRow, ToggleRow, SettingRow,
        EnableRow, BodyRow, Instr, Set, Apply, Choose, Save, PutBack, Plain, Write, Forward, Clearing, Base,
        Length, AwayAt, ResetAt, Does, Fields, Spot, Place
<1>1. CASE p = "clear" BY <1>1 DEF Row, Toggles, Kept
<1>2. CASE p = "delete" BY <1>2 DEF Row, Toggles, Kept
<1>3. CASE p = "dump" BY <1>3 DEF Row, Toggles, Kept
<1>4. CASE p = "timestamp" BY <1>4 DEF Row, Toggles, Kept
<1>5. CASE p = "reset" BY <1>5 DEF Row, Toggles, Kept
<1>6. CASE p = "hash" BY <1>6 DEF Row, Toggles, Kept
<1>7. CASE p = "sma" BY <1>7 DEF Row, Toggles, Kept
<1>8. CASE p \in Toggles BY <1>8 DEF Row, Toggles, Kept
<1>9. CASE p \in Kept BY <1>9 DEF Row, Toggles, Kept
<1> QED BY <1>1, <1>2, <1>3, <1>4, <1>5, <1>6, <1>7, <1>8, <1>9 DEF ProgramNames, Toggles

LEMMA SettingDoes ==
  ASSUME NEW x \in Kept,
         NEW p \in ProgramNames, NEW v \in 0 .. 1, NEW k \in 1 .. Length(p), NEW i, Row(p, v, k, i), Does(x, i)
  PROVE  \/ k < Length(p) /\ AwayAt(x, p, k + 1)
         \/ i.op = "apply" /\ i.val = x
         \/ i.op = "set" /\ i.val = v /\ p = x /\ k = 2
         \/ /\ i.op \in {"write", "learn"} /\ x = "prot_3t" /\ p \in Clearing \ {"reset"}
            /\ k = Base(p) + 2 \/ k = Base(p) + 11
<1> USE DEF ClearRow, DeleteRow, DumpRow, TimestampRow, ResetRow, HashRow, ToggleRow, SettingRow,
        EnableRow, BodyRow, Instr, Set, Apply, Choose, Save, PutBack, Plain, Write, Forward, Clearing, Base,
        Length, AwayAt, ResetAt, Does, Fields, Spot, Place
<1>1. CASE p = "clear" BY <1>1 DEF Row, Toggles, Kept
<1>2. CASE p = "delete" BY <1>2 DEF Row, Toggles, Kept
<1>3. CASE p = "dump" BY <1>3 DEF Row, Toggles, Kept
<1>4. CASE p = "timestamp" BY <1>4 DEF Row, Toggles, Kept
<1>5. CASE p = "reset" BY <1>5 DEF Row, Toggles, Kept
<1>6. CASE p = "hash" BY <1>6 DEF Row, Toggles, Kept
<1>7. CASE p = "sma" BY <1>7 DEF Row, Toggles, Kept
<1>8. CASE p \in Toggles BY <1>8 DEF Row, Toggles, Kept
<1>9. CASE p \in Kept
  <2>2. CASE k = 1
    <3>1. i = Choose(p, v)
      BY <1>9, <2>2 DEF Row, Toggles, Kept
    <3>2. p = x
      BY <3>1
    <3> QED BY <2>2, <3>2 DEF Kept
  <2>3. CASE k = 2
    <3>1. i = IF p \in {"cport", "prot_3t"} THEN Apply(p) ELSE Set(Place[p][1], Place[p][2], v)
      BY <1>9, <2>3 DEF Row, Toggles, Kept
    <3>2. Place[p][1] = Place[x][1] /\ Place[p][2] = Place[x][2]
      BY <1>9, <3>1 DEF Kept
    <3>3. p = x
      BY <1>9, <3>2 DEF Kept
    <3> QED BY <2>3, <3>1, <3>3
  <2> QED BY <1>9, <2>2, <2>3 DEF Kept
<1> QED BY <1>1, <1>2, <1>3, <1>4, <1>5, <1>6, <1>7, <1>8, <1>9 DEF ProgramNames, Toggles

(* Whoever has taken an item away, or holds what it is to get, owns it.     *)
LEMMA AwayOwns ==
  ASSUME NEW x \in Items, NEW p \in ProgramNames, NEW k \in 1 .. Length(p), AwayAt(x, p, k)
  PROVE  Owner(p, k, Home(x))
BY DEF Items, Kept, AwayAt, ResetAt, Owner, Open, Closed, LockedAt, UnlockAt, Home, Spot, Place, Key, Clearing,
   Base, Length

LEMMA BodyOwns ==
  ASSUME NEW p \in Clearing, NEW k \in Base(p) + 1 .. Base(p) + 11
  PROVE  Owner(p, k, "flow") /\ Owner(p, k, "tb")
BY DEF Owner, Open, Closed, LockedAt, UnlockAt, Clearing, Base

LEMMA HomeKeys == \A x \in Items : Home(x) \in Keys
BY DEF Items, Kept, Home, Spot, Place, Key, Keys
-------------------------------------------------------------------------------
(***************************************************************************)
(* What a step does to an item.                                            *)
(***************************************************************************)
LEMMA SpotIs ==
  \A x \in Items \ {"macs"} :
    Spot(x)[1] \in Registers /\ Spot(x)[2] \in DOMAIN Fresh[Spot(x)[1]] /\ Home(x) = Key(Spot(x)[1])
BY FreshIs DEF Items, Kept, Spot, Place, Home

LEMMA HoldsStays ==
  ASSUME Typed, NEW c \in CPUs, Step(c), ReadOK(c), NEW x \in Items, ~Does(x, Now(c)), Now(c).op # "reset"
  PROVE  Holds(x)' <=> Holds(x)
<1>1. CASE x = "macs"
  <2>1. Now(c).op # "forward"
    BY <1>1 DEF Does
  <2>2. gdm' = gdm
    BY <2>1, Effect
  <2> QED BY <1>1, <2>2 DEF Holds, Kept
<1>2. CASE x # "macs"
  <2> DEFINE r == Spot(x)[1]
             f == Spot(x)[2]
  <2>1. r \in Registers /\ f \in DOMAIN Fresh[r]
    BY <1>2, SpotIs
  <2>2. /\ Now(c).op \in Fields => ~(Now(c).reg = r /\ Now(c).field = f)
        /\ Now(c).op \in {"write", "learn"} => r # "flow"
    BY DEF Does
  <2> HIDE DEF r, f
  <2>3. reg'[r][f] = reg[r][f]
    <3>1. CASE SetsField(c)
      BY <2>1, <2>2, <3>1 DEF SetsField
    <3>2. CASE PutsFlow(c) \/ StopsLearning(c)
      BY <2>1, <2>2, <3>2 DEF PutsFlow, StopsLearning
    <3>3. CASE Resets(c)
      BY <3>3 DEF Resets
    <3>4. CASE Leaves(c) \/ Skips(c)
      BY <3>4 DEF Leaves, Skips
    <3> QED BY <3>1, <3>2, <3>3, <3>4, Effect
  <2>4. Value(x)' = Value(x)
    BY <2>3 DEF Value, r, f
  <2>5. x \in Kept => Wished(x)' = Wished(x)
    <3> SUFFICES ASSUME x \in Kept PROVE soft'[x] = soft[x]
      BY Effect DEF Wished
    <3>1. CASE Now(c).op = "choose"
      <4>1. Now(c).field # x
        BY <3>1 DEF Does
      <4> QED BY <3>1, <4>1, Effect DEF Typed
    <3>2. CASE Now(c).op # "choose"
      BY <3>2, Effect
    <3> QED BY <3>1, <3>2
  <2> QED BY <1>2, <2>4, <2>5 DEF Holds
<1> QED BY <1>1, <1>2

(* The position after a step.                                               *)
LEMMA Onward ==
  ASSUME Typed, NEW c \in CPUs, Step(c), NEW x,
         cpu[c].pc < Length(cpu[c].prog), AwayAt(x, cpu[c].prog, cpu[c].pc + 1), Moving(c) \/ Saving(c)
  PROVE  Away(x, c)'
<1>1. Length(cpu[c].prog) \in 1 .. 32
  BY StepCpu, CodeNow DEF Length, ProgramNames
<1>2. Going(c)
  BY <1>1 DEF Moving, Saving, Ending
<1> QED BY <1>2 DEF Going, Away

LEMMA ItemStrays ==
  ASSUME NEW x \in Items,
         NEW p \in ProgramNames, NEW v \in 0 .. 1, NEW k \in 1 .. Length(p), NEW i, Row(p, v, k, i)
  PROVE  /\ AwayAt(x, p, k) /\ ~Does(x, i) => k < Length(p) /\ AwayAt(x, p, k + 1)
         /\ i.op = "idle" /\ AwayAt(x, p, k) => AwayAt(x, p, Base(p) + 11)
         /\ i.op = "reset" => k < Length(p) /\ AwayAt(x, p, k + 1)
<1>1. CASE x = "nat"
  BY <1>1, NatStrays
<1>2. CASE x = "scan"
  BY <1>2, ScanStrays
<1>3. CASE x = "age"
  BY <1>3, AgeStrays
<1>4. CASE x = "en"
  BY <1>4, CacheStrays
<1>5. CASE x = "macs"
  BY <1>5, MacsStrays
<1>6. CASE x \in Kept
  BY <1>6, SettingStrays
<1> QED BY <1>1, <1>2, <1>3, <1>4, <1>5, <1>6 DEF Items

(* The change of an item by the program that has it away, or from where it  *)
(* belongs.                                                                 *)
LEMMA ItemDoes ==
  ASSUME Typed, NEW c \in CPUs, Step(c), SavedOK(c), ReadOK(c), NEW x \in Items, Does(x, Now(c)),
         ~Leaves(c) \/ Now(c).op \in {"forward", "choose"}, ~Skips(c)
  PROVE  Holds(x)' \/ Away(x, c)'
<1> DEFINE p == cpu[c].prog
           k == cpu[c].pc
           v == cpu[c].arg
           i == Now(c)
<1>1. /\ Running(c) /\ p \in ProgramNames /\ k \in 1 .. Length(p) /\ k \in 1 .. 32 /\ Row(p, v, k, i)
      /\ v \in 0 .. 1
  BY StepCpu, CodeNow DEF Typed, CpuType
<1>2. i.op \in Fields \cup {"write", "learn", "forward", "choose"}
  BY DEF Does
<1>3. Moving(c)
  BY <1>2, Effect DEF SetsField, PutsFlow, StopsLearning, Resets, Leaves, Fields
<1>4. SUFFICES ASSUME ~(k < Length(p) /\ AwayAt(x, p, k + 1)) PROVE Holds(x)'
  BY <1>3, Onward
<1>5. ASSUME i.op \in Fields, x # "macs" PROVE Value(x)' = NewValue(c)
  <2>1. i.reg = Spot(x)[1] /\ i.field = Spot(x)[2]
    BY <1>5 DEF Does, Fields
  <2>2. SetsField(c)
    BY <1>5, Effect DEF PutsFlow, StopsLearning, Resets, Leaves, Fields
  <2> QED BY <1>5, <2>1, <2>2, SpotIs DEF SetsField, Value
<1>6. Base(p) \in 1 .. 16
  BY Bases
<1>7. CASE x = "nat"
  <2>1. \/ i.op = "set" /\ i.val = 1
        \/ i.op = "write" /\ p \in Clearing /\ k = Base(p) + 11
    BY <1>1, <1>4, <1>7, NatDoes
  <2>2. CASE i.op = "set" /\ i.val = 1
    BY <1>5, <1>7, <2>2 DEF Holds, NewValue, Fields, Kept
  <2>3. CASE i.op = "write" /\ p \in Clearing /\ k = Base(p) + 11
    <3>1. InBody(c, 2, 11)
      BY <1>6, <2>3 DEF InBody
    <3>2. PutsFlow(c)
      BY <2>3, Effect DEF SetsField, StopsLearning, Resets, Leaves, Fields
    <3>3. reg'["flow"]["nat"] = 1
      BY <3>1, <3>2 DEF SavedOK, PutsFlow
    <3> QED BY <1>7, <3>3 DEF Holds, Value, Spot, Kept
  <2> QED BY <2>1, <2>2, <2>3
<1>8. CASE x = "scan"
  <2>1. \/ i.op = "set" /\ i.val = 2
        \/ i.op = "putback" /\ ((p \in Clearing /\ k = Base(p) + 10) \/ (p = "dump" /\ k = 6))
    BY <1>1, <1>4, <1>8, ScanDoes
  <2>2. CASE i.op = "set" /\ i.val = 2
    BY <1>5, <1>8, <2>2 DEF Holds, NewValue, Fields, Kept
  <2>3. CASE i.op = "putback" /\ ((p \in Clearing /\ k = Base(p) + 10) \/ (p = "dump" /\ k = 6))
    <3>1. InBody(c, 5, 10) \/ InDump(c, 2, 6)
      BY <1>6, <2>3 DEF InBody, InDump
    <3>2. cpu[c].saved["tb"]["scan"] = 2
      BY <3>1 DEF SavedOK
    <3>3. i.reg = "tb" /\ i.field = "scan"
      BY <1>8, <2>3 DEF Does, Fields, Spot
    <3>4. NewValue(c) = 2
      BY <2>3, <3>2, <3>3 DEF NewValue
    <3> QED BY <1>5, <1>8, <2>3, <3>4 DEF Holds, Fields, Kept
  <2> QED BY <2>1, <2>2, <2>3
<1>9. CASE x = "age"
  <2>1. i.op = "set" /\ i.val = 1
    BY <1>1, <1>4, <1>9, AgeDoes
  <2> QED BY <1>5, <1>9, <2>1 DEF Holds, NewValue, Fields, Kept
<1>10. CASE x = "en"
  <2>1. \/ i.op = "set" /\ i.val = 1
        \/ /\ i.op = "putback"
           /\ (p \in Clearing \ {"timestamp", "reset"} /\ k = Base(p) + 9) \/ (p = "dump" /\ k = 5)
    BY <1>1, <1>4, <1>10, CacheDoes
  <2>2. CASE i.op = "set" /\ i.val = 1
    BY <1>5, <1>10, <2>2 DEF Holds, NewValue, Fields, Kept
  <2>3. CASE /\ i.op = "putback"
             /\ (p \in Clearing \ {"timestamp", "reset"} /\ k = Base(p) + 9) \/ (p = "dump" /\ k = 5)
    <3>1. (InBody(c, 7, 9) /\ p \notin {"timestamp", "reset"}) \/ InDump(c, 4, 5)
      BY <1>6, <2>3 DEF InBody, InDump
    <3>2. cpu[c].saved["cah"]["en"] = 1
      BY <3>1 DEF SavedOK
    <3>3. i.reg = "cah" /\ i.field = "en"
      BY <1>10, <2>3 DEF Does, Fields, Spot
    <3>4. NewValue(c) = 1
      BY <2>3, <3>2, <3>3 DEF NewValue
    <3> QED BY <1>5, <1>10, <2>3, <3>4 DEF Holds, Fields, Kept
  <2> QED BY <2>1, <2>2, <2>3
<1>11. CASE x = "macs"
  <2>1. i.op = "forward" /\ i.val = 1
    BY <1>1, <1>4, <1>11, MacsDoes
  <2> QED BY <1>11, <2>1, Effect DEF Holds, Kept
<1>12. CASE x \in Kept
  <2>0. x \notin {"nat", "scan", "age", "en", "macs"}
    BY <1>12 DEF Kept
  <2>1. \/ i.op = "apply" /\ i.val = x
        \/ i.op = "set" /\ i.val = v /\ p = x /\ k = 2
        \/ /\ i.op \in {"write", "learn"} /\ x = "prot_3t" /\ p \in Clearing \ {"reset"}
           /\ k = Base(p) + 2 \/ k = Base(p) + 11
    BY <1>1, <1>4, <1>12, SettingDoes
  <2>2. soft' = soft /\ Wished(x)' = Wished(x)
    BY <2>1, Effect DEF Wished
  <2>3. CASE i.op = "apply" /\ i.val = x
    <3>1. SetsField(c)
      BY <2>3, Effect DEF PutsFlow, StopsLearning, Resets, Leaves, Fields
    <3>2. soft[x] = Wished(x)
      BY <2>3, <3>1, Effect
    <3> QED BY <1>5, <1>12, <2>0, <2>2, <2>3, <3>2 DEF Holds, NewValue, Fields
  <2>4. CASE i.op = "set" /\ i.val = v /\ p = x /\ k = 2
    <3>0. x # "cport"
      BY <1>1, <2>4 DEF Row, SettingRow, Toggles, Kept, Apply, Choose, Instr
    <3>1. soft[x] = v /\ Wished(x) = v
      BY <1>12, <2>4, <3>0 DEF SavedOK, Wished
    <3> QED BY <1>5, <1>12, <2>0, <2>2, <2>4, <3>1 DEF Holds, NewValue, Fields
  <2>5. CASE /\ i.op \in {"write", "learn"} /\ x = "prot_3t" /\ p \in Clearing \ {"reset"}
             /\ k = Base(p) + 2 \/ k = Base(p) + 11
    <3>1. InBody(c, 2, 11)
      BY <1>6, <2>5 DEF InBody
    <3>2. PutsFlow(c) \/ StopsLearning(c)
      BY <2>5, Effect DEF SetsField, Resets, Leaves, Fields
    <3>3. reg'["flow"]["blist"] = soft["prot_3t"]
      BY <2>5, <3>1, <3>2 DEF SavedOK, PutsFlow, StopsLearning
    <3>4. Place["prot_3t"] = <<"flow", "blist">> /\ Wished("prot_3t") = soft["prot_3t"]
      BY DEF Place, Wished
    <3> QED BY <1>12, <2>0, <2>2, <2>5, <3>3, <3>4 DEF Holds, Value, Spot
  <2> QED BY <2>1, <2>3, <2>4, <2>5
<1> QED BY <1>7, <1>8, <1>9, <1>10, <1>11, <1>12 DEF Items

LEMMA ItemOwn ==
  ASSUME Typed, NEW c \in CPUs, Step(c), SavedOK(c), ReadOK(c), NEW x \in Items, Holds(x) \/ Away(x, c),
         PortKept
  PROVE  Holds(x)' \/ Away(x, c)'
<1> DEFINE p == cpu[c].prog
           k == cpu[c].pc
           i == Now(c)
<1>1. /\ Running(c) /\ p \in ProgramNames /\ k \in 1 .. Length(p) /\ Row(p, cpu[c].arg, k, i)
      /\ cpu[c].arg \in 0 .. 1
  BY StepCpu, CodeNow DEF Typed, CpuType
<1>2. /\ AwayAt(x, p, k) /\ ~Does(x, i) => k < Length(p) /\ AwayAt(x, p, k + 1)
      /\ i.op = "idle" /\ AwayAt(x, p, k) => AwayAt(x, p, Base(p) + 11)
      /\ i.op = "reset" => k < Length(p) /\ AwayAt(x, p, k + 1)
  BY <1>1, ItemStrays
<1>3. CASE Does(x, i) /\ (~Leaves(c) \/ i.op \in {"forward", "choose"}) /\ ~Skips(c)
  BY <1>3, ItemDoes
<1>4. CASE i.op = "reset"
  <2>1. Moving(c)
    BY <1>4, StepCpu DEF Fields
  <2> QED BY <1>2, <1>4, <2>1, Onward
<1>5. CASE Leaves(c) /\ i.op \in Fields
  <2>1. Reading(c)
    BY <1>5 DEF Leaves, Fields
  <2>2. Away(x, c)' <=> Away(x, c)
    BY <2>1 DEF Reading, Away
  <2>3. reg' = reg /\ gdm' = gdm /\ soft' = soft /\ ppe_id' = ppe_id
    BY <1>5, Effect DEF Leaves, Fields
  <2>4. Holds(x)' <=> Holds(x)
    BY <2>3 DEF Holds, Value, Wished
  <2> QED BY <2>2, <2>4
<1>6. CASE ~Does(x, i) /\ i.op # "reset" /\ ~(Leaves(c) /\ i.op \in Fields) /\ ~Skips(c)
  <2>1. Holds(x)' <=> Holds(x)
    BY <1>6, HoldsStays
  <2>2. CASE Away(x, c)
    <3>1. CASE Moving(c) \/ Saving(c)
      BY <1>2, <1>6, <2>2, <3>1, Onward DEF Away
    <3>2. CASE Jumping(c) /\ i.op = "idle"
      BY <1>2, <2>2, <3>2 DEF Jumping, Away
    <3>3. CASE i.op \in Fields
      <4>1. Moving(c)
        BY <1>6, <3>3, Effect DEF SetsField, PutsFlow, StopsLearning, Resets, Fields
      <4> QED BY <3>1, <4>1
    <3> QED BY <3>1, <3>2, <3>3, StepCpu
  <2> QED BY <2>1, <2>2
<1>7. Does(x, i) /\ Leaves(c) => i.op \in Fields \cup {"forward", "choose"}
  BY DEF Does, Leaves, Fields
<1>8. CASE Skips(c)
  <2>1. Moving(c) /\ i.op = "apply" /\ i.val = "cport" /\ ppe_id = 1
    BY <1>8 DEF Skips
  <2>2. reg' = reg /\ gdm' = gdm /\ soft' = soft /\ ppe_id' = ppe_id
    BY <1>8, <2>1, Effect DEF Skips
  <2>3. CASE x = "cport"
    <3>1. Value(x)' = PSE_ADMA_PORT
      BY <2>1, <2>2, <2>3 DEF PortKept, Value, Spot, Place
    <3> QED BY <2>1, <2>2, <2>3, <3>1 DEF Holds, Wished, Kept
  <2>4. CASE x # "cport"
    <3>1. i.reg = "cport" /\ i.field = "sp"
      BY <1>1, <2>1, RowPort
    <3>2. ~Does(x, i)
      BY <2>1, <2>4, <3>1 DEF Does, Fields, Spot, Place, Items, Kept
    <3>3. Holds(x)' <=> Holds(x)
      BY <2>2 DEF Holds, Value, Wished
    <3>4. CASE Away(x, c)
      BY <1>2, <2>1, <3>2, <3>4, Onward DEF Away
    <3> QED BY <3>3, <3>4
  <2> QED BY <2>3, <2>4
<1> QED BY <1>3, <1>4, <1>5, <1>6, <1>7, <1>8
-------------------------------------------------------------------------------
(***************************************************************************)
(* What was read or saved stays true, and who may have taken an item away. *)
(***************************************************************************)
LEMMA AtRest ==
  ASSUME Typed, LockInv, Apart, ~mixed, Good, NEW c \in CPUs, NEW x \in Items, Own(c, Home(x)), ~Away(x, c)
  PROVE  Holds(x)
<1> SUFFICES ASSUME NEW d \in CPUs, Away(x, d) PROVE d = c
  BY DEF Good, ItemInv
<1>1. Running(d)
  BY NoneIs DEF Away, AwayAt, Running, Clearing, ProgramNames, Kept
<1>2. cpu[d].prog \in ProgramNames /\ cpu[d].pc \in 1 .. Length(cpu[d].prog)
  BY <1>1, CodeNow
<1>3. Own(d, Home(x))
  BY <1>1, <1>2, AwayOwns DEF Own, Away
<1> QED BY <1>3, HomeKeys, OneOwner

LEMMA OthersGood ==
  ASSUME Typed, LockInv, Apart, ~mixed, Good, NEW c \in CPUs, Step(c), NEW d \in CPUs, d # c
  PROVE  SavedOK(d)' /\ ReadOK(d)'
<1>1. cpu'[d] = cpu[d]
  BY StepCpu
<1>2. SavedOK(d) /\ ReadOK(d) /\ ReadOK(c)
  BY DEF Good
<1>3. Running(d) => cpu[d].prog \in ProgramNames /\ cpu[d].pc \in 1 .. Length(cpu[d].prog)
  BY CodeNow
<1>4. InBody(d, 2, 11) => soft'["prot_3t"] = soft["prot_3t"]
  <2> SUFFICES ASSUME InBody(d, 2, 11), soft'["prot_3t"] # soft["prot_3t"] PROVE FALSE
    OBVIOUS
  <2>1. "prot_3t" \in Kept /\ Place["prot_3t"][1] = "flow" /\ "flow" \in Keys
    BY DEF Kept, Place, Keys
  <2>2. Own(c, "flow")
    BY <1>2, <2>1, Touches
  <2>3. Running(d)
    BY NoneIs DEF InBody, Running, Clearing, ProgramNames
  <2>4. cpu[d].pc \in Base(cpu[d].prog) + 1 .. Base(cpu[d].prog) + 11
    BY Bases DEF InBody
  <2>5. Own(d, "flow")
    BY <2>3, <2>4, BodyOwns DEF Own, InBody
  <2> QED BY <2>1, <2>2, <2>5, OneOwner
<1>5. ASSUME NEW s \in Kept, cpu[d].prog = s PROVE soft'[s] = soft[s]
  <2>1. Running(d)
    BY <1>5, NoneIs DEF Running, ProgramNames
  <2>2. Own(d, Place[s][1]) /\ Place[s][1] \in Keys
    BY <1>5, <2>1 DEF Own, Owner, Open, Kept, Place, Keys
  <2> QED BY <1>2, <2>2, Touches, OneOwner
<1>6. SavedOK(d)'
  BY <1>1, <1>2, <1>4, <1>5 DEF SavedOK, InBody, InDump
<1>7. ReadOK(d)'
  <2>1. Now(d)' = Now(d)
    BY <1>1 DEF Now, Program
  <2> SUFFICES ASSUME cpu[d].tmp # None
               PROVE  /\ cpu[d].tmp = reg'[Now(d).reg]
                      /\ Now(d).op = "apply" => soft'[Now(d).val] = Wished(Now(d).val)'
    BY <1>1, <2>1 DEF ReadOK
  <2>2. Running(d) /\ Now(d).op \in Fields
    BY DEF Typed, CpuOK
  <2>3. /\ cpu[d].prog \in ProgramNames /\ cpu[d].pc \in 1 .. Length(cpu[d].prog)
        /\ Row(cpu[d].prog, cpu[d].arg, cpu[d].pc, Now(d)) /\ cpu[d].arg \in 0 .. 1
    BY <2>2, CodeNow DEF Typed, CpuType
  <2>4. Now(d).reg \in Registers
    BY <2>2, <2>3, RowFields
  <2>5. Own(d, Key(Now(d).reg)) /\ Key(Now(d).reg) \in Keys
    BY <2>2, <2>3, RowOwner DEF Own, Fields
  <2>6. reg'[Now(d).reg] = reg[Now(d).reg]
    BY <1>2, <2>4, <2>5, Touches, OneOwner
  <2>7. ASSUME Now(d).op = "apply" PROVE soft'[Now(d).val] = Wished(Now(d).val)'
    <3> DEFINE s == Now(d).val
    <3>1. s \in Kept /\ Now(d).reg = Place[s][1]
      BY <2>3, <2>7, RowPort
    <3>2. Key(Place[s][1]) = Place[s][1]
      BY <3>1 DEF Key, Place, Kept
    <3> HIDE DEF s
    <3>3. soft'[s] = soft[s]
      BY <1>2, <2>5, <3>1, <3>2, Touches, OneOwner DEF s
    <3>4. soft[s] = Wished(s)
      BY <1>2, <2>7 DEF ReadOK, s
    <3>5. ppe_id' = ppe_id
      BY <1>2, Effect
    <3> QED BY <2>1, <3>3, <3>4, <3>5 DEF Wished, s
  <2> QED BY <1>2, <2>6, <2>7 DEF ReadOK
<1> QED BY <1>6, <1>7

LEMMA SelfRead ==
  ASSUME Typed, NEW c \in CPUs, Step(c), ReadOK(c)
  PROVE  ReadOK(c)'
<1>1. CASE Reading(c) /\ Now(c).op \in Fields
  <2>1. Now(c)' = Now(c) /\ Running(c)
    BY <1>1, StepCpu DEF Reading, Now, Program
  <2>2. cpu[c].pc \in 1 .. 32
    BY <2>1, CodeNow
  <2>3. ~Moving(c)
    BY <1>1, <2>1, <2>2, IdleIs DEF Reading, Moving, Going, Ending, Running
  <2>4. reg' = reg /\ ppe_id' = ppe_id /\ soft' = soft
    BY <1>1, <2>3, Effect DEF SetsField, PutsFlow, StopsLearning, Resets, Leaves, Skips, Fields
  <2>5. Read(c)
    <3>1. Advance(c) => Moving(c)
      BY <2>1, AdvanceIs
    <3>2. ~Advance(c)
      BY <2>3, <3>1
    <3> QED BY <1>1, <3>2 DEF Step, SkipWrite, WriteField, SaveRegister, WriteRegister, WaitIdle, Lock, Unlock,
              Invalidate, Remove, ChooseSetting, ForwardMacs, Reset, Is, Now, Fields
  <2>6. Now(c).op = "apply" => soft[Now(c).val] = Wished(Now(c).val)
    <3> SUFFICES ASSUME Now(c).op = "apply" PROVE soft[Now(c).val] = Wished(Now(c).val)
      OBVIOUS
    <3>1. Is(c, "apply") /\ ~Skipped(c)
      BY <2>1, <2>5 DEF Read, Is, Now, Running
    <3>2. CASE Now(c).val = "cport" /\ ppe_id = 1
      <4>1. soft["cport"] \in 0 .. 1 /\ soft["cport"] # PSE_TDMA_PORT
        BY <3>1, <3>2 DEF Skipped, Typed, Kept
      <4> QED BY <3>2, <4>1 DEF Wished, PSE_ADMA_PORT, PSE_TDMA_PORT
    <3>3. CASE ~(Now(c).val = "cport" /\ ppe_id = 1)
      BY <3>3 DEF Wished
    <3> QED BY <3>2, <3>3
  <2>7. Now(c).op = "apply" => soft'[Now(c).val] = Wished(Now(c).val)'
    BY <2>1, <2>4, <2>6 DEF Wished
  <2> QED BY <1>1, <2>1, <2>4, <2>7 DEF Reading, ReadOK
<1>2. CASE Moving(c) \/ Saving(c)
  BY <1>2, IdleIs DEF Moving, Saving, Going, Ending, ReadOK
<1>3. CASE Jumping(c) /\ Now(c).op = "idle"
  <2>1. cpu[c].tmp = None
    BY <1>3 DEF Typed, CpuOK, Fields
  <2> QED BY <1>3, <2>1 DEF Jumping, ReadOK
<1> QED BY <1>1, <1>2, <1>3, StepCpu

(* A register is saved when nobody has taken from it.                       *)
LEMMA SaveAway ==
  ASSUME NEW p \in ProgramNames, NEW k \in 1 .. Length(p)
  PROVE  /\ p \in Clearing /\ k = Base(p) + 1 => ~AwayAt("nat", p, k)
         /\ p \in Clearing \ {"reset"} /\ k = Base(p) + 1 => ~AwayAt("prot_3t", p, k)
         /\ p \in Clearing /\ k = Base(p) + 4 => ~AwayAt("scan", p, k)
         /\ p = "dump" /\ k = 1 => ~AwayAt("scan", p, k)
         /\ p \in Clearing \ {"timestamp", "reset"} /\ k = Base(p) + 6 => ~AwayAt("en", p, k)
         /\ p = "dump" /\ k = 3 => ~AwayAt("en", p, k)
BY DEF AwayAt, ResetAt, Clearing, Base, Kept

LEMMA KeptChooses ==
  ASSUME NEW p \in Kept, NEW v, NEW k, k = 1, NEW i, Row(p, v, k, i)
  PROVE  i = Choose(p, v)
BY DEF Row, Toggles, Kept, SettingRow
LEMMA SelfSaved ==
  ASSUME Typed, LockInv, Apart, ~mixed, Good, NEW c \in CPUs, Step(c)
  PROVE  SavedOK(c)'
<1> DEFINE p == cpu[c].prog
           k == cpu[c].pc
           v == cpu[c].arg
           i == Now(c)
<1>1. /\ Running(c) /\ p \in ProgramNames /\ k \in 1 .. Length(p) /\ k \in 1 .. 32 /\ Row(p, v, k, i)
      /\ v \in 0 .. 1 /\ cpu[c] \in CpuType
  BY StepCpu, CodeNow DEF Typed, CpuType
<1>2. SavedOK(c) /\ ReadOK(c)
  BY DEF Good
<1>3. Base(p) \in 1 .. 16 /\ Length(p) \in 1 .. 32
  BY <1>1, Bases DEF Length, ProgramNames
<1>4. /\ i.op = "save" => i.reg \in {"flow", "tb", "cah"}
      /\ i.op = "save" /\ i.reg = "flow" <=> p \in Clearing /\ k = Base(p) + 1
      /\ i.op = "save" /\ i.reg = "tb" <=>
           (p \in Clearing /\ k = Base(p) + 4) \/ (p = "dump" /\ k = 1)
      /\ i.op = "save" /\ i.reg = "cah" <=>
           (p \in Clearing /\ k = Base(p) + 6) \/ (p = "dump" /\ k = 3)
  BY <1>1, RowSaves
<1>5. p \notin Kept => soft'["prot_3t"] = soft["prot_3t"]
  <2>1. "prot_3t" \in Kept
    BY DEF Kept
  <2> QED BY <1>2, <2>1, Touches
<1>6. Clearing \cap Kept = {} /\ "dump" \notin Clearing \cup Kept /\ None \notin Clearing \cup Kept \cup {"dump"}
  BY NoneIs DEF Clearing, Kept, ProgramNames
<1>7. CASE Ending(c)
  <2>1. cpu'[c].prog = None
    BY <1>7, IdleIs DEF Ending
  <2> QED BY <1>6, <2>1 DEF SavedOK, InBody, InDump
<1>8. CASE Reading(c) /\ i.op \in Fields
  <2>1. soft' = soft
    BY <1>2, <1>8, Effect DEF Fields
  <2> QED BY <1>2, <1>8, <2>1 DEF Reading, SavedOK, InBody, InDump
<1>9. CASE Jumping(c) /\ InBody(c, 3, 3) /\ i.op = "idle"
  <2>1. cpu'[c].prog = p /\ cpu'[c].pc = Base(p) + 11 /\ cpu'[c].saved = cpu[c].saved /\ p \in Clearing
    BY <1>9 DEF Jumping, InBody
  <2>2. InBody(c, 2, 11)
    BY <1>3, <1>9 DEF InBody
  <2>3. ~InBody(c, 5, 10)' /\ ~InBody(c, 7, 9)' /\ ~InDump(c, 2, 6)' /\ ~InDump(c, 4, 5)' /\ p \notin Kept
    BY <1>3, <1>6, <2>1 DEF InBody, InDump
  <2> QED BY <1>2, <1>5, <2>1, <2>2, <2>3 DEF SavedOK
<1>10. CASE /\ Going(c)
            /\ (cpu'[c].saved = cpu[c].saved /\ i.op # "save") \/ (Saving(c) /\ i.op = "save")
  <2>1. cpu'[c].prog = p /\ cpu'[c].arg = v /\ cpu'[c].pc = k + 1 /\ k < Length(p)
    BY <1>10 DEF Going
  <2>2. p \in Kept /\ k + 1 = 2 => soft'[p] = v
    <3> SUFFICES ASSUME p \in Kept, k = 1 PROVE soft'[p] = v
      BY <1>1
    <3>1. i = Choose(p, v)
      BY <1>1, KeptChooses
    <3>2. soft' = [soft EXCEPT ![p] = v]
      BY <1>2, <3>1, Effect DEF Choose, Instr
    <3> QED BY <3>2 DEF Typed
  <2>3. /\ InBody(c, 2, 11)' => InBody(c, 2, 11) \/ (p \in Clearing /\ k = Base(p) + 1)
        /\ InBody(c, 5, 10)' => InBody(c, 5, 10) \/ (p \in Clearing /\ k = Base(p) + 4)
        /\ InBody(c, 7, 9)' => InBody(c, 7, 9) \/ (p \in Clearing /\ k = Base(p) + 6)
        /\ InDump(c, 2, 6)' => InDump(c, 2, 6) \/ (p = "dump" /\ k = 1)
        /\ InDump(c, 4, 5)' => InDump(c, 4, 5) \/ (p = "dump" /\ k = 3)
    <3> HIDE DEF p, k, i
    <3>1. ASSUME NEW m \in {2, 5, 7}, NEW n \in {11, 10, 9}, k # Base(p) + m - 1,
                 k + 1 \in Base(p) + m .. Base(p) + n
          PROVE  k \in Base(p) + m .. Base(p) + n
      BY <1>1, <1>3, <3>1
    <3>2. ASSUME NEW m \in {2, 4}, NEW n \in {6, 5}, k # m - 1, k + 1 \in m .. n
          PROVE  k \in m .. n
      BY <1>1, <3>2
    <3>3. \A m \in {2, 5, 7} : Base(p) + m - 1 = Base(p) + (m - 1)
      BY <1>3
    <3>4. cpu[c].prog = p /\ cpu[c].pc = k
      BY DEF p, k
    <3> QED BY <2>1, <3>1, <3>2, <3>3, <3>4 DEF InBody, InDump
  <2>4. CASE cpu'[c].saved = cpu[c].saved /\ i.op # "save"
    <3>1. /\ InBody(c, 2, 11)' => InBody(c, 2, 11)
          /\ InBody(c, 5, 10)' => InBody(c, 5, 10)
          /\ InBody(c, 7, 9)' => InBody(c, 7, 9)
          /\ InDump(c, 2, 6)' => InDump(c, 2, 6)
          /\ InDump(c, 4, 5)' => InDump(c, 4, 5)
      BY <1>4, <2>3, <2>4
    <3>2. InBody(c, 2, 11) => p \notin Kept
      BY <1>6 DEF InBody
    <3> QED BY <1>2, <1>5, <2>1, <2>2, <2>4, <3>1, <3>2 DEF SavedOK
  <2>5. CASE Saving(c) /\ i.op = "save"
    <3>1. cpu'[c].saved = [cpu[c].saved EXCEPT ![i.reg] = reg[i.reg]] /\ i.reg \in {"flow", "tb", "cah"}
      BY <1>4, <2>5 DEF Saving
    <3>2. cpu[c].saved \in SavedType
      BY <1>1 DEF CpuType
    <3>3. /\ cpu'[c].saved[i.reg] = reg[i.reg]
          /\ i.reg # "flow" => cpu'[c].saved.flow = cpu[c].saved.flow
          /\ i.reg # "tb" => cpu'[c].saved.tb = cpu[c].saved.tb
          /\ i.reg # "cah" => cpu'[c].saved.cah = cpu[c].saved.cah
      BY <3>1, <3>2 DEF SavedType
    <3>4. Own(c, Key(i.reg))
      BY <1>1, <2>5, RowOwner DEF Own
    <3>5. p \notin Kept /\ soft' = soft
      <4>1. p \notin Kept
        BY <1>4, <1>6, <2>5
      <4> QED BY <1>2, <2>5, <4>1, Effect
    <3>6. /\ InBody(c, 2, 11)' => cpu'[c].saved.flow["nat"] = 1
          /\ InBody(c, 2, 11)' /\ p # "reset" => cpu'[c].saved.flow["blist"] = soft["prot_3t"]
      <4>1. CASE p \in Clearing /\ k = Base(p) + 1
        <5>1. i.reg = "flow" /\ Own(c, "flow") /\ cpu'[c].saved.flow = reg["flow"]
          BY <1>4, <3>3, <3>4, <4>1 DEF Key
        <5>2. "nat" \in Items /\ "prot_3t" \in Items /\ "prot_3t" \in Kept
              /\ Home("nat") = "flow" /\ Home("prot_3t") = "flow"
          BY DEF Items, Kept, Home, Spot, Key, Place
        <5>3. Holds("nat")
          BY <1>1, <4>1, <5>1, <5>2, SaveAway, AtRest DEF Away
        <5>4. p # "reset" => Holds("prot_3t")
          BY <1>1, <4>1, <5>1, <5>2, SaveAway, AtRest DEF Away
        <5>5. reg["flow"]["nat"] = 1
          BY <5>3 DEF Holds, Value, Spot, Kept
        <5>6. p # "reset" => reg["flow"]["blist"] = soft["prot_3t"]
          BY <5>2, <5>4 DEF Holds, Value, Spot, Place, Wished
        <5> QED BY <5>1, <5>5, <5>6
      <4>2. CASE ~(p \in Clearing /\ k = Base(p) + 1)
        <5>1. i.reg # "flow"
          BY <1>4, <2>5, <4>2
        <5> QED BY <1>2, <2>3, <3>3, <4>2, <5>1 DEF SavedOK
      <4> QED BY <4>1, <4>2
    <3>7. InBody(c, 5, 10)' \/ InDump(c, 2, 6)' => cpu'[c].saved.tb["scan"] = 2
      <4>1. CASE (p \in Clearing /\ k = Base(p) + 4) \/ (p = "dump" /\ k = 1)
        <5>1. i.reg = "tb" /\ Own(c, "tb") /\ cpu'[c].saved.tb = reg["tb"]
          BY <1>4, <3>3, <3>4, <4>1 DEF Key
        <5>2. "scan" \in Items /\ Home("scan") = "tb"
          BY DEF Items, Home, Spot, Key
        <5>3. Holds("scan")
          BY <1>1, <4>1, <5>1, <5>2, SaveAway, AtRest DEF Away
        <5>4. reg["tb"]["scan"] = 2
          BY <5>3 DEF Holds, Value, Spot, Kept
        <5> QED BY <5>1, <5>4
      <4>2. CASE ~((p \in Clearing /\ k = Base(p) + 4) \/ (p = "dump" /\ k = 1))
        <5>1. i.reg # "tb"
          BY <1>4, <2>5, <4>2
        <5> QED BY <1>2, <2>3, <3>3, <4>2, <5>1 DEF SavedOK
      <4> QED BY <4>1, <4>2
    <3>8. (InBody(c, 7, 9)' /\ p \notin {"timestamp", "reset"}) \/ InDump(c, 4, 5)' =>
            cpu'[c].saved.cah["en"] = 1
      <4>1. CASE (p \in Clearing \ {"timestamp", "reset"} /\ k = Base(p) + 6) \/ (p = "dump" /\ k = 3)
        <5>1. i.reg = "cah" /\ Own(c, "tb") /\ cpu'[c].saved.cah = reg["cah"]
          BY <1>4, <3>3, <3>4, <4>1 DEF Key
        <5>2. "en" \in Items /\ Home("en") = "tb"
          BY DEF Items, Home, Spot, Key
        <5>3. Holds("en")
          BY <1>1, <4>1, <5>1, <5>2, SaveAway, AtRest DEF Away
        <5>4. reg["cah"]["en"] = 1
          BY <5>3 DEF Holds, Value, Spot, Kept
        <5> QED BY <5>1, <5>4
      <4>2. CASE ~((p \in Clearing /\ k = Base(p) + 6) \/ (p = "dump" /\ k = 3))
        <5>1. i.reg # "cah"
          BY <1>4, <2>5, <4>2
        <5> QED BY <1>2, <2>3, <3>3, <4>2, <5>1 DEF SavedOK
      <4>3. CASE p \in {"timestamp", "reset"}
        BY <2>1, <4>3 DEF InDump
      <4> QED BY <4>1, <4>2, <4>3
    <3> QED BY <2>1, <3>5, <3>6, <3>7, <3>8 DEF SavedOK
  <2> QED BY <1>10, <2>4, <2>5
<1> QED BY <1>7, <1>8, <1>9, <1>10, StepCpu DEF Moving, Saving

(* The port register is cleared by a reset, set to 0, or told the port that *)
(* this engine is to have.                                                  *)
LEMMA PortStays ==
  ASSUME Typed, NEW c \in CPUs, Step(c), ReadOK(c), PortKept
  PROVE  PortKept'
<1>1. ppe_id' = ppe_id
  BY Effect
<1> SUFFICES ASSUME ppe_id = 1 PROVE reg'["cport"]["sp"] = 0
  BY <1>1 DEF PortKept, PSE_ADMA_PORT
<1>2. reg["cport"]["sp"] = 0 /\ "cport" \in Registers /\ "sp" \in DOMAIN Fresh["cport"]
  BY FreshIs DEF PortKept, PSE_ADMA_PORT
<1>3. /\ cpu[c].prog \in ProgramNames /\ cpu[c].pc \in 1 .. Length(cpu[c].prog)
      /\ Row(cpu[c].prog, cpu[c].arg, cpu[c].pc, Now(c)) /\ cpu[c].arg \in 0 .. 1 /\ Running(c)
  BY StepCpu, CodeNow DEF Typed, CpuType
<1>4. CASE SetsField(c)
  <2>1. CASE Now(c).reg = "cport" /\ Now(c).field = "sp"
    <3>1. reg'["cport"]["sp"] = NewValue(c)
      BY <1>2, <1>4, <2>1 DEF SetsField
    <3>2. (Now(c).op = "set" /\ Now(c).val = 0) \/ (Now(c).op = "apply" /\ Now(c).val = "cport")
      BY <1>3, <1>4, <2>1, RowPort DEF SetsField
    <3>3. CASE Now(c).op = "set" /\ Now(c).val = 0
      BY <3>1, <3>3 DEF NewValue
    <3>4. CASE Now(c).op = "apply" /\ Now(c).val = "cport"
      <4>1. CASE Skips(c)
        BY <1>2, <4>1 DEF Skips
      <4>2. CASE soft["cport"] = Wished("cport")
        BY <3>1, <3>4, <4>2 DEF NewValue, Wished, PSE_ADMA_PORT
      <4> QED BY <1>4, <3>4, <4>1, <4>2, Effect
    <3> QED BY <3>2, <3>3, <3>4
  <2>2. CASE ~(Now(c).reg = "cport" /\ Now(c).field = "sp")
    BY <1>2, <1>4, <2>2 DEF SetsField
  <2> QED BY <2>1, <2>2
<1>5. CASE PutsFlow(c) \/ StopsLearning(c) \/ Leaves(c) \/ Skips(c)
  BY <1>2, <1>5 DEF PutsFlow, StopsLearning, Leaves, Skips
<1>6. CASE Resets(c)
  <2>1. Reset(c)
    BY <1>3, <1>6 DEF Resets, Step, SkipWrite, Skipped, Read, WriteField, SaveRegister, WriteRegister, WaitIdle, Lock,
       Unlock, Invalidate, Remove, ChooseSetting, ForwardMacs, Is, Now
  <2> QED BY <2>1 DEF Reset, Fresh
<1> QED BY <1>4, <1>5, <1>6, Effect

LEMMA GoodStep ==
  ASSUME Typed, LockInv, Apart, ~mixed, Good, NEW c \in CPUs, Step(c)
  PROVE  Good'
<1>0. PortKept'
  BY PortStays DEF Good
<1>1. \A d \in CPUs : SavedOK(d)' /\ ReadOK(d)'
  <2>1. ReadOK(c)
    BY DEF Good
  <2> QED BY <2>1, OthersGood, SelfSaved, SelfRead
<1>2. ASSUME NEW x \in Items PROVE ItemInv(x)'
  <2>1. ASSUME NEW d \in CPUs, d # c, Away(x, d) PROVE ItemInv(x)'
    <3>1. Away(x, d)'
      BY <2>1, StepCpu DEF Away
    <3> QED BY <3>1 DEF ItemInv
  <2>2. CASE Holds(x) \/ Away(x, c)
    <3>1. Holds(x)' \/ Away(x, c)'
      BY <2>2, ItemOwn DEF Good
    <3> QED BY <3>1 DEF ItemInv
  <2> QED BY <2>1, <2>2 DEF Good, ItemInv
<1> QED BY <1>0, <1>1, <1>2 DEF Good

LEMMA GoodNext ==
  ASSUME Typed, LockInv, Apart, GoodInv, [Next]_vars
  PROVE  GoodInv'
<1>1. ASSUME NEW c \in CPUs, Step(c) PROVE GoodInv'
  <2>1. mixed' = mixed
    BY <1>1, Zenon DEF Step, SkipWrite, Read, WriteField, SaveRegister, WriteRegister, WaitIdle, Lock, Unlock, Invalidate,
         Remove, ChooseSetting, ForwardMacs, Reset
  <2> QED BY <1>1, <2>1, GoodStep DEF GoodInv
<1>2. ASSUME NEW c \in CPUs, NEW p \in Programs, NEW v \in Args(p), Start(c, p, v) PROVE GoodInv'
  <2> SUFFICES ASSUME ~mixed' PROVE Good'
    BY DEF GoodInv
  <2>1. ~mixed /\ UNCHANGED <<ppe_id, reg, soft, gdm>>
    BY <1>2, Zenon DEF Start
  <2>2. Good
    BY <2>1 DEF GoodInv
  <2>3. /\ \A d \in CPUs \ {c} : cpu'[d] = cpu[d]
        /\ ~Running(c)
        /\ cpu'[c].prog = p /\ cpu'[c].pc = 1 /\ cpu'[c].tmp = None /\ p \in ProgramNames
    BY <1>2, StartTyped
  <2>4. SavedOK(c)' /\ ReadOK(c)'
    <3>1. ~InBody(c, 2, 11)' /\ ~InBody(c, 5, 10)' /\ ~InBody(c, 7, 9)' /\ ~InDump(c, 2, 6)' /\ ~InDump(c, 4, 5)'
      BY <2>3, Bases DEF InBody, InDump
    <3> QED BY <2>3, <3>1 DEF SavedOK, ReadOK
  <2>5. ASSUME NEW d \in CPUs \ {c} PROVE SavedOK(d)' /\ ReadOK(d)'
    <3>1. SavedOK(d) /\ ReadOK(d)
      BY <2>2 DEF Good
    <3>2. cpu'[d] = cpu[d] /\ Now(d)' = Now(d)
      BY <2>3 DEF Now, Program
    <3> QED BY <2>1, <3>1, <3>2 DEF SavedOK, ReadOK, InBody, InDump, Wished
  <2>6. ASSUME NEW x \in Items PROVE ItemInv(x)'
    <3>1. Holds(x)' <=> Holds(x)
      BY <2>1 DEF Holds, Value, Wished
    <3>2. \A d \in CPUs : Away(x, d) => Away(x, d)'
      <4>1. ~Away(x, c)
        BY <2>3, NoneIs DEF Away, AwayAt, Running, Clearing, ProgramNames, Kept
      <4> QED BY <2>3, <4>1 DEF Away
    <3> QED BY <2>2, <3>1, <3>2 DEF Good, ItemInv
  <2>7. PortKept'
    BY <2>1, <2>2 DEF Good, PortKept
  <2> QED BY <2>4, <2>5, <2>6, <2>7 DEF Good
<1>3. CASE Outside \/ UNCHANGED vars
  <2>1. UNCHANGED <<ppe_id, cpu, reg, soft, gdm, mixed>>
    BY <1>3, OutsideTyped
  <2>2. Good' <=> Good
    BY <2>1 DEF Good, PortKept, SavedOK, ReadOK, InBody, InDump, ItemInv, Holds, Value, Wished, Away, Now, Program
  <2> QED BY <2>1, <2>2 DEF GoodInv
<1> QED BY <1>1, <1>2, <1>3, NextCases

LEMMA GoodInit == Init => GoodInv
<1> SUFFICES ASSUME Init PROVE Good
  BY DEF GoodInv
<1>1. \A c \in CPUs : cpu[c].prog = None /\ cpu[c].tmp = None
  BY IdleIs DEF Init
<1>2. \A c \in CPUs : SavedOK(c) /\ ReadOK(c)
  BY <1>1, NoneIs DEF SavedOK, ReadOK, InBody, InDump, Clearing, Kept, ProgramNames
<1>3. reg = Started /\ gdm = 1 /\ \A x \in Kept : soft[x] = 0
  BY DEF Init
<1>4. /\ reg["flow"]["nat"] = 1 /\ reg["tb"]["scan"] = 2 /\ reg["tb"]["age"] = 1 /\ reg["cah"]["en"] = 1
      /\ \A x \in Kept : reg[Place[x][1]][Place[x][2]] = 0
  BY <1>3, StartedIs DEF Kept, Place
<1>5. \A x \in Kept : Wished(x) = 0
  BY <1>3 DEF Wished, PSE_ADMA_PORT
<1>6. ASSUME NEW x \in Items PROVE Holds(x)
  BY <1>3, <1>4, <1>5 DEF Items, Holds, Value, Spot, Kept
<1>7. PortKept
  BY <1>4 DEF PortKept, Kept, Place, PSE_ADMA_PORT
<1> QED BY <1>2, <1>6, <1>7 DEF Good, ItemInv

LEMMA AllAtRest ==
  ASSUME GoodInv, Quiet, ~mixed
  PROVE  \A x \in Items : Holds(x)
BY NoneIs DEF GoodInv, Good, ItemInv, Quiet, Away, AwayAt, Clearing, ProgramNames, Kept

LEMMA Inductive ==
  /\ Init => Typed /\ LockInv /\ Apart /\ GoodInv
  /\ Typed /\ LockInv /\ Apart /\ GoodInv /\ [Next]_vars => (Typed /\ LockInv /\ Apart /\ GoodInv)'
BY TypedInit, LockInit, GoodInit, TypedNext, LockNext, ApartNext, GoodNext

(* Unless two programs wrote a register at a time outside cah_lock, the     *)
(* engine learns, scans, ages, caches and gets the MACs' packets again when *)
(* everybody is done: what a clearing of the cache puts back is what it     *)
(* found at rest (__hnat_cache_clr, hnat_reset_timestamp, hnat_warm_init).  *)
THEOREM EngineIsKeptWorking == Spec => []EngineWorks
<1>1. GoodInv => EngineWorks
  <2> SUFFICES ASSUME GoodInv, Quiet, ~mixed
               PROVE  /\ reg.flow.nat = 1 /\ reg.tb.scan = 2 /\ reg.tb.age = 1 /\ reg.cah.en = 1
                      /\ gdm = 1
    BY DEF EngineWorks
  <2>1. Holds("nat") /\ Holds("scan") /\ Holds("age") /\ Holds("en") /\ Holds("macs")
    BY AllAtRest DEF Items
  <2> QED BY <2>1 DEF Holds, Value, Spot, Kept
<1> QED BY <1>1, Inductive, PTL DEF Spec

(* Under the same condition the registers hold the settings of hnat_priv,   *)
(* also after a reset of the frame engine (hnat_hw_init), and the second    *)
(* engine the ADMA port whatever was chosen (hnat_set_dft_cport).           *)
THEOREM SettingsAreHeld == Spec => []SettingsHeld
<1>1. GoodInv => SettingsHeld
  <2> SUFFICES ASSUME GoodInv, Quiet, ~mixed, NEW s \in Kept
               PROVE  reg[Place[s][1]][Place[s][2]] = Wished(s)
    BY DEF SettingsHeld
  <2>1. Holds(s)
    BY AllAtRest DEF Items
  <2> QED BY <2>1 DEF Holds, Value, Spot, Kept
<1> QED BY <1>1, Inductive, PTL DEF Spec
================================================================================
