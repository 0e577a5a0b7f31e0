---------------------------- MODULE HnatMcast_proofs ----------------------------
(***************************************************************************)
(* Multicast groups, for any groups, devices, flows, packets and engines.  *)
(***************************************************************************)
EXTENDS HnatMcast, FiniteSetTheorems, SequenceTheorems, TLAPS

(***************************************************************************)
(* What an update works on, and what its parts do to it.                   *)
(***************************************************************************)
RowTable == [Rows -> Row \cup {None}]

Update ==
  [g : GroupRecord, e : Entry, rows : RowTable, mac : {MacOf[i] : i \in Ips}, cl : SUBSET Lan,
   deleted : BOOLEAN]

LEMMA SetE ==
  ASSUME NEW u \in Update, NEW e \in Entry
  PROVE  LET v == [u EXCEPT !.e = e] IN
         /\ v \in Update /\ v.e = e /\ v.g = u.g /\ v.rows = u.rows /\ v.mac = u.mac
         /\ v.cl = u.cl /\ v.deleted = u.deleted
BY DEF Update

LEMMA SetG ==
  ASSUME NEW u \in Update, NEW g \in GroupRecord
  PROVE  LET v == [u EXCEPT !.g = g] IN
         /\ v \in Update /\ v.e = u.e /\ v.g = g /\ v.rows = u.rows /\ v.mac = u.mac
         /\ v.cl = u.cl /\ v.deleted = u.deleted
BY DEF Update

LEMMA SetRows ==
  ASSUME NEW u \in Update, NEW g \in GroupRecord, NEW rows \in RowTable
  PROVE  LET v == [u EXCEPT !.rows = rows, !.g = g] IN
         /\ v \in Update /\ v.e = u.e /\ v.g = g /\ v.rows = rows /\ v.mac = u.mac
         /\ v.cl = u.cl /\ v.deleted = u.deleted
BY DEF Update

LEMMA SetOut ==
  ASSUME NEW e \in Entry, NEW o \in Out
  PROVE  LET x == [e EXCEPT !.out = o] IN
         x \in Entry /\ x.out = o /\ x.state = e.state /\ x.flow = e.flow
BY DEF Entry

LEMMA ZeroType == Zero \in Entry /\ Zero.flow = None /\ Zero.out.tops = FALSE /\ Zero.state = "INVALID"
BY DEF Zero, Entry, Out, Blank

LEMMA NoneApart ==
  None \notin Rows /\ None \notin Row /\ None \notin Flows /\ None \notin Slots /\ None \notin GroupRecord
BY McastAssumption DEF Rows

(* A set of one port is the port it chooses.                                *)
LEMMA SinglePort ==
  ASSUME NEW b \in SUBSET Ports, Single(b)
  PROVE  (CHOOSE p \in b : TRUE) \in Ports /\ {CHOOSE p \in b : TRUE} = b
<1>1. IsFiniteSet(b)
  <2>1. IsFiniteSet(Ports)
    <3>1. IsFiniteSet({"gdma1"}) /\ IsFiniteSet({"gdma2"}) /\ IsFiniteSet({"gdma3"}) /\ IsFiniteSet({"tdma"})
      BY FS_Singleton
    <3>2. Ports = ({"gdma1"} \cup {"gdma2"}) \cup ({"gdma3"} \cup {"tdma"})
      BY DEF Ports
    <3>3. IsFiniteSet({"gdma1"} \cup {"gdma2"}) /\ IsFiniteSet({"gdma3"} \cup {"tdma"})
      BY <3>1, FS_Union
    <3> QED BY <3>2, <3>3, FS_Union
  <2> QED BY <2>1, FS_Subset
<1>2. \E p : b = {p}
  BY <1>1, FS_Singleton DEF Single
<1> QED BY <1>2

(* Updates that differ in what the entry sends, if at all.                  *)
SameButOut(u, v) ==
  /\ v \in Update /\ v.g = u.g /\ v.rows = u.rows /\ v.mac = u.mac /\ v.cl = u.cl
  /\ v.deleted = u.deleted /\ v.e.state = u.e.state /\ v.e.flow = u.e.flow

LEMMA OutSet ==
  ASSUME NEW u \in Update, NEW o \in Out
  PROVE  LET v == [u EXCEPT !.e = [u.e EXCEPT !.out = o]] IN SameButOut(u, v) /\ v.e.out = o
<1> DEFINE e == [u.e EXCEPT !.out = o]
           v == [u EXCEPT !.e = e]
<1>1. u.e \in Entry
  BY DEF Update
<1>2. e \in Entry /\ e.out = o /\ e.state = u.e.state /\ e.flow = u.e.flow
  BY <1>1, SetOut
<1> HIDE DEF e
<1>3. /\ v \in Update /\ v.e = e /\ v.g = u.g /\ v.rows = u.rows /\ v.mac = u.mac
      /\ v.cl = u.cl /\ v.deleted = u.deleted
  BY <1>2, SetE
<1> HIDE DEF v
<1> QED BY <1>2, <1>3 DEF SameButOut, v, e

LEMMA McastSet ==
  ASSUME NEW u \in Update, NEW x \in BOOLEAN
  PROVE  LET v == [u EXCEPT !.e.out.mcast = x] IN
         SameButOut(u, v) /\ v.e.out.mcast = x /\ v.e.out.dp = u.e.out.dp /\ v.e.out.tops = u.e.out.tops
<1> DEFINE o == [u.e.out EXCEPT !.mcast = x]
<1>1. u.e \in Entry /\ u.e.out \in Out
  BY DEF Update, Entry
<1>2. o \in Out /\ o.mcast = x /\ o.dp = u.e.out.dp /\ o.tops = u.e.out.tops
  BY <1>1 DEF Out
<1>3. [u EXCEPT !.e.out.mcast = x] = [u EXCEPT !.e = [u.e EXCEPT !.out = o]]
  BY <1>1 DEF Update, Entry, Out
<1> HIDE DEF o
<1> QED BY <1>2, <1>3, OutSet

LEMMA DpSet ==
  ASSUME NEW u \in Update, NEW x \in Ports \cup {None}
  PROVE  LET v == [u EXCEPT !.e.out.dp = x] IN
         SameButOut(u, v) /\ v.e.out.dp = x /\ v.e.out.mcast = u.e.out.mcast /\ v.e.out.tops = u.e.out.tops
<1> DEFINE o == [u.e.out EXCEPT !.dp = x]
<1>1. u.e \in Entry /\ u.e.out \in Out
  BY DEF Update, Entry
<1>2. o \in Out /\ o.dp = x /\ o.mcast = u.e.out.mcast /\ o.tops = u.e.out.tops
  BY <1>1 DEF Out
<1>3. [u EXCEPT !.e.out.dp = x] = [u EXCEPT !.e = [u.e EXCEPT !.out = o]]
  BY <1>1 DEF Update, Entry, Out
<1> HIDE DEF o
<1> QED BY <1>2, <1>3, OutSet

LEMMA TopsSet ==
  ASSUME NEW u \in Update, NEW x \in BOOLEAN
  PROVE  LET v == [u EXCEPT !.e.out.tops = x] IN
         SameButOut(u, v) /\ v.e.out.tops = x /\ v.e.out.mcast = u.e.out.mcast /\ v.e.out.dp = u.e.out.dp
<1> DEFINE o == [u.e.out EXCEPT !.tops = x]
<1>1. u.e \in Entry /\ u.e.out \in Out
  BY DEF Update, Entry
<1>2. o \in Out /\ o.tops = x /\ o.mcast = u.e.out.mcast /\ o.dp = u.e.out.dp
  BY <1>1 DEF Out
<1>3. [u EXCEPT !.e.out.tops = x] = [u EXCEPT !.e = [u.e EXCEPT !.out = o]]
  BY <1>1 DEF Update, Entry, Out
<1> HIDE DEF o
<1> QED BY <1>2, <1>3, OutSet

LEMMA TagFacts ==
  ASSUME NEW u \in Update, NEW stag \in SUBSET Lan
  PROVE  LET v == Tag(u, stag) IN SameButOut(u, v) /\ v.e.out.tops = u.e.out.tops
<1> DEFINE o == [u.e.out EXCEPT !.stag = stag]
<1>1. u.e \in Entry /\ u.e.out \in Out
  BY DEF Update, Entry
<1>2. o \in Out /\ o.tops = u.e.out.tops
  BY <1>1 DEF Out
<1>3. Tag(u, stag) = [u EXCEPT !.e = [u.e EXCEPT !.out = o]]
  BY <1>1 DEF Tag, Update, Entry, Out
<1> HIDE DEF o
<1> QED BY <1>2, <1>3, OutSet

LEMMA OnePortFacts ==
  ASSUME NEW u \in Update, NEW b \in SUBSET Ports, Single(b)
  PROVE  LET v == OnePort(u, b) IN
         SameButOut(u, v) /\ v.e.out.mcast = FALSE /\ {v.e.out.dp} = b /\ v.e.out.tops = FALSE
<1> DEFINE p == CHOOSE q \in b : TRUE
           v1 == [u EXCEPT !.e.out.mcast = FALSE]
           v2 == [v1 EXCEPT !.e.out.dp = p]
           v3 == [v2 EXCEPT !.e.out.tops = FALSE]
<1>1. p \in Ports /\ {p} = b
  BY SinglePort
<1>2. OnePort(u, b) = v3
  BY DEF OnePort
<1> HIDE DEF p
<1>3. SameButOut(u, v1) /\ v1.e.out.mcast = FALSE
  BY McastSet
<1> HIDE DEF v1
<1>4. SameButOut(v1, v2) /\ v2.e.out.mcast = FALSE /\ v2.e.out.dp = p
  BY <1>1, <1>3, DpSet DEF SameButOut
<1> HIDE DEF v2
<1>5. SameButOut(v2, v3) /\ v3.e.out.mcast = FALSE /\ v3.e.out.dp = p /\ v3.e.out.tops = FALSE
  BY <1>4, TopsSet DEF SameButOut
<1> HIDE DEF v3
<1> QED BY <1>1, <1>2, <1>3, <1>4, <1>5 DEF SameButOut

(* Group records that differ in one field.                                  *)
LEMMA SetRow ==
  ASSUME NEW g \in GroupRecord, NEW row \in Rows \cup {None}
  PROVE  LET x == [g EXCEPT !.row = row] IN
         /\ x \in GroupRecord /\ x.row = row /\ x.members = g.members /\ x.slot = g.slot
         /\ x.bmp = g.bmp /\ x.offload = g.offload
BY DEF GroupRecord

LEMMA SetBmpSlot ==
  ASSUME NEW g \in GroupRecord, NEW b \in SUBSET Ports
  PROVE  /\ LET x == [g EXCEPT !.bmp = b] IN
            /\ x \in GroupRecord /\ x.row = g.row /\ x.members = g.members /\ x.slot = g.slot
            /\ x.bmp = b /\ x.offload = g.offload
         /\ LET x == [g EXCEPT !.slot = None] IN
            /\ x \in GroupRecord /\ x.row = g.row /\ x.members = g.members /\ x.slot = None
            /\ x.bmp = g.bmp /\ x.offload = g.offload
         /\ LET x == [g EXCEPT !.bmp = b, !.slot = None] IN
            /\ x \in GroupRecord /\ x.row = g.row /\ x.members = g.members /\ x.slot = None
            /\ x.bmp = b /\ x.offload = g.offload
BY DEF GroupRecord

LEMMA SetOffload ==
  ASSUME NEW g \in GroupRecord, NEW o \in BOOLEAN
  PROVE  LET x == [g EXCEPT !.offload = o] IN
         /\ x \in GroupRecord /\ x.row = g.row /\ x.members = g.members /\ x.slot = g.slot
         /\ x.bmp = g.bmp /\ x.offload = o
BY DEF GroupRecord

LEMMA FreeRowFacts ==
  ASSUME NEW u \in Update
  PROVE  LET v == FreeRow(u) IN
         /\ v \in Update /\ v.e = u.e /\ v.mac = u.mac /\ v.cl = u.cl /\ v.deleted = u.deleted
         /\ v.g.row = None /\ v.g.members = u.g.members /\ v.g.slot = u.g.slot
         /\ v.g.bmp = u.g.bmp /\ v.g.offload = u.g.offload
         /\ \A r \in Rows : r # u.g.row => v.rows[r] = u.rows[r]
<1> DEFINE rows == [u.rows EXCEPT ![u.g.row] = None]
           g == [u.g EXCEPT !.row = None]
           v == [u EXCEPT !.rows = rows, !.g = g]
<1>1. u.g \in GroupRecord /\ u.rows \in RowTable
  BY DEF Update
<1>2. CASE u.g.row = None
  BY <1>1, <1>2 DEF FreeRow
<1>3. CASE u.g.row # None
  <2>1. FreeRow(u) = v
    BY <1>3 DEF FreeRow
  <2>2. rows \in RowTable /\ \A r \in Rows : r # u.g.row => rows[r] = u.rows[r]
    BY <1>1 DEF RowTable
  <2> HIDE DEF rows
  <2>3. /\ g \in GroupRecord /\ g.row = None /\ g.members = u.g.members /\ g.slot = u.g.slot
        /\ g.bmp = u.g.bmp /\ g.offload = u.g.offload
    BY <1>1, SetRow
  <2> HIDE DEF g
  <2>4. /\ v \in Update /\ v.e = u.e /\ v.g = g /\ v.rows = rows /\ v.mac = u.mac
        /\ v.cl = u.cl /\ v.deleted = u.deleted
    BY <2>2, <2>3, SetRows
  <2> QED BY <2>1, <2>2, <2>3, <2>4
<1> QED BY <1>2, <1>3

(* Every non-empty set of naturals has a least element: of the intervals    *)
(* 0..x for its elements x, one is minimal under inclusion.                 *)
LEMMA LeastNatural ==
  ASSUME NEW S, S \subseteq Nat, S # {}
  PROVE  \E x \in S : \A y \in S : x <= y
<1> DEFINE T == {0 .. x : x \in S}
           R == StrictSubsetOrdering(Nat)
<1>1. T \subseteq FiniteSubsetsOf(Nat)
  <2>1. \A x \in S : 0 .. x \subseteq Nat /\ IsFiniteSet(0 .. x)
    BY FS_Interval
  <2> QED BY <2>1 DEF FiniteSubsetsOf
<1>2. T # {}
  OBVIOUS
<1>3. IsWellFoundedOn(R, FiniteSubsetsOf(Nat))
  BY FS_StrictSubsetOrderingWellFounded
<1>4. \E u \in T : \A v \in T : ~ (<<v, u>> \in R)
  <2> HIDE DEF T, R
  <2> QED BY <1>1, <1>2, <1>3, WFMin
<1>5. PICK x \in S : \A y \in S : ~ (<<0 .. y, 0 .. x>> \in R)
  BY <1>4
<1>6. ASSUME NEW y \in S, y < x
      PROVE  FALSE
  <2>1. x \in Nat /\ y \in Nat
    OBVIOUS
  <2>2. 0 .. y \subseteq 0 .. x
    BY <1>6, <2>1
  <2>3. x \in 0 .. x /\ x \notin 0 .. y
    BY <1>6, <2>1
  <2>4. 0 .. y # 0 .. x
    BY <2>3
  <2>5. 0 .. x \in SUBSET Nat /\ 0 .. y \in SUBSET Nat
    BY <2>1
  <2>6. <<0 .. y, 0 .. x>> \in R
    BY <2>2, <2>4, <2>5 DEF StrictSubsetOrdering
  <2> QED BY <1>5, <2>6
<1> QED BY <1>6

LEMMA FirstFreeIsFree ==
  ASSUME NEW rows \in RowTable, FirstFree(rows) # None
  PROVE  FirstFree(rows) \in Rows /\ rows[FirstFree(rows)] = None
<1> DEFINE S == {r \in Rows : rows[r] = None}
<1>1. S \subseteq Nat /\ S # {}
  BY DEF FirstFree, Rows
<1>2. PICK r \in S : \A q \in S : r <= q
  BY <1>1, LeastNatural
<1>3. \A q \in 1 .. r - 1 : rows[q] # None
  <2> SUFFICES ASSUME NEW q \in 1 .. r - 1, rows[q] = None PROVE FALSE
    OBVIOUS
  <2>1. r \in Nat /\ r \in Rows /\ q \in Rows /\ ~(r <= q)
    BY <1>1, <1>2, McastAssumption DEF Rows
  <2> QED BY <1>2, <2>1
<1>4. \E x \in Rows : rows[x] = None /\ \A q \in 1 .. x - 1 : rows[q] # None
  BY <1>2, <1>3
<1> QED BY <1>4 DEF FirstFree

TableBmp(b, toNpu) == IF toNpu THEN (b \ {"gdma1"}) \cup {"tdma"} ELSE b

(* The hardware sends what entry e stands for to the ports bmp.             *)
Sends(row, bmp, mac, rows, e) ==
  IF ~e.out.mcast THEN {e.out.dp} = bmp
  ELSE row # None /\ rows[row] = [mac |-> mac, bmp |-> TableBmp(bmp, e.out.tops)]

(* What an update relies on: the row of the group is written, and an entry  *)
(* that goes through the NPU is one of a board that has the tag for it.     *)
Fit(u) ==
  /\ u.g.row # None => u.rows[u.g.row] # None
  /\ u.e.out.tops => MtkDsa

(* What every update keeps: other rows, and the group but for its row, its  *)
(* slot, which it may lose, and what it is recorded to send.                *)
Handed(u, v) ==
  /\ v \in Update /\ v.mac = u.mac /\ v.g.members = u.g.members
  /\ v.g.slot \in {u.g.slot, None}
  /\ v.e = Zero \/ (v.e.state = u.e.state /\ v.e.flow = u.e.flow)
  /\ v.g.row \in {None, u.g.row} \/ u.rows[v.g.row] = None
  /\ \A r \in Rows : r # u.g.row /\ r # v.g.row => v.rows[r] = u.rows[r]
  /\ Fit(u) => Fit(v)

WithRow(u, row, new) == [u EXCEPT !.g.row = row, !.rows[row] = new]

LEMMA SetTableRow ==
  ASSUME NEW u \in Update, NEW row \in Rows, NEW new \in Row
  PROVE  LET v == WithRow(u, row, new) IN
         /\ v \in Update /\ v.e = u.e /\ v.mac = u.mac /\ v.cl = u.cl /\ v.deleted = u.deleted
         /\ v.g.row = row /\ v.g.members = u.g.members /\ v.g.slot = u.g.slot
         /\ v.g.bmp = u.g.bmp /\ v.g.offload = u.g.offload
         /\ v.rows[row] = new /\ \A r \in Rows : r # row => v.rows[r] = u.rows[r]
<1> DEFINE g == [u.g EXCEPT !.row = row]
           rows == [u.rows EXCEPT ![row] = new]
           v == [u EXCEPT !.rows = rows, !.g = g]
           x == [u EXCEPT !.g.row = row, !.rows[row] = new]
<1>1. u.g \in GroupRecord /\ u.rows \in RowTable
  BY DEF Update
<1>2. x = v
  BY DEF Update
<1> HIDE DEF x
<1>3. /\ g \in GroupRecord /\ g.row = row /\ g.members = u.g.members /\ g.slot = u.g.slot
      /\ g.bmp = u.g.bmp /\ g.offload = u.g.offload
  BY <1>1, SetRow
<1>4. rows \in RowTable /\ rows[row] = new /\ \A r \in Rows : r # row => rows[r] = u.rows[r]
  BY <1>1 DEF RowTable
<1> HIDE DEF g, rows
<1>5. /\ v \in Update /\ v.e = u.e /\ v.g = g /\ v.rows = rows /\ v.mac = u.mac
      /\ v.cl = u.cl /\ v.deleted = u.deleted
  BY <1>3, <1>4, SetRows
<1> HIDE DEF v
<1>6. /\ x \in Update /\ x.e = u.e /\ x.mac = u.mac /\ x.cl = u.cl /\ x.deleted = u.deleted
      /\ x.g.row = row /\ x.g.members = u.g.members /\ x.g.slot = u.g.slot
      /\ x.g.bmp = u.g.bmp /\ x.g.offload = u.g.offload
      /\ x.rows[row] = new /\ \A r \in Rows : r # row => x.rows[r] = u.rows[r]
  BY <1>2, <1>3, <1>4, <1>5
<1> QED BY <1>6 DEF x, WithRow

LEMMA TableSends ==
  ASSUME NEW u \in Update, NEW tops \in BOOLEAN
  PROVE  LET v == [u EXCEPT !.e.out.mcast = TRUE, !.e.out.dp = None, !.e.out.tops = @ \/ tops] IN
         SameButOut(u, v) /\ v.e.out.mcast = TRUE /\ v.e.out.tops = (u.e.out.tops \/ tops)
<1> DEFINE o == [u.e.out EXCEPT !.mcast = TRUE, !.dp = None, !.tops = @ \/ tops]
<1>1. u.e \in Entry /\ u.e.out \in Out
  BY DEF Update, Entry
<1>2. o \in Out /\ o.mcast = TRUE /\ o.tops = (u.e.out.tops \/ tops)
  BY <1>1 DEF Out
<1>3. [u EXCEPT !.e.out.mcast = TRUE, !.e.out.dp = None, !.e.out.tops = @ \/ tops]
        = [u EXCEPT !.e = [u.e EXCEPT !.out = o]]
  BY <1>1 DEF Update, Entry, Out
<1> HIDE DEF o
<1> QED BY <1>2, <1>3, OutSet

LEMMA TableFacts ==
  ASSUME NEW u \in Update, NEW b \in SUBSET Ports, NEW toNpu \in BOOLEAN, toNpu = MtkDsa
  PROVE  LET v == Table(u, b, toNpu) IN
         /\ Handed(u, v) /\ v.deleted = u.deleted
         /\ v.g.slot = u.g.slot \/ v.e.flow = None
         /\ v.g.slot # None =>
              /\ v.g.row # None /\ v.e.out.mcast /\ v.e.out.tops = (u.e.out.tops \/ toNpu)
              /\ v.rows[v.g.row] = [mac |-> v.mac, bmp |-> TableBmp(b, toNpu)]
<1> DEFINE row == IF u.g.row # None THEN u.g.row ELSE FirstFree(u.rows)
           new == [mac |-> u.mac, bmp |-> TableBmp(b, toNpu)]
<1>1. /\ u.g \in GroupRecord /\ u.rows \in RowTable /\ u.g.row \in Rows \cup {None}
      /\ u.e \in Entry /\ u.mac \in {MacOf[i] : i \in Ips} /\ u.e.out.tops \in BOOLEAN
  BY DEF Update, GroupRecord, Entry, Out
<1>2. CASE row = None
  <2> DEFINE g == [u.g EXCEPT !.slot = None]
             v1 == [u EXCEPT !.e = Zero]
             v == [v1 EXCEPT !.g = g]
  <2>1. Table(u, b, toNpu) = v
    BY <1>2 DEF Table, Update
  <2>2. g \in GroupRecord /\ g.row = u.g.row /\ g.members = u.g.members /\ g.slot = None
    BY <1>1 DEF GroupRecord
  <2> HIDE DEF g
  <2>3. v1 \in Update /\ v1.e = Zero /\ v1.g = u.g /\ v1.rows = u.rows /\ v1.mac = u.mac
        /\ v1.deleted = u.deleted
    BY ZeroType, SetE
  <2> HIDE DEF v1
  <2>4. v \in Update /\ v.e = Zero /\ v.g = g /\ v.rows = u.rows /\ v.mac = u.mac
        /\ v.deleted = u.deleted
    BY <2>2, <2>3, SetG
  <2> HIDE DEF v
  <2> QED BY <2>1, <2>2, <2>4, ZeroType DEF Handed, Fit
<1>3. CASE row # None
  <2>1. row \in Rows /\ (u.g.row = row \/ u.rows[row] = None)
    BY <1>1, <1>3, FirstFreeIsFree
  <2>2. new \in Row /\ new # None
    <3>1. TableBmp(b, toNpu) \in SUBSET Ports
      BY DEF TableBmp, Ports
    <3> QED BY <1>1, <3>1, NoneApart DEF Row
  <2>3. u.g.row # None => u.g.row = row
    OBVIOUS
  <2> DEFINE w == WithRow(u, row, new)
             v == [w EXCEPT !.e.out.mcast = TRUE, !.e.out.dp = None, !.e.out.tops = @ \/ toNpu]
  <2>7. Table(u, b, toNpu) = v
    BY <1>3 DEF Table, TableBmp, WithRow
  <2> HIDE DEF row
  <2>4. new = [mac |-> u.mac, bmp |-> TableBmp(b, toNpu)]
    OBVIOUS
  <2> HIDE DEF new
  <2>5. /\ w \in Update /\ w.e = u.e /\ w.mac = u.mac /\ w.cl = u.cl /\ w.deleted = u.deleted
        /\ w.g.row = row /\ w.g.members = u.g.members /\ w.g.slot = u.g.slot
        /\ w.g.bmp = u.g.bmp /\ w.g.offload = u.g.offload
        /\ w.rows[row] = new /\ \A r \in Rows : r # row => w.rows[r] = u.rows[r]
    BY <2>1, <2>2, SetTableRow
  <2> HIDE DEF w
  <2>6. SameButOut(w, v) /\ v.e.out.mcast = TRUE /\ v.e.out.tops = (w.e.out.tops \/ toNpu)
    BY <2>5, TableSends
  <2>8. v.e.out.tops = (u.e.out.tops \/ toNpu)
    BY <2>5, <2>6
  <2> HIDE DEF v
  <2>9. /\ v \in Update /\ v.mac = u.mac /\ v.g.members = u.g.members /\ v.g.slot = u.g.slot
        /\ v.e.state = u.e.state /\ v.e.flow = u.e.flow /\ v.g.row = row /\ v.deleted = u.deleted
        /\ v.rows[row] = new /\ \A r \in Rows : r # row => v.rows[r] = u.rows[r]
    BY <2>5, <2>6 DEF SameButOut
  <2>10. v.g.row # None
    BY <1>3, <2>9
  <2>11. Handed(u, v)
    BY <2>1, <2>2, <2>3, <2>8, <2>9 DEF Handed, Fit
  <2> QED BY <2>4, <2>6, <2>7, <2>8, <2>9, <2>10, <2>11
<1> QED BY <1>2, <1>3

(* Updates that differ in the clients, in the offload and in the tag.       *)
Alike(u, v) ==
  /\ v \in Update /\ v.rows = u.rows /\ v.mac = u.mac /\ v.deleted = u.deleted
  /\ v.e.state = u.e.state /\ v.e.flow = u.e.flow /\ v.e.out.tops = u.e.out.tops
  /\ v.g.row = u.g.row /\ v.g.members = u.g.members /\ v.g.slot = u.g.slot

LEMMA AlikeHanded ==
  ASSUME NEW u \in Update, NEW w, NEW v, Alike(u, w), Handed(w, v)
  PROVE  Handed(u, v)
BY DEF Alike, Handed, Fit

LEMMA TagAlike ==
  ASSUME NEW u \in Update, NEW stag \in SUBSET Lan
  PROVE  Alike(u, Tag(u, stag))
BY TagFacts DEF Alike, SameButOut

LEMMA NpuAlike ==
  ASSUME NEW u \in Update, NEW b, NEW stag \in SUBSET Lan, NEW type, NEW dev, NEW bad
  PROVE  Alike(u, NpuUpdate(u, b, stag, type, dev, bad))
<1> DEFINE new == Inserted(u, b, stag, type, dev)
           failing == (new \cap bad) \cup (IF dev \in Lan THEN {} ELSE new \cap u.cl)
           cl == (u.cl \cup (new \ bad)) \ Removed(u, b, stag, type, dev)
           off == u.g.offload /\ failing = {}
           g == [u.g EXCEPT !.offload = off]
           w == [u EXCEPT !.cl = cl, !.g = g]
           v == NpuUpdate(u, b, stag, type, dev, bad)
<1>1. u.g \in GroupRecord /\ u.cl \in SUBSET Lan /\ u.g.offload \in BOOLEAN
  BY DEF Update, GroupRecord
<1>2. new \in SUBSET Lan
  BY DEF Inserted
<1>3. cl \in SUBSET Lan
  BY <1>1, <1>2
<1>4. off \in BOOLEAN
  BY <1>1
<1>5. v = w
  BY DEF NpuUpdate, Update
<1> HIDE DEF v, cl, off
<1>6. g \in GroupRecord /\ g.row = u.g.row /\ g.members = u.g.members /\ g.slot = u.g.slot
  BY <1>1, <1>4, SetOffload
<1> HIDE DEF g
<1>7. w \in Update /\ w.rows = u.rows /\ w.mac = u.mac /\ w.deleted = u.deleted /\ w.e = u.e /\ w.g = g
  BY <1>3, <1>6 DEF Update
<1> HIDE DEF w
<1>8. Alike(u, w)
  BY <1>6, <1>7 DEF Alike
<1> QED BY <1>5, <1>8 DEF v

LEMMA DoneFacts ==
  ASSUME NEW u \in Update, NEW b \in SUBSET Ports
  PROVE  LET v == Done(u, b) IN
         /\ v \in Update /\ v.e = u.e /\ v.rows = u.rows /\ v.mac = u.mac /\ v.deleted = u.deleted
         /\ v.g.row = u.g.row /\ v.g.members = u.g.members /\ v.g.slot = u.g.slot /\ v.g.bmp = b
<1> DEFINE g == [u.g EXCEPT !.bmp = b]
           w == [u EXCEPT !.g = g]
<1>1. u.g \in GroupRecord
  BY DEF Update
<1>2. g \in GroupRecord /\ g.row = u.g.row /\ g.members = u.g.members /\ g.slot = u.g.slot /\ g.bmp = b
  BY <1>1, SetBmpSlot
<1>3. Done(u, b) = w
  BY DEF Done, Update
<1> HIDE DEF g
<1>4. w \in Update /\ w.e = u.e /\ w.g = g /\ w.rows = u.rows /\ w.mac = u.mac /\ w.deleted = u.deleted
  BY <1>2, SetG
<1> HIDE DEF w
<1> QED BY <1>2, <1>3, <1>4

LEMMA WithdrawFacts ==
  ASSUME NEW u \in Update
  PROVE  Handed(u, Withdraw(u)) /\ Withdraw(u).g.slot = None /\ Withdraw(u).deleted
<1> DEFINE f == FreeRow(u)
           g == [f.g EXCEPT !.bmp = {}, !.slot = None]
           w == [f EXCEPT !.deleted = TRUE, !.g = g]
<1>1. /\ f \in Update /\ f.e = u.e /\ f.mac = u.mac /\ f.g.row = None
      /\ f.g.members = u.g.members /\ \A r \in Rows : r # u.g.row => f.rows[r] = u.rows[r]
  BY FreeRowFacts
<1>2. Withdraw(u) = w
  <2> HIDE DEF f
  <2>1. Withdraw(u) = [f EXCEPT !.deleted = TRUE, !.g.bmp = {}, !.g.slot = None]
    BY DEF Withdraw, f
  <2> QED BY <1>1, <2>1 DEF Update
<1> HIDE DEF f
<1>3. g \in GroupRecord /\ g.row = None /\ g.members = u.g.members /\ g.slot = None
  <2>1. f.g \in GroupRecord /\ {} \in SUBSET Ports
    BY <1>1 DEF Update
  <2> QED BY <1>1, <2>1, SetBmpSlot
<1> HIDE DEF g
<1>4. w \in Update /\ w.e = u.e /\ w.g = g /\ w.rows = f.rows /\ w.mac = u.mac /\ w.deleted
  BY <1>1, <1>3 DEF Update
<1> HIDE DEF w
<1>5. Handed(u, w)
  BY <1>1, <1>3, <1>4 DEF Handed, Fit
<1> QED BY <1>2, <1>3, <1>4, <1>5

(* What an update establishes, once the ports are recorded.                 *)
Settled(u, v, b) ==
  /\ Handed(u, v)
  /\ v.deleted => v.g.slot = None
  /\ v.g.slot = None /\ u.g.slot # None => v.deleted \/ v.e.flow = None
  /\ Fit(u) /\ v.g.slot # None => Sends(v.g.row, b, v.mac, v.rows, v.e)

LEMMA DoneSettled ==
  ASSUME NEW u \in Update, NEW v, NEW b \in SUBSET Ports, Settled(u, v, b)
  PROVE  Settled(u, Done(v, b), b) /\ Done(v, b).g.bmp = b
<1>1. v \in Update
  BY DEF Settled, Handed
<1> DEFINE w == Done(v, b)
<1>2. /\ w \in Update /\ w.e = v.e /\ w.rows = v.rows /\ w.mac = v.mac /\ w.deleted = v.deleted
      /\ w.g.row = v.g.row /\ w.g.members = v.g.members /\ w.g.slot = v.g.slot /\ w.g.bmp = b
  BY <1>1, DoneFacts
<1> HIDE DEF w
<1>3. Settled(u, w, b) /\ w.g.bmp = b
  BY <1>2 DEF Settled, Handed, Fit
<1> QED BY <1>3 DEF w

LEMMA PortSettled ==
  ASSUME NEW u \in Update, NEW b \in SUBSET Ports, Single(b), ~u.deleted
  PROVE  Settled(u, FreeRow(OnePort(u, b)), b)
<1> DEFINE p == OnePort(u, b)
           v == FreeRow(p)
<1>1. SameButOut(u, p) /\ p.e.out.mcast = FALSE /\ {p.e.out.dp} = b /\ p.e.out.tops = FALSE
  BY OnePortFacts
<1> HIDE DEF p
<1>2. /\ v \in Update /\ v.e = p.e /\ v.mac = p.mac /\ v.cl = p.cl /\ v.deleted = p.deleted
      /\ v.g.row = None /\ v.g.members = p.g.members /\ v.g.slot = p.g.slot
      /\ \A r \in Rows : r # p.g.row => v.rows[r] = p.rows[r]
  BY <1>1, FreeRowFacts DEF SameButOut
<1> HIDE DEF v
<1>3. Settled(u, v, b)
  BY <1>1, <1>2 DEF Settled, Handed, Fit, Sends, SameButOut
<1> QED BY <1>3 DEF v, p

LEMMA TableSettled ==
  ASSUME NEW u \in Update, NEW b \in SUBSET Ports, NEW toNpu \in BOOLEAN, ~u.deleted,
         toNpu = MtkDsa
  PROVE  Settled(u, Table(u, b, toNpu), b)
<1> DEFINE v == Table(u, b, toNpu)
<1>1. /\ Handed(u, v) /\ v.deleted = u.deleted
      /\ v.g.slot = u.g.slot \/ v.e.flow = None
      /\ v.g.slot # None =>
           /\ v.g.row # None /\ v.e.out.mcast /\ v.e.out.tops = (u.e.out.tops \/ toNpu)
           /\ v.rows[v.g.row] = [mac |-> v.mac, bmp |-> TableBmp(b, toNpu)]
  BY TableFacts
<1> HIDE DEF v
<1>2. Settled(u, v, b)
  BY <1>1 DEF Settled, Sends, Fit
<1> QED BY <1>2 DEF v

LEMMA PortOrTableSettled ==
  ASSUME NEW u \in Update, NEW b \in SUBSET Ports, NEW toNpu \in BOOLEAN, ~u.deleted,
         toNpu = MtkDsa
  PROVE  Settled(u, PortOrTable(u, b, toNpu), b)
BY PortSettled, TableSettled DEF PortOrTable

LEMMA AlikeSettled ==
  ASSUME NEW u \in Update, NEW w, NEW v, NEW b, Alike(u, w), Settled(w, v, b)
  PROVE  Settled(u, v, b)
<1>1. Fit(u) => Fit(w)
  BY DEF Alike, Fit
<1> QED BY <1>1, AlikeHanded DEF Settled, Alike

(* A whole update.                                                          *)
LEMMA UpdatedFacts ==
  ASSUME NEW u \in Update, NEW b \in SUBSET Ports, NEW stag \in SUBSET Lan, NEW type, NEW dev,
         NEW bad, ~u.deleted, npu \in BOOLEAN
  PROVE  LET v == Updated(u, b, stag, type, dev, bad) IN
         Settled(u, v, b) /\ (v.g.slot # None => v.g.bmp = b)
<1> DEFINE v == Updated(u, b, stag, type, dev, bad)
           t == Tag(u, stag)
           n == NpuUpdate(t, b, stag, type, dev, bad)
<1> SUFFICES Settled(u, v, b) /\ (v.g.slot # None => v.g.bmp = b)
  OBVIOUS
<1> HIDE DEF v
<1>0. MtkDsa \in BOOLEAN
  BY McastAssumption
<1>1. Alike(u, t) /\ t \in Update
  BY TagAlike DEF Alike
<1>2. CASE ~npu
  <2>1. v = WithoutNpu(u, b, stag)
    BY <1>2 DEF Updated, v
  <2>2. CASE Single(b) /\ b # {"tdma"}
    <3>1. v = Done(FreeRow(OnePort(t, b)), b)
      BY <2>1, <2>2 DEF WithoutNpu
    <3>2. Settled(t, FreeRow(OnePort(t, b)), b)
      BY <1>1, <2>2, PortSettled DEF Alike
    <3>3. Settled(u, FreeRow(OnePort(t, b)), b)
      BY <1>1, <3>2, AlikeSettled
    <3> QED BY <3>1, <3>3, DoneSettled
  <2>3. CASE ~(Single(b) /\ b # {"tdma"}) /\ (MtkDsa \/ "tdma" \in b)
    <3>1. v = Withdraw(u)
      BY <2>1, <2>3 DEF WithoutNpu
    <3>2. Handed(u, Withdraw(u)) /\ Withdraw(u).g.slot = None /\ Withdraw(u).deleted
      BY WithdrawFacts
    <3> QED BY <3>1, <3>2 DEF Settled
  <2>4. CASE ~(Single(b) /\ b # {"tdma"}) /\ ~(MtkDsa \/ "tdma" \in b)
    <3>1. v = Done(Table(u, b, FALSE), b)
      BY <2>1, <2>4 DEF WithoutNpu
    <3>2. Settled(u, Table(u, b, FALSE), b)
      BY <1>0, <2>4, TableSettled
    <3> QED BY <3>1, <3>2, DoneSettled
  <2> QED BY <2>2, <2>3, <2>4
<1>3. CASE npu /\ MtkDsa
  <2>1. v = Done(PortOrTable(n, b, TRUE), b)
    BY <1>3 DEF Updated, v
  <2>2. Alike(t, n) /\ n \in Update
    BY <1>1, NpuAlike DEF Alike
  <2> HIDE DEF t
  <2>3. ~n.deleted
    BY <1>1, <2>2 DEF Alike
  <2> HIDE DEF n
  <2>4. Settled(n, PortOrTable(n, b, TRUE), b)
    BY <1>3, <2>2, <2>3, PortOrTableSettled
  <2>5. Settled(t, PortOrTable(n, b, TRUE), b)
    BY <1>1, <2>2, <2>4, AlikeSettled
  <2>6. Settled(u, PortOrTable(n, b, TRUE), b)
    BY <1>1, <2>5, AlikeSettled
  <2> QED BY <2>1, <2>6, DoneSettled
<1>4. CASE npu /\ ~MtkDsa
  <2>1. v = Done(PortOrTable(u, b, FALSE), b)
    BY <1>4 DEF Updated, v
  <2>2. Settled(u, PortOrTable(u, b, FALSE), b)
    BY <1>0, <1>4, PortOrTableSettled
  <2> QED BY <2>1, <2>2, DoneSettled
<1> QED BY <1>0, <1>2, <1>3, <1>4
-------------------------------------------------------------------------------
(***************************************************************************)
(* Types.                                                                  *)
(***************************************************************************)
HwType ==
  /\ groups \in [Ips -> GroupRecord \cup {None}]
  /\ mtbl \in [Ppes -> [Rows -> Row \cup {None}]]
  /\ foe \in [Slots -> Entry]
  /\ clients \in [Ips -> SUBSET Lan]

(* What the types rely on: a packet under way has a flow and a device, and  *)
(* the groups that a walk has before it are there.                          *)
PacketsKnown == \A k \in Skbs : skb[k].pc # "idle" => skb[k].flow \in Flows /\ skb[k].dev \in Devs

WalksLive ==
  /\ mcast_lock # None => \A i \in mcast_lock.left : groups[i] # None
  /\ walker # None /\ ~walker.freed => groups[walker.ip] # None

TypeInv == TypeOK /\ PacketsKnown /\ WalksLive

LEMMA Places ==
  /\ \A f \in Flows : SlotOf[f] \in Slots /\ Group[f] \in Ips
  /\ \A s \in Slots : PpeOf[s] \in Ppes
  /\ \A d \in Devs : PseOf[d] \in Ports \cup {None}
  /\ Lan \subseteq Devs
BY McastAssumption DEF Slots, Ppes


LEMMA FirstTypes == Init => TypeInv
<1> SUFFICES ASSUME Init PROVE TypeInv
  OBVIOUS
<1>1. Zero \in Entry /\ 0 \in 0 .. RareMax
  BY ZeroType, McastAssumption
<1>2. npu \in BOOLEAN
  BY DEF Init
<1>3. IdleSkb \in Packet
  BY <1>1 DEF IdleSkb, Packet
<1>4. skb \in [Skbs -> Packet] /\ foe \in [Slots -> Entry]
  BY <1>1, <1>3 DEF Init
<1>5. nlq \in Seq(Message) /\ work \in [pc : {"idle", "run", "end"}, pending : BOOLEAN]
  BY DEF Init
<1>6. groups \in [Ips -> GroupRecord \cup {None}] /\ clients \in [Ips -> SUBSET Lan]
      /\ mtbl \in [Ppes -> [Rows -> Row \cup {None}]]
  BY DEF Init
<1>7. TypeOK
  BY <1>1, <1>2, <1>4, <1>5, <1>6 DEF Init, TypeOK
<1> QED BY <1>7 DEF Init, TypeInv, PacketsKnown, WalksLive, IdleSkb

LEMMA InvalidEntry ==
  ASSUME NEW e \in Entry
  PROVE  LET x == [e EXCEPT !.state = "INVALID"] IN
         x \in Entry /\ x.state = "INVALID" /\ x.out = e.out /\ x.flow = e.flow
BY DEF Entry

LEMMA DetachedType ==
  ASSUME NEW g \in GroupRecord \cup {None}
  PROVE  /\ Detached(g) \in GroupRecord \cup {None}
         /\ g = None => Detached(g) = None
         /\ g # None => /\ Detached(g) # None /\ Detached(g).slot = None /\ Detached(g).row = g.row
                        /\ Detached(g).members = g.members /\ Detached(g).bmp = {}
<1>1. CASE g = None
  BY <1>1 DEF Detached
<1>2. CASE g # None
  <2>1. g \in GroupRecord /\ {} \in SUBSET Ports
    BY <1>2
  <2> DEFINE x == [g EXCEPT !.bmp = {}, !.slot = None]
  <2>2. Detached(g) = x
    BY <1>2 DEF Detached
  <2>3. /\ x \in GroupRecord /\ x.row = g.row /\ x.members = g.members /\ x.slot = None
        /\ x.bmp = {}
    BY <2>1, SetBmpSlot
  <2> HIDE DEF x
  <2> QED BY <1>2, <2>2, <2>3, NoneApart
<1> QED BY <1>1, <1>2

LEMMA DetachTypes ==
  ASSUME HwType, NEW is, Detach(is), clients' \in [Ips -> SUBSET Lan]
  PROVE  HwType'
<1>1. \A i \in Ips : Detached(groups[i]) \in GroupRecord \cup {None}
  BY DetachedType DEF HwType
<1>2. groups' \in [Ips -> GroupRecord \cup {None}]
  BY <1>1 DEF HwType, Detach
<1>3. \A s \in Slots : [foe[s] EXCEPT !.state = "INVALID"] \in Entry
  BY InvalidEntry DEF HwType
<1>4. foe' \in [Slots -> Entry]
  BY <1>3 DEF HwType, Detach
<1> QED BY <1>2, <1>4 DEF HwType, Detach

LEMMA StagType ==
  ASSUME NEW g
  PROVE  Stag(g) \in SUBSET Lan /\ Bmp(g) \in SUBSET Ports
<1>1. Members(g) \subseteq Devs
  BY DEF Members
<1> QED BY <1>1, Places DEF Stag, Bmp

LEMMA BadType == \A bad \in Bad : bad \subseteq Lan
BY DEF Bad

(* The update that a group with an entry works on.                          *)
LEMMA WorkType ==
  ASSUME HwType, NEW i \in Ips, groups[i] # None, groups[i].slot # None
  PROVE  LET u == Work(i) IN
         /\ u \in Update /\ ~u.deleted /\ u.g = groups[i] /\ u.e = foe[groups[i].slot]
         /\ u.rows = mtbl[PpeOf[groups[i].slot]] /\ u.mac = MacOf[i] /\ u.cl = clients[i]
         /\ groups[i] \in GroupRecord /\ groups[i].slot \in Slots
<1>1. groups[i] \in GroupRecord
  BY DEF HwType
<1>2. groups[i].slot \in Slots
  BY <1>1 DEF GroupRecord
<1>3. foe[groups[i].slot] \in Entry /\ mtbl[PpeOf[groups[i].slot]] \in RowTable
  BY <1>2, Places DEF HwType, RowTable
<1> QED BY <1>1, <1>2, <1>3 DEF Work, Update, HwType

LEMMA NewGroupType == NewGroup \in GroupRecord /\ NewGroup.slot = None /\ NewGroup.row = None
BY DEF NewGroup, GroupRecord

LEMMA WithMemberType ==
  ASSUME NEW g \in GroupRecord, NEW m \in Message
  PROVE  LET x == WithMember(g, m) IN
         /\ x \in GroupRecord /\ x.row = g.row /\ x.slot = g.slot /\ x.bmp = g.bmp
         /\ x.members = [g.members EXCEPT ![m.dev] =
              IF m.type = "new" THEN @ + 1 ELSE IF @ > 0 THEN @ - 1 ELSE 0]
<1> DEFINE n == IF m.type = "new" THEN g.members[m.dev] + 1
                ELSE IF g.members[m.dev] > 0 THEN g.members[m.dev] - 1 ELSE 0
           ms == [g.members EXCEPT ![m.dev] = n]
           x == [g EXCEPT !.members = ms]
<1>1. g.members \in [Devs -> Nat] /\ m.dev \in Devs
  BY DEF GroupRecord, Message
<1>2. n \in Nat
  BY <1>1
<1>3. ms \in [Devs -> Nat]
  BY <1>1, <1>2
<1>4. WithMember(g, m) = x
  BY DEF WithMember, GroupRecord
<1>5. ms = [g.members EXCEPT ![m.dev] =
              IF m.type = "new" THEN @ + 1 ELSE IF @ > 0 THEN @ - 1 ELSE 0]
  OBVIOUS
<1> HIDE DEF ms
<1>6. x \in GroupRecord /\ x.row = g.row /\ x.slot = g.slot /\ x.bmp = g.bmp /\ x.members = ms
  BY <1>3 DEF GroupRecord
<1> HIDE DEF x
<1> QED BY <1>4, <1>5, <1>6

(* An update of group i for the entry of slot s, and what is stored of it:  *)
(* the group, unless it goes, and the entry.                                *)
Moved(i, s, u, v) ==
  /\ u \in Update /\ u.rows = mtbl[PpeOf[s]] /\ u.mac = MacOf[i]
  /\ Handed(u, v) /\ (v.deleted => v.g.slot = None)

Change(i, s, u, v) ==
  /\ Moved(i, s, u, v)
  /\ Fit(u) /\ v.g.slot # None => Sends(v.g.row, v.g.bmp, v.mac, v.rows, v.e)

Stored(i, s, x, e, v) ==
  /\ groups' = [groups EXCEPT ![i] = x]
  /\ mtbl' = [mtbl EXCEPT ![PpeOf[s]] = v.rows]
  /\ foe' = [foe EXCEPT ![s] = IF v.deleted THEN [foe[s] EXCEPT !.state = "INVALID"] ELSE e]
  /\ clients' = [clients EXCEPT ![i] = v.cl]

LEMMA StoredIs ==
  ASSUME NEW i, NEW s, NEW v \in Update
  PROVE  /\ Store(i, s, v) => Stored(i, s, v.g, v.e, v)
         /\ Store(i, s, [v EXCEPT !.g = Kept(@)]) => Stored(i, s, Kept(v.g), v.e, v)
         /\ \A e : Store(i, s, [v EXCEPT !.e = e]) => Stored(i, s, v.g, e, v)
<1>1. Store(i, s, v) => Stored(i, s, v.g, v.e, v)
  BY DEF Store, Stored
<1>2. ASSUME Store(i, s, [v EXCEPT !.g = Kept(@)])
      PROVE  Stored(i, s, Kept(v.g), v.e, v)
  <2> DEFINE w == [v EXCEPT !.g = Kept(@)]
  <2>1. w.g = Kept(v.g) /\ w.e = v.e /\ w.rows = v.rows /\ w.cl = v.cl /\ w.deleted = v.deleted
    BY DEF Update
  <2> HIDE DEF w
  <2>2. Store(i, s, w)
    BY <1>2 DEF w
  <2> QED BY <2>1, <2>2 DEF Store, Stored
<1>3. ASSUME NEW e, Store(i, s, [v EXCEPT !.e = e])
      PROVE  Stored(i, s, v.g, e, v)
  <2> DEFINE w == [v EXCEPT !.e = e]
  <2>1. w.g = v.g /\ w.e = e /\ w.rows = v.rows /\ w.cl = v.cl /\ w.deleted = v.deleted
    BY DEF Update
  <2> HIDE DEF w
  <2>2. Store(i, s, w)
    BY <1>3 DEF w
  <2> QED BY <2>1, <2>2 DEF Store, Stored
<1> QED BY <1>1, <1>2, <1>3

LEMMA StoredTypes ==
  ASSUME HwType, NEW i \in Ips, NEW s \in Slots, NEW v \in Update, NEW x \in {v.g, None},
         NEW e \in Entry, Stored(i, s, x, e, v)
  PROVE  HwType'
<1>1. PpeOf[s] \in Ppes /\ v.g \in GroupRecord /\ v.rows \in RowTable /\ v.cl \in SUBSET Lan
  BY Places DEF Update
<1>2. groups' \in [Ips -> GroupRecord \cup {None}] /\ clients' \in [Ips -> SUBSET Lan]
  BY <1>1 DEF HwType, Stored
<1>3. mtbl' \in [Ppes -> [Rows -> Row \cup {None}]]
  BY <1>1 DEF HwType, Stored, RowTable
<1>4. foe' \in [Slots -> Entry]
  <2>1. [foe[s] EXCEPT !.state = "INVALID"] \in Entry
    BY InvalidEntry DEF HwType
  <2> QED BY <2>1 DEF HwType, Stored
<1> QED BY <1>2, <1>3, <1>4 DEF HwType

(* The update that a message makes of a group with an entry.                *)
LEMMA EventHwUpdate ==
  ASSUME HwType, npu \in BOOLEAN, NEW i \in Ips, NEW m \in Message, groups[i] # None,
         NEW g \in GroupRecord, g.slot = groups[i].slot, g.row = groups[i].row, g.slot # None,
         EventHw(i, g, m)
  PROVE  \E u \in Update, v \in Update :
           /\ u.g = g /\ u.e = foe[g.slot] /\ Change(i, g.slot, u, v)
           /\ Stored(i, g.slot, Kept(v.g), v.e, v)
<1> DEFINE w == Work(i)
           u == [w EXCEPT !.g = g]
           gone == [u EXCEPT !.deleted = TRUE, !.g = Detached(g)]
           b == Bmp(g)
<1>1. /\ w \in Update /\ ~w.deleted /\ w.e = foe[g.slot]
      /\ w.rows = mtbl[PpeOf[g.slot]] /\ w.mac = MacOf[i]
  BY WorkType
<1>2. PICK bad \in Bad :
        LET v == IF b = {} THEN gone ELSE Updated(u, b, Stag(g), m.type, m.dev, bad)
        IN  Store(i, g.slot, [v EXCEPT !.g = Kept(@)])
  BY DEF EventHw
<1> HIDE DEF w
<1>3. /\ u \in Update /\ u.e = w.e /\ u.g = g /\ u.rows = w.rows /\ u.mac = w.mac /\ u.deleted = w.deleted
  BY <1>1, SetG
<1> DEFINE v == IF b = {} THEN gone ELSE Updated(u, b, Stag(g), m.type, m.dev, bad)
<1>4. v \in Update /\ Handed(u, v) /\ (v.deleted => v.g.slot = None)
      /\ (Fit(u) /\ v.g.slot # None => Sends(v.g.row, v.g.bmp, v.mac, v.rows, v.e))
  <2> HIDE DEF u, b
  <2>1. CASE b = {}
    <3>1. Detached(g) \in GroupRecord /\ Detached(g).slot = None /\ Detached(g).row = g.row
          /\ Detached(g).members = g.members
      BY DetachedType, NoneApart
    <3>2. gone \in Update /\ gone.e = u.e /\ gone.g = Detached(g) /\ gone.rows = u.rows /\ gone.mac = u.mac
      BY <1>3, <3>1 DEF Update
    <3> HIDE DEF gone
    <3>3. Handed(u, gone)
      BY <1>3, <3>1, <3>2 DEF Handed, Fit
    <3> QED BY <2>1, <3>1, <3>2, <3>3
  <2>2. CASE b # {}
    <3>1. b \in SUBSET Ports /\ Stag(g) \in SUBSET Lan
      BY StagType DEF b
    <3>2. v = Updated(u, b, Stag(g), m.type, m.dev, bad)
      BY <2>2
    <3> HIDE DEF v
    <3>3. Settled(u, v, b) /\ (v.g.slot # None => v.g.bmp = b)
      BY <1>1, <1>3, <3>1, <3>2, UpdatedFacts
    <3> QED BY <3>3 DEF Settled, Handed
  <2> QED BY <2>1, <2>2
<1>5. Store(i, g.slot, [v EXCEPT !.g = Kept(@)])
  BY <1>2
<1> HIDE DEF u, v
<1>6. Stored(i, g.slot, Kept(v.g), v.e, v)
  BY <1>4, <1>5, StoredIs
<1>7. Change(i, g.slot, u, v)
  BY <1>1, <1>3, <1>4 DEF Change, Moved
<1> QED BY <1>1, <1>3, <1>4, <1>6, <1>7

(* The update that a group with an entry makes when an interface goes down. *)
LEMMA IfDownUpdate ==
  ASSUME TypeInv, NEW i \in Ips, IfDownGroup(i), ~Leaves(groups[i], mcast_lock.dev)
  PROVE  \E u \in Update, v \in Update :
           /\ u.g = groups[i] /\ u.e = foe[u.g.slot] /\ u.g.slot \in Slots /\ Change(i, u.g.slot, u, v)
           /\ Stored(i, u.g.slot, v.g, v.e, v)
<1> DEFINE g == groups[i]
           u == Work(i)
           d == mcast_lock.dev
           b == Bmp(g)
<1>1. HwType /\ npu \in BOOLEAN /\ g # None /\ g.slot # None
  BY DEF TypeInv, TypeOK, HwType, WalksLive, IfDownGroup, Leaves
<1>2. /\ u \in Update /\ ~u.deleted /\ u.g = g /\ u.e = foe[g.slot]
      /\ u.rows = mtbl[PpeOf[g.slot]] /\ u.mac = MacOf[i] /\ g.slot \in Slots
  BY <1>1, WorkType
<1>3. PICK bad \in Bad :
        Store(i, g.slot, IF g.bmp \subseteq {PseOf[d]} THEN Withdraw(u)
                         ELSE Updated(u, b, Stag(g), "del", d, bad))
  BY DEF IfDownGroup
<1> HIDE DEF u, d
<1>4. b \in SUBSET Ports /\ Stag(g) \in SUBSET Lan
  BY StagType
<1> DEFINE v == IF g.bmp \subseteq {PseOf[d]} THEN Withdraw(u)
                ELSE Updated(u, b, Stag(g), "del", d, bad)
<1> HIDE DEF b, g
<1>5. v \in Update /\ Handed(u, v) /\ (v.deleted => v.g.slot = None)
      /\ (Fit(u) /\ v.g.slot # None => Sends(v.g.row, v.g.bmp, v.mac, v.rows, v.e))
  <2>1. CASE g.bmp \subseteq {PseOf[d]}
    <3>1. v = Withdraw(u)
      BY <2>1
    <3> HIDE DEF v
    <3> QED BY <1>2, <3>1, WithdrawFacts DEF Handed
  <2>2. CASE ~(g.bmp \subseteq {PseOf[d]})
    <3>1. v = Updated(u, b, Stag(g), "del", d, bad)
      BY <2>2
    <3> HIDE DEF v
    <3>2. Settled(u, v, b) /\ (v.g.slot # None => v.g.bmp = b)
      BY <1>1, <1>2, <1>4, <3>1, UpdatedFacts
    <3> QED BY <3>2 DEF Settled, Handed
  <2> QED BY <2>1, <2>2
<1>6. Store(i, g.slot, v)
  BY <1>3
<1> HIDE DEF v
<1>7. Stored(i, g.slot, v.g, v.e, v)
  BY <1>5, <1>6, StoredIs
<1>8. Change(i, g.slot, u, v)
  BY <1>2, <1>5 DEF Change, Moved
<1> QED BY <1>2, <1>5, <1>7, <1>8 DEF g

(* The update of a packet that is being bound.                              *)
LEMMA BindUpdate ==
  ASSUME TypeInv, NEW k \in Skbs, BindHandle(k), toggle, ~Refuses(groups[Group[skb[k].flow]])
  PROVE  LET i == Group[skb[k].flow]
             s == SlotOf[skb[k].flow] IN
         /\ i \in Ips /\ s \in Slots /\ groups[i] \in GroupRecord
         /\ \E u \in Update, v \in Update :
              /\ u.g.row = groups[i].row /\ u.g.slot = s /\ u.e = skb[k].e
              /\ u.g.members = groups[i].members
              /\ Bmp(groups[i]) # {} => Change(i, s, u, v)
              /\ Moved(i, s, u, v)
              /\ v.g.slot = None => v.deleted \/ v.e.flow = None
              /\ Stored(i, s, v.g, foe[s], v)
              /\ IF v.deleted \/ ~v.g.offload THEN Finish(k)
                 ELSE skb' = [skb EXCEPT ![k].pc = "commit", ![k].e = v.e]
<1> DEFINE i == Group[skb[k].flow]
           s == SlotOf[skb[k].flow]
           g == groups[i]
           taken == [g EXCEPT !.slot = s]
           u == [g |-> taken, e |-> skb[k].e, rows |-> mtbl[PpeOf[s]],
                 mac |-> MacOf[i], cl |-> clients[i], deleted |-> FALSE]
           b == Bmp(g)
<1>1. skb[k].flow \in Flows /\ skb[k].e \in Entry /\ HwType /\ npu \in BOOLEAN
  <2>1. skb[k] \in Packet /\ skb[k].pc = "bind"
    BY DEF TypeInv, TypeOK, BindHandle
  <2> QED BY <2>1 DEF TypeInv, TypeOK, PacketsKnown, Packet, HwType
<1>2. i \in Ips /\ s \in Slots
  BY <1>1, Places
<1>3. g \in GroupRecord
  BY <1>1, <1>2 DEF HwType, Refuses
<1>4. PICK bad \in Bad :
        LET v == IF b = {} THEN u ELSE Updated(u, b, Stag(g), "new", skb[k].dev, bad) IN
        /\ Store(i, s, [v EXCEPT !.e = foe[s]])
        /\ IF v.deleted \/ ~v.g.offload THEN Finish(k)
           ELSE skb' = [skb EXCEPT ![k].pc = "commit", ![k].e = v.e]
  BY DEF BindHandle
<1>5. b \in SUBSET Ports /\ Stag(g) \in SUBSET Lan
  BY StagType
<1>6. taken \in GroupRecord /\ taken.row = g.row /\ taken.slot = s /\ taken.members = g.members
  BY <1>2, <1>3 DEF GroupRecord
<1> DEFINE v == IF b = {} THEN u ELSE Updated(u, b, Stag(g), "new", skb[k].dev, bad)
<1>7. Store(i, s, [v EXCEPT !.e = foe[s]])
      /\ IF v.deleted \/ ~v.g.offload THEN Finish(k)
         ELSE skb' = [skb EXCEPT ![k].pc = "commit", ![k].e = v.e]
  BY <1>4
<1> HIDE DEF taken
<1>8. mtbl[PpeOf[s]] \in RowTable /\ clients[i] \in SUBSET Lan /\ MacOf[i] \in {MacOf[j] : j \in Ips}
  BY <1>1, <1>2, Places DEF HwType, RowTable
<1>9. /\ u \in Update /\ u.g = taken /\ u.e = skb[k].e /\ u.rows = mtbl[PpeOf[s]] /\ u.mac = MacOf[i]
      /\ ~u.deleted
  BY <1>1, <1>6, <1>8 DEF Update
<1> HIDE DEF u, b
<1>10. CASE b = {}
  <2>1. v = u
    BY <1>10
  <2> HIDE DEF v
  <2>2. Stored(i, s, v.g, foe[s], v)
    BY <1>7, <1>9, <2>1, StoredIs
  <2>3. v.g.slot # None
    BY <1>2, <1>6, <1>9, <2>1, NoneApart
  <2>4. Moved(i, s, u, v)
    BY <1>9, <2>1 DEF Moved, Handed
  <2> QED BY <1>2, <1>3, <1>6, <1>7, <1>9, <1>10, <2>1, <2>2, <2>3, <2>4 DEF b
<1>11. CASE b # {}
  <2>1. v = Updated(u, b, Stag(g), "new", skb[k].dev, bad)
    BY <1>11
  <2> HIDE DEF v
  <2>2. Settled(u, v, b) /\ (v.g.slot # None => v.g.bmp = b)
    BY <1>1, <1>5, <1>9, <2>1, UpdatedFacts
  <2>3. v \in Update /\ Change(i, s, u, v)
    BY <1>9, <2>2 DEF Change, Moved, Settled, Handed
  <2>4. v.g.slot = None => v.deleted \/ v.e.flow = None
    BY <1>2, <1>6, <1>9, <2>2, NoneApart DEF Settled
  <2>5. Stored(i, s, v.g, foe[s], v)
    BY <1>7, <2>3, StoredIs
  <2>6. Moved(i, s, u, v)
    BY <2>3 DEF Change
  <2> QED BY <1>2, <1>3, <1>6, <1>7, <1>9, <1>11, <2>3, <2>4, <2>5, <2>6 DEF b
<1> QED BY <1>10, <1>11

RestType ==
  /\ mdb \subseteq Joins /\ nlq \in Seq(Message) /\ lost \in BOOLEAN
  /\ work \in [pc : {"idle", "run", "end"}, pending : BOOLEAN]
  /\ up \subseteq Devs /\ flushing \in Devs \cup {None} /\ on \in BOOLEAN /\ npu \in BOOLEAN
  /\ blist \subseteq [ip : Ips, masked : BOOLEAN] /\ toggle \in BOOLEAN /\ switching \in BOOLEAN
  /\ skb \in [Skbs -> Packet]
  /\ mcast_lock \in [dev : Devs, left : SUBSET Ips] \cup {None}
  /\ walker \in [ip : Ips, hw_path : BOOLEAN, freed : BOOLEAN] \cup {None}
  /\ ser \in {"idle", "clear"} /\ rare \in 0 .. RareMax /\ raced \subseteq Ips /\ slipped \subseteq Ips

LEMMA TypeParts == (TypeOK <=> HwType /\ RestType) /\ (TypeOK' <=> HwType' /\ RestType')
BY DEF TypeOK, HwType, RestType

LEMMA RareType ==
  ASSUME rare \in 0 .. RareMax, NEW event, Rare(event)
  PROVE  rare' \in 0 .. RareMax
BY McastAssumption DEF Rare

LEMMA HistoryType ==
  ASSUME raced \subseteq Ips
  PROVE  /\ \A i \in Ips : Race(i) => raced' \subseteq Ips
         /\ \A is \in SUBSET Ips : \A pcs : Races(is, pcs) => raced' \subseteq Ips
BY DEF Race, Races

(* Steps that leave the packets alone or end one.                           *)
LEMMA IdleType == IdleSkb \in Packet
BY ZeroType DEF IdleSkb, Packet

LEMMA FinishTypes ==
  ASSUME TypeInv, NEW k \in Skbs, Finish(k)
  PROVE  skb' \in [Skbs -> Packet] /\ PacketsKnown'
<1>1. skb' \in [Skbs -> Packet]
  BY IdleType DEF TypeInv, TypeOK, Finish
<1>2. IdleSkb.pc = "idle"
  BY DEF IdleSkb
<1> QED BY <1>1, <1>2 DEF TypeInv, TypeOK, PacketsKnown, Finish

LEMMA SameGroups ==
  ASSUME TypeInv, UNCHANGED <<groups, mcast_lock, walker>>
  PROVE  WalksLive'
BY DEF TypeInv, WalksLive

(* The bridge and the work.                                                 *)
LEMMA AnnounceTypes ==
  ASSUME TypeInv, NEW type \in {"new", "del"}, NEW j \in Joins, Announce(type, j)
  PROVE  nlq' \in Seq(Message) /\ lost' \in BOOLEAN /\ rare' \in 0 .. RareMax
         /\ work' \in [pc : {"idle", "run", "end"}, pending : BOOLEAN]
<1>1. [type |-> type, ip |-> j.ip, dev |-> j.dev] \in Message
  BY McastAssumption DEF Message
<1>2. RestType
  BY TypeParts DEF TypeInv
<1>3. rare' = rare \/ Rare("loss")
  BY DEF Announce
<1>4. rare' \in 0 .. RareMax
  BY <1>2, <1>3, RareType DEF RestType
<1>5. nlq' \in Seq(Message)
  BY <1>1, <1>2 DEF Announce, RestType
<1>6. work' \in [pc : {"idle", "run", "end"}, pending : BOOLEAN]
  BY <1>2 DEF Announce, RestType
<1> QED BY <1>2, <1>4, <1>5, <1>6 DEF Announce, RestType

LEMMA BridgeTypes ==
  ASSUME TypeInv, NEW j \in Joins, BridgeJoin(j) \/ BridgeLeave(j)
  PROVE  TypeInv'
<1>1. PICK type \in {"new", "del"} : Announce(type, j)
  BY DEF BridgeJoin, BridgeLeave
<1>2. nlq' \in Seq(Message) /\ lost' \in BOOLEAN /\ rare' \in 0 .. RareMax
      /\ work' \in [pc : {"idle", "run", "end"}, pending : BOOLEAN]
  BY <1>1, AnnounceTypes
<1>3. mdb' \subseteq Joins
  BY DEF BridgeJoin, BridgeLeave, TypeInv, TypeOK
<1>4. UNCHANGED <<devices, hw, control, skb, mcast_lock, walker, history>>
  BY DEF BridgeJoin, BridgeLeave
<1>5. HwType' /\ PacketsKnown' /\ WalksLive'
  BY <1>4, TypeParts DEF TypeInv, hw, HwType, PacketsKnown, WalksLive
<1>6. RestType'
  BY <1>2, <1>3, <1>4, TypeParts DEF TypeInv, RestType, devices, control, history
<1> QED BY <1>5, <1>6, TypeParts DEF TypeInv

LEMMA WorkTypes ==
  ASSUME TypeInv, WorkStart \/ WorkDrained \/ WorkEnd
  PROVE  TypeInv'
<1>1. work' \in [pc : {"idle", "run", "end"}, pending : BOOLEAN]
  <2>1. work \in [pc : {"idle", "run", "end"}, pending : BOOLEAN]
    BY DEF TypeInv, TypeOK
  <2>2. \/ work' = [pc |-> "run", pending |-> FALSE]
        \/ work' = [work EXCEPT !.pc = "end"]
        \/ work' = [work EXCEPT !.pc = "idle"]
    BY DEF WorkStart, WorkDrained, WorkEnd
  <2>3. [work EXCEPT !.pc = "end"] \in [pc : {"idle", "run", "end"}, pending : BOOLEAN]
    BY <2>1
  <2>4. [work EXCEPT !.pc = "idle"] \in [pc : {"idle", "run", "end"}, pending : BOOLEAN]
    BY <2>1
  <2>5. [pc |-> "run", pending |-> FALSE] \in [pc : {"idle", "run", "end"}, pending : BOOLEAN]
    OBVIOUS
  <2> QED BY <2>2, <2>3, <2>4, <2>5, Zenon
<1>2. UNCHANGED <<mdb, nlq, lost, devices, hw, control, skb, mcast_lock, walker, rare, history>>
  BY DEF WorkStart, WorkDrained, WorkEnd
<1> QED BY <1>1, <1>2 DEF TypeInv, TypeOK, devices, hw, control, history, PacketsKnown, WalksLive

(* What the next message makes of its group.                                *)
LEMMA HandleGroup ==
  ASSUME TypeInv, work.pc = "run", nlq # << >>
  PROVE  LET m == Head(nlq)
             g == WithMember(IF groups[m.ip] = None THEN NewGroup ELSE groups[m.ip], m)
         IN  /\ m \in Message /\ m.ip \in Ips /\ g \in GroupRecord /\ Tail(nlq) \in Seq(Message)
             /\ groups[m.ip] = None => g.slot = None /\ g.row = None
             /\ groups[m.ip] # None => g.slot = groups[m.ip].slot /\ g.row = groups[m.ip].row
                                       /\ g.bmp = groups[m.ip].bmp
<1> DEFINE m == Head(nlq)
           g0 == IF groups[m.ip] = None THEN NewGroup ELSE groups[m.ip]
           g == WithMember(g0, m)
<1>1. m \in Message /\ Tail(nlq) \in Seq(Message)
  BY DEF TypeInv, TypeOK
<1> HIDE DEF m
<1>2. m.ip \in Ips
  BY <1>1 DEF Message
<1>3. g0 \in GroupRecord
  BY <1>2, NewGroupType DEF TypeInv, TypeOK
<1>4. g \in GroupRecord /\ g.row = g0.row /\ g.slot = g0.slot /\ g.bmp = g0.bmp
  <2> HIDE DEF g0
  <2> QED BY <1>1, <1>3, WithMemberType
<1> HIDE DEF g
<1>5. groups[m.ip] = None => g.slot = None /\ g.row = None
  BY <1>4, NewGroupType
<1> QED BY <1>1, <1>2, <1>4, <1>5 DEF m, g

(* Groups that stay, and packets that stand still.                          *)
LEMMA GroupsStay ==
  ASSUME TypeInv, UNCHANGED <<mcast_lock, walker>>,
         \A j \in Ips : groups[j] # None => groups'[j] # None
  PROVE  WalksLive'
BY DEF TypeInv, TypeOK, WalksLive

LEMMA HandleTypes ==
  ASSUME TypeInv, HandleMdb
  PROVE  TypeInv'
<1> DEFINE m == Head(nlq)
           g == WithMember(IF groups[m.ip] = None THEN NewGroup ELSE groups[m.ip], m)
<1>0. HwType /\ RestType
  BY TypeParts DEF TypeInv
<1>1. /\ m \in Message /\ m.ip \in Ips /\ g \in GroupRecord /\ Tail(nlq) \in Seq(Message)
      /\ groups[m.ip] = None => g.slot = None /\ g.row = None
      /\ groups[m.ip] # None => g.slot = groups[m.ip].slot /\ g.row = groups[m.ip].row
  BY HandleGroup DEF HandleMdb
<1>2. /\ work.pc = "run" /\ nlq # << >> /\ mcast_lock = None
      /\ nlq' = Tail(nlq)
      /\ \/ /\ m.type = "new" /\ Rare("alloc")
            /\ lost' = TRUE
            /\ UNCHANGED <<hw, walker, raced>>
         \/ /\ IF toggle /\ g.slot # None
               THEN EventHw(m.ip, g, m) /\ Race(m.ip)
               ELSE /\ groups' = [groups EXCEPT ![m.ip] = Kept(g)]
                    /\ UNCHANGED <<mtbl, foe, clients>>
                    /\ Races({m.ip}, {"commit"})
            /\ Freed(IF Kept(g) = None THEN {m.ip} ELSE {})
            /\ UNCHANGED <<lost, rare>>
      /\ UNCHANGED <<mdb, work, devices, control, skb, mcast_lock, slipped>>
  BY DEF HandleMdb
<1> HIDE DEF m, g
<1>3. CASE m.type = "new" /\ Rare("alloc") /\ lost' = TRUE /\ UNCHANGED <<hw, walker, raced>>
  <2>1. HwType'
    BY <1>0, <1>3 DEF hw, HwType
  <2>2. rare' \in 0 .. RareMax
    BY <1>0, <1>3, RareType DEF RestType
  <2>3. RestType'
    BY <1>0, <1>1, <1>2, <1>3, <2>2 DEF RestType, devices, control
  <2>4. PacketsKnown' /\ WalksLive'
    BY <1>2, <1>3 DEF TypeInv, PacketsKnown, WalksLive, hw
  <2> QED BY <2>1, <2>3, <2>4, TypeParts DEF TypeInv
<1>4. CASE /\ IF toggle /\ g.slot # None
              THEN EventHw(m.ip, g, m) /\ Race(m.ip)
              ELSE /\ groups' = [groups EXCEPT ![m.ip] = Kept(g)]
                   /\ UNCHANGED <<mtbl, foe, clients>>
                   /\ Races({m.ip}, {"commit"})
           /\ Freed(IF Kept(g) = None THEN {m.ip} ELSE {})
           /\ UNCHANGED <<lost, rare>>
  <2>1. \E x \in GroupRecord \cup {None} :
          /\ HwType' /\ groups' = [groups EXCEPT ![m.ip] = x]
          /\ x = None <=> Kept(g) = None
    <3>1. CASE toggle /\ g.slot # None
      <4>1. EventHw(m.ip, g, m) /\ groups[m.ip] # None /\ npu \in BOOLEAN
        BY <1>0, <1>1, <1>4, <3>1 DEF RestType
      <4>2. PICK u \in Update, v \in Update :
              /\ u.g = g /\ u.e = foe[g.slot] /\ Change(m.ip, g.slot, u, v)
              /\ Stored(m.ip, g.slot, Kept(v.g), v.e, v)
        BY <1>0, <1>1, <3>1, <4>1, EventHwUpdate
      <4>3. Kept(v.g) \in {v.g, None} /\ v.g \in GroupRecord /\ v.e \in Entry /\ g.slot \in Slots
        BY <1>1, <3>1 DEF Kept, Update, GroupRecord
      <4>4. HwType'
        BY <1>0, <1>1, <4>2, <4>3, StoredTypes
      <4>5. v.g.members = g.members
        BY <4>2 DEF Change, Moved, Handed
      <4>6. Kept(v.g) = None <=> Kept(g) = None
        BY <1>1, <4>3, <4>5, NoneApart DEF Kept, Members
      <4> QED BY <4>2, <4>3, <4>4, <4>6 DEF Stored
    <3>2. CASE ~(toggle /\ g.slot # None)
      <4>1. Kept(g) \in GroupRecord \cup {None}
        BY <1>1 DEF Kept
      <4>2. HwType'
        BY <1>0, <1>4, <3>2, <4>1 DEF HwType
      <4> QED BY <1>4, <3>2, <4>1, <4>2
    <3> QED BY <3>1, <3>2
  <2>2. raced' \subseteq Ips
    BY <1>0, <1>1, <1>4, HistoryType DEF RestType
  <2>3. walker' \in [ip : Ips, hw_path : BOOLEAN, freed : BOOLEAN] \cup {None}
    <3>1. walker # None => [walker EXCEPT !.freed = TRUE] \in [ip : Ips, hw_path : BOOLEAN, freed : BOOLEAN]
      BY <1>0 DEF RestType
    <3> QED BY <1>0, <1>4, <3>1 DEF Freed, RestType
  <2>4. RestType'
    BY <1>0, <1>1, <1>2, <1>4, <2>2, <2>3 DEF RestType, devices, control
  <2>5. PacketsKnown'
    BY <1>2 DEF TypeInv, PacketsKnown
  <2>6. WalksLive'
    <3>1. SUFFICES ASSUME walker' # None, ~walker'.freed PROVE groups'[walker'.ip] # None
      BY <1>2 DEF WalksLive
    <3>2. walker # None /\ walker' = walker /\ ~(Kept(g) = None /\ walker.ip = m.ip)
      <4>1. walker # None => [walker EXCEPT !.freed = TRUE].freed
        BY <1>0 DEF RestType
      <4> QED BY <1>0, <1>4, <3>1, <4>1 DEF Freed, RestType
    <3>3. groups[walker.ip] # None /\ walker.ip \in Ips
      BY <1>0, <3>1, <3>2 DEF TypeInv, WalksLive, RestType
    <3> QED BY <1>0, <2>1, <3>2, <3>3 DEF HwType
  <2> QED BY <2>1, <2>4, <2>5, <2>6, TypeParts DEF TypeInv
<1> QED BY <1>2, <1>3, <1>4

LEMMA HwTypes ==
  ASSUME TypeInv, (\E f \in Flows : HwLearn(f)) \/ (\E s \in Slots : HwAge(s))
  PROVE  TypeInv'
<1>1. foe' \in [Slots -> Entry]
  <2>1. ASSUME NEW f \in Flows, HwLearn(f) PROVE foe' \in [Slots -> Entry]
    <3>1. [state |-> "UNBIND", flow |-> f, out |-> Blank] \in Entry
      BY DEF Entry, Out, Blank
    <3> QED BY <2>1, <3>1 DEF HwLearn, TypeInv, TypeOK
  <2>2. ASSUME NEW s \in Slots, HwAge(s) PROVE foe' \in [Slots -> Entry]
    <3>1. foe \in [Slots -> Entry] /\ foe' = [foe EXCEPT ![s].state = "INVALID"]
      BY <2>2 DEF TypeInv, TypeOK, HwAge
    <3>2. foe' = [foe EXCEPT ![s] = [foe[s] EXCEPT !.state = "INVALID"]]
      BY <3>1
    <3>3. [foe[s] EXCEPT !.state = "INVALID"] \in Entry
      BY <3>1, InvalidEntry
    <3> QED BY <3>1, <3>2, <3>3
  <2> QED BY <2>1, <2>2
<1>2. UNCHANGED <<bridge, groups, mtbl, clients, control, skb, mcast_lock, walker, rare, history>>
  BY DEF HwLearn, HwAge
<1> QED BY <1>1, <1>2 DEF TypeInv, TypeOK, bridge, devices, control, history, PacketsKnown, WalksLive

LEMMA ReceiveTypes ==
  ASSUME TypeInv, NEW k \in Skbs, NEW f \in Flows, NEW d \in Devs, Receive(k, f, d)
  PROVE  TypeInv'
<1> DEFINE out == [Blank EXCEPT !.dp = PseOf[d], !.stag = {d} \cap Lan]
           e == [state |-> "UNBIND", flow |-> f, out |-> out]
           p == [pc |-> "check", flow |-> f, dev |-> d, e |-> e]
<1>1. out \in Out
  BY Places DEF Out, Blank
<1> HIDE DEF out
<1>2. e \in Entry
  BY <1>1 DEF Entry
<1> HIDE DEF e
<1>3. p \in Packet /\ p.flow = f /\ p.dev = d
  BY <1>2 DEF Packet
<1>4. skb' = [skb EXCEPT ![k] = p]
  BY DEF Receive, out, e
<1> HIDE DEF p
<1>5. skb' \in [Skbs -> Packet] /\ PacketsKnown'
  BY <1>3, <1>4 DEF TypeInv, TypeOK, PacketsKnown
<1>6. UNCHANGED <<bridge, hw, control, mcast_lock, walker, rare, history>>
  BY DEF Receive
<1> QED BY <1>5, <1>6 DEF TypeInv, TypeOK, bridge, devices, hw, control, history, WalksLive

LEMMA ChkTypes ==
  ASSUME TypeInv, NEW k \in Skbs, ChkBlist(k)
  PROVE  TypeInv'
<1> DEFINE i == Group[skb[k].flow]
<1>1. skb[k] \in Packet /\ skb[k].pc = "check" /\ skb[k].flow \in Flows /\ skb[k].dev \in Devs /\ i \in Ips
  BY Places DEF TypeInv, TypeOK, PacketsKnown, ChkBlist
<1>2. UNCHANGED <<bridge, hw, control, mcast_lock, walker, rare, raced>>
  BY DEF ChkBlist
<1>3. skb' \in [Skbs -> Packet] /\ PacketsKnown' /\ slipped' \subseteq Ips
  <2>1. CASE Finish(k) /\ UNCHANGED slipped
    BY <2>1, FinishTypes DEF TypeInv, TypeOK
  <2>2. CASE /\ skb' = [skb EXCEPT ![k].pc = "bind"]
             /\ slipped' = IF [ip |-> i, masked |-> TRUE] \in blist THEN slipped \cup {i} ELSE slipped
    <3> DEFINE p == [skb[k] EXCEPT !.pc = "bind"]
    <3>1. skb' = [skb EXCEPT ![k] = p]
      BY <2>2
    <3>2. p \in Packet /\ p.flow = skb[k].flow /\ p.dev = skb[k].dev
      BY <1>1 DEF Packet
    <3> HIDE DEF p
    <3>3. skb' \in [Skbs -> Packet] /\ PacketsKnown'
      BY <1>1, <3>1, <3>2 DEF TypeInv, TypeOK, PacketsKnown
    <3> QED BY <1>1, <2>2, <3>3 DEF TypeInv, TypeOK
  <2> QED BY <2>1, <2>2 DEF ChkBlist
<1> QED BY <1>2, <1>3 DEF TypeInv, TypeOK, bridge, devices, hw, control, WalksLive

LEMMA BindTypes ==
  ASSUME TypeInv, NEW k \in Skbs, BindHandle(k)
  PROVE  TypeInv'
<1> DEFINE i == Group[skb[k].flow]
           s == SlotOf[skb[k].flow]
<1>0. HwType /\ RestType
  BY TypeParts DEF TypeInv
<1>1. /\ skb[k] \in Packet /\ skb[k].pc = "bind" /\ skb[k].flow \in Flows /\ skb[k].dev \in Devs
      /\ i \in Ips /\ s \in Slots
  BY Places DEF TypeInv, TypeOK, PacketsKnown, BindHandle
<1>2. UNCHANGED <<bridge, control, mcast_lock, walker, rare, slipped>>
  BY DEF BindHandle
<1>3. ASSUME NEW e \in Entry, skb' = [skb EXCEPT ![k].pc = "commit", ![k].e = e]
      PROVE  skb' \in [Skbs -> Packet] /\ PacketsKnown'
  <2> DEFINE p == [skb[k] EXCEPT !.pc = "commit", !.e = e]
  <2>1. skb' = [skb EXCEPT ![k] = p]
    BY <1>3
  <2>2. p \in Packet /\ p.flow = skb[k].flow /\ p.dev = skb[k].dev
    BY <1>1 DEF Packet
  <2> HIDE DEF p
  <2> QED BY <1>1, <2>1, <2>2 DEF TypeInv, TypeOK, PacketsKnown
<1>4. HwType' /\ skb' \in [Skbs -> Packet] /\ PacketsKnown' /\ raced' \subseteq Ips
      /\ \A j \in Ips : groups[j] # None => groups'[j] # None
  <2>1. CASE ~toggle
    <3>1. skb' = [skb EXCEPT ![k].pc = "commit"] /\ raced' = raced \cup {i} /\ UNCHANGED hw
      BY <2>1 DEF BindHandle
    <3> DEFINE p == [skb[k] EXCEPT !.pc = "commit"]
    <3>2. skb' = [skb EXCEPT ![k] = p]
      BY <3>1
    <3>3. p \in Packet /\ p.flow = skb[k].flow /\ p.dev = skb[k].dev
      BY <1>1 DEF Packet
    <3> HIDE DEF p
    <3>4. skb' \in [Skbs -> Packet] /\ PacketsKnown'
      BY <1>1, <3>2, <3>3 DEF TypeInv, TypeOK, PacketsKnown
    <3> QED BY <1>0, <1>1, <3>1, <3>4 DEF HwType, RestType, hw
  <2>2. CASE toggle /\ Refuses(groups[i])
    <3>1. Finish(k) /\ UNCHANGED <<hw, raced>>
      BY <2>2 DEF BindHandle
    <3> QED BY <1>0, <3>1, FinishTypes DEF HwType, RestType, hw
  <2>3. CASE toggle /\ ~Refuses(groups[i])
    <3>1. PICK u \in Update, v \in Update :
            /\ Stored(i, s, v.g, foe[s], v)
            /\ IF v.deleted \/ ~v.g.offload THEN Finish(k)
               ELSE skb' = [skb EXCEPT ![k].pc = "commit", ![k].e = v.e]
      BY <2>3, BindUpdate
    <3>2. foe[s] \in Entry /\ v.e \in Entry /\ v.g \in GroupRecord
      BY <1>0, <1>1 DEF HwType, Update
    <3>3. HwType'
      BY <1>0, <1>1, <3>1, <3>2, StoredTypes
    <3>4. skb' \in [Skbs -> Packet] /\ PacketsKnown'
      BY <1>3, <3>1, <3>2, FinishTypes
    <3>5. raced' \subseteq Ips
      BY <1>0, <1>1, <2>3, HistoryType DEF BindHandle, RestType
    <3>6. \A j \in Ips : groups[j] # None => groups'[j] # None
      BY <1>0, <3>1, <3>2, NoneApart DEF Stored, HwType
    <3> QED BY <3>3, <3>4, <3>5, <3>6
  <2> QED BY <2>1, <2>2, <2>3
<1>5. RestType'
  BY <1>0, <1>2, <1>4 DEF RestType, bridge, devices, control
<1>6. WalksLive'
  BY <1>2, <1>4, GroupsStay
<1> QED BY <1>4, <1>5, <1>6, TypeParts DEF TypeInv

LEMMA CommitTypes ==
  ASSUME TypeInv, NEW k \in Skbs, Commit(k)
  PROVE  TypeInv'
<1> DEFINE s == SlotOf[skb[k].flow]
           e == [skb[k].e EXCEPT !.state = "BIND"]
<1>1. skb[k].e \in Entry
  BY DEF TypeInv, TypeOK, Packet
<1>2. e \in Entry
  BY <1>1 DEF Entry
<1> HIDE DEF e
<1>3. foe' \in [Slots -> Entry]
  BY <1>2 DEF Commit, TypeInv, TypeOK, e
<1>4. UNCHANGED <<bridge, groups, mtbl, clients, control, mcast_lock, walker, rare, history>> /\ Finish(k)
  BY DEF Commit
<1>5. skb' \in [Skbs -> Packet] /\ PacketsKnown'
  BY <1>4, FinishTypes
<1> QED BY <1>3, <1>4, <1>5 DEF TypeInv, TypeOK, bridge, devices, control, history, WalksLive

LEMMA IfDownTypes ==
  ASSUME TypeInv, \/ \E d \in Devs : IfDownStart(d) \/ IfUp(d)
                  \/ \E i \in Ips : IfDownGroup(i)
                  \/ IfDownEnd \/ IfDownFlush
  PROVE  TypeInv'
<1>0. HwType /\ RestType
  BY TypeParts DEF TypeInv
<1>1. ASSUME NEW d \in Devs, IfDownStart(d)
      PROVE  TypeInv'
  <2>1. rare' \in 0 .. RareMax
    BY <1>0, <1>1, RareType DEF IfDownStart, RestType
  <2>2. UNCHANGED <<bridge, hw, control, skb, walker, history>>
    BY <1>1 DEF IfDownStart
  <2>3. mcast_lock' \in [dev : Devs, left : SUBSET Ips] /\ \A i \in mcast_lock'.left : groups[i] # None
    BY <1>1 DEF IfDownStart
  <2> QED BY <2>1, <2>2, <2>3 DEF TypeInv, TypeOK, bridge, devices, hw, control, history, PacketsKnown, WalksLive
<1>2. ASSUME NEW d \in Devs, IfUp(d)
      PROVE  TypeInv'
  BY <1>2 DEF IfUp, TypeInv, TypeOK, hw, control, history, PacketsKnown, WalksLive
<1>3. ASSUME NEW i \in Ips, IfDownGroup(i)
      PROVE  TypeInv'
  <2>1. UNCHANGED <<bridge, control, skb, walker, rare, slipped>>
    BY <1>3 DEF IfDownGroup
  <2>2. /\ mcast_lock # None /\ mcast_lock \in [dev : Devs, left : SUBSET Ips]
        /\ mcast_lock' = [mcast_lock EXCEPT !.left = @ \ {i}]
    BY <1>0, <1>3 DEF IfDownGroup, RestType
  <2>3. /\ mcast_lock' \in [dev : Devs, left : SUBSET Ips]
        /\ mcast_lock'.left = mcast_lock.left \ {i}
    BY <2>2
  <2>4. HwType' /\ raced' \subseteq Ips /\ \A j \in Ips : groups[j] # None => groups'[j] # None
    <3>1. CASE Leaves(groups[i], mcast_lock.dev)
      <4>1. UNCHANGED <<hw, raced>>
        BY <1>3, <3>1 DEF IfDownGroup
      <4> QED BY <1>0, <4>1 DEF hw, HwType, RestType
    <3>2. CASE ~Leaves(groups[i], mcast_lock.dev)
      <4>1. PICK u \in Update, v \in Update :
              /\ u.g = groups[i] /\ u.g.slot \in Slots /\ Stored(i, u.g.slot, v.g, v.e, v)
        BY <1>3, <3>2, IfDownUpdate
      <4>2. v.g \in GroupRecord /\ v.e \in Entry
        BY DEF Update
      <4>3. HwType'
        BY <1>0, <4>1, <4>2, StoredTypes
      <4>4. raced' \subseteq Ips
        BY <1>0, <1>3, <3>2, HistoryType DEF IfDownGroup, RestType
      <4>5. \A j \in Ips : groups[j] # None => groups'[j] # None
        BY <1>0, <4>1, <4>2, NoneApart DEF Stored, HwType
      <4> QED BY <4>3, <4>4, <4>5
    <3> QED BY <3>1, <3>2
  <2>5. RestType'
    BY <1>0, <2>1, <2>3, <2>4 DEF RestType, bridge, devices, control
  <2>6. WalksLive' /\ PacketsKnown'
    BY <1>0, <2>1, <2>2, <2>3, <2>4 DEF TypeInv, WalksLive, PacketsKnown, RestType
  <2> QED BY <2>4, <2>5, <2>6, TypeParts DEF TypeInv
<1>4. ASSUME IfDownEnd
      PROVE  TypeInv'
  <2>1. mcast_lock' = None /\ flushing' = mcast_lock.dev /\ mcast_lock # None
        /\ UNCHANGED <<mdb, nlq, lost, work, up, hw, control, skb, walker, rare, history>>
    BY <1>4 DEF IfDownEnd
  <2>2. flushing' \in Devs
    BY <1>0, <2>1 DEF RestType
  <2> QED BY <2>1, <2>2 DEF TypeInv, TypeOK, hw, control, history, PacketsKnown, WalksLive
<1>5. ASSUME IfDownFlush
      PROVE  TypeInv'
  <2>1. foe' \in [Slots -> Entry]
    <3>1. \A s \in Slots : foe[s] \in Entry /\ [foe[s] EXCEPT !.state = "INVALID"] \in Entry
      BY <1>0, InvalidEntry DEF HwType
    <3>2. \/ foe' = [s \in Slots |-> IF foe[s].state = "BIND"
                                     THEN [foe[s] EXCEPT !.state = "INVALID"] ELSE foe[s]]
          \/ foe' = foe
      BY <1>5 DEF IfDownFlush
    <3>3. CASE foe' = foe
      BY <1>0, <3>3 DEF HwType
    <3>4. CASE foe' = [s \in Slots |-> IF foe[s].state = "BIND"
                                       THEN [foe[s] EXCEPT !.state = "INVALID"] ELSE foe[s]]
      BY <3>1, <3>4
    <3> QED BY <3>2, <3>3, <3>4
  <2>2. flushing' = None /\ up' = up \ {flushing}
        /\ UNCHANGED <<mdb, nlq, lost, work, groups, mtbl, clients, control, skb, mcast_lock, walker, rare, history>>
    BY <1>5 DEF IfDownFlush
  <2> QED BY <2>1, <2>2 DEF TypeInv, TypeOK, control, history, PacketsKnown, WalksLive
<1> QED BY <1>1, <1>2, <1>3, <1>4, <1>5

LEMMA OffloadType ==
  ASSUME NEW g \in GroupRecord, NEW o \in BOOLEAN
  PROVE  LET x == [g EXCEPT !.offload = o] IN
         /\ x \in GroupRecord /\ x # None /\ x.row = g.row /\ x.slot = g.slot /\ x.bmp = g.bmp
         /\ x.members = g.members
         /\ Detached(x) \in GroupRecord /\ Detached(x) # None /\ Detached(x).slot = None
         /\ Detached(x).row = g.row /\ Detached(x).members = g.members
<1> DEFINE x == [g EXCEPT !.offload = o]
<1>1. /\ x \in GroupRecord /\ x.row = g.row /\ x.slot = g.slot /\ x.bmp = g.bmp
      /\ x.members = g.members
  BY SetOffload
<1> HIDE DEF x
<1>2. x # None
  BY <1>1, NoneApart
<1>3. /\ Detached(x) \in GroupRecord \cup {None} /\ Detached(x) # None /\ Detached(x).slot = None
      /\ Detached(x).row = x.row /\ Detached(x).members = x.members
  BY <1>1, <1>2, DetachedType
<1>4. /\ x \in GroupRecord /\ x # None /\ x.row = g.row /\ x.slot = g.slot /\ x.bmp = g.bmp
      /\ x.members = g.members
      /\ Detached(x) \in GroupRecord /\ Detached(x) # None /\ Detached(x).slot = None
      /\ Detached(x).row = g.row /\ Detached(x).members = g.members
  BY <1>1, <1>2, <1>3
<1> QED BY <1>4 DEF x

LEMMA PathTypes ==
  ASSUME TypeInv, (\E i \in Ips, hw_path \in BOOLEAN : PathFind(i, hw_path)) \/ PathSwitch
  PROVE  TypeInv'
<1>0. HwType /\ RestType
  BY TypeParts DEF TypeInv
<1>1. ASSUME NEW i \in Ips, NEW hw_path \in BOOLEAN, PathFind(i, hw_path)
      PROVE  TypeInv'
  <2>1. rare' \in 0 .. RareMax
    BY <1>0, <1>1, RareType DEF PathFind, RestType
  <2>2. UNCHANGED <<bridge, hw, control, skb, mcast_lock, history>>
    BY <1>1 DEF PathFind
  <2>3. walker' \in [ip : Ips, hw_path : BOOLEAN, freed : BOOLEAN] /\ groups[walker'.ip] # None
    BY <1>1 DEF PathFind
  <2> QED BY <2>1, <2>2, <2>3 DEF TypeInv, TypeOK, bridge, devices, hw, control, history, PacketsKnown, WalksLive
<1>2. ASSUME PathSwitch
      PROVE  TypeInv'
  <2> DEFINE i == walker.ip
             g == [groups[i] EXCEPT !.offload = walker.hw_path]
  <2>1. /\ walker' = None /\ walker # None /\ i \in Ips /\ walker.hw_path \in BOOLEAN
        /\ UNCHANGED <<bridge, control, skb, mcast_lock, rare, slipped>>
    BY <1>0, <1>2 DEF PathSwitch, RestType
  <2>2. \/ walker.freed /\ UNCHANGED <<hw, raced>>
        \/ ~walker.freed /\ groups' = [groups EXCEPT ![i] = g] /\ UNCHANGED <<mtbl, foe, clients, raced>>
        \/ /\ ~walker.freed /\ groups' = [groups EXCEPT ![i] = Detached(g)]
           /\ foe' = IF g.slot = None THEN foe ELSE [foe EXCEPT ![g.slot].state = "INVALID"]
           /\ Races({i}, {"commit"}) /\ UNCHANGED <<mtbl, clients>>
    BY <1>2 DEF PathSwitch
  <2>3. HwType' /\ raced' \subseteq Ips /\ \A j \in Ips : groups[j] # None => groups'[j] # None
    <3>1. CASE walker.freed
      BY <1>0, <2>2, <3>1 DEF HwType, RestType, hw
    <3>2. CASE ~walker.freed
      <4>1. groups[i] \in GroupRecord
        BY <1>0, <2>1, <3>2 DEF TypeInv, WalksLive, HwType
      <4>2. /\ g \in GroupRecord /\ g # None /\ g.slot = groups[i].slot
            /\ Detached(g) \in GroupRecord /\ Detached(g) # None
        BY <2>1, <4>1, OffloadType
      <4> HIDE DEF g
      <4>3. CASE groups' = [groups EXCEPT ![i] = g] /\ UNCHANGED <<mtbl, foe, clients, raced>>
        BY <1>0, <4>2, <4>3 DEF HwType, RestType
      <4>4. CASE /\ groups' = [groups EXCEPT ![i] = Detached(g)]
                 /\ foe' = IF g.slot = None THEN foe ELSE [foe EXCEPT ![g.slot].state = "INVALID"]
                 /\ Races({i}, {"commit"}) /\ UNCHANGED <<mtbl, clients>>
        <5>1. raced' \subseteq Ips
          BY <1>0, <2>1, <4>4, HistoryType DEF RestType
        <5>2. foe' \in [Slots -> Entry]
          <6>1. CASE g.slot = None
            BY <1>0, <4>4, <6>1 DEF HwType
          <6>2. CASE g.slot # None
            <7>1. g.slot \in Slots
              BY <4>2, <6>2 DEF GroupRecord
            <7>2. foe' = [foe EXCEPT ![g.slot] = [foe[g.slot] EXCEPT !.state = "INVALID"]]
              BY <4>4, <6>2
            <7>3. [foe[g.slot] EXCEPT !.state = "INVALID"] \in Entry
              BY <1>0, <7>1, InvalidEntry DEF HwType
            <7> QED BY <1>0, <7>1, <7>2, <7>3 DEF HwType
          <6> QED BY <6>1, <6>2
        <5> QED BY <1>0, <4>2, <4>4, <5>1, <5>2 DEF HwType
      <4> QED BY <2>2, <3>2, <4>3, <4>4
    <3> QED BY <3>1, <3>2
  <2>4. RestType'
    BY <1>0, <2>1, <2>3 DEF RestType, bridge, devices, control
  <2>5. WalksLive' /\ PacketsKnown'
    BY <1>0, <2>1, <2>3 DEF TypeInv, WalksLive, PacketsKnown, RestType
  <2> QED BY <2>3, <2>4, <2>5, TypeParts DEF TypeInv
<1> QED BY <1>1, <1>2

LEMMA DetachStays ==
  ASSUME HwType, NEW is, Detach(is)
  PROVE  \A j \in Ips : groups[j] # None => groups'[j] # None
<1>1. \A j \in Ips : groups[j] \in GroupRecord \cup {None}
  BY DEF HwType
<1> QED BY <1>1, DetachedType DEF Detach

LEMMA BlistTypes ==
  ASSUME TypeInv, \/ \E i \in Ips : BlistAdd(i) \/ BlistWrite(i)
                  \/ \E b \in blist : BlistDel(b)
  PROVE  TypeInv'
<1>0. HwType /\ RestType
  BY TypeParts DEF TypeInv
<1>1. ASSUME NEW i \in Ips, BlistAdd(i)
      PROVE  TypeInv'
  <2>1. clients' \in [Ips -> SUBSET Lan]
    BY <1>0, <1>1 DEF BlistAdd, HwType
  <2>2. HwType' /\ \A j \in Ips : groups[j] # None => groups'[j] # None
    BY <1>0, <1>1, <2>1, DetachTypes, DetachStays DEF BlistAdd
  <2>3. raced' \subseteq Ips /\ rare' \in 0 .. RareMax /\ slipped' \subseteq Ips
    BY <1>0, <1>1, HistoryType, RareType DEF BlistAdd, RestType
  <2>4. blist' \subseteq [ip : Ips, masked : BOOLEAN]
    <3>1. [ip |-> i, masked |-> TRUE] \in [ip : Ips, masked : BOOLEAN]
      OBVIOUS
    <3> QED BY <1>0, <1>1, <3>1 DEF BlistAdd, RestType
  <2>5. UNCHANGED <<bridge, npu, toggle, switching, ser, on, skb, mcast_lock, walker>>
    BY <1>1 DEF BlistAdd
  <2>6. RestType'
    BY <1>0, <2>3, <2>4, <2>5 DEF RestType, bridge, devices
  <2>7. WalksLive' /\ PacketsKnown'
    BY <2>2, <2>5, GroupsStay DEF TypeInv, PacketsKnown
  <2> QED BY <2>2, <2>6, <2>7, TypeParts DEF TypeInv
<1>2. ASSUME NEW i \in Ips, BlistWrite(i)
      PROVE  TypeInv'
  <2>1. rare' \in 0 .. RareMax
    BY <1>0, <1>2, RareType DEF BlistWrite, RestType
  <2>2. blist' \subseteq [ip : Ips, masked : BOOLEAN]
    <3>1. [ip |-> i, masked |-> FALSE] \in [ip : Ips, masked : BOOLEAN]
      OBVIOUS
    <3> QED BY <1>0, <1>2, <3>1 DEF BlistWrite, RestType
  <2>3. UNCHANGED <<bridge, hw, npu, toggle, switching, ser, on, skb, mcast_lock, walker, history>>
    BY <1>2 DEF BlistWrite
  <2> QED BY <2>1, <2>2, <2>3 DEF TypeInv, TypeOK, bridge, devices, hw, history, PacketsKnown, WalksLive
<1>3. ASSUME NEW b \in blist, BlistDel(b)
      PROVE  TypeInv'
  BY <1>3 DEF BlistDel, TypeInv, TypeOK, bridge, devices, hw, history, PacketsKnown, WalksLive
<1> QED BY <1>1, <1>2, <1>3

LEMMA ToggleTypes ==
  ASSUME TypeInv, (\E enable \in BOOLEAN : Toggle(enable)) \/ OffloadGroups \/ NpuChange
  PROVE  TypeInv'
<1>0. HwType /\ RestType
  BY TypeParts DEF TypeInv
<1>1. ASSUME NEW enable \in BOOLEAN, Toggle(enable)
      PROVE  TypeInv'
  <2>1. rare' \in 0 .. RareMax
    BY <1>0, <1>1, RareType DEF Toggle, RestType
  <2>2. UNCHANGED <<bridge, hw, npu, blist, ser, on, skb, mcast_lock, walker, history>>
        /\ toggle' = enable /\ switching' = TRUE
    BY <1>1 DEF Toggle
  <2> QED BY <2>1, <2>2 DEF TypeInv, TypeOK, bridge, devices, hw, history, PacketsKnown, WalksLive
<1>2. ASSUME OffloadGroups
      PROVE  TypeInv'
  <2> DEFINE owners == {i \in Ips : groups[i] # None /\ groups[i].slot # None}
  <2>1. switching' = FALSE
        /\ UNCHANGED <<bridge, npu, blist, toggle, ser, on, skb, mcast_lock, walker, rare, slipped>>
    BY <1>2 DEF OffloadGroups
  <2>2. HwType' /\ raced' \subseteq Ips /\ \A j \in Ips : groups[j] # None => groups'[j] # None
    <3>1. CASE toggle
      <4>1. UNCHANGED <<hw, raced>>
        BY <1>2, <3>1 DEF OffloadGroups
      <4> QED BY <1>0, <4>1 DEF hw, HwType, RestType
    <3>2. CASE ~toggle
      <4>1. /\ Detach(owners) /\ Races(Ips, {"commit"})
            /\ clients' = [i \in Ips |-> IF i \in owners THEN clients[i] \ Stag(groups[i]) ELSE clients[i]]
        BY <1>2, <3>2 DEF OffloadGroups
      <4>2. clients' \in [Ips -> SUBSET Lan]
        BY <1>0, <4>1 DEF HwType
      <4> HIDE DEF owners
      <4> QED BY <1>0, <4>1, <4>2, DetachTypes, DetachStays, HistoryType DEF RestType
    <3> QED BY <3>1, <3>2
  <2>3. RestType'
    <3>1. switching' \in BOOLEAN /\ UNCHANGED <<mdb, nlq, lost, work, up, flushing>>
          /\ UNCHANGED <<npu, blist, toggle, ser, on, skb, mcast_lock, walker, rare, slipped>>
      BY <2>1 DEF bridge, devices
    <3>2. raced' \subseteq Ips
      BY <2>2
    <3> QED BY <1>0, <3>1, <3>2 DEF RestType
  <2>4. WalksLive' /\ PacketsKnown'
    BY <2>1, <2>2, GroupsStay DEF TypeInv, PacketsKnown
  <2> QED BY <2>2, <2>3, <2>4, TypeParts DEF TypeInv
<1>3. ASSUME NpuChange
      PROVE  TypeInv'
  <2>1. rare' \in 0 .. RareMax
    BY <1>0, <1>3, RareType DEF NpuChange, RestType
  <2>2. npu' \in BOOLEAN /\ clients' \in [Ips -> SUBSET Lan]
    BY <1>0, <1>3 DEF NpuChange, RestType
  <2>3. UNCHANGED <<bridge, groups, mtbl, foe, blist, toggle, switching, ser, on, skb, mcast_lock, walker, history>>
    BY <1>3 DEF NpuChange
  <2> QED BY <2>1, <2>2, <2>3 DEF TypeInv, TypeOK, bridge, devices, history, PacketsKnown, WalksLive
<1> QED BY <1>1, <1>2, <1>3

LEMMA SerTypes ==
  ASSUME TypeInv, SerGroups \/ SerClear
  PROVE  TypeInv'
<1>0. HwType /\ RestType
  BY TypeParts DEF TypeInv
<1>1. ASSUME SerGroups
      PROVE  TypeInv'
  <2>1. \A i \in Ips : groups[i] # None =>
           [Detached(groups[i]) EXCEPT !.row = None] \in GroupRecord
    <3> SUFFICES ASSUME NEW i \in Ips, groups[i] # None
                 PROVE  [Detached(groups[i]) EXCEPT !.row = None] \in GroupRecord
      OBVIOUS
    <3>1. groups[i] \in GroupRecord \cup {None}
      BY <1>0 DEF HwType
    <3>2. Detached(groups[i]) \in GroupRecord
      BY <3>1, DetachedType
    <3> QED BY <3>2, SetRow
  <2>2. groups' = [i \in Ips |-> IF groups[i] = None THEN None
                                 ELSE [Detached(groups[i]) EXCEPT !.row = None]]
    BY <1>1 DEF SerGroups
  <2>3. groups' \in [Ips -> GroupRecord \cup {None}] /\ \A j \in Ips : groups[j] # None => groups'[j] # None
    BY <2>1, <2>2, NoneApart
  <2>4. rare' \in 0 .. RareMax /\ raced' \subseteq Ips
    BY <1>0, <1>1, RareType, HistoryType DEF SerGroups, RestType
  <2>5. /\ UNCHANGED <<bridge, foe, clients, npu, blist, toggle, switching, on, skb, mcast_lock, walker, slipped>>
        /\ mtbl' = [p \in Ppes |-> [r \in Rows |-> None]] /\ ser' = "clear"
    BY <1>1 DEF SerGroups
  <2>6. HwType'
    BY <1>0, <2>3, <2>5 DEF HwType
  <2>7. RestType'
    BY <1>0, <2>4, <2>5 DEF RestType, bridge, devices
  <2>8. WalksLive' /\ PacketsKnown'
    BY <2>3, <2>5, GroupsStay DEF TypeInv, PacketsKnown
  <2> QED BY <2>6, <2>7, <2>8, TypeParts DEF TypeInv
<1>2. ASSUME SerClear
      PROVE  TypeInv'
  <2>1. foe' \in [Slots -> Entry]
    BY <1>2, ZeroType DEF SerClear
  <2>2. ser' = "idle" /\ UNCHANGED <<bridge, groups, mtbl, clients, npu, blist, toggle, switching, on, skb, mcast_lock, walker, rare, history>>
    BY <1>2 DEF SerClear
  <2> QED BY <2>1, <2>2 DEF TypeInv, TypeOK, bridge, devices, history, PacketsKnown, WalksLive
<1> QED BY <1>1, <1>2

LEMMA ModuleTypes ==
  ASSUME TypeInv, Disable \/ Enable
  PROVE  TypeInv'
<1>0. HwType /\ RestType
  BY TypeParts DEF TypeInv
<1>1. ASSUME Disable
      PROVE  TypeInv'
  <2>1. rare' \in 0 .. RareMax
    BY <1>0, <1>1, RareType DEF Disable, RestType
  <2>2. foe' \in [Slots -> Entry] /\ groups' \in [Ips -> GroupRecord \cup {None}]
    BY <1>1, ZeroType DEF Disable
  <2>3. nlq' \in Seq(Message) /\ lost' \in BOOLEAN /\ on' \in BOOLEAN /\ blist' = {} /\ raced' = {}
    <3>1. nlq' = << >> /\ lost' = (mdb # {}) /\ on' = FALSE /\ blist' = {} /\ raced' = {}
      BY <1>1 DEF Disable
    <3>2. << >> \in Seq(Message)
      OBVIOUS
    <3>3. (mdb # {}) \in BOOLEAN
      OBVIOUS
    <3>4. lost' \in BOOLEAN
      BY <3>1, <3>3, Zenon
    <3> QED BY <3>1, <3>2, <3>4
  <2>4. /\ walker' \in [ip : Ips, hw_path : BOOLEAN, freed : BOOLEAN] \cup {None}
        /\ walker' # None => walker'.freed
    <3>1. walker # None => /\ walker.ip \in Ips
                           /\ [walker EXCEPT !.freed = TRUE] \in [ip : Ips, hw_path : BOOLEAN, freed : BOOLEAN]
                           /\ [walker EXCEPT !.freed = TRUE].freed
      BY <1>0 DEF RestType
    <3>2. walker' = IF walker # None /\ walker.ip \in Ips THEN [walker EXCEPT !.freed = TRUE] ELSE walker
      BY <1>1 DEF Disable, Freed
    <3>3. CASE walker = None
      BY <3>2, <3>3
    <3>4. CASE walker # None
      BY <3>1, <3>2, <3>4
    <3> QED BY <3>3, <3>4
  <2>5. mcast_lock = None /\ UNCHANGED <<mdb, work, devices, mtbl, clients, npu, toggle, switching, ser, skb, mcast_lock, slipped>>
    BY <1>1 DEF Disable
  <2>6. HwType' /\ RestType'
    BY <1>0, <2>1, <2>2, <2>3, <2>4, <2>5 DEF HwType, RestType, devices
  <2>7. WalksLive' /\ PacketsKnown'
    BY <2>4, <2>5 DEF TypeInv, WalksLive, PacketsKnown
  <2> QED BY <2>6, <2>7, TypeParts DEF TypeInv
<1>2. ASSUME Enable
      PROVE  TypeInv'
  <2>1. on' = TRUE /\ lost' \in BOOLEAN
        /\ UNCHANGED <<mdb, nlq, work, devices, hw, npu, blist, toggle, switching, ser, skb, mcast_lock, walker, rare, history>>
    BY <1>2 DEF Enable
  <2> QED BY <2>1 DEF TypeInv, TypeOK, devices, hw, history, PacketsKnown, WalksLive
<1> QED BY <1>1, <1>2

LEMMA StillTypes ==
  ASSUME TypeInv, UNCHANGED vars
  PROVE  TypeInv'
BY DEF TypeInv, TypeOK, vars, bridge, devices, hw, control, history, PacketsKnown, WalksLive

LEMMA TypeStep == TypeInv /\ [Next]_vars => TypeInv'
<1> SUFFICES ASSUME TypeInv, [Next]_vars PROVE TypeInv'
  OBVIOUS
<1>1. CASE Next
  BY <1>1, BridgeTypes, WorkTypes, HandleTypes, HwTypes, ReceiveTypes, ChkTypes, BindTypes,
     CommitTypes, IfDownTypes, PathTypes, BlistTypes, ToggleTypes, SerTypes, ModuleTypes DEF Next
<1> QED BY <1>1, StillTypes

(* Groups, rows, entries, messages and packets keep their types.            *)
THEOREM McastTypes == Spec => []TypeOK
<1>1. Init => TypeInv
  BY FirstTypes
<1>2. TypeInv /\ [Next]_vars => TypeInv'
  BY TypeStep
<1>3. TypeInv => TypeOK
  BY DEF TypeInv
<1> QED BY <1>1, <1>2, <1>3, PTL DEF Spec
-------------------------------------------------------------------------------
(***************************************************************************)
(* The black list.                                                         *)
(***************************************************************************)
Listed(i) == [ip |-> i, masked |-> TRUE] \in blist

(* A group that is on the list, and of which no packet slipped through, has *)
(* no packet behind the test and no entry.                                  *)
BlockInv ==
  \A i \in Ips : Listed(i) /\ i \notin slipped =>
    /\ ~Under(i, {"bind", "commit"})
    /\ groups[i] # None => groups[i].slot = None

(* What a step takes from groups and packets: it adds neither an entry to a *)
(* group nor a packet behind the test.                                      *)
NothingTaken ==
  /\ \A i \in Ips : groups'[i] # None /\ groups'[i].slot # None =>
                      groups[i] # None /\ groups[i].slot = groups'[i].slot
  /\ \A k \in Skbs : skb'[k].pc \in {"bind", "commit"} =>
                       skb[k].pc \in {"bind", "commit"} /\ skb'[k].flow = skb[k].flow

LEMMA NothingTakenBlock ==
  ASSUME BlockInv, NothingTaken, \A i \in Ips : Listed(i)' => Listed(i), slipped \subseteq slipped'
  PROVE  BlockInv'
<1> SUFFICES ASSUME NEW i \in Ips, Listed(i)', i \notin slipped'
             PROVE  /\ ~Under(i, {"bind", "commit"})'
                    /\ groups'[i] # None => groups'[i].slot = None
  BY DEF BlockInv
<1>1. Listed(i) /\ i \notin slipped
  OBVIOUS
<1>2. ~Under(i, {"bind", "commit"}) /\ (groups[i] # None => groups[i].slot = None)
  BY <1>1 DEF BlockInv
<1>3. ~Under(i, {"bind", "commit"})'
  BY <1>2 DEF NothingTaken, Under
<1>4. groups'[i] # None => groups'[i].slot = None
  BY <1>2 DEF NothingTaken
<1> QED BY <1>3, <1>4

LEMMA FinishTaken ==
  ASSUME TypeInv, NEW k \in Skbs, Finish(k)
  PROVE  \A j \in Skbs : skb'[j].pc \in {"bind", "commit"} =>
           skb[j].pc \in {"bind", "commit"} /\ skb'[j].flow = skb[j].flow
<1>1. IdleSkb.pc = "idle"
  BY DEF IdleSkb
<1> QED BY <1>1 DEF TypeInv, TypeOK, Finish

(* A change gives a group no other entry than it has.                       *)
LEMMA StoredTaken ==
  ASSUME TypeInv, NEW i \in Ips, NEW s, NEW u \in Update, NEW v \in Update, NEW e,
         groups[i] # None, u.g.slot = groups[i].slot, Change(i, s, u, v),
         NEW x \in {v.g, None}, Stored(i, s, x, e, v), UNCHANGED skb
  PROVE  NothingTaken
<1>1. v.g.slot \in {groups[i].slot, None}
  BY DEF Change, Moved, Handed
<1>2. \A j \in Ips : groups'[j] = IF j = i THEN x ELSE groups[j]
  BY DEF Stored, TypeInv, TypeOK
<1> QED BY <1>1, <1>2 DEF NothingTaken

LEMMA DetachTaken ==
  ASSUME TypeInv, NEW is, Detach(is)
  PROVE  \A i \in Ips : /\ i \in is /\ groups'[i] # None => groups'[i].slot = None
                        /\ i \notin is => groups'[i] = groups[i]
<1>1. \A i \in Ips : groups[i] \in GroupRecord \cup {None}
  BY DEF TypeInv, TypeOK
<1> QED BY <1>1, DetachedType DEF Detach

(* Steps that leave groups, packets and the list of those that slipped.    *)
Quiet ==
  \/ \E j \in Joins : BridgeJoin(j) \/ BridgeLeave(j)
  \/ WorkStart \/ WorkDrained \/ WorkEnd
  \/ \E f \in Flows : HwLearn(f)
  \/ \E s \in Slots : HwAge(s)
  \/ \E d \in Devs : IfDownStart(d) \/ IfUp(d)
  \/ \E i \in Ips : BlistWrite(i)
  \/ IfDownEnd \/ IfDownFlush
  \/ \E i \in Ips, hw_path \in BOOLEAN : PathFind(i, hw_path)
  \/ \E b \in blist : BlistDel(b)
  \/ \E enable \in BOOLEAN : Toggle(enable)
  \/ NpuChange \/ SerClear \/ Enable
  \/ UNCHANGED vars

LEMMA QuietTaken ==
  ASSUME TypeInv, Quiet
  PROVE  UNCHANGED <<groups, skb, slipped>>
BY DEF Quiet, BridgeJoin, BridgeLeave, WorkStart, WorkDrained, WorkEnd, HwLearn, HwAge, IfDownStart, IfUp,
       BlistWrite, IfDownEnd, IfDownFlush, PathFind, BlistDel, Toggle, NpuChange, SerClear, Enable, vars, hw,
       bridge, devices, history

LEMMA QuietListed ==
  ASSUME Quiet
  PROVE  \A i \in Ips : Listed(i)' => Listed(i)
<1>1. \/ blist' \subseteq blist
      \/ \E i \in Ips : blist' = blist \cup {[ip |-> i, masked |-> FALSE]}
  BY DEF Quiet, BridgeJoin, BridgeLeave, WorkStart, WorkDrained, WorkEnd, HwLearn, HwAge, IfDownStart, IfUp,
       BlistWrite, IfDownEnd, IfDownFlush, PathFind, BlistDel, Toggle, NpuChange, SerClear, Enable, vars,
       control
<1>2. \A i, j \in Ips : [ip |-> i, masked |-> TRUE] # [ip |-> j, masked |-> FALSE]
  <2> SUFFICES ASSUME NEW i \in Ips, NEW j \in Ips,
                      [ip |-> i, masked |-> TRUE] = [ip |-> j, masked |-> FALSE]
               PROVE  FALSE
    OBVIOUS
  <2>1. [ip |-> i, masked |-> TRUE].masked = [ip |-> j, masked |-> FALSE].masked
    OBVIOUS
  <2> QED BY <2>1
<1>3. CASE blist' \subseteq blist
  BY <1>3 DEF Listed
<1>4. ASSUME NEW j \in Ips, blist' = blist \cup {[ip |-> j, masked |-> FALSE]}
      PROVE  \A i \in Ips : Listed(i)' => Listed(i)
  BY <1>2, <1>4, Zenon DEF Listed
<1> QED BY <1>1, <1>3, <1>4

LEMMA HandleBlock ==
  ASSUME TypeInv, BlockInv, HandleMdb
  PROVE  BlockInv'
<1> DEFINE m == Head(nlq)
           g == WithMember(IF groups[m.ip] = None THEN NewGroup ELSE groups[m.ip], m)
<1>1. /\ m \in Message /\ m.ip \in Ips /\ g \in GroupRecord
      /\ groups[m.ip] = None => g.slot = None /\ g.row = None
      /\ groups[m.ip] # None => g.slot = groups[m.ip].slot /\ g.row = groups[m.ip].row
  BY HandleGroup DEF HandleMdb
<1>2. /\ UNCHANGED hw
         \/ IF toggle /\ g.slot # None THEN EventHw(m.ip, g, m)
            ELSE groups' = [groups EXCEPT ![m.ip] = Kept(g)]
      /\ UNCHANGED <<control, skb, slipped>>
  BY DEF HandleMdb
<1> HIDE DEF m, g
<1>3. NothingTaken
  <2>1. CASE UNCHANGED hw
    BY <1>2, <2>1 DEF hw, NothingTaken
  <2>2. CASE toggle /\ g.slot # None /\ EventHw(m.ip, g, m)
    <3>1. HwType /\ npu \in BOOLEAN
      BY TypeParts DEF TypeInv, RestType
    <3>2. PICK u \in Update, v \in Update :
            /\ u.g = g /\ Change(m.ip, g.slot, u, v) /\ Stored(m.ip, g.slot, Kept(v.g), v.e, v)
      BY <1>1, <2>2, <3>1, EventHwUpdate
    <3>3. Kept(v.g) \in {v.g, None}
      BY DEF Kept
    <3> QED BY <1>1, <1>2, <2>2, <3>2, <3>3, StoredTaken
  <2>3. CASE groups' = [groups EXCEPT ![m.ip] = Kept(g)]
    <3>1. \A j \in Ips : groups'[j] = IF j = m.ip THEN Kept(g) ELSE groups[j]
      BY <2>3 DEF TypeInv, TypeOK
    <3>2. Kept(g) \in {g, None}
      BY DEF Kept
    <3> QED BY <1>1, <1>2, <3>1, <3>2 DEF NothingTaken
  <2> QED BY <1>2, <2>1, <2>2, <2>3
<1>4. \A i \in Ips : Listed(i)' => Listed(i)
  BY <1>2 DEF Listed, control
<1> QED BY <1>2, <1>3, <1>4, NothingTakenBlock

LEMMA ReceiveBlock ==
  ASSUME TypeInv, BlockInv, NEW k \in Skbs, NEW f \in Flows, NEW d \in Devs, Receive(k, f, d)
  PROVE  BlockInv'
<1>1. UNCHANGED <<hw, control, history>>
  BY DEF Receive
<1>2. \A j \in Skbs : skb'[j] = skb[j] \/ skb'[j].pc = "check"
  BY DEF Receive, TypeInv, TypeOK
<1>3. NothingTaken /\ \A i \in Ips : Listed(i)' => Listed(i)
  BY <1>1, <1>2 DEF hw, control, NothingTaken, Listed
<1> QED BY <1>1, <1>3, NothingTakenBlock DEF history

LEMMA ChkBlock ==
  ASSUME TypeInv, BlockInv, NEW k \in Skbs, ChkBlist(k)
  PROVE  BlockInv'
<1> DEFINE i == Group[skb[k].flow]
<1>1. UNCHANGED <<hw, control>>
  BY DEF ChkBlist
<1>2. CASE Finish(k) /\ UNCHANGED slipped
  <2>1. NothingTaken
    BY <1>1, <1>2, FinishTaken DEF NothingTaken, hw
  <2>2. \A j \in Ips : Listed(j)' => Listed(j)
    BY <1>1 DEF Listed, control
  <2> QED BY <1>2, <2>1, <2>2, NothingTakenBlock
<1>3. CASE /\ skb' = [skb EXCEPT ![k].pc = "bind"]
           /\ slipped' = IF [ip |-> i, masked |-> TRUE] \in blist THEN slipped \cup {i} ELSE slipped
  <2> SUFFICES ASSUME NEW j \in Ips, Listed(j)', j \notin slipped'
               PROVE  /\ ~Under(j, {"bind", "commit"})'
                      /\ groups'[j] # None => groups'[j].slot = None
    BY DEF BlockInv
  <2>1. Listed(j) /\ j \notin slipped /\ j # i
    BY <1>1, <1>3 DEF Listed, control
  <2>2. ~Under(j, {"bind", "commit"}) /\ (groups[j] # None => groups[j].slot = None)
    BY <2>1 DEF BlockInv
  <2>3. skb[k] \in Packet
    BY DEF TypeInv, TypeOK
  <2>4. \A l \in Skbs : /\ l # k => skb'[l] = skb[l]
                        /\ skb'[l].flow = skb[l].flow
    BY <1>3, <2>3 DEF TypeInv, TypeOK, Packet
  <2>5. ~Under(j, {"bind", "commit"})'
    BY <2>1, <2>2, <2>4 DEF Under
  <2> QED BY <1>1, <2>2, <2>5 DEF hw
<1> QED BY <1>2, <1>3 DEF ChkBlist

LEMMA BindBlock ==
  ASSUME TypeInv, BlockInv, NEW k \in Skbs, BindHandle(k)
  PROVE  BlockInv'
<1> DEFINE i == Group[skb[k].flow]
<1>1. UNCHANGED <<bridge, control, mcast_lock, walker, rare, slipped>> /\ skb[k].pc = "bind"
  BY DEF BindHandle
<1> SUFFICES ASSUME NEW j \in Ips, Listed(j)', j \notin slipped'
             PROVE  /\ ~Under(j, {"bind", "commit"})'
                    /\ groups'[j] # None => groups'[j].slot = None
  BY DEF BlockInv
<1>2. Listed(j) /\ j \notin slipped
  BY <1>1 DEF Listed, control
<1>3. ~Under(j, {"bind", "commit"}) /\ (groups[j] # None => groups[j].slot = None)
  BY <1>2 DEF BlockInv
<1>4. j # i
  BY <1>1, <1>3 DEF Under
<1>5. groups'[j] = groups[j] /\ \A l \in Skbs : l # k => skb'[l] = skb[l]
  <2>1. CASE ~toggle
    <3>1. UNCHANGED groups /\ skb' = [skb EXCEPT ![k].pc = "commit"]
      BY <2>1 DEF BindHandle, hw
    <3> QED BY <3>1 DEF TypeInv, TypeOK
  <2>2. CASE toggle /\ Refuses(groups[i])
    <3>1. UNCHANGED groups /\ Finish(k)
      BY <2>2 DEF BindHandle, hw
    <3> QED BY <3>1 DEF TypeInv, TypeOK, Finish
  <2>3. CASE toggle /\ ~Refuses(groups[i])
    <3>1. PICK u \in Update, v \in Update :
            /\ Stored(i, SlotOf[skb[k].flow], v.g, foe[SlotOf[skb[k].flow]], v)
            /\ IF v.deleted \/ ~v.g.offload THEN Finish(k)
               ELSE skb' = [skb EXCEPT ![k].pc = "commit", ![k].e = v.e]
      BY <2>3, BindUpdate
    <3>2. groups'[j] = groups[j]
      BY <1>4, <3>1 DEF Stored, TypeInv, TypeOK
    <3>3. \A l \in Skbs : l # k => skb'[l] = skb[l]
      BY <3>1 DEF Finish, TypeInv, TypeOK
    <3> QED BY <3>2, <3>3
  <2> QED BY <2>1, <2>2, <2>3
<1>6. skb'[k].pc \in {"bind", "commit"} => skb'[k].flow = skb[k].flow
  <2>1. skb[k] \in Packet /\ skb \in [Skbs -> Packet]
    BY DEF TypeInv, TypeOK
  <2>2. \/ Finish(k)
        \/ skb' = [skb EXCEPT ![k].pc = "commit"]
        \/ \E e : skb' = [skb EXCEPT ![k].pc = "commit", ![k].e = e]
    BY DEF BindHandle
  <2>3. CASE Finish(k)
    BY <2>1, <2>3 DEF Finish, IdleSkb
  <2>4. CASE skb' = [skb EXCEPT ![k].pc = "commit"]
    BY <2>1, <2>4 DEF Packet
  <2>5. ASSUME NEW e, skb' = [skb EXCEPT ![k].pc = "commit", ![k].e = e]
        PROVE  skb'[k].flow = skb[k].flow
    BY <2>1, <2>5 DEF Packet
  <2> QED BY <2>2, <2>3, <2>4, <2>5
<1>7. ~Under(j, {"bind", "commit"})'
  BY <1>3, <1>4, <1>5, <1>6 DEF Under
<1> QED BY <1>3, <1>5, <1>7

LEMMA CommitBlock ==
  ASSUME TypeInv, BlockInv, NEW k \in Skbs, Commit(k)
  PROVE  BlockInv'
<1>1. UNCHANGED <<groups, control, history>> /\ Finish(k)
  BY DEF Commit
<1>2. NothingTaken
  BY <1>1, FinishTaken DEF NothingTaken
<1>3. \A j \in Ips : Listed(j)' => Listed(j)
  BY <1>1 DEF Listed, control
<1> QED BY <1>1, <1>2, <1>3, NothingTakenBlock DEF history

LEMMA IfDownBlock ==
  ASSUME TypeInv, BlockInv, NEW i \in Ips, IfDownGroup(i)
  PROVE  BlockInv'
<1>1. UNCHANGED <<control, skb, slipped>>
  BY DEF IfDownGroup
<1>2. NothingTaken
  <2>1. CASE Leaves(groups[i], mcast_lock.dev)
    <3>1. UNCHANGED groups
      BY <2>1 DEF IfDownGroup, hw
    <3> QED BY <1>1, <3>1 DEF NothingTaken
  <2>2. CASE ~Leaves(groups[i], mcast_lock.dev)
    <3>1. PICK u \in Update, v \in Update :
            u.g = groups[i] /\ Change(i, u.g.slot, u, v) /\ Stored(i, u.g.slot, v.g, v.e, v)
      BY <2>2, IfDownUpdate
    <3>2. groups[i] # None
      BY DEF IfDownGroup, TypeInv, WalksLive
    <3> QED BY <1>1, <3>1, <3>2, StoredTaken
  <2> QED BY <2>1, <2>2
<1>3. \A j \in Ips : Listed(j)' => Listed(j)
  BY <1>1 DEF Listed, control
<1> QED BY <1>1, <1>2, <1>3, NothingTakenBlock

LEMMA PathBlock ==
  ASSUME TypeInv, BlockInv, PathSwitch
  PROVE  BlockInv'
<1> DEFINE i == walker.ip
           g == [groups[i] EXCEPT !.offload = walker.hw_path]
<1>1. UNCHANGED <<control, skb, slipped>> /\ walker # None
      /\ \/ walker.freed /\ UNCHANGED groups
         \/ ~walker.freed /\ groups' = [groups EXCEPT ![i] = g]
         \/ ~walker.freed /\ groups' = [groups EXCEPT ![i] = Detached(g)]
  BY DEF PathSwitch, hw
<1>2. NothingTaken
  <2>1. CASE walker.freed
    BY <1>1, <2>1 DEF NothingTaken
  <2>2. CASE ~walker.freed
    <3>1. i \in Ips /\ walker.hw_path \in BOOLEAN /\ groups[i] \in GroupRecord /\ groups[i] # None
      BY <1>1, <2>2 DEF TypeInv, TypeOK, WalksLive
    <3>2. g.slot = groups[i].slot /\ Detached(g).slot = None
      BY <3>1, OffloadType
    <3> HIDE DEF g
    <3>3. \A j \in Ips : groups'[j] = IF j = i THEN groups'[i] ELSE groups[j]
      BY <1>1, <2>2 DEF TypeInv, TypeOK
    <3>4. groups'[i] = g \/ groups'[i] = Detached(g)
      BY <1>1, <2>2, <3>1 DEF TypeInv, TypeOK
    <3> QED BY <1>1, <3>1, <3>2, <3>3, <3>4 DEF NothingTaken
  <2> QED BY <2>1, <2>2
<1>3. \A j \in Ips : Listed(j)' => Listed(j)
  BY <1>1 DEF Listed, control
<1> QED BY <1>1, <1>2, <1>3, NothingTakenBlock

LEMMA BlistBlock ==
  ASSUME TypeInv, BlockInv, NEW i \in Ips, BlistAdd(i)
  PROVE  BlockInv'
<1>1. /\ Detach({i}) /\ UNCHANGED skb /\ blist' = blist \cup {[ip |-> i, masked |-> TRUE]}
      /\ slipped' = IF Under(i, {"bind", "commit"}) THEN slipped \cup {i} ELSE slipped
  BY DEF BlistAdd
<1>2. \A j \in Ips : /\ j = i /\ groups'[j] # None => groups'[j].slot = None
                     /\ j # i => groups'[j] = groups[j]
  BY <1>1, DetachTaken
<1> SUFFICES ASSUME NEW j \in Ips, Listed(j)', j \notin slipped'
             PROVE  /\ ~Under(j, {"bind", "commit"})'
                    /\ groups'[j] # None => groups'[j].slot = None
  BY DEF BlockInv
<1>3. Under(j, {"bind", "commit"})' = Under(j, {"bind", "commit"})
  BY <1>1 DEF Under
<1>4. CASE j = i
  BY <1>1, <1>2, <1>3, <1>4
<1>5. CASE j # i
  <2>1. [ip |-> j, masked |-> TRUE] # [ip |-> i, masked |-> TRUE]
    <3>1. [ip |-> j, masked |-> TRUE].ip = j /\ [ip |-> i, masked |-> TRUE].ip = i
      OBVIOUS
    <3> QED BY <1>5, <3>1
  <2>2. Listed(j) /\ j \notin slipped
    BY <1>1, <2>1 DEF Listed
  <2> QED BY <1>2, <1>3, <1>5, <2>2 DEF BlockInv
<1> QED BY <1>4, <1>5

LEMMA OffloadBlock ==
  ASSUME TypeInv, BlockInv, OffloadGroups \/ SerGroups
  PROVE  BlockInv'
<1>1. UNCHANGED <<blist, skb, slipped>>
  BY DEF OffloadGroups, SerGroups
<1>2. NothingTaken
  <2>1. CASE OffloadGroups
    <3>1. UNCHANGED groups \/ \E is : Detach(is)
      BY <2>1 DEF OffloadGroups, hw
    <3> QED BY <1>1, <3>1, DetachTaken DEF NothingTaken
  <2>2. CASE SerGroups
    <3>1. \A i \in Ips : groups'[i] = IF groups[i] = None THEN None
                                      ELSE [Detached(groups[i]) EXCEPT !.row = None]
      BY <2>2 DEF SerGroups
    <3>2. ASSUME NEW i \in Ips, groups[i] # None
          PROVE  [Detached(groups[i]) EXCEPT !.row = None].slot = None
      <4>1. groups[i] \in GroupRecord \cup {None}
        BY DEF TypeInv, TypeOK
      <4>2. Detached(groups[i]) \in GroupRecord /\ Detached(groups[i]).slot = None
        BY <3>2, <4>1, DetachedType
      <4> QED BY <4>2, SetRow
    <3> QED BY <1>1, <3>1, <3>2 DEF NothingTaken
  <2> QED BY <2>1, <2>2
<1>3. \A j \in Ips : Listed(j)' => Listed(j)
  BY <1>1 DEF Listed
<1> QED BY <1>1, <1>2, <1>3, NothingTakenBlock

LEMMA BlockStep == TypeInv /\ BlockInv /\ [Next]_vars => BlockInv'
<1> SUFFICES ASSUME TypeInv, BlockInv, [Next]_vars PROVE BlockInv'
  OBVIOUS
<1>1. ASSUME UNCHANGED <<groups, skb, slipped>>, \A i \in Ips : Listed(i)' => Listed(i)
      PROVE  BlockInv'
  <2>1. NothingTaken
    BY <1>1 DEF NothingTaken
  <2> QED BY <1>1, <2>1, NothingTakenBlock
<1>2. ASSUME Disable
      PROVE  BlockInv'
  BY <1>2 DEF Disable, BlockInv, Listed
<1>3. ASSUME Next
      PROVE  BlockInv'
  BY <1>1, <1>2, <1>3, QuietTaken, QuietListed, HandleBlock, ReceiveBlock, ChkBlock, BindBlock,
     CommitBlock, IfDownBlock, PathBlock, BlistBlock, OffloadBlock DEF Next, Quiet
<1>4. ASSUME UNCHANGED vars
      PROVE  BlockInv'
  BY <1>1, <1>4, QuietTaken, QuietListed DEF Quiet
<1> QED BY <1>3, <1>4

(* A group on the black list is not bound (lines 871-924 of hnat_mcast.c),  *)
(* unless it got there while a packet was between the test and the commit,  *)
(* or a packet passed while the test was switched off.                      *)
THEOREM ListedUnbound == Spec => []BlockedUnbound
<1>1. Init => TypeInv /\ BlockInv
  <2>1. Init => BlockInv
    BY DEF Init, BlockInv, Listed
  <2> QED BY <2>1, FirstTypes
<1>2. TypeInv /\ BlockInv /\ [Next]_vars => (TypeInv /\ BlockInv)'
  BY TypeStep, BlockStep
<1>3. TypeInv /\ BlockInv => BlockedUnbound
  BY DEF BlockInv, Listed, BlockedUnbound, Owner
<1> QED BY <1>1, <1>2, <1>3, PTL DEF Spec
-------------------------------------------------------------------------------
(***************************************************************************)
(* Entries and groups agree.                                               *)
(***************************************************************************)
(* Two groups never share an entry (flows of both would collide in the      *)
(* table), and the flows of one group go through one engine, since a group  *)
(* has one row and each engine a table of its own.                          *)
Apart ==
  /\ \A f, h \in Flows : SlotOf[f] = SlotOf[h] => Group[f] = Group[h]
  /\ \A f, h \in Flows : Group[f] = Group[h] => PpeOf[SlotOf[f]] = PpeOf[SlotOf[h]]

Own(i) == {SlotOf[f] : f \in {h \in Flows : Group[h] = i}}

Engine(i) == CHOOSE p : \E s \in Own(i) : p = PpeOf[s]

LEMMA OwnFacts ==
  ASSUME Apart, NEW i \in Ips
  PROVE  /\ \A s \in Own(i) : s \in Slots /\ Engine(i) = PpeOf[s] /\ Engine(i) \in Ppes
         /\ \A j \in Ips : \A s \in Own(j) : s \in Own(i) => j = i
<1>1. \A s, t \in Own(i) : PpeOf[s] = PpeOf[t]
  BY DEF Apart, Own
<1>2. \A s \in Own(i) : Engine(i) = PpeOf[s]
  BY <1>1 DEF Engine
<1>3. \A s \in Own(i) : s \in Slots /\ PpeOf[s] \in Ppes
  BY DEF Own, Slots, Ppes
<1>4. \A j \in Ips : \A s \in Own(j) : s \in Own(i) => j = i
  BY DEF Apart, Own
<1> QED BY <1>2, <1>3, <1>4

(* A group's entry is that of one of its flows.                             *)
OwnSlots == \A i \in Ips : groups[i] # None /\ groups[i].slot # None => groups[i].slot \in Own(i)

(* Its row is written, and is no other's.                                   *)
HasRow(i) == Own(i) # {} /\ groups[i] # None /\ groups[i].row # None

RowsHeld == \A i \in Ips : HasRow(i) => mtbl[Engine(i)][groups[i].row] # None

RowsApart ==
  \A i, j \in Ips : i # j /\ HasRow(i) /\ HasRow(j) /\ Engine(i) = Engine(j) => groups[i].row # groups[j].row

TopsTagged ==
  /\ \A s \in Slots : foe[s].out.tops => MtkDsa
  /\ \A k \in Skbs : skb[k].e.out.tops => MtkDsa

SendsOf(i, e) == Sends(groups[i].row, groups[i].bmp, MacOf[i], mtbl[Engine(i)], e)

BoundAgrees == \A i \in Ips : i \notin raced /\ Owner(i) => SendsOf(i, foe[groups[i].slot])

(* What a packet is about to commit agrees with its group, or belongs to    *)
(* nobody.                                                                  *)
Agreed(i, s, e) ==
  e.flow # None => groups[i] # None /\ groups[i].slot = s /\ SendsOf(i, e)

PreparedAgrees ==
  \A k \in Skbs :
    skb[k].pc = "commit" /\ Group[skb[k].flow] \notin raced
      => Agreed(Group[skb[k].flow], SlotOf[skb[k].flow], skb[k].e)

RowInv == OwnSlots /\ RowsHeld /\ RowsApart /\ TopsTagged

AgreeInv == RowInv /\ BoundAgrees /\ PreparedAgrees

(* Steps that take entries, rows and packets away, or nothing.              *)
SamePlace(i) ==
  /\ groups[i] # None /\ groups'[i].slot = groups[i].slot /\ groups'[i].row = groups[i].row
  /\ groups'[i].bmp = groups[i].bmp

Fading ==
  /\ \A i \in Ips : groups'[i] # None /\ groups'[i].slot # None => SamePlace(i)
  /\ \A i \in Ips : groups'[i] # None /\ groups'[i].row # None =>
                      groups[i] # None /\ groups'[i].row = groups[i].row
  /\ mtbl' = mtbl \/ \A i \in Ips : groups'[i] # None => groups'[i].slot = None /\ groups'[i].row = None
  /\ \A s \in Slots : /\ foe'[s].state = "BIND" => foe'[s] = foe[s]
                      /\ foe'[s].out.tops => foe[s].out.tops
  /\ \A k \in Skbs : /\ skb'[k].pc = "commit" => skb'[k] = skb[k]
                     /\ skb'[k].e.out.tops => skb[k].e.out.tops
  /\ \A i \in Ips : i \notin raced' =>
       \/ groups'[i] = None /\ ~Under(i, {"commit"})
       \/ /\ i \notin raced
          /\ Under(i, {"commit"}) /\ groups[i] # None => groups'[i] # None /\ SamePlace(i) /\ mtbl' = mtbl

LEMMA FadingAgrees ==
  ASSUME Apart, TypeInv, TypeInv', AgreeInv, Fading
  PROVE  AgreeInv'
<1>1. OwnSlots'
  BY DEF Fading, SamePlace, AgreeInv, RowInv, OwnSlots
<1>2. \A i \in Ips : HasRow(i)' => HasRow(i) /\ groups'[i].row = groups[i].row /\ mtbl' = mtbl
  BY DEF Fading, HasRow
<1>3. RowsHeld'
  <2> SUFFICES ASSUME NEW i \in Ips, HasRow(i)'
               PROVE  mtbl'[Engine(i)][groups'[i].row] # None
    BY DEF RowsHeld
  <2>1. HasRow(i) /\ groups'[i].row = groups[i].row /\ mtbl' = mtbl
    BY <1>2
  <2> QED BY <2>1 DEF AgreeInv, RowInv, RowsHeld
<1>4. RowsApart'
  <2> SUFFICES ASSUME NEW i \in Ips, NEW j \in Ips, i # j, HasRow(i)', HasRow(j)', Engine(i) = Engine(j)
               PROVE  groups'[i].row # groups'[j].row
    BY DEF RowsApart
  <2> QED BY <1>2 DEF AgreeInv, RowInv, RowsApart
<1>5. TopsTagged'
  BY DEF Fading, AgreeInv, RowInv, TopsTagged
<1>6. BoundAgrees'
  <2> SUFFICES ASSUME NEW i \in Ips, i \notin raced', Owner(i)'
               PROVE  SendsOf(i, foe[groups[i].slot])'
    BY DEF BoundAgrees
  <2>1. groups'[i] # None /\ groups'[i].slot # None /\ foe'[groups'[i].slot].state = "BIND"
    BY DEF Owner
  <2>2. SamePlace(i) /\ mtbl' = mtbl /\ i \notin raced
    BY <2>1 DEF Fading
  <2>3. groups[i].slot \in Slots
    <3>1. groups[i] \in GroupRecord
      BY <2>2 DEF SamePlace, TypeInv, TypeOK
    <3> QED BY <2>1, <2>2, <3>1 DEF SamePlace, GroupRecord
  <2>4. foe'[groups[i].slot] = foe[groups[i].slot]
    BY <2>1, <2>2, <2>3 DEF SamePlace, Fading
  <2>5. Owner(i)
    BY <2>2, <2>4 DEF Owner, SamePlace
  <2>6. SendsOf(i, foe[groups[i].slot])
    BY <2>2, <2>5 DEF AgreeInv, BoundAgrees
  <2> QED BY <2>2, <2>4, <2>6 DEF SendsOf, SamePlace
<1>7. PreparedAgrees'
  <2> SUFFICES ASSUME NEW k \in Skbs, skb'[k].pc = "commit", Group[skb'[k].flow] \notin raced'
               PROVE  Agreed(Group[skb[k].flow], SlotOf[skb[k].flow], skb[k].e)'
    BY DEF PreparedAgrees
  <2>1. skb'[k] = skb[k]
    BY DEF Fading
  <2> DEFINE i == Group[skb[k].flow]
             s == SlotOf[skb[k].flow]
             e == skb[k].e
  <2>2. i \in Ips /\ Under(i, {"commit"})
    <3>1. skb[k].flow \in Flows
      BY <2>1 DEF TypeInv, PacketsKnown
    <3> QED BY <2>1, <3>1, Places DEF Under
  <2>3. i \notin raced /\ (groups[i] # None => groups'[i] # None /\ SamePlace(i) /\ mtbl' = mtbl)
    BY <2>1, <2>2 DEF Fading
  <2>4. Agreed(i, s, e)
    BY <2>1, <2>3 DEF AgreeInv, PreparedAgrees
  <2>5. Agreed(i, s, e)' 
    <3>1. e' = e /\ i' = i /\ s' = s
      BY <2>1
    <3> HIDE DEF e, i, s
    <3>2. CASE e.flow = None
      BY <3>1, <3>2 DEF Agreed
    <3>3. CASE e.flow # None
      <4>1. groups[i] # None /\ groups[i].slot = s /\ SendsOf(i, e)
        BY <2>4, <3>3 DEF Agreed
      <4>2. groups'[i] # None /\ SamePlace(i) /\ mtbl' = mtbl
        BY <2>3, <4>1
      <4> QED BY <3>1, <4>1, <4>2 DEF Agreed, SendsOf, SamePlace
    <3> QED BY <3>2, <3>3
  <2> QED BY <2>5
<1> QED BY <1>1, <1>3, <1>4, <1>5, <1>6, <1>7 DEF AgreeInv, RowInv

(* What a change does to rows and to the other groups.                      *)
LEMMA MovedRows ==
  ASSUME Apart, TypeInv, TypeInv', RowInv, NEW i \in Ips, NEW s \in Own(i), NEW u \in Update, NEW v \in Update,
         groups[i] # None, u.g.row = groups[i].row, u.g.slot = s, u.e.out.tops => MtkDsa,
         Moved(i, s, u, v), NEW x \in {v.g, None}, NEW e \in Entry, e = v.e \/ (e.out.tops => MtkDsa),
         Stored(i, s, x, e, v)
  PROVE  /\ Fit(u) /\ Fit(v)
         /\ OwnSlots' /\ RowsHeld' /\ RowsApart'
         /\ \A t \in Slots : foe'[t].out.tops => MtkDsa
         /\ groups'[i] = x /\ mtbl'[Engine(i)] = v.rows /\ s \in Slots /\ Engine(i) = PpeOf[s]
         /\ foe'[s] = IF v.deleted THEN [foe[s] EXCEPT !.state = "INVALID"] ELSE e
         /\ \A j \in Ips : j # i =>
              /\ groups'[j] = groups[j]
              /\ HasRow(j) => mtbl'[Engine(j)][groups[j].row] = mtbl[Engine(j)][groups[j].row]
         /\ \A t \in Slots : t # s => foe'[t] = foe[t]
<1>1. s \in Slots /\ Engine(i) = PpeOf[s] /\ Engine(i) \in Ppes
  BY OwnFacts
<1>2. /\ groups \in [Ips -> GroupRecord \cup {None}] /\ mtbl \in [Ppes -> [Rows -> Row \cup {None}]]
      /\ foe \in [Slots -> Entry]
  BY DEF TypeInv, TypeOK
<1>3. /\ groups'[i] = x /\ mtbl'[Engine(i)] = v.rows
      /\ foe'[s] = IF v.deleted THEN [foe[s] EXCEPT !.state = "INVALID"] ELSE e
      /\ \A j \in Ips : j # i => groups'[j] = groups[j]
      /\ \A p \in Ppes : p # Engine(i) => mtbl'[p] = mtbl[p]
      /\ \A t \in Slots : t # s => foe'[t] = foe[t]
  BY <1>1, <1>2 DEF Stored
<1>4. /\ v.g.slot \in {s, None} /\ (v.g.row \in {None, u.g.row} \/ u.rows[v.g.row] = None)
      /\ \A r \in Rows : r # u.g.row /\ r # v.g.row => v.rows[r] = u.rows[r]
      /\ Fit(u) => Fit(v)
      /\ u.rows = mtbl[Engine(i)]
  BY <1>1 DEF Moved, Handed
<1>5. Fit(u)
  <2>1. u.g.row # None => u.rows[u.g.row] # None
    BY <1>4 DEF RowInv, RowsHeld, HasRow
  <2> QED BY <2>1 DEF Fit
<1>6. Fit(v)
  BY <1>4, <1>5
<1>7. OwnSlots'
  BY <1>3, <1>4 DEF RowInv, OwnSlots
<1>8. \A j \in Ips : HasRow(j) => groups[j].row \in Rows /\ Engine(j) \in Ppes
  <2> SUFFICES ASSUME NEW j \in Ips, HasRow(j) PROVE groups[j].row \in Rows /\ Engine(j) \in Ppes
    OBVIOUS
  <2>1. groups[j] \in GroupRecord /\ groups[j].row # None
    BY <1>2 DEF HasRow
  <2>2. groups[j].row \in Rows
    BY <2>1 DEF GroupRecord
  <2> QED BY <2>2, OwnFacts DEF HasRow
<1>9. ASSUME NEW j \in Ips, j # i, HasRow(j)
      PROVE  /\ mtbl'[Engine(j)][groups[j].row] = mtbl[Engine(j)][groups[j].row]
             /\ Engine(j) = Engine(i) => groups[j].row # v.g.row \/ v.g.row = None
  <2>1. groups[j].row \in Rows /\ Engine(j) \in Ppes /\ mtbl[Engine(j)][groups[j].row] # None
        /\ groups[j].row # None
    BY <1>8, <1>9 DEF RowInv, RowsHeld, HasRow
  <2>2. CASE Engine(j) # Engine(i)
    BY <1>3, <2>1, <2>2
  <2>3. CASE Engine(j) = Engine(i)
    <3>1. groups[j].row # u.g.row
      <4>1. CASE u.g.row = None
        BY <2>1, <4>1
      <4>2. CASE u.g.row # None
        <5>1. HasRow(i)
          BY <4>2 DEF HasRow
        <5> QED BY <1>9, <2>3, <5>1 DEF RowInv, RowsApart
      <4> QED BY <4>1, <4>2
    <3>2. groups[j].row # v.g.row
      BY <1>4, <2>1, <2>3, <3>1
    <3> QED BY <1>3, <1>4, <2>1, <2>3, <3>1, <3>2
  <2> QED BY <2>2, <2>3
<1>10. RowsHeld'
  <2> SUFFICES ASSUME NEW j \in Ips, HasRow(j)'
               PROVE  mtbl'[Engine(j)][groups'[j].row] # None
    BY DEF RowsHeld
  <2>1. CASE j = i
    <3>1. x = v.g /\ v.g.row # None
      BY <1>3, <2>1 DEF HasRow
    <3> QED BY <1>3, <1>6, <2>1, <3>1 DEF Fit
  <2>2. CASE j # i
    <3>1. HasRow(j) /\ groups'[j] = groups[j]
      BY <1>3, <2>2 DEF HasRow
    <3> QED BY <1>9, <2>2, <3>1 DEF RowInv, RowsHeld
  <2> QED BY <2>1, <2>2
<1>11. RowsApart'
  <2> SUFFICES ASSUME NEW j \in Ips, NEW l \in Ips, j # l, HasRow(j)', HasRow(l)', Engine(j) = Engine(l)
               PROVE  groups'[j].row # groups'[l].row
    BY DEF RowsApart
  <2>1. ASSUME NEW j2 \in Ips, j2 # i, HasRow(j2)', HasRow(i)', Engine(j2) = Engine(i)
        PROVE  groups'[j2].row # groups'[i].row
    <3>1. HasRow(j2) /\ groups'[j2] = groups[j2]
      BY <1>3, <2>1 DEF HasRow
    <3>2. x = v.g /\ v.g.row # None
      BY <1>3, <2>1 DEF HasRow
    <3> QED BY <1>3, <1>9, <2>1, <3>1, <3>2
  <2>2. CASE j = i
    BY <2>1, <2>2
  <2>3. CASE l = i
    BY <2>1, <2>3
  <2>4. CASE j # i /\ l # i
    <3>1. HasRow(j) /\ HasRow(l) /\ groups'[j] = groups[j] /\ groups'[l] = groups[l]
      BY <1>3, <2>4 DEF HasRow
    <3> QED BY <3>1 DEF RowInv, RowsApart
  <2> QED BY <2>2, <2>3, <2>4
<1>12. \A t \in Slots : foe'[t].out.tops => MtkDsa
  <2>1. [foe[s] EXCEPT !.state = "INVALID"].out = foe[s].out
    BY <1>1, <1>2, InvalidEntry
  <2>2. \A t \in Slots : foe[t].out.tops => MtkDsa
    BY DEF RowInv, TopsTagged
  <2>3. foe'[s].out.tops => MtkDsa
    BY <1>1, <1>3, <1>6, <2>1, <2>2 DEF Fit
  <2> QED BY <1>3, <2>2, <2>3
<1> QED BY <1>1, <1>3, <1>5, <1>6, <1>7, <1>9, <1>10, <1>11, <1>12

(* What another group sends it sends on.                                    *)
OthersKeep(i, s) ==
  /\ \A j \in Ips : j # i =>
       /\ groups'[j] = groups[j]
       /\ HasRow(j) => mtbl'[Engine(j)][groups[j].row] = mtbl[Engine(j)][groups[j].row]
  /\ \A t \in Slots : t # s => foe'[t] = foe[t]

LEMMA OthersSend ==
  ASSUME Apart, AgreeInv, NEW i \in Ips, NEW s \in Own(i), OthersKeep(i, s),
         NEW j \in Ips, j # i, groups[j] # None, groups[j].slot # None, NEW e, SendsOf(j, e)
  PROVE  Sends(groups'[j].row, groups'[j].bmp, MacOf[j], mtbl'[Engine(j)], e)
<1>1. groups'[j] = groups[j] /\ groups[j].slot \in Own(j)
  BY DEF OthersKeep, AgreeInv, RowInv, OwnSlots
<1>2. groups[j].row # None => mtbl'[Engine(j)][groups[j].row] = mtbl[Engine(j)][groups[j].row]
  BY <1>1 DEF OthersKeep, HasRow
<1> QED BY <1>1, <1>2 DEF SendsOf, Sends

LEMMA OthersBound ==
  ASSUME Apart, AgreeInv, NEW i \in Ips, NEW s \in Own(i), OthersKeep(i, s),
         NEW j \in Ips, j # i, j \notin raced, Owner(j)'
  PROVE  SendsOf(j, foe[groups[j].slot])'
<1>1. groups'[j] = groups[j]
  BY DEF OthersKeep
<1>2. groups[j] # None /\ groups[j].slot # None
  BY <1>1 DEF Owner
<1>3. groups[j].slot \in Own(j) /\ groups[j].slot \in Slots /\ groups[j].slot # s
  BY <1>2, OwnFacts DEF AgreeInv, RowInv, OwnSlots
<1>4. foe'[groups[j].slot] = foe[groups[j].slot]
  BY <1>3 DEF OthersKeep
<1>5. Owner(j)
  BY <1>1, <1>4 DEF Owner
<1>6. SendsOf(j, foe[groups[j].slot])
  BY <1>5 DEF AgreeInv, BoundAgrees
<1> DEFINE e == foe[groups[j].slot]
<1>7. e' = e /\ SendsOf(j, e)
  BY <1>1, <1>4, <1>6
<1> HIDE DEF e
<1>8. Sends(groups'[j].row, groups'[j].bmp, MacOf[j], mtbl'[Engine(j)], e)
  BY <1>2, <1>7, OthersSend
<1>9. Sends(groups'[j].row, groups'[j].bmp, MacOf[j], mtbl'[Engine(j)], e')
  BY <1>7, <1>8
<1> QED BY <1>9 DEF e, SendsOf

LEMMA OthersPrepared ==
  ASSUME Apart, TypeInv, AgreeInv, NEW i \in Ips, NEW s \in Own(i), OthersKeep(i, s),
         NEW k \in Skbs, skb[k].pc = "commit", Group[skb[k].flow] # i, Group[skb[k].flow] \notin raced,
         skb'[k] = skb[k]
  PROVE  Agreed(Group[skb[k].flow], SlotOf[skb[k].flow], skb[k].e)'
<1> DEFINE j == Group[skb[k].flow]
           t == SlotOf[skb[k].flow]
           e == skb[k].e
<1>1. skb[k].flow \in Flows
  BY DEF TypeInv, PacketsKnown
<1>2. j \in Ips /\ t \in Slots /\ t # None
  BY <1>1, Places, NoneApart
<1>3. Agreed(j, t, e)
  BY DEF AgreeInv, PreparedAgrees
<1>4. j' = j /\ t' = t /\ e' = e
  OBVIOUS
<1>5. j # i
  OBVIOUS
<1> HIDE DEF j, t, e
<1>6. Agreed(j, t, e)'
  <2>1. CASE e.flow = None
    BY <1>4, <2>1 DEF Agreed
  <2>2. CASE e.flow # None
    <3>1. groups[j] # None /\ groups[j].slot = t /\ SendsOf(j, e)
      BY <1>3, <2>2 DEF Agreed
    <3>2. Sends(groups'[j].row, groups'[j].bmp, MacOf[j], mtbl'[Engine(j)], e)
      BY <1>2, <1>5, <3>1, OthersSend
    <3>3. groups'[j] = groups[j]
      BY <1>2, <1>5 DEF OthersKeep
    <3> QED BY <1>4, <3>1, <3>2, <3>3 DEF Agreed, SendsOf
  <2> QED BY <2>1, <2>2
<1> QED BY <1>6 DEF j, t, e

(* A change that is stored agrees with what it stores.                      *)
LEMMA ChangeAgrees ==
  ASSUME Apart, TypeInv, TypeInv', AgreeInv, NEW i \in Ips, NEW s \in Own(i),
         NEW u \in Update, NEW v \in Update,
         groups[i] # None, u.g.row = groups[i].row, u.g.slot = s, u.e = foe[s],
         Change(i, s, u, v), NEW x \in {v.g, None}, Stored(i, s, x, v.e, v), UNCHANGED skb, Race(i)
  PROVE  AgreeInv'
<1>1. v.e \in Entry /\ Moved(i, s, u, v) /\ s \in Slots
  BY OwnFacts DEF Update, Change
<1>2. u.e.out.tops => MtkDsa
  BY <1>1 DEF AgreeInv, RowInv, TopsTagged
<1>3. /\ Fit(u) /\ Fit(v)
      /\ OwnSlots' /\ RowsHeld' /\ RowsApart'
      /\ \A t \in Slots : foe'[t].out.tops => MtkDsa
      /\ groups'[i] = x /\ mtbl'[Engine(i)] = v.rows /\ Engine(i) = PpeOf[s]
      /\ foe'[s] = IF v.deleted THEN [foe[s] EXCEPT !.state = "INVALID"] ELSE v.e
      /\ \A j \in Ips : j # i =>
           /\ groups'[j] = groups[j]
           /\ HasRow(j) => mtbl'[Engine(j)][groups[j].row] = mtbl[Engine(j)][groups[j].row]
      /\ \A t \in Slots : t # s => foe'[t] = foe[t]
  BY <1>1, <1>2, MovedRows DEF AgreeInv
<1>4. OthersKeep(i, s)
  BY <1>3 DEF OthersKeep
<1>5. \A j \in Ips : j # i /\ j \notin raced' => j \notin raced
  BY DEF Race
<1>6. i \notin raced' => ~Under(i, {"commit"})
  BY DEF Race
<1>7. TopsTagged'
  BY <1>3 DEF TopsTagged, AgreeInv, RowInv
<1>8. BoundAgrees'
  <2> SUFFICES ASSUME NEW j \in Ips, j \notin raced', Owner(j)'
               PROVE  SendsOf(j, foe[groups[j].slot])'
    BY DEF BoundAgrees
  <2>1. CASE j # i
    BY <1>4, <1>5, <2>1, OthersBound
  <2>2. CASE j = i
    <3>1. x # None /\ x.slot # None /\ foe'[x.slot].state = "BIND"
      BY <1>3, <2>2 DEF Owner
    <3>2. x = v.g /\ v.g.slot = s /\ ~v.deleted
      BY <1>1, <3>1 DEF Moved, Handed
    <3>3. foe'[s] = v.e
      BY <1>3, <3>2
    <3>4. Sends(v.g.row, v.g.bmp, v.mac, v.rows, v.e)
      BY <1>3, <3>1, <3>2 DEF Change
    <3>5. v.mac = MacOf[i]
      BY <1>1 DEF Moved, Handed
    <3> QED BY <1>3, <2>2, <3>2, <3>3, <3>4, <3>5 DEF SendsOf
  <2> QED BY <2>1, <2>2
<1>9. PreparedAgrees'
  <2> SUFFICES ASSUME NEW k \in Skbs, skb'[k].pc = "commit", Group[skb'[k].flow] \notin raced'
               PROVE  Agreed(Group[skb[k].flow], SlotOf[skb[k].flow], skb[k].e)'
    BY DEF PreparedAgrees
  <2>1. Group[skb[k].flow] # i
    BY <1>6 DEF Under
  <2>2. Group[skb[k].flow] \in Ips
    BY Places DEF TypeInv, PacketsKnown
  <2> QED BY <1>4, <1>5, <2>1, <2>2, OthersPrepared
<1> QED BY <1>3, <1>7, <1>8, <1>9 DEF AgreeInv, RowInv

(* Steps that only fade.                                                    *)
LEMMA StillFading ==
  ASSUME UNCHANGED <<groups, mtbl, foe, skb>>, raced \subseteq raced'
  PROVE  Fading
BY DEF Fading, SamePlace

LEMMA QuietFading ==
  ASSUME TypeInv, Quiet
  PROVE  Fading
<1>1. UNCHANGED <<groups, skb>>
  BY QuietTaken
<1>2. UNCHANGED <<mtbl, raced>>
  BY DEF Quiet, BridgeJoin, BridgeLeave, WorkStart, WorkDrained, WorkEnd, HwLearn, HwAge,
         IfDownStart, IfUp, BlistWrite, IfDownEnd, IfDownFlush, PathFind, BlistDel, Toggle, NpuChange,
         SerClear, Enable, vars, hw, history
<1>3. foe \in [Slots -> Entry]
  BY DEF TypeInv, TypeOK
<1>4. Zero.state # "BIND" /\ ~Zero.out.tops /\ ~Blank.tops
  BY DEF Zero, Blank
<1>5. \A s \in Slots : LET e == [foe[s] EXCEPT !.state = "INVALID"] IN
        e.state = "INVALID" /\ e.out = foe[s].out
  BY <1>3, InvalidEntry
<1>6. \A s \in Slots : /\ foe'[s].state = "BIND" => foe'[s] = foe[s]
                       /\ foe'[s].out.tops => foe[s].out.tops
  <2>1. CASE UNCHANGED foe
    BY <2>1
  <2>2. ASSUME NEW f \in Flows, HwLearn(f)
        PROVE  <1>6!:
    BY <1>3, <1>4, <2>2 DEF HwLearn
  <2>3. ASSUME NEW s \in Slots, HwAge(s)
        PROVE  <1>6!:
    BY <1>3, <1>5, <2>3 DEF HwAge
  <2>4. ASSUME IfDownFlush
        PROVE  <1>6!:
    BY <1>3, <1>5, <2>4 DEF IfDownFlush
  <2>5. ASSUME SerClear
        PROVE  <1>6!:
    BY <1>4, <2>5 DEF SerClear
  <2>6. \/ UNCHANGED foe
        \/ \E f \in Flows : HwLearn(f)
        \/ \E s \in Slots : HwAge(s)
        \/ IfDownFlush \/ SerClear
    <3> SUFFICES ASSUME ~\E f \in Flows : HwLearn(f), ~\E s \in Slots : HwAge(s), ~IfDownFlush, ~SerClear
                 PROVE  UNCHANGED foe
      OBVIOUS
    <3>1. CASE \E j \in Joins : BridgeJoin(j) \/ BridgeLeave(j)
      BY <3>1 DEF BridgeJoin, BridgeLeave, hw
    <3>2. CASE IfDownEnd \/ \E d \in Devs : IfDownStart(d) \/ IfUp(d)
      BY <3>2 DEF IfDownStart, IfDownEnd, IfUp, hw
    <3>3. CASE \/ WorkStart \/ WorkDrained \/ WorkEnd \/ NpuChange \/ Enable \/ UNCHANGED vars
      BY <3>3 DEF WorkStart, WorkDrained, WorkEnd, NpuChange, Enable, vars, hw
    <3>4. CASE \/ \E i \in Ips : BlistWrite(i)
               \/ \E i \in Ips, hw_path \in BOOLEAN : PathFind(i, hw_path)
               \/ \E b \in blist : BlistDel(b)
               \/ \E enable \in BOOLEAN : Toggle(enable)
      BY <3>4 DEF BlistWrite, PathFind, BlistDel, Toggle, hw
    <3> QED BY <3>1, <3>2, <3>3, <3>4 DEF Quiet
  <2> QED BY <2>1, <2>2, <2>3, <2>4, <2>5, <2>6
<1> QED BY <1>1, <1>2, <1>6 DEF Fading, SamePlace

LEMMA FinishFades ==
  ASSUME TypeInv, NEW k \in Skbs, Finish(k)
  PROVE  \A j \in Skbs : /\ skb'[j].pc = "commit" => skb'[j] = skb[j]
                         /\ skb'[j].e.out.tops => skb[j].e.out.tops
<1>1. IdleSkb.pc = "idle" /\ ~IdleSkb.e.out.tops
  BY DEF IdleSkb, Zero, Blank
<1> QED BY <1>1 DEF TypeInv, TypeOK, Finish

LEMMA DetachFading ==
  ASSUME TypeInv, NEW is, Detach(is), UNCHANGED skb, raced \subseteq raced',
         \A i \in Ips : i \in is /\ Under(i, {"commit"}) => i \in raced'
  PROVE  Fading
<1>1. \A i \in Ips : /\ i \in is /\ groups'[i] # None => groups'[i].slot = None
                     /\ i \notin is => groups'[i] = groups[i]
  BY DetachTaken
<1>2. \A i \in Ips : groups'[i] # None => groups[i] # None /\ groups'[i].row = groups[i].row
  <2>1. \A i \in Ips : groups[i] \in GroupRecord \cup {None}
    BY DEF TypeInv, TypeOK
  <2> QED BY <2>1, DetachedType DEF Detach
<1>3. \A s \in Slots : /\ foe'[s].state = "BIND" => foe'[s] = foe[s]
                       /\ foe'[s].out.tops => foe[s].out.tops
  <2> SUFFICES ASSUME NEW s \in Slots
               PROVE  /\ foe'[s].state = "BIND" => foe'[s] = foe[s]
                      /\ foe'[s].out.tops => foe[s].out.tops
    OBVIOUS
  <2> DEFINE x == [foe[s] EXCEPT !.state = "INVALID"]
  <2>1. x.state = "INVALID" /\ x.out = foe[s].out
    BY InvalidEntry DEF TypeInv, TypeOK
  <2>2. foe'[s] \in {x, foe[s]}
    BY DEF Detach
  <2> HIDE DEF x
  <2> QED BY <2>1, <2>2
<1>4. UNCHANGED <<mtbl, skb>>
  BY DEF Detach
<1>5. \A i \in Ips : i \notin raced' =>
       i \notin raced /\ (Under(i, {"commit"}) /\ groups[i] # None => groups'[i] # None /\ SamePlace(i) /\ mtbl' = mtbl)
  BY <1>1, <1>4 DEF SamePlace
<1>6. \A i \in Ips : groups'[i] # None /\ groups'[i].slot # None => SamePlace(i)
  BY <1>1 DEF SamePlace
<1> QED BY <1>2, <1>3, <1>4, <1>5, <1>6 DEF Fading

LEMMA ReceiveFading ==
  ASSUME TypeInv, NEW k \in Skbs, NEW f \in Flows, NEW d \in Devs, Receive(k, f, d)
  PROVE  Fading
<1>1. UNCHANGED <<groups, mtbl, foe, raced>>
  BY DEF Receive, hw, history
<1>2. \A j \in Skbs : skb'[j] = skb[j] \/ (skb'[j].pc = "check" /\ ~skb'[j].e.out.tops)
  <2> DEFINE o == [Blank EXCEPT !.dp = PseOf[d], !.stag = {d} \cap Lan]
  <2>1. ~o.tops
    BY DEF Blank
  <2>2. \A j \in Skbs : j # k => skb'[j] = skb[j]
    BY DEF Receive, TypeInv, TypeOK
  <2>3. skb'[k] = [pc |-> "check", flow |-> f, dev |-> d, e |-> [state |-> "UNBIND", flow |-> f, out |-> o]]
    BY DEF Receive, TypeInv, TypeOK
  <2> HIDE DEF o
  <2>4. skb'[k].pc = "check" /\ skb'[k].e.out = o
    BY <2>3
  <2> QED BY <2>1, <2>2, <2>4
<1>3. \A j \in Skbs : /\ skb'[j].pc = "commit" => skb'[j] = skb[j]
                      /\ skb'[j].e.out.tops => skb[j].e.out.tops
  BY <1>2
<1> QED BY <1>1, <1>3 DEF Fading, SamePlace

LEMMA ChkFading ==
  ASSUME TypeInv, NEW k \in Skbs, ChkBlist(k)
  PROVE  Fading
<1>1. UNCHANGED <<groups, mtbl, foe, raced>>
  BY DEF ChkBlist, hw
<1>2. \A j \in Skbs : /\ skb'[j].pc = "commit" => skb'[j] = skb[j]
                      /\ skb'[j].e.out.tops => skb[j].e.out.tops
  <2>1. CASE Finish(k)
    BY <2>1, FinishFades
  <2>2. CASE skb' = [skb EXCEPT ![k].pc = "bind"]
    <3>1. skb[k] \in Packet
      BY DEF TypeInv, TypeOK
    <3>2. \A j \in Skbs : j # k => skb'[j] = skb[j]
      BY <2>2 DEF TypeInv, TypeOK
    <3>3. skb'[k].pc = "bind" /\ skb'[k].e = skb[k].e
      BY <2>2, <3>1 DEF TypeInv, TypeOK, Packet
    <3> QED BY <3>2, <3>3
  <2> QED BY <2>1, <2>2 DEF ChkBlist
<1> QED BY <1>1, <1>2 DEF Fading, SamePlace

LEMMA SerFading ==
  ASSUME TypeInv, SerGroups
  PROVE  Fading
<1>1. UNCHANGED <<foe, skb>> /\ Races(Ips, {"commit"})
  BY DEF SerGroups
<1>2. \A i \in Ips : groups'[i] # None => groups'[i].slot = None /\ groups'[i].row = None
  <2> SUFFICES ASSUME NEW i \in Ips, groups'[i] # None
               PROVE  groups'[i].slot = None /\ groups'[i].row = None
    OBVIOUS
  <2>1. groups'[i] = IF groups[i] = None THEN None ELSE [Detached(groups[i]) EXCEPT !.row = None]
    BY DEF SerGroups
  <2>2. groups[i] \in GroupRecord \cup {None} /\ groups[i] # None
    BY <2>1 DEF TypeInv, TypeOK
  <2> DEFINE g == Detached(groups[i])
  <2>3. g \in GroupRecord /\ g.slot = None
    BY <2>2, DetachedType
  <2> HIDE DEF g
  <2>4. [g EXCEPT !.row = None].slot = None /\ [g EXCEPT !.row = None].row = None
    BY <2>3, SetRow
  <2> QED BY <2>1, <2>2, <2>4 DEF g
<1>3. \A i \in Ips : i \notin raced' => i \notin raced /\ ~Under(i, {"commit"})
  BY <1>1 DEF Races
<1> QED BY <1>1, <1>2, <1>3 DEF Fading

LEMMA DisableFading ==
  ASSUME TypeInv, Disable
  PROVE  Fading
<1>1. Zero.state # "BIND" /\ ~Zero.out.tops
  BY DEF Zero, Blank
<1>2. \A s \in Slots : foe'[s] = Zero
  BY DEF Disable
<1>3. \A i \in Ips : groups'[i] = None /\ ~Under(i, {"commit"})
  BY DEF Disable, Under
<1>4. UNCHANGED skb
  BY DEF Disable
<1> QED BY <1>1, <1>2, <1>3, <1>4 DEF Fading

LEMMA PathFading ==
  ASSUME TypeInv, PathSwitch
  PROVE  Fading
<1> DEFINE i == walker.ip
           g == [groups[i] EXCEPT !.offload = walker.hw_path]
<1>1. UNCHANGED <<skb, mtbl>> /\ walker # None
  BY DEF PathSwitch, hw
<1>2. CASE walker.freed
  BY <1>1, <1>2, StillFading DEF PathSwitch, hw
<1>3. CASE ~walker.freed
  <2>1. i \in Ips /\ walker.hw_path \in BOOLEAN /\ groups[i] \in GroupRecord /\ groups[i] # None
    BY <1>1, <1>3 DEF TypeInv, TypeOK, WalksLive
  <2>2. /\ g # None /\ g.row = groups[i].row /\ g.slot = groups[i].slot /\ g.bmp = groups[i].bmp
        /\ Detached(g).slot = None /\ Detached(g).row = g.row
    BY <2>1, OffloadType
  <2>3. \/ groups' = [groups EXCEPT ![i] = g] /\ UNCHANGED <<foe, raced>>
        \/ /\ groups' = [groups EXCEPT ![i] = Detached(g)]
           /\ foe' = IF g.slot = None THEN foe ELSE [foe EXCEPT ![g.slot].state = "INVALID"]
           /\ Races({i}, {"commit"})
    BY <1>3 DEF PathSwitch
  <2> HIDE DEF g
  <2>4. CASE groups' = [groups EXCEPT ![i] = g] /\ UNCHANGED <<foe, raced>>
    <3>1. \A j \in Ips : groups'[j] = IF j = i THEN g ELSE groups[j]
      BY <2>4 DEF TypeInv, TypeOK
    <3> QED BY <1>1, <2>1, <2>2, <2>4, <3>1 DEF Fading, SamePlace
  <2>5. CASE /\ groups' = [groups EXCEPT ![i] = Detached(g)]
             /\ foe' = IF g.slot = None THEN foe ELSE [foe EXCEPT ![g.slot].state = "INVALID"]
             /\ Races({i}, {"commit"})
    <3>1. \A j \in Ips : groups'[j] = IF j = i THEN Detached(g) ELSE groups[j]
      BY <2>5 DEF TypeInv, TypeOK
    <3>2. \A s \in Slots : /\ foe'[s].state = "BIND" => foe'[s] = foe[s]
                           /\ foe'[s].out.tops => foe[s].out.tops
      <4>1. \A s \in Slots : LET e == [foe[s] EXCEPT !.state = "INVALID"] IN
              e.state = "INVALID" /\ e.out = foe[s].out
        BY InvalidEntry DEF TypeInv, TypeOK
      <4> QED BY <2>5, <4>1 DEF TypeInv, TypeOK
    <3>3. \A j \in Ips : j \notin raced' => j \notin raced /\ (Under(j, {"commit"}) => j # i)
      BY <2>5 DEF Races
    <3> QED BY <1>1, <2>1, <2>2, <3>1, <3>2, <3>3 DEF Fading, SamePlace
  <2> QED BY <2>3, <2>4, <2>5
<1> QED BY <1>2, <1>3

(* The steps that write to entries.                                         *)
LEMMA HandleAgrees ==
  ASSUME Apart, TypeInv, TypeInv', AgreeInv, HandleMdb
  PROVE  AgreeInv'
<1> DEFINE m == Head(nlq)
           g == WithMember(IF groups[m.ip] = None THEN NewGroup ELSE groups[m.ip], m)
<1>1. /\ m \in Message /\ m.ip \in Ips /\ g \in GroupRecord
      /\ groups[m.ip] = None => g.slot = None /\ g.row = None
      /\ groups[m.ip] # None => g.slot = groups[m.ip].slot /\ g.row = groups[m.ip].row
                                /\ g.bmp = groups[m.ip].bmp
  BY HandleGroup DEF HandleMdb
<1>2. /\ \/ UNCHANGED <<hw, raced>>
         \/ IF toggle /\ g.slot # None
            THEN EventHw(m.ip, g, m) /\ Race(m.ip)
            ELSE /\ groups' = [groups EXCEPT ![m.ip] = Kept(g)]
                 /\ UNCHANGED <<mtbl, foe, clients>>
                 /\ Races({m.ip}, {"commit"})
      /\ UNCHANGED skb
  BY DEF HandleMdb
<1> HIDE DEF m, g
<1>3. CASE UNCHANGED <<hw, raced>>
  BY <1>2, <1>3, StillFading, FadingAgrees DEF hw
<1>4. CASE toggle /\ g.slot # None /\ EventHw(m.ip, g, m) /\ Race(m.ip)
  <2>1. HwType /\ npu \in BOOLEAN /\ groups[m.ip] # None
    BY <1>1, <1>4, TypeParts DEF TypeInv, RestType
  <2>2. PICK u \in Update, v \in Update :
          /\ u.g = g /\ u.e = foe[g.slot] /\ Change(m.ip, g.slot, u, v)
          /\ Stored(m.ip, g.slot, Kept(v.g), v.e, v)
    BY <1>1, <1>4, <2>1, EventHwUpdate
  <2>3. Kept(v.g) \in {v.g, None}
    BY DEF Kept
  <2>4. g.slot \in Own(m.ip)
    BY <1>1, <1>4, <2>1 DEF AgreeInv, RowInv, OwnSlots
  <2> QED BY <1>1, <1>2, <1>4, <2>1, <2>2, <2>3, <2>4, ChangeAgrees
<1>5. CASE /\ groups' = [groups EXCEPT ![m.ip] = Kept(g)]
           /\ UNCHANGED <<mtbl, foe, clients>>
           /\ Races({m.ip}, {"commit"})
  <2>1. \A j \in Ips : groups'[j] = IF j = m.ip THEN Kept(g) ELSE groups[j]
    BY <1>5 DEF TypeInv, TypeOK
  <2>2. Kept(g) \in {g, None}
    BY DEF Kept
  <2>3. \A j \in Ips : j \notin raced' => j \notin raced /\ (Under(j, {"commit"}) => j # m.ip)
    BY <1>5 DEF Races
  <2>4. Fading
    BY <1>1, <1>2, <1>5, <2>1, <2>2, <2>3 DEF Fading, SamePlace
  <2> QED BY <2>4, FadingAgrees
<1> QED BY <1>2, <1>3, <1>4, <1>5

LEMMA IfDownAgrees ==
  ASSUME Apart, TypeInv, TypeInv', AgreeInv, NEW i \in Ips, IfDownGroup(i)
  PROVE  AgreeInv'
<1>1. UNCHANGED skb
  BY DEF IfDownGroup
<1>2. CASE Leaves(groups[i], mcast_lock.dev)
  <2>1. UNCHANGED <<hw, raced>>
    BY <1>2 DEF IfDownGroup
  <2> QED BY <1>1, <2>1, StillFading, FadingAgrees DEF hw
<1>3. CASE ~Leaves(groups[i], mcast_lock.dev)
  <2>1. PICK u \in Update, v \in Update :
          /\ u.g = groups[i] /\ u.e = foe[u.g.slot] /\ Change(i, u.g.slot, u, v)
          /\ Stored(i, u.g.slot, v.g, v.e, v)
    BY <1>3, IfDownUpdate
  <2>2. groups[i] # None /\ Race(i)
    BY <1>3 DEF IfDownGroup, TypeInv, WalksLive
  <2>3. u.g.slot \in Own(i)
    BY <1>3, <2>1, <2>2 DEF Leaves, AgreeInv, RowInv, OwnSlots
  <2> QED BY <1>1, <2>1, <2>2, <2>3, ChangeAgrees
<1> QED BY <1>2, <1>3

LEMMA CommitAgrees ==
  ASSUME Apart, TypeInv, AgreeInv, NEW k \in Skbs, Commit(k)
  PROVE  AgreeInv'
<1> DEFINE i == Group[skb[k].flow]
           s == SlotOf[skb[k].flow]
           e == skb[k].e
           x == [e EXCEPT !.state = "BIND"]
<1>1. /\ UNCHANGED <<groups, mtbl, raced>> /\ Finish(k) /\ skb[k].pc = "commit"
      /\ foe' = foe \/ foe' = [foe EXCEPT ![s] = x]
  BY DEF Commit, history
<1>2. /\ skb[k].flow \in Flows /\ i \in Ips /\ s \in Own(i) /\ s \in Slots /\ e \in Entry
      /\ foe \in [Slots -> Entry]
  <2>1. skb[k] \in Packet /\ skb[k].flow \in Flows /\ foe \in [Slots -> Entry]
    BY <1>1 DEF TypeInv, TypeOK, PacketsKnown
  <2> QED BY <2>1, Places DEF Packet, Own
<1>3. x.flow = e.flow /\ x.out = e.out
  BY <1>2 DEF Entry
<1>4. \A t \in Slots : t # s => foe'[t] = foe[t]
  BY <1>1, <1>2
<1>5. foe'[s] = foe[s] \/ foe'[s] = x
  BY <1>1, <1>2
<1>6. \A j \in Skbs : /\ skb'[j].pc = "commit" => skb'[j] = skb[j]
                      /\ skb'[j].e.out.tops => skb[j].e.out.tops
  BY <1>1, FinishFades
<1>7. i \notin raced => Agreed(i, s, e)
  BY <1>1 DEF AgreeInv, PreparedAgrees
<1>8. e.out.tops => MtkDsa
  BY DEF AgreeInv, RowInv, TopsTagged
<1> HIDE DEF i, s, e, x
<1>9. OwnSlots' /\ RowsHeld' /\ RowsApart'
  BY <1>1 DEF AgreeInv, RowInv, OwnSlots, RowsHeld, RowsApart, HasRow
<1>10. TopsTagged'
  BY <1>3, <1>4, <1>5, <1>6, <1>8 DEF AgreeInv, RowInv, TopsTagged
<1>11. BoundAgrees'
  <2> SUFFICES ASSUME NEW j \in Ips, j \notin raced', Owner(j)'
               PROVE  SendsOf(j, foe[groups[j].slot])'
    BY DEF BoundAgrees
  <2> DEFINE t == groups[j].slot
  <2>1. groups[j] # None /\ t # None /\ foe'[t].flow # None /\ j \notin raced /\ t' = t
    BY <1>1 DEF Owner
  <2>2. t \in Own(j) /\ t \in Slots
    BY <2>1, OwnFacts DEF AgreeInv, RowInv, OwnSlots
  <2>3. \/ foe'[t].out = foe[t].out /\ Owner(j)
        \/ t = s /\ foe'[s] = x
    <3>1. foe'[t] = foe[t] \/ (t = s /\ foe'[s] = x)
      BY <1>4, <1>5, <2>2
    <3>2. foe'[t] = foe[t] => Owner(j)
      BY <1>1 DEF Owner
    <3> QED BY <3>1, <3>2
  <2>4. CASE foe'[t].out = foe[t].out /\ Owner(j)
    <3>1. SendsOf(j, foe[t])
      BY <2>1, <2>4 DEF AgreeInv, BoundAgrees
    <3> QED BY <1>1, <2>1, <2>4, <3>1 DEF SendsOf, Sends
  <2>5. CASE t = s /\ foe'[s] = x
    <3>1. j = i
      BY <1>2, <2>2, <2>5, OwnFacts
    <3>2. SendsOf(j, e)
      BY <1>3, <1>7, <2>1, <2>5, <3>1 DEF Agreed
    <3> QED BY <1>1, <1>3, <2>1, <2>5, <3>2 DEF SendsOf, Sends
  <2> QED BY <2>3, <2>4, <2>5
<1>12. PreparedAgrees'
  BY <1>1, <1>6 DEF AgreeInv, PreparedAgrees, Agreed, SendsOf
<1> QED BY <1>9, <1>10, <1>11, <1>12 DEF AgreeInv, RowInv

LEMMA BindAgrees ==
  ASSUME Apart, TypeInv, TypeInv', AgreeInv, NEW k \in Skbs, BindHandle(k)
  PROVE  AgreeInv'
<1> DEFINE i == Group[skb[k].flow]
           s == SlotOf[skb[k].flow]
<1>1. skb[k] \in Packet /\ skb[k].pc = "bind" /\ skb \in [Skbs -> Packet]
  BY DEF BindHandle, TypeInv, TypeOK
<1>2. skb[k].flow \in Flows /\ i \in Ips /\ s \in Own(i) /\ s \in Slots
  <2>1. skb[k].flow \in Flows
    BY <1>1 DEF TypeInv, PacketsKnown
  <2> QED BY <2>1, Places DEF Own
<1>3. CASE ~toggle
  <2>1. /\ skb' = [skb EXCEPT ![k].pc = "commit"] /\ raced' = raced \cup {i}
        /\ UNCHANGED <<groups, mtbl, foe>>
    BY <1>3 DEF BindHandle, hw
  <2>2. skb'[k].flow = skb[k].flow /\ skb'[k].e = skb[k].e /\ \A j \in Skbs : j # k => skb'[j] = skb[j]
    BY <1>1, <2>1 DEF Packet
  <2>3. RowInv'
    BY <2>1, <2>2 DEF AgreeInv, RowInv, OwnSlots, RowsHeld, RowsApart, HasRow, TopsTagged
  <2>4. BoundAgrees'
    BY <2>1 DEF AgreeInv, BoundAgrees, Owner, SendsOf
  <2>5. PreparedAgrees'
    <3> SUFFICES ASSUME NEW j \in Skbs, skb'[j].pc = "commit", Group[skb'[j].flow] \notin raced'
                 PROVE  Agreed(Group[skb[j].flow], SlotOf[skb[j].flow], skb[j].e)'
      BY DEF PreparedAgrees
    <3>1. skb'[j] = skb[j] /\ Group[skb[j].flow] \notin raced
      BY <2>1, <2>2
    <3>2. Agreed(Group[skb[j].flow], SlotOf[skb[j].flow], skb[j].e)
      BY <3>1 DEF AgreeInv, PreparedAgrees
    <3> QED BY <2>1, <3>1, <3>2 DEF Agreed, SendsOf
  <2> QED BY <2>3, <2>4, <2>5 DEF AgreeInv
<1>4. CASE toggle /\ Refuses(groups[i])
  <2>1. Finish(k) /\ UNCHANGED <<groups, mtbl, foe, raced>>
    BY <1>4 DEF BindHandle, hw
  <2>2. Fading
    BY <2>1, FinishFades DEF Fading, SamePlace
  <2> QED BY <2>2, FadingAgrees
<1>5. CASE toggle /\ ~Refuses(groups[i])
  <2>1. PICK u \in Update, v \in Update :
          /\ groups[i] \in GroupRecord
          /\ u.g.row = groups[i].row /\ u.g.slot = s /\ u.e = skb[k].e
          /\ Bmp(groups[i]) # {} => Change(i, s, u, v)
          /\ Moved(i, s, u, v)
          /\ v.g.slot = None => v.deleted \/ v.e.flow = None
          /\ Stored(i, s, v.g, foe[s], v)
          /\ IF v.deleted \/ ~v.g.offload THEN Finish(k)
             ELSE skb' = [skb EXCEPT ![k].pc = "commit", ![k].e = v.e]
    BY <1>5, BindUpdate
  <2>2. IF Bmp(groups[i]) = {} \/ foe[s].state = "BIND" THEN raced' = raced \cup {i}
        ELSE Races({i}, {"commit"})
    BY <1>5 DEF BindHandle
  <2> DEFINE e == foe[s]
             y == skb[k].e
  <2>3. e \in Entry /\ (e.out.tops => MtkDsa) /\ (y.out.tops => MtkDsa)
    BY <1>2 DEF TypeInv, TypeOK, AgreeInv, RowInv, TopsTagged
  <2>4. /\ groups[i] # None /\ v.g # None /\ s # None
    BY <1>2, <2>1, NoneApart DEF Update
  <2>5. /\ skb' = [skb EXCEPT ![k].pc = "commit", ![k].e = v.e] =>
             skb'[k].flow = skb[k].flow /\ skb'[k].e = v.e
        /\ Finish(k) => skb'[k].pc = "idle" /\ ~skb'[k].e.out.tops
        /\ \A j \in Skbs : j # k => skb'[j] = skb[j]
    <3>1. IdleSkb.pc = "idle" /\ ~IdleSkb.e.out.tops
      BY DEF IdleSkb, Zero, Blank
    <3>2. v.e \in Entry
      BY DEF Update
    <3> QED BY <1>1, <2>1, <3>1, <3>2 DEF Finish, Packet
  <2> HIDE DEF i, s
  <2>6. /\ Fit(u) /\ Fit(v)
        /\ OwnSlots' /\ RowsHeld' /\ RowsApart'
        /\ \A t \in Slots : foe'[t].out.tops => MtkDsa
        /\ groups'[i] = v.g /\ mtbl'[Engine(i)] = v.rows
        /\ foe'[s] = IF v.deleted THEN [foe[s] EXCEPT !.state = "INVALID"] ELSE e
        /\ \A j \in Ips : j # i =>
             /\ groups'[j] = groups[j]
             /\ HasRow(j) => mtbl'[Engine(j)][groups[j].row] = mtbl[Engine(j)][groups[j].row]
        /\ \A t \in Slots : t # s => foe'[t] = foe[t]
    <3> HIDE DEF y
    <3>1. RowInv /\ v.g \in {v.g, None} /\ u.e = y
      BY <2>1 DEF AgreeInv, y
    <3> QED BY <1>2, <2>1, <2>3, <2>4, <3>1, MovedRows
  <2>7. OthersKeep(i, s)
    BY <2>6 DEF OthersKeep
  <2>8. TopsTagged'
    <3>1. v.e.out.tops => MtkDsa
      BY <2>6 DEF Fit
    <3>2. skb'[k].e.out.tops => MtkDsa
      BY <2>1, <2>5, <3>1
    <3> QED BY <2>5, <2>6, <3>2 DEF TopsTagged, AgreeInv, RowInv
  <2>9. /\ \A j \in Ips : j # i /\ j \notin raced' => j \notin raced
        /\ i \notin raced' => Bmp(groups[i]) # {} /\ foe[s].state # "BIND" /\ ~Under(i, {"commit"})
    BY <2>2 DEF Races
  <2>10. BoundAgrees'
    <3> SUFFICES ASSUME NEW j \in Ips, j \notin raced', Owner(j)'
                 PROVE  SendsOf(j, foe[groups[j].slot])'
      BY DEF BoundAgrees
    <3>1. CASE j # i
      BY <1>2, <2>7, <2>9, <3>1, OthersBound
    <3>2. CASE j = i
      <4>1. v.g.slot = s /\ foe'[s].state = "BIND"
        BY <2>1, <2>6, <3>2 DEF Owner, Moved, Handed
      <4>2. [foe[s] EXCEPT !.state = "INVALID"].state # "BIND"
        BY <2>3, InvalidEntry
      <4> QED BY <2>6, <2>9, <3>2, <4>1, <4>2
    <3> QED BY <3>1, <3>2
  <2>11. PreparedAgrees'
    <3> SUFFICES ASSUME NEW j \in Skbs, skb'[j].pc = "commit", Group[skb'[j].flow] \notin raced'
                 PROVE  Agreed(Group[skb[j].flow], SlotOf[skb[j].flow], skb[j].e)'
      BY DEF PreparedAgrees
    <3>1. CASE j # k
      <4>1. skb'[j] = skb[j]
        BY <2>5, <3>1
      <4>2. Group[skb[j].flow] \in Ips /\ Group[skb[j].flow] # i
        <5>1. skb[j].flow \in Flows
          BY <4>1 DEF TypeInv, PacketsKnown
        <5> QED BY <2>9, <4>1, <5>1, Places DEF Under
      <4> QED BY <1>2, <2>7, <2>9, <4>1, <4>2, OthersPrepared
    <3>2. CASE j = k
      <4>1. ~v.deleted /\ skb'[k].flow = skb[k].flow /\ skb'[k].e = v.e
        BY <2>1, <2>5, <3>2
      <4>2. Group[skb'[k].flow] = i /\ SlotOf[skb'[k].flow] = s
        BY <4>1 DEF i, s
      <4>3. i \notin raced'
        BY <3>2, <4>2
      <4>4. v.mac = MacOf[i] /\ v.g.slot \in {s, None}
            /\ (v.g.slot # None => Sends(v.g.row, v.g.bmp, v.mac, v.rows, v.e))
        BY <2>1, <2>6, <2>9, <4>3 DEF Change, Moved, Handed
      <4>5. v.e.flow # None => /\ groups'[i] # None /\ groups'[i].slot = s
                               /\ Sends(groups'[i].row, groups'[i].bmp, MacOf[i], mtbl'[Engine(i)], v.e)
        BY <2>1, <2>4, <2>6, <4>1, <4>4
      <4> QED BY <3>2, <4>1, <4>2, <4>5 DEF Agreed, SendsOf
    <3> QED BY <3>1, <3>2
  <2> QED BY <2>6, <2>8, <2>10, <2>11 DEF AgreeInv, RowInv
<1> QED BY <1>3, <1>4, <1>5

LEMMA AgreeStep == ASSUME Apart PROVE TypeInv /\ TypeInv' /\ AgreeInv /\ [Next]_vars => AgreeInv'
<1> SUFFICES ASSUME TypeInv, TypeInv', AgreeInv, [Next]_vars PROVE AgreeInv'
  OBVIOUS
<1>1. ASSUME NEW i \in Ips, BlistAdd(i)
      PROVE  Fading
  <2>1. Detach({i}) /\ UNCHANGED skb /\ Races({i}, {"commit"})
    BY <1>1 DEF BlistAdd
  <2>2. raced \subseteq raced' /\ \A j \in Ips : j \in {i} /\ Under(j, {"commit"}) => j \in raced'
    BY <2>1 DEF Races
  <2> QED BY <2>1, <2>2, DetachFading
<1>2. ASSUME OffloadGroups
      PROVE  Fading
  <2>1. CASE toggle
    BY <1>2, <2>1, StillFading DEF OffloadGroups, hw
  <2>2. CASE ~toggle
    <3>1. PICK is : Detach(is)
      BY <1>2, <2>2 DEF OffloadGroups
    <3>2. UNCHANGED skb /\ Races(Ips, {"commit"})
      BY <1>2, <2>2 DEF OffloadGroups
    <3>3. raced \subseteq raced' /\ \A j \in Ips : Under(j, {"commit"}) => j \in raced'
      BY <3>2 DEF Races
    <3> QED BY <3>1, <3>2, <3>3, DetachFading
  <2> QED BY <2>1, <2>2
<1>3. \/ Quiet \/ HandleMdb \/ PathSwitch \/ OffloadGroups \/ SerGroups \/ Disable
      \/ \E i \in Ips : IfDownGroup(i) \/ BlistAdd(i)
      \/ \E k \in Skbs : \/ \E f \in Flows, d \in Devs : Receive(k, f, d)
                         \/ ChkBlist(k) \/ BindHandle(k) \/ Commit(k)
  BY DEF Next, Quiet
<1> QED BY <1>1, <1>2, <1>3, QuietFading, ReceiveFading, ChkFading, SerFading, DisableFading,
           PathFading, FadingAgrees, HandleAgrees, IfDownAgrees, CommitAgrees, BindAgrees

LEMMA AgreeAlways == ASSUME Apart PROVE Spec => []AgreeInv
<1>1. Init => TypeInv /\ AgreeInv
  <2>1. Init => AgreeInv
    BY DEF Init, AgreeInv, RowInv, OwnSlots, RowsHeld, RowsApart, HasRow, TopsTagged, BoundAgrees,
           PreparedAgrees, Owner, Zero, Blank, IdleSkb
  <2> QED BY <2>1, FirstTypes
<1>2. TypeInv /\ AgreeInv /\ [Next]_vars => (TypeInv /\ AgreeInv)'
  BY TypeStep, AgreeStep
<1> QED BY <1>1, <1>2, PTL DEF Spec

(* The hardware copies to the ports that the group recorded (lines 660-672  *)
(* and 771-781 of hnat_mcast.c), when the flows of two groups never share   *)
(* an entry and those of one group go through one engine.                   *)
THEOREM EntriesAgree == ASSUME Apart PROVE Spec => []EntryAgrees
<1>1. AgreeInv => EntryAgrees
  <2> SUFFICES ASSUME AgreeInv, NEW i \in Ips, Owner(i), i \notin raced PROVE Forwards(i)
    BY DEF EntryAgrees
  <2>1. groups[i].slot \in Own(i)
    BY DEF Owner, AgreeInv, RowInv, OwnSlots
  <2>2. Engine(i) = PpeOf[groups[i].slot] /\ SendsOf(i, foe[groups[i].slot])
    BY <2>1, OwnFacts DEF AgreeInv, BoundAgrees
  <2> QED BY <2>2 DEF SendsOf, Sends, TableBmp, Forwards
<1> QED BY <1>1, AgreeAlways, PTL

(* Two groups of one engine never have the same row (lines 216-268 of       *)
(* hnat_mcast.c).                                                           *)
THEOREM RowsNeverShared == ASSUME Apart PROVE Spec => []RowsApart
<1>1. AgreeInv => RowsApart
  BY DEF AgreeInv, RowInv
<1> QED BY <1>1, AgreeAlways, PTL
-------------------------------------------------------------------------------
(***************************************************************************)
(* The members follow the bridge.                                          *)
(***************************************************************************)
Upto(q, x, n) == Cardinality({k \in 1 .. n : q[k] = x})

LEMMA UptoNat ==
  ASSUME NEW q, NEW x, NEW n \in Nat
  PROVE  Upto(q, x, n) \in Nat /\ IsFiniteSet({k \in 1 .. n : q[k] = x}) /\ Upto(q, x, 0) = 0
<1>1. IsFiniteSet(1 .. n) /\ {k \in 1 .. n : q[k] = x} \in SUBSET (1 .. n)
  BY FS_Interval
<1>2. {k \in 1 .. 0 : q[k] = x} = {}
  OBVIOUS
<1> QED BY <1>1, <1>2, FS_Subset, FS_CardinalityType, FS_EmptySet DEF Upto

LEMMA UptoNext ==
  ASSUME NEW q, NEW x, NEW n \in Nat
  PROVE  Upto(q, x, n + 1) = Upto(q, x, n) + (IF q[n + 1] = x THEN 1 ELSE 0)
<1> DEFINE S == {k \in 1 .. n : q[k] = x}
           T == {k \in 1 .. n + 1 : q[k] = x}
<1>1. IsFiniteSet(S) /\ n + 1 \notin S /\ Cardinality(S) \in Nat
  <2>1. IsFiniteSet(S) /\ Cardinality(S) \in Nat
    BY UptoNat DEF Upto
  <2> QED BY <2>1
<1>2. T = IF q[n + 1] = x THEN S \cup {n + 1} ELSE S
  OBVIOUS
<1> HIDE DEF S, T
<1>3. Cardinality(S \cup {n + 1}) = Cardinality(S) + 1
  BY <1>1, FS_AddElement
<1>4. Cardinality(T) = Cardinality(S) + (IF q[n + 1] = x THEN 1 ELSE 0)
  BY <1>1, <1>2, <1>3
<1> QED BY <1>4 DEF S, T, Upto

LEMMA UptoSame ==
  ASSUME NEW q, NEW r, NEW x, NEW n \in Nat, \A k \in 1 .. n : r[k] = q[k]
  PROVE  Upto(r, x, n) = Upto(q, x, n)
<1>1. {k \in 1 .. n : r[k] = x} = {k \in 1 .. n : q[k] = x}
  OBVIOUS
<1> QED BY <1>1 DEF Upto

(* A queue without its head.                                                *)
LEMMA UptoShift ==
  ASSUME NEW q, NEW r, NEW x, NEW n \in Nat, \A k \in 1 .. n : r[k] = q[k + 1]
  PROVE  Upto(q, x, n + 1) = Upto(r, x, n) + (IF q[1] = x THEN 1 ELSE 0)
<1> DEFINE S == {k \in 1 .. n : r[k] = x}
           T == {k \in 2 .. n + 1 : q[k] = x}
           U == {k \in 1 .. n + 1 : q[k] = x}
           f == [k \in S |-> k + 1]
<1>1. IsFiniteSet(S) /\ Cardinality(S) \in Nat
  BY UptoNat DEF Upto
<1>2. \A k \in S : k \in 1 .. n /\ q[k + 1] = x /\ k + 1 \in 2 .. n + 1
  OBVIOUS
<1>3. f \in [S -> T]
  BY <1>2
<1>4. \A a, b \in S : f[a] = f[b] => a = b
  BY <1>2
<1>5. \A t \in T : \E k \in S : f[k] = t
  <2> SUFFICES ASSUME NEW t \in T PROVE \E k \in S : f[k] = t
    OBVIOUS
  <2>1. t \in Int /\ 2 <= t /\ t <= n + 1 /\ q[t] = x
    OBVIOUS
  <2>2. t - 1 \in 1 .. n /\ (t - 1) + 1 = t
    BY <2>1
  <2>3. t - 1 \in S
    BY <2>1, <2>2
  <2>4. f[t - 1] = t
    BY <2>2, <2>3
  <2> QED BY <2>3, <2>4
<1>6. U = IF q[1] = x THEN T \cup {1} ELSE T
  <2>1. 1 .. n + 1 = (2 .. n + 1) \cup {1}
    OBVIOUS
  <2> QED BY <2>1
<1>7. 1 \notin T
  OBVIOUS
<1> HIDE DEF S, T, U, f
<1>8. ExistsBijection(S, T)
  BY <1>3, <1>4, <1>5, Zenon DEF ExistsBijection, Bijection, Injection, Surjection, IsInjective
<1>9. IsFiniteSet(T) /\ Cardinality(T) = Cardinality(S)
  BY <1>1, <1>8, FS_Bijection
<1>10. Cardinality(T \cup {1}) = Cardinality(T) + 1
  BY <1>7, <1>9, FS_AddElement
<1>11. Cardinality(U) = Cardinality(S) + (IF q[1] = x THEN 1 ELSE 0)
  BY <1>1, <1>6, <1>9, <1>10
<1> QED BY <1>11 DEF S, U, Upto

LEMMA AppendUpto ==
  ASSUME NEW q \in Seq(Message), NEW y \in Message, NEW x
  PROVE  LET r == Append(q, y) IN
         /\ Len(r) = Len(q) + 1 /\ Len(q) \in Nat
         /\ \A n \in 0 .. Len(q) : Upto(r, x, n) = Upto(q, x, n)
         /\ Upto(r, x, Len(r)) = Upto(q, x, Len(q)) + (IF y = x THEN 1 ELSE 0)
<1> DEFINE r == Append(q, y)
<1>1. /\ Len(r) = Len(q) + 1 /\ Len(q) \in Nat /\ r[Len(q) + 1] = y
      /\ \A k \in 1 .. Len(q) : r[k] = q[k]
  BY AppendProperties
<1> HIDE DEF r
<1>2. \A n \in 0 .. Len(q) : Upto(r, x, n) = Upto(q, x, n)
  BY <1>1, UptoSame
<1>3. Upto(r, x, Len(q) + 1) = Upto(r, x, Len(q)) + (IF y = x THEN 1 ELSE 0)
  BY <1>1, UptoNext
<1>4. Upto(r, x, Len(q)) = Upto(q, x, Len(q))
  BY <1>1, <1>2
<1> QED BY <1>1, <1>2, <1>3, <1>4 DEF r

LEMMA TailUpto ==
  ASSUME NEW q \in Seq(Message), q # << >>, NEW x
  PROVE  LET r == Tail(q) IN
         /\ Len(q) = Len(r) + 1 /\ Len(r) \in Nat
         /\ \A n \in 0 .. Len(r) : Upto(q, x, n + 1) = Upto(r, x, n) + (IF Head(q) = x THEN 1 ELSE 0)
<1> DEFINE r == Tail(q)
<1>1. r \in Seq(Message) /\ Len(r) = Len(q) - 1 /\ \A k \in 1 .. Len(r) : r[k] = q[k + 1]
  BY HeadTailProperties
<1>2. Len(q) \in Nat /\ Len(r) \in Nat /\ Head(q) = q[1]
  BY <1>1
<1> HIDE DEF r
<1>3. \A n \in 0 .. Len(r) : Upto(q, x, n + 1) = Upto(r, x, n) + (IF q[1] = x THEN 1 ELSE 0)
  <2> SUFFICES ASSUME NEW n \in 0 .. Len(r)
               PROVE  Upto(q, x, n + 1) = Upto(r, x, n) + (IF q[1] = x THEN 1 ELSE 0)
    OBVIOUS
  <2>1. n \in Nat /\ \A k \in 1 .. n : r[k] = q[k + 1]
    BY <1>1, <1>2
  <2> QED BY <2>1, UptoShift
<1> QED BY <1>1, <1>2, <1>3 DEF r

Mem(i, d) == IF groups[i] = None THEN 0 ELSE groups[i].members[d]

Joined(i, d) == Cardinality({j \in mdb : j.ip = i /\ j.dev = d})

Msg(type, i, d) == [type |-> type, ip |-> i, dev |-> d]

(* With what is queued the members are those of the bridge, and no message  *)
(* takes a member that is not there by then.                                *)
Even(i, d) ==
  Mem(i, d) + Upto(nlq, Msg("new", i, d), Len(nlq)) = Joined(i, d) + Upto(nlq, Msg("del", i, d), Len(nlq))

Paid(i, d) ==
  \A n \in 0 .. Len(nlq) :
    Upto(nlq, Msg("del", i, d), n) <= Mem(i, d) + Upto(nlq, Msg("new", i, d), n)

MembersInv ==
  /\ IsFiniteSet(mdb)
  /\ ~on => nlq = << >> /\ \A i \in Ips : groups[i] = None
  /\ ~lost => \A i \in Ips, d \in Devs : Even(i, d) /\ Paid(i, d)

LEMMA MemberTypes ==
  ASSUME TypeInv, IsFiniteSet(mdb), NEW i \in Ips, NEW d \in Devs
  PROVE  Mem(i, d) \in Nat /\ Joined(i, d) \in Nat /\ Len(nlq) \in Nat
<1>1. groups[i] \in GroupRecord \cup {None} /\ nlq \in Seq(Message)
  BY DEF TypeInv, TypeOK
<1>2. {j \in mdb : j.ip = i /\ j.dev = d} \in SUBSET mdb
  OBVIOUS
<1>3. Joined(i, d) \in Nat
  BY <1>2, FS_Subset, FS_CardinalityType DEF Joined
<1>4. Mem(i, d) \in Nat
  BY <1>1 DEF Mem, GroupRecord
<1> QED BY <1>1, <1>3, <1>4

LEMMA MsgEqual ==
  ASSUME NEW s, NEW i, NEW d, NEW t, NEW j, NEW e
  PROVE  Msg(s, i, d) = Msg(t, j, e) <=> s = t /\ i = j /\ d = e
<1>1. Msg(s, i, d).type = s /\ Msg(s, i, d).ip = i /\ Msg(s, i, d).dev = d
  BY DEF Msg
<1>2. Msg(t, j, e).type = t /\ Msg(t, j, e).ip = j /\ Msg(t, j, e).dev = e
  BY DEF Msg
<1> QED BY <1>1, <1>2

(* Steps that change neither members nor messages.                          *)
KeptMembers ==
  /\ UNCHANGED <<mdb, nlq, lost, on>>
  /\ \A i \in Ips : /\ groups'[i] = None <=> groups[i] = None
                    /\ groups[i] # None => groups'[i].members = groups[i].members

LEMMA KeptFollow ==
  ASSUME MembersInv, KeptMembers
  PROVE  MembersInv'
<1>1. UNCHANGED <<mdb, nlq, lost, on>>
  BY DEF KeptMembers
<1>2. \A i \in Ips, d \in Devs : Mem(i, d)' = Mem(i, d)
  BY DEF KeptMembers, Mem
<1>3. \A i \in Ips, d \in Devs : Even(i, d) /\ Paid(i, d) => Even(i, d)' /\ Paid(i, d)'
  BY <1>1, <1>2 DEF Even, Paid, Joined
<1> QED BY <1>1, <1>3 DEF MembersInv, KeptMembers

LEMMA JoinFollow ==
  ASSUME TypeInv, MembersInv, NEW j \in Joins, BridgeJoin(j)
  PROVE  MembersInv'
<1> DEFINE y == Msg("new", j.ip, j.dev)
<1>1. /\ j \notin mdb /\ mdb' = mdb \cup {j} /\ UNCHANGED <<groups, on>>
      /\ lost' \/ (on /\ nlq' = Append(nlq, y) /\ UNCHANGED lost)
      /\ on \/ UNCHANGED nlq
  BY DEF BridgeJoin, Announce, hw, control, Msg
<1>2. IsFiniteSet(mdb')
  BY <1>1, FS_AddElement DEF MembersInv
<1>3. ASSUME ~lost', NEW i \in Ips, NEW d \in Devs
      PROVE  Even(i, d)' /\ Paid(i, d)'
  <2>1. on /\ nlq' = Append(nlq, y) /\ Even(i, d) /\ Paid(i, d)
    BY <1>1, <1>3 DEF MembersInv
  <2>2. y \in Message /\ nlq \in Seq(Message)
    BY McastAssumption DEF Msg, Message, TypeInv, TypeOK
  <2> DEFINE S == {x \in mdb : x.ip = i /\ x.dev = d}
             T == {x \in mdb' : x.ip = i /\ x.dev = d}
             new == Msg("new", i, d)
             del == Msg("del", i, d)
             same == j.ip = i /\ j.dev = d
             N == Upto(nlq, new, Len(nlq))
             D == Upto(nlq, del, Len(nlq))
  <2>3. Joined(i, d)' = Joined(i, d) + (IF same THEN 1 ELSE 0)
    <3>0. Joined(i, d) = Cardinality(S) /\ Joined(i, d)' = Cardinality(T)
      BY DEF Joined
    <3>1. T = IF same THEN S \cup {j} ELSE S
      BY <1>1
    <3>2. IsFiniteSet(S) /\ j \notin S
      BY <1>1, FS_Subset DEF MembersInv
    <3> HIDE DEF S, T
    <3>3. Cardinality(S \cup {j}) = Cardinality(S) + 1
      BY <3>2, FS_AddElement
    <3>4. Cardinality(S) \in Nat
      BY <3>2, FS_CardinalityType
    <3> QED BY <3>0, <3>1, <3>3, <3>4
  <2>4. (y = new <=> same) /\ y # del
    BY MsgEqual
  <2> HIDE DEF y, new, del, same
  <2>5. /\ Len(nlq') = Len(nlq) + 1 /\ Len(nlq) \in Nat
        /\ \A n \in 0 .. Len(nlq) : Upto(nlq', new, n) = Upto(nlq, new, n) /\ Upto(nlq', del, n) = Upto(nlq, del, n)
        /\ Upto(nlq', new, Len(nlq')) = N + (IF same THEN 1 ELSE 0)
        /\ Upto(nlq', del, Len(nlq')) = D
    <3>1. Len(nlq) \in Nat
      BY <2>2
    <3>2. D \in Nat
      BY <3>1, UptoNat
    <3> QED BY <2>1, <2>2, <2>4, <3>2, AppendUpto
  <2>6. N \in Nat /\ D \in Nat /\ Mem(i, d) \in Nat /\ Joined(i, d) \in Nat
    BY <2>5, UptoNat, MemberTypes DEF MembersInv
  <2>7. Mem(i, d) + N = Joined(i, d) + D
    BY <2>1 DEF Even, new, del
  <2>8. Mem(i, d)' = Mem(i, d)
    BY <1>1 DEF Mem
  <2>9. Even(i, d)'
    <3>1. Mem(i, d) + Upto(nlq', new, Len(nlq')) = Joined(i, d)' + Upto(nlq', del, Len(nlq'))
      BY <2>3, <2>5, <2>6, <2>7
    <3> QED BY <2>8, <3>1 DEF Even, new, del
  <2>10. Paid(i, d)'
    <3>1. ASSUME NEW n \in 0 .. Len(nlq')
          PROVE  Upto(nlq', del, n) <= Mem(i, d) + Upto(nlq', new, n)
      <4>1. CASE n = Len(nlq')
        <5>1. D <= Mem(i, d) + N
          BY <2>6, <2>7
        <5> QED BY <2>5, <2>6, <4>1, <5>1
      <4>2. CASE n # Len(nlq')
        <5>1. n \in 0 .. Len(nlq)
          BY <2>5, <4>2
        <5>2. Upto(nlq, del, n) <= Mem(i, d) + Upto(nlq, new, n)
          BY <2>1, <5>1 DEF Paid, new, del
        <5> QED BY <2>5, <5>1, <5>2
      <4> QED BY <4>1, <4>2
    <3> QED BY <2>8, <3>1 DEF Paid, new, del
  <2> QED BY <2>9, <2>10
<1>4. ~on' => nlq' = << >> /\ \A i \in Ips : groups'[i] = None
  BY <1>1 DEF MembersInv
<1> QED BY <1>2, <1>3, <1>4 DEF MembersInv

LEMMA LeaveFollow ==
  ASSUME TypeInv, MembersInv, NEW j \in Joins, BridgeLeave(j)
  PROVE  MembersInv'
<1> DEFINE y == Msg("del", j.ip, j.dev)
<1>1. /\ j \in mdb /\ mdb' = mdb \ {j} /\ UNCHANGED <<groups, on>>
      /\ lost' \/ (on /\ nlq' = Append(nlq, y) /\ UNCHANGED lost)
      /\ on \/ UNCHANGED nlq
  BY DEF BridgeLeave, Announce, hw, control, Msg
<1>2. IsFiniteSet(mdb')
  BY <1>1, FS_RemoveElement DEF MembersInv
<1>3. ASSUME ~lost', NEW i \in Ips, NEW d \in Devs
      PROVE  Even(i, d)' /\ Paid(i, d)'
  <2>1. on /\ nlq' = Append(nlq, y) /\ Even(i, d) /\ Paid(i, d)
    BY <1>1, <1>3 DEF MembersInv
  <2>2. y \in Message /\ nlq \in Seq(Message)
    BY McastAssumption DEF Msg, Message, TypeInv, TypeOK
  <2> DEFINE S == {x \in mdb : x.ip = i /\ x.dev = d}
             T == {x \in mdb' : x.ip = i /\ x.dev = d}
             new == Msg("new", i, d)
             del == Msg("del", i, d)
             same == j.ip = i /\ j.dev = d
             N == Upto(nlq, new, Len(nlq))
             D == Upto(nlq, del, Len(nlq))
  <2>3. /\ Joined(i, d)' = Joined(i, d) - (IF same THEN 1 ELSE 0)
        /\ Joined(i, d)' \in Nat
    <3>0. Joined(i, d) = Cardinality(S) /\ Joined(i, d)' = Cardinality(T)
      BY DEF Joined
    <3>1. T = IF same THEN S \ {j} ELSE S
      BY <1>1
    <3>2. IsFiniteSet(S) /\ (same => j \in S) /\ IsFiniteSet(T)
      BY <1>1, <1>2, FS_Subset DEF MembersInv
    <3> HIDE DEF S, T
    <3>3. same => Cardinality(S \ {j}) = Cardinality(S) - 1
      BY <3>2, FS_RemoveElement
    <3>4. Cardinality(S) \in Nat /\ Cardinality(T) \in Nat
      BY <3>2, FS_CardinalityType
    <3> QED BY <3>0, <3>1, <3>3, <3>4
  <2>4. (y = del <=> same) /\ y # new
    BY MsgEqual
  <2> HIDE DEF y, new, del, same
  <2>5. /\ Len(nlq') = Len(nlq) + 1 /\ Len(nlq) \in Nat
        /\ \A n \in 0 .. Len(nlq) : Upto(nlq', new, n) = Upto(nlq, new, n) /\ Upto(nlq', del, n) = Upto(nlq, del, n)
        /\ Upto(nlq', new, Len(nlq')) = N
        /\ Upto(nlq', del, Len(nlq')) = D + (IF same THEN 1 ELSE 0)
    <3>1. Len(nlq) \in Nat
      BY <2>2
    <3>2. N \in Nat
      BY <3>1, UptoNat
    <3> QED BY <2>1, <2>2, <2>4, <3>2, AppendUpto
  <2>6. N \in Nat /\ D \in Nat /\ Mem(i, d) \in Nat /\ Joined(i, d) \in Nat
    BY <2>5, UptoNat, MemberTypes DEF MembersInv
  <2>7. Mem(i, d) + N = Joined(i, d) + D
    BY <2>1 DEF Even, new, del
  <2>8. Mem(i, d)' = Mem(i, d)
    BY <1>1 DEF Mem
  <2>9. Even(i, d)'
    <3>1. Mem(i, d) + Upto(nlq', new, Len(nlq')) = Joined(i, d)' + Upto(nlq', del, Len(nlq'))
      BY <2>3, <2>5, <2>6, <2>7
    <3> QED BY <2>8, <3>1 DEF Even, new, del
  <2>10. Paid(i, d)'
    <3>1. ASSUME NEW n \in 0 .. Len(nlq')
          PROVE  Upto(nlq', del, n) <= Mem(i, d) + Upto(nlq', new, n)
      <4>1. CASE n = Len(nlq')
        <5>1. D + (IF same THEN 1 ELSE 0) <= Mem(i, d) + N
          BY <2>3, <2>6, <2>7
        <5> QED BY <2>5, <2>6, <4>1, <5>1
      <4>2. CASE n # Len(nlq')
        <5>1. n \in 0 .. Len(nlq)
          BY <2>5, <4>2
        <5>2. Upto(nlq, del, n) <= Mem(i, d) + Upto(nlq, new, n)
          BY <2>1, <5>1 DEF Paid, new, del
        <5> QED BY <2>5, <5>1, <5>2
      <4> QED BY <4>1, <4>2
    <3> QED BY <2>8, <3>1 DEF Paid, new, del
  <2> QED BY <2>9, <2>10
<1>4. ~on' => nlq' = << >> /\ \A i \in Ips : groups'[i] = None
  BY <1>1 DEF MembersInv
<1> QED BY <1>2, <1>3, <1>4 DEF MembersInv

LEMMA HandleFollow ==
  ASSUME TypeInv, MembersInv, HandleMdb
  PROVE  MembersInv'
<1> DEFINE m == Head(nlq)
           g0 == IF groups[m.ip] = None THEN NewGroup ELSE groups[m.ip]
           g == WithMember(g0, m)
<1>1. /\ m \in Message /\ m.ip \in Ips /\ g \in GroupRecord
      /\ groups[m.ip] = None => g.slot = None /\ g.row = None
      /\ groups[m.ip] # None => g.slot = groups[m.ip].slot /\ g.row = groups[m.ip].row
  BY HandleGroup DEF HandleMdb
<1>2. \A d \in Devs : g.members[d] =
        IF d # m.dev THEN Mem(m.ip, d)
        ELSE IF m.type = "new" THEN Mem(m.ip, d) + 1
        ELSE IF Mem(m.ip, d) > 0 THEN Mem(m.ip, d) - 1 ELSE 0
  <2>1. g0 \in GroupRecord
    BY <1>1, NewGroupType DEF TypeInv, TypeOK
  <2>2. \A d \in Devs : g0.members[d] = Mem(m.ip, d)
    BY DEF Mem, NewGroup
  <2> HIDE DEF m, g0
  <2>3. g.members = [g0.members EXCEPT ![m.dev] =
              IF m.type = "new" THEN @ + 1 ELSE IF @ > 0 THEN @ - 1 ELSE 0]
    BY <1>1, <2>1, WithMemberType
  <2>4. g0.members \in [Devs -> Nat] /\ m.dev \in Devs
    BY <1>1, <2>1 DEF GroupRecord, Message
  <2> HIDE DEF g
  <2> QED BY <2>2, <2>3, <2>4
<1>3. /\ nlq # << >> /\ nlq' = Tail(nlq) /\ UNCHANGED <<mdb, on>>
      /\ \/ lost'
         \/ /\ IF toggle /\ g.slot # None THEN EventHw(m.ip, g, m)
               ELSE groups' = [groups EXCEPT ![m.ip] = Kept(g)]
            /\ UNCHANGED lost
  BY DEF HandleMdb, control
<1>4. nlq \in Seq(Message) /\ groups \in [Ips -> GroupRecord \cup {None}]
  BY DEF TypeInv, TypeOK
<1>5. m \in {Msg(t, m.ip, m.dev) : t \in {"new", "del"}}
  <2> HIDE DEF m
  <2> QED BY <1>1 DEF Message, Msg
<1> HIDE DEF m, g
<1>6. ASSUME ~lost'
      PROVE  \A i \in Ips, d \in Devs : Mem(i, d)' = IF i = m.ip THEN g.members[d] ELSE Mem(i, d)
  <2>1. \E x \in GroupRecord \cup {None} :
          /\ groups' = [groups EXCEPT ![m.ip] = x]
          /\ x = None => Members(g) = {}
          /\ x # None => x.members = g.members
    <3>1. CASE toggle /\ g.slot # None
      <4>1. HwType /\ npu \in BOOLEAN /\ groups[m.ip] # None /\ EventHw(m.ip, g, m)
        BY <1>1, <1>3, <1>6, <3>1, TypeParts DEF TypeInv, RestType
      <4>2. PICK u \in Update, v \in Update :
              /\ u.g = g /\ Change(m.ip, g.slot, u, v)
              /\ Stored(m.ip, g.slot, Kept(v.g), v.e, v)
        BY <1>1, <3>1, <4>1, EventHwUpdate
      <4>3. v.g.members = g.members /\ v.g \in GroupRecord /\ v.g # None
        BY <4>2, NoneApart DEF Change, Moved, Handed, Update
      <4>4. Members(v.g) = Members(g)
        BY <4>3 DEF Members
      <4> QED BY <4>2, <4>3, <4>4 DEF Stored, Kept
    <3>2. CASE ~(toggle /\ g.slot # None)
      <4>1. groups' = [groups EXCEPT ![m.ip] = Kept(g)] /\ g # None
        BY <1>1, <1>3, <1>6, <3>2, NoneApart
      <4> QED BY <1>1, <4>1 DEF Kept
    <3> QED BY <3>1, <3>2
  <2>2. PICK x \in GroupRecord \cup {None} :
          /\ groups' = [groups EXCEPT ![m.ip] = x]
          /\ x = None => Members(g) = {}
          /\ x # None => x.members = g.members
    BY <2>1
  <2>3. \A i \in Ips : groups'[i] = IF i = m.ip THEN x ELSE groups[i]
    BY <1>4, <2>2
  <2>4. \A d \in Devs : Members(g) = {} => g.members[d] = 0
    BY <1>1 DEF Members, GroupRecord
  <2> QED BY <1>1, <2>2, <2>3, <2>4 DEF Mem
<1>7. ASSUME ~lost', NEW i \in Ips, NEW d \in Devs
      PROVE  Even(i, d)' /\ Paid(i, d)'
  <2>1. Even(i, d) /\ Paid(i, d)
    BY <1>3, <1>7 DEF MembersInv
  <2> DEFINE new == Msg("new", i, d)
             del == Msg("del", i, d)
             A == IF m = new THEN 1 ELSE 0
             B == IF m = del THEN 1 ELSE 0
  <2>2. /\ Len(nlq) = Len(nlq') + 1 /\ Len(nlq') \in Nat
        /\ \A n \in 0 .. Len(nlq') : /\ Upto(nlq, new, n + 1) = Upto(nlq', new, n) + A
                                     /\ Upto(nlq, del, n + 1) = Upto(nlq', del, n) + B
    <3> HIDE DEF new, del
    <3> QED BY <1>3, <1>4, TailUpto DEF m
  <2>3. m = new <=> m.ip = i /\ m.dev = d /\ m.type = "new"
    BY <1>5, MsgEqual DEF Msg
  <2>4. m = del <=> m.ip = i /\ m.dev = d /\ m.type = "del"
    BY <1>5, MsgEqual DEF Msg
  <2>5. m.type \in {"new", "del"}
    BY <1>1 DEF Message
  <2> HIDE DEF new, del
  <2>6. \A n \in Nat : /\ Upto(nlq, new, n) \in Nat /\ Upto(nlq, del, n) \in Nat
                       /\ Upto(nlq', new, n) \in Nat /\ Upto(nlq', del, n) \in Nat
    BY UptoNat
  <2>7. Mem(i, d) \in Nat /\ Joined(i, d) \in Nat
    BY MemberTypes DEF MembersInv
  <2>8. Upto(nlq, del, 1) <= Mem(i, d) + Upto(nlq, new, 1)
    BY <2>1, <2>2 DEF Paid, new, del
  <2>9. Upto(nlq, new, 1) = A /\ Upto(nlq, del, 1) = B
    <3>1. Upto(nlq', new, 0) = 0 /\ Upto(nlq', del, 0) = 0
      BY UptoNat
    <3>2. 0 \in 0 .. Len(nlq') /\ 0 + 1 = 1
      BY <2>2
    <3> QED BY <2>2, <3>1, <3>2
  <2>10. Mem(i, d)' + B = Mem(i, d) + A
    <3>1. Mem(i, d)' = IF i = m.ip THEN g.members[d] ELSE Mem(i, d)
      BY <1>6, <1>7
    <3>2. CASE i # m.ip \/ d # m.dev
      <4>1. m # new /\ m # del
        BY <2>3, <2>4, <3>2
      <4>2. Mem(i, d)' = Mem(i, d)
        BY <1>2, <3>1, <3>2
      <4> QED BY <2>7, <4>1, <4>2
    <3>3. CASE i = m.ip /\ d = m.dev /\ m.type = "new"
      <4>1. m = new /\ m # del
        BY <2>3, <2>4, <3>3
      <4>2. Mem(i, d)' = Mem(i, d) + 1
        BY <1>2, <3>1, <3>3
      <4> QED BY <2>7, <4>1, <4>2
    <3>4. CASE i = m.ip /\ d = m.dev /\ m.type = "del"
      <4>1. m # new /\ m = del
        BY <2>3, <2>4, <3>4
      <4>2. Mem(i, d) > 0
        BY <2>7, <2>8, <2>9, <4>1
      <4>3. Mem(i, d)' = Mem(i, d) - 1
        BY <1>2, <3>1, <3>4, <4>2
      <4> QED BY <2>7, <4>1, <4>3
    <3> QED BY <2>5, <3>2, <3>3, <3>4
  <2>11. Mem(i, d)' \in Nat
    <3>1. TypeInv' /\ IsFiniteSet(mdb')
      BY <1>3, HandleTypes DEF MembersInv
    <3>2. groups'[i] \in GroupRecord \cup {None}
      BY <3>1 DEF TypeInv, TypeOK
    <3> QED BY <3>2 DEF Mem, GroupRecord
  <2> HIDE DEF A, B
  <2>12. A \in Nat /\ B \in Nat
    BY DEF A, B
  <2>13. Even(i, d)'
    <3>1. Mem(i, d) + Upto(nlq, new, Len(nlq)) = Joined(i, d) + Upto(nlq, del, Len(nlq))
      BY <2>1 DEF Even, new, del
    <3>2. Mem(i, d)' + Upto(nlq', new, Len(nlq')) = Joined(i, d) + Upto(nlq', del, Len(nlq'))
      <4>1. /\ Upto(nlq, new, Len(nlq)) = Upto(nlq', new, Len(nlq')) + A
            /\ Upto(nlq, del, Len(nlq)) = Upto(nlq', del, Len(nlq')) + B
        BY <2>2
      <4>2. Upto(nlq', new, Len(nlq')) \in Nat /\ Upto(nlq', del, Len(nlq')) \in Nat
        BY <2>2, <2>6
      <4>3. Mem(i, d) + (Upto(nlq', new, Len(nlq')) + A) = Joined(i, d) + (Upto(nlq', del, Len(nlq')) + B)
        BY <3>1, <4>1
      <4> DEFINE N == Upto(nlq', new, Len(nlq'))
                 D == Upto(nlq', del, Len(nlq'))
                 M == Mem(i, d)
                 J == Joined(i, d)
                 M2 == Mem(i, d)'
      <4>4. N \in Nat /\ D \in Nat /\ M \in Nat /\ J \in Nat /\ M2 \in Nat
        BY <2>7, <2>11, <4>2
      <4>5. M + (N + A) = J + (D + B) /\ M2 + B = M + A
        BY <2>10, <4>3
      <4> HIDE DEF N, D, M, J, M2
      <4>6. M2 + N = J + D
        BY <2>12, <4>4, <4>5
      <4> QED BY <4>6 DEF N, D, M, J, M2
    <3>3. Joined(i, d)' = Joined(i, d)
      BY <1>3 DEF Joined
    <3> QED BY <3>2, <3>3 DEF Even, new, del
  <2>14. Paid(i, d)'
    <3>1. ASSUME NEW n \in 0 .. Len(nlq')
          PROVE  Upto(nlq', del, n) <= Mem(i, d)' + Upto(nlq', new, n)
      <4>1. n + 1 \in 0 .. Len(nlq) /\ n \in Nat
        BY <2>2
      <4>2. Upto(nlq, del, n + 1) <= Mem(i, d) + Upto(nlq, new, n + 1)
        BY <2>1, <4>1 DEF Paid, new, del
      <4>3. /\ Upto(nlq, new, n + 1) = Upto(nlq', new, n) + A
            /\ Upto(nlq, del, n + 1) = Upto(nlq', del, n) + B
        BY <2>2
      <4>4. Upto(nlq', new, n) \in Nat /\ Upto(nlq', del, n) \in Nat
        BY <2>6, <4>1
      <4> QED BY <2>7, <2>10, <2>11, <2>12, <4>2, <4>3, <4>4
    <3> QED BY <3>1 DEF Paid, new, del
  <2> QED BY <2>13, <2>14
<1>8. on' /\ IsFiniteSet(mdb')
  BY <1>3 DEF MembersInv
<1> QED BY <1>7, <1>8 DEF MembersInv

(* The driver comes and goes.                                               *)
LEMMA EmptyFollow ==
  ASSUME MembersInv, UNCHANGED mdb, nlq' = << >>, \A i \in Ips : groups'[i] = None, lost' = (mdb # {})
  PROVE  MembersInv'
<1>1. ASSUME ~lost', NEW i \in Ips, NEW d \in Devs
      PROVE  Even(i, d)' /\ Paid(i, d)'
  <2>1. Mem(i, d)' = 0 /\ Len(nlq') = 0
    BY DEF Mem
  <2>2. \A x : Upto(nlq', x, 0) = 0
    BY UptoNat
  <2>3. Joined(i, d)' = 0
    <3>1. {j \in mdb' : j.ip = i /\ j.dev = d} = {}
      BY <1>1
    <3> QED BY <3>1, FS_EmptySet DEF Joined
  <2>4. Even(i, d)'
    BY <2>1, <2>2, <2>3 DEF Even
  <2>5. Paid(i, d)'
    <3>1. ASSUME NEW n \in 0 .. Len(nlq')
          PROVE  Upto(nlq', Msg("del", i, d), n) <= Mem(i, d)' + Upto(nlq', Msg("new", i, d), n)
      <4>1. n = 0
        BY <2>1
      <4> QED BY <2>1, <2>2, <4>1
    <3> QED BY <3>1 DEF Paid
  <2> QED BY <2>4, <2>5
<1> QED BY <1>1 DEF MembersInv

LEMMA QuietKept ==
  ASSUME TypeInv, Quiet, ~\E j \in Joins : BridgeJoin(j) \/ BridgeLeave(j), ~Enable
  PROVE  KeptMembers
<1>1. UNCHANGED groups
  BY QuietTaken
<1>2. UNCHANGED <<mdb, nlq, lost, on>>
  <2>1. CASE WorkStart \/ WorkDrained \/ WorkEnd \/ NpuChange \/ SerClear \/ IfDownEnd \/ IfDownFlush \/ UNCHANGED vars
    BY <2>1 DEF WorkStart, WorkDrained, WorkEnd, NpuChange, SerClear, IfDownEnd, IfDownFlush, vars, bridge, devices, control
  <2>2. CASE \/ \E f \in Flows : HwLearn(f)
             \/ \E s \in Slots : HwAge(s)
             \/ \E d \in Devs : IfDownStart(d) \/ IfUp(d)
    BY <2>2 DEF HwLearn, HwAge, IfDownStart, IfUp, bridge, devices, control
  <2>3. CASE \/ \E i \in Ips : BlistWrite(i)
             \/ \E i \in Ips, hw_path \in BOOLEAN : PathFind(i, hw_path)
             \/ \E b \in blist : BlistDel(b)
             \/ \E enable \in BOOLEAN : Toggle(enable)
    BY <2>3 DEF BlistWrite, PathFind, BlistDel, Toggle, bridge, devices, control
  <2> QED BY <2>1, <2>2, <2>3 DEF Quiet
<1> QED BY <1>1, <1>2 DEF KeptMembers

LEMMA DetachKept ==
  ASSUME TypeInv, NEW is, Detach(is), UNCHANGED <<mdb, nlq, lost, on>>
  PROVE  KeptMembers
<1>1. \A i \in Ips : groups[i] \in GroupRecord \cup {None}
  BY DEF TypeInv, TypeOK
<1>2. \A i \in Ips : groups'[i] \in {groups[i], Detached(groups[i])}
  BY DEF Detach
<1> QED BY <1>1, <1>2, DetachedType DEF KeptMembers

LEMMA BindKept ==
  ASSUME TypeInv, NEW k \in Skbs, BindHandle(k)
  PROVE  KeptMembers
<1> DEFINE i == Group[skb[k].flow]
<1>1. UNCHANGED <<mdb, nlq, lost, on>>
  BY DEF BindHandle, bridge, devices, control
<1>2. CASE ~toggle \/ Refuses(groups[i])
  <2>1. UNCHANGED groups
    BY <1>2 DEF BindHandle, hw
  <2> QED BY <1>1, <2>1 DEF KeptMembers
<1>3. CASE toggle /\ ~Refuses(groups[i])
  <2>1. PICK u \in Update, v \in Update :
          /\ i \in Ips /\ groups[i] \in GroupRecord /\ u.g.members = groups[i].members
          /\ Moved(i, SlotOf[skb[k].flow], u, v)
          /\ Stored(i, SlotOf[skb[k].flow], v.g, foe[SlotOf[skb[k].flow]], v)
    BY <1>3, BindUpdate
  <2>2. v.g.members = groups[i].members /\ v.g # None /\ groups[i] # None
    BY <2>1, NoneApart DEF Moved, Handed, Update
  <2>3. \A j \in Ips : groups'[j] = IF j = i THEN v.g ELSE groups[j]
    BY <2>1 DEF Stored, TypeInv, TypeOK
  <2> QED BY <1>1, <2>2, <2>3 DEF KeptMembers
<1> QED BY <1>2, <1>3

LEMMA IfDownKept ==
  ASSUME TypeInv, NEW i \in Ips, IfDownGroup(i)
  PROVE  KeptMembers
<1>1. UNCHANGED <<mdb, nlq, lost, on>>
  BY DEF IfDownGroup, bridge, devices, control
<1>2. CASE Leaves(groups[i], mcast_lock.dev)
  BY <1>1, <1>2 DEF IfDownGroup, hw, KeptMembers
<1>3. CASE ~Leaves(groups[i], mcast_lock.dev)
  <2>1. PICK u \in Update, v \in Update :
          u.g = groups[i] /\ Change(i, u.g.slot, u, v) /\ Stored(i, u.g.slot, v.g, v.e, v)
    BY <1>3, IfDownUpdate
  <2>2. v.g.members = groups[i].members /\ v.g # None /\ groups[i] # None
    BY <2>1, NoneApart DEF Change, Moved, Handed, Update
  <2>3. \A j \in Ips : groups'[j] = IF j = i THEN v.g ELSE groups[j]
    BY <2>1 DEF Stored, TypeInv, TypeOK
  <2> QED BY <1>1, <2>2, <2>3 DEF KeptMembers
<1> QED BY <1>2, <1>3

LEMMA PathKept ==
  ASSUME TypeInv, PathSwitch
  PROVE  KeptMembers
<1> DEFINE i == walker.ip
           g == [groups[i] EXCEPT !.offload = walker.hw_path]
<1>1. UNCHANGED <<mdb, nlq, lost, on>> /\ walker # None
      /\ \/ walker.freed /\ UNCHANGED groups
         \/ ~walker.freed /\ groups' = [groups EXCEPT ![i] = g]
         \/ ~walker.freed /\ groups' = [groups EXCEPT ![i] = Detached(g)]
  BY DEF PathSwitch, hw, bridge, devices, control
<1>2. CASE walker.freed
  BY <1>1, <1>2 DEF KeptMembers
<1>3. CASE ~walker.freed
  <2>1. i \in Ips /\ walker.hw_path \in BOOLEAN /\ groups[i] \in GroupRecord /\ groups[i] # None
    BY <1>1, <1>3 DEF TypeInv, TypeOK, WalksLive
  <2>2. /\ g # None /\ g.members = groups[i].members
        /\ Detached(g) # None /\ Detached(g).members = groups[i].members
    BY <2>1, OffloadType
  <2> HIDE DEF g
  <2>3. \E x \in {g, Detached(g)} : groups' = [groups EXCEPT ![i] = x]
    BY <1>1, <1>3
  <2>4. \E x \in {g, Detached(g)} : \A j \in Ips : groups'[j] = IF j = i THEN x ELSE groups[j]
    BY <2>3 DEF TypeInv, TypeOK
  <2> QED BY <1>1, <2>1, <2>2, <2>4 DEF KeptMembers
<1> QED BY <1>2, <1>3

LEMMA SerKept ==
  ASSUME TypeInv, SerGroups
  PROVE  KeptMembers
<1>1. UNCHANGED <<mdb, nlq, lost, on>>
  BY DEF SerGroups, bridge, devices
<1>2. ASSUME NEW i \in Ips
      PROVE  /\ groups'[i] = None <=> groups[i] = None
             /\ groups[i] # None => groups'[i].members = groups[i].members
  <2>1. groups'[i] = IF groups[i] = None THEN None ELSE [Detached(groups[i]) EXCEPT !.row = None]
    BY DEF SerGroups
  <2>2. CASE groups[i] = None
    BY <2>1, <2>2
  <2>3. CASE groups[i] # None
    <3> DEFINE g == Detached(groups[i])
    <3>1. groups[i] \in GroupRecord \cup {None}
      BY DEF TypeInv, TypeOK
    <3>2. g \in GroupRecord /\ g.members = groups[i].members
      BY <2>3, <3>1, DetachedType
    <3> DEFINE x == [g EXCEPT !.row = None]
    <3>3. groups'[i] = x
      BY <2>1, <2>3
    <3> HIDE DEF g
    <3>4. x \in GroupRecord /\ x.members = g.members
      BY <3>2, SetRow
    <3> HIDE DEF x
    <3> QED BY <2>3, <3>2, <3>3, <3>4, NoneApart
  <2> QED BY <2>2, <2>3
<1> QED BY <1>1, <1>2 DEF KeptMembers

LEMMA MembersStep == TypeInv /\ MembersInv /\ [Next]_vars => MembersInv'
<1> SUFFICES ASSUME TypeInv, MembersInv, [Next]_vars PROVE MembersInv'
  OBVIOUS
<1>1. CASE Quiet
  <2>1. ASSUME Enable
        PROVE  MembersInv'
    <3>1. /\ UNCHANGED <<mdb, groups, nlq>> /\ ~on /\ lost' = (mdb # {})
      BY <2>1 DEF Enable, hw
    <3> QED BY <3>1, EmptyFollow DEF MembersInv
  <2> QED BY <1>1, <2>1, JoinFollow, LeaveFollow, QuietKept, KeptFollow
<1>2. CASE Disable
  <2>1. /\ UNCHANGED mdb /\ nlq' = << >> /\ lost' = (mdb # {}) /\ \A i \in Ips : groups'[i] = None
    BY <1>2 DEF Disable
  <2> QED BY <2>1, EmptyFollow
<1>3. ASSUME NEW i \in Ips, BlistAdd(i)
      PROVE  KeptMembers
  BY <1>3, DetachKept DEF BlistAdd, bridge, devices
<1>4. ASSUME OffloadGroups
      PROVE  KeptMembers
  <2>1. UNCHANGED <<mdb, nlq, lost, on>> /\ (UNCHANGED groups \/ \E is : Detach(is))
    BY <1>4 DEF OffloadGroups, bridge, devices, hw
  <2> QED BY <2>1, DetachKept DEF KeptMembers
<1>5. ASSUME NEW k \in Skbs, NEW f \in Flows, NEW d \in Devs, Receive(k, f, d)
      PROVE  KeptMembers
  BY <1>5 DEF Receive, bridge, devices, hw, control, KeptMembers
<1>6. ASSUME NEW k \in Skbs, ChkBlist(k) \/ Commit(k)
      PROVE  KeptMembers
  BY <1>6 DEF ChkBlist, Commit, bridge, devices, hw, control, KeptMembers
<1>7. \/ Quiet \/ HandleMdb \/ PathSwitch \/ OffloadGroups \/ SerGroups \/ Disable
      \/ \E i \in Ips : IfDownGroup(i) \/ BlistAdd(i)
      \/ \E k \in Skbs : \/ \E f \in Flows, d \in Devs : Receive(k, f, d)
                         \/ ChkBlist(k) \/ BindHandle(k) \/ Commit(k)
  BY DEF Next, Quiet
<1> QED BY <1>1, <1>2, <1>3, <1>4, <1>5, <1>6, <1>7, HandleFollow, BindKept, IfDownKept, PathKept,
           SerKept, KeptFollow

(* As long as no message is missed, the members of a group are those of the *)
(* bridge once the queue is worked off (lines 1084-1093 of hnat_mcast.c).   *)
THEOREM MembersKept == Spec => []MembersFollow
<1>1. Init => TypeInv /\ MembersInv
  <2>1. ASSUME Init
        PROVE  MembersInv
    <3>1. IsFiniteSet(mdb) /\ nlq = << >> /\ Len(nlq) = 0 /\ \A i \in Ips : groups[i] = None
      BY <2>1, FS_EmptySet DEF Init
    <3>2. \A x : Upto(nlq, x, 0) = 0
      BY UptoNat
    <3>3. ASSUME NEW i \in Ips, NEW d \in Devs
          PROVE  Even(i, d) /\ Paid(i, d)
      <4>1. Mem(i, d) = 0
        BY <3>1 DEF Mem
      <4>2. Joined(i, d) = 0
        <5>1. {j \in mdb : j.ip = i /\ j.dev = d} = {}
          BY <2>1 DEF Init
        <5> QED BY <5>1, FS_EmptySet DEF Joined
      <4>3. \A n \in 0 .. Len(nlq) : n = 0
        BY <3>1
      <4> QED BY <3>1, <3>2, <4>1, <4>2, <4>3 DEF Even, Paid
    <3> QED BY <3>1, <3>3 DEF MembersInv
  <2> QED BY <2>1, FirstTypes
<1>2. TypeInv /\ MembersInv /\ [Next]_vars => (TypeInv /\ MembersInv)'
  BY TypeStep, MembersStep
<1>3. MembersInv => MembersFollow
  <2> SUFFICES ASSUME MembersInv, ~lost, NEW i \in Ips, NEW d \in Devs
               PROVE  Mem(i, d) + Count("new", i, d) = Joined(i, d) + Count("del", i, d)
    BY DEF MembersFollow, Mem, Joined
  <2>1. \A type : Count(type, i, d) = Upto(nlq, Msg(type, i, d), Len(nlq))
    BY DEF Count, Upto, Msg
  <2> QED BY <2>1 DEF MembersInv, Even
<1> QED BY <1>1, <1>2, <1>3, PTL DEF Spec

===============================================================================
