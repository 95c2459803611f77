--------------------------- MODULE ExecutorProofs ---------------------------
(***************************************************************************)
(* For every schema, every set of statements and every page size: the rows *)
(* of the table fit its schema, and no two of them have the same primary   *)
(* key, whatever the expressions evaluate to and wherever the process dies.*)
(* Expressions evaluate to values, and no page runs out of more bytes than *)
(* it has. The second part says what the file and the result are when a    *)
(* statement ends, in whatever way it ends; there the scan is followed     *)
(* slot by slot. The third shows that the executor implements TableSpec.   *)
(***************************************************************************)
EXTENDS Executor, SequenceTheorems, FiniteSetTheorems, WellFoundedInduction, TLAPS

IsSeq(s) == s \in Seq(Range(s))

LEMMA SeqIsSeq ==
  ASSUME NEW S, NEW s \in Seq(S)
  PROVE  IsSeq(s) /\ Len(s) \in Nat /\ DOMAIN s = 1..Len(s)
  BY DEF IsSeq, Range

LEMMA IsSeqFacts ==
  ASSUME NEW s, IsSeq(s)
  PROVE  Len(s) \in Nat /\ DOMAIN s = 1..Len(s)
  BY DEF IsSeq

LEMMA FunctionIsSeq ==
  ASSUME NEW n \in Nat, NEW f, DOMAIN f = 1..n, f = [i \in DOMAIN f |-> f[i]]
  PROVE  IsSeq(f) /\ Len(f) = n
<1>1. \A i \in 1..n : f[i] \in Range(f)
  BY DEF Range
<1>2. f \in [1..n -> Range(f)]
  BY <1>1
<1> QED
  BY <1>2 DEF IsSeq

LEMMA AppendIsSeq ==
  ASSUME NEW s, IsSeq(s), NEW e
  PROVE  /\ IsSeq(Append(s, e))
         /\ Len(Append(s, e)) = Len(s) + 1
         /\ \A i \in 1..Len(s) : Append(s, e)[i] = s[i]
         /\ Append(s, e)[Len(s) + 1] = e
<1> DEFINE S == Range(s) \cup {e}
<1>1. s \in Seq(S)
  BY DEF IsSeq, Range
<1>2. e \in S
  OBVIOUS
<1> HIDE DEF S
<1>3. /\ Append(s, e) \in Seq(S)
      /\ Len(Append(s, e)) = Len(s) + 1
      /\ \A i \in 1..Len(s) : Append(s, e)[i] = s[i]
      /\ Append(s, e)[Len(s) + 1] = e
  BY <1>1, <1>2, AppendProperties
<1> QED
  BY <1>3, SeqIsSeq

LEMMA ExceptIsSeq ==
  ASSUME NEW s, IsSeq(s), NEW i \in DOMAIN s, NEW e
  PROVE  /\ IsSeq([s EXCEPT ![i] = e])
         /\ Len([s EXCEPT ![i] = e]) = Len(s)
         /\ [s EXCEPT ![i] = e][i] = e
         /\ \A j \in DOMAIN s : j # i => [s EXCEPT ![i] = e][j] = s[j]
<1> DEFINE S == Range(s) \cup {e}
<1>1. s \in Seq(S)
  BY DEF IsSeq, Range
<1>2. [s EXCEPT ![i] = e] \in Seq(S) /\ Len([s EXCEPT ![i] = e]) = Len(s)
  BY <1>1, ExceptSeq
<1> QED
  BY <1>1, <1>2, SeqIsSeq

-----------------------------------------------------------------------------
(* Which rows a file has, and when no two of them have the same key.       *)

LEMMA LiveSlotsDef ==
  ASSUME NEW pages, NEW x
  PROVE  x \in LiveSlots(pages) <=>
           \E p \in DOMAIN pages : \E i \in DOMAIN pages[p].rows :
             x = <<p, i>> /\ pages[p].rows[i] # Deleted
  BY DEF LiveSlots

LEMMA ValueEqSymmetric ==
  ASSUME NEW a, NEW b
  PROVE  ValueEq(a, b) <=> ValueEq(b, a)
  BY DEF ValueEq

(* One row may be new or changed if no other row has its key.              *)
LEMMA KeysStillDiffer ==
  ASSUME NEW P, NEW Q, NEW at, KeysDiffer(P),
         \A x \in LiveSlots(Q) \ {at} :
           /\ x \in LiveSlots(P)
           /\ RowAt(Q, x)[pkIndex] = RowAt(P, x)[pkIndex],
         at \in LiveSlots(Q) => \A x \in LiveSlots(Q) \ {at} :
           ~ ValueEq(RowAt(Q, x)[pkIndex], RowAt(Q, at)[pkIndex])
  PROVE  KeysDiffer(Q)
<1> SUFFICES ASSUME NEW a \in LiveSlots(Q), NEW b \in LiveSlots(Q), a # b
             PROVE  ~ ValueEq(RowAt(Q, a)[pkIndex], RowAt(Q, b)[pkIndex])
  BY DEF KeysDiffer
<1>1. CASE a = at
  BY <1>1, ValueEqSymmetric
<1>2. CASE b = at
  BY <1>2
<1>3. CASE a # at /\ b # at
  BY <1>3 DEF KeysDiffer
<1> QED
  BY <1>1, <1>2, <1>3

(* The rows of a file in which one page was replaced.                      *)
LEMMA ReplacedPage ==
  ASSUME NEW pages, NEW p, NEW pg, NEW Q,
         DOMAIN Q = DOMAIN pages, Q[p] = pg,
         \A q \in DOMAIN pages : q # p => Q[q] = pages[q],
         NEW x, x \in LiveSlots(Q)
  PROVE  \/ x \in LiveSlots(pages) /\ x[1] # p /\ RowAt(Q, x) = RowAt(pages, x)
         \/ \E i \in DOMAIN pg.rows :
               x = <<p, i>> /\ pg.rows[i] # Deleted /\ RowAt(Q, x) = pg.rows[i]
<1>2. PICK q \in DOMAIN Q : \E i \in DOMAIN Q[q].rows : x = <<q, i>> /\ Q[q].rows[i] # Deleted
  BY LiveSlotsDef
<1>3. PICK i \in DOMAIN Q[q].rows : x = <<q, i>> /\ Q[q].rows[i] # Deleted
  BY <1>2
<1>4. x[1] = q /\ x[2] = i
  BY <1>3
<1>5. CASE q = p
  BY <1>3, <1>4, <1>5 DEF RowAt
<1>6. CASE q # p
  <2>1. Q[q] = pages[q] /\ q \in DOMAIN pages
    BY <1>2, <1>6
  <2>2. x \in LiveSlots(pages)
    BY <1>3, <2>1, LiveSlotsDef
  <2> QED
    BY <1>4, <1>6, <2>1, <2>2 DEF RowAt
<1> QED
  BY <1>5, <1>6

-----------------------------------------------------------------------------
(* What the executor's helpers return when they return no error.           *)

RowOK(row) == DOMAIN row = DOMAIN Columns /\ RowFits(row, Columns)

PageInv(pg) ==
  /\ IsSeq(pg.rows)
  /\ \A i \in DOMAIN pg.rows : pg.rows[i] = Deleted \/ RowOK(pg.rows[i])

LEMMA KeyColumn == pkIndex # 0 => pkIndex \in DOMAIN Columns
  BY DEF pkIndex, primaryKeyIndex

LEMMA CollectOk ==
  ASSUME NEW results, Collect(results).err = "None"
  PROVE  Collect(results).val = [i \in DOMAIN results |-> results[i].val]
<1>1. CASE \E i \in DOMAIN results : IsFirstError(results, i)
  <2> DEFINE i == CHOOSE i \in DOMAIN results : IsFirstError(results, i)
  <2>1. IsFirstError(results, i)
    BY <1>1
  <2> QED
    BY <2>1, <1>1 DEF Collect, IsFirstError
<1>2. CASE ~ \E i \in DOMAIN results : IsFirstError(results, i)
  BY <1>2 DEF Collect, Ok
<1> QED
  BY <1>1, <1>2

LEMMA SerializedRowFits ==
  ASSUME NEW row, SerializeError(row, Columns) = "None"
  PROVE  RowFits(row, Columns)
  BY DEF SerializeError

LEMMA AssignedColumn ==
  ASSUME NEW s, NEW a \in DOMAIN s.assignments, pkIndex # 0,
         indexOf(columnNames(Columns), s.assignments[a].column) = pkIndex
  PROVE  pkAssigned(s)
<1> DEFINE names == columnNames(Columns)
           name == s.assignments[a].column
<1>1. IsFirst(names, name, indexOf(names, name))
  BY DEF indexOf
<1>2. names[pkIndex] = Columns[pkIndex].name
  BY KeyColumn DEF columnNames
<1> QED
  BY <1>1, <1>2 DEF IsFirst, pkAssigned

LEMMA UpdatedRow ==
  ASSUME NEW s, NEW row, RowOK(row), Updating(s, row).err = "None"
  PROVE  /\ DOMAIN Updating(s, row).val = DOMAIN Columns
         /\ pkIndex # 0 /\ ~ pkAssigned(s) =>
              Updating(s, row).val[pkIndex] = row[pkIndex]
<1> DEFINE names == columnNames(Columns)
           target(a) == indexOf(names, s.assignments[a].column)
           IsLast(a, c) == /\ target(a) = c
                           /\ \A b \in DOMAIN s.assignments : target(b) = c => b <= a
<1>1. PICK values :
        Updating(s, row).val = [c \in DOMAIN row |->
            IF \E a \in DOMAIN s.assignments : IsLast(a, c)
            THEN values[CHOOSE a \in DOMAIN s.assignments : IsLast(a, c)]
            ELSE row[c]]
  BY DEF Updating, rowFromUpdate, Ok
<1>2. ASSUME pkIndex # 0, ~ pkAssigned(s)
      PROVE  \A a \in DOMAIN s.assignments : ~ IsLast(a, pkIndex)
  BY <1>2, AssignedColumn
<1>3. DOMAIN row = DOMAIN Columns
  BY DEF RowOK
<1> HIDE DEF IsLast
<1>4. ASSUME pkIndex # 0, ~ pkAssigned(s)
      PROVE  Updating(s, row).val[pkIndex] = row[pkIndex]
  BY <1>1, <1>2, <1>3, <1>4, KeyColumn
<1> QED
  BY <1>1, <1>3, <1>4

LEMMA InsertedRow ==
  ASSUME NEW s \in Statements, InsertRowError(s) = "None"
  PROVE  /\ RowOK(Inserting(s).val)
         /\ pkIndex # 0 => ~ primaryKeyExists(disk, Inserting(s).val[pkIndex], <<0, 0>>)
<1> DEFINE row == Inserting(s)
<1>1. /\ row.err = "None"
      /\ s.insertColumnNames = << >> => Len(row.val) = Len(Columns)
      /\ pkIndex # 0 => ~ primaryKeyExists(disk, row.val[pkIndex], <<0, 0>>)
      /\ SerializeError(row.val, Columns) = "None"
  BY DEF InsertRowError, Reported
<1>2. RowFits(row.val, Columns)
  BY <1>1, SerializedRowFits
<1>3. DOMAIN row.val = DOMAIN Columns
  <2>1. CASE s.insertColumnNames = << >>
    <3>1. /\ DOMAIN row.val = DOMAIN s.insertValues
          /\ row.val = [i \in DOMAIN row.val |-> row.val[i]]
      BY <2>1, <1>1, CollectOk DEF Inserting, rowFromInsertValues
    <3>2. DOMAIN row.val = 1..Len(s.insertValues) /\ Len(s.insertValues) \in Nat
      BY <3>1, StatementsAssumption, SeqIsSeq
    <3>3. Len(row.val) = Len(s.insertValues)
      BY <3>1, <3>2, FunctionIsSeq
    <3> QED
      BY <3>2, <3>3, <2>1, <1>1, ColumnsAssumption, SeqIsSeq
  <2>2. CASE s.insertColumnNames # << >>
    BY <2>2, <1>1, CollectOk DEF Inserting, rowFromInsertValues
  <2> QED
    BY <2>1, <2>2
<1> QED
  BY <1>1, <1>2, <1>3 DEF RowOK

-----------------------------------------------------------------------------
(* Page operations keep what the invariant says of a page.                 *)

LEMMA EmptyPageInv == PageInv(EmptyPage)
<1>1. EmptyPage.rows = << >> /\ DOMAIN << >> = {}
  BY DEF EmptyPage
<1>2. IsSeq(<< >>)
  BY DEF IsSeq
<1> QED
  BY <1>1, <1>2 DEF PageInv

LEMMA SlotChanged ==
  ASSUME NEW pg, PageInv(pg), NEW at \in Nat, at < NumSlots(pg),
         NEW row, row = Deleted \/ RowOK(row),
         NEW new, new.rows = [pg.rows EXCEPT ![at + 1] = row]
  PROVE  /\ PageInv(new)
         /\ at + 1 \in DOMAIN pg.rows
         /\ DOMAIN new.rows = DOMAIN pg.rows
         /\ new.rows[at + 1] = row
         /\ \A i \in DOMAIN pg.rows : i # at + 1 => new.rows[i] = pg.rows[i]
<1>1. IsSeq(pg.rows) /\ at + 1 \in DOMAIN pg.rows
  BY IsSeqFacts DEF PageInv, NumSlots
<1>2. /\ IsSeq(new.rows)
      /\ Len(new.rows) = Len(pg.rows)
      /\ new.rows[at + 1] = row
      /\ \A i \in DOMAIN pg.rows : i # at + 1 => new.rows[i] = pg.rows[i]
  BY <1>1, ExceptIsSeq
<1>3. DOMAIN new.rows = DOMAIN pg.rows
  BY <1>1, <1>2, IsSeqFacts
<1> QED
  BY <1>1, <1>2, <1>3 DEF PageInv

LEMMA RowAppended ==
  ASSUME NEW pg, PageInv(pg), NEW row, RowOK(row)
  PROVE  /\ PageInv(Inserted(pg, row))
         /\ DOMAIN Inserted(pg, row).rows = DOMAIN pg.rows \cup {Len(pg.rows) + 1}
         /\ Inserted(pg, row).rows[Len(pg.rows) + 1] = row
         /\ \A i \in DOMAIN pg.rows : Inserted(pg, row).rows[i] = pg.rows[i]
<1>1. IsSeq(pg.rows)
  BY DEF PageInv
<1>2. Inserted(pg, row).rows = Append(pg.rows, row)
  BY DEF Inserted
<1>3. /\ IsSeq(Append(pg.rows, row))
      /\ Len(Append(pg.rows, row)) = Len(pg.rows) + 1
      /\ \A i \in 1..Len(pg.rows) : Append(pg.rows, row)[i] = pg.rows[i]
      /\ Append(pg.rows, row)[Len(pg.rows) + 1] = row
  BY <1>1, AppendIsSeq
<1>4. /\ Len(pg.rows) \in Nat
      /\ DOMAIN pg.rows = 1..Len(pg.rows)
      /\ DOMAIN Append(pg.rows, row) = 1..(Len(pg.rows) + 1)
  BY <1>1, <1>3, IsSeqFacts
<1>5. DOMAIN Append(pg.rows, row) = DOMAIN pg.rows \cup {Len(pg.rows) + 1}
  BY <1>4
<1> QED
  BY <1>2, <1>3, <1>4, <1>5 DEF PageInv

-----------------------------------------------------------------------------
(* The inductive invariant. While a new page is filled, the row is still   *)
(* the one that was checked against the keys of the file.                  *)

FileInv ==
  /\ IsSeq(disk)
  /\ \A p \in DOMAIN disk : PageInv(disk[p])
  /\ pkIndex # 0 => KeysDiffer(disk)

ScanInv ==
  /\ PageInv(page)
  /\ slot \in Nat /\ pageIndex \in Nat \ {0}
  /\ pc \in {"slot", "fill"} => pageIndex \in DOMAIN disk
  /\ pkIndex # 0 /\ pc = "slot" => KeysDiffer(InMemory)

StmtInv ==
  /\ pc \in {"insert", "fill"} => stmt \in Statements
  /\ pc = "fill" => InsertRowError(stmt) = "None"

ExecInv == FileInv /\ ScanInv /\ StmtInv

LEMMA InitExecInv == Init => ExecInv
<1> SUFFICES ASSUME Init PROVE ExecInv
  OBVIOUS
<1>1. disk = << >> /\ pc = "idle" /\ page = EmptyPage /\ slot = 0 /\ pageIndex = 1
  BY DEF Init
<1>2. IsSeq(disk) /\ DOMAIN disk = {}
  BY <1>1 DEF IsSeq
<1>3. LiveSlots(disk) = {}
  BY <1>2 DEF LiveSlots
<1> QED
  BY <1>1, <1>2, <1>3, EmptyPageInv DEF ExecInv, FileInv, ScanInv, StmtInv, KeysDiffer

(* A step that leaves the statement leaves the file as it is.              *)
LEMMA AbortInv ==
  ASSUME ExecInv, NEW e, Abort(e)
  PROVE  ExecInv'
<1>1. /\ disk' = disk /\ pc' = "done" /\ page' = EmptyPage /\ slot' = 0 /\ pageIndex' = 1
      /\ stmt' = stmt
  BY DEF Abort, LeaveScan
<1>2. FileInv'
  BY <1>1 DEF ExecInv, FileInv, KeysDiffer, LiveSlots, RowAt
<1> QED
  BY <1>1, <1>2, EmptyPageInv DEF ExecInv, ScanInv, StmtInv

-----------------------------------------------------------------------------
(* One row of one page changes, appears or goes.                           *)
LEMMA RowChanged ==
  ASSUME NEW pages, IsSeq(pages), NEW p \in DOMAIN pages, NEW pg, NEW i0,
         KeysDiffer(pages),
         \A i \in DOMAIN pg.rows \ {i0} :
           i \in DOMAIN pages[p].rows /\ pg.rows[i] = pages[p].rows[i],
         i0 \in DOMAIN pg.rows /\ pg.rows[i0] # Deleted =>
           ~ primaryKeyExists(pages, pg.rows[i0][pkIndex], <<p, i0>>)
  PROVE  KeysDiffer([pages EXCEPT ![p] = pg])
<1> DEFINE Q == [pages EXCEPT ![p] = pg]
           at == <<p, i0>>
<1>0. /\ DOMAIN Q = DOMAIN pages /\ Q[p] = pg
      /\ \A q \in DOMAIN pages : q # p => Q[q] = pages[q]
  BY ExceptIsSeq, IsSeqFacts
<1> HIDE DEF Q
<1>1. ASSUME NEW x \in LiveSlots(Q)
      PROVE  \/ x \in LiveSlots(pages) /\ x[1] # p /\ RowAt(Q, x) = RowAt(pages, x)
             \/ \E i \in DOMAIN pg.rows :
                  x = <<p, i>> /\ pg.rows[i] # Deleted /\ RowAt(Q, x) = pg.rows[i]
  BY <1>0, <1>1, ReplacedPage
<1>2. ASSUME NEW x \in LiveSlots(Q) \ {at}
      PROVE  x \in LiveSlots(pages) /\ RowAt(Q, x) = RowAt(pages, x)
  <2>1. CASE x \in LiveSlots(pages) /\ RowAt(Q, x) = RowAt(pages, x)
    BY <2>1
  <2>2. CASE \E i \in DOMAIN pg.rows :
               x = <<p, i>> /\ pg.rows[i] # Deleted /\ RowAt(Q, x) = pg.rows[i]
    <3>1. PICK i \in DOMAIN pg.rows :
               x = <<p, i>> /\ pg.rows[i] # Deleted /\ RowAt(Q, x) = pg.rows[i]
      BY <2>2
    <3>2. i # i0
      BY <1>2, <3>1
    <3>3. i \in DOMAIN pages[p].rows /\ pg.rows[i] = pages[p].rows[i]
      BY <3>2
    <3>4. x \in LiveSlots(pages)
      BY <3>1, <3>3, LiveSlotsDef
    <3> QED
      BY <3>1, <3>3, <3>4 DEF RowAt
  <2> QED
    BY <2>1, <2>2, <1>1, <1>2
<1>3. ASSUME at \in LiveSlots(Q), NEW x \in LiveSlots(Q) \ {at}
      PROVE  ~ ValueEq(RowAt(Q, x)[pkIndex], RowAt(Q, at)[pkIndex])
  <2>1. i0 \in DOMAIN pg.rows /\ pg.rows[i0] # Deleted /\ RowAt(Q, at) = pg.rows[i0]
    BY <1>3, <1>1
  <2>2. x \in LiveSlots(pages) \ {<<p, i0>>} /\ RowAt(Q, x) = RowAt(pages, x)
    BY <1>2, <1>3
  <2> QED
    BY <2>1, <2>2 DEF primaryKeyExists
<1> HIDE DEF at
<1>4. KeysDiffer(Q)
  BY <1>2, <1>3, KeysStillDiffer
<1> QED
  BY <1>4 DEF Q

(* No slot is <<0, 0>>, so a search that skips it skips nothing.           *)
LEMMA NewKey ==
  ASSUME NEW pages, IsSeq(pages), NEW value, NEW at,
         ~ primaryKeyExists(pages, value, <<0, 0>>)
  PROVE  ~ primaryKeyExists(pages, value, at)
<1>1. ASSUME NEW x \in LiveSlots(pages)
      PROVE  x # <<0, 0>>
  <2>1. PICK p \in DOMAIN pages : \E i \in DOMAIN pages[p].rows : x = <<p, i>>
    BY LiveSlotsDef
  <2>2. p # 0
    BY IsSeqFacts
  <2> QED
    BY <2>1, <2>2
<1> QED
  BY <1>1 DEF primaryKeyExists

LEMMA InMemoryFacts ==
  ASSUME FileInv, pageIndex \in DOMAIN disk
  PROVE  /\ IsSeq(InMemory)
         /\ DOMAIN InMemory = DOMAIN disk
         /\ InMemory[pageIndex] = page
         /\ \A p \in DOMAIN disk : p # pageIndex => InMemory[p] = disk[p]
         /\ \A pg : [InMemory EXCEPT ![pageIndex] = pg] = [disk EXCEPT ![pageIndex] = pg]
  BY ExceptIsSeq, IsSeqFacts DEF FileInv, InMemory

(* DeleteRow and UpdateRow: the slot of the page in memory gets a row that *)
(* takes no key of another.                                                *)
LEMMA MemoryRowChanged ==
  ASSUME ExecInv, pc = "slot", slot < NumSlots(page),
         NEW row, row = Deleted \/ RowOK(row),
         pkIndex # 0 /\ row # Deleted =>
           ~ primaryKeyExists(InMemory, row[pkIndex], <<pageIndex, slot + 1>>),
         page'.rows = [page.rows EXCEPT ![slot + 1] = row],
         slot' = slot + 1, UNCHANGED <<disk, pc, pageIndex, stmt>>
  PROVE  ExecInv'
<1> USE DEF ExecInv
<1>1. PageInv(page) /\ slot \in Nat /\ pageIndex \in DOMAIN disk
  BY DEF ScanInv
<1>2. /\ PageInv(page')
      /\ DOMAIN page'.rows = DOMAIN page.rows
      /\ page'.rows[slot + 1] = row
      /\ \A i \in DOMAIN page.rows : i # slot + 1 => page'.rows[i] = page.rows[i]
  BY <1>1, SlotChanged
<1>3. ASSUME pkIndex # 0
      PROVE  KeysDiffer([disk EXCEPT ![pageIndex] = page'])
  <2>1. KeysDiffer(InMemory)
    BY <1>3 DEF ScanInv
  <2>2. /\ IsSeq(InMemory) /\ pageIndex \in DOMAIN InMemory
        /\ InMemory[pageIndex] = page
        /\ [InMemory EXCEPT ![pageIndex] = page'] = [disk EXCEPT ![pageIndex] = page']
    BY <1>1, InMemoryFacts
  <2>3. KeysDiffer([InMemory EXCEPT ![pageIndex] = page'])
    <3> DEFINE i0 == slot + 1
    <3>1. \A i \in DOMAIN page'.rows \ {i0} :
            i \in DOMAIN InMemory[pageIndex].rows
              /\ page'.rows[i] = InMemory[pageIndex].rows[i]
      BY <1>2, <2>2
    <3>2. i0 \in DOMAIN page'.rows /\ page'.rows[i0] # Deleted =>
            ~ primaryKeyExists(InMemory, page'.rows[i0][pkIndex], <<pageIndex, i0>>)
      BY <1>2, <1>3
    <3> HIDE DEF i0
    <3> QED
      BY <2>1, <2>2, <3>1, <3>2, RowChanged
  <2> QED
    BY <2>2, <2>3
<1>4. FileInv'
  BY DEF FileInv, KeysDiffer, LiveSlots, RowAt
<1>5. ScanInv'
  BY <1>1, <1>2, <1>3 DEF ScanInv, InMemory
<1> QED
  BY <1>4, <1>5 DEF StmtInv

LEMMA DeleteRowInv == ExecInv /\ DeleteRow => ExecInv'
<1> SUFFICES ASSUME ExecInv, DeleteRow PROVE ExecInv'
  OBVIOUS
<1>1. /\ pc = "slot" /\ slot < NumSlots(page)
      /\ page'.rows = [page.rows EXCEPT ![slot + 1] = Deleted]
      /\ slot' = slot + 1 /\ UNCHANGED <<disk, pc, pageIndex, stmt>>
  BY DEF DeleteRow, Chosen, AtRow, AtSlot, WithoutRow
<1> QED
  BY <1>1, MemoryRowChanged

LEMMA UpdateRowInv == ExecInv /\ UpdateRow => ExecInv'
<1> SUFFICES ASSUME ExecInv, UpdateRow PROVE ExecInv'
  OBVIOUS
<1> DEFINE old == RowOf(page, slot)
           at  == <<pageIndex, slot + 1>>
           new == Updating(stmt, old).val
<1>1. /\ pc = "slot" /\ slot < NumSlots(page) /\ ~ SlotDeleted(page, slot)
      /\ UpdateRowError(stmt, page, slot, old) = "None"
      /\ page'.rows = [page.rows EXCEPT ![slot + 1] = new]
      /\ slot' = slot + 1 /\ UNCHANGED <<disk, pc, pageIndex, stmt>>
  BY DEF UpdateRow, Chosen, AtRow, AtSlot, Updated
<1>2. /\ Updating(stmt, old).err = "None"
      /\ pkAssigned(stmt) => ~ primaryKeyExists(InMemory, new[pkIndex], at)
      /\ SerializeError(new, Columns) = "None"
  BY <1>1 DEF UpdateRowError, Reported
<1>3. /\ PageInv(page) /\ slot \in Nat /\ pageIndex \in DOMAIN disk
      /\ FileInv /\ (pkIndex # 0 => KeysDiffer(InMemory))
  BY <1>1 DEF ExecInv, ScanInv
<1>4. slot + 1 \in DOMAIN page.rows
  BY <1>1, <1>3, IsSeqFacts DEF PageInv, NumSlots
<1>5. old = page.rows[slot + 1] /\ old # Deleted /\ RowOK(old)
  BY <1>1, <1>3, <1>4 DEF PageInv, RowOf, SlotDeleted
<1> HIDE DEF old
<1>6. /\ DOMAIN new = DOMAIN Columns
      /\ pkIndex # 0 /\ ~ pkAssigned(stmt) => new[pkIndex] = old[pkIndex]
  BY <1>2, <1>5, UpdatedRow
<1> HIDE DEF new
<1>7. RowOK(new)
  BY <1>2, <1>6, SerializedRowFits DEF RowOK
<1>8. ASSUME pkIndex # 0, ~ pkAssigned(stmt)
      PROVE  ~ primaryKeyExists(InMemory, new[pkIndex], at)
  <2>1. InMemory[pageIndex] = page /\ pageIndex \in DOMAIN InMemory
    BY <1>3, InMemoryFacts
  <2>2. at \in LiveSlots(InMemory) /\ RowAt(InMemory, at) = old
    BY <2>1, <1>4, <1>5, LiveSlotsDef DEF RowAt
  <2> HIDE DEF at
  <2> QED
    BY <1>3, <1>6, <1>8, <2>2 DEF primaryKeyExists, KeysDiffer
<1>9. pkIndex # 0 => ~ primaryKeyExists(InMemory, new[pkIndex], at)
  BY <1>2, <1>8
<1> QED
  BY <1>1, <1>7, <1>9, MemoryRowChanged

LEMMA ReadPageInv == ExecInv /\ ReadPage => ExecInv'
<1> SUFFICES ASSUME ExecInv, ReadPage PROVE ExecInv'
  OBVIOUS
<1>1. /\ pageIndex <= Len(disk) /\ page' = disk[pageIndex] /\ pc' = "slot"
      /\ UNCHANGED <<disk, stmt, pageIndex, slot>>
  BY DEF ReadPage
<1>2. IsSeq(disk) /\ slot \in Nat /\ pageIndex \in Nat \ {0}
  BY DEF ExecInv, FileInv, ScanInv
<1>3. pageIndex \in DOMAIN disk
  BY <1>1, <1>2, IsSeqFacts
<1>4. [disk EXCEPT ![pageIndex] = disk[pageIndex]] = disk
  BY <1>2, <1>3, IsSeqFacts DEF IsSeq
<1>5. FileInv'
  BY <1>1 DEF ExecInv, FileInv, KeysDiffer, LiveSlots, RowAt
<1>6. InMemory' = disk'
  BY <1>1, <1>4 DEF InMemory
<1>7. pkIndex # 0 => KeysDiffer(disk')
  BY <1>1 DEF ExecInv, FileInv
<1>8. ScanInv'
  BY <1>1, <1>2, <1>3, <1>6, <1>7 DEF ExecInv, FileInv, ScanInv
<1> QED
  BY <1>1, <1>5, <1>8 DEF ExecInv, StmtInv

LEMMA EndOfPageInv == ExecInv /\ EndOfPage => ExecInv'
<1> SUFFICES ASSUME ExecInv, EndOfPage PROVE ExecInv'
  OBVIOUS
<1>1. /\ pc = "slot" /\ disk' \in {disk, InMemory}
      /\ pageIndex' = pageIndex + 1 /\ page' = EmptyPage /\ slot' = 0
      /\ pc' = "read" /\ stmt' = stmt
  BY DEF EndOfPage
<1>2. FileInv /\ PageInv(page) /\ pageIndex \in DOMAIN disk /\ pageIndex \in Nat
      /\ (pkIndex # 0 => KeysDiffer(InMemory))
  BY <1>1 DEF ExecInv, ScanInv
<1>3. /\ IsSeq(InMemory)
      /\ \A p \in DOMAIN InMemory : PageInv(InMemory[p])
  BY <1>2, InMemoryFacts DEF FileInv
<1>4. FileInv'
  BY <1>1, <1>2, <1>3 DEF FileInv
<1>5. ScanInv'
  BY <1>1, <1>2, EmptyPageInv DEF ScanInv
<1> QED
  BY <1>1, <1>4, <1>5 DEF ExecInv, StmtInv

(* The checked row goes to a page of the file.                             *)
LEMMA RowInsertedInv ==
  ASSUME ExecInv, NEW p \in DOMAIN disk, stmt \in Statements,
         InsertRowError(stmt) = "None",
         disk' = [disk EXCEPT ![p] = Inserted(disk[p], Inserting(stmt).val)],
         pc' = "done", LeaveScan, stmt' = stmt
  PROVE  ExecInv'
<1> DEFINE row == Inserting(stmt).val
           i0  == Len(disk[p].rows) + 1
           new == Inserted(disk[p], row)
<1>1. RowOK(row) /\ (pkIndex # 0 => ~ primaryKeyExists(disk, row[pkIndex], <<0, 0>>))
  BY InsertedRow
<1>2. IsSeq(disk) /\ PageInv(disk[p]) /\ \A q \in DOMAIN disk : PageInv(disk[q])
  BY DEF ExecInv, FileInv
<1> HIDE DEF row
<1>3. /\ PageInv(new)
      /\ DOMAIN new.rows = DOMAIN disk[p].rows \cup {i0}
      /\ new.rows[i0] = row
      /\ \A i \in DOMAIN disk[p].rows : new.rows[i] = disk[p].rows[i]
  BY <1>1, <1>2, RowAppended
<1> HIDE DEF new, i0
<1>4. disk' = [disk EXCEPT ![p] = new]
  BY DEF new, row
<1>5. /\ IsSeq(disk') /\ DOMAIN disk' = DOMAIN disk
      /\ disk'[p] = new /\ \A q \in DOMAIN disk : q # p => disk'[q] = disk[q]
  <2> DEFINE Q == [disk EXCEPT ![p] = new]
  <2>1. /\ IsSeq(Q) /\ Q[p] = new
        /\ \A q \in DOMAIN disk : q # p => Q[q] = disk[q]
    BY <1>2, ExceptIsSeq
  <2>2. DOMAIN Q = DOMAIN disk
    OBVIOUS
  <2> HIDE DEF Q
  <2>3. disk' = Q
    BY <1>4 DEF Q
  <2> QED
    BY <2>1, <2>2, <2>3
<1>6. ASSUME pkIndex # 0
      PROVE  KeysDiffer(disk')
  <2>1. KeysDiffer(disk)
    BY <1>6 DEF ExecInv, FileInv
  <2>2. ~ primaryKeyExists(disk, new.rows[i0][pkIndex], <<p, i0>>)
    BY <1>1, <1>2, <1>3, <1>6, NewKey
  <2>3. \A i \in DOMAIN new.rows \ {i0} :
          i \in DOMAIN disk[p].rows /\ new.rows[i] = disk[p].rows[i]
    BY <1>3
  <2>4. KeysDiffer([disk EXCEPT ![p] = new])
    BY <1>2, <2>1, <2>2, <2>3, RowChanged
  <2> QED
    BY <1>4, <2>4
<1>7. FileInv'
  BY <1>2, <1>3, <1>5, <1>6 DEF FileInv
<1>8. ScanInv' /\ StmtInv'
  BY EmptyPageInv DEF ScanInv, StmtInv, LeaveScan
<1> QED
  BY <1>7, <1>8 DEF ExecInv

(* A page without rows changes neither the keys nor what was checked.      *)
LEMMA AllocatePageInv == ExecInv /\ AllocatePage => ExecInv'
<1> SUFFICES ASSUME ExecInv, AllocatePage PROVE ExecInv'
  OBVIOUS
<1>1. /\ pc = "insert" /\ InsertRowError(stmt) = "None"
      /\ disk' = Append(disk, EmptyPage)
      /\ pageIndex' = Len(disk) + 1 /\ pc' = "fill"
      /\ UNCHANGED <<stmt, page, slot>>
  BY DEF AllocatePage, NoPageHasRoom
<1>2. IsSeq(disk) /\ \A p \in DOMAIN disk : PageInv(disk[p])
  BY DEF ExecInv, FileInv
<1>3. /\ IsSeq(disk') /\ Len(disk') = Len(disk) + 1
      /\ \A i \in DOMAIN disk : disk'[i] = disk[i]
      /\ disk'[Len(disk) + 1] = EmptyPage
  BY <1>1, <1>2, AppendIsSeq, IsSeqFacts
<1>4. Len(disk) \in Nat /\ DOMAIN disk' = DOMAIN disk \cup {Len(disk) + 1}
  BY <1>2, <1>3, IsSeqFacts
<1>5. \A p \in DOMAIN disk' : PageInv(disk'[p])
  BY <1>2, <1>3, <1>4, EmptyPageInv
<1>6. ASSUME NEW x \in LiveSlots(disk')
      PROVE  x \in LiveSlots(disk) /\ RowAt(disk', x) = RowAt(disk, x)
  <2>1. PICK p \in DOMAIN disk' : \E i \in DOMAIN disk'[p].rows :
          x = <<p, i>> /\ disk'[p].rows[i] # Deleted
    BY <1>6, LiveSlotsDef
  <2>2. p \in DOMAIN disk /\ disk'[p] = disk[p]
    <3>1. EmptyPage.rows = << >> /\ DOMAIN << >> = {}
      BY DEF EmptyPage
    <3> QED
      BY <2>1, <3>1, <1>3, <1>4
  <2>3. x \in LiveSlots(disk)
    BY <2>1, <2>2, LiveSlotsDef
  <2> QED
    BY <2>1, <2>2, <2>3 DEF RowAt
<1>7. LiveSlots(disk) \subseteq LiveSlots(disk')
  <2> SUFFICES ASSUME NEW x \in LiveSlots(disk) PROVE x \in LiveSlots(disk')
    OBVIOUS
  <2>1. PICK p \in DOMAIN disk : \E i \in DOMAIN disk[p].rows :
          x = <<p, i>> /\ disk[p].rows[i] # Deleted
    BY LiveSlotsDef
  <2>2. p \in DOMAIN disk' /\ disk'[p] = disk[p]
    BY <1>3, <1>4
  <2> QED
    BY <2>1, <2>2, LiveSlotsDef
<1>8. pkIndex # 0 => KeysDiffer(disk')
  BY <1>6 DEF ExecInv, FileInv, KeysDiffer
<1>9. InsertRowError(stmt)' = "None"
  <2>1. \A value : primaryKeyExists(disk', value, <<0, 0>>)
                      <=> primaryKeyExists(disk, value, <<0, 0>>)
    BY <1>6, <1>7 DEF primaryKeyExists
  <2> QED
    BY <1>1, <2>1 DEF InsertRowError
<1>10. FileInv'
  BY <1>3, <1>5, <1>8 DEF FileInv
<1>11. ScanInv'
  BY <1>1, <1>4 DEF ExecInv, ScanInv
<1>12. StmtInv'
  BY <1>1, <1>9 DEF ExecInv, StmtInv
<1> QED
  BY <1>10, <1>11, <1>12 DEF ExecInv

(* Steps that leave the file and the page in memory alone.                 *)
LEMMA QuietStepInv ==
  ASSUME ExecInv, UNCHANGED <<disk, page, pageIndex>>, slot' \in {slot, slot + 1},
         \/ pc' = pc /\ stmt' = stmt
         \/ pc' \in {"idle", "read"}
         \/ pc' = "insert" /\ stmt' \in Statements
  PROVE  ExecInv'
<1>1. FileInv'
  BY DEF ExecInv, FileInv
<1>2. ScanInv'
  BY DEF ExecInv, ScanInv, InMemory
<1>3. StmtInv'
  BY DEF ExecInv, StmtInv, InsertRowError
<1> QED
  BY <1>1, <1>2, <1>3 DEF ExecInv

LEMMA StepExecInv == ExecInv /\ [Next]_vars => ExecInv'
<1> SUFFICES ASSUME ExecInv, [Next]_vars PROVE ExecInv'
  OBVIOUS
<1>1. CASE ReadPage
  BY <1>1, ReadPageInv
<1>2. CASE EndOfTable
  <2>1. /\ UNCHANGED <<disk, stmt>> /\ pc' = "done"
        /\ page' = EmptyPage /\ slot' = 0 /\ pageIndex' = 1
    BY <1>2 DEF EndOfTable, LeaveScan
  <2> QED
    BY <2>1, EmptyPageInv DEF ExecInv, FileInv, ScanInv, StmtInv
<1>3. CASE SkipSlot
  BY <1>3, QuietStepInv DEF SkipSlot
<1>4. CASE WhereFails
  BY <1>4, AbortInv DEF WhereFails
<1>5. CASE SelectRow
  BY <1>5, QuietStepInv DEF SelectRow
<1>6. CASE DeleteRow
  BY <1>6, DeleteRowInv
<1>7. CASE UpdateRow
  BY <1>7, UpdateRowInv
<1>8. CASE UpdateFails
  BY <1>8, AbortInv DEF UpdateFails
<1>9. CASE EndOfPage
  BY <1>9, EndOfPageInv
<1>10. CASE InsertFails
  BY <1>10, AbortInv DEF InsertFails
<1>11. CASE InsertIntoPage
  <2>1. PICK p \in DOMAIN disk :
          disk' = [disk EXCEPT ![p] = Inserted(disk[p], Inserting(stmt).val)]
    BY <1>11 DEF InsertIntoPage
  <2>2. /\ InsertRowError(stmt) = "None" /\ stmt \in Statements
        /\ pc' = "done" /\ LeaveScan /\ stmt' = stmt
    BY <1>11 DEF InsertIntoPage, ExecInv, StmtInv
  <2> QED
    BY <2>1, <2>2, RowInsertedInv
<1>12. CASE AllocatePage
  BY <1>12, AllocatePageInv
<1>13. CASE AllocateFails
  BY <1>13, AbortInv DEF AllocateFails
<1>14. CASE FillPage
  <2>1. /\ InsertRowError(stmt) = "None" /\ stmt \in Statements
        /\ pageIndex \in DOMAIN disk
        /\ disk' = [disk EXCEPT ![pageIndex] =
                       Inserted(disk[pageIndex], Inserting(stmt).val)]
        /\ pc' = "done" /\ LeaveScan /\ stmt' = stmt
    BY <1>14 DEF FillPage, ExecInv, ScanInv, StmtInv
  <2> QED
    BY <2>1, RowInsertedInv
<1>15. CASE FillFails
  BY <1>15, AbortInv DEF FillFails
<1>16. CASE Return
  BY <1>16, QuietStepInv DEF Return
<1>17. CASE Crash
  BY <1>17, AbortInv DEF Crash
<1>18. CASE IOFails
  BY <1>18, AbortInv DEF IOFails
<1>19. ASSUME NEW s \in Statements, Start(s)
       PROVE  ExecInv'
  BY <1>19, QuietStepInv DEF Start
<1>20. CASE UNCHANGED vars
  BY <1>20, QuietStepInv DEF vars
<1> QED
  BY <1>1, <1>2, <1>3, <1>4, <1>5, <1>6, <1>7, <1>8, <1>9, <1>10, <1>11, <1>12,
     <1>13, <1>14, <1>15, <1>16, <1>17, <1>18, <1>19, <1>20 DEF Next, Step

THEOREM ExecutorInv == Spec => []ExecInv
<1> QED
  BY InitExecInv, StepExecInv, PTL DEF Spec

-----------------------------------------------------------------------------
(* No two rows ever have the same primary key: not in the file, where a    *)
(* crash may leave it at any step of an INSERT or UPDATE, and not in the   *)
(* file with the page in memory in its place (execInsert, execUpdate and   *)
(* primaryKeyExists).                                                      *)
THEOREM KeysUnique == Spec => []PrimaryKeyUnique
<1>1. ExecInv => PrimaryKeyUnique
  BY DEF ExecInv, FileInv, ScanInv, PrimaryKeyUnique
<1> QED
  BY <1>1, ExecutorInv, PTL

-----------------------------------------------------------------------------
(* Induction over the natural numbers, as a fact about sets of them.       *)
LEMMA NatSet ==
  ASSUME NEW S, 0 \in S, \A n \in S \cap Nat : n + 1 \in S
  PROVE  Nat \subseteq S
<1> SUFFICES ASSUME NEW T, T = Nat \ S, T # {} PROVE FALSE
  OBVIOUS
<1>1. PICK x \in T : \A y \in T : ~ (<<y, x>> \in OpToRel(<, Nat))
  BY NatLessThanWellFounded, WFMin
<1>2. x # 0 /\ x - 1 \in Nat /\ x - 1 < x /\ (x - 1) + 1 = x
  OBVIOUS
<1>3. x - 1 \notin T
  BY <1>1, <1>2 DEF OpToRel
<1> QED
  BY <1>2, <1>3

(* ValueSize and RowSize, and what operators return.                       *)
LEMMA SizeOfValue ==
  ASSUME NEW x, IsValue(x)
  PROVE  ValueSize(x) \in Nat
<1>1. CASE x.type = "TEXT"
  <2>1. x.v \in Seq(Int)
    BY <1>1 DEF IsValue
  <2>2. Len(x.v) \in Nat
    BY <2>1
  <2> QED
    BY <1>1, <2>2 DEF ValueSize
<1>2. CASE x.type # "TEXT"
  BY <1>2 DEF ValueSize
<1> QED
  BY <1>1, <1>2

Sizes(f, row, n) ==
  f = [i \in 0..n |-> IF i = 0 THEN 0 ELSE f[i - 1] + ValueSize(row[i])]

LEMMA SizesExist ==
  ASSUME NEW row, NEW m \in Nat
  PROVE  \E f : Sizes(f, row, m)
<1> DEFINE S == {n \in Nat : \E f : Sizes(f, row, n)}
<1>1. 0 \in S
  <2>1. PICK f : f = [i \in 0..0 |-> 0]
    OBVIOUS
  <2>2. f = [i \in 0..0 |-> IF i = 0 THEN 0 ELSE f[i - 1] + ValueSize(row[i])]
    BY <2>1
  <2> QED
    BY <2>2 DEF Sizes
<1>2. ASSUME NEW n \in S \cap Nat
      PROVE  n + 1 \in S
  <2>1. PICK f : Sizes(f, row, n)
    OBVIOUS
  <2>2. PICK g : g = [i \in 0..(n + 1) |->
                        IF i = n + 1 THEN f[n] + ValueSize(row[n + 1]) ELSE f[i]]
    OBVIOUS
  <2>3. ASSUME NEW i \in 0..(n + 1)
        PROVE  g[i] = IF i = 0 THEN 0 ELSE g[i - 1] + ValueSize(row[i])
    <3>1. CASE i = n + 1
      <4>1. i # 0 /\ i - 1 = n /\ n \in 0..(n + 1) /\ n # n + 1
        BY <3>1
      <4> QED
        BY <2>2, <3>1, <4>1
    <3>2. CASE i \in 0..n
      <4>1. f[i] = IF i = 0 THEN 0 ELSE f[i - 1] + ValueSize(row[i])
        BY <2>1, <3>2 DEF Sizes
      <4>2. i # n + 1 /\ (i # 0 => i - 1 \in 0..(n + 1) /\ i - 1 # n + 1)
        BY <3>2
      <4> QED
        BY <2>2, <4>1, <4>2
    <3> QED
      BY <3>1, <3>2
  <2>4. Sizes(g, row, n + 1)
    BY <2>2, <2>3 DEF Sizes
  <2> QED
    BY <2>4
<1> HIDE DEF S
<1>3. m \in S
  BY <1>1, <1>2, NatSet
<1> QED
  BY <1>3 DEF S

LEMMA RowSizeDef ==
  ASSUME NEW row, NEW g, Sizes(g, row, Len(row))
  PROVE  \E f : Sizes(f, row, Len(row)) /\ RowSize(row) = f[Len(row)]
  BY Zenon DEF RowSize, Sizes

LEMMA SizeOfRow ==
  ASSUME NEW row, Len(row) \in Nat, \A i \in 1..Len(row) : IsValue(row[i])
  PROVE  RowSize(row) \in Nat
<1>1. PICK f : Sizes(f, row, Len(row)) /\ RowSize(row) = f[Len(row)]
  BY SizesExist, RowSizeDef
<1>2. \A i \in 0..Len(row) : f[i] = IF i = 0 THEN 0 ELSE f[i - 1] + ValueSize(row[i])
  BY <1>1 DEF Sizes
<1> DEFINE S == {n \in Nat : n <= Len(row) => f[n] \in Nat}
<1>3. 0 \in S
  BY <1>2
<1>4. ASSUME NEW n \in S \cap Nat, n + 1 <= Len(row)
      PROVE  f[n + 1] \in Nat
  <2>1. n + 1 \in 1..Len(row) /\ (n + 1) - 1 = n /\ f[n] \in Nat
    BY <1>4
  <2>2. ValueSize(row[n + 1]) \in Nat
    BY <2>1, SizeOfValue
  <2>3. f[n + 1] = f[n] + ValueSize(row[n + 1])
    BY <1>2, <2>1
  <2> QED
    BY <2>1, <2>2, <2>3
<1>5. \A n \in S \cap Nat : n + 1 \in S
  BY <1>4
<1> HIDE DEF S
<1>6. Len(row) \in S
  BY <1>3, <1>5, NatSet
<1> QED
  BY <1>1, <1>6 DEF S

-----------------------------------------------------------------------------
(* Expressions evaluate to values: an INTEGER wraps and keeps its 64 bits. *)
Gives(outcome) == outcome.err = "None" => IsValue(outcome.val)

LEMMA IntegerIsValue ==
  ASSUME NEW n \in -IntLimit..(IntLimit - 1)
  PROVE  IsValue(Integer(n))
  BY DEF IsValue, Integer

LEMMA IntegerValue ==
  ASSUME NEW x, IsValue(x), x.type = "INTEGER"
  PROVE  x.v[1] \in -IntLimit..(IntLimit - 1)
  BY DEF IsValue, Integer

LEMMA BooleanIsValue ==
  ASSUME NEW b \in BOOLEAN
  PROVE  IsValue(Boolean(b))
<1>1. Boolean(b).type = "BOOLEAN"
  BY DEF Boolean
<1> QED
  BY <1>1 DEF IsValue

LEMMA WrapInRange ==
  ASSUME NEW n \in Int
  PROVE  Wrap(n) \in -IntLimit..(IntLimit - 1)
<1>1. IntLimit \in Nat \ {0} /\ 2 * IntLimit \in Nat \ {0} /\ n + IntLimit \in Int
  BY IntLimitAssumption
<1>2. (n + IntLimit) % (2 * IntLimit) \in 0..(2 * IntLimit - 1)
  BY <1>1
<1> QED
  BY <1>1, <1>2 DEF Wrap

LEMMA QuotientBound ==
  ASSUME NEW m \in Nat, NEW d \in Nat \ {0}
  PROVE  /\ m \div d \in 0..m
         /\ d # 1 /\ m # 0 => m \div d < m
<1>1. PICK q \in Int : q = m \div d
  OBVIOUS
<1>2. q * d <= m /\ m < (q + 1) * d
  BY <1>1
<1>3. q >= 0
  BY <1>2
<1>4. q <= q * d
  BY <1>3
<1>5. d # 1 => 2 * q <= q * d
  BY <1>3
<1> QED
  BY <1>1, <1>2, <1>3, <1>4, <1>5

LEMMA QuotientInRange ==
  ASSUME NEW n \in -IntLimit..(IntLimit - 1), NEW d \in -IntLimit..(IntLimit - 1),
         d # 0, ~ (n = -IntLimit /\ d = -1)
  PROVE  TruncatedQuotient(n, d) \in -IntLimit..(IntLimit - 1)
<1>0. IntLimit \in Nat \ {0}
  BY IntLimitAssumption
<1>1. Abs(n) \in Nat /\ Abs(d) \in Nat \ {0} /\ Abs(n) <= IntLimit
  BY <1>0 DEF Abs
<1>2. PICK q \in Int : q = Abs(n) \div Abs(d)
  BY <1>1
<1>3. q \in 0..Abs(n) /\ (Abs(d) # 1 /\ Abs(n) # 0 => q < Abs(n))
  BY <1>1, <1>2, QuotientBound
<1>4. CASE (n < 0) = (d < 0)
  <2>1. Abs(n) = IntLimit => Abs(d) # 1
    BY <1>0, <1>4 DEF Abs
  <2>2. q < IntLimit
    BY <1>0, <1>1, <1>3, <2>1
  <2> QED
    BY <1>0, <1>2, <1>3, <1>4, <2>2 DEF TruncatedQuotient
<1>5. CASE (n < 0) # (d < 0)
  BY <1>0, <1>1, <1>2, <1>3, <1>5 DEF TruncatedQuotient
<1> QED
  BY <1>4, <1>5

LEMMA ErrorsGive ==
  ASSUME NEW e, e # "None"
  PROVE  Gives(Err(e))
  BY DEF Gives, Err

LEMMA OkGives ==
  ASSUME NEW x, IsValue(x)
  PROVE  Gives(Ok(x))
  BY DEF Gives, Ok

LEMMA IntArithGives ==
  ASSUME NEW op \in ArithmeticOps, NEW l \in -IntLimit..(IntLimit - 1),
         NEW r \in -IntLimit..(IntLimit - 1)
  PROVE  Gives(IntArith(op, l, r))
<1>0. l \in Int /\ r \in Int /\ l + r \in Int /\ l - r \in Int /\ l * r \in Int
  BY IntLimitAssumption
<1>1. CASE op \in {"ADD", "SUBTRACT", "MULTIPLY"}
  <2>1. PICK n \in Int : IntArith(op, l, r) = Ok(Integer(Wrap(n)))
    BY <1>0, <1>1 DEF IntArith
  <2> QED
    BY <2>1, WrapInRange, IntegerIsValue, OkGives
<1>2. CASE op = "DIVIDE"
  <2>1. CASE r = 0
    BY <1>2, <2>1, ErrorsGive DEF IntArith
  <2>2. CASE r # 0 /\ l = -IntLimit /\ r = -1
    BY <1>2, <2>2, ErrorsGive DEF IntArith
  <2>3. CASE r # 0 /\ ~ (l = -IntLimit /\ r = -1)
    <3>1. IntArith(op, l, r) = Ok(Integer(TruncatedQuotient(l, r)))
      BY <1>2, <2>3 DEF IntArith
    <3> QED
      BY <2>3, <3>1, QuotientInRange, IntegerIsValue, OkGives
  <2> QED
    BY <2>1, <2>2, <2>3
<1> QED
  BY <1>1, <1>2 DEF ArithmeticOps

LEMMA FloatIsValue ==
  ASSUME NEW v
  PROVE  IsValue([type |-> "FLOAT", v |-> v])
  BY DEF IsValue

LEMMA ArithmeticGives ==
  ASSUME NEW op \in ArithmeticOps, NEW l, IsValue(l), NEW r, IsValue(r)
  PROVE  Gives(applyArithmetic(op, l, r))
<1>1. CASE l.type = "INTEGER" /\ r.type = "INTEGER"
  BY <1>1, IntegerValue, IntArithGives DEF applyArithmetic
<1>2. CASE l.type = "FLOAT" /\ r.type = "FLOAT"
  BY <1>2, FloatIsValue, OkGives DEF applyArithmetic
<1>3. CASE l.type = "TEXT" /\ r.type = "TEXT" /\ op = "ADD"
  <2>1. l.v \in Seq(Int) /\ r.v \in Seq(Int)
    BY <1>3 DEF IsValue
  <2>2. l.v \o r.v \in Seq(Int)
    BY <2>1
  <2>3. IsValue(Text(l.v \o r.v))
    BY <2>2 DEF IsValue, Text
  <2>4. applyArithmetic(op, l, r) = Ok(Text(l.v \o r.v))
    BY <1>3 DEF applyArithmetic
  <2> QED
    BY <2>3, <2>4, OkGives
<1>4. CASE /\ ~ (l.type = "INTEGER" /\ r.type = "INTEGER")
           /\ ~ (l.type = "FLOAT" /\ r.type = "FLOAT")
           /\ ~ (l.type = "TEXT" /\ r.type = "TEXT" /\ op = "ADD")
  BY <1>4, ErrorsGive DEF applyArithmetic
<1> QED
  BY <1>1, <1>2, <1>3, <1>4

LEMMA SignGives ==
  ASSUME NEW x, IsValue(x)
  PROVE  Gives(flipSignValue(x))
<1>1. CASE x.type = "INTEGER"
  <2>1. -x.v[1] \in Int
    BY <1>1, IntegerValue, IntLimitAssumption
  <2>2. flipSignValue(x) = Ok(Integer(Wrap(-x.v[1])))
    BY <1>1 DEF flipSignValue
  <2> QED
    BY <2>1, <2>2, WrapInRange, IntegerIsValue, OkGives
<1>2. CASE x.type = "FLOAT"
  <2>1. x = [type |-> "FLOAT", v |-> x.v]
    BY <1>2 DEF IsValue
  <2>2. PICK v : flipSignValue(x) = Ok([x EXCEPT !.v = v])
    BY <1>2 DEF flipSignValue
  <2>3. [x EXCEPT !.v = v] = [type |-> "FLOAT", v |-> v]
    BY <2>1
  <2> QED
    BY <2>2, <2>3, FloatIsValue, OkGives
<1>3. CASE x.type \notin {"INTEGER", "FLOAT"}
  BY <1>3, ErrorsGive DEF flipSignValue
<1> QED
  BY <1>1, <1>2, <1>3

LEMMA NotGives ==
  ASSUME NEW x
  PROVE  Gives(flipBoolValue(x))
<1>1. (x = Boolean(FALSE)) \in BOOLEAN
  OBVIOUS
<1>2. IsValue(Boolean(x = Boolean(FALSE)))
  BY <1>1, BooleanIsValue
<1> QED
  BY <1>2, OkGives, ErrorsGive DEF flipBoolValue

LEMMA ColumnGives ==
  ASSUME NEW row, \A i \in DOMAIN row : IsValue(row[i]), NEW columns, NEW name
  PROVE  Gives(columnValue(row, columns, name))
<1>1. CASE indexOf(columns, name) \in DOMAIN row
  BY <1>1, OkGives DEF columnValue
<1>2. CASE indexOf(columns, name) \notin DOMAIN row
  BY <1>2, ErrorsGive DEF columnValue
<1> QED
  BY <1>1, <1>2

(* Operands come before their operator, so the induction is over indices.  *)
LEMMA ResultGives ==
  ASSUME NEW exprs, AreExpressions(exprs), NEW i \in DOMAIN exprs, NEW results,
         NEW row, \A c \in DOMAIN row : IsValue(row[c]), NEW columns,
         \A j \in 1..(i - 1) : Gives(results[j])
  PROVE  Gives(ResultOf(exprs[i], results, row, columns))
<1> DEFINE e == exprs[i]
           res == ResultOf(e, results, row, columns)
<1>1. CASE e.kind = "LITERAL"
  <2>1. IsValue(e.value)
    BY <1>1 DEF AreExpressions
  <2>2. res = Ok(e.value)
    BY <1>1 DEF ResultOf
  <2> QED
    BY <2>1, <2>2, OkGives
<1>2. CASE e.kind = "COLUMN_REF"
  BY <1>2, ColumnGives DEF ResultOf
<1>3. CASE e.kind = "BINARY"
  <2>1. Gives(results[e.left]) /\ Gives(results[e.right])
    BY <1>3 DEF AreExpressions
  <2>2. res = LET l == results[e.left]
                  r == results[e.right]
              IN  IF l.err # "None" THEN l ELSE IF r.err # "None" THEN r
                  ELSE IF e.op \in ArithmeticOps THEN applyArithmetic(e.op, l.val, r.val)
                  ELSE Err("InvalidExpression")
    BY <1>3 DEF ResultOf, OnValues
  <2>3. CASE results[e.left].err # "None" \/ results[e.right].err # "None"
    BY <2>1, <2>2, <2>3
  <2>4. CASE results[e.left].err = "None" /\ results[e.right].err = "None"
    <3>1. IsValue(results[e.left].val) /\ IsValue(results[e.right].val)
      BY <2>1, <2>4 DEF Gives
    <3> QED
      BY <2>2, <2>4, <3>1, ArithmeticGives, ErrorsGive
  <2> QED
    BY <2>3, <2>4
<1>4. CASE e.kind = "UNARY"
  <2>1. Gives(results[e.operand])
    BY <1>4 DEF AreExpressions
  <2>2. CASE results[e.operand].err # "None"
    BY <1>4, <2>1, <2>2 DEF ResultOf
  <2>3. CASE results[e.operand].err = "None"
    <3>1. IsValue(results[e.operand].val)
      BY <2>1, <2>3 DEF Gives
    <3>2. res = IF e.op = "NEGATE" THEN flipSignValue(results[e.operand].val)
                ELSE flipBoolValue(results[e.operand].val)
      BY <1>4, <2>3 DEF ResultOf
    <3> QED
      BY <3>1, <3>2, SignGives, NotGives
  <2> QED
    BY <2>2, <2>3
<1>5. CASE e.kind \notin {"LITERAL", "COLUMN_REF", "BINARY", "UNARY"}
  BY <1>5, ErrorsGive DEF ResultOf
<1> QED
  BY <1>1, <1>2, <1>3, <1>4, <1>5

LEMMA SameResult ==
  ASSUME NEW exprs, AreExpressions(exprs), NEW i \in DOMAIN exprs, NEW f, NEW g,
         NEW row, NEW columns, \A j \in 1..(i - 1) : f[j] = g[j]
  PROVE  ResultOf(exprs[i], f, row, columns) = ResultOf(exprs[i], g, row, columns)
<1>1. CASE exprs[i].kind = "BINARY"
  <2>1. f[exprs[i].left] = g[exprs[i].left] /\ f[exprs[i].right] = g[exprs[i].right]
    BY <1>1 DEF AreExpressions
  <2> QED
    BY <1>1, <2>1 DEF ResultOf, OnValues
<1>2. CASE exprs[i].kind = "UNARY"
  <2>1. f[exprs[i].operand] = g[exprs[i].operand]
    BY <1>2 DEF AreExpressions
  <2> QED
    BY <1>2, <2>1 DEF ResultOf
<1>3. CASE exprs[i].kind \notin {"BINARY", "UNARY"}
  BY <1>3 DEF ResultOf
<1> QED
  BY <1>1, <1>2, <1>3

Evaluates(f, exprs, row, columns, n) ==
  f = [i \in 1..n |-> ResultOf(exprs[i], f, row, columns)]

LEMMA EvaluationExists ==
  ASSUME NEW exprs, IsSeq(exprs), AreExpressions(exprs), NEW row, NEW columns
  PROVE  \E f : Evaluates(f, exprs, row, columns, Len(exprs))
<1> DEFINE R(f, i) == ResultOf(exprs[i], f, row, columns)
           S == {n \in Nat : n <= Len(exprs) => \E f : Evaluates(f, exprs, row, columns, n)}
<1>0. Len(exprs) \in Nat /\ DOMAIN exprs = 1..Len(exprs)
  BY IsSeqFacts
<1>1. 0 \in S
  <2>1. PICK f : f = [i \in 1..0 |-> 0]
    OBVIOUS
  <2>2. f = [i \in 1..0 |-> R(f, i)]
    BY <2>1
  <2> QED
    BY <2>2 DEF Evaluates
<1>2. ASSUME NEW n \in S \cap Nat, n + 1 <= Len(exprs)
      PROVE  \E g : Evaluates(g, exprs, row, columns, n + 1)
  <2>1. PICK f : Evaluates(f, exprs, row, columns, n)
    BY <1>0, <1>2
  <2>2. PICK g : g = [i \in 1..(n + 1) |-> R(f, i)]
    OBVIOUS
  <2>3. \A i \in 1..n : f[i] = R(f, i)
    BY <2>1 DEF Evaluates
  <2>4. \A i \in 1..n : g[i] = f[i]
    BY <2>2, <2>3
  <2>5. ASSUME NEW i \in 1..(n + 1)
        PROVE  R(f, i) = R(g, i)
    <3>1. i \in DOMAIN exprs /\ \A j \in 1..(i - 1) : f[j] = g[j]
      BY <1>0, <1>2, <2>4
    <3> QED
      BY <3>1, SameResult
  <2> HIDE DEF R
  <2>6. g = [i \in 1..(n + 1) |-> R(g, i)]
    BY <2>2, <2>5
  <2> QED
    BY <2>6 DEF Evaluates, R
<1>3. \A n \in S \cap Nat : n + 1 \in S
  BY <1>2
<1> HIDE DEF S
<1>4. Len(exprs) \in S
  BY <1>0, <1>1, <1>3, NatSet
<1> QED
  BY <1>0, <1>4 DEF S

LEMMA EvalExprDef ==
  ASSUME NEW exprs, IsSeq(exprs), NEW row, NEW columns, NEW index, NEW g,
         Evaluates(g, exprs, row, columns, Len(exprs))
  PROVE  \E f : /\ Evaluates(f, exprs, row, columns, Len(exprs))
                /\ evalExpr(index, exprs, row, columns) = f[index]
<1>1. DOMAIN exprs = 1..Len(exprs)
  BY IsSeqFacts
<1>2. g = [i \in DOMAIN exprs |-> ResultOf(exprs[i], g, row, columns)]
  BY <1>1 DEF Evaluates
<1>3. PICK f : /\ f = [i \in DOMAIN exprs |-> ResultOf(exprs[i], f, row, columns)]
               /\ evalExpr(index, exprs, row, columns) = f[index]
  BY <1>2, Zenon DEF evalExpr
<1> QED
  BY <1>1, <1>3 DEF Evaluates

(* evalExpr returns an error or a value, whatever it is applied to: an     *)
(* INTEGER wraps around, is divided by no zero, and -2^63 not by -1.       *)
THEOREM ExpressionsGive ==
  ASSUME NEW exprs, IsSeq(exprs), AreExpressions(exprs),
         NEW row, \A c \in DOMAIN row : IsValue(row[c]), NEW columns,
         NEW index \in DOMAIN exprs
  PROVE  Gives(evalExpr(index, exprs, row, columns))
<1>0. Len(exprs) \in Nat /\ DOMAIN exprs = 1..Len(exprs)
  BY IsSeqFacts
<1>1. PICK f : /\ Evaluates(f, exprs, row, columns, Len(exprs))
               /\ evalExpr(index, exprs, row, columns) = f[index]
  BY EvaluationExists, EvalExprDef
<1>2. \A i \in 1..Len(exprs) : f[i] = ResultOf(exprs[i], f, row, columns)
  BY <1>1 DEF Evaluates
<1> DEFINE S == {n \in Nat : \A i \in DOMAIN exprs : i <= n => Gives(f[i])}
<1>3. 0 \in S
  BY <1>0
<1>4. ASSUME NEW n \in S \cap Nat, NEW i \in DOMAIN exprs, i <= n + 1
      PROVE  Gives(f[i])
  <2>1. \A j \in 1..(i - 1) : Gives(f[j])
    BY <1>0, <1>4
  <2>2. Gives(ResultOf(exprs[i], f, row, columns))
    BY <2>1, ResultGives
  <2> QED
    BY <1>0, <1>2, <2>2
<1>5. \A n \in S \cap Nat : n + 1 \in S
  BY <1>4
<1> HIDE DEF S
<1>6. Len(exprs) \in S
  BY <1>0, <1>3, <1>5, NatSet
<1> QED
  BY <1>0, <1>1, <1>6 DEF S

(* The rows that INSERT and UPDATE build hold values.                      *)
RowOfValues(row) == \A i \in DOMAIN row : IsValue(row[i])

LEMMA AllSucceed ==
  ASSUME NEW n \in Nat, NEW results, DOMAIN results = 1..n,
         Collect(results).err = "None"
  PROVE  \A i \in 1..n : results[i].err = "None"
<1>1. ASSUME NEW k \in DOMAIN results
      PROVE  ~ IsFirstError(results, k)
  <2> DEFINE j == CHOOSE j \in DOMAIN results : IsFirstError(results, j)
  <2>1. CASE IsFirstError(results, k)
    <3>1. IsFirstError(results, j)
      BY <2>1
    <3>2. Collect(results) = results[j]
      BY <2>1 DEF Collect
    <3> QED
      BY <3>1, <3>2 DEF IsFirstError
  <2> QED
    BY <2>1
<1> DEFINE S == {m \in Nat : \A i \in 1..n : i <= m => results[i].err = "None"}
<1>2. 0 \in S
  OBVIOUS
<1>3. ASSUME NEW m \in S \cap Nat, NEW i \in 1..n, i <= m + 1
      PROVE  results[i].err = "None"
  <2>1. \A j \in 1..(i - 1) : results[j].err = "None"
    BY <1>3
  <2> QED
    BY <1>1, <2>1 DEF IsFirstError
<1>4. \A m \in S \cap Nat : m + 1 \in S
  BY <1>3
<1> HIDE DEF S
<1>5. n \in S
  BY <1>2, <1>4, NatSet
<1> QED
  BY <1>5 DEF S

LEMMA CollectGives ==
  ASSUME NEW n \in Nat, NEW results, DOMAIN results = 1..n,
         \A i \in 1..n : Gives(results[i]), Collect(results).err = "None"
  PROVE  RowOfValues(Collect(results).val)
<1>1. \A i \in 1..n : IsValue(results[i].val)
  BY AllSucceed DEF Gives
<1>2. Collect(results).val = [i \in DOMAIN results |-> results[i].val]
  BY CollectOk
<1> QED
  BY <1>1, <1>2 DEF RowOfValues

LEMMA ListedColumn ==
  ASSUME NEW names, NEW name, indexOf(names, name) # 0
  PROVE  indexOf(names, name) \in DOMAIN names
  BY DEF indexOf

LEMMA InsertingGives ==
  ASSUME NEW s \in Statements, Inserting(s).err = "None"
  PROVE  RowOfValues(Inserting(s).val)
<1> DEFINE Value(k) == evalExpr(s.insertValues[k], s.exprs, << >>, << >>)
           listed(c) == indexOf(s.insertColumnNames, Columns[c].name)
<1>1. ASSUME NEW k \in DOMAIN s.insertValues
      PROVE  Gives(Value(k))
  <2>1. /\ s.insertValues \in Seq(DOMAIN s.exprs)
        /\ IsSeq(s.exprs) /\ AreExpressions(s.exprs)
    BY StatementsAssumption DEF IsSeq
  <2>2. s.insertValues[k] \in DOMAIN s.exprs
    BY <2>1
  <2>3. \A c \in DOMAIN << >> : IsValue(<< >>[c])
    OBVIOUS
  <2> QED
    BY <2>1, <2>2, <2>3, ExpressionsGive
<1>2. CASE s.insertColumnNames = << >>
  <2>1. PICK results : results = [k \in DOMAIN s.insertValues |-> Value(k)]
    OBVIOUS
  <2>2. Inserting(s) = Collect(results)
    BY <1>2, <2>1 DEF Inserting, rowFromInsertValues
  <2>3. DOMAIN results = 1..Len(s.insertValues) /\ Len(s.insertValues) \in Nat
    BY <2>1, StatementsAssumption
  <2>4. \A i \in 1..Len(s.insertValues) : Gives(results[i])
    BY <1>1, <2>1, <2>3
  <2> QED
    BY <2>2, <2>3, <2>4, CollectGives
<1>3. CASE s.insertColumnNames # << >>
  <2>0. /\ s.insertColumnNames \in Seq(STRING) /\ s.insertValues \in Seq(DOMAIN s.exprs)
        /\ Len(s.insertColumnNames) <= Len(s.insertValues)
    BY <1>3, StatementsAssumption
  <2>1. PICK results : results = [c \in DOMAIN Columns |->
            CASE listed(c) # 0                      -> Value(listed(c))
              [] listed(c) = 0 /\ Columns[c].notNull -> Err("NotNullViolation")
              [] OTHER                              -> Ok(NULL)]
    OBVIOUS
  <2>2. Inserting(s) = Collect(results)
    BY <1>3, <2>1 DEF Inserting, rowFromInsertValues
  <2>3. DOMAIN results = 1..Len(Columns) /\ Len(Columns) \in Nat
    BY <2>1, ColumnsAssumption
  <2>4. ASSUME NEW c \in DOMAIN Columns
        PROVE  Gives(results[c])
    <3>1. CASE listed(c) # 0
      <4>1. listed(c) \in DOMAIN s.insertColumnNames
        BY <3>1, ListedColumn
      <4>2. listed(c) \in DOMAIN s.insertValues
        BY <1>3, <4>1, <2>0
      <4> QED
        BY <1>1, <2>1, <3>1, <4>2
    <3>2. CASE listed(c) = 0 /\ Columns[c].notNull
      BY <2>1, <3>2, ErrorsGive
    <3>3. CASE listed(c) = 0 /\ ~ Columns[c].notNull
      <4>1. IsValue(NULL)
        BY DEF IsValue, NULL
      <4> QED
        BY <2>1, <3>3, <4>1, OkGives
    <3> QED
      BY <3>1, <3>2, <3>3
  <2>5. \A i \in 1..Len(Columns) : Gives(results[i])
    BY <2>3, <2>4, ColumnsAssumption
  <2> QED
    BY <2>2, <2>3, <2>5, CollectGives
<1> QED
  BY <1>2, <1>3

LEMMA UpdatingGives ==
  ASSUME NEW s \in Statements, NEW row, RowOfValues(row), Updating(s, row).err = "None"
  PROVE  RowOfValues(Updating(s, row).val)
<1> DEFINE names == columnNames(Columns)
           target(a) == indexOf(names, s.assignments[a].column)
           results == [a \in DOMAIN s.assignments |->
                  IF target(a) = 0 THEN Err("ErrorGettingData")
                  ELSE evalExpr(s.assignments[a].expr, s.exprs, row, names)]
           IsLast(a, c) == /\ target(a) = c
                           /\ \A b \in DOMAIN s.assignments : target(b) = c => b <= a
<1>0. PICK n \in Nat : /\ DOMAIN s.assignments = 1..n
                       /\ \A a \in 1..n : s.assignments[a].expr \in DOMAIN s.exprs
  <2> DEFINE A == [column : STRING, expr : DOMAIN s.exprs]
  <2>1. s.assignments \in Seq(A)
    BY StatementsAssumption
  <2>2. \A a \in A : a.expr \in DOMAIN s.exprs
    OBVIOUS
  <2> HIDE DEF A
  <2>3. /\ DOMAIN s.assignments = 1..Len(s.assignments) /\ Len(s.assignments) \in Nat
        /\ \A a \in DOMAIN s.assignments : s.assignments[a] \in A
    BY <2>1
  <2> QED
    BY <2>2, <2>3
<1>1. ASSUME NEW a \in DOMAIN s.assignments
      PROVE  Gives(results[a])
  <2>1. IsSeq(s.exprs) /\ AreExpressions(s.exprs)
    BY StatementsAssumption DEF IsSeq
  <2>2. Gives(evalExpr(s.assignments[a].expr, s.exprs, row, names))
    BY <1>0, <2>1, ExpressionsGive DEF RowOfValues
  <2> QED
    BY <2>2, ErrorsGive
<1>3. PICK values : values = Collect(results)
  OBVIOUS
<1>4. Updating(s, row) = IF values.err # "None" THEN values
     ELSE Ok([c \in DOMAIN row |->
            IF \E a \in DOMAIN s.assignments : IsLast(a, c)
            THEN values.val[CHOOSE a \in DOMAIN s.assignments : IsLast(a, c)]
            ELSE row[c]])
  BY <1>3 DEF Updating, rowFromUpdate
<1>5. values.err = "None"
  BY <1>4
<1>6. RowOfValues(values.val) /\ DOMAIN values.val = DOMAIN s.assignments
  <2>1. DOMAIN results = 1..n
    BY <1>0
  <2>2. \A a \in 1..n : Gives(results[a])
    BY <1>0, <1>1
  <2> HIDE DEF results
  <2>3. RowOfValues(values.val) /\ DOMAIN values.val = 1..n
    BY <1>3, <1>5, <2>1, <2>2, CollectGives, CollectOk
  <2> QED
    BY <1>0, <2>3
<1> HIDE DEF results
<1>7. ASSUME NEW c \in DOMAIN row
      PROVE  IsValue(IF \E a \in DOMAIN s.assignments : IsLast(a, c)
                     THEN values.val[CHOOSE a \in DOMAIN s.assignments : IsLast(a, c)]
                     ELSE row[c])
  <2> HIDE DEF IsLast
  <2> QED
    BY <1>6 DEF RowOfValues
<1>8. Updating(s, row).val = [c \in DOMAIN row |->
            IF \E a \in DOMAIN s.assignments : IsLast(a, c)
            THEN values.val[CHOOSE a \in DOMAIN s.assignments : IsLast(a, c)]
            ELSE row[c]]
  BY <1>4, <1>5 DEF Ok
<1> QED
  BY <1>7, <1>8 DEF RowOfValues

-----------------------------------------------------------------------------
(* Free bytes only shrink, and never below zero.                           *)
BytesInv(pg) == pg.free \in 0..Capacity /\ \A i \in DOMAIN pg.rows : RowOfValues(pg.rows[i])

(* The largest row of the schema, column by column.                        *)
Widths(f, n) ==
  f = [i \in 0..n |-> IF i = 0 THEN 0 ELSE f[i - 1] + MaxValueSize(Columns[i])]

LEMMA WidthsExist ==
  ASSUME NEW m \in Nat
  PROVE  \E f : Widths(f, m)
<1> DEFINE S == {n \in Nat : \E f : Widths(f, n)}
<1>1. 0 \in S
  <2>1. PICK f : f = [i \in 0..0 |-> 0]
    OBVIOUS
  <2>2. f = [i \in 0..0 |-> IF i = 0 THEN 0 ELSE f[i - 1] + MaxValueSize(Columns[i])]
    BY <2>1
  <2> QED
    BY <2>2 DEF Widths
<1>2. ASSUME NEW n \in S \cap Nat
      PROVE  n + 1 \in S
  <2>1. PICK f : Widths(f, n)
    OBVIOUS
  <2>2. PICK g : g = [i \in 0..(n + 1) |->
                        IF i = n + 1 THEN f[n] + MaxValueSize(Columns[n + 1]) ELSE f[i]]
    OBVIOUS
  <2>3. ASSUME NEW i \in 0..(n + 1)
        PROVE  g[i] = IF i = 0 THEN 0 ELSE g[i - 1] + MaxValueSize(Columns[i])
    <3>1. CASE i = n + 1
      <4>1. i # 0 /\ i - 1 = n /\ n \in 0..(n + 1) /\ n # n + 1
        BY <3>1
      <4> QED
        BY <2>2, <3>1, <4>1
    <3>2. CASE i \in 0..n
      <4>1. f[i] = IF i = 0 THEN 0 ELSE f[i - 1] + MaxValueSize(Columns[i])
        BY <2>1, <3>2 DEF Widths
      <4>2. i # n + 1 /\ (i # 0 => i - 1 \in 0..(n + 1) /\ i - 1 # n + 1)
        BY <3>2
      <4> QED
        BY <2>2, <4>1, <4>2
    <3> QED
      BY <3>1, <3>2
  <2>4. Widths(g, n + 1)
    BY <2>2, <2>3 DEF Widths
  <2> QED
    BY <2>4
<1> HIDE DEF S
<1>3. m \in S
  BY <1>1, <1>2, NatSet
<1> QED
  BY <1>3 DEF S

LEMMA MaxRowSizeDef ==
  ASSUME NEW g, Widths(g, Len(Columns))
  PROVE  \E f : Widths(f, Len(Columns)) /\ MaxRowSize(Columns) = f[Len(Columns)]
  BY Zenon DEF MaxRowSize, Widths

LEMMA FittingValueSize ==
  ASSUME NEW i \in DOMAIN Columns, NEW x, IsValue(x), Fits(x, Columns[i])
  PROVE  /\ ValueSize(x) \in Nat /\ MaxValueSize(Columns[i]) \in Nat
         /\ ValueSize(x) <= MaxValueSize(Columns[i])
<1>1. Columns[i].type \in DataTypes /\ Columns[i].textLength \in Nat
  <2> DEFINE Column == [name : STRING, type : DataTypes, textLength : Nat,
                        notNull : BOOLEAN, primaryKey : BOOLEAN]
  <2>1. Columns \in Seq(Column)
    BY ColumnsAssumption
  <2> HIDE DEF Column
  <2>2. Columns[i] \in Column
    BY <2>1
  <2> QED
    BY <2>2 DEF Column
<1>2. ValueSize(x) \in Nat
  BY SizeOfValue
<1>3. CASE x = NULL
  BY <1>1, <1>3 DEF ValueSize, MaxValueSize, NULL
<1>4. CASE x.type = Columns[i].type /\ x.type = "TEXT"
  <2>1. Len(x.v) <= Columns[i].textLength
    BY <1>4, <1>3 DEF Fits, NULL
  <2>2. Len(x.v) \in Nat
    BY <1>4 DEF IsValue
  <2> QED
    BY <1>1, <1>4, <2>1, <2>2 DEF ValueSize, MaxValueSize
<1>5. CASE x.type = Columns[i].type /\ x.type # "TEXT"
  BY <1>1, <1>5 DEF ValueSize, MaxValueSize, DataTypes
<1> QED
  BY <1>2, <1>3, <1>4, <1>5 DEF Fits

(* The cast to uint16_t is the identity on every row that fits the schema. *)
LEMMA SizeOfRowOK ==
  ASSUME NEW row, RowOK(row), RowOfValues(row)
  PROVE  RowLength(row) \in Nat /\ RowLength(row) = RowSize(row)
<1>1. /\ Len(row) \in Nat /\ DOMAIN row = 1..Len(row)
      /\ Len(row) = Len(Columns) /\ DOMAIN Columns = 1..Len(Columns)
  BY ColumnsAssumption DEF RowOK, RowFits
<1>2. RowSize(row) \in Nat
  BY <1>1, SizeOfRow DEF RowOfValues
<1>3. PICK f : Sizes(f, row, Len(row)) /\ RowSize(row) = f[Len(row)]
  BY <1>1, SizesExist, RowSizeDef
<1>4. PICK w : Widths(w, Len(Columns)) /\ MaxRowSize(Columns) = w[Len(Columns)]
  BY <1>1, WidthsExist, MaxRowSizeDef
<1>5. \A i \in 0..Len(row) : f[i] = IF i = 0 THEN 0 ELSE f[i - 1] + ValueSize(row[i])
  BY <1>3 DEF Sizes
<1>6. \A i \in 0..Len(row) :
        w[i] = IF i = 0 THEN 0 ELSE w[i - 1] + MaxValueSize(Columns[i])
  BY <1>1, <1>4 DEF Widths
<1> DEFINE S == {n \in Nat : n <= Len(row) => f[n] \in Nat /\ w[n] \in Nat /\ f[n] <= w[n]}
<1>7. 0 \in S
  BY <1>1, <1>5, <1>6
<1>8. ASSUME NEW n \in S \cap Nat, n + 1 <= Len(row)
      PROVE  f[n + 1] \in Nat /\ w[n + 1] \in Nat /\ f[n + 1] <= w[n + 1]
  <2>1. /\ n + 1 \in 1..Len(row) /\ n + 1 \in 0..Len(row) /\ (n + 1) - 1 = n /\ n + 1 # 0
        /\ f[n] \in Nat /\ w[n] \in Nat /\ f[n] <= w[n]
    BY <1>1, <1>8
  <2>2. IsValue(row[n + 1]) /\ Fits(row[n + 1], Columns[n + 1]) /\ n + 1 \in DOMAIN Columns
    BY <1>1, <2>1 DEF RowOK, RowFits, RowOfValues
  <2>3. /\ ValueSize(row[n + 1]) \in Nat /\ MaxValueSize(Columns[n + 1]) \in Nat
        /\ ValueSize(row[n + 1]) <= MaxValueSize(Columns[n + 1])
    BY <2>2, FittingValueSize
  <2>4. /\ f[n + 1] = f[n] + ValueSize(row[n + 1])
        /\ w[n + 1] = w[n] + MaxValueSize(Columns[n + 1])
    BY <1>5, <1>6, <2>1
  <2> QED
    BY <2>1, <2>3, <2>4
<1>9. \A n \in S \cap Nat : n + 1 \in S
  BY <1>8
<1> HIDE DEF S
<1>10. Len(row) \in S
  BY <1>1, <1>7, <1>9, NatSet
<1>11. RowSize(row) <= MaxRowSize(Columns) /\ MaxRowSize(Columns) \in Nat
  BY <1>1, <1>3, <1>4, <1>10 DEF S
<1>12. RowSize(row) < UINT16 /\ UINT16 \in Nat \ {0}
  BY <1>2, <1>11, RowLengthAssumption
<1>13. RowSize(row) % UINT16 = RowSize(row)
  <2>1. \A m \in Nat, u \in Nat \ {0} : m < u => m % u = m
    OBVIOUS
  <2> QED
    BY <1>2, <1>12, <2>1
<1> QED
  BY <1>2, <1>13 DEF RowLength

LEMMA EmptyPageBytes == BytesInv(EmptyPage)
  BY SizesAssumption DEF BytesInv, EmptyPage

LEMMA InsertedBytes ==
  ASSUME NEW pg, PageInv(pg), BytesInv(pg), NEW row, RowOK(row), RowOfValues(row),
         HasRoom(pg, row)
  PROVE  BytesInv(Inserted(pg, row))
<1>1. Inserted(pg, row).free \in 0..Capacity
  BY SizeOfRowOK, SizesAssumption DEF BytesInv, Inserted, HasRoom, SLOT_ENTRY_SIZE
<1>2. ASSUME NEW i \in DOMAIN Inserted(pg, row).rows
      PROVE  RowOfValues(Inserted(pg, row).rows[i])
  BY <1>2, RowAppended DEF BytesInv
<1> QED
  BY <1>1, <1>2 DEF BytesInv

LEMMA WithoutBytes ==
  ASSUME NEW pg, BytesInv(pg), NEW at
  PROVE  BytesInv(WithoutRow(pg, at))
<1>1. RowOfValues(Deleted)
  BY DEF RowOfValues, Deleted
<1> QED
  BY <1>1 DEF BytesInv, WithoutRow

LEMMA UpdatedBytes ==
  ASSUME NEW pg, PageInv(pg), BytesInv(pg), NEW at \in Nat,
         NEW row, RowOK(row), RowOfValues(row), at < NumSlots(pg), ~ SlotDeleted(pg, at),
         UpdateError(pg, at, row) = "None"
  PROVE  BytesInv(Updated(pg, at, row))
<1>1. at + 1 \in DOMAIN pg.rows
  BY IsSeqFacts DEF PageInv, NumSlots
<1>2. RowOK(RowOf(pg, at)) /\ RowOfValues(RowOf(pg, at))
  BY <1>1 DEF PageInv, BytesInv, RowOf, SlotDeleted
<1>3. RowLength(row) \in Nat /\ RowLength(RowOf(pg, at)) \in Nat
  BY <1>2, SizeOfRowOK
<1>4. Grows(pg, at, row) => pg.free >= RowLength(row)
  <2>1. SlotError(pg, at) = "None"
    BY <1>1, IsSeqFacts DEF SlotError, PageInv, NumSlots
  <2> QED
    BY <1>3, <2>1 DEF UpdateError, BytesInv
<1>5. Updated(pg, at, row).free \in 0..Capacity
  BY <1>3, <1>4, SizesAssumption DEF BytesInv, Updated
<1>6. Updated(pg, at, row).rows = [pg.rows EXCEPT ![at + 1] = row]
  BY DEF Updated
<1> QED
  BY <1>5, <1>6 DEF BytesInv

TypeInv ==
  /\ \A p \in DOMAIN disk : BytesInv(disk[p])
  /\ BytesInv(page)
  /\ Len(disk) <= MaxPages
  /\ stmt \in Statements \cup {NoStatement}
  /\ pc \in {"idle", "read", "slot", "insert", "fill", "done"}
  /\ pageIndex \in 1..(Len(disk) + 1)
  /\ slot \in 0..NumSlots(page)
  /\ pc # "slot" => slot = 0

LEMMA InitTypeInv == Init => TypeInv
<1> SUFFICES ASSUME Init PROVE TypeInv
  OBVIOUS
<1>1. /\ disk = << >> /\ pc = "idle" /\ page = EmptyPage /\ slot = 0 /\ pageIndex = 1
      /\ stmt = NoStatement
  BY DEF Init
<1>2. Len(disk) = 0 /\ DOMAIN disk = {} /\ NumSlots(EmptyPage) = 0
  BY <1>1 DEF NumSlots, EmptyPage
<1> QED
  BY <1>1, <1>2, EmptyPageBytes, SizesAssumption DEF TypeInv

(* A step that leaves the scan, with the file as it was.                   *)
LEMMA LeaveTypeInv ==
  ASSUME ExecInv, TypeInv, LeaveScan, pc' = "done", stmt' = stmt,
         \A p \in DOMAIN disk' : BytesInv(disk'[p]),
         Len(disk') = Len(disk)
  PROVE  TypeInv'
<1>1. page' = EmptyPage /\ slot' = 0 /\ pageIndex' = 1
  BY DEF LeaveScan
<1>2. NumSlots(EmptyPage) = 0 /\ Len(disk) \in Nat
  BY IsSeqFacts DEF NumSlots, EmptyPage, ExecInv, FileInv
<1> QED
  BY <1>1, <1>2, EmptyPageBytes DEF TypeInv

LEMMA AbortTypeInv ==
  ASSUME ExecInv, TypeInv, NEW e, Abort(e)
  PROVE  TypeInv'
<1>1. LeaveScan /\ pc' = "done" /\ stmt' = stmt /\ disk' = disk
  BY DEF Abort
<1>2. \A p \in DOMAIN disk' : BytesInv(disk'[p])
  BY <1>1 DEF TypeInv
<1> QED
  BY <1>1, <1>2, LeaveTypeInv

LEMMA RowInsertedTypeInv ==
  ASSUME ExecInv, TypeInv, NEW p \in DOMAIN disk, pc \in {"insert", "fill"},
         InsertRowError(stmt) = "None", HasRoom(disk[p], Inserting(stmt).val),
         disk' = [disk EXCEPT ![p] = Inserted(disk[p], Inserting(stmt).val)],
         pc' = "done", LeaveScan, stmt' = stmt
  PROVE  TypeInv'
<1> DEFINE row == Inserting(stmt).val
           new == Inserted(disk[p], row)
<1>1. stmt \in Statements /\ Inserting(stmt).err = "None"
  BY DEF ExecInv, StmtInv, InsertRowError
<1>2. RowOK(row) /\ RowOfValues(row)
  BY <1>1, InsertedRow, InsertingGives
<1>3. IsSeq(disk) /\ PageInv(disk[p]) /\ BytesInv(disk[p])
  BY DEF ExecInv, FileInv, TypeInv
<1>4. BytesInv(new)
  BY <1>2, <1>3, InsertedBytes
<1> HIDE DEF new
<1>5. disk' = [disk EXCEPT ![p] = new]
  BY DEF new
<1>6. Len(disk') = Len(disk) /\ \A q \in DOMAIN disk' : BytesInv(disk'[q])
  BY <1>3, <1>4, <1>5, ExceptIsSeq DEF TypeInv
<1> QED
  BY <1>6, LeaveTypeInv

LEMMA UpdateRowTypeInv == ExecInv /\ TypeInv /\ UpdateRow => TypeInv'
<1> SUFFICES ASSUME ExecInv, TypeInv, UpdateRow PROVE TypeInv'
  OBVIOUS
<1> DEFINE old == RowOf(page, slot)
           new == Updating(stmt, old).val
<1>1. /\ pc = "slot" /\ slot < NumSlots(page) /\ ~ SlotDeleted(page, slot)
      /\ stmt.kind = "UPDATE" /\ UpdateRowError(stmt, page, slot, old) = "None"
      /\ page' = Updated(page, slot, new)
      /\ slot' = slot + 1 /\ UNCHANGED <<disk, pc, pageIndex, stmt>>
  BY DEF UpdateRow, Chosen, AtRow, AtSlot
<1>2. /\ Updating(stmt, old).err = "None"
      /\ SerializeError(new, Columns) = "None"
      /\ UpdateError(page, slot, new) = "None"
  BY <1>1 DEF UpdateRowError, Reported
<1>3. stmt \in Statements
  BY <1>1 DEF TypeInv, NoStatement
<1>4. PageInv(page) /\ slot \in Nat /\ BytesInv(page)
  BY DEF ExecInv, ScanInv, TypeInv
<1>5. slot + 1 \in DOMAIN page.rows
  BY <1>1, <1>4, IsSeqFacts DEF PageInv, NumSlots
<1>6. RowOK(old) /\ RowOfValues(old)
  BY <1>1, <1>4, <1>5 DEF PageInv, RowOf, SlotDeleted, BytesInv
<1> HIDE DEF old
<1>7. RowOK(new) /\ RowOfValues(new)
  BY <1>2, <1>3, <1>6, UpdatedRow, UpdatingGives, SerializedRowFits DEF RowOK
<1> HIDE DEF new
<1>8. BytesInv(Updated(page, slot, new))
  BY <1>1, <1>2, <1>4, <1>7, UpdatedBytes
<1>9. NumSlots(Updated(page, slot, new)) = NumSlots(page) /\ NumSlots(page) \in Nat
  BY <1>4, <1>5, ExceptIsSeq, IsSeqFacts DEF PageInv, NumSlots, Updated
<1> QED
  BY <1>1, <1>4, <1>8, <1>9 DEF TypeInv

LEMMA DeleteRowTypeInv == ExecInv /\ TypeInv /\ DeleteRow => TypeInv'
<1> SUFFICES ASSUME ExecInv, TypeInv, DeleteRow PROVE TypeInv'
  OBVIOUS
<1>1. /\ pc = "slot" /\ slot < NumSlots(page) /\ page' = WithoutRow(page, slot)
      /\ slot' = slot + 1 /\ UNCHANGED <<disk, pc, pageIndex, stmt>>
  BY DEF DeleteRow, Chosen, AtRow, AtSlot
<1>2. PageInv(page) /\ slot \in Nat /\ BytesInv(page)
  BY DEF ExecInv, ScanInv, TypeInv
<1>3. slot + 1 \in DOMAIN page.rows
  BY <1>1, <1>2, IsSeqFacts DEF PageInv, NumSlots
<1>4. NumSlots(WithoutRow(page, slot)) = NumSlots(page) /\ NumSlots(page) \in Nat
  BY <1>2, <1>3, ExceptIsSeq, IsSeqFacts DEF PageInv, NumSlots, WithoutRow
<1> QED
  BY <1>1, <1>2, <1>4, WithoutBytes DEF TypeInv

LEMMA AllocatePageTypeInv == ExecInv /\ TypeInv /\ AllocatePage => TypeInv'
<1> SUFFICES ASSUME ExecInv, TypeInv, AllocatePage PROVE TypeInv'
  OBVIOUS
<1>1. /\ pc = "insert" /\ Len(disk) < MaxPages
      /\ disk' = Append(disk, EmptyPage)
      /\ pageIndex' = Len(disk) + 1 /\ pc' = "fill"
      /\ UNCHANGED <<stmt, page, slot>>
  BY DEF AllocatePage, NoPageHasRoom
<1>2. IsSeq(disk) /\ Len(disk) \in Nat /\ DOMAIN disk = 1..Len(disk)
  BY IsSeqFacts DEF ExecInv, FileInv
<1>3. /\ IsSeq(disk') /\ Len(disk') = Len(disk) + 1 /\ DOMAIN disk' = 1..(Len(disk) + 1)
      /\ \A i \in 1..Len(disk) : disk'[i] = disk[i]
      /\ disk'[Len(disk) + 1] = EmptyPage
  BY <1>1, <1>2, AppendIsSeq, IsSeqFacts
<1>4. ASSUME NEW p \in DOMAIN disk'
      PROVE  BytesInv(disk'[p])
  <2>1. CASE p \in DOMAIN disk
    BY <1>2, <1>3, <2>1 DEF TypeInv
  <2>2. CASE p = Len(disk) + 1
    BY <1>3, <2>2, EmptyPageBytes
  <2> QED
    BY <1>2, <1>3, <2>1, <2>2
<1> QED
  BY <1>1, <1>2, <1>3, <1>4, SizesAssumption DEF TypeInv

LEMMA EndOfPageTypeInv == ExecInv /\ TypeInv /\ EndOfPage => TypeInv'
<1> SUFFICES ASSUME ExecInv, TypeInv, EndOfPage PROVE TypeInv'
  OBVIOUS
<1>1. /\ pc = "slot" /\ disk' \in {disk, InMemory}
      /\ pageIndex' = pageIndex + 1 /\ page' = EmptyPage /\ slot' = 0
      /\ pc' = "read" /\ stmt' = stmt
  BY DEF EndOfPage
<1>2. FileInv /\ IsSeq(disk) /\ pageIndex \in DOMAIN disk
  BY <1>1 DEF ExecInv, ScanInv, FileInv
<1>3. Len(disk) \in Nat /\ DOMAIN disk = 1..Len(disk) /\ NumSlots(EmptyPage) = 0
  BY <1>2, IsSeqFacts DEF NumSlots, EmptyPage
<1>4. /\ DOMAIN InMemory = DOMAIN disk /\ Len(InMemory) = Len(disk)
      /\ \A p \in DOMAIN disk : BytesInv(InMemory[p])
  BY <1>2, InMemoryFacts, ExceptIsSeq DEF InMemory, TypeInv
<1> QED
  BY <1>1, <1>2, <1>3, <1>4, EmptyPageBytes DEF TypeInv

(* Steps that leave the file and the page in memory alone.                 *)
LEMMA QuietTypeInv ==
  ASSUME ExecInv, TypeInv, UNCHANGED <<disk, page, pageIndex>>,
         stmt' \in Statements \cup {NoStatement},
         pc' \in {"idle", "read", "slot", "insert", "done"},
         \/ slot' = slot /\ (pc' = "slot" \/ pc # "slot")
         \/ slot' = slot + 1 /\ pc' = "slot" /\ slot < NumSlots(page)
  PROVE  TypeInv'
<1>0. NumSlots(page) \in Nat /\ slot \in Nat
  BY IsSeqFacts DEF ExecInv, ScanInv, PageInv, NumSlots
<1>1. BytesInv(page') /\ \A p \in DOMAIN disk' : BytesInv(disk'[p])
  BY DEF TypeInv
<1>2. slot' \in 0..NumSlots(page)
  <2>1. CASE slot' = slot
    BY <2>1 DEF TypeInv
  <2>2. CASE slot' = slot + 1 /\ slot < NumSlots(page)
    BY <1>0, <2>2 DEF TypeInv
  <2> QED
    BY <2>1, <2>2
<1> QED
  BY <1>1, <1>2 DEF TypeInv

LEMMA StepTypeInv == ExecInv /\ TypeInv /\ [Next]_vars => TypeInv'
<1> SUFFICES ASSUME ExecInv, TypeInv, [Next]_vars PROVE TypeInv'
  OBVIOUS
<1>0. /\ stmt \in Statements \cup {NoStatement}
      /\ pc \in {"idle", "read", "slot", "insert", "fill", "done"}
      /\ IsSeq(disk) /\ Len(disk) \in Nat /\ DOMAIN disk = 1..Len(disk)
      /\ \A p \in DOMAIN disk : BytesInv(disk[p])
  BY IsSeqFacts DEF TypeInv, ExecInv, FileInv
<1>1. CASE ReadPage
  <2>1. /\ pc = "read" /\ pageIndex <= Len(disk) /\ page' = disk[pageIndex] /\ pc' = "slot"
        /\ UNCHANGED <<disk, stmt, pageIndex, slot>>
    BY <1>1 DEF ReadPage
  <2>2. pageIndex \in DOMAIN disk /\ slot = 0
    BY <1>0, <2>1 DEF TypeInv
  <2>3. BytesInv(disk[pageIndex]) /\ NumSlots(disk[pageIndex]) \in Nat
    BY <1>0, <2>2, IsSeqFacts DEF ExecInv, FileInv, PageInv, NumSlots
  <2> QED
    BY <1>0, <2>1, <2>2, <2>3 DEF TypeInv
<1>2. CASE EndOfTable
  BY <1>0, <1>2, LeaveTypeInv DEF EndOfTable
<1>3. CASE SkipSlot
  BY <1>0, <1>3, QuietTypeInv DEF SkipSlot, AtSlot
<1>4. CASE WhereFails
  BY <1>4, AbortTypeInv DEF WhereFails
<1>5. CASE SelectRow
  BY <1>0, <1>5, QuietTypeInv DEF SelectRow, Chosen, AtRow, AtSlot
<1>6. CASE DeleteRow
  BY <1>6, DeleteRowTypeInv
<1>7. CASE UpdateRow
  BY <1>7, UpdateRowTypeInv
<1>8. CASE UpdateFails
  BY <1>8, AbortTypeInv DEF UpdateFails
<1>9. CASE EndOfPage
  BY <1>9, EndOfPageTypeInv
<1>10. CASE InsertFails
  BY <1>10, AbortTypeInv DEF InsertFails
<1>11. CASE InsertIntoPage
  <2>1. PICK p \in DOMAIN disk :
          /\ HasRoom(disk[p], Inserting(stmt).val)
          /\ disk' = [disk EXCEPT ![p] = Inserted(disk[p], Inserting(stmt).val)]
    BY <1>11 DEF InsertIntoPage
  <2>2. /\ pc = "insert" /\ InsertRowError(stmt) = "None"
        /\ pc' = "done" /\ LeaveScan /\ stmt' = stmt
    BY <1>11 DEF InsertIntoPage
  <2> QED
    BY <2>1, <2>2, RowInsertedTypeInv
<1>12. CASE AllocatePage
  BY <1>12, AllocatePageTypeInv
<1>13. CASE AllocateFails
  BY <1>13, AbortTypeInv DEF AllocateFails
<1>14. CASE FillPage
  <2>1. /\ pc = "fill" /\ InsertRowError(stmt) = "None" /\ pageIndex \in DOMAIN disk
        /\ InsertError(disk[pageIndex], Inserting(stmt).val) = "None"
        /\ disk' = [disk EXCEPT ![pageIndex] =
                       Inserted(disk[pageIndex], Inserting(stmt).val)]
        /\ pc' = "done" /\ LeaveScan /\ stmt' = stmt
    BY <1>14 DEF FillPage, ExecInv, ScanInv, StmtInv
  <2>2. HasRoom(disk[pageIndex], Inserting(stmt).val)
    BY <2>1 DEF InsertError
  <2> QED
    BY <2>1, <2>2, RowInsertedTypeInv
<1>15. CASE FillFails
  BY <1>15, AbortTypeInv DEF FillFails
<1>16. CASE Return
  BY <1>16, QuietTypeInv DEF Return
<1>17. CASE Crash
  BY <1>17, AbortTypeInv DEF Crash
<1>18. CASE IOFails
  BY <1>18, AbortTypeInv DEF IOFails
<1>19. ASSUME NEW s \in Statements, Start(s)
       PROVE  TypeInv'
  BY <1>19, QuietTypeInv DEF Start
<1>20. CASE UNCHANGED vars
  BY <1>20 DEF vars, TypeInv
<1> QED
  BY <1>1, <1>2, <1>3, <1>4, <1>5, <1>6, <1>7, <1>8, <1>9, <1>10, <1>11, <1>12,
     <1>13, <1>14, <1>15, <1>16, <1>17, <1>18, <1>19, <1>20 DEF Next, Step

(* Whatever statements are executed, every value in the file and in memory *)
(* is one (an INTEGER keeps to its 64 bits, by the wrap of applyArithmetic *)
(* and its checks of division), no page runs out of more bytes than it has *)
(* (insertRow and updateRow), and the scan stays within pages and slots.   *)
THEOREM ExecutorTyped == Spec => []TypeOK
<1>1. Spec => []TypeInv
  BY ExecutorInv, InitTypeInv, StepTypeInv, PTL DEF Spec
<1>2. ExecInv /\ TypeInv => TypeOK
  <2> SUFFICES ASSUME ExecInv, TypeInv PROVE TypeOK
    OBVIOUS
  <2>1. ASSUME NEW pg \in Range(disk) \cup {page}
        PROVE  /\ pg.free \in 0..Capacity
               /\ \A row \in Range(pg.rows) : \A value \in Range(row) : IsValue(value)
    <3>1. BytesInv(pg)
      BY DEF TypeInv, Range
    <3> QED
      BY <3>1 DEF BytesInv, RowOfValues, Range
  <2>2. pc \in {"slot", "fill"} => pageIndex \in DOMAIN disk
    BY DEF ExecInv, ScanInv
  <2> QED
    BY <2>1, <2>2 DEF TypeInv, TypeOK
<1> QED
  BY <1>1, <1>2, ExecutorInv, PTL

(* Every row in the file and in memory fits the schema it is read back     *)
(* under, whatever INSERT and UPDATE evaluate (serializeRow refuses or     *)
(* throws for every other row), and is stored with all of its bytes: the   *)
(* cast of its size to uint16_t (execInsert, execUpdate) cuts nothing off, *)
(* if the largest row of the schema is below 64 KB.                        *)
THEOREM RowsFitTheSchema == Spec => []RowsFitSchema
<1>1. Spec => []TypeInv
  BY ExecutorInv, InitTypeInv, StepTypeInv, PTL DEF Spec
<1>2. ExecInv /\ TypeInv => RowsFitSchema
  <2> SUFFICES ASSUME ExecInv, TypeInv, NEW pg \in Range(disk) \cup {page},
                      NEW i \in DOMAIN pg.rows, pg.rows[i] # Deleted
               PROVE  /\ RowFits(pg.rows[i], Columns)
                      /\ RowLength(pg.rows[i]) = RowSize(pg.rows[i])
    BY DEF RowsFitSchema, RowsFit
  <2>1. PageInv(pg) /\ BytesInv(pg)
    BY DEF ExecInv, FileInv, ScanInv, TypeInv, Range
  <2>2. RowOK(pg.rows[i]) /\ RowOfValues(pg.rows[i])
    BY <2>1 DEF PageInv, BytesInv
  <2> QED
    BY <2>2, SizeOfRowOK DEF RowOK
<1> QED
  BY <1>1, <1>2, ExecutorInv, PTL

-----------------------------------------------------------------------------
(* For every schema, every set of statements and every page size: what the *)
(* file and the result are when a statement ends, in whatever way it ends. *)
(* The scan is followed slot by slot: behind it every row has become what  *)
(* the statement makes of it, before it the table is as it was.            *)

Scans(kinds) == pc \in {"read", "slot"} /\ stmt.kind \in kinds

(* The slots to change or return among those before slot s of page p.      *)
HitsUpTo(p, s) == {at \in Hits : at[1] < p \/ (at[1] = p /\ at[2] <= s)}

(* The first k slots of the page in memory have become what they should.   *)
PageDoneUpTo(k) ==
  LET old == before[pageIndex].rows
  IN  /\ Len(page.rows) = Len(old)
      /\ \A i \in DOMAIN old :
           IF i > k THEN page.rows[i] = old[i] ELSE BecomesRow(old[i], page.rows[i])

FlowInv ==
  /\ pc \in {"idle", "read", "slot", "insert", "fill", "done"}
  /\ pageIndex \in 1..(Len(disk) + 1)
  /\ pc # "slot" => slot = 0
  /\ pc \in {"idle", "insert", "done"} => pageIndex = 1
  /\ pc \in {"read", "slot"} => stmt.kind # "INSERT" /\ result.err = "None"
  /\ pc \in {"insert", "fill"} => stmt.kind = "INSERT"
  /\ DOMAIN result = {"err", "count", "rows"}
  /\ IsSeq(before) /\ \A p \in DOMAIN before : IsSeq(before[p].rows)

ChangeInv ==
  Scans({"DELETE", "UPDATE"}) =>
    /\ DoneUpTo(pageIndex - 1)
    /\ IsFiniteSet(HitsUpTo(pageIndex, slot))
    /\ result.count = Cardinality(HitsUpTo(pageIndex, slot))
    /\ pc = "slot" => PageDoneUpTo(slot)

SelectInv ==
  Scans({"SELECT"}) =>
    /\ disk = before
    /\ pc = "slot" => page = before[pageIndex]
    /\ IsSeq(result.rows) /\ AnswerIs(HitsUpTo(pageIndex, slot))

InsertInv ==
  /\ pc = "insert" => disk = before
  /\ pc = "fill" => disk = Append(before, EmptyPage) /\ pageIndex = Len(disk)

EndInv ==
  /\ SuccessIsComplete /\ FailureKeepsPrefix
  /\ InsertIsAtomic /\ SelectReturnsTheTable

(* How far the running statement has come, and what the last one did.      *)
ProgressInv == FlowInv /\ ChangeInv /\ SelectInv /\ InsertInv /\ EndInv

-----------------------------------------------------------------------------
(* The slots that are visited.                                             *)

LEMMA HitsDef ==
  ASSUME NEW x
  PROVE  x \in Hits <=> \E p \in DOMAIN before : \E i \in DOMAIN before[p].rows :
                          x = <<p, i>> /\ Hit(before[p].rows[i])
<1>1. ASSUME NEW p \in DOMAIN before, NEW i \in DOMAIN before[p].rows, x = <<p, i>>
      PROVE  RowAt(before, x) = before[p].rows[i]
  BY <1>1 DEF RowAt
<1>2. ASSUME x \in Hits
      PROVE  \E p \in DOMAIN before : \E i \in DOMAIN before[p].rows :
               x = <<p, i>> /\ Hit(before[p].rows[i])
  <2>1. x \in LiveSlots(before) /\ Hit(RowAt(before, x))
    BY <1>2 DEF Hits
  <2>2. PICK p \in DOMAIN before : \E i \in DOMAIN before[p].rows : x = <<p, i>>
    BY <2>1, LiveSlotsDef
  <2> QED
    BY <1>1, <2>1, <2>2
<1>3. ASSUME NEW p \in DOMAIN before, NEW i \in DOMAIN before[p].rows,
             x = <<p, i>>, Hit(before[p].rows[i])
      PROVE  x \in Hits
  <2>1. before[p].rows[i] # Deleted
    BY <1>3 DEF Hit
  <2>2. x \in LiveSlots(before)
    BY <1>3, <2>1, LiveSlotsDef
  <2> QED
    BY <1>1, <1>3, <2>2 DEF Hits
<1> QED
  BY <1>2, <1>3

LEMMA HitsArePairs ==
  ASSUME FlowInv, NEW x \in Hits
  PROVE  /\ x = <<x[1], x[2]>>
         /\ x[1] \in DOMAIN before /\ x[1] \in Nat \ {0}
         /\ x[2] \in DOMAIN before[x[1]].rows /\ x[2] \in Nat \ {0}
         /\ x[1] <= Len(before) /\ x[2] <= Len(before[x[1]].rows)
         /\ Hit(before[x[1]].rows[x[2]])
<1>1. PICK p \in DOMAIN before : \E i \in DOMAIN before[p].rows :
        x = <<p, i>> /\ Hit(before[p].rows[i])
  BY HitsDef
<1>2. PICK i \in DOMAIN before[p].rows : x = <<p, i>> /\ Hit(before[p].rows[i])
  BY <1>1
<1>3. x[1] = p /\ x[2] = i /\ x = <<x[1], x[2]>>
  BY <1>2
<1>4. IsSeq(before) /\ IsSeq(before[p].rows)
  BY DEF FlowInv
<1>5. p \in Nat \ {0} /\ p <= Len(before)
  BY <1>4, IsSeqFacts
<1>6. i \in Nat \ {0} /\ i <= Len(before[p].rows)
  BY <1>4, IsSeqFacts
<1> QED
  BY <1>2, <1>3, <1>5, <1>6

LEMMA FirstSlot == FlowInv => HitsUpTo(1, 0) = {}
<1> SUFFICES ASSUME FlowInv, NEW x \in HitsUpTo(1, 0) PROVE FALSE
  OBVIOUS
<1>1. x \in Hits /\ (x[1] < 1 \/ (x[1] = 1 /\ x[2] <= 0))
  BY DEF HitsUpTo
<1> QED
  BY <1>1, HitsArePairs

LEMMA FirstSlotNext == (FlowInv => HitsUpTo(1, 0) = {})'
  BY FirstSlot, PTL

LEMMA NextSlot ==
  ASSUME FlowInv, NEW p \in DOMAIN before, NEW s \in Nat, s < Len(before[p].rows)
  PROVE  /\ s + 1 \in DOMAIN before[p].rows
         /\ Hit(before[p].rows[s + 1]) =>
              /\ HitsUpTo(p, s + 1) = HitsUpTo(p, s) \cup {<<p, s + 1>>}
              /\ <<p, s + 1>> \notin HitsUpTo(p, s)
         /\ ~ Hit(before[p].rows[s + 1]) => HitsUpTo(p, s + 1) = HitsUpTo(p, s)
<1> DEFINE new == <<p, s + 1>>
<1>1. IsSeq(before) /\ IsSeq(before[p].rows)
  BY DEF FlowInv
<1>2. p \in Nat /\ s + 1 \in DOMAIN before[p].rows
  BY <1>1, IsSeqFacts
<1>3. new[1] = p /\ new[2] = s + 1
  OBVIOUS
<1>4. ASSUME NEW x \in Hits
      PROVE  (x[1] < p \/ (x[1] = p /\ x[2] <= s + 1)) <=>
             (x[1] < p \/ (x[1] = p /\ x[2] <= s)) \/ x = new
  <2>1. x = <<x[1], x[2]>> /\ x[1] \in Nat /\ x[2] \in Nat
    BY HitsArePairs
  <2>2. x = new <=> x[1] = p /\ x[2] = s + 1
    BY <2>1, <1>3
  <2> HIDE DEF new
  <2> QED
    BY <2>1, <2>2, <1>2
<1>5. new \in Hits <=> Hit(before[p].rows[s + 1])
  <2>1. ASSUME new \in Hits
        PROVE  Hit(before[p].rows[s + 1])
    BY <2>1, <1>3, HitsArePairs
  <2> QED
    BY <2>1, <1>2, HitsDef
<1>6. new \notin HitsUpTo(p, s)
  <2>1. ~ (new[1] < p \/ (new[1] = p /\ new[2] <= s))
    BY <1>2, <1>3
  <2> HIDE DEF new
  <2> QED
    BY <2>1 DEF HitsUpTo
<1> HIDE DEF new
<1>7. ASSUME Hit(before[p].rows[s + 1])
      PROVE  HitsUpTo(p, s + 1) = HitsUpTo(p, s) \cup {new}
  BY <1>4, <1>5, <1>7 DEF HitsUpTo
<1>8. ASSUME ~ Hit(before[p].rows[s + 1])
      PROVE  HitsUpTo(p, s + 1) = HitsUpTo(p, s)
  BY <1>4, <1>5, <1>8 DEF HitsUpTo
<1> QED
  BY <1>2, <1>6, <1>7, <1>8 DEF new

LEMMA NextPage ==
  ASSUME FlowInv, NEW p \in Nat, NEW s \in Nat,
         p \in DOMAIN before => s >= Len(before[p].rows)
  PROVE  HitsUpTo(p + 1, 0) = HitsUpTo(p, s)
<1>1. ASSUME NEW x \in Hits
      PROVE  (x[1] < p + 1 \/ (x[1] = p + 1 /\ x[2] <= 0)) <=>
             (x[1] < p \/ (x[1] = p /\ x[2] <= s))
  <2>1. /\ x[1] \in Nat /\ x[1] \in DOMAIN before
        /\ x[2] \in Nat \ {0} /\ x[2] <= Len(before[x[1]].rows)
    BY HitsArePairs
  <2>2. IsSeq(before[x[1]].rows)
    BY <2>1 DEF FlowInv
  <2>3. Len(before[x[1]].rows) \in Nat
    BY <2>2, IsSeqFacts
  <2>4. x[1] = p => x[2] <= s
    BY <2>1, <2>3
  <2> QED
    BY <2>1, <2>4
<1> QED
  BY <1>1 DEF HitsUpTo

LEMMA LastPage ==
  ASSUME FlowInv, NEW p \in Nat, p > Len(before)
  PROVE  HitsUpTo(p, 0) = Hits
<1>1. ASSUME NEW x \in Hits
      PROVE  x[1] < p
  <2>1. x[1] \in Nat /\ x[1] <= Len(before)
    BY HitsArePairs
  <2>2. Len(before) \in Nat
    BY IsSeqFacts DEF FlowInv
  <2> QED
    BY <2>1, <2>2
<1> QED
  BY <1>1 DEF HitsUpTo

(* As long as the statement and its start are the same, so is what it has  *)
(* to do.                                                                  *)
LEMMA SameStatement ==
  ASSUME stmt' = stmt, before' = before
  PROVE  /\ Hits' = Hits
         /\ \A row : Hit(row)' <=> Hit(row)
         /\ \A row, new : BecomesRow(row, new)' <=> BecomesRow(row, new)
         /\ \A p, s : HitsUpTo(p, s)' = HitsUpTo(p, s)
<1>1. \A row : Hit(row)' <=> Hit(row)
  BY DEF Hit
<1>2. \A row, new : BecomesRow(row, new)' <=> BecomesRow(row, new)
  BY <1>1 DEF BecomesRow
<1>3. Hits' = Hits
  BY <1>1 DEF Hits
<1>4. \A p, s : HitsUpTo(p, s)' = HitsUpTo(p, s)
  BY <1>3 DEF HitsUpTo
<1> QED
  BY <1>1, <1>2, <1>3, <1>4

LEMMA SameFile ==
  ASSUME disk' = disk, stmt' = stmt, before' = before
  PROVE  \A k : DoneUpTo(k)' <=> DoneUpTo(k)
  BY SameStatement DEF DoneUpTo

LEMMA FlowFacts ==
  ASSUME ExecInv, FlowInv
  PROVE  /\ IsSeq(disk) /\ Len(disk) \in Nat /\ DOMAIN disk = 1..Len(disk)
         /\ IsSeq(before) /\ Len(before) \in Nat /\ DOMAIN before = 1..Len(before)
         /\ slot \in Nat /\ pageIndex \in Nat \ {0}
         /\ pc = "slot" => pageIndex \in DOMAIN disk
  BY IsSeqFacts DEF ExecInv, FileInv, ScanInv, FlowInv

-----------------------------------------------------------------------------
(* The rows of a file to which a page or a row was added.                  *)

LEMMA PageAdded ==
  ASSUME NEW P, NEW Q, NEW n, DOMAIN Q = DOMAIN P \cup {n}, Q[n] = EmptyPage,
         \A p \in DOMAIN P : Q[p] = P[p]
  PROVE  LiveSlots(Q) = LiveSlots(P) /\ \A x \in LiveSlots(P) : RowAt(Q, x) = RowAt(P, x)
<1>3. DOMAIN EmptyPage.rows = {}
  BY DEF EmptyPage
<1>4. ASSUME NEW x \in LiveSlots(P)
      PROVE  x \in LiveSlots(Q) /\ RowAt(Q, x) = RowAt(P, x)
  <2>1. PICK p \in DOMAIN P : \E i \in DOMAIN P[p].rows : x = <<p, i>> /\ P[p].rows[i] # Deleted
    BY LiveSlotsDef
  <2>2. p \in DOMAIN Q /\ Q[p] = P[p]
    OBVIOUS
  <2>3. x \in LiveSlots(Q)
    BY <2>1, <2>2, LiveSlotsDef
  <2> QED
    BY <2>1, <2>2, <2>3 DEF RowAt
<1>5. ASSUME NEW x \in LiveSlots(Q)
      PROVE  x \in LiveSlots(P)
  <2>1. PICK p \in DOMAIN Q : \E i \in DOMAIN Q[p].rows : x = <<p, i>> /\ Q[p].rows[i] # Deleted
    BY LiveSlotsDef
  <2>2. p \in DOMAIN P /\ Q[p] = P[p]
    BY <1>3, <2>1
  <2> QED
    BY <2>1, <2>2, LiveSlotsDef
<1> QED
  BY <1>4, <1>5

LEMMA EmptyPageAdded ==
  ASSUME NEW P, IsSeq(P)
  PROVE  /\ LiveSlots(Append(P, EmptyPage)) = LiveSlots(P)
         /\ \A x \in LiveSlots(P) : RowAt(Append(P, EmptyPage), x) = RowAt(P, x)
<1> DEFINE Q == Append(P, EmptyPage)
           n == Len(P) + 1
<1>1. /\ IsSeq(Q) /\ Len(Q) = n
      /\ \A i \in DOMAIN P : Q[i] = P[i]
      /\ Q[n] = EmptyPage
  BY AppendIsSeq, IsSeqFacts
<1>2. Len(P) \in Nat
  BY IsSeqFacts
<1> HIDE DEF Q
<1>3. DOMAIN Q = DOMAIN P \cup {n}
  BY <1>1, <1>2, IsSeqFacts
<1> HIDE DEF n
<1>4. LiveSlots(Q) = LiveSlots(P) /\ \A x \in LiveSlots(P) : RowAt(Q, x) = RowAt(P, x)
  BY <1>1, <1>3, PageAdded
<1> QED
  BY <1>4 DEF Q

LEMMA RowAdded ==
  ASSUME NEW P, IsSeq(P), NEW p \in DOMAIN P, PageInv(P[p]),
         NEW row, RowOK(row), row # Deleted,
         NEW Q, DOMAIN Q = DOMAIN P, Q[p] = Inserted(P[p], row),
         \A q \in DOMAIN P : q # p => Q[q] = P[q],
         NEW at, at = <<p, Len(P[p].rows) + 1>>
  PROVE  /\ LiveSlots(Q) = LiveSlots(P) \cup {at}
         /\ at \notin LiveSlots(P)
         /\ RowAt(Q, at) = row
         /\ \A x \in LiveSlots(P) : RowAt(Q, x) = RowAt(P, x)
<1> DEFINE n  == Len(P[p].rows) + 1
           pg == Inserted(P[p], row)
<1>1. /\ DOMAIN pg.rows = DOMAIN P[p].rows \cup {n}
      /\ pg.rows[n] = row
      /\ \A i \in DOMAIN P[p].rows : pg.rows[i] = P[p].rows[i]
  BY RowAppended
<1>2. n \notin DOMAIN P[p].rows
  BY IsSeqFacts DEF PageInv
<1> HIDE DEF n, pg
<1>3. DOMAIN Q = DOMAIN P /\ Q[p] = pg /\ \A q \in DOMAIN P : q # p => Q[q] = P[q]
  BY DEF pg
<1>4. at = <<p, n>> /\ at[1] = p /\ at[2] = n
  BY DEF n
<1>5. at \in LiveSlots(Q) /\ RowAt(Q, at) = row
  BY <1>1, <1>3, <1>4, LiveSlotsDef DEF RowAt
<1>6. at \notin LiveSlots(P)
  <2> SUFFICES ASSUME at \in LiveSlots(P) PROVE FALSE
    OBVIOUS
  <2>1. PICK q \in DOMAIN P : \E i \in DOMAIN P[q].rows : at = <<q, i>>
    BY LiveSlotsDef
  <2>2. PICK i \in DOMAIN P[q].rows : at = <<q, i>>
    BY <2>1
  <2>3. q = p /\ i = n
    BY <2>2, <1>4
  <2> QED
    BY <2>2, <2>3, <1>2
<1>7. ASSUME NEW x \in LiveSlots(P)
      PROVE  x \in LiveSlots(Q) /\ RowAt(Q, x) = RowAt(P, x)
  <2>1. PICK q \in DOMAIN P : \E i \in DOMAIN P[q].rows : x = <<q, i>> /\ P[q].rows[i] # Deleted
    BY LiveSlotsDef
  <2>2. PICK i \in DOMAIN P[q].rows : x = <<q, i>> /\ P[q].rows[i] # Deleted
    BY <2>1
  <2>3. i \in DOMAIN Q[q].rows /\ Q[q].rows[i] = P[q].rows[i]
    <3>1. CASE q = p
      BY <3>1, <1>1, <1>3, <2>2
    <3>2. CASE q # p
      BY <3>2, <1>3, <2>2
    <3> QED
      BY <3>1, <3>2
  <2>4. x \in LiveSlots(Q)
    BY <2>2, <2>3, <1>3, LiveSlotsDef
  <2> QED
    BY <2>2, <2>3, <2>4 DEF RowAt
<1>8. ASSUME NEW x \in LiveSlots(Q)
      PROVE  x \in LiveSlots(P) \cup {at}
  <2>1. PICK q \in DOMAIN Q : \E i \in DOMAIN Q[q].rows : x = <<q, i>> /\ Q[q].rows[i] # Deleted
    BY LiveSlotsDef
  <2>2. PICK i \in DOMAIN Q[q].rows : x = <<q, i>> /\ Q[q].rows[i] # Deleted
    BY <2>1
  <2>3. CASE q = p /\ i = n
    BY <2>2, <2>3, <1>4
  <2>4. CASE ~ (q = p /\ i = n)
    <3>1. i \in DOMAIN P[q].rows /\ Q[q].rows[i] = P[q].rows[i]
      BY <1>1, <1>3, <2>2, <2>4
    <3> QED
      BY <2>2, <3>1, <1>3, LiveSlotsDef
  <2> QED
    BY <2>3, <2>4
<1> QED
  BY <1>5, <1>6, <1>7, <1>8

-----------------------------------------------------------------------------
(* How a statement ends.                                                   *)

LEMMA AbortEnds ==
  ASSUME ExecInv, ProgressInv, NEW e, e # "None", pc \notin {"idle", "done"}, Abort(e)
  PROVE  ProgressInv'
<1> USE DEF ProgressInv
<1>1. /\ pc' = "done" /\ result' = [NoResult EXCEPT !.err = e]
      /\ pageIndex' = 1 /\ slot' = 0
      /\ disk' = disk /\ stmt' = stmt /\ before' = before
  BY DEF Abort, LeaveScan
<1>2. result'.err = e /\ DOMAIN result' = {"err", "count", "rows"}
  BY <1>1 DEF NoResult
<1>3. FlowInv'
  BY <1>1, <1>2, FlowFacts DEF FlowInv
<1>4. ChangeInv' /\ SelectInv' /\ InsertInv'
  BY <1>1 DEF ChangeInv, SelectInv, InsertInv, Scans
<1>5. SuccessIsComplete'
  BY <1>2 DEF SuccessIsComplete
<1>6. FailureKeepsPrefix'
  <2> SUFFICES ASSUME stmt.kind \in {"DELETE", "UPDATE"}
               PROVE  \E k \in 0..Len(before) : DoneUpTo(k)
    BY <1>1, SameFile DEF FailureKeepsPrefix, Finished
  <2>1. pc \in {"read", "slot"}
    BY DEF FlowInv
  <2>2. DoneUpTo(pageIndex - 1)
    BY <2>1 DEF ChangeInv, Scans
  <2>3. Len(disk) = Len(before)
    BY <2>2 DEF DoneUpTo
  <2>4. pageIndex - 1 \in 0..Len(before)
    BY <2>3, FlowFacts DEF FlowInv
  <2> QED
    BY <2>2, <2>4
<1>7. InsertIsAtomic'
  <2> SUFFICES ASSUME stmt.kind = "INSERT"
               PROVE  /\ LiveSlots(disk) = LiveSlots(before)
                      /\ \A at \in LiveSlots(before) : RowAt(disk, at) = RowAt(before, at)
    <3>1. LiveSlots(disk)' = LiveSlots(disk) /\ LiveSlots(before)' = LiveSlots(before)
      BY <1>1 DEF LiveSlots
    <3>2. \A at : RowAt(disk, at)' = RowAt(disk, at) /\ RowAt(before, at)' = RowAt(before, at)
      BY <1>1 DEF RowAt
    <3> QED
      BY <1>1, <1>2, <3>1, <3>2 DEF InsertIsAtomic, Finished
  <2>1. disk = before \/ disk = Append(before, EmptyPage)
    BY DEF FlowInv, InsertInv
  <2> QED
    BY <2>1, EmptyPageAdded, FlowFacts
<1>8. SelectReturnsTheTable'
  <2>1. stmt.kind = "SELECT" => disk = before
    BY DEF FlowInv, SelectInv, Scans
  <2> QED
    BY <1>1, <1>2, <2>1 DEF SelectReturnsTheTable, Finished
<1> QED
  BY <1>3, <1>4, <1>5, <1>6, <1>7, <1>8 DEF EndInv

(* The row was added to a page.                                            *)
LEMMA InsertEnds ==
  ASSUME ExecInv, ProgressInv, pc \in {"insert", "fill"}, NEW p \in DOMAIN disk,
         InsertRowError(stmt) = "None",
         disk' = [disk EXCEPT ![p] = Inserted(disk[p], Inserting(stmt).val)],
         pc' = "done", result' = [NoResult EXCEPT !.count = 1], LeaveScan,
         stmt' = stmt, before' = before
  PROVE  ProgressInv'
<1> USE DEF ProgressInv
<1> DEFINE row == Inserting(stmt).val
           at  == <<p, Len(disk[p].rows) + 1>>
<1>1. result'.err = "None" /\ DOMAIN result' = {"err", "count", "rows"}
  BY DEF NoResult
<1>2. stmt \in Statements /\ stmt.kind = "INSERT"
  BY DEF ExecInv, StmtInv, FlowInv
<1>3. RowOK(row)
  BY <1>2, InsertedRow
<1>4. row # Deleted
  <2>1. DOMAIN row = 1..Len(Columns) /\ Len(Columns) \in Nat /\ Len(Columns) # 0
    BY <1>3, ColumnsAssumption DEF RowOK
  <2> QED
    BY <2>1 DEF Deleted
<1>5. IsSeq(disk) /\ PageInv(disk[p])
  BY DEF ExecInv, FileInv
<1>6. FlowInv'
  <2>1. disk' \in Seq(Range(disk) \cup {Inserted(disk[p], row)})
    BY <1>5 DEF IsSeq, Range
  <2>2. Len(disk') \in Nat
    BY <2>1
  <2> QED
    BY <1>1, <2>2 DEF FlowInv, LeaveScan
<1>7. ChangeInv' /\ SelectInv' /\ InsertInv'
  BY DEF ChangeInv, SelectInv, InsertInv, Scans
<1>8. SuccessIsComplete' /\ FailureKeepsPrefix' /\ SelectReturnsTheTable'
  BY <1>2 DEF SuccessIsComplete, FailureKeepsPrefix, SelectReturnsTheTable, Finished
<1>9. InsertIsAtomic'
  <2>1. /\ LiveSlots(disk) = LiveSlots(before)
        /\ \A x \in LiveSlots(before) : RowAt(disk, x) = RowAt(before, x)
    <3>1. disk = before \/ disk = Append(before, EmptyPage)
      BY DEF InsertInv
    <3> QED
      BY <3>1, EmptyPageAdded, FlowFacts
  <2>2. PICK a : a = at
    OBVIOUS
  <2> HIDE DEF at
  <2>3. /\ LiveSlots(disk') = LiveSlots(disk) \cup {a}
        /\ a \notin LiveSlots(disk)
        /\ RowAt(disk', a) = row
        /\ \A x \in LiveSlots(disk) : RowAt(disk', x) = RowAt(disk, x)
    <3> HIDE DEF row
    <3>1. a = <<p, Len(disk[p].rows) + 1>>
      BY <2>2 DEF at
    <3>2. /\ DOMAIN disk' = DOMAIN disk /\ disk'[p] = Inserted(disk[p], row)
          /\ \A q \in DOMAIN disk : q # p => disk'[q] = disk[q]
      BY DEF row
    <3>3. p \in DOMAIN disk
      OBVIOUS
    <3> QED
      BY ONLY <1>3, <1>4, <1>5, <3>1, <3>2, <3>3, RowAdded
  <2>4. /\ LiveSlots(before') = LiveSlots(before) /\ LiveSlots(disk)' = LiveSlots(disk')
        /\ \A x : RowAt(disk, x)' = RowAt(disk', x) /\ RowAt(before, x)' = RowAt(before, x)
    BY DEF LiveSlots, RowAt
  <2>5. Inserting(stmt)'.val = row
    BY DEF Inserting
  <2> HIDE DEF row
  <2> QED
    BY <1>1, <2>1, <2>3, <2>4, <2>5 DEF InsertIsAtomic
<1> QED
  BY <1>6, <1>7, <1>8, <1>9 DEF EndInv

-----------------------------------------------------------------------------
(* One slot of the scan.                                                   *)

LEMMA OldRow ==
  ASSUME ExecInv, ProgressInv, AtSlot, stmt.kind \in {"SELECT", "DELETE", "UPDATE"}
  PROVE  /\ pageIndex \in DOMAIN before /\ pageIndex \in DOMAIN disk
         /\ slot + 1 \in DOMAIN page.rows
         /\ slot < Len(before[pageIndex].rows)
         /\ slot + 1 \in DOMAIN before[pageIndex].rows
         /\ before[pageIndex].rows[slot + 1] = RowOf(page, slot)
<1> USE DEF ProgressInv
<1>1. pc = "slot" /\ slot < Len(page.rows)
  BY DEF AtSlot, NumSlots
<1>2. IsSeq(page.rows) /\ slot \in Nat /\ pageIndex \in DOMAIN disk
  BY <1>1 DEF ExecInv, ScanInv, PageInv
<1>3. slot + 1 \in DOMAIN page.rows
  BY <1>1, <1>2, IsSeqFacts
<1>4. CASE stmt.kind = "SELECT"
  <2>1. disk = before /\ page = before[pageIndex]
    BY <1>1, <1>4 DEF SelectInv, Scans
  <2> QED
    BY <1>1, <1>2, <1>3, <2>1 DEF RowOf
<1>5. CASE stmt.kind \in {"DELETE", "UPDATE"}
  <2>1. DoneUpTo(pageIndex - 1) /\ PageDoneUpTo(slot)
    BY <1>1, <1>5 DEF ChangeInv, Scans
  <2>2. pageIndex \in DOMAIN before
    BY <1>2, <2>1, FlowFacts DEF DoneUpTo
  <2>3. Len(page.rows) = Len(before[pageIndex].rows)
    BY <2>1 DEF PageDoneUpTo
  <2>4. IsSeq(before[pageIndex].rows)
    BY <2>2 DEF FlowInv
  <2>5. slot + 1 \in DOMAIN before[pageIndex].rows
    BY <1>1, <1>2, <2>3, <2>4, IsSeqFacts
  <2>6. page.rows[slot + 1] = before[pageIndex].rows[slot + 1]
    BY <2>1, <2>5, <1>2 DEF PageDoneUpTo
  <2> QED
    BY <1>1, <1>2, <1>3, <2>2, <2>3, <2>5, <2>6 DEF RowOf
<1> QED
  BY <1>4, <1>5

LEMMA MidFlow ==
  ASSUME ExecInv, ProgressInv, pc = "slot", DOMAIN result' = {"err", "count", "rows"},
         result'.err = result.err,
         disk' = disk, stmt' = stmt, pc' = pc, pageIndex' = pageIndex, before' = before
  PROVE  FlowInv' /\ InsertInv' /\ EndInv'
<1> USE DEF ProgressInv
<1>1. FlowInv'
  BY DEF FlowInv
<1>2. InsertInv'
  BY DEF InsertInv
<1>3. EndInv'
  BY DEF EndInv, SuccessIsComplete, FailureKeepsPrefix, InsertIsAtomic,
         SelectReturnsTheTable, Finished
<1> QED
  BY <1>1, <1>2, <1>3

(* DELETE and UPDATE: the row becomes what it should, changed or not.      *)
LEMMA SlotDone ==
  ASSUME ExecInv, ProgressInv, AtSlot, stmt.kind \in {"DELETE", "UPDATE"},
         NEW new, BecomesRow(RowOf(page, slot), new),
         page'.rows = [page.rows EXCEPT ![slot + 1] = new], slot' = slot + 1,
         DOMAIN result' = {"err", "count", "rows"}, result'.err = result.err,
         result'.count = IF Hit(RowOf(page, slot)) THEN result.count + 1 ELSE result.count,
         disk' = disk, stmt' = stmt, pc' = pc, pageIndex' = pageIndex, before' = before
  PROVE  ProgressInv'
<1> USE DEF ProgressInv
<1> DEFINE old == before[pageIndex].rows
           i0  == slot + 1
<1>1. /\ pageIndex \in DOMAIN before
      /\ slot < Len(old) /\ i0 \in DOMAIN old /\ i0 \in DOMAIN page.rows
      /\ old[i0] = RowOf(page, slot)
  BY OldRow
<1>2. pc = "slot" /\ slot \in Nat /\ IsSeq(page.rows) /\ IsSeq(old)
  BY <1>1 DEF AtSlot, ExecInv, ScanInv, PageInv, FlowInv
<1>3. FlowInv' /\ InsertInv' /\ EndInv'
  BY <1>2, MidFlow
<1>4. /\ DoneUpTo(pageIndex - 1) /\ PageDoneUpTo(slot)
      /\ IsFiniteSet(HitsUpTo(pageIndex, slot))
      /\ result.count = Cardinality(HitsUpTo(pageIndex, slot))
  BY <1>2 DEF ChangeInv, Scans
<1>5. DoneUpTo(pageIndex - 1)'
  <2>1. PICK k : k = pageIndex - 1
    OBVIOUS
  <2>2. DoneUpTo(k)'
    BY <1>4, <2>1, SameFile
  <2> QED
    BY <2>1, <2>2 DEF DoneUpTo
<1>6. /\ IsFiniteSet(HitsUpTo(pageIndex, i0))
      /\ result'.count = Cardinality(HitsUpTo(pageIndex, i0))
  <2>1. CASE Hit(old[i0])
    <3>1. /\ HitsUpTo(pageIndex, i0) = HitsUpTo(pageIndex, slot) \cup {<<pageIndex, i0>>}
          /\ <<pageIndex, i0>> \notin HitsUpTo(pageIndex, slot)
      BY <1>1, <1>2, <2>1, NextSlot
    <3>2. result'.count = result.count + 1
      BY <1>1, <2>1
    <3> QED
      BY ONLY <1>4, <3>1, <3>2, FS_AddElement
  <2>2. CASE ~ Hit(old[i0])
    <3>1. HitsUpTo(pageIndex, i0) = HitsUpTo(pageIndex, slot)
      BY <1>1, <1>2, <2>2, NextSlot
    <3>2. result'.count = result.count
      BY <1>1, <2>2
    <3> QED
      BY <1>4, <3>1, <3>2
  <2> QED
    BY <2>1, <2>2
<1>7. IsFiniteSet(HitsUpTo(pageIndex, slot)') /\ result'.count = Cardinality(HitsUpTo(pageIndex, slot)')
  <2>1. HitsUpTo(pageIndex, slot)' = HitsUpTo(pageIndex, i0)
    BY SameStatement DEF HitsUpTo
  <2> QED
    BY <1>6, <2>1
<1>8. /\ Len(page'.rows) = Len(page.rows)
      /\ page'.rows[i0] = new
      /\ \A i \in DOMAIN page.rows : i # i0 => page'.rows[i] = page.rows[i]
  BY <1>1, <1>2, ExceptIsSeq
<1>9. Len(page.rows) = Len(old)
      /\ \A i \in DOMAIN old :
           IF i > slot THEN page.rows[i] = old[i] ELSE BecomesRow(old[i], page.rows[i])
  BY <1>4 DEF PageDoneUpTo
<1>10. DOMAIN page.rows = DOMAIN old /\ \A i \in DOMAIN old : i \in Nat
  BY <1>2, <1>9, IsSeqFacts
<1>11. BecomesRow(old[i0], page'.rows[i0])
  BY <1>1, <1>8
<1>12. ASSUME NEW i \in DOMAIN old
       PROVE  IF i > i0 THEN page'.rows[i] = old[i] ELSE BecomesRow(old[i], page'.rows[i])
  <2> HIDE DEF old
  <2>1. CASE i = i0
    BY <1>11, <1>2, <2>1
  <2>2. CASE i # i0
    <3>1. page'.rows[i] = page.rows[i]
      BY <1>8, <1>10, <2>2
    <3>2. i > slot <=> i > i0
      BY <1>2, <1>10, <2>2
    <3>3. IF i > slot THEN page.rows[i] = old[i] ELSE BecomesRow(old[i], page.rows[i])
      BY <1>9
    <3> QED
      BY <3>1, <3>2, <3>3
  <2> QED
    BY <2>1, <2>2
<1>13. PageDoneUpTo(slot)'
  <2>1. \A row, n : BecomesRow(row, n)' <=> BecomesRow(row, n)
    BY SameStatement
  <2> QED
    BY <1>8, <1>9, <1>12, <2>1 DEF PageDoneUpTo
<1>14. ChangeInv'
  BY <1>5, <1>7, <1>13 DEF ChangeInv
<1>15. SelectInv'
  BY DEF SelectInv, Scans
<1> QED
  BY <1>3, <1>14, <1>15

(* SELECT: the row of the next slot is appended to the answer.             *)
LEMMA AnswerGrows ==
  ASSUME IsSeq(result.rows), NEW S, AnswerIs(S), NEW at, \A x \in S : Precedes(x, at),
         result'.rows = Append(result.rows, RowAt(before, at)), before' = before
  PROVE  IsSeq(result'.rows) /\ AnswerIs(S \cup {at})'
<1> DEFINE rows == result.rows
           n    == Len(rows) + 1
           row  == RowAt(before, at)
<1>1. Len(rows) \in Nat /\ DOMAIN rows = 1..Len(rows)
  BY IsSeqFacts
<1>2. /\ IsSeq(Append(rows, row)) /\ Len(Append(rows, row)) = n
      /\ \A i \in 1..Len(rows) : Append(rows, row)[i] = rows[i]
      /\ Append(rows, row)[n] = row
  BY AppendIsSeq
<1>3. PICK from \in [DOMAIN rows -> S] :
        /\ Range(from) = S
        /\ \A i \in DOMAIN from : rows[i] = RowAt(before, from[i])
        /\ \A i, j \in DOMAIN from : i < j => Precedes(from[i], from[j])
  BY DEF AnswerIs
<1> DEFINE new == [i \in 1..n |-> IF i = n THEN at ELSE from[i]]
<1>4. \A i \in 1..n : i # n => i \in DOMAIN rows /\ new[i] = from[i] /\ from[i] \in S
  BY <1>1, <1>3
<1>5. new[n] = at /\ n \in 1..n /\ DOMAIN new = 1..n /\ \A i \in DOMAIN rows : i \in 1..n /\ i # n
  BY <1>1
<1>6. new \in [1..n -> S \cup {at}]
  BY <1>4, <1>5
<1> HIDE DEF new
<1>7. Range(new) = S \cup {at}
  <2>1. ASSUME NEW x \in S
        PROVE  \E i \in 1..n : new[i] = x
    <3>1. PICK i \in DOMAIN rows : from[i] = x
      BY <1>3 DEF Range
    <3> QED
      BY <3>1, <1>4, <1>5
  <2> QED
    BY <2>1, <1>4, <1>5, <1>6 DEF Range
<1>8. result'.rows = Append(rows, row) /\ DOMAIN result'.rows = 1..n
  BY <1>1, <1>2, IsSeqFacts
<1>9. ASSUME NEW i \in 1..n
      PROVE  result'.rows[i] = RowAt(before, new[i])
  <2>1. CASE i = n
    BY <1>2, <1>5, <1>8, <2>1
  <2>2. CASE i # n
    <3>1. result'.rows[i] = rows[i]
      BY <1>1, <1>2, <1>4, <1>8, <2>2
    <3> QED
      BY <1>3, <1>4, <2>2, <3>1
  <2> QED
    BY <2>1, <2>2
<1>10. ASSUME NEW i \in 1..n, NEW j \in 1..n, i < j
       PROVE  Precedes(new[i], new[j])
  <2>1. i # n /\ i \in Nat /\ j \in Nat /\ n \in Nat
    BY <1>1, <1>10
  <2>2. CASE j = n
    BY <1>4, <1>5, <2>1, <2>2
  <2>3. CASE j # n
    BY <1>3, <1>4, <1>10, <2>1, <2>3
  <2> QED
    BY <2>2, <2>3
<1> HIDE DEF n, row
<1>11. \A x : RowAt(before, x)' = RowAt(before, x)
  BY DEF RowAt
<1>12. AnswerIs(S \cup {at})'
  BY <1>6, <1>7, <1>8, <1>9, <1>10, <1>11 DEF AnswerIs
<1> QED
  BY <1>2, <1>8, <1>12

LEMMA SkipSlotProgress == ExecInv /\ ProgressInv /\ SkipSlot => ProgressInv'
<1> SUFFICES ASSUME ExecInv, ProgressInv, SkipSlot PROVE ProgressInv'
  OBVIOUS
<1> DEFINE row == RowOf(page, slot)
<1>1. /\ AtSlot /\ slot' = slot + 1 /\ page' = page /\ result' = result
      /\ disk' = disk /\ stmt' = stmt /\ pc' = pc /\ pageIndex' = pageIndex
      /\ before' = before
  BY DEF SkipSlot
<1>2. ~ Hit(row)
  BY DEF SkipSlot, SlotDeleted, RowOf, Hit, Ok
<1>3. DOMAIN result' = {"err", "count", "rows"} /\ result'.err = result.err /\ pc = "slot"
  BY <1>1 DEF ProgressInv, FlowInv, AtSlot
<1>4. CASE stmt.kind \in {"DELETE", "UPDATE"}
  <2>1. slot + 1 \in DOMAIN page.rows /\ page.rows[slot + 1] = row
    BY <1>1, <1>4, OldRow DEF RowOf
  <2>2. IsSeq(page.rows)
    BY DEF ExecInv, ScanInv, PageInv
  <2>3. page'.rows = [page.rows EXCEPT ![slot + 1] = row]
    BY <1>1, <2>1, <2>2 DEF IsSeq
  <2>4. BecomesRow(row, row)
    BY <1>2 DEF BecomesRow
  <2> QED
    BY <1>1, <1>2, <1>3, <1>4, <2>3, <2>4, SlotDone
<1>5. CASE stmt.kind \notin {"DELETE", "UPDATE"}
  <2>1. FlowInv' /\ InsertInv' /\ EndInv'
    BY <1>1, <1>3, MidFlow
  <2>2. ChangeInv'
    BY <1>1, <1>5 DEF ChangeInv, Scans
  <2>3. SelectInv'
    <3> SUFFICES ASSUME stmt.kind = "SELECT" PROVE SelectInv'
      BY <1>1 DEF SelectInv, Scans
    <3>1. /\ pageIndex \in DOMAIN before /\ slot < Len(before[pageIndex].rows)
          /\ ~ Hit(before[pageIndex].rows[slot + 1])
      BY <1>1, <1>2, OldRow
    <3>2. FlowInv /\ slot \in Nat
      BY DEF ProgressInv, ExecInv, ScanInv
    <3>3. HitsUpTo(pageIndex, slot + 1) = HitsUpTo(pageIndex, slot)
      BY <3>1, <3>2, NextSlot
    <3>4. HitsUpTo(pageIndex, slot)' = HitsUpTo(pageIndex, slot)
      BY <1>1, <3>3, SameStatement DEF HitsUpTo
    <3>5. /\ disk = before /\ page = before[pageIndex] /\ IsSeq(result.rows)
          /\ AnswerIs(HitsUpTo(pageIndex, slot))
      BY <1>3 DEF ProgressInv, SelectInv, Scans
    <3>6. PICK S : S = HitsUpTo(pageIndex, slot)
      OBVIOUS
    <3>7. AnswerIs(S)'
      BY <1>1, <3>5, <3>6 DEF AnswerIs, RowAt
    <3>8. S = HitsUpTo(pageIndex, slot)'
      BY <3>4, <3>6
    <3>9. AnswerIs(HitsUpTo(pageIndex, slot))'
      BY <3>7, <3>8 DEF AnswerIs
    <3> QED
      BY <1>1, <3>5, <3>9 DEF SelectInv
  <2> QED
    BY <2>1, <2>2, <2>3 DEF ProgressInv
<1> QED
  BY <1>4, <1>5

LEMMA SelectRowProgress == ExecInv /\ ProgressInv /\ SelectRow => ProgressInv'
<1> SUFFICES ASSUME ExecInv, ProgressInv, SelectRow PROVE ProgressInv'
  OBVIOUS
<1> DEFINE row == RowOf(page, slot)
<1>0. PICK at : at = <<pageIndex, slot + 1>>
  OBVIOUS
<1>1. /\ AtSlot /\ slot' = slot + 1 /\ page' = page /\ stmt.kind = "SELECT"
      /\ disk' = disk /\ stmt' = stmt /\ pc' = pc /\ pageIndex' = pageIndex
      /\ before' = before
      /\ result' = [result EXCEPT !.rows = Append(result.rows, row)]
  BY DEF SelectRow, Chosen, AtRow
<1>2. Hit(row)
  BY DEF SelectRow, Chosen, AtRow, SlotDeleted, RowOf, Hit
<1>3. DOMAIN result = {"err", "count", "rows"} /\ FlowInv /\ slot \in Nat /\ pc = "slot"
  BY <1>1 DEF ProgressInv, FlowInv, ExecInv, ScanInv, AtSlot
<1>4. /\ DOMAIN result' = {"err", "count", "rows"} /\ result'.err = result.err
      /\ result'.rows = Append(result.rows, row)
  BY <1>1, <1>3
<1>5. FlowInv' /\ InsertInv' /\ EndInv'
  BY <1>1, <1>3, <1>4, MidFlow
<1>6. /\ pageIndex \in DOMAIN before /\ slot < Len(before[pageIndex].rows)
      /\ before[pageIndex].rows[slot + 1] = row
  BY <1>1, OldRow
<1>7. /\ disk = before /\ page = before[pageIndex] /\ IsSeq(result.rows)
      /\ AnswerIs(HitsUpTo(pageIndex, slot))
  BY <1>1, <1>3 DEF ProgressInv, SelectInv, Scans
<1>8. HitsUpTo(pageIndex, slot + 1) = HitsUpTo(pageIndex, slot) \cup {at}
  BY <1>0, <1>2, <1>3, <1>6, NextSlot
<1>9. ASSUME NEW x \in HitsUpTo(pageIndex, slot)
      PROVE  Precedes(x, at)
  <2>1. x \in Hits /\ (x[1] < pageIndex \/ (x[1] = pageIndex /\ x[2] <= slot))
    BY DEF HitsUpTo
  <2>2. x[2] \in Nat
    BY <1>3, <2>1, HitsArePairs
  <2>3. x[2] <= slot => x[2] < slot + 1
    BY <1>3, <2>2
  <2> QED
    BY <1>0, <2>1, <2>3 DEF Precedes
<1>10. RowAt(before, at) = row
  BY <1>0, <1>6 DEF RowAt
<1> HIDE DEF row
<1>11. PICK S : S = HitsUpTo(pageIndex, slot)
  OBVIOUS
<1>12. IsSeq(result'.rows) /\ AnswerIs(S \cup {at})'
  <2>1. result'.rows = Append(result.rows, RowAt(before, at))
    BY <1>4, <1>10
  <2>2. \A x \in S : Precedes(x, at)
    BY <1>9, <1>11
  <2> QED
    BY <1>1, <1>7, <1>11, <2>1, <2>2, AnswerGrows
<1>13. HitsUpTo(pageIndex, slot)' = S \cup {at}
  BY <1>1, <1>8, <1>11, SameStatement DEF HitsUpTo
<1>14. AnswerIs(HitsUpTo(pageIndex, slot))'
  BY <1>12, <1>13 DEF AnswerIs
<1>15. SelectInv'
  BY <1>1, <1>7, <1>12, <1>14 DEF SelectInv
<1>16. ChangeInv'
  BY <1>1 DEF ChangeInv, Scans
<1> QED
  BY <1>5, <1>15, <1>16 DEF ProgressInv

LEMMA DeleteRowProgress == ExecInv /\ ProgressInv /\ DeleteRow => ProgressInv'
<1> SUFFICES ASSUME ExecInv, ProgressInv, DeleteRow PROVE ProgressInv'
  OBVIOUS
<1> DEFINE row == RowOf(page, slot)
<1>1. /\ AtSlot /\ slot' = slot + 1 /\ stmt.kind = "DELETE"
      /\ page'.rows = [page.rows EXCEPT ![slot + 1] = Deleted]
      /\ disk' = disk /\ stmt' = stmt /\ pc' = pc /\ pageIndex' = pageIndex
      /\ before' = before
      /\ result' = [result EXCEPT !.count = result.count + 1]
  BY DEF DeleteRow, Chosen, AtRow, WithoutRow
<1>2. Hit(row)
  BY DEF DeleteRow, Chosen, AtRow, SlotDeleted, RowOf, Hit
<1>3. BecomesRow(row, Deleted)
  BY <1>1, <1>2 DEF BecomesRow
<1>4. DOMAIN result = {"err", "count", "rows"}
  BY DEF ProgressInv, FlowInv
<1>5. /\ DOMAIN result' = {"err", "count", "rows"} /\ result'.err = result.err
      /\ result'.count = IF Hit(row) THEN result.count + 1 ELSE result.count
  BY <1>1, <1>2, <1>4
<1> QED
  BY <1>1, <1>3, <1>5, SlotDone

LEMMA UpdatingOk ==
  ASSUME NEW s, NEW row, Updating(s, row).err = "None"
  PROVE  Updating(s, row) = Ok(Updating(s, row).val)
  BY DEF Updating, rowFromUpdate, Ok

LEMMA UpdateRowProgress == ExecInv /\ ProgressInv /\ UpdateRow => ProgressInv'
<1> SUFFICES ASSUME ExecInv, ProgressInv, UpdateRow PROVE ProgressInv'
  OBVIOUS
<1> DEFINE row == RowOf(page, slot)
           new == Updating(stmt, row).val
<1>1. /\ AtSlot /\ slot' = slot + 1 /\ stmt.kind = "UPDATE"
      /\ UpdateRowError(stmt, page, slot, row) = "None"
      /\ page'.rows = [page.rows EXCEPT ![slot + 1] = new]
      /\ disk' = disk /\ stmt' = stmt /\ pc' = pc /\ pageIndex' = pageIndex
      /\ before' = before
      /\ result' = [result EXCEPT !.count = result.count + 1]
  BY DEF UpdateRow, Chosen, AtRow, Updated
<1>2. Hit(row)
  BY DEF UpdateRow, Chosen, AtRow, SlotDeleted, RowOf, Hit
<1>3. Updating(stmt, row).err = "None"
  BY <1>1 DEF UpdateRowError
<1>4. BecomesRow(row, new)
  BY <1>1, <1>2, <1>3, UpdatingOk DEF BecomesRow
<1>5. DOMAIN result = {"err", "count", "rows"}
  BY DEF ProgressInv, FlowInv
<1>6. /\ DOMAIN result' = {"err", "count", "rows"} /\ result'.err = result.err
      /\ result'.count = IF Hit(row) THEN result.count + 1 ELSE result.count
  BY <1>1, <1>2, <1>5
<1> QED
  BY <1>1, <1>4, <1>6, SlotDone

-----------------------------------------------------------------------------
(* From page to page.                                                      *)

LEMMA ReadPageProgress == ExecInv /\ ProgressInv /\ ReadPage => ProgressInv'
<1> SUFFICES ASSUME ExecInv, ProgressInv, ReadPage PROVE ProgressInv'
  OBVIOUS
<1> USE DEF ProgressInv
<1>1. /\ pc = "read" /\ pageIndex <= Len(disk) /\ page' = disk[pageIndex] /\ pc' = "slot"
      /\ disk' = disk /\ stmt' = stmt /\ pageIndex' = pageIndex /\ slot' = slot
      /\ result' = result /\ before' = before
  BY DEF ReadPage
<1>2. slot = 0 /\ pageIndex \in DOMAIN disk
  BY <1>1, FlowFacts DEF FlowInv
<1>3. FlowInv'
  BY <1>1 DEF FlowInv
<1>4. InsertInv' /\ EndInv'
  BY <1>1 DEF InsertInv, EndInv, SuccessIsComplete, FailureKeepsPrefix, InsertIsAtomic,
              SelectReturnsTheTable, Finished
<1>5. Hits' = Hits
  BY <1>1, SameStatement
<1>6. HitsUpTo(pageIndex, slot)' = HitsUpTo(pageIndex, slot)
  BY <1>1, <1>5 DEF HitsUpTo
<1>7. ChangeInv'
  <2> SUFFICES ASSUME stmt.kind \in {"DELETE", "UPDATE"} PROVE ChangeInv'
    BY <1>1 DEF ChangeInv, Scans
  <2>1. /\ DoneUpTo(pageIndex - 1)
        /\ IsFiniteSet(HitsUpTo(pageIndex, slot))
        /\ result.count = Cardinality(HitsUpTo(pageIndex, slot))
    BY <1>1 DEF ChangeInv, Scans
  <2>2. PICK k : k = pageIndex - 1
    OBVIOUS
  <2>3. DoneUpTo(k)'
    BY <1>1, <2>1, <2>2, SameFile
  <2>4. DoneUpTo(pageIndex - 1)'
    BY <1>1, <2>2, <2>3 DEF DoneUpTo
  <2>5. disk[pageIndex] = before[pageIndex]
    BY <2>1, <1>2, FlowFacts DEF DoneUpTo
  <2>6. pageIndex \in DOMAIN before
    BY <2>1, <1>2, FlowFacts DEF DoneUpTo
  <2>7. IsSeq(before[pageIndex].rows)
    BY <2>6 DEF FlowInv
  <2>8. \A i \in DOMAIN before[pageIndex].rows : i > 0
    BY <2>7, IsSeqFacts
  <2>9. PageDoneUpTo(slot)'
    BY <1>1, <1>2, <2>5, <2>8 DEF PageDoneUpTo
  <2> QED
    BY <1>1, <1>6, <2>1, <2>4, <2>9 DEF ChangeInv
<1>8. SelectInv'
  <2> SUFFICES ASSUME stmt.kind = "SELECT" PROVE SelectInv'
    BY <1>1 DEF SelectInv, Scans
  <2>1. disk = before /\ IsSeq(result.rows) /\ AnswerIs(HitsUpTo(pageIndex, slot))
    BY <1>1 DEF SelectInv, Scans
  <2>2. AnswerIs(HitsUpTo(pageIndex, slot))'
    <3>1. PICK S : S = HitsUpTo(pageIndex, slot)
      OBVIOUS
    <3>2. AnswerIs(S)'
      BY <1>1, <2>1, <3>1 DEF AnswerIs, RowAt
    <3> QED
      BY <1>6, <3>1, <3>2 DEF AnswerIs
  <2> QED
    BY <1>1, <2>1, <2>2 DEF SelectInv
<1> QED
  BY <1>3, <1>4, <1>7, <1>8

LEMMA EndOfPageProgress == ExecInv /\ ProgressInv /\ EndOfPage => ProgressInv'
<1> SUFFICES ASSUME ExecInv, ProgressInv, EndOfPage PROVE ProgressInv'
  OBVIOUS
<1> USE DEF ProgressInv
<1>1. /\ pc = "slot" /\ slot >= Len(page.rows)
      /\ disk' = IF stmt.kind = "SELECT" THEN disk ELSE InMemory
      /\ pageIndex' = pageIndex + 1 /\ page' = EmptyPage /\ slot' = 0
      /\ pc' = "read" /\ stmt' = stmt /\ result' = result /\ before' = before
  BY DEF EndOfPage, NumSlots
<1>2. FileInv /\ pageIndex \in DOMAIN disk /\ pageIndex \in Nat \ {0} /\ slot \in Nat
      /\ PageInv(page)
  BY <1>1 DEF ExecInv, ScanInv
<1>3. /\ IsSeq(disk') /\ DOMAIN disk' = DOMAIN disk
      /\ \A p \in DOMAIN disk : p # pageIndex => disk'[p] = disk[p]
      /\ stmt.kind # "SELECT" => disk'[pageIndex] = page
  <2>1. CASE stmt.kind = "SELECT"
    BY <1>1, <1>2, <2>1 DEF FileInv
  <2>2. CASE stmt.kind # "SELECT"
    <3>1. disk' = InMemory
      BY <1>1, <2>2
    <3> QED
      BY <1>2, <3>1, InMemoryFacts
  <2> QED
    BY <2>1, <2>2
<1>4. Len(disk') = Len(disk) /\ Len(disk) \in Nat /\ DOMAIN disk = 1..Len(disk)
  BY <1>2, <1>3, IsSeqFacts DEF FileInv
<1>5. FlowInv'
  BY <1>1, <1>2, <1>4 DEF FlowInv
<1>6. InsertInv' /\ EndInv'
  BY <1>1 DEF InsertInv, EndInv, SuccessIsComplete, FailureKeepsPrefix, InsertIsAtomic,
              SelectReturnsTheTable, Finished
<1>7. ASSUME pageIndex \in DOMAIN before => slot >= Len(before[pageIndex].rows)
      PROVE  HitsUpTo(pageIndex, slot)' = HitsUpTo(pageIndex, slot)
  <2>1. HitsUpTo(pageIndex + 1, 0) = HitsUpTo(pageIndex, slot)
    BY <1>2, <1>7, NextPage
  <2>2. \A p, s : HitsUpTo(p, s)' = HitsUpTo(p, s)
    BY <1>1, SameStatement
  <2> QED
    BY <1>1, <2>1, <2>2 DEF HitsUpTo
<1>8. ChangeInv'
  <2> SUFFICES ASSUME stmt.kind \in {"DELETE", "UPDATE"} PROVE ChangeInv'
    BY <1>1 DEF ChangeInv, Scans
  <2>1. /\ DoneUpTo(pageIndex - 1) /\ PageDoneUpTo(slot)
        /\ IsFiniteSet(HitsUpTo(pageIndex, slot))
        /\ result.count = Cardinality(HitsUpTo(pageIndex, slot))
    BY <1>1 DEF ChangeInv, Scans
  <2>2. HitsUpTo(pageIndex, slot)' = HitsUpTo(pageIndex, slot)
    BY <1>1, <1>7, <2>1 DEF PageDoneUpTo
  <2>3. disk'[pageIndex] = page
    BY <1>3
  <2>4. \A row, new : BecomesRow(row, new)' <=> BecomesRow(row, new)
    BY <1>1, SameStatement
  <2>5. ASSUME NEW p \in DOMAIN disk
        PROVE  IF p > pageIndex THEN disk'[p] = before[p]
               ELSE /\ Len(disk'[p].rows) = Len(before[p].rows)
                    /\ \A i \in DOMAIN before[p].rows :
                         BecomesRow(before[p].rows[i], disk'[p].rows[i])
    <3>1. p \in Nat
      BY <1>4
    <3>2. CASE p = pageIndex
      <4>1. Len(page.rows) = Len(before[p].rows)
        BY <2>1, <3>2 DEF PageDoneUpTo
      <4>2. ASSUME NEW i \in DOMAIN before[p].rows
            PROVE  BecomesRow(before[p].rows[i], page.rows[i])
        <5>1. p \in DOMAIN before
          BY <1>4, <2>1, FlowFacts DEF DoneUpTo
        <5>2. IsSeq(before[p].rows)
          BY <5>1 DEF FlowInv
        <5>3. i \in 1..Len(before[p].rows) /\ Len(before[p].rows) \in Nat
          BY <5>2, IsSeqFacts
        <5>4. ~ (i > slot)
          BY <1>1, <1>2, <4>1, <5>3
        <5> QED
          BY <2>1, <3>2, <5>4 DEF PageDoneUpTo
      <4> QED
        BY <1>2, <2>3, <3>2, <4>1, <4>2
    <3>3. CASE p # pageIndex
      <4>1. disk'[p] = disk[p]
        BY <1>3, <3>3
      <4>2. p > pageIndex - 1 <=> p > pageIndex
        BY <1>2, <3>1, <3>3
      <4> QED
        BY <2>1, <4>1, <4>2 DEF DoneUpTo, NumSlots
    <3> QED
      BY <3>2, <3>3
  <2>6. Len(disk') = Len(before)
    BY <1>4, <2>1 DEF DoneUpTo
  <2>7. pageIndex' - 1 = pageIndex
    BY <1>1, <1>2
  <2>8. DoneUpTo(pageIndex - 1)'
    BY <1>1, <1>3, <2>4, <2>5, <2>6, <2>7 DEF DoneUpTo, NumSlots
  <2> QED
    BY <1>1, <2>1, <2>2, <2>8 DEF ChangeInv
<1>9. SelectInv'
  <2> SUFFICES ASSUME stmt.kind = "SELECT" PROVE SelectInv'
    BY <1>1 DEF SelectInv, Scans
  <2>1. /\ disk = before /\ page = before[pageIndex] /\ IsSeq(result.rows)
        /\ AnswerIs(HitsUpTo(pageIndex, slot))
    BY <1>1 DEF SelectInv, Scans
  <2>2. HitsUpTo(pageIndex, slot)' = HitsUpTo(pageIndex, slot)
    BY <1>1, <1>7, <2>1
  <2>3. AnswerIs(HitsUpTo(pageIndex, slot))'
    <3>1. PICK S : S = HitsUpTo(pageIndex, slot)
      OBVIOUS
    <3>2. AnswerIs(S)'
      BY <1>1, <2>1, <3>1 DEF AnswerIs, RowAt
    <3> QED
      BY <2>2, <3>1, <3>2 DEF AnswerIs
  <2> QED
    BY <1>1, <2>1, <2>3 DEF SelectInv
<1> QED
  BY <1>5, <1>6, <1>8, <1>9

(* The scan is over: every page has been visited.                          *)
LEMMA EndOfTableProgress == ExecInv /\ ProgressInv /\ EndOfTable => ProgressInv'
<1> SUFFICES ASSUME ExecInv, ProgressInv, EndOfTable PROVE ProgressInv'
  OBVIOUS
<1> USE DEF ProgressInv
<1>1. /\ pc = "read" /\ pageIndex > Len(disk) /\ pc' = "done"
      /\ pageIndex' = 1 /\ slot' = 0
      /\ disk' = disk /\ stmt' = stmt /\ result' = result /\ before' = before
  BY DEF EndOfTable, LeaveScan
<1>2. slot = 0 /\ stmt.kind # "INSERT" /\ result.err = "None" /\ pageIndex \in Nat
  BY <1>1, FlowFacts DEF FlowInv
<1>3. FlowInv'
  BY <1>1, FlowFacts DEF FlowInv
<1>4. ChangeInv' /\ SelectInv' /\ InsertInv'
  BY <1>1 DEF ChangeInv, SelectInv, InsertInv, Scans
<1>5. Hits' = Hits
  BY <1>1, SameStatement
<1>6. SuccessIsComplete'
  <2> SUFFICES ASSUME stmt.kind \in {"DELETE", "UPDATE"} PROVE SuccessIsComplete'
    BY <1>1 DEF SuccessIsComplete, Finished
  <2>1. /\ DoneUpTo(pageIndex - 1)
        /\ result.count = Cardinality(HitsUpTo(pageIndex, 0))
    BY <1>1, <1>2 DEF ChangeInv, Scans
  <2>2. Len(disk) = Len(before)
    BY <2>1 DEF DoneUpTo
  <2>3. HitsUpTo(pageIndex, 0) = Hits
    BY <1>1, <1>2, <2>2, LastPage
  <2>4. DoneUpTo(Len(before))
    <3>1. \A p \in DOMAIN disk : ~ (p > pageIndex - 1) /\ ~ (p > Len(before))
      BY <1>1, <1>2, <2>2, FlowFacts
    <3> QED
      BY <2>1, <3>1 DEF DoneUpTo
  <2>5. PICK k : k = Len(before)
    OBVIOUS
  <2>6. DoneUpTo(k)'
    BY <1>1, <2>4, <2>5, SameFile
  <2>7. DoneUpTo(Len(before))'
    BY <1>1, <2>5, <2>6 DEF DoneUpTo
  <2> QED
    BY <1>1, <1>5, <2>1, <2>3, <2>7 DEF SuccessIsComplete
<1>7. FailureKeepsPrefix'
  BY <1>1, <1>2 DEF FailureKeepsPrefix
<1>8. InsertIsAtomic'
  BY <1>1, <1>2 DEF InsertIsAtomic, Finished
<1>9. SelectReturnsTheTable'
  <2> SUFFICES ASSUME stmt.kind = "SELECT" PROVE SelectReturnsTheTable'
    BY <1>1 DEF SelectReturnsTheTable, Finished
  <2>1. disk = before /\ AnswerIs(HitsUpTo(pageIndex, 0))
    BY <1>1, <1>2 DEF SelectInv, Scans
  <2>2. AnswerIs(Hits)
    BY <1>1, <1>2, <2>1, LastPage
  <2>3. PICK S : S = Hits
    OBVIOUS
  <2>4. AnswerIs(S)'
    BY <1>1, <2>2, <2>3 DEF AnswerIs, RowAt
  <2>5. AnswerIs(Hits)'
    BY <1>5, <2>3, <2>4 DEF AnswerIs
  <2> QED
    BY <1>1, <2>1, <2>5 DEF SelectReturnsTheTable
<1> QED
  BY <1>3, <1>4, <1>6, <1>7, <1>8, <1>9 DEF EndInv

-----------------------------------------------------------------------------
(* A statement begins, an INSERT takes a page, the result is printed.      *)

LEMMA StartProgress ==
  ASSUME ExecInv, ProgressInv, NEW s \in Statements, Start(s)
  PROVE  ProgressInv'
<1> USE DEF ProgressInv
<1>1. /\ pc = "idle" /\ stmt' = s /\ before' = disk /\ result' = NoResult
      /\ pc' = IF s.kind = "INSERT" THEN "insert" ELSE "read"
      /\ disk' = disk /\ pageIndex' = pageIndex /\ page' = page /\ slot' = slot
  BY DEF Start
<1>2. pageIndex = 1 /\ slot = 0
  BY <1>1 DEF FlowInv
<1>3. /\ IsSeq(disk) /\ Len(disk) \in Nat
      /\ \A p \in DOMAIN disk : IsSeq(disk[p].rows) /\ p > 0
  BY IsSeqFacts DEF ExecInv, FileInv, PageInv
<1>4. result'.err = "None" /\ result'.count = 0 /\ result'.rows = << >>
      /\ DOMAIN result' = {"err", "count", "rows"}
  BY <1>1 DEF NoResult
<1>5. FlowInv'
  BY <1>1, <1>2, <1>3, <1>4 DEF FlowInv
<1>6. InsertInv' /\ EndInv'
  BY <1>1 DEF InsertInv, EndInv, SuccessIsComplete, FailureKeepsPrefix, InsertIsAtomic,
              SelectReturnsTheTable, Finished
<1>7. HitsUpTo(pageIndex, slot)' = {}
  BY <1>1, <1>2, <1>5, FirstSlotNext DEF HitsUpTo
<1>8. ChangeInv'
  <2>1. DoneUpTo(pageIndex - 1)'
    BY <1>1, <1>2, <1>3 DEF DoneUpTo
  <2>2. pc' # "slot"
    BY <1>1
  <2> QED
    BY <1>4, <1>7, <2>1, <2>2, FS_EmptySet DEF ChangeInv
<1>9. SelectInv'
  <2>1. IsSeq(<< >>) /\ DOMAIN << >> = {}
    BY DEF IsSeq
  <2>2. AnswerIs({})'
    <3> DEFINE from == [i \in {} |-> 0]
    <3>1. from \in [{} -> {}] /\ Range(from) = {} /\ DOMAIN from = {}
      BY DEF Range
    <3> HIDE DEF from
    <3> QED
      BY <1>4, <2>1, <3>1 DEF AnswerIs
  <2>3. AnswerIs(HitsUpTo(pageIndex, slot))'
    BY <1>7, <2>2 DEF AnswerIs
  <2>4. pc' # "slot"
    BY <1>1
  <2> QED
    BY <1>1, <1>4, <2>1, <2>3, <2>4 DEF SelectInv
<1> QED
  BY <1>5, <1>6, <1>8, <1>9

LEMMA AllocatePageProgress == ExecInv /\ ProgressInv /\ AllocatePage => ProgressInv'
<1> SUFFICES ASSUME ExecInv, ProgressInv, AllocatePage PROVE ProgressInv'
  OBVIOUS
<1> USE DEF ProgressInv
<1>1. /\ pc = "insert" /\ disk' = Append(disk, EmptyPage)
      /\ pageIndex' = Len(disk) + 1 /\ pc' = "fill"
      /\ stmt' = stmt /\ page' = page /\ slot' = slot
      /\ result' = result /\ before' = before
  BY DEF AllocatePage, NoPageHasRoom
<1>2. disk = before /\ slot = 0 /\ stmt.kind = "INSERT"
  BY <1>1 DEF InsertInv, FlowInv
<1>3. Len(disk') = Len(disk) + 1 /\ Len(disk) \in Nat
  BY <1>1, FlowFacts, AppendIsSeq
<1>4. FlowInv'
  BY <1>1, <1>2, <1>3 DEF FlowInv
<1>5. InsertInv'
  BY <1>1, <1>2, <1>3 DEF InsertInv
<1>6. ChangeInv' /\ SelectInv'
  BY <1>1 DEF ChangeInv, SelectInv, Scans
<1>7. EndInv'
  BY <1>1 DEF EndInv, SuccessIsComplete, FailureKeepsPrefix, InsertIsAtomic,
              SelectReturnsTheTable, Finished
<1> QED
  BY <1>4, <1>5, <1>6, <1>7

LEMMA ReturnProgress == ExecInv /\ ProgressInv /\ Return => ProgressInv'
<1> SUFFICES ASSUME ExecInv, ProgressInv, Return PROVE ProgressInv'
  OBVIOUS
<1> USE DEF ProgressInv
<1>1. /\ pc = "done" /\ pc' = "idle" /\ result' = NoResult /\ before' = << >>
      /\ disk' = disk /\ pageIndex' = pageIndex /\ page' = page /\ slot' = slot
  BY DEF Return
<1>2. IsSeq(<< >>) /\ DOMAIN << >> = {}
  BY DEF IsSeq
<1>3. FlowInv'
  BY <1>1, <1>2 DEF FlowInv, NoResult
<1>4. ChangeInv' /\ SelectInv' /\ InsertInv'
  BY <1>1 DEF ChangeInv, SelectInv, InsertInv, Scans
<1>5. EndInv'
  BY <1>1 DEF EndInv, SuccessIsComplete, FailureKeepsPrefix, InsertIsAtomic,
              SelectReturnsTheTable, Finished
<1> QED
  BY <1>3, <1>4, <1>5

LEMMA InitProgress == Init => ProgressInv
<1> SUFFICES ASSUME Init PROVE ProgressInv
  OBVIOUS
<1>1. /\ disk = << >> /\ before = << >> /\ pc = "idle" /\ result = NoResult
      /\ pageIndex = 1 /\ slot = 0
  BY DEF Init
<1>2. IsSeq(<< >>) /\ DOMAIN << >> = {} /\ Len(<< >>) = 0
  BY DEF IsSeq
<1>3. FlowInv
  BY <1>1, <1>2 DEF FlowInv, NoResult
<1>4. ChangeInv /\ SelectInv /\ InsertInv
  BY <1>1 DEF ChangeInv, SelectInv, InsertInv, Scans
<1>5. EndInv
  BY <1>1 DEF EndInv, SuccessIsComplete, FailureKeepsPrefix, InsertIsAtomic,
              SelectReturnsTheTable, Finished
<1> QED
  BY <1>3, <1>4, <1>5 DEF ProgressInv

LEMMA StepProgress == ExecInv /\ ProgressInv /\ [Next]_vars => ProgressInv'
<1> SUFFICES ASSUME ExecInv, ProgressInv, [Next]_vars PROVE ProgressInv'
  OBVIOUS
<1>1. CASE ReadPage
  BY <1>1, ReadPageProgress
<1>2. CASE EndOfTable
  BY <1>2, EndOfTableProgress
<1>3. CASE SkipSlot
  BY <1>3, SkipSlotProgress
<1>4. CASE WhereFails
  BY <1>4, AbortEnds DEF WhereFails, AtRow, AtSlot
<1>5. CASE SelectRow
  BY <1>5, SelectRowProgress
<1>6. CASE DeleteRow
  BY <1>6, DeleteRowProgress
<1>7. CASE UpdateRow
  BY <1>7, UpdateRowProgress
<1>8. CASE UpdateFails
  BY <1>8, AbortEnds DEF UpdateFails, Chosen, AtRow, AtSlot
<1>9. CASE EndOfPage
  BY <1>9, EndOfPageProgress
<1>10. CASE InsertFails
  BY <1>10, AbortEnds DEF InsertFails
<1>11. CASE InsertIntoPage
  <2>1. PICK p \in DOMAIN disk :
          disk' = [disk EXCEPT ![p] = Inserted(disk[p], Inserting(stmt).val)]
    BY <1>11 DEF InsertIntoPage
  <2>2. /\ pc \in {"insert", "fill"} /\ InsertRowError(stmt) = "None"
        /\ pc' = "done" /\ result' = [NoResult EXCEPT !.count = 1] /\ LeaveScan
        /\ stmt' = stmt /\ before' = before
    BY <1>11 DEF InsertIntoPage
  <2> QED
    BY <2>1, <2>2, InsertEnds
<1>12. CASE AllocatePage
  BY <1>12, AllocatePageProgress
<1>13. CASE AllocateFails
  BY <1>13, AbortEnds DEF AllocateFails, NoPageHasRoom
<1>14. CASE FillPage
  <2>1. /\ pc \in {"insert", "fill"} /\ pageIndex \in DOMAIN disk
        /\ InsertRowError(stmt) = "None"
        /\ disk' = [disk EXCEPT ![pageIndex] =
                       Inserted(disk[pageIndex], Inserting(stmt).val)]
        /\ pc' = "done" /\ result' = [NoResult EXCEPT !.count = 1] /\ LeaveScan
        /\ stmt' = stmt /\ before' = before
    BY <1>14 DEF FillPage, ExecInv, ScanInv, StmtInv
  <2> QED
    BY <2>1, InsertEnds
<1>15. CASE FillFails
  BY <1>15, AbortEnds DEF FillFails
<1>16. CASE Return
  BY <1>16, ReturnProgress
<1>17. CASE Crash
  BY <1>17, AbortEnds DEF Crash
<1>18. CASE IOFails
  BY <1>18, AbortEnds DEF IOFails
<1>19. ASSUME NEW s \in Statements, Start(s)
       PROVE  ProgressInv'
  BY <1>19, StartProgress
<1>20. CASE UNCHANGED vars
  <2>1. /\ disk' = disk /\ stmt' = stmt /\ pc' = pc /\ pageIndex' = pageIndex
        /\ page' = page /\ slot' = slot /\ result' = result /\ before' = before
    BY <1>20 DEF vars
  <2>2. FlowInv' /\ InsertInv'
    BY <2>1 DEF ProgressInv, FlowInv, InsertInv
  <2>3. /\ Hits' = Hits /\ HitsUpTo(pageIndex, slot)' = HitsUpTo(pageIndex, slot)
        /\ PageDoneUpTo(slot)' <=> PageDoneUpTo(slot)
    BY <2>1, SameStatement DEF HitsUpTo, PageDoneUpTo
  <2>4. /\ DoneUpTo(pageIndex - 1)' <=> DoneUpTo(pageIndex - 1)
        /\ DoneUpTo(Len(before))' <=> DoneUpTo(Len(before))
        /\ \A k : DoneUpTo(k)' <=> DoneUpTo(k)
    BY <2>1, SameStatement DEF DoneUpTo
  <2>5. /\ AnswerIs(Hits)' <=> AnswerIs(Hits)
        /\ AnswerIs(HitsUpTo(pageIndex, slot))' <=> AnswerIs(HitsUpTo(pageIndex, slot))
    BY <2>1, <2>3 DEF AnswerIs, RowAt
  <2>6. LiveSlots(disk)' = LiveSlots(disk) /\ LiveSlots(before)' = LiveSlots(before)
        /\ Inserting(stmt)' = Inserting(stmt)
    BY <2>1 DEF LiveSlots
  <2>7. \A at : RowAt(disk, at)' = RowAt(disk, at) /\ RowAt(before, at)' = RowAt(before, at)
    BY <2>1 DEF RowAt
  <2>8. ChangeInv' /\ SelectInv'
    BY <2>1, <2>3, <2>4, <2>5 DEF ProgressInv, ChangeInv, SelectInv, Scans
  <2>9. /\ SuccessIsComplete' /\ FailureKeepsPrefix' /\ SelectReturnsTheTable'
    BY <2>1, <2>3, <2>4, <2>5 DEF ProgressInv, EndInv, SuccessIsComplete,
       FailureKeepsPrefix, SelectReturnsTheTable, Finished
  <2>10. InsertIsAtomic'
    BY <2>1, <2>6, <2>7 DEF ProgressInv, EndInv, InsertIsAtomic, Finished
  <2> QED
    BY <2>2, <2>8, <2>9, <2>10 DEF ProgressInv, EndInv
<1> QED
  BY <1>1, <1>2, <1>3, <1>4, <1>5, <1>6, <1>7, <1>8, <1>9, <1>10, <1>11, <1>12,
     <1>13, <1>14, <1>15, <1>16, <1>17, <1>18, <1>19, <1>20 DEF Next, Step

(* At every step the rows behind the scan are what the statement makes of  *)
(* them and the rows before it are untouched (the loops of execSelect,     *)
(* execUpdate and execDelete).                                             *)
THEOREM ScanProgress == Spec => []ProgressInv
<1> QED
  BY InitProgress, StepProgress, ExecutorInv, PTL DEF Spec

-----------------------------------------------------------------------------
(* A DELETE or UPDATE that reports success has changed each matching row   *)
(* once, no other row, and counts them (execDelete and execUpdate).        *)
THEOREM SuccessChangesAll == Spec => []SuccessIsComplete
<1> QED
  BY ScanProgress, PTL DEF ProgressInv, EndInv

(* One that fails or dies leaves the changes of whole pages from the front *)
(* of the table (execDelete and execUpdate write a page at its end only).  *)
THEOREM FailureLeavesPages == Spec => []FailureKeepsPrefix
<1> QED
  BY ScanProgress, PTL DEF ProgressInv, EndInv

(* INSERT adds its row in one slot of its own or leaves every row alone,   *)
(* also when it dies between the two writes of execInsert.                 *)
THEOREM InsertAllOrNothing == Spec => []InsertIsAtomic
<1> QED
  BY ScanProgress, PTL DEF ProgressInv, EndInv

(* A SELECT that succeeds returns the matching rows, each once and in the  *)
(* order of the file, and no SELECT writes (execSelect).                   *)
THEOREM SelectAnswersAll == Spec => []SelectReturnsTheTable
<1> QED
  BY ScanProgress, PTL DEF ProgressInv, EndInv

-----------------------------------------------------------------------------
(* For every schema, every set of statements and every page size: the      *)
(* executor implements TableSpec. Under the mapping of module Executor the *)
(* end of a page is a Change, the write of a row an Insert, the end of the *)
(* scan a Succeed or an Answer, every early return and the crash a Fail;   *)
(* reading a page, visiting a slot and writing an empty page are stutters. *)

(* The statement is set while one runs, and its WHERE had a value for      *)
(* every row behind the scan.                                              *)
TableInv ==
  /\ pc = "idle" => stmt = NoStatement /\ before = << >>
  /\ pc # "idle" => stmt \in Statements
  /\ pc \in {"read", "slot"} =>
       \A p \in DOMAIN before : \A i \in DOMAIN before[p].rows :
         /\ p < pageIndex \/ (p = pageIndex /\ i <= slot)
         /\ before[p].rows[i] # Deleted
         => Match(stmt, before[p].rows[i]).err = "None"

LEMMA StatementKind ==
  ASSUME NEW s \in Statements
  PROVE  s.kind \in {"SELECT", "INSERT", "DELETE", "UPDATE"} /\ s # NoStatement
<1>1. s.kind \in {"SELECT", "INSERT", "DELETE", "UPDATE"}
  BY StatementsAssumption
<1>2. NoStatement.kind = "NONE"
  BY DEF NoStatement
<1> QED
  BY <1>1, <1>2

LEMMA InitTable == Init => TableInv
BY DEF Init, TableInv

(* The WHERE has a value for the row of the slot, or the slot holds none.  *)
LEMMA SlotMatched ==
  ASSUME ExecInv, ProgressInv, TableInv, AtSlot,
         SlotDeleted(page, slot) \/ Match(stmt, RowOf(page, slot)).err = "None",
         slot' = slot + 1, pc' = pc, pageIndex' = pageIndex, stmt' = stmt,
         before' = before
  PROVE  TableInv'
<1>1. pc = "slot" /\ slot \in Nat
  BY DEF AtSlot, ExecInv, ScanInv
<1>2. stmt \in Statements /\ stmt.kind # "INSERT"
  BY <1>1 DEF TableInv, ProgressInv, FlowInv
<1>3. stmt.kind \in {"SELECT", "DELETE", "UPDATE"}
  BY <1>2, StatementKind
<1>4. /\ pageIndex \in DOMAIN before
      /\ before[pageIndex].rows[slot + 1] = RowOf(page, slot)
  BY <1>3, OldRow
<1>5. before[pageIndex].rows[slot + 1] # Deleted =>
        Match(stmt, before[pageIndex].rows[slot + 1]).err = "None"
  BY <1>4 DEF SlotDeleted, RowOf
<1>6. ASSUME NEW p \in DOMAIN before, NEW i \in DOMAIN before[p].rows,
             p < pageIndex \/ (p = pageIndex /\ i <= slot + 1),
             before[p].rows[i] # Deleted
      PROVE  Match(stmt, before[p].rows[i]).err = "None"
  <2>1. IsSeq(before[p].rows)
    BY DEF ProgressInv, FlowInv
  <2>2. i \in Nat
    BY <2>1, IsSeqFacts
  <2>3. CASE p = pageIndex /\ i = slot + 1
    BY <1>5, <1>6, <2>3
  <2>4. CASE ~ (p = pageIndex /\ i = slot + 1)
    <3>1. p < pageIndex \/ (p = pageIndex /\ i <= slot)
      BY <1>1, <1>6, <2>2, <2>4
    <3> QED
      BY <1>1, <1>6, <3>1 DEF TableInv
  <2> QED
    BY <2>3, <2>4
<1> QED
  BY <1>1, <1>2, <1>6 DEF TableInv

LEMMA StepTable == ExecInv /\ ProgressInv /\ TableInv /\ [Next]_vars => TableInv'
<1> SUFFICES ASSUME ExecInv, ProgressInv, TableInv, [Next]_vars PROVE TableInv'
  OBVIOUS
<1>1. ASSUME NEW e, pc \notin {"idle"}, Abort(e)
      PROVE  TableInv'
  BY <1>1 DEF Abort, TableInv
<1>2. CASE ReadPage
  <2>1. pc = "read" /\ pc' = "slot" /\ stmt' = stmt /\ pageIndex' = pageIndex
        /\ slot' = slot /\ before' = before
    BY <1>2 DEF ReadPage
  <2> QED
    BY <2>1 DEF TableInv
<1>3. CASE EndOfTable
  BY <1>3 DEF EndOfTable, TableInv
<1>4. CASE SkipSlot
  BY <1>4, SlotMatched DEF SkipSlot, Ok
<1>5. CASE WhereFails
  BY <1>1, <1>5 DEF WhereFails, AtRow, AtSlot
<1>6. CASE SelectRow
  BY <1>6, SlotMatched DEF SelectRow, Chosen, AtRow, Ok
<1>7. CASE DeleteRow
  BY <1>7, SlotMatched DEF DeleteRow, Chosen, AtRow, Ok
<1>8. CASE UpdateRow
  BY <1>8, SlotMatched DEF UpdateRow, Chosen, AtRow, Ok
<1>9. CASE UpdateFails
  BY <1>1, <1>9 DEF UpdateFails, Chosen, AtRow, AtSlot
<1>10. CASE EndOfPage
  <2>1. /\ pc = "slot" /\ slot >= Len(page.rows) /\ pageIndex' = pageIndex + 1
        /\ slot' = 0 /\ pc' = "read" /\ stmt' = stmt /\ before' = before
    BY <1>10 DEF EndOfPage, NumSlots
  <2>2. /\ stmt \in Statements
        /\ stmt.kind \in {"SELECT", "DELETE", "UPDATE"}
    BY <2>1, StatementKind DEF TableInv, ProgressInv, FlowInv
  <2>3. Len(page.rows) = Len(before[pageIndex].rows)
    BY <2>1, <2>2 DEF ProgressInv, SelectInv, ChangeInv, Scans, PageDoneUpTo
  <2>4. ASSUME NEW p \in DOMAIN before, NEW i \in DOMAIN before[p].rows,
               p < pageIndex + 1 \/ (p = pageIndex + 1 /\ i <= 0),
               before[p].rows[i] # Deleted
        PROVE  Match(stmt, before[p].rows[i]).err = "None"
    <3>1. IsSeq(before) /\ IsSeq(before[p].rows) /\ pageIndex \in Nat /\ slot \in Nat
      BY DEF ProgressInv, FlowInv, ExecInv, ScanInv
    <3>2. p \in Nat /\ i \in Nat \ {0} /\ i <= Len(before[p].rows)
          /\ Len(before[p].rows) \in Nat
      BY <3>1, IsSeqFacts
    <3>3. p < pageIndex \/ (p = pageIndex /\ i <= slot)
      BY <2>1, <2>3, <2>4, <3>1, <3>2
    <3> QED
      BY <2>1, <2>4, <3>3 DEF TableInv
  <2> QED
    BY <2>1, <2>2, <2>4 DEF TableInv
<1>11. CASE InsertFails
  BY <1>1, <1>11 DEF InsertFails
<1>12. CASE InsertIntoPage
  BY <1>12 DEF InsertIntoPage, TableInv
<1>13. CASE AllocatePage
  BY <1>13 DEF AllocatePage, NoPageHasRoom, TableInv
<1>14. CASE AllocateFails
  BY <1>1, <1>14 DEF AllocateFails, NoPageHasRoom
<1>15. CASE FillPage
  BY <1>15 DEF FillPage, TableInv
<1>16. CASE FillFails
  BY <1>1, <1>16 DEF FillFails
<1>17. CASE Return
  BY <1>17 DEF Return, TableInv
<1>18. CASE Crash
  BY <1>1, <1>18 DEF Crash
<1>19. CASE IOFails
  BY <1>1, <1>19 DEF IOFails
<1>20. ASSUME NEW s \in Statements, Start(s)
       PROVE  TableInv'
  <2>1. /\ pc = "idle" /\ stmt' = s /\ before' = disk
        /\ pc' \in {"insert", "read"} /\ pageIndex' = 1 /\ slot' = 0
    BY <1>20 DEF Start, ProgressInv, FlowInv
  <2>2. ASSUME NEW p \in DOMAIN disk, NEW i \in DOMAIN disk[p].rows
        PROVE  ~ (p < 1 \/ (p = 1 /\ i <= 0))
    <3>1. IsSeq(disk) /\ IsSeq(disk[p].rows)
      BY DEF ExecInv, FileInv, PageInv
    <3>2. p \in Nat \ {0} /\ i \in Nat \ {0}
      BY <3>1, IsSeqFacts
    <3> QED
      BY <3>2
  <2> QED
    BY <2>1, <2>2 DEF TableInv
<1>21. CASE UNCHANGED vars
  <2>1. /\ stmt' = stmt /\ pc' = pc /\ pageIndex' = pageIndex
        /\ slot' = slot /\ before' = before
    BY <1>21 DEF vars
  <2> QED
    BY <2>1 DEF TableInv
<1> QED
  BY <1>2, <1>3, <1>4, <1>5, <1>6, <1>7, <1>8, <1>9, <1>10, <1>11, <1>12,
     <1>13, <1>14, <1>15, <1>16, <1>17, <1>18, <1>19, <1>20, <1>21 DEF Next, Step

-----------------------------------------------------------------------------
(* The table behind the pages.                                             *)

LEMMA TableOfDef ==
  ASSUME NEW P
  PROVE  /\ DOMAIN TableOf(P) = LiveSlots(P)
         /\ \A at \in LiveSlots(P) : TableOf(P)[at] = RowAt(P, at)
BY DEF TableOf

LEMMA SameTable ==
  ASSUME NEW P, NEW Q, LiveSlots(Q) = LiveSlots(P),
         \A at \in LiveSlots(P) : RowAt(Q, at) = RowAt(P, at)
  PROVE  TableOf(Q) = TableOf(P)
BY DEF TableOf

LEMMA LiveRow ==
  ASSUME NEW P, NEW at \in LiveSlots(P)
  PROVE  /\ at = <<at[1], at[2]>>
         /\ at[1] \in DOMAIN P /\ at[2] \in DOMAIN P[at[1]].rows
         /\ RowAt(P, at) = P[at[1]].rows[at[2]] /\ RowAt(P, at) # Deleted
<1>1. PICK p \in DOMAIN P : \E i \in DOMAIN P[p].rows :
        at = <<p, i>> /\ P[p].rows[i] # Deleted
  BY LiveSlotsDef
<1>2. PICK i \in DOMAIN P[p].rows : at = <<p, i>> /\ P[p].rows[i] # Deleted
  BY <1>1
<1>3. at[1] = p /\ at[2] = i
  BY <1>2
<1> QED
  BY <1>2, <1>3 DEF RowAt

(* One page is replaced and some of its rows, at the places S, change.     *)
ReplacesPage(P, Q, p, S, new) ==
  /\ p \in DOMAIN P /\ DOMAIN Q = DOMAIN P
  /\ \A q \in DOMAIN P : q # p => Q[q] = P[q]
  /\ DOMAIN Q[p].rows = DOMAIN P[p].rows
  /\ S \subseteq LiveSlots(P) /\ \A x \in S : x[1] = p
  /\ \A i \in DOMAIN P[p].rows :
       Q[p].rows[i] = IF <<p, i>> \in S THEN new[<<p, i>>] ELSE P[p].rows[i]

LEMMA PageReplaced ==
  ASSUME NEW P, NEW Q, NEW p, NEW S, NEW new, ReplacesPage(P, Q, p, S, new)
  PROVE  /\ \A x : x \in LiveSlots(Q) <=>
                   x \in LiveSlots(P) /\ ~ (x \in S /\ new[x] = Deleted)
         /\ \A x \in LiveSlots(Q) :
              RowAt(Q, x) = IF x \in S THEN new[x] ELSE RowAt(P, x)
<1> USE DEF ReplacesPage
<1> DEFINE now(x) == IF x \in S THEN new[x] ELSE RowAt(P, x)
<1>1. ASSUME NEW q \in DOMAIN P, NEW i \in DOMAIN P[q].rows
      PROVE  i \in DOMAIN Q[q].rows /\ Q[q].rows[i] = now(<<q, i>>)
  <2>1. <<q, i>>[1] = q /\ RowAt(P, <<q, i>>) = P[q].rows[i]
    BY DEF RowAt
  <2>2. CASE q = p
    BY <2>1, <2>2
  <2>3. CASE q # p
    BY <2>1, <2>3
  <2> QED
    BY <2>2, <2>3
<1>2. ASSUME NEW q \in DOMAIN Q, NEW i \in DOMAIN Q[q].rows
      PROVE  q \in DOMAIN P /\ i \in DOMAIN P[q].rows
  <2>1. CASE q = p
    BY <2>1
  <2>2. CASE q # p
    BY <2>2
  <2> QED
    BY <2>1, <2>2
<1>3. ASSUME NEW x
      PROVE  x \in LiveSlots(Q) <=> x \in LiveSlots(P) /\ ~ (x \in S /\ new[x] = Deleted)
  <2>1. ASSUME x \in LiveSlots(Q)
        PROVE  x \in LiveSlots(P) /\ ~ (x \in S /\ new[x] = Deleted)
    <3>1. /\ x = <<x[1], x[2]>> /\ x[1] \in DOMAIN Q /\ x[2] \in DOMAIN Q[x[1]].rows
          /\ Q[x[1]].rows[x[2]] # Deleted
      BY <2>1, LiveRow
    <3>2. x[1] \in DOMAIN P /\ x[2] \in DOMAIN P[x[1]].rows
      BY <1>2, <3>1
    <3>3. Q[x[1]].rows[x[2]] = now(x)
      BY <1>1, <3>1, <3>2
    <3>4. CASE x \in S
      BY <3>1, <3>3, <3>4
    <3>5. CASE x \notin S
      <4>1. P[x[1]].rows[x[2]] # Deleted
        BY <3>1, <3>3, <3>5 DEF RowAt
      <4> QED
        BY <3>1, <3>2, <3>5, <4>1, LiveSlotsDef
    <3> QED
      BY <3>4, <3>5
  <2>2. ASSUME x \in LiveSlots(P), ~ (x \in S /\ new[x] = Deleted)
        PROVE  x \in LiveSlots(Q)
    <3>1. /\ x = <<x[1], x[2]>> /\ x[1] \in DOMAIN P /\ x[2] \in DOMAIN P[x[1]].rows
          /\ RowAt(P, x) # Deleted
      BY <2>2, LiveRow
    <3>2. x[2] \in DOMAIN Q[x[1]].rows /\ Q[x[1]].rows[x[2]] = now(x)
      BY <1>1, <3>1
    <3>3. now(x) # Deleted
      BY <2>2, <3>1
    <3> HIDE DEF now
    <3> QED
      BY <3>1, <3>2, <3>3, LiveSlotsDef
  <2> QED
    BY <2>1, <2>2
<1>4. ASSUME NEW x \in LiveSlots(Q)
      PROVE  RowAt(Q, x) = now(x)
  <2>1. /\ x = <<x[1], x[2]>> /\ x[1] \in DOMAIN Q /\ x[2] \in DOMAIN Q[x[1]].rows
        /\ RowAt(Q, x) = Q[x[1]].rows[x[2]]
    BY LiveRow
  <2> HIDE DEF now
  <2> QED
    BY <1>1, <1>2, <2>1
<1> QED
  BY <1>3, <1>4

LEMMA MatchingIsHits ==
  /\ Table!Matching(stmt, TableOf(before)) = Hits
  /\ \A at \in Hits : TableOf(before)[at] = RowAt(before, at)
<1>1. DOMAIN TableOf(before) = LiveSlots(before)
  BY TableOfDef
<1>2. ASSUME NEW at \in LiveSlots(before)
      PROVE  /\ TableOf(before)[at] = RowAt(before, at)
             /\ Table!Holds(stmt, TableOf(before)[at]) <=> Hit(RowAt(before, at))
  <2>1. TableOf(before)[at] = RowAt(before, at) /\ RowAt(before, at) # Deleted
    BY TableOfDef, LiveRow
  <2> QED
    BY <2>1 DEF Table!Holds, Hit, Ok
<1> QED
  BY <1>1, <1>2 DEF Table!Matching, Hits

(* What a DELETE or UPDATE has yet to change is what it should change at   *)
(* the page it stands at and behind it.                                    *)
LEMMA ToDoDef ==
  ASSUME ExecInv, ProgressInv, Scans({"DELETE", "UPDATE"})
  PROVE  ToDo = {at \in Hits : at[1] >= pageIndex}
<1>1. Len(disk) = Len(before)
      /\ \A p \in DOMAIN disk : p > pageIndex - 1 => disk[p] = before[p]
  BY DEF ProgressInv, ChangeInv, DoneUpTo
<1>2. DOMAIN disk = DOMAIN before /\ pageIndex \in Nat /\ \A p \in DOMAIN disk : p \in Nat
  BY <1>1, FlowFacts DEF ProgressInv
<1>3. ASSUME NEW p \in DOMAIN disk, p >= pageIndex
      PROVE  disk[p] = before[p]
  BY <1>1, <1>2, <1>3
<1>4. ASSUME NEW x
      PROVE  (x \in LiveSlots(disk) /\ x[1] >= pageIndex /\ Hit(RowAt(disk, x)))
             <=> (x \in Hits /\ x[1] >= pageIndex)
  <2>1. ASSUME x \in LiveSlots(disk), x[1] >= pageIndex, Hit(RowAt(disk, x))
        PROVE  x \in Hits
    <3>1. /\ x = <<x[1], x[2]>> /\ x[1] \in DOMAIN disk /\ x[2] \in DOMAIN disk[x[1]].rows
          /\ RowAt(disk, x) = disk[x[1]].rows[x[2]]
      BY <2>1, LiveRow
    <3>2. disk[x[1]] = before[x[1]]
      BY <1>3, <2>1, <3>1
    <3> QED
      BY <1>2, <2>1, <3>1, <3>2, HitsDef
  <2>2. ASSUME x \in Hits, x[1] >= pageIndex
        PROVE  x \in LiveSlots(disk) /\ Hit(RowAt(disk, x))
    <3>1. /\ x = <<x[1], x[2]>> /\ x[1] \in DOMAIN before
          /\ x[2] \in DOMAIN before[x[1]].rows /\ Hit(before[x[1]].rows[x[2]])
      BY <2>2, HitsArePairs DEF ProgressInv
    <3>2. x[1] \in DOMAIN disk /\ disk[x[1]] = before[x[1]]
      BY <1>2, <1>3, <2>2, <3>1
    <3>3. disk[x[1]].rows[x[2]] # Deleted
      BY <3>1, <3>2 DEF Hit
    <3> QED
      BY <3>1, <3>2, <3>3, LiveSlotsDef DEF RowAt
  <2> QED
    BY <2>1, <2>2
<1>5. ToDo = {at \in LiveSlots(disk) : at[1] >= pageIndex /\ Hit(RowAt(disk, at))}
  BY DEF ToDo, Scans
<1> QED
  BY <1>4, <1>5

LEMMA ToDoDefNext ==
  (ExecInv /\ ProgressInv /\ Scans({"DELETE", "UPDATE"})
     => ToDo = {at \in Hits : at[1] >= pageIndex})'
<1>1. ExecInv /\ ProgressInv /\ Scans({"DELETE", "UPDATE"})
        => ToDo = {at \in Hits : at[1] >= pageIndex}
  BY ToDoDef
<1> QED
  BY <1>1, PTL

LEMMA NothingToDo ==
  ASSUME ~ Scans({"DELETE", "UPDATE"})
  PROVE  ToDo = {}
BY DEF ToDo, Scans

(* Steps that the user of the table does not see.                          *)
LEMMA Unseen ==
  ASSUME TableOf(disk') = TableOf(disk), stmt' = stmt, before' = before,
         ToDo' = ToDo, TheAnswer' = TheAnswer
  PROVE  Table!vars' = Table!vars
<1>1. TableOf(disk)' = TableOf(disk)
  BY DEF TableOf, LiveSlots, RowAt
<1>2. TableOf(before)' = TableOf(before)
  BY DEF TableOf, LiveSlots, RowAt
<1> QED
  BY <1>1, <1>2 DEF Table!vars

LEMMA PendingIsNoAnswer ==
  /\ pc # "done" => TheAnswer = Table!Pending
  /\ pc = "done" => TheAnswer # Table!Pending
<1>1. ASSUME pc = "done"
      PROVE  "err" \in DOMAIN TheAnswer
  BY <1>1 DEF TheAnswer
<1>2. "err" \notin DOMAIN Table!Pending
  BY DEF Table!Pending
<1>3. pc # "done" => TheAnswer = Table!Pending
  BY DEF TheAnswer, Table!Pending, Finished
<1> QED
  BY <1>1, <1>2, <1>3

LEMMA PendingIsNoAnswerNext ==
  (/\ pc # "done" => TheAnswer = Table!Pending
   /\ pc = "done" => TheAnswer # Table!Pending)'
BY PendingIsNoAnswer, PTL

LEMMA NothingToDoNext == (~ Scans({"DELETE", "UPDATE"}) => ToDo = {})'
<1>1. ~ Scans({"DELETE", "UPDATE"}) => ToDo = {}
  BY NothingToDo
<1> QED
  BY <1>1, PTL

-----------------------------------------------------------------------------
(* Each step of the executor is a step of the table.                       *)

LEMMA AbortIsFail ==
  ASSUME TableInv, NEW e, e # "None", pc \notin {"idle", "done"}, Abort(e)
  PROVE  Table!Fail
<1>1. /\ pc' = "done" /\ result' = [NoResult EXCEPT !.err = e]
      /\ disk' = disk /\ stmt' = stmt /\ before' = before
  BY DEF Abort
<1>2. result'.err = e
  BY <1>1 DEF NoResult
<1>3. TheAnswer' = [err |-> e]
  BY <1>1, <1>2 DEF TheAnswer, Finished
<1>4. stmt # NoStatement
  BY StatementKind DEF TableInv
<1>5. TheAnswer = Table!Pending /\ TheAnswer' # Table!Pending
  BY <1>1, PendingIsNoAnswer, PendingIsNoAnswerNext DEF Table!Pending
<1>6. ToDo' = {}
  BY <1>1, NothingToDoNext DEF Scans
<1>7. TableOf(disk)' = TableOf(disk) /\ TableOf(before)' = TableOf(before)
  BY <1>1 DEF TableOf, LiveSlots, RowAt
<1> QED
  BY <1>1, <1>3, <1>4, <1>5, <1>6, <1>7 DEF Table!Fail

LEMMA StartIsBegin ==
  ASSUME ExecInv, ProgressInv, TableInv, NEW s \in Statements, Start(s)
  PROVE  Table!Begin(s)
<1>1. /\ pc = "idle" /\ pc' = IF s.kind = "INSERT" THEN "insert" ELSE "read"
      /\ stmt' = s /\ before' = disk /\ disk' = disk /\ pageIndex' = pageIndex
  BY DEF Start
<1>2. stmt = NoStatement /\ pageIndex = 1
  BY <1>1 DEF TableInv, ProgressInv, FlowInv
<1>3. TheAnswer = Table!Pending /\ TheAnswer' = Table!Pending
  BY <1>1, PendingIsNoAnswer, PendingIsNoAnswerNext DEF Table!Pending
<1>4. TableOf(disk)' = TableOf(disk) /\ TableOf(before)' = TableOf(disk)
  BY <1>1 DEF TableOf, LiveSlots, RowAt
<1>5. ToDo' = IF s.kind \in {"DELETE", "UPDATE"} THEN Table!Matching(s, TableOf(disk))
              ELSE {}
  <2>1. CASE s.kind \notin {"DELETE", "UPDATE"}
    <3>1. ~ Scans({"DELETE", "UPDATE"})'
      BY <1>1, <2>1 DEF Scans
    <3> QED
      BY <2>1, <3>1, NothingToDoNext
  <2>2. CASE s.kind \in {"DELETE", "UPDATE"}
    <3>1. /\ LiveSlots(disk)' = LiveSlots(disk)
          /\ \A at : RowAt(disk, at)' = RowAt(disk, at)
      BY <1>1 DEF LiveSlots, RowAt
    <3>2. \A row : Hit(row)' <=> row # Deleted /\ Match(s, row) = Ok(TRUE)
      BY <1>1 DEF Hit
    <3>3. ToDo' = {at \in LiveSlots(disk) :
                     at[1] >= 1 /\ RowAt(disk, at) # Deleted
                     /\ Match(s, RowAt(disk, at)) = Ok(TRUE)}
      BY <1>1, <1>2, <2>2, <3>1, <3>2 DEF ToDo
    <3>4. ASSUME NEW at \in LiveSlots(disk)
          PROVE  at[1] >= 1 /\ RowAt(disk, at) # Deleted
                 /\ TableOf(disk)[at] = RowAt(disk, at)
      <4>1. IsSeq(disk)
        BY DEF ExecInv, FileInv
      <4>2. at[1] \in Nat \ {0}
        BY <4>1, LiveRow, IsSeqFacts
      <4> QED
        BY <4>2, LiveRow, TableOfDef
    <3>5. DOMAIN TableOf(disk) = LiveSlots(disk)
      BY TableOfDef
    <3> QED
      BY <2>2, <3>3, <3>4, <3>5 DEF Table!Matching, Table!Holds, Ok
  <2> QED
    BY <2>1, <2>2
<1> QED
  BY <1>1, <1>2, <1>3, <1>4, <1>5 DEF Table!Begin

(* The steps that move the scan within a page.                             *)
LEMMA ScanIsUnseen ==
  ASSUME ExecInv, ProgressInv, pc \in {"read", "slot"}, pc' \in {"read", "slot"},
         disk' = disk, stmt' = stmt, before' = before, pageIndex' = pageIndex
  PROVE  Table!vars' = Table!vars
<1>1. ToDo' = ToDo
  <2>1. LiveSlots(disk)' = LiveSlots(disk) /\ \A at : RowAt(disk, at)' = RowAt(disk, at)
    BY DEF LiveSlots, RowAt
  <2>2. \A row : Hit(row)' <=> Hit(row)
    BY SameStatement
  <2> QED
    BY <2>1, <2>2 DEF ToDo
<1>2. TheAnswer' = TheAnswer
  BY PendingIsNoAnswer, PendingIsNoAnswerNext DEF Table!Pending
<1> QED
  BY <1>1, <1>2, Unseen

LEMMA AllocatePageIsUnseen ==
  ASSUME ExecInv, AllocatePage
  PROVE  Table!vars' = Table!vars
<1>1. /\ pc = "insert" /\ pc' = "fill" /\ disk' = Append(disk, EmptyPage)
      /\ stmt' = stmt /\ before' = before
  BY DEF AllocatePage, NoPageHasRoom
<1>2. IsSeq(disk)
  BY DEF ExecInv, FileInv
<1>3. TableOf(disk') = TableOf(disk)
  BY <1>1, <1>2, EmptyPageAdded, SameTable
<1>4. ToDo = {} /\ ToDo' = {}
  BY <1>1, NothingToDo, NothingToDoNext DEF Scans
<1>5. TheAnswer' = TheAnswer
  BY <1>1, PendingIsNoAnswer, PendingIsNoAnswerNext DEF Table!Pending
<1> QED
  BY <1>1, <1>3, <1>4, <1>5, Unseen

LEMMA RowWrittenIsInsert ==
  ASSUME ExecInv, ProgressInv, TableInv, pc \in {"insert", "fill"}, NEW p \in DOMAIN disk,
         InsertRowError(stmt) = "None",
         disk' = [disk EXCEPT ![p] = Inserted(disk[p], Inserting(stmt).val)],
         pc' = "done", result' = [NoResult EXCEPT !.count = 1],
         stmt' = stmt, before' = before
  PROVE  Table!Insert
<1> DEFINE row == Inserting(stmt).val
<1>0. PICK at : at = <<p, Len(disk[p].rows) + 1>>
  OBVIOUS
<1>1. stmt \in Statements /\ stmt.kind = "INSERT" /\ stmt # NoStatement
  BY StatementKind DEF ExecInv, StmtInv, ProgressInv, FlowInv
<1>2. TheAnswer = Table!Pending
  BY PendingIsNoAnswer
<1>3. Inserting(stmt).err = "None"
  BY DEF InsertRowError
<1>4. RowOK(row) /\ (pkIndex # 0 => ~ primaryKeyExists(disk, row[pkIndex], <<0, 0>>))
  BY <1>1, InsertedRow
<1>5. row # Deleted
  <2>1. DOMAIN row = 1..Len(Columns) /\ Len(Columns) \in Nat /\ Len(Columns) # 0
    BY <1>4, ColumnsAssumption DEF RowOK
  <2> QED
    BY <2>1 DEF Deleted
<1>6. IsSeq(disk) /\ PageInv(disk[p])
  BY DEF ExecInv, FileInv
<1>7. /\ LiveSlots(disk') = LiveSlots(disk) \cup {at}
      /\ at \notin LiveSlots(disk)
      /\ RowAt(disk', at) = row
      /\ \A x \in LiveSlots(disk) : RowAt(disk', x) = RowAt(disk, x)
  <2> HIDE DEF row
  <2>1. /\ DOMAIN disk' = DOMAIN disk /\ disk'[p] = Inserted(disk[p], row)
        /\ \A q \in DOMAIN disk : q # p => disk'[q] = disk[q]
    BY DEF row
  <2>2. p \in DOMAIN disk
    OBVIOUS
  <2> QED
    BY ONLY <1>0, <1>4, <1>5, <1>6, <2>1, <2>2, RowAdded
<1>8. /\ DOMAIN TableOf(disk) = LiveSlots(disk) /\ DOMAIN TableOf(disk') = LiveSlots(disk')
      /\ \A x \in LiveSlots(disk) : TableOf(disk)[x] = RowAt(disk, x)
  BY TableOfDef
<1>9. TableOf(disk)' = TableOf(disk')
  BY DEF TableOf, LiveSlots, RowAt
<1> HIDE DEF row
<1>10. TableOf(disk') = [x \in LiveSlots(disk) \cup {at} |->
                           IF x = at THEN row ELSE TableOf(disk)[x]]
  <2>1. \A x \in LiveSlots(disk') :
          RowAt(disk', x) = IF x = at THEN row ELSE TableOf(disk)[x]
    BY <1>7, <1>8
  <2> QED
    BY ONLY <1>7, <2>1 DEF TableOf
<1>11. \A x \in DOMAIN TableOf(disk) : ~ SameKey(TableOf(disk)[x], row)
  <2> SUFFICES ASSUME NEW x \in LiveSlots(disk), pkIndex # 0
               PROVE  ~ ValueEq(RowAt(disk, x)[pkIndex], row[pkIndex])
    BY <1>8 DEF SameKey
  <2>1. ~ primaryKeyExists(disk, row[pkIndex], at)
    BY <1>4, <1>6, NewKey
  <2> QED
    BY <1>7, <2>1 DEF primaryKeyExists
<1>12. TheAnswer' = [err |-> "None", count |-> 1]
  <2>1. result'.err = "None" /\ result'.count = 1
    BY DEF NoResult
  <2> QED
    BY <1>1, <2>1 DEF TheAnswer, Finished
<1>13. ToDo = {} /\ ToDo' = {}
  BY NothingToDo, NothingToDoNext DEF Scans
<1>14. TableOf(before)' = TableOf(before)
  BY DEF TableOf, LiveSlots, RowAt
<1>15. \E place \in DOMAIN TableOf(disk)' \ DOMAIN TableOf(disk) :
         TableOf(disk)' = [x \in DOMAIN TableOf(disk) \cup {place} |->
                             IF x = place THEN row ELSE TableOf(disk)[x]]
  BY <1>7, <1>8, <1>9, <1>10
<1> QED
  BY <1>1, <1>2, <1>3, <1>11, <1>12, <1>13, <1>14, <1>15
     DEF Table!Insert, Table!Running, row

(* The end of a page: a SELECT writes nothing; a DELETE or UPDATE changes  *)
(* the matching rows of the page at once, or none if the page has none.    *)
LEMMA SelectedPageIsUnseen ==
  ASSUME ProgressInv, EndOfPage, stmt.kind = "SELECT"
  PROVE  Table!vars' = Table!vars
<1>1. /\ pc = "slot" /\ pc' = "read" /\ disk' = disk /\ stmt' = stmt /\ before' = before
  BY DEF EndOfPage
<1>2. ToDo = {} /\ ToDo' = {}
  BY <1>1, NothingToDo, NothingToDoNext DEF Scans
<1>3. TheAnswer' = TheAnswer
  BY <1>1, PendingIsNoAnswer, PendingIsNoAnswerNext DEF Table!Pending
<1> QED
  BY <1>1, <1>2, <1>3, Unseen

LEMMA HitBecomes ==
  ASSUME NEW row, NEW new, BecomesRow(row, new), Hit(row),
         stmt.kind \in {"DELETE", "UPDATE"}
  PROVE  BecomesInTable(stmt, row).err = "None" /\ BecomesInTable(stmt, row).val = new
<1>1. CASE stmt.kind = "DELETE"
  <2>1. new = Deleted
    BY <1>1 DEF BecomesRow
  <2>2. BecomesInTable(stmt, row) = Ok(Deleted)
    BY <1>1 DEF BecomesInTable
  <2> QED
    BY <2>1, <2>2 DEF Ok
<1>2. CASE stmt.kind = "UPDATE"
  <2>1. Updating(stmt, row) = Ok(new)
    BY <1>2 DEF BecomesRow
  <2>2. BecomesInTable(stmt, row) = Updating(stmt, row)
    BY <1>2 DEF BecomesInTable
  <2> QED
    BY <2>1, <2>2 DEF Ok
<1> QED
  BY <1>1, <1>2

LEMMA PageWrittenIsChange ==
  ASSUME ExecInv, ProgressInv, TableInv, ExecInv', ProgressInv',
         EndOfPage, stmt.kind \in {"DELETE", "UPDATE"}
  PROVE  Table!Change \/ Table!vars' = Table!vars
<1> DEFINE old == before[pageIndex].rows
           become(at) == BecomesInTable(stmt, TableOf(disk)[at])
<1>1. /\ pc = "slot" /\ slot >= Len(page.rows) /\ disk' = [disk EXCEPT ![pageIndex] = page]
      /\ pageIndex' = pageIndex + 1 /\ pc' = "read" /\ stmt' = stmt /\ before' = before
  BY DEF EndOfPage, InMemory, NumSlots
<1>2. /\ DoneUpTo(pageIndex - 1) /\ PageDoneUpTo(slot)
      /\ Scans({"DELETE", "UPDATE"})
  BY <1>1 DEF ProgressInv, ChangeInv, Scans
<1>3. /\ IsSeq(disk) /\ pageIndex \in DOMAIN disk /\ pageIndex \in Nat
      /\ pageIndex \in DOMAIN before /\ disk[pageIndex] = before[pageIndex]
  <2>1. IsSeq(disk) /\ pageIndex \in DOMAIN disk /\ pageIndex \in Nat
        /\ DOMAIN disk = 1..Len(disk) /\ DOMAIN before = 1..Len(before)
    BY <1>1, FlowFacts DEF ProgressInv
  <2>2. Len(disk) = Len(before) /\ pageIndex > pageIndex - 1
    BY <1>2, <2>1 DEF DoneUpTo
  <2> QED
    BY <1>2, <2>1, <2>2 DEF DoneUpTo
<1>4. PICK S : S = {at \in Hits : at[1] = pageIndex}
  OBVIOUS
<1>5. ToDo = {at \in Hits : at[1] >= pageIndex}
  BY <1>2, ToDoDef
<1>6. ToDo' = {at \in Hits : at[1] >= pageIndex + 1}
  <2>1. Scans({"DELETE", "UPDATE"})'
    BY <1>1 DEF Scans
  <2>2. Hits' = Hits
    BY <1>1, SameStatement
  <2> QED
    BY <1>1, <2>1, <2>2, ToDoDefNext
<1>7. S \subseteq ToDo /\ ToDo' = ToDo \ S
  <2>1. \A at \in Hits : at[1] \in Nat
    BY HitsArePairs DEF ProgressInv
  <2>2. \A at \in Hits : at[1] >= pageIndex + 1 <=> at[1] >= pageIndex /\ at[1] # pageIndex
    BY <1>3, <2>1
  <2>3. \A at \in Hits : at[1] = pageIndex => at[1] >= pageIndex
    BY <1>3
  <2> QED
    BY <1>4, <1>5, <1>6, <2>2, <2>3
<1>8. DOMAIN page.rows = DOMAIN old
  <2>1. IsSeq(page.rows) /\ IsSeq(old)
    BY <1>3 DEF ExecInv, ScanInv, PageInv, ProgressInv, FlowInv
  <2> QED
    BY <1>2, <2>1, IsSeqFacts DEF PageDoneUpTo
<1>9. ASSUME NEW i \in DOMAIN old
      PROVE  BecomesRow(old[i], page.rows[i])
  <2>1. IsSeq(old)
    BY <1>3 DEF ProgressInv, FlowInv
  <2>2. i \in Nat /\ i <= Len(old) /\ Len(old) \in Nat /\ Len(old) = Len(page.rows)
    BY <1>2, <2>1, IsSeqFacts DEF PageDoneUpTo
  <2>3. ~ (i > slot)
    BY <1>1, <2>2 DEF ExecInv, ScanInv
  <2> QED
    BY <1>2, <2>3 DEF PageDoneUpTo
<1>10. ASSUME NEW i \in DOMAIN old
       PROVE  /\ <<pageIndex, i>> \in S <=> Hit(old[i])
              /\ Hit(old[i]) => /\ <<pageIndex, i>> \in LiveSlots(disk)
                               /\ TableOf(disk)[<<pageIndex, i>>] = old[i]
  <2>1. PICK at : at = <<pageIndex, i>>
    OBVIOUS
  <2>2. at[1] = pageIndex /\ at[2] = i
    BY <2>1
  <2>3. at \in Hits <=> Hit(old[i])
    <3>1. ASSUME at \in Hits
          PROVE  Hit(old[i])
      BY <2>2, <3>1, HitsArePairs DEF ProgressInv
    <3> QED
      BY <1>3, <2>1, <3>1, HitsDef
  <2>4. ASSUME Hit(old[i])
        PROVE  at \in LiveSlots(disk) /\ TableOf(disk)[at] = old[i]
    <3>1. old[i] # Deleted
      BY <2>4 DEF Hit
    <3>2. at \in LiveSlots(disk)
      BY <1>3, <2>1, <3>1, LiveSlotsDef
    <3>3. RowAt(disk, at) = old[i]
      BY <1>3, <2>2 DEF RowAt
    <3> QED
      BY <3>2, <3>3, TableOfDef
  <2> QED
    BY <1>4, <2>1, <2>2, <2>3, <2>4
<1>11. ASSUME NEW at \in S
       PROVE  /\ at \in LiveSlots(disk) /\ at[1] = pageIndex
              /\ become(at).err = "None"
  <2>1. /\ at[1] = pageIndex /\ at = <<at[1], at[2]>> /\ at[2] \in DOMAIN old
        /\ Hit(old[at[2]])
    BY <1>4, HitsArePairs DEF ProgressInv
  <2>2. at \in LiveSlots(disk) /\ TableOf(disk)[at] = old[at[2]]
    BY <1>10, <2>1
  <2>3. become(at).err = "None"
    BY <1>9, <2>1, <2>2, HitBecomes
  <2> QED
    BY <2>1, <2>2, <2>3
<1>12. PICK new : new = [at \in S |-> become(at).val]
  OBVIOUS
<1>13. ASSUME NEW i \in DOMAIN old
       PROVE  page.rows[i] = IF <<pageIndex, i>> \in S THEN new[<<pageIndex, i>>]
                             ELSE old[i]
  <2>1. CASE Hit(old[i])
    <3>1. new[<<pageIndex, i>>] = BecomesInTable(stmt, old[i]).val
      BY <1>10, <1>12, <2>1
    <3>2. page.rows[i] = BecomesInTable(stmt, old[i]).val
      BY <1>9, <2>1, HitBecomes
    <3> QED
      BY <1>10, <2>1, <3>1, <3>2
  <2>2. CASE ~ Hit(old[i])
    BY <1>9, <1>10, <2>2 DEF BecomesRow
  <2> QED
    BY <2>1, <2>2
<1>14. TableOf(disk') = [at \in LiveSlots(disk) \ {x \in S : new[x] = Deleted} |->
                          IF at \in S THEN new[at] ELSE TableOf(disk)[at]]
  <2>1. /\ DOMAIN disk' = DOMAIN disk /\ disk'[pageIndex] = page
        /\ \A q \in DOMAIN disk : q # pageIndex => disk'[q] = disk[q]
    BY <1>1, <1>3
  <2>2. S \subseteq LiveSlots(disk) /\ \A x \in S : x[1] = pageIndex
    BY <1>11
  <2>3. ReplacesPage(disk, disk', pageIndex, S, new)
    BY <1>3, <1>8, <1>13, <2>1, <2>2 DEF ReplacesPage
  <2>5. /\ \A x : x \in LiveSlots(disk') <=>
                  x \in LiveSlots(disk) /\ ~ (x \in S /\ new[x] = Deleted)
        /\ \A x \in LiveSlots(disk') :
             RowAt(disk', x) = IF x \in S THEN new[x] ELSE RowAt(disk, x)
    BY ONLY <2>3, PageReplaced
  <2> DEFINE kept == LiveSlots(disk) \ {x \in S : new[x] = Deleted}
  <2>6. LiveSlots(disk') = kept
    BY <2>5
  <2>7. \A at \in kept :
          RowAt(disk', at) = IF at \in S THEN new[at] ELSE TableOf(disk)[at]
    BY <2>5, <2>6, TableOfDef
  <2> HIDE DEF kept
  <2>8. TableOf(disk') = [at \in kept |-> IF at \in S THEN new[at] ELSE TableOf(disk)[at]]
    BY ONLY <2>6, <2>7 DEF TableOf
  <2> QED
    BY <2>8 DEF kept
<1>15. TableOf(disk)' = TableOf(disk') /\ TableOf(before)' = TableOf(before)
  BY <1>1 DEF TableOf, LiveSlots, RowAt
<1>16. TheAnswer = Table!Pending /\ TheAnswer' = Table!Pending
  BY <1>1, PendingIsNoAnswer, PendingIsNoAnswerNext DEF Table!Pending
<1>17. CASE S = {}
  <2>1. TableOf(disk') = TableOf(disk)
    BY <1>14, <1>17 DEF TableOf
  <2>2. ToDo' = ToDo
    BY <1>7, <1>17
  <2> QED
    BY <1>1, <1>16, <2>1, <2>2, Unseen
<1>18. CASE S # {}
  <2>1. stmt \in Statements /\ stmt # NoStatement
    BY <1>1, StatementKind DEF TableInv
  <2>2. DOMAIN TableOf(disk) = LiveSlots(disk)
    BY TableOfDef
  <2>3. S \in (SUBSET ToDo) \ {{}}
    <3>1. S \in SUBSET ToDo
      BY <1>7
    <3>2. S \notin {{}}
      BY <1>18
    <3> QED
      BY <3>1, <3>2
  <2>4. TableOf(disk)' = [at \in DOMAIN TableOf(disk) \ {x \in S : new[x] = Deleted} |->
                            IF at \in S THEN new[at] ELSE TableOf(disk)[at]]
    BY <1>14, <1>15, <2>2
  <2>5. /\ \A at \in S : BecomesInTable(stmt, TableOf(disk)[at]).err = "None"
        /\ new = [at \in S |-> BecomesInTable(stmt, TableOf(disk)[at]).val]
    BY <1>11, <1>12
  <2>6. Table!Running({"DELETE", "UPDATE"})
    BY <1>16, <2>1 DEF Table!Running
  <2>7. TheAnswer' = TheAnswer /\ stmt' = stmt /\ ToDo' = ToDo \ S
    BY <1>1, <1>7, <1>16
  <2> QED
    BY ONLY <1>15, <2>3, <2>4, <2>5, <2>6, <2>7 DEF Table!Change
<1> QED
  BY <1>17, <1>18

LEMMA ReturnIsReturn ==
  ASSUME Return
  PROVE  Table!Return
<1>1. /\ pc = "done" /\ pc' = "idle" /\ stmt' = NoStatement /\ before' = << >>
      /\ disk' = disk
  BY DEF Return
<1>2. TheAnswer # Table!Pending /\ TheAnswer' = Table!Pending
  BY <1>1, PendingIsNoAnswer, PendingIsNoAnswerNext DEF Table!Pending
<1>3. ToDo = {} /\ ToDo' = {}
  BY <1>1, NothingToDo, NothingToDoNext DEF Scans
<1>4. TableOf(disk)' = TableOf(disk)
  BY <1>1 DEF TableOf, LiveSlots, RowAt
<1>5. TableOf(before)' = << >>
  <2>1. LiveSlots(<< >>) = {}
    <3>1. DOMAIN << >> = {}
      OBVIOUS
    <3> QED
      BY <3>1 DEF LiveSlots
  <2>2. TableOf(before') = << >>
    BY <1>1, <2>1 DEF TableOf
  <2>3. TableOf(before)' = TableOf(before')
    BY DEF TableOf, LiveSlots, RowAt
  <2> QED
    BY <2>2, <2>3
<1> QED
  BY <1>1, <1>2, <1>3, <1>4, <1>5 DEF Table!Return

(* The cardinality of the table's module is the one of this module.        *)
LEMMA SameCardinality == ASSUME NEW S PROVE Table!Cardinality(S) = Cardinality(S)
BY DEF Table!Cardinality, Cardinality

(* The end of the scan: nothing is left to do and no WHERE failed.         *)
LEMMA ScanOver ==
  ASSUME ExecInv, ProgressInv, TableInv, EndOfTable
  PROVE  /\ ToDo = {} /\ ToDo' = {}
         /\ Table!NoErrors(stmt, TableOf(before))
         /\ result.err = "None" /\ slot = 0
         /\ pageIndex \in Nat /\ pageIndex > Len(before)
         /\ stmt.kind \in {"SELECT", "DELETE", "UPDATE"} /\ stmt # NoStatement
         /\ TheAnswer = Table!Pending /\ TheAnswer' # Table!Pending
<1>1. /\ pc = "read" /\ pageIndex > Len(disk) /\ pc' = "done"
  BY DEF EndOfTable
<1>2. /\ stmt \in Statements /\ stmt.kind # "INSERT" /\ result.err = "None"
      /\ slot = 0 /\ pageIndex \in Nat
  BY <1>1, FlowFacts DEF TableInv, ProgressInv, FlowInv
<1>3. stmt.kind \in {"SELECT", "DELETE", "UPDATE"} /\ stmt # NoStatement
  BY <1>2, StatementKind
<1>4. Len(disk) = Len(before)
  BY <1>1, <1>3 DEF ProgressInv, ChangeInv, SelectInv, Scans, DoneUpTo
<1>5. \A at \in Hits : ~ (at[1] >= pageIndex)
  <2> SUFFICES ASSUME NEW at \in Hits PROVE ~ (at[1] >= pageIndex)
    OBVIOUS
  <2>1. at[1] \in Nat /\ at[1] <= Len(before)
    BY HitsArePairs DEF ProgressInv
  <2> QED
    BY <1>1, <1>2, <1>4, <2>1, FlowFacts DEF ProgressInv
<1>6. ToDo = {}
  <2>1. CASE Scans({"DELETE", "UPDATE"})
    BY <1>5, <2>1, ToDoDef
  <2>2. CASE ~ Scans({"DELETE", "UPDATE"})
    BY <2>2, NothingToDo
  <2> QED
    BY <2>1, <2>2
<1>7. ToDo' = {}
  BY <1>1, NothingToDoNext DEF Scans
<1>8. Table!NoErrors(stmt, TableOf(before))
  <2>1. ASSUME NEW at \in LiveSlots(before)
        PROVE  Match(stmt, TableOf(before)[at]).err = "None"
    <3>1. /\ at[1] \in DOMAIN before /\ at[2] \in DOMAIN before[at[1]].rows
          /\ TableOf(before)[at] = before[at[1]].rows[at[2]]
          /\ before[at[1]].rows[at[2]] # Deleted
      BY LiveRow, TableOfDef
    <3>2. at[1] < pageIndex
      BY <1>1, <1>2, <1>4, <3>1, FlowFacts DEF ProgressInv
    <3> QED
      BY <1>1, <3>1, <3>2 DEF TableInv
  <2>2. DOMAIN TableOf(before) = LiveSlots(before)
    BY TableOfDef
  <2> QED
    BY <2>1, <2>2 DEF Table!NoErrors
<1>9. TheAnswer = Table!Pending /\ TheAnswer' # Table!Pending
  BY <1>1, PendingIsNoAnswer, PendingIsNoAnswerNext DEF Table!Pending
<1> QED
  BY <1>1, <1>2, <1>3, <1>4, <1>6, <1>7, <1>8, <1>9

LEMMA EndIsSucceed ==
  ASSUME ExecInv, ProgressInv, TableInv, EndOfTable, stmt.kind \in {"DELETE", "UPDATE"}
  PROVE  Table!Succeed
<1>1. /\ pc = "read" /\ pc' = "done" /\ disk' = disk /\ stmt' = stmt
      /\ result' = result /\ before' = before
  BY DEF EndOfTable
<1>2. /\ ToDo = {} /\ ToDo' = {} /\ Table!NoErrors(stmt, TableOf(before))
      /\ result.err = "None" /\ slot = 0 /\ stmt # NoStatement
      /\ TheAnswer = Table!Pending /\ TheAnswer' # Table!Pending
  BY ScanOver
<1>3. result.count = Cardinality(Hits)
  <2>1. HitsUpTo(pageIndex, 0) = Hits
    BY ScanOver, LastPage DEF ProgressInv
  <2> QED
    BY <1>1, <1>2, <2>1 DEF ProgressInv, ChangeInv, Scans
<1>4. TheAnswer' = [err |-> "None", count |-> Cardinality(Table!Matching(stmt, TableOf(before)))]
  BY <1>1, <1>2, <1>3, MatchingIsHits DEF TheAnswer, Finished
<1>5. TableOf(disk)' = TableOf(disk) /\ TableOf(before)' = TableOf(before)
  BY <1>1 DEF TableOf, LiveSlots, RowAt
<1> QED
  BY <1>1, <1>2, <1>4, <1>5, SameCardinality DEF Table!Succeed, Table!Running

(* Each row is in the answer as often as in the slots the answer is of.    *)
LEMMA AnswerCounts ==
  ASSUME IsSeq(result.rows), AnswerIs(Hits), NEW row, FlowInv
  PROVE  /\ row \in Range(result.rows) <=> \E at \in Hits : RowAt(before, at) = row
         /\ Cardinality({i \in DOMAIN result.rows : result.rows[i] = row}) =
              Cardinality({at \in Hits : RowAt(before, at) = row})
<1> DEFINE I == {i \in DOMAIN result.rows : result.rows[i] = row}
           T == {at \in Hits : RowAt(before, at) = row}
<1>1. PICK from \in [DOMAIN result.rows -> Hits] :
        /\ Range(from) = Hits
        /\ \A i \in DOMAIN from : result.rows[i] = RowAt(before, from[i])
        /\ \A i, j \in DOMAIN from : i < j => Precedes(from[i], from[j])
  BY DEF AnswerIs
<1>2. \A at \in Hits : \E i \in DOMAIN result.rows : from[i] = at
  BY <1>1 DEF Range
<1>3. Len(result.rows) \in Nat /\ DOMAIN result.rows = 1..Len(result.rows)
  BY IsSeqFacts
<1>4. ASSUME NEW i \in DOMAIN result.rows, NEW j \in DOMAIN result.rows, from[i] = from[j]
      PROVE  i = j
  <2>1. ~ Precedes(from[i], from[i])
    <3>1. from[i][1] \in Nat /\ from[i][2] \in Nat
      BY <1>1, HitsArePairs
    <3> QED
      BY <3>1 DEF Precedes
  <2>2. i \in Nat /\ j \in Nat
    BY <1>3
  <2>3. ~ (i < j) /\ ~ (j < i)
    BY <1>1, <1>4, <2>1
  <2> QED
    BY <2>2, <2>3
<1> DEFINE g == [i \in I |-> from[i]]
<1>5. g \in [I -> T]
  BY <1>1
<1>6. g \in Bijection(I, T)
  <2>1. \A i, j \in I : g[i] = g[j] => i = j
    BY <1>4
  <2>2. \A at \in T : \E i \in I : g[i] = at
    <3> SUFFICES ASSUME NEW at \in T PROVE \E i \in I : g[i] = at
      OBVIOUS
    <3>1. PICK i \in DOMAIN result.rows : from[i] = at
      BY <1>2
    <3>2. result.rows[i] = row
      BY <1>1, <3>1
    <3> QED
      BY <3>1, <3>2
  <2>3. DOMAIN g = I
    OBVIOUS
  <2> HIDE DEF g, I, T
  <2> QED
    BY <1>5, <2>1, <2>2, <2>3 DEF Bijection, Injection, Surjection, IsInjective
<1>7. IsFiniteSet(I)
  <2>1. IsFiniteSet(1..Len(result.rows))
    BY <1>3, FS_Interval
  <2>2. I \in SUBSET (1..Len(result.rows))
    BY <1>3
  <2> HIDE DEF I
  <2> QED
    BY <2>1, <2>2, FS_Subset
<1>8. Cardinality(I) = Cardinality(T)
  <2> HIDE DEF g, I, T
  <2>1. ExistsBijection(I, T)
    BY <1>6 DEF ExistsBijection
  <2> QED
    BY <1>7, <2>1, FS_Bijection
<1>9. row \in Range(result.rows) <=> \E at \in Hits : RowAt(before, at) = row
  <2>1. row \in Range(result.rows) <=> \E i \in DOMAIN result.rows : result.rows[i] = row
    BY DEF Range
  <2> QED
    BY <1>1, <1>2, <2>1
<1> QED
  BY <1>8, <1>9

LEMMA EndIsAnswer ==
  ASSUME ExecInv, ProgressInv, TableInv, EndOfTable, stmt.kind = "SELECT"
  PROVE  Table!Answer
<1> DEFINE found == Table!Matching(stmt, TableOf(before))
           bag   == [row \in {TableOf(before)[at] : at \in found} |->
                       Cardinality({at \in found : TableOf(before)[at] = row})]
<1>1. /\ pc = "read" /\ pc' = "done" /\ disk' = disk /\ stmt' = stmt
      /\ result' = result /\ before' = before
  BY DEF EndOfTable
<1>2. /\ ToDo = {} /\ ToDo' = {} /\ Table!NoErrors(stmt, TableOf(before))
      /\ result.err = "None" /\ slot = 0 /\ stmt # NoStatement
      /\ TheAnswer = Table!Pending /\ TheAnswer' # Table!Pending
  BY ScanOver
<1>3. IsSeq(result.rows) /\ AnswerIs(Hits)
  <2>1. HitsUpTo(pageIndex, 0) = Hits
    BY ScanOver, LastPage DEF ProgressInv
  <2> QED
    BY <1>1, <1>2, <2>1 DEF ProgressInv, SelectInv, Scans
<1>4. found = Hits /\ \A at \in Hits : TableOf(before)[at] = RowAt(before, at)
  BY MatchingIsHits
<1> HIDE DEF found
<1>5. {TableOf(before)[at] : at \in found} = Range(result.rows)
  <2>1. ASSUME NEW row
        PROVE  row \in Range(result.rows) <=> \E at \in Hits : RowAt(before, at) = row
    BY <1>3, AnswerCounts DEF ProgressInv
  <2> QED
    BY <1>4, <2>1
<1>6. ASSUME NEW row
      PROVE  Cardinality({at \in found : TableOf(before)[at] = row}) =
             Cardinality({i \in DOMAIN result.rows : result.rows[i] = row})
  <2>1. {at \in found : TableOf(before)[at] = row} = {at \in Hits : RowAt(before, at) = row}
    BY <1>4
  <2> QED
    BY <1>3, <2>1, AnswerCounts DEF ProgressInv
<1>7. bag = BagOf(result.rows)
  BY <1>5, <1>6 DEF BagOf
<1>8. TheAnswer' = [err |-> "None", rows |-> BagOf(result.rows)]
  <2>1. BagOf(result.rows)' = BagOf(result.rows)
    BY <1>1
  <2> QED
    BY <1>1, <1>2, <2>1 DEF TheAnswer, Finished
<1>9. TableOf(disk)' = TableOf(disk) /\ TableOf(before)' = TableOf(before)
  BY <1>1 DEF TableOf, LiveSlots, RowAt
<1>10. TheAnswer' = [err |-> "None", rows |->
         [row \in {TableOf(before)[at] : at \in Table!Matching(stmt, TableOf(before))} |->
            Cardinality({at \in Table!Matching(stmt, TableOf(before)) :
                           TableOf(before)[at] = row})]]
  BY <1>7, <1>8 DEF found
<1>11. Table!Running({"SELECT"})
  BY <1>2 DEF Table!Running
<1>12. stmt' = stmt
  BY <1>1
<1> QED
  BY ONLY <1>2, <1>9, <1>10, <1>11, <1>12, SameCardinality DEF Table!Answer

-----------------------------------------------------------------------------
(* Init maps to Init, and every step to a step or to a stutter.            *)

LEMMA InitView == Init => Table!Init
<1> SUFFICES ASSUME Init PROVE Table!Init
  OBVIOUS
<1>1. disk = << >> /\ before = << >> /\ stmt = NoStatement /\ pc = "idle"
  BY DEF Init
<1>2. TableOf(<< >>) = << >>
  <2>1. LiveSlots(<< >>) = {}
    <3>1. DOMAIN << >> = {}
      OBVIOUS
    <3> QED
      BY <3>1 DEF LiveSlots
  <2> QED
    BY <2>1 DEF TableOf
<1>3. ToDo = {} /\ TheAnswer = Table!Pending
  BY <1>1, NothingToDo, PendingIsNoAnswer DEF Scans
<1> QED
  BY <1>1, <1>2, <1>3 DEF Table!Init

LEMMA StepView ==
  ASSUME ExecInv, ProgressInv, TableInv, ExecInv', ProgressInv', [Next]_vars
  PROVE  [Table!Next]_(Table!vars)
<1>1. ASSUME NEW e, e # "None", pc \notin {"idle", "done"}, Abort(e)
      PROVE  Table!Next
  BY <1>1, AbortIsFail DEF Table!Next
<1>2. pc \in {"read", "slot"} => stmt.kind \in {"SELECT", "DELETE", "UPDATE"}
  BY StatementKind DEF TableInv, ProgressInv, FlowInv
<1>3. CASE ReadPage
  BY <1>3, ScanIsUnseen DEF ReadPage
<1>4. CASE EndOfTable
  <2>1. stmt.kind \in {"SELECT", "DELETE", "UPDATE"}
    BY <1>2, <1>4 DEF EndOfTable
  <2> QED
    BY <1>4, <2>1, EndIsSucceed, EndIsAnswer DEF Table!Next
<1>5. CASE SkipSlot
  BY <1>5, ScanIsUnseen DEF SkipSlot, AtSlot
<1>6. CASE WhereFails
  BY <1>1, <1>6 DEF WhereFails, AtRow, AtSlot
<1>7. CASE SelectRow
  BY <1>7, ScanIsUnseen DEF SelectRow, Chosen, AtRow, AtSlot
<1>8. CASE DeleteRow
  BY <1>8, ScanIsUnseen DEF DeleteRow, Chosen, AtRow, AtSlot
<1>9. CASE UpdateRow
  BY <1>9, ScanIsUnseen DEF UpdateRow, Chosen, AtRow, AtSlot
<1>10. CASE UpdateFails
  BY <1>1, <1>10 DEF UpdateFails, Chosen, AtRow, AtSlot
<1>11. CASE EndOfPage
  <2>1. stmt.kind \in {"SELECT", "DELETE", "UPDATE"}
    BY <1>2, <1>11 DEF EndOfPage
  <2> QED
    BY <1>11, <2>1, SelectedPageIsUnseen, PageWrittenIsChange DEF Table!Next
<1>12. CASE InsertFails
  BY <1>1, <1>12 DEF InsertFails
<1>13. CASE InsertIntoPage
  <2>1. PICK p \in DOMAIN disk :
          disk' = [disk EXCEPT ![p] = Inserted(disk[p], Inserting(stmt).val)]
    BY <1>13 DEF InsertIntoPage
  <2>2. /\ pc \in {"insert", "fill"} /\ InsertRowError(stmt) = "None"
        /\ pc' = "done" /\ result' = [NoResult EXCEPT !.count = 1]
        /\ stmt' = stmt /\ before' = before
    BY <1>13 DEF InsertIntoPage
  <2> QED
    BY <2>1, <2>2, RowWrittenIsInsert DEF Table!Next
<1>14. CASE AllocatePage
  BY <1>14, AllocatePageIsUnseen
<1>15. CASE AllocateFails
  BY <1>1, <1>15 DEF AllocateFails, NoPageHasRoom
<1>16. CASE FillPage
  <2>1. /\ pc \in {"insert", "fill"} /\ pageIndex \in DOMAIN disk
        /\ InsertRowError(stmt) = "None"
        /\ disk' = [disk EXCEPT ![pageIndex] =
                       Inserted(disk[pageIndex], Inserting(stmt).val)]
        /\ pc' = "done" /\ result' = [NoResult EXCEPT !.count = 1]
        /\ stmt' = stmt /\ before' = before
    BY <1>16 DEF FillPage, ExecInv, ScanInv, StmtInv
  <2> QED
    BY <2>1, RowWrittenIsInsert DEF Table!Next
<1>17. CASE FillFails
  BY <1>1, <1>17 DEF FillFails
<1>18. CASE Return
  BY <1>18, ReturnIsReturn DEF Table!Next
<1>19. CASE Crash
  BY <1>1, <1>19 DEF Crash
<1>20. CASE IOFails
  BY <1>1, <1>20 DEF IOFails
<1>21. ASSUME NEW s \in Statements, Start(s)
       PROVE  Table!Next
  BY <1>21, StartIsBegin DEF Table!Next
<1>22. CASE UNCHANGED vars
  <2>1. /\ disk' = disk /\ stmt' = stmt /\ pc' = pc /\ pageIndex' = pageIndex
        /\ result' = result /\ before' = before
    BY <1>22 DEF vars
  <2>2. ToDo' = ToDo
    <3>1. LiveSlots(disk)' = LiveSlots(disk) /\ \A at : RowAt(disk, at)' = RowAt(disk, at)
      BY <2>1 DEF LiveSlots, RowAt
    <3>2. \A row : Hit(row)' <=> Hit(row)
      BY <2>1, SameStatement
    <3> QED
      BY <2>1, <3>1, <3>2 DEF ToDo
  <2>3. TheAnswer' = TheAnswer
    BY <2>1 DEF TheAnswer, Finished, BagOf
  <2> QED
    BY <2>1, <2>2, <2>3, Unseen
<1> QED
  BY <1>3, <1>4, <1>5, <1>6, <1>7, <1>8, <1>9, <1>10, <1>11, <1>12, <1>13, <1>14,
     <1>15, <1>16, <1>17, <1>18, <1>19, <1>20, <1>21, <1>22 DEF Next, Step

(* The executor implements the table its user sees: whatever the schema,   *)
(* the pages and the moment of a crash, the file holds the table the       *)
(* statement found with some matching rows changed, each once and as of    *)
(* the start, and success is reported only when all of them are.           *)
THEOREM ExecutorImplementsTable == Spec => ImplementsTable
<1>1. Spec => []TableInv
  BY InitTable, StepTable, ExecutorInv, ScanProgress, PTL DEF Spec
<1> QED
  BY <1>1, InitView, StepView, ExecutorInv, ScanProgress, PTL
     DEF Spec, ImplementsTable, Table!Spec
=============================================================================
