------------------------------ MODULE Executor ------------------------------
(***************************************************************************)
(* SELECT, INSERT, DELETE and UPDATE on one table, step by step            *)
(* (src/src/executor/executor.cpp): the scan reads a page into memory,     *)
(* visits its slots one after the other, writes the page back and goes on. *)
(* The process may die between any two steps; a page write is one write(2) *)
(* of a whole page and survives it or never happens.                       *)
(*                                                                         *)
(* disk[i] is data page i of the file (page 0 is reserved). A page is what *)
(* module SlotPage makes of it, a row what module Row says of it.          *)
(***************************************************************************)
EXTENDS Expr, FiniteSets, SequencesExt

CONSTANTS Columns,     \* the schema of the table
          Statements,  \* the statements that may be executed
          Capacity,    \* bytes of a page shared by slots and rows
          MaxPages,    \* data pages the file can hold before the disk is full
          UINT16       \* what a uint16_t counts up to and wraps at

Deleted == << >>

(* The length of a row as execInsert and execUpdate give it to a page: the *)
(* size of its bytes, cast to uint16_t.                                    *)
RowLength(row) == RowSize(row) % UINT16

INSTANCE SlotPage WITH SizeOf <- RowLength

ASSUME ColumnsAssumption ==
  /\ Columns \in Seq([name : STRING, type : DataTypes, textLength : Nat,
                      notNull : BOOLEAN, primaryKey : BOOLEAN])
  /\ Columns # << >>

(* The cast loses nothing of any row that fits the schema. No code sees to *)
(* this: of a longer row the executor stores the first RowLength bytes and *)
(* reports success, and what is read back later is not that row, which     *)
(* module RowCodec shows with AnyRowRoundTrips.                            *)
ASSUME RowLengthAssumption ==
  UINT16 \in Nat \ {0} /\ MaxRowSize(Columns) < UINT16

(* Expressions as the parser leaves them, but for an index of -1. A column *)
(* list has a value for each name: neither the parser nor the executor     *)
(* looks, and the code would read past the end of the values.              *)
ASSUME StatementsAssumption ==
  \A s \in Statements :
    /\ s.kind \in {"SELECT", "INSERT", "DELETE", "UPDATE"}
    /\ s.exprs \in Seq(Range(s.exprs)) /\ AreExpressions(s.exprs)
    /\ s.insertColumnNames \in Seq(STRING)
    /\ s.insertValues \in Seq(DOMAIN s.exprs)
    /\ s.insertColumnNames # << >> => Len(s.insertColumnNames) <= Len(s.insertValues)
    /\ s.assignments \in Seq([column : STRING, expr : DOMAIN s.exprs])

ASSUME SizesAssumption == Capacity \in Nat /\ MaxPages \in Nat

VARIABLES disk,       \* the data pages of the file
          stmt,       \* the running statement, or the last one
          pc,         \* where it is: "idle", "read", "slot", "insert", "fill",
              \* and "done" when its result is known
          pageIndex, page, slot,  \* the scan: page in memory, slot from 0
          result,     \* what execute() returns
          before      \* history: the data pages when stmt started

vars == <<disk, stmt, pc, pageIndex, page, slot, result, before>>

NoStatement == [kind |-> "NONE"]
NoResult == [err |-> "None", count |-> 0, rows |-> << >>]

Init ==
  /\ disk = << >> /\ before = << >>
  /\ stmt = NoStatement /\ pc = "idle" /\ result = NoResult
  /\ pageIndex = 1 /\ page = EmptyPage /\ slot = 0

-----------------------------------------------------------------------------
LiveSlots(pages) ==
  UNION {{<<p, s>> : s \in {i \in DOMAIN pages[p].rows : pages[p].rows[i] # Deleted}} :
           p \in DOMAIN pages}
RowAt(pages, at) == pages[at[1]].rows[at[2]]

pkIndex == primaryKeyIndex(Columns)

(* Mutant of primaryKeyExists: every page is read from the file.           *)
primaryKeyOnDisk(pages, value, skip) ==
  \E at \in LiveSlots(disk) \ {skip} : ValueEq(RowAt(disk, at)[pkIndex], value)

primaryKeyExists(pages, value, skip) ==
  \E at \in LiveSlots(pages) \ {skip} : ValueEq(RowAt(pages, at)[pkIndex], value)

(* The file as the statement sees it: its page in memory is the one to     *)
(* consult in place of the page of the file.                               *)
InMemory == [disk EXCEPT ![pageIndex] = page]

(* A SELECT evaluates WHERE against the columns it returns.                *)
resultColumns(s) ==
  IF s.kind # "SELECT" \/ s.selectColumns = << >> THEN columnNames(Columns)
  ELSE [i \in DOMAIN s.selectColumns |->
          LET e == s.exprs[s.selectColumns[i]]
          IN  IF e.kind \in {"COLUMN_REF", "PREFIXED_REF"} THEN e.column ELSE "" ]

Match(s, row) ==
  IF s.where = 0 THEN Ok(TRUE)
  ELSE evalWhere(s.where, s.exprs, row, resultColumns(s))

Updating(s, row) ==
  rowFromUpdate(row, s.assignments, s.exprs, columnNames(Columns))

Inserting(s) == rowFromInsertValues(s, s.exprs, Columns)

(* Errors of the page and of the row are reported as internal ones; an     *)
(* uncaught exception is not reported, it ends the process.                *)
Reported(e) == IF e = "bad_variant_access" THEN e ELSE "InternalError"

pkAssigned(s) ==
  /\ pkIndex # 0
  /\ \E a \in DOMAIN s.assignments : s.assignments[a].column = Columns[pkIndex].name

(* The early returns of the body of the loop of execUpdate, in order.      *)
UpdateRowError(s, pg, at, row) ==
  LET updated == Updating(s, row)
  IN IF updated.err # "None" THEN updated.err
     ELSE IF pkAssigned(s) /\ primaryKeyExists(InMemory, updated.val[pkIndex],
                                               <<pageIndex, at + 1>>)
          THEN "PrimaryKeyViolation"
     ELSE IF SerializeError(updated.val, Columns) # "None"
          THEN Reported(SerializeError(updated.val, Columns))
     ELSE IF UpdateError(pg, at, updated.val) # "None" THEN "InternalError"
     ELSE "None"

(* The early returns of execInsert before it touches the file.             *)
InsertRowError(s) ==
  LET row == Inserting(s)
  IN IF row.err # "None" THEN row.err
     ELSE IF s.insertColumnNames = << >> /\ Len(row.val) # Len(Columns)
          THEN "ColumnCountMismatch"
     ELSE IF pkIndex # 0 /\ primaryKeyExists(disk, row.val[pkIndex], <<0, 0>>)
          THEN "PrimaryKeyViolation"
     ELSE IF SerializeError(row.val, Columns) # "None"
          THEN Reported(SerializeError(row.val, Columns))
     ELSE "None"

-----------------------------------------------------------------------------
(* The variables of the scan go out of scope with its loops.               *)
LeaveScan == pageIndex' = 1 /\ page' = EmptyPage /\ slot' = 0

(* Statements run one at a time, in one thread.                            *)
Start(s) ==
  /\ pc = "idle"
  /\ stmt' = s /\ before' = disk /\ result' = NoResult
  /\ pc' = IF s.kind = "INSERT" THEN "insert" ELSE "read"
  /\ UNCHANGED <<disk, pageIndex, page, slot>>

(* The statement ends with an error, or with the process; the page in      *)
(* memory is lost, what was written before stays.                          *)
Abort(e) ==
  /\ pc' = "done" /\ result' = [NoResult EXCEPT !.err = e]
  /\ LeaveScan
  /\ UNCHANGED <<disk, stmt, before>>

ReadPage ==
  /\ pc = "read" /\ pageIndex <= Len(disk)
  /\ page' = disk[pageIndex] /\ pc' = "slot"
  /\ UNCHANGED <<disk, stmt, pageIndex, slot, result, before>>

(* Mutant of EndOfTable: the last page is taken for the end.               *)
EndOfTableEarly ==
  /\ pc = "read" /\ pageIndex >= Len(disk)
  /\ pc' = "done"
  /\ LeaveScan
  /\ UNCHANGED <<disk, stmt, result, before>>

EndOfTable ==
  /\ pc = "read" /\ pageIndex > Len(disk)
  /\ pc' = "done"
  /\ LeaveScan
  /\ UNCHANGED <<disk, stmt, result, before>>

AtSlot == pc = "slot" /\ slot < NumSlots(page)
AtRow  == AtSlot /\ ~ SlotDeleted(page, slot)
Chosen == AtRow /\ Match(stmt, RowOf(page, slot)) = Ok(TRUE)

(* Mutant of SkipSlot: break instead of continue at a tombstone.           *)
SkipSlotBreak ==
  /\ AtSlot
  /\ SlotDeleted(page, slot) \/ Match(stmt, RowOf(page, slot)) = Ok(FALSE)
  /\ slot' = IF SlotDeleted(page, slot) THEN NumSlots(page) ELSE slot + 1
  /\ UNCHANGED <<disk, stmt, pc, pageIndex, page, result, before>>

SkipSlot ==
  /\ AtSlot
  /\ SlotDeleted(page, slot) \/ Match(stmt, RowOf(page, slot)) = Ok(FALSE)
  /\ slot' = slot + 1
  /\ UNCHANGED <<disk, stmt, pc, pageIndex, page, result, before>>

(* Mutant of WhereFails: the row is passed over.                           *)
WhereFailsContinue ==
  /\ AtRow
  /\ Match(stmt, RowOf(page, slot)).err # "None"
  /\ slot' = slot + 1
  /\ UNCHANGED <<disk, stmt, pc, pageIndex, page, result, before>>

WhereFails ==
  /\ AtRow
  /\ Match(stmt, RowOf(page, slot)).err # "None"
  /\ Abort(Match(stmt, RowOf(page, slot)).err)

SelectRow ==
  /\ Chosen /\ stmt.kind = "SELECT"
  /\ result' = [result EXCEPT !.rows = Append(@, RowOf(page, slot))]
  /\ slot' = slot + 1
  /\ UNCHANGED <<disk, stmt, pc, pageIndex, page, before>>

DeleteRow ==
  /\ Chosen /\ stmt.kind = "DELETE"
  /\ page' = WithoutRow(page, slot)
  /\ result' = [result EXCEPT !.count = @ + 1]
  /\ slot' = slot + 1
  /\ UNCHANGED <<disk, stmt, pc, pageIndex, before>>

UpdateRow ==
  /\ Chosen /\ stmt.kind = "UPDATE"
  /\ UpdateRowError(stmt, page, slot, RowOf(page, slot)) = "None"
  /\ page' = Updated(page, slot, Updating(stmt, RowOf(page, slot)).val)
  /\ result' = [result EXCEPT !.count = @ + 1]
  /\ slot' = slot + 1
  /\ UNCHANGED <<disk, stmt, pc, pageIndex, before>>

(* Mutant of UpdateFails: the page is written on the way out.              *)
UpdateFailsSaving ==
  /\ Chosen /\ stmt.kind = "UPDATE"
  /\ UpdateRowError(stmt, page, slot, RowOf(page, slot)) # "None"
  /\ disk' = InMemory
  /\ pc' = "done" /\ LeaveScan
  /\ result' = [NoResult EXCEPT !.err = UpdateRowError(stmt, page, slot, RowOf(page, slot))]
  /\ UNCHANGED <<stmt, before>>

UpdateFails ==
  /\ Chosen /\ stmt.kind = "UPDATE"
  /\ UpdateRowError(stmt, page, slot, RowOf(page, slot)) # "None"
  /\ Abort(UpdateRowError(stmt, page, slot, RowOf(page, slot)))

(* Mutant of EndOfPage: the while loop does not increment pageIndex.       *)
EndOfPageAgain ==
  /\ pc = "slot" /\ slot >= NumSlots(page)
  /\ disk' = IF stmt.kind = "SELECT" THEN disk ELSE InMemory
  /\ page' = EmptyPage /\ slot' = 0
  /\ pc' = "read"
  /\ UNCHANGED <<stmt, pageIndex, result, before>>

(* DELETE and UPDATE write the page back, changed or not.                  *)
EndOfPage ==
  /\ pc = "slot" /\ slot >= NumSlots(page)
  /\ disk' = IF stmt.kind = "SELECT" THEN disk ELSE InMemory
  /\ pageIndex' = pageIndex + 1 /\ page' = EmptyPage /\ slot' = 0
  /\ pc' = "read"
  /\ UNCHANGED <<stmt, result, before>>

InsertFails ==
  /\ pc = "insert" /\ InsertRowError(stmt) # "None"
  /\ Abort(InsertRowError(stmt))

(* Mutant of InsertIntoPage: the loop over the pages has no break.         *)
InsertIntoPages ==
  /\ pc = "insert" /\ InsertRowError(stmt) = "None"
  /\ \E p \in DOMAIN disk : HasRoom(disk[p], Inserting(stmt).val)
  /\ disk' = [p \in DOMAIN disk |->
                IF HasRoom(disk[p], Inserting(stmt).val)
                THEN Inserted(disk[p], Inserting(stmt).val) ELSE disk[p]]
  /\ pc' = "done" /\ result' = [NoResult EXCEPT !.count = 1]
  /\ LeaveScan
  /\ UNCHANGED <<stmt, before>>

(* The row goes to the first page with room for it ...                     *)
InsertIntoPage ==
  /\ pc = "insert" /\ InsertRowError(stmt) = "None"
  /\ \E p \in DOMAIN disk :
       /\ HasRoom(disk[p], Inserting(stmt).val)
       /\ \A q \in 1..(p - 1) : ~ HasRoom(disk[q], Inserting(stmt).val)
       /\ disk' = [disk EXCEPT ![p] = Inserted(@, Inserting(stmt).val)]
  /\ pc' = "done" /\ result' = [NoResult EXCEPT !.count = 1]
  /\ LeaveScan
  /\ UNCHANGED <<stmt, before>>

NoPageHasRoom ==
  /\ pc = "insert" /\ InsertRowError(stmt) = "None"
  /\ \A p \in DOMAIN disk : ~ HasRoom(disk[p], Inserting(stmt).val)

(* ... or to a new page, which is first written empty.                     *)
AllocatePage ==
  /\ NoPageHasRoom /\ Len(disk) < MaxPages
  /\ disk' = Append(disk, EmptyPage)
  /\ pageIndex' = Len(disk) + 1 /\ pc' = "fill"
  /\ UNCHANGED <<stmt, page, slot, result, before>>

AllocateFails ==
  /\ NoPageHasRoom /\ Len(disk) >= MaxPages
  /\ Abort("InternalError")

FillPage ==
  /\ pc = "fill" /\ InsertError(disk[pageIndex], Inserting(stmt).val) = "None"
  /\ disk' = [disk EXCEPT ![pageIndex] = Inserted(@, Inserting(stmt).val)]
  /\ pc' = "done" /\ result' = [NoResult EXCEPT !.count = 1]
  /\ LeaveScan
  /\ UNCHANGED <<stmt, before>>

FillFails ==
  /\ pc = "fill" /\ InsertError(disk[pageIndex], Inserting(stmt).val) # "None"
  /\ Abort("InternalError")

(* A call of the file fails: numPages or readPage at the head of the loop, *)
(* the readPage of a key check, or the write of a page. Nothing of the     *)
(* page is then taken to be written (TableFile has the other case).        *)
IOFails ==
  /\ \/ pc = "read" /\ pageIndex \in DOMAIN disk \cup {1}
     \/ pc = "slot" /\ stmt.kind = "UPDATE"
     \/ pc = "slot" /\ stmt.kind = "DELETE" /\ slot >= NumSlots(page)
     \/ pc \in {"insert", "fill"}
  /\ Abort("InternalError")

Crash == pc \notin {"idle", "done"} /\ Abort("Crashed")

(* The result is printed, or the process started again.                    *)
Return ==
  /\ pc = "done"
  /\ pc' = "idle" /\ stmt' = NoStatement /\ result' = NoResult /\ before' = << >>
  /\ UNCHANGED <<disk, pageIndex, page, slot>>

Step ==
  \/ ReadPage \/ EndOfTable \/ SkipSlot \/ WhereFails \/ SelectRow
  \/ DeleteRow \/ UpdateRow \/ UpdateFails \/ EndOfPage
  \/ InsertFails \/ InsertIntoPage \/ AllocatePage \/ AllocateFails
  \/ FillPage \/ FillFails \/ Return

Next == Step \/ IOFails \/ Crash \/ \E s \in Statements : Start(s)

Spec == Init /\ [][Next]_vars

(* The process goes on with the statement it executes.                     *)
FairSpec == Spec /\ WF_vars(Step)

-----------------------------------------------------------------------------
TypeOK ==
  /\ \A pg \in Range(disk) \cup {page} :
       /\ pg.free \in 0..Capacity
       /\ \A row \in Range(pg.rows) : \A value \in Range(row) : IsValue(value)
  /\ Len(disk) <= MaxPages
  /\ stmt \in Statements \cup {NoStatement}
  /\ pc \in {"idle", "read", "slot", "insert", "fill", "done"}
  /\ pageIndex \in 1..(Len(disk) + 1)
  /\ pc \in {"slot", "fill"} => pageIndex \in DOMAIN disk
  /\ slot \in 0..NumSlots(page)

RowsFit(pg) ==
  \A i \in DOMAIN pg.rows :
    \/ pg.rows[i] = Deleted
    \/ RowFits(pg.rows[i], Columns) /\ RowLength(pg.rows[i]) = RowSize(pg.rows[i])

(* Whatever values INSERT and UPDATE compute, every row of the file and of *)
(* the page in memory has a NULL or a value of its type, within its        *)
(* length, for each column, and the length it is stored with is that of    *)
(* all its bytes: under a schema whose rows stay below 64 KB deserializeRow *)
(* reads the values that were written.                                     *)
RowsFitSchema == \A pg \in Range(disk) \cup {page} : RowsFit(pg)

KeysDiffer(pages) ==
  \A a, b \in LiveSlots(pages) :
    a # b => ~ ValueEq(RowAt(pages, a)[pkIndex], RowAt(pages, b)[pkIndex])

(* primaryKeyExists keeps two rows from having the same primary key: in    *)
(* the file, which is what a crash leaves, also halfway through an UPDATE  *)
(* that moves keys from row to row, and in the file with the page in       *)
(* memory put in its place.                                                *)
PrimaryKeyUnique ==
  pkIndex # 0 => /\ KeysDiffer(disk)
                 /\ pc = "slot" => KeysDiffer(InMemory)

(* What a statement makes of the row of a slot.                            *)
Hit(row) == row # Deleted /\ Match(stmt, row) = Ok(TRUE)
BecomesRow(row, new) ==
  CASE ~ Hit(row)                       -> new = row
    [] Hit(row) /\ stmt.kind = "DELETE" -> new = Deleted
    [] Hit(row) /\ stmt.kind = "UPDATE" -> Updating(stmt, row) = Ok(new)

(* The slots it should change or return, and their order in the file.      *)
Hits == {at \in LiveSlots(before) : Hit(RowAt(before, at))}
Precedes(a, b) == a[1] < b[1] \/ (a[1] = b[1] /\ a[2] < b[2])

(* In the first k pages every row has become what it should, and the other *)
(* pages are as the statement found them.                                  *)
DoneUpTo(k) ==
  /\ Len(disk) = Len(before)
  /\ \A p \in DOMAIN disk :
       IF p > k THEN disk[p] = before[p]
       ELSE /\ NumSlots(disk[p]) = NumSlots(before[p])
            /\ \A i \in DOMAIN before[p].rows :
                 BecomesRow(before[p].rows[i], disk[p].rows[i])

Finished(kinds) == pc = "done" /\ stmt.kind \in kinds

(* A DELETE or UPDATE that reports success has changed each row its WHERE  *)
(* holds of exactly once, has evaluated everything against the rows as     *)
(* they were at its start, has touched no other row and counts them.       *)
SuccessIsComplete ==
  Finished({"DELETE", "UPDATE"}) /\ result.err = "None" =>
    /\ DoneUpTo(Len(before))
    /\ result.count = Cardinality(Hits)

(* One that fails, or is cut short by a crash, leaves the changes of whole *)
(* pages from the front of the table, never a part of a page and never a   *)
(* change its WHERE did not ask for.                                       *)
FailureKeepsPrefix ==
  Finished({"DELETE", "UPDATE"}) /\ result.err # "None" =>
    \E k \in 0..Len(before) : DoneUpTo(k)

(* INSERT adds its row in one slot of its own or leaves every row alone:   *)
(* a failure or a crash may leave an empty page, never half an insertion.  *)
(* That all bytes of the row are there is RowsFitSchema.                   *)
InsertIsAtomic ==
  Finished({"INSERT"}) =>
    LET new == LiveSlots(disk) \ LiveSlots(before)
    IN /\ LiveSlots(before) \subseteq LiveSlots(disk)
       /\ \A at \in LiveSlots(before) : RowAt(disk, at) = RowAt(before, at)
       /\ IF result.err = "None"
          THEN \E at \in new : new = {at} /\ RowAt(disk, at) = Inserting(stmt).val
          ELSE new = {}

(* The rows of the result, one after the other, are those of the slots S   *)
(* in the order of the file.                                               *)
AnswerIs(S) ==
  \E from \in [DOMAIN result.rows -> S] :
    /\ Range(from) = S
    /\ \A i \in DOMAIN from : result.rows[i] = RowAt(before, from[i])
    /\ \A i, j \in DOMAIN from : i < j => Precedes(from[i], from[j])

(* A SELECT that succeeds returns the matching rows of every page, each    *)
(* once and in the order of the file, and writes nothing.                  *)
SelectReturnsTheTable ==
  Finished({"SELECT"}) =>
    /\ disk = before
    /\ result.err = "None" => AnswerIs(Hits)

(* Every statement comes to its end: the loops over pages and slots, whose *)
(* indices are advanced by hand on each path, never stand still, and an    *)
(* UPDATE does not append the slots it still has to visit.                 *)
StatementEnds == pc # "idle" ~> pc = "idle"

-----------------------------------------------------------------------------
(* The table that the pages stand for.                                     *)
BagOf(seq) ==
  [x \in Range(seq) |-> Cardinality({i \in DOMAIN seq : seq[i] = x})]

TableOf(pages) == [at \in LiveSlots(pages) |-> RowAt(pages, at)]

ToDo ==
  IF pc \in {"read", "slot"} /\ stmt.kind \in {"DELETE", "UPDATE"}
  THEN {at \in LiveSlots(disk) : at[1] >= pageIndex /\ Hit(RowAt(disk, at))}
  ELSE {}

TheAnswer ==
  CASE pc # "done"             -> [pending |-> TRUE]
    [] pc = "done" /\ result.err # "None" -> [err |-> result.err]
    [] Finished({"SELECT"}) /\ result.err = "None" ->
         [err |-> "None", rows |-> BagOf(result.rows)]
    [] OTHER                   -> [err |-> "None", count |-> result.count]

BecomesInTable(s, row) == IF s.kind = "DELETE" THEN Ok(Deleted) ELSE Updating(s, row)
SameKey(row, other) == pkIndex # 0 /\ ValueEq(row[pkIndex], other[pkIndex])

Table == INSTANCE TableSpec
  WITH rows <- TableOf(disk), todo <- ToDo, atStart <- TableOf(before),
       answer <- TheAnswer, Gone <- Deleted, Matches <- Match,
       Becomes <- BecomesInTable, NewRow <- Inserting, Clash <- SameKey

(* To its user the file is a table: at any moment, and after any crash, it *)
(* is the table the statement found with some of the matching rows changed,*)
(* each once and as of the start; and a statement that says it succeeded   *)
(* has met no row on which its WHERE fails.                                *)
ImplementsTable == Table!Spec

-----------------------------------------------------------------------------
(* What documents and tests of the repository say, and the code does not.  *)

(* A column declared NOT NULL, as in the schema of README.md, holds no     *)
(* NULL: not after an explicit NULL either, nor after an UPDATE.           *)
NotNullHolds ==
  \A at \in LiveSlots(disk) : \A c \in DOMAIN Columns :
    Columns[c].notNull => RowAt(disk, at)[c] # NULL

(* ast/statement.h: selectColumns holds one expression for each output     *)
(* column, so a row of the result has as many values.                      *)
RowsAreProjected ==
  Finished({"SELECT"}) /\ stmt.selectColumns # << >> =>
    \A row \in Range(result.rows) : Len(row) = Len(stmt.selectColumns)

(* README.md: the executor evaluates the WHERE clause per row. It may name *)
(* every column of the table, whatever columns the SELECT returns.         *)
WhereSeesTheRow ==
  Finished({"SELECT"}) /\ result.err = "ErrorGettingData" =>
    \E e \in Range(stmt.exprs) :
      e.kind = "COLUMN_REF" /\ e.column \notin Range(columnNames(Columns))

(* A test of execDelete: "removes only matching rows". A row of which e    *)
(* holds does not match NOT e.                                             *)
OnlyMatchingRowsDeleted ==
  Finished({"DELETE"}) /\ stmt.where # 0 /\ stmt.exprs[stmt.where].kind = "UNARY" =>
    \A at \in LiveSlots(before) :
      evalWhere(stmt.exprs[stmt.where].operand, stmt.exprs, RowAt(before, at),
                columnNames(Columns)) = Ok(TRUE)
        => at \in LiveSlots(disk)
=============================================================================
