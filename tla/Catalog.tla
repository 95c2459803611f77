------------------------------ MODULE Catalog ------------------------------
(***************************************************************************)
(* The catalog of tables and the files it speaks of: CREATE TABLE and DROP *)
(* TABLE step by step, loading and saving catalog.txt, and the opening of  *)
(* table files (src/src/catalog/catalog.cpp; resolveTable, execCreateTable *)
(* and execDropTable of src/src/executor/executor.cpp; TableFile::create   *)
(* and open of src/src/storage/page.cpp; the start of main.cpp).           *)
(*                                                                         *)
(* The process may die between any two steps and start again. A column is  *)
(* a model value: what a COLUMN line says comes back unchanged.            *)
(***************************************************************************)
EXTENDS Naturals, Sequences, SequencesExt

CONSTANTS Names,        \* table names; the file of table n is called n.ms
          Columns,      \* columns that a COLUMN line can describe
          Schemas,      \* column lists that CREATE TABLE is given
          OldCatalogs,  \* contents of catalog.txt before the first start
          nameParts,    \* function: the names that a name begins with
          columnParts,  \* function: what the COLUMN line of a column says when
                        \* its last word, the PRIMARY KEY flag, is cut short
          MaxTables,    \* bound: the tables that CREATE TABLE makes at most
          MaxRows,      \* bound: the rows that INSERT puts into a file at most
          NoFile        \* content of a file that does not exist

(* The lines of catalog.txt, and what may be left of one: load tells a     *)
(* TABLE or COLUMN line with words missing from one that it passes over,   *)
(* and cannot go on at a COLUMN line whose length is no number, which only *)
(* a hand can have written.                                                *)
Lines == [kind : {"TABLE"}, name : Names] \cup [kind : {"FILE"}, name : Names \cup {""}]
         \cup [kind : {"COLUMN"}, column : Columns]
         \cup [kind : {"END", "PART", "BAD TABLE", "BAD COLUMN", "BAD LENGTH"}]

(* A file is a sequence of pages, a page of rows; of a row the model keeps *)
(* the columns it was written under.                                       *)
Files == Seq(Seq(Seq(Columns)))

TableSchemas == [name : Names, columns : Seq(Columns), filePath : Names \cup {""}]

ASSUME NamesAssumption == "" \notin Names /\ nameParts \in [Names -> SUBSET Names]
ASSUME ColumnsAssumption ==
  Schemas \subseteq Seq(Columns) /\ columnParts \in [Columns -> SUBSET Columns]
ASSUME NoFileAssumption == NoFile \notin Seq(Lines) /\ NoFile \notin Files

VARIABLES catalogTxt,  \* lines of catalog.txt, or NoFile
          files,       \* pages of each table file from page 0, or NoFile
          tables,      \* Catalog::tables
          openFiles,   \* ExecutionContext::openFiles: the names with a handle
          stmt, pc,    \* the statement and how far it has come
          result,
          lost,        \* history: tables whose DROP was cut short or not saved
          unsaved,     \* history: the last save of this process failed
          forgotten    \* history: a process died with its last save failed

vars == <<catalogTxt, files, tables, openFiles, stmt, pc, result, lost,
          unsaved, forgotten>>
memory == <<tables, openFiles>>

NoStatement == [kind |-> "NONE"]

-----------------------------------------------------------------------------
NamesOf(schemas) == {schemas[i].name : i \in DOMAIN schemas}
indexOf(name) ==
  CHOOSE i \in DOMAIN tables :
    tables[i].name = name /\ \A j \in 1..(i - 1) : tables[j].name # name
findTable(name) == tables[indexOf(name)]

(* Mutant of TableLines: the END line is forgotten.                        *)
TableLinesNoEnd(t) ==
  << [kind |-> "TABLE", name |-> t.name] >>
  \o [c \in DOMAIN t.columns |-> [kind |-> "COLUMN", column |-> t.columns[c]]]
  \o << [kind |-> "FILE", name |-> t.filePath] >>

(* save: the lines of a table, and of all tables.                          *)
TableLines(t) ==
  << [kind |-> "TABLE", name |-> t.name] >>
  \o [c \in DOMAIN t.columns |-> [kind |-> "COLUMN", column |-> t.columns[c]]]
  \o << [kind |-> "FILE", name |-> t.filePath], [kind |-> "END"] >>

CatalogLines(schemas) == FlattenSeq([i \in DOMAIN schemas |-> TableLines(schemas[i])])

(* load: a table begins at a TABLE line and ends at END or with the file;  *)
(* a FILE line without a path is passed over. A TABLE or COLUMN line with  *)
(* the wrong number of words ends the loading with an error; the tables    *)
(* before the one it is in are kept.                                       *)
LoadLine(acc, line) ==
  CASE acc.err \/ (~ acc.open /\ line.kind \notin {"TABLE", "BAD TABLE"}) -> acc
    [] ~ acc.err /\ line.kind = IF acc.open THEN "BAD COLUMN" ELSE "BAD TABLE" ->
         [acc EXCEPT !.err = TRUE]
    [] ~ acc.err /\ ~ acc.open /\ line.kind = "TABLE" ->
         [acc EXCEPT !.open = TRUE,
                     !.table = [name |-> line.name, columns |-> << >>, filePath |-> ""]]
    [] ~ acc.err /\ acc.open /\ line.kind = "COLUMN" ->
         [acc EXCEPT !.table.columns = Append(@, line.column)]
    [] ~ acc.err /\ acc.open /\ line.kind = "FILE" ->
         [acc EXCEPT !.table.filePath = line.name]
    [] ~ acc.err /\ acc.open /\ line.kind = "END" ->
         [acc EXCEPT !.open = FALSE, !.tables = Append(@, acc.table)]
    [] OTHER -> acc

NothingLoaded ==
  [tables |-> << >>, open |-> FALSE, err |-> FALSE,
   table |-> [name |-> "", columns |-> << >>, filePath |-> ""]]

Loaded(lines) ==
  LET after[i \in 0..Len(lines)] ==
        IF i = 0 THEN NothingLoaded ELSE LoadLine(after[i - 1], lines[i])
  IN  after[Len(lines)]

load(lines) ==
  LET end == Loaded(lines)
  IN  IF end.open /\ ~ end.err THEN Append(end.tables, end.table) ELSE end.tables

(* std::stoi throws at a length that is no number and nobody catches it.   *)
LoadThrows(lines) ==
  /\ lines # NoFile
  /\ \E i \in DOMAIN lines :
       /\ lines[i].kind = "BAD LENGTH"
       /\ LET before == Loaded(SubSeq(lines, 1, i - 1)) IN before.open /\ ~ before.err

(* A table's file is called after it, or its FILE line is missing. What was*)
(* cut short may repeat the name of a table, but not its file.             *)
OwnFiles(schemas) ==
  /\ \A t \in Range(schemas) : t.filePath \in {t.name, ""}
  /\ \A i, j \in DOMAIN schemas :
       i < j /\ schemas[i].name = schemas[j].name => schemas[j].filePath = ""

ASSUME OldCatalogsAssumption ==
  \A lines \in OldCatalogs : lines \in Seq(Lines) /\ OwnFiles(load(lines))

(* A missing catalog is an empty one; any other error is only a warning.   *)
TablesAtStart == IF catalogTxt = NoFile THEN << >> ELSE load(catalogTxt)

-----------------------------------------------------------------------------
Init ==
  /\ catalogTxt \in OldCatalogs \cup {NoFile}
  /\ files = [n \in Names |->
       IF catalogTxt # NoFile /\ n \in NamesOf(load(catalogTxt)) THEN << << >> >> ELSE NoFile]
  /\ tables = << >> /\ openFiles = {}
  /\ stmt = NoStatement /\ pc = "down" /\ result = "None" /\ lost = {}
  /\ unsaved = FALSE /\ forgotten = FALSE

Boot ==
  /\ pc = "down" /\ ~ LoadThrows(catalogTxt)
  /\ tables' = TablesAtStart /\ pc' = "idle" /\ unsaved' = FALSE
  /\ UNCHANGED <<catalogTxt, files, openFiles, stmt, result, lost, forgotten>>

(* Such a catalog.txt ends every process that loads it.                    *)
BootDies ==
  /\ pc = "down" /\ LoadThrows(catalogTxt)
  /\ result' = "Exception"
  /\ UNCHANGED <<catalogTxt, files, memory, stmt, pc, lost, unsaved, forgotten>>

(* Leave the statement: with an error, or with "None" when it succeeded.   *)
End(e) == pc' = "idle" /\ stmt' = NoStatement /\ result' = e

(* Mutant of CreateFile: the file is opened without being emptied.         *)
CreateFileKeeping(name, columns) ==
  /\ pc = "idle" /\ (name \in NamesOf(tables) \/ Len(tables) < MaxTables)
  /\ stmt' = [kind |-> "CREATE_TABLE", name |-> name, columns |-> columns]
  /\ files' = [files EXCEPT ![name] = IF @ = NoFile THEN << >> ELSE @]
  /\ pc' = "allocate" /\ result' = "None"
  /\ UNCHANGED <<catalogTxt, memory, lost, unsaved, forgotten>>

(* CREATE TABLE: create() makes the file or empties the one that is there. *)
CreateFile(name, columns) ==
  /\ pc = "idle" /\ (name \in NamesOf(tables) \/ Len(tables) < MaxTables)
  /\ stmt' = [kind |-> "CREATE_TABLE", name |-> name, columns |-> columns]
  /\ files' = [files EXCEPT ![name] = << >>]
  /\ pc' = "allocate" /\ result' = "None"
  /\ UNCHANGED <<catalogTxt, memory, lost, unsaved, forgotten>>

(* Mutant of ReserveAndAdd: addTable does not look for the name.           *)
ReserveAndAddAnyway ==
  /\ pc = "allocate"
  /\ files' = [files EXCEPT ![stmt.name] = Append(@, << >>)]
  /\ tables' = Append(tables, [name |-> stmt.name, columns |-> stmt.columns,
                               filePath |-> stmt.name])
  /\ pc' = "save"
  /\ UNCHANGED <<catalogTxt, openFiles, stmt, result, lost, unsaved, forgotten>>

(* Page 0 is reserved; only then addTable looks for the name.              *)
ReserveAndAdd ==
  /\ pc = "allocate"
  /\ files' = [files EXCEPT ![stmt.name] = Append(@, << >>)]
  /\ IF stmt.name \in NamesOf(tables)
     THEN End("DuplicateTable") /\ UNCHANGED tables
     ELSE /\ tables' = Append(tables, [name |-> stmt.name, columns |-> stmt.columns,
                                       filePath |-> stmt.name])
          /\ pc' = "save" /\ UNCHANGED <<stmt, result>>
  /\ UNCHANGED <<catalogTxt, openFiles, lost, unsaved, forgotten>>

(* create() fails; or open() or allocatePage() does, when the file has     *)
(* been emptied already. A page 0 written in part is the subject of        *)
(* TableFile.                                                              *)
CreateFails(name) ==
  /\ pc = "idle"
  /\ End("InternalError")
  /\ UNCHANGED <<catalogTxt, files, memory, lost, unsaved, forgotten>>

AllocateFails ==
  /\ pc = "allocate"
  /\ End("InternalError")
  /\ UNCHANGED <<catalogTxt, files, memory, lost, unsaved, forgotten>>

DropFails(name) ==
  /\ pc = "idle" /\ name \notin NamesOf(tables)
  /\ End("TableSchemaNotFound")
  /\ UNCHANGED <<catalogTxt, files, memory, lost, unsaved, forgotten>>

Exists(path) == path \in Names /\ files[path] # NoFile
WithoutFile(path) == [n \in Names |-> IF n = path THEN NoFile ELSE files[n]]

(* Mutants of DropTable: the handle stays open; the catalog is not saved.  *)
DropTableOpen(name) ==
  /\ pc = "idle" /\ name \in NamesOf(tables)
  /\ stmt' = [kind |-> "DROP_TABLE", name |-> name, columns |-> << >>]
  /\ tables' = RemoveAt(tables, indexOf(name))
  /\ files' = WithoutFile(findTable(name).filePath)
  /\ lost' = lost \cup {name}
  /\ pc' = "save" /\ result' = "None"
  /\ UNCHANGED <<catalogTxt, openFiles, unsaved, forgotten>>

DropTableUnsaved(name) ==
  /\ pc = "idle" /\ name \in NamesOf(tables)
  /\ tables' = RemoveAt(tables, indexOf(name))
  /\ files' = WithoutFile(findTable(name).filePath)
  /\ openFiles' = openFiles \ {name}
  /\ End("None")
  /\ UNCHANGED <<catalogTxt, lost, unsaved, forgotten>>

(* DROP TABLE: the handle is closed, the schema erased, the file removed.  *)
(* A file that is not there is no error.                                   *)
DropTable(name) ==
  /\ pc = "idle" /\ name \in NamesOf(tables)
  /\ stmt' = [kind |-> "DROP_TABLE", name |-> name, columns |-> << >>]
  /\ tables' = RemoveAt(tables, indexOf(name))
  /\ files' = WithoutFile(findTable(name).filePath)
  /\ openFiles' = openFiles \ {name}
  /\ lost' = lost \cup {name}
  /\ pc' = "save" /\ result' = "None"
  /\ UNCHANGED <<catalogTxt, unsaved, forgotten>>

(* What load makes of the front part of a line: a TABLE line with part of  *)
(* the name, a COLUMN line with another flag, a line with words missing,   *)
(* a line it passes over, as it does a FILE line that names no file, or    *)
(* nothing at all.                                                         *)
Parts(line) ==
  { << >>, << [kind |-> "PART"] >> }
  \cup CASE line.kind = "TABLE"  -> {<< [kind |-> "BAD TABLE"] >>} \cup
              {<< [kind |-> "TABLE", name |-> n] >> : n \in nameParts[line.name]}
         [] line.kind = "COLUMN" -> {<< [kind |-> "BAD COLUMN"] >>} \cup
              {<< [kind |-> "COLUMN", column |-> c] >> : c \in columnParts[line.column]}
         [] OTHER                -> {}

(* save(): opening catalog.txt empties it, the lines follow a buffer at a  *)
(* time, the last of them when the stream is destroyed. A buffer ends      *)
(* anywhere in a line, and holds more than the rest of one.                *)
SaveOpens ==
  /\ pc = "save"
  /\ catalogTxt' = << >> /\ pc' = "write"
  /\ UNCHANGED <<files, memory, stmt, result, lost, unsaved, forgotten>>

SaveWrites ==
  /\ pc = "write" /\ catalogTxt # CatalogLines(tables)
  /\ LET lines == CatalogLines(tables)
     IN  \/ catalogTxt' = lines
         \/ \E upto \in Len(catalogTxt)..(Len(lines) - 1) :
              \E part \in Parts(lines[upto + 1]) :
                catalogTxt' = SubSeq(lines, 1, upto) \o part
  /\ UNCHANGED <<files, memory, stmt, pc, result, lost, unsaved, forgotten>>

(* CREATE keeps the handle it made the file with.                          *)
ReportSuccess ==
  /\ openFiles' = IF stmt.kind = "CREATE_TABLE" THEN openFiles \cup {stmt.name}
                  ELSE openFiles
  /\ End("None")
  /\ UNCHANGED <<catalogTxt, files, tables, forgotten>>

SaveEnds ==
  /\ pc = "write" /\ catalogTxt = CatalogLines(tables)
  /\ lost' = lost \ {stmt.name} /\ unsaved' = FALSE
  /\ ReportSuccess

(* catalog.txt cannot be opened, or a write to it fails: nobody looks, and *)
(* what has been written so far is what there is.                          *)
SaveFails ==
  /\ pc \in {"save", "write"}
  /\ unsaved' = TRUE
  /\ ReportSuccess
  /\ UNCHANGED lost

(* What every other statement begins with: the handle of the table, opened *)
(* on first use.                                                           *)
ResolveError(name) ==
  CASE name \notin NamesOf(tables) -> "TableSchemaNotFound"
    [] name \in NamesOf(tables) \ openFiles
         /\ ~ Exists(findTable(name).filePath) -> "InternalError"
    [] OTHER -> "None"

ResolveFails(name) ==
  /\ pc = "idle" /\ ResolveError(name) # "None"
  /\ End(ResolveError(name))
  /\ UNCHANGED <<catalogTxt, files, memory, lost, unsaved, forgotten>>

(* SELECT, or a statement that writes nothing, as one that fails after the *)
(* table was found: the handle stays open whatever comes of the statement. *)
OpenTable(name) ==
  /\ pc = "idle" /\ ResolveError(name) = "None"
  /\ openFiles' = openFiles \cup {name}
  /\ End("None")
  /\ UNCHANGED <<catalogTxt, files, tables, lost, unsaved, forgotten>>

(* INSERT, as far as the file goes: the row, written under the schema of   *)
(* the table, goes to a page after page 0 or to a new page, whatever its   *)
(* number. Module Executor has the rest of it.                             *)
RowCount(pages) == Len(FlattenSeq(pages))

WithRow(pages, row) ==
  IF Len(pages) > 1 THEN [pages EXCEPT ![2] = Append(@, row)]
  ELSE Append(pages, <<row>>)

InsertRow(name) ==
  /\ pc = "idle" /\ ResolveError(name) = "None"
  /\ openFiles' = openFiles \cup {name}
  /\ LET path == findTable(name).filePath
     IN  /\ RowCount(files[path]) < MaxRows
         /\ files' = [files EXCEPT ![path] = WithRow(@, findTable(name).columns)]
  /\ End("None")
  /\ UNCHANGED <<catalogTxt, tables, lost, unsaved, forgotten>>

Crash ==
  /\ pc # "down"
  /\ pc' = "down" /\ tables' = << >> /\ openFiles' = {}
  /\ stmt' = NoStatement /\ result' = "None"
  /\ forgotten' = (forgotten \/ unsaved)
  /\ UNCHANGED <<catalogTxt, files, lost, unsaved>>

Next ==
  \/ Boot \/ BootDies \/ ReserveAndAdd \/ SaveOpens \/ SaveWrites \/ SaveEnds \/ SaveFails
  \/ AllocateFails \/ Crash
  \/ \E n \in Names :
       \/ \E columns \in Schemas : CreateFile(n, columns)
       \/ CreateFails(n) \/ DropFails(n) \/ DropTable(n) \/ ResolveFails(n)
       \/ OpenTable(n) \/ InsertRow(n)

Spec == Init /\ [][Next]_vars

-----------------------------------------------------------------------------
TypeOK ==
  /\ tables \in Seq(TableSchemas) /\ OwnFiles(tables)
  /\ catalogTxt = NoFile \/ catalogTxt \in Seq(Lines)
  /\ files \in [Names -> Files \cup {NoFile}]
  /\ openFiles \subseteq Names /\ lost \subseteq Names
  /\ unsaved \in BOOLEAN /\ forgotten \in BOOLEAN
  /\ pc \in {"down", "idle", "allocate", "save", "write"}

(* Between statements catalog.txt says what the process knows: a restart   *)
(* loads exactly the tables in memory, also after a crash in the middle of *)
(* a save, a load that stopped at a damaged line, and the saves after it.  *)
(* A save that failed is made good by the next one that does not.          *)
MemoryMatchesFile == pc = "idle" /\ ~ unsaved => TablesAtStart = tables

(* An open handle belongs to a table of the catalog and to that table's    *)
(* file, which is there: no row is written to a file that was removed, or  *)
(* under the columns of another table.                                     *)
HandlesAreCurrent ==
  \A n \in openFiles :
    n \in NamesOf(tables) /\ findTable(n).filePath = n /\ Exists(n)

(* The rows a statement can reach were written under the columns it reads  *)
(* them with, though crashes may leave files of forgotten tables and       *)
(* tables with part of their columns: as long as no process dies after a   *)
(* save that failed.                                                       *)
RowsReadable ==
  ~ forgotten =>
    \A t \in Range(tables) : Exists(t.filePath) =>
      \A page \in Range(files[t.filePath]) : \A row \in Range(page) : row = t.columns

(* A table of the catalog has its file, unless the process died in the     *)
(* DROP of that table or its save failed.                                  *)
DanglingOnlyIfDropped ==
  \A t \in Range(tables) :
    t.filePath \in Names /\ files[t.filePath] = NoFile => t.name \in lost

-----------------------------------------------------------------------------
(* What documents, comments and tests say, and the code does not.          *)

(* A test: "execCreateTable fails on duplicate table". A statement that    *)
(* fails, or any but DROP TABLE, takes no row from a table.                *)
RowsStay ==
  [][\A n \in Names :
       n \in NamesOf(tables) /\ Exists(n) /\ stmt'.kind # "DROP_TABLE" =>
         RowCount(files'[n]) >= RowCount(files[n])]_vars

(* executor.cpp: "Reserve page 0 so data pages start at index 1".          *)
PageZeroReserved ==
  \A n \in Names : files[n] # NoFile /\ files[n] # << >> => files[n][1] = << >>

(* README.md: catalog.txt is written on every CREATE TABLE or DROP TABLE   *)
(* and loaded on startup. Rows are read with the columns of their table.   *)
RowsHaveTheirColumns ==
  \A t \in Range(tables) : Exists(t.filePath) =>
    \A page \in Range(files[t.filePath]) : \A row \in Range(page) : row = t.columns

(* README.md: catalog.txt is written on every CREATE TABLE or DROP TABLE   *)
(* and loaded on startup. A crash in such a statement does not make the    *)
(* other tables unknown.                                                   *)
CrashKeepsOtherTables ==
  [][pc # "down" /\ pc' = "down" /\ ~ unsaved =>
       \A t \in Range(tables) :
         stmt = NoStatement \/ t.name # stmt.name => t \in Range(TablesAtStart')]_vars
=============================================================================
