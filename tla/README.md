# Verification of microsql

microsql is a single-process SQL engine: a REPL hands statements to a lexer, a
parser and an executor, which keeps each table in a file of 4 KB slotted pages
and the list of tables in `catalog.txt`. This directory holds TLA+ models of
all of these, the TLC configurations that check them and proofs that TLAPS
checks. Source paths are relative to the repository; `PROJECT.json` maps every
definition to its lines.

## Inventory

| Part | State it keeps | Operations | Talks to |
|---|---|---|---|
| Page (`src/storage/page.cpp`) | 4096 bytes: header, slot directory growing up, rows growing down; `pageId` beside them | `init`, `insertRow`, `readRow`, `deleteRow`, `updateRow`, `freeSpace`, `slotDeleted` | called by the executor on a page it has read |
| TableFile (`src/storage/page.cpp`) | an `fstream` with one position, its buffer and its error bits; the file | `create`, `open`, `close`, `readPage`, `writePage`, `numPages`, `allocatePage` | the file system |
| Rows (`src/storage/row.cpp`) | none; three loops over the columns | `serializeRow`, `deserializeRow` | executor, page |
| Expressions (`src/executor/executor_helpers.cpp`) | none | `evalExpr`, `evalWhere`, `rowFromInsertValues`, `rowFromUpdate` | the vector of expressions the parser builds |
| Executor (`src/executor/executor.cpp`) | the open files; per statement: page index, page in memory, slot, count | SELECT, INSERT, DELETE, UPDATE, CREATE TABLE, DROP TABLE | all of the above, and the catalog |
| Catalog (`src/catalog/catalog.cpp`) | the table schemas; `catalog.txt` | `load`, `save`, `addTable`, `dropTable`, `findTable` | the file system |
| Lexer (`src/lexer`) | position and line in the text, the tokens so far | `tokenize` | called by the REPL |
| Parser (`src/parser/parser.cpp`) | position in the tokens, the error, statement and expressions so far | `parse` and one function per statement and level of expressions | tokens of the lexer; its result goes to the executor |
| REPL (`src/main.cpp`) | the text typed so far | read a line, run a statement, print | all |

There are no threads and no locks. What makes the system hard is the order of
its writes: a statement reads, changes and writes one page after the other
while it consults pages of the same table, and it can end at any row with an
error, an uncaught exception, a signal or the death of the process. Nothing is
logged, and nothing is recovered at start but `catalog.txt`. In front of that,
lexer, parser and REPL move cursors by hand through loops of which each path
must advance exactly once.

What makes each part correct:

* Page: directory and rows never meet, rows never overlap, slots keep their
  numbers, tombstones stay, each call changes only its own slot.
* TableFile: a page is found where it was put, with what was written last, also
  after a full disk, a failed call and a restart; failures do not linger.
* Rows: what is stored fits the schema it will be read with; what is read is
  what was written, and not a byte further.
* Executor: primary keys stay unique at every moment a crash could expose; a
  DELETE or UPDATE that succeeds did its work on each matching row exactly
  once and as of its start; one that fails leaves whole pages done from the
  front; an INSERT is one row or none; a SELECT returns the table; every
  statement ends.
* Catalog: memory and file agree between statements; a handle leads to the file
  that is there; no table is read with other columns than it was written with.
* Lexer: no character is lost, each token is the longest at its place.
* Parser: the expression is the one the grammar derives, operands come before
  operators, what is accepted is accepted whole; every loop consumes input.
* REPL: what comes to be executed is what was typed, statement by statement.

## Modules

| Module | What it is |
|---|---|
| `SlotPage` | operators of the abstract page: a sequence of rows and tombstones and a number of free bytes |
| `SlotPageSpec` | the abstract page as a state machine: each call and its answer |
| `Page` | `struct Page` byte by byte; `Implements` is `SlotPageSpec` under `PageView` |
| `PageProofs` | the proofs about `Page` |
| `TableFile` | `struct TableFile`: a file of pages behind one stream, full disks, failing reads, restarts |
| `TableFileProofs` | the proofs about `TableFile` |
| `Row` | values, schemas, which rows serialize, which errors the others give, their length |
| `RowCodec` | `serializeRow`, the 16-bit row length and `deserializeRow`, byte by byte |
| `RowCodecProofs` | the proofs about `RowCodec` |
| `Expr` | evaluation of expressions and WHERE, the rows INSERT and UPDATE build |
| `TableSpec` | the abstract table: rows at places, statements that change some of them at a time |
| `Executor` | SELECT, INSERT, DELETE, UPDATE on one table, with failing I/O and crashes; its pages are those of `SlotPage`, its rows those of `Row`; `ImplementsTable` is `TableSpec` under `TableOf` |
| `ExecutorProofs` | keys and rows; what a scan has done so far and statements at their end; that `Executor` implements `TableSpec` |
| `Catalog` | CREATE TABLE, DROP TABLE, load and save of `catalog.txt`, opening of table files, with failing I/O and crashes |
| `CatalogProofs` | the proofs about `Catalog` |
| `Lexer` | `tokenize`, one step per iteration of its loop |
| `LexerProofs` | the proofs about `Lexer` |
| `Parser` | `parse` and all parse functions; one step per iteration of a statement's loop |
| `ParserProofs` | the proofs about `Parser` |
| `Repl` | `main`: an instance of `Lexer` and one of `Parser` behind the line buffer |
| `ReplProofs` | the proofs about `Repl` |
| `MCPage`, `MCTableFile`, `MCRowCodec`, `MCExecutor`, `MCCatalog`, `MCLexer`, `MCParser`, `MCRepl` | the instances TLC checks |

How they fit together: `Page` implements `SlotPageSpec`, and `Executor`
instantiates `SlotPage` with the length of a row, so what is shown of the bytes
carries over to the pages the executor works on. `RowCodec` shows that a row
comes back from the bytes, which `Executor` takes for granted. `Executor` has
whole pages in its file; `TableFile` shows when a page is there as it was
written. `Repl` runs `Lexer` and `Parser` on what is typed up to the statement
that `execute` is given, where `Executor` and `Catalog` begin. Operators called
mutants in their comments are not part of a specification: each is a plausible
bug that one property is there to find.

### Page

`data` is the array of bytes, `pageId` the member, `ret` the answer of the last
call. There is one action per call, whose first disjunct is its early returns
in the order of the code and whose second is its `memcpy` and `write16` in
order. `FreeSpace` wraps in 16 bits as `freeSpace()` does. Offsets are computed
by the same sums as in the code, so an overlap would show.

### TableFile

A page is `PAGE_SIZE` parts, and `parts` is the file; each part carries the id
of its page, the content and its number, so a part of another page or of an
older write can be told. `position`, `failed` and `kept` are the stream's. A
read that the file is too short for or that the device fails, a write that gets
no further than some part, an `open` and a seek to the end that fail set the
bits, after which every seek to a page fails; `numPages` clears them, an `open`
that succeeds does too. What an incomplete write did not write may stay in the
stream's buffer (`kept`): nothing of it (libstdc++ hands a whole page to
`write(2)` past its buffer), the rest of the page, or the whole page
(as a library may that empties its buffer only when all of it was written). It
is due at `position`, and the next seek to the end writes it, and so does `close`, each as far as it gets:
so `numPages` and `allocatePage` may fail at their own seeks (`SeekEndFails`)
or at `tellg` (`SizeFails`), and change the file when they do not.
`allocatePage` takes its id from the size rounded up but its place from the end
of the file, as the code does. `stored`, `torn` and `refused` are history: what
was written last, which pages an incomplete write or what it kept has reached,
whether a call has failed since `numPages` or `open` last succeeded.

### RowCodec

A byte is a number and its place among the bytes that hold it. The first pass
adds up `totalSize` (`SizeColumn`), the second writes into a buffer of that
size (`WriteColumn`), the executor casts the size to 16 bits (`Store`), and the
read finds its way by what it has read (`ReadColumn`), also past the end, where
some byte of the page follows. `starts` is history.

### Executor

`disk` is the data pages of the file (page 0, reserved, is left out), `page`
and `slot` the scan, `pc` the place in the code: `read` is the head of the loop
over pages, `slot` the head of the loop over slots, `insert` the whole of
`execInsert` up to its first write, `fill` the moment between `allocatePage`
and the write of the row, `done` the moment the result is known. The three
scans of the code have the same shape, so `ReadPage`, `SkipSlot`, `WhereFails`
and `EndOfPage` stand for all three; `SelectRow`, `DeleteRow`, `UpdateRow` and
`UpdateFails` are the bodies that differ. A step ends where a crash could tell
the difference. `numPages` is read once by the code and at each page by the
model: the scans do not change the number of pages. `IOFails` is a call of the
file that fails, wherever one is made: at the head of a loop, in a key check,
in the write of a page.

An operation that can fail returns a record with `err`. Errors that reach the
user keep their names, the others are `InternalError`; `bad_variant_access`
(an uncaught exception) and `SIGFPE` end the process, which for the file is the
same as an error. A row is measured by `RowLength`, its size cast to 16
bits (`UINT16`), as at `executor.cpp:297` and `:500`. `RowLengthAssumption` is
what makes the cast harmless: no row of the schema, all its TEXT columns full,
reaches 64 KB. Of a longer row the executor stores the first bytes and reports
success, which `RowCodec` shows with `AnyRowRoundTrips`; no document states the
limit. Overflow of an INTEGER, undefined in C++, is taken to wrap,
as the build does on x86-64. FLOAT arithmetic is the parameter `FloatArith`.

A write of a page is taken to be one `write(2)` of 4096 bytes that a dead
process has either made or not; losing power is not modelled.

`TableSpec` forgets pages, slots and the scan. A statement fixes at its start
the places it is about; `Change` replaces the rows at any of those still to do,
as of the start; `Succeed` and `Answer` ask that all is done, that the WHERE
had a value for every row of the table, and for the right count or rows; `Fail`
may come at any time. Under the mapping, the rows still to do are the matching
ones from the page in memory on, for a page changes in the file at once.

### Catalog

`catalogTxt` is a sequence of lines, `files` the pages of each table file and
in them the columns each row was written with, `tables` and `openFiles` the
memory of the process. `OpenTable` and `InsertRow` are the other statements, as
far as handles and files go. CREATE TABLE is `CreateFile`, `ReserveAndAdd`, a save;
DROP TABLE is `DropTable`, a save. A save is `SaveOpens`, which empties the
file, and `SaveWrites` for each buffer; a buffer may end anywhere in a line, and
`Parts` says what `load` makes of the front of a line: a name cut short may be
the name of another table (`nameParts`), and a COLUMN line whose last word is
cut short describes a column that is no primary key (`columnParts`), so tables
come back under names and with columns that nobody created. `OwnFiles` is what
holds of them: no file belongs to two tables, for what was cut short has lost
its FILE line. A FILE line that is cut short names no file; its path, which no
file has, is the empty one of the model. `Crash` may follow any step and `Boot`
loads what is there, or dies of it every time (`BootDies`): a length that is no
number, which no save leaves, makes `std::stoi` throw (`catalog.cpp:83`).

`CreateFails` and `AllocateFails` are the failing calls of the file.
`SaveFails` is a save that cannot open or write `catalog.txt`: `save()` does
not look and the statement reports success. `lost`, `unsaved` and `forgotten`
are history: tables whose DROP did not reach the file, that the last save has
failed, and that a process died in that state. The properties say what holds
nevertheless: the next save that works makes good the one that did not.

### Lexer

A character is a member of a small set, and a token keeps the part of the text
it was made from. `Operator`, `Literal`, `Word`, `Number`, `Skip` and `Newline`
are the cases of the `switch`; a comment is `StartComment`, a `CommentChar` for
each character and `EndComment`, since this loop need not end. A numeral is an
INTEGER literal if it fits an `int`, as `isInt` finds, and a FLOAT literal if a
`float` can be neither too large (`FLT_MAX`) nor too small (`FLT_ZEROS`) for
it, as `from_chars` finds.

### Parser

`struct Parser` and the `ParseResult` are the record `p`. A parse function of
expressions is an operator from `p` to `p`, with `index` for what it returns
and 0 for the code's -1; a statement is a first step and one step for each
iteration of its loops, because not each of them ends. The functions of
expressions call each other to any depth; here they are two functions, `level`
and `more` (the rest of a chain of operands), defined in terms of what the calls
one deeper answer (`Level`, `MoreOperands`), and `parse` is that to a depth which
no input exceeds. Their cursor is the part of `p` they read and write. `returned` says that an
early return is under way. `OutOfMemory` is the loop over values having filled
the memory (`MaxValues`), `BadTextLength` the exception of `std::stoi`.

### Repl

`ReadLine` joins a line to the buffer with a blank; `ReadQuery` cuts the buffer
behind its first semicolon and drops the rest; `Tokenize` and `Parse` are the
steps of the two instances, `StartParse` hands the tokens over; `Answer` notes
the statement that `execute` is given, or the parse error; `ExecuteDies` is an
`execute` that does not come back (an exception nobody catches, or SIGFPE).

## Runs

| Run | Expected | Question |
|---|---|---|
| `page` | pass | Does the page keep its layout and implement the abstract page? |
| `table_file` | pass | Are pages found where and as they were written, after full disks, failing calls and restarts? |
| `row_codec` | pass | Does a row read back as it was written? |
| `executor` | pass | Are rows, keys, and the effects of statements right, with errors and crashes? |
| `executor_live` | pass | Does every statement end, and are the pages a table to their user? |
| `catalog` | pass | Do memory, `catalog.txt`, files and handles agree, with crashes and failing saves? |
| `lexer` | pass | Do the tokens stand for the text, and does the loop end? |
| `parser` | pass | Does the parser accept the grammar, build what it derives, and advance? |
| `repl` | pass | Does what is typed come to be executed, each statement up to its semicolon and in order, by way of inputs the parser is written for? |
| `projection` | violation | Has a row of a result a value for each of its columns? |
| `delete_not` | violation | Does DELETE with NOT spare the rows it should? |
| `catalog_duplicate` | violation | Does a failing CREATE TABLE leave the table alone? |

What each property says stands above it in its module. The three violations
are disagreements between the code and its documents, comments or tests, for
which `PROJECT.json` quotes both sides under `findings`; the section
Disagreements lists the others and how TLC shows each.

### Bounds

* `page`: a page of 276 bytes (260 for slots and rows), rows of 0, 62 and 95
  bytes, slots 0 to 3. Offsets pass 255, so both bytes of a 16-bit field
  matter; three rows fit, so the page fills up in several ways, and the
  empty row exercises `InvalidRowLength`. The run covers every reachable page.
* `table_file` (1,096,154 states): pages of two parts and two contents,
  `MaxParts` 4, so that a file has up to two pages, whole or torn; a write can
  tear at the first part or before it, what it left can tear again on its way,
  and an allocation can begin in the middle of a page.
* `row_codec` (68,808 states): up to three columns in every order of types,
  texts of 0, 1, 4, 16 and 17 characters of which the longest is too long for
  its column; `UINT16` is 16, so that a row may reach and pass it, by one text
  or by several columns. Two bytes may lie behind: one reads as a NULL flag.
* `executor` (519,141 states): two pages of 48 bytes, which hold two short rows
  each or one row that has grown, so every INSERT path, a full page, a full
  file and an UPDATE that does not fit occur; one INSERT has a row larger than
  a page. `UINT16` is 65536, and `IntLimit` is 4, so that a product of keys wraps and the least
  integer over -1 traps. Fifteen statements (`MCStatements`, each with a
  comment) meet each way out of the loops: wrong number of values, wrong type,
  text too long, duplicate key on INSERT and on UPDATE across pages, keys
  exchanged, division by zero, type error in a WHERE.
* `executor_live` (25,058 states): the same table, seven statements: rows that
  grow, exchange keys and disappear, and a WHERE that fails on some rows only.
* `catalog` (2,634,585 states): two tables (`MaxTables`, in the guard of
  `CreateFile`) of one or two columns, one row to a file (`MaxRows`, in the
  guard of `InsertRow`), a save of any number of writes that end anywhere; one
  name begins with the other, and a primary key is lost with the end of its
  line; no catalog at first, or one of three damaged ones.
* `lexer` (162,149 states): every text of up to four characters of thirteen
  kinds, one for each case of the `switch`, the second characters of the
  pairs and a zero beside another digit; `FLT_ZEROS` is 1; four are enough for a token with one before and two after it, for a
  comment with something behind its newline, and for a numeral with its dot.
* `parser` (83,650 states): the beginning of each statement followed by every
  sequence of up to five tokens that matter there, with a semicolon or
  without, and conditions of three operands with any two operators between
  them, each operand with a sign, a NOT or a parenthesis; `MaxValues` is 8,
  more than any of these lists has.
* `repl` (43,143 states): two statements out of five (one of them no
  statement), the first broken into lines at every set of places, the second
  whole or at all of them; with nothing, `exit;`, or a third statement behind
  the first one's semicolon on the same line (`main` drops it,
  `main.cpp:106`) and, last, one whose parse ends the process. No session holds
  an input that is known to hang (a comment on the last line, VALUES without an
  expression, PRIMARY without KEY): of these `AllAreAnswered` says nothing, and
  Disagreements shows them.

### Fairness

Weak fairness of `Step` in `executor_live`, `lexer` and `repl`: one thread that
executes one loop and never waits. For `repl` a line that was typed is there to
be read; the end of the input is one of its steps. `TokenizeEnds` stops at the
end of a text inside a comment and `LoopsAdvance` leaves out the loop over
values that takes no expression: both are exempt by name, since the code does
not end there (`PromptComesBack`, `MemorySuffices`). Neither the arrival of
statements nor a crash nor a failing call is assumed. `parser` needs none: its
`LoopsAdvance` says of each step that it leads on.

## Disagreements

Each of these properties is what a document, comment or test says, and TLC
finds the code violate it under the configuration named; three of `Catalog` are
found when they take the place of `RowsStay` in the same configuration. The
first three of the table are runs of the project.

| Property | Module, configuration | Code | What is said |
|---|---|---|---|
| `RowsAreProjected` | `Executor`, `MCExecutorProjection.cfg` | `executor.cpp:201` pushes the whole row | `statement.h:43`: "for each output column" |
| `OnlyMatchingRowsDeleted` | `Executor`, `MCExecutorDeleteNot.cfg` | `executor_helpers.cpp:331` takes what is not BINARY for true | `executor_test.cpp:413`: "removes only matching rows" |
| `RowsStay` | `Catalog`, `MCCatalogDuplicate.cfg` | `executor.cpp:535` empties the file before the name is looked up | `executor_test.cpp:269`: "execCreateTable fails on duplicate table" |
| `PageIdInHeader` | `Page`, `MCPageHeader.cfg` | `page.cpp:34`: the id is a member, not in the bytes | `page.h:33`: "pageId at offset 0, 4 bytes" |
| `NotNullHolds` | `Executor`, `MCExecutorNotNull.cfg` | `executor_helpers.cpp:274`: only columns left out are looked at | `README.md:40`: "name TEXT(100) NOT NULL" |
| `WhereSeesTheRow` | `Executor`, `MCExecutorWhereColumns.cfg` | `executor.cpp:204` evaluates with the columns of the result | `README.md:11`: "evaluates the WHERE clause per row" |
| `PageZeroReserved` | `Catalog`, `MCCatalogDuplicate.cfg` | `executor.cpp:551`: a crash before `allocatePage`, or its failure, leaves a file without page 0, which a later row then gets | `executor.cpp:550`: "Reserve page 0 so data pages start at index 1" |
| `CrashKeepsOtherTables` | `Catalog`, `MCCatalogDuplicate.cfg` | `catalog.cpp:132` truncates `catalog.txt` first | `README.md:35`: "written on every CREATE TABLE or DROP TABLE and loaded on startup" |
| `RowsHaveTheirColumns` | `Catalog`, `MCCatalogDuplicate.cfg` | `catalog.cpp:132` does not look whether it could write | the same |
| `CountsAllocated` | `TableFile`, `MCTableFileCount.cfg` | `page.cpp:214` rounds up | `page_test.cpp:333`: "numPages reflects each allocated page" |
| `AllocatedAreThere` | `TableFile`, `MCTableFilePlace.cfg` | `page.cpp:229` writes at the end of the file, not where the id says | `page_test.cpp:399`: "write then read preserves page contents" |
| `AnyRowRoundTrips` | `RowCodec`, `MCRowCodecLong.cfg` | `row.cpp:62` and `executor.cpp:297` cast lengths to 16 bits | `README.md:33`: "a 2-byte length prefix followed by the actual string bytes" |
| `LinesAreTracked` | `Lexer`, `MCLexerLines.cfg` | `lexer.cpp:79`: the newline behind a comment is not counted | `lexer_test.cpp:233`: "line numbers are tracked" |
| `IntegersAreIntegers` | `Lexer`, `MCLexerIntegers.cfg` | `token.cpp:17` asks whether the numeral is an `int` | `README.md:33`: "INTEGER and FLOAT are 8 bytes" |
| `ParseAnswers` | `Parser`, `MCParserConstraint.cfg` | `parser.cpp:625`: PRIMARY without KEY is not consumed | `README.md:9`: "takes the tokens and produces an AST" |
| `MemorySuffices` | `Parser`, `MCParserMemory.cfg` | `parser.cpp:475` appends -1 and tries again | the same |
| `LengthIsRead` | `Parser`, `MCParserLength.cfg` | `parser.cpp:600`: `std::stoi` throws | the same |
| `ValuesAreExpressions` | `Parser`, `MCParserValues.cfg` | `parser.cpp:466` takes the index -1 | `statement.h:50`: "expression indices for VALUES list" |
| `ColumnsHaveValues` | `Parser`, `MCParserColumns.cfg` | `parser.cpp:461` does not compare the lists, `executor_helpers.cpp:290` reads past the values | `executor.cpp:261`: "column count mismatch on insert" |
| `SelectIsWhole` | `Parser`, `MCParserSelect.cfg` | `parser.cpp:153` accepts with tokens left | `parser_test.cpp:283`: "mentions unexpected token" |
| `CreateInAnyCase` | `Parser`, `MCParserCase.cfg` | `parser.cpp:555` compares the letters of the token | `lexer_test.cpp:219`: "keywords are case-insensitive" |
| `PromptComesBack` | `Repl`, `MCReplComment.cfg` | `lexer.cpp:79`: the REPL joins lines with blanks, so a comment has no newline | `lexer_test.cpp:225`: "inline comment is ignored" |
| `LiteralsAreRead` | `Repl`, `MCReplLiteral.cfg` | `main.cpp:101` cuts at a semicolon inside a literal | `lexer_test.cpp:39`: "SELECT with string literal" |

## Proofs

`PageProofs` proves for every page size from 16 to 65535, every set of rows and
every set of slot numbers:

* `PageTyped`, `PageLayout`: `TypeOK` and `WellFormed`. Their conjunction is
  inductive. Each call is reduced to what it does to the header, the slots and
  the bytes of each row (`PlacedFacts`, `InsertedRowFacts`, `MovedRowFacts`,
  `OverwrittenFacts`, `DeletedRowFacts`); that writes of two bytes do not
  disturb each other rests on `DirectoryBelowRows`, which also rules out the
  wrap in `FreeSpace`.
* `PageTombstones`: no call revives or renumbers a slot.
* `PageImplements`: the bytes implement `SlotPageSpec`. Each call maps to the
  abstract call of its name, since the early returns agree (`SameErrors`) and
  the view of the page changes in one slot only (`ViewOfOneSlot`,
  `ViewInserted`).

`TableFileProofs` proves for every page size and every bound on the file:

* `TableFileTyped`, `PagesStandInTheFile`, `ReadsReturnWrites`: `TypeOK`,
  `PagesStand`, `ReadsAreWrites`. What they say of the pages is not inductive,
  since a write might reach beyond its page and an allocation begins where the
  file happens to end. `FileInv` adds that each page that begins in the file is
  stored or torn and one that does not end in it is torn: then what
  `allocatePage` writes at the end belongs to pages that are new or torn. This
  (`KnownFile`) survives writing any part of anything at any place in the file,
  if the pages it reaches count as torn from then on (`TornWrite`): a write that
  is cut short, or a part of what was kept, due at a `position` in the file. The
  arithmetic of places is in `PagesApart` and its neighbours.
* `FailuresEnd`: `FailuresEndAtNumPages`. The bits are set again by the seeks of
  `numPages` and `allocatePage`; the invariant is that they are set only while
  `refused` is.

`RowCodecProofs` proves for every set of rows, all sizes of the fixed types,
every modulus and every byte behind the row:

* `RowCodecTyped`: `TypeOK`, for rows whose length has wrapped as well.
* `ShortRowsRoundTrip`, `ShortRowsStayInside`: `RoundTrip`, `StaysInside`. The
  three loops meet in `starts`: `CodecInv` says that while the buffer is
  written, and again while it is read, the offset is where the first pass has
  counted this column to begin, that the encodings of the columns already
  written stand where they begin, and that later writes stay behind them.

`ExecutorProofs` proves for every schema, every set of statements (whose column
lists are no longer than their values, and whose operands stand before their
operators: `AstIsForest` of `Parser`), every page size and number of pages:

* `KeysUnique`: `PrimaryKeyUnique`. The file alone is not inductive: an UPDATE
  checks a key against the file with its page in memory put in place, so the
  invariant `ExecInv` says that these pages differ in their keys as well, and
  that a row about to fill a new page still differs from the keys of the file.
* `RowsFitTheSchema`: `RowsFitSchema`, from `SerializeError` and no matter what
  the expressions evaluate to: a row that serializes is no longer than the
  longest of its schema (`SizeOfRowOK`), so under `RowLengthAssumption` the
  length it is stored with is its size. `InsertAllOrNothing` below is the whole
  row for the same reason.
* `ExpressionsGive`: `evalExpr` returns an error or a value, and an INTEGER keeps
  to its 64 bits (`WrapInRange`, `QuotientInRange`). Operands stand before their
  operators, so the induction is over the indices of the vector.
* `ExecutorTyped`: `TypeOK`. The values of a row have sizes, so the tests of
  `insertRow` and `updateRow` keep the free bytes of a page at zero or more.

The second half of `ExecutorProofs` proves, under the same assumptions, what
finished statements have done:

* `SuccessChangesAll`, `FailureLeavesPages`, `InsertAllOrNothing`,
  `SelectAnswersAll`: `SuccessIsComplete`, `FailureKeepsPrefix`,
  `InsertIsAtomic`, `SelectReturnsTheTable`. All speak of the end of a
  statement only, so the invariant, `ProgressInv`, says how far a scan has come:
  the pages before `pageIndex` are what the statement makes of those it found,
  the page in memory is so up to `slot` and untouched behind it, the pages after
  it are untouched, and `result` counts (or lists, in order) the hits among the
  slots passed (`HitsUpTo`). Each way out of the loops then is one of the four
  properties. `ScanProgress` is that invariant.

and in its second part the refinement:

* `ExecutorImplementsTable`: `ImplementsTable`. `Start` maps to `Begin`, the
  write of the new row to `Insert`, the end of a page with hits to a `Change` of
  them, the end of a scan to `Succeed` or `Answer`, an error or a crash to
  `Fail`, `Return` to `Return`; every other step, the writing of an empty page
  among them, leaves the table alone. `TableInv` adds that no row passed had a WHERE without a
  value, which `Succeed` asks for and no property of `Executor` says.

`CatalogProofs` proves for all names, columns and old catalogs, and without any
bound on tables, rows or saves:

* `SavedIsLoaded`: `load` is the inverse of `save`.
* `TypeCorrect`, `RestartLoadsTheTables`, `HandlesStayCurrent`,
  `RowsStayReadable`, `OnlyDropsDangle`: `TypeOK`, `MemoryMatchesFile`,
  `HandlesAreCurrent`, `RowsReadable`, `DanglingOnlyIfDropped`. `Inv` is
  inductive where they are not, because it says of the tables a restart would
  load what it says of those in memory: `catalog.txt` is cut short in the
  middle of a save, and a crash there makes what it says the memory of the next
  process. That is why `AllSaved` comes first: `load` makes of every front part
  of a save a front part of the tables, and perhaps one table more that has no
  file (`PartOf`). It is shown along the lines of one table (`ReadTable`,
  `CutTable`) and then from table to table.

`LexerProofs` proves for every text:

* `TypeCorrect`, `NothingLost`, `LexemesAreLongest`: `TypeOK`, `NothingIsLost`,
  `TokensAreLexemes`. Their conjunction with `CommentInv`, which says where the
  comment began that is being skipped, is inductive. Every case of the `switch`
  that makes a token is shown to emit a lexeme that starts at the position
  (`Emits`), and `EmitInv` does the rest for all of them.
* `EveryStepAdvances`: `StepsAdvance`, from the same invariant.

The assumptions are those named in the modules: `PageSizeAssumption`,
`CallerAssumption`, `ColumnsAssumption` (of `Executor` and of `Catalog`),
`StatementsAssumption`, `RowLengthAssumption`, `SizesAssumption` (of
`Executor`, `TableFile` and `RowCodec`), `RowsAssumption`, `BehindAssumption`, `IntLimitAssumption`,
`NamesAssumption`, `NoFileAssumption`, `OldCatalogsAssumption` (no two tables of
an old `catalog.txt` share a file), `LettersAssumption`, `TextsAssumption`,
`InputsAssumption`, `MaxValuesAssumption`, `SessionsAssumption`,
`KeywordsAssumption`, `LiteralsAssumption`. TLC
evaluates each of them in a run.

`ParserProofs` proves for token sequences of any length that end as the lexer
ends them and hold at most the semicolon at which `main` cuts
(`InputsAssumption`), and any number of values that memory can hold
(`MaxValuesAssumption`):

* `WhereSound`: `WhereIsDerived`. The heart is `ParseContract`, by induction on
  the depth of the calls: whatever a parse function of level l is given, it
  never goes back, it only appends expressions, and if it answers with an index
  then the grammar derives that expression at level l from exactly the tokens
  it has passed, and what it has appended is one tree with that expression as its
  root (`Parsed`). The loop of a chain has a contract of its own, whose
  precondition is what the left side satisfies (`Chained`). That each rule of
  the grammar builds phrases out of shorter ones makes `Derives` well defined,
  and that appending expressions changes no derivation (`Extends`) lets one be
  kept while the rest of the statement is parsed.
* `Forest`: `AstIsForest`, from `Tree`: a tree that is appended is held by one
  place, the one the statement puts it in (`OneMore`, `ForestHolds`). While an
  error is under way trees may be left over, which is why the last conjunct
  speaks of statements without one.
* `TypeCorrect`, `Whole`: `TypeOK`, `AcceptedIsWhole`. `PInv` adds in which loop
  the position may be past the end (only in a column list, where any token is
  taken for a name), which kind of statement is in which loop, and that the
  WHERE is set last.
* `Complete`: `GrammaticalIsAccepted`. The converse of `ParseContract` is
  `Understood`, by induction on the length of a phrase: a parse function of
  level l that is called deep enough (the levels that one token can take are
  counted against the depth that `parse` allows) passes exactly the phrase that
  the grammar derives at l, up to a token that stops it. Three things could go
  wrong there and do not: a loop might stop inside a chain of operands or take
  an operator behind it (`Stops`), a tighter level might have to give back what
  a looser one needs, and an IS NOT might be an IS before a NOT (no operand of IS
  begins with NOT). The invariant `DInv` carries this to the statement, since a
  DELETE is parsed in one step.
* `Advance`: `LoopsAdvance`, from the same lemma for each action (`Kept`).

`ReplProofs` proves for all sessions in which no '\0' is typed, any alphabet and
any keywords of which none is a semicolon (`SessionsAssumption`,
`KeywordsAssumption`):

* `GivenInputs`: `ParserIsGivenInputs`. It is `InputsAssumption` of `Parser` for
  the tokens that `main` hands over, so what `ParserProofs` assumes is what the
  program provides. The invariant, `ReplInv`, follows the query through the
  lexer (`LexInv`): it has one semicolon, at its end, so a token of that type is
  made only where the text ends, nothing but END_OF_FILE is made behind it, and
  each token is a part of the query. For that, `EmitKeeps` is shown of each
  action of `Lexer`.
* `TypeCorrect`: `TypeOK`, from the same invariant: each query that is read is
  answered before the next line.

`LiteralsAssumption` (the names of token types and the blank are strings) is
stated since no backend knows that a string literal is in STRING; it is true of
any literals.

Induction is used in the form of `NatInd` of `CatalogProofs` (`NatSet` of
`ExecutorProofs` and `ParserProofs`): a set that holds 0 and with each number the next one holds
them all. That needs no operator for a parameter, and is enough for the
recursive functions of `load`, `FlattenSeq`, `evalExpr`, `RowSize`, the grammar
and the parse functions, and for the first of several equal names or errors.

Only model-checked: `AnswersAreTheStatements`, which compares the answers of
`Repl` with statements that the sessions of `MCRepl` come with, so that a proof
would need the text of a statement and its meaning related in general; and
`StatementEnds`, `TokenizeEnds` and `AllAreAnswered`, since liveness under
fairness is out of the prover's reach.

## Not modelled

* Printing: the layout of a result table, the texts of errors and logs, the
  names that `toString(TokenType)` gives for tests.
* NaN as a FLOAT key (`executor_helpers.cpp:181`): it equals nothing, itself
  included, so `PrimaryKeyUnique` holds of it and says little.
* A second PRIMARY KEY column (`executor.cpp:102`): the first one counts, in
  the code and in the model; no document says otherwise.
* The three-valued logic of SQL as a reference for `Expr`: to the code NULL is a
  value that equals itself, and no document promises another.
* The value of a FLOAT literal (`parser.cpp:380` reads it with `stof`), and
  FLOAT arithmetic, a parameter.
* An INSERT whose column list is longer than its values, or an expression index
  of -1, in `Executor`: undefined behaviour, excluded by
  `StatementsAssumption`. That the parser lets both through is shown above.
* Pages that the scans allocate in memory and never free (`executor.cpp:185`).
* CREATE INDEX, BEGIN, COMMIT and ROLLBACK, which the parser knows (`Parser`
  has them) and the executor answers with `NotImplemented`.
* Rows of 64 KB and more in `Executor`, excluded by `RowLengthAssumption`; what
  becomes of them is in `RowCodec`.
* A page of `Executor` torn by a full disk: `TableFile` has it, and there a
  torn page is one that nothing is said of.

## Plan

1. Done: all modules above, and the proofs about `Page`, `TableFile`,
   `RowCodec`, `Executor`, `Catalog`, `Lexer`, `Parser` and `Repl`.
2. Lemmas about `Row` and `Expr` that stand on their own, such as that a row
   which serializes has the length of what is written for it, or that `evalWhere`
   returns an error or a truth value.
