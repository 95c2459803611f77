----------------------------- MODULE RowCodec -----------------------------
(***************************************************************************)
(* A row on its way into a page and back, byte by byte: the two passes of  *)
(* serializeRow, the 16-bit row length of the executor, and deserializeRow *)
(* on what the page then holds (src/src/storage/row.cpp, insert and update *)
(* in src/src/executor/executor.cpp). Each iteration of a loop over the    *)
(* columns is a step.                                                      *)
(*                                                                         *)
(* A byte is <<n, k>>: the k-th of those that hold the number n. Bytes     *)
(* that do not belong together make some number; the model takes that of   *)
(* the first, and for a length what 16 bits hold of it. What lies behind   *)
(* the row in its page is one byte repeated.                               *)
(***************************************************************************)
EXTENDS Row

CONSTANTS Rows,    \* records [row, schema]: rows that may be stored
          sizeOf,  \* bytes of an INTEGER, a FLOAT and a BOOLEAN
          UINT16,  \* what a uint16_t counts up to and wraps at
          Behind   \* the bytes that may lie behind a row

VARIABLES row, schema,
          pc,         \* size, write, store, read, done, TextTooLong
          column,     \* loop variable
          totalSize, output, offset,
          starts,     \* history: totalSize before each column
          page,       \* the bytes of the row in its page
          behind,     \* the byte behind them
          back        \* the row that is read

vars == <<row, schema, pc, column, totalSize, output, offset, starts, page, behind, back>>

FixedTypes == {"INTEGER", "FLOAT", "BOOLEAN"}

ASSUME SizesAssumption ==
  sizeOf \in [FixedTypes -> Nat \ {0}] /\ UINT16 \in Nat \ {0}

(* Rows of values that fit their columns but for the length of their TEXT, *)
(* no NaN among them.                                                      *)
IsValue(value, type) ==
  \/ value = NULL
  \/ /\ value.type = type
     /\ IF type = "TEXT" THEN value.v \in Seq(Int) ELSE value.v \in [1..1 -> Int]
IsRow(r, columns) ==
  /\ r \in Seq([type : DataTypes \cup {"NULL"}, v : Seq(Int)])
  /\ columns \in Seq([type : DataTypes, textLength : Nat])
  /\ Len(r) = Len(columns)
  /\ \A i \in DOMAIN columns : IsValue(r[i], columns[i].type)

ASSUME RowsAssumption == \A r \in Rows : IsRow(r.row, r.schema)
ASSUME BehindAssumption == Behind \subseteq Int \X Int

-----------------------------------------------------------------------------
(* Mutant of Size: the null flag has no byte of its own.                   *)
SizeNoFlag(value) ==
  CASE value = NULL         -> 1
    [] value.type = "TEXT"  -> 2 + Len(value.v)
    [] OTHER                -> sizeOf[value.type]

(* What the first pass counts for a value.                                 *)
Size(value) ==
  CASE value = NULL         -> 1
    [] value.type = "TEXT"  -> 1 + 2 + Len(value.v)
    [] OTHER                -> 1 + sizeOf[value.type]

(* What the second pass writes: the length of a TEXT wraps, and no more of *)
(* its characters than that are copied.                                    *)
Length(value) == Len(value.v) % UINT16
Encoding(value) ==
  CASE value = NULL        -> [k \in 1..1 |-> <<1, 1>>]
    [] value.type = "TEXT" -> [k \in 1..(3 + Length(value)) |->
                                 IF k = 1 THEN <<0, 1>>
                                 ELSE IF k <= 3 THEN <<Length(value), k - 1>>
                                 ELSE <<value.v[k - 3], 1>>]
    [] OTHER               -> [k \in 1..(1 + sizeOf[value.type]) |->
                                 IF k = 1 THEN <<0, 1>> ELSE <<value.v[1], k - 1>>]

ByteAt(k) == IF k \in DOMAIN page THEN page[k] ELSE behind

(* The number in the bytes behind an offset of the page.                   *)
Number(o)   == ByteAt(o + 1)[1]
LengthAt(o) == Number(o) % UINT16

Decoding(type) ==
  CASE Number(offset) # 0 -> NULL
    [] Number(offset) = 0 /\ type = "TEXT" ->
         Text([k \in 1..LengthAt(offset + 1) |-> Number(offset + 2 + k)])
    [] OTHER -> [type |-> type, v |-> <<Number(offset + 1)>>]

(* Mutants of ReadSize: a NULL takes as much as a number; the prefix of a  *)
(* TEXT is one byte.                                                       *)
ReadSizeOfNull(type) ==
  IF type = "TEXT" THEN 1 + 2 + LengthAt(offset + 1) ELSE 1 + sizeOf[type]

ReadSizeShortPrefix(type) ==
  CASE Number(offset) # 0 -> 1
    [] Number(offset) = 0 /\ type = "TEXT" -> 1 + 1 + LengthAt(offset + 1)
    [] OTHER -> 1 + sizeOf[type]

(* How far the read moves on.                                              *)
ReadSize(type) ==
  CASE Number(offset) # 0 -> 1
    [] Number(offset) = 0 /\ type = "TEXT" -> 1 + 2 + LengthAt(offset + 1)
    [] OTHER -> 1 + sizeOf[type]

-----------------------------------------------------------------------------
Columns == 1..Len(schema)

Init ==
  /\ \E r \in Rows : row = r.row /\ schema = r.schema
  /\ pc = "size" /\ column = 1 /\ totalSize = 0 /\ starts = <<0>>
  /\ output = << >> /\ offset = 0 /\ page = << >> /\ back = << >>
  /\ behind \in Behind

IsTooLong(i) ==
  row[i] # NULL /\ schema[i].type = "TEXT" /\ Len(row[i].v) > schema[i].textLength

TextTooLong ==
  /\ pc = "size" /\ column \in Columns /\ IsTooLong(column)
  /\ pc' = "TextTooLong"
  /\ UNCHANGED <<row, schema, column, totalSize, output, offset, starts, page, behind, back>>

SizeColumn ==
  /\ pc = "size" /\ column \in Columns /\ ~ IsTooLong(column)
  /\ totalSize' = totalSize + Size(row[column])
  /\ starts' = Append(starts, totalSize')
  /\ column' = column + 1
  /\ UNCHANGED <<row, schema, pc, output, offset, page, behind, back>>

Allocate ==
  /\ pc = "size" /\ column \notin Columns
  /\ output' = [k \in 1..totalSize |-> <<0, 1>>]
  /\ column' = 1 /\ offset' = 0 /\ pc' = "write"
  /\ UNCHANGED <<row, schema, totalSize, starts, page, behind, back>>

Overwrite(old, o, new) ==
  [k \in DOMAIN old |-> IF k - o \in DOMAIN new THEN new[k - o] ELSE old[k]]

WriteColumn ==
  /\ pc = "write" /\ column \in Columns
  /\ output' = Overwrite(output, offset, Encoding(row[column]))
  /\ offset' = offset + Len(Encoding(row[column]))
  /\ column' = column + 1
  /\ UNCHANGED <<row, schema, pc, totalSize, starts, page, behind, back>>

EndWrite ==
  /\ pc = "write" /\ column \notin Columns
  /\ pc' = "store"
  /\ UNCHANGED <<row, schema, column, totalSize, output, offset, starts, page, behind, back>>

(* The row length that the executor hands to the page wraps. (A length of  *)
(* 0, and one that the page has no room for, are errors of the page.)      *)
RowLen == totalSize % UINT16

Store ==
  /\ pc = "store"
  /\ page' = SubSeq(output, 1, RowLen)
  /\ column' = 1 /\ offset' = 0 /\ pc' = "read"
  /\ UNCHANGED <<row, schema, totalSize, output, starts, behind, back>>

ReadColumn ==
  /\ pc = "read" /\ column \in Columns
  /\ back' = Append(back, Decoding(schema[column].type))
  /\ offset' = offset + ReadSize(schema[column].type)
  /\ column' = column + 1
  /\ UNCHANGED <<row, schema, pc, totalSize, output, starts, page, behind>>

EndRead ==
  /\ pc = "read" /\ column \notin Columns
  /\ pc' = "done"
  /\ UNCHANGED <<row, schema, column, totalSize, output, offset, starts, page, behind, back>>

Step ==
  \/ TextTooLong \/ SizeColumn \/ Allocate \/ WriteColumn \/ EndWrite
  \/ Store \/ ReadColumn \/ EndRead

Stop == pc \in {"done", "TextTooLong"} /\ UNCHANGED vars

Next == Step \/ Stop

Spec == Init /\ [][Next]_vars

-----------------------------------------------------------------------------
TypeOK ==
  /\ IsRow(row, schema)
  /\ pc \in {"size", "write", "store", "read", "done", "TextTooLong"}
  /\ column \in 1..(Len(schema) + 1)
  /\ totalSize \in Nat /\ offset \in Nat /\ starts \in Seq(Nat)
  /\ pc \in {"write", "store"} => offset <= totalSize

(* A row is short if its length fits 16 bits.                              *)
IsShort == totalSize < UINT16

(* Of a short row nothing is read past the length the page has of it: the  *)
(* read, which is told no length, ends where the writing ended.            *)
StaysInside == pc \in {"read", "done"} /\ IsShort => offset <= RowLen

(* What is read is what was stored, column by column, though each column   *)
(* begins where the ones before it happen to end, in three loops that      *)
(* compute it three times, and whatever lies behind the row.               *)
RoundTrip ==
  pc \in {"read", "done"} /\ IsShort =>
    /\ Len(back) = column - 1
    /\ \A i \in DOMAIN back : back[i] = row[i]

-----------------------------------------------------------------------------
(* README.md: a TEXT is stored as a 2-byte length prefix followed by the   *)
(* actual string bytes. A row that was accepted reads back as it was.      *)
AnyRowRoundTrips == pc = "done" => back = row
=============================================================================
