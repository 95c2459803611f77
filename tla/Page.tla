------------------------------- MODULE Page -------------------------------
(***************************************************************************)
(* struct Page of src/src/storage/page.cpp, byte for byte: a header, a     *)
(* slot directory that grows up from the header and rows that grow down    *)
(* from the end of the page.  One caller at a time holds a Page, so each   *)
(* call is one step.                                                       *)
(*                                                                         *)
(* The page is shown to implement SlotPageSpec, where a page is a sequence *)
(* of rows and tombstones with a budget of free bytes.                     *)
(***************************************************************************)
EXTENDS Integers, Sequences

CONSTANTS PAGE_SIZE,     \* 4096 in the code
          Rows,          \* the serialized rows callers pass
          SlotIndexes,   \* the slot numbers callers ask for
          PageIds        \* the numbers init is given

VARIABLES data,     \* uint8_t data[PAGE_SIZE], indexed from 0
          pageId,   \* the page's place in its file
          ret       \* what the last call returned

vars == <<data, pageId, ret>>

HEADER_SIZE == 16
SLOT_ENTRY_SIZE == 4
HEADER_OFFSET_PAGE_ID == 0
HEADER_OFFSET_NUM_SLOTS == 4
HEADER_OFFSET_FREE_PTR == 6

UINT16 == 65536
Byte == {n \in Nat : n < 256}
Word == {n \in Nat : n < UINT16}
Data == [0..(PAGE_SIZE - 1) -> Byte]
PageErrors == {"None", "InvalidRowLength", "PageFull", "SlotOutOfBounds",
               "SlotDeleted"}

(* The free pointer starts at PAGE_SIZE and is stored in 16 bits.          *)
ASSUME PageSizeAssumption ==
  PAGE_SIZE \in Nat /\ HEADER_SIZE <= PAGE_SIZE /\ PAGE_SIZE < UINT16

(* Row lengths and slot numbers are passed as uint16_t.                    *)
ASSUME CallerAssumption ==
  /\ \A row \in Rows : row \in Seq(Byte) /\ Len(row) \in Word
  /\ SlotIndexes \subseteq Word

-----------------------------------------------------------------------------
(* Reading and writing the bytes; the build's integers are little endian.  *)

Read16(d, offset) == d[offset] + 256 * d[offset + 1]

Write16Low(d, offset, value) == [d EXCEPT ![offset] = value]

Write16(d, offset, value) ==
  [d EXCEPT ![offset] = value % 256, ![offset + 1] = value \div 256]

(* memcpy(data + offset, row, rowLen)                                      *)
MemCpy(d, offset, row) ==
  [k \in DOMAIN d |-> IF k \in offset..(offset + Len(row) - 1)
                      THEN row[k - offset + 1] ELSE d[k]]

NumSlots(d) == Read16(d, HEADER_OFFSET_NUM_SLOTS)
FreePtr(d)  == Read16(d, HEADER_OFFSET_FREE_PTR)

SlotOffset(slot)     == HEADER_SIZE + slot * SLOT_ENTRY_SIZE
RowOffset(d, slot)   == Read16(d, SlotOffset(slot))
RowLen(d, slot)      == Read16(d, SlotOffset(slot) + 2)
SlotDeleted(d, slot) == RowLen(d, slot) = 0

FreeSpace(d) == (FreePtr(d) - SlotOffset(NumSlots(d))) % UINT16

RowAt(d, slot) ==
  [k \in 1..RowLen(d, slot) |-> d[RowOffset(d, slot) + k - 1]]

-----------------------------------------------------------------------------
(* The early returns of each call, in the code's order.                    *)

SlotErrorNoTombstones(d, slot) ==
  IF slot >= NumSlots(d) THEN "SlotOutOfBounds" ELSE "None"

SlotError(d, slot) ==
  IF slot >= NumSlots(d) THEN "SlotOutOfBounds"
  ELSE IF SlotDeleted(d, slot) THEN "SlotDeleted" ELSE "None"

InsertErrorNoEntry(d, row) ==
  IF Len(row) = 0 THEN "InvalidRowLength"
  ELSE IF FreeSpace(d) < Len(row) THEN "PageFull" ELSE "None"

InsertError(d, row) ==
  IF Len(row) = 0 THEN "InvalidRowLength"
  ELSE IF FreeSpace(d) < Len(row) + SLOT_ENTRY_SIZE THEN "PageFull"
  ELSE "None"

Grows(d, slot, row) == Len(row) > RowLen(d, slot)

UpdateError(d, slot, row) ==
  IF SlotError(d, slot) # "None" THEN SlotError(d, slot)
  ELSE IF Len(row) = 0 THEN "InvalidRowLength"
  ELSE IF Grows(d, slot, row) /\ FreeSpace(d) < Len(row) THEN "PageFull"
  ELSE "None"

-----------------------------------------------------------------------------
(* The bytes after each call that did not return early.                    *)

WriteSlot(d, slot, offset, rowLen) ==
  Write16(Write16(d, SlotOffset(slot), offset), SlotOffset(slot) + 2, rowLen)

NewRowOffset(d, row) == (FreePtr(d) - Len(row)) % UINT16

(* The new row under the free pointer, and the free pointer moved to it;   *)
(* slot is a new entry of the directory or one that is redirected.         *)
Placed(d, slot, row) ==
  LET offset == NewRowOffset(d, row)
  IN  Write16(WriteSlot(MemCpy(d, offset, row), slot, offset, Len(row)),
              HEADER_OFFSET_FREE_PTR, offset)

InsertedRow(d, row) ==
  Write16(Placed(d, NumSlots(d), row), HEADER_OFFSET_NUM_SLOTS, NumSlots(d) + 1)

DeletedRow(d, slot) == Write16(d, SlotOffset(slot) + 2, 0)

OverwrittenLengthKept(d, slot, row) == MemCpy(d, RowOffset(d, slot), row)

Overwritten(d, slot, row) ==
  Write16(MemCpy(d, RowOffset(d, slot), row), SlotOffset(slot) + 2, Len(row))

UpdatedRow(d, slot, row) ==
  IF Grows(d, slot, row) THEN Placed(d, slot, row) ELSE Overwritten(d, slot, row)

-----------------------------------------------------------------------------
Answer(err, row) == [err |-> err, row |-> row]
Ok == Answer("None", << >>)

Reject(err) == /\ err # "None"
               /\ ret' = Answer(err, << >>)
               /\ UNCHANGED <<data, pageId>>

(* Page::init on a new Page: zeroed, no slots, free pointer at the end.    *)
Init ==
  /\ pageId \in PageIds
  /\ data = Write16([k \in 0..(PAGE_SIZE - 1) |-> 0],
                    HEADER_OFFSET_FREE_PTR, PAGE_SIZE)
  /\ ret = Ok

InsertRow(row) ==
  \/ Reject(InsertError(data, row))
  \/ /\ InsertError(data, row) = "None"
     /\ data' = InsertedRow(data, row)
     /\ ret' = Ok
     /\ UNCHANGED pageId

ReadRow(slot) ==
  \/ Reject(SlotError(data, slot))
  \/ /\ SlotError(data, slot) = "None"
     /\ ret' = Answer("None", RowAt(data, slot))
     /\ UNCHANGED <<data, pageId>>

DeleteRow(slot) ==
  \/ Reject(SlotError(data, slot))
  \/ /\ SlotError(data, slot) = "None"
     /\ data' = DeletedRow(data, slot)
     /\ ret' = Ok
     /\ UNCHANGED pageId

UpdateRow(slot, row) ==
  \/ Reject(UpdateError(data, slot, row))
  \/ /\ UpdateError(data, slot, row) = "None"
     /\ data' = UpdatedRow(data, slot, row)
     /\ ret' = Ok
     /\ UNCHANGED pageId

Next ==
  \/ \E row \in Rows : InsertRow(row)
  \/ \E slot \in SlotIndexes : ReadRow(slot) \/ DeleteRow(slot)
  \/ \E slot \in SlotIndexes, row \in Rows : UpdateRow(slot, row)

Spec == Init /\ [][Next]_vars

-----------------------------------------------------------------------------
Slots(d) == 0..(NumSlots(d) - 1)

(* Every byte of the page is a byte, and the calls answer with the errors  *)
(* of enum PageError or a row of bytes.                                    *)
TypeOK ==
  /\ data \in Data
  /\ pageId \in PageIds
  /\ ret \in [err : PageErrors, row : Seq(Byte)]

(* The slot directory and the rows share the page without meeting: the     *)
(* directory ends at or below the free pointer, which never leaves the     *)
(* page, and every slot, tombstones included, points between the two.      *)
DirectoryBelowRows(d) ==
  /\ SlotOffset(NumSlots(d)) <= FreePtr(d)
  /\ FreePtr(d) <= PAGE_SIZE
  /\ \A slot \in Slots(d) : /\ FreePtr(d) <= RowOffset(d, slot)
                            /\ RowOffset(d, slot) + RowLen(d, slot) <= PAGE_SIZE

(* No byte belongs to two live rows, whatever was inserted, deleted,       *)
(* overwritten or moved before: insertRow and updateRow never write over a *)
(* row they were not asked to change.                                      *)
RowsDisjoint(d) ==
  \A s, t \in Slots(d) :
     s # t => \/ RowLen(d, s) = 0
              \/ RowLen(d, t) = 0
              \/ RowOffset(d, s) + RowLen(d, s) <= RowOffset(d, t)
              \/ RowOffset(d, t) + RowLen(d, t) <= RowOffset(d, s)

WellFormedPage(d) == DirectoryBelowRows(d) /\ RowsDisjoint(d)
WellFormed == WellFormedPage(data)

(* Slot numbers are row addresses held across calls by the executor's      *)
(* scans: no call renumbers a slot, and a tombstone is never reused.       *)
TombstonesStay ==
  [][/\ NumSlots(data) <= NumSlots(data')
     /\ \A slot \in Slots(data) :
           SlotDeleted(data, slot) => SlotDeleted(data', slot)]_vars

(* page.h:31-33 says that the header in data holds the page id.            *)
PageIdInHeader ==
  Read16(data, HEADER_OFFSET_PAGE_ID)
    + UINT16 * Read16(data, HEADER_OFFSET_PAGE_ID + 2) = pageId

-----------------------------------------------------------------------------
(* The page a caller sees: its free bytes, and what is in each slot.       *)
PageView(d) ==
  [free |-> FreeSpace(d),
   rows |-> [i \in 1..NumSlots(d) |-> RowAt(d, i - 1)]]

Abs == INSTANCE SlotPageSpec
         WITH Capacity <- PAGE_SIZE - HEADER_SIZE, Deleted <- << >>,
              SizeOf <- Len, page <- PageView(data)

(* Every call does to the slots and to the free space what SlotPage says,  *)
(* and nothing to the rows of other slots.                                 *)
Implements == Abs!Spec
=============================================================================
