----------------------------- MODULE SlotPage -----------------------------
(***************************************************************************)
(* What a 4 KB slotted page promises to its caller, without its bytes: an  *)
(* append-only directory of slots, each holding a row or a tombstone, and  *)
(* a budget of free bytes that only shrinks.                               *)
(*                                                                         *)
(* Module Page models the bytes of src/src/storage/page.cpp and is shown   *)
(* to implement this module; module Executor uses the operators below for  *)
(* the pages of a table.                                                   *)
(***************************************************************************)
EXTENDS Naturals, Sequences

CONSTANTS Capacity,   \* PAGE_SIZE - HEADER_SIZE: bytes shared by slots and rows
          Deleted,    \* the content of a tombstone
          SizeOf(_)   \* serialized length of a row

SLOT_ENTRY_SIZE == 4

(* A page is [free |-> bytes left, rows |-> sequence of rows and tombstones]. *)
(* Slot i of the code (counted from 0) is element i + 1 of rows.              *)
EmptyPage == [free |-> Capacity, rows |-> << >>]

NumSlots(pg) == Len(pg.rows)
SlotDeleted(pg, slot) == pg.rows[slot + 1] = Deleted
RowOf(pg, slot) == pg.rows[slot + 1]

(* Mutant of HasRoom: the entry in the slot directory is not counted.      *)
HasRoomNoEntry(pg, row) == pg.free >= SizeOf(row)

(* The test execInsert makes before it picks a page, and insertRow again.  *)
HasRoom(pg, row) == pg.free >= SizeOf(row) + SLOT_ENTRY_SIZE

(* Common early returns of readRow, deleteRow and updateRow.               *)
SlotError(pg, slot) ==
  CASE slot >= NumSlots(pg)   -> "SlotOutOfBounds"
    [] slot < NumSlots(pg) /\ SlotDeleted(pg, slot) -> "SlotDeleted"
    [] OTHER                  -> "None"

InsertError(pg, row) ==
  CASE SizeOf(row) = 0                          -> "InvalidRowLength"
    [] SizeOf(row) # 0 /\ ~ HasRoom(pg, row)    -> "PageFull"
    [] OTHER                                    -> "None"

Inserted(pg, row) ==
  [free |-> pg.free - (SizeOf(row) + SLOT_ENTRY_SIZE),
   rows |-> Append(pg.rows, row)]

WithoutRow(pg, slot) ==
  [free |-> pg.free, rows |-> [pg.rows EXCEPT ![slot + 1] = Deleted]]

(* A row that does not grow is overwritten where it is; a longer one is    *)
(* written at the free pointer and the bytes of the old one are lost.      *)
Grows(pg, slot, row) == SizeOf(row) > SizeOf(RowOf(pg, slot))

UpdateError(pg, slot, row) ==
  LET e == SlotError(pg, slot)
  IN  CASE e # "None"                      -> e
        [] e = "None" /\ SizeOf(row) = 0   -> "InvalidRowLength"
        [] e = "None" /\ SizeOf(row) # 0 /\ Grows(pg, slot, row)
             /\ pg.free < SizeOf(row)      -> "PageFull"
        [] OTHER                           -> "None"

Updated(pg, slot, row) ==
  [free |-> IF Grows(pg, slot, row) THEN pg.free - SizeOf(row) ELSE pg.free,
   rows |-> [pg.rows EXCEPT ![slot + 1] = row]]
=============================================================================
