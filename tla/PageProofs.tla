---------------------------- MODULE PageProofs ----------------------------
(***************************************************************************)
(* Proofs about module Page, for every page size, every set of rows and    *)
(* every slot number: the layout of the page is an invariant, tombstones   *)
(* stay, and the bytes implement the abstract page of SlotPageSpec.        *)
(***************************************************************************)
EXTENDS Page, SequenceTheorems, TLAPS

-----------------------------------------------------------------------------
(* A 16-bit read of two bytes of the page is a 16-bit value.               *)
LEMMA Read16Type ==
  ASSUME NEW d \in Data, NEW o \in Nat, o + 1 < PAGE_SIZE
  PROVE  Read16(d, o) \in Word
<1>1. d[o] \in Byte /\ d[o + 1] \in Byte
  BY PageSizeAssumption DEF Data
<1> QED
  BY <1>1 DEF Read16, Byte, Word, UINT16

(* A 16-bit write is read back, and changes no byte but its two.           *)
LEMMA Write16Facts ==
  ASSUME NEW d \in Data, NEW o \in Nat, o + 1 < PAGE_SIZE, NEW v \in Word
  PROVE  /\ Write16(d, o, v) \in Data
         /\ Read16(Write16(d, o, v), o) = v
         /\ \A k \in 0..(PAGE_SIZE - 1) :
               k # o /\ k # o + 1 => Write16(d, o, v)[k] = d[k]
<1>1. v % 256 \in Byte /\ v \div 256 \in Byte /\ v = (v % 256) + 256 * (v \div 256)
  BY DEF Word, UINT16, Byte
<1>2. o \in 0..(PAGE_SIZE - 1) /\ o + 1 \in 0..(PAGE_SIZE - 1) /\ o # o + 1
  BY PageSizeAssumption
<1>3. Write16(d, o, v)[o] = v % 256 /\ Write16(d, o, v)[o + 1] = v \div 256
  BY <1>2 DEF Data, Write16
<1>4. Write16(d, o, v) \in Data
  BY <1>1, <1>2 DEF Data, Write16
<1>5. \A k \in 0..(PAGE_SIZE - 1) :
         k # o /\ k # o + 1 => Write16(d, o, v)[k] = d[k]
  BY <1>2 DEF Data, Write16
<1> QED
  BY <1>1, <1>3, <1>4, <1>5 DEF Read16

(* A 16-bit read that a 16-bit write does not overlap is not changed.      *)
LEMMA Write16Elsewhere ==
  ASSUME NEW d \in Data, NEW o \in Nat, o + 1 < PAGE_SIZE, NEW v \in Word,
         NEW p \in Nat, p + 1 < PAGE_SIZE, p + 1 < o \/ o + 1 < p
  PROVE  Read16(Write16(d, o, v), p) = Read16(d, p)
<1>1. p \in 0..(PAGE_SIZE - 1) /\ p + 1 \in 0..(PAGE_SIZE - 1)
  BY PageSizeAssumption
<1>2. Write16(d, o, v)[p] = d[p] /\ Write16(d, o, v)[p + 1] = d[p + 1]
  BY <1>1, Write16Facts
<1> QED
  BY <1>2 DEF Read16

(* memcpy puts the row at its offset and changes no byte outside it.       *)
LEMMA MemCpyFacts ==
  ASSUME NEW d \in Data, NEW o \in Nat, NEW row \in Seq(Byte),
         o + Len(row) <= PAGE_SIZE
  PROVE  /\ MemCpy(d, o, row) \in Data
         /\ \A k \in 1..Len(row) : MemCpy(d, o, row)[o + k - 1] = row[k]
         /\ \A k \in 0..(PAGE_SIZE - 1) :
               k < o \/ k >= o + Len(row) => MemCpy(d, o, row)[k] = d[k]
<1>1. Len(row) \in Nat /\ \A k \in 1..Len(row) : row[k] \in Byte
  OBVIOUS
<1>2. DOMAIN d = 0..(PAGE_SIZE - 1)
  BY DEF Data
<1>3. MemCpy(d, o, row) \in Data
  BY <1>1, <1>2, PageSizeAssumption DEF MemCpy, Data
<1>4. \A k \in 1..Len(row) : MemCpy(d, o, row)[o + k - 1] = row[k]
  BY <1>1, <1>2, PageSizeAssumption DEF MemCpy
<1>5. \A k \in 0..(PAGE_SIZE - 1) :
         k < o \/ k >= o + Len(row) => MemCpy(d, o, row)[k] = d[k]
  BY <1>1, <1>2, PageSizeAssumption DEF MemCpy
<1> QED
  BY <1>3, <1>4, <1>5

-----------------------------------------------------------------------------
LEMMA SlotOffsetType ==
  ASSUME NEW slot \in Nat
  PROVE  SlotOffset(slot) = 16 + 4 * slot /\ SlotOffset(slot) \in Nat
BY DEF SlotOffset, HEADER_SIZE, SLOT_ENTRY_SIZE

LEMMA HeaderType ==
  ASSUME NEW d \in Data
  PROVE  NumSlots(d) \in Word /\ FreePtr(d) \in Word
BY Read16Type, PageSizeAssumption
   DEF NumSlots, FreePtr, HEADER_OFFSET_NUM_SLOTS, HEADER_OFFSET_FREE_PTR, HEADER_SIZE

(* In a well-formed page the 16-bit subtraction of freeSpace does not wrap. *)
LEMMA FreeSpaceIs ==
  ASSUME NEW d \in Data, DirectoryBelowRows(d)
  PROVE  /\ FreeSpace(d) = FreePtr(d) - SlotOffset(NumSlots(d))
         /\ FreeSpace(d) \in Nat
<1>1. NumSlots(d) \in Nat /\ FreePtr(d) \in Nat /\ FreePtr(d) < UINT16
  BY HeaderType DEF Word
<1>2. SlotOffset(NumSlots(d)) \in Nat
  BY <1>1, SlotOffsetType
<1>3. SlotOffset(NumSlots(d)) <= FreePtr(d)
  BY DEF DirectoryBelowRows
<1>4. \A x \in Nat : x < UINT16 => x % UINT16 = x
  BY DEF UINT16
<1> DEFINE gap == FreePtr(d) - SlotOffset(NumSlots(d))
<1>5. gap \in Nat /\ gap < UINT16
  BY <1>1, <1>2, <1>3 DEF UINT16
<1>6. gap % UINT16 = gap
  BY <1>4, <1>5
<1> QED
  BY <1>5, <1>6 DEF FreeSpace

(* The entries of a well-formed page's directory are 16-bit values.        *)
LEMMA SlotType ==
  ASSUME NEW d \in Data, NEW slot \in Nat, SlotOffset(slot) + 4 <= PAGE_SIZE
  PROVE  RowOffset(d, slot) \in Word /\ RowLen(d, slot) \in Word
BY SlotOffsetType, Read16Type, PageSizeAssumption DEF RowOffset, RowLen

(* Two 16-bit values written to a slot are read back from it.              *)
LEMMA WriteSlotFacts ==
  ASSUME NEW d \in Data, NEW slot \in Nat, SlotOffset(slot) + 4 <= PAGE_SIZE,
         NEW offset \in Word, NEW len \in Word
  PROVE  LET e == WriteSlot(d, slot, offset, len)
         IN  /\ e \in Data
             /\ RowOffset(e, slot) = offset
             /\ RowLen(e, slot) = len
             /\ \A k \in 0..(PAGE_SIZE - 1) :
                   k < SlotOffset(slot) \/ k >= SlotOffset(slot) + 4 => e[k] = d[k]
<1> DEFINE o == SlotOffset(slot)
           d1 == Write16(d, o, offset)
           d2 == Write16(d1, o + 2, len)
<1>1. o \in Nat /\ o + 1 < PAGE_SIZE /\ o + 2 \in Nat /\ (o + 2) + 1 < PAGE_SIZE
  BY SlotOffsetType, PageSizeAssumption
<1> HIDE DEF o
<1>2. /\ d1 \in Data
      /\ Read16(d1, o) = offset
      /\ \A k \in 0..(PAGE_SIZE - 1) : k # o /\ k # o + 1 => d1[k] = d[k]
  BY <1>1, Write16Facts
<1> HIDE DEF d1
<1>3. /\ d2 \in Data
      /\ Read16(d2, o + 2) = len
      /\ \A k \in 0..(PAGE_SIZE - 1) : k # o + 2 /\ k # (o + 2) + 1 => d2[k] = d1[k]
  BY <1>1, <1>2, Write16Facts
<1>4. Read16(d2, o) = offset
  BY <1>1, <1>2, Write16Elsewhere
<1>5. \A k \in 0..(PAGE_SIZE - 1) : k < o \/ k >= o + 4 => d2[k] = d[k]
  BY <1>1, <1>2, <1>3
<1> QED
  BY <1>3, <1>4, <1>5 DEF WriteSlot, RowOffset, RowLen, o, d1

(* A row placed under the free pointer: its slot points at its bytes, the  *)
(* free pointer points at them too, and nothing else of the page changes.  *)
LEMMA PlacedFacts ==
  ASSUME NEW d \in Data, NEW slot \in Nat, NEW row \in Seq(Byte), Len(row) \in Word,
         SlotOffset(slot) + 4 + Len(row) <= FreePtr(d), FreePtr(d) <= PAGE_SIZE
  PROVE  LET e == Placed(d, slot, row)
             offset == FreePtr(d) - Len(row)
         IN  /\ e \in Data
             /\ FreePtr(e) = offset
             /\ RowOffset(e, slot) = offset
             /\ RowLen(e, slot) = Len(row)
             /\ \A k \in 1..Len(row) : e[offset + k - 1] = row[k]
             /\ \A k \in 0..(PAGE_SIZE - 1) :
                   \/ k < 6
                   \/ 8 <= k /\ k < SlotOffset(slot)
                   \/ SlotOffset(slot) + 4 <= k /\ k < offset
                   \/ FreePtr(d) <= k
                   => e[k] = d[k]
<1> DEFINE o == SlotOffset(slot)
           off == FreePtr(d) - Len(row)
           d1 == MemCpy(d, off, row)
           d2 == WriteSlot(d1, slot, off, Len(row))
           d3 == Write16(d2, 6, off)
<1>1. /\ FreePtr(d) \in Nat /\ FreePtr(d) < UINT16
      /\ Len(row) \in Nat
      /\ PAGE_SIZE \in Nat
      /\ o \in Nat /\ o >= 16
  BY HeaderType, SlotOffsetType, PageSizeAssumption DEF Word
<1>2. o + 4 + Len(row) <= FreePtr(d)
  OBVIOUS
<1> HIDE DEF o
<1>3. /\ off \in Word /\ off \in Nat
      /\ off + Len(row) = FreePtr(d)
      /\ off + Len(row) <= PAGE_SIZE
      /\ o + 4 <= off
      /\ o + 4 <= PAGE_SIZE
  BY <1>1, <1>2 DEF Word, UINT16
<1>4. NewRowOffset(d, row) = off
  <2>1. \A x \in Nat : x < UINT16 => x % UINT16 = x
    BY DEF UINT16
  <2> QED
    BY <1>3, <2>1 DEF NewRowOffset, Word
<1> HIDE DEF off
<1>5. /\ d1 \in Data
      /\ \A k \in 1..Len(row) : d1[off + k - 1] = row[k]
      /\ \A k \in 0..(PAGE_SIZE - 1) :
            k < off \/ k >= off + Len(row) => d1[k] = d[k]
  BY <1>3, MemCpyFacts
<1> HIDE DEF d1
<1>6. /\ d2 \in Data
      /\ RowOffset(d2, slot) = off
      /\ RowLen(d2, slot) = Len(row)
      /\ \A k \in 0..(PAGE_SIZE - 1) : k < o \/ k >= o + 4 => d2[k] = d1[k]
  BY <1>3, <1>5, WriteSlotFacts DEF o
<1> HIDE DEF d2
<1>7. 6 + 1 < PAGE_SIZE
  BY PageSizeAssumption DEF HEADER_SIZE
<1>8. /\ d3 \in Data
      /\ Read16(d3, 6) = off
      /\ \A k \in 0..(PAGE_SIZE - 1) : k # 6 /\ k # 6 + 1 => d3[k] = d2[k]
  <2>1. off \in Word
    BY <1>3
  <2>2. /\ Write16(d2, 6, off) \in Data
        /\ Read16(Write16(d2, 6, off), 6) = off
        /\ \A k \in 0..(PAGE_SIZE - 1) :
              k # 6 /\ k # 6 + 1 => Write16(d2, 6, off)[k] = d2[k]
    <3> HIDE DEF d3, d2, off
    <3>1. d2 \in Data /\ 6 \in Nat
      BY <1>6
    <3> QED
      BY <1>7, <2>1, <3>1, Write16Facts
  <2> QED
    BY <2>2
<1>9. RowOffset(d3, slot) = off /\ RowLen(d3, slot) = Len(row)
  <2>1. /\ o + 1 < PAGE_SIZE /\ 6 + 1 < o
        /\ o + 2 \in Nat /\ (o + 2) + 1 < PAGE_SIZE /\ 6 + 1 < o + 2
    BY <1>1, <1>3
  <2>2. Read16(d3, o) = Read16(d2, o) /\ Read16(d3, o + 2) = Read16(d2, o + 2)
    BY <1>1, <1>3, <1>6, <1>7, <2>1, Write16Elsewhere
  <2> QED
    BY <1>6, <2>2 DEF RowOffset, RowLen, o
<1>10. \A k \in 1..Len(row) : d3[off + k - 1] = row[k]
  <2> TAKE k \in 1..Len(row)
  <2>1. /\ off + k - 1 \in 0..(PAGE_SIZE - 1)
        /\ off + k - 1 >= o + 4
        /\ off + k - 1 # 6 /\ off + k - 1 # 6 + 1
    BY <1>1, <1>3
  <2> QED
    BY <1>5, <1>6, <1>8, <2>1
<1>11. \A k \in 0..(PAGE_SIZE - 1) :
          \/ k < 6
          \/ 8 <= k /\ k < o
          \/ o + 4 <= k /\ k < off
          \/ FreePtr(d) <= k
          => d3[k] = d[k]
  <2> SUFFICES ASSUME NEW k \in 0..(PAGE_SIZE - 1),
                      \/ k < 6
                      \/ 8 <= k /\ k < o
                      \/ o + 4 <= k /\ k < off
                      \/ FreePtr(d) <= k
               PROVE  d3[k] = d[k]
    OBVIOUS
  <2>1. /\ k # 6 /\ k # 6 + 1
        /\ k < o \/ k >= o + 4
        /\ k < off \/ k >= off + Len(row)
    BY <1>1, <1>3
  <2> QED
    BY <1>5, <1>6, <1>8, <2>1
<1>12. Placed(d, slot, row) = d3
  BY <1>4 DEF Placed, HEADER_OFFSET_FREE_PTR, d1, d2
<1> QED
  BY <1>8, <1>9, <1>10, <1>11, <1>12 DEF FreePtr, HEADER_OFFSET_FREE_PTR, off, o

-----------------------------------------------------------------------------
(* What a well-formed page says of its slots, in numbers.                  *)
LEMMA WellFormedFacts ==
  ASSUME NEW d \in Data, WellFormedPage(d)
  PROVE  /\ NumSlots(d) \in Nat /\ FreePtr(d) \in Nat /\ PAGE_SIZE \in Nat
         /\ 16 + 4 * NumSlots(d) <= FreePtr(d) /\ FreePtr(d) <= PAGE_SIZE
         /\ FreePtr(d) < UINT16
         /\ FreeSpace(d) = FreePtr(d) - (16 + 4 * NumSlots(d))
         /\ \A slot \in Slots(d) :
               /\ slot \in Nat
               /\ SlotOffset(slot) = 16 + 4 * slot
               /\ SlotOffset(slot) + 4 <= 16 + 4 * NumSlots(d)
               /\ 20 + 4 * slot <= FreePtr(d)
               /\ RowOffset(d, slot) \in Nat /\ RowLen(d, slot) \in Nat
               /\ RowLen(d, slot) < UINT16
               /\ FreePtr(d) <= RowOffset(d, slot)
               /\ RowOffset(d, slot) + RowLen(d, slot) <= PAGE_SIZE
<1>1. NumSlots(d) \in Nat /\ FreePtr(d) \in Nat /\ FreePtr(d) < UINT16
  BY HeaderType DEF Word
<1>2. SlotOffset(NumSlots(d)) = 16 + 4 * NumSlots(d)
  BY <1>1, SlotOffsetType
<1>3. PAGE_SIZE \in Nat
  BY PageSizeAssumption
<1>4. 16 + 4 * NumSlots(d) <= FreePtr(d) /\ FreePtr(d) <= PAGE_SIZE
  BY <1>2 DEF WellFormedPage, DirectoryBelowRows
<1>5. FreeSpace(d) = FreePtr(d) - (16 + 4 * NumSlots(d))
  BY <1>2, FreeSpaceIs DEF WellFormedPage
<1>6. ASSUME NEW slot \in Slots(d)
      PROVE  /\ slot \in Nat
             /\ SlotOffset(slot) = 16 + 4 * slot
             /\ SlotOffset(slot) + 4 <= 16 + 4 * NumSlots(d)
             /\ 20 + 4 * slot <= FreePtr(d)
             /\ RowOffset(d, slot) \in Nat /\ RowLen(d, slot) \in Nat
             /\ RowLen(d, slot) < UINT16
             /\ FreePtr(d) <= RowOffset(d, slot)
             /\ RowOffset(d, slot) + RowLen(d, slot) <= PAGE_SIZE
  <2>1. slot \in Nat /\ slot < NumSlots(d)
    BY <1>1 DEF Slots
  <2>2. SlotOffset(slot) = 16 + 4 * slot
    BY <2>1, SlotOffsetType
  <2>3. SlotOffset(slot) + 4 <= 16 + 4 * NumSlots(d)
    BY <1>1, <2>1, <2>2
  <2>4. 20 + 4 * slot <= FreePtr(d)
    BY <1>1, <1>4, <2>1
  <2>5. RowOffset(d, slot) \in Word /\ RowLen(d, slot) \in Word
    BY <1>1, <1>3, <1>4, <2>1, <2>2, <2>3, SlotType
  <2>6. /\ FreePtr(d) <= RowOffset(d, slot)
        /\ RowOffset(d, slot) + RowLen(d, slot) <= PAGE_SIZE
    BY DEF WellFormedPage, DirectoryBelowRows
  <2> QED
    BY <2>1, <2>2, <2>3, <2>4, <2>5, <2>6 DEF Word
<1> QED
  BY <1>1, <1>3, <1>4, <1>5, <1>6

(* A slot entry is unchanged when its four bytes are.                      *)
LEMMA SlotUnchanged ==
  ASSUME NEW d \in Data, NEW e \in Data, NEW slot \in Nat,
         SlotOffset(slot) + 4 <= PAGE_SIZE,
         \A k \in 0..(PAGE_SIZE - 1) :
            SlotOffset(slot) <= k /\ k < SlotOffset(slot) + 4 => e[k] = d[k]
  PROVE  RowOffset(e, slot) = RowOffset(d, slot) /\ RowLen(e, slot) = RowLen(d, slot)
<1> DEFINE o == SlotOffset(slot)
<1>1. o \in Nat /\ PAGE_SIZE \in Nat
  BY SlotOffsetType, PageSizeAssumption
<1> HIDE DEF o
<1>2. \A k \in 0..(PAGE_SIZE - 1) : o <= k /\ k < o + 4 => e[k] = d[k]
  BY DEF o
<1>3. e[o] = d[o] /\ e[o + 1] = d[o + 1] /\ e[o + 2] = d[o + 2] /\ e[(o + 2) + 1] = d[(o + 2) + 1]
  <2>1. o + 4 <= PAGE_SIZE
    BY DEF o
  <2>2. /\ o \in 0..(PAGE_SIZE - 1) /\ o + 1 \in 0..(PAGE_SIZE - 1)
        /\ o + 2 \in 0..(PAGE_SIZE - 1) /\ (o + 2) + 1 \in 0..(PAGE_SIZE - 1)
    BY <1>1, <2>1
  <2> QED
    BY <1>1, <1>2, <2>2
<1> QED
  BY <1>3 DEF RowOffset, RowLen, Read16, o

(* A row is unchanged when its slot entry and its bytes are.               *)
LEMMA RowUnchanged ==
  ASSUME NEW d \in Data, NEW e \in Data, NEW slot \in Nat,
         RowOffset(d, slot) \in Nat, RowLen(d, slot) \in Nat,
         RowOffset(d, slot) + RowLen(d, slot) <= PAGE_SIZE,
         RowOffset(e, slot) = RowOffset(d, slot), RowLen(e, slot) = RowLen(d, slot),
         \A k \in 0..(PAGE_SIZE - 1) :
            /\ RowOffset(d, slot) <= k
            /\ k < RowOffset(d, slot) + RowLen(d, slot)
            => e[k] = d[k]
  PROVE  RowAt(e, slot) = RowAt(d, slot)
<1>1. \A k \in 1..RowLen(d, slot) :
         e[RowOffset(d, slot) + k - 1] = d[RowOffset(d, slot) + k - 1]
  BY PageSizeAssumption
<1> QED
  BY <1>1 DEF RowAt

-----------------------------------------------------------------------------
(* A page stays well formed when one slot, old or new, is pointed at the   *)
(* bytes just under the free pointer, and the free pointer follows.        *)
LEMMA RedirectedWellFormed ==
  ASSUME NEW d \in Data, WellFormedPage(d), NEW e \in Data, NEW slot \in Nat,
         NEW len \in Nat, len <= FreePtr(d),
         Slots(e) \subseteq Slots(d) \cup {slot},
         SlotOffset(NumSlots(e)) <= FreePtr(d) - len,
         FreePtr(e) = FreePtr(d) - len,
         RowOffset(e, slot) = FreePtr(d) - len, RowLen(e, slot) = len,
         \A s \in Slots(d) \ {slot} : /\ RowOffset(e, s) = RowOffset(d, s)
                                      /\ RowLen(e, s) = RowLen(d, s)
  PROVE  WellFormedPage(e)
<1> DEFINE fp == FreePtr(d)
<1>1. /\ fp \in Nat /\ fp <= PAGE_SIZE /\ PAGE_SIZE \in Nat
      /\ \A s \in Slots(d) : /\ RowOffset(d, s) \in Nat /\ RowLen(d, s) \in Nat
                             /\ fp <= RowOffset(d, s)
                             /\ RowOffset(d, s) + RowLen(d, s) <= PAGE_SIZE
  BY WellFormedFacts
<1>2. DirectoryBelowRows(e)
  <2>1. SlotOffset(NumSlots(e)) <= FreePtr(e) /\ FreePtr(e) <= PAGE_SIZE
    BY <1>1
  <2>2. ASSUME NEW s \in Slots(e)
        PROVE  FreePtr(e) <= RowOffset(e, s) /\ RowOffset(e, s) + RowLen(e, s) <= PAGE_SIZE
    <3>1. CASE s = slot
      BY <1>1, <3>1
    <3>2. CASE s # slot
      BY <1>1, <3>2
    <3> QED
      BY <3>1, <3>2
  <2> QED
    BY <2>1, <2>2 DEF DirectoryBelowRows
<1>3. ASSUME NEW s \in Slots(e), NEW t \in Slots(e), s # t
      PROVE  \/ RowLen(e, s) = 0
             \/ RowLen(e, t) = 0
             \/ RowOffset(e, s) + RowLen(e, s) <= RowOffset(e, t)
             \/ RowOffset(e, t) + RowLen(e, t) <= RowOffset(e, s)
  <2>1. CASE s = slot
    BY <1>1, <1>3, <2>1
  <2>2. CASE t = slot
    BY <1>1, <1>3, <2>2
  <2>3. CASE s # slot /\ t # slot
    <3>1. s \in Slots(d) \ {slot} /\ t \in Slots(d) \ {slot}
      BY <2>3
    <3>2. \/ RowLen(d, s) = 0
          \/ RowLen(d, t) = 0
          \/ RowOffset(d, s) + RowLen(d, s) <= RowOffset(d, t)
          \/ RowOffset(d, t) + RowLen(d, t) <= RowOffset(d, s)
      BY <1>3, <3>1 DEF WellFormedPage, RowsDisjoint
    <3> QED
      BY <3>1, <3>2
  <2> QED
    BY <2>1, <2>2, <2>3
<1> QED
  BY <1>2, <1>3 DEF WellFormedPage, RowsDisjoint

(* A page stays well formed when one row of it gets shorter where it is.   *)
LEMMA ShortenedWellFormed ==
  ASSUME NEW d \in Data, WellFormedPage(d), NEW e \in Data, NEW slot \in Slots(d),
         NumSlots(e) = NumSlots(d), FreePtr(e) = FreePtr(d),
         RowOffset(e, slot) = RowOffset(d, slot),
         RowLen(e, slot) \in Nat, RowLen(e, slot) <= RowLen(d, slot),
         \A s \in Slots(d) \ {slot} : /\ RowOffset(e, s) = RowOffset(d, s)
                                      /\ RowLen(e, s) = RowLen(d, s)
  PROVE  WellFormedPage(e)
<1>1. /\ PAGE_SIZE \in Nat
      /\ \A s \in Slots(d) : RowOffset(d, s) \in Nat /\ RowLen(d, s) \in Nat
  BY WellFormedFacts
<1>2. Slots(e) = Slots(d)
  BY DEF Slots
<1>3. \A s \in Slots(d) : /\ RowOffset(e, s) = RowOffset(d, s)
                          /\ RowLen(e, s) \in Nat /\ RowLen(e, s) <= RowLen(d, s)
  BY <1>1
<1>4. DirectoryBelowRows(d) /\ RowsDisjoint(d)
  BY DEF WellFormedPage
<1>5. DirectoryBelowRows(e)
  <2>1. \A s \in Slots(d) : RowOffset(e, s) + RowLen(e, s) <= PAGE_SIZE
    BY <1>1, <1>3, <1>4 DEF DirectoryBelowRows
  <2> QED
    BY <1>2, <1>3, <1>4, <2>1 DEF DirectoryBelowRows
<1>6. ASSUME NEW s \in Slots(d), NEW t \in Slots(d), s # t
      PROVE  \/ RowLen(e, s) = 0
             \/ RowLen(e, t) = 0
             \/ RowOffset(e, s) + RowLen(e, s) <= RowOffset(e, t)
             \/ RowOffset(e, t) + RowLen(e, t) <= RowOffset(e, s)
  BY <1>1, <1>3, <1>4, <1>6 DEF RowsDisjoint
<1> QED
  BY <1>2, <1>5, <1>6 DEF WellFormedPage, RowsDisjoint

-----------------------------------------------------------------------------
(* A row placed in slot, an old one or the next: the slot holds the row,   *)
(* the others hold what they held, and the header's slot count is as it    *)
(* was.  insertRow counts the slot afterwards.                             *)
LEMMA PlacedRow ==
  ASSUME NEW d \in Data, WellFormedPage(d), NEW slot \in 0..NumSlots(d),
         NEW row \in Seq(Byte), Len(row) \in Word,
         16 + 4 * NumSlots(d) + Len(row) <= FreePtr(d),
         20 + 4 * slot + Len(row) <= FreePtr(d)
  PROVE  LET e == Placed(d, slot, row)
         IN  /\ e \in Data
             /\ NumSlots(e) = NumSlots(d)
             /\ FreePtr(e) = FreePtr(d) - Len(row)
             /\ RowOffset(e, slot) = FreePtr(d) - Len(row)
             /\ RowLen(e, slot) = Len(row)
             /\ RowAt(e, slot) = row
             /\ \A s \in Slots(d) \ {slot} :
                   /\ RowOffset(e, s) = RowOffset(d, s)
                   /\ RowLen(e, s) = RowLen(d, s)
                   /\ RowAt(e, s) = RowAt(d, s)
<1> DEFINE e == Placed(d, slot, row)
           n == NumSlots(d)
           fp == FreePtr(d)
           len == Len(row)
           off == fp - len
           o == SlotOffset(slot)
<1>1. /\ n \in Nat /\ fp \in Nat /\ PAGE_SIZE \in Nat /\ slot \in Nat /\ len \in Nat
      /\ 16 + 4 * n <= fp /\ fp <= PAGE_SIZE
      /\ o = 16 + 4 * slot /\ o \in Nat
  BY WellFormedFacts, SlotOffsetType DEF Word
<1>2. o + 4 + len <= fp /\ 16 + 4 * n <= off /\ o + 4 <= off /\ off <= fp /\ off \in Nat
  <2>1. 16 + 4 * n + len <= fp /\ 20 + 4 * slot + len <= fp
    OBVIOUS
  <2> HIDE DEF n, fp, len, o
  <2> QED
    BY <1>1, <2>1
<1>3. /\ e \in Data
      /\ FreePtr(e) = off
      /\ RowOffset(e, slot) = off
      /\ RowLen(e, slot) = len
      /\ \A k \in 1..len : e[off + k - 1] = row[k]
      /\ \A k \in 0..(PAGE_SIZE - 1) :
            \/ k < 6
            \/ 8 <= k /\ k < o
            \/ o + 4 <= k /\ k < off
            \/ fp <= k
            => e[k] = d[k]
  BY <1>1, <1>2, PlacedFacts
<1> HIDE DEF e
<1>4. NumSlots(e) = n
  <2>1. 4 \in 0..(PAGE_SIZE - 1) /\ 4 + 1 \in 0..(PAGE_SIZE - 1)
    BY <1>1
  <2>2. e[4] = d[4] /\ e[4 + 1] = d[4 + 1]
    BY <1>3, <2>1
  <2> QED
    BY <2>2 DEF NumSlots, Read16, HEADER_OFFSET_NUM_SLOTS
<1>5. RowAt(e, slot) = row
  <2>1. RowAt(e, slot) = [k \in 1..len |-> row[k]]
    BY <1>3 DEF RowAt
  <2> QED
    BY <2>1
<1>6. ASSUME NEW s \in Slots(d) \ {slot}
      PROVE  /\ RowOffset(e, s) = RowOffset(d, s)
             /\ RowLen(e, s) = RowLen(d, s)
             /\ RowAt(e, s) = RowAt(d, s)
  <2>1. /\ s \in Nat /\ s < n /\ s # slot
        /\ SlotOffset(s) = 16 + 4 * s
        /\ RowOffset(d, s) \in Nat /\ RowLen(d, s) \in Nat
        /\ fp <= RowOffset(d, s)
        /\ RowOffset(d, s) + RowLen(d, s) <= PAGE_SIZE
    <3>1. s \in Slots(d) /\ s < n
      BY <1>1 DEF Slots
    <3> QED
      BY <3>1, WellFormedFacts
  <2> HIDE DEF n, fp, len, off, o
  <2>2. ASSUME NEW k \in 0..(PAGE_SIZE - 1),
               SlotOffset(s) <= k, k < SlotOffset(s) + 4
        PROVE  e[k] = d[k]
    <3>1. k \in Nat /\ 16 + 4 * s <= k /\ k < 20 + 4 * s /\ k < off
      BY <1>1, <1>2, <2>1, <2>2
    <3>2. CASE s < slot
      <4>1. 8 <= k /\ k < o
        BY <1>1, <2>1, <3>1, <3>2
      <4> QED
        BY <1>3, <4>1
    <3>3. CASE slot < s
      <4>1. o + 4 <= k /\ k < off
        BY <1>1, <2>1, <3>1, <3>3
      <4> QED
        BY <1>3, <4>1
    <3> QED
      BY <1>1, <2>1, <3>2, <3>3
  <2>3. SlotOffset(s) + 4 <= PAGE_SIZE
    BY <1>1, <1>2, <2>1
  <2>4. RowOffset(e, s) = RowOffset(d, s) /\ RowLen(e, s) = RowLen(d, s)
    BY <1>3, <2>1, <2>2, <2>3, SlotUnchanged
  <2>5. ASSUME NEW k \in 0..(PAGE_SIZE - 1),
               RowOffset(d, s) <= k, k < RowOffset(d, s) + RowLen(d, s)
        PROVE  e[k] = d[k]
    <3>1. fp <= k
      BY <1>1, <2>1, <2>5
    <3> QED
      BY <1>3, <3>1
  <2>6. RowAt(e, s) = RowAt(d, s)
    BY <1>3, <2>1, <2>4, <2>5, RowUnchanged
  <2> QED
    BY <2>4, <2>6
<1> QED
  BY <1>3, <1>4, <1>5, <1>6 DEF e

(* insertRow that does not return early.                                   *)
LEMMA InsertedRowFacts ==
  ASSUME NEW d \in Data, WellFormedPage(d), NEW row \in Seq(Byte), Len(row) \in Word,
         InsertError(d, row) = "None"
  PROVE  LET e == InsertedRow(d, row)
         IN  /\ e \in Data
             /\ WellFormedPage(e)
             /\ NumSlots(e) = NumSlots(d) + 1
             /\ FreeSpace(e) = FreeSpace(d) - (Len(row) + 4)
             /\ RowAt(e, NumSlots(d)) = row
             /\ \A s \in Slots(d) : /\ RowAt(e, s) = RowAt(d, s)
                                    /\ RowLen(e, s) = RowLen(d, s)
<1> DEFINE n == NumSlots(d)
           fp == FreePtr(d)
           len == Len(row)
           p == Placed(d, n, row)
           e == Write16(p, 4, n + 1)
<1>1. /\ n \in Nat /\ fp \in Nat /\ PAGE_SIZE \in Nat /\ len \in Nat
      /\ 16 + 4 * n <= fp /\ fp <= PAGE_SIZE /\ PAGE_SIZE < UINT16
      /\ FreeSpace(d) = fp - (16 + 4 * n)
      /\ \A s \in Slots(d) : /\ s \in Nat
                             /\ SlotOffset(s) = 16 + 4 * s
                             /\ SlotOffset(s) + 4 <= 16 + 4 * n
  BY WellFormedFacts, PageSizeAssumption DEF Word
<1>2. 20 + 4 * n + len <= fp
  <2>1. ~ (FreeSpace(d) < len + 4)
    BY DEF InsertError, SLOT_ENTRY_SIZE
  <2> QED
    BY <1>1, <2>1
<1>3. /\ p \in Data
      /\ NumSlots(p) = n
      /\ FreePtr(p) = fp - len
      /\ RowOffset(p, n) = fp - len
      /\ RowLen(p, n) = len
      /\ RowAt(p, n) = row
      /\ \A s \in Slots(d) \ {n} : /\ RowOffset(p, s) = RowOffset(d, s)
                                   /\ RowLen(p, s) = RowLen(d, s)
                                   /\ RowAt(p, s) = RowAt(d, s)
  <2>1. n \in 0..n /\ 16 + 4 * n + len <= fp
    <3> HIDE DEF n, fp, len
    <3> QED
      BY <1>1, <1>2
  <2> QED
    BY <1>2, <2>1, PlacedRow
<1> HIDE DEF p
<1>4. n + 1 \in Word /\ 4 + 1 < PAGE_SIZE
  BY <1>1, <1>2 DEF Word, UINT16
<1>5. /\ e \in Data
      /\ NumSlots(e) = n + 1
      /\ \A k \in 0..(PAGE_SIZE - 1) : k # 4 /\ k # 4 + 1 => e[k] = p[k]
  <2>1. /\ Write16(p, 4, n + 1) \in Data
        /\ Read16(Write16(p, 4, n + 1), 4) = n + 1
        /\ \A k \in 0..(PAGE_SIZE - 1) :
              k # 4 /\ k # 4 + 1 => Write16(p, 4, n + 1)[k] = p[k]
    <3> HIDE DEF n, e
    <3>1. p \in Data /\ 4 \in Nat
      BY <1>3
    <3> QED
      BY <1>4, <3>1, Write16Facts
  <2> QED
    BY <2>1 DEF NumSlots, HEADER_OFFSET_NUM_SLOTS
<1>6. FreePtr(e) = fp - len
  <2>1. Read16(Write16(p, 4, n + 1), 6) = Read16(p, 6)
    <3> HIDE DEF n
    <3>1. p \in Data /\ 4 \in Nat /\ 6 \in Nat /\ 6 + 1 < PAGE_SIZE /\ 4 + 1 < 6
      BY <1>1, <1>2, <1>3 DEF n
    <3> QED
      BY <1>4, <3>1, Write16Elsewhere
  <2> QED
    BY <1>3, <2>1 DEF FreePtr, HEADER_OFFSET_FREE_PTR
<1> HIDE DEF e
<1>7. Slots(e) = Slots(d) \cup {n} /\ n \notin Slots(d)
  BY <1>1, <1>5 DEF Slots
<1>8. ASSUME NEW s \in Slots(d) \cup {n}
      PROVE  RowOffset(e, s) = RowOffset(p, s) /\ RowLen(e, s) = RowLen(p, s)
  <2>1. s \in Nat /\ SlotOffset(s) \in Nat /\ SlotOffset(s) >= 16 /\ SlotOffset(s) + 4 <= PAGE_SIZE
    <3>1. CASE s = n
      <4>1. SlotOffset(n) = 16 + 4 * n /\ 20 + 4 * n <= PAGE_SIZE
        <5>1. n \in Nat /\ fp \in Nat /\ len \in Nat /\ PAGE_SIZE \in Nat /\ fp <= PAGE_SIZE
          BY <1>1
        <5> HIDE DEF n, fp, len
        <5> QED
          BY <1>2, <5>1, SlotOffsetType
      <4> QED
        BY <1>1, <3>1, <4>1
    <3>2. CASE s # n
      BY <1>1, <3>2
    <3> QED
      BY <3>1, <3>2
  <2>2. \A k \in 0..(PAGE_SIZE - 1) :
           SlotOffset(s) <= k /\ k < SlotOffset(s) + 4 => e[k] = p[k]
    BY <1>5, <2>1
  <2> QED
    BY <1>3, <1>5, <2>1, <2>2, SlotUnchanged
<1>9. ASSUME NEW s \in Slots(d) \cup {n}
      PROVE  RowAt(e, s) = RowAt(p, s)
  <2>1. /\ s \in Nat
        /\ RowOffset(p, s) \in Nat /\ RowLen(p, s) \in Nat
        /\ 16 <= RowOffset(p, s)
        /\ RowOffset(p, s) + RowLen(p, s) <= PAGE_SIZE
    <3>0. /\ n \in Nat /\ fp \in Nat /\ len \in Nat /\ PAGE_SIZE \in Nat
          /\ 16 + 4 * n <= fp /\ fp <= PAGE_SIZE
      BY <1>1
    <3>1. CASE s = n
      <4>1. /\ RowOffset(p, s) = fp - len /\ RowLen(p, s) = len
        BY <1>3, <3>1
      <4> HIDE DEF n, fp, len
      <4> QED
        BY <1>2, <3>0, <3>1, <4>1
    <3>2. CASE s # n
      <4>1. /\ s \in Nat
            /\ RowOffset(d, s) \in Nat /\ RowLen(d, s) \in Nat
            /\ fp <= RowOffset(d, s)
            /\ RowOffset(d, s) + RowLen(d, s) <= PAGE_SIZE
        BY <3>2, WellFormedFacts
      <4>2. RowOffset(p, s) = RowOffset(d, s) /\ RowLen(p, s) = RowLen(d, s)
        BY <1>3, <3>2
      <4> HIDE DEF n, fp, len
      <4> QED
        BY <3>0, <4>1, <4>2
    <3> QED
      BY <3>1, <3>2
  <2>2. \A k \in 0..(PAGE_SIZE - 1) :
           /\ RowOffset(p, s) <= k
           /\ k < RowOffset(p, s) + RowLen(p, s)
           => e[k] = p[k]
    BY <1>5, <2>1
  <2> QED
    BY <1>3, <1>5, <1>8, <2>1, <2>2, RowUnchanged
<1>10. SlotOffset(NumSlots(e)) = 20 + 4 * n
  BY <1>1, <1>5, SlotOffsetType
<1>11. WellFormedPage(e)
  <2>1. len <= fp /\ SlotOffset(NumSlots(e)) <= fp - len
    BY <1>1, <1>2, <1>10
  <2>2. RowOffset(e, n) = fp - len /\ RowLen(e, n) = len
    BY <1>3, <1>8
  <2>3. \A s \in Slots(d) \ {n} : /\ RowOffset(e, s) = RowOffset(d, s)
                                  /\ RowLen(e, s) = RowLen(d, s)
    BY <1>3, <1>8
  <2>4. Slots(e) \subseteq Slots(d) \cup {n}
    BY <1>7
  <2> HIDE DEF n, fp, len
  <2>5. n \in Nat /\ len \in Nat
    BY <1>1
  <2> QED
    BY <1>5, <1>6, <2>1, <2>2, <2>3, <2>4, <2>5, RedirectedWellFormed DEF fp
<1>12. FreeSpace(e) = FreeSpace(d) - (len + 4)
  <2>1. FreeSpace(e) = FreePtr(e) - SlotOffset(NumSlots(e))
    BY <1>5, <1>11, FreeSpaceIs DEF WellFormedPage
  <2>2. n \in Nat /\ fp \in Nat /\ len \in Nat /\ FreeSpace(d) = fp - (16 + 4 * n)
    BY <1>1
  <2> HIDE DEF n, fp, len
  <2> QED
    BY <1>6, <1>10, <2>1, <2>2
<1>13. InsertedRow(d, row) = e
  BY DEF InsertedRow, HEADER_OFFSET_NUM_SLOTS, e, p
<1> QED
  BY <1>3, <1>5, <1>7, <1>8, <1>9, <1>11, <1>12, <1>13

(* updateRow of a row that does not grow, which deleteRow is the empty     *)
(* case of.                                                                *)
LEMMA OverwrittenFacts ==
  ASSUME NEW d \in Data, WellFormedPage(d), NEW slot \in Slots(d),
         NEW row \in Seq(Byte), Len(row) <= RowLen(d, slot)
  PROVE  LET e == Overwritten(d, slot, row)
         IN  /\ e \in Data
             /\ WellFormedPage(e)
             /\ NumSlots(e) = NumSlots(d)
             /\ FreeSpace(e) = FreeSpace(d)
             /\ RowAt(e, slot) = row
             /\ \A s \in Slots(d) \ {slot} : /\ RowAt(e, s) = RowAt(d, s)
                                             /\ RowLen(e, s) = RowLen(d, s)
<1> DEFINE n == NumSlots(d)
           fp == FreePtr(d)
           len == Len(row)
           o == SlotOffset(slot)
           ro == RowOffset(d, slot)
           d1 == MemCpy(d, ro, row)
           e == Write16(d1, o + 2, len)
<1>1. /\ n \in Nat /\ fp \in Nat /\ PAGE_SIZE \in Nat
      /\ 16 + 4 * n <= fp /\ fp <= PAGE_SIZE
  BY WellFormedFacts
<1>2. ASSUME NEW s \in Slots(d)
      PROVE  /\ s \in Nat
             /\ SlotOffset(s) = 16 + 4 * s
             /\ 20 + 4 * s <= fp
             /\ RowOffset(d, s) \in Nat /\ RowLen(d, s) \in Nat
             /\ RowLen(d, s) < UINT16
             /\ fp <= RowOffset(d, s)
             /\ RowOffset(d, s) + RowLen(d, s) <= PAGE_SIZE
  BY WellFormedFacts
<1>3. /\ ro \in Nat /\ fp <= ro /\ ro + len <= PAGE_SIZE
      /\ o \in Nat /\ 16 <= o /\ o + 4 <= fp
      /\ o + 2 \in Nat /\ (o + 2) + 1 < PAGE_SIZE /\ o + 1 < PAGE_SIZE
      /\ len \in Nat /\ len \in Word
  <2> DEFINE rl == RowLen(d, slot)
  <2>1. /\ slot \in Nat /\ o = 16 + 4 * slot /\ 20 + 4 * slot <= fp
        /\ ro \in Nat /\ rl \in Nat /\ rl < UINT16
        /\ fp <= ro /\ ro + rl <= PAGE_SIZE
        /\ len \in Nat /\ len <= rl
    BY <1>2
  <2> HIDE DEF n, fp, len, o, ro, rl
  <2> QED
    BY <1>1, <2>1 DEF Word, UINT16
<1> HIDE DEF n, fp, len, o, ro
<1>4. /\ d1 \in Data
      /\ \A k \in 1..len : d1[ro + k - 1] = row[k]
      /\ \A k \in 0..(PAGE_SIZE - 1) : k < ro \/ k >= ro + len => d1[k] = d[k]
  BY <1>3, MemCpyFacts DEF len
<1> HIDE DEF d1
<1>5. /\ e \in Data
      /\ Read16(e, o + 2) = len
      /\ \A k \in 0..(PAGE_SIZE - 1) : k # o + 2 /\ k # (o + 2) + 1 => e[k] = d1[k]
  BY <1>3, <1>4, Write16Facts
<1> HIDE DEF e
<1>6. \A k \in 0..(PAGE_SIZE - 1) : k < o + 2 \/ (o + 4 <= k /\ k < fp) => e[k] = d[k]
  BY <1>1, <1>3, <1>4, <1>5
<1>7. NumSlots(e) = n /\ FreePtr(e) = fp /\ RowOffset(e, slot) = ro
  <2>1. /\ 4 \in 0..(PAGE_SIZE - 1) /\ 4 + 1 \in 0..(PAGE_SIZE - 1)
        /\ 6 \in 0..(PAGE_SIZE - 1) /\ 6 + 1 \in 0..(PAGE_SIZE - 1)
        /\ o \in 0..(PAGE_SIZE - 1) /\ o + 1 \in 0..(PAGE_SIZE - 1)
    BY <1>1, <1>3
  <2>2. /\ e[4] = d[4] /\ e[4 + 1] = d[4 + 1]
        /\ e[6] = d[6] /\ e[6 + 1] = d[6 + 1]
        /\ e[o] = d[o] /\ e[o + 1] = d[o + 1]
    BY <1>3, <1>6, <2>1
  <2> QED
    BY <2>2 DEF NumSlots, FreePtr, RowOffset, Read16, HEADER_OFFSET_NUM_SLOTS,
                HEADER_OFFSET_FREE_PTR, n, fp, o, ro
<1>8. RowLen(e, slot) = len
  BY <1>5 DEF RowLen, o
<1>9. RowAt(e, slot) = row
  <2>1. ASSUME NEW k \in 1..len
        PROVE  e[ro + k - 1] = row[k]
    <3>1. /\ ro + k - 1 \in 0..(PAGE_SIZE - 1)
          /\ ro + k - 1 # o + 2 /\ ro + k - 1 # (o + 2) + 1
      BY <1>1, <1>3
    <3> QED
      BY <1>4, <1>5, <3>1
  <2>2. RowAt(e, slot) = [k \in 1..len |-> row[k]]
    BY <1>7, <1>8, <2>1 DEF RowAt
  <2> QED
    BY <2>2 DEF len
<1>10. ASSUME NEW s \in Slots(d) \ {slot}
       PROVE  /\ RowOffset(e, s) = RowOffset(d, s)
              /\ RowLen(e, s) = RowLen(d, s)
              /\ RowAt(e, s) = RowAt(d, s)
  <2>1. /\ s \in Nat /\ s # slot /\ slot \in Nat
        /\ SlotOffset(s) = 16 + 4 * s /\ o = 16 + 4 * slot
        /\ 20 + 4 * s <= fp /\ SlotOffset(s) + 4 <= PAGE_SIZE
        /\ RowOffset(d, s) \in Nat /\ RowLen(d, s) \in Nat /\ RowLen(d, slot) \in Nat
        /\ fp <= RowOffset(d, s)
        /\ RowOffset(d, s) + RowLen(d, s) <= PAGE_SIZE
    <3>1. /\ slot \in Nat /\ o = 16 + 4 * slot /\ RowLen(d, slot) \in Nat
      BY <1>2 DEF o
    <3>2. /\ s \in Nat /\ s # slot
          /\ SlotOffset(s) = 16 + 4 * s /\ 20 + 4 * s <= fp
          /\ RowOffset(d, s) \in Nat /\ RowLen(d, s) \in Nat
          /\ fp <= RowOffset(d, s)
          /\ RowOffset(d, s) + RowLen(d, s) <= PAGE_SIZE
      BY <1>2
    <3>3. SlotOffset(s) + 4 <= PAGE_SIZE
      BY <1>1, <3>2
    <3> QED
      BY <3>1, <3>2, <3>3
  <2>2. ASSUME NEW k \in 0..(PAGE_SIZE - 1),
               SlotOffset(s) <= k, k < SlotOffset(s) + 4
        PROVE  e[k] = d[k]
    <3>1. k \in Nat /\ 16 + 4 * s <= k /\ k < 20 + 4 * s /\ k < fp
      BY <1>1, <2>1, <2>2
    <3>2. CASE s < slot
      BY <1>6, <2>1, <3>1, <3>2
    <3>3. CASE slot < s
      BY <1>6, <2>1, <3>1, <3>3
    <3> QED
      BY <2>1, <3>2, <3>3
  <2>3. RowOffset(e, s) = RowOffset(d, s) /\ RowLen(e, s) = RowLen(d, s)
    BY <1>5, <2>1, <2>2, SlotUnchanged
  <2>4. \/ RowLen(d, s) = 0
        \/ RowLen(d, slot) = 0
        \/ RowOffset(d, s) + RowLen(d, s) <= ro
        \/ ro + RowLen(d, slot) <= RowOffset(d, s)
    BY DEF WellFormedPage, RowsDisjoint, ro
  <2>5. ASSUME NEW k \in 0..(PAGE_SIZE - 1),
               RowOffset(d, s) <= k, k < RowOffset(d, s) + RowLen(d, s)
        PROVE  e[k] = d[k]
    <3>1. k < ro \/ k >= ro + len
      <4>1. len <= RowLen(d, slot)
        BY DEF len
      <4> DEFINE rs == RowOffset(d, s)
                 ls == RowLen(d, s)
                 rl == RowLen(d, slot)
      <4>2. /\ rs \in Nat /\ ls \in Nat /\ rl \in Nat /\ len <= rl /\ k \in Nat
            /\ ls = 0 \/ rl = 0 \/ rs + ls <= ro \/ ro + rl <= rs
            /\ rs <= k /\ k < rs + ls
        BY <1>1, <2>1, <2>4, <2>5, <4>1
      <4> HIDE DEF rs, ls, rl
      <4> QED
        BY <1>3, <4>2
    <3>2. k # o + 2 /\ k # (o + 2) + 1
      BY <1>1, <1>3, <2>1, <2>5
    <3> QED
      BY <1>4, <1>5, <3>1, <3>2
  <2>6. RowAt(e, s) = RowAt(d, s)
    BY <1>5, <2>1, <2>3, <2>5, RowUnchanged
  <2> QED
    BY <2>3, <2>6
<1>11. WellFormedPage(e)
  BY <1>3, <1>5, <1>7, <1>8, <1>10, ShortenedWellFormed DEF n, fp, len, ro
<1>12. FreeSpace(e) = FreeSpace(d)
  BY <1>7 DEF FreeSpace, n, fp
<1>13. Overwritten(d, slot, row) = e
  BY DEF Overwritten, d1, e, o, ro, len
<1> QED
  BY <1>5, <1>7, <1>9, <1>10, <1>11, <1>12, <1>13 DEF n

(* updateRow of a row that grows: it moves under the free pointer.         *)
LEMMA MovedRowFacts ==
  ASSUME NEW d \in Data, WellFormedPage(d), NEW slot \in Slots(d),
         NEW row \in Seq(Byte), Len(row) \in Word, Len(row) <= FreeSpace(d)
  PROVE  LET e == Placed(d, slot, row)
         IN  /\ e \in Data
             /\ WellFormedPage(e)
             /\ NumSlots(e) = NumSlots(d)
             /\ FreeSpace(e) = FreeSpace(d) - Len(row)
             /\ RowAt(e, slot) = row
             /\ \A s \in Slots(d) \ {slot} : /\ RowAt(e, s) = RowAt(d, s)
                                             /\ RowLen(e, s) = RowLen(d, s)
<1> DEFINE n == NumSlots(d)
           fp == FreePtr(d)
           len == Len(row)
           e == Placed(d, slot, row)
<1>1. /\ n \in Nat /\ fp \in Nat /\ len \in Nat
      /\ FreeSpace(d) = fp - (16 + 4 * n)
  BY WellFormedFacts DEF Word
<1>2. slot \in Nat /\ slot < n /\ slot \in 0..n
  BY <1>1 DEF Slots
<1>3. 16 + 4 * n + len <= fp /\ 20 + 4 * slot + len <= fp /\ len <= fp
  <2>1. len <= fp - (16 + 4 * n)
    BY <1>1
  <2> HIDE DEF n, fp, len
  <2> QED
    BY <1>1, <1>2, <2>1
<1>4. /\ e \in Data
      /\ NumSlots(e) = n
      /\ FreePtr(e) = fp - len
      /\ RowOffset(e, slot) = fp - len
      /\ RowLen(e, slot) = len
      /\ RowAt(e, slot) = row
      /\ \A s \in Slots(d) \ {slot} : /\ RowOffset(e, s) = RowOffset(d, s)
                                      /\ RowLen(e, s) = RowLen(d, s)
                                      /\ RowAt(e, s) = RowAt(d, s)
  BY <1>2, <1>3, PlacedRow
<1> HIDE DEF e
<1>5. SlotOffset(NumSlots(e)) = 16 + 4 * n
  BY <1>1, <1>4, SlotOffsetType
<1>6. Slots(e) \subseteq Slots(d) \cup {slot}
  BY <1>4 DEF Slots
<1>7. SlotOffset(NumSlots(e)) <= fp - len
  <2> HIDE DEF n, fp, len
  <2> QED
    BY <1>1, <1>3, <1>5
<1>8. WellFormedPage(e)
  BY <1>1, <1>2, <1>3, <1>4, <1>6, <1>7, RedirectedWellFormed
<1>9. FreeSpace(e) = FreeSpace(d) - len
  <2>1. FreeSpace(e) = FreePtr(e) - SlotOffset(NumSlots(e))
    BY <1>4, <1>8, FreeSpaceIs DEF WellFormedPage
  <2> HIDE DEF n, fp, len
  <2> QED
    BY <1>1, <1>4, <1>5, <2>1
<1> QED
  BY <1>4, <1>8, <1>9 DEF e

LEMMA DeletedRowIs ==
  ASSUME NEW d \in Data, WellFormedPage(d), NEW slot \in Slots(d)
  PROVE  DeletedRow(d, slot) = Overwritten(d, slot, << >>)
<1>1. RowOffset(d, slot) \in Nat /\ PAGE_SIZE \in Nat
  BY WellFormedFacts
<1>2. Len(<< >>) = 0
  OBVIOUS
<1>3. ASSUME NEW o \in Nat
      PROVE  MemCpy(d, o, << >>) = d
  <2>1. \A k \in DOMAIN d : k \notin o..(o + 0 - 1)
    BY <1>1 DEF Data
  <2> QED
    BY <1>2, <2>1 DEF MemCpy, Data
<1> QED
  BY <1>1, <1>2, <1>3 DEF DeletedRow, Overwritten

(* What readRow returns is a row of bytes.                                 *)
LEMMA RowAtType ==
  ASSUME NEW d \in Data, WellFormedPage(d), NEW slot \in Slots(d)
  PROVE  RowAt(d, slot) \in Seq(Byte) /\ Len(RowAt(d, slot)) = RowLen(d, slot)
<1> DEFINE ro == RowOffset(d, slot)
           rl == RowLen(d, slot)
<1>1. /\ ro \in Nat /\ rl \in Nat /\ PAGE_SIZE \in Nat
      /\ ro + rl <= PAGE_SIZE
  BY WellFormedFacts
<1> HIDE DEF ro, rl
<1>2. \A k \in 1..rl : d[ro + k - 1] \in Byte
  BY <1>1 DEF Data
<1>3. [k \in 1..rl |-> d[ro + k - 1]] \in Seq(Byte) /\ Len([k \in 1..rl |-> d[ro + k - 1]]) = rl
  BY <1>1, <1>2
<1> QED
  BY <1>3 DEF RowAt, ro, rl

(* deleteRow that does not return early.                                   *)
LEMMA DeletedRowFacts ==
  ASSUME NEW d \in Data, WellFormedPage(d), NEW slot \in Slots(d)
  PROVE  LET e == DeletedRow(d, slot)
         IN  /\ e \in Data
             /\ WellFormedPage(e)
             /\ NumSlots(e) = NumSlots(d)
             /\ FreeSpace(e) = FreeSpace(d)
             /\ RowAt(e, slot) = << >>
             /\ RowLen(e, slot) = 0
             /\ \A s \in Slots(d) \ {slot} : /\ RowAt(e, s) = RowAt(d, s)
                                             /\ RowLen(e, s) = RowLen(d, s)
<1> DEFINE e == DeletedRow(d, slot)
           none == << >>
<1>1. none \in Seq(Byte) /\ Len(none) = 0
  BY EmptySeq
<1>2. RowLen(d, slot) \in Nat
  BY WellFormedFacts
<1>3. e = Overwritten(d, slot, none)
  BY DeletedRowIs
<1> HIDE DEF e, none
<1>4. Len(none) <= RowLen(d, slot)
  BY <1>1, <1>2
<1>5. /\ e \in Data
      /\ WellFormedPage(e)
      /\ NumSlots(e) = NumSlots(d)
      /\ FreeSpace(e) = FreeSpace(d)
      /\ RowAt(e, slot) = none
      /\ \A s \in Slots(d) \ {slot} : /\ RowAt(e, s) = RowAt(d, s)
                                      /\ RowLen(e, s) = RowLen(d, s)
  BY <1>1, <1>3, <1>4, OverwrittenFacts
<1>6. RowLen(e, slot) = 0
  BY <1>1, <1>5, RowAtType DEF Slots
<1> QED
  BY <1>5, <1>6 DEF e, none

-----------------------------------------------------------------------------
(* The view of a well-formed page is a sequence of rows with its length.   *)
LEMMA ViewFacts ==
  ASSUME NEW d \in Data, WellFormedPage(d)
  PROVE  /\ PageView(d).rows \in Seq(Seq(Byte))
         /\ Len(PageView(d).rows) = NumSlots(d)
         /\ PageView(d).free = FreeSpace(d)
         /\ \A i \in 1..NumSlots(d) : PageView(d).rows[i] = RowAt(d, i - 1)
         /\ \A s \in Slots(d) : s + 1 \in 1..NumSlots(d) /\ PageView(d).rows[s + 1] = RowAt(d, s)
<1>1. NumSlots(d) \in Nat
  BY WellFormedFacts
<1>2. \A i \in 1..NumSlots(d) : i - 1 \in Slots(d) /\ RowAt(d, i - 1) \in Seq(Byte)
  <2> TAKE i \in 1..NumSlots(d)
  <2>1. i - 1 \in Slots(d)
    BY <1>1 DEF Slots
  <2> QED
    BY <2>1, RowAtType
<1>3. \A s \in Slots(d) : s + 1 \in 1..NumSlots(d) /\ (s + 1) - 1 = s
  BY <1>1 DEF Slots
<1> DEFINE rows == [i \in 1..NumSlots(d) |-> RowAt(d, i - 1)]
<1>4. rows \in Seq(Seq(Byte)) /\ Len(rows) = NumSlots(d)
  BY <1>1, <1>2
<1>5. PageView(d) = [free |-> FreeSpace(d), rows |-> rows]
  BY DEF PageView
<1>6. \A i \in 1..NumSlots(d) : rows[i] = RowAt(d, i - 1)
  OBVIOUS
<1> HIDE DEF rows
<1>7. PageView(d).free = FreeSpace(d) /\ PageView(d).rows = rows
  BY <1>5
<1>8. \A s \in Slots(d) : rows[s + 1] = RowAt(d, s)
  BY <1>3, <1>6
<1> QED
  BY <1>3, <1>4, <1>6, <1>7, <1>8

LEMMA ViewInserted ==
  ASSUME NEW d \in Data, WellFormedPage(d), NEW row \in Seq(Byte), Len(row) \in Word,
         InsertError(d, row) = "None"
  PROVE  PageView(InsertedRow(d, row)) = Abs!Inserted(PageView(d), row)
<1> DEFINE e == InsertedRow(d, row)
           old == [i \in 1..NumSlots(d) |-> RowAt(d, i - 1)]
           new == [i \in 1..NumSlots(e) |-> RowAt(e, i - 1)]
<1>1. /\ e \in Data
      /\ NumSlots(e) = NumSlots(d) + 1
      /\ FreeSpace(e) = FreeSpace(d) - (Len(row) + 4)
      /\ RowAt(e, NumSlots(d)) = row
      /\ \A s \in Slots(d) : RowAt(e, s) = RowAt(d, s)
      /\ WellFormedPage(e)
  BY InsertedRowFacts
<1>2. NumSlots(d) \in Nat
  BY WellFormedFacts
<1> HIDE DEF e
<1>3. \A i \in 1..NumSlots(d) : RowAt(e, i - 1) = RowAt(d, i - 1)
  <2>1. \A i \in 1..NumSlots(d) : i - 1 \in Slots(d)
    BY <1>2 DEF Slots
  <2> QED
    BY <1>1, <2>1
<1>4. Append(old, row) = [i \in 1..(NumSlots(d) + 1) |->
                            IF i = NumSlots(d) + 1 THEN row ELSE RowAt(d, i - 1)]
  <2>1. old \in Seq(Seq(Byte)) /\ Len(old) = NumSlots(d)
    BY ViewFacts DEF PageView
  <2> QED
    BY <1>2, <2>1
<1>5. new = Append(old, row)
  BY <1>1, <1>2, <1>3, <1>4
<1> QED
  BY <1>1, <1>5 DEF PageView, Abs!Inserted, Abs!SLOT_ENTRY_SIZE, e

(* A call that sets one slot sets one element of the view.                 *)
LEMMA ViewOfOneSlot ==
  ASSUME NEW d \in Data, WellFormedPage(d), NEW e \in Data, NEW slot \in Slots(d),
         NumSlots(e) = NumSlots(d),
         \A s \in Slots(d) \ {slot} : RowAt(e, s) = RowAt(d, s)
  PROVE  PageView(e) = [free |-> FreeSpace(e),
                        rows |-> [PageView(d).rows EXCEPT ![slot + 1] = RowAt(e, slot)]]
<1>1. NumSlots(d) \in Nat
  BY WellFormedFacts
<1>2. slot \in Nat /\ slot + 1 \in 1..NumSlots(d) /\ (slot + 1) - 1 = slot
  BY <1>1 DEF Slots
<1>3. \A i \in 1..NumSlots(d) :
         RowAt(e, i - 1) = IF i = slot + 1 THEN RowAt(e, slot) ELSE RowAt(d, i - 1)
  <2> TAKE i \in 1..NumSlots(d)
  <2>1. i - 1 \in Slots(d) /\ (i # slot + 1 => i - 1 # slot)
    BY <1>1, <1>2 DEF Slots
  <2>2. i = slot + 1 => RowAt(e, i - 1) = RowAt(e, slot)
    BY <1>2
  <2> QED
    BY <2>1, <2>2
<1>4. [i \in 1..NumSlots(e) |-> RowAt(e, i - 1)]
        = [[i \in 1..NumSlots(d) |-> RowAt(d, i - 1)] EXCEPT ![slot + 1] = RowAt(e, slot)]
  BY <1>2, <1>3
<1> QED
  BY <1>4 DEF PageView

(* The early returns of the bytes are those of the view.                   *)
LEMMA SameErrors ==
  ASSUME NEW d \in Data, WellFormedPage(d), NEW slot \in Nat,
         NEW row \in Seq(Byte)
  PROVE  /\ SlotError(d, slot) = Abs!SlotError(PageView(d), slot)
         /\ InsertError(d, row) = Abs!InsertError(PageView(d), row)
         /\ UpdateError(d, slot, row) = Abs!UpdateError(PageView(d), slot, row)
         /\ SlotError(d, slot) = "None" => slot \in Slots(d)
<1>1. NumSlots(d) \in Nat
  BY WellFormedFacts
<1>2. slot < NumSlots(d) <=> slot \in Slots(d)
  BY <1>1 DEF Slots
<1>3. Abs!NumSlots(PageView(d)) = NumSlots(d) /\ PageView(d).free = FreeSpace(d)
  BY ViewFacts DEF Abs!NumSlots
<1>4. ASSUME slot \in Slots(d)
      PROVE  /\ SlotDeleted(d, slot) <=> Abs!SlotDeleted(PageView(d), slot)
             /\ Len(Abs!RowOf(PageView(d), slot)) = RowLen(d, slot)
  <2>1. PageView(d).rows[slot + 1] = RowAt(d, slot)
    BY <1>4, ViewFacts
  <2>2. RowAt(d, slot) \in Seq(Byte) /\ Len(RowAt(d, slot)) = RowLen(d, slot)
    BY <1>4, RowAtType
  <2>3. RowAt(d, slot) = << >> <=> Len(RowAt(d, slot)) = 0
    BY <2>2, EmptySeq
  <2> QED
    BY <2>1, <2>2, <2>3 DEF SlotDeleted, Abs!SlotDeleted, Abs!RowOf
<1>5. SlotError(d, slot) = Abs!SlotError(PageView(d), slot)
  BY <1>1, <1>2, <1>3, <1>4 DEF SlotError, Abs!SlotError
<1>6. SlotError(d, slot) = "None" => slot \in Slots(d)
  BY <1>1, <1>2 DEF SlotError
<1>7. Len(row) \in Nat /\ FreeSpace(d) \in Nat
  BY FreeSpaceIs DEF WellFormedPage
<1>8. InsertError(d, row) = Abs!InsertError(PageView(d), row)
  BY <1>3, <1>7 DEF InsertError, Abs!InsertError, Abs!HasRoom, SLOT_ENTRY_SIZE,
                    Abs!SLOT_ENTRY_SIZE
<1>9. UpdateError(d, slot, row) = Abs!UpdateError(PageView(d), slot, row)
  <2>1. CASE SlotError(d, slot) # "None"
    BY <1>5, <2>1 DEF UpdateError, Abs!UpdateError
  <2>2. CASE SlotError(d, slot) = "None"
    <3>1. Grows(d, slot, row) <=> Abs!Grows(PageView(d), slot, row)
      BY <1>4, <1>6, <2>2 DEF Grows, Abs!Grows
    <3> QED
      BY <1>3, <1>5, <1>7, <2>2, <3>1 DEF UpdateError, Abs!UpdateError
  <2> QED
    BY <2>1, <2>2
<1> QED
  BY <1>5, <1>6, <1>8, <1>9

-----------------------------------------------------------------------------
(* The invariant of the page: its bytes are typed and laid out as          *)
(* WellFormed says.  It is inductive: each call reads the offsets it       *)
(* writes at from the page, so TypeOK alone would not bound them.          *)
Inv == TypeOK /\ WellFormed

LEMMA InitPage ==
  ASSUME Init
  PROVE  Inv /\ NumSlots(data) = 0 /\ FreeSpace(data) = PAGE_SIZE - HEADER_SIZE
<1> DEFINE zero == [k \in 0..(PAGE_SIZE - 1) |-> 0]
<1>1. zero \in Data /\ PAGE_SIZE \in Word /\ 6 + 1 < PAGE_SIZE /\ PAGE_SIZE \in Nat /\ 16 <= PAGE_SIZE
  BY PageSizeAssumption DEF Data, Byte, Word, HEADER_SIZE
<1>2. 4 \in 0..(PAGE_SIZE - 1) /\ 4 + 1 \in 0..(PAGE_SIZE - 1)
  BY <1>1
<1>3. zero[4] = 0 /\ zero[4 + 1] = 0
  BY <1>2
<1> HIDE DEF zero
<1>4. data = Write16(zero, 6, PAGE_SIZE)
  BY DEF Init, HEADER_OFFSET_FREE_PTR, zero
<1>5. /\ data \in Data
      /\ FreePtr(data) = PAGE_SIZE
      /\ data[4] = 0 /\ data[4 + 1] = 0
  BY <1>1, <1>2, <1>3, <1>4, Write16Facts DEF FreePtr, HEADER_OFFSET_FREE_PTR
<1>6. NumSlots(data) = 0
  BY <1>5 DEF NumSlots, Read16, HEADER_OFFSET_NUM_SLOTS
<1>7. Slots(data) = {}
  BY <1>6 DEF Slots
<1>8. SlotOffset(NumSlots(data)) = 16
  BY <1>6, SlotOffsetType
<1>9. WellFormedPage(data)
  BY <1>1, <1>5, <1>7, <1>8 DEF WellFormedPage, DirectoryBelowRows, RowsDisjoint
<1>10. FreeSpace(data) = PAGE_SIZE - HEADER_SIZE
  BY <1>5, <1>8, <1>9, FreeSpaceIs DEF WellFormedPage, HEADER_SIZE
<1>11. pageId \in PageIds /\ ret \in [err : PageErrors, row : Seq(Byte)]
  BY EmptySeq DEF Init, Ok, Answer, PageErrors
<1> QED
  BY <1>5, <1>6, <1>9, <1>10, <1>11 DEF Inv, TypeOK, WellFormed

(* A call that returns early answers with an error and changes nothing.    *)
LEMMA RejectStep ==
  ASSUME Inv, NEW err, Reject(err), err \in PageErrors
  PROVE  Inv'
<1>1. UNCHANGED <<data, pageId>> /\ ret' = [err |-> err, row |-> << >>]
  BY DEF Reject, Answer
<1>2. ret' \in [err : PageErrors, row : Seq(Byte)]
  BY <1>1, EmptySeq
<1>3. WellFormed'
  BY <1>1 DEF Inv, WellFormed, WellFormedPage, DirectoryBelowRows, RowsDisjoint, Slots,
              NumSlots, FreePtr, RowOffset, RowLen, Read16
<1> QED
  BY <1>1, <1>2, <1>3 DEF Inv, TypeOK

LEMMA ErrorTypes ==
  ASSUME NEW d, NEW slot, NEW row
  PROVE  /\ SlotError(d, slot) \in PageErrors
         /\ InsertError(d, row) \in PageErrors
         /\ UpdateError(d, slot, row) \in PageErrors
BY DEF SlotError, InsertError, UpdateError, PageErrors

(* A call that changes bytes keeps the invariant when the new bytes are    *)
(* typed and well formed.                                                  *)
LEMMA ChangeStep ==
  ASSUME Inv, data' \in Data, WellFormedPage(data'), ret' = Ok, UNCHANGED pageId
  PROVE  Inv'
<1>1. ret' \in [err : PageErrors, row : Seq(Byte)]
  BY EmptySeq DEF Ok, Answer, PageErrors
<1>2. WellFormed'
  BY DEF WellFormed
<1> QED
  BY <1>1, <1>2 DEF Inv, TypeOK

LEMMA CallerFacts ==
  /\ \A row \in Rows : row \in Seq(Byte) /\ Len(row) \in Word
  /\ \A slot \in SlotIndexes : slot \in Nat
BY CallerAssumption DEF Word

(* updateRow that does not return early, moved or in place.                *)
LEMMA UpdatedRowFacts ==
  ASSUME NEW d \in Data, WellFormedPage(d), NEW slot \in Nat,
         NEW row \in Seq(Byte), Len(row) \in Word,
         UpdateError(d, slot, row) = "None"
  PROVE  LET e == UpdatedRow(d, slot, row)
         IN  /\ slot \in Slots(d)
             /\ e \in Data
             /\ WellFormedPage(e)
             /\ NumSlots(e) = NumSlots(d)
             /\ FreeSpace(e) = IF Grows(d, slot, row) THEN FreeSpace(d) - Len(row)
                                                      ELSE FreeSpace(d)
             /\ RowAt(e, slot) = row
             /\ \A s \in Slots(d) \ {slot} : /\ RowAt(e, s) = RowAt(d, s)
                                             /\ RowLen(e, s) = RowLen(d, s)
<1>1. SlotError(d, slot) = "None" /\ slot \in Slots(d)
  BY SameErrors DEF UpdateError
<1>2. Len(row) \in Nat /\ RowLen(d, slot) \in Nat /\ FreeSpace(d) \in Nat
  BY <1>1, WellFormedFacts, FreeSpaceIs DEF WellFormedPage
<1>3. CASE Grows(d, slot, row)
  <2>1. Len(row) <= FreeSpace(d)
    BY <1>1, <1>2, <1>3 DEF UpdateError
  <2> QED
    BY <1>1, <1>3, <2>1, MovedRowFacts DEF UpdatedRow
<1>4. CASE ~ Grows(d, slot, row)
  <2>1. Len(row) <= RowLen(d, slot)
    BY <1>2, <1>4 DEF Grows
  <2> QED
    BY <1>1, <1>4, <2>1, OverwrittenFacts DEF UpdatedRow
<1> QED
  BY <1>3, <1>4

-----------------------------------------------------------------------------
LEMMA NextInv == Inv /\ [Next]_vars => Inv'
<1> SUFFICES ASSUME Inv, [Next]_vars
             PROVE  Inv'
  OBVIOUS
<1>1. data \in Data /\ WellFormedPage(data)
  BY DEF Inv, TypeOK, WellFormed
<1>2. ASSUME NEW row \in Rows, InsertRow(row)
      PROVE  Inv'
  <2>1. CASE Reject(InsertError(data, row))
    BY <2>1, ErrorTypes, RejectStep
  <2>2. CASE ~ Reject(InsertError(data, row))
    BY <1>1, <1>2, <2>2, CallerFacts, InsertedRowFacts, ChangeStep DEF InsertRow
  <2> QED
    BY <2>1, <2>2
<1>3. ASSUME NEW slot \in SlotIndexes, ReadRow(slot)
      PROVE  Inv'
  <2>1. CASE Reject(SlotError(data, slot))
    BY <2>1, ErrorTypes, RejectStep
  <2>2. CASE ~ Reject(SlotError(data, slot))
    <3>1. /\ SlotError(data, slot) = "None"
          /\ ret' = [err |-> "None", row |-> RowAt(data, slot)]
          /\ UNCHANGED <<data, pageId>>
      BY <1>3, <2>2 DEF ReadRow, Answer
    <3>2. RowAt(data, slot) \in Seq(Byte)
      BY <1>1, <3>1, CallerFacts, SameErrors, RowAtType, EmptySeq
    <3>3. WellFormed'
      BY <1>1, <3>1 DEF WellFormed, WellFormedPage, DirectoryBelowRows, RowsDisjoint,
                        Slots, NumSlots, FreePtr, RowOffset, RowLen, Read16
    <3> QED
      BY <3>1, <3>2, <3>3 DEF Inv, TypeOK, PageErrors
  <2> QED
    BY <2>1, <2>2
<1>4. ASSUME NEW slot \in SlotIndexes, DeleteRow(slot)
      PROVE  Inv'
  <2>1. CASE Reject(SlotError(data, slot))
    BY <2>1, ErrorTypes, RejectStep
  <2>2. CASE ~ Reject(SlotError(data, slot))
    <3>1. slot \in Slots(data)
      BY <1>1, <1>4, <2>2, CallerFacts, SameErrors, EmptySeq DEF DeleteRow
    <3>2. DeletedRow(data, slot) \in Data /\ WellFormedPage(DeletedRow(data, slot))
      BY <1>1, <3>1, DeletedRowFacts
    <3> QED
      BY <1>4, <2>2, <3>2, ChangeStep DEF DeleteRow
  <2> QED
    BY <2>1, <2>2
<1>5. ASSUME NEW slot \in SlotIndexes, NEW row \in Rows, UpdateRow(slot, row)
      PROVE  Inv'
  <2>1. CASE Reject(UpdateError(data, slot, row))
    BY <2>1, ErrorTypes, RejectStep
  <2>2. CASE ~ Reject(UpdateError(data, slot, row))
    BY <1>1, <1>5, <2>2, CallerFacts, UpdatedRowFacts, ChangeStep DEF UpdateRow
  <2> QED
    BY <2>1, <2>2
<1>6. CASE UNCHANGED vars
  BY <1>6 DEF vars, Inv, TypeOK, WellFormed, WellFormedPage, DirectoryBelowRows,
              RowsDisjoint, Slots, NumSlots, FreePtr, RowOffset, RowLen, Read16
<1> QED
  BY <1>2, <1>3, <1>4, <1>5, <1>6 DEF Next

(* Every page the calls can make is typed.                                 *)
THEOREM PageTyped == Spec => []TypeOK
<1>1. Init => Inv
  BY InitPage
<1>2. Inv => TypeOK
  BY DEF Inv
<1> QED
  BY <1>1, <1>2, NextInv, PTL DEF Spec

(* Whatever rows are inserted, deleted and updated, in any order, the      *)
(* directory never meets the rows and no byte belongs to two live rows.    *)
THEOREM PageLayout == Spec => []WellFormed
<1>1. Init => Inv
  BY InitPage
<1>2. Inv => WellFormed
  BY DEF Inv
<1> QED
  BY <1>1, <1>2, NextInv, PTL DEF Spec

THEOREM PageInv == Spec => []Inv
<1>1. Init => Inv
  BY InitPage
<1> QED
  BY <1>1, NextInv, PTL DEF Spec

-----------------------------------------------------------------------------
(* Slot numbers keep their meaning: slots are only added, and a tombstone  *)
(* stays one.                                                              *)
THEOREM PageTombstones == Spec => TombstonesStay
<1> DEFINE A == /\ NumSlots(data) <= NumSlots(data')
                /\ \A slot \in Slots(data) :
                      SlotDeleted(data, slot) => SlotDeleted(data', slot)
<1>1. ASSUME Inv, [Next]_vars
      PROVE  [A]_vars
  <2>1. data \in Data /\ WellFormedPage(data) /\ NumSlots(data) \in Nat
    BY <1>1, WellFormedFacts DEF Inv, TypeOK, WellFormed
  <2>2. CASE UNCHANGED data
    BY <2>1, <2>2 DEF SlotDeleted, NumSlots, RowLen, Read16
  <2>3. ASSUME NEW row \in Rows, InsertRow(row), data' # data
        PROVE  A
    <3>1. InsertError(data, row) = "None" /\ data' = InsertedRow(data, row)
      BY <2>3 DEF InsertRow, Reject
    <3> QED
      BY <2>1, <3>1, CallerFacts, InsertedRowFacts DEF SlotDeleted
  <2>4. ASSUME NEW slot \in SlotIndexes, DeleteRow(slot), data' # data
        PROVE  A
    <3>1. SlotError(data, slot) = "None" /\ data' = DeletedRow(data, slot)
      BY <2>4 DEF DeleteRow, Reject
    <3>2. slot \in Slots(data) /\ ~ SlotDeleted(data, slot)
      BY <2>1, <3>1, CallerFacts, SameErrors, EmptySeq DEF SlotError
    <3> QED
      BY <2>1, <3>1, <3>2, DeletedRowFacts DEF SlotDeleted
  <2>5. ASSUME NEW slot \in SlotIndexes, NEW row \in Rows, UpdateRow(slot, row),
               data' # data
        PROVE  A
    <3>1. UpdateError(data, slot, row) = "None" /\ data' = UpdatedRow(data, slot, row)
      BY <2>5 DEF UpdateRow, Reject
    <3>2. slot \in Slots(data) /\ ~ SlotDeleted(data, slot)
      BY <2>1, <3>1, CallerFacts, SameErrors DEF UpdateError, SlotError
    <3> QED
      BY <2>1, <3>1, <3>2, CallerFacts, UpdatedRowFacts DEF SlotDeleted
  <2> QED
    BY <1>1, <2>2, <2>3, <2>4, <2>5 DEF Next, ReadRow, Reject, vars
<1> HIDE DEF A
<1>2. Spec => [][A]_vars
  BY <1>1, PageInv, PTL DEF Spec
<1> QED
  BY <1>2 DEF A, TombstonesStay

-----------------------------------------------------------------------------
(* The bytes implement the abstract page: whatever is called, a caller     *)
(* sees the slots and the free space of SlotPageSpec.                      *)
LEMMA InitView == Init => Abs!Init
<1> SUFFICES ASSUME Init
             PROVE  Abs!Init
  OBVIOUS
<1>1. PageView(data) = [free |-> PAGE_SIZE - HEADER_SIZE, rows |-> << >>]
  <2>1. NumSlots(data) = 0 /\ FreeSpace(data) = PAGE_SIZE - HEADER_SIZE
    BY InitPage
  <2>2. [i \in 1..0 |-> RowAt(data, i - 1)] = << >>
    OBVIOUS
  <2> QED
    BY <2>1, <2>2 DEF PageView
<1> QED
  BY <1>1 DEF Init, Ok, Answer, Abs!Init, Abs!EmptyPage, Abs!Ok, Abs!Answer

LEMMA RejectView ==
  ASSUME NEW err, Reject(err)
  PROVE  Abs!Reject(err)
BY DEF Reject, Abs!Reject, Answer, Abs!Answer, PageView, FreeSpace, NumSlots, FreePtr,
       RowAt, RowOffset, RowLen, Read16

LEMMA StepView == Inv /\ [Next]_vars => [Abs!Next]_(Abs!vars)
<1> SUFFICES ASSUME Inv, [Next]_vars
             PROVE  [Abs!Next]_(Abs!vars)
  OBVIOUS
<1>1. data \in Data /\ WellFormedPage(data)
  BY DEF Inv, TypeOK, WellFormed
<1>2. ASSUME NEW row \in Rows, InsertRow(row)
      PROVE  Abs!Insert(row)
  <2>1. InsertError(data, row) = Abs!InsertError(PageView(data), row)
    BY <1>1, CallerFacts, SameErrors
  <2>2. CASE Reject(InsertError(data, row))
    BY <2>1, <2>2, RejectView DEF Abs!Insert
  <2>3. CASE ~ Reject(InsertError(data, row))
    <3>1. InsertError(data, row) = "None" /\ data' = InsertedRow(data, row) /\ ret' = Ok
      BY <1>2, <2>3 DEF InsertRow
    <3>2. PageView(data') = Abs!Inserted(PageView(data), row)
      BY <1>1, <3>1, CallerFacts, ViewInserted
    <3> QED
      BY <2>1, <3>1, <3>2 DEF Abs!Insert, Ok, Answer, Abs!Ok, Abs!Answer
  <2> QED
    BY <2>2, <2>3
<1>3. ASSUME NEW slot \in SlotIndexes, ReadRow(slot)
      PROVE  Abs!Read(slot)
  <2>1. SlotError(data, slot) = Abs!SlotError(PageView(data), slot)
    BY <1>1, CallerFacts, SameErrors, EmptySeq
  <2>2. CASE Reject(SlotError(data, slot))
    BY <2>1, <2>2, RejectView DEF Abs!Read
  <2>3. CASE ~ Reject(SlotError(data, slot))
    <3>1. /\ SlotError(data, slot) = "None" /\ UNCHANGED data
          /\ ret' = [err |-> "None", row |-> RowAt(data, slot)]
      BY <1>3, <2>3 DEF ReadRow, Answer
    <3>2. slot \in Slots(data)
      BY <1>1, <3>1, CallerFacts, SameErrors, EmptySeq
    <3>3. Abs!RowOf(PageView(data), slot) = RowAt(data, slot)
      BY <1>1, <3>2, ViewFacts DEF Abs!RowOf
    <3>4. PageView(data') = PageView(data)
      BY <3>1 DEF PageView, FreeSpace, NumSlots, FreePtr, RowAt, RowOffset, RowLen, Read16
    <3> QED
      BY <2>1, <3>1, <3>3, <3>4 DEF Abs!Read, Abs!Answer
  <2> QED
    BY <2>2, <2>3
<1>4. ASSUME NEW slot \in SlotIndexes, DeleteRow(slot)
      PROVE  Abs!Delete(slot)
  <2>1. SlotError(data, slot) = Abs!SlotError(PageView(data), slot)
    BY <1>1, CallerFacts, SameErrors, EmptySeq
  <2>2. CASE Reject(SlotError(data, slot))
    BY <2>1, <2>2, RejectView DEF Abs!Delete
  <2>3. CASE ~ Reject(SlotError(data, slot))
    <3>1. SlotError(data, slot) = "None" /\ data' = DeletedRow(data, slot) /\ ret' = Ok
      BY <1>4, <2>3 DEF DeleteRow
    <3>2. slot \in Slots(data)
      BY <1>1, <3>1, CallerFacts, SameErrors, EmptySeq
    <3>3. /\ data' \in Data /\ NumSlots(data') = NumSlots(data)
          /\ FreeSpace(data') = FreeSpace(data)
          /\ RowAt(data', slot) = << >>
          /\ \A s \in Slots(data) \ {slot} : RowAt(data', s) = RowAt(data, s)
      BY <1>1, <3>1, <3>2, DeletedRowFacts
    <3>4. PageView(data') = Abs!WithoutRow(PageView(data), slot)
      <4>1. PageView(data') = [free |-> FreeSpace(data),
                               rows |-> [PageView(data).rows EXCEPT ![slot + 1] = << >>]]
        BY <1>1, <3>2, <3>3, ViewOfOneSlot
      <4> QED
        BY <4>1 DEF Abs!WithoutRow, PageView
    <3> QED
      BY <2>1, <3>1, <3>4 DEF Abs!Delete, Ok, Answer, Abs!Ok, Abs!Answer
  <2> QED
    BY <2>2, <2>3
<1>5. ASSUME NEW slot \in SlotIndexes, NEW row \in Rows, UpdateRow(slot, row)
      PROVE  Abs!Update(slot, row)
  <2>1. UpdateError(data, slot, row) = Abs!UpdateError(PageView(data), slot, row)
    BY <1>1, CallerFacts, SameErrors
  <2>2. CASE Reject(UpdateError(data, slot, row))
    BY <2>1, <2>2, RejectView DEF Abs!Update
  <2>3. CASE ~ Reject(UpdateError(data, slot, row))
    <3>1. UpdateError(data, slot, row) = "None" /\ data' = UpdatedRow(data, slot, row) /\ ret' = Ok
      BY <1>5, <2>3 DEF UpdateRow
    <3>2. /\ slot \in Slots(data) /\ data' \in Data /\ NumSlots(data') = NumSlots(data)
          /\ FreeSpace(data') = IF Grows(data, slot, row) THEN FreeSpace(data) - Len(row)
                                                          ELSE FreeSpace(data)
          /\ RowAt(data', slot) = row
          /\ \A s \in Slots(data) \ {slot} : RowAt(data', s) = RowAt(data, s)
      BY <1>1, <3>1, CallerFacts, UpdatedRowFacts
    <3>3. PageView(data') = [free |-> FreeSpace(data'),
                             rows |-> [PageView(data).rows EXCEPT ![slot + 1] = row]]
      BY <1>1, <3>2, ViewOfOneSlot
    <3>4. Abs!Grows(PageView(data), slot, row) <=> Grows(data, slot, row)
      BY <1>1, <3>2, ViewFacts, RowAtType DEF Abs!Grows, Abs!RowOf, Grows
    <3>5. PageView(data').free = FreeSpace(data') /\ PageView(data).free = FreeSpace(data)
      BY DEF PageView
    <3>6. PageView(data') = Abs!Updated(PageView(data), slot, row)
      BY <3>2, <3>3, <3>4, <3>5 DEF Abs!Updated
    <3> QED
      BY <2>1, <3>1, <3>6 DEF Abs!Update, Ok, Answer, Abs!Ok, Abs!Answer
  <2> QED
    BY <2>2, <2>3
<1>6. CASE UNCHANGED vars
  BY <1>6 DEF vars, Abs!vars, PageView, FreeSpace, NumSlots, FreePtr, RowAt, RowOffset,
              RowLen, Read16
<1> QED
  BY <1>2, <1>3, <1>4, <1>5, <1>6 DEF Next, Abs!Next

THEOREM PageImplements == Spec => Implements
BY InitView, StepView, PageInv, PTL DEF Spec, Implements, Abs!Spec
=============================================================================
