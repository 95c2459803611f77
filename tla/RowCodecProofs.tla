--------------------------- MODULE RowCodecProofs ---------------------------
(***************************************************************************)
(* For every schema and every row whose values have the types of their     *)
(* columns: a row of fewer than UINT16 bytes reads back as it was written, *)
(* and nothing behind it is read.                                          *)
(***************************************************************************)
EXTENDS RowCodec, SequenceTheorems, TLAPS

Byte == Int \X Int

(* Each column begins where the one before it ends.                        *)
StartsInv ==
  /\ starts[1] = 0
  /\ \A i \in 1..(Len(starts) - 1) : starts[i + 1] = starts[i] + Size(row[i])
  /\ \A i, j \in 1..Len(starts) : i <= j => starts[i] <= starts[j]
  /\ totalSize = starts[Len(starts)]
  /\ Len(starts) = IF pc \in {"size", "TextTooLong"} THEN column ELSE Len(schema) + 1

(* The first totalSize bytes of a row are bytes.                           *)
AreBytes(bytes) ==
  DOMAIN bytes = 1..totalSize /\ \A k \in DOMAIN bytes : bytes[k] \in Byte

(* The columns before c are in them, each behind the one before it.        *)
Holds(bytes, c) ==
  \A i \in 1..(c - 1) : \A k \in 1..Size(row[i]) :
    bytes[starts[i] + k] = Encoding(row[i])[k]

WriteInv ==
  /\ AreBytes(output)
  /\ offset <= starts[column]
  /\ IsShort => offset = starts[column] /\ Holds(output, column)

ReadInv ==
  IsShort =>
    /\ AreBytes(page) /\ Holds(page, Len(schema) + 1)
    /\ offset = starts[column]
    /\ back \in Seq([type : DataTypes \cup {"NULL"}, v : Seq(Int)])
    /\ Len(back) = column - 1
    /\ \A i \in 1..(column - 1) : back[i] = row[i]

PageInv ==
  /\ behind \in Byte
  /\ \A k \in DOMAIN page : page[k] \in Byte

CodecInv ==
  /\ TypeOK
  /\ PageInv
  /\ StartsInv
  /\ pc \in {"size", "write", "store"} => back = << >>
  /\ pc \in {"write", "store"} => WriteInv
  /\ pc = "store" => column = Len(schema) + 1
  /\ pc \in {"read", "done"} => ReadInv

-----------------------------------------------------------------------------
(* What the encoding of a value is, byte by byte.                          *)

LEMMA RowFacts ==
  ASSUME IsRow(row, schema)
  PROVE  /\ Len(schema) \in Nat /\ Len(row) = Len(schema)
         /\ DOMAIN row = Columns /\ DOMAIN schema = Columns
         /\ \A i \in Columns :
              /\ row[i] \in [type : DataTypes \cup {"NULL"}, v : Seq(Int)]
              /\ schema[i].type \in DataTypes
              /\ IsValue(row[i], schema[i].type)
<1>1. /\ row \in Seq([type : DataTypes \cup {"NULL"}, v : Seq(Int)])
      /\ schema \in Seq([type : DataTypes, textLength : Nat])
      /\ Len(row) = Len(schema)
      /\ \A i \in DOMAIN schema : IsValue(row[i], schema[i].type)
  BY DEF IsRow
<1>2. DOMAIN row = Columns /\ DOMAIN schema = Columns /\ Len(schema) \in Nat
  BY <1>1 DEF Columns
<1>3. \A i \in Columns : row[i] \in [type : DataTypes \cup {"NULL"}, v : Seq(Int)]
  BY <1>1, ElementOfSeq DEF Columns
<1>4. \A i \in Columns : schema[i] \in [type : DataTypes, textLength : Nat]
  BY <1>1, ElementOfSeq DEF Columns
<1> QED
  BY <1>1, <1>2, <1>3, <1>4

LEMMA SizeFacts ==
  ASSUME NEW type \in DataTypes,
         NEW value \in [type : DataTypes \cup {"NULL"}, v : Seq(Int)],
         IsValue(value, type)
  PROVE  /\ Size(value) \in Nat \ {0}
         /\ value = NULL => Size(value) = 1
         /\ value # NULL /\ type = "TEXT" => Size(value) = 3 + Len(value.v)
         /\ value # NULL /\ type # "TEXT" => Size(value) = 1 + sizeOf[type]
  BY SizesAssumption DEF IsValue, Size, NULL, DataTypes, FixedTypes

LEMMA IsByte ==
  ASSUME NEW n \in Int, NEW k \in Int
  PROVE  <<n, k>> \in Byte
  BY DEF Byte

LEMMA ByteNumber ==
  ASSUME NEW b \in Byte
  PROVE  b[1] \in Int
  BY DEF Byte

LEMMA FlagBytes == <<0, 1>> \in Byte /\ <<1, 1>> \in Byte
  BY DEF Byte

LEMMA RemainderIsLess ==
  ASSUME NEW n \in Nat, NEW m \in Nat \ {0}
  PROVE  n % m \in Nat /\ n % m <= n
  OBVIOUS

LEMMA RemainderIsSame ==
  ASSUME NEW n \in Nat, NEW m \in Nat \ {0}, n < m
  PROVE  n % m = n
  OBVIOUS

LEMMA NullEncoding ==
  /\ DOMAIN Encoding(NULL) = 1..1
  /\ Encoding(NULL)[1] = <<1, 1>>
  /\ Len(Encoding(NULL)) = 1
<1>1. Encoding(NULL) = [k \in 1..1 |-> <<1, 1>>]
  BY DEF Encoding, NULL
<1> QED
  BY <1>1

LEMMA TextEncoding ==
  ASSUME NEW value, value.type = "TEXT", value.v \in Seq(Int)
  PROVE  /\ Length(value) \in Nat /\ Length(value) <= Len(value.v)
         /\ Len(value.v) < UINT16 => Length(value) = Len(value.v)
         /\ DOMAIN Encoding(value) = 1..(3 + Length(value))
         /\ Len(Encoding(value)) = 3 + Length(value)
         /\ Encoding(value)[1] = <<0, 1>>
         /\ Encoding(value)[2] = <<Length(value), 1>>
         /\ Encoding(value)[3] = <<Length(value), 2>>
         /\ \A k \in 1..Length(value) : Encoding(value)[3 + k] = <<value.v[k], 1>>
<1>0. Len(value.v) \in Nat /\ UINT16 \in Nat \ {0}
  BY SizesAssumption
<1>1. Length(value) \in Nat /\ Length(value) <= Len(value.v)
  BY <1>0, RemainderIsLess DEF Length
<1>2. Len(value.v) < UINT16 => Length(value) = Len(value.v)
  BY <1>0, RemainderIsSame DEF Length
<1>3. value # NULL
  BY DEF NULL
<1>4. Encoding(value) = [k \in 1..(3 + Length(value)) |->
                           IF k = 1 THEN <<0, 1>>
                           ELSE IF k <= 3 THEN <<Length(value), k - 1>>
                           ELSE <<value.v[k - 3], 1>>]
  BY <1>3 DEF Encoding
<1>5. Len(Encoding(value)) = 3 + Length(value)
  BY <1>1, <1>4
<1>6. ASSUME NEW k \in 1..Length(value)
      PROVE  Encoding(value)[3 + k] = <<value.v[k], 1>>
  <2>1. 3 + k \in 1..(3 + Length(value)) /\ 3 + k # 1 /\ ~ (3 + k <= 3) /\ (3 + k) - 3 = k
    BY <1>1
  <2> QED
    BY <1>4, <2>1
<1>7. DOMAIN Encoding(value) = 1..(3 + Length(value))
  BY <1>1, <1>4
<1>8. Encoding(value)[1] = <<0, 1>>
  BY <1>1, <1>4
<1>9. Encoding(value)[2] = <<Length(value), 1>> /\ Encoding(value)[3] = <<Length(value), 2>>
  BY <1>1, <1>4
<1> QED
  BY <1>1, <1>2, <1>5, <1>6, <1>7, <1>8, <1>9

LEMMA FixedEncoding ==
  ASSUME NEW value, value # NULL, value.type \in FixedTypes
  PROVE  /\ DOMAIN Encoding(value) = 1..(1 + sizeOf[value.type])
         /\ Len(Encoding(value)) = 1 + sizeOf[value.type]
         /\ Encoding(value)[1] = <<0, 1>>
         /\ Encoding(value)[2] = <<value.v[1], 1>>
         /\ \A k \in 1..sizeOf[value.type] : Encoding(value)[1 + k] = <<value.v[1], k>>
<1>1. value.type # "TEXT" /\ sizeOf[value.type] \in Nat \ {0}
  BY SizesAssumption DEF FixedTypes
<1>2. Encoding(value) = [k \in 1..(1 + sizeOf[value.type]) |->
                           IF k = 1 THEN <<0, 1>> ELSE <<value.v[1], k - 1>>]
  BY <1>1 DEF Encoding
<1> QED
  BY <1>1, <1>2

(* The second pass writes no more for a value than the first has counted,  *)
(* and just as much unless the length of a TEXT wraps.                     *)
LEMMA EncodingFits ==
  ASSUME NEW type \in DataTypes,
         NEW value \in [type : DataTypes \cup {"NULL"}, v : Seq(Int)],
         IsValue(value, type)
  PROVE  /\ Len(Encoding(value)) \in Nat
         /\ DOMAIN Encoding(value) = 1..Len(Encoding(value))
         /\ \A k \in DOMAIN Encoding(value) : Encoding(value)[k] \in Byte
         /\ Len(Encoding(value)) <= Size(value)
         /\ Size(value) < UINT16 => Len(Encoding(value)) = Size(value)
<1>1. CASE value = NULL
  <2>1. Size(value) = 1
    BY <1>1, SizeFacts
  <2>2. \A k \in 1..1 : Encoding(value)[k] \in Byte
    BY <1>1, NullEncoding, FlagBytes
  <2>3. DOMAIN Encoding(value) = 1..1 /\ Len(Encoding(value)) = 1
    BY <1>1, NullEncoding
  <2> QED
    BY <2>1, <2>2, <2>3
<1>2. CASE value # NULL /\ type = "TEXT"
  <2>1. value.type = "TEXT" /\ value.v \in Seq(Int) /\ Size(value) = 3 + Len(value.v)
    BY <1>2, SizeFacts DEF IsValue
  <2>2. Len(value.v) \in Nat /\ UINT16 \in Nat
    BY SizesAssumption
  <2>3. \A k \in DOMAIN Encoding(value) : Encoding(value)[k] \in Byte
    <3> SUFFICES ASSUME NEW k \in 1..(3 + Length(value)), Length(value) \in Nat
                 PROVE  Encoding(value)[k] \in Byte
      BY <2>1, TextEncoding
    <3>1. k \in 1..3 \/ \E j \in 1..Length(value) : k = 3 + j
      <4>1. CASE k > 3
        <5>1. k - 3 \in 1..Length(value) /\ k = 3 + (k - 3)
          BY <4>1
        <5> QED
          BY <5>1
      <4> QED
        BY <4>1
    <3>2. CASE k \in 1..3
      <4>1. /\ Encoding(value)[1] = <<0, 1>>
            /\ Encoding(value)[2] = <<Length(value), 1>>
            /\ Encoding(value)[3] = <<Length(value), 2>>
        BY <2>1, TextEncoding
      <4>2. k = 1 \/ k = 2 \/ k = 3
        BY <3>2
      <4>3. <<Length(value), 1>> \in Byte /\ <<Length(value), 2>> \in Byte
        BY DEF Byte
      <4>4. /\ Encoding(value)[1] \in Byte
            /\ Encoding(value)[2] \in Byte
            /\ Encoding(value)[3] \in Byte
        BY <4>1, <4>3, FlagBytes
      <4> QED
        BY <4>2, <4>4
    <3>3. CASE \E j \in 1..Length(value) : k = 3 + j
      <4>1. PICK j \in 1..Length(value) : k = 3 + j
        BY <3>3
      <4>2. Encoding(value)[3 + j] = <<value.v[j], 1>>
        BY <2>1, TextEncoding
      <4>3. value.v[j] \in Int
        BY <2>1, <2>2, TextEncoding
      <4>4. <<value.v[j], 1>> \in Byte
        BY <4>3 DEF Byte
      <4> QED
        BY <4>1, <4>2, <4>4
    <3> QED
      BY <3>1, <3>2, <3>3
  <2> QED
    BY <2>1, <2>2, <2>3, TextEncoding
<1>3. CASE value # NULL /\ type # "TEXT"
  <2>1. /\ value.type = type /\ type \in FixedTypes /\ value.v \in [1..1 -> Int]
        /\ Size(value) = 1 + sizeOf[type] /\ sizeOf[type] \in Nat
    BY <1>3, SizeFacts, SizesAssumption DEF IsValue, DataTypes, FixedTypes
  <2>2. \A k \in 1..sizeOf[type] : Encoding(value)[1 + k] \in Byte
    <3> SUFFICES ASSUME NEW k \in 1..sizeOf[type]
                 PROVE  Encoding(value)[1 + k] \in Byte
      OBVIOUS
    <3>1. Encoding(value)[1 + k] = <<value.v[1], k>>
      BY <1>3, <2>1, FixedEncoding
    <3>2. value.v[1] \in Int
      BY <2>1
    <3> QED
      BY <3>1, <3>2, IsByte
  <2>3. \A k \in DOMAIN Encoding(value) : Encoding(value)[k] \in Byte
    <3> SUFFICES ASSUME NEW k \in 1..(1 + sizeOf[type])
                 PROVE  Encoding(value)[k] \in Byte
      BY <1>3, <2>1, FixedEncoding
    <3>1. CASE k = 1
      <4>1. Encoding(value)[1] = <<0, 1>>
        BY <1>3, <2>1, FixedEncoding
      <4> QED
        BY <3>1, <4>1, FlagBytes
    <3>2. CASE k - 1 \in 1..sizeOf[type]
      <4>1. Encoding(value)[1 + (k - 1)] \in Byte
        BY <2>2, <3>2
      <4> QED
        BY <2>1, <4>1
    <3> QED
      BY <2>1, <3>1, <3>2
  <2> QED
    BY <1>3, <2>1, <2>3, FixedEncoding
<1> QED
  BY <1>1, <1>2, <1>3

-----------------------------------------------------------------------------
(* What is read where the encoding of a value stands.                      *)

LEMMA LengthAtIsNat ==
  ASSUME PageInv, NEW o \in Nat
  PROVE  Number(o) \in Int /\ LengthAt(o) \in Nat
<1>1. ByteAt(o + 1) \in Byte
  BY DEF PageInv, ByteAt
<1>2. Number(o) \in Int
  BY <1>1, ByteNumber DEF Number
<1>3. UINT16 \in Nat \ {0}
  BY SizesAssumption
<1> QED
  BY <1>2, <1>3 DEF LengthAt

LEMMA ReadValue ==
  ASSUME offset \in Nat, PageInv,
         NEW type \in DataTypes,
         NEW value \in [type : DataTypes \cup {"NULL"}, v : Seq(Int)],
         IsValue(value, type), Size(value) < UINT16,
         \A k \in 1..Size(value) : ByteAt(offset + k) = Encoding(value)[k]
  PROVE  Decoding(type) = value /\ ReadSize(type) = Size(value)
<1>1. UINT16 \in Nat \ {0}
  BY SizesAssumption
<1>2. CASE value = NULL
  <2>1. Size(value) = 1
    BY <1>2, SizeFacts
  <2>2. ByteAt(offset + 1) = <<1, 1>>
    <3>1. ByteAt(offset + 1) = Encoding(value)[1]
      BY <2>1
    <3> QED
      BY <1>2, <3>1, NullEncoding
  <2>3. Number(offset) = 1
    BY <2>2 DEF Number
  <2> QED
    BY <1>2, <2>1, <2>3 DEF Decoding, ReadSize
<1>3. CASE value # NULL /\ type = "TEXT"
  <2>1. value.type = "TEXT" /\ value.v \in Seq(Int) /\ Size(value) = 3 + Len(value.v)
    BY <1>3, SizeFacts DEF IsValue
  <2>2. Len(value.v) \in Nat /\ Len(value.v) < UINT16
    BY <1>1, <2>1
  <2>3. Length(value) = Len(value.v)
    BY <2>1, <2>2, TextEncoding
  <2>4. /\ ByteAt(offset + 1) = Encoding(value)[1]
        /\ ByteAt(offset + 2) = Encoding(value)[2]
    BY <2>1, <2>2
  <2>5. ByteAt(offset + 1) = <<0, 1>> /\ ByteAt(offset + 2) = <<Length(value), 1>>
    BY <2>1, <2>4, TextEncoding
  <2>6. Number(offset) = 0
    BY <2>5 DEF Number
  <2>7. Number(offset + 1) = Len(value.v)
    <3>1. (offset + 1) + 1 = offset + 2
      OBVIOUS
    <3> QED
      BY <2>3, <2>5, <3>1 DEF Number
  <2>8. LengthAt(offset + 1) = Len(value.v)
    BY <1>1, <2>2, <2>7, RemainderIsSame DEF LengthAt
  <2>9. \A k \in 1..Len(value.v) : Number(offset + 2 + k) = value.v[k]
    <3> SUFFICES ASSUME NEW k \in 1..Len(value.v)
                 PROVE  Number(offset + 2 + k) = value.v[k]
      OBVIOUS
    <3>1. Encoding(value)[3 + k] = <<value.v[k], 1>>
      BY <2>1, <2>3, TextEncoding
    <3>2. 3 + k \in 1..Size(value)
      BY <2>1, <2>2
    <3>3. ByteAt(offset + (3 + k)) = <<value.v[k], 1>>
      BY <3>1, <3>2
    <3>4. offset + 2 + k + 1 = offset + (3 + k)
      OBVIOUS
    <3> QED
      BY <3>3, <3>4 DEF Number
  <2>10. [k \in 1..LengthAt(offset + 1) |-> Number(offset + 2 + k)] = value.v
    BY <2>1, <2>8, <2>9
  <2>11. Decoding(type) = Text(value.v)
    BY <1>3, <2>6, <2>10 DEF Decoding
  <2>12. Text(value.v) = value
    BY <2>1 DEF Text
  <2>13. ReadSize(type) = Size(value)
    BY <1>3, <2>1, <2>2, <2>6, <2>8 DEF ReadSize
  <2> QED
    BY <2>11, <2>12, <2>13
<1>4. CASE value # NULL /\ type # "TEXT"
  <2>1. /\ value.type = type /\ type \in FixedTypes /\ value.v \in [1..1 -> Int]
        /\ Size(value) = 1 + sizeOf[type] /\ sizeOf[type] \in Nat \ {0}
    BY <1>4, SizeFacts, SizesAssumption DEF IsValue, DataTypes, FixedTypes
  <2>2. /\ ByteAt(offset + 1) = Encoding(value)[1]
        /\ ByteAt(offset + 2) = Encoding(value)[2]
    BY <2>1
  <2>3. Encoding(value)[1] = <<0, 1>>
    BY <1>4, <2>1, FixedEncoding
  <2>4. Encoding(value)[2] = <<value.v[1], 1>>
    BY <1>4, <2>1, FixedEncoding
  <2>5. Number(offset) = 0
    BY <2>2, <2>3 DEF Number
  <2>6. Number(offset + 1) = value.v[1]
    <3>1. (offset + 1) + 1 = offset + 2
      OBVIOUS
    <3>2. ByteAt(offset + 2) = <<value.v[1], 1>>
      BY <2>2, <2>4
    <3> QED
      BY <3>1, <3>2 DEF Number
  <2>7. Decoding(type) = [type |-> type, v |-> <<value.v[1]>>]
    BY <1>4, <2>5, <2>6 DEF Decoding
  <2>8. <<value.v[1]>> = value.v
    BY <2>1
  <2>9. [type |-> type, v |-> value.v] = value
    BY <2>1
  <2>10. ReadSize(type) = Size(value)
    BY <1>4, <2>1, <2>5 DEF ReadSize
  <2> QED
    BY <2>7, <2>8, <2>9, <2>10
<1> QED
  BY <1>2, <1>3, <1>4

LEMMA ReadSizeIsNat ==
  ASSUME offset \in Nat, PageInv, NEW type \in DataTypes
  PROVE  ReadSize(type) \in Nat
<1>1. LengthAt(offset + 1) \in Nat
  BY LengthAtIsNat
<1>2. type # "TEXT" => sizeOf[type] \in Nat
  BY SizesAssumption DEF DataTypes, FixedTypes
<1> QED
  BY <1>1, <1>2 DEF ReadSize

-----------------------------------------------------------------------------
(* Where the columns begin.                                                *)

LEMMA ColumnFacts ==
  ASSUME TypeOK, StartsInv, pc \notin {"size", "TextTooLong"}, NEW i \in Columns
  PROVE  /\ row[i] \in [type : DataTypes \cup {"NULL"}, v : Seq(Int)]
         /\ schema[i].type \in DataTypes
         /\ IsValue(row[i], schema[i].type)
         /\ Size(row[i]) \in Nat \ {0}
         /\ starts[i] \in Nat /\ starts[i + 1] \in Nat /\ totalSize \in Nat
         /\ starts[i + 1] = starts[i] + Size(row[i])
         /\ starts[i + 1] <= totalSize
         /\ \A j \in 1..i : starts[j] \in Nat /\ starts[j] <= starts[i]
         /\ IsShort => Size(row[i]) < UINT16
<1>1. IsRow(row, schema) /\ totalSize \in Nat
  BY DEF TypeOK
<1>2. /\ row[i] \in [type : DataTypes \cup {"NULL"}, v : Seq(Int)]
      /\ schema[i].type \in DataTypes
      /\ IsValue(row[i], schema[i].type)
  BY <1>1, RowFacts
<1>3. Size(row[i]) \in Nat \ {0}
  BY <1>2, SizeFacts
<1>4. Len(schema) \in Nat /\ Len(starts) = Len(schema) + 1 /\ i \in 1..Len(schema)
  BY <1>1, RowFacts DEF StartsInv, Columns
<1>5. \A j \in 1..Len(starts) : starts[j] \in Nat
  BY <1>4 DEF TypeOK
<1>6. starts[i + 1] = starts[i] + Size(row[i]) /\ starts[i + 1] <= totalSize
  BY <1>4 DEF StartsInv
<1>7. \A j \in 1..i : starts[j] \in Nat /\ starts[j] <= starts[i]
  BY <1>4, <1>5 DEF StartsInv
<1>8. starts[i] \in Nat /\ starts[i + 1] \in Nat
  BY <1>4, <1>5
<1>9. UINT16 \in Nat
  BY SizesAssumption
<1>10. IsShort => Size(row[i]) < UINT16
  BY <1>1, <1>3, <1>6, <1>8, <1>9 DEF IsShort
<1> QED
  BY <1>1, <1>2, <1>3, <1>6, <1>7, <1>8, <1>10

LEMMA InitInv ==
  ASSUME Init
  PROVE  CodecInv
<1>1. PICK r \in Rows : row = r.row /\ schema = r.schema
  BY DEF Init
<1>2. IsRow(row, schema)
  BY <1>1, RowsAssumption
<1>3. TypeOK
  <2>1. Len(schema) \in Nat
    BY <1>2, RowFacts
  <2>2. <<0>> \in Seq(Nat)
    OBVIOUS
  <2> QED
    BY <1>2, <2>1, <2>2 DEF Init, TypeOK
<1>4. PageInv
  BY BehindAssumption DEF Init, PageInv, Byte
<1>5. StartsInv
  BY DEF Init, StartsInv
<1> QED
  BY <1>3, <1>4, <1>5 DEF Init, CodecInv

LEMMA SizeColumnInv ==
  ASSUME CodecInv, SizeColumn
  PROVE  CodecInv'
<1>1. /\ TypeOK /\ PageInv /\ StartsInv /\ back = << >>
      /\ pc = "size" /\ column \in Columns /\ column \in Nat
  BY DEF CodecInv, SizeColumn, TypeOK, Columns
<1>2. IsRow(row, schema) /\ Len(schema) \in Nat /\ column \in 1..Len(schema)
  BY <1>1, RowFacts DEF TypeOK, Columns
<1>3. Size(row[column]) \in Nat \ {0}
  BY <1>1, <1>2, RowFacts, SizeFacts
<1>4. /\ totalSize' = totalSize + Size(row[column])
      /\ totalSize \in Nat /\ totalSize' \in Nat /\ totalSize <= totalSize'
  BY <1>1, <1>3 DEF SizeColumn, TypeOK
<1>5. starts \in Seq(Nat) /\ Len(starts) = column /\ starts' = Append(starts, totalSize')
  BY <1>1 DEF SizeColumn, TypeOK, StartsInv
<1>6. /\ starts' \in Seq(Nat) /\ Len(starts') = column + 1
      /\ \A i \in 1..column : starts'[i] = starts[i]
      /\ starts'[column + 1] = totalSize'
  BY <1>1, <1>4, <1>5, AppendProperties
<1>7. TypeOK'
  BY <1>1, <1>2, <1>4, <1>6 DEF SizeColumn, TypeOK
<1>8. StartsInv'
  <2>1. /\ row' = row /\ schema' = schema /\ pc' = "size" /\ column' = column + 1
    BY <1>1 DEF SizeColumn
  <2>2. \A i \in 1..column : starts[i] \in Nat
    BY <1>5
  <2>3. starts'[1] = 0
    BY <1>2, <1>6, <1>1 DEF StartsInv
  <2>4. \A i \in 1..column : starts'[i + 1] = starts'[i] + Size(row[i])
    <3> SUFFICES ASSUME NEW i \in 1..column
                 PROVE  starts'[i + 1] = starts'[i] + Size(row[i])
      OBVIOUS
    <3>1. CASE i = column
      BY <1>1, <1>4, <1>5, <1>6, <3>1 DEF StartsInv
    <3>2. CASE i # column
      <4>1. i \in 1..(column - 1) /\ i + 1 \in 1..column
        BY <1>1, <3>2
      <4>2. starts[i + 1] = starts[i] + Size(row[i])
        BY <1>1, <1>5, <4>1 DEF StartsInv
      <4> QED
        BY <1>6, <4>1, <4>2
    <3> QED
      BY <3>1, <3>2
  <2>5. \A i, j \in 1..(column + 1) : i <= j => starts'[i] <= starts'[j]
    <3> SUFFICES ASSUME NEW i \in 1..(column + 1), NEW j \in 1..(column + 1), i <= j
                 PROVE  starts'[i] <= starts'[j]
      OBVIOUS
    <3>1. \A k \in 1..column : starts[k] <= totalSize
      BY <1>1, <1>5 DEF StartsInv
    <3>2. CASE j \in 1..column
      <4>1. i \in 1..column
        BY <1>1, <3>2
      <4> QED
        BY <1>1, <1>5, <1>6, <3>2, <4>1 DEF StartsInv
    <3>3. CASE j = column + 1 /\ i \in 1..column
      <4>1. starts'[i] = starts[i] /\ starts[i] \in Nat /\ starts[i] <= totalSize
        BY <1>6, <2>2, <3>1, <3>3
      <4>2. starts'[j] = totalSize'
        BY <1>6, <3>3
      <4> QED
        BY <1>4, <4>1, <4>2
    <3>4. CASE j = column + 1 /\ i = column + 1
      BY <1>4, <1>6, <3>4
    <3> QED
      BY <1>1, <3>2, <3>3, <3>4
  <2>6. totalSize' = starts'[Len(starts')]
    BY <1>6
  <2> QED
    BY <1>1, <1>6, <2>1, <2>3, <2>4, <2>5, <2>6 DEF StartsInv
<1> QED
  BY <1>1, <1>7, <1>8 DEF CodecInv, SizeColumn, PageInv

LEMMA AllocateInv ==
  ASSUME CodecInv, Allocate
  PROVE  CodecInv'
<1>1. /\ TypeOK /\ PageInv /\ StartsInv /\ back = << >>
      /\ pc = "size" /\ column \notin Columns
  BY DEF CodecInv, Allocate
<1>2. IsRow(row, schema) /\ Len(schema) \in Nat /\ totalSize \in Nat
  BY <1>1, RowFacts DEF TypeOK
<1>3. column = Len(schema) + 1
  BY <1>1, <1>2 DEF TypeOK, Columns
<1>4. TypeOK'
  BY <1>1, <1>2 DEF TypeOK, Allocate
<1>5. StartsInv'
  BY <1>1, <1>3 DEF StartsInv, Allocate
<1>6. WriteInv'
  <2>1. AreBytes(output)'
    BY FlagBytes DEF Allocate, AreBytes
  <2>2. offset' = 0 /\ column' = 1 /\ starts'[1] = 0
    BY <1>1 DEF Allocate, StartsInv
  <2>3. Holds(output, column)'
    BY <2>2 DEF Holds
  <2> QED
    BY <2>1, <2>2, <2>3 DEF WriteInv
<1> QED
  BY <1>1, <1>4, <1>5, <1>6 DEF CodecInv, Allocate, PageInv

(* The bytes of a column go where the column begins, and no further than   *)
(* where the next one does.                                                *)
LEMMA WriteColumnInv ==
  ASSUME CodecInv, WriteColumn
  PROVE  CodecInv'
<1> DEFINE bytes == Encoding(row[column])
           n == Len(bytes)
<1>1. /\ TypeOK /\ PageInv /\ StartsInv /\ WriteInv /\ back = << >>
      /\ pc = "write" /\ column \in Columns
  BY DEF CodecInv, WriteColumn
<1>2. IsRow(row, schema) /\ Len(schema) \in Nat /\ column \in 1..Len(schema)
  BY <1>1, RowFacts DEF TypeOK, Columns
<1>3. /\ Size(row[column]) \in Nat \ {0}
      /\ starts[column] \in Nat /\ starts[column + 1] \in Nat /\ totalSize \in Nat
      /\ starts[column + 1] = starts[column] + Size(row[column])
      /\ starts[column + 1] <= totalSize
      /\ IsShort => Size(row[column]) < UINT16
  BY <1>1, ColumnFacts
<1>4. /\ n \in Nat /\ DOMAIN bytes = 1..n
      /\ \A k \in 1..n : bytes[k] \in Byte
      /\ n <= Size(row[column])
      /\ IsShort => n = Size(row[column])
  <2>1. /\ row[column] \in [type : DataTypes \cup {"NULL"}, v : Seq(Int)]
        /\ schema[column].type \in DataTypes
        /\ IsValue(row[column], schema[column].type)
    BY <1>1, ColumnFacts
  <2>2. /\ n \in Nat /\ DOMAIN bytes = 1..n
        /\ \A k \in DOMAIN bytes : bytes[k] \in Byte
        /\ n <= Size(row[column])
        /\ Size(row[column]) < UINT16 => n = Size(row[column])
    BY <2>1, EncodingFits
  <2> QED
    BY <1>3, <2>2
<1>5. /\ output' = Overwrite(output, offset, bytes)
      /\ offset' = offset + n /\ column' = column + 1
      /\ UNCHANGED <<row, schema, pc, totalSize, starts, page, behind, back>>
  BY DEF WriteColumn
<1> HIDE DEF n
<1>6. offset \in Nat /\ offset <= starts[column]
  BY <1>1 DEF TypeOK, WriteInv
<1>7. offset' \in Nat /\ offset' <= starts[column + 1] /\ offset' <= totalSize
  BY <1>3, <1>4, <1>5, <1>6
<1>8. TypeOK'
  BY <1>1, <1>2, <1>5, <1>7 DEF TypeOK
<1>9. StartsInv'
  BY <1>1, <1>5 DEF StartsInv
<1>10. DOMAIN output = 1..totalSize /\ \A k \in 1..totalSize : output[k] \in Byte
  BY <1>1 DEF WriteInv, AreBytes
<1>11. output' = [k \in 1..totalSize |-> IF k - offset \in 1..n THEN bytes[k - offset]
                                         ELSE output[k]]
  BY <1>4, <1>5, <1>10 DEF Overwrite
<1> HIDE DEF bytes
<1>12. AreBytes(output)'
  BY <1>4, <1>5, <1>10, <1>11 DEF AreBytes
<1>13. ASSUME IsShort
       PROVE  offset' = starts[column + 1] /\ Holds(output, column)'
  <2>1. offset = starts[column] /\ Holds(output, column) /\ n = Size(row[column])
    BY <1>1, <1>4, <1>13 DEF WriteInv
  <2>2. offset' = starts[column + 1]
    BY <1>3, <1>5, <2>1
  <2>3. ASSUME NEW i \in 1..column, NEW k \in 1..Size(row[i])
        PROVE  output'[starts[i] + k] = Encoding(row[i])[k]
    <3>1. i \in Columns
      BY <1>2, <2>3 DEF Columns
    <3>2. /\ starts[i] \in Nat /\ Size(row[i]) \in Nat /\ totalSize \in Nat
          /\ starts[i + 1] = starts[i] + Size(row[i]) /\ starts[i + 1] <= totalSize
      BY <1>1, <3>1, ColumnFacts
    <3>3. starts[i] + k \in 1..totalSize
      BY <3>2
    <3>4. CASE i = column
      <4>1. (starts[i] + k) - offset = k /\ k \in 1..n
        BY <1>3, <2>1, <3>2, <3>4
      <4>2. output'[starts[i] + k] = bytes[k]
        BY <1>11, <3>3, <4>1
      <4> QED
        BY <3>4, <4>2 DEF bytes
    <3>5. CASE i # column
      <4>1. i \in 1..(column - 1) /\ i + 1 \in 1..column
        BY <1>2, <3>5
      <4>2. starts[i + 1] <= starts[column]
        BY <1>1, <4>1, ColumnFacts
      <4>3. (starts[i] + k) - offset \notin 1..n
        BY <1>3, <2>1, <3>2, <4>2
      <4>4. output'[starts[i] + k] = output[starts[i] + k]
        BY <1>11, <3>3, <4>3
      <4>5. output[starts[i] + k] = Encoding(row[i])[k]
        BY <2>1, <4>1 DEF Holds
      <4> QED
        BY <4>4, <4>5
    <3> QED
      BY <3>4, <3>5
  <2>4. (column + 1) - 1 = column
    BY <1>2
  <2> QED
    BY <1>5, <2>2, <2>3, <2>4 DEF Holds
<1>14. WriteInv'
  BY <1>5, <1>7, <1>12, <1>13 DEF WriteInv, IsShort
<1> QED
  BY <1>1, <1>5, <1>8, <1>9, <1>14 DEF CodecInv, PageInv

LEMMA EndWriteInv ==
  ASSUME CodecInv, EndWrite
  PROVE  CodecInv'
<1>1. /\ TypeOK /\ PageInv /\ StartsInv /\ WriteInv /\ back = << >>
      /\ pc = "write" /\ column \notin Columns
  BY DEF CodecInv, EndWrite
<1>2. IsRow(row, schema) /\ Len(schema) \in Nat /\ column = Len(schema) + 1
  BY <1>1, RowFacts DEF TypeOK, Columns
<1>3. TypeOK'
  BY <1>1 DEF EndWrite, TypeOK
<1>4. StartsInv'
  BY <1>1 DEF EndWrite, StartsInv
<1>5. WriteInv'
  BY <1>1 DEF EndWrite, WriteInv, IsShort, AreBytes, Holds
<1> QED
  BY <1>1, <1>2, <1>3, <1>4, <1>5 DEF CodecInv, EndWrite, PageInv

(* A short row is in its page whole, byte by byte.                         *)
LEMMA StoreInv ==
  ASSUME CodecInv, Store
  PROVE  CodecInv'
<1>1. /\ TypeOK /\ PageInv /\ StartsInv /\ WriteInv /\ back = << >>
      /\ pc = "store" /\ column = Len(schema) + 1
  BY DEF CodecInv, Store
<1>2. IsRow(row, schema) /\ Len(schema) \in Nat /\ totalSize \in Nat
  BY <1>1, RowFacts DEF TypeOK
<1>3. UINT16 \in Nat \ {0}
  BY SizesAssumption
<1>4. RowLen \in Nat /\ RowLen <= totalSize /\ (IsShort => RowLen = totalSize)
  BY <1>2, <1>3, RemainderIsLess, RemainderIsSame DEF RowLen, IsShort
<1>5. page' = [k \in 1..RowLen |-> output[k]]
  BY <1>4 DEF Store
<1>6. DOMAIN output = 1..totalSize /\ \A k \in 1..totalSize : output[k] \in Byte
  BY <1>1 DEF WriteInv, AreBytes
<1>7. PageInv'
  BY <1>1, <1>2, <1>4, <1>5, <1>6 DEF PageInv, Store
<1>8. TypeOK'
  BY <1>1, <1>2 DEF TypeOK, Store
<1>9. StartsInv'
  BY <1>1 DEF StartsInv, Store
<1>10. ReadInv'
  <2> SUFFICES ASSUME IsShort
               PROVE  /\ AreBytes(page)' /\ Holds(page, Len(schema) + 1)'
                      /\ offset' = starts'[column']
                      /\ back' \in Seq([type : DataTypes \cup {"NULL"}, v : Seq(Int)])
                      /\ Len(back') = column' - 1
                      /\ \A i \in 1..(column' - 1) : back'[i] = row'[i]
    BY DEF ReadInv, IsShort, Store
  <2>1. page' = [k \in 1..totalSize |-> output[k]]
    BY <1>4, <1>5
  <2>2. AreBytes(page)'
    BY <1>6, <2>1 DEF AreBytes, Store
  <2>3. Holds(page, Len(schema) + 1)'
    <3>1. ASSUME NEW i \in 1..Len(schema), NEW k \in 1..Size(row[i])
          PROVE  page'[starts[i] + k] = Encoding(row[i])[k]
      <4>1. i \in Columns
        BY DEF Columns
      <4>2. /\ starts[i] \in Nat /\ Size(row[i]) \in Nat /\ totalSize \in Nat
            /\ starts[i + 1] = starts[i] + Size(row[i]) /\ starts[i + 1] <= totalSize
        BY <1>1, <4>1, ColumnFacts
      <4>3. starts[i] + k \in 1..totalSize
        BY <4>2
      <4>4. output[starts[i] + k] = Encoding(row[i])[k]
        BY <1>1, <1>2 DEF WriteInv, Holds
      <4> QED
        BY <2>1, <4>3, <4>4
    <3>2. (Len(schema) + 1) - 1 = Len(schema)
      BY <1>2
    <3> QED
      BY <3>1, <3>2 DEF Holds, Store
  <2>4. /\ offset' = 0 /\ column' = 1 /\ starts'[1] = 0
        /\ back' = << >>
    BY <1>1 DEF Store, StartsInv
  <2> QED
    BY <2>2, <2>3, <2>4
<1> QED
  BY <1>1, <1>7, <1>8, <1>9, <1>10 DEF CodecInv, Store

LEMMA ReadColumnInv ==
  ASSUME CodecInv, ReadColumn
  PROVE  CodecInv'
<1> DEFINE Values == [type : DataTypes \cup {"NULL"}, v : Seq(Int)]
           type == schema[column].type
<1>1. /\ TypeOK /\ PageInv /\ StartsInv /\ ReadInv
      /\ pc = "read" /\ column \in Columns
  BY DEF CodecInv, ReadColumn
<1>2. IsRow(row, schema) /\ Len(schema) \in Nat /\ column \in 1..Len(schema)
  BY <1>1, RowFacts DEF TypeOK, Columns
<1>3. /\ row[column] \in Values /\ type \in DataTypes
      /\ IsValue(row[column], type)
      /\ Size(row[column]) \in Nat \ {0}
      /\ starts[column] \in Nat /\ starts[column + 1] \in Nat /\ totalSize \in Nat
      /\ starts[column + 1] = starts[column] + Size(row[column])
      /\ starts[column + 1] <= totalSize
      /\ IsShort => Size(row[column]) < UINT16
  BY <1>1, ColumnFacts
<1>4. offset \in Nat
  BY <1>1 DEF TypeOK
<1>5. /\ back' = Append(back, Decoding(type)) /\ offset' = offset + ReadSize(type)
      /\ column' = column + 1
      /\ UNCHANGED <<row, schema, pc, totalSize, output, starts, page, behind>>
  BY DEF ReadColumn
<1> HIDE DEF Values, type
<1>6. offset' \in Nat
  BY <1>1, <1>3, <1>4, <1>5, ReadSizeIsNat
<1>7. TypeOK'
  BY <1>1, <1>2, <1>5, <1>6 DEF TypeOK
<1>8. StartsInv'
  BY <1>1, <1>5 DEF StartsInv
<1>9. ASSUME IsShort
      PROVE  /\ offset' = starts[column + 1]
             /\ back' \in Seq(Values) /\ Len(back') = column
             /\ \A i \in 1..column : back'[i] = row[i]
  <2>1. /\ AreBytes(page) /\ Holds(page, Len(schema) + 1) /\ offset = starts[column]
        /\ back \in Seq(Values) /\ Len(back) = column - 1
        /\ \A i \in 1..(column - 1) : back[i] = row[i]
    BY <1>1, <1>9 DEF ReadInv, Values
  <2>2. ASSUME NEW k \in 1..Size(row[column])
        PROVE  ByteAt(offset + k) = Encoding(row[column])[k]
    <3>1. offset + k \in DOMAIN page
      BY <1>3, <2>1 DEF AreBytes
    <3>2. page[offset + k] = Encoding(row[column])[k]
      BY <1>2, <2>1 DEF Holds
    <3> QED
      BY <3>1, <3>2 DEF ByteAt
  <2>3. Size(row[column]) < UINT16
    BY <1>3, <1>9
  <2>4. Decoding(type) = row[column] /\ ReadSize(type) = Size(row[column])
    BY <1>1, <1>3, <1>4, <2>2, <2>3, ReadValue DEF Values
  <2>5. offset' = starts[column + 1]
    BY <1>3, <1>5, <2>1, <2>4
  <2>6. back' = Append(back, row[column])
    BY <1>5, <2>4
  <2>7. /\ back' \in Seq(Values) /\ Len(back') = Len(back) + 1
        /\ \A i \in 1..Len(back) : back'[i] = back[i]
        /\ back'[Len(back) + 1] = row[column]
    BY <1>3, <2>1, <2>6, AppendProperties
  <2>8. ASSUME NEW i \in 1..column
        PROVE  back'[i] = row[i]
    <3>1. i \in 1..(column - 1) \/ i = column
      BY <1>2
    <3> QED
      BY <1>2, <2>1, <2>7, <3>1
  <2> QED
    BY <1>2, <2>1, <2>5, <2>7, <2>8
<1>10. ReadInv'
  <2>1. IsShort' => IsShort
    BY <1>5 DEF IsShort
  <2>2. ASSUME IsShort
        PROVE  AreBytes(page)' /\ Holds(page, Len(schema) + 1)'
    BY <1>1, <1>5, <2>2 DEF ReadInv, AreBytes, Holds
  <2>3. column' - 1 = column
    BY <1>2, <1>5
  <2> QED
    BY <1>5, <1>9, <2>1, <2>2, <2>3 DEF ReadInv, Values
<1> QED
  BY <1>1, <1>5, <1>7, <1>8, <1>10 DEF CodecInv, PageInv

LEMMA EndReadInv ==
  ASSUME CodecInv, EndRead
  PROVE  CodecInv'
<1>1. /\ TypeOK /\ PageInv /\ StartsInv /\ ReadInv /\ pc = "read"
  BY DEF CodecInv, EndRead
<1>2. TypeOK'
  BY <1>1 DEF EndRead, TypeOK
<1>3. StartsInv'
  BY <1>1 DEF EndRead, StartsInv
<1>4. ReadInv'
  BY <1>1 DEF EndRead, ReadInv, IsShort, AreBytes, Holds
<1> QED
  BY <1>1, <1>2, <1>3, <1>4 DEF CodecInv, EndRead, PageInv

LEMMA TextTooLongInv ==
  ASSUME CodecInv, TextTooLong
  PROVE  CodecInv'
<1>1. /\ TypeOK /\ PageInv /\ StartsInv /\ pc = "size"
  BY DEF CodecInv, TextTooLong
<1>2. TypeOK'
  BY <1>1 DEF TextTooLong, TypeOK
<1>3. StartsInv'
  BY <1>1 DEF TextTooLong, StartsInv
<1> QED
  BY <1>1, <1>2, <1>3 DEF CodecInv, TextTooLong, PageInv

-----------------------------------------------------------------------------
LEMMA CodecInvariant == Spec => []CodecInv
<1>1. CodecInv /\ [Next]_vars => CodecInv'
  <2> SUFFICES ASSUME CodecInv, [Next]_vars
               PROVE  CodecInv'
    OBVIOUS
  <2>1. CASE TextTooLong
    BY <2>1, TextTooLongInv
  <2>2. CASE SizeColumn
    BY <2>2, SizeColumnInv
  <2>3. CASE Allocate
    BY <2>3, AllocateInv
  <2>4. CASE WriteColumn
    BY <2>4, WriteColumnInv
  <2>5. CASE EndWrite
    BY <2>5, EndWriteInv
  <2>6. CASE Store
    BY <2>6, StoreInv
  <2>7. CASE ReadColumn
    BY <2>7, ReadColumnInv
  <2>8. CASE EndRead
    BY <2>8, EndReadInv
  <2>9. CASE UNCHANGED vars
    BY <2>9 DEF vars, CodecInv, TypeOK, PageInv, StartsInv, WriteInv, ReadInv,
                IsShort, AreBytes, Holds
  <2> QED
    BY <2>1, <2>2, <2>3, <2>4, <2>5, <2>6, <2>7, <2>8, <2>9 DEF Next, Step, Stop
<1> QED
  BY <1>1, InitInv, PTL DEF Spec

(* The variables keep their types for every schema and row, the read of a  *)
(* long row included, which may run into any bytes.                        *)
THEOREM RowCodecTyped == Spec => []TypeOK
<1>1. CodecInv => TypeOK
  BY DEF CodecInv
<1> QED
  BY <1>1, CodecInvariant, PTL

(* Of a row shorter than UINT16 bytes, each value is read as it was given  *)
(* to serializeRow.                                                        *)
THEOREM ShortRowsRoundTrip == Spec => []RoundTrip
<1>1. CodecInv => RoundTrip
  <2> SUFFICES ASSUME CodecInv, pc \in {"read", "done"}, IsShort
               PROVE  /\ Len(back) = column - 1
                      /\ \A i \in DOMAIN back : back[i] = row[i]
    BY DEF RoundTrip
  <2>1. ReadInv
    BY DEF CodecInv
  <2> QED
    BY <2>1 DEF ReadInv
<1> QED
  BY <1>1, CodecInvariant, PTL

(* deserializeRow, which is told no length, reads nothing behind such a    *)
(* row.                                                                    *)
THEOREM ShortRowsStayInside == Spec => []StaysInside
<1>1. CodecInv => StaysInside
  <2> SUFFICES ASSUME CodecInv, pc \in {"read", "done"}, IsShort
               PROVE  offset <= RowLen
    BY DEF StaysInside
  <2>1. TypeOK /\ StartsInv /\ ReadInv
    BY DEF CodecInv
  <2>2. IsRow(row, schema) /\ Len(schema) \in Nat /\ totalSize \in Nat
    BY <2>1, RowFacts DEF TypeOK
  <2>3. UINT16 \in Nat \ {0}
    BY SizesAssumption
  <2>4. RowLen = totalSize
    BY <2>2, <2>3, RemainderIsSame DEF RowLen, IsShort
  <2>5. Len(starts) = Len(schema) + 1 /\ column \in 1..Len(starts)
    BY <2>1, <2>2 DEF StartsInv, TypeOK
  <2>6. starts[column] <= totalSize
    BY <2>1, <2>2, <2>5 DEF StartsInv
  <2> QED
    BY <2>1, <2>4, <2>6 DEF ReadInv
<1> QED
  BY <1>1, CodecInvariant, PTL
=============================================================================
