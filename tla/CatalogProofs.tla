--------------------------- MODULE CatalogProofs ---------------------------
(***************************************************************************)
(* For all names, columns and old catalogs: what load makes of what save   *)
(* has written, in whole or in part, and the invariants of the catalog,    *)
(* its files and the open handles.                                         *)
(***************************************************************************)
EXTENDS Catalog, TLAPS, WellFoundedInduction

-----------------------------------------------------------------------------
(* Induction over the natural numbers, as a fact about sets of them.       *)

LEMMA NatInd ==
  ASSUME NEW S, 0 \in S, \A n \in S \cap Nat : n + 1 \in S
  PROVE  Nat \subseteq S
<1> SUFFICES ASSUME Nat \ S # {} PROVE FALSE
  OBVIOUS
<1>1. PICK T : T = Nat \ S
  OBVIOUS
<1>2. T \subseteq Nat /\ T # {}
  BY <1>1
<1>3. PICK x \in T : \A y \in T : ~ (<<y, x>> \in OpToRel(<, Nat))
  BY <1>2, NatLessThanWellFounded, WFMin
<1>4. x \in Nat /\ x # 0 /\ x - 1 \in Nat /\ x - 1 < x /\ (x - 1) + 1 = x
  BY <1>1, <1>2
<1>5. ASSUME x - 1 \in T
      PROVE  FALSE
  <2>1. ~ (<<x - 1, x>> \in OpToRel(<, Nat))
    BY <1>3, <1>5
  <2> QED
    BY <1>4, <2>1 DEF OpToRel
<1>6. x - 1 \in S \cap Nat
  BY <1>1, <1>4, <1>5
<1> QED
  BY <1>1, <1>4, <1>6

-----------------------------------------------------------------------------
(* load, line by line.                                                     *)

Run(f, lines) ==
  f = [i \in 0..Len(lines) |->
         IF i = 0 THEN NothingLoaded ELSE LoadLine(f[i - 1], lines[i])]

LEMMA LoadedIsRun ==
  ASSUME NEW lines, NEW g, Run(g, lines)
  PROVE  \E f : Run(f, lines) /\ Loaded(lines) = f[Len(lines)]
BY Zenon DEF Loaded, Run

LEMMA RunsAgree ==
  ASSUME NEW l1 \in Seq(Lines), NEW l2 \in Seq(Lines), NEW f, NEW g,
         Run(f, l1), Run(g, l2), Len(l1) <= Len(l2),
         \A i \in 1..Len(l1) : l1[i] = l2[i]
  PROVE  f[Len(l1)] = g[Len(l1)]
<1>1. PICK S : S = {i \in Nat : i <= Len(l1) => f[i] = g[i]}
  OBVIOUS
<1>2. Len(l1) \in Nat /\ Len(l2) \in Nat
  OBVIOUS
<1>3. /\ \A i \in 0..Len(l1) :
           f[i] = IF i = 0 THEN NothingLoaded ELSE LoadLine(f[i - 1], l1[i])
      /\ \A i \in 0..Len(l2) :
           g[i] = IF i = 0 THEN NothingLoaded ELSE LoadLine(g[i - 1], l2[i])
  BY DEF Run
<1>4. 0 \in S
  <2>1. f[0] = NothingLoaded
    BY <1>2, <1>3
  <2>2. g[0] = NothingLoaded
    BY <1>2, <1>3
  <2> QED
    BY <1>1, <2>1, <2>2
<1>5. ASSUME NEW n \in S \cap Nat
      PROVE  n + 1 \in S
  <2> SUFFICES ASSUME n + 1 <= Len(l1) PROVE f[n + 1] = g[n + 1]
    BY <1>1
  <2>1. f[n] = g[n]
    BY <1>1, <1>2
  <2>2. n + 1 \in 1..Len(l1) /\ n + 1 \in 0..Len(l1) /\ n + 1 \in 0..Len(l2)
        /\ n + 1 # 0 /\ (n + 1) - 1 = n
    BY <1>2
  <2>3. f[n + 1] = LoadLine(f[n], l1[n + 1])
    BY <1>3, <2>2
  <2>4. g[n + 1] = LoadLine(g[n], l2[n + 1])
    BY <1>3, <2>2
  <2> QED
    BY <2>1, <2>2, <2>3, <2>4
<1>6. Len(l1) \in S
  BY <1>2, <1>4, <1>5, NatInd
<1> QED
  BY <1>1, <1>2, <1>6

LEMMA RunGrows ==
  ASSUME NEW lines \in Seq(Lines), NEW line \in Lines, NEW f, Run(f, lines)
  PROVE  \E g : Run(g, Append(lines, line)) /\ g[Len(lines)] = f[Len(lines)]
<1>1. PICK n \in Nat : n = Len(lines)
  OBVIOUS
<1>2. PICK more \in Seq(Lines) : more = Append(lines, line)
  <2>1. Append(lines, line) \in Seq(Lines)
    OBVIOUS
  <2> QED
    BY <2>1
<1>3. Len(more) = n + 1 /\ more[n + 1] = line /\ \A i \in 1..n : more[i] = lines[i]
  BY <1>1, <1>2
<1>4. PICK g : g = [i \in 0..(n + 1) |-> IF i = n + 1 THEN LoadLine(f[n], line) ELSE f[i]]
  OBVIOUS
<1>5. \A i \in 0..n : f[i] = IF i = 0 THEN NothingLoaded ELSE LoadLine(f[i - 1], lines[i])
  BY <1>1 DEF Run
<1>6. ASSUME NEW i \in 0..(n + 1)
      PROVE  g[i] = IF i = 0 THEN NothingLoaded ELSE LoadLine(g[i - 1], more[i])
  <2>1. CASE i = n + 1
    <3>1. i # 0 /\ i - 1 = n /\ n \in 0..(n + 1) /\ n # n + 1
      BY <2>1
    <3> QED
      BY <1>3, <1>4, <2>1, <3>1
  <2>2. CASE i = 0
    <3>1. i \in 0..n /\ i # n + 1
      BY <2>2
    <3> QED
      BY <1>4, <1>5, <2>2, <3>1
  <2>3. CASE i \in 1..n
    <3>1. i \in 0..n /\ i # n + 1 /\ i # 0 /\ i - 1 \in 0..(n + 1) /\ i - 1 # n + 1
      BY <2>3
    <3>2. g[i] = f[i] /\ g[i - 1] = f[i - 1]
      BY <1>4, <3>1
    <3>3. f[i] = LoadLine(f[i - 1], lines[i])
      BY <1>5, <3>1
    <3> QED
      BY <1>3, <2>3, <3>1, <3>2, <3>3
  <2> QED
    BY <2>1, <2>2, <2>3
<1>7. g = [i \in 0..(n + 1) |-> IF i = 0 THEN NothingLoaded ELSE LoadLine(g[i - 1], more[i])]
  BY <1>4, <1>6
<1>8. Run(g, more)
  BY <1>3, <1>7 DEF Run
<1>9. g[n] = f[n]
  <2>1. n \in 0..(n + 1) /\ n # n + 1
    OBVIOUS
  <2> QED
    BY <1>4, <2>1
<1> QED
  BY <1>1, <1>2, <1>8, <1>9

LEMMA RunOfNothing ==
  \E f : Run(f, << >>)
<1>1. PICK f : f = [i \in 0..0 |-> NothingLoaded]
  OBVIOUS
<1>2. Len(<< >>) = 0 /\ \A i \in 0..0 : i = 0
  OBVIOUS
<1>3. f = [i \in 0..0 |-> IF i = 0 THEN NothingLoaded ELSE LoadLine(f[i - 1], << >>[i])]
  BY <1>1, <1>2
<1> QED
  BY <1>2, <1>3 DEF Run

LEMMA RunExists ==
  ASSUME NEW lines \in Seq(Lines)
  PROVE  \E f : Run(f, lines)
<1>1. PICK S : S = {n \in Nat : \A l \in Seq(Lines) : Len(l) = n => \E f : Run(f, l)}
  OBVIOUS
<1>2. 0 \in S
  <2>1. \A l \in Seq(Lines) : Len(l) = 0 => l = << >>
    OBVIOUS
  <2> QED
    BY <1>1, <2>1, RunOfNothing
<1>3. ASSUME NEW n \in S \cap Nat
      PROVE  n + 1 \in S
  <2> SUFFICES ASSUME NEW l \in Seq(Lines), Len(l) = n + 1 PROVE \E f : Run(f, l)
    BY <1>1
  <2>1. PICK front \in Seq(Lines), last \in Lines :
          l = Append(front, last) /\ Len(front) = n
    <3>1. SubSeq(l, 1, n) \in Seq(Lines) /\ Len(SubSeq(l, 1, n)) = n /\ l[n + 1] \in Lines
      OBVIOUS
    <3>2. l = Append(SubSeq(l, 1, n), l[n + 1])
      OBVIOUS
    <3> QED
      BY <3>1, <3>2
  <2>2. PICK f : Run(f, front)
    BY <1>1, <2>1
  <2> QED
    BY <2>1, <2>2, RunGrows
<1>4. Len(lines) \in Nat
  OBVIOUS
<1> QED
  BY <1>1, <1>2, <1>3, <1>4, NatInd

(* load reads one line after the other.                                    *)
LEMMA LoadedNothing == Loaded(<< >>) = NothingLoaded
<1>1. PICK f : Run(f, << >>) /\ Loaded(<< >>) = f[Len(<< >>)]
  BY RunOfNothing, LoadedIsRun
<1>2. Len(<< >>) = 0 /\ 0 \in 0..0
  OBVIOUS
<1> QED
  BY <1>1, <1>2 DEF Run

LEMMA LoadedAppend ==
  ASSUME NEW lines \in Seq(Lines), NEW line \in Lines
  PROVE  Loaded(Append(lines, line)) = LoadLine(Loaded(lines), line)
<1>1. PICK n \in Nat : n = Len(lines)
  OBVIOUS
<1>2. PICK more \in Seq(Lines) : more = Append(lines, line)
  <2>1. Append(lines, line) \in Seq(Lines)
    OBVIOUS
  <2> QED
    BY <2>1
<1>3. Len(more) = n + 1 /\ more[n + 1] = line /\ \A i \in 1..n : more[i] = lines[i]
  BY <1>1, <1>2
<1>4. PICK f : Run(f, lines) /\ Loaded(lines) = f[Len(lines)]
  BY RunExists, LoadedIsRun
<1>5. PICK g : Run(g, more) /\ Loaded(more) = g[Len(more)]
  BY RunExists, LoadedIsRun
<1>6. f[n] = g[n]
  BY <1>1, <1>3, <1>4, <1>5, RunsAgree
<1>7. g[n + 1] = LoadLine(g[n], more[n + 1])
  <2>1. n + 1 \in 0..(n + 1) /\ n + 1 # 0 /\ (n + 1) - 1 = n
    OBVIOUS
  <2> QED
    BY <1>3, <1>5, <2>1 DEF Run
<1> QED
  BY <1>1, <1>2, <1>3, <1>4, <1>5, <1>6, <1>7

-----------------------------------------------------------------------------
(* The lines of the tables, one table after the other.                     *)

Flat(f, parts) ==
  f = [i \in 1..Len(parts) |-> IF i = 1 THEN parts[i] ELSE f[i - 1] \o parts[i]]

LEMMA FlattenIsFlat ==
  ASSUME NEW parts, Len(parts) # 0, NEW g, Flat(g, parts)
  PROVE  \E f : Flat(f, parts) /\ FlattenSeq(parts) = f[Len(parts)]
BY Zenon DEF FlattenSeq, Flat

LEMMA FlatsAgree ==
  ASSUME NEW p1 \in Seq(Seq(Lines)), NEW p2 \in Seq(Seq(Lines)), NEW f, NEW g,
         Flat(f, p1), Flat(g, p2), Len(p1) <= Len(p2), Len(p1) # 0,
         \A i \in 1..Len(p1) : p1[i] = p2[i]
  PROVE  f[Len(p1)] = g[Len(p1)]
<1>1. PICK S : S = {i \in Nat : i + 1 <= Len(p1) => f[i + 1] = g[i + 1]}
  OBVIOUS
<1>2. Len(p1) \in Nat /\ Len(p2) \in Nat
  OBVIOUS
<1>3. /\ \A i \in 1..Len(p1) : f[i] = IF i = 1 THEN p1[i] ELSE f[i - 1] \o p1[i]
      /\ \A i \in 1..Len(p2) : g[i] = IF i = 1 THEN p2[i] ELSE g[i - 1] \o p2[i]
  BY DEF Flat
<1>4. 0 \in S
  <2>1. 1 \in 1..Len(p1) /\ 1 \in 1..Len(p2)
    BY <1>2
  <2>2. f[1] = p1[1] /\ g[1] = p2[1]
    BY <1>3, <2>1
  <2>3. f[1] = g[1]
    BY <2>1, <2>2
  <2> QED
    BY <1>1, <2>3
<1>5. ASSUME NEW n \in S \cap Nat
      PROVE  n + 1 \in S
  <2> SUFFICES ASSUME (n + 1) + 1 <= Len(p1) PROVE f[(n + 1) + 1] = g[(n + 1) + 1]
    BY <1>1
  <2>1. f[n + 1] = g[n + 1]
    BY <1>1, <1>2
  <2>2. PICK m \in Nat : m = n + 1
    OBVIOUS
  <2>3. m + 1 \in 1..Len(p1) /\ m + 1 \in 1..Len(p2) /\ m + 1 # 1 /\ (m + 1) - 1 = m
    <3>1. m >= 1
      BY <2>2
    <3>2. m + 1 <= Len(p1)
      BY <2>2
    <3>3. m + 1 <= Len(p2)
      BY <1>2, <3>2
    <3> QED
      BY <1>2, <3>1, <3>2, <3>3
  <2>4. f[m + 1] = f[m] \o p1[m + 1]
    BY <1>3, <2>3
  <2>5. g[m + 1] = g[m] \o p2[m + 1]
    BY <1>3, <2>3
  <2> QED
    BY <2>1, <2>2, <2>3, <2>4, <2>5
<1>6. Len(p1) - 1 \in Nat /\ (Len(p1) - 1) + 1 = Len(p1)
  BY <1>2
<1>7. Len(p1) - 1 \in S
  BY <1>4, <1>5, <1>6, NatInd
<1> QED
  BY <1>1, <1>2, <1>6, <1>7

LEMMA FlatGrows ==
  ASSUME NEW parts \in Seq(Seq(Lines)), NEW part \in Seq(Lines), NEW f,
         Flat(f, parts), Len(parts) # 0
  PROVE  \E g : Flat(g, Append(parts, part))
<1>1. PICK n \in Nat : n = Len(parts)
  OBVIOUS
<1>2. PICK more : more = Append(parts, part)
  OBVIOUS
<1>3. Len(more) = n + 1 /\ more[n + 1] = part /\ \A i \in 1..n : more[i] = parts[i]
  BY <1>1, <1>2
<1>4. PICK g : g = [i \in 1..(n + 1) |-> IF i = n + 1 THEN f[n] \o part ELSE f[i]]
  OBVIOUS
<1>5. \A i \in 1..n : f[i] = IF i = 1 THEN parts[i] ELSE f[i - 1] \o parts[i]
  BY <1>1 DEF Flat
<1>6. ASSUME NEW i \in 1..(n + 1)
      PROVE  g[i] = IF i = 1 THEN more[i] ELSE g[i - 1] \o more[i]
  <2>1. CASE i = n + 1
    <3>1. i # 1 /\ i - 1 = n /\ n \in 1..(n + 1) /\ n # n + 1
      BY <1>1, <2>1
    <3> QED
      BY <1>3, <1>4, <2>1, <3>1
  <2>2. CASE i # n + 1 /\ i = 1
    <3>1. i \in 1..n
      BY <2>2
    <3> QED
      BY <1>3, <1>4, <1>5, <2>2, <3>1
  <2>3. CASE i # n + 1 /\ i # 1
    <3>1. i \in 1..n /\ i - 1 \in 1..(n + 1) /\ i - 1 # n + 1
      BY <2>3
    <3>2. g[i] = f[i] /\ g[i - 1] = f[i - 1]
      BY <1>4, <2>3, <3>1
    <3>3. f[i] = f[i - 1] \o parts[i]
      BY <1>5, <2>3, <3>1
    <3> QED
      BY <1>3, <2>3, <3>1, <3>2, <3>3
  <2> QED
    BY <2>1, <2>2, <2>3
<1>7. g = [i \in 1..(n + 1) |-> IF i = 1 THEN more[i] ELSE g[i - 1] \o more[i]]
  BY <1>4, <1>6
<1>8. Flat(g, more)
  BY <1>3, <1>7 DEF Flat
<1> QED
  BY <1>2, <1>8

LEMMA FlatOfOne ==
  ASSUME NEW part
  PROVE  \E f : Flat(f, <<part>>)
<1>1. PICK f : f = [i \in 1..1 |-> part]
  OBVIOUS
<1>2. Len(<<part>>) = 1 /\ <<part>>[1] = part /\ \A i \in 1..1 : i = 1
  OBVIOUS
<1>3. f = [i \in 1..1 |-> IF i = 1 THEN <<part>>[i] ELSE f[i - 1] \o <<part>>[i]]
  BY <1>1, <1>2
<1> QED
  BY <1>2, <1>3 DEF Flat

LEMMA FlatExists ==
  ASSUME NEW parts \in Seq(Seq(Lines)), Len(parts) # 0
  PROVE  \E f : Flat(f, parts)
<1>1. PICK S : S = {n \in Nat : \A p \in Seq(Seq(Lines)) : Len(p) = n + 1 => \E f : Flat(f, p)}
  OBVIOUS
<1>2. 0 \in S
  <2> SUFFICES ASSUME NEW p \in Seq(Seq(Lines)), Len(p) = 1 PROVE \E f : Flat(f, p)
    BY <1>1
  <2>1. p = <<p[1]>>
    OBVIOUS
  <2> QED
    BY <2>1, FlatOfOne
<1>3. ASSUME NEW n \in S \cap Nat
      PROVE  n + 1 \in S
  <2> SUFFICES ASSUME NEW p \in Seq(Seq(Lines)), Len(p) = (n + 1) + 1 PROVE \E f : Flat(f, p)
    BY <1>1
  <2>1. PICK m \in Nat : m = n + 1
    OBVIOUS
  <2>2. PICK front \in Seq(Seq(Lines)), last \in Seq(Lines) :
          p = Append(front, last) /\ Len(front) = m
    <3>1. SubSeq(p, 1, m) \in Seq(Seq(Lines)) /\ Len(SubSeq(p, 1, m)) = m
          /\ p[m + 1] \in Seq(Lines)
      BY <2>1
    <3>2. p = Append(SubSeq(p, 1, m), p[m + 1])
      BY <2>1
    <3> QED
      BY <3>1, <3>2
  <2>3. PICK f : Flat(f, front)
    BY <1>1, <2>1, <2>2
  <2> QED
    BY <2>1, <2>2, <2>3, FlatGrows
<1>4. Len(parts) - 1 \in Nat /\ (Len(parts) - 1) + 1 = Len(parts)
  OBVIOUS
<1>5. Len(parts) - 1 \in S
  BY <1>2, <1>3, <1>4, NatInd
<1> QED
  BY <1>1, <1>4, <1>5

LEMMA FlattenAppend ==
  ASSUME NEW parts \in Seq(Seq(Lines)), NEW part \in Seq(Lines)
  PROVE  FlattenSeq(Append(parts, part)) =
           IF Len(parts) = 0 THEN part ELSE FlattenSeq(parts) \o part
<1>1. PICK n \in Nat : n = Len(parts)
  OBVIOUS
<1>2. PICK more \in Seq(Seq(Lines)) : more = Append(parts, part)
  <2>1. Append(parts, part) \in Seq(Seq(Lines))
    OBVIOUS
  <2> QED
    BY <2>1
<1>3. Len(more) = n + 1 /\ more[n + 1] = part /\ \A i \in 1..n : more[i] = parts[i]
  BY <1>1, <1>2
<1>4. PICK g : Flat(g, more) /\ FlattenSeq(more) = g[Len(more)]
  BY <1>3, FlatExists, FlattenIsFlat
<1>5. \A i \in 1..(n + 1) : g[i] = IF i = 1 THEN more[i] ELSE g[i - 1] \o more[i]
  BY <1>3, <1>4 DEF Flat
<1>6. n + 1 \in 1..(n + 1) /\ (n + 1) - 1 = n /\ (n + 1 = 1 <=> n = 0)
  OBVIOUS
<1>7. CASE n = 0
  BY <1>1, <1>2, <1>3, <1>4, <1>5, <1>6, <1>7
<1>8. CASE n # 0
  <2>1. PICK f : Flat(f, parts) /\ FlattenSeq(parts) = f[Len(parts)]
    BY <1>1, <1>8, FlatExists, FlattenIsFlat
  <2>2. f[n] = g[n]
    <3>1. Len(parts) # 0 /\ Len(parts) <= Len(more) /\ \A i \in 1..Len(parts) : parts[i] = more[i]
      BY <1>1, <1>3, <1>8
    <3>2. Flat(f, parts) /\ Flat(g, more)
      BY <1>4, <2>1
    <3>3. f[Len(parts)] = g[Len(parts)]
      BY <3>1, <3>2, FlatsAgree
    <3> QED
      BY <1>1, <3>3
  <2>3. g[n + 1] = g[n] \o more[n + 1]
    BY <1>5, <1>6, <1>8
  <2> QED
    BY <1>1, <1>2, <1>3, <1>4, <1>8, <2>1, <2>2, <2>3
<1> QED
  BY <1>7, <1>8

LEMMA LineTypes ==
  /\ \A n \in Names : [kind |-> "TABLE", name |-> n] \in Lines
  /\ \A n \in Names \cup {""} : [kind |-> "FILE", name |-> n] \in Lines
  /\ \A c \in Columns : [kind |-> "COLUMN", column |-> c] \in Lines
  /\ \A k \in {"END", "PART", "BAD TABLE", "BAD COLUMN", "BAD LENGTH"} : [kind |-> k] \in Lines
<1>1. \A n \in Names : [kind |-> "TABLE", name |-> n] \in [kind : {"TABLE"}, name : Names]
  OBVIOUS
<1>2. \A n \in Names \cup {""} :
        [kind |-> "FILE", name |-> n] \in [kind : {"FILE"}, name : Names \cup {""}]
  OBVIOUS
<1>3. \A c \in Columns :
        [kind |-> "COLUMN", column |-> c] \in [kind : {"COLUMN"}, column : Columns]
  OBVIOUS
<1>4. \A k \in {"END", "PART", "BAD TABLE", "BAD COLUMN", "BAD LENGTH"} :
        [kind |-> k] \in [kind : {"END", "PART", "BAD TABLE", "BAD COLUMN", "BAD LENGTH"}]
  OBVIOUS
<1> QED
  BY <1>1, <1>2, <1>3, <1>4, Zenon DEF Lines

LEMMA EmptyType ==
  ASSUME NEW S
  PROVE  << >> \in Seq(S)
OBVIOUS

LEMMA AppendType ==
  ASSUME NEW S, NEW s \in Seq(S), NEW e \in S
  PROVE  Append(s, e) \in Seq(S)
OBVIOUS

LEMMA Empty ==
  ASSUME NEW S, NEW s \in Seq(S), Len(s) = 0
  PROVE  s = << >>
OBVIOUS

LEMMA TableLinesType ==
  ASSUME NEW t \in TableSchemas
  PROVE  TableLines(t) \in Seq(Lines)
<1>1. /\ t.name \in Names /\ t.columns \in Seq(Columns) /\ t.filePath \in Names \cup {""}
  BY DEF TableSchemas
<1>2. << [kind |-> "TABLE", name |-> t.name] >> \in Seq(Lines)
  <2>1. [kind |-> "TABLE", name |-> t.name] \in Lines
    BY <1>1, LineTypes
  <2> QED
    BY <2>1
<1>3. << [kind |-> "FILE", name |-> t.filePath], [kind |-> "END"] >> \in Seq(Lines)
  <2>1. [kind |-> "FILE", name |-> t.filePath] \in Lines /\ [kind |-> "END"] \in Lines
    BY <1>1, LineTypes
  <2> QED
    BY <2>1
<1>4. [c \in DOMAIN t.columns |-> [kind |-> "COLUMN", column |-> t.columns[c]]] \in Seq(Lines)
  <2>1. PICK columns \in Seq(Columns) : columns = t.columns
    BY <1>1
  <2>2. DOMAIN columns = 1..Len(columns) /\ Len(columns) \in Nat
        /\ \A c \in 1..Len(columns) : columns[c] \in Columns
    OBVIOUS
  <2>3. \A c \in 1..Len(columns) : [kind |-> "COLUMN", column |-> columns[c]] \in Lines
    BY <2>2, LineTypes
  <2>4. [c \in 1..Len(columns) |-> [kind |-> "COLUMN", column |-> columns[c]]] \in Seq(Lines)
    BY <2>2, <2>3
  <2> QED
    BY <2>1, <2>2, <2>4
<1> QED
  BY <1>2, <1>3, <1>4 DEF TableLines

LEMMA CatalogLinesNothing == CatalogLines(<< >>) = << >>
<1>1. [i \in DOMAIN << >> |-> TableLines(<< >>[i])] = << >>
  OBVIOUS
<1>2. FlattenSeq(<< >>) = << >>
  BY DEF FlattenSeq
<1> QED
  BY <1>1, <1>2 DEF CatalogLines

LEMMA CatalogLinesAppend ==
  ASSUME NEW schemas \in Seq(TableSchemas), NEW t \in TableSchemas,
         CatalogLines(schemas) \in Seq(Lines)
  PROVE  /\ CatalogLines(Append(schemas, t)) = CatalogLines(schemas) \o TableLines(t)
         /\ CatalogLines(Append(schemas, t)) \in Seq(Lines)
<1>1. PICK more : more = Append(schemas, t)
  OBVIOUS
<1>2. PICK parts : parts = [i \in DOMAIN schemas |-> TableLines(schemas[i])]
  OBVIOUS
<1>3. PICK n \in Nat : n = Len(schemas)
  OBVIOUS
<1>4. DOMAIN schemas = 1..n /\ DOMAIN more = 1..(n + 1) /\ Len(more) = n + 1
      /\ more[n + 1] = t /\ \A i \in 1..n : more[i] = schemas[i]
  BY <1>1, <1>3
<1>5. parts \in Seq(Seq(Lines)) /\ Len(parts) = n
  <2>1. \A i \in 1..n : TableLines(schemas[i]) \in Seq(Lines)
    BY <1>3, TableLinesType
  <2>2. parts \in [1..n -> Seq(Lines)]
    BY <1>2, <1>4, <2>1
  <2> QED
    BY <1>3, <2>2
<1>6. TableLines(t) \in Seq(Lines)
  BY TableLinesType
<1>7. [i \in DOMAIN more |-> TableLines(more[i])] = Append(parts, TableLines(t))
  BY <1>2, <1>3, <1>4, <1>5, <1>6
<1>8. CatalogLines(more) = IF n = 0 THEN TableLines(t) ELSE CatalogLines(schemas) \o TableLines(t)
  BY <1>2, <1>5, <1>6, <1>7, FlattenAppend DEF CatalogLines
<1>9. CASE n = 0
  <2>1. schemas = << >>
    BY <1>3, <1>9, Empty
  <2>2. << >> \o TableLines(t) = TableLines(t)
    BY <1>6
  <2> QED
    BY <1>1, <1>6, <1>8, <1>9, <2>1, <2>2, CatalogLinesNothing
<1>10. CASE n # 0
  BY <1>1, <1>6, <1>8, <1>10
<1> QED
  BY <1>9, <1>10

-----------------------------------------------------------------------------
(* What load has after a number of lines: between two tables, or in one.   *)

Accs ==
  [tables : Seq(TableSchemas), open : BOOLEAN, err : BOOLEAN,
   table : [name : Names \cup {""}, columns : Seq(Columns), filePath : Names \cup {""}]]

Between(acc, schemas) ==
  acc \in Accs /\ acc.tables = schemas /\ acc.open = FALSE /\ acc.err = FALSE

Within(acc, schemas, n, columns, path) ==
  /\ acc \in Accs /\ acc.tables = schemas /\ acc.open = TRUE /\ acc.err = FALSE
  /\ acc.table.name = n /\ acc.table.columns = columns /\ acc.table.filePath = path

Failed(acc, schemas) == acc.err = TRUE /\ acc.tables = schemas

LEMMA LoadBetween ==
  ASSUME NEW acc, NEW schemas \in Seq(TableSchemas), Between(acc, schemas)
  PROVE  /\ \A n \in Names :
              Within(LoadLine(acc, [kind |-> "TABLE", name |-> n]), schemas, n, << >>, "")
         /\ Failed(LoadLine(acc, [kind |-> "BAD TABLE"]), schemas)
         /\ LoadLine(acc, [kind |-> "PART"]) = acc
<1>1. acc \in Accs /\ acc.tables = schemas /\ acc.open = FALSE /\ acc.err = FALSE
  BY DEF Between
<1>2. ASSUME NEW n \in Names
      PROVE  Within(LoadLine(acc, [kind |-> "TABLE", name |-> n]), schemas, n, << >>, "")
  <2>1. PICK next : next = [acc EXCEPT !.open = TRUE,
                              !.table = [name |-> n, columns |-> << >>, filePath |-> ""]]
    OBVIOUS
  <2>2. LoadLine(acc, [kind |-> "TABLE", name |-> n]) = next
    BY <1>1, <2>1 DEF LoadLine
  <2>3. << >> \in Seq(Columns)
    BY EmptyType
  <2>4. next \in Accs
    BY <1>1, <2>1, <2>3 DEF Accs
  <2>5. next.tables = schemas /\ next.open = TRUE /\ next.err = FALSE
        /\ next.table.name = n /\ next.table.columns = << >> /\ next.table.filePath = ""
    BY <1>1, <2>1 DEF Accs
  <2> QED
    BY <2>2, <2>4, <2>5 DEF Within
<1>3. Failed(LoadLine(acc, [kind |-> "BAD TABLE"]), schemas)
  <2>1. LoadLine(acc, [kind |-> "BAD TABLE"]) = [acc EXCEPT !.err = TRUE]
    BY <1>1 DEF LoadLine
  <2> QED
    BY <1>1, <2>1 DEF Failed, Accs
<1>4. LoadLine(acc, [kind |-> "PART"]) = acc
  BY <1>1 DEF LoadLine
<1> QED
  BY <1>2, <1>3, <1>4

LEMMA LoadWithin ==
  ASSUME NEW acc, NEW schemas \in Seq(TableSchemas), NEW n \in Names,
         NEW columns \in Seq(Columns), NEW path \in Names \cup {""},
         Within(acc, schemas, n, columns, path)
  PROVE  /\ \A c \in Columns :
              Within(LoadLine(acc, [kind |-> "COLUMN", column |-> c]), schemas,
                     n, Append(columns, c), path)
         /\ \A p \in Names \cup {""} :
              Within(LoadLine(acc, [kind |-> "FILE", name |-> p]), schemas, n, columns, p)
         /\ Between(LoadLine(acc, [kind |-> "END"]),
                    Append(schemas, [name |-> n, columns |-> columns, filePath |-> path]))
         /\ Failed(LoadLine(acc, [kind |-> "BAD COLUMN"]), schemas)
         /\ LoadLine(acc, [kind |-> "PART"]) = acc
<1>1. PICK t : t = [name |-> n, columns |-> columns, filePath |-> path]
  OBVIOUS
<1>2. /\ acc \in Accs /\ acc.tables = schemas /\ acc.open = TRUE /\ acc.err = FALSE
      /\ acc.table.name = n /\ acc.table.columns = columns /\ acc.table.filePath = path
  BY DEF Within
<1>3. ASSUME NEW c \in Columns
      PROVE  Within(LoadLine(acc, [kind |-> "COLUMN", column |-> c]), schemas,
                    n, Append(columns, c), path)
  <2>1. PICK more \in Seq(Columns) : more = Append(columns, c)
    BY AppendType
  <2>2. PICK next : next = [acc EXCEPT !.table.columns = more]
    OBVIOUS
  <2>3. LoadLine(acc, [kind |-> "COLUMN", column |-> c])
          = [acc EXCEPT !.table.columns = Append(@, c)]
    BY <1>2 DEF LoadLine
  <2>4. LoadLine(acc, [kind |-> "COLUMN", column |-> c]) = next
    BY <1>2, <1>3, <2>1, <2>2, <2>3 DEF Accs
  <2>5. next \in Accs
    BY <1>2, <2>2 DEF Accs
  <2>6. next.table.name = n /\ next.table.columns = more /\ next.table.filePath = path
    BY <1>2, <2>2 DEF Accs
  <2>7. next.tables = schemas /\ next.open = TRUE /\ next.err = FALSE
    BY <1>2, <2>2 DEF Accs
  <2> QED
    BY <2>1, <2>4, <2>5, <2>6, <2>7 DEF Within
<1>4. ASSUME NEW p \in Names \cup {""}
      PROVE  Within(LoadLine(acc, [kind |-> "FILE", name |-> p]), schemas, n, columns, p)
  <2>1. PICK next : next = [acc EXCEPT !.table.filePath = p]
    OBVIOUS
  <2>2. LoadLine(acc, [kind |-> "FILE", name |-> p]) = next
    BY <1>2, <2>1 DEF LoadLine
  <2>3. next \in Accs
    BY <1>2, <2>1 DEF Accs
  <2>4. next.table.name = n /\ next.table.columns = columns /\ next.table.filePath = p
    BY <1>2, <2>1 DEF Accs
  <2>5. next.tables = schemas /\ next.open = TRUE /\ next.err = FALSE
    BY <1>2, <2>1 DEF Accs
  <2> QED
    BY <2>2, <2>3, <2>4, <2>5 DEF Within
<1>5. Between(LoadLine(acc, [kind |-> "END"]), Append(schemas, t))
  <2>1. PICK next : next = [acc EXCEPT !.open = FALSE, !.tables = Append(@, acc.table)]
    OBVIOUS
  <2>2. LoadLine(acc, [kind |-> "END"]) = next
    BY <1>2, <2>1 DEF LoadLine
  <2>3. t \in TableSchemas /\ acc.table = t
    BY <1>1, <1>2 DEF TableSchemas, Accs
  <2>4. Append(schemas, t) \in Seq(TableSchemas)
    BY <2>3, AppendType
  <2>5. next.tables = Append(schemas, t) /\ next.open = FALSE /\ next.err = FALSE
    BY <1>2, <2>1, <2>3 DEF Accs
  <2>6. next \in Accs
    BY <1>2, <2>1, <2>4, <2>5 DEF Accs
  <2> QED
    BY <2>2, <2>5, <2>6 DEF Between
<1>6. Failed(LoadLine(acc, [kind |-> "BAD COLUMN"]), schemas)
  <2>1. LoadLine(acc, [kind |-> "BAD COLUMN"]) = [acc EXCEPT !.err = TRUE]
    BY <1>2 DEF LoadLine
  <2> QED
    BY <1>2, <2>1 DEF Failed, Accs
<1>7. LoadLine(acc, [kind |-> "PART"]) = acc
  BY <1>2 DEF LoadLine
<1> QED
  BY <1>1, <1>3, <1>4, <1>5, <1>6, <1>7

-----------------------------------------------------------------------------
(* The lines of one table, read one by one and cut short anywhere.         *)

LEMMA PrefixGrows ==
  ASSUME NEW S, NEW l \in Seq(S), NEW m \in Seq(S)
  PROVE  /\ \A k \in 0..Len(m) : l \o SubSeq(m, 1, k) \in Seq(S)
         /\ l \o SubSeq(m, 1, 0) = l
         /\ l \o SubSeq(m, 1, Len(m)) = l \o m
<1>1. \A k \in 0..Len(m) : l \o SubSeq(m, 1, k) \in Seq(S)
  OBVIOUS
<1>2. l \o SubSeq(m, 1, 0) = l
  OBVIOUS
<1>3. SubSeq(m, 1, Len(m)) = m
  OBVIOUS
<1> QED
  BY <1>1, <1>2, <1>3, Zenon

LEMMA PrefixAppends ==
  ASSUME NEW l \in Seq(Lines), NEW m \in Seq(Lines), NEW k \in 0..(Len(m) - 1)
  PROVE  l \o SubSeq(m, 1, k + 1) = Append(l \o SubSeq(m, 1, k), m[k + 1])
<1>1. SubSeq(m, 1, k) \in Seq(Lines) /\ m[k + 1] \in Lines
  OBVIOUS
<1>2. SubSeq(m, 1, k + 1) = Append(SubSeq(m, 1, k), m[k + 1])
  OBVIOUS
<1>3. \A a \in Seq(Lines), e \in Lines : l \o Append(a, e) = Append(l \o a, e)
  OBVIOUS
<1> QED
  BY <1>1, <1>2, <1>3, Zenon

LEMMA TableLineAt ==
  ASSUME NEW t \in TableSchemas, NEW n, n = Len(t.columns)
  PROVE  /\ n \in Nat /\ Len(TableLines(t)) = n + 3
         /\ TableLines(t)[1] = [kind |-> "TABLE", name |-> t.name]
         /\ \A k \in 1..n :
              TableLines(t)[k + 1] = [kind |-> "COLUMN", column |-> t.columns[k]]
         /\ TableLines(t)[n + 2] = [kind |-> "FILE", name |-> t.filePath]
         /\ TableLines(t)[n + 3] = [kind |-> "END"]
<1>1. /\ t.name \in Names /\ t.columns \in Seq(Columns) /\ t.filePath \in Names \cup {""}
  BY DEF TableSchemas
<1>2. PICK columns \in Seq(Columns) : columns = t.columns
  BY <1>1
<1>3. PICK first \in Lines : first = [kind |-> "TABLE", name |-> t.name]
  BY <1>1, LineTypes
<1>4. PICK file \in Lines : file = [kind |-> "FILE", name |-> t.filePath]
  BY <1>1, LineTypes
<1>5. PICK end \in Lines : end = [kind |-> "END"]
  BY LineTypes
<1>6. n \in Nat /\ DOMAIN columns = 1..n /\ \A c \in 1..n : columns[c] \in Columns
  BY <1>2
<1>7. PICK middle :
        middle = [c \in DOMAIN t.columns |-> [kind |-> "COLUMN", column |-> t.columns[c]]]
  OBVIOUS
<1>8. /\ middle \in Seq(Lines) /\ Len(middle) = n
      /\ \A k \in 1..n : middle[k] = [kind |-> "COLUMN", column |-> t.columns[k]]
  <2>1. DOMAIN middle = 1..n
    BY <1>2, <1>6, <1>7
  <2>2. \A k \in 1..n : middle[k] = [kind |-> "COLUMN", column |-> t.columns[k]]
    BY <1>2, <1>6, <1>7
  <2>3. \A k \in 1..n : middle[k] \in Lines
    BY <1>2, <1>6, <2>2, LineTypes
  <2>4. middle = [k \in 1..n |-> middle[k]]
    BY <1>7, <2>1
  <2>5. middle \in [1..n -> Lines]
    BY <2>3, <2>4
  <2>6. n \in Nat
    BY <1>6
  <2> QED
    BY <2>2, <2>5, <2>6
<1>9. TableLines(t) = <<first>> \o middle \o <<file, end>>
  BY <1>3, <1>4, <1>5, <1>7 DEF TableLines
<1>10. PICK all : all = <<first>> \o middle \o <<file, end>>
  OBVIOUS
<1>11. /\ Len(all) = n + 3 /\ all[1] = first /\ all[n + 2] = file /\ all[n + 3] = end
       /\ \A k \in 1..n : all[k + 1] = middle[k]
  <2>1. PICK front : front = <<first>> \o middle
    OBVIOUS
  <2>2. front \in Seq(Lines) /\ Len(front) = n + 1 /\ front[1] = first
        /\ \A k \in 1..n : front[k + 1] = middle[k]
    BY <1>6, <1>8, <2>1
  <2>3. all = front \o <<file, end>>
    BY <1>10, <2>1
  <2>4. Len(all) = n + 3
    BY <1>6, <2>2, <2>3
  <2>5. all[n + 2] = file /\ all[n + 3] = end
    <3>1. <<file, end>>[1] = file /\ <<file, end>>[2] = end /\ Len(<<file, end>>) = 2
      OBVIOUS
    <3>2. \A i \in 1..2 : (front \o <<file, end>>)[(n + 1) + i] = <<file, end>>[i]
      BY <1>6, <2>2
    <3>3. (n + 1) + 1 = n + 2 /\ (n + 1) + 2 = n + 3 /\ 1 \in 1..2 /\ 2 \in 1..2
      BY <1>6
    <3>4. all[(n + 1) + 1] = file /\ all[(n + 1) + 2] = end
      BY <2>3, <3>1, <3>2, <3>3
    <3> QED
      BY <3>3, <3>4
  <2>6. \A k \in 1..(n + 1) : all[k] = front[k]
    BY <1>6, <2>2, <2>3
  <2>7. 1 \in 1..(n + 1) /\ \A k \in 1..n : k + 1 \in 1..(n + 1)
    BY <1>6
  <2> QED
    BY <2>2, <2>4, <2>5, <2>6, <2>7
<1> QED
  BY <1>3, <1>4, <1>5, <1>6, <1>8, <1>9, <1>10, <1>11

LEMMA ReadTable ==
  ASSUME NEW lines \in Seq(Lines), NEW schemas \in Seq(TableSchemas),
         Between(Loaded(lines), schemas), NEW t \in TableSchemas,
         NEW n, n = Len(t.columns)
  PROVE  /\ \A k \in 0..n :
              Within(Loaded(lines \o SubSeq(TableLines(t), 1, k + 1)), schemas,
                     t.name, SubSeq(t.columns, 1, k), "")
         /\ Within(Loaded(lines \o SubSeq(TableLines(t), 1, n + 2)), schemas,
                   t.name, t.columns, t.filePath)
         /\ Between(Loaded(lines \o TableLines(t)), Append(schemas, t))
<1>1. /\ t.name \in Names /\ t.columns \in Seq(Columns) /\ t.filePath \in Names \cup {""}
  BY DEF TableSchemas
<1>2. PICK all \in Seq(Lines) : all = TableLines(t)
  BY TableLinesType
<1>3. /\ n \in Nat /\ Len(all) = n + 3
      /\ all[1] = [kind |-> "TABLE", name |-> t.name]
      /\ \A k \in 1..n : all[k + 1] = [kind |-> "COLUMN", column |-> t.columns[k]]
      /\ all[n + 2] = [kind |-> "FILE", name |-> t.filePath]
      /\ all[n + 3] = [kind |-> "END"]
  BY <1>2, TableLineAt
<1>4. ASSUME NEW k \in 0..(n + 2)
      PROVE  /\ lines \o SubSeq(all, 1, k) \in Seq(Lines) /\ all[k + 1] \in Lines
             /\ Loaded(lines \o SubSeq(all, 1, k + 1))
                  = LoadLine(Loaded(lines \o SubSeq(all, 1, k)), all[k + 1])
  <2>1. k \in 0..(Len(all) - 1) /\ k \in 0..Len(all) /\ k + 1 \in 1..Len(all)
    BY <1>3
  <2>2. lines \o SubSeq(all, 1, k) \in Seq(Lines) /\ all[k + 1] \in Lines
    <3>1. all[k + 1] \in Lines
      BY <2>1
    <3>2. lines \o SubSeq(all, 1, k) \in Seq(Lines)
      BY <2>1, PrefixGrows
    <3> QED
      BY <3>1, <3>2
  <2>3. lines \o SubSeq(all, 1, k + 1) = Append(lines \o SubSeq(all, 1, k), all[k + 1])
    BY <2>1, PrefixAppends
  <2> QED
    BY <2>2, <2>3, LoadedAppend
<1>5. PICK columns \in Seq(Columns) : columns = t.columns
  BY <1>1
<1>6. \A k \in 0..n : SubSeq(columns, 1, k) \in Seq(Columns)
  BY <1>3, <1>5
<1> DEFINE Read(k) == Within(Loaded(lines \o SubSeq(all, 1, k + 1)), schemas,
                             t.name, SubSeq(columns, 1, k), "")
<1>7. "" \in Names \cup {""} /\ \A k \in Nat : (k + 1) + 1 = k + 2
  OBVIOUS
<1>8. Read(0)
  <2>1. 0 \in 0..(n + 2) /\ 0 + 1 = 1
    BY <1>3
  <2>2. lines \o SubSeq(all, 1, 0) = lines
    BY PrefixGrows
  <2>3. Loaded(lines \o SubSeq(all, 1, 1)) = LoadLine(Loaded(lines), all[1])
    BY <1>4, <2>1, <2>2
  <2>4. SubSeq(columns, 1, 0) = << >>
    OBVIOUS
  <2>5. Within(Loaded(lines \o SubSeq(all, 1, 1)), schemas, t.name, << >>, "")
    BY <1>1, <1>3, <2>3, LoadBetween
  <2> QED
    BY <2>1, <2>4, <2>5
<1>9. ASSUME NEW k \in 0..(n - 1), Read(k)
      PROVE  Read(k + 1)
  <2>1. k + 1 \in 0..(n + 2) /\ k + 1 \in 1..n /\ k \in 0..n
    BY <1>3
  <2>2. PICK acc : acc = Loaded(lines \o SubSeq(all, 1, k + 1))
    OBVIOUS
  <2>3. PICK part \in Seq(Columns) : part = SubSeq(columns, 1, k)
    BY <1>6, <2>1
  <2>4. Within(acc, schemas, t.name, part, "")
    BY <1>9, <2>2, <2>3
  <2>5. Loaded(lines \o SubSeq(all, 1, (k + 1) + 1)) = LoadLine(acc, all[(k + 1) + 1])
    BY <1>4, <2>1, <2>2
  <2>6. all[(k + 1) + 1] = [kind |-> "COLUMN", column |-> columns[k + 1]]
    BY <1>3, <1>5, <2>1
  <2>7. columns[k + 1] \in Columns
    BY <1>3, <1>5, <2>1
  <2>8. SubSeq(columns, 1, k + 1) = Append(part, columns[k + 1])
    BY <1>3, <1>5, <2>1, <2>3
  <2>9. Within(LoadLine(acc, [kind |-> "COLUMN", column |-> columns[k + 1]]), schemas,
               t.name, Append(part, columns[k + 1]), "")
    BY <1>1, <1>7, <2>4, <2>7, LoadWithin
  <2> QED
    BY <2>5, <2>6, <2>8, <2>9
<1>10. \A k \in 0..n : Read(k)
  <2> HIDE DEF Read
  <2>1. PICK S : S = {k \in Nat : k <= n => Read(k)}
    OBVIOUS
  <2>2. 0 \in S
    BY <1>8, <2>1
  <2>3. ASSUME NEW k \in S \cap Nat
        PROVE  k + 1 \in S
    BY <1>3, <1>9, <2>1
  <2>4. Nat \subseteq S
    BY <2>2, <2>3, NatInd
  <2> QED
    BY <1>3, <2>1, <2>4
<1>11. Within(Loaded(lines \o SubSeq(all, 1, n + 2)), schemas, t.name, columns, t.filePath)
  <2>1. n + 1 \in 0..(n + 2) /\ (n + 1) + 1 = n + 2 /\ n \in 0..n
    BY <1>3
  <2>2. SubSeq(columns, 1, n) = columns
    BY <1>5
  <2>3. Within(Loaded(lines \o SubSeq(all, 1, n + 1)), schemas, t.name, columns, "")
    BY <1>10, <2>1, <2>2
  <2>4. Loaded(lines \o SubSeq(all, 1, n + 2))
          = LoadLine(Loaded(lines \o SubSeq(all, 1, n + 1)), all[n + 2])
    BY <1>4, <2>1
  <2>5. "" \in Names \cup {""}
    OBVIOUS
  <2>6. PICK acc : acc = Loaded(lines \o SubSeq(all, 1, n + 1))
    OBVIOUS
  <2>7. Within(acc, schemas, t.name, columns, "")
    BY <2>3, <2>6
  <2>8. Within(LoadLine(acc, [kind |-> "FILE", name |-> t.filePath]), schemas,
               t.name, columns, t.filePath)
    BY <1>1, <2>5, <2>7, LoadWithin
  <2> QED
    BY <1>3, <2>4, <2>6, <2>8
<1>12. Between(Loaded(lines \o all), Append(schemas, t))
  <2>1. n + 2 \in 0..(n + 2) /\ (n + 2) + 1 = n + 3
    BY <1>3
  <2>2. lines \o SubSeq(all, 1, n + 3) = lines \o all
    <3>1. lines \o SubSeq(all, 1, Len(all)) = lines \o all
      BY PrefixGrows
    <3> QED
      BY <1>3, <3>1
  <2>3. Loaded(lines \o all)
          = LoadLine(Loaded(lines \o SubSeq(all, 1, n + 2)), [kind |-> "END"])
    BY <1>3, <1>4, <2>1, <2>2
  <2>4. t = [name |-> t.name, columns |-> columns, filePath |-> t.filePath]
    BY <1>5 DEF TableSchemas
  <2>5. PICK acc : acc = Loaded(lines \o SubSeq(all, 1, n + 2))
    OBVIOUS
  <2>6. Between(LoadLine(acc, [kind |-> "END"]),
                Append(schemas, [name |-> t.name, columns |-> columns, filePath |-> t.filePath]))
    BY <1>1, <1>11, <2>5, LoadWithin
  <2> QED
    BY <2>3, <2>4, <2>5, <2>6
<1> QED
  BY <1>2, <1>5, <1>10, <1>11, <1>12

LEMMA OneMore ==
  ASSUME NEW S, NEW l \in Seq(S)
  PROVE  l \o << >> = l /\ \A e \in S : l \o <<e>> = Append(l, e)
OBVIOUS

(* What load returns.                                                      *)
LEMMA LoadOf ==
  ASSUME NEW lines, NEW schemas \in Seq(TableSchemas)
  PROVE  /\ Between(Loaded(lines), schemas) => load(lines) = schemas
         /\ Failed(Loaded(lines), schemas) => load(lines) = schemas
BY DEF Between, Failed, load

LEMMA LoadOfWithin ==
  ASSUME NEW lines, NEW schemas \in Seq(TableSchemas), NEW n \in Names,
         NEW columns \in Seq(Columns), NEW path \in Names \cup {""},
         Within(Loaded(lines), schemas, n, columns, path)
  PROVE  \E u \in TableSchemas :
           /\ u.name = n /\ u.columns = columns /\ u.filePath = path
           /\ load(lines) = Append(schemas, u)
<1>1. PICK acc : acc = Loaded(lines)
  OBVIOUS
<1>2. /\ acc \in Accs /\ acc.tables = schemas /\ acc.open = TRUE /\ acc.err = FALSE
      /\ acc.table.name = n /\ acc.table.columns = columns /\ acc.table.filePath = path
  BY <1>1 DEF Within
<1>3. acc.table \in TableSchemas
  BY <1>2 DEF Accs, TableSchemas
<1>4. load(lines) = Append(schemas, acc.table)
  BY <1>1, <1>2 DEF load
<1> QED
  BY <1>2, <1>3, <1>4

LEMMA PartsAre ==
  /\ \A n \in Names : \A part \in Parts([kind |-> "TABLE", name |-> n]) :
       \/ part = << >> \/ part = << [kind |-> "PART"] >> \/ part = << [kind |-> "BAD TABLE"] >>
       \/ \E m \in Names : part = << [kind |-> "TABLE", name |-> m] >>
  /\ \A c \in Columns : \A part \in Parts([kind |-> "COLUMN", column |-> c]) :
       \/ part = << >> \/ part = << [kind |-> "PART"] >> \/ part = << [kind |-> "BAD COLUMN"] >>
       \/ \E d \in Columns : part = << [kind |-> "COLUMN", column |-> d] >>
  /\ \A n \in Names \cup {""} : \A part \in Parts([kind |-> "FILE", name |-> n]) :
       part = << >> \/ part = << [kind |-> "PART"] >>
  /\ \A part \in Parts([kind |-> "END"]) : part = << >> \/ part = << [kind |-> "PART"] >>
<1>1. ASSUME NEW n \in Names, NEW part \in Parts([kind |-> "TABLE", name |-> n])
      PROVE  \/ part = << >> \/ part = << [kind |-> "PART"] >>
             \/ part = << [kind |-> "BAD TABLE"] >>
             \/ \E m \in Names : part = << [kind |-> "TABLE", name |-> m] >>
  <2>1. nameParts[n] \subseteq Names
    BY NamesAssumption
  <2> QED
    BY <1>1, <2>1 DEF Parts
<1>2. ASSUME NEW c \in Columns, NEW part \in Parts([kind |-> "COLUMN", column |-> c])
      PROVE  \/ part = << >> \/ part = << [kind |-> "PART"] >>
             \/ part = << [kind |-> "BAD COLUMN"] >>
             \/ \E d \in Columns : part = << [kind |-> "COLUMN", column |-> d] >>
  <2>1. columnParts[c] \subseteq Columns
    BY ColumnsAssumption
  <2> QED
    BY <1>2, <2>1 DEF Parts
<1>3. \A n \in Names \cup {""} : \A part \in Parts([kind |-> "FILE", name |-> n]) :
        part = << >> \/ part = << [kind |-> "PART"] >>
  BY DEF Parts
<1>4. \A part \in Parts([kind |-> "END"]) : part = << >> \/ part = << [kind |-> "PART"] >>
  BY DEF Parts
<1> QED
  BY <1>1, <1>2, <1>3, <1>4

(* A table that is cut short is loaded whole, not at all, or as one that   *)
(* has no file.                                                            *)
Kept(loaded, schemas, t) ==
  \/ loaded = schemas \/ loaded = Append(schemas, t)
  \/ \E u \in TableSchemas : u.filePath = "" /\ loaded = Append(schemas, u)

LEMMA CutBetween ==
  ASSUME NEW lines \in Seq(Lines), NEW schemas \in Seq(TableSchemas),
         Between(Loaded(lines), schemas), NEW t \in TableSchemas,
         NEW part \in Parts([kind |-> "TABLE", name |-> t.name])
  PROVE  Kept(load(lines \o part), schemas, t)
<1>1. t.name \in Names
  BY DEF TableSchemas
<1>2. load(lines) = schemas
  BY LoadOf
<1>3. CASE part = << >>
  BY <1>2, <1>3 DEF Kept
<1>4. CASE part = << [kind |-> "PART"] >>
  <2>1. PICK line \in Lines : line = [kind |-> "PART"]
    BY LineTypes
  <2>2. Loaded(Append(lines, line)) = Loaded(lines)
    BY <2>1, LoadedAppend, LoadBetween
  <2>3. load(Append(lines, line)) = schemas
    BY <2>2, LoadOf
  <2>4. lines \o part = Append(lines, line)
    BY <1>4, <2>1, OneMore
  <2> QED
    BY <2>3, <2>4 DEF Kept
<1>5. CASE part = << [kind |-> "BAD TABLE"] >>
  <2>1. PICK line \in Lines : line = [kind |-> "BAD TABLE"]
    BY LineTypes
  <2>2. Failed(Loaded(Append(lines, line)), schemas)
    BY <2>1, LoadedAppend, LoadBetween
  <2>3. load(Append(lines, line)) = schemas
    BY <2>2, LoadOf
  <2>4. lines \o part = Append(lines, line)
    BY <1>5, <2>1, OneMore
  <2> QED
    BY <2>3, <2>4 DEF Kept
<1>6. ASSUME NEW m \in Names, part = << [kind |-> "TABLE", name |-> m] >>
      PROVE  Kept(load(lines \o part), schemas, t)
  <2>1. PICK line \in Lines : line = [kind |-> "TABLE", name |-> m]
    BY LineTypes
  <2>2. Within(Loaded(Append(lines, line)), schemas, m, << >>, "")
    BY <2>1, LoadedAppend, LoadBetween
  <2>3. << >> \in Seq(Columns) /\ "" \in Names \cup {""}
    BY EmptyType
  <2>4. PICK u \in TableSchemas : u.filePath = "" /\ load(Append(lines, line)) = Append(schemas, u)
    BY <2>2, <2>3, LoadOfWithin
  <2>5. lines \o part = Append(lines, line)
    BY <1>6, <2>1, OneMore
  <2> QED
    BY <2>4, <2>5 DEF Kept
<1> QED
  BY <1>1, <1>3, <1>4, <1>5, <1>6, PartsAre

LEMMA CutWithin ==
  ASSUME NEW lines \in Seq(Lines), NEW schemas \in Seq(TableSchemas),
         NEW n \in Names, NEW columns \in Seq(Columns), NEW path \in Names \cup {""},
         Within(Loaded(lines), schemas, n, columns, path), NEW t,
         path = "" \/ t = [name |-> n, columns |-> columns, filePath |-> path],
         NEW part,
         \/ part = << >> \/ part = << [kind |-> "PART"] >>
         \/ path = "" /\ part = << [kind |-> "BAD COLUMN"] >>
         \/ path = "" /\ \E d \in Columns : part = << [kind |-> "COLUMN", column |-> d] >>
  PROVE  Kept(load(lines \o part), schemas, t)
<1>1. ASSUME NEW l, Within(Loaded(l), schemas, n, columns, path)
      PROVE  Kept(load(l), schemas, t)
  <2>1. PICK u \in TableSchemas :
          /\ u.name = n /\ u.columns = columns /\ u.filePath = path
          /\ load(l) = Append(schemas, u)
    BY <1>1, LoadOfWithin
  <2>2. u = [name |-> n, columns |-> columns, filePath |-> path]
    BY <2>1 DEF TableSchemas
  <2> QED
    BY <2>1, <2>2 DEF Kept
<1>2. CASE part = << >>
  <2>1. lines \o part = lines
    BY <1>2, OneMore
  <2> QED
    BY <1>1, <2>1
<1>3. CASE part = << [kind |-> "PART"] >>
  <2>1. PICK line \in Lines : line = [kind |-> "PART"]
    BY LineTypes
  <2>2. Loaded(Append(lines, line)) = Loaded(lines)
    BY <2>1, LoadedAppend, LoadWithin
  <2>3. Kept(load(Append(lines, line)), schemas, t)
    BY <1>1, <2>2
  <2>4. lines \o part = Append(lines, line)
    BY <1>3, <2>1, OneMore
  <2> QED
    BY <2>3, <2>4
<1>4. CASE part = << [kind |-> "BAD COLUMN"] >>
  <2>1. PICK line \in Lines : line = [kind |-> "BAD COLUMN"]
    BY LineTypes
  <2>2. Failed(Loaded(Append(lines, line)), schemas)
    BY <2>1, LoadedAppend, LoadWithin
  <2>3. load(Append(lines, line)) = schemas
    BY <2>2, LoadOf
  <2>4. lines \o part = Append(lines, line)
    BY <1>4, <2>1, OneMore
  <2> QED
    BY <2>3, <2>4 DEF Kept
<1>5. ASSUME path = "", NEW d \in Columns, part = << [kind |-> "COLUMN", column |-> d] >>
      PROVE  Kept(load(lines \o part), schemas, t)
  <2>1. PICK line \in Lines : line = [kind |-> "COLUMN", column |-> d]
    BY LineTypes
  <2>2. PICK more \in Seq(Columns) : more = Append(columns, d)
    BY AppendType
  <2>3. PICK acc : acc = Loaded(lines)
    OBVIOUS
  <2>4. Within(LoadLine(acc, line), schemas, n, more, path)
    BY <2>1, <2>2, <2>3, LoadWithin
  <2>5. Within(Loaded(Append(lines, line)), schemas, n, more, path)
    BY <2>3, <2>4, LoadedAppend
  <2>6. PICK u \in TableSchemas : u.filePath = "" /\ load(Append(lines, line)) = Append(schemas, u)
    BY <1>5, <2>5, LoadOfWithin
  <2>7. lines \o part = Append(lines, line)
    BY <1>5, <2>1, OneMore
  <2> QED
    BY <2>6, <2>7 DEF Kept
<1> QED
  BY <1>2, <1>3, <1>4, <1>5

LEMMA CutTable ==
  ASSUME NEW lines \in Seq(Lines), NEW schemas \in Seq(TableSchemas),
         Between(Loaded(lines), schemas), NEW t \in TableSchemas,
         NEW k \in 0..(Len(TableLines(t)) - 1), NEW part \in Parts(TableLines(t)[k + 1])
  PROVE  Kept(load(lines \o SubSeq(TableLines(t), 1, k) \o part), schemas, t)
<1>1. /\ t.name \in Names /\ t.columns \in Seq(Columns) /\ t.filePath \in Names \cup {""}
      /\ t = [name |-> t.name, columns |-> t.columns, filePath |-> t.filePath]
  BY DEF TableSchemas
<1>2. PICK all \in Seq(Lines) : all = TableLines(t)
  BY TableLinesType
<1>3. PICK n : n = Len(t.columns)
  OBVIOUS
<1>4. /\ n \in Nat /\ Len(all) = n + 3
      /\ all[1] = [kind |-> "TABLE", name |-> t.name]
      /\ \A i \in 1..n : all[i + 1] = [kind |-> "COLUMN", column |-> t.columns[i]]
      /\ all[n + 2] = [kind |-> "FILE", name |-> t.filePath]
      /\ all[n + 3] = [kind |-> "END"]
  BY <1>2, <1>3, TableLineAt
<1>5. k \in 0..(n + 2) /\ part \in Parts(all[k + 1])
  BY <1>2, <1>4
<1>6. PICK pre : pre = lines \o SubSeq(all, 1, k)
  OBVIOUS
<1>7. pre \in Seq(Lines)
  <2>1. k \in 0..Len(all)
    BY <1>4, <1>5
  <2> QED
    BY <1>6, <2>1, PrefixGrows
<1>8. CASE k = 0
  <2>1. pre = lines
    BY <1>6, <1>8, PrefixGrows
  <2>2. part \in Parts([kind |-> "TABLE", name |-> t.name])
    BY <1>4, <1>5, <1>8
  <2>3. Kept(load(lines \o part), schemas, t)
    BY <2>2, CutBetween
  <2> QED
    BY <1>2, <1>6, <2>1, <2>3
<1>9. CASE k \in 1..(n + 1)
  <2>1. PICK j \in 0..n : j + 1 = k
    <3>1. k - 1 \in 0..n /\ (k - 1) + 1 = k
      BY <1>4, <1>9
    <3> QED
      BY <3>1
  <2>2. PICK columns \in Seq(Columns) : columns = SubSeq(t.columns, 1, j)
    <3>1. \A c \in Seq(Columns) : Len(c) = n => SubSeq(c, 1, j) \in Seq(Columns)
      BY <2>1
    <3>2. SubSeq(t.columns, 1, j) \in Seq(Columns)
      BY <1>1, <1>3, <3>1
    <3> QED
      BY <3>2
  <2>3. Within(Loaded(pre), schemas, t.name, columns, "")
    BY <1>2, <1>3, <1>6, <2>1, <2>2, ReadTable
  <2>4. \/ part = << >> \/ part = << [kind |-> "PART"] >>
        \/ part = << [kind |-> "BAD COLUMN"] >>
        \/ \E d \in Columns : part = << [kind |-> "COLUMN", column |-> d] >>
    <3>1. CASE k \in 1..n
      <4>1. all[k + 1] = [kind |-> "COLUMN", column |-> t.columns[k]] /\ t.columns[k] \in Columns
        <5>1. \A c \in Seq(Columns) : Len(c) = n => c[k] \in Columns
          BY <3>1
        <5> QED
          BY <1>1, <1>3, <1>4, <3>1, <5>1
      <4> QED
        BY <1>5, <4>1, PartsAre
    <3>2. CASE k = n + 1
      <4>1. all[k + 1] = [kind |-> "FILE", name |-> t.filePath]
        BY <1>4, <3>2
      <4> QED
        BY <1>1, <1>5, <4>1, PartsAre
    <3>3. k \in 1..n \/ k = n + 1
      BY <1>4, <1>9
    <3> QED
      BY <3>1, <3>2, <3>3
  <2>5. "" \in Names \cup {""}
    OBVIOUS
  <2>6. Kept(load(pre \o part), schemas, t)
    BY <1>1, <1>7, <2>3, <2>4, <2>5, CutWithin
  <2> QED
    BY <1>2, <1>6, <2>6
<1>10. CASE k = n + 2
  <2>1. Within(Loaded(pre), schemas, t.name, t.columns, t.filePath)
    BY <1>2, <1>3, <1>6, <1>10, ReadTable
  <2>2. all[k + 1] = [kind |-> "END"]
    BY <1>4, <1>10
  <2>3. part = << >> \/ part = << [kind |-> "PART"] >>
    BY <1>5, <2>2, PartsAre
  <2>4. Kept(load(pre \o part), schemas, t)
    BY <1>1, <1>7, <2>1, <2>3, CutWithin
  <2> QED
    BY <1>2, <1>6, <2>4
<1> QED
  BY <1>4, <1>5, <1>8, <1>9, <1>10

-----------------------------------------------------------------------------
(* A catalog that save has written, in whole or in part.                   *)

(* What load makes of a save that was cut short: a front part of the       *)
(* tables, perhaps with a table that has no file after it.                 *)
PartOf(loaded, schemas) ==
  \E k \in 0..Len(schemas) :
    \/ loaded = SubSeq(schemas, 1, k)
    \/ \E u \in TableSchemas : u.filePath = "" /\ loaded = Append(SubSeq(schemas, 1, k), u)

Saved(schemas) ==
  LET lines == CatalogLines(schemas)
  IN  /\ lines \in Seq(Lines)
      /\ Between(Loaded(lines), schemas)
      /\ \A upto \in 0..(Len(lines) - 1) : \A part \in Parts(lines[upto + 1]) :
           PartOf(load(SubSeq(lines, 1, upto) \o part), schemas)

LEMMA FrontParts ==
  ASSUME NEW l \in Seq(Lines), NEW m \in Seq(Lines)
  PROVE  /\ l \o m \in Seq(Lines) /\ Len(l \o m) = Len(l) + Len(m)
         /\ \A k \in 0..Len(l) : SubSeq(l \o m, 1, k) = SubSeq(l, 1, k)
         /\ \A k \in 0..Len(m) : SubSeq(l \o m, 1, Len(l) + k) = l \o SubSeq(m, 1, k)
         /\ \A k \in 1..Len(l) : (l \o m)[k] = l[k]
         /\ \A k \in 1..Len(m) : (l \o m)[Len(l) + k] = m[k]
OBVIOUS

LEMMA AppendPrefixes ==
  ASSUME NEW S, NEW l \in Seq(S), NEW e \in S
  PROVE  /\ Len(Append(l, e)) = Len(l) + 1 /\ Len(l) \in Nat
         /\ \A k \in 0..Len(l) : SubSeq(Append(l, e), 1, k) = SubSeq(l, 1, k)
         /\ SubSeq(l, 1, Len(l)) = l
         /\ SubSeq(Append(l, e), 1, Len(l) + 1) = Append(l, e)
OBVIOUS

LEMMA Appended ==
  ASSUME NEW S, NEW l \in Seq(S), NEW e \in S
  PROVE  /\ Len(Append(l, e)) = Len(l) + 1 /\ Append(l, e)[Len(l) + 1] = e
         /\ \A i \in 1..Len(l) : Append(l, e)[i] = l[i]
OBVIOUS

LEMMA PartOfMore ==
  ASSUME NEW schemas \in Seq(TableSchemas), NEW t \in TableSchemas, NEW loaded
  PROVE  /\ PartOf(loaded, schemas) => PartOf(loaded, Append(schemas, t))
         /\ Kept(loaded, schemas, t) => PartOf(loaded, Append(schemas, t))
<1>1. PICK n \in Nat : n = Len(schemas)
  OBVIOUS
<1>2. PICK more : more = Append(schemas, t)
  OBVIOUS
<1>3. /\ Len(more) = n + 1 /\ \A k \in 0..n : SubSeq(more, 1, k) = SubSeq(schemas, 1, k)
      /\ SubSeq(schemas, 1, n) = schemas /\ SubSeq(more, 1, n + 1) = more
  BY <1>1, <1>2, AppendPrefixes
<1>4. \A k \in 0..n : k \in 0..(n + 1)
  OBVIOUS
<1>5. ASSUME PartOf(loaded, schemas)
      PROVE  PartOf(loaded, more)
  <2>1. PICK k \in 0..n :
          \/ loaded = SubSeq(schemas, 1, k)
          \/ \E u \in TableSchemas : u.filePath = "" /\ loaded = Append(SubSeq(schemas, 1, k), u)
    BY <1>1, <1>5 DEF PartOf
  <2>2. k \in 0..Len(more) /\ SubSeq(more, 1, k) = SubSeq(schemas, 1, k)
    BY <1>3, <1>4
  <2> QED
    BY <2>1, <2>2 DEF PartOf
<1>6. ASSUME Kept(loaded, schemas, t)
      PROVE  PartOf(loaded, more)
  <2>1. n \in 0..n /\ n + 1 \in 0..Len(more) /\ n \in 0..Len(more)
    BY <1>3
  <2>2. SubSeq(more, 1, n) = schemas /\ SubSeq(more, 1, n + 1) = Append(schemas, t)
    BY <1>2, <1>3, <2>1
  <2> QED
    BY <1>6, <2>1, <2>2 DEF PartOf, Kept
<1> QED
  BY <1>2, <1>5, <1>6

LEMMA SavedMore ==
  ASSUME NEW schemas \in Seq(TableSchemas), Saved(schemas), NEW t \in TableSchemas
  PROVE  Saved(Append(schemas, t))
<1>1. PICK lines \in Seq(Lines) : lines = CatalogLines(schemas)
  BY DEF Saved
<1>2. PICK own \in Seq(Lines) : own = TableLines(t)
  BY TableLinesType
<1>3. PICK all \in Seq(Lines) : all = lines \o own
  <2>1. lines \o own \in Seq(Lines)
    BY FrontParts
  <2> QED
    BY <2>1
<1>4. CatalogLines(Append(schemas, t)) = all
  BY <1>1, <1>2, <1>3, CatalogLinesAppend
<1>5. Between(Loaded(lines), schemas)
  BY <1>1 DEF Saved
<1>6. Between(Loaded(all), Append(schemas, t))
  <2>1. PICK n : n = Len(t.columns)
    OBVIOUS
  <2> QED
    BY <1>2, <1>3, <1>5, <2>1, ReadTable
<1>7. ASSUME NEW upto \in 0..(Len(all) - 1), NEW part \in Parts(all[upto + 1])
      PROVE  PartOf(load(SubSeq(all, 1, upto) \o part), Append(schemas, t))
  <2>1. PICK n \in Nat, m \in Nat : n = Len(lines) /\ m = Len(own)
    OBVIOUS
  <2>2. /\ Len(all) = n + m
        /\ \A k \in 0..n : SubSeq(all, 1, k) = SubSeq(lines, 1, k)
        /\ \A k \in 0..m : SubSeq(all, 1, n + k) = lines \o SubSeq(own, 1, k)
        /\ \A k \in 1..n : all[k] = lines[k]
        /\ \A k \in 1..m : all[n + k] = own[k]
    <3>1. Len(all) = n + m
      BY <1>3, <2>1, FrontParts
    <3>2. \A k \in 0..n : SubSeq(all, 1, k) = SubSeq(lines, 1, k)
      BY <1>3, <2>1, FrontParts
    <3>3. \A k \in 0..m : SubSeq(all, 1, n + k) = lines \o SubSeq(own, 1, k)
      <4>1. \A k \in 0..Len(own) :
              SubSeq(lines \o own, 1, Len(lines) + k) = lines \o SubSeq(own, 1, k)
        BY FrontParts
      <4> QED
        BY <1>3, <2>1, <4>1, Zenon
    <3>4. \A k \in 1..n : all[k] = lines[k]
      BY <1>3, <2>1, FrontParts
    <3>5. \A k \in 1..m : all[n + k] = own[k]
      BY <1>3, <2>1, FrontParts
    <3> QED
      BY <3>1, <3>2, <3>3, <3>4, <3>5
  <2>3. CASE upto < n
    <3>1. upto \in 0..(n - 1) /\ upto \in 0..n /\ upto + 1 \in 1..n
      BY <2>2, <2>3
    <3>2. SubSeq(all, 1, upto) = SubSeq(lines, 1, upto) /\ all[upto + 1] = lines[upto + 1]
      BY <2>2, <3>1
    <3>3. PartOf(load(SubSeq(lines, 1, upto) \o part), schemas)
      BY <1>1, <1>7, <2>1, <3>1, <3>2 DEF Saved
    <3> QED
      BY <3>2, <3>3, PartOfMore
  <2>4. CASE upto >= n
    <3>1. PICK k \in 0..(m - 1) : upto = n + k
      <4>1. upto - n \in 0..(m - 1) /\ upto = n + (upto - n)
        BY <2>2, <2>4
      <4> QED
        BY <4>1
    <3>2. k \in 0..m /\ k + 1 \in 1..m /\ upto + 1 = n + (k + 1)
      BY <3>1
    <3>3. SubSeq(all, 1, upto) = lines \o SubSeq(own, 1, k) /\ all[upto + 1] = own[k + 1]
      BY <2>2, <3>1, <3>2
    <3>4. k \in 0..(Len(TableLines(t)) - 1) /\ part \in Parts(TableLines(t)[k + 1])
      BY <1>2, <1>7, <2>1, <3>3
    <3>5. Kept(load(lines \o SubSeq(TableLines(t), 1, k) \o part), schemas, t)
      BY <1>5, <3>4, CutTable
    <3> QED
      BY <1>2, <3>3, <3>5, PartOfMore
  <2> QED
    BY <2>1, <2>2, <2>3, <2>4
<1> QED
  BY <1>4, <1>6, <1>7 DEF Saved

LEMMA SavedNothing == Saved(<< >>)
<1>1. CatalogLines(<< >>) = << >> /\ << >> \in Seq(Lines) /\ Len(<< >>) = 0
  BY CatalogLinesNothing, EmptyType
<1>2. Loaded(<< >>) = NothingLoaded
  BY LoadedNothing
<1>3. << >> \in Seq(TableSchemas) /\ << >> \in Seq(Columns)
  BY EmptyType
<1>4. Between(NothingLoaded, << >>)
  BY <1>3 DEF NothingLoaded, Between, Accs
<1>5. \A upto \in 0..(0 - 1) : FALSE
  OBVIOUS
<1> QED
  BY <1>1, <1>2, <1>4, <1>5 DEF Saved

LEMMA AllSaved ==
  ASSUME NEW schemas \in Seq(TableSchemas)
  PROVE  Saved(schemas)
<1>1. PICK S : S = {n \in Nat : \A l \in Seq(TableSchemas) : Len(l) = n => Saved(l)}
  OBVIOUS
<1>2. 0 \in S
  <2>1. \A l \in Seq(TableSchemas) : Len(l) = 0 => l = << >>
    BY Empty
  <2> QED
    BY <1>1, <2>1, SavedNothing
<1>3. ASSUME NEW n \in S \cap Nat
      PROVE  n + 1 \in S
  <2> SUFFICES ASSUME NEW l \in Seq(TableSchemas), Len(l) = n + 1 PROVE Saved(l)
    BY <1>1
  <2>1. PICK front \in Seq(TableSchemas), last \in TableSchemas :
          l = Append(front, last) /\ Len(front) = n
    <3>1. SubSeq(l, 1, n) \in Seq(TableSchemas) /\ Len(SubSeq(l, 1, n)) = n
          /\ l[n + 1] \in TableSchemas
      OBVIOUS
    <3>2. l = Append(SubSeq(l, 1, n), l[n + 1])
      OBVIOUS
    <3> QED
      BY <3>1, <3>2
  <2>2. Saved(front)
    BY <1>1, <2>1
  <2> QED
    BY <2>1, <2>2, SavedMore
<1>4. Len(schemas) \in Nat
  OBVIOUS
<1> QED
  BY <1>1, <1>2, <1>3, <1>4, NatInd

(* A restart after a save that was not cut short knows the same tables:    *)
(* every name, every column and every path comes back as it was saved.     *)
THEOREM SavedIsLoaded ==
  ASSUME NEW schemas \in Seq(TableSchemas)
  PROVE  load(CatalogLines(schemas)) = schemas
BY AllSaved, LoadOf DEF Saved

LEMMA PartsType ==
  ASSUME NEW line \in Lines, NEW part \in Parts(line)
  PROVE  part \in Seq(Lines)
<1>1. \A l \in Lines : <<l>> \in Seq(Lines)
  OBVIOUS
<1>2. CASE part = << >> \/ part = << [kind |-> "PART"] >>
  BY <1>1, <1>2, EmptyType, LineTypes
<1>3. CASE part = << [kind |-> "BAD TABLE"] >> \/ part = << [kind |-> "BAD COLUMN"] >>
  BY <1>1, <1>3, LineTypes
<1>4. ASSUME line.kind = "TABLE", NEW n \in nameParts[line.name],
             part = << [kind |-> "TABLE", name |-> n] >>
      PROVE  part \in Seq(Lines)
  <2>1. line.name \in Names
    BY <1>4 DEF Lines
  <2>2. n \in Names
    BY <1>4, <2>1, NamesAssumption
  <2> QED
    BY <1>1, <1>4, <2>2, LineTypes
<1>5. ASSUME line.kind = "COLUMN", NEW c \in columnParts[line.column],
             part = << [kind |-> "COLUMN", column |-> c] >>
      PROVE  part \in Seq(Lines)
  <2>1. line.column \in Columns
    BY <1>5 DEF Lines
  <2>2. c \in Columns
    BY <1>5, <2>1, ColumnsAssumption
  <2> QED
    BY <1>1, <1>5, <2>2, LineTypes
<1> QED
  BY <1>2, <1>3, <1>4, <1>5 DEF Parts

(* The text of a save that was cut short, and what load makes of it.       *)
LEMMA CutSave ==
  ASSUME NEW schemas \in Seq(TableSchemas),
         NEW upto \in 0..(Len(CatalogLines(schemas)) - 1),
         NEW part \in Parts(CatalogLines(schemas)[upto + 1]),
         NEW text, text = SubSeq(CatalogLines(schemas), 1, upto) \o part
  PROVE  text \in Seq(Lines) /\ PartOf(load(text), schemas)
<1>1. PICK lines \in Seq(Lines) : lines = CatalogLines(schemas)
  BY AllSaved DEF Saved
<1>2. upto + 1 \in 1..Len(lines) /\ upto \in 0..Len(lines)
  BY <1>1
<1>3. lines[upto + 1] \in Lines /\ SubSeq(lines, 1, upto) \in Seq(Lines)
  BY <1>2
<1>4. part \in Seq(Lines)
  BY <1>1, <1>3, PartsType
<1>5. SubSeq(lines, 1, upto) \o part \in Seq(Lines)
  BY <1>3, <1>4
<1>6. PartOf(load(SubSeq(lines, 1, upto) \o part), schemas)
  BY <1>1, AllSaved DEF Saved
<1> QED
  BY <1>1, <1>5, <1>6

(* load of an empty catalog.txt.                                           *)
LEMMA LoadNothing == load(<< >>) = << >>
BY SavedIsLoaded, CatalogLinesNothing, EmptyType

-----------------------------------------------------------------------------
(* What load makes of any lines.                                           *)

GoodAcc(acc) == acc \in Accs /\ (acc.open = TRUE => acc.table.name \in Names)

LEMMA LoadLineType ==
  ASSUME NEW acc, GoodAcc(acc), NEW line \in Lines
  PROVE  GoodAcc(LoadLine(acc, line))
<1>1. acc \in Accs /\ (acc.open = TRUE => acc.table.name \in Names)
  BY DEF GoodAcc
<1>2. acc.open \in BOOLEAN /\ acc.err \in BOOLEAN
  BY <1>1 DEF Accs
<1>3. ASSUME LoadLine(acc, line) = acc
      PROVE  GoodAcc(LoadLine(acc, line))
  BY <1>3
<1>4. ASSUME LoadLine(acc, line) = [acc EXCEPT !.err = TRUE]
      PROVE  GoodAcc(LoadLine(acc, line))
  <2>1. PICK next : next = [acc EXCEPT !.err = TRUE]
    OBVIOUS
  <2>2. next \in Accs /\ next.open = acc.open /\ next.table = acc.table
    BY <1>1, <2>1 DEF Accs
  <2> QED
    BY <1>1, <1>4, <2>1, <2>2 DEF GoodAcc
<1>5. ASSUME line.kind = "TABLE", acc.open = FALSE, acc.err = FALSE
      PROVE  GoodAcc(LoadLine(acc, line))
  <2>1. PICK next : next = [acc EXCEPT !.open = TRUE,
                              !.table = [name |-> line.name, columns |-> << >>, filePath |-> ""]]
    OBVIOUS
  <2>2. LoadLine(acc, line) = next
    BY <1>5, <2>1 DEF LoadLine
  <2>3. << >> \in Seq(Columns)
    BY EmptyType
  <2>4. line.name \in Names
    BY <1>5 DEF Lines
  <2>5. next \in Accs
    BY <1>1, <2>1, <2>3, <2>4 DEF Accs
  <2>6. next.table.name = line.name
    BY <1>1, <2>1 DEF Accs
  <2> QED
    BY <2>2, <2>4, <2>5, <2>6 DEF GoodAcc
<1>6. ASSUME line.kind = "COLUMN", acc.open = TRUE, acc.err = FALSE
      PROVE  GoodAcc(LoadLine(acc, line))
  <2>1. line.column \in Columns /\ acc.table.columns \in Seq(Columns)
    BY <1>1, <1>6 DEF Lines, Accs
  <2>2. PICK more \in Seq(Columns) : more = Append(acc.table.columns, line.column)
    BY <2>1, AppendType
  <2>3. PICK next : next = [acc EXCEPT !.table.columns = more]
    OBVIOUS
  <2>4. LoadLine(acc, line) = [acc EXCEPT !.table.columns = Append(@, line.column)]
    BY <1>6 DEF LoadLine
  <2>5. LoadLine(acc, line) = next
    BY <1>1, <2>2, <2>3, <2>4 DEF Accs
  <2>6. next \in Accs
    BY <1>1, <2>3 DEF Accs
  <2>7. next.table.name = acc.table.name
    BY <1>1, <2>3 DEF Accs
  <2> QED
    BY <1>1, <1>6, <2>5, <2>6, <2>7 DEF GoodAcc
<1>7. ASSUME line.kind = "FILE", acc.open = TRUE, acc.err = FALSE
      PROVE  GoodAcc(LoadLine(acc, line))
  <2>1. PICK next : next = [acc EXCEPT !.table.filePath = line.name]
    OBVIOUS
  <2>2. LoadLine(acc, line) = next
    BY <1>7, <2>1 DEF LoadLine
  <2>3. line.name \in Names \cup {""}
    BY <1>7 DEF Lines
  <2>4. next \in Accs
    BY <1>1, <2>1, <2>3 DEF Accs
  <2>5. next.table.name = acc.table.name
    BY <1>1, <2>1 DEF Accs
  <2> QED
    BY <1>1, <1>7, <2>2, <2>4, <2>5 DEF GoodAcc
<1>8. ASSUME line.kind = "END", acc.open = TRUE, acc.err = FALSE
      PROVE  GoodAcc(LoadLine(acc, line))
  <2>1. PICK t : t = acc.table
    OBVIOUS
  <2>2. t \in TableSchemas /\ acc.tables \in Seq(TableSchemas)
    BY <1>1, <1>8, <2>1 DEF Accs, TableSchemas
  <2>3. PICK more \in Seq(TableSchemas) : more = Append(acc.tables, t)
    BY <2>2, AppendType
  <2>4. PICK next : next = [acc EXCEPT !.open = FALSE, !.tables = more]
    OBVIOUS
  <2>5. LoadLine(acc, line) = [acc EXCEPT !.open = FALSE, !.tables = Append(@, acc.table)]
    BY <1>8 DEF LoadLine
  <2>6. LoadLine(acc, line) = next
    BY <1>1, <2>1, <2>3, <2>4, <2>5 DEF Accs
  <2>7. next \in Accs /\ next.open = FALSE
    BY <1>1, <2>4 DEF Accs
  <2> QED
    BY <2>6, <2>7 DEF GoodAcc
<1>9. line.kind \in {"TABLE", "FILE", "COLUMN", "END", "PART",
                     "BAD TABLE", "BAD COLUMN", "BAD LENGTH"}
  BY DEF Lines
<1>10. CASE acc.err = TRUE
  <2>1. LoadLine(acc, line) = acc
    BY <1>10 DEF LoadLine
  <2> QED
    BY <1>3, <2>1
<1>11. CASE acc.err = FALSE /\ acc.open = FALSE
  <2>1. CASE line.kind = "BAD TABLE"
    <3>1. LoadLine(acc, line) = [acc EXCEPT !.err = TRUE]
      BY <1>11, <2>1 DEF LoadLine
    <3> QED
      BY <1>4, <3>1
  <2>2. CASE line.kind \notin {"TABLE", "BAD TABLE"}
    <3>1. LoadLine(acc, line) = acc
      BY <1>11, <2>2 DEF LoadLine
    <3> QED
      BY <1>3, <3>1
  <2> QED
    BY <1>5, <1>11, <2>1, <2>2
<1>12. CASE acc.err = FALSE /\ acc.open = TRUE
  <2>1. CASE line.kind = "BAD COLUMN"
    <3>1. LoadLine(acc, line) = [acc EXCEPT !.err = TRUE]
      BY <1>12, <2>1 DEF LoadLine
    <3> QED
      BY <1>4, <3>1
  <2>2. CASE line.kind \in {"TABLE", "BAD TABLE", "PART", "BAD LENGTH"}
    <3>1. LoadLine(acc, line) = acc
      BY <1>12, <2>2 DEF LoadLine
    <3> QED
      BY <1>3, <3>1
  <2> QED
    BY <1>6, <1>7, <1>8, <1>9, <1>12, <2>1, <2>2
<1> QED
  BY <1>2, <1>10, <1>11, <1>12

LEMMA LoadedType ==
  ASSUME NEW lines \in Seq(Lines)
  PROVE  GoodAcc(Loaded(lines))
<1>1. PICK S : S = {n \in Nat : \A l \in Seq(Lines) : Len(l) = n => GoodAcc(Loaded(l))}
  OBVIOUS
<1>2. 0 \in S
  <2>1. \A l \in Seq(Lines) : Len(l) = 0 => l = << >>
    BY Empty
  <2>2. << >> \in Seq(TableSchemas) /\ << >> \in Seq(Columns)
    BY EmptyType
  <2>3. GoodAcc(NothingLoaded)
    BY <2>2 DEF NothingLoaded, GoodAcc, Accs
  <2> QED
    BY <1>1, <2>1, <2>3, LoadedNothing
<1>3. ASSUME NEW n \in S \cap Nat
      PROVE  n + 1 \in S
  <2> SUFFICES ASSUME NEW l \in Seq(Lines), Len(l) = n + 1 PROVE GoodAcc(Loaded(l))
    BY <1>1
  <2>1. PICK front \in Seq(Lines), last \in Lines : l = Append(front, last) /\ Len(front) = n
    <3>1. SubSeq(l, 1, n) \in Seq(Lines) /\ Len(SubSeq(l, 1, n)) = n /\ l[n + 1] \in Lines
      OBVIOUS
    <3>2. l = Append(SubSeq(l, 1, n), l[n + 1])
      OBVIOUS
    <3> QED
      BY <3>1, <3>2
  <2>2. GoodAcc(Loaded(front))
    BY <1>1, <2>1
  <2> QED
    BY <2>1, <2>2, LoadedAppend, LoadLineType
<1>4. Len(lines) \in Nat
  OBVIOUS
<1> QED
  BY <1>1, <1>2, <1>3, <1>4, NatInd

(* Whatever catalog.txt holds, load returns a list of tables.              *)
LEMMA LoadType ==
  ASSUME NEW lines \in Seq(Lines)
  PROVE  load(lines) \in Seq(TableSchemas)
<1>1. PICK acc : acc = Loaded(lines)
  OBVIOUS
<1>2. acc \in Accs /\ (acc.open = TRUE => acc.table.name \in Names)
  BY <1>1, LoadedType DEF GoodAcc
<1>3. acc.tables \in Seq(TableSchemas) /\ acc.open \in BOOLEAN
  BY <1>2 DEF Accs
<1>4. ASSUME acc.open = TRUE
      PROVE  Append(acc.tables, acc.table) \in Seq(TableSchemas)
  <2>1. acc.table \in TableSchemas
    BY <1>2, <1>4 DEF Accs, TableSchemas
  <2> QED
    BY <1>3, <2>1, AppendType
<1> QED
  BY <1>1, <1>3, <1>4 DEF load

-----------------------------------------------------------------------------
(* Tables, the files they speak of, and the rows in those.                 *)

RowsUnder(pages, columns) ==
  \A page \in Range(pages) : \A row \in Range(page) : row = columns

ReadableIn(fs, schemas) ==
  \A i \in DOMAIN schemas :
    schemas[i].filePath \in Names /\ fs[schemas[i].filePath] # NoFile =>
      RowsUnder(fs[schemas[i].filePath], schemas[i].columns)

DanglingIn(fs, dropped, schemas) ==
  \A i \in DOMAIN schemas :
    schemas[i].filePath \in Names /\ fs[schemas[i].filePath] = NoFile =>
      schemas[i].name \in dropped

(* A table n whose file is n.ms.                                           *)
HasEntry(schemas, n) ==
  \E i \in DOMAIN schemas : schemas[i].name = n /\ schemas[i].filePath = n

(* No table n has a file.                                                  *)
Fileless(schemas, n) ==
  \A i \in DOMAIN schemas : schemas[i].name = n => schemas[i].filePath = ""

(* Every table of the one list that has a file is a table of the other.    *)
Among(some, all) ==
  \A i \in DOMAIN some : some[i].filePath = "" \/ \E j \in DOMAIN all : some[i] = all[j]

LEMMA OwnFilesAt ==
  ASSUME NEW schemas
  PROVE  OwnFiles(schemas) <=>
           /\ \A i \in DOMAIN schemas : schemas[i].filePath \in {schemas[i].name, ""}
           /\ \A i, j \in DOMAIN schemas :
                i < j /\ schemas[i].name = schemas[j].name => schemas[j].filePath = ""
BY DEF OwnFiles, Range

LEMMA NoFileIsNone ==
  /\ << >> # NoFile /\ \A lines \in Seq(Lines) : lines # NoFile
  /\ \A pages \in Files : pages # NoFile
<1>1. << >> \in Seq(Lines)
  BY EmptyType
<1> QED
  BY <1>1, NoFileAssumption

LEMMA AmongReadable ==
  ASSUME NEW fs, NEW some, NEW all, Among(some, all), ReadableIn(fs, all)
  PROVE  ReadableIn(fs, some)
<1> SUFFICES ASSUME NEW i \in DOMAIN some, some[i].filePath \in Names,
                    fs[some[i].filePath] # NoFile
             PROVE  RowsUnder(fs[some[i].filePath], some[i].columns)
  BY DEF ReadableIn
<1>1. some[i].filePath # ""
  BY NamesAssumption
<1>2. PICK j \in DOMAIN all : some[i] = all[j]
  BY <1>1 DEF Among
<1> QED
  BY <1>2 DEF ReadableIn

LEMMA AmongDangling ==
  ASSUME NEW fs, NEW dropped, NEW some, NEW all, Among(some, all), DanglingIn(fs, dropped, all)
  PROVE  DanglingIn(fs, dropped, some)
<1> SUFFICES ASSUME NEW i \in DOMAIN some, some[i].filePath \in Names,
                    fs[some[i].filePath] = NoFile
             PROVE  some[i].name \in dropped
  BY DEF DanglingIn
<1>1. some[i].filePath # ""
  BY NamesAssumption
<1>2. PICK j \in DOMAIN all : some[i] = all[j]
  BY <1>1 DEF Among
<1> QED
  BY <1>2 DEF DanglingIn

(* The rows stay readable when each file stays as it is, is removed, or    *)
(* holds no rows.                                                          *)
LEMMA FilesReadable ==
  ASSUME NEW fs, NEW fs2, NEW schemas, ReadableIn(fs, schemas),
         \A n \in Names :
           fs2[n] = fs[n] \/ fs2[n] = NoFile \/ \A columns : RowsUnder(fs2[n], columns)
  PROVE  ReadableIn(fs2, schemas)
BY DEF ReadableIn

(* A file is missing only where it was missing, or where one was removed.  *)
LEMMA FilesDangling ==
  ASSUME NEW fs, NEW fs2, NEW dropped, NEW dropped2, NEW schemas,
         DanglingIn(fs, dropped, schemas), OwnFiles(schemas), dropped \subseteq dropped2,
         \A n \in Names : fs2[n] # NoFile \/ fs2[n] = fs[n] \/ n \in dropped2
  PROVE  DanglingIn(fs2, dropped2, schemas)
<1> SUFFICES ASSUME NEW i \in DOMAIN schemas, schemas[i].filePath \in Names,
                    fs2[schemas[i].filePath] = NoFile
             PROVE  schemas[i].name \in dropped2
  BY DEF DanglingIn
<1>1. PICK n \in Names : n = schemas[i].filePath
  OBVIOUS
<1>2. schemas[i].name = n
  BY <1>1, NamesAssumption, OwnFilesAt
<1>3. CASE fs2[n] = fs[n]
  BY <1>1, <1>3 DEF DanglingIn
<1> QED
  BY <1>1, <1>2, <1>3

LEMMA RowsOfPageZero ==
  ASSUME NEW columns
  PROVE  RowsUnder(<< >>, columns) /\ RowsUnder(<< << >> >>, columns)
BY DEF RowsUnder, Range

LEMMA NothingToRead ==
  ASSUME NEW fs, NEW dropped
  PROVE  /\ ReadableIn(fs, << >>) /\ DanglingIn(fs, dropped, << >>) /\ OwnFiles(<< >>)
         /\ << >> \in Seq(TableSchemas)
<1>1. DOMAIN << >> = {}
  OBVIOUS
<1> QED
  BY <1>1, OwnFilesAt, EmptyType DEF ReadableIn, DanglingIn

(* What is left of a list of tables.                                       *)
LEMMA PartOfTables ==
  ASSUME NEW schemas \in Seq(TableSchemas), OwnFiles(schemas), NEW loaded, PartOf(loaded, schemas)
  PROVE  loaded \in Seq(TableSchemas) /\ OwnFiles(loaded) /\ Among(loaded, schemas)
<1>1. PICK n \in Nat : n = Len(schemas)
  OBVIOUS
<1>2. PICK k \in 0..n :
        \/ loaded = SubSeq(schemas, 1, k)
        \/ \E u \in TableSchemas : u.filePath = "" /\ loaded = Append(SubSeq(schemas, 1, k), u)
  BY <1>1 DEF PartOf
<1>3. PICK front \in Seq(TableSchemas) : front = SubSeq(schemas, 1, k)
  <2>1. \A l \in Seq(TableSchemas) : Len(l) = n => SubSeq(l, 1, k) \in Seq(TableSchemas)
    OBVIOUS
  <2> QED
    BY <1>1, <2>1
<1>4. Len(front) = k /\ DOMAIN front = 1..k /\ DOMAIN schemas = 1..n
      /\ \A i \in 1..k : front[i] = schemas[i]
  BY <1>1, <1>3
<1>5. \A i \in 1..k : i \in 1..n
  OBVIOUS
<1>6. OwnFiles(front) /\ Among(front, schemas)
  BY <1>4, <1>5, OwnFilesAt DEF Among
<1>7. /\ \A i \in 1..k : front[i].filePath \in {front[i].name, ""}
      /\ \A i, j \in 1..k :
           i < j /\ front[i].name = front[j].name => front[j].filePath = ""
  <2>1. DOMAIN front = 1..k
    BY <1>4
  <2>2. \A i \in DOMAIN front : front[i].filePath \in {front[i].name, ""}
    BY <1>6, OwnFilesAt
  <2>3. \A i, j \in DOMAIN front :
          i < j /\ front[i].name = front[j].name => front[j].filePath = ""
    BY <1>6, OwnFilesAt
  <2> QED
    BY <2>1, <2>2, <2>3, Zenon
<1>8. ASSUME NEW u \in TableSchemas, u.filePath = "", loaded = Append(front, u)
      PROVE  loaded \in Seq(TableSchemas) /\ OwnFiles(loaded) /\ Among(loaded, schemas)
  <2>1. loaded \in Seq(TableSchemas) /\ DOMAIN loaded = 1..(k + 1) /\ loaded[k + 1] = u
        /\ \A i \in 1..k : loaded[i] = front[i]
    <3>1. loaded \in Seq(TableSchemas)
      BY <1>8, AppendType
    <3>2. Len(loaded) = Len(front) + 1
      BY <1>8, Appended
    <3>3. k \in Nat /\ DOMAIN loaded = 1..(k + 1)
      BY <1>4, <3>1, <3>2
    <3>4. loaded[k + 1] = u
      BY <1>4, <1>8, Appended
    <3>5. \A i \in 1..k : loaded[i] = front[i]
      <4>1. \A i \in 1..Len(front) : Append(front, u)[i] = front[i]
        BY Appended
      <4> QED
        BY <1>4, <1>8, <4>1, Zenon
    <3> QED
      BY <3>1, <3>3, <3>4, <3>5
  <2>2. \A i \in 1..(k + 1) : i = k + 1 \/ i \in 1..k
    OBVIOUS
  <2>3. \A i \in 1..(k + 1) : loaded[i].filePath \in {loaded[i].name, ""}
    BY <1>7, <1>8, <2>1, <2>2
  <2>4. ASSUME NEW i \in 1..(k + 1), NEW j \in 1..(k + 1), i < j, loaded[i].name = loaded[j].name
        PROVE  loaded[j].filePath = ""
    <3>1. CASE j = k + 1
      BY <1>8, <2>1, <3>1
    <3>2. CASE j \in 1..k
      <4>1. i \in 1..k
        BY <2>4, <3>2
      <4> QED
        BY <1>7, <2>1, <2>4, <3>2, <4>1
    <3>3. j = k + 1 \/ j \in 1..k
      BY <2>2
    <3> QED
      BY <3>1, <3>2, <3>3
  <2>5. Among(loaded, schemas)
    <3>1. \A i \in 1..k : loaded[i] = schemas[i] /\ i \in DOMAIN schemas
      BY <1>4, <1>5, <2>1
    <3>2. loaded[k + 1].filePath = ""
      BY <1>8, <2>1
    <3> QED
      BY <2>1, <2>2, <3>1, <3>2 DEF Among
  <2> QED
    BY <2>1, <2>3, <2>4, <2>5, OwnFilesAt
<1> QED
  BY <1>2, <1>3, <1>6, <1>8

(* CREATE TABLE: a table of a new name.                                    *)
LEMMA AddedTable ==
  ASSUME NEW schemas \in Seq(TableSchemas), OwnFiles(schemas), NEW t \in TableSchemas,
         t.filePath = t.name, t.name \notin NamesOf(schemas),
         NEW more, more = Append(schemas, t)
  PROVE  /\ more \in Seq(TableSchemas) /\ OwnFiles(more) /\ HasEntry(more, t.name)
         /\ \A i \in DOMAIN more : more[i] = t \/ \E j \in DOMAIN schemas : more[i] = schemas[j]
         /\ \A n : HasEntry(schemas, n) => HasEntry(more, n)
<1>1. PICK k \in Nat : k = Len(schemas)
  OBVIOUS
<1>2. more \in Seq(TableSchemas) /\ DOMAIN more = 1..(k + 1) /\ more[k + 1] = t
      /\ DOMAIN schemas = 1..k /\ \A i \in 1..k : more[i] = schemas[i]
  BY <1>1
<1>3. \A i \in 1..(k + 1) : i = k + 1 \/ i \in 1..k
  OBVIOUS
<1>4. \A i \in 1..k : schemas[i].name # t.name
  BY <1>2 DEF NamesOf
<1>5. \A i \in 1..(k + 1) : more[i].filePath \in {more[i].name, ""}
  BY <1>2, <1>3, OwnFilesAt
<1>6. ASSUME NEW i \in 1..(k + 1), NEW j \in 1..(k + 1), i < j, more[i].name = more[j].name
      PROVE  more[j].filePath = ""
  <2>1. i \in 1..k
    BY <1>6
  <2>2. j \in 1..k
    BY <1>2, <1>3, <1>4, <1>6, <2>1
  <2> QED
    BY <1>2, <1>6, <2>1, <2>2, OwnFilesAt
<1>7. HasEntry(more, t.name)
  <2>1. k + 1 \in 1..(k + 1)
    OBVIOUS
  <2> QED
    BY <1>2, <2>1 DEF HasEntry
<1>8. \A i \in DOMAIN more : more[i] = t \/ \E j \in DOMAIN schemas : more[i] = schemas[j]
  BY <1>2, <1>3
<1>9. \A n : HasEntry(schemas, n) => HasEntry(more, n)
  <2>1. \A i \in 1..k : i \in 1..(k + 1)
    OBVIOUS
  <2> QED
    BY <1>2, <2>1 DEF HasEntry
<1>10. OwnFiles(more)
  BY <1>2, <1>5, <1>6, OwnFilesAt
<1> QED
  BY <1>2, <1>7, <1>8, <1>9, <1>10

LEMMA Removed ==
  ASSUME NEW l \in Seq(TableSchemas), NEW m, m = Len(l), NEW k \in 1..m
  PROVE  /\ RemoveAt(l, k) \in Seq(TableSchemas) /\ DOMAIN RemoveAt(l, k) = 1..(m - 1)
         /\ \A i \in 1..(k - 1) : RemoveAt(l, k)[i] = l[i]
         /\ \A i \in k..(m - 1) : RemoveAt(l, k)[i] = l[i + 1]
<1>1. m \in Nat
  OBVIOUS
<1>2. PICK front \in Seq(TableSchemas) : front = SubSeq(l, 1, k - 1)
  <2>1. SubSeq(l, 1, k - 1) \in Seq(TableSchemas)
    BY <1>1
  <2> QED
    BY <2>1
<1>3. PICK rest \in Seq(TableSchemas) : rest = SubSeq(l, k + 1, m)
  <2>1. SubSeq(l, k + 1, m) \in Seq(TableSchemas)
    BY <1>1
  <2> QED
    BY <2>1
<1>4. Len(front) = k - 1 /\ \A i \in 1..(k - 1) : front[i] = l[i]
  BY <1>1, <1>2
<1>5. Len(rest) = m - k /\ \A i \in 1..(m - k) : rest[i] = l[k + i]
  BY <1>1, <1>3
<1>6. RemoveAt(l, k) = front \o rest
  BY <1>2, <1>3 DEF RemoveAt
<1>7. PICK less : less = front \o rest
  OBVIOUS
<1>8. less \in Seq(TableSchemas) /\ Len(less) = m - 1
  BY <1>1, <1>4, <1>5, <1>7
<1>9. \A i \in 1..(k - 1) : less[i] = l[i]
  BY <1>1, <1>4, <1>5, <1>7
<1>10. ASSUME NEW i \in k..(m - 1)
       PROVE  less[i] = l[i + 1]
  <2>1. PICK j \in 1..(m - k) : i = (k - 1) + j
    <3>1. i - (k - 1) \in 1..(m - k) /\ i = (k - 1) + (i - (k - 1))
      BY <1>1
    <3> QED
      BY <3>1
  <2>2. less[i] = rest[j]
    BY <1>1, <1>4, <1>5, <1>7, <2>1
  <2>3. k + j = i + 1
    BY <1>1, <2>1
  <2> QED
    BY <1>5, <2>2, <2>3
<1>11. RemoveAt(l, k) = less
  BY <1>6, <1>7
<1>12. DOMAIN less = 1..(m - 1)
  BY <1>8
<1> QED
  BY <1>8, <1>9, <1>10, <1>11, <1>12, Zenon

(* DROP TABLE: the first table of a name goes.                             *)
LEMMA RemovedTable ==
  ASSUME NEW schemas \in Seq(TableSchemas), OwnFiles(schemas), NEW k \in DOMAIN schemas,
         \A j \in 1..(k - 1) : schemas[j].name # schemas[k].name,
         NEW less, less = RemoveAt(schemas, k)
  PROVE  /\ less \in Seq(TableSchemas) /\ OwnFiles(less) /\ Among(less, schemas)
         /\ Fileless(less, schemas[k].name)
         /\ \A n : n # schemas[k].name /\ HasEntry(schemas, n) => HasEntry(less, n)
<1>1. PICK m \in Nat : m = Len(schemas)
  OBVIOUS
<1>2. DOMAIN schemas = 1..m /\ k \in 1..m
  BY <1>1
<1>3. /\ less \in Seq(TableSchemas) /\ DOMAIN less = 1..(m - 1)
      /\ \A i \in 1..(k - 1) : less[i] = schemas[i]
      /\ \A i \in k..(m - 1) : less[i] = schemas[i + 1]
  <2>1. RemoveAt(schemas, k) \in Seq(TableSchemas)
    BY <1>1, <1>2, Removed
  <2>2. DOMAIN RemoveAt(schemas, k) = 1..(m - 1)
    BY <1>1, <1>2, Removed
  <2>3. \A i \in 1..(k - 1) : RemoveAt(schemas, k)[i] = schemas[i]
    BY <1>1, <1>2, Removed
  <2>4. ASSUME NEW i \in k..(m - 1)
        PROVE  RemoveAt(schemas, k)[i] = schemas[i + 1]
    BY <1>1, <1>2, Removed
  <2> QED
    BY <2>1, <2>2, <2>3, <2>4
<1>4. PICK from : from = [i \in 1..(m - 1) |-> IF i < k THEN i ELSE i + 1]
  OBVIOUS
<1>5. ASSUME NEW i \in 1..(m - 1)
      PROVE  from[i] \in 1..m /\ from[i] # k /\ less[i] = schemas[from[i]]
  <2>1. CASE i < k
    <3>1. i \in 1..(k - 1) /\ from[i] = i
      BY <1>2, <1>4, <2>1
    <3> QED
      BY <1>3, <2>1, <3>1
  <2>2. CASE i >= k
    <3>1. i \in k..(m - 1) /\ from[i] = i + 1
      BY <1>2, <1>4, <2>2
    <3> QED
      BY <1>2, <1>3, <2>2, <3>1
  <2> QED
    BY <1>2, <2>1, <2>2
<1>6. \A i, j \in 1..(m - 1) : i < j => from[i] < from[j]
  BY <1>2, <1>4
<1>7. ASSUME NEW j \in 1..m, j # k
      PROVE  \E i \in 1..(m - 1) : from[i] = j
  <2>1. CASE j < k
    <3>1. j \in 1..(m - 1)
      BY <1>2, <2>1
    <3> QED
      BY <1>4, <2>1, <3>1
  <2>2. CASE j > k
    <3>1. j - 1 \in 1..(m - 1) /\ ~ (j - 1 < k) /\ (j - 1) + 1 = j
      BY <1>2, <2>2
    <3> QED
      BY <1>4, <3>1
  <2> QED
    BY <1>2, <1>7, <2>1, <2>2
<1>8. /\ \A i \in 1..m : schemas[i].filePath \in {schemas[i].name, ""}
      /\ \A i, j \in 1..m :
           i < j /\ schemas[i].name = schemas[j].name => schemas[j].filePath = ""
  BY <1>2, OwnFilesAt
<1>9. OwnFiles(less)
  <2>1. \A i \in 1..(m - 1) : less[i].filePath \in {less[i].name, ""}
    BY <1>5, <1>8
  <2>2. ASSUME NEW i \in 1..(m - 1), NEW j \in 1..(m - 1), i < j, less[i].name = less[j].name
        PROVE  less[j].filePath = ""
    <3>1. from[i] < from[j] /\ from[i] \in 1..m /\ from[j] \in 1..m
      BY <1>5, <1>6, <2>2
    <3>2. less[i] = schemas[from[i]] /\ less[j] = schemas[from[j]]
      BY <1>5
    <3> QED
      BY <1>8, <2>2, <3>1, <3>2
  <2> QED
    BY <1>3, <2>1, <2>2, OwnFilesAt
<1>10. Among(less, schemas)
  <2>1. \A i \in 1..(m - 1) : \E j \in 1..m : less[i] = schemas[j]
    BY <1>5
  <2> QED
    BY <1>2, <1>3, <2>1 DEF Among
<1>11. ASSUME NEW i \in 1..(m - 1), less[i].name = schemas[k].name
       PROVE  less[i].filePath = ""
  <2>1. PICK j \in 1..m : j = from[i] /\ j # k /\ less[i] = schemas[j]
    BY <1>5
  <2>2. ~ (j < k)
    <3>1. j < k => j \in 1..(k - 1)
      BY <1>2
    <3> QED
      BY <1>11, <2>1, <3>1
  <2>3. k < j
    BY <1>2, <2>1, <2>2
  <2> QED
    BY <1>2, <1>11, <2>1, <2>3, OwnFilesAt
<1>12. ASSUME NEW n, n # schemas[k].name, HasEntry(schemas, n)
       PROVE  HasEntry(less, n)
  <2>1. PICK j \in 1..m : schemas[j].name = n /\ schemas[j].filePath = n
    BY <1>2, <1>12 DEF HasEntry
  <2>2. PICK i \in 1..(m - 1) : from[i] = j
    BY <1>12, <1>7, <2>1
  <2>3. less[i] = schemas[j]
    BY <1>5, <2>2
  <2> QED
    BY <1>3, <2>1, <2>3 DEF HasEntry
<1> QED
  BY <1>3, <1>9, <1>10, <1>11, <1>12 DEF Fileless

(* findTable returns the first table of the name: the one that has a file. *)
LEMMA IndexOfName ==
  ASSUME tables \in Seq(TableSchemas), NEW name \in NamesOf(tables)
  PROVE  /\ indexOf(name) \in DOMAIN tables /\ tables[indexOf(name)].name = name
         /\ \A j \in 1..(indexOf(name) - 1) : tables[j].name # name
<1>1. PICK S : S = {i \in Nat : i \in DOMAIN tables => \A j \in 1..i : tables[j].name # name}
  OBVIOUS
<1>2. DOMAIN tables = 1..Len(tables) /\ Len(tables) \in Nat
  OBVIOUS
<1>3. 0 \in S
  BY <1>1, <1>2
<1>4. \E i \in DOMAIN tables :
        tables[i].name = name /\ \A j \in 1..(i - 1) : tables[j].name # name
  <2> SUFFICES ASSUME \A i \in DOMAIN tables : tables[i].name = name =>
                        \E j \in 1..(i - 1) : tables[j].name = name
               PROVE  FALSE
    OBVIOUS
  <2>1. ASSUME NEW n \in S \cap Nat
        PROVE  n + 1 \in S
    <3> SUFFICES ASSUME n + 1 \in DOMAIN tables, NEW j \in 1..(n + 1), tables[j].name = name
                 PROVE  FALSE
      BY <1>1
    <3>1. \A i \in 1..n : tables[i].name # name
      <4>1. CASE n = 0
        BY <4>1
      <4>2. CASE n # 0
        <5>1. n \in DOMAIN tables
          BY <1>2, <4>2
        <5> QED
          BY <1>1, <2>1, <5>1
      <4> QED
        BY <4>1, <4>2
    <3>2. j = n + 1
      BY <3>1
    <3>3. (n + 1) - 1 = n
      OBVIOUS
    <3> QED
      BY <3>1, <3>2, <3>3
  <2>2. Nat \subseteq S
    BY <1>3, <2>1, NatInd
  <2>3. PICK i \in DOMAIN tables : tables[i].name = name
    BY DEF NamesOf
  <2>4. i \in Nat /\ i \in 1..i
    BY <1>2
  <2> QED
    BY <1>1, <2>2, <2>3, <2>4
<1>5. PICK k : k = indexOf(name)
  OBVIOUS
<1>6. k \in DOMAIN tables /\ tables[k].name = name
      /\ \A j \in 1..(k - 1) : tables[j].name # name
  BY <1>4, <1>5 DEF indexOf
<1> QED
  BY <1>5, <1>6

LEMMA FindTable ==
  ASSUME tables \in Seq(TableSchemas), OwnFiles(tables), NEW n \in Names
  PROVE  /\ HasEntry(tables, n) => n \in NamesOf(tables) /\ findTable(n).filePath = n
         /\ n \in NamesOf(tables) =>
              /\ findTable(n) \in TableSchemas /\ findTable(n).filePath \in {n, ""}
              /\ findTable(n).filePath = n => HasEntry(tables, n)
              /\ \A i \in DOMAIN tables : tables[i].filePath = n => tables[i] = findTable(n)
<1>1. DOMAIN tables = 1..Len(tables) /\ Len(tables) \in Nat
  OBVIOUS
<1>2. "" # n
  BY NamesAssumption
<1>3. ASSUME n \in NamesOf(tables)
      PROVE  /\ findTable(n) \in TableSchemas /\ findTable(n).filePath \in {n, ""}
             /\ findTable(n).filePath = n => HasEntry(tables, n)
             /\ \A i \in DOMAIN tables : tables[i].filePath = n => tables[i] = findTable(n)
  <2>1. PICK k \in 1..Len(tables) :
          /\ findTable(n) = tables[k] /\ tables[k].name = n
          /\ \A j \in 1..(k - 1) : tables[j].name # n
    BY <1>1, <1>3, IndexOfName DEF findTable
  <2>2. findTable(n) \in TableSchemas
    BY <2>1
  <2>3. findTable(n).filePath \in {n, ""}
    BY <1>1, <2>1, OwnFilesAt
  <2>4. findTable(n).filePath = n => HasEntry(tables, n)
    BY <1>1, <2>1 DEF HasEntry
  <2>5. ASSUME NEW i \in 1..Len(tables), tables[i].filePath = n
        PROVE  tables[i] = findTable(n)
    <3>1. tables[i].name = n
      BY <1>1, <1>2, <2>5, OwnFilesAt
    <3>2. ~ (i < k)
      <4>1. i < k => i \in 1..(k - 1)
        OBVIOUS
      <4> QED
        BY <2>1, <3>1, <4>1
    <3>3. ~ (k < i)
      BY <1>1, <1>2, <2>1, <2>5, <3>1, OwnFilesAt
    <3>4. i = k
      BY <3>2, <3>3
    <3> QED
      BY <2>1, <3>4
  <2> QED
    BY <1>1, <2>2, <2>3, <2>4, <2>5
<1>4. ASSUME HasEntry(tables, n)
      PROVE  n \in NamesOf(tables) /\ findTable(n).filePath = n
  <2>1. PICK i \in DOMAIN tables : tables[i].name = n /\ tables[i].filePath = n
    BY <1>4 DEF HasEntry
  <2>2. n \in NamesOf(tables)
    BY <2>1 DEF NamesOf
  <2> QED
    BY <1>3, <2>1, <2>2
<1> QED
  BY <1>3, <1>4

-----------------------------------------------------------------------------
(* The inductive invariant.                                                *)

HandlesInv == \A n \in openFiles : HasEntry(tables, n) /\ files[n] # NoFile

(* How far CREATE TABLE and DROP TABLE have come.                          *)
StatementInv ==
  /\ pc \in {"allocate", "save", "write"} =>
       stmt.kind \in {"CREATE_TABLE", "DROP_TABLE"} /\ stmt.name \in Names
  /\ pc = "allocate" =>
       stmt.kind = "CREATE_TABLE" /\ stmt.columns \in Seq(Columns) /\ files[stmt.name] = << >>
  /\ pc \in {"save", "write"} /\ stmt.kind = "CREATE_TABLE" =>
       HasEntry(tables, stmt.name) /\ files[stmt.name] # NoFile
  /\ pc \in {"save", "write"} /\ stmt.kind = "DROP_TABLE" =>
       Fileless(tables, stmt.name)
  /\ pc = "write" => catalogTxt \in Seq(Lines)

DownInv == pc = "down" => openFiles = {} /\ (unsaved => forgotten)

(* What the next process would load.                                       *)
StartInv ==
  /\ OwnFiles(TablesAtStart)
  /\ pc \in {"idle", "allocate"} /\ ~ unsaved => TablesAtStart = tables

RowsInv ==
  ~ forgotten => /\ ReadableIn(files, tables)
                 /\ ~ unsaved => ReadableIn(files, TablesAtStart)

FilesInv == DanglingIn(files, lost, tables) /\ DanglingIn(files, lost, TablesAtStart)

Inv ==
  TypeOK /\ HandlesInv /\ StatementInv /\ DownInv /\ StartInv /\ RowsInv /\ FilesInv

LEMMA SameStart ==
  ASSUME UNCHANGED catalogTxt
  PROVE  TablesAtStart' = TablesAtStart
BY DEF TablesAtStart

LEMMA StartType ==
  ASSUME TypeOK
  PROVE  TablesAtStart \in Seq(TableSchemas)
BY EmptyType, LoadType DEF TypeOK, TablesAtStart

LEMMA PagesType ==
  /\ << >> \in Files /\ << << >> >> \in Files
  /\ \A pages \in Files : Append(pages, << >>) \in Files
  /\ Append(<< >>, << >>) = << << >> >>
<1>1. << >> \in Seq(Columns) /\ << >> \in Seq(Seq(Columns))
  BY EmptyType
<1>2. << << >> >> \in Seq(Seq(Seq(Columns)))
  BY <1>1
<1>3. \A pages \in Seq(Seq(Seq(Columns))) : Append(pages, << >>) \in Seq(Seq(Seq(Columns)))
  BY <1>1, AppendType
<1>4. << >> \in Seq(Seq(Seq(Columns)))
  BY EmptyType
<1>5. Append(<< >>, << >>) = << << >> >>
  OBVIOUS
<1> QED
  BY <1>2, <1>3, <1>4, <1>5 DEF Files

LEMMA InitInv ==
  ASSUME Init
  PROVE  Inv
<1>1. /\ tables = << >> /\ openFiles = {} /\ pc = "down" /\ lost = {}
      /\ unsaved = FALSE /\ forgotten = FALSE
      /\ catalogTxt \in OldCatalogs \cup {NoFile}
      /\ files = [n \in Names |->
           IF catalogTxt # NoFile /\ n \in NamesOf(load(catalogTxt))
           THEN << << >> >> ELSE NoFile]
  BY DEF Init
<1>2. catalogTxt = NoFile \/ catalogTxt \in Seq(Lines)
  BY <1>1, OldCatalogsAssumption
<1>3. TypeOK
  <2>1. files \in [Names -> Files \cup {NoFile}]
    BY <1>1, PagesType
  <2> QED
    BY <1>1, <1>2, <2>1, NothingToRead DEF TypeOK
<1>4. OwnFiles(TablesAtStart)
  BY <1>1, NothingToRead, OldCatalogsAssumption DEF TablesAtStart
<1>5. ReadableIn(files, TablesAtStart)
  <2>1. \A n \in Names : files[n] # NoFile => files[n] = << << >> >>
    BY <1>1
  <2> QED
    BY <2>1, RowsOfPageZero DEF ReadableIn
<1>6. DanglingIn(files, lost, TablesAtStart)
  <2>1. CASE catalogTxt = NoFile
    BY <2>1, NothingToRead DEF TablesAtStart
  <2>2. CASE catalogTxt # NoFile
    <3>1. PICK schemas : schemas = load(catalogTxt)
      OBVIOUS
    <3>2. TablesAtStart = schemas /\ OwnFiles(schemas)
      BY <1>4, <2>2, <3>1 DEF TablesAtStart
    <3>3. ASSUME NEW i \in DOMAIN schemas, schemas[i].filePath \in Names
          PROVE  files[schemas[i].filePath] # NoFile
      <4>1. PICK n \in Names : n = schemas[i].filePath
        BY <3>3
      <4>2. schemas[i].name = n
        BY <3>2, <4>1, NamesAssumption, OwnFilesAt
      <4>3. n \in NamesOf(schemas)
        BY <4>2 DEF NamesOf
      <4>4. files[n] = << << >> >>
        BY <1>1, <2>2, <3>1, <4>3
      <4> QED
        BY <4>1, <4>4, PagesType, NoFileIsNone
    <3> QED
      BY <3>2, <3>3 DEF DanglingIn
  <2> QED
    BY <2>1, <2>2
<1>7. ReadableIn(files, tables) /\ DanglingIn(files, lost, tables)
  BY <1>1, NothingToRead
<1> QED
  BY <1>1, <1>3, <1>4, <1>5, <1>6, <1>7
  DEF Inv, HandlesInv, StatementInv, DownInv, StartInv, RowsInv, FilesInv

LEMMA BootInv ==
  ASSUME Inv, Boot
  PROVE  Inv'
<1>1. /\ pc = "down" /\ pc' = "idle" /\ tables' = TablesAtStart /\ unsaved' = FALSE
      /\ UNCHANGED <<catalogTxt, files, openFiles, lost, forgotten>>
  BY DEF Boot
<1>2. TypeOK /\ DownInv /\ StartInv /\ RowsInv /\ FilesInv
  BY DEF Inv
<1>3. TablesAtStart' = TablesAtStart
  BY <1>1, SameStart
<1>4. TypeOK'
  BY <1>1, <1>2, StartType DEF TypeOK, StartInv
<1>5. HandlesInv' /\ StatementInv' /\ DownInv'
  BY <1>1, <1>2 DEF HandlesInv, StatementInv, DownInv
<1>6. StartInv'
  BY <1>1, <1>2, <1>3 DEF StartInv
<1>7. RowsInv' /\ FilesInv'
  BY <1>1, <1>2, <1>3 DEF RowsInv, FilesInv, DownInv
<1> QED
  BY <1>4, <1>5, <1>6, <1>7 DEF Inv

LEMMA CreateFileInv ==
  ASSUME Inv, NEW n \in Names, NEW columns \in Schemas, CreateFile(n, columns)
  PROVE  Inv'
<1>1. /\ pc = "idle" /\ pc' = "allocate"
      /\ stmt' = [kind |-> "CREATE_TABLE", name |-> n, columns |-> columns]
      /\ files' = [files EXCEPT ![n] = << >>]
      /\ UNCHANGED <<catalogTxt, tables, openFiles, lost, unsaved, forgotten>>
  BY DEF CreateFile, memory
<1>2. TypeOK /\ HandlesInv /\ StartInv /\ RowsInv /\ FilesInv
  BY DEF Inv
<1>3. TablesAtStart' = TablesAtStart
  BY <1>1, SameStart
<1>4. files'[n] = << >> /\ \A m \in Names : m = n \/ files'[m] = files[m]
  BY <1>1, <1>2 DEF TypeOK
<1>5. TypeOK'
  <2>1. files' \in [Names -> Files \cup {NoFile}]
    BY <1>1, <1>2, PagesType DEF TypeOK
  <2> QED
    BY <1>1, <1>2, <2>1 DEF TypeOK
<1>6. HandlesInv'
  <2>1. openFiles \subseteq Names
    BY <1>2 DEF TypeOK
  <2> QED
    BY <1>1, <1>2, <1>4, <2>1, NoFileIsNone DEF HandlesInv
<1>7. StatementInv' /\ DownInv'
  BY <1>1, <1>4, ColumnsAssumption DEF StatementInv, DownInv
<1>8. StartInv'
  BY <1>1, <1>2, <1>3 DEF StartInv
<1>9. \A schemas : ReadableIn(files, schemas) => ReadableIn(files', schemas)
  BY <1>4, FilesReadable, RowsOfPageZero
<1>10. \A schemas : OwnFiles(schemas) /\ DanglingIn(files, lost, schemas)
                      => DanglingIn(files', lost, schemas)
  <2>1. \A m \in Names : files'[m] # NoFile \/ files'[m] = files[m] \/ m \in lost
    BY <1>4, NoFileIsNone
  <2> QED
    BY <2>1, FilesDangling
<1>11. RowsInv' /\ FilesInv'
  BY <1>1, <1>2, <1>3, <1>9, <1>10 DEF RowsInv, FilesInv, StartInv, TypeOK
<1> QED
  BY <1>5, <1>6, <1>7, <1>8, <1>11 DEF Inv

LEMMA ReserveAndAddInv ==
  ASSUME Inv, ReserveAndAdd
  PROVE  Inv'
<1>1. /\ pc = "allocate" /\ files' = [files EXCEPT ![stmt.name] = Append(@, << >>)]
      /\ UNCHANGED <<catalogTxt, openFiles, lost, unsaved, forgotten>>
  BY DEF ReserveAndAdd
<1>2. TypeOK /\ HandlesInv /\ StatementInv /\ StartInv /\ RowsInv /\ FilesInv
  BY DEF Inv
<1>3. TablesAtStart' = TablesAtStart
  BY <1>1, SameStart
<1>4. PICK n \in Names : n = stmt.name
  BY <1>1, <1>2 DEF StatementInv
<1>5. files[n] = << >> /\ stmt.columns \in Seq(Columns) /\ stmt.kind = "CREATE_TABLE"
  BY <1>1, <1>2, <1>4 DEF StatementInv
<1>6. files'[n] = << << >> >> /\ \A m \in Names : m = n \/ files'[m] = files[m]
  BY <1>1, <1>2, <1>4, <1>5, PagesType DEF TypeOK
<1>7. files' \in [Names -> Files \cup {NoFile}]
  BY <1>1, <1>2, <1>4, <1>5, PagesType DEF TypeOK
<1>8. << << >> >> # NoFile
  BY PagesType, NoFileIsNone
<1>9. \A schemas : ReadableIn(files, schemas) => ReadableIn(files', schemas)
  BY <1>6, FilesReadable, RowsOfPageZero
<1>10. \A schemas : OwnFiles(schemas) /\ DanglingIn(files, lost, schemas)
                      => DanglingIn(files', lost, schemas)
  <2>1. \A m \in Names : files'[m] # NoFile \/ files'[m] = files[m] \/ m \in lost
    BY <1>6, <1>8
  <2> QED
    BY <2>1, FilesDangling
<1>11. openFiles \subseteq Names
  BY <1>2 DEF TypeOK
<1>12. CASE n \in NamesOf(tables)
  <2>1. pc' = "idle" /\ tables' = tables
    BY <1>4, <1>12 DEF ReserveAndAdd, End
  <2>2. TypeOK'
    BY <1>1, <1>2, <1>7, <2>1 DEF TypeOK
  <2>3. HandlesInv'
    BY <1>1, <1>2, <1>6, <1>8, <1>11, <2>1 DEF HandlesInv
  <2>4. StatementInv' /\ DownInv'
    BY <2>1 DEF StatementInv, DownInv
  <2>5. StartInv'
    BY <1>1, <1>2, <1>3, <2>1 DEF StartInv
  <2>6. RowsInv' /\ FilesInv'
    BY <1>1, <1>2, <1>3, <1>9, <1>10, <2>1 DEF RowsInv, FilesInv, StartInv, TypeOK
  <2> QED
    BY <2>2, <2>3, <2>4, <2>5, <2>6 DEF Inv
<1>13. CASE n \notin NamesOf(tables)
  <2>1. PICK t : t = [name |-> n, columns |-> stmt.columns, filePath |-> n]
    OBVIOUS
  <2>2. pc' = "save" /\ stmt' = stmt /\ tables' = Append(tables, t)
    BY <1>4, <1>13, <2>1 DEF ReserveAndAdd
  <2>3. t \in TableSchemas /\ t.name = n /\ t.filePath = n
    BY <1>5, <2>1 DEF TableSchemas
  <2>4. tables \in Seq(TableSchemas) /\ OwnFiles(tables)
    BY <1>2 DEF TypeOK
  <2>5. PICK more : more = tables'
    OBVIOUS
  <2>6. /\ more \in Seq(TableSchemas) /\ OwnFiles(more) /\ HasEntry(more, n)
        /\ \A i \in DOMAIN more : more[i] = t \/ \E j \in DOMAIN tables : more[i] = tables[j]
        /\ \A m : HasEntry(tables, m) => HasEntry(more, m)
    <3>1. t.filePath = t.name /\ t.name \notin NamesOf(tables) /\ more = Append(tables, t)
      BY <1>13, <2>2, <2>3, <2>5
    <3>2. more \in Seq(TableSchemas) /\ OwnFiles(more) /\ HasEntry(more, t.name)
      BY <2>3, <2>4, <3>1, AddedTable
    <3>3. ASSUME NEW i \in DOMAIN more
          PROVE  more[i] = t \/ \E j \in DOMAIN tables : more[i] = tables[j]
      BY <2>3, <2>4, <3>1, AddedTable
    <3>4. \A m : HasEntry(tables, m) => HasEntry(more, m)
      BY <2>3, <2>4, <3>1, AddedTable
    <3> QED
      BY <2>3, <3>2, <3>3, <3>4
  <2>7. TypeOK'
    BY <1>1, <1>2, <1>7, <2>2, <2>5, <2>6 DEF TypeOK
  <2>8. HandlesInv'
    BY <1>1, <1>2, <1>6, <1>8, <1>11, <2>5, <2>6 DEF HandlesInv
  <2>9. StatementInv' /\ DownInv'
    BY <1>4, <1>5, <1>6, <1>8, <2>2, <2>5, <2>6 DEF StatementInv, DownInv
  <2>10. StartInv'
    BY <1>2, <1>3, <2>2 DEF StartInv
  <2>11. ReadableIn(files, tables) => ReadableIn(files', more)
    <3>1. ASSUME ReadableIn(files, tables), NEW i \in DOMAIN more,
                 more[i].filePath \in Names, files'[more[i].filePath] # NoFile
          PROVE  RowsUnder(files'[more[i].filePath], more[i].columns)
      <4>1. CASE more[i] = t
        BY <1>6, <2>3, <4>1, RowsOfPageZero
      <4>2. ASSUME NEW j \in DOMAIN tables, more[i] = tables[j]
            PROVE  RowsUnder(files'[more[i].filePath], more[i].columns)
        <5>1. ReadableIn(files', tables)
          BY <1>9, <3>1
        <5> QED
          BY <3>1, <4>2, <5>1 DEF ReadableIn
      <4> QED
        BY <2>6, <4>1, <4>2
    <3> QED
      BY <3>1 DEF ReadableIn
  <2>12. DanglingIn(files', lost, more)
    <3>1. DanglingIn(files', lost, tables)
      BY <1>2, <1>10, <2>4 DEF FilesInv
    <3> QED
      BY <1>6, <1>8, <2>3, <2>6, <3>1 DEF DanglingIn
  <2>13. RowsInv' /\ FilesInv'
    BY <1>1, <1>2, <1>3, <1>9, <1>10, <2>5, <2>11, <2>12 DEF RowsInv, FilesInv, StartInv
  <2> QED
    BY <2>7, <2>8, <2>9, <2>10, <2>13 DEF Inv
<1> QED
  BY <1>12, <1>13

(* A statement that fails leaves everything as it is.                      *)
LEMMA FailureInv ==
  ASSUME Inv, pc \in {"idle", "allocate"}, pc' = "idle",
         UNCHANGED <<catalogTxt, files, tables, openFiles, lost, unsaved, forgotten>>
  PROVE  Inv'
<1>1. TypeOK /\ HandlesInv /\ StartInv /\ RowsInv /\ FilesInv
  BY DEF Inv
<1>2. TablesAtStart' = TablesAtStart
  BY SameStart
<1>3. TypeOK'
  BY <1>1 DEF TypeOK
<1>4. HandlesInv' /\ StatementInv' /\ DownInv'
  BY <1>1 DEF HandlesInv, StatementInv, DownInv
<1>5. StartInv'
  BY <1>1, <1>2 DEF StartInv
<1>6. RowsInv' /\ FilesInv'
  BY <1>1, <1>2 DEF RowsInv, FilesInv
<1> QED
  BY <1>3, <1>4, <1>5, <1>6 DEF Inv

LEMMA DropTableInv ==
  ASSUME Inv, NEW n \in Names, DropTable(n)
  PROVE  Inv'
<1>1. /\ pc = "idle" /\ n \in NamesOf(tables) /\ pc' = "save"
      /\ stmt' = [kind |-> "DROP_TABLE", name |-> n, columns |-> << >>]
      /\ tables' = RemoveAt(tables, indexOf(n)) /\ files' = WithoutFile(findTable(n).filePath)
      /\ openFiles' = openFiles \ {n} /\ lost' = lost \cup {n}
      /\ UNCHANGED <<catalogTxt, unsaved, forgotten>>
  BY DEF DropTable
<1>2. TypeOK /\ HandlesInv /\ StartInv /\ RowsInv /\ FilesInv
  BY DEF Inv
<1>3. TablesAtStart' = TablesAtStart
  BY <1>1, SameStart
<1>4. tables \in Seq(TableSchemas) /\ OwnFiles(tables) /\ openFiles \subseteq Names
      /\ files \in [Names -> Files \cup {NoFile}]
  BY <1>2 DEF TypeOK
<1>5. PICK k \in DOMAIN tables :
        k = indexOf(n) /\ tables[k].name = n /\ \A j \in 1..(k - 1) : tables[j].name # n
  BY <1>1, <1>4, IndexOfName
<1>6. PICK less : less = tables'
  OBVIOUS
<1>7. /\ less \in Seq(TableSchemas) /\ OwnFiles(less) /\ Among(less, tables)
      /\ Fileless(less, n)
      /\ \A m : m # n /\ HasEntry(tables, m) => HasEntry(less, m)
  <2>1. less = RemoveAt(tables, k) /\ \A j \in 1..(k - 1) : tables[j].name # tables[k].name
    BY <1>1, <1>5, <1>6
  <2>2. less \in Seq(TableSchemas) /\ OwnFiles(less) /\ Among(less, tables)
    BY <1>4, <1>5, <2>1, RemovedTable
  <2>3. Fileless(less, tables[k].name)
    BY <1>4, <1>5, <2>1, RemovedTable
  <2>4. \A m : m # tables[k].name /\ HasEntry(tables, m) => HasEntry(less, m)
    BY <1>4, <1>5, <2>1, RemovedTable
  <2> QED
    BY <1>5, <2>2, <2>3, <2>4
<1>8. PICK path \in {n, ""} : path = findTable(n).filePath
  BY <1>1, <1>4, FindTable
<1>9. /\ \A m \in Names : files'[m] = IF m = path THEN NoFile ELSE files[m]
      /\ files' \in [Names -> Files \cup {NoFile}]
  BY <1>1, <1>4, <1>8 DEF WithoutFile
<1>10. \A m \in Names : m = n \/ files'[m] = files[m]
  BY <1>9, NamesAssumption
<1>11. TypeOK'
  BY <1>1, <1>2, <1>6, <1>7, <1>9 DEF TypeOK
<1>12. HandlesInv'
  BY <1>1, <1>2, <1>4, <1>6, <1>7, <1>10 DEF HandlesInv
<1>13. StatementInv' /\ DownInv'
  BY <1>1, <1>6, <1>7 DEF StatementInv, DownInv
<1>14. StartInv'
  BY <1>1, <1>2, <1>3 DEF StartInv
<1>15. \A schemas : ReadableIn(files, schemas) => ReadableIn(files', schemas)
  <2>1. \A m \in Names : files'[m] = files[m] \/ files'[m] = NoFile
    BY <1>9
  <2> QED
    BY <2>1, FilesReadable
<1>16. \A schemas : OwnFiles(schemas) /\ DanglingIn(files, lost, schemas)
                      => DanglingIn(files', lost', schemas)
  <2>1. PICK dropped : dropped = lost'
    OBVIOUS
  <2>2. lost \subseteq dropped
    BY <1>1, <2>1
  <2>3. \A m \in Names : files'[m] # NoFile \/ files'[m] = files[m] \/ m \in dropped
    BY <1>1, <1>10, <2>1
  <2> QED
    BY <2>1, <2>2, <2>3, FilesDangling
<1>17. RowsInv'
  <2>1. ReadableIn(files, tables) => ReadableIn(files', less)
    BY <1>7, <1>15, AmongReadable
  <2> QED
    BY <1>1, <1>2, <1>3, <1>6, <1>15, <2>1 DEF RowsInv
<1>18. FilesInv'
  <2>1. DanglingIn(files', lost', less)
    <3>1. DanglingIn(files', lost', tables)
      BY <1>2, <1>4, <1>16 DEF FilesInv
    <3> QED
      BY <1>7, <3>1, AmongDangling
  <2>2. DanglingIn(files', lost', TablesAtStart)
    BY <1>2, <1>16 DEF FilesInv, StartInv
  <2> QED
    BY <1>3, <1>6, <2>1, <2>2 DEF FilesInv
<1> QED
  BY <1>11, <1>12, <1>13, <1>14, <1>17, <1>18 DEF Inv

LEMMA SaveOpensInv ==
  ASSUME Inv, SaveOpens
  PROVE  Inv'
<1>1. /\ pc = "save" /\ pc' = "write" /\ catalogTxt' = << >>
      /\ UNCHANGED <<files, tables, openFiles, stmt, lost, unsaved, forgotten>>
  BY DEF SaveOpens, memory
<1>2. TypeOK /\ HandlesInv /\ StatementInv /\ RowsInv /\ FilesInv
  BY DEF Inv
<1>3. catalogTxt' \in Seq(Lines)
  BY <1>1, EmptyType
<1>4. TablesAtStart' = << >>
  BY <1>1, LoadNothing DEF TablesAtStart
<1>5. TypeOK'
  BY <1>1, <1>2, <1>3 DEF TypeOK
<1>6. HandlesInv' /\ StatementInv' /\ DownInv'
  BY <1>1, <1>2, <1>3 DEF HandlesInv, StatementInv, DownInv
<1>7. StartInv'
  BY <1>1, <1>4, NothingToRead DEF StartInv
<1>8. RowsInv' /\ FilesInv'
  BY <1>1, <1>2, <1>4, NothingToRead DEF RowsInv, FilesInv
<1> QED
  BY <1>5, <1>6, <1>7, <1>8 DEF Inv

LEMMA SaveWritesInv ==
  ASSUME Inv, SaveWrites
  PROVE  Inv'
<1>1. /\ pc = "write"
      /\ UNCHANGED <<files, tables, openFiles, stmt, pc, lost, unsaved, forgotten>>
  BY DEF SaveWrites, memory
<1>2. TypeOK /\ HandlesInv /\ StatementInv /\ RowsInv /\ FilesInv
  BY DEF Inv
<1>3. tables \in Seq(TableSchemas) /\ OwnFiles(tables)
  BY <1>2 DEF TypeOK
<1>4. catalogTxt \in Seq(Lines)
  BY <1>1, <1>2 DEF StatementInv
<1>5. PICK text : text = catalogTxt'
  OBVIOUS
<1>6. text \in Seq(Lines) /\ (load(text) = tables \/ PartOf(load(text), tables))
  <2>1. CASE text = CatalogLines(tables)
    BY <1>3, <2>1, AllSaved, SavedIsLoaded DEF Saved
  <2>2. ASSUME NEW upto \in Len(catalogTxt)..(Len(CatalogLines(tables)) - 1),
               NEW part \in Parts(CatalogLines(tables)[upto + 1]),
               text = SubSeq(CatalogLines(tables), 1, upto) \o part
        PROVE  text \in Seq(Lines) /\ PartOf(load(text), tables)
    <3>1. Len(catalogTxt) \in Nat /\ CatalogLines(tables) \in Seq(Lines)
      BY <1>3, <1>4, AllSaved DEF Saved
    <3>2. upto \in 0..(Len(CatalogLines(tables)) - 1)
      BY <3>1
    <3> QED
      BY <1>3, <2>2, <3>2, CutSave
  <2> QED
    BY <1>5, <2>1, <2>2 DEF SaveWrites
<1>7. TablesAtStart' = load(text)
  BY <1>5, <1>6, NoFileIsNone DEF TablesAtStart
<1>8. OwnFiles(load(text)) /\ Among(load(text), tables)
  <2>1. CASE load(text) = tables
    BY <1>3, <2>1 DEF Among
  <2>2. CASE PartOf(load(text), tables)
    BY <1>3, <2>2, PartOfTables
  <2> QED
    BY <1>6, <2>1, <2>2
<1>9. TypeOK'
  BY <1>1, <1>2, <1>5, <1>6 DEF TypeOK
<1>10. HandlesInv' /\ StatementInv' /\ DownInv'
  BY <1>1, <1>2, <1>5, <1>6 DEF HandlesInv, StatementInv, DownInv
<1>11. StartInv'
  BY <1>1, <1>7, <1>8 DEF StartInv
<1>12. RowsInv'
  <2>1. ReadableIn(files, tables) => ReadableIn(files, load(text))
    BY <1>8, AmongReadable
  <2> QED
    BY <1>1, <1>2, <1>7, <2>1 DEF RowsInv
<1>13. FilesInv'
  <2>1. DanglingIn(files, lost, load(text))
    BY <1>2, <1>8, AmongDangling DEF FilesInv
  <2> QED
    BY <1>1, <1>2, <1>7, <2>1 DEF FilesInv
<1> QED
  BY <1>9, <1>10, <1>11, <1>12, <1>13 DEF Inv

(* The handles when CREATE TABLE or DROP TABLE reports success.            *)
LEMMA ReportHandles ==
  ASSUME Inv, pc \in {"save", "write"}, ReportSuccess
  PROVE  HandlesInv' /\ openFiles' \subseteq Names
<1>1. /\ UNCHANGED <<files, tables>>
      /\ openFiles' = IF stmt.kind = "CREATE_TABLE" THEN openFiles \cup {stmt.name}
                      ELSE openFiles
  BY DEF ReportSuccess
<1>2. TypeOK /\ HandlesInv /\ StatementInv
  BY DEF Inv
<1>3. HandlesInv'
  BY <1>1, <1>2 DEF HandlesInv, StatementInv
<1> QED
  BY <1>1, <1>2, <1>3 DEF TypeOK, StatementInv

LEMMA SaveEndsInv ==
  ASSUME Inv, SaveEnds
  PROVE  Inv'
<1>1. /\ pc = "write" /\ catalogTxt = CatalogLines(tables) /\ pc' = "idle"
      /\ lost' = lost \ {stmt.name} /\ unsaved' = FALSE
      /\ UNCHANGED <<catalogTxt, files, tables, forgotten>>
  BY DEF SaveEnds, ReportSuccess, End
<1>2. TypeOK /\ HandlesInv /\ StatementInv /\ RowsInv /\ FilesInv
  BY DEF Inv
<1>3. tables \in Seq(TableSchemas) /\ OwnFiles(tables)
  BY <1>2 DEF TypeOK
<1>4. catalogTxt \in Seq(Lines)
  BY <1>1, <1>2 DEF StatementInv
<1>5. TablesAtStart = tables
  BY <1>1, <1>3, <1>4, NoFileIsNone, SavedIsLoaded DEF TablesAtStart
<1>6. TablesAtStart' = tables
  BY <1>1, <1>5, SameStart
<1>7. HandlesInv' /\ openFiles' \subseteq Names
  BY <1>1, ReportHandles DEF SaveEnds
<1>8. TypeOK'
  BY <1>1, <1>2, <1>7 DEF TypeOK
<1>9. StatementInv' /\ DownInv'
  BY <1>1 DEF StatementInv, DownInv
<1>10. StartInv'
  BY <1>1, <1>3, <1>6 DEF StartInv
<1>11. RowsInv'
  BY <1>1, <1>2, <1>6 DEF RowsInv
<1>12. FilesInv'
  <2>1. ASSUME NEW i \in DOMAIN tables, tables[i].filePath \in Names,
               files[tables[i].filePath] = NoFile
        PROVE  tables[i].name \in lost \ {stmt.name}
    <3>1. tables[i].name \in lost
      BY <1>2, <2>1 DEF FilesInv, DanglingIn
    <3>2. tables[i].filePath = tables[i].name /\ tables[i].filePath # ""
      BY <1>3, <2>1, NamesAssumption, OwnFilesAt
    <3>3. stmt.kind = "CREATE_TABLE" => files[stmt.name] # NoFile
      BY <1>1, <1>2 DEF StatementInv
    <3>4. stmt.kind = "DROP_TABLE" /\ tables[i].name = stmt.name => tables[i].filePath = ""
      BY <1>1, <1>2 DEF StatementInv, Fileless
    <3>5. stmt.kind \in {"CREATE_TABLE", "DROP_TABLE"}
      BY <1>1, <1>2 DEF StatementInv
    <3> QED
      BY <2>1, <3>1, <3>2, <3>3, <3>4, <3>5
  <2>2. DanglingIn(files, lost \ {stmt.name}, tables)
    BY <2>1 DEF DanglingIn
  <2> QED
    BY <1>1, <1>6, <2>2 DEF FilesInv
<1> QED
  BY <1>7, <1>8, <1>9, <1>10, <1>11, <1>12 DEF Inv

LEMMA SaveFailsInv ==
  ASSUME Inv, SaveFails
  PROVE  Inv'
<1>1. /\ pc \in {"save", "write"} /\ pc' = "idle" /\ unsaved' = TRUE
      /\ UNCHANGED <<catalogTxt, files, tables, lost, forgotten>>
  BY DEF SaveFails, ReportSuccess, End
<1>2. TypeOK /\ StartInv /\ RowsInv /\ FilesInv
  BY DEF Inv
<1>3. TablesAtStart' = TablesAtStart
  BY <1>1, SameStart
<1>4. HandlesInv' /\ openFiles' \subseteq Names
  BY <1>1, ReportHandles DEF SaveFails
<1>5. TypeOK'
  BY <1>1, <1>2, <1>4 DEF TypeOK
<1>6. StatementInv' /\ DownInv'
  BY <1>1 DEF StatementInv, DownInv
<1>7. StartInv' /\ RowsInv' /\ FilesInv'
  BY <1>1, <1>2, <1>3 DEF StartInv, RowsInv, FilesInv
<1> QED
  BY <1>4, <1>5, <1>6, <1>7 DEF Inv

LEMMA CrashInv ==
  ASSUME Inv, Crash
  PROVE  Inv'
<1>1. /\ pc' = "down" /\ tables' = << >> /\ openFiles' = {}
      /\ forgotten' = (forgotten \/ unsaved)
      /\ UNCHANGED <<catalogTxt, files, lost, unsaved>>
  BY DEF Crash
<1>2. TypeOK /\ StartInv /\ RowsInv /\ FilesInv
  BY DEF Inv
<1>3. TablesAtStart' = TablesAtStart
  BY <1>1, SameStart
<1>4. TypeOK'
  BY <1>1, <1>2, NothingToRead DEF TypeOK
<1>5. HandlesInv' /\ StatementInv' /\ DownInv'
  BY <1>1 DEF HandlesInv, StatementInv, DownInv
<1>6. StartInv'
  BY <1>1, <1>2, <1>3 DEF StartInv
<1>7. RowsInv'
  BY <1>1, <1>2, <1>3, NothingToRead DEF RowsInv
<1>8. FilesInv'
  BY <1>1, <1>2, <1>3, NothingToRead DEF FilesInv
<1> QED
  BY <1>4, <1>5, <1>6, <1>7, <1>8 DEF Inv

(* The rows of a file to which INSERT has written one more.                *)
LEMMA InsertedRow ==
  ASSUME NEW pages \in Files, NEW columns \in Seq(Columns)
  PROVE  /\ WithRow(pages, columns) \in Files
         /\ RowsUnder(pages, columns) => RowsUnder(WithRow(pages, columns), columns)
<1>1. pages \in Seq(Seq(Seq(Columns)))
  BY DEF Files
<1>2. CASE Len(pages) > 1
  <2>1. 2 \in DOMAIN pages /\ pages[2] \in Seq(Seq(Columns))
    BY <1>1, <1>2
  <2>2. PICK page \in Seq(Seq(Columns)) : page = Append(pages[2], columns)
    BY <2>1, AppendType
  <2>3. PICK more : more = [pages EXCEPT ![2] = page]
    OBVIOUS
  <2>4. WithRow(pages, columns) = more
    BY <1>1, <1>2, <2>1, <2>2, <2>3 DEF WithRow
  <2>5. more \in Seq(Seq(Seq(Columns)))
    BY <1>1, <2>1, <2>3
  <2>6. DOMAIN more = DOMAIN pages /\ more[2] = page
        /\ \A i \in DOMAIN pages : i = 2 \/ more[i] = pages[i]
    BY <1>1, <2>1, <2>3
  <2>7. \A j \in DOMAIN page : page[j] = columns \/ \E m \in DOMAIN pages[2] : page[j] = pages[2][m]
    <3>1. PICK old \in Seq(Seq(Columns)) : old = pages[2]
      BY <2>1
    <3>2. page = Append(old, columns)
      BY <2>2, <3>1
    <3>3. \A j \in DOMAIN page : page[j] = columns \/ \E m \in DOMAIN old : page[j] = old[m]
      BY <3>2
    <3> QED
      BY <3>1, <3>3
  <2>8. ASSUME RowsUnder(pages, columns)
        PROVE  RowsUnder(more, columns)
    <3>1. \A i \in DOMAIN pages : \A m \in DOMAIN pages[i] : pages[i][m] = columns
      BY <2>8 DEF RowsUnder, Range
    <3>2. \A i \in DOMAIN more : \A j \in DOMAIN more[i] : more[i][j] = columns
      BY <2>1, <2>6, <2>7, <3>1
    <3> QED
      BY <3>2 DEF RowsUnder, Range
  <2> QED
    BY <2>4, <2>5, <2>8 DEF Files
<1>3. CASE ~ (Len(pages) > 1)
  <2>1. <<columns>> \in Seq(Seq(Columns))
    OBVIOUS
  <2>2. PICK page \in Seq(Seq(Columns)) : page = <<columns>>
    BY <2>1
  <2>3. PICK more : more = Append(pages, page)
    OBVIOUS
  <2>4. WithRow(pages, columns) = more
    BY <1>3, <2>2, <2>3 DEF WithRow
  <2>5. more \in Seq(Seq(Seq(Columns)))
    BY <1>1, <2>3, AppendType
  <2>6. \A i \in DOMAIN more : more[i] = page \/ \E m \in DOMAIN pages : more[i] = pages[m]
    BY <1>1, <2>3
  <2>7. \A j \in DOMAIN page : page[j] = columns
    BY <2>2
  <2>8. ASSUME RowsUnder(pages, columns)
        PROVE  RowsUnder(more, columns)
    <3>1. \A i \in DOMAIN pages : \A m \in DOMAIN pages[i] : pages[i][m] = columns
      BY <2>8 DEF RowsUnder, Range
    <3>2. \A i \in DOMAIN more : \A j \in DOMAIN more[i] : more[i][j] = columns
      BY <2>6, <2>7, <3>1
    <3> QED
      BY <3>2 DEF RowsUnder, Range
  <2> QED
    BY <2>4, <2>5, <2>8 DEF Files
<1> QED
  BY <1>2, <1>3

(* A handle is opened for a table of the catalog whose file is there.      *)
LEMMA OpenTableInv ==
  ASSUME Inv, NEW n \in Names, OpenTable(n)
  PROVE  Inv'
<1>1. /\ pc = "idle" /\ pc' = "idle" /\ ResolveError(n) = "None"
      /\ openFiles' = openFiles \cup {n}
      /\ UNCHANGED <<catalogTxt, files, tables, lost, unsaved, forgotten>>
  BY DEF OpenTable, End
<1>2. TypeOK /\ HandlesInv /\ StartInv /\ RowsInv /\ FilesInv
  BY DEF Inv
<1>3. tables \in Seq(TableSchemas) /\ OwnFiles(tables) /\ openFiles \subseteq Names
  BY <1>2 DEF TypeOK
<1>4. n \in NamesOf(tables)
  BY <1>1 DEF ResolveError
<1>5. PICK t \in TableSchemas : t = findTable(n)
  BY <1>3, <1>4, FindTable
<1>6. files[n] # NoFile /\ HasEntry(tables, n)
  <2>1. CASE n \in openFiles
    BY <1>2, <1>3, <1>5, <2>1, FindTable DEF HandlesInv
  <2>2. CASE n \notin openFiles
    <3>1. Exists(t.filePath)
      BY <1>1, <1>4, <1>5, <2>2 DEF ResolveError
    <3>2. t.filePath = n
      BY <1>3, <1>4, <1>5, <3>1, FindTable, NamesAssumption DEF Exists
    <3> QED
      BY <1>3, <1>4, <1>5, <3>1, <3>2, FindTable DEF Exists
  <2> QED
    BY <2>1, <2>2
<1>7. TypeOK'
  BY <1>1, <1>2 DEF TypeOK
<1>8. HandlesInv'
  BY <1>1, <1>2, <1>3, <1>6 DEF HandlesInv
<1>9. StatementInv' /\ DownInv'
  BY <1>1 DEF StatementInv, DownInv
<1>10. TablesAtStart' = TablesAtStart
  BY <1>1, SameStart
<1>11. StartInv' /\ RowsInv' /\ FilesInv'
  BY <1>1, <1>2, <1>10 DEF StartInv, RowsInv, FilesInv
<1> QED
  BY <1>7, <1>8, <1>9, <1>11 DEF Inv

LEMMA InsertRowInv ==
  ASSUME Inv, NEW n \in Names, InsertRow(n)
  PROVE  Inv'
<1>1. /\ pc = "idle" /\ pc' = "idle" /\ ResolveError(n) = "None"
      /\ openFiles' = openFiles \cup {n}
      /\ files' = [files EXCEPT ![findTable(n).filePath] = WithRow(@, findTable(n).columns)]
      /\ UNCHANGED <<catalogTxt, tables, lost, unsaved, forgotten>>
  BY DEF InsertRow, End
<1>2. TypeOK /\ HandlesInv /\ StartInv /\ RowsInv /\ FilesInv
  BY DEF Inv
<1>3. tables \in Seq(TableSchemas) /\ OwnFiles(tables) /\ openFiles \subseteq Names
      /\ files \in [Names -> Files \cup {NoFile}]
  BY <1>2 DEF TypeOK
<1>4. n \in NamesOf(tables)
  BY <1>1 DEF ResolveError
<1>5. PICK t \in TableSchemas : t = findTable(n)
  BY <1>3, <1>4, FindTable
<1>6. t.filePath = n /\ files[n] # NoFile /\ HasEntry(tables, n)
  <2>1. CASE n \in openFiles
    BY <1>2, <1>3, <1>5, <2>1, FindTable DEF HandlesInv
  <2>2. CASE n \notin openFiles
    <3>1. Exists(t.filePath)
      BY <1>1, <1>4, <1>5, <2>2 DEF ResolveError
    <3>2. t.filePath = n
      BY <1>3, <1>4, <1>5, <3>1, FindTable, NamesAssumption DEF Exists
    <3> QED
      BY <1>3, <1>4, <1>5, <3>1, <3>2, FindTable DEF Exists
  <2> QED
    BY <2>1, <2>2
<1>7. \A i \in DOMAIN tables : tables[i].filePath = n => tables[i] = t
  BY <1>3, <1>4, <1>5, FindTable
<1>8. PICK pages \in Files : pages = files[n]
  BY <1>3, <1>6
<1>9. PICK more : more = WithRow(pages, t.columns)
  OBVIOUS
<1>10. more \in Files /\ (RowsUnder(pages, t.columns) => RowsUnder(more, t.columns))
  <2>1. t.columns \in Seq(Columns)
    BY DEF TableSchemas
  <2> QED
    BY <1>9, <2>1, InsertedRow
<1>11. files' = [files EXCEPT ![n] = more]
  BY <1>1, <1>5, <1>6, <1>8, <1>9
<1>12. /\ files' \in [Names -> Files \cup {NoFile}] /\ files'[n] = more /\ more # NoFile
       /\ \A m \in Names : m = n \/ files'[m] = files[m]
  BY <1>3, <1>10, <1>11, NoFileIsNone
<1>13. TypeOK'
  BY <1>1, <1>2, <1>12 DEF TypeOK
<1>14. HandlesInv'
  BY <1>1, <1>2, <1>3, <1>6, <1>12 DEF HandlesInv
<1>15. StatementInv' /\ DownInv'
  BY <1>1 DEF StatementInv, DownInv
<1>16. TablesAtStart' = TablesAtStart
  BY <1>1, SameStart
<1>17. StartInv'
  BY <1>1, <1>2, <1>16 DEF StartInv
<1>18. ReadableIn(files, tables) => ReadableIn(files', tables)
  <2>1. ASSUME ReadableIn(files, tables), NEW i \in DOMAIN tables,
               tables[i].filePath \in Names, files'[tables[i].filePath] # NoFile
        PROVE  RowsUnder(files'[tables[i].filePath], tables[i].columns)
    <3>1. CASE tables[i].filePath = n
      <4>1. tables[i] = t
        BY <1>7, <3>1
      <4>2. RowsUnder(pages, t.columns)
        BY <1>6, <1>8, <2>1, <3>1, <4>1 DEF ReadableIn
      <4> QED
        BY <1>10, <1>12, <3>1, <4>1, <4>2
    <3>2. CASE tables[i].filePath # n
      BY <1>12, <2>1, <3>2 DEF ReadableIn
    <3> QED
      BY <3>1, <3>2
  <2> QED
    BY <2>1 DEF ReadableIn
<1>19. RowsInv'
  <2>1. ~ unsaved => TablesAtStart = tables
    BY <1>1, <1>2 DEF StartInv
  <2> QED
    BY <1>1, <1>2, <1>16, <1>18, <2>1 DEF RowsInv
<1>20. FilesInv'
  <2>1. \A schemas : OwnFiles(schemas) /\ DanglingIn(files, lost, schemas)
                       => DanglingIn(files', lost, schemas)
    <3>1. \A m \in Names : files'[m] # NoFile \/ files'[m] = files[m] \/ m \in lost
      BY <1>12
    <3> QED
      BY <3>1, FilesDangling
  <2> QED
    BY <1>1, <1>2, <1>3, <1>16, <2>1 DEF FilesInv, StartInv
<1> QED
  BY <1>13, <1>14, <1>15, <1>17, <1>19, <1>20 DEF Inv

(* Inv holds at the first start and after every step.                      *)
LEMMA InvInductive == Spec => []Inv
<1>1. Init => Inv
  BY InitInv
<1>2. Inv /\ [Next]_vars => Inv'
  <2> SUFFICES ASSUME Inv, [Next]_vars PROVE Inv'
    OBVIOUS
  <2>1. CASE Boot
    BY <2>1, BootInv
  <2>2. CASE ReserveAndAdd
    BY <2>2, ReserveAndAddInv
  <2>3. CASE SaveOpens
    BY <2>3, SaveOpensInv
  <2>4. CASE SaveWrites
    BY <2>4, SaveWritesInv
  <2>5. CASE SaveEnds
    BY <2>5, SaveEndsInv
  <2>6. CASE SaveFails
    BY <2>6, SaveFailsInv
  <2>7. CASE AllocateFails
    <3>1. pc = "allocate" /\ pc' = "idle"
          /\ UNCHANGED <<catalogTxt, files, tables, openFiles, lost, unsaved, forgotten>>
      BY <2>7 DEF AllocateFails, End, memory
    <3> QED
      BY <3>1, FailureInv
  <2>8. CASE Crash
    BY <2>8, CrashInv
  <2>9. ASSUME NEW n \in Names, NEW columns \in Schemas, CreateFile(n, columns)
        PROVE  Inv'
    BY <2>9, CreateFileInv
  <2>10. ASSUME NEW n \in Names, CreateFails(n) \/ DropFails(n) \/ ResolveFails(n)
         PROVE  Inv'
    <3>1. pc = "idle" /\ pc' = "idle"
          /\ UNCHANGED <<catalogTxt, files, tables, openFiles, lost, unsaved, forgotten>>
      BY <2>10 DEF CreateFails, DropFails, ResolveFails, End, memory
    <3> QED
      BY <3>1, FailureInv
  <2>11. ASSUME NEW n \in Names, DropTable(n)
         PROVE  Inv'
    BY <2>11, DropTableInv
  <2>12. ASSUME NEW n \in Names, InsertRow(n)
         PROVE  Inv'
    BY <2>12, InsertRowInv
  <2>13. ASSUME NEW n \in Names, OpenTable(n)
         PROVE  Inv'
    BY <2>13, OpenTableInv
  <2>14. CASE BootDies \/ UNCHANGED vars
    <3>1. UNCHANGED <<catalogTxt, files, tables, openFiles, stmt, pc, lost, unsaved, forgotten>>
      BY <2>14 DEF BootDies, memory, vars
    <3>2. TablesAtStart' = TablesAtStart
      BY <3>1, SameStart
    <3> QED
      BY <3>1, <3>2 DEF Inv, TypeOK, HandlesInv, StatementInv, DownInv, StartInv, RowsInv, FilesInv
  <2> QED
    BY <2>1, <2>2, <2>3, <2>4, <2>5, <2>6, <2>7, <2>8, <2>9, <2>10, <2>11, <2>12, <2>13, <2>14 DEF Next
<1> QED
  BY <1>1, <1>2, PTL DEF Spec

-----------------------------------------------------------------------------
(* TypeOK: among others, no two tables of the catalog share a file, however*)
(* often a save is cut short and loaded again.                             *)
THEOREM TypeCorrect == Spec => []TypeOK
BY InvInductive, PTL DEF Inv

(* Between statements a restart would load exactly the tables in memory,   *)
(* unless the last save failed.                                            *)
THEOREM RestartLoadsTheTables == Spec => []MemoryMatchesFile
<1>1. Inv => MemoryMatchesFile
  BY DEF Inv, StartInv, MemoryMatchesFile
<1> QED
  BY <1>1, InvInductive, PTL

(* An open handle belongs to a table of the catalog and to its file, which *)
(* is there.                                                               *)
THEOREM HandlesStayCurrent == Spec => []HandlesAreCurrent
<1>1. Inv => HandlesAreCurrent
  <2> SUFFICES ASSUME Inv, NEW n \in openFiles
               PROVE  n \in NamesOf(tables) /\ findTable(n).filePath = n /\ Exists(n)
    BY DEF HandlesAreCurrent
  <2>1. n \in Names /\ tables \in Seq(TableSchemas) /\ OwnFiles(tables)
    BY DEF Inv, TypeOK
  <2>2. HasEntry(tables, n) /\ files[n] # NoFile
    BY DEF Inv, HandlesInv
  <2> QED
    BY <2>1, <2>2, FindTable DEF Exists
<1> QED
  BY <1>1, InvInductive, PTL

(* The rows a statement can reach were written under the columns it reads  *)
(* them with, as long as no process died after a save that failed.         *)
THEOREM RowsStayReadable == Spec => []RowsReadable
<1>1. Inv => RowsReadable
  <2> SUFFICES ASSUME Inv, ~ forgotten, NEW i \in DOMAIN tables, Exists(tables[i].filePath)
               PROVE  RowsUnder(files[tables[i].filePath], tables[i].columns)
    BY DEF RowsReadable, RowsUnder, Range
  <2>1. ReadableIn(files, tables)
    BY DEF Inv, RowsInv
  <2> QED
    BY <2>1 DEF ReadableIn, Exists
<1> QED
  BY <1>1, InvInductive, PTL

(* A table without its file is one whose DROP was cut short or not saved.  *)
THEOREM OnlyDropsDangle == Spec => []DanglingOnlyIfDropped
<1>1. Inv => DanglingOnlyIfDropped
  <2>1. Inv => DanglingIn(files, lost, tables)
    BY DEF Inv, FilesInv
  <2> QED
    BY <2>1 DEF DanglingIn, DanglingOnlyIfDropped, Range
<1> QED
  BY <1>1, InvInductive, PTL
=============================================================================
