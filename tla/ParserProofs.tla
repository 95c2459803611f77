---------------------------- MODULE ParserProofs ----------------------------
(***************************************************************************)
(* For every set of token sequences that end as the Lexer ends them, of    *)
(* any length: what the parser makes of them. First the expressions: what  *)
(* a call of a parse function leaves behind, by induction on the depth of  *)
(* its calls (Parsed, Contract), and that it passes every phrase there is  *)
(* (Understood). Then the statements: each part of one keeps what is       *)
(* parsed a forest (Good), each step the invariant PInv.                   *)
(***************************************************************************)
EXTENDS Parser, SequenceTheorems, WellFoundedInduction, TLAPS

(* Induction without an operator parameter: over a set.                    *)
LEMMA NatSet ==
  ASSUME NEW S, 0 \in S, \A n \in S \cap Nat : n + 1 \in S
  PROVE  Nat \subseteq S
<1> SUFFICES ASSUME NEW T, T = Nat \ S, T # {} PROVE FALSE
  OBVIOUS
<1>1. PICK x \in T : \A y \in T : ~ (<<y, x>> \in OpToRel(<, Nat))
  BY NatLessThanWellFounded, WFMin
<1>2. x # 0 /\ x - 1 \in Nat /\ x - 1 < x /\ (x - 1) + 1 = x
  OBVIOUS
<1>3. x - 1 \notin T
  BY <1>1, <1>2 DEF OpToRel
<1> QED
  BY <1>2, <1>3

-----------------------------------------------------------------------------
(* The grammar. Derivations of phrases of at most n tokens exist by        *)
(* induction on n, for each rule looks at shorter ones only.               *)
LEMMA PhraseFacts ==
  ASSUME NEW ts, Len(ts) \in Nat, NEW ph \in Phrases(ts)
  PROVE  /\ ph.level \in 1..8 /\ ph.index \in Nat
         /\ ph.from \in 1..(Len(ts) + 1) /\ ph.to \in 0..Len(ts)
         /\ ph = Phrase(ph.level, ph.index, ph.from, ph.to)
  BY DEF Phrases, Phrase

LEMMA ExprFacts ==
  ASSUME NEW e \in Exprs
  PROVE  /\ e.kind = "BINARY" => e.left \in Nat /\ e.right \in Nat
         /\ e.kind = "UNARY"  => e.operand \in Nat
  BY DEF Exprs

LEMMA LevelsOfOperators ==
  ASSUME NEW l \in 1..8, NEW operator \in BinaryOperators(l)
  PROVE  l \in {1, 2, 4, 5, 6} /\ (operator = "IS_NOT" => l = 4)
<1>1. /\ Operators[1] = {"OR"} /\ Operators[2] = {"AND"} /\ Operators[3] = {}
      /\ Operators[4] = {"EQUAL", "NOT_EQUAL", "LESS_THAN", "LESS_EQ", "GREATER_THAN", "GREATER_EQ", "IS"}
      /\ Operators[5] = {"PLUS", "MINUS"} /\ Operators[6] = {"STAR", "SLASH"}
      /\ Operators[7] = {} /\ Operators[8] = {}
  BY DEF Operators
<1> QED
  BY <1>1 DEF BinaryOperators

Extends(s, t) ==
  Len(s) <= Len(t) /\ \A i \in 1..Len(s) : t[i] = s[i]

LEMMA ExtendsSelf ==
  ASSUME NEW s \in Seq(Exprs)
  PROVE  Extends(s, s)
  BY DEF Extends

LEMMA ExtendsTransitive ==
  ASSUME NEW s \in Seq(Exprs), NEW t \in Seq(Exprs), NEW u \in Seq(Exprs),
         Extends(s, t), Extends(t, u)
  PROVE  Extends(s, u)
  BY DEF Extends

(* What a rule says depends on shorter phrases only.                       *)
Keeps(f, g, ts, from, to) ==
  \A sub \in Phrases(ts) : sub.to - sub.from < to - from => (f[sub] => g[sub])

LEMMA KeepsOn ==
  ASSUME NEW ts, Len(ts) \in Nat, NEW f, NEW g, NEW from \in Int, NEW to \in Int, Keeps(f, g, ts, from, to),
         NEW l \in 1..8, NEW i \in Nat, NEW a \in 1..(Len(ts) + 1), NEW b \in 0..Len(ts),
         b - a < to - from
  PROVE  f[Phrase(l, i, a, b)] => g[Phrase(l, i, a, b)]
<1>1. /\ Phrase(l, i, a, b) \in Phrases(ts)
      /\ Phrase(l, i, a, b).from = a /\ Phrase(l, i, a, b).to = b
  BY DEF Phrase, Phrases
<1> QED
  BY <1>1 DEF Keeps

LEMMA SameBinary ==
  ASSUME NEW ts, Len(ts) \in Nat, NEW e \in Exprs, NEW l \in 1..8,
         NEW from \in 1..(Len(ts) + 1), NEW to \in 0..Len(ts),
         NEW f, NEW g, Keeps(f, g, ts, from, to), IsBinary(f, ts, e, l, from, to)
  PROVE  IsBinary(g, ts, e, l, from, to)
<1>1. PICK k \in (from + 1)..(to - 1) :
            /\ IsOperatorAt(ts, e.operator, k)
            /\ f[Phrase(l, e.left, from, k - 1)]
            /\ f[Phrase(l + 1, e.right, k + OperatorLength(e.operator), to)]
  BY DEF IsBinary
<1>2. e.kind = "BINARY" /\ e.operator \in BinaryOperators(l) /\ e.left \in Nat /\ e.right \in Nat
  BY ExprFacts DEF IsBinary
<1>3. l + 1 \in 1..8
  BY <1>2, LevelsOfOperators
<1>4. PICK n \in {1, 2} : n = OperatorLength(e.operator)
  BY DEF OperatorLength
<1>5. PICK a \in 0..Len(ts), b \in 1..(Len(ts) + 1), m \in 1..8 :
        /\ a = k - 1 /\ a - from < to - from
        /\ b = k + n /\ to - b < to - from
        /\ m = l + 1
  BY <1>3
<1>6. f[Phrase(l, e.left, from, a)] => g[Phrase(l, e.left, from, a)]
  <2>1. e.left \in Nat /\ a - from < to - from
    BY <1>2, <1>5
  <2> QED
    BY <2>1, KeepsOn
<1>7. f[Phrase(m, e.right, b, to)] => g[Phrase(m, e.right, b, to)]
  <2>1. e.right \in Nat /\ to - b < to - from
    BY <1>2, <1>5
  <2>2. /\ Phrase(m, e.right, b, to) \in Phrases(ts)
        /\ Phrase(m, e.right, b, to).from = b /\ Phrase(m, e.right, b, to).to = to
    BY <2>1 DEF Phrase, Phrases
  <2> QED
    BY <2>1, <2>2 DEF Keeps
<1> QED
  BY <1>1, <1>2, <1>4, <1>5, <1>6, <1>7 DEF IsBinary

LEMMA SameUnary ==
  ASSUME NEW ts, Len(ts) \in Nat, NEW e \in Exprs, NEW l \in 1..8,
         NEW from \in 1..(Len(ts) + 1), NEW to \in 0..Len(ts), from <= to,
         NEW f, NEW g, Keeps(f, g, ts, from, to), IsUnary(f, ts, e, l, from, to)
  PROVE  IsUnary(g, ts, e, l, from, to)
<1>1. e.kind = "UNARY" /\ e.operand \in Nat /\ l \in {3, 7}
  BY ExprFacts DEF IsUnary
<1>2. PICK m \in 1..8, a \in 1..(Len(ts) + 1) :
        m = l + 1 /\ a = from + 1 /\ to - a < to - from
  BY <1>1
<1>3. f[Phrase(m, e.operand, a, to)] => g[Phrase(m, e.operand, a, to)]
  <2>1. e.operand \in Nat /\ to - a < to - from
    BY <1>1, <1>2
  <2>2. /\ Phrase(m, e.operand, a, to) \in Phrases(ts)
        /\ Phrase(m, e.operand, a, to).from = a /\ Phrase(m, e.operand, a, to).to = to
    BY <2>1 DEF Phrase, Phrases
  <2> QED
    BY <2>1, <2>2 DEF Keeps
<1> QED
  BY <1>2, <1>3 DEF IsUnary

LEMMA SameDerived ==
  ASSUME NEW ts, Len(ts) \in Nat, NEW exprs \in Seq(Exprs), NEW ph \in Phrases(ts),
         NEW more \in Seq(Exprs), Extends(exprs, more),
         NEW f, NEW g, Keeps(f, g, ts, ph.from, ph.to), IsDerived(f, ts, exprs, ph)
  PROVE  IsDerived(g, ts, more, ph)
<1>0. /\ ph.from \in 1..(Len(ts) + 1) /\ ph.to \in 0..Len(ts)
      /\ ph.index \in Nat /\ ph.level \in 1..8
  BY PhraseFacts
<1>1. /\ ph.from <= ph.to /\ ph.index \in DOMAIN exprs /\ exprs[ph.index] \in Exprs
      /\ ph.index \in DOMAIN more /\ more[ph.index] = exprs[ph.index]
  BY DEF IsDerived, Extends
<1>2. CASE /\ InParentheses(ts, ph.from, ph.to)
           /\ f[Phrase(1, ph.index, ph.from + 1, ph.to - 1)]
  <2>1. PICK a \in 1..(Len(ts) + 1), b \in 0..Len(ts) :
          a = ph.from + 1 /\ b = ph.to - 1 /\ b - a < ph.to - ph.from
    BY <1>0, <1>1
  <2>2. f[Phrase(1, ph.index, a, b)] => g[Phrase(1, ph.index, a, b)]
    <3>1. b - a < ph.to - ph.from /\ ph.from \in Int /\ ph.to \in Int /\ 1 \in 1..8
      BY <1>0, <2>1
    <3>2. /\ Phrase(1, ph.index, a, b) \in Phrases(ts)
          /\ Phrase(1, ph.index, a, b).from = a /\ Phrase(1, ph.index, a, b).to = b
      BY <1>0, <3>1 DEF Phrase, Phrases
    <3> QED
      BY <3>1, <3>2 DEF Keeps
  <2> QED
    BY <1>1, <1>2, <2>1, <2>2 DEF IsDerived
<1>3. ASSUME NEW l \in ph.level..8,
             \/ IsBinary(f, ts, exprs[ph.index], l, ph.from, ph.to)
             \/ IsUnary(f, ts, exprs[ph.index], l, ph.from, ph.to)
      PROVE  IsDerived(g, ts, more, ph)
  <2>1. l \in 1..8
    BY <1>0
  <2>2. \/ IsBinary(g, ts, exprs[ph.index], l, ph.from, ph.to)
        \/ IsUnary(g, ts, exprs[ph.index], l, ph.from, ph.to)
    BY <1>0, <1>1, <1>3, <2>1, SameBinary, SameUnary
  <2> QED
    BY <1>1, <2>2 DEF IsDerived
<1>4. CASE IsPrimary(ts, exprs[ph.index], ph.from, ph.to)
  BY <1>1, <1>4 DEF IsDerived
<1> QED
  BY <1>2, <1>3, <1>4 DEF IsDerived

LEMMA IsDerivedIsBoolean ==
  ASSUME NEW f, NEW ts, NEW exprs, NEW ph
  PROVE  IsDerived(f, ts, exprs, ph) \in BOOLEAN
  BY DEF IsDerived

(* Derivations exist by induction on the length of phrases.                *)
IsDerivation(f, ts, exprs, n) ==
  \A ph \in Phrases(ts) : ph.to - ph.from < n => f[ph] = IsDerived(f, ts, exprs, ph)

LEMMA NextDerivation ==
  ASSUME NEW ts, Len(ts) \in Nat, NEW exprs \in Seq(Exprs), NEW n \in Nat,
         NEW f, IsDerivation(f, ts, exprs, n),
         NEW g, g = [ph \in Phrases(ts) |-> IsDerived(f, ts, exprs, ph)]
  PROVE  IsDerivation(g, ts, exprs, n + 1)
<1> SUFFICES ASSUME NEW ph \in Phrases(ts), ph.to - ph.from < n + 1
             PROVE  IsDerived(f, ts, exprs, ph) = IsDerived(g, ts, exprs, ph)
  BY DEF IsDerivation
<1>1. ph.to - ph.from \in Int /\ ph.to - ph.from <= n
  BY PhraseFacts
<1>2. Keeps(f, g, ts, ph.from, ph.to) /\ Keeps(g, f, ts, ph.from, ph.to)
  <2> SUFFICES ASSUME NEW sub \in Phrases(ts), sub.to - sub.from < ph.to - ph.from
               PROVE  f[sub] = g[sub]
    BY DEF Keeps
  <2>1. sub.to - sub.from \in Int
    BY PhraseFacts
  <2>2. sub.to - sub.from < n
    BY <1>1, <2>1
  <2> QED
    BY <2>2 DEF IsDerivation
<1>4. IsDerived(f, ts, exprs, ph) <=> IsDerived(g, ts, exprs, ph)
  BY <1>2, ExtendsSelf, SameDerived
<1> QED
  BY <1>4, IsDerivedIsBoolean

LEMMA DerivationExists ==
  ASSUME NEW ts, Len(ts) \in Nat, NEW exprs \in Seq(Exprs)
  PROVE  \E f : f = [ph \in Phrases(ts) |-> IsDerived(f, ts, exprs, ph)]
<1> DEFINE S == {n \in Nat : \E f : DOMAIN f = Phrases(ts) /\ IsDerivation(f, ts, exprs, n)
                                  /\ f = [ph \in Phrases(ts) |-> f[ph]]}
<1>1. 0 \in S
  <2>1. PICK f : f = [ph \in Phrases(ts) |-> IsDerived(ts, ts, exprs, ph)]
    OBVIOUS
  <2>2. \A ph \in Phrases(ts) : ph.to - ph.from < 0 => ~ (ph.from <= ph.to)
    <3> SUFFICES ASSUME NEW ph \in Phrases(ts), ph.to - ph.from < 0 PROVE ~ (ph.from <= ph.to)
      OBVIOUS
    <3> QED
      BY PhraseFacts
  <2>3. IsDerivation(f, ts, exprs, 0)
    <3> SUFFICES ASSUME NEW ph \in Phrases(ts), ph.to - ph.from < 0
                 PROVE  IsDerived(ts, ts, exprs, ph) = IsDerived(f, ts, exprs, ph)
      BY <2>1 DEF IsDerivation
    <3>1. ~ IsDerived(ts, ts, exprs, ph) /\ ~ IsDerived(f, ts, exprs, ph)
      BY <2>2 DEF IsDerived
    <3> QED
      BY <3>1, IsDerivedIsBoolean
  <2> QED
    BY <2>1, <2>3
<1>2. ASSUME NEW n \in S \cap Nat
      PROVE  n + 1 \in S
  <2>1. PICK f : IsDerivation(f, ts, exprs, n)
    OBVIOUS
  <2>2. PICK g : g = [ph \in Phrases(ts) |-> IsDerived(f, ts, exprs, ph)]
    OBVIOUS
  <2>3. IsDerivation(g, ts, exprs, n + 1)
    BY <2>1, <2>2, NextDerivation
  <2> QED
    BY <2>2, <2>3
<1> HIDE DEF S
<1>3. Len(ts) + 1 \in S
  BY <1>1, <1>2, NatSet
<1>4. PICK f : /\ DOMAIN f = Phrases(ts) /\ f = [ph \in Phrases(ts) |-> f[ph]]
               /\ IsDerivation(f, ts, exprs, Len(ts) + 1)
  BY <1>3 DEF S
<1>5. ASSUME NEW ph \in Phrases(ts)
      PROVE  f[ph] = IsDerived(f, ts, exprs, ph)
  <2>1. ph.to - ph.from < Len(ts) + 1
    BY PhraseFacts
  <2> QED
    BY <1>4, <2>1 DEF IsDerivation
<1> QED
  BY <1>4, <1>5

LEMMA DerivesDef ==
  ASSUME NEW ts, Len(ts) \in Nat, NEW exprs \in Seq(Exprs)
  PROVE  \E d : /\ \A ph \in Phrases(ts) : d[ph] = IsDerived(d, ts, exprs, ph)
                /\ \A ph : Derives(ts, exprs, ph) = d[ph]
<1>1. PICK f : f = [ph \in Phrases(ts) |-> IsDerived(f, ts, exprs, ph)]
  BY DerivationExists
<1>2. PICK d : /\ d = [ph \in Phrases(ts) |-> IsDerived(d, ts, exprs, ph)]
               /\ \A ph : Derives(ts, exprs, ph) = d[ph]
  BY <1>1, Zenon DEF Derives
<1>3. \A ph \in Phrases(ts) : d[ph] = IsDerived(d, ts, exprs, ph)
  BY <1>2
<1> QED
  BY <1>2, <1>3

(* What is derived stays derived when expressions are added.               *)
LEMMA DerivesMore ==
  ASSUME NEW ts, Len(ts) \in Nat, NEW exprs \in Seq(Exprs), NEW more \in Seq(Exprs),
         Extends(exprs, more), NEW phrase \in Phrases(ts), Derives(ts, exprs, phrase)
  PROVE  Derives(ts, more, phrase)
<1>1. PICK f : /\ \A ph \in Phrases(ts) : f[ph] = IsDerived(f, ts, exprs, ph)
               /\ \A ph : Derives(ts, exprs, ph) = f[ph]
  BY DerivesDef
<1>2. PICK g : /\ \A ph \in Phrases(ts) : g[ph] = IsDerived(g, ts, more, ph)
               /\ \A ph : Derives(ts, more, ph) = g[ph]
  BY DerivesDef
<1> DEFINE S == {n \in Nat : \A ph \in Phrases(ts) : ph.to - ph.from < n => (f[ph] => g[ph])}
<1>3. 0 \in S
  <2> SUFFICES ASSUME NEW ph \in Phrases(ts), ph.to - ph.from < 0 PROVE ~ f[ph]
    OBVIOUS
  <2>1. ~ (ph.from <= ph.to)
    BY PhraseFacts
  <2> QED
    BY <1>1, <2>1 DEF IsDerived
<1>4. ASSUME NEW n \in S \cap Nat, NEW ph \in Phrases(ts), ph.to - ph.from < n + 1, f[ph]
      PROVE  g[ph]
  <2>1. ph.to - ph.from \in Int /\ ph.to - ph.from <= n
    BY <1>4, PhraseFacts
  <2>2. Keeps(f, g, ts, ph.from, ph.to)
    <3> SUFFICES ASSUME NEW sub \in Phrases(ts), sub.to - sub.from < ph.to - ph.from
                 PROVE  f[sub] => g[sub]
      BY DEF Keeps
    <3>1. sub.to - sub.from \in Int
      BY PhraseFacts
    <3>2. sub.to - sub.from < n
      BY <2>1, <3>1
    <3> QED
      BY <3>2
  <2>3. IsDerived(g, ts, more, ph)
    BY <1>1, <1>4, <2>2, SameDerived
  <2> QED
    BY <1>2, <2>3
<1>5. \A n \in S \cap Nat : n + 1 \in S
  BY <1>4
<1> HIDE DEF S
<1>6. Len(ts) + 1 \in S
  BY <1>3, <1>5, NatSet
<1>7. phrase.to - phrase.from < Len(ts) + 1
  BY PhraseFacts
<1>8. f[phrase] => g[phrase]
  BY <1>6, <1>7 DEF S
<1> QED
  BY <1>1, <1>2, <1>8

(* The rules of the grammar, one by one.                                   *)
LEMMA DerivesLooser ==
  ASSUME NEW ts, Len(ts) \in Nat, NEW exprs \in Seq(Exprs), NEW l \in 1..8, NEW m \in 1..l,
         NEW i \in Nat, NEW from \in 1..(Len(ts) + 1), NEW to \in 0..Len(ts),
         Derives(ts, exprs, Phrase(l, i, from, to))
  PROVE  Derives(ts, exprs, Phrase(m, i, from, to))
<1>1. PICK d : /\ \A ph \in Phrases(ts) : d[ph] = IsDerived(d, ts, exprs, ph)
               /\ \A ph : Derives(ts, exprs, ph) = d[ph]
  BY DerivesDef
<1>2. m \in 1..8 /\ \A k \in l..8 : k \in m..8
  OBVIOUS
<1>3. Phrase(l, i, from, to) \in Phrases(ts) /\ Phrase(m, i, from, to) \in Phrases(ts)
  BY <1>2 DEF Phrase, Phrases
<1>4. IsDerived(d, ts, exprs, Phrase(l, i, from, to))
  BY <1>1, <1>3
<1>5. IsDerived(d, ts, exprs, Phrase(m, i, from, to))
  BY <1>2, <1>4 DEF IsDerived, Phrase
<1> QED
  BY <1>1, <1>3, <1>5

LEMMA DerivesPrimary ==
  ASSUME NEW ts, Len(ts) \in Nat, NEW exprs \in Seq(Exprs), NEW l \in 1..8,
         NEW i \in DOMAIN exprs, NEW from \in 1..(Len(ts) + 1), NEW to \in 0..Len(ts),
         from <= to, IsPrimary(ts, exprs[i], from, to)
  PROVE  Derives(ts, exprs, Phrase(l, i, from, to))
<1>1. PICK d : /\ \A ph \in Phrases(ts) : d[ph] = IsDerived(d, ts, exprs, ph)
               /\ \A ph : Derives(ts, exprs, ph) = d[ph]
  BY DerivesDef
<1>2. Phrase(l, i, from, to) \in Phrases(ts)
  BY DEF Phrase, Phrases
<1>3. IsDerived(d, ts, exprs, Phrase(l, i, from, to))
  BY DEF IsDerived, Phrase
<1> QED
  BY <1>1, <1>2, <1>3

LEMMA DerivesInParentheses ==
  ASSUME NEW ts, Len(ts) \in Nat, NEW exprs \in Seq(Exprs), NEW l \in 1..8,
         NEW i \in DOMAIN exprs, NEW from \in 1..(Len(ts) + 1), NEW to \in 0..Len(ts),
         InParentheses(ts, from, to), Derives(ts, exprs, Phrase(1, i, from + 1, to - 1))
  PROVE  Derives(ts, exprs, Phrase(l, i, from, to))
<1>1. PICK d : /\ \A ph \in Phrases(ts) : d[ph] = IsDerived(d, ts, exprs, ph)
               /\ \A ph : Derives(ts, exprs, ph) = d[ph]
  BY DerivesDef
<1>2. Phrase(l, i, from, to) \in Phrases(ts)
  BY DEF Phrase, Phrases
<1>3. d[Phrase(1, i, from + 1, to - 1)] /\ from <= to
  BY <1>1 DEF InParentheses
<1>4. IsDerived(d, ts, exprs, Phrase(l, i, from, to))
  BY <1>3 DEF IsDerived, Phrase
<1> QED
  BY <1>1, <1>2, <1>4

LEMMA DerivesUnary ==
  ASSUME NEW ts, Len(ts) \in Nat, NEW exprs \in Seq(Exprs), NEW l \in {3, 7},
         NEW i \in DOMAIN exprs, NEW from \in 1..(Len(ts) + 1), NEW to \in 0..Len(ts),
         from <= to, exprs[i].kind = "UNARY",
         <<l, exprs[i].operator, ts[from].type>> \in {<<3, "NOT", "NOT">>, <<7, "NEGATE", "MINUS">>},
         Derives(ts, exprs, Phrase(l + 1, exprs[i].operand, from + 1, to))
  PROVE  Derives(ts, exprs, Phrase(l, i, from, to))
<1>1. PICK d : /\ \A ph \in Phrases(ts) : d[ph] = IsDerived(d, ts, exprs, ph)
               /\ \A ph : Derives(ts, exprs, ph) = d[ph]
  BY DerivesDef
<1>2. Phrase(l, i, from, to) \in Phrases(ts) /\ l \in l..8
  BY DEF Phrase, Phrases
<1>3. d[Phrase(l + 1, exprs[i].operand, from + 1, to)]
  BY <1>1
<1>4. IsUnary(d, ts, exprs[i], l, from, to)
  BY <1>3 DEF IsUnary
<1>5. IsDerived(d, ts, exprs, Phrase(l, i, from, to))
  BY <1>2, <1>4 DEF IsDerived, Phrase
<1> QED
  BY <1>1, <1>2, <1>5

LEMMA DerivesBinary ==
  ASSUME NEW ts, Len(ts) \in Nat, NEW exprs \in Seq(Exprs), NEW l \in 1..8,
         NEW i \in DOMAIN exprs, NEW from \in 1..(Len(ts) + 1), NEW to \in 0..Len(ts),
         exprs[i].kind = "BINARY", exprs[i].operator \in BinaryOperators(l),
         NEW k \in (from + 1)..(to - 1), IsOperatorAt(ts, exprs[i].operator, k),
         Derives(ts, exprs, Phrase(l, exprs[i].left, from, k - 1)),
         Derives(ts, exprs, Phrase(l + 1, exprs[i].right,
                                   k + OperatorLength(exprs[i].operator), to))
  PROVE  Derives(ts, exprs, Phrase(l, i, from, to))
<1>1. PICK d : /\ \A ph \in Phrases(ts) : d[ph] = IsDerived(d, ts, exprs, ph)
               /\ \A ph : Derives(ts, exprs, ph) = d[ph]
  BY DerivesDef
<1>2. Phrase(l, i, from, to) \in Phrases(ts) /\ l \in l..8 /\ from <= to
  BY DEF Phrase, Phrases
<1>3. /\ d[Phrase(l, exprs[i].left, from, k - 1)]
      /\ d[Phrase(l + 1, exprs[i].right, k + OperatorLength(exprs[i].operator), to)]
  BY <1>1
<1>4. IsBinary(d, ts, exprs[i], l, from, to)
  BY <1>3 DEF IsBinary
<1>5. IsDerived(d, ts, exprs, Phrase(l, i, from, to))
  BY <1>2, <1>4 DEF IsDerived, Phrase
<1> QED
  BY <1>1, <1>2, <1>5

-----------------------------------------------------------------------------
(* The expressions behind the first base of them: operands come before     *)
(* their operators and belong to one of them; and in a tree, all but the   *)
(* last are operands.                                                      *)
Below(base, exprs) ==
  \A i \in (base + 1)..Len(exprs) : \A c \in DOMAIN Children(exprs[i]) :
    Children(exprs[i])[c] \in (base + 1)..(i - 1)
Once(base, exprs) ==
  \A i, j \in (base + 1)..Len(exprs) :
    \A c \in DOMAIN Children(exprs[i]), d \in DOMAIN Children(exprs[j]) :
      Children(exprs[i])[c] = Children(exprs[j])[d] => i = j /\ c = d
IsOperand(base, exprs, k) ==
  \E i \in (base + 1)..Len(exprs) : \E c \in DOMAIN Children(exprs[i]) :
    Children(exprs[i])[c] = k
Grove(base, exprs) == base <= Len(exprs) /\ Below(base, exprs) /\ Once(base, exprs)
Tree(base, exprs) ==
  /\ base < Len(exprs) /\ Grove(base, exprs)
  /\ \A k \in (base + 1)..(Len(exprs) - 1) : IsOperand(base, exprs, k)

LEMMA ChildrenFacts ==
  ASSUME NEW e \in Exprs
  PROVE  /\ e.kind = "BINARY" => /\ DOMAIN Children(e) = {1, 2}
                                 /\ Children(e)[1] = e.left /\ Children(e)[2] = e.right
         /\ e.kind = "UNARY"  => DOMAIN Children(e) = {1} /\ Children(e)[1] = e.operand
         /\ e.kind \notin {"BINARY", "UNARY"} => DOMAIN Children(e) = {}
<1>1. CASE e.kind = "BINARY"
  BY <1>1 DEF Children
<1>2. CASE e.kind = "UNARY"
  BY <1>2 DEF Children
<1>3. CASE e.kind \notin {"BINARY", "UNARY"}
  BY <1>3 DEF Children
<1> QED
  BY <1>1, <1>2, <1>3

LEMMA AppendFacts ==
  ASSUME NEW s \in Seq(Exprs), NEW e \in Exprs
  PROVE  /\ Append(s, e) \in Seq(Exprs) /\ Len(Append(s, e)) = Len(s) + 1
         /\ Append(s, e)[Len(s) + 1] = e /\ Extends(s, Append(s, e))
         /\ \A i \in 1..Len(s) : Append(s, e)[i] = s[i]
  BY DEF Extends

LEMMA GroveOfNone ==
  ASSUME NEW s \in Seq(Exprs)
  PROVE  Grove(Len(s), s)
  BY DEF Grove, Below, Once

LEMMA GroveJoin ==
  ASSUME NEW s \in Seq(Exprs), NEW t \in Seq(Exprs), NEW base \in Nat, Grove(base, s),
         Extends(s, t), Grove(Len(s), t)
  PROVE  Grove(base, t)
<1>1. \A i \in (base + 1)..Len(t) :
        \/ i \in (base + 1)..Len(s) /\ t[i] = s[i]
        \/ i \in (Len(s) + 1)..Len(t)
  BY DEF Extends
<1>2. Len(s) \in Nat /\ Len(t) \in Nat /\ base <= Len(s) /\ Len(s) <= Len(t)
  BY DEF Grove
<1>3. ASSUME NEW i \in (base + 1)..Len(t), NEW c \in DOMAIN Children(t[i])
      PROVE  /\ Children(t[i])[c] \in (base + 1)..(i - 1)
             /\ i <= Len(s) => Children(t[i])[c] <= Len(s)
             /\ i > Len(s) => Children(t[i])[c] > Len(s)
  <2>1. CASE i \in (base + 1)..Len(s) /\ t[i] = s[i]
    BY <1>2, <2>1 DEF Grove, Below
  <2>2. CASE i \in (Len(s) + 1)..Len(t)
    <3>1. Children(t[i])[c] \in (Len(s) + 1)..(i - 1)
      BY <2>2 DEF Grove, Below
    <3> QED
      BY <1>2, <2>2, <3>1
  <2> QED
    BY <1>1, <2>1, <2>2
<1>4. ASSUME NEW i \in (base + 1)..Len(t), NEW j \in (base + 1)..Len(t),
             NEW c \in DOMAIN Children(t[i]), NEW d \in DOMAIN Children(t[j]),
             Children(t[i])[c] = Children(t[j])[d]
      PROVE  i = j /\ c = d
  <2>1. i <= Len(s) <=> j <= Len(s)
    <3>1. Children(t[i])[c] \in (base + 1)..(i - 1) /\ Children(t[j])[d] \in (base + 1)..(j - 1)
      BY <1>3
    <3>2. /\ i <= Len(s) => Children(t[i])[c] <= Len(s)
          /\ i > Len(s) => Children(t[i])[c] > Len(s)
      BY <1>3
    <3>3. /\ j <= Len(s) => Children(t[j])[d] <= Len(s)
          /\ j > Len(s) => Children(t[j])[d] > Len(s)
      BY <1>3
    <3> QED
      BY <1>2, <1>4, <3>1, <3>2, <3>3
  <2>2. CASE i <= Len(s)
    <3>1. i \in (base + 1)..Len(s) /\ j \in (base + 1)..Len(s) /\ t[i] = s[i] /\ t[j] = s[j]
      BY <1>1, <1>2, <2>1, <2>2
    <3> QED
      BY <1>4, <3>1 DEF Grove, Once
  <2>3. CASE i > Len(s)
    <3>1. i \in (Len(s) + 1)..Len(t) /\ j \in (Len(s) + 1)..Len(t)
      BY <1>1, <1>2, <2>1, <2>3
    <3> QED
      BY <1>4, <3>1 DEF Grove, Once
  <2> QED
    BY <1>2, <2>2, <2>3
<1> QED
  BY <1>2, <1>3, <1>4 DEF Grove, Below, Once

LEMMA TreeOfLeaf ==
  ASSUME NEW s \in Seq(Exprs), NEW e \in Exprs, e.kind \notin {"BINARY", "UNARY"}
  PROVE  Tree(Len(s), Append(s, e))
<1>1. DOMAIN Children(e) = {}
  BY ChildrenFacts
<1>2. \A i \in (Len(s) + 1)..Len(Append(s, e)) : Append(s, e)[i] = e
  BY AppendFacts
<1>3. Len(s) \in Nat /\ Len(Append(s, e)) = Len(s) + 1
  BY AppendFacts
<1> QED
  BY <1>1, <1>2, <1>3 DEF Tree, Grove, Below, Once

(* An operator is added whose operands are trees.                          *)
LEMMA TreeOfUnary ==
  ASSUME NEW s \in Seq(Exprs), NEW base \in Nat, Tree(base, s), NEW operator \in UnaryOperator
  PROVE  Tree(base, Append(s, Unary(operator, Len(s))))
<1> DEFINE e == Unary(operator, Len(s))
           t == Append(s, e)
<1>1. e \in Exprs /\ DOMAIN Children(e) = {1} /\ Children(e)[1] = Len(s)
  <2>1. e \in Exprs /\ e.kind = "UNARY" /\ e.operand = Len(s)
    BY DEF Unary, Exprs
  <2> HIDE DEF e
  <2> QED
    BY <2>1, ChildrenFacts
<1> HIDE DEF e
<1>2. /\ Len(t) = Len(s) + 1 /\ t[Len(s) + 1] = e /\ \A i \in 1..Len(s) : t[i] = s[i]
  BY <1>1, AppendFacts
<1>3. Len(s) \in Nat /\ base < Len(s) /\ Below(base, s) /\ Once(base, s)
  BY DEF Tree, Grove
<1> HIDE DEF t
<1>4. \A i \in (base + 1)..Len(t) :
        (i \in (base + 1)..Len(s) /\ t[i] = s[i]) \/ (i = Len(s) + 1 /\ t[i] = e)
  BY <1>2, <1>3
<1>5. Below(base, t)
  <2> SUFFICES ASSUME NEW i \in (base + 1)..Len(t), NEW c \in DOMAIN Children(t[i])
               PROVE  Children(t[i])[c] \in (base + 1)..(i - 1)
    BY DEF Below
  <2>1. CASE i \in (base + 1)..Len(s) /\ t[i] = s[i]
    BY <1>3, <2>1 DEF Below
  <2>2. CASE i = Len(s) + 1 /\ t[i] = e
    BY <1>1, <1>3, <2>2
  <2> QED
    BY <1>4, <2>1, <2>2
<1>6. ASSUME NEW i \in (base + 1)..Len(s), NEW c \in DOMAIN Children(t[i])
      PROVE  Children(t[i])[c] < Len(s)
  <2>1. t[i] = s[i]
    BY <1>2, <1>3
  <2>2. Children(t[i])[c] \in (base + 1)..(i - 1)
    BY <1>3, <1>6, <2>1 DEF Below
  <2> QED
    BY <1>3, <2>2
<1>7. Once(base, t)
  <2> SUFFICES ASSUME NEW i \in (base + 1)..Len(t), NEW j \in (base + 1)..Len(t),
                      NEW c \in DOMAIN Children(t[i]), NEW d \in DOMAIN Children(t[j]),
                      Children(t[i])[c] = Children(t[j])[d]
               PROVE  i = j /\ c = d
    BY DEF Once
  <2>1. CASE i \in (base + 1)..Len(s) /\ j \in (base + 1)..Len(s)
    <3>1. t[i] = s[i] /\ t[j] = s[j]
      BY <1>2, <1>3, <2>1
    <3>2. /\ c \in DOMAIN Children(s[i]) /\ d \in DOMAIN Children(s[j])
          /\ Children(s[i])[c] = Children(s[j])[d]
      BY <3>1
    <3>3. Once(base, s)
      BY <1>3
    <3> QED
      BY <2>1, <3>2, <3>3 DEF Once
  <2>2. CASE i = Len(s) + 1 /\ j = Len(s) + 1
    BY <1>1, <1>2, <2>2
  <2>3. CASE i = Len(s) + 1 /\ j \in (base + 1)..Len(s)
    <3>1. Children(t[i])[c] = Len(s)
      BY <1>1, <1>2, <2>3
    <3>2. Children(t[j])[d] < Len(s)
      BY <1>6, <2>3
    <3> QED
      BY <1>3, <3>1, <3>2
  <2>4. CASE i \in (base + 1)..Len(s) /\ j = Len(s) + 1
    <3>1. Children(t[j])[d] = Len(s)
      BY <1>1, <1>2, <2>4
    <3>2. Children(t[i])[c] < Len(s)
      BY <1>6, <2>4
    <3> QED
      BY <1>3, <3>1, <3>2
  <2> QED
    BY <1>4, <2>1, <2>2, <2>3, <2>4
<1>8. ASSUME NEW k \in (base + 1)..(Len(t) - 1)
      PROVE  IsOperand(base, t, k)
  <2>1. CASE k = Len(s)
    <3>1. Len(s) + 1 \in (base + 1)..Len(t) /\ 1 \in DOMAIN Children(t[Len(s) + 1])
          /\ Children(t[Len(s) + 1])[1] = k
      BY <1>1, <1>2, <1>3, <2>1
    <3> QED
      BY <3>1 DEF IsOperand
  <2>2. CASE k # Len(s)
    <3>1. k \in (base + 1)..(Len(s) - 1)
      BY <1>2, <1>3, <2>2
    <3>2. IsOperand(base, s, k)
      BY <3>1 DEF Tree
    <3>3. \A i \in (base + 1)..Len(s) : i \in (base + 1)..Len(t) /\ t[i] = s[i]
      BY <1>2, <1>3
    <3> QED
      BY <3>2, <3>3 DEF IsOperand
  <2> QED
    BY <2>1, <2>2
<1>9. Tree(base, t)
  <2>1. base < Len(t) /\ base <= Len(t)
    BY <1>2, <1>3
  <2> QED
    BY <1>5, <1>7, <1>8, <2>1 DEF Tree, Grove
<1> QED
  BY <1>9 DEF t, e

LEMMA TreeOfBinary ==
  ASSUME NEW s \in Seq(Exprs), NEW t \in Seq(Exprs), NEW base \in Nat, Tree(base, s),
         Extends(s, t), Tree(Len(s), t), NEW operator \in BinaryOperator
  PROVE  Tree(base, Append(t, Binary(operator, Len(s), Len(t))))
<1> DEFINE e == Binary(operator, Len(s), Len(t))
           u == Append(t, e)
<1>1. /\ e \in Exprs /\ DOMAIN Children(e) = {1, 2}
      /\ Children(e)[1] = Len(s) /\ Children(e)[2] = Len(t)
  <2>1. e \in Exprs /\ e.kind = "BINARY" /\ e.left = Len(s) /\ e.right = Len(t)
    BY DEF Binary, Exprs
  <2> HIDE DEF e
  <2> QED
    BY <2>1, ChildrenFacts
<1> HIDE DEF e
<1>2. /\ Len(u) = Len(t) + 1 /\ u[Len(t) + 1] = e /\ \A i \in 1..Len(t) : u[i] = t[i]
  BY <1>1, AppendFacts
<1>3. Len(s) \in Nat /\ Len(t) \in Nat /\ base < Len(s) /\ Len(s) < Len(t)
  BY DEF Tree, Grove
<1>4. Below(base, t) /\ Once(base, t)
  BY GroveJoin DEF Tree, Grove
<1> HIDE DEF u
<1>5. \A i \in (base + 1)..Len(u) :
        (i \in (base + 1)..Len(t) /\ u[i] = t[i]) \/ (i = Len(t) + 1 /\ u[i] = e)
  BY <1>2, <1>3
<1>6. Below(base, u)
  <2> SUFFICES ASSUME NEW i \in (base + 1)..Len(u), NEW c \in DOMAIN Children(u[i])
               PROVE  Children(u[i])[c] \in (base + 1)..(i - 1)
    BY DEF Below
  <2>1. CASE i \in (base + 1)..Len(t) /\ u[i] = t[i]
    BY <1>4, <2>1 DEF Below
  <2>2. CASE i = Len(t) + 1 /\ u[i] = e
    BY <1>1, <1>3, <2>2
  <2> QED
    BY <1>5, <2>1, <2>2
(* Nothing has the two roots for operands yet.                             *)
<1>7. ASSUME NEW i \in (base + 1)..Len(t), NEW c \in DOMAIN Children(u[i])
      PROVE  Children(u[i])[c] # Len(s) /\ Children(u[i])[c] # Len(t)
  <2>1. u[i] = t[i] /\ Children(t[i])[c] \in (base + 1)..(i - 1)
    BY <1>2, <1>3, <1>4, <1>7 DEF Below
  <2>2. CASE i <= Len(s)
    BY <1>3, <2>1, <2>2
  <2>3. CASE i > Len(s)
    <3>1. i \in (Len(s) + 1)..Len(t)
      BY <1>3, <2>3
    <3>2. Children(t[i])[c] \in (Len(s) + 1)..(i - 1)
      BY <1>7, <2>1, <3>1 DEF Tree, Grove, Below
    <3> QED
      BY <1>3, <2>1, <3>1, <3>2
  <2> QED
    BY <1>3, <2>2, <2>3
<1>8. Once(base, u)
  <2> SUFFICES ASSUME NEW i \in (base + 1)..Len(u), NEW j \in (base + 1)..Len(u),
                      NEW c \in DOMAIN Children(u[i]), NEW d \in DOMAIN Children(u[j]),
                      Children(u[i])[c] = Children(u[j])[d]
               PROVE  i = j /\ c = d
    BY DEF Once
  <2>1. CASE i \in (base + 1)..Len(t) /\ j \in (base + 1)..Len(t)
    <3>1. u[i] = t[i] /\ u[j] = t[j]
      BY <1>2, <1>3, <2>1
    <3>2. /\ c \in DOMAIN Children(t[i]) /\ d \in DOMAIN Children(t[j])
          /\ Children(t[i])[c] = Children(t[j])[d]
      BY <3>1
    <3>3. Once(base, t)
      BY <1>4
    <3> QED
      BY <2>1, <3>2, <3>3 DEF Once
  <2>2. CASE i = Len(t) + 1 /\ j = Len(t) + 1
    BY <1>1, <1>2, <1>3, <2>2
  <2>3. CASE i = Len(t) + 1 /\ j \in (base + 1)..Len(t)
    BY <1>1, <1>2, <1>7, <2>3
  <2>4. CASE i \in (base + 1)..Len(t) /\ j = Len(t) + 1
    BY <1>1, <1>2, <1>7, <2>4
  <2> QED
    BY <1>5, <2>1, <2>2, <2>3, <2>4
<1>9. ASSUME NEW k \in (base + 1)..(Len(u) - 1)
      PROVE  IsOperand(base, u, k)
  <2>1. CASE k = Len(s) \/ k = Len(t)
    <3>1. Len(t) + 1 \in (base + 1)..Len(u) /\ u[Len(t) + 1] = e
      BY <1>2, <1>3
    <3> QED
      BY <1>1, <2>1, <3>1 DEF IsOperand
  <2>2. CASE k \in (base + 1)..(Len(s) - 1)
    <3>1. IsOperand(base, s, k)
      BY <2>2 DEF Tree
    <3>2. \A i \in (base + 1)..Len(s) : i \in (base + 1)..Len(u) /\ u[i] = s[i]
      BY <1>2, <1>3 DEF Extends
    <3> QED
      BY <3>1, <3>2 DEF IsOperand
  <2>3. CASE k \in (Len(s) + 1)..(Len(t) - 1)
    <3>1. IsOperand(Len(s), t, k)
      BY <2>3 DEF Tree
    <3>2. \A i \in (Len(s) + 1)..Len(t) : i \in (base + 1)..Len(u) /\ u[i] = t[i]
      BY <1>2, <1>3
    <3> QED
      BY <3>1, <3>2 DEF IsOperand
  <2> QED
    BY <1>2, <1>3, <2>1, <2>2, <2>3
<1>10. Tree(base, u)
  <2>1. base < Len(u) /\ base <= Len(u)
    BY <1>2, <1>3
  <2> QED
    BY <1>6, <1>8, <1>9, <2>1 DEF Tree, Grove
<1> QED
  BY <1>10 DEF u, e

-----------------------------------------------------------------------------
(* The cursor.                                                             *)
LEMMA TokenFacts ==
  ASSUME IsInput(tokens), NEW i \in Nat \ {0}
  PROVE  /\ Len(tokens) \in Nat \ {0} /\ TokenAt(i) \in TokenRecord
         /\ TokenAt(i).type # "END_OF_FILE" =>
              i < Len(tokens) /\ i \in DOMAIN tokens /\ TokenAt(i) = tokens[i]
<1>1. Len(tokens) \in Nat \ {0} /\ DOMAIN tokens = 1..Len(tokens)
  BY DEF IsInput
<1>2. \A k \in 1..Len(tokens) : tokens[k] \in TokenRecord
  BY <1>1 DEF IsInput
<1>3. CASE i < Len(tokens)
  <2>1. i \in 1..Len(tokens)
    BY <1>1, <1>3
  <2> QED
    BY <1>1, <1>2, <1>3, <2>1 DEF TokenAt
<1>4. CASE ~ (i < Len(tokens))
  <2>1. TokenAt(i) = EndOfFile /\ Len(tokens) \in 1..Len(tokens)
    BY <1>1, <1>4 DEF TokenAt, IsInput
  <2>2. TokenAt(i) \in TokenRecord
    BY <1>1, <1>2, <2>1 DEF IsInput
  <2> QED
    BY <1>1, <2>1, <2>2 DEF EndOfFile
<1> QED
  BY <1>3, <1>4

LEMMA CursorFacts ==
  ASSUME NEW q \in Cursors
  PROVE  /\ q.position \in Nat \ {0} /\ q.index \in Nat /\ q.error \in BOOLEAN
         /\ q.exprs \in Seq(Exprs) /\ Len(q.exprs) \in Nat
  BY DEF Cursors

LEMMA AdvanceFacts ==
  ASSUME NEW q \in Cursors
  PROVE  /\ advance(q) \in Cursors /\ advance(q).position = q.position + 1
         /\ advance(q).index = q.index /\ advance(q).error = q.error
         /\ advance(q).exprs = q.exprs
  BY DEF advance, Cursors

LEMMA NothingFacts ==
  ASSUME NEW q \in Cursors
  PROVE  /\ Nothing(q) \in Cursors /\ Wrong(q) \in Cursors
         /\ Nothing(q).index = 0 /\ Wrong(q).index = 0
         /\ Nothing(q).position = q.position /\ Wrong(q).position = q.position
         /\ Nothing(q).exprs = q.exprs /\ Wrong(q).exprs = q.exprs
  BY DEF Nothing, Wrong, Cursors

LEMMA PushFacts ==
  ASSUME NEW q \in Cursors, NEW e \in Exprs
  PROVE  /\ Push(q, e) \in Cursors /\ Push(q, e).position = q.position
         /\ Push(q, e).error = q.error
         /\ Push(q, e).exprs = Append(q.exprs, e)
         /\ Push(q, e).index = Len(Append(q.exprs, e))
         /\ Push(q, e).index = Len(q.exprs) + 1
<1>1. Append(q.exprs, e) \in Seq(Exprs) /\ Len(Append(q.exprs, e)) = Len(q.exprs) + 1
      /\ Len(q.exprs) + 1 \in Nat
  BY CursorFacts, AppendFacts
<1> QED
  BY <1>1 DEF Push, Cursors

-----------------------------------------------------------------------------
(* What the parse functions promise: they move on and never beyond the     *)
(* last token, keep the expressions there are, add a grove of them; and if *)
(* an index is returned, the expressions added are one tree, which the     *)
(* tokens passed over derive.                                              *)
Continues(q, r) ==
  /\ r \in Cursors /\ q.position <= r.position
  /\ q.position <= Len(tokens) => r.position <= Len(tokens)
  /\ Extends(q.exprs, r.exprs)
  /\ r.index # 0 => r.index = Len(r.exprs) /\ r.error = q.error

Parsed(l, q, r) ==
  /\ Continues(q, r) /\ Grove(Len(q.exprs), r.exprs)
  /\ r.index # 0 =>
       /\ q.position < r.position /\ r.position <= Len(tokens)
       /\ Tree(Len(q.exprs), r.exprs)
       /\ Derives(tokens, r.exprs, Phrase(l, r.index, q.position, r.position - 1))

HoldsLeftSide(q) ==
  q.index # 0 /\ q.index = Len(q.exprs) /\ q.position <= Len(tokens)

Chained(l, q, r) ==
  /\ Continues(q, r)
  /\ \A base \in Nat : Tree(base, q.exprs) =>
       Grove(base, r.exprs) /\ (r.index # 0 => Tree(base, r.exprs))
  /\ r.index # 0 => r.position <= Len(tokens) /\ \A from \in 1..(q.position - 1) :
       Derives(tokens, q.exprs, Phrase(l, q.index, from, q.position - 1)) =>
         Derives(tokens, r.exprs, Phrase(l, r.index, from, r.position - 1))

Contract(f) ==
  \A l \in 1..8 : \A q \in Cursors :
    /\ Parsed(l, q, f.level[l][q])
    /\ HoldsLeftSide(q) => Chained(l, q, f.more[l][q])

LEMMA ParsedLooser ==
  ASSUME IsInput(tokens), NEW l \in 1..7, NEW m, m = l + 1, NEW q \in Cursors, NEW r, Parsed(m, q, r)
  PROVE  Parsed(l, q, r)
<1> SUFFICES ASSUME r.index # 0
             PROVE  Derives(tokens, r.exprs, Phrase(l, r.index, q.position, r.position - 1))
  BY DEF Parsed
<1>1. /\ r \in Cursors /\ q.position < r.position /\ r.position <= Len(tokens)
      /\ Derives(tokens, r.exprs, Phrase(m, r.index, q.position, r.position - 1))
  BY DEF Parsed, Continues
<1>2. /\ r.exprs \in Seq(Exprs) /\ r.index \in Nat
      /\ q.position \in Nat \ {0} /\ r.position \in Nat \ {0}
  BY <1>1, CursorFacts
<1>3. Len(tokens) \in Nat
  BY TokenFacts
<1>4. PICK to \in 0..Len(tokens) : to = r.position - 1
  BY <1>1, <1>2, <1>3
<1>5. q.position \in 1..(Len(tokens) + 1) /\ m \in 1..8 /\ l \in 1..m
  BY <1>1, <1>2, <1>3
<1>6. Derives(tokens, r.exprs, Phrase(m, r.index, q.position, to))
  BY <1>1, <1>4
<1>7. Derives(tokens, r.exprs, Phrase(l, r.index, q.position, to))
  BY <1>2, <1>3, <1>5, <1>6, DerivesLooser
<1> QED
  BY <1>4, <1>7

LEMMA ParsedNothing ==
  ASSUME IsInput(tokens), NEW l \in 1..8, NEW q \in Cursors
  PROVE  Parsed(l, q, Nothing(q)) /\ Parsed(l, q, Wrong(q))
<1>1. Grove(Len(q.exprs), q.exprs) /\ Extends(q.exprs, q.exprs) /\ q.position <= q.position
  BY CursorFacts, GroveOfNone, ExtendsSelf
<1> QED
  BY <1>1, NothingFacts DEF Parsed, Continues

LEMMA LeafParsed ==
  ASSUME IsInput(tokens), NEW q \in Cursors, NEW s \in Cursors,
         s.exprs = q.exprs, s.error = q.error, q.position <= s.position,
         TokenAt(s.position).type # "END_OF_FILE",
         NEW e \in Exprs, e.kind \notin {"BINARY", "UNARY"},
         IsPrimary(tokens, e, q.position, s.position)
  PROVE  Parsed(8, q, Leaf(s, e))
<1> DEFINE r == Leaf(s, e)
           t == Append(q.exprs, e)
<1>1. /\ r \in Cursors /\ r.position = s.position + 1 /\ r.error = q.error
      /\ r.exprs = t /\ r.index = Len(t)
  <2>1. /\ Push(s, e) \in Cursors /\ Push(s, e).position = s.position
        /\ Push(s, e).error = s.error /\ Push(s, e).exprs = Append(s.exprs, e)
        /\ Push(s, e).index = Len(Append(s.exprs, e))
    BY PushFacts
  <2>2. PICK u \in Cursors : u = Push(s, e)
    BY <2>1
  <2>3. /\ advance(u) \in Cursors /\ advance(u).position = u.position + 1
        /\ advance(u).index = u.index /\ advance(u).error = u.error
        /\ advance(u).exprs = u.exprs
    BY AdvanceFacts
  <2> QED
    BY <2>1, <2>2, <2>3 DEF Leaf
<1>2. /\ q.exprs \in Seq(Exprs) /\ q.position \in Nat \ {0} /\ s.position \in Nat \ {0}
      /\ Len(q.exprs) \in Nat
  BY CursorFacts
<1>3. /\ t \in Seq(Exprs) /\ Len(t) = Len(q.exprs) + 1 /\ t[Len(t)] = e /\ Extends(q.exprs, t)
  BY <1>2, AppendFacts
<1>4. s.position < Len(tokens) /\ Len(tokens) \in Nat
  BY <1>2, TokenFacts
<1>5. Tree(Len(q.exprs), t)
  BY <1>2, TreeOfLeaf
<1> HIDE DEF r, t
<1>6. /\ Len(t) \in DOMAIN t /\ q.position \in 1..(Len(tokens) + 1)
      /\ s.position \in 0..Len(tokens) /\ 8 \in 1..8
  BY <1>2, <1>3, <1>4
<1>7. Derives(tokens, t, Phrase(8, Len(t), q.position, s.position))
  BY <1>3, <1>4, <1>6, DerivesPrimary
<1>8. r.position - 1 = s.position /\ q.position < r.position /\ r.position <= Len(tokens)
  BY <1>1, <1>2, <1>4
<1>9. Grove(Len(q.exprs), t)
  BY <1>5 DEF Tree
<1>10. Derives(tokens, r.exprs, Phrase(8, r.index, q.position, r.position - 1))
  BY <1>1, <1>7, <1>8
<1>11. Continues(q, r)
  BY <1>1, <1>3, <1>8, <1>2 DEF Continues
<1>12. Parsed(8, q, r)
  BY <1>1, <1>5, <1>8, <1>9, <1>10, <1>11 DEF Parsed
<1> QED
  BY <1>12 DEF r

(* Each body keeps the promise if the calls it makes do.                   *)
LEMMA PrefixedParsed ==
  ASSUME IsInput(tokens), NEW l \in {3, 7}, NEW m, m = l + 1, NEW operand, NEW operator,
         NEW type, <<l, operator, type>> \in {<<3, "NOT", "NOT">>, <<7, "NEGATE", "MINUS">>},
         \A s \in Cursors : Parsed(m, s, operand[s]),
         NEW q \in Cursors, Is(q, type)
  PROVE  Parsed(l, q, Prefixed(operand, operator, q))
<1> DEFINE r == Prefixed(operand, operator, q)
<1>1. PICK s \in Cursors : /\ s = advance(q) /\ s.position = q.position + 1
                           /\ s.error = q.error /\ s.exprs = q.exprs
  BY AdvanceFacts
<1>2. PICK inner \in Cursors : inner = operand[s] /\ Parsed(m, s, inner)
  BY DEF Parsed, Continues
<1>3. /\ q.exprs \in Seq(Exprs) /\ inner.exprs \in Seq(Exprs) /\ inner.index \in Nat
      /\ q.position \in Nat \ {0} /\ inner.position \in Nat \ {0} /\ Len(q.exprs) \in Nat
  BY CursorFacts
<1>4. operator \in UnaryOperator /\ type \in {"NOT", "MINUS"} /\ l \in 1..8 /\ m \in 1..8
  <2>1. \/ l = 3 /\ operator = "NOT" /\ type = "NOT"
        \/ l = 7 /\ operator = "NEGATE" /\ type = "MINUS"
    OBVIOUS
  <2>2. l \in 1..8 /\ m \in 1..8
    BY <2>1
  <2>4. operator \in UnaryOperator /\ type \in {"NOT", "MINUS"}
    BY <2>1 DEF UnaryOperator
  <2> QED
    BY <2>2, <2>4
<1>5. /\ q.position < Len(tokens) /\ tokens[q.position].type = type /\ Len(tokens) \in Nat
  BY <1>3, <1>4, TokenFacts DEF Is, current
<1>6. /\ s.position <= inner.position /\ inner.position <= Len(tokens)
      /\ Extends(q.exprs, inner.exprs) /\ Grove(Len(q.exprs), inner.exprs)
  BY <1>1, <1>2, <1>3, <1>5 DEF Parsed, Continues
<1>7. CASE inner.index = 0
  <2>1. r = inner
    BY <1>1, <1>2, <1>7 DEF Prefixed
  <2> HIDE DEF r
  <2>2. q.position <= inner.position
    BY <1>1, <1>3, <1>6
  <2>3. Parsed(l, q, r)
    BY <1>6, <1>7, <2>1, <2>2 DEF Parsed, Continues
  <2> QED
    BY <2>3 DEF r
<1>8. CASE inner.index # 0
  <2> DEFINE e == Unary(operator, inner.index)
             t == Append(inner.exprs, e)
  <2>1. r = Push(inner, e)
    BY <1>1, <1>2, <1>8 DEF Prefixed
  <2>2. /\ e \in Exprs /\ e.kind = "UNARY" /\ e.operator = operator /\ e.operand = inner.index
    BY <1>3, <1>4 DEF Unary, Exprs
  <2>3. /\ inner.index = Len(inner.exprs) /\ inner.error = q.error
        /\ s.position < inner.position /\ Tree(Len(q.exprs), inner.exprs)
        /\ Derives(tokens, inner.exprs, Phrase(m, inner.index, s.position, inner.position - 1))
    BY <1>1, <1>2, <1>8 DEF Parsed, Continues
  <2>4. Tree(Len(q.exprs), t)
    BY <1>3, <1>4, <2>3, TreeOfUnary
  <2> HIDE DEF e, r
  <2>5. /\ r \in Cursors /\ r.position = inner.position /\ r.error = inner.error
        /\ r.exprs = t /\ r.index = Len(t)
    BY <2>1, <2>2, PushFacts
  <2>6. /\ t \in Seq(Exprs) /\ Len(t) = Len(inner.exprs) + 1 /\ t[Len(t)] = e
        /\ Extends(inner.exprs, t)
    BY <1>3, <2>2, AppendFacts
  <2> HIDE DEF t
  <2>7. PICK to \in 0..Len(tokens), from \in 1..(Len(tokens) + 1) :
          /\ to = r.position - 1 /\ from = q.position + 1 /\ q.position <= to
          /\ q.position \in 1..(Len(tokens) + 1)
    <3>1. /\ r.position - 1 \in 0..Len(tokens) /\ q.position + 1 \in 1..(Len(tokens) + 1)
          /\ q.position <= r.position - 1 /\ q.position \in 1..(Len(tokens) + 1)
      BY <1>1, <1>3, <1>5, <1>6, <2>3, <2>5
    <3> QED
      BY <3>1
  <2>8. Derives(tokens, t, Phrase(m, inner.index, from, to))
    <3>1. Derives(tokens, inner.exprs, Phrase(m, inner.index, from, to))
      BY <1>1, <2>3, <2>5, <2>7
    <3>2. Phrase(m, inner.index, from, to) \in Phrases(tokens)
      BY <1>3, <1>4 DEF Phrase, Phrases
    <3> QED
      BY <1>3, <1>5, <2>6, <3>1, <3>2, DerivesMore
  <2>9. Derives(tokens, t, Phrase(l, Len(t), q.position, to))
    <3>1. Len(t) \in DOMAIN t /\ t[Len(t)] = e
      BY <1>3, <2>6
    <3>2. <<l, t[Len(t)].operator, tokens[q.position].type>>
            \in {<<3, "NOT", "NOT">>, <<7, "NEGATE", "MINUS">>}
      BY <1>5, <2>2, <3>1
    <3>3. Derives(tokens, t, Phrase(l + 1, t[Len(t)].operand, q.position + 1, to))
      BY <2>2, <2>7, <2>8, <3>1
    <3> QED
      BY <1>5, <2>2, <2>6, <2>7, <3>1, <3>2, <3>3, DerivesUnary
  <2>10. Derives(tokens, r.exprs, Phrase(l, r.index, q.position, r.position - 1))
    BY <2>5, <2>7, <2>9
  <2>11. /\ q.position < r.position /\ r.position <= Len(tokens)
    BY <1>1, <1>3, <1>6, <2>3, <2>5
  <2>12. Extends(q.exprs, t)
    BY <1>3, <1>6, <2>6, ExtendsTransitive
  <2>13. Continues(q, r)
    BY <1>3, <2>3, <2>5, <2>11, <2>12 DEF Continues
  <2>14. Grove(Len(q.exprs), t)
    BY <2>4 DEF Tree
  <2>15. Parsed(l, q, r)
    BY <2>4, <2>5, <2>10, <2>11, <2>13, <2>14 DEF Parsed
  <2> QED
    BY <2>15 DEF r
<1> QED
  BY <1>7, <1>8

LEMMA ChainParsed ==
  ASSUME IsInput(tokens), NEW f, Contract(f), NEW l \in 1..7, NEW q \in Cursors
  PROVE  Parsed(l, q, parseChain(f, l, q))
<1>1. PICK m \in 1..8 : m = l + 1
  OBVIOUS
<1>2. PICK left \in Cursors : left = f.level[m][q] /\ Parsed(m, q, left)
  BY DEF Contract, Parsed, Continues
<1>3. Parsed(l, q, left)
  BY <1>1, <1>2, ParsedLooser
<1>4. CASE left.index = 0
  BY <1>1, <1>2, <1>3, <1>4 DEF parseChain
<1>5. CASE left.index # 0
  <2>1. /\ q.exprs \in Seq(Exprs) /\ left.exprs \in Seq(Exprs) /\ Len(q.exprs) \in Nat
        /\ q.position \in Nat \ {0} /\ left.position \in Nat \ {0}
    BY CursorFacts
  <2>2. HoldsLeftSide(left) /\ Tree(Len(q.exprs), left.exprs)
    BY <1>3, <1>5 DEF Parsed, Continues, HoldsLeftSide
  <2>3. PICK r : r = f.more[l][left] /\ Chained(l, left, r)
    BY <2>2 DEF Contract
  <2>4. parseChain(f, l, q) = r
    BY <1>1, <1>2, <1>5, <2>3 DEF parseChain
  <2>5. Grove(Len(q.exprs), r.exprs) /\ (r.index # 0 => Tree(Len(q.exprs), r.exprs))
    BY <2>1, <2>2, <2>3 DEF Chained
  <2>6. /\ r \in Cursors /\ left.position <= r.position
        /\ (left.position <= Len(tokens) => r.position <= Len(tokens))
        /\ Extends(left.exprs, r.exprs)
        /\ (r.index # 0 => r.index = Len(r.exprs) /\ r.error = left.error)
    BY <2>3 DEF Chained, Continues
  <2>7. /\ q.position < left.position /\ Extends(q.exprs, left.exprs)
        /\ left.position <= Len(tokens) /\ left.error = q.error
    BY <1>3, <1>5 DEF Parsed, Continues
  <2>8. r.exprs \in Seq(Exprs) /\ r.position \in Nat /\ Len(tokens) \in Nat
    BY <2>1, <2>6, CursorFacts, TokenFacts
  <2>9. /\ Extends(q.exprs, r.exprs) /\ q.position < r.position
        /\ q.position <= r.position /\ r.position <= Len(tokens)
    BY <2>1, <2>6, <2>7, <2>8, ExtendsTransitive
  <2>10. ASSUME r.index # 0
         PROVE  Derives(tokens, r.exprs, Phrase(l, r.index, q.position, r.position - 1))
    <3>1. q.position \in 1..(left.position - 1)
      BY <2>1, <2>7
    <3>2. Derives(tokens, left.exprs, Phrase(l, left.index, q.position, left.position - 1))
      BY <1>3, <1>5 DEF Parsed
    <3> QED
      BY <2>3, <2>10, <3>1, <3>2 DEF Chained
  <2> QED
    BY <2>4, <2>5, <2>6, <2>7, <2>9, <2>10 DEF Parsed, Continues
<1> QED
  BY <1>4, <1>5

LEMMA OperatorFacts ==
  ASSUME IsInput(tokens), NEW l \in 1..8, NEW q \in Cursors, IsOneOf(q, Operators[l])
  PROVE  /\ l \in {1, 2, 4, 5, 6}
         /\ OperatorOf(q) \in BinaryOperators(l) /\ OperatorOf(q) \in BinaryOperator
         /\ IsOperatorAt(tokens, OperatorOf(q), q.position)
         /\ SkipOperator(q) \in Cursors
         /\ SkipOperator(q).position = q.position + OperatorLength(OperatorOf(q))
         /\ SkipOperator(q).exprs = q.exprs /\ SkipOperator(q).error = q.error
         /\ SkipOperator(q).position <= Len(tokens)
<1>1. /\ Operators[1] = {"OR"} /\ Operators[2] = {"AND"} /\ Operators[3] = {}
      /\ Operators[4] = {"EQUAL", "NOT_EQUAL", "LESS_THAN", "LESS_EQ", "GREATER_THAN", "GREATER_EQ", "IS"}
      /\ Operators[5] = {"PLUS", "MINUS"} /\ Operators[6] = {"STAR", "SLASH"}
      /\ Operators[7] = {} /\ Operators[8] = {} /\ DOMAIN Operators = 1..8
  BY DEF Operators
<1>2. PICK type : type = current(q).type /\ type \in Operators[l]
  BY DEF IsOneOf
<1>3. /\ l \in {1, 2, 4, 5, 6} /\ type # "END_OF_FILE" /\ type # "IS_NOT"
      /\ (type = "IS" => l = 4)
  BY <1>1, <1>2
<1>4. q.position \in Nat \ {0}
  BY CursorFacts
<1>5. /\ q.position < Len(tokens) /\ Len(tokens) \in Nat /\ tokens[q.position].type = type
  BY <1>2, <1>3, <1>4, TokenFacts DEF current
<1>6. PICK s \in Cursors : /\ s = advance(q) /\ s.position = q.position + 1
                           /\ s.exprs = q.exprs /\ s.error = q.error
  BY AdvanceFacts
<1>7. CASE type = "IS" /\ peekIs(q, "NOT")
  <2>1. OperatorOf(q) = "IS_NOT" /\ SkipOperator(q) = advance(s)
    BY <1>2, <1>6, <1>7 DEF OperatorOf, SkipOperator, Is
  <2>2. /\ advance(s) \in Cursors /\ advance(s).position = q.position + 2
        /\ advance(s).exprs = q.exprs /\ advance(s).error = q.error
    BY <1>4, <1>6, AdvanceFacts
  <2>3. PICK n \in Nat \ {0} : n = q.position + 1 /\ TokenAt(n).type = "NOT"
    BY <1>4, <1>7 DEF peekIs
  <2>4. n < Len(tokens) /\ tokens[n].type = "NOT"
    BY <2>3, TokenFacts
  <2>5. IsOperatorAt(tokens, "IS_NOT", q.position)
    BY <1>5, <1>7, <2>3, <2>4 DEF IsOperatorAt
  <2>6. "IS_NOT" \in BinaryOperators(l) /\ "IS_NOT" \in BinaryOperator
    <3>1. "IS_NOT" \in BinaryOperator
      BY Zenon DEF BinaryOperator
    <3> QED
      BY <1>3, <1>7, <3>1 DEF BinaryOperators
  <2>7. OperatorLength("IS_NOT") = 2
    BY DEF OperatorLength
  <2>8. q.position + 2 <= Len(tokens)
    BY <1>4, <1>5, <2>3, <2>4
  <2> QED
    BY <1>3, <2>1, <2>2, <2>5, <2>6, <2>7, <2>8
<1>8. CASE ~ (type = "IS" /\ peekIs(q, "NOT"))
  <2>1. OperatorOf(q) = type /\ SkipOperator(q) = s
    BY <1>2, <1>6, <1>8 DEF OperatorOf, SkipOperator, Is
  <2>2. IsOperatorAt(tokens, type, q.position) /\ OperatorLength(type) = 1
    BY <1>3, <1>5 DEF IsOperatorAt, OperatorLength
  <2>3. type \in BinaryOperators(l) /\ type \in BinaryOperator
    BY <1>1, <1>2 DEF BinaryOperators, BinaryOperator
  <2>4. q.position + 1 <= Len(tokens)
    BY <1>4, <1>5
  <2> QED
    BY <1>3, <1>6, <2>1, <2>2, <2>3, <2>4
<1> QED
  BY <1>7, <1>8

LEMMA MoreParsed ==
  ASSUME IsInput(tokens), NEW f, Contract(f), NEW l \in 1..8, NEW q \in Cursors,
         HoldsLeftSide(q)
  PROVE  Chained(l, q, MoreOperands(f, l, q))
<1>1. /\ q.exprs \in Seq(Exprs) /\ Len(q.exprs) \in Nat /\ q.position \in Nat \ {0}
      /\ q.index \in Nat /\ q.index = Len(q.exprs) /\ q.position <= Len(tokens)
      /\ Len(tokens) \in Nat
  BY CursorFacts, TokenFacts DEF HoldsLeftSide
<1>2. CASE ~ IsOneOf(q, Operators[l])
  <2>1. MoreOperands(f, l, q) = q
    BY <1>2 DEF MoreOperands
  <2>2. Continues(q, q)
    BY <1>1, ExtendsSelf DEF Continues
  <2> QED
    BY <1>1, <2>1, <2>2 DEF Chained, Tree
<1>3. CASE IsOneOf(q, Operators[l])
  <2>1. /\ l \in {1, 2, 4, 5, 6}
        /\ OperatorOf(q) \in BinaryOperators(l) /\ OperatorOf(q) \in BinaryOperator
        /\ IsOperatorAt(tokens, OperatorOf(q), q.position)
    BY <1>3, OperatorFacts
  <2>2. PICK s \in Cursors : /\ s = SkipOperator(q)
                             /\ s.position = q.position + OperatorLength(OperatorOf(q))
                             /\ s.exprs = q.exprs /\ s.error = q.error
                             /\ s.position <= Len(tokens)
    BY <1>3, OperatorFacts
  <2>3. PICK m \in 1..8 : m = l + 1
    BY <2>1
  <2>4. PICK right \in Cursors : right = f.level[m][s] /\ Parsed(m, s, right)
    BY DEF Contract, Parsed, Continues
  <2>5. PICK n \in {1, 2} : n = OperatorLength(OperatorOf(q))
    BY DEF OperatorLength
  <2>6. /\ right.exprs \in Seq(Exprs) /\ Len(right.exprs) \in Nat
        /\ right.position \in Nat \ {0} /\ right.index \in Nat
    BY CursorFacts
  <2>7. /\ s.position = q.position + n /\ s.position <= right.position
        /\ right.position <= Len(tokens) /\ Extends(q.exprs, right.exprs)
        /\ Grove(Len(q.exprs), right.exprs)
    BY <2>2, <2>4, <2>5 DEF Parsed, Continues
  <2>8. CASE right.index = 0
    <3>1. PICK r : /\ r = MoreOperands(f, l, q) /\ r \in Cursors /\ r.index = 0
                   /\ r.position = right.position /\ r.exprs = right.exprs
      <4>1. MoreOperands(f, l, q) \in {right, Wrong(right)}
        BY <1>3, <2>2, <2>3, <2>4, <2>8 DEF MoreOperands
      <4> QED
        BY <2>8, <4>1, NothingFacts
    <3>2. q.position <= r.position /\ r.position <= Len(tokens)
      BY <1>1, <2>6, <2>7, <3>1
    <3>3. Continues(q, r)
      BY <2>7, <3>1, <3>2 DEF Continues
    <3>4. ASSUME NEW base \in Nat, Tree(base, q.exprs)
          PROVE  Grove(base, r.exprs)
      <4>1. Grove(base, q.exprs)
        BY <3>4 DEF Tree
      <4> QED
        BY <1>1, <2>6, <2>7, <3>1, <4>1, GroveJoin
    <3> QED
      BY <3>1, <3>3, <3>4 DEF Chained
  <2>9. CASE right.index # 0
    <3>1. PICK e : e = Binary(OperatorOf(q), q.index, right.index)
      OBVIOUS
    <3>2. /\ e \in Exprs /\ e.kind = "BINARY" /\ e.operator = OperatorOf(q)
          /\ e.left = q.index /\ e.right = right.index
      BY <1>1, <2>1, <2>6, <3>1 DEF Binary, Exprs
    <3>3. PICK t \in Cursors : /\ t = Push(right, e) /\ t.position = right.position
                               /\ t.error = right.error
                               /\ t.exprs = Append(right.exprs, e)
                               /\ t.index = Len(t.exprs)
      BY <3>2, PushFacts
    <3>4. /\ t.exprs \in Seq(Exprs) /\ Len(t.exprs) = Len(right.exprs) + 1
          /\ t.exprs[Len(t.exprs)] = e /\ Extends(right.exprs, t.exprs)
      BY <2>6, <3>2, <3>3, AppendFacts
    <3>5. /\ right.index = Len(right.exprs) /\ right.error = q.error
          /\ s.position < right.position /\ Tree(Len(q.exprs), right.exprs)
          /\ Derives(tokens, right.exprs, Phrase(m, right.index, s.position, right.position - 1))
      BY <2>2, <2>4, <2>9 DEF Parsed, Continues
    <3>6. HoldsLeftSide(t)
      BY <2>6, <2>7, <3>3, <3>4 DEF HoldsLeftSide
    <3>7. PICK r : r = f.more[l][t] /\ Chained(l, t, r)
      BY <3>6 DEF Contract
    <3>8. r = MoreOperands(f, l, q)
      BY <1>3, <2>2, <2>3, <2>4, <2>9, <3>1, <3>3, <3>7 DEF MoreOperands
    <3>9. /\ r \in Cursors /\ t.position <= r.position /\ r.position <= Len(tokens)
          /\ Extends(t.exprs, r.exprs)
          /\ (r.index # 0 => r.index = Len(r.exprs) /\ r.error = t.error)
      BY <2>7, <3>3, <3>7 DEF Chained, Continues
    <3>10. r.exprs \in Seq(Exprs) /\ r.position \in Nat /\ r.index \in Nat
      BY <3>9, CursorFacts
    <3>11. Extends(q.exprs, t.exprs) /\ Extends(q.exprs, r.exprs)
      <4>1. Extends(q.exprs, t.exprs)
        BY <1>1, <2>6, <2>7, <3>4, ExtendsTransitive
      <4> QED
        BY <1>1, <3>4, <3>9, <3>10, <4>1, ExtendsTransitive
    <3>12. Continues(q, r)
      <4>1. q.position <= r.position
        BY <1>1, <2>6, <2>7, <3>3, <3>9, <3>10
      <4> QED
        BY <3>3, <3>5, <3>9, <3>11, <4>1 DEF Continues
    <3>13. ASSUME NEW base \in Nat, Tree(base, q.exprs)
           PROVE  Grove(base, r.exprs) /\ (r.index # 0 => Tree(base, r.exprs))
      <4>1. Tree(base, Append(right.exprs, Binary(OperatorOf(q), Len(q.exprs), Len(right.exprs))))
        BY <1>1, <2>1, <2>6, <2>7, <3>5, <3>13, TreeOfBinary
      <4>2. Tree(base, t.exprs)
        BY <1>1, <3>1, <3>3, <3>5, <4>1
      <4> QED
        BY <3>7, <4>2 DEF Chained
    <3>14. ASSUME NEW from \in 1..(q.position - 1), r.index # 0,
                  Derives(tokens, q.exprs, Phrase(l, q.index, from, q.position - 1))
           PROVE  Derives(tokens, r.exprs, Phrase(l, r.index, from, r.position - 1))
      <4>0. PICK a \in 0..Len(tokens), b \in 1..(Len(tokens) + 1), to \in 0..Len(tokens) :
              a = q.position - 1 /\ b = s.position /\ to = t.position - 1
        <5>1. /\ q.position - 1 \in 0..Len(tokens) /\ s.position \in 1..(Len(tokens) + 1)
              /\ t.position - 1 \in 0..Len(tokens)
          <6>1. /\ s.position \in Nat \ {0} /\ t.position = right.position
                /\ right.position \in Nat \ {0} /\ q.position \in Nat \ {0}
                /\ right.position <= Len(tokens) /\ q.position <= Len(tokens)
                /\ s.position <= right.position /\ Len(tokens) \in Nat
            BY <1>1, <2>6, <2>7, <3>3, CursorFacts
          <6> QED
            BY <6>1
        <5> QED
          BY <5>1
      <4>1. PICK k \in (from + 1)..(to - 1) :
              /\ k = q.position /\ a = k - 1 /\ b = s.position /\ to = t.position - 1
              /\ from \in 1..(Len(tokens) + 1)
        <5>1. q.position \in (from + 1)..(to - 1) /\ from \in 1..(Len(tokens) + 1)
          <6>1. /\ to = right.position - 1 /\ s.position < right.position
                /\ right.position \in Nat \ {0} /\ q.position \in Nat \ {0}
                /\ s.position = q.position + n /\ q.position <= Len(tokens)
                /\ Len(tokens) \in Nat
            BY <1>1, <2>6, <2>7, <3>3, <3>5, <4>0
          <6>2. from \in Nat \ {0} /\ from < q.position /\ n \in {1, 2}
            BY <6>1
          <6>3. q.position + 1 < right.position
            BY <6>1, <6>2
          <6>4. PICK x \in Nat, y \in Nat, z \in Nat :
                  x = q.position /\ y = right.position /\ z = from
            BY <6>1, <6>2
          <6>5. z < x
            BY <6>2, <6>4
          <6>6. x + 1 < y
            BY <6>3, <6>4
          <6>7. z + 1 <= x /\ x <= (y - 1) - 1
            BY <6>5, <6>6
          <6> QED
            BY <6>1, <6>2, <6>4, <6>7
        <5> QED
          BY <4>0, <5>1
      <4>2. Derives(tokens, t.exprs, Phrase(l, q.index, from, a))
        <5>1. Derives(tokens, q.exprs, Phrase(l, q.index, from, a))
          BY <3>14, <4>1
        <5>2. Phrase(l, q.index, from, a) \in Phrases(tokens)
          BY <1>1, <4>1 DEF Phrase, Phrases
        <5> QED
          BY <1>1, <3>4, <3>11, <5>1, <5>2, DerivesMore
      <4>3. Derives(tokens, t.exprs, Phrase(m, right.index, b, to))
        <5>1. Derives(tokens, right.exprs, Phrase(m, right.index, b, to))
          BY <3>3, <3>5, <4>1
        <5>2. Phrase(m, right.index, b, to) \in Phrases(tokens)
          BY <2>6, <4>1 DEF Phrase, Phrases
        <5> QED
          BY <1>1, <2>6, <3>4, <5>1, <5>2, DerivesMore
      <4>4. PICK i \in DOMAIN t.exprs : i = t.index /\ t.exprs[i] = e
        BY <2>6, <3>3, <3>4
      <4>5. /\ t.exprs[i].kind = "BINARY" /\ t.exprs[i].operator \in BinaryOperators(l)
            /\ IsOperatorAt(tokens, t.exprs[i].operator, k)
            /\ Derives(tokens, t.exprs, Phrase(l, t.exprs[i].left, from, k - 1))
        BY <2>1, <3>2, <4>1, <4>2, <4>4
      <4>6. Derives(tokens, t.exprs, Phrase(l + 1, t.exprs[i].right,
                       k + OperatorLength(t.exprs[i].operator), to))
        BY <2>2, <2>3, <3>2, <4>1, <4>3, <4>4
      <4>7. Derives(tokens, t.exprs, Phrase(l, i, from, to))
        BY <1>1, <3>4, <4>1, <4>5, <4>6, DerivesBinary
      <4>8. from \in 1..(t.position - 1)
        BY <1>1, <2>6, <4>1
      <4> QED
        BY <3>7, <3>14, <4>1, <4>4, <4>7, <4>8 DEF Chained
    <3> QED
      BY <3>8, <3>9, <3>12, <3>13, <3>14 DEF Chained
  <2> QED
    BY <2>6, <2>8, <2>9
<1> QED
  BY <1>2, <1>3

LEMMA ParsedInVain ==
  ASSUME NEW l \in 1..8, NEW q \in Cursors, NEW r \in Cursors, r.index = 0,
         q.position <= r.position, r.position <= Len(tokens),
         Extends(q.exprs, r.exprs), Grove(Len(q.exprs), r.exprs)
  PROVE  Parsed(l, q, r)
  BY DEF Parsed, Continues

LEMMA QualifiedParsed ==
  ASSUME IsInput(tokens), NEW q \in Cursors, Is(q, "IDENTIFIER"), peekIs(q, "DOT"),
         NEW f
  PROVE  Parsed(8, q, parsePrimary(f, q))
<1>1. q.position \in Nat \ {0} /\ q.exprs \in Seq(Exprs)
  BY CursorFacts
<1>2. PICK a \in Cursors : /\ a = advance(q) /\ a.position = q.position + 1
                           /\ a.error = q.error /\ a.exprs = q.exprs
  BY AdvanceFacts
<1>3. PICK s \in Cursors : /\ s = advance(a) /\ s.position = a.position + 1
                           /\ s.error = q.error /\ s.exprs = q.exprs
  BY <1>2, AdvanceFacts
<1>4. /\ q.position < Len(tokens) /\ tokens[q.position].type = "IDENTIFIER"
      /\ Len(tokens) \in Nat
  BY <1>1, TokenFacts DEF Is, current
<1>5. a.position < Len(tokens) /\ tokens[a.position].type = "DOT"
  <2>1. a.position \in Nat \ {0} /\ TokenAt(a.position).type = "DOT"
    BY <1>2, CursorFacts DEF peekIs
  <2> QED
    BY <2>1, TokenFacts
<1>6. CASE peekIs(a, "IDENTIFIER")
  <2>1. /\ TokenAt(s.position) \in TokenRecord /\ TokenAt(s.position).type = "IDENTIFIER"
        /\ tokens[s.position] = TokenAt(s.position)
    <3>1. s.position \in Nat \ {0} /\ TokenAt(s.position).type = "IDENTIFIER"
      BY <1>3, <1>6, CursorFacts DEF peekIs
    <3> QED
      BY <3>1, TokenFacts
  <2>2. PICK e : e = [kind |-> "COLUMN_REF", value |-> current(s).value]
    OBVIOUS
  <2>3. /\ e \in Exprs /\ e.kind \notin {"BINARY", "UNARY"} /\ e.kind = "COLUMN_REF"
        /\ e.value = tokens[s.position].value
    BY <2>1, <2>2 DEF Exprs, TokenRecord, current
  <2>4. tokens[s.position] = [type |-> "IDENTIFIER", value |-> e.value]
    BY <2>1, <2>3 DEF TokenRecord
  <2>5. q.position = s.position - 2 /\ s.position - 1 = a.position /\ q.position <= s.position
    BY <1>1, <1>2, <1>3
  <2>6. IsPrimary(tokens, e, q.position, s.position)
    BY <1>4, <1>5, <2>3, <2>4, <2>5 DEF IsPrimary
  <2>7. Parsed(8, q, Leaf(s, e))
    BY <1>3, <2>1, <2>3, <2>5, <2>6, LeafParsed
  <2>8. parsePrimary(f, q) = Leaf(s, e)
    BY <1>2, <1>3, <1>6, <2>2 DEF parsePrimary, Is, IsOneOf, Literals
  <2> QED
    BY <2>7, <2>8
<1>7. CASE ~ peekIs(a, "IDENTIFIER")
  <2>1. parsePrimary(f, q) = Wrong(a)
    BY <1>2, <1>7 DEF parsePrimary, Is, IsOneOf, Literals
  <2>2. /\ Wrong(a) \in Cursors /\ Wrong(a).index = 0 /\ Wrong(a).position = a.position
        /\ Wrong(a).exprs = a.exprs
    BY NothingFacts
  <2>3. /\ q.position <= a.position /\ a.position <= Len(tokens)
        /\ Extends(q.exprs, a.exprs) /\ Grove(Len(q.exprs), a.exprs)
    BY <1>1, <1>2, <1>4, <1>5, ExtendsSelf, GroveOfNone
  <2> QED
    BY <2>1, <2>2, <2>3, ParsedInVain
<1> QED
  BY <1>6, <1>7

LEMMA ParenthesesParsed ==
  ASSUME IsInput(tokens), NEW q \in Cursors, Is(q, "LEFT_PAREN"), NEW f, Contract(f)
  PROVE  Parsed(8, q, parsePrimary(f, q))
<1>1. q.position \in Nat \ {0} /\ q.exprs \in Seq(Exprs) /\ Len(q.exprs) \in Nat
  BY CursorFacts
<1>2. PICK a \in Cursors : /\ a = advance(q) /\ a.position = q.position + 1
                           /\ a.error = q.error /\ a.exprs = q.exprs
  BY AdvanceFacts
<1>3. /\ q.position < Len(tokens) /\ tokens[q.position].type = "LEFT_PAREN"
      /\ Len(tokens) \in Nat
  BY <1>1, TokenFacts DEF Is, current
<1>4. PICK inner \in Cursors : inner = f.level[1][a] /\ Parsed(1, a, inner)
  BY DEF Contract, Parsed, Continues
<1>5. /\ inner.exprs \in Seq(Exprs) /\ inner.index \in Nat /\ inner.position \in Nat \ {0}
  BY CursorFacts
<1>6. /\ q.position < inner.position /\ q.position <= inner.position
      /\ inner.position <= Len(tokens)
      /\ Extends(q.exprs, inner.exprs) /\ Grove(Len(q.exprs), inner.exprs)
  <2>1. /\ a.position <= inner.position
        /\ (a.position <= Len(tokens) => inner.position <= Len(tokens))
        /\ Extends(q.exprs, inner.exprs) /\ Grove(Len(q.exprs), inner.exprs)
    BY <1>2, <1>4 DEF Parsed, Continues
  <2> QED
    BY <1>1, <1>2, <1>3, <1>5, <2>1
<1>7. parsePrimary(f, q) = IF inner.index = 0 THEN inner
                           ELSE IF Is(inner, "RIGHT_PAREN") THEN advance(inner) ELSE Wrong(inner)
  BY <1>2, <1>4 DEF parsePrimary, Is, IsOneOf, Literals
<1>8. CASE inner.index = 0
  BY <1>6, <1>7, <1>8, ParsedInVain
<1>9. CASE inner.index # 0 /\ ~ Is(inner, "RIGHT_PAREN")
  <2>1. /\ Wrong(inner) \in Cursors /\ Wrong(inner).index = 0
        /\ Wrong(inner).position = inner.position /\ Wrong(inner).exprs = inner.exprs
    BY NothingFacts
  <2> QED
    BY <1>6, <1>7, <1>9, <2>1, ParsedInVain
<1>10. CASE inner.index # 0 /\ Is(inner, "RIGHT_PAREN")
  <2>1. PICK r \in Cursors : /\ r = advance(inner) /\ r.position = inner.position + 1
                             /\ r.index = inner.index /\ r.error = inner.error
                             /\ r.exprs = inner.exprs
    BY AdvanceFacts
  <2>2. inner.position < Len(tokens) /\ tokens[inner.position].type = "RIGHT_PAREN"
    BY <1>5, <1>10, TokenFacts DEF Is, current
  <2>3. /\ inner.index = Len(inner.exprs) /\ inner.error = q.error
        /\ Tree(Len(q.exprs), inner.exprs)
        /\ Derives(tokens, inner.exprs, Phrase(1, inner.index, q.position + 1, inner.position - 1))
    BY <1>2, <1>4, <1>10 DEF Parsed, Continues
  <2>4. PICK from \in 1..(Len(tokens) + 1), to \in 0..Len(tokens) :
          from = q.position /\ to = inner.position
    BY <1>1, <1>3, <1>5, <1>6
  <2>5. PICK i \in DOMAIN inner.exprs : i = inner.index
    BY <1>5, <1>10, <2>3
  <2>6. InParentheses(tokens, from, to)
    BY <1>3, <1>6, <2>2, <2>4 DEF InParentheses
  <2>7. Derives(tokens, inner.exprs, Phrase(8, i, from, to))
    <3>1. Derives(tokens, inner.exprs, Phrase(1, i, from + 1, to - 1))
      BY <2>3, <2>4, <2>5
    <3> QED
      BY <1>3, <1>5, <2>6, <3>1, DerivesInParentheses
  <2>8. /\ q.position < r.position /\ q.position <= r.position /\ r.position <= Len(tokens)
        /\ r.position - 1 = to
    BY <1>1, <1>3, <1>5, <1>6, <2>1, <2>2, <2>4
  <2>9. Derives(tokens, r.exprs, Phrase(8, r.index, q.position, r.position - 1))
    BY <2>1, <2>4, <2>5, <2>7, <2>8
  <2>10. Continues(q, r)
    BY <1>6, <2>1, <2>3, <2>8 DEF Continues
  <2>11. Parsed(8, q, r)
    BY <1>6, <2>1, <2>3, <2>8, <2>9, <2>10 DEF Parsed
  <2> QED
    BY <1>7, <1>10, <2>1, <2>11
<1> QED
  BY <1>5, <1>8, <1>9, <1>10

LEMMA PrimaryParsed ==
  ASSUME IsInput(tokens), NEW f, Contract(f), NEW q \in Cursors
  PROVE  Parsed(8, q, parsePrimary(f, q))
<1>1. CASE Is(q, "IDENTIFIER") /\ peekIs(q, "DOT")
  BY <1>1, QualifiedParsed
<1>2. CASE Is(q, "LEFT_PAREN")
  BY <1>2, ParenthesesParsed
<1>3. CASE (Is(q, "IDENTIFIER") /\ ~ peekIs(q, "DOT")) \/ IsOneOf(q, Literals)
  <2>1. PICK kind \in {"COLUMN_REF", "LITERAL"} :
          kind = IF Is(q, "IDENTIFIER") THEN "COLUMN_REF" ELSE "LITERAL"
    OBVIOUS
  <2>2. PICK e : e = [kind |-> kind, value |-> current(q).value]
    OBVIOUS
  <2>3. parsePrimary(f, q) = Leaf(q, e)
    BY <1>3, <2>1, <2>2 DEF parsePrimary, Is, IsOneOf, Literals
  <2>4. /\ TokenAt(q.position).type # "END_OF_FILE" /\ TokenAt(q.position) \in TokenRecord
        /\ tokens[q.position] = TokenAt(q.position) /\ q.position \in Nat
    <3>1. q.position \in Nat \ {0} /\ TokenAt(q.position).type # "END_OF_FILE"
      BY <1>3, CursorFacts DEF Is, IsOneOf, Literals, current
    <3> QED
      BY <3>1, TokenFacts
  <2>5. /\ e \in Exprs /\ e.kind \notin {"BINARY", "UNARY"} /\ e.kind = kind
        /\ e.value = tokens[q.position].value
    BY <2>2, <2>4 DEF Exprs, TokenRecord, current
  <2>6. IsPrimary(tokens, e, q.position, q.position)
    <3>1. CASE Is(q, "IDENTIFIER")
      <4>1. tokens[q.position] = [type |-> "IDENTIFIER", value |-> e.value]
        BY <2>4, <2>5, <3>1 DEF Is, current, TokenRecord
      <4> QED
        BY <2>1, <2>5, <3>1, <4>1 DEF IsPrimary
    <3>2. CASE ~ Is(q, "IDENTIFIER")
      BY <1>3, <2>1, <2>4, <2>5, <3>2 DEF IsPrimary, IsOneOf, current
    <3> QED
      BY <3>1, <3>2
  <2>7. q.position <= q.position
    BY <2>4
  <2> QED
    BY <2>3, <2>4, <2>5, <2>6, <2>7, LeafParsed
<1>4. CASE ~ Is(q, "IDENTIFIER") /\ ~ IsOneOf(q, Literals) /\ ~ Is(q, "LEFT_PAREN")
  <2>1. parsePrimary(f, q) = Nothing(q)
    BY <1>4 DEF parsePrimary
  <2> QED
    BY <2>1, ParsedNothing
<1> QED
  BY <1>1, <1>2, <1>3, <1>4

LEMMA LevelParsed ==
  ASSUME IsInput(tokens), NEW f, Contract(f), NEW l \in 1..8, NEW q \in Cursors
  PROVE  Parsed(l, q, Level(f, l, q))
<1>1. CASE l = 8
  BY <1>1, PrimaryParsed DEF Level
<1>2. CASE l = 7
  <2>1. \A s \in Cursors : Parsed(8, s, f.level[8][s])
    BY DEF Contract
  <2>2. CASE Is(q, "MINUS")
    <3>1. Parsed(7, q, Prefixed(f.level[8], "NEGATE", q))
      <4>1. <<7, "NEGATE", "MINUS">> \in {<<3, "NOT", "NOT">>, <<7, "NEGATE", "MINUS">>}
            /\ 7 \in {3, 7} /\ 8 = 7 + 1
        OBVIOUS
      <4> QED
        BY <2>1, <2>2, <4>1, PrefixedParsed
    <3> QED
      BY <1>2, <2>2, <3>1 DEF Level, parseUnary
  <2>3. CASE ~ Is(q, "MINUS")
    <3>1. Parsed(7, q, f.level[8][q])
      <4>1. 7 \in 1..7 /\ 8 = 7 + 1
        OBVIOUS
      <4> QED
        BY <2>1, <4>1, ParsedLooser
    <3> QED
      BY <1>2, <2>3, <3>1 DEF Level, parseUnary
  <2> QED
    BY <2>2, <2>3
<1>3. CASE l = 3
  <2>1. \A s \in Cursors : Parsed(4, s, f.level[4][s])
    BY DEF Contract
  <2>2. CASE Is(q, "NOT")
    <3>1. Parsed(3, q, Prefixed(f.level[4], "NOT", q))
      <4>1. <<3, "NOT", "NOT">> \in {<<3, "NOT", "NOT">>, <<7, "NEGATE", "MINUS">>}
            /\ 3 \in {3, 7} /\ 4 = 3 + 1
        OBVIOUS
      <4> QED
        BY <2>1, <2>2, <4>1, PrefixedParsed
    <3> QED
      BY <1>3, <2>2, <3>1 DEF Level, parseNot
  <2>3. CASE ~ Is(q, "NOT")
    <3>1. Parsed(3, q, f.level[4][q])
      <4>1. 3 \in 1..7 /\ 4 = 3 + 1
        OBVIOUS
      <4> QED
        BY <2>1, <4>1, ParsedLooser
    <3> QED
      BY <1>3, <2>3, <3>1 DEF Level, parseNot
  <2> QED
    BY <2>2, <2>3
<1>4. CASE l \in {1, 2, 4, 5, 6}
  BY <1>4, ChainParsed DEF Level
<1> QED
  BY <1>1, <1>2, <1>3, <1>4

(* So calls of any depth keep the promise.                                 *)
LEMMA NoCallsContract ==
  ASSUME IsInput(tokens)
  PROVE  Contract(NoCalls)
<1> SUFFICES ASSUME NEW l \in 1..8, NEW q \in Cursors
             PROVE  /\ Parsed(l, q, NoCalls.level[l][q])
                    /\ HoldsLeftSide(q) => Chained(l, q, NoCalls.more[l][q])
  BY DEF Contract
<1>1. NoCalls.level[l][q] = Nothing(q) /\ NoCalls.more[l][q] = Nothing(q)
  BY DEF NoCalls
<1>2. Parsed(l, q, Nothing(q))
  BY ParsedNothing
<1>3. ASSUME NEW base \in Nat, Tree(base, q.exprs)
      PROVE  Grove(base, Nothing(q).exprs)
  BY <1>3, NothingFacts DEF Tree
<1>4. Chained(l, q, Nothing(q))
  BY <1>2, <1>3, NothingFacts DEF Chained, Parsed
<1> QED
  BY <1>1, <1>2, <1>4

LEMMA CallsContract ==
  ASSUME IsInput(tokens), NEW f, Contract(f)
  PROVE  Contract(Calls(f))
<1> SUFFICES ASSUME NEW l \in 1..8, NEW q \in Cursors
             PROVE  /\ Parsed(l, q, Calls(f).level[l][q])
                    /\ HoldsLeftSide(q) => Chained(l, q, Calls(f).more[l][q])
  BY DEF Contract
<1>1. Calls(f).level[l][q] = Level(f, l, q) /\ Calls(f).more[l][q] = MoreOperands(f, l, q)
  BY DEF Calls
<1> QED
  BY <1>1, LevelParsed, MoreParsed

LEMMA CallsExist ==
  ASSUME NEW n \in Nat
  PROVE  \E f : f = [d \in 0..n |-> IF d = 0 THEN NoCalls ELSE Calls(f[d - 1])]
<1> DEFINE S == {m \in Nat : \E f : f = [d \in 0..m |-> IF d = 0 THEN NoCalls ELSE Calls(f[d - 1])]}
<1>1. 0 \in S
  <2>1. PICK f : f = [d \in 0..0 |-> NoCalls]
    OBVIOUS
  <2>2. f = [d \in 0..0 |-> IF d = 0 THEN NoCalls ELSE Calls(f[d - 1])]
    BY <2>1
  <2> QED
    BY <2>2
<1>2. ASSUME NEW m \in S \cap Nat
      PROVE  m + 1 \in S
  <2>1. PICK f : f = [d \in 0..m |-> IF d = 0 THEN NoCalls ELSE Calls(f[d - 1])]
    OBVIOUS
  <2>2. PICK g : g = [d \in 0..(m + 1) |-> IF d = 0 THEN NoCalls ELSE Calls(f[d - 1])]
    OBVIOUS
  <2>3. \A d \in 0..m : g[d] = f[d]
    BY <2>1, <2>2
  <2>4. g = [d \in 0..(m + 1) |-> IF d = 0 THEN NoCalls ELSE Calls(g[d - 1])]
    <3>1. ASSUME NEW d \in 0..(m + 1), d # 0
          PROVE  g[d - 1] = f[d - 1]
      BY <2>3, <3>1
    <3> QED
      BY <2>2, <3>1
  <2> QED
    BY <2>4
<1> HIDE DEF S
<1>3. n \in S
  BY <1>1, <1>2, NatSet
<1> QED
  BY <1>3 DEF S

LEMMA ParseDef ==
  ASSUME IsInput(tokens)
  PROVE  /\ Depth \in Nat /\ parse[0] = NoCalls
         /\ \A d \in 1..Depth : parse[d] = Calls(parse[d - 1])
<1>1. Depth \in Nat
  BY TokenFacts DEF Depth
<1>2. PICK f : f = [d \in 0..Depth |-> IF d = 0 THEN NoCalls ELSE Calls(f[d - 1])]
  BY <1>1, CallsExist
<1>3. parse = [d \in 0..Depth |-> IF d = 0 THEN NoCalls ELSE Calls(parse[d - 1])]
  BY <1>2, Zenon DEF parse
<1> QED
  BY <1>1, <1>3

LEMMA EachDepthContract ==
  ASSUME IsInput(tokens), NEW d \in 0..Depth
  PROVE  Contract(parse[d])
<1>1. Depth \in Nat
  BY ParseDef
<1> DEFINE S == {m \in Nat : m <= Depth => Contract(parse[m])}
<1>2. 0 \in S
  BY ParseDef, NoCallsContract
<1>3. ASSUME NEW m \in S \cap Nat
      PROVE  m + 1 \in S
  <2> SUFFICES ASSUME m + 1 <= Depth PROVE Contract(parse[m + 1])
    OBVIOUS
  <2>1. parse[m + 1] = Calls(parse[m])
    BY <1>1, ParseDef
  <2>2. Contract(parse[m])
    BY <1>1
  <2> QED
    BY <2>1, <2>2, CallsContract
<1> HIDE DEF S
<1>4. d \in S
  BY <1>1, <1>2, <1>3, NatSet
<1> QED
  BY <1>1, <1>4 DEF S

LEMMA ParseContract ==
  ASSUME IsInput(tokens)
  PROVE  Contract(parse[Depth])
<1>1. Depth \in 0..Depth
  BY ParseDef
<1> QED
  BY <1>1, EachDepthContract

-----------------------------------------------------------------------------
(* The other way round: each text the grammar derives is parsed. First the *)
(* texts that are sentences, as with derivations by induction on length.   *)
KeepsTexts(f, g, ts, from, to) ==
  \A sub \in Texts(ts) : sub.to - sub.from < to - from => (f[sub] => g[sub])

LEMMA TextFacts ==
  ASSUME NEW ts, Len(ts) \in Nat, NEW text \in Texts(ts)
  PROVE  /\ text.level \in 1..8 /\ text.from \in 1..(Len(ts) + 1) /\ text.to \in 0..Len(ts)
         /\ text.from \in Int /\ text.to \in Int
         /\ text = Text(text.level, text.from, text.to)
  BY DEF Texts, Text

LEMMA TextIn ==
  ASSUME NEW ts, Len(ts) \in Nat, NEW l \in 1..8,
         NEW from \in 1..(Len(ts) + 1), NEW to \in 0..Len(ts)
  PROVE  /\ Text(l, from, to) \in Texts(ts) /\ Text(l, from, to).level = l
         /\ Text(l, from, to).from = from /\ Text(l, from, to).to = to
  BY DEF Texts, Text

LEMMA KeepsText ==
  ASSUME NEW ts, Len(ts) \in Nat, NEW f, NEW g, NEW from \in Int, NEW to \in Int,
         KeepsTexts(f, g, ts, from, to),
         NEW l \in 1..8, NEW a \in 1..(Len(ts) + 1), NEW b \in 0..Len(ts),
         b - a < to - from
  PROVE  f[Text(l, a, b)] => g[Text(l, a, b)]
<1>1. /\ Text(l, a, b) \in Texts(ts)
      /\ Text(l, a, b).from = a /\ Text(l, a, b).to = b
  BY TextIn
<1> QED
  BY <1>1 DEF KeepsTexts

(* The parts of a binary text are shorter texts.                           *)
LEMMA PartsOfBinary ==
  ASSUME NEW ts, Len(ts) \in Nat, NEW l \in 1..8, NEW from \in 1..(Len(ts) + 1),
         NEW to \in 0..Len(ts), NEW k \in (from + 1)..(to - 1),
         NEW operator \in BinaryOperators(l)
  PROVE  /\ l + 1 \in 1..8 /\ OperatorLength(operator) \in {1, 2}
         /\ k - 1 \in 0..Len(ts) /\ k + OperatorLength(operator) \in 1..(Len(ts) + 1)
         /\ (k - 1) - from < to - from
         /\ to - (k + OperatorLength(operator)) < to - from
<1>1. l \in {1, 2, 4, 5, 6}
  BY LevelsOfOperators
<1>2. PICK n \in {1, 2} : n = OperatorLength(operator)
  BY DEF OperatorLength
<1> QED
  BY <1>1, <1>2

LEMMA SameGrammatical ==
  ASSUME NEW ts, Len(ts) \in Nat, NEW text \in Texts(ts), NEW f, NEW g,
         KeepsTexts(f, g, ts, text.from, text.to), IsGrammatical(f, ts, text)
  PROVE  IsGrammatical(g, ts, text)
<1>1. PICK from \in 1..(Len(ts) + 1), to \in 0..Len(ts), level \in 1..8 :
        from = text.from /\ to = text.to /\ level = text.level
  BY TextFacts
<1>2. KeepsTexts(f, g, ts, from, to) /\ from <= to /\ from \in Int /\ to \in Int
  BY <1>1 DEF IsGrammatical
<1>3. CASE InParentheses(ts, from, to) /\ f[Text(1, from + 1, to - 1)]
  <2>1. PICK a \in 1..(Len(ts) + 1), b \in 0..Len(ts) :
          a = from + 1 /\ b = to - 1 /\ b - a < to - from
    BY <1>2, <1>3 DEF InParentheses
  <2>2. f[Text(1, a, b)] => g[Text(1, a, b)]
    <3>1. 1 \in 1..8
      OBVIOUS
    <3> QED
      BY <1>2, <2>1, <3>1, KeepsText
  <2> QED
    BY <1>1, <1>2, <1>3, <2>1, <2>2 DEF IsGrammatical
<1>4. ASSUME NEW l \in level..8, NEW k \in (from + 1)..(to - 1),
             NEW operator \in BinaryOperators(l), IsOperatorAt(ts, operator, k),
             f[Text(l, from, k - 1)], f[Text(l + 1, k + OperatorLength(operator), to)]
      PROVE  IsGrammatical(g, ts, text)
  <2>1. l \in 1..8
    OBVIOUS
  <2>2. PICK a \in 0..Len(ts), b \in 1..(Len(ts) + 1), m \in 1..8 :
          /\ a = k - 1 /\ b = k + OperatorLength(operator) /\ m = l + 1
          /\ a - from < to - from /\ to - b < to - from
    BY <2>1, PartsOfBinary
  <2>3. f[Text(l, from, a)] => g[Text(l, from, a)]
    BY <1>2, <2>1, <2>2, KeepsText
  <2>4. f[Text(m, b, to)] => g[Text(m, b, to)]
    BY <1>2, <2>2, KeepsText
  <2> QED
    BY <1>1, <1>2, <1>4, <2>2, <2>3, <2>4 DEF IsGrammatical
<1>5. ASSUME NEW l \in level..8, <<l, ts[from].type>> \in {<<3, "NOT">>, <<7, "MINUS">>},
             f[Text(l + 1, from + 1, to)]
      PROVE  IsGrammatical(g, ts, text)
  <2>1. PICK m \in 1..8, a \in 1..(Len(ts) + 1) :
          m = l + 1 /\ a = from + 1 /\ to - a < to - from
    BY <1>2, <1>5
  <2>2. f[Text(m, a, to)] => g[Text(m, a, to)]
    BY <1>2, <2>1, KeepsText
  <2> QED
    BY <1>1, <1>2, <1>5, <2>1, <2>2 DEF IsGrammatical
<1>6. CASE \/ from = to /\ ts[to].type \in Literals \cup {"IDENTIFIER"}
           \/ /\ from = to - 2 /\ ts[from].type = "IDENTIFIER"
              /\ ts[to - 1].type = "DOT" /\ ts[to].type = "IDENTIFIER"
  BY <1>1, <1>2, <1>6 DEF IsGrammatical
<1> QED
  BY <1>1, <1>3, <1>4, <1>5, <1>6 DEF IsGrammatical

LEMMA IsGrammaticalIsBoolean ==
  ASSUME NEW f, NEW ts, NEW text
  PROVE  IsGrammatical(f, ts, text) \in BOOLEAN
  BY DEF IsGrammatical

AreSentences(f, ts, n) ==
  \A t \in Texts(ts) : t.to - t.from < n => f[t] = IsGrammatical(f, ts, t)

LEMMA NextSentences ==
  ASSUME NEW ts, Len(ts) \in Nat, NEW n \in Nat, NEW f, AreSentences(f, ts, n),
         NEW g, g = [t \in Texts(ts) |-> IsGrammatical(f, ts, t)]
  PROVE  AreSentences(g, ts, n + 1)
<1> SUFFICES ASSUME NEW t \in Texts(ts), t.to - t.from < n + 1
             PROVE  IsGrammatical(f, ts, t) = IsGrammatical(g, ts, t)
  BY DEF AreSentences
<1>1. t.to - t.from \in Int /\ t.to - t.from <= n
  BY TextFacts
<1>2. KeepsTexts(f, g, ts, t.from, t.to) /\ KeepsTexts(g, f, ts, t.from, t.to)
  <2> SUFFICES ASSUME NEW sub \in Texts(ts), sub.to - sub.from < t.to - t.from
               PROVE  f[sub] = g[sub]
    BY DEF KeepsTexts
  <2>1. sub.to - sub.from \in Int
    BY TextFacts
  <2>2. sub.to - sub.from < n
    BY <1>1, <2>1
  <2> QED
    BY <2>2 DEF AreSentences
<1>3. IsGrammatical(f, ts, t) <=> IsGrammatical(g, ts, t)
  BY <1>2, SameGrammatical
<1> QED
  BY <1>3, IsGrammaticalIsBoolean

LEMMA SentencesExist ==
  ASSUME NEW ts, Len(ts) \in Nat
  PROVE  \E f : f = [t \in Texts(ts) |-> IsGrammatical(f, ts, t)]
<1> DEFINE S == {n \in Nat : \E f : /\ f = [t \in Texts(ts) |-> f[t]]
                                    /\ AreSentences(f, ts, n)}
<1>1. 0 \in S
  <2>1. PICK f : f = [t \in Texts(ts) |-> IsGrammatical(ts, ts, t)]
    OBVIOUS
  <2>2. AreSentences(f, ts, 0)
    <3> SUFFICES ASSUME NEW t \in Texts(ts), t.to - t.from < 0
                 PROVE  IsGrammatical(ts, ts, t) = IsGrammatical(f, ts, t)
      BY <2>1 DEF AreSentences
    <3>1. ~ (t.from <= t.to)
      BY TextFacts
    <3>2. ~ IsGrammatical(ts, ts, t) /\ ~ IsGrammatical(f, ts, t)
      BY <3>1 DEF IsGrammatical
    <3> QED
      BY <3>2, IsGrammaticalIsBoolean
  <2> QED
    BY <2>1, <2>2
<1>2. ASSUME NEW n \in S \cap Nat
      PROVE  n + 1 \in S
  <2>1. PICK f : AreSentences(f, ts, n)
    OBVIOUS
  <2>2. PICK g : g = [t \in Texts(ts) |-> IsGrammatical(f, ts, t)]
    OBVIOUS
  <2>3. AreSentences(g, ts, n + 1)
    BY <2>1, <2>2, NextSentences
  <2> QED
    BY <2>2, <2>3
<1> HIDE DEF S
<1>3. Len(ts) + 1 \in S
  BY <1>1, <1>2, NatSet
<1>4. PICK f : f = [t \in Texts(ts) |-> f[t]] /\ AreSentences(f, ts, Len(ts) + 1)
  BY <1>3 DEF S
<1>5. ASSUME NEW t \in Texts(ts)
      PROVE  f[t] = IsGrammatical(f, ts, t)
  <2>1. t.to - t.from < Len(ts) + 1
    BY TextFacts
  <2> QED
    BY <1>4, <2>1 DEF AreSentences
<1> QED
  BY <1>4, <1>5

LEMMA SentenceDef ==
  ASSUME NEW ts, Len(ts) \in Nat
  PROVE  \E s : /\ \A t \in Texts(ts) : s[t] = IsGrammatical(s, ts, t)
                /\ \A t : IsSentence(ts, t) = s[t]
<1>1. PICK f : f = [t \in Texts(ts) |-> IsGrammatical(f, ts, t)]
  BY SentencesExist
<1>2. PICK s : /\ s = [t \in Texts(ts) |-> IsGrammatical(s, ts, t)]
               /\ \A t : IsSentence(ts, t) = s[t]
  BY <1>1, Zenon DEF IsSentence
<1>3. \A t \in Texts(ts) : s[t] = IsGrammatical(s, ts, t)
  BY <1>2
<1> QED
  BY <1>2, <1>3

(* The parse function of level l, called at q with d calls to go.          *)
At(d, l, q) == parse[d].level[l][q]

LEMMA CallUnfolds ==
  ASSUME IsInput(tokens), NEW d \in 1..Depth, NEW l \in 1..8, NEW q \in Cursors
  PROVE  /\ d - 1 \in 0..Depth
         /\ At(d, l, q) = Level(parse[d - 1], l, q)
         /\ parse[d].more[l][q] = MoreOperands(parse[d - 1], l, q)
<1>1. d - 1 \in 0..Depth
  BY ParseDef
<1>2. parse[d] = Calls(parse[d - 1])
  BY ParseDef
<1> QED
  BY <1>1, <1>2 DEF Calls, At

(* No token of a level looser than l goes on with a phrase before it.      *)
Stops(l, i) ==
  TokenAt(i).type # "DOT" /\ \A m \in l..8 : TokenAt(i).type \notin Operators[m]

(* A call finds the phrase from one place to another.                      *)
Finds(d, l, from, to) ==
  \A q \in Cursors : q.position = from =>
    /\ At(d, l, q) \in Cursors /\ At(d, l, q).index # 0
    /\ At(d, l, q).error = q.error /\ At(d, l, q).position = to + 1

(* A call comes to the end of the phrase; all it has left to do is to look *)
(* for more of the chain.                                                  *)
Chains == {1, 2, 4, 5, 6}
Rest(n, l, left) == IF l \in Chains THEN parse[n].more[l][left] ELSE left
Passes(d, l, from, to) ==
  \A q \in Cursors : q.position = from =>
    \E left \in Cursors, n \in Nat :
      /\ n <= d /\ d <= n + (to - from) + 1
      /\ left.index # 0 /\ left.error = q.error /\ left.position = to + 1
      /\ At(d, l, q) = Rest(n, l, left)

(* The calls it takes.                                                     *)
Suffices(d, l, from, to) == d \in 0..Depth /\ 9 * (to - from) + (9 - l) <= d

Understood(l, from, to) ==
  /\ from <= to
  /\ l >= 4 => tokens[from].type # "NOT"
  /\ l = 8  => tokens[from].type # "MINUS"
  /\ Stops(l + 1, to + 1) =>
       \A d \in Nat : Suffices(d, l, from, to) => Passes(d, l, from, to)

LEMMA TokenIs ==
  ASSUME IsInput(tokens), NEW i \in 1..Len(tokens)
  PROVE  TokenAt(i) = tokens[i] /\ Len(tokens) \in Nat
<1>1. Len(tokens) \in Nat
  BY TokenFacts
<1>2. i < Len(tokens) \/ i = Len(tokens)
  BY <1>1
<1> QED
  BY <1>1, <1>2 DEF TokenAt

LEMMA OperatorSets ==
  /\ Operators[1] = {"OR"} /\ Operators[2] = {"AND"} /\ Operators[3] = {}
  /\ Operators[4] = {"EQUAL", "NOT_EQUAL", "LESS_THAN", "LESS_EQ", "GREATER_THAN", "GREATER_EQ", "IS"}
  /\ Operators[5] = {"PLUS", "MINUS"} /\ Operators[6] = {"STAR", "SLASH"}
  /\ Operators[7] = {} /\ Operators[8] = {} /\ DOMAIN Operators = 1..8
  BY DEF Operators

(* An operator stops every phrase of a tighter level.                      *)
LEMMA OperatorStops ==
  ASSUME NEW l \in 1..8, NEW i, TokenAt(i).type \in Operators[l]
  PROVE  Stops(l + 1, i)
<1>1. TokenAt(i).type # "DOT"
  BY OperatorSets
<1>2. ASSUME NEW m \in (l + 1)..8
      PROVE  TokenAt(i).type \notin Operators[m]
  BY <1>2, OperatorSets
<1> QED
  BY <1>1, <1>2 DEF Stops

LEMMA StopsTighter ==
  ASSUME NEW l \in 1..8, NEW i, Stops(l, i)
  PROVE  Stops(l + 1, i)
  BY DEF Stops

LEMMA OthersStop ==
  ASSUME NEW i, TokenAt(i).type \in {"RIGHT_PAREN", "SEMICOLON"}, NEW l \in 1..9
  PROVE  Stops(l, i)
<1>1. ASSUME NEW m \in l..8
      PROVE  TokenAt(i).type \notin Operators[m]
  <2>1. m \in 1..8
    BY <1>1
  <2> QED
    BY <2>1, OperatorSets
<1> QED
  BY <1>1 DEF Stops

LEMMA PassedIsFound ==
  ASSUME IsInput(tokens), NEW l \in 1..8, NEW from \in 1..(Len(tokens) + 1),
         NEW to \in 0..Len(tokens), from <= to,
         NEW d \in Nat, Suffices(d, l, from, to), Passes(d, l, from, to), Stops(l, to + 1)
  PROVE  Finds(d, l, from, to)
<1> SUFFICES ASSUME NEW q \in Cursors, q.position = from
             PROVE  /\ At(d, l, q) \in Cursors /\ At(d, l, q).index # 0
                    /\ At(d, l, q).error = q.error /\ At(d, l, q).position = to + 1
  BY DEF Finds
<1>1. PICK left \in Cursors, n \in Nat :
        /\ n <= d /\ d <= n + (to - from) + 1
        /\ left.index # 0 /\ left.error = q.error /\ left.position = to + 1
        /\ At(d, l, q) = Rest(n, l, left)
  BY DEF Passes
<1>2. CASE l \notin Chains
  BY <1>1, <1>2 DEF Rest
<1>3. CASE l \in Chains
  <2>1. Len(tokens) \in Nat /\ Depth \in Nat /\ l <= 6
    BY <1>3, ParseDef, TokenFacts DEF Chains
  <2>2. 9 * (to - from) + (9 - l) <= n + (to - from) + 1
    BY <1>1, <2>1 DEF Suffices
  <2>3. n \in 1..Depth
    BY <1>1, <2>1, <2>2 DEF Suffices
  <2>4. parse[n].more[l][left] = MoreOperands(parse[n - 1], l, left)
    BY <2>3, CallUnfolds
  <2>5. ~ IsOneOf(left, Operators[l])
    BY <1>1 DEF Stops, IsOneOf, current
  <2> QED
    BY <1>1, <1>3, <2>4, <2>5 DEF Rest, MoreOperands
<1> QED
  BY <1>2, <1>3

(* A phrase of one level is one of the next looser level.                  *)
LEMMA UnderstoodLooser ==
  ASSUME IsInput(tokens), NEW l \in 1..7, NEW m \in 2..8, m = l + 1,
         NEW from \in 1..(Len(tokens) + 1), NEW to \in 0..Len(tokens),
         Understood(m, from, to)
  PROVE  Understood(l, from, to)
<1>1. from <= to /\ Len(tokens) \in Nat /\ from \in 1..Len(tokens)
  BY TokenFacts DEF Understood
<1>2. l >= 4 => tokens[from].type # "NOT"
  BY DEF Understood
<1>3. /\ l = 3 => tokens[from].type # "NOT"
      /\ l = 7 => tokens[from].type # "MINUS"
  BY DEF Understood
<1>4. ASSUME Stops(m, to + 1), NEW d \in Nat, Suffices(d, l, from, to)
      PROVE  Passes(d, l, from, to)
  <2>1. Stops(m + 1, to + 1)
    BY <1>4, StopsTighter
  <2>2. Depth \in Nat
    BY ParseDef
  <2>3. PICK c \in Nat : c = d - 1 /\ Suffices(c, m, from, to) /\ d \in 1..Depth
    BY <1>1, <1>4, <2>2 DEF Suffices
  <2>4. Passes(c, m, from, to)
    BY <2>1, <2>3 DEF Understood
  <2>5. Finds(c, m, from, to)
    BY <1>1, <1>4, <2>3, <2>4, PassedIsFound
  <2> SUFFICES ASSUME NEW q \in Cursors, q.position = from
               PROVE  \E left \in Cursors, n \in Nat :
                        /\ n <= d /\ d <= n + (to - from) + 1
                        /\ left.index # 0 /\ left.error = q.error /\ left.position = to + 1
                        /\ At(d, l, q) = Rest(n, l, left)
    BY DEF Passes
  <2>6. PICK left \in Cursors : /\ left = parse[c].level[m][q] /\ left.index # 0
                                /\ left.error = q.error /\ left.position = to + 1
    BY <2>5 DEF Finds, At
  <2>7. At(d, l, q) = Level(parse[c], l, q)
    <3>1. d \in 1..Depth /\ l \in 1..8 /\ c = d - 1
      BY <2>3
    <3>2. At(d, l, q) = Level(parse[d - 1], l, q)
      BY <3>1, CallUnfolds
    <3> QED
      BY <3>1, <3>2
  <2>8. current(q) = tokens[from]
    BY <1>1, TokenIs DEF current
  <2>9. Level(parse[c], l, q) = Rest(c, l, left)
    <3>1. CASE l \in Chains
      <4>1. Level(parse[c], l, q) = parseChain(parse[c], l, q)
        BY <3>1 DEF Level, Chains
      <4> QED
        BY <2>6, <3>1, <4>1 DEF parseChain, Rest
    <3>2. CASE l = 3
      <4>1. ~ Is(q, "NOT")
        BY <1>3, <2>8, <3>2 DEF Is
      <4> QED
        BY <2>6, <3>2, <4>1 DEF Level, parseNot, Rest, Chains
    <3>3. CASE l = 7
      <4>1. ~ Is(q, "MINUS")
        BY <1>3, <2>8, <3>3 DEF Is
      <4> QED
        BY <2>6, <3>3, <4>1 DEF Level, parseUnary, Rest, Chains
    <3> QED
      BY <3>1, <3>2, <3>3 DEF Chains
  <2>10. c <= d /\ d <= c + (to - from) + 1
    BY <1>1, <2>3
  <2> QED
    BY <2>6, <2>7, <2>9, <2>10
<1> QED
  BY <1>1, <1>2, <1>4 DEF Understood

LEMMA UnderstoodInAll ==
  ASSUME IsInput(tokens), NEW m \in 1..8, NEW l \in 1..m,
         NEW from \in 1..(Len(tokens) + 1), NEW to \in 0..Len(tokens),
         Understood(m, from, to)
  PROVE  Understood(l, from, to)
<1>1. ASSUME NEW k \in 1..7, Understood(k + 1, from, to)
      PROVE  Understood(k, from, to)
  <2>1. PICK j \in 2..8 : j = k + 1
    OBVIOUS
  <2> QED
    BY <1>1, <2>1, UnderstoodLooser
<1> DEFINE S == {n \in Nat : n < m => Understood(m - n, from, to)}
<1>2. 0 \in S
  OBVIOUS
<1>3. ASSUME NEW n \in S \cap Nat
      PROVE  n + 1 \in S
  <2> SUFFICES ASSUME n + 1 < m PROVE Understood(m - (n + 1), from, to)
    OBVIOUS
  <2>1. PICK k \in 1..7 : k = m - (n + 1) /\ k + 1 = m - n
    OBVIOUS
  <2> QED
    BY <1>1, <2>1
<1> HIDE DEF S
<1>4. m - l \in Nat /\ m - l < m /\ m - (m - l) = l
  OBVIOUS
<1>5. m - l \in S
  BY <1>2, <1>3, <1>4, NatSet
<1> QED
  BY <1>4, <1>5 DEF S

(* What is found at once.                                                  *)
LEMMA FoundIsPassed ==
  ASSUME IsInput(tokens), NEW l \in {3, 7, 8}, NEW from \in Nat, NEW to \in Nat, from <= to,
         NEW d \in Nat, Finds(d, l, from, to)
  PROVE  Passes(d, l, from, to)
<1> SUFFICES ASSUME NEW q \in Cursors, q.position = from
             PROVE  \E left \in Cursors, n \in Nat :
                      /\ n <= d /\ d <= n + (to - from) + 1
                      /\ left.index # 0 /\ left.error = q.error /\ left.position = to + 1
                      /\ At(d, l, q) = Rest(n, l, left)
  BY DEF Passes
<1>1. PICK left \in Cursors : /\ left = At(d, l, q) /\ left.index # 0
                              /\ left.error = q.error /\ left.position = to + 1
  BY DEF Finds
<1>2. Rest(d, l, left) = left
  BY DEF Rest, Chains
<1>3. d <= d /\ d <= d + (to - from) + 1
  OBVIOUS
<1> QED
  BY <1>1, <1>2, <1>3

LEMMA LeafFound ==
  ASSUME NEW s \in Cursors, NEW e \in Exprs
  PROVE  /\ Leaf(s, e) \in Cursors /\ Leaf(s, e).index # 0
         /\ Leaf(s, e).error = s.error /\ Leaf(s, e).position = s.position + 1
<1>1. PICK u \in Cursors : /\ u = Push(s, e) /\ u.position = s.position
                           /\ u.error = s.error /\ u.index = Len(s.exprs) + 1
  BY PushFacts
<1>2. /\ advance(u) \in Cursors /\ advance(u).position = u.position + 1
      /\ advance(u).index = u.index /\ advance(u).error = u.error
  BY AdvanceFacts
<1>3. Len(s.exprs) + 1 # 0
  BY CursorFacts
<1> QED
  BY <1>1, <1>2, <1>3 DEF Leaf

LEMMA PrimaryUnderstood ==
  ASSUME IsInput(tokens), NEW from \in 1..Len(tokens),
         tokens[from].type \in Literals \cup {"IDENTIFIER"}
  PROVE  Understood(8, from, from)
<1>1. Len(tokens) \in Nat /\ TokenAt(from) = tokens[from] /\ TokenAt(from) \in TokenRecord
  BY TokenIs, TokenFacts
<1>2. tokens[from].type # "NOT" /\ tokens[from].type # "MINUS" /\ from <= from
  BY DEF Literals
<1>3. ASSUME Stops(9, from + 1), NEW d \in Nat, Suffices(d, 8, from, from)
      PROVE  Passes(d, 8, from, from)
  <2>1. d \in 1..Depth
    BY <1>3, ParseDef DEF Suffices
  <2>2. ASSUME NEW q \in Cursors, q.position = from
        PROVE  /\ At(d, 8, q) \in Cursors /\ At(d, 8, q).index # 0
               /\ At(d, 8, q).error = q.error /\ At(d, 8, q).position = from + 1
    <3>1. At(d, 8, q) = parsePrimary(parse[d - 1], q)
      <4>1. At(d, 8, q) = Level(parse[d - 1], 8, q)
        BY <2>1, CallUnfolds
      <4> QED
        BY <4>1 DEF Level
    <3>2. current(q) = tokens[from] /\ ~ peekIs(q, "DOT")
      BY <1>1, <1>3, <2>2 DEF current, peekIs, Stops
    <3>3. PICK e \in Exprs : parsePrimary(parse[d - 1], q) = Leaf(q, e)
      <4>1. CASE tokens[from].type = "IDENTIFIER"
        <5>1. parsePrimary(parse[d - 1], q) = Leaf(q, [kind |-> "COLUMN_REF", value |-> current(q).value])
          BY <3>2, <4>1 DEF parsePrimary, Is, IsOneOf, Literals
        <5>2. [kind |-> "COLUMN_REF", value |-> current(q).value] \in Exprs
          BY <1>1, <3>2 DEF Exprs, TokenRecord
        <5> QED
          BY <5>1, <5>2
      <4>2. CASE tokens[from].type \in Literals
        <5>1. parsePrimary(parse[d - 1], q) = Leaf(q, [kind |-> "LITERAL", value |-> current(q).value])
          BY <3>2, <4>2 DEF parsePrimary, Is, IsOneOf, Literals
        <5>2. [kind |-> "LITERAL", value |-> current(q).value] \in Exprs
          BY <1>1, <3>2 DEF Exprs, TokenRecord
        <5> QED
          BY <5>1, <5>2
      <4> QED
        BY <4>1, <4>2
    <3> QED
      BY <2>2, <3>1, <3>3, LeafFound
  <2>3. Finds(d, 8, from, from)
    BY <2>2 DEF Finds
  <2>4. from \in Nat /\ from <= from /\ 8 \in {3, 7, 8}
    OBVIOUS
  <2> QED
    BY <2>3, <2>4, FoundIsPassed
<1>4. 8 + 1 = 9
  OBVIOUS
<1> QED
  BY <1>2, <1>3, <1>4 DEF Understood

LEMMA QualifiedUnderstood ==
  ASSUME IsInput(tokens), NEW from \in 1..Len(tokens), NEW to \in 1..Len(tokens), from = to - 2,
         tokens[from].type = "IDENTIFIER", tokens[to - 1].type = "DOT",
         tokens[to].type = "IDENTIFIER"
  PROVE  Understood(8, from, to)
<1>1. PICK dot \in 1..Len(tokens) : dot = from + 1 /\ dot + 1 = to /\ dot = to - 1
  BY TokenFacts
<1>2. /\ TokenAt(from) = tokens[from] /\ TokenAt(dot) = tokens[dot]
      /\ TokenAt(to) = tokens[to] /\ TokenAt(to) \in TokenRecord
  BY TokenIs, TokenFacts
<1>3. ASSUME NEW d \in Nat, Suffices(d, 8, from, to)
      PROVE  Passes(d, 8, from, to)
  <2>1. d \in 1..Depth
    BY <1>3, ParseDef DEF Suffices
  <2>2. ASSUME NEW q \in Cursors, q.position = from
        PROVE  /\ At(d, 8, q) \in Cursors /\ At(d, 8, q).index # 0
               /\ At(d, 8, q).error = q.error /\ At(d, 8, q).position = to + 1
    <3>1. At(d, 8, q) = parsePrimary(parse[d - 1], q)
      <4>1. At(d, 8, q) = Level(parse[d - 1], 8, q)
        BY <2>1, CallUnfolds
      <4> QED
        BY <4>1 DEF Level
    <3>2. PICK a \in Cursors : /\ a = advance(q) /\ a.position = dot /\ a.error = q.error
      BY <1>1, <2>2, AdvanceFacts
    <3>3. PICK s \in Cursors : /\ s = advance(a) /\ s.position = to /\ s.error = q.error
      BY <1>1, <3>2, AdvanceFacts
    <3>4. Is(q, "IDENTIFIER") /\ peekIs(q, "DOT") /\ peekIs(a, "IDENTIFIER")
      BY <1>1, <1>2, <2>2, <3>2 DEF Is, current, peekIs
    <3>5. PICK e : e = [kind |-> "COLUMN_REF", value |-> current(s).value]
      OBVIOUS
    <3>6. e \in Exprs
      BY <1>2, <3>3, <3>5 DEF Exprs, TokenRecord, current
    <3>7. parsePrimary(parse[d - 1], q) = Leaf(s, e)
      BY <3>2, <3>3, <3>4, <3>5 DEF parsePrimary, Is, IsOneOf, Literals
    <3> QED
      BY <3>1, <3>3, <3>6, <3>7, LeafFound
  <2>3. Finds(d, 8, from, to)
    BY <2>2 DEF Finds
  <2>4. from \in Nat /\ to \in Nat /\ from <= to /\ 8 \in {3, 7, 8}
    OBVIOUS
  <2> QED
    BY <2>3, <2>4, FoundIsPassed
<1> QED
  BY <1>3 DEF Understood

LEMMA ParenthesesUnderstood ==
  ASSUME IsInput(tokens), NEW from \in 1..Len(tokens), NEW to \in 1..Len(tokens),
         InParentheses(tokens, from, to), Understood(1, from + 1, to - 1)
  PROVE  Understood(8, from, to)
<1>1. /\ tokens[from].type = "LEFT_PAREN" /\ tokens[to].type = "RIGHT_PAREN"
      /\ from + 1 <= to - 1 /\ Len(tokens) \in Nat
  BY TokenFacts DEF InParentheses, Understood
<1>2. PICK a \in 1..(Len(tokens) + 1), b \in 0..Len(tokens) :
        a = from + 1 /\ b = to - 1 /\ a <= b /\ b + 1 = to
  BY <1>1
<1>3. TokenAt(from) = tokens[from] /\ TokenAt(to) = tokens[to]
  BY TokenIs
<1>4. Stops(1, to) /\ Stops(2, to)
  BY <1>1, <1>3, OthersStop
<1>5. ASSUME NEW d \in Nat, Suffices(d, 8, from, to)
      PROVE  Passes(d, 8, from, to)
  <2>1. Depth \in Nat
    BY ParseDef
  <2>2. PICK c \in Nat : c = d - 1 /\ Suffices(c, 1, a, b) /\ d \in 1..Depth
    BY <1>2, <1>5, <2>1 DEF Suffices
  <2>3. Finds(c, 1, a, b)
    <3>1. Understood(1, a, b)
      BY <1>2
    <3>2. Passes(c, 1, a, b)
      BY <1>2, <1>4, <2>2, <3>1 DEF Understood
    <3> QED
      BY <1>2, <1>4, <2>2, <3>2, PassedIsFound
  <2>4. ASSUME NEW q \in Cursors, q.position = from
        PROVE  /\ At(d, 8, q) \in Cursors /\ At(d, 8, q).index # 0
               /\ At(d, 8, q).error = q.error /\ At(d, 8, q).position = to + 1
    <3>1. At(d, 8, q) = parsePrimary(parse[c], q)
      <4>1. At(d, 8, q) = Level(parse[d - 1], 8, q)
        BY <2>2, CallUnfolds
      <4> QED
        BY <2>2, <4>1 DEF Level
    <3>2. PICK s \in Cursors : s = advance(q) /\ s.position = a /\ s.error = q.error
      BY <1>2, <2>4, AdvanceFacts
    <3>3. PICK inner \in Cursors : /\ inner = parse[c].level[1][s] /\ inner.index # 0
                                   /\ inner.error = q.error /\ inner.position = to
      BY <1>2, <2>3, <3>2 DEF Finds, At
    <3>4. current(q) = tokens[from] /\ Is(inner, "RIGHT_PAREN")
      BY <1>1, <1>3, <2>4, <3>3 DEF current, Is
    <3>5. parsePrimary(parse[c], q) = advance(inner)
      BY <1>1, <3>2, <3>3, <3>4 DEF parsePrimary, Is, IsOneOf, Literals
    <3>6. /\ advance(inner) \in Cursors /\ advance(inner).position = to + 1
          /\ advance(inner).index = inner.index /\ advance(inner).error = inner.error
      BY <3>3, AdvanceFacts
    <3> QED
      BY <3>1, <3>3, <3>5, <3>6
  <2>5. Finds(d, 8, from, to)
    BY <2>4 DEF Finds
  <2>6. from \in Nat /\ to \in Nat /\ from <= to /\ 8 \in {3, 7, 8}
    BY <1>1
  <2> QED
    BY <2>5, <2>6, FoundIsPassed
<1>6. from <= to
  BY <1>1
<1> QED
  BY <1>1, <1>5, <1>6 DEF Understood

LEMMA UnaryUnderstood ==
  ASSUME IsInput(tokens), NEW l \in {3, 7}, NEW from \in 1..Len(tokens),
         NEW to \in 0..Len(tokens),
         <<l, tokens[from].type>> \in {<<3, "NOT">>, <<7, "MINUS">>},
         Understood(l + 1, from + 1, to)
  PROVE  Understood(l, from, to)
<1>1. PICK m \in 1..8, a \in 1..(Len(tokens) + 1) : m = l + 1 /\ a = from + 1
  BY TokenFacts
<1>2. a <= to /\ from <= to /\ Len(tokens) \in Nat
  BY <1>1, TokenFacts DEF Understood
<1>3. TokenAt(from) = tokens[from]
  BY TokenIs
<1>4. ASSUME Stops(m, to + 1), NEW d \in Nat, Suffices(d, l, from, to)
      PROVE  Passes(d, l, from, to)
  <2>1. Depth \in Nat
    BY ParseDef
  <2>2. PICK c \in Nat : c = d - 1 /\ Suffices(c, m, a, to) /\ d \in 1..Depth
    BY <1>1, <1>2, <1>4, <2>1 DEF Suffices
  <2>3. Finds(c, m, a, to)
    <3>1. Stops(m + 1, to + 1)
      BY <1>4, StopsTighter
    <3>2. Passes(c, m, a, to)
      BY <1>1, <2>2, <3>1 DEF Understood
    <3> QED
      BY <1>2, <1>4, <2>2, <3>2, PassedIsFound
  <2>4. ASSUME NEW q \in Cursors, q.position = from
        PROVE  /\ At(d, l, q) \in Cursors /\ At(d, l, q).index # 0
               /\ At(d, l, q).error = q.error /\ At(d, l, q).position = to + 1
    <3>1. At(d, l, q) = Level(parse[c], l, q)
      <4>1. d \in 1..Depth /\ l \in 1..8 /\ c = d - 1
        BY <2>2
      <4>2. At(d, l, q) = Level(parse[d - 1], l, q)
        BY <4>1, CallUnfolds
      <4> QED
        BY <4>1, <4>2
    <3>2. PICK s \in Cursors : s = advance(q) /\ s.position = a /\ s.error = q.error
      BY <1>1, <2>4, AdvanceFacts
    <3>3. PICK inner \in Cursors : /\ inner = parse[c].level[m][s] /\ inner.index # 0
                                   /\ inner.error = q.error /\ inner.position = to + 1
      <4>1. /\ At(c, m, s) \in Cursors /\ At(c, m, s).index # 0
            /\ At(c, m, s).error = s.error /\ At(c, m, s).position = to + 1
        BY <2>3, <3>2 DEF Finds
      <4> QED
        BY <3>2, <4>1 DEF At
    <3>4. current(q) = tokens[from]
      BY <1>3, <2>4 DEF current
    <3>5. PICK operator \in UnaryOperator : Level(parse[c], l, q) = Push(inner, Unary(operator, inner.index))
      <4>1. CASE l = 3
        <5>1. tokens[from].type = "NOT" /\ m = 4
          BY <1>1, <4>1
        <5>2. Level(parse[c], l, q) = Prefixed(parse[c].level[4], "NOT", q)
          BY <3>4, <4>1, <5>1 DEF Level, parseNot, Is
        <5>3. Prefixed(parse[c].level[4], "NOT", q) = Push(inner, Unary("NOT", inner.index))
          BY <3>2, <3>3, <5>1 DEF Prefixed
        <5> QED
          BY <5>2, <5>3 DEF UnaryOperator
      <4>2. CASE l = 7
        <5>1. tokens[from].type = "MINUS" /\ m = 8
          BY <1>1, <4>2
        <5>2. Level(parse[c], l, q) = Prefixed(parse[c].level[8], "NEGATE", q)
          BY <3>4, <4>2, <5>1 DEF Level, parseUnary, Is
        <5>3. Prefixed(parse[c].level[8], "NEGATE", q) = Push(inner, Unary("NEGATE", inner.index))
          BY <3>2, <3>3, <5>1 DEF Prefixed
        <5> QED
          BY <5>2, <5>3 DEF UnaryOperator
      <4> QED
        BY <4>1, <4>2
    <3>6. Unary(operator, inner.index) \in Exprs
      BY CursorFacts DEF Unary, Exprs
    <3>7. PICK r \in Cursors : /\ r = Push(inner, Unary(operator, inner.index))
                               /\ r.position = inner.position /\ r.error = inner.error
                               /\ r.index = Len(inner.exprs) + 1
      BY <3>6, PushFacts
    <3>8. Len(inner.exprs) + 1 # 0
      BY CursorFacts
    <3> QED
      BY <3>1, <3>3, <3>5, <3>7, <3>8
  <2>5. Finds(d, l, from, to)
    BY <2>4 DEF Finds
  <2>6. from \in Nat /\ to \in Nat /\ l \in {3, 7, 8}
    OBVIOUS
  <2> QED
    BY <1>2, <2>5, <2>6, FoundIsPassed
<1>5. /\ l >= 4 => tokens[from].type # "NOT"
      /\ l # 8
  <2>1. \/ l = 3
        \/ l = 7 /\ tokens[from].type = "MINUS"
    OBVIOUS
  <2> QED
    BY <2>1
<1> QED
  BY <1>1, <1>2, <1>4, <1>5 DEF Understood

(* An operator of the grammar is one the parser takes for it: an IS in     *)
(* front of a NOT is an IS NOT, for no right side begins with NOT.         *)
LEMMA OperatorTaken ==
  ASSUME IsInput(tokens), NEW l \in 1..8, NEW operator \in BinaryOperators(l),
         NEW k \in 1..(Len(tokens) - 1), IsOperatorAt(tokens, operator, k),
         NEW b \in 1..Len(tokens), b = k + OperatorLength(operator),
         l = 4 => tokens[b].type # "NOT",
         NEW q \in Cursors, q.position = k
  PROVE  /\ l \in Chains /\ TokenAt(k).type \in Operators[l] /\ IsOneOf(q, Operators[l])
         /\ \E s \in Cursors : s = SkipOperator(q) /\ s.error = q.error /\ s.position = b
<1>1. l \in {1, 2, 4, 5, 6} /\ (operator = "IS_NOT" => l = 4)
  BY LevelsOfOperators
<1>2. k \in 1..Len(tokens) /\ k + 1 \in 1..Len(tokens) /\ Len(tokens) \in Nat
  BY TokenFacts
<1>3. TokenAt(k) = tokens[k] /\ TokenAt(k + 1) = tokens[k + 1]
  BY <1>2, TokenIs
<1>4. PICK a \in Cursors : a = advance(q) /\ a.position = k + 1 /\ a.error = q.error
  BY AdvanceFacts
<1>5. CASE operator = "IS_NOT"
  <2>1. /\ tokens[k].type = "IS" /\ tokens[k + 1].type = "NOT" /\ OperatorLength(operator) = 2
    BY <1>5 DEF IsOperatorAt, OperatorLength
  <2>2. TokenAt(k).type \in Operators[l]
    BY <1>1, <1>3, <1>5, <2>1, OperatorSets
  <2>3. SkipOperator(q) = advance(a)
    BY <1>3, <1>4, <2>1 DEF SkipOperator, Is, current, peekIs
  <2>4. /\ advance(a) \in Cursors /\ advance(a).position = k + 1 + 1
        /\ advance(a).error = q.error
    BY <1>4, AdvanceFacts
  <2> QED
    BY <1>1, <2>1, <2>2, <2>3, <2>4 DEF Chains, IsOneOf, current
<1>6. CASE operator # "IS_NOT"
  <2>1. tokens[k].type = operator /\ OperatorLength(operator) = 1 /\ operator \in Operators[l]
    BY <1>6 DEF IsOperatorAt, OperatorLength, BinaryOperators
  <2>2. operator = "IS" => l = 4
    BY <1>1, <2>1, OperatorSets
  <2>3. l = 4 => tokens[k + 1].type # "NOT"
    BY <2>1
  <2>4. ~ (Is(q, "IS") /\ peekIs(q, "NOT"))
    BY <1>3, <2>1, <2>2, <2>3 DEF Is, current, peekIs
  <2>5. SkipOperator(q) = a
    BY <1>4, <2>4 DEF SkipOperator
  <2> QED
    BY <1>1, <1>3, <1>4, <2>1, <2>5 DEF Chains, IsOneOf, current
<1> QED
  BY <1>5, <1>6

LEMMA BinaryUnderstood ==
  ASSUME IsInput(tokens), NEW l \in 1..8, NEW operator \in BinaryOperators(l),
         NEW from \in 1..(Len(tokens) + 1), NEW to \in 0..Len(tokens),
         NEW k \in (from + 1)..(to - 1), IsOperatorAt(tokens, operator, k),
         Understood(l, from, k - 1),
         Understood(l + 1, k + OperatorLength(operator), to)
  PROVE  Understood(l, from, to)
<1>1. /\ l \in Chains /\ Len(tokens) \in Nat /\ Depth \in Nat
      /\ OperatorLength(operator) \in {1, 2}
  BY LevelsOfOperators, TokenFacts, ParseDef DEF Chains, OperatorLength
<1>2. k + OperatorLength(operator) <= to
  BY DEF Understood
<1>3. PICK m \in 1..8, a \in 0..Len(tokens), b \in 1..(Len(tokens) + 1) :
        /\ m = l + 1 /\ a = k - 1 /\ b = k + OperatorLength(operator)
        /\ from <= a /\ a < b /\ b <= to /\ a + 1 = k /\ from <= to
  <2>1. l + 1 \in 1..8
    BY <1>1 DEF Chains
  <2>2. /\ k - 1 \in 0..Len(tokens) /\ k + OperatorLength(operator) \in 1..(Len(tokens) + 1)
        /\ from <= k - 1 /\ k - 1 < k + OperatorLength(operator)
    BY <1>1
  <2> QED
    BY <1>2, <2>1, <2>2
<1>4. Understood(l, from, a) /\ Understood(m, b, to)
  BY <1>3
<1>5. k \in 1..(Len(tokens) - 1) /\ k + OperatorLength(operator) <= Len(tokens)
  BY <1>1, <1>2
<1>6. l = 4 => tokens[k + OperatorLength(operator)].type # "NOT"
  BY DEF Understood
<1>7. ASSUME NEW q \in Cursors, q.position = k
      PROVE  /\ TokenAt(k).type \in Operators[l] /\ IsOneOf(q, Operators[l])
             /\ \E s \in Cursors : s = SkipOperator(q) /\ s.error = q.error /\ s.position = b
  <2>1. b \in 1..Len(tokens) /\ b = k + OperatorLength(operator)
    BY <1>1, <1>3, <1>5
  <2>2. l = 4 => tokens[b].type # "NOT"
    BY <1>3, <1>6
  <2> QED
    BY <1>5, <1>7, <2>1, <2>2, OperatorTaken
<1>8. ASSUME Stops(m, to + 1), NEW d \in Nat, Suffices(d, l, from, to)
      PROVE  Passes(d, l, from, to)
  <2> SUFFICES ASSUME NEW q \in Cursors, q.position = from
               PROVE  \E left \in Cursors, n \in Nat :
                        /\ n <= d /\ d <= n + (to - from) + 1
                        /\ left.index # 0 /\ left.error = q.error /\ left.position = to + 1
                        /\ At(d, l, q) = Rest(n, l, left)
    BY DEF Passes
  <2>1. Suffices(d, l, from, a)
    BY <1>1, <1>3, <1>8 DEF Suffices
  <2>2. Stops(m, k)
    <3>1. [position |-> k, index |-> 0, error |-> FALSE, exprs |-> << >>] \in Cursors
      BY <1>5 DEF Cursors
    <3>2. TokenAt(k).type \in Operators[l]
      BY <1>7, <3>1
    <3> QED
      BY <1>3, <3>2, OperatorStops
  <2>3. Passes(d, l, from, a)
    BY <1>3, <1>4, <2>1, <2>2 DEF Understood
  <2>4. PICK left \in Cursors, n \in Nat :
          /\ n <= d /\ d <= n + (a - from) + 1
          /\ left.index # 0 /\ left.error = q.error /\ left.position = a + 1
          /\ At(d, l, q) = Rest(n, l, left)
    BY <2>3 DEF Passes
  <2>5. PICK c \in Nat : c = n - 1 /\ n \in 1..Depth /\ Suffices(c, m, b, to)
    <3>1. l <= 6
      BY <1>1 DEF Chains
    <3>2. d <= Depth /\ 9 * (to - from) + (9 - l) <= d
      BY <1>8 DEF Suffices
    <3>3. 9 * (to - from) + (9 - l) <= n + (a - from) + 1
      BY <1>1, <2>4, <3>2
    <3>4. 9 * (to - b) + (9 - m) <= n - 1
      BY <1>3, <3>1, <3>3
    <3>5. n - 1 \in Nat /\ n \in 1..Depth /\ n - 1 \in 0..Depth
      <4>1. 0 <= to - b /\ 1 <= 9 - m
        BY <1>3, <3>1
      <4>2. 1 <= n /\ n <= Depth
        BY <1>1, <2>4, <3>2, <3>4, <4>1
      <4> QED
        BY <1>1, <4>2
    <3> QED
      BY <3>4, <3>5 DEF Suffices
  <2>6. Finds(c, m, b, to)
    <3>1. Stops(m + 1, to + 1)
      BY <1>8, StopsTighter
    <3>2. Passes(c, m, b, to)
      BY <1>4, <2>5, <3>1 DEF Understood
    <3> QED
      BY <1>3, <1>8, <2>5, <3>2, PassedIsFound
  <2>7. PICK s \in Cursors : /\ s = SkipOperator(left) /\ s.error = q.error /\ s.position = b
                             /\ IsOneOf(left, Operators[l])
    BY <1>3, <1>7, <2>4
  <2>8. PICK right \in Cursors : /\ right = parse[c].level[m][s] /\ right.index # 0
                                 /\ right.error = q.error /\ right.position = to + 1
    <3>1. /\ At(c, m, s) \in Cursors /\ At(c, m, s).index # 0
          /\ At(c, m, s).error = s.error /\ At(c, m, s).position = to + 1
      BY <2>6, <2>7 DEF Finds
    <3> QED
      BY <2>7, <3>1 DEF At
  <2>9. PICK e : e = Binary(OperatorOf(left), left.index, right.index)
    OBVIOUS
  <2>10. e \in Exprs
    <3>1. OperatorOf(left) \in BinaryOperator
      BY <2>7, OperatorFacts
    <3> QED
      BY <2>9, <3>1, CursorFacts DEF Binary, Exprs
  <2>11. PICK next \in Cursors : /\ next = Push(right, e) /\ next.position = to + 1
                                 /\ next.error = q.error /\ next.index = Len(right.exprs) + 1
    <3>1. /\ Push(right, e) \in Cursors /\ Push(right, e).position = right.position
          /\ Push(right, e).error = right.error /\ Push(right, e).index = Len(right.exprs) + 1
      BY <2>10, PushFacts
    <3> QED
      BY <2>8, <3>1
  <2>12. next.index # 0
    BY <2>11, CursorFacts
  <2>13. MoreOperands(parse[c], l, left) = parse[c].more[l][next]
    BY <1>3, <2>7, <2>8, <2>9, <2>11 DEF MoreOperands
  <2>14. At(d, l, q) = Rest(c, l, next)
    <3>1. parse[n].more[l][left] = MoreOperands(parse[n - 1], l, left)
      BY <2>5, CallUnfolds
    <3> QED
      BY <1>1, <2>4, <2>5, <2>13, <3>1 DEF Rest
  <2>15. c <= d /\ d <= c + (to - from) + 1
    BY <1>3, <2>4, <2>5
  <2> QED
    BY <2>11, <2>12, <2>14, <2>15
<1> QED
  BY <1>3, <1>4, <1>8 DEF Understood

(* Each sentence is understood: by induction on its length.                *)
LEMMA RulesUnderstood ==
  ASSUME IsInput(tokens), NEW s, NEW text \in Texts(tokens), IsGrammatical(s, tokens, text),
         \A t \in Texts(tokens) : t.to - t.from < text.to - text.from /\ s[t] =>
            Understood(t.level, t.from, t.to)
  PROVE  Understood(text.level, text.from, text.to)
<1>0. Len(tokens) \in Nat
  BY TokenFacts
<1>1. PICK from \in 1..(Len(tokens) + 1), to \in 0..Len(tokens), level \in 1..8 :
        from = text.from /\ to = text.to /\ level = text.level
  BY <1>0, TextFacts
<1>2. from <= to /\ from \in 1..Len(tokens) /\ to \in 1..Len(tokens)
  BY <1>0, <1>1 DEF IsGrammatical
<1>3. ASSUME NEW l \in 1..8, NEW a \in 1..(Len(tokens) + 1), NEW b \in 0..Len(tokens),
             b - a < to - from, s[Text(l, a, b)]
      PROVE  Understood(l, a, b)
  <2>1. /\ Text(l, a, b) \in Texts(tokens) /\ Text(l, a, b).level = l
        /\ Text(l, a, b).from = a /\ Text(l, a, b).to = b
    BY <1>0, TextIn
  <2> QED
    BY <1>1, <1>3, <2>1
<1>4. ASSUME NEW l \in level..8, Understood(l, from, to)
      PROVE  Understood(level, from, to)
  BY <1>4, UnderstoodInAll
<1>5. CASE InParentheses(tokens, from, to) /\ s[Text(1, from + 1, to - 1)]
  <2>1. PICK a \in 1..(Len(tokens) + 1), b \in 0..Len(tokens) :
          a = from + 1 /\ b = to - 1 /\ b - a < to - from
    BY <1>0, <1>2
  <2>2. Understood(1, a, b)
    BY <1>3, <1>5, <2>1
  <2>3. Understood(8, from, to)
    BY <1>2, <1>5, <2>1, <2>2, ParenthesesUnderstood
  <2> QED
    BY <1>1, <1>4, <2>3
<1>6. ASSUME NEW l \in level..8, NEW k \in (from + 1)..(to - 1),
             NEW operator \in BinaryOperators(l), IsOperatorAt(tokens, operator, k),
             s[Text(l, from, k - 1)], s[Text(l + 1, k + OperatorLength(operator), to)]
      PROVE  Understood(level, from, to)
  <2>1. l \in 1..8
    OBVIOUS
  <2>2. PICK a \in 0..Len(tokens), b \in 1..(Len(tokens) + 1), m \in 1..8 :
          /\ a = k - 1 /\ b = k + OperatorLength(operator) /\ m = l + 1
          /\ a - from < to - from /\ to - b < to - from
    BY <1>0, <2>1, PartsOfBinary
  <2>3. Understood(l, from, a) /\ Understood(m, b, to)
    BY <1>3, <1>6, <2>1, <2>2
  <2>4. Understood(l, from, to)
    BY <1>6, <2>1, <2>2, <2>3, BinaryUnderstood
  <2> QED
    BY <1>4, <2>4
<1>7. ASSUME NEW l \in level..8,
             <<l, tokens[from].type>> \in {<<3, "NOT">>, <<7, "MINUS">>},
             s[Text(l + 1, from + 1, to)]
      PROVE  Understood(level, from, to)
  <2>1. PICK m \in 1..8, a \in 1..(Len(tokens) + 1) :
          m = l + 1 /\ a = from + 1 /\ to - a < to - from
    BY <1>0, <1>2, <1>7
  <2>2. Understood(m, a, to) /\ l \in {3, 7}
    BY <1>3, <1>7, <2>1
  <2>3. Understood(l, from, to)
    BY <1>2, <1>7, <2>1, <2>2, UnaryUnderstood
  <2> QED
    BY <1>4, <2>3
<1>8. CASE from = to /\ tokens[to].type \in Literals \cup {"IDENTIFIER"}
  <2>1. Understood(8, from, to) /\ 8 \in level..8
    BY <1>2, <1>8, PrimaryUnderstood
  <2> QED
    BY <1>1, <1>4, <2>1
<1>9. CASE /\ from = to - 2 /\ tokens[from].type = "IDENTIFIER"
           /\ tokens[to - 1].type = "DOT" /\ tokens[to].type = "IDENTIFIER"
  <2>1. Understood(8, from, to) /\ 8 \in level..8
    BY <1>2, <1>9, QualifiedUnderstood
  <2> QED
    BY <1>1, <1>4, <2>1
<1>10. Understood(level, from, to)
  BY <1>1, <1>5, <1>6, <1>7, <1>8, <1>9 DEF IsGrammatical
<1> QED
  BY <1>1, <1>10

LEMMA SentenceUnderstood ==
  ASSUME IsInput(tokens), NEW text \in Texts(tokens), IsSentence(tokens, text)
  PROVE  Understood(text.level, text.from, text.to)
<1>0. Len(tokens) \in Nat
  BY TokenFacts
<1>1. PICK s : /\ \A t \in Texts(tokens) : s[t] = IsGrammatical(s, tokens, t)
               /\ \A t : IsSentence(tokens, t) = s[t]
  BY <1>0, SentenceDef
<1> DEFINE S == {n \in Nat : \A t \in Texts(tokens) :
                   t.to - t.from < n /\ s[t] => Understood(t.level, t.from, t.to)}
<1>2. 0 \in S
  <2> SUFFICES ASSUME NEW t \in Texts(tokens), t.to - t.from < 0 PROVE ~ s[t]
    OBVIOUS
  <2>1. ~ (t.from <= t.to)
    BY <1>0, TextFacts
  <2> QED
    BY <1>1, <2>1 DEF IsGrammatical
<1>3. ASSUME NEW n \in S \cap Nat, NEW t \in Texts(tokens), t.to - t.from < n + 1, s[t]
      PROVE  Understood(t.level, t.from, t.to)
  <2>1. t.to - t.from \in Int /\ t.to - t.from <= n
    BY <1>0, <1>3, TextFacts
  <2>2. ASSUME NEW u \in Texts(tokens), u.to - u.from < t.to - t.from, s[u]
        PROVE  Understood(u.level, u.from, u.to)
    <3>1. u.to - u.from \in Int
      BY <1>0, TextFacts
    <3>2. u.to - u.from < n
      BY <2>1, <2>2, <3>1
    <3> QED
      BY <2>2, <3>2
  <2>3. IsGrammatical(s, tokens, t)
    BY <1>1, <1>3
  <2> QED
    BY <2>2, <2>3, RulesUnderstood
<1>4. \A n \in S \cap Nat : n + 1 \in S
  BY <1>3
<1> HIDE DEF S
<1>5. Len(tokens) + 1 \in S
  BY <1>0, <1>2, <1>4, NatSet
<1>6. text.to - text.from < Len(tokens) + 1
  BY <1>0, TextFacts
<1> QED
  BY <1>1, <1>5, <1>6 DEF S

-----------------------------------------------------------------------------
(* Statements. The expressions exprs with the places outside of them that  *)
(* hold one, h: a function from places to indices.                         *)
IsForest(exprs, h) ==
  /\ Grove(0, exprs)
  /\ \A a \in DOMAIN h : h[a] \in 0..Len(exprs) /\ ~ IsOperand(0, exprs, h[a])
  /\ \A a, b \in DOMAIN h : h[a] = h[b] /\ h[a] # 0 => a = b
IsCovered(exprs, h) ==
  \A i \in 1..Len(exprs) : IsOperand(0, exprs, i) \/ \E a \in DOMAIN h : h[a] = i

Holding(q) == [a \in Roots(q) |-> Held(q, a)]

Assignment == [column : Seq(STRING), index : Nat]
IsResult(q) ==
  /\ DOMAIN q = DOMAIN NoResult
  /\ q.position \in Nat \ {0} /\ q.index \in Nat
  /\ q.error \in BOOLEAN /\ q.returned \in BOOLEAN /\ q.exprs \in Seq(Exprs)
  /\ q.selectColumns \in Seq(Nat) /\ q.whereIndex \in Nat
  /\ q.insertValues \in Seq(Nat) /\ q.assignments \in Seq(Assignment)

NoValueMissing(q) == \A i \in DOMAIN q.insertValues : q.insertValues[i] # 0

(* What the parts of a statement find and leave.                           *)
Good(q) ==
  /\ IsResult(q) /\ q.index <= Len(q.exprs) /\ (q.returned => q.error)
  /\ IsForest(q.exprs, Holding(q))
  /\ ~ q.error /\ NoValueMissing(q) => IsCovered(q.exprs, Holding(q))

KindIn(q, c) ==
  /\ c \in {"selectList", "from"} => q.kind = "SELECT"
  /\ c \in {"columnNames", "values", "valueList", "endOfValues"} => q.kind = "INSERT"
  /\ c = "assignments" => q.kind = "UPDATE"
  /\ c \in {"constraints", "columns"} => q.kind = "CREATE_TABLE"

ValuesIn(q, c) ==
  /\ Len(q.insertValues) <= MaxValues
  /\ c \notin {"valueList", "endOfValues", "done", "outOfMemory"} =>
       q.insertValues = << >>

(* What is left of a statement that ends with its semicolon.               *)
Ends(ts, q) ==
  /\ q.kind \in {"DELETE", "UPDATE", "DROP_TABLE", "CREATE_TABLE", "CREATE_INDEX"} =>
       q.position = Len(ts) /\ ts[q.position - 1].type = "SEMICOLON"
  /\ q.kind \in {"DELETE", "UPDATE"} /\ q.whereIndex # 0 =>
       \E w \in DOMAIN ts :
         /\ ts[w].type = "WHERE"
         /\ Derives(ts, q.exprs, Phrase(1, q.whereIndex, w + 1, Len(ts) - 2))

(* The inductive invariant.                                                *)
Inv(ts, q, c) ==
  /\ IsInput(ts) /\ Good(q)
  /\ q.position <= Len(ts) + 1
  /\ c \notin {"columnNames", "done"} => q.position <= Len(ts)
  /\ q.returned => c = "done"
  /\ c # "done" => q.whereIndex = 0
  /\ KindIn(q, c) /\ ValuesIn(q, c)
  /\ c = "done" /\ ~ q.error => Ends(ts, q)

PInv == Inv(tokens, p, pc)

LEMMA OperandsAreBelow ==
  ASSUME NEW s \in Seq(Exprs), Grove(0, s)
  PROVE  ~ IsOperand(0, s, 0) /\ ~ IsOperand(0, s, Len(s))
<1> SUFFICES ASSUME NEW i \in (0 + 1)..Len(s), NEW c \in DOMAIN Children(s[i])
             PROVE  Children(s[i])[c] \notin {0, Len(s)}
  BY DEF IsOperand
<1>1. Children(s[i])[c] \in (0 + 1)..(i - 1)
  BY DEF Grove, Below
<1> QED
  BY <1>1

LEMMA OperandsStay ==
  ASSUME NEW s \in Seq(Exprs), NEW t \in Seq(Exprs), Extends(s, t), NEW k, IsOperand(0, s, k)
  PROVE  IsOperand(0, t, k)
<1>1. PICK i \in (0 + 1)..Len(s) :
            \E c \in DOMAIN Children(s[i]) : Children(s[i])[c] = k
  BY DEF IsOperand
<1>2. i \in (0 + 1)..Len(t) /\ t[i] = s[i]
  BY DEF Extends
<1> QED
  BY <1>1, <1>2 DEF IsOperand

LEMMA ForestGrows ==
  ASSUME NEW s \in Seq(Exprs), NEW t \in Seq(Exprs), NEW h, IsForest(s, h),
         Extends(s, t), Grove(Len(s), t)
  PROVE  IsForest(t, h)
<1>1. Grove(0, t)
  BY GroveJoin DEF IsForest
<1>2. ASSUME NEW k \in 0..Len(s), IsOperand(0, t, k)
      PROVE  IsOperand(0, s, k)
  <2>1. PICK i, c :
           i \in (0 + 1)..Len(t) /\ c \in DOMAIN Children(t[i]) /\ Children(t[i])[c] = k
    BY <1>2 DEF IsOperand
  <2>2. CASE i \in (0 + 1)..Len(s)
    <3>1. t[i] = s[i]
      BY <2>2 DEF Extends
    <3> QED
      BY <2>1, <2>2, <3>1 DEF IsOperand
  <2>3. CASE i \in (Len(s) + 1)..Len(t)
    <3>1. Children(t[i])[c] \in (Len(s) + 1)..(i - 1)
      BY <2>1, <2>3 DEF Grove, Below
    <3> QED
      BY <2>1, <3>1
  <2>4. i \in (0 + 1)..Len(s) \/ i \in (Len(s) + 1)..Len(t)
    BY <2>1
  <2> QED
    BY <2>2, <2>3, <2>4
<1>3. Len(s) <= Len(t)
  BY DEF Extends
<1>4. ASSUME NEW a \in DOMAIN h
      PROVE  h[a] \in 0..Len(t) /\ ~ IsOperand(0, t, h[a])
  <2>1. PICK k \in 0..Len(s) : k = h[a] /\ ~ IsOperand(0, s, k)
    BY DEF IsForest
  <2>2. k \in 0..Len(t)
    BY <1>3
  <2> QED
    BY <1>2, <2>1, <2>2
<1> QED
  BY <1>1, <1>4 DEF IsForest

LEMMA ForestHolds ==
  ASSUME NEW s \in Seq(Exprs), NEW t \in Seq(Exprs), NEW h, IsForest(s, h),
         Extends(s, t), Tree(Len(s), t), NEW new, NEW g,
         DOMAIN g = DOMAIN h \cup {new}, new \in DOMAIN h => h[new] = 0,
         \A a \in DOMAIN h \ {new} : g[a] = h[a], g[new] = Len(t)
  PROVE  IsForest(t, g) /\ (IsCovered(s, h) => IsCovered(t, g))
<1>1. Grove(Len(s), t) /\ Len(s) < Len(t) /\ Len(s) \in Nat /\ Len(t) \in Nat
  BY DEF Tree
<1>2. IsForest(t, h) /\ Grove(0, t)
  BY <1>1, ForestGrows DEF IsForest
<1>3. ~ IsOperand(0, t, Len(t))
  BY <1>2, OperandsAreBelow
<1>4. ASSUME NEW a \in DOMAIN g
      PROVE  g[a] \in 0..Len(t) /\ ~ IsOperand(0, t, g[a])
  <2>1. CASE a = new
    BY <1>1, <1>3, <2>1
  <2>2. CASE a \in DOMAIN h \ {new}
    BY <1>2, <2>2 DEF IsForest
  <2> QED
    BY <2>1, <2>2
<1>5. ASSUME NEW a \in DOMAIN h
      PROVE  h[a] # Len(t)
  <2>1. h[a] \in 0..Len(s)
    BY DEF IsForest
  <2> QED
    BY <1>1, <2>1
<1>6. ASSUME NEW a \in DOMAIN g, NEW b \in DOMAIN g, g[a] = g[b], g[a] # 0
      PROVE  a = b
  <2>1. CASE a \in DOMAIN h \ {new} /\ b \in DOMAIN h \ {new}
    BY <1>2, <1>6, <2>1 DEF IsForest
  <2>2. CASE a = new \/ b = new
    BY <1>5, <1>6, <2>2
  <2> QED
    BY <2>1, <2>2
<1>7. ASSUME IsCovered(s, h), NEW i \in 1..Len(t), ~ IsOperand(0, t, i)
      PROVE  \E a \in DOMAIN g : g[a] = i
  <2>1. CASE i = Len(t)
    BY <2>1
  <2>2. CASE i \in 1..Len(s)
    <3>1. ~ IsOperand(0, s, i)
      BY <1>7, OperandsStay
    <3>2. PICK a \in DOMAIN h : h[a] = i
      BY <1>7, <2>2, <3>1 DEF IsCovered
    <3>3. a # new
      BY <2>2, <3>2
    <3> QED
      BY <3>2, <3>3
  <2>3. CASE i \in (Len(s) + 1)..(Len(t) - 1)
    <3>1. PICK j, c :
            /\ j \in (Len(s) + 1)..Len(t)
            /\ c \in DOMAIN Children(t[j]) /\ Children(t[j])[c] = i
      BY <2>3 DEF Tree, IsOperand
    <3>2. j \in (0 + 1)..Len(t)
      BY <1>1, <3>1
    <3> QED
      BY <1>7, <3>1, <3>2 DEF IsOperand
  <2> QED
    BY <1>1, <2>1, <2>2, <2>3
<1>8. IsForest(t, g)
  BY <1>2, <1>4, <1>6 DEF IsForest
<1> QED
  BY <1>7, <1>8 DEF IsCovered

LEMMA ForestHoldsNone ==
  ASSUME NEW s \in Seq(Exprs), NEW h, IsForest(s, h), NEW new, NEW g,
         DOMAIN g = DOMAIN h \cup {new}, \A a \in DOMAIN h \ {new} : g[a] = h[a], g[new] = 0
  PROVE  IsForest(s, g)
<1>1. ~ IsOperand(0, s, 0) /\ Grove(0, s) /\ Len(s) \in Nat
  BY OperandsAreBelow DEF IsForest
<1>2. ASSUME NEW a \in DOMAIN g
      PROVE  g[a] \in 0..Len(s) /\ ~ IsOperand(0, s, g[a])
  <2>1. CASE a = new
    BY <1>1, <2>1
  <2>2. CASE a \in DOMAIN h \ {new}
    BY <2>2 DEF IsForest
  <2> QED
    BY <2>1, <2>2
<1>3. ASSUME NEW a \in DOMAIN g, NEW b \in DOMAIN g, g[a] = g[b], g[a] # 0
      PROVE  a = b
  <2>1. a \in DOMAIN h \ {new} /\ b \in DOMAIN h \ {new}
    BY <1>3
  <2> QED
    BY <1>3, <2>1 DEF IsForest
<1> QED
  BY <1>1, <1>2, <1>3 DEF IsForest

(* The places of a statement and what they hold.                           *)
LEMMA HeldFacts ==
  ASSUME NEW q, NEW i
  PROVE  /\ Held(q, <<"column", i, 1>>) = q.selectColumns[i]
         /\ Held(q, <<"value", i, 1>>) = q.insertValues[i]
         /\ Held(q, <<"assigned", i, 1>>) = q.assignments[i].index
         /\ Held(q, <<"where", i, 1>>) = q.whereIndex
  BY DEF Held

LEMMA HeldStays ==
  ASSUME NEW q, NEW r, NEW a \in Roots(q),
         \A i \in DOMAIN q.selectColumns : r.selectColumns[i] = q.selectColumns[i],
         \A i \in DOMAIN q.insertValues : r.insertValues[i] = q.insertValues[i],
         \A i \in DOMAIN q.assignments : r.assignments[i] = q.assignments[i],
         a = <<"where", 1, 1>> => r.whereIndex = q.whereIndex
  PROVE  Held(r, a) = Held(q, a)
<1>1. CASE \E i \in DOMAIN q.selectColumns : a = <<"column", i, 1>>
  <2>1. PICK i \in DOMAIN q.selectColumns : a = <<"column", i, 1>>
    BY <1>1
  <2>2. Held(r, a) = r.selectColumns[i] /\ Held(q, a) = q.selectColumns[i]
    BY <2>1, HeldFacts
  <2> QED
    BY <2>2
<1>2. CASE \E i \in DOMAIN q.insertValues : a = <<"value", i, 1>>
  <2>1. PICK i \in DOMAIN q.insertValues : a = <<"value", i, 1>>
    BY <1>2
  <2>2. Held(r, a) = r.insertValues[i] /\ Held(q, a) = q.insertValues[i]
    BY <2>1, HeldFacts
  <2> QED
    BY <2>2
<1>3. CASE \E i \in DOMAIN q.assignments : a = <<"assigned", i, 1>>
  <2>1. PICK i \in DOMAIN q.assignments : a = <<"assigned", i, 1>>
    BY <1>3
  <2>2. Held(r, a) = r.assignments[i].index /\ Held(q, a) = q.assignments[i].index
    BY <2>1, HeldFacts
  <2> QED
    BY <2>2
<1>4. CASE a = <<"where", 1, 1>>
  <2>1. Held(r, a) = r.whereIndex /\ Held(q, a) = q.whereIndex
    BY <1>4 DEF Held
  <2> QED
    BY <1>4, <2>1
<1> QED
  BY <1>1, <1>2, <1>3, <1>4, Zenon DEF Roots

SameHolders(q, r) ==
  /\ r.selectColumns = q.selectColumns /\ r.insertValues = q.insertValues
  /\ r.assignments = q.assignments /\ r.whereIndex = q.whereIndex

LEMMA HoldingSame ==
  ASSUME NEW q, NEW r, SameHolders(q, r)
  PROVE  Holding(r) = Holding(q)
<1>1. Roots(r) = Roots(q)
  BY DEF SameHolders, Roots
<1>2. ASSUME NEW a \in Roots(q)
      PROVE  Held(r, a) = Held(q, a)
  BY HeldStays DEF SameHolders
<1> QED
  BY <1>1, <1>2 DEF Holding

(* One place more, or a place that held nothing.                           *)
OneMore(h, g, new, index) ==
  /\ DOMAIN g = DOMAIN h \cup {new} /\ (new \in DOMAIN h => h[new] = 0)
  /\ (\A a \in DOMAIN h \ {new} : g[a] = h[a]) /\ g[new] = index

LEMMA HoldingColumn ==
  ASSUME NEW q, NEW r, IsResult(q), NEW index \in Nat,
         r.selectColumns = Append(q.selectColumns, index), r.insertValues = q.insertValues,
         r.assignments = q.assignments, r.whereIndex = q.whereIndex
  PROVE  \E new : OneMore(Holding(q), Holding(r), new, index)
<1>1. PICK n : n = Len(q.selectColumns) + 1
  OBVIOUS
<1>2. PICK new : new = <<"column", n, 1>>
  OBVIOUS
<1>3. /\ q.selectColumns \in Seq(Nat) /\ n \notin DOMAIN q.selectColumns
      /\ DOMAIN r.selectColumns = DOMAIN q.selectColumns \cup {n}
      /\ r.selectColumns[n] = index
      /\ \A i \in DOMAIN q.selectColumns : r.selectColumns[i] = q.selectColumns[i]
  BY <1>1 DEF IsResult
<1>4. Roots(r) = Roots(q) \cup {new} /\ new \notin Roots(q)
  BY <1>2, <1>3 DEF Roots
<1>5. Held(r, new) = index
  BY <1>2, <1>3, HeldFacts
<1>6. ASSUME NEW a \in Roots(q)
      PROVE  Held(r, a) = Held(q, a)
  BY <1>3, HeldStays
<1> QED
  BY <1>4, <1>5, <1>6 DEF Holding, OneMore

LEMMA HoldingValue ==
  ASSUME NEW q, NEW r, IsResult(q), NEW index \in Nat,
         r.selectColumns = q.selectColumns, r.insertValues = Append(q.insertValues, index),
         r.assignments = q.assignments, r.whereIndex = q.whereIndex
  PROVE  \E new : OneMore(Holding(q), Holding(r), new, index)
<1>1. PICK n : n = Len(q.insertValues) + 1
  OBVIOUS
<1>2. PICK new : new = <<"value", n, 1>>
  OBVIOUS
<1>3. /\ q.insertValues \in Seq(Nat) /\ n \notin DOMAIN q.insertValues
      /\ DOMAIN r.insertValues = DOMAIN q.insertValues \cup {n}
      /\ r.insertValues[n] = index
      /\ \A i \in DOMAIN q.insertValues : r.insertValues[i] = q.insertValues[i]
  BY <1>1 DEF IsResult
<1>4. Roots(r) = Roots(q) \cup {new} /\ new \notin Roots(q)
  BY <1>2, <1>3 DEF Roots
<1>5. Held(r, new) = index
  BY <1>2, <1>3, HeldFacts
<1>6. ASSUME NEW a \in Roots(q)
      PROVE  Held(r, a) = Held(q, a)
  BY <1>3, HeldStays
<1> QED
  BY <1>4, <1>5, <1>6 DEF Holding, OneMore

LEMMA HoldingAssignment ==
  ASSUME NEW q, NEW r, IsResult(q), NEW index \in Nat, NEW column \in Seq(STRING),
         r.selectColumns = q.selectColumns, r.insertValues = q.insertValues,
         r.assignments = Append(q.assignments, [column |-> column, index |-> index]),
         r.whereIndex = q.whereIndex
  PROVE  \E new : OneMore(Holding(q), Holding(r), new, index)
<1>1. PICK n : n = Len(q.assignments) + 1
  OBVIOUS
<1>2. PICK new : new = <<"assigned", n, 1>>
  OBVIOUS
<1>3. /\ q.assignments \in Seq(Assignment) /\ n \notin DOMAIN q.assignments
      /\ DOMAIN r.assignments = DOMAIN q.assignments \cup {n}
      /\ r.assignments[n].index = index
      /\ \A i \in DOMAIN q.assignments : r.assignments[i] = q.assignments[i]
  <2>1. PICK e : e = [column |-> column, index |-> index]
    OBVIOUS
  <2>2. e \in Assignment /\ e.index = index
    BY <2>1 DEF Assignment
  <2>3. q.assignments \in Seq(Assignment) /\ r.assignments = Append(q.assignments, e)
    BY <2>1 DEF IsResult
  <2> QED
    BY <1>1, <2>2, <2>3
<1>4. Roots(r) = Roots(q) \cup {new} /\ new \notin Roots(q)
  BY <1>2, <1>3 DEF Roots
<1>5. Held(r, new) = index
  BY <1>2, <1>3, HeldFacts
<1>6. ASSUME NEW a \in Roots(q)
      PROVE  Held(r, a) = Held(q, a)
  BY <1>3, HeldStays
<1> QED
  BY <1>4, <1>5, <1>6 DEF Holding, OneMore

LEMMA HoldingWhere ==
  ASSUME NEW q, NEW r, IsResult(q), q.whereIndex = 0,
         r.selectColumns = q.selectColumns, r.insertValues = q.insertValues,
         r.assignments = q.assignments
  PROVE  \E new : OneMore(Holding(q), Holding(r), new, r.whereIndex)
<1>1. PICK new : new = <<"where", 1, 1>>
  OBVIOUS
<1>2. Roots(r) = Roots(q) /\ new \in Roots(q)
  BY <1>1 DEF Roots
<1>3. Held(r, new) = r.whereIndex /\ Held(q, new) = 0
  BY <1>1, HeldFacts
<1>4. ASSUME NEW a \in Roots(q) \ {new}
      PROVE  Held(r, a) = Held(q, a)
  BY <1>1, HeldStays
<1> QED
  BY <1>2, <1>3, <1>4 DEF Holding, OneMore

(* What is held once and what is below it is the forest of the model.      *)
LEMMA ForestIsAstIsForest ==
  ASSUME Good(p)
  PROVE  AstIsForest
<1>1. /\ p.exprs \in Seq(Exprs) /\ IsForest(p.exprs, Holding(p)) /\ Grove(0, p.exprs)
      /\ \A i : i \in DOMAIN p.exprs <=> i \in (0 + 1)..Len(p.exprs)
  BY DEF Good, IsResult, IsForest
<1>2. ASSUME NEW i \in DOMAIN p.exprs, NEW c \in DOMAIN Children(p.exprs[i])
      PROVE  Children(p.exprs[i])[c] \in 1..(i - 1)
  <2>1. i \in (0 + 1)..Len(p.exprs) /\ Below(0, p.exprs)
    BY <1>1 DEF Grove
  <2>2. Children(p.exprs[i])[c] \in (0 + 1)..(i - 1)
    BY <2>1 DEF Below
  <2> QED
    BY <2>2
<1>3. ASSUME NEW a \in Places(p), a \notin Roots(p)
      PROVE  \E i \in DOMAIN p.exprs, c \in {1, 2} :
               /\ a = <<"operand", i, c>>
               /\ Held(p, a) # 0 => /\ c \in DOMAIN Children(p.exprs[i])
                                    /\ Children(p.exprs[i])[c] = Held(p, a)
  <2>1. PICK i \in DOMAIN p.exprs, c \in {1, 2} : a = <<"operand", i, c>>
    BY <1>3 DEF Places
  <2>2. Held(p, a) = IF c \in DOMAIN Children(p.exprs[i]) THEN Children(p.exprs[i])[c] ELSE 0
    BY <2>1 DEF Held
  <2> QED
    BY <2>1, <2>2
<1>4. ASSUME NEW a \in Places(p), NEW b \in Places(p), Held(p, a) = Held(p, b), Held(p, a) # 0
      PROVE  a = b
  <2>1. ASSUME NEW x \in Roots(p), NEW y \in Places(p), y \notin Roots(p),
               Held(p, x) = Held(p, y), Held(p, x) # 0
        PROVE  FALSE
    <3>1. PICK i \in DOMAIN p.exprs, c \in {1, 2} :
            c \in DOMAIN Children(p.exprs[i]) /\ Children(p.exprs[i])[c] = Held(p, y)
      BY <1>3, <2>1
    <3>2. IsOperand(0, p.exprs, Held(p, x))
      BY <1>1, <2>1, <3>1 DEF IsOperand
    <3> QED
      BY <1>1, <3>2 DEF IsForest, Holding
  <2>2. CASE a \in Roots(p) /\ b \in Roots(p)
    BY <1>1, <1>4, <2>2 DEF IsForest, Holding
  <2>3. CASE a \notin Roots(p) /\ b \notin Roots(p)
    <3>1. PICK i \in DOMAIN p.exprs, c \in {1, 2} :
            /\ a = <<"operand", i, c>> /\ c \in DOMAIN Children(p.exprs[i])
            /\ Children(p.exprs[i])[c] = Held(p, a)
      BY <1>3, <1>4, <2>3
    <3>2. PICK j \in DOMAIN p.exprs, d \in {1, 2} :
            /\ b = <<"operand", j, d>> /\ d \in DOMAIN Children(p.exprs[j])
            /\ Children(p.exprs[j])[d] = Held(p, a)
      BY <1>3, <1>4, <2>3
    <3>3. /\ i \in (0 + 1)..Len(p.exprs) /\ j \in (0 + 1)..Len(p.exprs)
          /\ Children(p.exprs[i])[c] = Children(p.exprs[j])[d] /\ Once(0, p.exprs)
      BY <1>1, <3>1, <3>2 DEF Grove
    <3>4. i = j /\ c = d
      <4>1. \A e \in DOMAIN Children(p.exprs[i]) : \A f \in DOMAIN Children(p.exprs[j]) :
              Children(p.exprs[i])[e] = Children(p.exprs[j])[f] => i = j /\ e = f
        BY <3>3, Zenon DEF Once
      <4>2. c \in DOMAIN Children(p.exprs[i]) /\ d \in DOMAIN Children(p.exprs[j])
        BY <3>1, <3>2
      <4> QED
        BY <3>3, <4>1, <4>2, Zenon
    <3> QED
      BY <3>1, <3>2, <3>4
  <2> QED
    BY <1>4, <2>1, <2>2, <2>3
<1>5. ASSUME ~ p.error, HasNoValueMissing, NEW i \in DOMAIN p.exprs
      PROVE  \E place \in Places(p) : Held(p, place) = i
  <2>1. IsOperand(0, p.exprs, i) \/ \E a \in Roots(p) : Held(p, a) = i
    BY <1>1, <1>5 DEF Good, NoValueMissing, HasNoValueMissing, IsCovered, Holding
  <2>2. CASE IsOperand(0, p.exprs, i)
    <3>1. PICK j, c :
            /\ j \in DOMAIN p.exprs
            /\ c \in DOMAIN Children(p.exprs[j]) /\ Children(p.exprs[j])[c] = i
      BY <1>1, <2>2 DEF IsOperand
    <3>2. c \in {1, 2}
      <4>1. p.exprs[j] \in Exprs
        BY <1>1, <3>1
      <4> QED
        BY <3>1, <4>1, ChildrenFacts
    <3>3. <<"operand", j, c>> \in Places(p)
      BY <3>1, <3>2 DEF Places
    <3>4. Held(p, <<"operand", j, c>>) = i
      BY <3>1 DEF Held
    <3> QED
      BY <3>3, <3>4
  <2> QED
    BY <2>1, <2>2 DEF Places
<1> QED
  BY <1>2, <1>4, <1>5 DEF AstIsForest

-----------------------------------------------------------------------------
(* The helpers of the statements.                                          *)
LEMMA GoodSame ==
  ASSUME NEW q, Good(q), NEW r, IsResult(r), SameHolders(q, r), r.exprs = q.exprs,
         r.index = q.index, r.returned => r.error, r.error \/ r.error = q.error
  PROVE  Good(r)
<1>1. Holding(r) = Holding(q)
  BY HoldingSame
<1>2. NoValueMissing(r) <=> NoValueMissing(q)
  BY DEF SameHolders, NoValueMissing
<1> QED
  BY <1>1, <1>2 DEF Good

LEMMA AdvanceResult ==
  ASSUME NEW q, IsResult(q)
  PROVE  /\ IsResult(advance(q)) /\ advance(q).position = q.position + 1
         /\ SameHolders(q, advance(q)) /\ advance(q).exprs = q.exprs
         /\ advance(q).index = q.index /\ advance(q).error = q.error
         /\ advance(q).returned = q.returned /\ advance(q).kind = q.kind
<1>1. DOMAIN advance(q) = DOMAIN q
  BY DEF advance
<1>2. /\ advance(q).position = q.position + 1 /\ advance(q).index = q.index
      /\ advance(q).exprs = q.exprs /\ advance(q).error = q.error
      /\ advance(q).returned = q.returned /\ advance(q).kind = q.kind
      /\ advance(q).selectColumns = q.selectColumns /\ advance(q).whereIndex = q.whereIndex
      /\ advance(q).insertValues = q.insertValues /\ advance(q).assignments = q.assignments
  BY DEF advance, IsResult, NoResult
<1> QED
  BY <1>1, <1>2 DEF IsResult, SameHolders

LEMMA RejectResult ==
  ASSUME NEW q, IsResult(q)
  PROVE  /\ IsResult(Reject(q)) /\ Reject(q).position = q.position
         /\ SameHolders(q, Reject(q)) /\ Reject(q).exprs = q.exprs
         /\ Reject(q).index = q.index /\ Reject(q).error
         /\ Reject(q).returned /\ Reject(q).kind = q.kind
<1>1. DOMAIN Reject(q) = DOMAIN q
  BY DEF Reject
<1>2. /\ Reject(q).position = q.position /\ Reject(q).index = q.index
      /\ Reject(q).exprs = q.exprs /\ Reject(q).error = TRUE
      /\ Reject(q).returned = TRUE /\ Reject(q).kind = q.kind
      /\ Reject(q).selectColumns = q.selectColumns /\ Reject(q).whereIndex = q.whereIndex
      /\ Reject(q).insertValues = q.insertValues /\ Reject(q).assignments = q.assignments
  BY DEF Reject, IsResult, NoResult
<1> QED
  BY <1>1, <1>2 DEF IsResult, SameHolders

(* From q to r, tokens are passed, but never END_OF_FILE.                  *)
Steps(q, r) ==
  /\ q.position <= r.position /\ (q.position <= Len(tokens) => r.position <= Len(tokens))
  /\ r.kind = q.kind /\ (q.returned => r.returned)
After(q, r) ==
  /\ Good(r) /\ Steps(q, r)
  /\ r.whereIndex = q.whereIndex /\ r.insertValues = q.insertValues

LEMMA AfterSelf ==
  ASSUME NEW q, Good(q)
  PROVE  After(q, q)
  BY DEF After, Steps, Good, IsResult

LEMMA AfterTransitive ==
  ASSUME NEW q, Good(q), NEW r, After(q, r), NEW s, After(r, s)
  PROVE  After(q, s)
<1>1. q.position \in Nat /\ r.position \in Nat /\ s.position \in Nat
  BY DEF After, Good, IsResult
<1> QED
  BY <1>1 DEF After, Steps

LEMMA AdvanceGood ==
  ASSUME NEW q, Good(q)
  PROVE  /\ Good(advance(q)) /\ advance(q).position = q.position + 1
         /\ SameHolders(q, advance(q)) /\ advance(q).exprs = q.exprs
         /\ advance(q).error = q.error /\ advance(q).kind = q.kind
         /\ advance(q).returned = q.returned
<1>1. /\ IsResult(advance(q)) /\ advance(q).position = q.position + 1
      /\ SameHolders(q, advance(q)) /\ advance(q).exprs = q.exprs
      /\ advance(q).index = q.index /\ advance(q).error = q.error
      /\ advance(q).returned = q.returned /\ advance(q).kind = q.kind
  BY AdvanceResult DEF Good
<1>2. advance(q).returned => advance(q).error
  BY <1>1 DEF Good
<1> QED
  BY <1>1, <1>2, GoodSame

LEMMA AdvanceBefore ==
  ASSUME IsInput(tokens), NEW q, Good(q), q.position < Len(tokens)
  PROVE  After(q, advance(q))
<1>1. q.position \in Nat \ {0} /\ Len(tokens) \in Nat
  BY DEF Good, IsResult, IsInput
<1>2. q.position <= q.position + 1 /\ q.position + 1 <= Len(tokens)
  BY <1>1
<1> QED
  BY <1>2, AdvanceGood DEF After, Steps, SameHolders

LEMMA AdvanceAfter ==
  ASSUME IsInput(tokens), NEW q, Good(q), current(q).type # "END_OF_FILE"
  PROVE  /\ After(q, advance(q)) /\ advance(q).position = q.position + 1
         /\ q.position < Len(tokens) /\ tokens[q.position] = current(q)
         /\ advance(q).returned = q.returned /\ advance(q).error = q.error
<1>1. q.position \in Nat \ {0}
  BY DEF Good, IsResult
<1>2. q.position < Len(tokens) /\ tokens[q.position] = current(q)
  BY <1>1, TokenFacts DEF current
<1> QED
  BY <1>2, AdvanceBefore, AdvanceGood

LEMMA RejectAfter ==
  ASSUME NEW q, Good(q)
  PROVE  /\ After(q, Reject(q)) /\ Reject(q).returned /\ Reject(q).error
         /\ Reject(q).position = q.position
<1>1. IsResult(q) /\ q.position \in Nat
  BY DEF Good, IsResult
<1>2. /\ IsResult(Reject(q)) /\ Reject(q).position = q.position
      /\ SameHolders(q, Reject(q)) /\ Reject(q).exprs = q.exprs
      /\ Reject(q).index = q.index /\ Reject(q).error
      /\ Reject(q).returned /\ Reject(q).kind = q.kind
  BY <1>1, RejectResult
<1>3. Good(Reject(q))
  BY <1>2, GoodSame
<1> QED
  BY <1>1, <1>2, <1>3 DEF After, Steps, SameHolders

Consumes(q, type, r) ==
  /\ After(q, r) /\ r.exprs = q.exprs
  /\ ~ r.returned => /\ ~ q.returned /\ r.error = q.error /\ r.position = q.position + 1
                     /\ q.position < Len(tokens) /\ tokens[q.position].type = type
  /\ r.returned => r.position = q.position

LEMMA ConsumeConsumes ==
  ASSUME IsInput(tokens), NEW q, Good(q), NEW type, type # "END_OF_FILE"
  PROVE  Consumes(q, type, consume(q, type))
<1>1. CASE q.returned
  BY <1>1, AfterSelf DEF consume, Consumes
<1>2. CASE ~ q.returned /\ Is(q, type)
  <2>1. consume(q, type) = advance(q)
    BY <1>2 DEF consume
  <2>2. current(q).type = type
    BY <1>2 DEF Is
  <2>3. advance(q).exprs = q.exprs
    BY AdvanceResult DEF Good
  <2> QED
    BY <1>2, <2>1, <2>2, <2>3, AdvanceAfter DEF Consumes
<1>3. CASE ~ q.returned /\ ~ Is(q, type)
  <2>1. consume(q, type) = Reject(q)
    BY <1>3 DEF consume
  <2>2. Reject(q).exprs = q.exprs
    BY RejectResult DEF Good
  <2> QED
    BY <2>1, <2>2, RejectAfter DEF Consumes
<1> QED
  BY <1>1, <1>2, <1>3

LEMMA IdentifierConsumes ==
  ASSUME IsInput(tokens), NEW q, Good(q)
  PROVE  Consumes(q, "IDENTIFIER", consumeIdentifier(q))
<1>1. consumeIdentifier(q) = consume(q, "IDENTIFIER")
  BY DEF consumeIdentifier, consume
<1> QED
  BY <1>1, ConsumeConsumes

LEMMA TableNameConsumes ==
  ASSUME IsInput(tokens), NEW q, Good(q)
  PROVE  Consumes(q, "IDENTIFIER", consumeTableName(q))
<1>1. PICK n : n = consumeIdentifier(q) /\ Consumes(q, "IDENTIFIER", n)
  BY IdentifierConsumes
<1>2. CASE n.returned
  BY <1>1, <1>2 DEF consumeTableName
<1>3. CASE ~ n.returned
  <2>1. PICK v : v = current(q).value
    OBVIOUS
  <2>2. PICK r : r = [n EXCEPT !.tableName = v]
    OBVIOUS
  <2>3. consumeTableName(q) = r
    BY <1>1, <1>3, <2>1, <2>2 DEF consumeTableName
  <2>4. IsResult(n) /\ Good(n)
    BY <1>1 DEF Consumes, After, Good
  <2>5. DOMAIN r = DOMAIN n
    BY <2>2
  <2>6. /\ r.position = n.position /\ r.index = n.index
        /\ r.exprs = n.exprs /\ r.error = n.error
        /\ r.returned = n.returned /\ r.kind = n.kind
        /\ r.selectColumns = n.selectColumns /\ r.whereIndex = n.whereIndex
        /\ r.insertValues = n.insertValues /\ r.assignments = n.assignments
    BY <2>2, <2>4 DEF IsResult, NoResult
  <2>7. IsResult(r) /\ SameHolders(n, r)
    BY <2>4, <2>5, <2>6 DEF IsResult, SameHolders
  <2>8. Good(r)
    <3>1. r.returned => r.error
      BY <2>4, <2>6 DEF Good
    <3> QED
      BY <2>4, <2>6, <2>7, <3>1, GoodSame
  <2> QED
    BY <1>1, <2>3, <2>6, <2>8 DEF Consumes, After, Steps
<1> QED
  BY <1>2, <1>3

LEMMA CommaSkipped ==
  ASSUME IsInput(tokens), NEW q, Good(q)
  PROVE  /\ After(q, skipComma(q)) /\ skipComma(q).returned = q.returned
         /\ skipComma(q).error = q.error
         /\ skipComma(q) = q \/ skipComma(q).position <= Len(tokens)
<1>1. CASE ~ q.returned /\ Is(q, "COMMA")
  <2>1. skipComma(q) = advance(q) /\ current(q).type # "END_OF_FILE"
    BY <1>1 DEF skipComma, Is
  <2>2. advance(q).position <= Len(tokens)
    <3>1. advance(q).position = q.position + 1 /\ q.position < Len(tokens)
      BY <2>1, AdvanceAfter
    <3>2. q.position \in Nat /\ Len(tokens) \in Nat
      BY DEF Good, IsResult, IsInput
    <3> QED
      BY <3>1, <3>2
  <2> QED
    BY <2>1, <2>2, AdvanceAfter
<1>2. CASE ~ (~ q.returned /\ Is(q, "COMMA"))
  <2>1. skipComma(q) = q
    BY <1>2 DEF skipComma
  <2> QED
    BY <2>1, AfterSelf
<1> QED
  BY <1>1, <1>2

(* What parseExpression leaves of a statement.                             *)
Reads(q, r) ==
  /\ IsResult(r) /\ SameHolders(q, r) /\ Steps(q, r) /\ r.returned = q.returned
  /\ Extends(q.exprs, r.exprs) /\ Grove(Len(q.exprs), r.exprs)
  /\ r.index # 0 =>
       /\ r.index = Len(r.exprs) /\ r.error = q.error
       /\ q.position < r.position /\ r.position <= Len(tokens)
       /\ Tree(Len(q.exprs), r.exprs)
       /\ Derives(tokens, r.exprs, Phrase(1, r.index, q.position, r.position - 1))

LEMMA ExpressionRead ==
  ASSUME IsInput(tokens), NEW q, Good(q)
  PROVE  Reads(q, parseExpression(q))
<1>1. IsResult(q)
  BY DEF Good
<1>2. PICK c \in Cursors : c = [position |-> q.position, index |-> q.index,
                                error |-> q.error, exprs |-> q.exprs]
  BY <1>1 DEF IsResult, Cursors
<1>3. c.position = q.position /\ c.error = q.error /\ c.exprs = q.exprs
  BY <1>2
<1>4. PICK d : d = parse[Depth].level[1][c] /\ Parsed(1, c, d)
  BY ParseContract DEF Contract
<1>5. PICK r : r = [q EXCEPT !.position = d.position, !.index = d.index,
                             !.error = d.error, !.exprs = d.exprs]
  OBVIOUS
<1>6. parseExpression(q) = r
  BY <1>2, <1>4, <1>5 DEF parseExpression
<1>7. DOMAIN r = DOMAIN q
  BY <1>5
<1>8. /\ r.position = d.position /\ r.index = d.index
      /\ r.exprs = d.exprs /\ r.error = d.error
      /\ r.returned = q.returned /\ r.kind = q.kind
      /\ r.selectColumns = q.selectColumns /\ r.whereIndex = q.whereIndex
      /\ r.insertValues = q.insertValues /\ r.assignments = q.assignments
  BY <1>1, <1>5 DEF IsResult, NoResult
<1>9. d \in Cursors /\ d.position \in Nat \ {0} /\ d.index \in Nat /\ d.error \in BOOLEAN
      /\ d.exprs \in Seq(Exprs)
  BY <1>4, CursorFacts DEF Parsed, Continues
<1>10. IsResult(r) /\ SameHolders(q, r)
  BY <1>1, <1>7, <1>8, <1>9 DEF IsResult, SameHolders
<1>11. Steps(q, r)
  BY <1>3, <1>4, <1>8 DEF Steps, Parsed, Continues
<1> QED
  BY <1>3, <1>4, <1>6, <1>8, <1>10, <1>11 DEF Reads, Parsed, Continues

LEMMA RejectedAfter ==
  ASSUME NEW q, Good(q), NEW r, Reads(q, r), r.index = 0
  PROVE  After(q, Reject(r)) /\ Reject(r).returned /\ Reject(r).error
<1>1. IsResult(q) /\ IsResult(r) /\ SameHolders(q, r)
  BY DEF Good, Reads
<1>2. PICK s : /\ s = Reject(r) /\ IsResult(s) /\ s.position = r.position
               /\ SameHolders(r, s) /\ s.exprs = r.exprs /\ s.index = r.index /\ s.error
               /\ s.returned /\ s.kind = r.kind
  BY <1>1, RejectResult
<1>3. Holding(s) = Holding(q)
  BY <1>1, <1>2, HoldingSame DEF SameHolders
<1>4. IsForest(s.exprs, Holding(s))
  <2>1. q.exprs \in Seq(Exprs) /\ r.exprs \in Seq(Exprs) /\ IsForest(q.exprs, Holding(q))
    BY <1>1 DEF IsResult, Good
  <2> QED
    BY <1>2, <1>3, <2>1, ForestGrows DEF Reads
<1>5. Good(s)
  <2>1. s.index <= Len(s.exprs)
    BY <1>1, <1>2 DEF IsResult
  <2> QED
    BY <1>2, <1>4, <2>1 DEF Good
<1>6. s.whereIndex = q.whereIndex /\ s.insertValues = q.insertValues
  BY <1>1, <1>2 DEF SameHolders
<1>7. Steps(q, s)
  BY <1>2 DEF Reads, Steps
<1> QED
  BY <1>2, <1>5, <1>6, <1>7 DEF After

LEMMA ExpressionRequired ==
  ASSUME IsInput(tokens), NEW q, Good(q)
  PROVE  \/ /\ requireExpression(q).returned /\ requireExpression(q).error
            /\ After(q, requireExpression(q))
         \/ /\ ~ requireExpression(q).returned /\ requireExpression(q).index # 0
            /\ Reads(q, requireExpression(q)) /\ ~ q.returned
<1>1. CASE q.returned
  BY <1>1, AfterSelf DEF requireExpression, Good
<1>2. CASE ~ q.returned
  <2>1. PICK r : r = parseExpression(q) /\ Reads(q, r)
    BY ExpressionRead
  <2>2. CASE r.index = 0
    <3>1. requireExpression(q) = Reject(r)
      BY <1>2, <2>1, <2>2 DEF requireExpression
    <3> QED
      BY <2>1, <2>2, <3>1, RejectedAfter
  <2>3. CASE r.index # 0
    BY <1>2, <2>1, <2>3 DEF requireExpression, Reads
  <2> QED
    BY <2>2, <2>3
<1> QED
  BY <1>1, <1>2

(* An expression that was read is held by a place of the statement.        *)
LEMMA HeldGood ==
  ASSUME NEW q, Good(q), NEW r, Reads(q, r), r.index # 0,
         NEW s, IsResult(s), s.exprs = r.exprs, s.index = r.index, s.error = q.error,
         s.returned => s.error, NoValueMissing(s) => NoValueMissing(q),
         NEW new, OneMore(Holding(q), Holding(s), new, r.index)
  PROVE  Good(s)
<1>1. /\ q.exprs \in Seq(Exprs) /\ r.exprs \in Seq(Exprs) /\ IsForest(q.exprs, Holding(q))
      /\ Extends(q.exprs, r.exprs) /\ Tree(Len(q.exprs), r.exprs) /\ r.index = Len(r.exprs)
  BY DEF IsResult, Good, Reads
<1>2. /\ IsForest(r.exprs, Holding(s))
      /\ (IsCovered(q.exprs, Holding(q)) => IsCovered(r.exprs, Holding(s)))
  BY <1>1, ForestHolds DEF OneMore
<1>3. s.index <= Len(s.exprs)
  BY <1>1
<1> QED
  BY <1>2, <1>3 DEF Good

LEMMA WhereParsed ==
  ASSUME IsInput(tokens), NEW q, Good(q), q.whereIndex = 0
  PROVE  /\ Good(parseWhere(q)) /\ Steps(q, parseWhere(q))
         /\ parseWhere(q).insertValues = q.insertValues
         /\ ~ parseWhere(q).returned /\ parseWhere(q).whereIndex # 0 =>
              /\ q.position \in DOMAIN tokens /\ tokens[q.position].type = "WHERE"
              /\ Derives(tokens, parseWhere(q).exprs,
                         Phrase(1, parseWhere(q).whereIndex, q.position + 1,
                                parseWhere(q).position - 1))
<1>1. CASE q.returned \/ ~ Is(q, "WHERE")
  <2>1. parseWhere(q) = q
    BY <1>1 DEF parseWhere
  <2> QED
    BY <2>1, AfterSelf DEF After
<1>2. CASE ~ q.returned /\ Is(q, "WHERE")
  <2>1. PICK a : a = advance(q)
    OBVIOUS
  <2>2. /\ After(q, a) /\ a.position = q.position + 1 /\ q.position < Len(tokens)
        /\ tokens[q.position].type = "WHERE"
    BY <1>2, <2>1, AdvanceAfter DEF Is
  <2>3. q.position \in DOMAIN tokens
    BY <2>2 DEF Good, IsResult, IsInput
  <2>4. PICK r : r = requireExpression(a)
    OBVIOUS
  <2>5. CASE r.returned
    <3>1. After(a, r)
      BY <2>2, <2>4, <2>5, ExpressionRequired DEF After
    <3>2. parseWhere(q) = r
      BY <1>2, <2>1, <2>4, <2>5 DEF parseWhere
    <3> QED
      BY <2>2, <2>5, <3>1, <3>2, AfterTransitive DEF After
  <2>6. CASE ~ r.returned
    <3>1. r.index # 0 /\ Reads(a, r) /\ Good(a)
      BY <2>2, <2>4, <2>6, ExpressionRequired DEF After
    <3>2. PICK s : s = [r EXCEPT !.whereIndex = r.index]
      OBVIOUS
    <3>3. parseWhere(q) = s
      BY <1>2, <2>1, <2>4, <2>6, <3>2 DEF parseWhere
    <3>4. IsResult(r) /\ DOMAIN s = DOMAIN r
      BY <3>1, <3>2 DEF Reads
    <3>5. /\ s.position = r.position /\ s.index = r.index
          /\ s.exprs = r.exprs /\ s.error = r.error
          /\ s.returned = r.returned /\ s.kind = r.kind
          /\ s.selectColumns = r.selectColumns /\ s.whereIndex = r.index
          /\ s.insertValues = r.insertValues /\ s.assignments = r.assignments
      BY <3>2, <3>4 DEF IsResult, NoResult
    <3>6. IsResult(s)
      BY <3>4, <3>5 DEF IsResult
    <3>7. SameHolders(a, r) /\ r.error = a.error
      BY <3>1 DEF Reads
    <3>8. IsResult(a) /\ a.whereIndex = 0
      BY <2>2 DEF After, Good
    <3>9. \E new : OneMore(Holding(a), Holding(s), new, s.whereIndex)
      BY <3>5, <3>7, <3>8, HoldingWhere DEF SameHolders
    <3>10. Good(s)
      <4>1. NoValueMissing(s) => NoValueMissing(a)
        BY <3>5, <3>7 DEF NoValueMissing, SameHolders
      <4>2. ~ s.returned /\ s.error = a.error
        BY <2>6, <3>5, <3>7
      <4> QED
        BY <3>1, <3>5, <3>6, <3>9, <4>1, <4>2, HeldGood
    <3>11. Steps(q, s)
      <4>1. q.position \in Nat /\ a.position \in Nat /\ r.position \in Nat
        BY <3>4, <3>8 DEF Good, IsResult
      <4> QED
        BY <1>2, <2>2, <3>1, <3>5, <4>1 DEF Reads, Steps, After
    <3>12. s.insertValues = q.insertValues
      BY <2>2, <3>5, <3>7 DEF After, SameHolders
    <3>13. Derives(tokens, s.exprs, Phrase(1, s.whereIndex, q.position + 1, s.position - 1))
      BY <2>2, <3>1, <3>5 DEF Reads
    <3> QED
      BY <2>2, <2>3, <3>3, <3>10, <3>11, <3>12, <3>13
  <2> QED
    BY <2>5, <2>6
<1> QED
  BY <1>1, <1>2

LEMMA AssignmentParsed ==
  ASSUME IsInput(tokens), NEW q, Good(q)
  PROVE  /\ After(q, parseAssignment(q))
         /\ ~ parseAssignment(q).returned => q.position < parseAssignment(q).position
<1>1. PICK a : a = consumeIdentifier(q) /\ Consumes(q, "IDENTIFIER", a)
  BY IdentifierConsumes
<1>2. PICK b : b = consume(a, "EQUAL") /\ Consumes(a, "EQUAL", b)
  BY <1>1, ConsumeConsumes DEF Consumes, After
<1>3. Good(b) /\ After(q, b)
  BY <1>1, <1>2, AfterTransitive DEF Consumes, After
<1>4. PICK r : r = requireExpression(b)
  OBVIOUS
<1>5. CASE r.returned
  <2>1. After(b, r) /\ parseAssignment(q) = r
    BY <1>1, <1>2, <1>3, <1>4, <1>5, ExpressionRequired DEF parseAssignment
  <2> QED
    BY <1>3, <1>5, <2>1, AfterTransitive
<1>6. CASE ~ r.returned
  <2>1. r.index # 0 /\ Reads(b, r)
    BY <1>3, <1>4, <1>6, ExpressionRequired
  <2>2. PICK column : column = current(q).value
    OBVIOUS
  <2>3. PICK e : e = [column |-> column, index |-> r.index]
    OBVIOUS
  <2>4. PICK s : s = [r EXCEPT !.assignments = Append(@, e)]
    OBVIOUS
  <2>5. parseAssignment(q) = s
    BY <1>1, <1>2, <1>4, <1>6, <2>2, <2>3, <2>4 DEF parseAssignment
  <2>6. IsResult(r) /\ DOMAIN s = DOMAIN r /\ IsResult(b) /\ IsResult(q)
    BY <1>3, <2>1, <2>4 DEF Reads, Good
  <2>7. /\ s.position = r.position /\ s.index = r.index
        /\ s.exprs = r.exprs /\ s.error = r.error
        /\ s.returned = r.returned /\ s.kind = r.kind
        /\ s.selectColumns = r.selectColumns /\ s.whereIndex = r.whereIndex
        /\ s.insertValues = r.insertValues /\ s.assignments = Append(r.assignments, e)
    BY <2>4, <2>6 DEF IsResult, NoResult
  <2>8. column \in Seq(STRING) /\ r.index \in Nat
    <3>1. q.position \in Nat \ {0} /\ r.index \in Nat
      BY <2>6 DEF IsResult
    <3>2. TokenAt(q.position) \in TokenRecord
      BY <3>1, TokenFacts
    <3> QED
      BY <2>2, <3>1, <3>2 DEF current, TokenRecord
  <2>9. Append(r.assignments, e) \in Seq(Assignment)
    <3>1. e \in Assignment
      BY <2>3, <2>8 DEF Assignment
    <3> QED
      BY <2>6, <3>1 DEF IsResult
  <2>10. IsResult(s)
    BY <2>6, <2>7, <2>9 DEF IsResult
  <2>11. SameHolders(b, r) /\ r.error = b.error
    BY <2>1 DEF Reads
  <2>12. \E new : OneMore(Holding(b), Holding(s), new, r.index)
    BY <2>3, <2>6, <2>7, <2>8, <2>11, HoldingAssignment DEF SameHolders
  <2>13. Good(s)
    <3>1. NoValueMissing(s) => NoValueMissing(b)
      BY <2>7, <2>11 DEF NoValueMissing, SameHolders
    <3>2. ~ s.returned /\ s.error = b.error
      BY <1>6, <2>7, <2>11
    <3> QED
      BY <1>3, <2>1, <2>7, <2>10, <2>12, <3>1, <3>2, HeldGood
  <2>14. After(b, s)
    <3>1. Steps(b, s)
      BY <2>1, <2>7 DEF Reads, Steps
    <3> QED
      BY <2>7, <2>11, <2>13, <3>1 DEF After, SameHolders
  <2>15. q.position < s.position
    <3>1. q.position <= b.position /\ b.position < s.position
      BY <1>3, <2>1, <2>7 DEF Reads, After, Steps
    <3>2. q.position \in Nat /\ b.position \in Nat /\ s.position \in Nat
      BY <2>6, <2>10 DEF IsResult
    <3> QED
      BY <3>1, <3>2
  <2> QED
    BY <1>3, <2>5, <2>14, <2>15, AfterTransitive
<1> QED
  BY <1>5, <1>6

LEMMA ValueTaken ==
  ASSUME IsInput(tokens), NEW q, Good(q), ~ q.returned
  PROVE  /\ Good(TakeValue(q)) /\ Steps(q, TakeValue(q)) /\ ~ TakeValue(q).returned
         /\ TakeValue(q).whereIndex = q.whereIndex
         /\ \E index \in Nat :
              /\ TakeValue(q).insertValues = Append(q.insertValues, index)
              /\ index # 0 => q.position < TakeValue(q).position
<1>1. PICK r : r = parseExpression(q) /\ Reads(q, r)
  BY ExpressionRead
<1>2. PICK s : s = [r EXCEPT !.insertValues = Append(@, r.index)]
  OBVIOUS
<1>3. TakeValue(q) = s
  BY <1>1, <1>2 DEF TakeValue
<1>4. IsResult(r) /\ DOMAIN s = DOMAIN r /\ IsResult(q)
  BY <1>1, <1>2 DEF Reads, Good
<1>5. /\ s.position = r.position /\ s.index = r.index
      /\ s.exprs = r.exprs /\ s.error = r.error
      /\ s.returned = r.returned /\ s.kind = r.kind
      /\ s.selectColumns = r.selectColumns /\ s.whereIndex = r.whereIndex
      /\ s.insertValues = Append(r.insertValues, r.index) /\ s.assignments = r.assignments
  BY <1>2, <1>4 DEF IsResult, NoResult
<1>6. r.index \in Nat /\ Append(r.insertValues, r.index) \in Seq(Nat)
  BY <1>4 DEF IsResult
<1>7. IsResult(s)
  BY <1>4, <1>5, <1>6 DEF IsResult
<1>8. SameHolders(q, r) /\ ~ r.returned
  BY <1>1 DEF Reads
<1>9. PICK new : OneMore(Holding(q), Holding(s), new, r.index)
  BY <1>4, <1>5, <1>6, <1>8, HoldingValue DEF SameHolders
<1>10. ASSUME r.index # 0
       PROVE  Good(s)
  <2>1. NoValueMissing(s) => NoValueMissing(q)
    <3>1. q.insertValues \in Seq(Nat) /\ s.insertValues = Append(q.insertValues, r.index)
      BY <1>4, <1>5, <1>8 DEF IsResult, SameHolders
    <3>2. \A i \in DOMAIN q.insertValues :
            i \in DOMAIN s.insertValues /\ s.insertValues[i] = q.insertValues[i]
      BY <1>6, <3>1
    <3> QED
      BY <3>2 DEF NoValueMissing
  <2>2. ~ s.returned /\ s.error = q.error
    BY <1>1, <1>5, <1>8, <1>10 DEF Reads
  <2> QED
    BY <1>1, <1>5, <1>7, <1>9, <1>10, <2>1, <2>2, HeldGood
<1>11. ASSUME r.index = 0
       PROVE  Good(s)
  <2>1. q.exprs \in Seq(Exprs) /\ r.exprs \in Seq(Exprs) /\ IsForest(q.exprs, Holding(q))
    BY <1>4 DEF IsResult, Good
  <2>2. IsForest(r.exprs, Holding(q))
    BY <1>1, <2>1, ForestGrows DEF Reads
  <2>3. IsForest(r.exprs, Holding(s))
    <3>1. PICK exprs, h, g :
            /\ exprs \in Seq(Exprs)
            /\ exprs = r.exprs /\ h = Holding(q) /\ g = Holding(s)
      BY <2>1
    <3>2. /\ DOMAIN g = DOMAIN h \cup {new} /\ (\A a \in DOMAIN h \ {new} : g[a] = h[a])
          /\ g[new] = 0 /\ IsForest(exprs, h)
      BY <1>9, <1>11, <2>2, <3>1 DEF OneMore
    <3>3. IsForest(exprs, g)
      BY <3>1, <3>2, ForestHoldsNone
    <3> QED
      BY <3>1, <3>3
  <2>4. ~ NoValueMissing(s)
    <3>1. r.insertValues \in Seq(Nat)
      BY <1>4 DEF IsResult
    <3>2. /\ Len(r.insertValues) + 1 \in DOMAIN s.insertValues
          /\ s.insertValues[Len(r.insertValues) + 1] = 0
      BY <1>5, <1>11, <3>1
    <3> QED
      BY <3>2 DEF NoValueMissing
  <2>5. s.index <= Len(s.exprs)
    BY <1>5, <1>7, <1>11 DEF IsResult
  <2> QED
    BY <1>5, <1>7, <1>8, <2>3, <2>4, <2>5 DEF Good
<1>12. Good(s)
  BY <1>6, <1>10, <1>11
<1>13. Steps(q, s)
  BY <1>1, <1>5 DEF Reads, Steps
<1>14. /\ s.whereIndex = q.whereIndex /\ s.insertValues = Append(q.insertValues, r.index)
       /\ (r.index # 0 => q.position < s.position) /\ ~ s.returned
  BY <1>1, <1>5, <1>8 DEF Reads, SameHolders
<1> QED
  BY <1>3, <1>6, <1>12, <1>13, <1>14

-----------------------------------------------------------------------------
(* The steps. The loops are numbered in the order they are passed.         *)
LEMMA LoopNumbers ==
  /\ LoopOf("parse") = 1 /\ LoopOf("selectList") = 2 /\ LoopOf("from") = 3
  /\ LoopOf("assignments") = 4 /\ LoopOf("columnNames") = 5 /\ LoopOf("values") = 6
  /\ LoopOf("valueList") = 7 /\ LoopOf("endOfValues") = 8
  /\ LoopOf("constraints") = 9 /\ LoopOf("columns") = 10 /\ LoopOf("done") = 11
  /\ LoopOf("outOfMemory") = 12 /\ LoopOf("terminated") = 13
<1>1. /\ DOMAIN Loops = 1..13
      /\ Loops[1] = "parse" /\ Loops[2] = "selectList" /\ Loops[3] = "from"
      /\ Loops[4] = "assignments" /\ Loops[5] = "columnNames" /\ Loops[6] = "values"
      /\ Loops[7] = "valueList" /\ Loops[8] = "endOfValues"
      /\ Loops[9] = "constraints" /\ Loops[10] = "columns" /\ Loops[11] = "done"
      /\ Loops[12] = "outOfMemory" /\ Loops[13] = "terminated"
  BY DEF Loops
<1>2. ASSUME NEW i \in 1..13, NEW j \in 1..13, Loops[i] = Loops[j]
      PROVE  i = j
  BY <1>1, <1>2
<1>3. ASSUME NEW i \in 1..13
      PROVE  LoopOf(Loops[i]) = i
  <2>1. LoopOf(Loops[i]) \in 1..13 /\ Loops[LoopOf(Loops[i])] = Loops[i]
    BY <1>1, <1>3 DEF LoopOf
  <2> QED
    BY <1>2, <2>1
<1> QED
  BY <1>1, <1>3

Running ==
  {"parse", "selectList", "from", "assignments", "columnNames", "values",
   "valueList", "endOfValues", "constraints", "columns"}

Advances ==
  \/ p.position < p'.position
  \/ p.position = p'.position /\ LoopOf(pc) < LoopOf(pc')
  \/ pc' = "valueList" /\ p'.insertValues = Append(p.insertValues, 0)

(* What a step has to find to go on at next with q.                        *)
MayGo(next, q) ==
  /\ Good(q) /\ q.position <= Len(tokens) + 1 /\ Len(q.insertValues) <= MaxValues
  /\ p.position <= q.position
  /\ ~ q.returned =>
       /\ next \notin {"columnNames", "done"} => q.position <= Len(tokens)
       /\ next # "done" => q.whereIndex = 0
       /\ KindIn(q, next) /\ ValuesIn(q, next)
       /\ next = "done" /\ ~ q.error => Ends(tokens, q)
       /\ \/ p.position < q.position
          \/ LoopOf(pc) < LoopOf(next)
          \/ next = "valueList" /\ q.insertValues = Append(p.insertValues, 0)
          \/ next = pc /\ q = p

LEMMA Goes ==
  ASSUME PInv, pc \in Running, NEW next, NEW q, Proceed(next, q), MayGo(next, q)
  PROVE  PInv' /\ (Advances \/ UNCHANGED vars)
<1>1. p' = q /\ tokens' = tokens /\ IsInput(tokens)
  BY DEF PInv, Inv, Proceed, GoTo
<1>2. p.position \in Nat /\ q.position \in Nat
  BY DEF PInv, Inv, MayGo, Good, IsResult
<1>3. CASE q.returned
  <2>1. pc' = "done"
    BY <1>3 DEF Proceed, GoTo
  <2>2. q.error
    BY <1>3 DEF MayGo, Good
  <2>3. Inv(tokens, q, "done")
    BY <1>1, <2>2 DEF Inv, MayGo, KindIn, ValuesIn
  <2>4. LoopOf(pc) < LoopOf("done")
    BY LoopNumbers DEF Running
  <2>5. p.position < q.position \/ p.position = q.position
    BY <1>2 DEF MayGo
  <2> QED
    BY <1>1, <2>1, <2>3, <2>4, <2>5 DEF PInv, Advances
<1>4. CASE ~ q.returned
  <2>1. pc' = next
    BY <1>4 DEF Proceed, GoTo
  <2>2. Inv(tokens, q, next)
    BY <1>1, <1>4 DEF Inv, MayGo
  <2>3. p.position < q.position \/ p.position = q.position
    BY <1>2 DEF MayGo
  <2>4. \/ p.position < q.position
        \/ LoopOf(pc) < LoopOf(next)
        \/ next = "valueList" /\ q.insertValues = Append(p.insertValues, 0)
        \/ next = pc /\ q = p
    BY <1>4 DEF MayGo
  <2> QED
    BY <1>1, <2>1, <2>2, <2>3, <2>4 DEF PInv, Advances, vars
<1> QED
  BY <1>3, <1>4

(* At the beginning of a step, and in the course of one, at q.             *)
LEMMA Begin ==
  ASSUME PInv, pc \in Running
  PROVE  /\ IsInput(tokens) /\ Good(p) /\ IsResult(p) /\ ~ p.returned
         /\ p.whereIndex = 0 /\ Len(tokens) \in Nat \ {0}
         /\ p.position \in Nat \ {0} /\ p.insertValues \in Seq(Nat)
         /\ Len(p.insertValues) \in Nat /\ Len(p.insertValues) <= MaxValues
         /\ p.position <= Len(tokens) + 1
         /\ pc # "columnNames" => p.position <= Len(tokens)
         /\ pc \notin {"valueList", "endOfValues"} => p.insertValues = << >>
         /\ KindIn(p, pc)
<1>1. pc \notin {"done", "outOfMemory"}
  BY DEF Running
<1> QED
  BY <1>1 DEF PInv, Inv, Good, IsResult, ValuesIn, IsInput

In(kind, q) ==
  /\ Good(q) /\ p.position <= q.position /\ q.position <= Len(tokens)
  /\ q.kind = kind /\ q.whereIndex = 0 /\ q.insertValues = p.insertValues

LEMMA InAfter ==
  ASSUME PInv, pc \in Running, NEW kind, NEW q, In(kind, q), NEW r, After(q, r)
  PROVE  /\ In(kind, r)
         /\ p.position < q.position => p.position < r.position
         /\ q.position < r.position => p.position < r.position
<1>1. p.position \in Nat /\ q.position \in Nat /\ r.position \in Nat
  BY Begin DEF In, After, Good, IsResult
<1> QED
  BY <1>1 DEF In, After, Steps

(* What may end a step at once: an error, or a place further on.           *)
LEMMA InMayGo ==
  ASSUME PInv, pc \in Running, NEW kind, NEW q, In(kind, q), NEW next \in Running,
         ~ q.returned => /\ p.position < q.position \/ LoopOf(pc) < LoopOf(next)
                         /\ KindIn(q, next)
                         /\ q.insertValues = << >> \/ next \in {"valueList", "endOfValues"}
  PROVE  MayGo(next, q)
<1>1. next # "done" /\ next # "outOfMemory"
  BY DEF Running
<1>2. /\ q.position \in Nat /\ Len(tokens) \in Nat /\ Len(q.insertValues) \in Nat
      /\ Len(q.insertValues) <= MaxValues
  BY Begin DEF In, Good, IsResult
<1>3. q.position <= Len(tokens) + 1
  BY <1>2 DEF In
<1>4. ~ q.returned => ValuesIn(q, next)
  BY <1>1, <1>2 DEF ValuesIn
<1> QED
  BY <1>1, <1>2, <1>3, <1>4 DEF MayGo, In

LEMMA DoneMayGo ==
  ASSUME PInv, pc \in Running, NEW q, Good(q), p.position <= q.position,
         q.position <= Len(tokens) + 1, q.insertValues = p.insertValues,
         ~ q.returned /\ ~ q.error => Ends(tokens, q)
  PROVE  MayGo("done", q)
<1>1. LoopOf(pc) < LoopOf("done")
  BY LoopNumbers DEF Running
<1>2. Len(q.insertValues) <= MaxValues
  BY Begin
<1>3. KindIn(q, "done") /\ ValuesIn(q, "done")
  BY <1>2 DEF KindIn, ValuesIn
<1> QED
  BY <1>1, <1>2, <1>3 DEF MayGo

LEMMA RejectMayGo ==
  ASSUME PInv, pc \in Running, NEW q, Good(q), p.position <= q.position,
         q.position <= Len(tokens) + 1, q.insertValues = p.insertValues
  PROVE  MayGo("done", Reject(q))
<1>1. PICK r : /\ r = Reject(q) /\ After(q, r) /\ r.returned /\ r.error
               /\ r.position = q.position
  BY RejectAfter
<1>2. MayGo("done", r)
  BY <1>1, DoneMayGo DEF After
<1> QED
  BY <1>1, <1>2

LEMMA KindSet ==
  ASSUME PInv, pc = "parse", current(p).type # "END_OF_FILE", NEW kind
  PROVE  /\ In(kind, Of(kind)) /\ p.position < Of(kind).position /\ ~ Of(kind).returned
         /\ Of(kind).position = p.position + 1 /\ Of(kind).insertValues = << >>
<1>0. pc \in Running
  BY DEF Running
<1>1. /\ IsInput(tokens) /\ Good(p) /\ p.position \in Nat \ {0} /\ ~ p.returned
      /\ p.whereIndex = 0 /\ p.insertValues = << >> /\ Len(tokens) \in Nat
  BY <1>0, Begin
<1>2. PICK a : /\ a = advance(p) /\ After(p, a) /\ a.position = p.position + 1
               /\ p.position < Len(tokens) /\ a.returned = p.returned
  BY <1>1, AdvanceAfter
<1>3. PICK r : r = [a EXCEPT !.kind = kind]
  OBVIOUS
<1>4. Of(kind) = r
  BY <1>2, <1>3 DEF Of
<1>5. IsResult(a) /\ Good(a) /\ DOMAIN r = DOMAIN a
  BY <1>2, <1>3 DEF After, Good
<1>6. /\ r.position = a.position /\ r.index = a.index
      /\ r.exprs = a.exprs /\ r.error = a.error
      /\ r.returned = a.returned /\ r.kind = kind
      /\ r.selectColumns = a.selectColumns /\ r.whereIndex = a.whereIndex
      /\ r.insertValues = a.insertValues /\ r.assignments = a.assignments
  BY <1>3, <1>5 DEF IsResult, NoResult
<1>7. IsResult(r) /\ SameHolders(a, r)
  BY <1>5, <1>6 DEF IsResult, SameHolders
<1>8. Good(r)
  <2>1. r.returned => r.error
    BY <1>5, <1>6 DEF Good
  <2> QED
    BY <1>5, <1>6, <1>7, <2>1, GoodSame
<1>9. r.position = p.position + 1 /\ p.position < r.position /\ r.position <= Len(tokens)
      /\ p.position <= r.position
  BY <1>1, <1>2, <1>6
<1> QED
  BY <1>1, <1>2, <1>4, <1>6, <1>8, <1>9 DEF In, After

LEMMA SemicolonEnds ==
  ASSUME IsInput(tokens), NEW q, Good(q), NEW r, Consumes(q, "SEMICOLON", r), ~ r.returned
  PROVE  /\ r.position = Len(tokens) /\ tokens[r.position - 1].type = "SEMICOLON"
         /\ q.position - 1 = Len(tokens) - 2
<1>1. /\ q.position \in Nat \ {0} /\ Len(tokens) \in Nat /\ r.position = q.position + 1
      /\ q.position < Len(tokens) /\ tokens[q.position].type = "SEMICOLON"
  BY DEF Good, IsResult, IsInput, Consumes
<1>2. q.position \in DOMAIN tokens
  BY <1>1 DEF IsInput
<1>3. q.position = Len(tokens) - 1
  BY <1>1, <1>2 DEF IsInput
<1>4. r.position - 1 = q.position /\ r.position = Len(tokens)
  BY <1>1, <1>3
<1> QED
  BY <1>1, <1>3, <1>4

(* WHERE, if any, and the semicolon.                                       *)
LEMMA EndsAfterWhere ==
  ASSUME PInv, pc \in Running, NEW kind, NEW q, In(kind, q)
  PROVE  MayGo("done", consume(parseWhere(q), "SEMICOLON"))
<1>1. /\ IsInput(tokens) /\ Good(q) /\ q.whereIndex = 0 /\ p.position \in Nat
      /\ Len(tokens) \in Nat /\ q.position \in Nat
  BY Begin DEF In, Good, IsResult
<1>2. PICK w : /\ w = parseWhere(q) /\ Good(w) /\ Steps(q, w)
               /\ w.insertValues = q.insertValues
               /\ ~ w.returned /\ w.whereIndex # 0 =>
                    /\ q.position \in DOMAIN tokens /\ tokens[q.position].type = "WHERE"
                    /\ Derives(tokens, w.exprs,
                               Phrase(1, w.whereIndex, q.position + 1, w.position - 1))
  BY <1>1, WhereParsed
<1>3. PICK r : r = consume(w, "SEMICOLON") /\ Consumes(w, "SEMICOLON", r)
  BY <1>1, <1>2, ConsumeConsumes
<1>4. /\ Good(r) /\ w.position <= r.position /\ r.exprs = w.exprs
      /\ (w.position <= Len(tokens) => r.position <= Len(tokens))
      /\ r.whereIndex = w.whereIndex /\ r.insertValues = w.insertValues
      /\ (~ r.returned => ~ w.returned)
  BY <1>3 DEF Consumes, After, Steps
<1>5. w.position \in Nat /\ r.position \in Nat
  BY <1>2, <1>4 DEF Good, IsResult
<1>6. p.position <= r.position /\ r.position <= Len(tokens) + 1
  BY <1>1, <1>2, <1>4, <1>5 DEF In, Steps
<1>7. ASSUME ~ r.returned
      PROVE  Ends(tokens, r)
  <2>1. /\ r.position = Len(tokens) /\ tokens[r.position - 1].type = "SEMICOLON"
        /\ w.position - 1 = Len(tokens) - 2
    BY <1>1, <1>2, <1>3, <1>7, SemicolonEnds
  <2>2. r.whereIndex # 0 =>
          /\ q.position \in DOMAIN tokens /\ tokens[q.position].type = "WHERE"
          /\ Derives(tokens, r.exprs, Phrase(1, r.whereIndex, q.position + 1, Len(tokens) - 2))
    BY <1>2, <1>4, <1>7, <2>1
  <2> QED
    BY <2>1, <2>2 DEF Ends
<1>8. r.insertValues = p.insertValues
  BY <1>2, <1>4 DEF In
<1> QED
  BY <1>2, <1>3, <1>4, <1>6, <1>7, <1>8, DoneMayGo

(* A semicolon, for the statements that have no WHERE.                     *)
LEMMA EndsAfter ==
  ASSUME PInv, pc \in Running, NEW q, Good(q), p.position <= q.position,
         q.position <= Len(tokens) + 1, q.insertValues = p.insertValues,
         q.whereIndex = 0
  PROVE  MayGo("done", consume(q, "SEMICOLON"))
<1>1. IsInput(tokens) /\ Len(tokens) \in Nat /\ p.position \in Nat /\ q.position \in Nat
  BY Begin DEF Good, IsResult
<1>2. PICK r : r = consume(q, "SEMICOLON") /\ Consumes(q, "SEMICOLON", r)
  BY <1>1, ConsumeConsumes
<1>3. /\ Good(r) /\ q.position <= r.position /\ r.whereIndex = 0
      /\ r.insertValues = q.insertValues
      /\ (q.position <= Len(tokens) => r.position <= Len(tokens))
      /\ (~ r.returned => q.position < Len(tokens))
      /\ (r.returned => r.position = q.position)
  BY <1>2 DEF Consumes, After, Steps
<1>4. r.position \in Nat
  BY <1>3 DEF Good, IsResult
<1>5. p.position <= r.position /\ r.position <= Len(tokens) + 1
  BY <1>1, <1>3, <1>4
<1>6. ASSUME ~ r.returned
      PROVE  Ends(tokens, r)
  BY <1>1, <1>2, <1>3, <1>6, SemicolonEnds DEF Ends
<1> QED
  BY <1>2, <1>3, <1>5, <1>6, DoneMayGo

LEMMA EndsWithSemicolon ==
  ASSUME PInv, pc \in Running, NEW kind, NEW q, In(kind, q)
  PROVE  MayGo("done", consume(q, "SEMICOLON"))
<1>1. q.position <= Len(tokens) /\ q.position \in Nat /\ Len(tokens) \in Nat
  BY Begin DEF In, Good, IsResult
<1>2. q.position <= Len(tokens) + 1
  BY <1>1
<1> QED
  BY <1>2, EndsAfter DEF In

(* One lemma for each action.                                              *)
Kept == PInv' /\ (Advances \/ UNCHANGED vars)

LEMMA Inside ==
  ASSUME PInv, pc \in Running, pc # "columnNames"
  PROVE  In(p.kind, p)
  BY Begin DEF In

LEMMA UnexpectedTokenKept ==
  ASSUME PInv, UnexpectedToken
  PROVE  Kept
<1>1. pc \in Running
  BY DEF UnexpectedToken, Running
<1>2. /\ Good(p) /\ p.position <= p.position /\ p.position <= Len(tokens) + 1
  BY <1>1, Begin
<1>3. Proceed("done", Reject(p)) /\ MayGo("done", Reject(p))
  BY <1>1, <1>2, RejectMayGo DEF UnexpectedToken, Done
<1> QED
  BY <1>1, <1>3, Goes DEF Kept

LEMMA ParseSelectKept ==
  ASSUME PInv, ParseSelect
  PROVE  Kept
<1>1. pc \in Running /\ pc = "parse" /\ current(p).type # "END_OF_FILE"
  BY DEF ParseSelect, Begins, Is, Running
<1>2. PICK q : /\ q = Of("SELECT") /\ In("SELECT", q) /\ p.position < q.position
               /\ ~ q.returned /\ q.insertValues = << >>
  BY <1>1, KindSet
<1>3. IsInput(tokens) /\ Good(q) /\ Len(tokens) \in Nat /\ p.position \in Nat
  BY <1>1, <1>2, Begin DEF In
<1>4. CASE ~ Is(q, "STAR")
  <2>1. Proceed("selectList", q)
    BY <1>2, <1>4 DEF ParseSelect
  <2>2. MayGo("selectList", q)
    <3>1. KindIn(q, "selectList")
      BY <1>2 DEF KindIn, In
    <3>2. "selectList" \in Running
      BY DEF Running
    <3> QED
      BY <1>1, <1>2, <3>1, <3>2, InMayGo
  <2> QED
    BY <1>1, <2>1, <2>2, Goes DEF Kept
<1>5. CASE Is(q, "STAR")
  <2>1. PICK a : a = advance(q) /\ After(q, a)
    BY <1>3, <1>5, AdvanceAfter DEF Is
  <2>2. In("SELECT", a) /\ p.position < a.position /\ a.insertValues = << >>
    BY <1>1, <1>2, <2>1, InAfter DEF In
  <2>3. CASE IsOneOf(a, {"FROM"} \cup ListEnd)
    <3>1. Proceed("from", a)
      BY <1>2, <1>5, <2>1, <2>3 DEF ParseSelect
    <3>2. MayGo("from", a)
      <4>1. KindIn(a, "from")
        BY <2>2 DEF KindIn, In
      <4>2. "from" \in Running
        BY DEF Running
      <4> QED
        BY <1>1, <2>2, <4>1, <4>2, InMayGo
    <3> QED
      BY <1>1, <3>1, <3>2, Goes DEF Kept
  <2>4. CASE ~ IsOneOf(a, {"FROM"} \cup ListEnd)
    <3>1. Proceed("done", Reject(a))
      BY <1>2, <1>5, <2>1, <2>4 DEF ParseSelect, Done
    <3>2. MayGo("done", Reject(a))
      <4>1. a.position <= Len(tokens) /\ a.position \in Nat
        BY <2>2 DEF In, Good, IsResult
      <4>2. a.position <= Len(tokens) + 1
        BY <1>3, <4>1
      <4> QED
        BY <1>1, <2>2, <4>2, RejectMayGo DEF In
    <3> QED
      BY <1>1, <3>1, <3>2, Goes DEF Kept
  <2> QED
    BY <2>3, <2>4
<1> QED
  BY <1>4, <1>5

LEMMA SelectColumnKept ==
  ASSUME PInv, SelectColumn
  PROVE  Kept
<1>1. pc \in Running /\ pc = "selectList"
  BY DEF SelectColumn, Running
<1>2. /\ IsInput(tokens) /\ Good(p) /\ ~ p.returned /\ p.kind = "SELECT"
      /\ p.insertValues = << >> /\ p.whereIndex = 0 /\ p.position <= Len(tokens)
      /\ Len(tokens) \in Nat /\ p.position \in Nat
  BY <1>1, Begin DEF KindIn
<1>3. PICK q : q = parseExpression(p) /\ Reads(p, q)
  BY <1>2, ExpressionRead
<1>4. CASE q.index = 0
  <2>1. PICK r : r = Reject(q) /\ After(p, r) /\ r.returned /\ r.error
    BY <1>2, <1>3, <1>4, RejectedAfter
  <2>2. Proceed("done", r)
    BY <1>3, <1>4, <2>1 DEF SelectColumn, Done
  <2>3. MayGo("done", r)
    <3>1. r.position \in Nat /\ p.position <= r.position /\ r.position <= Len(tokens)
      BY <1>2, <2>1 DEF After, Steps, Good, IsResult
    <3>2. r.position <= Len(tokens) + 1
      BY <1>2, <3>1
    <3> QED
      BY <1>1, <2>1, <3>1, <3>2, DoneMayGo DEF After
  <2> QED
    BY <1>1, <2>2, <2>3, Goes DEF Kept
<1>5. CASE q.index # 0
  <2>1. PICK s : s = [q EXCEPT !.selectColumns = Append(@, q.index)]
    OBVIOUS
  <2>2. Proceed("selectList", skipComma(s))
    BY <1>3, <1>5, <2>1 DEF SelectColumn
  <2>3. IsResult(q) /\ DOMAIN s = DOMAIN q /\ IsResult(p) /\ SameHolders(p, q)
    BY <1>2, <1>3, <2>1 DEF Reads, Good
  <2>4. /\ s.position = q.position /\ s.index = q.index
        /\ s.exprs = q.exprs /\ s.error = q.error
        /\ s.returned = q.returned /\ s.kind = q.kind
        /\ s.selectColumns = Append(q.selectColumns, q.index) /\ s.whereIndex = q.whereIndex
        /\ s.insertValues = q.insertValues /\ s.assignments = q.assignments
    BY <2>1, <2>3 DEF IsResult, NoResult
  <2>5. q.index \in Nat /\ Append(q.selectColumns, q.index) \in Seq(Nat)
    BY <2>3 DEF IsResult
  <2>6. IsResult(s)
    BY <2>3, <2>4, <2>5 DEF IsResult
  <2>7. \E new : OneMore(Holding(p), Holding(s), new, q.index)
    BY <2>3, <2>4, <2>5, HoldingColumn DEF SameHolders
  <2>8. ~ s.returned /\ s.error = p.error /\ p.position < s.position /\ s.position <= Len(tokens)
    BY <1>2, <1>3, <1>5, <2>4 DEF Reads
  <2>9. Good(s)
    <3>1. NoValueMissing(s) => NoValueMissing(p)
      BY <2>3, <2>4 DEF NoValueMissing, SameHolders
    <3> QED
      BY <1>2, <1>3, <1>5, <2>4, <2>6, <2>7, <2>8, <3>1, HeldGood
  <2>10. In("SELECT", s) /\ s.insertValues = << >>
    <3>1. s.kind = "SELECT" /\ s.whereIndex = 0 /\ s.insertValues = p.insertValues
      BY <1>2, <1>3, <2>3, <2>4 DEF Reads, Steps, SameHolders
    <3>2. s.position \in Nat /\ p.position <= s.position
      BY <1>2, <2>6, <2>8 DEF IsResult
    <3> QED
      BY <1>2, <2>8, <2>9, <3>1, <3>2 DEF In
  <2>11. PICK r : r = skipComma(s) /\ After(s, r)
    BY <1>2, <2>9, CommaSkipped
  <2>12. In("SELECT", r) /\ p.position < r.position /\ r.insertValues = << >>
    BY <1>1, <2>8, <2>10, <2>11, InAfter DEF In
  <2>13. MayGo("selectList", r)
    <3>1. KindIn(r, "selectList") /\ "selectList" \in Running
      BY <2>12 DEF KindIn, In, Running
    <3> QED
      BY <1>1, <2>12, <3>1, InMayGo
  <2> QED
    BY <1>1, <2>2, <2>11, <2>13, Goes DEF Kept
<1>6. q.index = 0 \/ q.index # 0
  OBVIOUS
<1> QED
  BY <1>4, <1>5, <1>6

LEMMA EndOfSelectListKept ==
  ASSUME PInv, EndOfSelectList
  PROVE  Kept
<1>1. pc \in Running /\ pc = "selectList" /\ "from" \in Running /\ Proceed("from", p)
  BY DEF EndOfSelectList, Running
<1>2. In(p.kind, p) /\ KindIn(p, "from") /\ p.insertValues = << >>
  BY <1>1, Begin, Inside DEF KindIn
<1>3. LoopOf(pc) < LoopOf("from")
  BY <1>1, LoopNumbers
<1>4. MayGo("from", p)
  BY <1>1, <1>2, <1>3, InMayGo
<1> QED
  BY <1>1, <1>4, Goes DEF Kept

LEMMA ParseFromKept ==
  ASSUME PInv, ParseFrom
  PROVE  Kept
<1>1. pc \in Running /\ pc = "from"
  BY DEF ParseFrom, Running
<1>2. /\ IsInput(tokens) /\ Good(p) /\ In("SELECT", p) /\ p.kind = "SELECT"
      /\ Len(tokens) \in Nat /\ p.position \in Nat
  BY <1>1, Begin, Inside DEF KindIn
<1>3. CASE Is(p, "FROM")
  <2>1. PICK a : a = advance(p) /\ After(p, a)
    BY <1>2, <1>3, AdvanceAfter DEF Is
  <2>2. PICK t : t = consumeTableName(a) /\ After(a, t)
    BY <1>2, <2>1, TableNameConsumes DEF Consumes, After
  <2>3. In("SELECT", t)
    BY <1>1, <1>2, <2>1, <2>2, InAfter
  <2>4. PICK w : /\ w = parseWhere(t) /\ Good(w) /\ Steps(t, w)
                 /\ w.insertValues = t.insertValues
    BY <1>2, <2>3, WhereParsed DEF In
  <2>5. /\ w.kind = "SELECT" /\ w.position \in Nat /\ t.position \in Nat
        /\ t.position <= w.position /\ w.position <= Len(tokens)
        /\ w.insertValues = p.insertValues /\ p.position <= t.position
    BY <2>3, <2>4 DEF In, Steps, Good, IsResult
  <2>6. p.position <= w.position /\ w.position <= Len(tokens) + 1
    BY <1>2, <2>5
  <2>7. MayGo("done", w)
    BY <1>1, <2>4, <2>5, <2>6, DoneMayGo DEF Ends
  <2>8. Proceed("done", w)
    BY <1>3, <2>1, <2>2, <2>4 DEF ParseFrom, Done
  <2> QED
    BY <1>1, <2>7, <2>8, Goes DEF Kept
<1>4. CASE ~ Is(p, "FROM")
  <2>1. Proceed("done", p)
    BY <1>4 DEF ParseFrom, Done
  <2>2. p.position <= p.position /\ p.position <= Len(tokens) + 1
    BY <1>1, Begin
  <2>3. MayGo("done", p)
    BY <1>1, <1>2, <2>2, DoneMayGo DEF Ends
  <2> QED
    BY <1>1, <2>1, <2>3, Goes DEF Kept
<1> QED
  BY <1>3, <1>4

LEMMA ParseDeleteKept ==
  ASSUME PInv, ParseDelete
  PROVE  Kept
<1>1. pc \in Running /\ pc = "parse" /\ current(p).type # "END_OF_FILE"
  BY DEF ParseDelete, Begins, Is, Running
<1>2. PICK q : q = Of("DELETE") /\ In("DELETE", q) /\ Good(q)
  BY <1>1, KindSet DEF In
<1>3. IsInput(tokens)
  BY <1>1, Begin
<1>4. PICK a : a = consume(q, "FROM") /\ After(q, a) /\ Good(a)
  BY <1>2, <1>3, ConsumeConsumes DEF Consumes, After
<1>5. PICK t : t = consumeTableName(a) /\ After(a, t)
  BY <1>3, <1>4, TableNameConsumes DEF Consumes
<1>6. In("DELETE", t)
  BY <1>1, <1>2, <1>4, <1>5, InAfter
<1>7. MayGo("done", consume(parseWhere(t), "SEMICOLON"))
  BY <1>1, <1>6, EndsAfterWhere
<1>8. Proceed("done", consume(parseWhere(t), "SEMICOLON"))
  BY <1>2, <1>4, <1>5 DEF ParseDelete, Done
<1> QED
  BY <1>1, <1>7, <1>8, Goes DEF Kept

LEMMA ParseUpdateKept ==
  ASSUME PInv, ParseUpdate
  PROVE  Kept
<1>1. pc \in Running /\ pc = "parse" /\ current(p).type # "END_OF_FILE"
  BY DEF ParseUpdate, Begins, Is, Running
<1>2. PICK q : /\ q = Of("UPDATE") /\ In("UPDATE", q) /\ Good(q) /\ p.position < q.position
               /\ q.insertValues = << >>
  BY <1>1, KindSet DEF In
<1>3. IsInput(tokens)
  BY <1>1, Begin
<1>4. PICK t : t = consumeTableName(q) /\ After(q, t) /\ Good(t)
  BY <1>2, <1>3, TableNameConsumes DEF Consumes, After
<1>5. PICK a : a = consume(t, "SET") /\ After(t, a) /\ Good(a)
  BY <1>3, <1>4, ConsumeConsumes DEF Consumes, After
<1>6. PICK r : r = parseAssignment(a) /\ After(a, r)
  BY <1>3, <1>5, AssignmentParsed
<1>7. In("UPDATE", t) /\ p.position < t.position
  BY <1>1, <1>2, <1>4, InAfter
<1>8. In("UPDATE", a) /\ p.position < a.position
  BY <1>1, <1>5, <1>7, InAfter
<1>9. In("UPDATE", r) /\ p.position < r.position /\ r.insertValues = << >>
  BY <1>1, <1>2, <1>6, <1>8, InAfter DEF In
<1>10. MayGo("assignments", r)
  <2>1. KindIn(r, "assignments") /\ "assignments" \in Running
    BY <1>9 DEF KindIn, In, Running
  <2> QED
    BY <1>1, <1>9, <2>1, InMayGo
<1>11. Proceed("assignments", r)
  BY <1>2, <1>4, <1>5, <1>6 DEF ParseUpdate
<1> QED
  BY <1>1, <1>10, <1>11, Goes DEF Kept

LEMMA MoreAssignmentsKept ==
  ASSUME PInv, MoreAssignments
  PROVE  Kept
<1>1. pc \in Running /\ pc = "assignments" /\ current(p).type # "END_OF_FILE"
  BY DEF MoreAssignments, Is, Running
<1>2. /\ IsInput(tokens) /\ Good(p) /\ In("UPDATE", p) /\ p.insertValues = << >>
      /\ p.position \in Nat
  BY <1>1, Begin, Inside DEF KindIn
<1>3. PICK a : a = advance(p) /\ After(p, a) /\ Good(a) /\ a.position = p.position + 1
  BY <1>1, <1>2, AdvanceAfter DEF After
<1>4. PICK r : r = parseAssignment(a) /\ After(a, r)
  BY <1>2, <1>3, AssignmentParsed
<1>5. In("UPDATE", a) /\ p.position < a.position
  BY <1>1, <1>2, <1>3, InAfter
<1>6. In("UPDATE", r) /\ p.position < r.position /\ r.insertValues = << >>
  BY <1>1, <1>2, <1>4, <1>5, InAfter DEF In
<1>7. MayGo("assignments", r)
  <2>1. KindIn(r, "assignments") /\ "assignments" \in Running
    BY <1>6 DEF KindIn, In, Running
  <2> QED
    BY <1>1, <1>6, <2>1, InMayGo
<1>8. Proceed("assignments", r)
  BY <1>3, <1>4 DEF MoreAssignments
<1> QED
  BY <1>1, <1>7, <1>8, Goes DEF Kept

LEMMA EndOfAssignmentsKept ==
  ASSUME PInv, EndOfAssignments
  PROVE  Kept
<1>1. pc \in Running /\ pc = "assignments"
  BY DEF EndOfAssignments, Running
<1>2. In(p.kind, p)
  BY <1>1, Inside
<1>3. /\ Proceed("done", consume(parseWhere(p), "SEMICOLON"))
      /\ MayGo("done", consume(parseWhere(p), "SEMICOLON"))
  BY <1>1, <1>2, EndsAfterWhere DEF EndOfAssignments, Done
<1> QED
  BY <1>1, <1>3, Goes DEF Kept

LEMMA ParseDropKept ==
  ASSUME PInv, ParseDrop
  PROVE  Kept
<1>1. pc \in Running /\ pc = "parse" /\ current(p).type # "END_OF_FILE"
  BY DEF ParseDrop, Begins, Is, Running
<1>2. PICK q : q = Of("DROP_TABLE") /\ In("DROP_TABLE", q) /\ Good(q)
  BY <1>1, KindSet DEF In
<1>3. IsInput(tokens)
  BY <1>1, Begin
<1>4. PICK a : a = consume(q, "TABLE") /\ After(q, a) /\ Good(a)
  BY <1>2, <1>3, ConsumeConsumes DEF Consumes, After
<1>5. PICK t : t = consumeTableName(a) /\ After(a, t)
  BY <1>3, <1>4, TableNameConsumes DEF Consumes
<1>6. In("DROP_TABLE", t)
  BY <1>1, <1>2, <1>4, <1>5, InAfter
<1>7. MayGo("done", consume(t, "SEMICOLON"))
  BY <1>1, <1>6, EndsWithSemicolon
<1>8. Proceed("done", consume(t, "SEMICOLON"))
  BY <1>2, <1>4, <1>5 DEF ParseDrop, Done
<1> QED
  BY <1>1, <1>7, <1>8, Goes DEF Kept

LEMMA ColumnNameTaken ==
  ASSUME NEW q, Good(q)
  PROVE  LET r == TakeColumnName(q)
         IN  /\ Good(r) /\ r.position = q.position + 1 /\ r.kind = q.kind
             /\ r.returned = q.returned /\ r.whereIndex = q.whereIndex
             /\ r.insertValues = q.insertValues
<1>1. PICK name : name = current(q).value
  OBVIOUS
<1>2. PICK n : n = [q EXCEPT !.insertColumnNames = Append(@, name)]
  OBVIOUS
<1>3. TakeColumnName(q) = advance(n)
  BY <1>1, <1>2 DEF TakeColumnName
<1>4. IsResult(q) /\ DOMAIN n = DOMAIN q
  BY <1>2 DEF Good
<1>5. /\ n.position = q.position /\ n.index = q.index
      /\ n.exprs = q.exprs /\ n.error = q.error
      /\ n.returned = q.returned /\ n.kind = q.kind
      /\ n.selectColumns = q.selectColumns /\ n.whereIndex = q.whereIndex
      /\ n.insertValues = q.insertValues /\ n.assignments = q.assignments
  BY <1>2, <1>4 DEF IsResult, NoResult
<1>6. IsResult(n) /\ SameHolders(q, n)
  BY <1>4, <1>5 DEF IsResult, SameHolders
<1>7. Good(n)
  <2>1. n.returned => n.error
    BY <1>5 DEF Good
  <2> QED
    BY <1>5, <1>6, <2>1, GoodSame
<1> QED
  BY <1>3, <1>5, <1>7, AdvanceGood DEF SameHolders

LEMMA ParseInsertKept ==
  ASSUME PInv, ParseInsert
  PROVE  Kept
<1>1. pc \in Running /\ pc = "parse" /\ current(p).type # "END_OF_FILE"
  BY DEF ParseInsert, Begins, Is, Running
<1>2. PICK q : /\ q = Of("INSERT") /\ In("INSERT", q) /\ Good(q) /\ p.position < q.position
               /\ q.insertValues = << >>
  BY <1>1, KindSet DEF In
<1>3. IsInput(tokens) /\ Len(tokens) \in Nat /\ p.position \in Nat
  BY <1>1, Begin
<1>4. PICK a : a = consume(q, "INTO") /\ After(q, a) /\ Good(a)
  BY <1>2, <1>3, ConsumeConsumes DEF Consumes, After
<1>5. PICK t : t = consumeTableName(a) /\ After(a, t) /\ Good(t)
  BY <1>3, <1>4, TableNameConsumes DEF Consumes, After
<1>6. In("INSERT", a) /\ p.position < a.position
  BY <1>1, <1>2, <1>4, InAfter
<1>7. In("INSERT", t) /\ p.position < t.position /\ t.insertValues = << >>
  BY <1>1, <1>2, <1>5, <1>6, InAfter DEF In
<1>8. CASE ~ t.returned /\ Is(t, "LEFT_PAREN")
  <2>1. PICK b : b = advance(t) /\ After(t, b) /\ Good(b) /\ b.returned = t.returned
    BY <1>3, <1>5, <1>8, AdvanceAfter DEF Is, After
  <2>2. In("INSERT", b) /\ p.position < b.position /\ b.insertValues = << >>
    BY <1>1, <1>7, <2>1, InAfter DEF In
  <2>3. PICK r : /\ r = TakeColumnName(b) /\ Good(r) /\ r.position = b.position + 1
                 /\ r.kind = b.kind /\ r.returned = b.returned
                 /\ r.whereIndex = b.whereIndex /\ r.insertValues = b.insertValues
    BY <2>1, ColumnNameTaken
  <2>4. Proceed("columnNames", r)
    BY <1>2, <1>4, <1>5, <1>8, <2>1, <2>3 DEF ParseInsert
  <2>5. b.position <= Len(tokens) /\ b.position \in Nat /\ b.kind = "INSERT" /\ b.whereIndex = 0
    BY <2>2 DEF In, Good, IsResult
  <2>6. /\ p.position < r.position /\ p.position <= r.position
        /\ r.position <= Len(tokens) + 1
    BY <1>3, <2>2, <2>3, <2>5
  <2>7. Len(r.insertValues) <= MaxValues /\ r.insertValues = << >>
    BY <1>1, <2>2, <2>3, Begin
  <2>8. KindIn(r, "columnNames") /\ ValuesIn(r, "columnNames")
    BY <2>3, <2>5, <2>7 DEF KindIn, ValuesIn
  <2>9. MayGo("columnNames", r)
    BY <2>3, <2>5, <2>6, <2>7, <2>8 DEF MayGo
  <2> QED
    BY <1>1, <2>4, <2>9, Goes DEF Kept
<1>9. CASE ~ (~ t.returned /\ Is(t, "LEFT_PAREN"))
  <2>1. Proceed("values", t)
    BY <1>2, <1>4, <1>5, <1>9 DEF ParseInsert
  <2>2. KindIn(t, "values") /\ "values" \in Running
    BY <1>7 DEF KindIn, In, Running
  <2>3. MayGo("values", t)
    BY <1>1, <1>7, <2>2, InMayGo
  <2> QED
    BY <1>1, <2>1, <2>3, Goes DEF Kept
<1> QED
  BY <1>8, <1>9

LEMMA ColumnNameKept ==
  ASSUME PInv, ColumnName
  PROVE  Kept
<1>1. pc \in Running /\ pc = "columnNames" /\ current(p).type # "END_OF_FILE"
  BY DEF ColumnName, Running, IsOneOf, ListEnd
<1>2. /\ IsInput(tokens) /\ Good(p) /\ p.kind = "INSERT" /\ p.whereIndex = 0
      /\ p.insertValues = << >> /\ Len(tokens) \in Nat /\ p.position \in Nat
      /\ ~ p.returned /\ Len(p.insertValues) <= MaxValues
  BY <1>1, Begin DEF KindIn
<1>3. p.position < Len(tokens)
  BY <1>1, <1>2, AdvanceAfter
<1>4. PICK s : s = skipComma(p) /\ After(p, s) /\ Good(s) /\ s.position \in Nat
  BY <1>2, CommaSkipped DEF After, Good, IsResult
<1>5. /\ s.position <= Len(tokens) /\ p.position <= s.position /\ s.kind = "INSERT"
      /\ s.whereIndex = 0 /\ s.insertValues = << >>
  BY <1>2, <1>3, <1>4 DEF After, Steps
<1>6. PICK t : /\ t = TakeColumnName(s) /\ Good(t) /\ t.position = s.position + 1
               /\ t.kind = s.kind /\ t.returned = s.returned
               /\ t.whereIndex = s.whereIndex /\ t.insertValues = s.insertValues
  BY <1>4, ColumnNameTaken
<1>7. PICK r : /\ r = skipComma(t) /\ After(t, r)
               /\ (r = t \/ r.position <= Len(tokens))
  BY <1>2, <1>6, CommaSkipped
<1>8. /\ Good(r) /\ r.position \in Nat /\ t.position <= r.position
      /\ r.kind = "INSERT" /\ r.whereIndex = 0 /\ r.insertValues = << >>
  BY <1>5, <1>6, <1>7 DEF After, Steps, Good, IsResult
<1>9. p.position < r.position /\ p.position <= r.position /\ r.position <= Len(tokens) + 1
  BY <1>2, <1>4, <1>5, <1>6, <1>7, <1>8
<1>10. KindIn(r, "columnNames") /\ ValuesIn(r, "columnNames")
  BY <1>2, <1>8 DEF KindIn, ValuesIn
<1>11. MayGo("columnNames", r)
  BY <1>2, <1>8, <1>9, <1>10 DEF MayGo
<1>12. Proceed("columnNames", r)
  BY <1>4, <1>6, <1>7 DEF ColumnName
<1> QED
  BY <1>1, <1>11, <1>12, Goes DEF Kept

LEMMA EndOfColumnNamesKept ==
  ASSUME PInv, EndOfColumnNames
  PROVE  Kept
<1>1. pc \in Running /\ pc = "columnNames"
  BY DEF EndOfColumnNames, Running
<1>2. /\ IsInput(tokens) /\ Good(p) /\ p.kind = "INSERT" /\ p.whereIndex = 0
      /\ p.insertValues = << >> /\ Len(tokens) \in Nat /\ p.position \in Nat
      /\ p.position <= Len(tokens) + 1 /\ Len(p.insertValues) <= MaxValues
  BY <1>1, Begin DEF KindIn
<1>3. PICK r : r = consume(p, "RIGHT_PAREN") /\ Consumes(p, "RIGHT_PAREN", r)
  BY <1>2, ConsumeConsumes
<1>4. /\ Good(r) /\ r.position \in Nat /\ p.position <= r.position /\ r.kind = "INSERT"
      /\ r.whereIndex = 0 /\ r.insertValues = << >>
  BY <1>2, <1>3 DEF Consumes, After, Steps, Good, IsResult
<1>5. r.position <= Len(tokens) + 1 /\ (~ r.returned => r.position <= Len(tokens))
  BY <1>2, <1>3, <1>4 DEF Consumes
<1>6. KindIn(r, "values") /\ ValuesIn(r, "values") /\ LoopOf(pc) < LoopOf("values")
  BY <1>1, <1>2, <1>4, LoopNumbers DEF KindIn, ValuesIn
<1>7. MayGo("values", r)
  BY <1>2, <1>4, <1>5, <1>6 DEF MayGo
<1>8. Proceed("values", r)
  BY <1>3 DEF EndOfColumnNames
<1> QED
  BY <1>1, <1>7, <1>8, Goes DEF Kept

LEMMA ValuesMayGo ==
  ASSUME PInv, pc \in Running, NEW next \in {"valueList", "endOfValues"}, NEW q,
         Good(q), q.kind = "INSERT", q.whereIndex = 0, p.position <= q.position,
         q.position <= Len(tokens), Len(q.insertValues) <= MaxValues,
         \/ p.position < q.position
         \/ LoopOf(pc) < LoopOf(next)
         \/ next = "valueList" /\ q.insertValues = Append(p.insertValues, 0)
  PROVE  MayGo(next, q)
<1>1. q.position \in Nat /\ Len(tokens) \in Nat
  BY Begin DEF Good, IsResult
<1>2. q.position <= Len(tokens) + 1
  BY <1>1
<1>3. KindIn(q, next) /\ ValuesIn(q, next)
  BY DEF KindIn, ValuesIn
<1> QED
  BY <1>2, <1>3 DEF MayGo

LEMMA ParseValuesKept ==
  ASSUME PInv, ParseValues
  PROVE  Kept
<1>1. pc \in Running /\ pc = "values"
  BY DEF ParseValues, Running
<1>2. /\ IsInput(tokens) /\ Good(p) /\ In("INSERT", p) /\ p.insertValues = << >>
      /\ Len(tokens) \in Nat /\ p.position \in Nat
  BY <1>1, Begin, Inside DEF KindIn
<1>3. PICK q : q = consume(p, "VALUES") /\ Consumes(p, "VALUES", q)
  BY <1>2, ConsumeConsumes
<1>4. In("INSERT", q) /\ Good(q) /\ q.position \in Nat /\ q.position <= Len(tokens)
  <2>1. After(p, q)
    BY <1>3 DEF Consumes
  <2>2. In("INSERT", q)
    BY <1>1, <1>2, <2>1, InAfter
  <2> QED
    BY <2>2 DEF In, Good, IsResult
<1>5. CASE q.returned \/ ~ Is(q, "LEFT_PAREN")
  <2>1. Proceed("done", q)
    BY <1>3, <1>5 DEF ParseValues, Done
  <2>2. q.position <= Len(tokens) + 1
    BY <1>2, <1>4
  <2>3. MayGo("done", q)
    BY <1>1, <1>4, <2>2, DoneMayGo DEF In, Ends
  <2> QED
    BY <1>1, <2>1, <2>3, Goes DEF Kept
<1>6. CASE ~ (q.returned \/ ~ Is(q, "LEFT_PAREN"))
  <2>1. PICK b : b = advance(q) /\ After(q, b) /\ Good(b) /\ b.returned = q.returned
    BY <1>2, <1>4, <1>6, AdvanceAfter DEF Is, After
  <2>2. p.position < q.position
    BY <1>2, <1>3, <1>6 DEF Consumes, Good, IsResult
  <2>3. /\ In("INSERT", b) /\ p.position < b.position /\ ~ b.returned /\ b.position \in Nat
        /\ b.insertValues = << >>
    <3>1. In("INSERT", b) /\ p.position < b.position
      BY <1>1, <1>4, <2>1, <2>2, InAfter
    <3> QED
      BY <1>2, <1>6, <2>1, <3>1 DEF In, Good, IsResult
  <2>4. PICK t : /\ t = TakeValue(b) /\ Good(t) /\ Steps(b, t) /\ ~ t.returned
                 /\ t.whereIndex = b.whereIndex
                 /\ \E index \in Nat : t.insertValues = Append(b.insertValues, index)
    BY <1>2, <2>1, <2>3, ValueTaken
  <2>5. Len(t.insertValues) <= MaxValues
    <3>1. PICK index \in Nat : t.insertValues = Append(<< >>, index)
      BY <2>3, <2>4
    <3>2. Len(t.insertValues) = 1
      BY <3>1
    <3> QED
      BY <3>2, MaxValuesAssumption
  <2>6. /\ t.kind = "INSERT" /\ t.whereIndex = 0 /\ t.position \in Nat
        /\ b.position <= t.position /\ t.position <= Len(tokens)
    BY <2>3, <2>4 DEF In, Steps, Good, IsResult
  <2>7. p.position < t.position /\ p.position <= t.position
    BY <1>2, <2>3, <2>6
  <2>8. CASE Is(t, "COMMA")
    <3>1. PICK r : /\ r = advance(t) /\ After(t, r) /\ r.position = t.position + 1
                   /\ t.position < Len(tokens)
      BY <1>2, <2>4, <2>8, AdvanceAfter DEF Is
    <3>2. Proceed("valueList", r)
      BY <1>3, <1>6, <2>1, <2>4, <2>8, <3>1 DEF ParseValues
    <3>3. /\ p.position <= r.position /\ p.position < r.position
          /\ r.position <= Len(tokens)
      BY <1>2, <2>6, <2>7, <3>1
    <3>4. MayGo("valueList", r)
      BY <1>1, <2>5, <2>6, <3>1, <3>3, ValuesMayGo DEF After, Steps
    <3> QED
      BY <1>1, <3>2, <3>4, Goes DEF Kept
  <2>9. CASE ~ Is(t, "COMMA")
    <3>1. Proceed("endOfValues", t)
      BY <1>3, <1>6, <2>1, <2>4, <2>9 DEF ParseValues
    <3>2. MayGo("endOfValues", t)
      BY <1>1, <2>4, <2>5, <2>6, <2>7, ValuesMayGo
    <3> QED
      BY <1>1, <3>1, <3>2, Goes DEF Kept
  <2> QED
    BY <2>8, <2>9
<1> QED
  BY <1>5, <1>6

LEMMA OutOfMemoryKept ==
  ASSUME PInv, OutOfMemory
  PROVE  Kept
<1>1. pc \in Running /\ pc = "valueList" /\ pc' = "outOfMemory" /\ p' = p /\ tokens' = tokens
  BY DEF OutOfMemory, InValueList, Running
<1>2. /\ IsInput(tokens) /\ Good(p) /\ ~ p.returned /\ p.whereIndex = 0
      /\ Len(tokens) \in Nat /\ p.position \in Nat /\ p.position <= Len(tokens)
      /\ p.position <= Len(tokens) + 1 /\ Len(p.insertValues) <= MaxValues
  BY <1>1, Begin
<1>3. KindIn(p, "outOfMemory") /\ ValuesIn(p, "outOfMemory")
  BY <1>2 DEF KindIn, ValuesIn
<1>4. Inv(tokens, p, "outOfMemory")
  BY <1>2, <1>3 DEF Inv
<1>5. LoopOf(pc) < LoopOf("outOfMemory")
  BY <1>1, LoopNumbers
<1> QED
  BY <1>1, <1>4, <1>5 DEF Kept, PInv, Advances

LEMMA NextValueKept ==
  ASSUME PInv, NextValue
  PROVE  Kept
<1>1. pc \in Running /\ pc = "valueList" /\ Len(p.insertValues) < MaxValues
  BY DEF NextValue, InValueList, Running
<1>2. /\ IsInput(tokens) /\ Good(p) /\ In("INSERT", p) /\ ~ p.returned
      /\ p.insertValues \in Seq(Nat) /\ Len(p.insertValues) \in Nat
      /\ Len(tokens) \in Nat /\ p.position \in Nat
  BY <1>1, Begin, Inside DEF KindIn
<1>3. PICK s : s = skipComma(p) /\ After(p, s) /\ Good(s) /\ s.returned = p.returned
  BY <1>2, CommaSkipped DEF After
<1>4. /\ In("INSERT", s) /\ s.position \in Nat /\ p.position <= s.position
      /\ s.insertValues = p.insertValues
  <2>1. In("INSERT", s)
    BY <1>1, <1>2, <1>3, InAfter
  <2> QED
    BY <2>1 DEF In, Good, IsResult
<1>5. PICK t : /\ t = TakeValue(s) /\ Good(t) /\ Steps(s, t) /\ ~ t.returned
               /\ t.whereIndex = s.whereIndex
               /\ \E index \in Nat :
                    /\ t.insertValues = Append(s.insertValues, index)
                    /\ index # 0 => s.position < t.position
  BY <1>2, <1>3, ValueTaken
<1> PICK index \in Nat : /\ t.insertValues = Append(s.insertValues, index)
                         /\ index # 0 => s.position < t.position
  BY <1>5
<1>6. /\ t.kind = "INSERT" /\ t.whereIndex = 0 /\ t.position \in Nat
      /\ s.position <= t.position /\ t.position <= Len(tokens)
  BY <1>4, <1>5 DEF In, Steps, Good, IsResult
<1>7. PICK r : r = skipComma(t) /\ After(t, r)
  BY <1>2, <1>5, CommaSkipped
<1>8. /\ Good(r) /\ r.kind = "INSERT" /\ r.whereIndex = 0 /\ r.position \in Nat
      /\ t.position <= r.position /\ r.position <= Len(tokens)
      /\ r.insertValues = Append(p.insertValues, index)
  BY <1>4, <1>5, <1>6, <1>7 DEF After, Steps, Good, IsResult
<1>9. Len(r.insertValues) <= MaxValues
  <2>1. Len(Append(p.insertValues, index)) = Len(p.insertValues) + 1
    BY <1>2
  <2> QED
    BY <1>1, <1>2, <1>8, <2>1, MaxValuesAssumption
<1>10. p.position <= r.position /\ (index # 0 => p.position < r.position)
  BY <1>2, <1>4, <1>5, <1>6, <1>8
<1>11. \/ p.position < r.position
       \/ r.insertValues = Append(p.insertValues, 0)
  BY <1>8, <1>10
<1>12. MayGo("valueList", r)
  BY <1>1, <1>8, <1>9, <1>10, <1>11, ValuesMayGo
<1>13. Proceed("valueList", r)
  BY <1>3, <1>5, <1>7 DEF NextValue
<1> QED
  BY <1>1, <1>12, <1>13, Goes DEF Kept

LEMMA EndOfValueListKept ==
  ASSUME PInv, EndOfValueList
  PROVE  Kept
<1>1. pc \in Running /\ pc = "valueList" /\ Proceed("endOfValues", p)
  BY DEF EndOfValueList, Running
<1>2. /\ Good(p) /\ p.kind = "INSERT" /\ p.whereIndex = 0 /\ p.position \in Nat
      /\ p.position <= p.position /\ p.position <= Len(tokens)
      /\ Len(p.insertValues) <= MaxValues
  BY <1>1, Begin DEF KindIn
<1>3. LoopOf(pc) < LoopOf("endOfValues")
  BY <1>1, LoopNumbers
<1>4. MayGo("endOfValues", p)
  BY <1>1, <1>2, <1>3, ValuesMayGo
<1> QED
  BY <1>1, <1>4, Goes DEF Kept

LEMMA ParseEndOfValuesKept ==
  ASSUME PInv, ParseEndOfValues
  PROVE  Kept
<1>1. pc \in Running /\ pc = "endOfValues"
  BY DEF ParseEndOfValues, Running
<1>2. IsInput(tokens) /\ Good(p) /\ In("INSERT", p)
  BY <1>1, Begin, Inside DEF KindIn
<1>3. PICK q : q = consume(p, "RIGHT_PAREN") /\ After(p, q) /\ Good(q)
  BY <1>2, ConsumeConsumes DEF Consumes, After
<1>4. In("INSERT", q)
  BY <1>1, <1>2, <1>3, InAfter
<1>5. MayGo("done", consume(q, "SEMICOLON"))
  BY <1>1, <1>4, EndsWithSemicolon
<1>6. Proceed("done", consume(q, "SEMICOLON"))
  BY <1>3 DEF ParseEndOfValues, Done
<1> QED
  BY <1>1, <1>5, <1>6, Goes DEF Kept

LEMMA UnknownCreateKept ==
  ASSUME PInv, UnknownCreate
  PROVE  Kept
<1>1. pc \in Running /\ pc = "parse"
  BY DEF UnknownCreate, Begins, Running
<1>2. /\ Good(p) /\ p.position \in Nat /\ p.position <= Len(tokens) /\ Len(tokens) \in Nat
  BY <1>1, Begin
<1>3. PICK a : /\ a = advance(p) /\ Good(a) /\ a.position = p.position + 1
               /\ SameHolders(p, a)
  BY <1>2, AdvanceGood
<1>4. p.position <= a.position /\ a.position <= Len(tokens) + 1
  BY <1>2, <1>3
<1>5. MayGo("done", Reject(a))
  BY <1>1, <1>3, <1>4, RejectMayGo DEF SameHolders
<1>6. Proceed("done", Reject(a))
  BY <1>3 DEF UnknownCreate, Done
<1> QED
  BY <1>1, <1>5, <1>6, Goes DEF Kept

(* The word after CREATE is no END_OF_FILE, which has no word.             *)
LEMMA WordAfterCreate ==
  ASSUME PInv, pc = "parse", Is(p, "CREATE"), NEW word, word # << >>,
         current(advance(p)).value = word, NEW kind
  PROVE  /\ In(kind, advance(Of(kind))) /\ Good(advance(Of(kind)))
         /\ p.position < advance(Of(kind)).position
         /\ advance(Of(kind)).insertValues = << >>
<1>1. pc \in Running /\ current(p).type # "END_OF_FILE"
  BY DEF Running, Is
<1>2. /\ IsInput(tokens) /\ Good(p) /\ IsResult(p) /\ p.position \in Nat \ {0}
      /\ Len(tokens) \in Nat
  BY <1>1, Begin
<1>3. PICK q : /\ q = Of(kind) /\ In(kind, q) /\ Good(q) /\ p.position < q.position
               /\ q.position = p.position + 1 /\ q.insertValues = << >>
  BY <1>1, KindSet DEF In
<1>4. q.position < Len(tokens)
  <2>1. TokenAt(p.position + 1).value = word
    BY <1>2, AdvanceResult DEF current
  <2>2. tokens[Len(tokens)].value = << >>
    BY <1>2 DEF IsInput, EndOfFile
  <2>3. p.position + 1 < Len(tokens)
    BY <2>1, <2>2 DEF TokenAt
  <2> QED
    BY <1>3, <2>3
<1>5. PICK a : a = advance(q) /\ After(q, a) /\ Good(a)
  BY <1>2, <1>3, <1>4, AdvanceBefore DEF After
<1>6. In(kind, a) /\ p.position < a.position
  BY <1>1, <1>3, <1>5, InAfter
<1> QED
  BY <1>3, <1>5, <1>6 DEF After

LEMMA ParseCreateIndexKept ==
  ASSUME PInv, ParseCreateIndex
  PROVE  Kept
<1>1. pc \in Running /\ pc = "parse" /\ Is(p, "CREATE")
  BY DEF ParseCreateIndex, Begins, Running
<1>2. PICK q : q = advance(Of("CREATE_INDEX")) /\ In("CREATE_INDEX", q) /\ Good(q)
  <2>1. PICK word : word = <<"INDEX">> /\ word # << >>
    <3>0. Len(<<"INDEX">>) = 1
      OBVIOUS
    <3>1. PICK word : word = <<"INDEX">> /\ Len(word) = 1
      BY <3>0, Zenon
    <3>2. PICK none : none = << >> /\ Len(none) = 0
      OBVIOUS
    <3>3. word # none
      BY <3>1, <3>2
    <3> QED
      BY <3>1, <3>2, <3>3
  <2>2. current(advance(p)).value = word
    BY <2>1 DEF ParseCreateIndex
  <2> QED
    BY <1>1, <2>1, <2>2, WordAfterCreate
<1>3. IsInput(tokens)
  BY <1>1, Begin
<1>4. PICK a : a = consume(q, "ON") /\ After(q, a) /\ Good(a)
  BY <1>2, <1>3, ConsumeConsumes DEF Consumes, After
<1>5. PICK b : b = consumeTableName(a) /\ After(a, b) /\ Good(b)
  BY <1>3, <1>4, TableNameConsumes DEF Consumes, After
<1>6. PICK c : c = consume(b, "LEFT_PAREN") /\ After(b, c) /\ Good(c)
  BY <1>3, <1>5, ConsumeConsumes DEF Consumes, After
<1>7. PICK d : d = consumeIdentifier(c) /\ After(c, d) /\ Good(d)
  BY <1>3, <1>6, IdentifierConsumes DEF Consumes, After
<1>8. PICK e : e = consume(d, "RIGHT_PAREN") /\ After(d, e) /\ Good(e)
  BY <1>3, <1>7, ConsumeConsumes DEF Consumes, After
<1>9. After(q, e)
  <2>1. After(q, b)
    BY <1>2, <1>4, <1>5, AfterTransitive
  <2>2. After(q, c)
    BY <1>2, <1>5, <1>6, <2>1, AfterTransitive
  <2>3. After(q, d)
    BY <1>2, <1>6, <1>7, <2>2, AfterTransitive
  <2> QED
    BY <1>2, <1>7, <1>8, <2>3, AfterTransitive
<1>10. In("CREATE_INDEX", e)
  BY <1>1, <1>2, <1>9, InAfter
<1>11. MayGo("done", consume(e, "SEMICOLON"))
  BY <1>1, <1>10, EndsWithSemicolon
<1>12. Proceed("done", consume(e, "SEMICOLON"))
  BY <1>2, <1>4, <1>5, <1>6, <1>7, <1>8 DEF ParseCreateIndex, Done
<1> QED
  BY <1>1, <1>11, <1>12, Goes DEF Kept

LEMMA ParseCreateTableKept ==
  ASSUME PInv, ParseCreateTable
  PROVE  Kept
<1>1. pc \in Running /\ pc = "parse" /\ Is(p, "CREATE")
  BY DEF ParseCreateTable, Begins, Running
<1>2. PICK q : /\ q = advance(Of("CREATE_TABLE")) /\ In("CREATE_TABLE", q) /\ Good(q)
               /\ p.position < q.position /\ q.insertValues = << >>
  <2>1. PICK word : word = <<"TABLE">> /\ word # << >>
    <3>0. Len(<<"TABLE">>) = 1
      OBVIOUS
    <3>1. PICK word : word = <<"TABLE">> /\ Len(word) = 1
      BY <3>0, Zenon
    <3>2. PICK none : none = << >> /\ Len(none) = 0
      OBVIOUS
    <3>3. word # none
      BY <3>1, <3>2
    <3> QED
      BY <3>1, <3>2, <3>3
  <2>2. current(advance(p)).value = word
    BY <2>1 DEF ParseCreateTable
  <2> QED
    BY <1>1, <2>1, <2>2, WordAfterCreate
<1>3. IsInput(tokens)
  BY <1>1, Begin
<1>4. PICK a : a = consumeTableName(q) /\ After(q, a) /\ Good(a)
  BY <1>2, <1>3, TableNameConsumes DEF Consumes, After
<1>5. PICK r : r = consume(a, "LEFT_PAREN") /\ After(a, r) /\ Good(r)
  BY <1>3, <1>4, ConsumeConsumes DEF Consumes, After
<1>6. After(q, r)
  BY <1>2, <1>4, <1>5, AfterTransitive
<1>7. In("CREATE_TABLE", r) /\ p.position < r.position /\ r.insertValues = << >>
  BY <1>1, <1>2, <1>6, InAfter DEF After
<1>8. KindIn(r, "columns") /\ "columns" \in Running
  BY <1>7 DEF KindIn, In, Running
<1>9. MayGo("columns", r)
  BY <1>1, <1>7, <1>8, InMayGo
<1>10. Proceed("columns", r)
  BY <1>2, <1>4, <1>5 DEF ParseCreateTable
<1> QED
  BY <1>1, <1>9, <1>10, Goes DEF Kept

LEMMA BadTextLengthKept ==
  ASSUME PInv, BadTextLength
  PROVE  Kept
<1>1. pc \in Running /\ pc = "columns" /\ pc' = "terminated" /\ p' = p /\ tokens' = tokens
  BY DEF BadTextLength, BeginsColumn, Running
<1>2. /\ IsInput(tokens) /\ Good(p) /\ ~ p.returned /\ p.whereIndex = 0
      /\ p.insertValues = << >> /\ Len(p.insertValues) <= MaxValues
      /\ p.position <= Len(tokens) /\ p.position <= Len(tokens) + 1
  BY <1>1, Begin
<1>3. KindIn(p, "terminated") /\ ValuesIn(p, "terminated")
  BY <1>2 DEF KindIn, ValuesIn
<1>4. Inv(tokens, p, "terminated")
  BY <1>2, <1>3 DEF Inv
<1>5. LoopOf(pc) < LoopOf("terminated")
  BY <1>1, LoopNumbers
<1>6. p.position = p'.position
  BY <1>1
<1> QED
  BY <1>1, <1>4, <1>5, <1>6 DEF Kept, PInv, Advances

(* Results that differ by their column definitions at most.                *)
Alike(q, r) ==
  /\ DOMAIN r = DOMAIN q
  /\ r.position = q.position /\ r.index = q.index
  /\ r.exprs = q.exprs /\ r.error = q.error
  /\ r.returned = q.returned /\ r.kind = q.kind
  /\ r.selectColumns = q.selectColumns /\ r.whereIndex = q.whereIndex
  /\ r.insertValues = q.insertValues /\ r.assignments = q.assignments

LEMMA AlikeAfter ==
  ASSUME NEW q, Good(q), NEW r, Alike(q, r)
  PROVE  After(q, r) /\ Good(r) /\ r.position = q.position /\ r.returned = q.returned
<1>1. IsResult(r) /\ SameHolders(q, r) /\ q.position \in Nat
  BY DEF Good, Alike, IsResult, SameHolders
<1>2. Good(r)
  <2>1. r.returned => r.error
    BY DEF Good, Alike
  <2> QED
    BY <1>1, <2>1, GoodSame DEF Alike
<1> QED
  BY <1>1, <1>2 DEF Alike, After, Steps

LEMMA TwoTokensTaken ==
  ASSUME IsInput(tokens), NEW q, Good(q), NEW first, first # "END_OF_FILE", Is(q, first),
         NEW second, second # "END_OF_FILE", peekIs(q, second)
  PROVE  LET r == advance(advance(q))
         IN  /\ After(q, r) /\ Good(r) /\ r.position = q.position + 2
             /\ r.returned = q.returned
<1>1. q.position \in Nat \ {0} /\ IsResult(q)
  BY DEF Good, IsResult
<1>2. PICK a : /\ a = advance(q) /\ After(q, a) /\ Good(a) /\ a.position = q.position + 1
               /\ a.returned = q.returned
  BY AdvanceAfter DEF Is, After
<1>3. current(a).type # "END_OF_FILE"
  BY <1>2 DEF current, peekIs
<1>4. PICK r : /\ r = advance(a) /\ After(a, r) /\ Good(r) /\ r.position = a.position + 1
               /\ r.returned = a.returned
  BY <1>2, <1>3, AdvanceAfter DEF After
<1> QED
  BY <1>1, <1>2, <1>4, AfterTransitive

LEMMA TypeParsed ==
  ASSUME IsInput(tokens), NEW q, Good(q), q.position <= Len(tokens)
  PROVE  LET r == parseType(q)
         IN  /\ Good(r) /\ q.position <= r.position /\ r.position <= Len(tokens) + 1
             /\ r.kind = q.kind /\ r.whereIndex = q.whereIndex
             /\ r.insertValues = q.insertValues
             /\ ~ r.returned => r.position <= Len(tokens) /\ ~ q.returned
<1>1. q.position \in Nat \ {0} /\ Len(tokens) \in Nat /\ q.position <= Len(tokens) + 1
  BY DEF Good, IsResult, IsInput
<1>2. CASE q.returned
  BY <1>1, <1>2 DEF parseType
<1>3. CASE ~ q.returned /\ ~ IsOneOf(q, DataTypeTokens)
  <2>1. parseType(q) = Reject(q)
    BY <1>3 DEF parseType, IsOneOf, IsTextWithLength, Is, DataTypeTokens
  <2>2. PICK r : r = Reject(q) /\ After(q, r) /\ r.returned /\ r.position = q.position
    BY RejectAfter
  <2> QED
    BY <1>1, <2>1, <2>2 DEF After, Steps
<1>4. CASE ~ q.returned /\ IsOneOf(q, DataTypeTokens) /\ IsTextWithLength(q)
  <2>1. Is(q, "TEXT") /\ peekIs(q, "LEFT_PAREN")
    BY <1>4 DEF IsTextWithLength
  <2>2. PICK a : /\ a = advance(advance(q)) /\ After(q, a) /\ Good(a)
                 /\ a.position = q.position + 2 /\ a.returned = q.returned
    BY <2>1, TwoTokensTaken
  <2>3. PICK b : /\ b = advance(a) /\ Good(b) /\ b.position = a.position + 1
                 /\ SameHolders(a, b) /\ b.kind = a.kind /\ b.returned = a.returned
    BY <2>2, AdvanceGood
  <2>4. PICK r : r = consume(b, "RIGHT_PAREN") /\ Consumes(b, "RIGHT_PAREN", r)
    BY <2>3, ConsumeConsumes
  <2>5. parseType(q) = r
    BY <1>4, <2>2, <2>3, <2>4 DEF parseType
  <2>6. a.position <= Len(tokens) /\ a.kind = q.kind /\ a.whereIndex = q.whereIndex
        /\ a.insertValues = q.insertValues
    BY <2>2 DEF After, Steps
  <2>7. /\ Good(r) /\ b.position <= r.position /\ r.kind = q.kind
        /\ r.whereIndex = q.whereIndex /\ r.insertValues = q.insertValues
        /\ r.position \in Nat
    BY <2>3, <2>4, <2>6 DEF Consumes, After, Steps, SameHolders, Good, IsResult
  <2>8. /\ r.returned => r.position = b.position
        /\ ~ r.returned => r.position = b.position + 1 /\ b.position < Len(tokens)
    BY <2>4 DEF Consumes
  <2>9. /\ q.position <= r.position /\ r.position <= Len(tokens) + 1
        /\ ~ r.returned => r.position <= Len(tokens)
    BY <1>1, <2>2, <2>3, <2>6, <2>7, <2>8
  <2> QED
    BY <1>4, <2>5, <2>7, <2>9
<1>5. CASE ~ q.returned /\ IsOneOf(q, DataTypeTokens) /\ ~ IsTextWithLength(q)
  <2>1. parseType(q) = advance(q)
    BY <1>5 DEF parseType
  <2>2. current(q).type # "END_OF_FILE"
    BY <1>5 DEF IsOneOf, DataTypeTokens
  <2>3. PICK r : r = advance(q) /\ After(q, r) /\ r.returned = q.returned
    BY <2>2, AdvanceAfter
  <2>4. r.position \in Nat /\ r.position <= Len(tokens)
    BY <2>3 DEF After, Steps, Good, IsResult
  <2>5. r.position <= Len(tokens) + 1
    BY <1>1, <2>4
  <2> QED
    BY <1>5, <2>1, <2>3, <2>4, <2>5 DEF After, Steps
<1> QED
  BY <1>2, <1>3, <1>4, <1>5

LEMMA ColumnDefinitionKept ==
  ASSUME PInv, ColumnDefinition
  PROVE  Kept
<1>1. pc \in Running /\ pc = "columns"
  BY DEF ColumnDefinition, BeginsColumn, Running
<1>2. /\ IsInput(tokens) /\ Good(p) /\ In("CREATE_TABLE", p) /\ p.insertValues = << >>
      /\ Len(tokens) \in Nat /\ p.position \in Nat /\ Len(p.insertValues) <= MaxValues
  BY <1>1, Begin, Inside DEF KindIn
<1>3. PICK n : n = consumeIdentifier(p) /\ Consumes(p, "IDENTIFIER", n)
  BY <1>2, IdentifierConsumes
<1>4. /\ After(p, n) /\ Good(n) /\ n.position \in Nat
      /\ (~ n.returned => p.position < n.position)
  BY <1>2, <1>3 DEF Consumes, After, Good, IsResult
<1>5. In("CREATE_TABLE", n)
  BY <1>1, <1>2, <1>4, InAfter
<1>6. /\ n.position <= Len(tokens) /\ n.kind = "CREATE_TABLE" /\ n.whereIndex = 0
      /\ n.insertValues = << >> /\ p.position <= n.position
  BY <1>2, <1>5 DEF In
<1>7. PICK q : /\ q = parseType(n) /\ Good(q) /\ n.position <= q.position
               /\ q.position <= Len(tokens) + 1 /\ q.kind = n.kind
               /\ q.whereIndex = n.whereIndex /\ q.insertValues = n.insertValues
               /\ ~ q.returned => q.position <= Len(tokens) /\ ~ n.returned
  BY <1>2, <1>4, <1>6, TypeParsed
<1>8. PICK e : e = IF q.returned THEN q.columnDefinitions
                   ELSE Append(q.columnDefinitions,
                               [name |-> current(p).value, type |-> current(advance(p)).type,
                                notNull |-> FALSE, primaryKey |-> FALSE])
  OBVIOUS
<1>9. PICK r : r = [q EXCEPT !.columnDefinitions = e]
  OBVIOUS
<1>10. Proceed("constraints", r)
  BY <1>3, <1>7, <1>8, <1>9 DEF ColumnDefinition
<1>11. /\ Good(r) /\ r.position = q.position /\ r.returned = q.returned
       /\ r.kind = "CREATE_TABLE" /\ r.whereIndex = 0 /\ r.insertValues = << >>
  <2>1. IsResult(q) /\ DOMAIN r = DOMAIN q
    BY <1>7, <1>9 DEF Good
  <2>2. Alike(q, r)
    BY <1>9, <2>1 DEF Alike, IsResult, NoResult
  <2> QED
    BY <1>6, <1>7, <2>2, AlikeAfter DEF Alike
<1>12. q.position \in Nat
  BY <1>7 DEF Good, IsResult
<1>13. /\ p.position <= r.position /\ r.position <= Len(tokens) + 1
       /\ (~ r.returned => p.position < r.position /\ r.position <= Len(tokens))
  BY <1>2, <1>4, <1>6, <1>7, <1>11, <1>12
<1>14. KindIn(r, "constraints") /\ ValuesIn(r, "constraints") /\ Len(r.insertValues) <= MaxValues
  BY <1>2, <1>11 DEF KindIn, ValuesIn
<1>15. MayGo("constraints", r)
  BY <1>11, <1>13, <1>14 DEF MayGo
<1> QED
  BY <1>1, <1>10, <1>15, Goes DEF Kept

LEMMA PrimaryKeyTaken ==
  ASSUME IsInput(tokens), NEW q, Good(q)
  PROVE  LET r == PrimaryKey(q)
         IN  After(q, r) /\ (r = q \/ q.position < r.position)
<1>1. CASE Is(q, "PRIMARY") /\ peekIs(q, "KEY")
  <2>1. PICK a : /\ a = advance(advance(q)) /\ After(q, a) /\ Good(a)
                 /\ a.position = q.position + 2
    BY <1>1, TwoTokensTaken
  <2>2. PICK n : n = Len(q.columnDefinitions)
    OBVIOUS
  <2>3. PICK r : r = [a EXCEPT !.columnDefinitions[n].primaryKey = TRUE]
    OBVIOUS
  <2>4. PrimaryKey(q) = r
    BY <1>1, <2>1, <2>2, <2>3 DEF PrimaryKey
  <2>5. IsResult(a) /\ DOMAIN r = DOMAIN a /\ q.position \in Nat
    BY <2>1, <2>3 DEF Good, IsResult
  <2>6. Alike(a, r)
    BY <2>3, <2>5 DEF Alike, IsResult, NoResult
  <2>7. After(a, r) /\ r.position = q.position + 2
    BY <2>1, <2>6, AlikeAfter
  <2>8. q.position < r.position
    BY <2>5, <2>7
  <2> QED
    BY <2>1, <2>4, <2>7, <2>8, AfterTransitive
<1>2. CASE ~ (Is(q, "PRIMARY") /\ peekIs(q, "KEY"))
  BY <1>2, AfterSelf DEF PrimaryKey
<1> QED
  BY <1>1, <1>2

LEMMA NotNullTaken ==
  ASSUME IsInput(tokens), NEW q, Good(q)
  PROVE  LET r == NotNull(q)
         IN  After(q, r) /\ (r = q \/ q.position < r.position)
<1>1. CASE Is(q, "NOT") /\ peekIs(q, "TKNULL")
  <2>1. PICK a : /\ a = advance(advance(q)) /\ After(q, a) /\ Good(a)
                 /\ a.position = q.position + 2
    BY <1>1, TwoTokensTaken
  <2>2. PICK n : n = Len(q.columnDefinitions)
    OBVIOUS
  <2>3. PICK r : r = [a EXCEPT !.columnDefinitions[n].notNull = TRUE]
    OBVIOUS
  <2>4. NotNull(q) = r
    BY <1>1, <2>1, <2>2, <2>3 DEF NotNull
  <2>5. IsResult(a) /\ DOMAIN r = DOMAIN a /\ q.position \in Nat
    BY <2>1, <2>3 DEF Good, IsResult
  <2>6. Alike(a, r)
    BY <2>3, <2>5 DEF Alike, IsResult, NoResult
  <2>7. After(a, r) /\ r.position = q.position + 2
    BY <2>1, <2>6, AlikeAfter
  <2>8. q.position < r.position
    BY <2>5, <2>7
  <2> QED
    BY <2>1, <2>4, <2>7, <2>8, AfterTransitive
<1>2. CASE ~ (Is(q, "NOT") /\ peekIs(q, "TKNULL"))
  BY <1>2, AfterSelf DEF NotNull
<1> QED
  BY <1>1, <1>2

LEMMA ConstraintKept ==
  ASSUME PInv, Constraint
  PROVE  Kept
<1>1. pc \in Running /\ pc = "constraints"
  BY DEF Constraint, Running
<1>2. /\ IsInput(tokens) /\ Good(p) /\ In("CREATE_TABLE", p) /\ p.insertValues = << >>
      /\ Len(tokens) \in Nat /\ p.position \in Nat
  BY <1>1, Begin, Inside DEF KindIn
<1>3. PICK q : q = PrimaryKey(p) /\ After(p, q) /\ (q = p \/ p.position < q.position)
  BY <1>2, PrimaryKeyTaken
<1>4. Good(q) /\ q.position \in Nat
  BY <1>3 DEF After, Good, IsResult
<1>5. PICK r : r = NotNull(q) /\ After(q, r) /\ (r = q \/ q.position < r.position)
  BY <1>2, <1>4, NotNullTaken
<1>6. Proceed("constraints", r)
  BY <1>3, <1>5 DEF Constraint
<1>7. CASE r = p
  <2>1. p.position <= p.position /\ p.position <= Len(tokens) + 1 /\ p.position <= Len(tokens)
        /\ Len(p.insertValues) <= MaxValues /\ p.whereIndex = 0 /\ p.kind = "CREATE_TABLE"
    BY <1>1, <1>2, Begin DEF KindIn
  <2>2. KindIn(p, "constraints") /\ ValuesIn(p, "constraints")
    BY <1>2, <2>1 DEF KindIn, ValuesIn
  <2>3. MayGo("constraints", r)
    BY <1>1, <1>2, <1>7, <2>1, <2>2 DEF MayGo
  <2> QED
    BY <1>1, <1>6, <2>3, Goes DEF Kept
<1>8. CASE r # p
  <2>1. After(p, r) /\ r.position \in Nat
    BY <1>2, <1>3, <1>5, AfterTransitive DEF After, Good, IsResult
  <2>2. q.position <= r.position /\ p.position <= q.position
    BY <1>3, <1>5 DEF After, Steps
  <2>3. p.position < r.position
    BY <1>2, <1>3, <1>4, <1>5, <1>8, <2>1, <2>2
  <2>4. In("CREATE_TABLE", r) /\ r.insertValues = << >>
    BY <1>1, <1>2, <2>1, InAfter DEF In
  <2>5. KindIn(r, "constraints") /\ "constraints" \in Running
    BY <2>4 DEF KindIn, In, Running
  <2>6. MayGo("constraints", r)
    BY <1>1, <2>3, <2>4, <2>5, InMayGo
  <2> QED
    BY <1>1, <1>6, <2>6, Goes DEF Kept
<1> QED
  BY <1>7, <1>8

LEMMA EndOfConstraintsKept ==
  ASSUME PInv, EndOfConstraints
  PROVE  Kept
<1>1. pc \in Running /\ pc = "constraints"
  BY DEF EndOfConstraints, Running
<1>2. IsInput(tokens) /\ Good(p) /\ In("CREATE_TABLE", p) /\ p.insertValues = << >>
  BY <1>1, Begin, Inside DEF KindIn
<1>3. PICK r : r = skipComma(p) /\ After(p, r)
  BY <1>2, CommaSkipped
<1>4. In("CREATE_TABLE", r) /\ r.insertValues = << >>
  BY <1>1, <1>2, <1>3, InAfter DEF In
<1>5. KindIn(r, "columns") /\ "columns" \in Running /\ LoopOf(pc) < LoopOf("columns")
  BY <1>1, <1>4, LoopNumbers DEF KindIn, In, Running
<1>6. MayGo("columns", r)
  BY <1>1, <1>4, <1>5, InMayGo
<1>7. Proceed("columns", r)
  BY <1>3 DEF EndOfConstraints
<1> QED
  BY <1>1, <1>6, <1>7, Goes DEF Kept

LEMMA EndOfColumnsKept ==
  ASSUME PInv, EndOfColumns
  PROVE  Kept
<1>1. pc \in Running /\ pc = "columns"
  BY DEF EndOfColumns, Running
<1>2. /\ Good(p) /\ p.position \in Nat /\ p.position <= Len(tokens) /\ Len(tokens) \in Nat
      /\ p.whereIndex = 0
  BY <1>1, Begin
<1>3. PICK a : /\ a = advance(p) /\ Good(a) /\ a.position = p.position + 1
               /\ SameHolders(p, a)
  BY <1>2, AdvanceGood
<1>4. p.position <= a.position /\ a.position <= Len(tokens) + 1
  BY <1>2, <1>3
<1>5. MayGo("done", consume(a, "SEMICOLON"))
  BY <1>1, <1>2, <1>3, <1>4, EndsAfter DEF SameHolders
<1>6. Proceed("done", consume(a, "SEMICOLON"))
  BY <1>3 DEF EndOfColumns, Done
<1> QED
  BY <1>1, <1>5, <1>6, Goes DEF Kept

LEMMA StepKept ==
  ASSUME PInv, [Next]_vars
  PROVE  Kept
<1>1. CASE UNCHANGED vars
  BY <1>1 DEF vars, PInv, Kept
<1>2. CASE Step
  BY <1>2, UnexpectedTokenKept, ParseSelectKept, SelectColumnKept, EndOfSelectListKept,
     ParseFromKept, ParseDeleteKept, ParseUpdateKept, MoreAssignmentsKept,
     EndOfAssignmentsKept, ParseDropKept, ParseInsertKept, ColumnNameKept,
     EndOfColumnNamesKept, ParseValuesKept, NextValueKept, OutOfMemoryKept,
     EndOfValueListKept, ParseEndOfValuesKept, UnknownCreateKept, ParseCreateIndexKept,
     ParseCreateTableKept, BadTextLengthKept, ColumnDefinitionKept, ConstraintKept,
     EndOfConstraintsKept, EndOfColumnsKept DEF Step
<1>3. CASE Stop
  BY <1>1, <1>3 DEF Stop
<1> QED
  BY <1>1, <1>2, <1>3 DEF Next

LEMMA InitGood ==
  ASSUME Init
  PROVE  PInv
<1>1. IsInput(tokens) /\ pc = "parse" /\ p = NoResult
  BY InputsAssumption DEF Init
<1>2. IsResult(NoResult)
  BY DEF IsResult, NoResult
<1>3. PICK h : h = Holding(NoResult)
  OBVIOUS
<1>4. \A a \in DOMAIN h : a = <<"where", 1, 1>> /\ h[a] = 0
  <2>1. /\ DOMAIN NoResult.selectColumns = {} /\ DOMAIN NoResult.insertValues = {}
        /\ DOMAIN NoResult.assignments = {} /\ NoResult.whereIndex = 0
    BY DEF NoResult
  <2>2. Roots(NoResult) = {<<"where", 1, 1>>}
    BY <2>1 DEF Roots
  <2>3. Held(NoResult, <<"where", 1, 1>>) = 0
    BY <2>1, HeldFacts
  <2> QED
    BY <1>3, <2>2, <2>3 DEF Holding
<1>5. Grove(0, << >>)
  BY DEF Grove, Below, Once
<1>6. ~ IsOperand(0, << >>, 0)
  BY DEF IsOperand
<1>7. IsForest(<< >>, h)
  <2>1. 0 \in 0..Len(<< >>)
    OBVIOUS
  <2> QED
    BY <1>4, <1>5, <1>6, <2>1, Zenon DEF IsForest
<1>8. IsCovered(<< >>, h)
  BY DEF IsCovered
<1>9. Good(NoResult)
  <2>1. /\ NoResult.exprs = << >> /\ NoResult.index = 0 /\ NoResult.returned = FALSE
        /\ NoResult.error = FALSE /\ NoResult.position = 1 /\ NoResult.whereIndex = 0
        /\ NoResult.insertValues = << >> /\ Len(NoResult.insertValues) = 0
    BY DEF NoResult
  <2>2. NoResult.index <= Len(NoResult.exprs)
    BY <2>1
  <2> QED
    BY <1>2, <1>3, <1>7, <1>8, <2>1, <2>2 DEF Good
<1>10. Len(tokens) \in Nat \ {0}
  BY <1>1 DEF IsInput
<1>11. NoResult.position = 1 /\ 1 <= Len(tokens) /\ 1 <= Len(tokens) + 1
       /\ NoResult.whereIndex = 0 /\ ~ NoResult.returned
  BY <1>10 DEF NoResult
<1>12. KindIn(NoResult, "parse") /\ ValuesIn(NoResult, "parse")
  BY MaxValuesAssumption DEF KindIn, ValuesIn, NoResult
<1> QED
  BY <1>1, <1>9, <1>11, <1>12 DEF PInv, Inv

(* The inductive invariant: the statement so far is Good, and its kind,    *)
(* its position and its values are those of the loop the parser is in.     *)
THEOREM Invariance == Spec => []PInv
<1>1. PInv /\ [Next]_vars => PInv'
  BY StepKept DEF Kept
<1> QED
  BY <1>1, InitGood, PTL DEF Spec

LEMMA HeldIsIndex ==
  ASSUME Good(p), NEW a \in Places(p)
  PROVE  Held(p, a) \in 0..Len(p.exprs)
<1>1. /\ p.exprs \in Seq(Exprs) /\ IsForest(p.exprs, Holding(p)) /\ Below(0, p.exprs)
      /\ \A i \in DOMAIN p.exprs : i \in (0 + 1)..Len(p.exprs)
  BY DEF Good, IsResult, IsForest, Grove
<1>2. CASE a \in Roots(p)
  BY <1>1, <1>2 DEF IsForest, Holding
<1>3. CASE a \notin Roots(p)
  <2>1. PICK i \in DOMAIN p.exprs, c \in {1, 2} : a = <<"operand", i, c>>
    BY <1>3 DEF Places
  <2>2. Held(p, a) = IF c \in DOMAIN Children(p.exprs[i]) THEN Children(p.exprs[i])[c] ELSE 0
    BY <2>1 DEF Held
  <2>3. i \in (0 + 1)..Len(p.exprs) /\ Len(p.exprs) \in Nat
    BY <1>1
  <2>4. CASE c \in DOMAIN Children(p.exprs[i])
    <3>1. Children(p.exprs[i])[c] \in (0 + 1)..(i - 1)
      BY <1>1, <2>3, <2>4 DEF Below
    <3> QED
      BY <2>2, <2>3, <2>4, <3>1
  <2>5. CASE c \notin DOMAIN Children(p.exprs[i])
    BY <2>2, <2>3, <2>5
  <2> QED
    BY <2>4, <2>5
<1> QED
  BY <1>2, <1>3

(* The cursor stays at the tokens or one past them, every index a          *)
(* statement or an expression holds is that of an expression or none, and  *)
(* an error that ends the parse is reported.                               *)
THEOREM TypeCorrect == Spec => []TypeOK
<1>1. PInv => TypeOK
  <2> SUFFICES ASSUME PInv PROVE TypeOK
    OBVIOUS
  <2>1. Good(p) /\ IsResult(p) /\ IsInput(tokens)
    BY DEF PInv, Inv, Good
  <2>2. p.position \in 1..(Len(tokens) + 1)
    BY <2>1 DEF PInv, Inv, IsResult, IsInput
  <2>3. p.index \in 0..Len(p.exprs)
    BY <2>1 DEF Good, IsResult
  <2>4. Len(p.insertValues) <= MaxValues
    BY DEF PInv, Inv, ValuesIn
  <2>5. p.returned => p.error /\ pc = "done"
    BY <2>1 DEF PInv, Inv, Good
  <2> QED
    BY <2>1, <2>2, <2>3, <2>4, <2>5, HeldIsIndex DEF TypeOK, IsResult
<1> QED
  BY <1>1, Invariance, PTL

(* Whatever is parsed, operands come before their operators, no expression *)
(* belongs to two places, and none of a statement without an error is left *)
(* over: evalExpr, which trusts the indices, ends and evaluates none twice.*)
THEOREM Forest == Spec => []AstIsForest
<1>1. PInv => AstIsForest
  BY ForestIsAstIsForest DEF PInv, Inv
<1> QED
  BY <1>1, Invariance, PTL

(* A DELETE, UPDATE, DROP or CREATE that is accepted ends with the one     *)
(* semicolon of its tokens.                                                *)
THEOREM Whole == Spec => []AcceptedIsWhole
<1>1. PInv => AcceptedIsWhole
  BY DEF PInv, Inv, Ends, AcceptedIsWhole, Accepted
<1> QED
  BY <1>1, Invariance, PTL

(* Soundness of the recursive descent: the WHERE of an accepted DELETE or  *)
(* UPDATE is derived by the grammar from all the tokens between WHERE and  *)
(* the semicolon, whatever their number and however deep they are nested.  *)
THEOREM WhereSound == Spec => []WhereIsDerived
<1>1. PInv => WhereIsDerived
  BY DEF PInv, Inv, Ends, WhereIsDerived, Accepted
<1> QED
  BY <1>1, Invariance, PTL

(* Every step takes a token or goes on to a later loop, except for values  *)
(* of an INSERT that are none.                                             *)
THEOREM Advance == Spec => LoopsAdvance
<1>1. PInv /\ [Next]_vars =>
        [ \/ p.position < p'.position
          \/ p.position = p'.position /\ LoopOf(pc) < LoopOf(pc')
          \/ pc' = "valueList" /\ p'.insertValues = Append(p.insertValues, 0) ]_vars
  BY StepKept DEF Kept, Advances
<1> QED
  BY <1>1, Invariance, PTL DEF Spec, LoopsAdvance

-----------------------------------------------------------------------------
(* Completeness. Tokens that are a DELETE with a condition are parsed      *)
(* without an error, in the one step there is for them.                    *)
IsDeleteWhere(ts) ==
  /\ Len(ts) > 5
  /\ \A i \in 1..4 : ts[i].type = <<"DELETE", "FROM", "IDENTIFIER", "WHERE">>[i]
  /\ ts[Len(ts) - 1].type = "SEMICOLON"
  /\ IsSentence(ts, Text(1, 5, Len(ts) - 2))

LEMMA ConditionFound ==
  ASSUME IsInput(tokens), IsDeleteWhere(tokens), NEW q, Good(q), q.position = 5
  PROVE  /\ parseExpression(q).index # 0 /\ parseExpression(q).error = q.error
         /\ parseExpression(q).position = Len(tokens) - 1
         /\ parseExpression(q).returned = q.returned
<1>1. Len(tokens) \in Nat /\ Len(tokens) > 5 /\ Depth \in Nat /\ Depth = 9 * (Len(tokens) + 1)
  BY TokenFacts, ParseDef DEF IsDeleteWhere, Depth
<1>2. PICK from \in 1..(Len(tokens) + 1), to \in 0..Len(tokens) :
        from = 5 /\ to = Len(tokens) - 2 /\ to + 1 = Len(tokens) - 1 /\ from <= to + 1
  BY <1>1
<1>3. Understood(1, from, to)
  <2>1. /\ Text(1, from, to) \in Texts(tokens) /\ Text(1, from, to).level = 1
        /\ Text(1, from, to).from = from /\ Text(1, from, to).to = to
    BY <1>1, TextIn
  <2>2. IsSentence(tokens, Text(1, from, to))
    BY <1>2 DEF IsDeleteWhere
  <2> QED
    BY <2>1, <2>2, SentenceUnderstood
<1>4. Stops(1, to + 1) /\ Stops(2, to + 1)
  <2>1. to + 1 \in 1..Len(tokens)
    BY <1>1, <1>2
  <2>2. TokenAt(to + 1).type = "SEMICOLON"
    BY <1>2, <2>1, TokenIs DEF IsDeleteWhere
  <2> QED
    BY <2>2, OthersStop
<1>5. Suffices(Depth, 1, from, to)
  BY <1>1, <1>2 DEF Suffices
<1>6. Finds(Depth, 1, from, to)
  <2>1. Passes(Depth, 1, from, to) /\ from <= to
    BY <1>1, <1>3, <1>4, <1>5 DEF Understood
  <2> QED
    BY <1>1, <1>4, <1>5, <2>1, PassedIsFound
<1>7. IsResult(q)
  BY DEF Good
<1>8. PICK c \in Cursors : c = [position |-> q.position, index |-> q.index,
                                error |-> q.error, exprs |-> q.exprs]
  BY <1>7 DEF IsResult, Cursors
<1>9. c.position = from /\ c.error = q.error
  BY <1>2, <1>8
<1>10. PICK d : d = parse[Depth].level[1][c] /\ d.index # 0 /\ d.error = q.error
               /\ d.position = to + 1
  <2>1. /\ At(Depth, 1, c).index # 0 /\ At(Depth, 1, c).error = c.error
        /\ At(Depth, 1, c).position = to + 1
    BY <1>6, <1>9 DEF Finds
  <2> QED
    BY <1>9, <2>1 DEF At
<1>11. PICK r : r = [q EXCEPT !.position = d.position, !.index = d.index,
                              !.error = d.error, !.exprs = d.exprs]
  OBVIOUS
<1>12. parseExpression(q) = r
  BY <1>8, <1>10, <1>11 DEF parseExpression
<1>13. /\ r.position = d.position /\ r.index = d.index /\ r.error = d.error
       /\ r.returned = q.returned
  BY <1>7, <1>11 DEF IsResult, NoResult
<1> QED
  BY <1>2, <1>10, <1>12, <1>13

LEMMA Consumed ==
  ASSUME IsInput(tokens), NEW q, Good(q), ~ q.returned, NEW i \in 1..Len(tokens), q.position = i,
         NEW type, tokens[i].type = type
  PROVE  /\ consume(q, type) = advance(q) /\ Good(consume(q, type))
         /\ consume(q, type).position = i + 1 /\ ~ consume(q, type).returned
         /\ consume(q, type).error = q.error
<1>1. current(q).type = type
  BY TokenIs DEF current
<1>2. consume(q, type) = advance(q)
  BY <1>1 DEF consume, Is
<1>3. /\ Good(advance(q)) /\ advance(q).position = q.position + 1
      /\ advance(q).error = q.error /\ advance(q).returned = q.returned
  BY AdvanceGood
<1> QED
  BY <1>2, <1>3

LEMMA TableNameConsumed ==
  ASSUME IsInput(tokens), NEW q, Good(q), ~ q.returned, NEW i \in 1..Len(tokens), q.position = i,
         tokens[i].type = "IDENTIFIER"
  PROVE  /\ Good(consumeTableName(q)) /\ consumeTableName(q).position = i + 1
         /\ ~ consumeTableName(q).returned /\ consumeTableName(q).error = q.error
<1>1. consumeIdentifier(q) = consume(q, "IDENTIFIER")
  BY DEF consumeIdentifier, consume
<1>2. PICK n : n = consumeIdentifier(q) /\ Good(n) /\ ~ n.returned
  BY <1>1, Consumed
<1>3. PICK v : v = current(q).value
  OBVIOUS
<1>4. PICK r : r = [n EXCEPT !.tableName = v] /\ r = consumeTableName(q)
  BY <1>2, <1>3 DEF consumeTableName
<1>5. ~ r.returned
  BY <1>2, <1>4 DEF Good, IsResult, NoResult
<1>6. Consumes(q, "IDENTIFIER", r)
  BY <1>4, TableNameConsumes
<1> QED
  BY <1>4, <1>5, <1>6 DEF Consumes, After

LEMMA DeleteAccepted ==
  ASSUME PInv, pc = "parse", p = NoResult, IsDeleteWhere(tokens), ParseDelete
  PROVE  ~ p'.error
<1>0. PICK i2 \in 1..Len(tokens), i3 \in 1..Len(tokens), i4 \in 1..Len(tokens),
           last \in 1..Len(tokens) :
        /\ i2 = 2 /\ i3 = 3 /\ i4 = 4 /\ last = Len(tokens) - 1 /\ IsInput(tokens)
        /\ tokens[i2].type = "FROM" /\ tokens[i3].type = "IDENTIFIER"
        /\ tokens[i4].type = "WHERE" /\ tokens[last].type = "SEMICOLON"
  <2>1. IsInput(tokens) /\ Len(tokens) \in Nat /\ Len(tokens) > 5
    BY TokenFacts DEF PInv, Inv, IsDeleteWhere
  <2>2. /\ 2 \in 1..Len(tokens) /\ 3 \in 1..Len(tokens) /\ 4 \in 1..Len(tokens)
        /\ Len(tokens) - 1 \in 1..Len(tokens)
    BY <2>1
  <2>3. /\ tokens[2].type = "FROM" /\ tokens[3].type = "IDENTIFIER"
        /\ tokens[4].type = "WHERE" /\ tokens[Len(tokens) - 1].type = "SEMICOLON"
    BY DEF IsDeleteWhere
  <2> QED
    BY <2>1, <2>2, <2>3
<1>1. current(p).type # "END_OF_FILE" /\ NoResult.position = 1 /\ ~ NoResult.error
  BY DEF ParseDelete, Begins, Is, NoResult
<1>2. PICK q : /\ q = Of("DELETE") /\ Good(q) /\ q.position = i2 /\ ~ q.returned /\ ~ q.error
               /\ q.whereIndex = 0
  <2>1. In("DELETE", Of("DELETE")) /\ ~ Of("DELETE").returned
        /\ Of("DELETE").position = p.position + 1
    BY <1>1, KindSet
  <2>2. advance(p).error = p.error /\ IsResult(advance(p))
    BY AdvanceGood DEF PInv, Inv, Good
  <2>3. Of("DELETE").error = p.error
    BY <2>2 DEF Of, IsResult, NoResult
  <2> QED
    BY <1>0, <1>1, <2>1, <2>3 DEF In
<1>3. PICK a : /\ a = consume(q, "FROM") /\ Good(a) /\ a.position = i3 /\ ~ a.returned
               /\ ~ a.error /\ a.whereIndex = 0
  <2>1. /\ Good(consume(q, "FROM")) /\ consume(q, "FROM").position = i2 + 1
        /\ ~ consume(q, "FROM").returned /\ consume(q, "FROM").error = q.error
    BY <1>0, <1>2, Consumed
  <2>2. After(q, consume(q, "FROM"))
    BY <1>0, <1>2, ConsumeConsumes DEF Consumes
  <2> QED
    BY <1>0, <1>2, <2>1, <2>2 DEF After
<1>4. PICK t : /\ t = consumeTableName(a) /\ Good(t) /\ t.position = i4 /\ ~ t.returned
               /\ ~ t.error /\ t.whereIndex = 0
  <2>1. /\ Good(consumeTableName(a)) /\ consumeTableName(a).position = i3 + 1
        /\ ~ consumeTableName(a).returned /\ consumeTableName(a).error = a.error
    BY <1>0, <1>3, TableNameConsumed
  <2>2. After(a, consumeTableName(a))
    BY <1>0, <1>3, TableNameConsumes DEF Consumes
  <2> QED
    BY <1>0, <1>3, <2>1, <2>2 DEF After
<1>5. PICK s : /\ s = advance(t) /\ Good(s) /\ s.position = 5 /\ ~ s.returned /\ ~ s.error
               /\ Is(t, "WHERE")
  <2>1. Is(t, "WHERE")
    BY <1>0, <1>4, TokenIs DEF Is, current
  <2>2. /\ Good(advance(t)) /\ advance(t).position = t.position + 1
        /\ advance(t).error = t.error /\ advance(t).returned = t.returned
    BY <1>4, AdvanceGood
  <2> QED
    BY <1>0, <1>4, <2>1, <2>2
<1>6. PICK r : /\ r = parseExpression(s) /\ r.index # 0 /\ ~ r.error /\ ~ r.returned
               /\ r.position = last /\ IsResult(r)
  <2>1. /\ parseExpression(s).index # 0 /\ parseExpression(s).error = s.error
        /\ parseExpression(s).position = Len(tokens) - 1
        /\ parseExpression(s).returned = s.returned
    BY <1>0, <1>5, ConditionFound
  <2>2. Reads(s, parseExpression(s))
    BY <1>0, <1>5, ExpressionRead
  <2> QED
    BY <1>0, <1>5, <2>1, <2>2 DEF Reads
<1>7. PICK w : w = parseWhere(t) /\ ~ w.returned /\ ~ w.error /\ w.position = last
  <2>1. requireExpression(s) = r
    BY <1>5, <1>6 DEF requireExpression
  <2>2. parseWhere(t) = [r EXCEPT !.whereIndex = r.index]
    BY <1>4, <1>5, <1>6, <2>1 DEF parseWhere
  <2> QED
    BY <1>6, <2>2 DEF IsResult, NoResult
<1>8. Good(w)
  BY <1>0, <1>4, <1>7, WhereParsed
<1>9. ~ consume(w, "SEMICOLON").error
  BY <1>0, <1>7, <1>8, Consumed
<1>10. p' = consume(parseWhere(consumeTableName(consume(Of("DELETE"), "FROM"))), "SEMICOLON")
  BY DEF ParseDelete, Done, Proceed, GoTo
<1> QED
  BY <1>2, <1>3, <1>4, <1>7, <1>9, <1>10

DInv ==
  tokens[1].type = "DELETE" =>
    \/ pc = "parse" /\ p = NoResult
    \/ pc = "done" /\ (IsDeleteWhere(tokens) => ~ p.error)

LEMMA DeleteInOneStep ==
  ASSUME PInv, DInv, [Next]_vars
  PROVE  DInv'
<1> SUFFICES ASSUME tokens'[1].type = "DELETE"
             PROVE  \/ pc' = "parse" /\ p' = NoResult
                    \/ pc' = "done" /\ (IsDeleteWhere(tokens') => ~ p'.error)
  BY DEF DInv, IsDeleteWhere, IsSentence
<1>1. CASE UNCHANGED vars
  BY <1>1 DEF DInv, vars
<1>2. CASE Step
  <2>0. tokens' = tokens
    BY <1>2 DEF Step, UnexpectedToken, ParseSelect, SelectColumn, EndOfSelectList,
       ParseFrom, ParseDelete, ParseUpdate, MoreAssignments, EndOfAssignments, ParseDrop,
       ParseInsert, ColumnName, EndOfColumnNames, ParseValues, NextValue, OutOfMemory,
       EndOfValueList, ParseEndOfValues, UnknownCreate, ParseCreateIndex, ParseCreateTable,
       BadTextLength, ColumnDefinition, Constraint, EndOfConstraints, EndOfColumns,
       Proceed, Done, BeginsColumn, InValueList
  <2>1. pc = "parse" /\ p = NoResult
    <3>1. pc # "done"
      BY <1>2 DEF Step, UnexpectedToken, ParseSelect, SelectColumn, EndOfSelectList,
         ParseFrom, ParseDelete, ParseUpdate, MoreAssignments, EndOfAssignments, ParseDrop,
         ParseInsert, ColumnName, EndOfColumnNames, ParseValues, NextValue, OutOfMemory,
         EndOfValueList, ParseEndOfValues, UnknownCreate, ParseCreateIndex, ParseCreateTable,
         BadTextLength, ColumnDefinition, Constraint, EndOfConstraints, EndOfColumns,
         Begins, BeginsColumn, InValueList
    <3> QED
      BY <2>0, <3>1 DEF DInv
  <2>2. current(p).type = "DELETE"
    <3>1. IsInput(tokens) /\ p.position = 1
      BY <2>1 DEF PInv, Inv, NoResult
    <3>2. 1 \in 1..Len(tokens)
      BY <3>1, TokenFacts
    <3> QED
      BY <2>0, <3>1, <3>2, TokenIs DEF current
  <2>3. ParseDelete
    BY <1>2, <2>1, <2>2 DEF Step, UnexpectedToken, ParseSelect, SelectColumn, EndOfSelectList,
       ParseFrom, ParseUpdate, MoreAssignments, EndOfAssignments, ParseDrop,
       ParseInsert, ColumnName, EndOfColumnNames, ParseValues, NextValue, OutOfMemory,
       EndOfValueList, ParseEndOfValues, UnknownCreate, ParseCreateIndex, ParseCreateTable,
       BadTextLength, ColumnDefinition, Constraint, EndOfConstraints, EndOfColumns,
       Begins, BeginsColumn, InValueList, Is, IsOneOf
  <2>4. pc' = "done"
    BY <2>3 DEF ParseDelete, Done, Proceed, GoTo
  <2> QED
    BY <2>0, <2>1, <2>3, <2>4, DeleteAccepted
<1>3. CASE Stop
  BY <1>1, <1>3 DEF Stop
<1> QED
  BY <1>1, <1>2, <1>3 DEF Next

(* Completeness of the recursive descent: no DELETE whose condition the    *)
(* grammar derives is refused, whatever its length and nesting.            *)
THEOREM Complete == Spec => []GrammaticalIsAccepted
<1>1. Init => PInv /\ DInv
  BY InitGood DEF Init, DInv
<1>2. PInv /\ DInv /\ [Next]_vars => PInv' /\ DInv'
  BY StepKept, DeleteInOneStep DEF Kept
<1>3. DInv => GrammaticalIsAccepted
  <2> SUFFICES ASSUME DInv, pc = "done", IsDeleteWhere(tokens) PROVE ~ p.error
    BY DEF GrammaticalIsAccepted, IsDeleteWhere
  <2>1. tokens[1].type = "DELETE"
    BY DEF IsDeleteWhere
  <2> QED
    BY <2>1 DEF DInv
<1> QED
  BY <1>1, <1>2, <1>3, PTL DEF Spec
=============================================================================
