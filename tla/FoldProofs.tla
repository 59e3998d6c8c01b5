----------------------------- MODULE FoldProofs -----------------------------
(* What a fold of a sequence computes: the last of the values that Op makes *)
(* of one another, one for each element.  The prover takes no operator as   *)
(* the parameter of a theorem, but this module has one, Op, which an        *)
(* INSTANCE gives its definition; its first argument is what the folded     *)
(* operation takes from where it is used.                                   *)
EXTENDS Integers, Sequences, Folds, WellFoundedInduction, TLAPS

CONSTANTS
    Op(_, _, _),
    Good(_, _, _)   \* what is to hold of the value after n elements

Greatest(u) == CHOOSE x \in u : \A y \in u : x >= y

(* FoldLeft of SequencesExt with this operation, written out: an INSTANCE   *)
(* repeats what its module extends, so this one extends little.             *)
FoldOf(c, b, s) ==
    MapThenFoldSet(LAMBDA x, y : Op(c, y, x), b, LAMBDA i : s[i], Greatest, DOMAIN s)

(* Induction over the naturals: a set that holds 0 and the successor of     *)
(* each of its members holds them all.                                      *)
LEMMA NatSetInduction ==
    ASSUME NEW T \in SUBSET Nat, 0 \in T, \A n \in T : n + 1 \in T
    PROVE  T = Nat
<1>1. SUFFICES ASSUME Nat \ T # {} PROVE FALSE
    OBVIOUS
<1>2. IsWellFoundedOn(OpToRel(<, Nat), Nat)
    BY NatLessThanWellFounded
<1>3. PICK x \in Nat \ T : \A y \in Nat \ T : <<y, x>> \notin OpToRel(<, Nat)
    <2>1. Nat \ T \subseteq Nat
        OBVIOUS
    <2> HIDE DEF IsWellFoundedOn
    <2> QED BY <1>1, <1>2, <2>1, WFMin, Zenon
<1>4. \A y \in Nat \ T : ~(y < x)
    BY <1>3, Zenon DEF OpToRel
<1>5. x # 0 /\ x - 1 \in Nat
    OBVIOUS
<1>6. x - 1 \in T
    BY <1>4, <1>5
<1> QED BY <1>5, <1>6

(* k is the table of the folds over the subsequences of the first m.        *)
Folding(k, c, b, s, m) ==
    k = [u \in SUBSET (1 .. m) |-> IF u = {} THEN b ELSE Op(c, k[u \ {Greatest(u)}], s[Greatest(u)])]

LEMMA GreatestOfNat ==
    ASSUME NEW m \in Nat, NEW u \in SUBSET (1 .. m + 1), m + 1 \in u
    PROVE  Greatest(u) = m + 1
<1>1. \A y \in u : m + 1 >= y
  OBVIOUS
<1>2. \A x \in u : (\A y \in u : x >= y) => x = m + 1
  OBVIOUS
<1> QED
  BY <1>1, <1>2, Zenon DEF Greatest

(* Such a table exists.                                                     *)
LEMMA FoldingExists ==
    ASSUME NEW c, NEW b, NEW s, NEW m \in Nat
    PROVE  \E k : Folding(k, c, b, s, m)
<1> DEFINE T == {n \in Nat : \E k : Folding(k, c, b, s, n)}
<1>1. 0 \in T
  <2> DEFINE k == [u \in SUBSET (1 .. 0) |-> b]
  <2>1. \A u \in SUBSET (1 .. 0) : u = {}
    OBVIOUS
  <2>2. k = [u \in SUBSET (1 .. 0) |-> IF u = {} THEN b ELSE Op(c, k[u \ {Greatest(u)}], s[Greatest(u)])]
    BY <2>1
  <2>3. Folding(k, c, b, s, 0)
    BY <2>2 DEF Folding
  <2> QED
    BY <2>3
<1>2. ASSUME NEW n \in T PROVE n + 1 \in T
  <2>1. n \in Nat /\ n + 1 \in Nat
    OBVIOUS
  <2>2. PICK k : Folding(k, c, b, s, n)
    OBVIOUS
  <2> DEFINE j == [u \in SUBSET (1 .. n + 1) |->
                      IF n + 1 \in u THEN Op(c, k[u \ {n + 1}], s[n + 1]) ELSE k[u]]
  <2>3. ASSUME NEW u \in SUBSET (1 .. n + 1)
        PROVE  j[u] = IF u = {} THEN b ELSE Op(c, j[u \ {Greatest(u)}], s[Greatest(u)])
    <3>1. CASE n + 1 \in u
      <4> DEFINE v == u \ {n + 1}
      <4>1. v \in SUBSET (1 .. n) /\ v \in SUBSET (1 .. n + 1) /\ n + 1 \notin v
        BY <2>1
      <4>2. j[v] = k[v]
        BY <4>1
      <4>3. j[u] = Op(c, k[v], s[n + 1])
        BY <3>1
      <4>4. Greatest(u) = n + 1
        BY <2>1, <3>1, GreatestOfNat
      <4> HIDE DEF j
      <4> QED
        BY <3>1, <4>2, <4>3, <4>4
    <3>2. CASE n + 1 \notin u
      <4>1. u \in SUBSET (1 .. n)
        BY <2>1, <3>2
      <4>2. k[u] = IF u = {} THEN b ELSE Op(c, k[u \ {Greatest(u)}], s[Greatest(u)])
        BY <2>2, <4>1, Zenon DEF Folding
      <4>3. u \ {Greatest(u)} \in SUBSET (1 .. n + 1) /\ n + 1 \notin u \ {Greatest(u)}
        BY <3>2
      <4>4. j[u \ {Greatest(u)}] = k[u \ {Greatest(u)}] /\ j[u] = k[u]
        BY <3>2, <4>3
      <4> HIDE DEF j
      <4> QED
        BY <4>2, <4>4
    <3> QED
      BY <3>1, <3>2
  <2>4. j = [u \in SUBSET (1 .. n + 1) |-> j[u]]
    OBVIOUS
  <2> HIDE DEF j
  <2>5. Folding(j, c, b, s, n + 1)
    BY <2>3, <2>4, Zenon DEF Folding
  <2> QED
    BY <2>1, <2>5
<1>3. T = Nat
  <2>1. T \in SUBSET Nat
    OBVIOUS
  <2> HIDE DEF T
  <2> QED
    BY <1>1, <1>2, <2>1, NatSetInduction
<1> QED
  BY <1>3

(* The values a fold goes through.                                          *)
THEOREM FoldTrace ==
    \A c, b, s : Len(s) \in Nat /\ DOMAIN s = 1 .. Len(s) =>
        \E f : /\ f[0] = b
               /\ \A n \in 0 .. Len(s) - 1 : f[n + 1] = Op(c, f[n], s[n + 1])
               /\ f[Len(s)] = FoldOf(c, b, s)
<1> SUFFICES ASSUME NEW c, NEW b, NEW s, Len(s) \in Nat, DOMAIN s = 1 .. Len(s)
             PROVE  \E f : /\ f[0] = b
                           /\ \A n \in 0 .. Len(s) - 1 : f[n + 1] = Op(c, f[n], s[n + 1])
                           /\ f[Len(s)] = FoldOf(c, b, s)
  OBVIOUS
<1> DEFINE m == Len(s)
           k == CHOOSE k : Folding(k, c, b, s, m)
           f == [n \in 0 .. m |-> k[1 .. n]]
<1>1. Folding(k, c, b, s, m)
  BY FoldingExists
<1>2. FoldOf(c, b, s) = k[1 .. m]
  BY Zenon DEF FoldOf, MapThenFoldSet, Folding
<1> HIDE DEF k
<1>3. \A u \in SUBSET (1 .. m) : k[u] = IF u = {} THEN b ELSE Op(c, k[u \ {Greatest(u)}], s[Greatest(u)])
  BY <1>1, Zenon DEF Folding
<1>4. f[0] = b
  <2>1. 1 .. 0 = {} /\ f[0] = k[1 .. 0]
    OBVIOUS
  <2> HIDE DEF f
  <2> QED
    BY <1>3, <2>1
<1>5. ASSUME NEW n \in 0 .. m - 1 PROVE f[n + 1] = Op(c, f[n], s[n + 1])
  <2>1. f[n + 1] = k[1 .. n + 1] /\ f[n] = k[1 .. n]
    OBVIOUS
  <2> DEFINE u == 1 .. n + 1
  <2>2. n \in Nat /\ u \in SUBSET (1 .. m) /\ n + 1 \in u /\ u # {}
    OBVIOUS
  <2>3. u \ {n + 1} = 1 .. n
    OBVIOUS
  <2>4. Greatest(u) = n + 1
    BY <2>2, GreatestOfNat
  <2> HIDE DEF u, f
  <2>5. k[u] = Op(c, k[u \ {Greatest(u)}], s[Greatest(u)])
    BY <1>3, <2>2
  <2>6. k[u] = Op(c, k[1 .. n], s[n + 1])
    BY <2>3, <2>4, <2>5
  <2> QED
    BY <2>1, <2>6 DEF u
<1>6. f[m] = FoldOf(c, b, s)
  BY <1>2
<1> HIDE DEF f
<1> QED
  BY <1>4, <1>5, <1>6

(* What holds at first and after each step holds of the fold.               *)
THEOREM FoldInvariant ==
    \A c, b, s :
        /\ Len(s) \in Nat /\ DOMAIN s = 1 .. Len(s) /\ Good(c, 0, b)
        /\ \A n \in 0 .. Len(s) - 1 : \A v : Good(c, n, v) => Good(c, n + 1, Op(c, v, s[n + 1]))
        => Good(c, Len(s), FoldOf(c, b, s))
<1> SUFFICES ASSUME NEW c, NEW b, NEW s, Len(s) \in Nat, DOMAIN s = 1 .. Len(s), Good(c, 0, b),
                    \A n \in 0 .. Len(s) - 1 : \A v : Good(c, n, v) => Good(c, n + 1, Op(c, v, s[n + 1]))
             PROVE  Good(c, Len(s), FoldOf(c, b, s))
  BY Zenon
<1>1. PICK f : /\ f[0] = b
               /\ \A n \in 0 .. Len(s) - 1 : f[n + 1] = Op(c, f[n], s[n + 1])
               /\ f[Len(s)] = FoldOf(c, b, s)
  <2>1. Len(s) \in Nat /\ DOMAIN s = 1 .. Len(s)
    OBVIOUS
  <2> QED
    BY ONLY <2>1, FoldTrace
<1> DEFINE T == {n \in Nat : n <= Len(s) => Good(c, n, f[n])}
<1>2. 0 \in T
  <2>1. Good(c, 0, f[0])
    BY <1>1, Zenon
  <2> QED
    BY <2>1
<1>3. ASSUME NEW n \in T PROVE n + 1 \in T
  <2> SUFFICES ASSUME n + 1 <= Len(s) PROVE Good(c, n + 1, f[n + 1])
    OBVIOUS
  <2>1. n \in 0 .. Len(s) - 1 /\ n <= Len(s)
    OBVIOUS
  <2>2. Good(c, n, f[n])
    BY <2>1
  <2> HIDE DEF T
  <2>3. f[n + 1] = Op(c, f[n], s[n + 1])
    BY <1>1, <2>1, Zenon
  <2>4. Good(c, n + 1, Op(c, f[n], s[n + 1]))
    BY <2>1, <2>2, Zenon
  <2> QED
    BY <2>3, <2>4, Zenon
<1>4. T = Nat
  <2>1. T \in SUBSET Nat
    OBVIOUS
  <2> HIDE DEF T
  <2> QED
    BY <1>2, <1>3, <2>1, NatSetInduction
<1>5. Good(c, Len(s), f[Len(s)])
  <2>1. Len(s) \in T /\ Len(s) <= Len(s)
    BY <1>4
  <2> QED
    BY <2>1
<1> QED
  BY <1>1, <1>5, Zenon

(* A fold of nothing, and of one element more.                              *)
THEOREM FoldEmpty == \A c, b : FoldOf(c, b, <<>>) = b
<1> SUFFICES ASSUME NEW c, NEW b PROVE FoldOf(c, b, <<>>) = b
  OBVIOUS
<1> PICK s : s = <<>>
  OBVIOUS
<1>1. Len(s) = 0 /\ Len(s) \in Nat /\ DOMAIN s = 1 .. Len(s)
  OBVIOUS
<1>2. PICK f : f[0] = b /\ f[Len(s)] = FoldOf(c, b, s)
  BY ONLY <1>1, FoldTrace
<1> QED
  BY <1>1, <1>2

THEOREM FoldAppend ==
    \A c, b, R : \A s \in Seq(R), e \in R : FoldOf(c, b, Append(s, e)) = Op(c, FoldOf(c, b, s), e)
<1> SUFFICES ASSUME NEW c, NEW b, NEW R, NEW s \in Seq(R), NEW e \in R
             PROVE  FoldOf(c, b, Append(s, e)) = Op(c, FoldOf(c, b, s), e)
  OBVIOUS
<1> PICK t : t = Append(s, e)
  OBVIOUS
<1>1. Len(s) \in Nat /\ DOMAIN s = 1 .. Len(s)
  OBVIOUS
<1>2. /\ Len(t) = Len(s) + 1 /\ Len(t) \in Nat /\ DOMAIN t = 1 .. Len(t) /\ t[Len(s) + 1] = e
      /\ \A n \in 1 .. Len(s) : t[n] = s[n]
  OBVIOUS
<1>3. PICK f : /\ f[0] = b
               /\ \A n \in 0 .. Len(s) - 1 : f[n + 1] = Op(c, f[n], s[n + 1])
               /\ f[Len(s)] = FoldOf(c, b, s)
  BY ONLY <1>1, FoldTrace
<1>4. PICK g : /\ g[0] = b
               /\ \A n \in 0 .. Len(t) - 1 : g[n + 1] = Op(c, g[n], t[n + 1])
               /\ g[Len(t)] = FoldOf(c, b, t)
  BY ONLY <1>2, FoldTrace
<1> DEFINE T == {n \in Nat : n <= Len(s) => f[n] = g[n]}
<1>5. 0 \in T
  BY <1>3, <1>4
<1>6. ASSUME NEW n \in T PROVE n + 1 \in T
  <2> SUFFICES ASSUME n + 1 <= Len(s) PROVE f[n + 1] = g[n + 1]
    OBVIOUS
  <2>1. n \in 0 .. Len(s) - 1 /\ n \in 0 .. Len(t) - 1 /\ n + 1 \in 1 .. Len(s) /\ f[n] = g[n]
    BY <1>1, <1>2
  <2> HIDE DEF T
  <2>2. f[n + 1] = Op(c, f[n], s[n + 1])
    BY <1>3, <2>1, Zenon
  <2>3. g[n + 1] = Op(c, g[n], t[n + 1])
    BY <1>4, <2>1, Zenon
  <2>4. t[n + 1] = s[n + 1]
    BY <1>2, <2>1, Zenon
  <2> QED
    BY <2>1, <2>2, <2>3, <2>4, Zenon
<1>7. T = Nat
  <2>1. T \in SUBSET Nat
    OBVIOUS
  <2> HIDE DEF T
  <2> QED
    BY <1>5, <1>6, <2>1, NatSetInduction
<1>8. f[Len(s)] = g[Len(s)]
  <2>1. Len(s) \in T /\ Len(s) <= Len(s)
    BY <1>1, <1>7
  <2> QED
    BY <2>1
<1>9. Len(s) \in 0 .. Len(t) - 1
  BY <1>1, <1>2
<1>10. g[Len(s) + 1] = Op(c, g[Len(s)], t[Len(s) + 1])
  BY <1>4, <1>9, Zenon
<1> QED
  BY <1>2, <1>3, <1>4, <1>8, <1>10

=============================================================================
