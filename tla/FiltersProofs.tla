---------------------------- MODULE FiltersProofs ----------------------------
(* What stays of a filtered sequence.  The library's induction theorems     *)
(* take the induction formula as an operator; here induction is over the    *)
(* set of the numbers for which the formula holds.                          *)
EXTENDS Filters, SequencesExt, SequenceTheorems, WellFoundedInduction, TLAPS

(* Induction over the naturals: a set that holds 0 and the successor of     *)
(* each of its members holds them all.                                      *)
LEMMA NatSetInduction ==
    ASSUME NEW T \in SUBSET Nat, 0 \in T, \A n \in T : n + 1 \in T
    PROVE  T = Nat
<1>1. SUFFICES ASSUME Nat \ T # {} PROVE FALSE
    OBVIOUS
<1>2. IsWellFoundedOn(OpToRel(<, Nat), Nat)
    BY NatLessThanWellFounded
<1>3. PICK x \in Nat \ T : \A y \in Nat \ T : <<y, x>> \notin OpToRel(<, Nat)
    <2>1. Nat \ T \subseteq Nat
        OBVIOUS
    <2> HIDE DEF IsWellFoundedOn
    <2> QED BY <1>1, <1>2, <2>1, WFMin, Zenon
<1>4. \A y \in Nat \ T : ~(y < x)
    BY <1>3, Zenon DEF OpToRel
<1>5. x # 0 /\ x - 1 \in Nat
    OBVIOUS
<1>6. x - 1 \in T
    BY <1>4, <1>5
<1> QED BY <1>5, <1>6

(* k is the table of the prefixes of q, filtered.                           *)
Filtering(k, q, S, m) ==
    k = [n \in 0 .. m |->
            IF n = 0 THEN <<>>
            ELSE IF q[n] \in S THEN Append(k[n - 1], q[n]) ELSE k[n - 1]]

(* Such a table exists.                                                     *)
LEMMA FilteringExists ==
    ASSUME NEW q, NEW S, NEW m \in Nat
    PROVE  \E k : Filtering(k, q, S, m)
<1> DEFINE T == {n \in Nat : \E k : Filtering(k, q, S, n)}
<1>1. 0 \in T
    <2> DEFINE k == [n \in 0 .. 0 |-> <<>>]
    <2>1. k = [n \in 0 .. 0 |-> IF n = 0 THEN <<>>
                  ELSE IF q[n] \in S THEN Append(k[n - 1], q[n]) ELSE k[n - 1]]
        OBVIOUS
    <2>2. Filtering(k, q, S, 0)
        BY <2>1 DEF Filtering
    <2> QED BY <2>2
<1>2. ASSUME NEW n \in T PROVE n + 1 \in T
    <2>1. n \in Nat /\ n + 1 \in Nat
        OBVIOUS
    <2>2. PICK k : Filtering(k, q, S, n)
        OBVIOUS
    <2> DEFINE next == IF q[n + 1] \in S THEN Append(k[n], q[n + 1]) ELSE k[n]
               j    == [i \in 0 .. n + 1 |-> IF i <= n THEN k[i] ELSE next]
    <2> HIDE DEF next
    <2>3. \A i \in 0 .. n : j[i] = k[i]
        BY <2>1
    <2>4. j[n + 1] = next
        BY <2>1
    <2> HIDE DEF j
    <2>5. ASSUME NEW i \in 0 .. n + 1
          PROVE  j[i] = IF i = 0 THEN <<>>
                        ELSE IF q[i] \in S THEN Append(j[i - 1], q[i]) ELSE j[i - 1]
        <3>1. CASE i = 0
            BY <2>1, <2>2, <2>3, <3>1 DEF Filtering
        <3>2. CASE i # 0 /\ i <= n
            <4>1. i \in 0 .. n /\ i - 1 \in 0 .. n
                BY <2>1, <3>2
            <4>2. k[i] = IF q[i] \in S THEN Append(k[i - 1], q[i]) ELSE k[i - 1]
                BY <2>2, <3>2, <4>1 DEF Filtering
            <4> QED BY <2>3, <3>2, <4>1, <4>2
        <3>3. CASE i = n + 1
            <4>1. n \in 0 .. n /\ i # 0 /\ i - 1 = n
                BY <2>1, <3>3
            <4>2. j[i - 1] = k[n]
                BY <2>3, <4>1
            <4> QED BY <2>4, <3>3, <4>1, <4>2 DEF next
        <3> QED BY <2>1, <3>1, <3>2, <3>3
    <2>6. j = [i \in 0 .. n + 1 |-> j[i]]
        BY DEF j
    <2>7. Filtering(j, q, S, n + 1)
        BY <2>5, <2>6, Zenon DEF Filtering
    <2> QED BY <2>1, <2>7
<1>3. T = Nat
    <2>1. T \in SUBSET Nat
        OBVIOUS
    <2> HIDE DEF T
    <2> QED BY <1>1, <1>2, <2>1, NatSetInduction
<1> QED BY <1>3

(* Keep is the last entry of such a table.                                  *)
LEMMA KeepIsFiltering ==
    ASSUME NEW q, NEW S, Len(q) \in Nat
    PROVE  \E k : Filtering(k, q, S, Len(q)) /\ Keep(q, S) = k[Len(q)]
<1> DEFINE k == CHOOSE k : Filtering(k, q, S, Len(q))
<1>1. Filtering(k, q, S, Len(q))
    BY FilteringExists
<1>2. Keep(q, S) = k[Len(q)]
    BY Zenon DEF Keep, Filtering
<1> QED BY <1>1, <1>2

(* s is a subsequence of the first n elements of q: the ones in S, in order. *)
Selected(s, q, S, n) ==
    /\ Len(s) <= n
    /\ \A a \in 1 .. Len(s) : s[a] \in S /\ \E i \in 1 .. n : s[a] = q[i]
    /\ \A a, b \in 1 .. Len(s) :
          a < b => \E i, j \in 1 .. n : i < j /\ s[a] = q[i] /\ s[b] = q[j]
    /\ \A i \in 1 .. n : q[i] \in S => \E a \in 1 .. Len(s) : s[a] = q[i]

LEMMA SelectedAppend ==
    ASSUME NEW R, NEW q \in Seq(R), NEW S, NEW n \in Nat, n + 1 <= Len(q),
           NEW s \in Seq(R), Selected(s, q, S, n), q[n + 1] \in S
    PROVE  Append(s, q[n + 1]) \in Seq(R) /\ Selected(Append(s, q[n + 1]), q, S, n + 1)
<1> DEFINE e == q[n + 1]
           t == Append(s, e)
<1>1. e \in R /\ e = q[n + 1] /\ e \in S
    BY ElementOfSeq
<1> HIDE DEF e
<1>2. /\ t \in Seq(R) /\ Len(t) = Len(s) + 1 /\ Len(s) \in Nat
      /\ \A i \in 1 .. Len(s) : t[i] = s[i]
      /\ t[Len(s) + 1] = e
    BY <1>1, AppendProperties
<1> HIDE DEF t
<1>3. \A i \in 1 .. n : i \in 1 .. n + 1
    OBVIOUS
<1>4. Len(t) <= n + 1
    BY <1>2 DEF Selected
<1>5. \A a \in 1 .. Len(t) : a \in 1 .. Len(s) \/ a = Len(s) + 1
    BY <1>2
<1>6. \A a \in 1 .. Len(t) : t[a] \in S /\ \E i \in 1 .. n + 1 : t[a] = q[i]
    <2> TAKE a \in 1 .. Len(t)
    <2>1. n + 1 \in 1 .. n + 1
        OBVIOUS
    <2>2. CASE a \in 1 .. Len(s)
        <3>1. s[a] \in S /\ \E i \in 1 .. n : s[a] = q[i]
            BY <2>2, Zenon DEF Selected
        <3> QED BY <1>2, <1>3, <2>2, <3>1, Zenon
    <2>3. CASE a = Len(s) + 1
        BY <1>1, <1>2, <2>1, <2>3, Zenon
    <2> QED BY <1>5, <2>2, <2>3, Zenon
<1>7. ASSUME NEW a \in 1 .. Len(t), NEW b \in 1 .. Len(t), a < b
      PROVE  \E i, j \in 1 .. n + 1 : i < j /\ t[a] = q[i] /\ t[b] = q[j]
    <2>1. a \in 1 .. Len(s)
        BY <1>2, <1>5, <1>7
    <2>2. CASE b \in 1 .. Len(s)
        <3>1. PICK i \in 1 .. n, j \in 1 .. n : i < j /\ s[a] = q[i] /\ s[b] = q[j]
            BY <1>7, <2>1, <2>2 DEF Selected
        <3> QED BY <1>2, <1>3, <2>1, <2>2, <3>1, Zenon
    <2>3. CASE b = Len(s) + 1
        <3>1. PICK i \in 1 .. n : s[a] = q[i]
            BY <2>1 DEF Selected
        <3>2. i \in 1 .. n + 1 /\ n + 1 \in 1 .. n + 1 /\ i < n + 1
            OBVIOUS
        <3> QED BY <1>1, <1>2, <2>1, <2>3, <3>1, <3>2, Zenon
    <2> QED BY <1>5, <2>2, <2>3
<1>8. ASSUME NEW i \in 1 .. n + 1, q[i] \in S
      PROVE  \E a \in 1 .. Len(t) : t[a] = q[i]
    <2>1. CASE i \in 1 .. n
        <3>1. PICK a \in 1 .. Len(s) : s[a] = q[i]
            BY <1>8, <2>1, Zenon DEF Selected
        <3>2. a \in 1 .. Len(t)
            BY <1>2
        <3> QED BY <1>2, <3>1, <3>2
    <2>2. CASE i = n + 1
        <3>1. Len(s) + 1 \in 1 .. Len(t)
            BY <1>2
        <3> QED BY <1>1, <1>2, <2>2, <3>1
    <2> QED BY <2>1, <2>2
<1>9. Selected(t, q, S, n + 1)
    BY <1>4, <1>6, <1>7, <1>8, Zenon DEF Selected
<1> QED BY <1>2, <1>9 DEF e, t

LEMMA SelectedSkip ==
    ASSUME NEW q, NEW S, NEW n \in Nat, NEW s, Len(s) \in Nat, Selected(s, q, S, n), q[n + 1] \notin S
    PROVE  Selected(s, q, S, n + 1)
<1>1. \A i \in 1 .. n : i \in 1 .. n + 1
    OBVIOUS
<1>2. \A i \in 1 .. n + 1 : i \in 1 .. n \/ i = n + 1
    OBVIOUS
<1>3. Len(s) <= n + 1
    BY DEF Selected
<1>4. \A a, b \in 1 .. Len(s) :
          a < b => \E i, j \in 1 .. n + 1 : i < j /\ s[a] = q[i] /\ s[b] = q[j]
    <2> SUFFICES ASSUME NEW a \in 1 .. Len(s), NEW b \in 1 .. Len(s), a < b
                 PROVE  \E i, j \in 1 .. n + 1 : i < j /\ s[a] = q[i] /\ s[b] = q[j]
        OBVIOUS
    <2>1. PICK i \in 1 .. n, j \in 1 .. n : i < j /\ s[a] = q[i] /\ s[b] = q[j]
        BY DEF Selected
    <2> QED BY <1>1, <2>1, Zenon
<1>5. \A a \in 1 .. Len(s) : s[a] \in S /\ \E i \in 1 .. n + 1 : s[a] = q[i]
    BY <1>1, Zenon DEF Selected
<1>6. \A i \in 1 .. n + 1 : q[i] \in S => \E a \in 1 .. Len(s) : s[a] = q[i]
    BY <1>2, Zenon DEF Selected
<1> QED BY <1>3, <1>4, <1>5, <1>6 DEF Selected

(* Keep(q, S) is the subsequence of q of its elements in S: only these, all *)
(* of these, in the order of q.                                             *)
LEMMA KeepSelects ==
    ASSUME NEW R, NEW q \in Seq(R), NEW S
    PROVE  Keep(q, S) \in Seq(R) /\ Selected(Keep(q, S), q, S, Len(q))
<1>1. Len(q) \in Nat
    OBVIOUS
<1>2. PICK k : Filtering(k, q, S, Len(q)) /\ Keep(q, S) = k[Len(q)]
    BY <1>1, KeepIsFiltering
<1> DEFINE T == {n \in Nat : n <= Len(q) => k[n] \in Seq(R) /\ Selected(k[n], q, S, n)}
<1>3. 0 \in T
    <2>1. k[0] = <<>>
        BY <1>1, <1>2 DEF Filtering
    <2>2. <<>> \in Seq(R) /\ Selected(<<>>, q, S, 0)
        BY EmptySeq DEF Selected
    <2> QED BY <2>1, <2>2
<1>4. ASSUME NEW n \in T PROVE n + 1 \in T
    <2> SUFFICES ASSUME n + 1 <= Len(q)
                 PROVE  k[n + 1] \in Seq(R) /\ Selected(k[n + 1], q, S, n + 1)
        OBVIOUS
    <2>1. n \in Nat /\ n + 1 \in 0 .. Len(q) /\ n + 1 # 0 /\ (n + 1) - 1 = n
        BY <1>1
    <2>2. k[n] \in Seq(R) /\ Selected(k[n], q, S, n) /\ Len(k[n]) \in Nat
        BY <1>1, <2>1
    <2>3. k[n + 1] = IF q[n + 1] \in S THEN Append(k[n], q[n + 1]) ELSE k[n]
        <3>1. k[n + 1] = IF q[n + 1] \in S THEN Append(k[(n + 1) - 1], q[n + 1]) ELSE k[(n + 1) - 1]
            BY <1>2, <2>1, Zenon DEF Filtering
        <3> QED BY <2>1, <3>1
    <2>4. CASE q[n + 1] \in S
        BY <2>1, <2>2, <2>3, <2>4, SelectedAppend
    <2>5. CASE q[n + 1] \notin S
        BY <2>1, <2>2, <2>3, <2>5, SelectedSkip
    <2> QED BY <2>4, <2>5
<1>5. T \in SUBSET Nat
    OBVIOUS
<1>6. T = Nat
    <2> HIDE DEF T
    <2> QED BY <1>3, <1>4, <1>5, NatSetInduction
<1> QED BY <1>1, <1>2, <1>6

----------------------------------------------------------------------------
(* Subsequences.                                                            *)

(* s is a subsequence of q: each of its elements, and each two in their     *)
(* order, are elements of q.                                                *)
Within(s, q) ==
    /\ \A a \in DOMAIN s : \E i \in DOMAIN q : s[a] = q[i]
    /\ \A a, b \in DOMAIN s :
          a < b => \E i, j \in DOMAIN q : i < j /\ s[a] = q[i] /\ s[b] = q[j]

LEMMA WithinSelf ==
    ASSUME NEW q
    PROVE  Within(q, q)
<1>1. \A a \in DOMAIN q : \E i \in DOMAIN q : q[a] = q[i]
    OBVIOUS
<1>2. \A a, b \in DOMAIN q : a < b => \E i, j \in DOMAIN q : i < j /\ q[a] = q[i] /\ q[b] = q[j]
    OBVIOUS
<1> QED BY <1>1, <1>2 DEF Within

LEMMA WithinTransitive ==
    ASSUME NEW s, NEW p, NEW q, Within(s, p), Within(p, q)
    PROVE  Within(s, q)
<1>1. ASSUME NEW a \in DOMAIN s PROVE \E i \in DOMAIN q : s[a] = q[i]
    <2>1. PICK i \in DOMAIN p : s[a] = p[i]
        BY DEF Within
    <2>2. PICK j \in DOMAIN q : p[i] = q[j]
        BY DEF Within
    <2> QED BY <2>1, <2>2, Zenon
<1>2. ASSUME NEW a \in DOMAIN s, NEW b \in DOMAIN s, a < b
      PROVE  \E i, j \in DOMAIN q : i < j /\ s[a] = q[i] /\ s[b] = q[j]
    <2>1. PICK i \in DOMAIN p, j \in DOMAIN p : i < j /\ s[a] = p[i] /\ s[b] = p[j]
        BY <1>2 DEF Within
    <2>2. PICK k \in DOMAIN q, l \in DOMAIN q : k < l /\ p[i] = q[k] /\ p[j] = q[l]
        BY <2>1 DEF Within
    <2> QED BY <2>1, <2>2, Zenon
<1> QED BY <1>1, <1>2, Zenon DEF Within

LEMMA KeepWithin ==
    ASSUME NEW R, NEW q \in Seq(R), NEW S
    PROVE  /\ Keep(q, S) \in Seq(R) /\ Within(Keep(q, S), q)
           /\ \A a \in DOMAIN Keep(q, S) : Keep(q, S)[a] \in S
<1> DEFINE s == Keep(q, S)
<1>1. s \in Seq(R) /\ Selected(s, q, S, Len(q))
    BY KeepSelects
<1>2. DOMAIN s = 1 .. Len(s) /\ DOMAIN q = 1 .. Len(q)
    BY <1>1
<1> HIDE DEF s
<1>3. \A a \in DOMAIN s : s[a] \in S /\ \E i \in DOMAIN q : s[a] = q[i]
    BY <1>1, <1>2, Zenon DEF Selected
<1>4. \A a, b \in DOMAIN s :
          a < b => \E i, j \in DOMAIN q : i < j /\ s[a] = q[i] /\ s[b] = q[j]
    <2> SUFFICES ASSUME NEW a \in DOMAIN s, NEW b \in DOMAIN s, a < b
                 PROVE  \E i, j \in DOMAIN q : i < j /\ s[a] = q[i] /\ s[b] = q[j]
        OBVIOUS
    <2>1. PICK i \in 1 .. Len(q), j \in 1 .. Len(q) : i < j /\ s[a] = q[i] /\ s[b] = q[j]
        BY <1>1, <1>2 DEF Selected
    <2> QED BY <1>2, <2>1, Zenon
<1>5. Within(s, q)
    BY <1>3, <1>4, Zenon DEF Within
<1> QED BY <1>1, <1>3, <1>5 DEF s

(* An element is taken out: those behind it close up.                       *)
LEMMA RemoveAtShifts ==
    ASSUME NEW R, NEW q \in Seq(R), NEW k \in DOMAIN q
    PROVE  /\ RemoveAt(q, k) \in Seq(R) /\ Len(RemoveAt(q, k)) = Len(q) - 1
           /\ \A j \in 1 .. (Len(q) - 1) : RemoveAt(q, k)[j] = IF j < k THEN q[j] ELSE q[j + 1]
<1> DEFINE a == SubSeq(q, 1, k - 1)
           b == SubSeq(q, k + 1, Len(q))
<1>1. RemoveAt(q, k) = a \o b
    BY DEF RemoveAt
<1>2. k \in 1 .. Len(q) /\ Len(q) \in Nat /\ \A j \in 1 .. Len(q) : q[j] \in R
    BY ElementOfSeq
<1>3. /\ a \in Seq(R) /\ Len(a) = k - 1
      /\ \A j \in 1 .. k - 1 : a[j] = q[j]
    BY <1>2, SubSeqProperties
<1>4. /\ b \in Seq(R) /\ Len(b) = Len(q) - k
      /\ \A j \in 1 .. Len(q) - k : b[j] = q[k + j]
    <2>1. \A j \in k + 1 .. Len(q) : q[j] \in R
        BY <1>2
    <2> QED BY <1>2, <2>1, SubSeqProperties
<1> HIDE DEF a, b
<1>5. /\ a \o b \in Seq(R) /\ Len(a \o b) = Len(q) - 1
      /\ \A i \in 1 .. Len(a) + Len(b) : (a \o b)[i] = IF i <= Len(a) THEN a[i] ELSE b[i - Len(a)]
    <2>1. a \o b \in Seq(R) /\ Len(a \o b) = Len(a) + Len(b)
        BY <1>3, <1>4, ConcatProperties, Zenon
    <2>2. \A i \in 1 .. Len(a) + Len(b) : (a \o b)[i] = IF i <= Len(a) THEN a[i] ELSE b[i - Len(a)]
        BY <1>3, <1>4, ConcatProperties, Zenon
    <2>3. Len(a) + Len(b) = Len(q) - 1
        BY <1>2, <1>3, <1>4
    <2> QED BY <2>1, <2>2, <2>3, Zenon
<1>6. ASSUME NEW j \in 1 .. (Len(q) - 1)
      PROVE  (a \o b)[j] = IF j < k THEN q[j] ELSE q[j + 1]
    <2>1. j \in 1 .. Len(a) + Len(b)
        BY <1>2, <1>3, <1>4
    <2>2. (a \o b)[j] = IF j <= Len(a) THEN a[j] ELSE b[j - Len(a)]
        BY <1>5, <2>1
    <2>3. CASE j < k
        BY <1>2, <1>3, <2>2, <2>3
    <2>4. CASE ~ (j < k)
        <3>1. j - (k - 1) \in 1 .. Len(q) - k /\ k + (j - (k - 1)) = j + 1
            BY <1>2, <2>4
        <3>2. b[j - (k - 1)] = q[j + 1]
            BY <1>4, <3>1
        <3> QED BY <1>2, <1>3, <2>2, <2>4, <3>2
    <2> QED BY <2>3, <2>4
<1> QED BY <1>1, <1>5, <1>6

LEMMA RemoveAtWithin ==
    ASSUME NEW R, NEW q \in Seq(R), NEW k \in DOMAIN q
    PROVE  /\ RemoveAt(q, k) \in Seq(R) /\ Within(RemoveAt(q, k), q)
           /\ \A a \in DOMAIN RemoveAt(q, k) : \E i \in DOMAIN q \ {k} : RemoveAt(q, k)[a] = q[i]
<1> DEFINE s == RemoveAt(q, k)
           at(j) == IF j < k THEN j ELSE j + 1
<1>1. s \in Seq(R) /\ Len(s) = Len(q) - 1
      /\ \A j \in 1 .. (Len(q) - 1) : s[j] = IF j < k THEN q[j] ELSE q[j + 1]
    BY RemoveAtShifts
<1> HIDE DEF s
<1>2. \A j \in DOMAIN s : at(j) \in DOMAIN q \ {k} /\ s[j] = q[at(j)]
    BY <1>1
<1>3. \A i, j \in DOMAIN s : i < j => at(i) < at(j)
    BY <1>1
<1> HIDE DEF at
<1>4. \A j \in DOMAIN s : \E i \in DOMAIN q \ {k} : s[j] = q[i]
    BY <1>2, Zenon
<1>5. \A a, b \in DOMAIN s :
          a < b => \E i, j \in DOMAIN q : i < j /\ s[a] = q[i] /\ s[b] = q[j]
    BY <1>2, <1>3, Zenon
<1>6. Within(s, q)
    BY <1>4, <1>5, Zenon DEF Within
<1> QED BY <1>1, <1>4, <1>6 DEF s

=============================================================================
