---------------------------- MODULE KVCacheProofs ----------------------------
(* The indexes of the cells are exact and every key is rotated for its      *)
(* cell's position (KVCache).                                               *)
EXTENDS KVCache, FiltersProofs, FiniteSetTheorems

(* The cells of a stream, with exact indexes.                               *)
RawCells ==
    [pos : [Cells -> Int], seq : [Cells -> SUBSET Seqs], shift : [Cells -> Int],
     has_shift : BOOLEAN, used : SUBSET Cells, seq_pos : [Seqs -> SUBSET (Int \X Cells)]]

Index(c, s) == {<<c.pos[i], i>> : i \in {j \in Cells : s \in c.seq[j]}}

Exact(c) ==
    /\ \A s \in Seqs : c.seq_pos[s] = Index(c, s)
    /\ \A i \in Cells :
          /\ i \in c.used <=> c.pos[i] # -1
          /\ c.seq[i] # {} <=> c.pos[i] # -1
          /\ c.shift[i] # 0 => c.pos[i] # -1 /\ c.has_shift

(* What find_slot returns for a part of an ubatch when there is room.       *)
TokenKind == [seq : Seqs, pos : 0 .. (conf.n_ctx - 1)]
Parts ==
    {p \in [strm : Streams, toks : Seq(TokenKind), idxs : Seq(Cells)] :
        /\ Len(p.idxs) = Len(p.toks) /\ p.idxs # <<>>
        /\ \A j \in DOMAIN p.toks : seq_to_stream(p.toks[j].seq) = p.strm}

GoodCells == {c \in RawCells : Exact(c) /\ \A i \in Cells : c.pos[i] \in -1 .. (conf.n_ctx - 1)}

----------------------------------------------------------------------------
(* Sets of numbers.                                                         *)

LEMMA LeastOfNat ==
    ASSUME NEW D \in SUBSET Nat, D # {}
    PROVE  \E x \in D : \A y \in D : x <= y
<1>1. IsWellFoundedOn(OpToRel(<, Nat), Nat)
  BY NatLessThanWellFounded
<1>2. PICK x \in D : \A y \in D : <<y, x>> \notin OpToRel(<, Nat)
  <2> HIDE DEF IsWellFoundedOn
  <2> QED
    BY <1>1, WFMin, Zenon
<1>3. \A y \in D : ~(y < x)
  BY <1>2, Zenon DEF OpToRel
<1> QED
  BY <1>3

LEMMA MinOfInt ==
    ASSUME NEW a \in Int, NEW D \in SUBSET Int, D # {}, \A x \in D : a <= x
    PROVE  Min(D) \in D /\ \A y \in D : Min(D) <= y
<1> DEFINE N == {x - a : x \in D}
<1>1. N \in SUBSET Nat /\ N # {}
  <2>1. \A x \in D : x - a \in Nat
    OBVIOUS
  <2> QED
    BY ONLY <2>1, D # {}
<1> HIDE DEF N
<1>2. PICK x \in N : \A y \in N : x <= y
  BY <1>1, LeastOfNat
<1> USE DEF N
<1>3. PICK z \in D : x = z - a
  OBVIOUS
<1>4. \A y \in D : z <= y
  <2> TAKE y \in D
  <2>1. y - a \in N
    OBVIOUS
  <2>2. x <= y - a
    BY <1>2, <2>1
  <2> QED
    BY <1>3, <2>2
<1>5. \E m \in D : \A y \in D : m =< y
  BY <1>4
<1> QED
  BY <1>5, Zenon DEF Min

LEMMA MaxOfInt ==
    ASSUME NEW a \in Int, NEW D \in SUBSET Int, D # {}, \A x \in D : x <= a
    PROVE  Max(D) \in D /\ \A y \in D : y <= Max(D)
<1> DEFINE N == {a - x : x \in D}
<1>1. N \in SUBSET Nat /\ N # {}
  <2>1. \A x \in D : a - x \in Nat
    OBVIOUS
  <2> QED
    BY ONLY <2>1, D # {}
<1> HIDE DEF N
<1>2. PICK x \in N : \A y \in N : x <= y
  BY <1>1, LeastOfNat
<1> USE DEF N
<1>3. PICK z \in D : x = a - z
  OBVIOUS
<1>4. \A y \in D : z >= y
  <2> TAKE y \in D
  <2>1. a - y \in N
    OBVIOUS
  <2>2. x <= a - y
    BY <1>2, <2>1
  <2> QED
    BY <1>3, <2>2
<1>5. \E m \in D : \A y \in D : m >= y
  BY <1>4
<1>6. Max(D) \in D /\ \A y \in D : Max(D) >= y
  BY <1>5, Zenon DEF Max
<1> QED
  BY <1>6

----------------------------------------------------------------------------
(* The constants.                                                           *)

LEMMA ConfFacts ==
    ASSUME conf \in Confs
    PROVE  /\ conf.size \in Nat \ {0} /\ conf.n_ctx \in Nat \ {0} /\ conf.n_ubatch \in Nat \ {0}
           /\ conf.max_batch \in Nat \ {0} /\ conf.n_swa \in Nat /\ conf.size_base \in Nat
           /\ conf.unified \in BOOLEAN /\ conf.shift \in BOOLEAN /\ conf.families \in BOOLEAN
           /\ NSeq \in Nat \ {0} /\ conf \in ConfType
           /\ Cells = 0 .. (conf.size - 1) /\ Seqs = 0 .. (NSeq - 1)
           /\ Streams \in SUBSET Seqs /\ 0 \in Streams
           /\ \A s \in Seqs : seq_to_stream(s) \in Streams
<1>1. conf \in ConfType /\ NSeq \in Nat \ {0}
  BY KVCacheAssumption
<1> QED
  BY <1>1 DEF ConfType, Cells, Seqs, Streams, seq_to_stream

LEMMA RawFields ==
    ASSUME NEW c \in RawCells
    PROVE  /\ c.pos \in [Cells -> Int] /\ c.seq \in [Cells -> SUBSET Seqs] /\ c.shift \in [Cells -> Int]
           /\ c.has_shift \in BOOLEAN /\ c.used \in SUBSET Cells
           /\ c.seq_pos \in [Seqs -> SUBSET (Int \X Cells)]
BY DEF RawCells

LEMMA UnindexedIs ==
    ASSUME NEW c \in RawCells, NEW I \in SUBSET Cells
    PROVE  /\ Unindexed(c, I) \in RawCells
           /\ Unindexed(c, I).pos = c.pos /\ Unindexed(c, I).seq = c.seq
           /\ Unindexed(c, I).shift = c.shift /\ Unindexed(c, I).has_shift = c.has_shift
           /\ Unindexed(c, I).used = c.used
           /\ \A s \in Seqs : Unindexed(c, I).seq_pos[s] =
                 c.seq_pos[s] \ {<<c.pos[i], i>> : i \in {j \in I : s \in c.seq[j]}}
BY DEF RawCells, Unindexed, IndexWithout

LEMMA IndexedIs ==
    ASSUME NEW c \in RawCells, NEW I \in SUBSET Cells
    PROVE  /\ Indexed(c, I) \in RawCells
           /\ Indexed(c, I).pos = c.pos /\ Indexed(c, I).seq = c.seq
           /\ Indexed(c, I).shift = c.shift /\ Indexed(c, I).has_shift = c.has_shift
           /\ Indexed(c, I).used = c.used
           /\ \A s \in Seqs : Indexed(c, I).seq_pos[s] =
                 c.seq_pos[s] \cup {<<c.pos[i], i>> : i \in {j \in I : s \in c.seq[j]}}
<1>1. \A s \in Seqs : {<<c.pos[i], i>> : i \in {j \in I : s \in c.seq[j]}} \in SUBSET (Int \X Cells)
  BY DEF RawCells
<1>2. IndexWith(c, I) \in [Seqs -> SUBSET (Int \X Cells)]
  BY <1>1 DEF RawCells, IndexWith
<1> PICK y : y = IndexWith(c, I)
  OBVIOUS
<1>3. Indexed(c, I) = [c EXCEPT !.seq_pos = y]
  BY DEF Indexed
<1>4. y \in [Seqs -> SUBSET (Int \X Cells)]
  BY <1>2
<1>5. \A s \in Seqs : y[s] = c.seq_pos[s] \cup {<<c.pos[i], i>> : i \in {j \in I : s \in c.seq[j]}}
  BY DEF IndexWith
<1> QED
  BY ONLY <1>3, <1>4, <1>5, c \in RawCells DEF RawCells

LEMMA FreedIs ==
    ASSUME NEW c \in RawCells, NEW I \in SUBSET Cells
    PROVE  /\ Freed(c, I) \in RawCells
           /\ \A i \in Cells :
                 /\ Freed(c, I).pos[i] = IF i \in I THEN -1 ELSE c.pos[i]
                 /\ Freed(c, I).seq[i] = IF i \in I THEN {} ELSE c.seq[i]
                 /\ Freed(c, I).shift[i] = IF i \in I THEN 0 ELSE c.shift[i]
           /\ Freed(c, I).has_shift = c.has_shift /\ Freed(c, I).used = c.used \ I
           /\ \A s \in Seqs : Freed(c, I).seq_pos[s] =
                 c.seq_pos[s] \ {<<c.pos[i], i>> : i \in {j \in I : s \in c.seq[j]}}
<1> PICK u : u = Unindexed(c, I)
  OBVIOUS
<1>1. /\ u \in RawCells /\ u.pos = c.pos /\ u.seq = c.seq /\ u.shift = c.shift
      /\ u.has_shift = c.has_shift /\ u.used = c.used
      /\ \A s \in Seqs : u.seq_pos[s] = c.seq_pos[s] \ {<<c.pos[i], i>> : i \in {j \in I : s \in c.seq[j]}}
  BY UnindexedIs
<1> PICK p : p = [i \in Cells |-> IF i \in I THEN -1 ELSE c.pos[i]]
  OBVIOUS
<1> PICK q : q = [i \in Cells |-> IF i \in I THEN {} ELSE c.seq[i]]
  OBVIOUS
<1> PICK h : h = [i \in Cells |-> IF i \in I THEN 0 ELSE c.shift[i]]
  OBVIOUS
<1>2. Freed(c, I) = [u EXCEPT !.pos = p, !.seq = q, !.shift = h, !.used = c.used \ I]
  BY <1>1 DEF Freed
<1>3. p \in [Cells -> Int] /\ q \in [Cells -> SUBSET Seqs] /\ h \in [Cells -> Int]
  BY RawFields
<1>4. c.used \ I \in SUBSET Cells
  BY RawFields
<1> PICK f : f = Freed(c, I)
  OBVIOUS
<1>5. /\ f \in RawCells /\ f.pos = p /\ f.seq = q /\ f.shift = h /\ f.has_shift = u.has_shift
      /\ f.used = c.used \ I /\ f.seq_pos = u.seq_pos
  BY ONLY f = Freed(c, I), <1>1, <1>2, <1>3, <1>4 DEF RawCells
<1> QED
  BY <1>1, <1>5

----------------------------------------------------------------------------
(* Cells with an exact index, point by point.                               *)

Pointed(c) == \A s \in Seqs, i \in Cells, p \in Int : <<p, i>> \in c.seq_pos[s] <=> s \in c.seq[i] /\ p = c.pos[i]

Marked(c) ==
    \A i \in Cells :
        /\ i \in c.used <=> c.pos[i] # -1
        /\ c.seq[i] # {} <=> c.pos[i] # -1
        /\ c.shift[i] # 0 => c.pos[i] # -1 /\ c.has_shift
        /\ c.pos[i] \in -1 .. (conf.n_ctx - 1)

LEMMA EntryPoint ==
    ASSUME NEW c \in RawCells, NEW I \in SUBSET Cells, NEW s \in Seqs, NEW i \in Cells, NEW p \in Int
    PROVE  <<p, i>> \in {<<c.pos[j], j>> : j \in {k \in I : s \in c.seq[k]}}
              <=> i \in I /\ s \in c.seq[i] /\ p = c.pos[i]
OBVIOUS

LEMMA GoodPoint ==
    ASSUME NEW c
    PROVE  c \in GoodCells <=> c \in RawCells /\ Pointed(c) /\ Marked(c)
<1>1. ASSUME c \in GoodCells PROVE c \in RawCells /\ Pointed(c) /\ Marked(c)
  <2>1. c \in RawCells /\ Exact(c) /\ Marked(c)
    BY <1>1, Zenon DEF GoodCells, Exact, Marked
  <2>2. ASSUME NEW s \in Seqs, NEW i \in Cells, NEW p \in Int
        PROVE  <<p, i>> \in c.seq_pos[s] <=> s \in c.seq[i] /\ p = c.pos[i]
    <3>1. c.seq_pos[s] = {<<c.pos[j], j>> : j \in {k \in Cells : s \in c.seq[k]}}
      BY <2>1, Zenon DEF Exact, Index
    <3>2. Cells \in SUBSET Cells
      OBVIOUS
    <3> QED
      BY <2>1, <3>1, <3>2, EntryPoint
  <2> QED
    BY <2>1, <2>2 DEF Pointed
<1>2. ASSUME c \in RawCells, Pointed(c), Marked(c) PROVE c \in GoodCells
  <2>1. ASSUME NEW s \in Seqs PROVE c.seq_pos[s] = Index(c, s)
    <3>1. c.seq_pos[s] \in SUBSET (Int \X Cells) /\ c.pos \in [Cells -> Int]
      BY <1>2 DEF RawCells
    <3>2. ASSUME NEW i \in Cells, NEW p \in Int PROVE <<p, i>> \in c.seq_pos[s] <=> <<p, i>> \in Index(c, s)
      BY <1>2, EntryPoint DEF Pointed, Index
    <3>3. Index(c, s) \in SUBSET (Int \X Cells)
      BY <3>1 DEF Index
    <3>4. ASSUME NEW x \in Int \X Cells PROVE x \in c.seq_pos[s] <=> x \in Index(c, s)
      <4>1. PICK p \in Int, i \in Cells : x = <<p, i>>
        OBVIOUS
      <4> QED
        BY <3>2, <4>1
    <3> QED
      BY <3>1, <3>3, <3>4
  <2>2. Exact(c) /\ \A i \in Cells : c.pos[i] \in -1 .. (conf.n_ctx - 1)
    BY <1>2, <2>1, Zenon DEF Exact, Marked
  <2> QED
    BY <1>2, <2>2 DEF GoodCells
<1> QED
  BY <1>1, <1>2

(* A cell without a position has no sequence; others have a position >= 0.  *)
LEMMA GoodFields ==
    ASSUME NEW c \in GoodCells
    PROVE  /\ c \in RawCells /\ Pointed(c) /\ Marked(c)
           /\ \A i \in Cells : c.pos[i] \in Int /\ c.seq[i] \in SUBSET Seqs /\ c.shift[i] \in Int
<1>1. c \in RawCells /\ Pointed(c) /\ Marked(c)
  BY GoodPoint
<1> QED
  BY <1>1, RawFields

LEMMA SeqRemovedIs ==
    ASSUME conf \in Confs,
           NEW c \in GoodCells, NEW s \in Seqs, NEW I \in SUBSET Cells, \A i \in I : s \in c.seq[i]
    PROVE  /\ SeqRemoved(c, s, I) \in GoodCells
           /\ \A i \in Cells :
                 LET gone == i \in I /\ c.seq[i] = {s}
                 IN  /\ SeqRemoved(c, s, I).pos[i] = IF gone THEN -1 ELSE c.pos[i]
                     /\ SeqRemoved(c, s, I).seq[i] = IF i \in I THEN c.seq[i] \ {s} ELSE c.seq[i]
                     /\ SeqRemoved(c, s, I).shift[i] = IF gone THEN 0 ELSE c.shift[i]
           /\ SeqRemoved(c, s, I).has_shift = c.has_shift
<1> PICK E : E = {i \in I : c.seq[i] = {s}}
  OBVIOUS
<1> PICK f : f = Freed(c, E)
  OBVIOUS
<1>1. c \in RawCells /\ Pointed(c) /\ Marked(c)
  BY GoodFields
<1>2. E \in SUBSET Cells
  OBVIOUS
<1>3. /\ f \in RawCells
      /\ \A i \in Cells :
            /\ f.pos[i] = IF i \in E THEN -1 ELSE c.pos[i]
            /\ f.seq[i] = IF i \in E THEN {} ELSE c.seq[i]
            /\ f.shift[i] = IF i \in E THEN 0 ELSE c.shift[i]
      /\ f.has_shift = c.has_shift /\ f.used = c.used \ E
      /\ \A t \in Seqs : f.seq_pos[t] =
            c.seq_pos[t] \ {<<c.pos[j], j>> : j \in {k \in E : t \in c.seq[k]}}
  BY ONLY <1>1, <1>2, f = Freed(c, E), FreedIs
<1> PICK q : q = [i \in Cells |-> IF i \in I THEN f.seq[i] \ {s} ELSE f.seq[i]]
  OBVIOUS
<1> PICK X : X = {<<c.pos[i], i>> : i \in I}
  OBVIOUS
<1> PICK h : h = [f.seq_pos EXCEPT ![s] = @ \ X]
  OBVIOUS
<1> PICK y : y = SeqRemoved(c, s, I)
  OBVIOUS
<1>f. f.seq_pos \in [Seqs -> SUBSET (Int \X Cells)] /\ f.seq \in [Cells -> SUBSET Seqs]
  BY <1>3, RawFields
<1>4. y = [f EXCEPT !.seq = q, !.seq_pos = h]
  BY <1>3, <1>f DEF SeqRemoved, RawCells
<1>5. q \in [Cells -> SUBSET Seqs] /\ h \in [Seqs -> SUBSET (Int \X Cells)]
  <2>1. \A i \in Cells : f.seq[i] \in SUBSET Seqs /\ f.seq[i] \ {s} \in SUBSET Seqs
    BY <1>f
  <2>2. f.seq_pos[s] \ X \in SUBSET (Int \X Cells)
    BY <1>f
  <2>3. \A i \in Cells : (IF i \in I THEN f.seq[i] \ {s} ELSE f.seq[i]) \in SUBSET Seqs
    BY <2>1, Zenon
  <2> QED
    BY ONLY <1>f, <2>3, <2>2, q = [i \in Cells |-> IF i \in I THEN f.seq[i] \ {s} ELSE f.seq[i]],
       h = [f.seq_pos EXCEPT ![s] = @ \ X]
<1>6. /\ y \in RawCells /\ y.pos = f.pos /\ y.seq = q /\ y.shift = f.shift
      /\ y.has_shift = f.has_shift /\ y.used = f.used /\ y.seq_pos = h
  BY ONLY <1>3, <1>4, <1>5 DEF RawCells
<1>7. \A i \in Cells :
         /\ y.pos[i] = IF i \in E THEN -1 ELSE c.pos[i]
         /\ y.seq[i] = IF i \in I THEN c.seq[i] \ {s} ELSE c.seq[i]
         /\ y.shift[i] = IF i \in E THEN 0 ELSE c.shift[i]
  <2>1. \A i \in Cells : q[i] = IF i \in I THEN c.seq[i] \ {s} ELSE c.seq[i]
    <3> TAKE i \in Cells
    <3>1. q[i] = IF i \in I THEN f.seq[i] \ {s} ELSE f.seq[i]
      OBVIOUS
    <3>2. i \in E => i \in I /\ c.seq[i] = {s} /\ f.seq[i] = {}
      BY <1>3
    <3>3. i \notin E => f.seq[i] = c.seq[i]
      BY <1>3
    <3> QED
      BY ONLY <3>1, <3>2, <3>3
  <2> QED
    BY ONLY <1>3, <1>6, <2>1
<1>8. Marked(y)
  <2>1. \A i \in Cells : i \in y.used <=> i \in c.used /\ i \notin E
    BY <1>3, <1>6
  <2>2. \A i \in I : s \in c.seq[i]
    OBVIOUS
  <2>3. \A i \in Cells : y.seq[i] # {} <=> c.seq[i] # {} /\ i \notin E
    BY <1>7, <2>2
  <2>4. y.has_shift = c.has_shift
    BY <1>3, <1>6
  <2>5. conf.n_ctx \in Nat \ {0}
    BY ConfFacts
  <2>6. \A i \in Cells : (IF i \in E THEN -1 ELSE c.pos[i]) \in -1 .. (conf.n_ctx - 1)
    <3>1. -1 \in -1 .. (conf.n_ctx - 1)
      BY ONLY <2>5
    <3>2. \A i \in Cells : c.pos[i] \in -1 .. (conf.n_ctx - 1)
      BY <1>1, Zenon DEF Marked
    <3> QED
      BY ONLY <3>1, <3>2, Zenon
  <2> QED
    BY ONLY <1>1, <1>7, <2>1, <2>3, <2>4, <2>6 DEF Marked
<1>9. Pointed(y)
  <2>1. ASSUME NEW t \in Seqs, NEW i \in Cells, NEW p \in Int
        PROVE  <<p, i>> \in y.seq_pos[t] <=> t \in y.seq[i] /\ p = y.pos[i]
    <3>1. <<p, i>> \in c.seq_pos[t] <=> t \in c.seq[i] /\ p = c.pos[i]
      BY <1>1 DEF Pointed
    <3>2. <<p, i>> \in {<<c.pos[j], j>> : j \in {k \in E : t \in c.seq[k]}}
              <=> i \in E /\ t \in c.seq[i] /\ p = c.pos[i]
      BY ONLY <1>1, <1>2, EntryPoint, t \in Seqs, i \in Cells, p \in Int
    <3>3. <<p, i>> \in f.seq_pos[t] <=> t \in c.seq[i] /\ p = c.pos[i] /\ i \notin E
      BY <1>3, <3>1, <3>2
    <3>4. <<p, i>> \in X <=> i \in I /\ p = c.pos[i]
      OBVIOUS
    <3>5. y.seq_pos[t] = IF t = s THEN f.seq_pos[t] \ X ELSE f.seq_pos[t]
      BY ONLY <1>6, <1>f, h = [f.seq_pos EXCEPT ![s] = @ \ X], t \in Seqs
    <3>6. <<p, i>> \in y.seq_pos[t] <=> <<p, i>> \in f.seq_pos[t] /\ (t = s => <<p, i>> \notin X)
      BY ONLY <3>5
    <3>7. i \in E <=> i \in I /\ c.seq[i] = {s}
      OBVIOUS
    <3>8. y.pos[i] = (IF i \in E THEN -1 ELSE c.pos[i]) /\ y.seq[i] = IF i \in I THEN c.seq[i] \ {s} ELSE c.seq[i]
      BY <1>7
    <3>9. CASE i \in E
      BY ONLY <3>3, <3>6, <3>7, <3>8, <3>9
    <3>10. CASE i \notin E
      <4>1. y.pos[i] = c.pos[i]
        BY <3>8, <3>10, Zenon
      <4>2. t \in y.seq[i] <=> t \in c.seq[i] /\ ~(i \in I /\ t = s)
        BY ONLY <3>8
      <4> QED
        BY ONLY <3>3, <3>4, <3>6, <3>10, <4>1, <4>2
    <3> QED
      BY <3>9, <3>10
  <2> QED
    BY <2>1 DEF Pointed
<1>10. y \in GoodCells
  BY <1>6, <1>8, <1>9, GoodPoint
<1> QED
  BY <1>3, <1>6, <1>7, <1>10

LEMMA RangeFacts ==
    ASSUME conf \in Confs
    PROVE  -1 \in -1 .. (conf.n_ctx - 1) /\ \A p \in -1 .. (conf.n_ctx - 1) : p \in Int
<1>1. conf.n_ctx \in Nat \ {0}
  BY ConfFacts
<1> QED
  BY ONLY <1>1

LEMMA EmptyIsGood ==
    ASSUME conf \in Confs
    PROVE  EmptyCells \in GoodCells
<1> PICK y : y = EmptyCells
  OBVIOUS
<1>1. /\ y \in RawCells /\ y.has_shift = FALSE /\ y.used = {}
      /\ \A i \in Cells : y.pos[i] = -1 /\ y.seq[i] = {} /\ y.shift[i] = 0
      /\ \A s \in Seqs : y.seq_pos[s] = {}
  BY DEF EmptyCells, RawCells
<1>2. Marked(y)
  BY ONLY <1>1, RangeFacts, conf \in Confs DEF Marked
<1>3. Pointed(y)
  BY ONLY <1>1 DEF Pointed
<1> QED
  BY <1>1, <1>2, <1>3, GoodPoint

LEMMA SeqAddedIs ==
    ASSUME conf \in Confs,
           NEW c \in GoodCells, NEW s \in Seqs, NEW I \in SUBSET Cells, \A i \in I : c.pos[i] # -1
    PROVE  /\ SeqAdded(c, s, I) \in GoodCells
           /\ \A i \in Cells :
                 /\ SeqAdded(c, s, I).pos[i] = c.pos[i]
                 /\ SeqAdded(c, s, I).seq[i] = IF i \in I THEN c.seq[i] \cup {s} ELSE c.seq[i]
                 /\ SeqAdded(c, s, I).shift[i] = c.shift[i]
           /\ SeqAdded(c, s, I).has_shift = c.has_shift
<1>1. c \in RawCells /\ Pointed(c) /\ Marked(c)
  BY GoodFields
<1>2. /\ c.seq_pos \in [Seqs -> SUBSET (Int \X Cells)] /\ c.seq \in [Cells -> SUBSET Seqs]
      /\ c.pos \in [Cells -> Int]
  BY <1>1, RawFields
<1> PICK q : q = [i \in Cells |-> IF i \in I THEN c.seq[i] \cup {s} ELSE c.seq[i]]
  OBVIOUS
<1> PICK X : X = {<<c.pos[i], i>> : i \in I}
  OBVIOUS
<1> PICK h : h = [c.seq_pos EXCEPT ![s] = @ \cup X]
  OBVIOUS
<1> PICK y : y = SeqAdded(c, s, I)
  OBVIOUS
<1>3. y = [c EXCEPT !.seq = q, !.seq_pos = h]
  BY <1>1, <1>2 DEF SeqAdded, RawCells
<1>4. q \in [Cells -> SUBSET Seqs] /\ h \in [Seqs -> SUBSET (Int \X Cells)]
  <2>1. \A i \in Cells : c.seq[i] \in SUBSET Seqs /\ c.seq[i] \cup {s} \in SUBSET Seqs
    BY <1>2
  <2>2. X \in SUBSET (Int \X Cells)
    BY <1>2
  <2>3. c.seq_pos[s] \cup X \in SUBSET (Int \X Cells)
    BY <1>2, <2>2
  <2>4. \A i \in Cells : (IF i \in I THEN c.seq[i] \cup {s} ELSE c.seq[i]) \in SUBSET Seqs
    BY <2>1, Zenon
  <2> QED
    BY ONLY <1>2, <2>3, <2>4, q = [i \in Cells |-> IF i \in I THEN c.seq[i] \cup {s} ELSE c.seq[i]],
       h = [c.seq_pos EXCEPT ![s] = @ \cup X]
<1>5. /\ y \in RawCells /\ y.pos = c.pos /\ y.seq = q /\ y.shift = c.shift
      /\ y.has_shift = c.has_shift /\ y.used = c.used /\ y.seq_pos = h
  BY ONLY <1>1, <1>3, <1>4 DEF RawCells
<1>6. \A i \in Cells : q[i] = IF i \in I THEN c.seq[i] \cup {s} ELSE c.seq[i]
  BY <1>4
<1>7. Marked(y)
  <2>1. \A i \in Cells : q[i] # {} <=> c.seq[i] # {}
    <3>1. \A i \in I : c.seq[i] # {}
      BY <1>1 DEF Marked
    <3> QED
      BY <1>6, <3>1
  <2> QED
    BY ONLY <1>1, <1>5, <2>1 DEF Marked
<1>8. Pointed(y)
  <2>1. ASSUME NEW t \in Seqs, NEW i \in Cells, NEW p \in Int
        PROVE  <<p, i>> \in y.seq_pos[t] <=> t \in y.seq[i] /\ p = y.pos[i]
    <3>1. <<p, i>> \in c.seq_pos[t] <=> t \in c.seq[i] /\ p = c.pos[i]
      BY <1>1 DEF Pointed
    <3>2. <<p, i>> \in X <=> i \in I /\ p = c.pos[i]
      OBVIOUS
    <3>3. y.seq_pos[t] = IF t = s THEN c.seq_pos[t] \cup X ELSE c.seq_pos[t]
      BY ONLY <1>5, <1>2, h = [c.seq_pos EXCEPT ![s] = @ \cup X], t \in Seqs
    <3>4. <<p, i>> \in y.seq_pos[t] <=> <<p, i>> \in c.seq_pos[t] \/ (t = s /\ <<p, i>> \in X)
      BY ONLY <3>3
    <3>5. t \in y.seq[i] <=> t \in c.seq[i] \/ (i \in I /\ t = s)
      BY <1>5, <1>6
    <3> QED
      BY ONLY <1>5, <3>1, <3>2, <3>4, <3>5
  <2> QED
    BY <2>1 DEF Pointed
<1>9. y \in GoodCells
  BY <1>5, <1>7, <1>8, GoodPoint
<1> QED
  BY <1>5, <1>6, <1>9

LEMMA ResetShiftIs ==
    ASSUME NEW c \in GoodCells
    PROVE  /\ ResetShift(c) \in GoodCells /\ ResetShift(c).has_shift = FALSE
           /\ \A i \in Cells : /\ ResetShift(c).pos[i] = c.pos[i] /\ ResetShift(c).seq[i] = c.seq[i]
                               /\ ResetShift(c).shift[i] = 0
<1>1. c \in RawCells /\ Pointed(c) /\ Marked(c)
  BY GoodFields
<1> PICK h : h = [i \in Cells |-> 0]
  OBVIOUS
<1> PICK y : y = ResetShift(c)
  OBVIOUS
<1>2. y = [c EXCEPT !.has_shift = FALSE, !.shift = h] /\ h \in [Cells -> Int] /\ \A i \in Cells : h[i] = 0
  BY DEF ResetShift
<1>3. /\ y \in RawCells /\ y.pos = c.pos /\ y.seq = c.seq /\ y.shift = h
      /\ y.has_shift = FALSE /\ y.used = c.used /\ y.seq_pos = c.seq_pos
  BY ONLY <1>1, <1>2 DEF RawCells
<1>4. Marked(y) /\ Pointed(y)
  BY ONLY <1>1, <1>2, <1>3 DEF Marked, Pointed
<1> QED
  BY <1>2, <1>3, <1>4, GoodPoint

LEMMA PosAddedIs ==
    ASSUME conf \in Confs,
           NEW c \in GoodCells, NEW I \in SUBSET Cells, \A i \in I : c.pos[i] # -1,
           NEW d \in Int, d < 0
    PROVE  /\ PosAdded(c, I, d) \in GoodCells
           /\ \A i \in Cells :
                 LET gone == i \in I /\ c.pos[i] + d < 0
                 IN  /\ PosAdded(c, I, d).pos[i] =
                           IF gone THEN -1 ELSE IF i \in I THEN c.pos[i] + d ELSE c.pos[i]
                     /\ PosAdded(c, I, d).seq[i] = IF gone THEN {} ELSE c.seq[i]
                     /\ PosAdded(c, I, d).shift[i] =
                           IF gone THEN 0 ELSE IF i \in I THEN c.shift[i] + d ELSE c.shift[i]
<1>1. c \in RawCells /\ Pointed(c) /\ Marked(c)
  BY GoodFields
<1>2. /\ c.seq_pos \in [Seqs -> SUBSET (Int \X Cells)] /\ c.seq \in [Cells -> SUBSET Seqs]
      /\ c.pos \in [Cells -> Int] /\ c.shift \in [Cells -> Int] /\ c.has_shift \in BOOLEAN
  BY <1>1, RawFields
<1> PICK gone : gone = {i \in I : c.pos[i] + d < 0}
  OBVIOUS
<1> PICK u : u = Unindexed(c, I)
  OBVIOUS
<1>3. /\ u \in RawCells /\ u.pos = c.pos /\ u.seq = c.seq /\ u.shift = c.shift
      /\ u.has_shift = c.has_shift /\ u.used = c.used
      /\ \A t \in Seqs : u.seq_pos[t] = c.seq_pos[t] \ {<<c.pos[j], j>> : j \in {k \in I : t \in c.seq[k]}}
  BY <1>1, UnindexedIs
<1> PICK p : p = [i \in Cells |-> IF i \in I THEN c.pos[i] + d ELSE c.pos[i]]
  OBVIOUS
<1> PICK h : h = [i \in Cells |-> IF i \in I THEN c.shift[i] + d ELSE c.shift[i]]
  OBVIOUS
<1> PICK b : b = (c.has_shift \/ I # {})
  OBVIOUS
<1> PICK m : m = [u EXCEPT !.pos = p, !.shift = h, !.has_shift = b]
  OBVIOUS
<1>4. /\ p \in [Cells -> Int] /\ h \in [Cells -> Int] /\ b \in BOOLEAN
      /\ \A i \in Cells : /\ p[i] = IF i \in I THEN c.pos[i] + d ELSE c.pos[i]
                          /\ h[i] = IF i \in I THEN c.shift[i] + d ELSE c.shift[i]
  BY <1>2
<1>5. /\ m \in RawCells /\ m.pos = p /\ m.seq = c.seq /\ m.shift = h /\ m.has_shift = b
      /\ m.used = c.used /\ m.seq_pos = u.seq_pos
  BY ONLY <1>3, <1>4, m = [u EXCEPT !.pos = p, !.shift = h, !.has_shift = b] DEF RawCells
<1>6. PosAdded(c, I, d) = Freed(Indexed(m, I \ gone), gone)
  <2>1. m = [u EXCEPT !.pos   = [i \in Cells |-> IF i \in I THEN @[i] + d ELSE @[i]],
                      !.shift = [i \in Cells |-> IF i \in I THEN @[i] + d ELSE @[i]],
                      !.has_shift = @ \/ I # {}]
    BY <1>3
  <2> QED
    BY <2>1 DEF PosAdded
<1> PICK x : x = Indexed(m, I \ gone)
  OBVIOUS
<1> PICK y : y = Freed(x, gone)
  OBVIOUS
<1>7. I \ gone \in SUBSET Cells /\ gone \in SUBSET Cells
  OBVIOUS
<1>8. /\ x \in RawCells /\ x.pos = p /\ x.seq = c.seq /\ x.shift = h /\ x.has_shift = b
      /\ x.used = c.used
      /\ \A t \in Seqs : x.seq_pos[t] = u.seq_pos[t] \cup {<<p[j], j>> : j \in {k \in I \ gone : t \in c.seq[k]}}
  BY ONLY <1>5, <1>7, x = Indexed(m, I \ gone), IndexedIs
<1>9. /\ y \in RawCells
      /\ \A i \in Cells :
            /\ y.pos[i] = IF i \in gone THEN -1 ELSE p[i]
            /\ y.seq[i] = IF i \in gone THEN {} ELSE c.seq[i]
            /\ y.shift[i] = IF i \in gone THEN 0 ELSE h[i]
      /\ y.has_shift = b /\ y.used = c.used \ gone
      /\ \A t \in Seqs : y.seq_pos[t] = x.seq_pos[t] \ {<<p[j], j>> : j \in {k \in gone : t \in c.seq[k]}}
  <2>1. /\ y \in RawCells
        /\ \A i \in Cells :
              /\ y.pos[i] = IF i \in gone THEN -1 ELSE x.pos[i]
              /\ y.seq[i] = IF i \in gone THEN {} ELSE x.seq[i]
              /\ y.shift[i] = IF i \in gone THEN 0 ELSE x.shift[i]
        /\ y.has_shift = x.has_shift /\ y.used = x.used \ gone
        /\ \A t \in Seqs : y.seq_pos[t] = x.seq_pos[t] \ {<<x.pos[j], j>> : j \in {k \in gone : t \in x.seq[k]}}
    BY ONLY <1>7, <1>8, y = Freed(x, gone), FreedIs
  <2> QED
    BY ONLY <1>8, <2>1
<1>10. \A i \in Cells : i \in gone <=> i \in I /\ c.pos[i] + d < 0
  OBVIOUS
<1>11. Marked(y)
  <2> SUFFICES ASSUME NEW i \in Cells
               PROVE  /\ i \in y.used <=> y.pos[i] # -1
                      /\ y.seq[i] # {} <=> y.pos[i] # -1
                      /\ y.shift[i] # 0 => y.pos[i] # -1 /\ y.has_shift
                      /\ y.pos[i] \in -1 .. (conf.n_ctx - 1)
    BY DEF Marked
  <2>1. /\ i \in c.used <=> c.pos[i] # -1
        /\ c.seq[i] # {} <=> c.pos[i] # -1
        /\ c.shift[i] # 0 => c.pos[i] # -1 /\ c.has_shift
        /\ c.pos[i] \in -1 .. (conf.n_ctx - 1)
    BY <1>1 DEF Marked
  <2>2. conf.n_ctx \in Nat \ {0} /\ c.pos[i] \in Int /\ (i \in I => c.pos[i] # -1)
    BY <1>2, ConfFacts
  <2>3. i \in y.used <=> i \in c.used /\ i \notin gone
    BY <1>9
  <2>4. CASE i \in gone
    BY ONLY <1>9, <2>2, <2>3, <2>4, i \in Cells
  <2>5. CASE i \notin gone /\ i \in I
    <3>1. y.pos[i] = c.pos[i] + d /\ c.pos[i] + d >= 0 /\ y.seq[i] = c.seq[i] /\ y.has_shift = b /\ b
      <4>1. p[i] = c.pos[i] + d /\ ~(c.pos[i] + d < 0)
        BY ONLY <1>4, <1>10, <2>5, i \in Cells
      <4>2. c.pos[i] + d >= 0
        BY ONLY <4>1, <2>2, d \in Int
      <4>3. b = TRUE
        BY <2>5
      <4> QED
        BY ONLY <1>9, <2>5, <4>1, <4>2, <4>3, i \in Cells
    <3> QED
      BY ONLY <2>1, <2>2, <2>3, <2>5, <3>1, d \in Int, d < 0
  <2>6. CASE i \notin I
    <3>1. i \notin gone /\ y.pos[i] = c.pos[i] /\ y.seq[i] = c.seq[i] /\ y.shift[i] = c.shift[i] /\ y.has_shift = b
      BY <1>4, <1>9, <1>10, <2>6
    <3>2. c.has_shift => b
      OBVIOUS
    <3> QED
      BY ONLY <2>1, <2>3, <3>1, <3>2
  <2> QED
    BY <2>4, <2>5, <2>6
<1>12. Pointed(y)
  <2>1. ASSUME NEW t \in Seqs, NEW i \in Cells, NEW z \in Int
        PROVE  <<z, i>> \in y.seq_pos[t] <=> t \in y.seq[i] /\ z = y.pos[i]
    <3>1. <<z, i>> \in c.seq_pos[t] <=> t \in c.seq[i] /\ z = c.pos[i]
      BY <1>1 DEF Pointed
    <3>2. <<z, i>> \in {<<c.pos[j], j>> : j \in {k \in I : t \in c.seq[k]}}
              <=> i \in I /\ t \in c.seq[i] /\ z = c.pos[i]
      BY ONLY <1>1, I \in SUBSET Cells, EntryPoint, t \in Seqs, i \in Cells, z \in Int
    <3>3. <<z, i>> \in u.seq_pos[t] <=> t \in c.seq[i] /\ z = c.pos[i] /\ i \notin I
      BY ONLY <1>3, <3>1, <3>2, t \in Seqs
    <3>4. <<z, i>> \in {<<p[j], j>> : j \in {k \in I \ gone : t \in c.seq[k]}}
              <=> i \in I \ gone /\ t \in c.seq[i] /\ z = p[i]
      OBVIOUS
    <3>5. <<z, i>> \in {<<p[j], j>> : j \in {k \in gone : t \in c.seq[k]}}
              <=> i \in gone /\ t \in c.seq[i] /\ z = p[i]
      OBVIOUS
    <3>6. <<z, i>> \in y.seq_pos[t] <=>
             /\ (t \in c.seq[i] /\ z = c.pos[i] /\ i \notin I) \/ (i \in I \ gone /\ t \in c.seq[i] /\ z = p[i])
             /\ ~(i \in gone /\ t \in c.seq[i] /\ z = p[i])
      <4>1. <<z, i>> \in x.seq_pos[t] <=> <<z, i>> \in u.seq_pos[t]
               \/ <<z, i>> \in {<<p[j], j>> : j \in {k \in I \ gone : t \in c.seq[k]}}
        BY ONLY <1>8, t \in Seqs
      <4>2. <<z, i>> \in y.seq_pos[t] <=> <<z, i>> \in x.seq_pos[t]
               /\ <<z, i>> \notin {<<p[j], j>> : j \in {k \in gone : t \in c.seq[k]}}
        BY ONLY <1>9, t \in Seqs
      <4> QED
        BY ONLY <3>3, <3>4, <3>5, <4>1, <4>2
    <3>7. /\ y.pos[i] = IF i \in gone THEN -1 ELSE p[i]
          /\ y.seq[i] = IF i \in gone THEN {} ELSE c.seq[i]
          /\ p[i] = IF i \in I THEN c.pos[i] + d ELSE c.pos[i]
      BY <1>4, <1>9
    <3>8. CASE i \in gone
      BY ONLY <1>10, <3>6, <3>7, <3>8, i \in Cells
    <3>9. CASE i \notin gone
      BY ONLY <1>10, <3>6, <3>7, <3>9, i \in Cells
    <3> QED
      BY <3>8, <3>9
  <2> QED
    BY <2>1 DEF Pointed
<1>13. y \in GoodCells
  BY <1>9, <1>11, <1>12, GoodPoint
<1> QED
  BY ONLY <1>4, <1>6, <1>9, <1>10, <1>13, x = Indexed(m, I \ gone), y = Freed(x, gone)

LEMMA SetCellsIs ==
    ASSUME conf \in Confs,
           NEW c \in GoodCells, NEW b \in GoodCells, NEW I \in SUBSET Cells, \A i \in Cells : c.shift[i] = 0
    PROVE  /\ SetCells(c, I, b) \in GoodCells
           /\ \A i \in Cells :
                 /\ SetCells(c, I, b).pos[i] = IF i \in I THEN b.pos[i] ELSE c.pos[i]
                 /\ SetCells(c, I, b).seq[i] = IF i \in I THEN b.seq[i] ELSE c.seq[i]
                 /\ SetCells(c, I, b).shift[i] = 0
           /\ SetCells(c, I, b).has_shift = c.has_shift
<1>1. c \in RawCells /\ Pointed(c) /\ Marked(c) /\ b \in RawCells /\ Pointed(b) /\ Marked(b)
  BY GoodFields
<1>2. /\ c.seq_pos \in [Seqs -> SUBSET (Int \X Cells)] /\ c.seq \in [Cells -> SUBSET Seqs]
      /\ c.pos \in [Cells -> Int] /\ c.shift \in [Cells -> Int] /\ c.has_shift \in BOOLEAN
      /\ c.used \in SUBSET Cells
      /\ b.seq \in [Cells -> SUBSET Seqs] /\ b.pos \in [Cells -> Int]
  BY <1>1, RawFields
<1> PICK u : u = Unindexed(c, I)
  OBVIOUS
<1>3. /\ u \in RawCells /\ u.pos = c.pos /\ u.seq = c.seq /\ u.shift = c.shift
      /\ u.has_shift = c.has_shift /\ u.used = c.used
      /\ \A t \in Seqs : u.seq_pos[t] = c.seq_pos[t] \ {<<c.pos[j], j>> : j \in {k \in I : t \in c.seq[k]}}
  BY <1>1, UnindexedIs
<1> PICK p : p = [i \in Cells |-> IF i \in I THEN b.pos[i] ELSE c.pos[i]]
  OBVIOUS
<1> PICK q : q = [i \in Cells |-> IF i \in I THEN b.seq[i] ELSE c.seq[i]]
  OBVIOUS
<1> PICK e : e = (c.used \ I) \cup {i \in I : ~IsEmpty(b, i)}
  OBVIOUS
<1> PICK m : m = [u EXCEPT !.pos = p, !.seq = q, !.used = e]
  OBVIOUS
<1>4. /\ p \in [Cells -> Int] /\ q \in [Cells -> SUBSET Seqs] /\ e \in SUBSET Cells
      /\ \A i \in Cells : /\ p[i] = IF i \in I THEN b.pos[i] ELSE c.pos[i]
                          /\ q[i] = IF i \in I THEN b.seq[i] ELSE c.seq[i]
                          /\ i \in e <=> IF i \in I THEN b.pos[i] # -1 ELSE i \in c.used
  <2>1. p \in [Cells -> Int]
    BY <1>2
  <2>2. q \in [Cells -> SUBSET Seqs]
    BY <1>2
  <2>3. e \in SUBSET Cells
    BY <1>2
  <2>4. \A i \in Cells : i \in e <=> IF i \in I THEN b.pos[i] # -1 ELSE i \in c.used
    BY DEF IsEmpty
  <2> QED
    BY <2>1, <2>2, <2>3, <2>4
<1>5. /\ m \in RawCells /\ m.pos = p /\ m.seq = q /\ m.shift = c.shift /\ m.has_shift = c.has_shift
      /\ m.used = e /\ m.seq_pos = u.seq_pos
  BY ONLY <1>3, <1>4, m = [u EXCEPT !.pos = p, !.seq = q, !.used = e] DEF RawCells
<1>6. SetCells(c, I, b) = Indexed(m, I)
  <2>1. m = [u EXCEPT !.pos  = [i \in Cells |-> IF i \in I THEN b.pos[i] ELSE @[i]],
                      !.seq  = [i \in Cells |-> IF i \in I THEN b.seq[i] ELSE @[i]],
                      !.used = (@ \ I) \cup {i \in I : ~IsEmpty(b, i)}]
    BY <1>3
  <2> QED
    BY <2>1 DEF SetCells
<1> PICK y : y = Indexed(m, I)
  OBVIOUS
<1>8. /\ y \in RawCells /\ y.pos = p /\ y.seq = q /\ y.shift = c.shift /\ y.has_shift = c.has_shift
      /\ y.used = e
      /\ \A t \in Seqs : y.seq_pos[t] = u.seq_pos[t] \cup {<<p[j], j>> : j \in {k \in I : t \in q[k]}}
  BY ONLY <1>5, I \in SUBSET Cells, y = Indexed(m, I), IndexedIs
<1>11. Marked(y)
  <2> SUFFICES ASSUME NEW i \in Cells
               PROVE  /\ i \in y.used <=> y.pos[i] # -1
                      /\ y.seq[i] # {} <=> y.pos[i] # -1
                      /\ y.shift[i] # 0 => y.pos[i] # -1 /\ y.has_shift
                      /\ y.pos[i] \in -1 .. (conf.n_ctx - 1)
    BY DEF Marked
  <2>1. /\ i \in c.used <=> c.pos[i] # -1
        /\ c.seq[i] # {} <=> c.pos[i] # -1
        /\ c.pos[i] \in -1 .. (conf.n_ctx - 1)
        /\ b.seq[i] # {} <=> b.pos[i] # -1
        /\ b.pos[i] \in -1 .. (conf.n_ctx - 1)
    BY <1>1, Zenon DEF Marked
  <2>2. y.shift[i] = 0
    BY <1>8
  <2> QED
    BY ONLY <1>4, <1>8, <2>1, <2>2, i \in Cells
<1>12. Pointed(y)
  <2>1. ASSUME NEW t \in Seqs, NEW i \in Cells, NEW z \in Int
        PROVE  <<z, i>> \in y.seq_pos[t] <=> t \in y.seq[i] /\ z = y.pos[i]
    <3>1. <<z, i>> \in c.seq_pos[t] <=> t \in c.seq[i] /\ z = c.pos[i]
      BY <1>1 DEF Pointed
    <3>2. <<z, i>> \in {<<c.pos[j], j>> : j \in {k \in I : t \in c.seq[k]}}
              <=> i \in I /\ t \in c.seq[i] /\ z = c.pos[i]
      BY ONLY <1>1, I \in SUBSET Cells, EntryPoint, t \in Seqs, i \in Cells, z \in Int
    <3>3. <<z, i>> \in u.seq_pos[t] <=> t \in c.seq[i] /\ z = c.pos[i] /\ i \notin I
      BY ONLY <1>3, <3>1, <3>2, t \in Seqs
    <3>4. <<z, i>> \in {<<p[j], j>> : j \in {k \in I : t \in q[k]}} <=> i \in I /\ t \in q[i] /\ z = p[i]
      OBVIOUS
    <3>6. <<z, i>> \in y.seq_pos[t] <=> <<z, i>> \in u.seq_pos[t]
               \/ <<z, i>> \in {<<p[j], j>> : j \in {k \in I : t \in q[k]}}
      BY ONLY <1>8, t \in Seqs
    <3>7. i \notin I => p[i] = c.pos[i] /\ q[i] = c.seq[i]
      BY <1>4
    <3> QED
      BY ONLY <1>8, <3>3, <3>4, <3>6, <3>7
  <2> QED
    BY <2>1 DEF Pointed
<1>13. y \in GoodCells
  BY <1>8, <1>11, <1>12, GoodPoint
<1> QED
  BY ONLY <1>4, <1>6, <1>8, <1>13, y = Indexed(m, I), \A i \in Cells : c.shift[i] = 0

LEMMA CopiedIs ==
    ASSUME conf \in Confs, NEW c \in GoodCells, NEW s \in Seqs, NEW d \in Seqs
    PROVE  /\ Copied(c, s, d) \in GoodCells
           /\ \A i \in Cells :
                 /\ Copied(c, s, d).pos[i] = IF s \in c.seq[i] THEN c.pos[i] ELSE -1
                 /\ Copied(c, s, d).shift[i] = IF s \in c.seq[i] THEN c.shift[i] ELSE 0
<1>1. c \in RawCells /\ Pointed(c) /\ Marked(c)
  BY GoodFields
<1>2. /\ c.seq \in [Cells -> SUBSET Seqs] /\ c.pos \in [Cells -> Int] /\ c.shift \in [Cells -> Int]
      /\ conf.n_ctx \in Nat \ {0}
  BY <1>1, RawFields, ConfFacts
<1> PICK I : I = HeldIn(c, s, 0, -1)
  OBVIOUS
<1>3. I = {i \in Cells : s \in c.seq[i]}
  <2>1. ASSUME NEW i \in Cells, s \in c.seq[i] PROVE c.pos[i] >= 0
    BY <1>1, <1>2, <2>1 DEF Marked
  <2>2. \A i \in Cells : i \in I <=> s \in c.seq[i]
    BY <1>2, <2>1 DEF HeldIn, PosIn
  <2> QED
    BY <2>2 DEF HeldIn
<1> PICK p : p = [i \in Cells |-> IF i \in I THEN c.pos[i] ELSE -1]
  OBVIOUS
<1> PICK q : q = [i \in Cells |-> IF i \in I THEN {d} ELSE {}]
  OBVIOUS
<1> PICK h : h = [i \in Cells |-> IF i \in I THEN c.shift[i] ELSE 0]
  OBVIOUS
<1> PICK b : b = (\E i \in I : c.shift[i] # 0)
  OBVIOUS
<1> PICK m : m = [EmptyCells EXCEPT !.pos = p, !.seq = q, !.shift = h, !.has_shift = b, !.used = I]
  OBVIOUS
<1>4. /\ p \in [Cells -> Int] /\ q \in [Cells -> SUBSET Seqs] /\ h \in [Cells -> Int] /\ b \in BOOLEAN
      /\ I \in SUBSET Cells
      /\ \A i \in Cells : /\ p[i] = IF i \in I THEN c.pos[i] ELSE -1
                          /\ q[i] = IF i \in I THEN {d} ELSE {}
                          /\ h[i] = IF i \in I THEN c.shift[i] ELSE 0
  <2>1. \A i \in Cells : (IF i \in I THEN {d} ELSE {}) \in SUBSET Seqs
    OBVIOUS
  <2>2. q \in [Cells -> SUBSET Seqs]
    BY <2>1
  <2> QED
    BY <1>2, <1>3, <2>2
<1>5. /\ m \in RawCells /\ m.pos = p /\ m.seq = q /\ m.shift = h /\ m.has_shift = b
      /\ m.used = I /\ m.seq_pos = [t \in Seqs |-> {}]
  BY ONLY <1>4, m = [EmptyCells EXCEPT !.pos = p, !.seq = q, !.shift = h, !.has_shift = b, !.used = I]
     DEF RawCells, EmptyCells
<1>6. Copied(c, s, d) = Indexed(m, I)
  BY DEF Copied
<1> PICK y : y = Indexed(m, I)
  OBVIOUS
<1>8. /\ y \in RawCells /\ y.pos = p /\ y.seq = q /\ y.shift = h /\ y.has_shift = b /\ y.used = I
      /\ \A t \in Seqs : y.seq_pos[t] = {} \cup {<<p[j], j>> : j \in {k \in I : t \in q[k]}}
  BY ONLY <1>4, <1>5, y = Indexed(m, I), IndexedIs
<1>11. Marked(y)
  <2> SUFFICES ASSUME NEW i \in Cells
               PROVE  /\ i \in y.used <=> y.pos[i] # -1
                      /\ y.seq[i] # {} <=> y.pos[i] # -1
                      /\ y.shift[i] # 0 => y.pos[i] # -1 /\ y.has_shift
                      /\ y.pos[i] \in -1 .. (conf.n_ctx - 1)
    BY DEF Marked
  <2>2. i \in I /\ c.shift[i] # 0 => b
    OBVIOUS
  <2>3. /\ c.seq[i] # {} <=> c.pos[i] # -1
        /\ c.pos[i] \in -1 .. (conf.n_ctx - 1)
    BY <1>1, Zenon DEF Marked
  <2>4. i \in I => c.seq[i] # {}
    BY <1>3
  <2> QED
    BY ONLY <1>2, <1>4, <1>8, <2>2, <2>3, <2>4, i \in Cells
<1>12. Pointed(y)
  <2>1. ASSUME NEW t \in Seqs, NEW i \in Cells, NEW z \in Int
        PROVE  <<z, i>> \in y.seq_pos[t] <=> t \in y.seq[i] /\ z = y.pos[i]
    <3>4. <<z, i>> \in {<<p[j], j>> : j \in {k \in I : t \in q[k]}} <=> i \in I /\ t \in q[i] /\ z = p[i]
      OBVIOUS
    <3>5. t \in q[i] => i \in I
      BY <1>4
    <3> QED
      BY ONLY <1>8, <3>4, <3>5, t \in Seqs
  <2> QED
    BY <2>1 DEF Pointed
<1>13. y \in GoodCells
  BY <1>8, <1>11, <1>12, GoodPoint
<1> QED
  BY ONLY <1>3, <1>4, <1>6, <1>8, <1>13, y = Indexed(m, I)

LEMMA PartFields ==
    ASSUME NEW p \in Parts
    PROVE  /\ p.strm \in Streams /\ p.toks \in Seq(TokenKind) /\ p.idxs \in Seq(Cells)
           /\ Len(p.idxs) = Len(p.toks) /\ Len(p.idxs) \in Nat \ {0}
           /\ DOMAIN p.idxs = 1 .. Len(p.idxs) /\ DOMAIN p.toks = 1 .. Len(p.idxs)
           /\ ToSet(p.idxs) \in SUBSET Cells
           /\ \A j \in 1 .. Len(p.idxs) :
                 p.idxs[j] \in Cells /\ p.toks[j] \in TokenKind /\ seq_to_stream(p.toks[j].seq) = p.strm
<1>1. /\ p.strm \in Streams /\ p.toks \in Seq(TokenKind) /\ p.idxs \in Seq(Cells)
      /\ Len(p.idxs) = Len(p.toks) /\ p.idxs # <<>>
      /\ \A j \in DOMAIN p.toks : seq_to_stream(p.toks[j].seq) = p.strm
  BY DEF Parts
<1>2. Len(p.idxs) \in Nat \ {0} /\ DOMAIN p.idxs = 1 .. Len(p.idxs) /\ DOMAIN p.toks = 1 .. Len(p.idxs)
  BY ONLY <1>1
<1>3. \A j \in 1 .. Len(p.idxs) : p.idxs[j] \in Cells /\ p.toks[j] \in TokenKind
  BY ONLY <1>1, <1>2
<1>4. ToSet(p.idxs) \in SUBSET Cells
  BY ONLY <1>2, <1>3 DEF ToSet
<1> QED
  BY ONLY <1>1, <1>2, <1>3, <1>4

LEMMA TokenAtIs ==
    ASSUME NEW p \in Parts, NEW i \in ToSet(p.idxs)
    PROVE  \E j \in 1 .. Len(p.idxs) : p.idxs[j] = i /\ TokenAt(p, i) = p.toks[j]
<1>1. DOMAIN p.idxs = 1 .. Len(p.idxs)
  BY PartFields
<1>2. \E j \in DOMAIN p.idxs : p.idxs[j] = i
  BY DEF ToSet
<1> DEFINE k == CHOOSE j \in DOMAIN p.idxs : p.idxs[j] = i
<1>3. k \in DOMAIN p.idxs /\ p.idxs[k] = i
  BY <1>2
<1>4. TokenAt(p, i) = p.toks[k]
  BY DEF TokenAt
<1> QED
  BY <1>1, <1>3, <1>4

LEMMA TokenAtKind ==
    ASSUME conf \in Confs, NEW p \in Parts, NEW i \in ToSet(p.idxs)
    PROVE  /\ TokenAt(p, i).seq \in Seqs /\ seq_to_stream(TokenAt(p, i).seq) = p.strm
           /\ TokenAt(p, i).pos \in 0 .. (conf.n_ctx - 1) /\ TokenAt(p, i).pos \in Nat
<1>1. PICK j \in 1 .. Len(p.idxs) : p.idxs[j] = i /\ TokenAt(p, i) = p.toks[j]
  BY TokenAtIs
<1>2. p.toks[j] \in TokenKind /\ seq_to_stream(p.toks[j].seq) = p.strm
  BY PartFields
<1>3. conf.n_ctx \in Nat \ {0}
  BY ConfFacts
<1> QED
  BY <1>1, <1>2, <1>3 DEF TokenKind

LEMMA PlacedIs ==
    ASSUME conf \in Confs, NEW c \in GoodCells, NEW part \in Parts
    PROVE  /\ Placed(c, part) \in GoodCells
           /\ \A i \in Cells :
                 LET taken == i \in ToSet(part.idxs)
                 IN  /\ Placed(c, part).pos[i] = IF taken THEN TokenAt(part, i).pos ELSE c.pos[i]
                     /\ Placed(c, part).seq[i] = IF taken THEN {TokenAt(part, i).seq} ELSE c.seq[i]
                     /\ Placed(c, part).shift[i] = IF taken THEN 0 ELSE c.shift[i]
           /\ Placed(c, part).has_shift = c.has_shift
<1>1. c \in RawCells /\ Pointed(c) /\ Marked(c)
  BY GoodFields
<1> PICK I : I = ToSet(part.idxs)
  OBVIOUS
<1>2. /\ c.seq \in [Cells -> SUBSET Seqs] /\ c.pos \in [Cells -> Int] /\ c.shift \in [Cells -> Int]
      /\ conf.n_ctx \in Nat \ {0} /\ I \in SUBSET Cells
      /\ \A i \in I : TokenAt(part, i).seq \in Seqs /\ TokenAt(part, i).pos \in 0 .. (conf.n_ctx - 1)
                      /\ TokenAt(part, i).pos \in Nat
  BY <1>1, RawFields, ConfFacts, PartFields, TokenAtKind
<1> PICK E : E = {i \in I : ~IsEmpty(c, i)}
  OBVIOUS
<1>e. E \in SUBSET Cells /\ \A i \in Cells : i \in E <=> i \in I /\ c.pos[i] # -1
  BY <1>2 DEF IsEmpty
<1> PICK f : f = Freed(c, E)
  OBVIOUS
<1>3. /\ f \in RawCells
      /\ \A i \in Cells :
            /\ f.pos[i] = IF i \in E THEN -1 ELSE c.pos[i]
            /\ f.seq[i] = IF i \in E THEN {} ELSE c.seq[i]
            /\ f.shift[i] = IF i \in E THEN 0 ELSE c.shift[i]
      /\ f.has_shift = c.has_shift /\ f.used = c.used \ E
      /\ \A t \in Seqs : f.seq_pos[t] =
            c.seq_pos[t] \ {<<c.pos[j], j>> : j \in {k \in E : t \in c.seq[k]}}
  BY ONLY <1>1, <1>e, f = Freed(c, E), FreedIs
<1>4. f.pos \in [Cells -> Int] /\ f.seq \in [Cells -> SUBSET Seqs] /\ f.used \in SUBSET Cells
  BY <1>3, RawFields
<1> PICK p : p = [i \in Cells |-> IF i \in I THEN TokenAt(part, i).pos ELSE f.pos[i]]
  OBVIOUS
<1> PICK q : q = [i \in Cells |-> IF i \in I THEN {TokenAt(part, i).seq} ELSE f.seq[i]]
  OBVIOUS
<1> PICK m : m = [f EXCEPT !.pos = p, !.seq = q, !.used = @ \cup I]
  OBVIOUS
<1>5. /\ p \in [Cells -> Int] /\ q \in [Cells -> SUBSET Seqs]
      /\ \A i \in Cells : /\ p[i] = IF i \in I THEN TokenAt(part, i).pos ELSE f.pos[i]
                          /\ q[i] = IF i \in I THEN {TokenAt(part, i).seq} ELSE f.seq[i]
  <2>1. \A i \in Cells : (IF i \in I THEN TokenAt(part, i).pos ELSE f.pos[i]) \in Int
    BY <1>2, <1>4
  <2>2. \A i \in Cells : (IF i \in I THEN {TokenAt(part, i).seq} ELSE f.seq[i]) \in SUBSET Seqs
    BY <1>2, <1>4
  <2> QED
    BY ONLY <2>1, <2>2, p = [i \in Cells |-> IF i \in I THEN TokenAt(part, i).pos ELSE f.pos[i]],
       q = [i \in Cells |-> IF i \in I THEN {TokenAt(part, i).seq} ELSE f.seq[i]]
<1>6. /\ m \in RawCells /\ m.pos = p /\ m.seq = q /\ m.shift = f.shift /\ m.has_shift = c.has_shift
      /\ m.used = f.used \cup I /\ m.seq_pos = f.seq_pos
  <2>1. f.used \cup I \in SUBSET Cells
    BY <1>2, <1>4
  <2> QED
    BY ONLY <1>3, <1>5, <2>1, m = [f EXCEPT !.pos = p, !.seq = q, !.used = @ \cup I] DEF RawCells
<1>7. Placed(c, part) = Indexed(m, I)
  <2>1. m = [f EXCEPT !.pos = [i \in Cells |-> IF i \in I THEN TokenAt(part, i).pos ELSE @[i]],
                      !.seq = [i \in Cells |-> IF i \in I THEN {TokenAt(part, i).seq} ELSE @[i]],
                      !.used = @ \cup I]
    BY <1>3
  <2> QED
    BY <2>1 DEF Placed
<1> PICK y : y = Indexed(m, I)
  OBVIOUS
<1>8. /\ y \in RawCells /\ y.pos = p /\ y.seq = q /\ y.shift = f.shift /\ y.has_shift = c.has_shift
      /\ y.used = f.used \cup I
      /\ \A t \in Seqs : y.seq_pos[t] = f.seq_pos[t] \cup {<<p[j], j>> : j \in {k \in I : t \in q[k]}}
  BY ONLY <1>2, <1>6, y = Indexed(m, I), IndexedIs
<1>9. ASSUME NEW i \in Cells
      PROVE  /\ y.pos[i] = IF i \in I THEN TokenAt(part, i).pos ELSE c.pos[i]
             /\ y.seq[i] = IF i \in I THEN {TokenAt(part, i).seq} ELSE c.seq[i]
             /\ y.shift[i] = IF i \in I THEN 0 ELSE c.shift[i]
  <2>1. c.pos[i] = -1 => c.shift[i] = 0
    BY <1>1 DEF Marked
  <2>2. i \notin I => i \notin E
    BY <1>e
  <2>3. i \in I => i \in E \/ c.pos[i] = -1
    BY <1>e
  <2> QED
    BY ONLY <1>3, <1>5, <1>8, <2>1, <2>2, <2>3, i \in Cells
<1>11. Marked(y)
  <2> SUFFICES ASSUME NEW i \in Cells
               PROVE  /\ i \in y.used <=> y.pos[i] # -1
                      /\ y.seq[i] # {} <=> y.pos[i] # -1
                      /\ y.shift[i] # 0 => y.pos[i] # -1 /\ y.has_shift
                      /\ y.pos[i] \in -1 .. (conf.n_ctx - 1)
    BY DEF Marked
  <2>1. /\ i \in c.used <=> c.pos[i] # -1
        /\ c.seq[i] # {} <=> c.pos[i] # -1
        /\ c.shift[i] # 0 => c.pos[i] # -1 /\ c.has_shift
        /\ c.pos[i] \in -1 .. (conf.n_ctx - 1)
    BY <1>1, Zenon DEF Marked
  <2>2. i \in y.used <=> (i \in c.used /\ i \notin E) \/ i \in I
    BY <1>3, <1>8
  <2>3. i \notin I => i \notin E
    BY <1>e
  <2>4. CASE i \in I
    <3>1. y.pos[i] = TokenAt(part, i).pos /\ y.seq[i] = {TokenAt(part, i).seq} /\ y.shift[i] = 0
      BY <1>9, <2>4
    <3>2. TokenAt(part, i).pos \in 0 .. (conf.n_ctx - 1)
      BY <1>2, <2>4
    <3> QED
      BY ONLY <1>2, <2>2, <2>4, <3>1, <3>2
  <2>5. CASE i \notin I
    <3>1. y.pos[i] = c.pos[i] /\ y.seq[i] = c.seq[i] /\ y.shift[i] = c.shift[i]
      BY <1>9, <2>5
    <3> QED
      BY ONLY <1>8, <2>1, <2>2, <2>3, <2>5, <3>1
  <2> QED
    BY <2>4, <2>5
<1>12. Pointed(y)
  <2>1. ASSUME NEW t \in Seqs, NEW i \in Cells, NEW z \in Int
        PROVE  <<z, i>> \in y.seq_pos[t] <=> t \in y.seq[i] /\ z = y.pos[i]
    <3>1. <<z, i>> \in c.seq_pos[t] <=> t \in c.seq[i] /\ z = c.pos[i]
      BY <1>1 DEF Pointed
    <3>2. <<z, i>> \in {<<c.pos[j], j>> : j \in {k \in E : t \in c.seq[k]}}
              <=> i \in E /\ t \in c.seq[i] /\ z = c.pos[i]
      BY ONLY <1>1, <1>e, EntryPoint, t \in Seqs, i \in Cells, z \in Int
    <3>3. <<z, i>> \in f.seq_pos[t] <=> t \in c.seq[i] /\ z = c.pos[i] /\ i \notin E
      BY ONLY <1>3, <3>1, <3>2, t \in Seqs
    <3>4. <<z, i>> \in {<<p[j], j>> : j \in {k \in I : t \in q[k]}} <=> i \in I /\ t \in q[i] /\ z = p[i]
      OBVIOUS
    <3>6. <<z, i>> \in y.seq_pos[t] <=> <<z, i>> \in f.seq_pos[t]
               \/ <<z, i>> \in {<<p[j], j>> : j \in {k \in I : t \in q[k]}}
      BY ONLY <1>8, t \in Seqs
    <3>7. i \in I /\ i \notin E => t \notin c.seq[i]
      <4>1. c.seq[i] # {} <=> c.pos[i] # -1
        BY <1>1, Zenon DEF Marked
      <4>2. i \in E <=> i \in I /\ c.pos[i] # -1
        BY <1>e
      <4> QED
        BY ONLY <4>1, <4>2
    <3>8. i \notin I => i \notin E /\ y.pos[i] = c.pos[i] /\ y.seq[i] = c.seq[i]
      BY <1>9, <1>e
    <3> QED
      BY ONLY <1>8, <3>3, <3>4, <3>6, <3>7, <3>8
  <2> QED
    BY <2>1 DEF Pointed
<1>13. y \in GoodCells
  BY <1>8, <1>11, <1>12, GoodPoint
<1> QED
  BY ONLY <1>7, <1>8, <1>9, <1>13, y = Indexed(m, I), I = ToSet(part.idxs)

----------------------------------------------------------------------------
(* The cells of all streams.                                                *)

KVKind == [cells : [Streams -> GoodCells], heads : [Streams -> 0 .. conf.size], sc : Seq(Streams \X Streams)]

(* The cells of c2 that hold something hold what they held in c, at the     *)
(* position it was rotated for.                                             *)
Keeps(c, c2) ==
    \A i \in Cells :
        c2.pos[i] # -1 => c.pos[i] # -1 /\ c2.pos[i] - c2.shift[i] = c.pos[i] - c.shift[i]

Unshifted(c) == \A i \in Cells : c.shift[i] = 0

KeepsAll(k, k2) == \A st \in Streams : Keeps(k.cells[st], k2.cells[st])
AllUnshifted(k) == \A st \in Streams : Unshifted(k.cells[st])

LEMMA KeepsItself ==
    ASSUME NEW k
    PROVE  KeepsAll(k, k)
BY Zenon DEF KeepsAll, Keeps

LEMMA KeepsTransitive ==
    ASSUME NEW k, NEW k1, NEW k2, KeepsAll(k, k1), KeepsAll(k1, k2)
    PROVE  KeepsAll(k, k2)
BY Zenon DEF KeepsAll, Keeps

LEMMA KVFields ==
    ASSUME NEW k \in KVKind
    PROVE  /\ k.cells \in [Streams -> GoodCells] /\ k.heads \in [Streams -> 0 .. conf.size]
           /\ k.sc \in Seq(Streams \X Streams)
           /\ \A st \in Streams : k.cells[st] \in GoodCells /\ k.heads[st] \in 0 .. conf.size
BY DEF KVKind

LEMMA HeldInIs ==
    ASSUME NEW c \in GoodCells, NEW s \in Seqs, NEW p0, NEW p1
    PROVE  /\ HeldIn(c, s, p0, p1) \in SUBSET Cells
           /\ \A i \in HeldIn(c, s, p0, p1) : s \in c.seq[i] /\ c.pos[i] # -1
<1>1. Marked(c)
  BY GoodFields
<1>2. HeldIn(c, s, p0, p1) \in SUBSET Cells /\ \A i \in HeldIn(c, s, p0, p1) : s \in c.seq[i]
  BY DEF HeldIn
<1>3. \A i \in Cells : s \in c.seq[i] => c.pos[i] # -1
  <2>1. \A i \in Cells : c.seq[i] # {} <=> c.pos[i] # -1
    BY <1>1, Zenon DEF Marked
  <2> QED
    BY <2>1
<1> QED
  BY <1>2, <1>3

LEMMA LeastFreed ==
    ASSUME conf \in Confs, NEW F \in SUBSET Cells, F # {}
    PROVE  Min(F) \in 0 .. conf.size
<1>1. conf.size \in Nat \ {0} /\ Cells = 0 .. (conf.size - 1)
  BY ConfFacts
<1>2. F \in SUBSET Int /\ \A x \in F : 0 <= x
  BY <1>1
<1>3. Min(F) \in F
  BY <1>2, MinOfInt
<1>4. Min(F) \in 0 .. (conf.size - 1)
  BY <1>1, <1>3
<1> QED
  BY ONLY <1>1, <1>4

LEMMA HeadAtIs ==
    ASSUME conf \in Confs, NEW h \in 0 .. conf.size, NEW F \in SUBSET Cells
    PROVE  HeadAt(h, F) \in 0 .. conf.size
BY LeastFreed DEF HeadAt

LEMMA NowFreeIs ==
    ASSUME NEW c, NEW c2
    PROVE  NowFree(c, c2) \in SUBSET Cells
BY DEF NowFree

LEMMA SeqRmIs ==
    ASSUME conf \in Confs, NEW k \in KVKind, NEW s \in Seqs, NEW p0, NEW p1
    PROVE  /\ SeqRm(k, s, p0, p1) \in KVKind /\ SeqRm(k, s, p0, p1).sc = k.sc
           /\ KeepsAll(k, SeqRm(k, s, p0, p1))
           /\ AllUnshifted(k) => AllUnshifted(SeqRm(k, s, p0, p1))
<1> PICK st : st = seq_to_stream(s)
  OBVIOUS
<1>s. st \in Streams
  BY ConfFacts
<1>1. k.cells[st] \in GoodCells /\ k.heads[st] \in 0 .. conf.size
  BY <1>s, KVFields
<1> PICK o : o = k.cells[st]
  OBVIOUS
<1>o. o \in GoodCells
  BY <1>1
<1> PICK I : I = HeldIn(o, s, p0, p1)
  OBVIOUS
<1>2. I \in SUBSET Cells /\ \A i \in I : s \in o.seq[i]
  BY <1>1, HeldInIs
<1> PICK c : c = SeqRemoved(o, s, I)
  OBVIOUS
<1>3. /\ c \in GoodCells
      /\ \A i \in Cells :
            LET gone == i \in I /\ o.seq[i] = {s}
            IN  /\ c.pos[i] = IF gone THEN -1 ELSE o.pos[i]
                /\ c.shift[i] = IF gone THEN 0 ELSE o.shift[i]
  <2>1. /\ SeqRemoved(o, s, I) \in GoodCells
        /\ \A i \in Cells :
              LET gone == i \in I /\ o.seq[i] = {s}
              IN  /\ SeqRemoved(o, s, I).pos[i] = IF gone THEN -1 ELSE o.pos[i]
                  /\ SeqRemoved(o, s, I).seq[i] = IF i \in I THEN o.seq[i] \ {s} ELSE o.seq[i]
                  /\ SeqRemoved(o, s, I).shift[i] = IF gone THEN 0 ELSE o.shift[i]
        /\ SeqRemoved(o, s, I).has_shift = o.has_shift
    BY ONLY conf \in Confs, <1>o, <1>2, s \in Seqs, SeqRemovedIs
  <2> QED
    BY ONLY <2>1, c = SeqRemoved(o, s, I)
<1> PICK h : h = HeadAt(k.heads[st], NowFree(o, c))
  OBVIOUS
<1>4. h \in 0 .. conf.size
  BY <1>1, NowFreeIs, HeadAtIs
<1> PICK k2 : k2 = [k EXCEPT !.cells[st] = c, !.heads[st] = h]
  OBVIOUS
<1>5. SeqRm(k, s, p0, p1) = k2
  BY DEF SeqRm, KVKind
<1>6. /\ k2 \in KVKind /\ k2.sc = k.sc
      /\ \A t \in Streams : k2.cells[t] = IF t = st THEN c ELSE k.cells[t]
  <2>1. c \in GoodCells
    BY <1>3, Zenon
  <2> QED
    BY ONLY k \in KVKind, <1>s, <2>1, <1>4, k2 = [k EXCEPT !.cells[st] = c, !.heads[st] = h] DEF KVKind
<1>7. Keeps(o, c) /\ (Unshifted(o) => Unshifted(c))
  BY ONLY <1>3 DEF Keeps, Unshifted
<1>8. KeepsAll(k, k2)
  <2>1. ASSUME NEW t \in Streams PROVE Keeps(k.cells[t], k2.cells[t])
    <3>1. Keeps(k.cells[t], k.cells[t])
      BY Zenon DEF Keeps
    <3> QED
      BY <1>6, <1>7, <3>1, Zenon
  <2> QED
    BY <2>1 DEF KeepsAll
<1>9. AllUnshifted(k) => AllUnshifted(k2)
  BY <1>1, <1>6, <1>7, Zenon DEF AllUnshifted
<1> QED
  BY <1>5, <1>6, <1>8, <1>9

LEMMA SeqAddIs ==
    ASSUME conf \in Confs, NEW k \in KVKind, NEW s \in Seqs, NEW p0, NEW p1, NEW d \in Int, d < 0
    PROVE  /\ SeqAdd(k, s, p0, p1, d) \in KVKind /\ SeqAdd(k, s, p0, p1, d).sc = k.sc
           /\ KeepsAll(k, SeqAdd(k, s, p0, p1, d))
<1> PICK st : st = seq_to_stream(s)
  OBVIOUS
<1>s. st \in Streams
  BY ConfFacts
<1>1. k.cells[st] \in GoodCells /\ k.heads[st] \in 0 .. conf.size
  BY <1>s, KVFields
<1> PICK o : o = k.cells[st]
  OBVIOUS
<1>o. o \in GoodCells
  BY <1>1
<1> PICK I : I = HeldIn(o, s, p0, p1)
  OBVIOUS
<1>2. I \in SUBSET Cells /\ \A i \in I : o.pos[i] # -1
  BY <1>1, HeldInIs
<1> PICK c : c = PosAdded(o, I, d)
  OBVIOUS
<1>3. /\ c \in GoodCells
      /\ \A i \in Cells :
            LET gone == i \in I /\ o.pos[i] + d < 0
            IN  /\ c.pos[i] = IF gone THEN -1 ELSE IF i \in I THEN o.pos[i] + d ELSE o.pos[i]
                /\ c.shift[i] = IF gone THEN 0 ELSE IF i \in I THEN o.shift[i] + d ELSE o.shift[i]
  BY ONLY conf \in Confs, <1>o, <1>2, c = PosAdded(o, I, d), d \in Int, d < 0, PosAddedIs
<1> PICK F : F = NowFree(o, c)
  OBVIOUS
<1> PICK h : h = IF F = {} THEN 0 ELSE Min(F)
  OBVIOUS
<1>4. h \in 0 .. conf.size
  <2>1. 0 \in 0 .. conf.size
    BY ConfFacts
  <2>2. F \in SUBSET Cells
    BY NowFreeIs
  <2>3. F # {} => Min(F) \in 0 .. conf.size
    BY <2>2, LeastFreed
  <2> QED
    BY <2>1, <2>3
<1> PICK k2 : k2 = [k EXCEPT !.cells[st] = c, !.heads[st] = h]
  OBVIOUS
<1>5. SeqAdd(k, s, p0, p1, d) = IF d = 0 \/ p0 = p1 THEN k ELSE k2
  BY DEF SeqAdd, KVKind
<1>6. /\ k2 \in KVKind /\ k2.sc = k.sc
      /\ \A t \in Streams : k2.cells[t] = IF t = st THEN c ELSE k.cells[t]
  <2>1. c \in GoodCells
    BY <1>3, Zenon
  <2> QED
    BY ONLY k \in KVKind, <1>s, <2>1, <1>4, k2 = [k EXCEPT !.cells[st] = c, !.heads[st] = h] DEF KVKind
<1>7. Keeps(o, c)
  <2>1. \A i \in Cells : o.pos[i] \in Int /\ o.shift[i] \in Int
    BY <1>1, GoodFields
  <2>2. ASSUME NEW i \in Cells, c.pos[i] # -1
        PROVE  o.pos[i] # -1 /\ c.pos[i] - c.shift[i] = o.pos[i] - o.shift[i]
    <3>1. ~(i \in I /\ o.pos[i] + d < 0)
      BY <1>3, <2>2
    <3>2. CASE i \in I
      BY ONLY <1>2, <1>3, <2>1, <3>1, <3>2, i \in Cells, d \in Int
    <3>3. CASE i \notin I
      BY ONLY <1>3, <2>2, <3>3, i \in Cells
    <3> QED
      BY <3>2, <3>3
  <2> QED
    BY <2>2 DEF Keeps
<1>8. KeepsAll(k, k2)
  <2>1. ASSUME NEW t \in Streams PROVE Keeps(k.cells[t], k2.cells[t])
    <3>1. Keeps(k.cells[t], k.cells[t])
      BY Zenon DEF Keeps
    <3> QED
      BY <1>6, <1>7, <3>1, Zenon
  <2> QED
    BY <2>1 DEF KeepsAll
<1> QED
  BY <1>5, <1>6, <1>8, KeepsItself

----------------------------------------------------------------------------
(* The data of the cells.                                                   *)

DataKind == [Streams -> [Cells -> [key : -1 .. (conf.n_ctx - 1), tok : Seqs \cup {-1}]]]

(* Every key is rotated for its cell's position, but for the shift.         *)
KeysAt(cells, d) ==
    \A st \in Streams, i \in Cells :
        cells[st].pos[i] # -1 => d[st][i].key + cells[st].shift[i] = cells[st].pos[i]

LEMMA DataFields ==
    ASSUME conf \in Confs, NEW d \in DataKind, NEW st \in Streams, NEW i \in Cells
    PROVE  /\ d[st] \in [Cells -> [key : -1 .. (conf.n_ctx - 1), tok : Seqs \cup {-1}]]
           /\ d[st][i].key \in -1 .. (conf.n_ctx - 1) /\ d[st][i].key \in Int
           /\ d[st][i].tok \in Seqs \cup {-1}
<1>1. d[st] \in [Cells -> [key : -1 .. (conf.n_ctx - 1), tok : Seqs \cup {-1}]]
  BY DEF DataKind
<1>2. d[st][i] \in [key : -1 .. (conf.n_ctx - 1), tok : Seqs \cup {-1}]
  BY <1>1
<1>3. d[st][i].key \in -1 .. (conf.n_ctx - 1) /\ d[st][i].tok \in Seqs \cup {-1}
  BY <1>2
<1> QED
  BY <1>1, <1>3, RangeFacts

LEMMA CellFields ==
    ASSUME NEW k \in KVKind, NEW st \in Streams, NEW i \in Cells
    PROVE  k.cells[st].pos[i] \in Int /\ k.cells[st].shift[i] \in Int
BY KVFields, GoodFields

LEMMA KeepsKeys ==
    ASSUME conf \in Confs, NEW k \in KVKind, NEW k2 \in KVKind, NEW d \in DataKind,
           KeepsAll(k, k2), KeysAt(k.cells, d)
    PROVE  KeysAt(k2.cells, d)
<1> SUFFICES ASSUME NEW st \in Streams, NEW i \in Cells, k2.cells[st].pos[i] # -1
             PROVE  d[st][i].key + k2.cells[st].shift[i] = k2.cells[st].pos[i]
  BY DEF KeysAt
<1>1. /\ k.cells[st].pos[i] # -1
      /\ k2.cells[st].pos[i] - k2.cells[st].shift[i] = k.cells[st].pos[i] - k.cells[st].shift[i]
  BY Zenon DEF KeepsAll, Keeps
<1>2. d[st][i].key + k.cells[st].shift[i] = k.cells[st].pos[i]
  BY <1>1 DEF KeysAt
<1>3. /\ k.cells[st].pos[i] \in Int /\ k.cells[st].shift[i] \in Int
      /\ k2.cells[st].pos[i] \in Int /\ k2.cells[st].shift[i] \in Int
  BY CellFields
<1>4. d[st][i].key \in Int
  BY DataFields
<1> QED
  BY ONLY <1>1, <1>2, <1>3, <1>4

(* The copies of streams.                                                   *)
CopyStep(c, x, p) == [x EXCEPT ![p[2]] = x[p[1]]]

IsData(c, n, x) == x \in c

Copies == INSTANCE FoldProofs WITH Op <- CopyStep, Good <- IsData

LEMMA CopiesAreFold ==
    ASSUME NEW d, NEW sc
    PROVE  StreamsCopied(d, sc) = Copies!FoldOf(DataKind, d, sc)
BY Zenon DEF StreamsCopied, FoldLeft, MapThenFoldSet, Max,
       Copies!FoldOf, Copies!MapThenFoldSet, Copies!Greatest, CopyStep

LEMMA CopiesOfNone ==
    ASSUME NEW d
    PROVE  StreamsCopied(d, <<>>) = d
BY CopiesAreFold, Copies!FoldEmpty

LEMMA CopiesAppend ==
    ASSUME NEW c, NEW b, NEW R, NEW s \in Seq(R), NEW e \in R
    PROVE  Copies!FoldOf(c, b, Append(s, e)) = CopyStep(c, Copies!FoldOf(c, b, s), e)
BY Copies!FoldAppend

LEMMA CopiesOfOneMore ==
    ASSUME NEW d, NEW sc \in Seq(Streams \X Streams), NEW p \in Streams \X Streams
    PROVE  StreamsCopied(d, Append(sc, p)) = [StreamsCopied(d, sc) EXCEPT ![p[2]] = StreamsCopied(d, sc)[p[1]]]
<1>1. StreamsCopied(d, Append(sc, p)) = Copies!FoldOf(DataKind, d, Append(sc, p))
  BY CopiesAreFold
<1>2. StreamsCopied(d, sc) = Copies!FoldOf(DataKind, d, sc)
  BY CopiesAreFold
<1> PICK R : R = Streams \X Streams
  OBVIOUS
<1>3. sc \in Seq(R) /\ p \in R
  OBVIOUS
<1>4. Copies!FoldOf(DataKind, d, Append(sc, p)) = CopyStep(DataKind, Copies!FoldOf(DataKind, d, sc), p)
  <2> PICK K : K = DataKind
    OBVIOUS
  <2>1. Copies!FoldOf(K, d, Append(sc, p)) = CopyStep(K, Copies!FoldOf(K, d, sc), p)
    BY ONLY <1>3, CopiesAppend
  <2> QED
    BY <2>1
<1> QED
  BY <1>1, <1>2, <1>4, Zenon DEF CopyStep

LEMMA CopiesInvariant ==
    ASSUME NEW c, NEW b, NEW s, Len(s) \in Nat, DOMAIN s = 1 .. Len(s), IsData(c, 0, b),
           ASSUME NEW n \in 0 .. Len(s) - 1, NEW v, IsData(c, n, v)
           PROVE  IsData(c, n + 1, CopyStep(c, v, s[n + 1]))
    PROVE  IsData(c, Len(s), Copies!FoldOf(c, b, s))
<1>1. \A n \in 0 .. Len(s) - 1 : \A v : IsData(c, n, v) => IsData(c, n + 1, CopyStep(c, v, s[n + 1]))
  OBVIOUS
<1> QED
  BY ONLY Len(s) \in Nat, DOMAIN s = 1 .. Len(s), IsData(c, 0, b), <1>1, Copies!FoldInvariant, Zenon

LEMMA CopiesAreData ==
    ASSUME NEW d \in DataKind, NEW sc \in Seq(Streams \X Streams)
    PROVE  StreamsCopied(d, sc) \in DataKind
<1>1. Len(sc) \in Nat /\ DOMAIN sc = 1 .. Len(sc)
  OBVIOUS
<1>2. IsData(DataKind, 0, d)
  BY DEF IsData
<1>3. ASSUME NEW n \in 0 .. Len(sc) - 1, NEW v, IsData(DataKind, n, v)
      PROVE  IsData(DataKind, n + 1, CopyStep(DataKind, v, sc[n + 1]))
  <2>1. v \in DataKind
    BY <1>3 DEF IsData
  <2>2. sc[n + 1] \in Streams \X Streams
    BY <1>1
  <2>3. sc[n + 1][1] \in Streams /\ sc[n + 1][2] \in Streams
    BY <2>2
  <2>4. [v EXCEPT ![sc[n + 1][2]] = v[sc[n + 1][1]]] \in DataKind
    BY <2>1, <2>3 DEF DataKind
  <2> QED
    BY <2>4 DEF IsData, CopyStep
<1>4. IsData(DataKind, Len(sc), Copies!FoldOf(DataKind, d, sc))
  BY ONLY <1>1, <1>2, <1>3, CopiesInvariant
<1> QED
  BY <1>4, CopiesAreFold DEF IsData

(* What the cells hold is copied with a sequence, now or later.             *)
LEMMA SeqCpIs ==
    ASSUME conf \in Confs, NEW k \in KVKind, NEW s \in Seqs, NEW d \in Seqs, NEW x \in DataKind,
           KeysAt(k.cells, StreamsCopied(x, k.sc))
    PROVE  /\ SeqCp(k, s, d) \in KVKind
           /\ KeysAt(SeqCp(k, s, d).cells, StreamsCopied(x, SeqCp(k, s, d).sc))
<1> PICK s0 : s0 = seq_to_stream(s)
  OBVIOUS
<1> PICK s1 : s1 = seq_to_stream(d)
  OBVIOUS
<1>1. s0 \in Streams /\ s1 \in Streams
  BY ConfFacts
<1>2. k.cells[s0] \in GoodCells /\ k.cells[s1] \in GoodCells /\ k.heads[s0] \in 0 .. conf.size
  BY <1>1, KVFields
<1>3. CASE s0 = s1
  <2> PICK o : o = k.cells[s0]
    OBVIOUS
  <2> PICK I : I = HeldIn(o, s, 0, -1)
    OBVIOUS
  <2>1. o \in GoodCells
    BY <1>2
  <2>2. I \in SUBSET Cells /\ \A i \in I : o.pos[i] # -1
    BY <2>1, HeldInIs
  <2> PICK c : c = SeqAdded(o, d, I)
    OBVIOUS
  <2>3. c \in GoodCells /\ \A i \in Cells : c.pos[i] = o.pos[i] /\ c.shift[i] = o.shift[i]
    <3>1. /\ SeqAdded(o, d, I) \in GoodCells
          /\ \A i \in Cells :
                /\ SeqAdded(o, d, I).pos[i] = o.pos[i]
                /\ SeqAdded(o, d, I).seq[i] = IF i \in I THEN o.seq[i] \cup {d} ELSE o.seq[i]
                /\ SeqAdded(o, d, I).shift[i] = o.shift[i]
          /\ SeqAdded(o, d, I).has_shift = o.has_shift
      BY ONLY conf \in Confs, d \in Seqs, <2>1, <2>2, SeqAddedIs
    <3> QED
      BY ONLY <3>1, c = SeqAdded(o, d, I)
  <2> PICK k2 : k2 = [k EXCEPT !.cells[s0] = c]
    OBVIOUS
  <2>4. SeqCp(k, s, d) = k2
    BY <1>3 DEF SeqCp, KVKind
  <2>5. /\ k2 \in KVKind /\ k2.sc = k.sc
        /\ \A t \in Streams : k2.cells[t] = IF t = s0 THEN c ELSE k.cells[t]
    BY ONLY k \in KVKind, <1>1, <2>3, k2 = [k EXCEPT !.cells[s0] = c] DEF KVKind
  <2>6. KeepsAll(k, k2)
    <3>1. ASSUME NEW t \in Streams PROVE Keeps(k.cells[t], k2.cells[t])
      <4>1. Keeps(k.cells[t], k.cells[t])
        BY Zenon DEF Keeps
      <4>2. Keeps(o, c)
        BY ONLY <2>3 DEF Keeps
      <4> QED
        BY <2>5, <4>1, <4>2, Zenon
    <3> QED
      BY <3>1 DEF KeepsAll
  <2>7. StreamsCopied(x, k.sc) \in DataKind
    BY KVFields, CopiesAreData
  <2> QED
    BY <2>4, <2>5, <2>6, <2>7, KeepsKeys
<1>4. CASE s0 # s1
  <2> PICK c : c = Copied(k.cells[s0], s, d)
    OBVIOUS
  <2>1. /\ c \in GoodCells
        /\ \A i \in Cells :
              /\ c.pos[i] = IF s \in k.cells[s0].seq[i] THEN k.cells[s0].pos[i] ELSE -1
              /\ c.shift[i] = IF s \in k.cells[s0].seq[i] THEN k.cells[s0].shift[i] ELSE 0
    <3> PICK o : o = k.cells[s0]
      OBVIOUS
    <3>1. o \in GoodCells
      BY <1>2
    <3>2. /\ Copied(o, s, d) \in GoodCells
          /\ \A i \in Cells :
                /\ Copied(o, s, d).pos[i] = IF s \in o.seq[i] THEN o.pos[i] ELSE -1
                /\ Copied(o, s, d).shift[i] = IF s \in o.seq[i] THEN o.shift[i] ELSE 0
      BY ONLY conf \in Confs, s \in Seqs, d \in Seqs, <3>1, CopiedIs
    <3> QED
      BY ONLY <3>2, c = Copied(k.cells[s0], s, d), o = k.cells[s0]
  <2> PICK k2 : k2 = [k EXCEPT !.sc = Append(k.sc, <<s0, s1>>), !.cells[s1] = c, !.heads[s1] = k.heads[s0]]
    OBVIOUS
  <2>2. SeqCp(k, s, d) = k2
    BY <1>4 DEF SeqCp, KVKind
  <2>p. <<s0, s1>> \in Streams \X Streams /\ k.sc \in Seq(Streams \X Streams)
    BY <1>1, KVFields
  <2> PICK q : q = Append(k.sc, <<s0, s1>>)
    OBVIOUS
  <2>q. q \in Seq(Streams \X Streams)
    BY <2>p
  <2>3. /\ k2 \in KVKind /\ k2.sc = q
        /\ \A t \in Streams : k2.cells[t] = IF t = s1 THEN c ELSE k.cells[t]
    BY ONLY k \in KVKind, <1>1, <1>2, <2>1, <2>q, q = Append(k.sc, <<s0, s1>>),
       k2 = [k EXCEPT !.sc = Append(k.sc, <<s0, s1>>), !.cells[s1] = c, !.heads[s1] = k.heads[s0]] DEF KVKind
  <2> PICK D : D = StreamsCopied(x, k.sc)
    OBVIOUS
  <2>4. StreamsCopied(x, q) = [D EXCEPT ![s1] = D[s0]]
    <3> PICK e : e = <<s0, s1>>
      OBVIOUS
    <3>1. e \in Streams \X Streams /\ e[1] = s0 /\ e[2] = s1
      BY <2>p
    <3>2. StreamsCopied(x, Append(k.sc, e)) = [D EXCEPT ![e[2]] = D[e[1]]]
      BY <2>p, <3>1, CopiesOfOneMore
    <3> QED
      BY <3>1, <3>2
  <2>5. D \in DataKind
    BY KVFields, CopiesAreData
  <2>6. \A t \in Streams : StreamsCopied(x, q)[t] = IF t = s1 THEN D[s0] ELSE D[t]
    BY <1>1, <2>4, <2>5 DEF DataKind
  <2>7. ASSUME NEW t \in Streams, NEW i \in Cells, k2.cells[t].pos[i] # -1
        PROVE  StreamsCopied(x, q)[t][i].key + k2.cells[t].shift[i] = k2.cells[t].pos[i]
    <3>1. CASE t = s1
      <4>1. k2.cells[t] = c /\ StreamsCopied(x, q)[t] = D[s0]
        BY <2>3, <2>6, <3>1
      <4>2. c.pos[i] = k.cells[s0].pos[i] /\ c.shift[i] = k.cells[s0].shift[i] /\ k.cells[s0].pos[i] # -1
        BY <2>1, <2>7, <4>1
      <4>3. D[s0][i].key + k.cells[s0].shift[i] = k.cells[s0].pos[i]
        BY <1>1, <4>2 DEF KeysAt
      <4> QED
        BY <4>1, <4>2, <4>3
    <3>2. CASE t # s1
      <4>1. k2.cells[t] = k.cells[t] /\ StreamsCopied(x, q)[t] = D[t]
        BY <2>3, <2>6, <3>2
      <4>2. D[t][i].key + k.cells[t].shift[i] = k.cells[t].pos[i]
        BY <2>7, <4>1 DEF KeysAt
      <4> QED
        BY <4>1, <4>2
    <3> QED
      BY <3>1, <3>2
  <2> QED
    BY <2>2, <2>3, <2>7 DEF KeysAt
<1> QED
  BY <1>3, <1>4

LEMMA ClearedIs ==
    ASSUME conf \in Confs, NEW k \in KVKind, NEW d
    PROVE  Cleared(k) \in KVKind /\ KeysAt(Cleared(k).cells, d)
<1>1. EmptyCells \in GoodCells /\ \A i \in Cells : EmptyCells.pos[i] = -1
  BY EmptyIsGood DEF EmptyCells
<1> PICK e : e = EmptyCells
  OBVIOUS
<1>2. 0 \in 0 .. conf.size
  BY ConfFacts
<1>3. /\ Cleared(k) = [k EXCEPT !.cells = [st \in Streams |-> e], !.heads = [st \in Streams |-> 0]]
      /\ e \in GoodCells
  BY <1>1 DEF Cleared
<1>4. Cleared(k) \in KVKind /\ \A st \in Streams : Cleared(k).cells[st] = e
  BY ONLY k \in KVKind, <1>2, <1>3 DEF KVKind
<1> QED
  BY <1>1, <1>4 DEF KeysAt

(* The update of the cells and of their data.                               *)
LEMMA UpdatedIs ==
    ASSUME conf \in Confs, NEW k \in KVKind, NEW d \in DataKind, KeysAt(k.cells, StreamsCopied(d, k.sc))
    PROVE  /\ Updated(k) \in KVKind /\ Updated(k).sc = <<>> /\ AllUnshifted(Updated(k))
           /\ UpdatedData(k, d) \in DataKind /\ KeysAt(Updated(k).cells, UpdatedData(k, d))
<1>1. ASSUME NEW st \in Streams
      PROVE  LET c == IF HasShift(k) THEN ResetShift(k.cells[st]) ELSE k.cells[st]
             IN  c \in GoodCells /\ \A i \in Cells : c.pos[i] = k.cells[st].pos[i] /\ c.shift[i] = 0
  <2> PICK o : o = k.cells[st]
    OBVIOUS
  <2>1. o \in GoodCells
    BY KVFields
  <2>2. ResetShift(o) \in GoodCells /\ \A i \in Cells : ResetShift(o).pos[i] = o.pos[i] /\ ResetShift(o).shift[i] = 0
    BY <2>1, ResetShiftIs
  <2>3. ASSUME ~HasShift(k) PROVE \A i \in Cells : o.shift[i] = 0
    <3>1. ~o.has_shift
      BY <2>3 DEF HasShift
    <3>2. Marked(o)
      BY <2>1, GoodFields
    <3> QED
      BY <3>1, <3>2 DEF Marked
  <2> QED
    BY <2>1, <2>2, <2>3
<1> PICK C : C = [st \in Streams |-> IF HasShift(k) THEN ResetShift(k.cells[st]) ELSE k.cells[st]]
  OBVIOUS
<1>2. \A st \in Streams : /\ C[st] \in GoodCells
                          /\ \A i \in Cells : C[st].pos[i] = k.cells[st].pos[i] /\ C[st].shift[i] = 0
  BY <1>1
<1>3. C \in [Streams -> GoodCells]
  BY <1>2
<1> PICK u : u = Updated(k)
  OBVIOUS
<1>4. u = [k EXCEPT !.sc = <<>>, !.cells = C]
  BY DEF Updated, KVKind
<1>5. <<>> \in Seq(Streams \X Streams)
  OBVIOUS
<1>6. u \in KVKind /\ u.sc = <<>> /\ u.cells = C
  BY ONLY k \in KVKind, <1>3, <1>4, <1>5 DEF KVKind
<1>7. AllUnshifted(u)
  BY <1>2, <1>6 DEF AllUnshifted, Unshifted
<1> PICK D : D = StreamsCopied(d, k.sc)
  OBVIOUS
<1>8. D \in DataKind
  BY KVFields, CopiesAreData
<1> PICK E : E = UpdatedData(k, d)
  OBVIOUS
<1>9. ASSUME NEW st \in Streams, NEW i \in Cells
      PROVE  /\ E[st][i] = IF k.cells[st].pos[i] = -1 THEN NoData
                           ELSE [D[st][i] EXCEPT !.key = @ + k.cells[st].shift[i]]
             /\ E[st][i] \in [key : -1 .. (conf.n_ctx - 1), tok : Seqs \cup {-1}]
             /\ k.cells[st].pos[i] # -1 => E[st][i].key = k.cells[st].pos[i]
  <2>1. E[st][i] = IF k.cells[st].pos[i] = -1 THEN NoData
                   ELSE [D[st][i] EXCEPT !.key = @ + k.cells[st].shift[i]]
    BY DEF UpdatedData, IsEmpty
  <2>2. CASE k.cells[st].pos[i] = -1
    BY <2>1, <2>2, RangeFacts DEF NoData
  <2>3. CASE k.cells[st].pos[i] # -1
    <3>1. D[st][i].key + k.cells[st].shift[i] = k.cells[st].pos[i]
      BY <2>3 DEF KeysAt
    <3>2. k.cells[st].pos[i] \in -1 .. (conf.n_ctx - 1)
      <4> PICK o : o = k.cells[st]
        OBVIOUS
      <4>1. Marked(o)
        BY KVFields, GoodFields
      <4> QED
        BY <4>1 DEF Marked
    <3>3. D[st][i] \in [key : -1 .. (conf.n_ctx - 1), tok : Seqs \cup {-1}]
      BY <1>8, DataFields
    <3> PICK e : e = D[st][i]
      OBVIOUS
    <3> PICK p : p = k.cells[st].pos[i]
      OBVIOUS
    <3>4. E[st][i] = [e EXCEPT !.key = p]
      BY <2>1, <2>3, <3>1, <3>3
    <3>5. e \in [key : -1 .. (conf.n_ctx - 1), tok : Seqs \cup {-1}] /\ p \in -1 .. (conf.n_ctx - 1)
      BY <3>2, <3>3
    <3>6. E[st][i] \in [key : -1 .. (conf.n_ctx - 1), tok : Seqs \cup {-1}] /\ E[st][i].key = p
      BY ONLY <3>4, <3>5
    <3> QED
      BY <2>1, <3>6
  <2> QED
    BY <2>1, <2>2, <2>3
<1>10. E \in DataKind
  <2>1. E = [st \in Streams |-> [i \in Cells |-> E[st][i]]]
    BY DEF UpdatedData
  <2>2. \A st \in Streams, i \in Cells : E[st][i] \in [key : -1 .. (conf.n_ctx - 1), tok : Seqs \cup {-1}]
    BY <1>9
  <2>3. \A st \in Streams : [i \in Cells |-> E[st][i]] \in [Cells -> [key : -1 .. (conf.n_ctx - 1), tok : Seqs \cup {-1}]]
    BY ONLY <2>2
  <2> QED
    BY ONLY <2>1, <2>3 DEF DataKind
<1>11. KeysAt(u.cells, E)
  <2> SUFFICES ASSUME NEW st \in Streams, NEW i \in Cells, u.cells[st].pos[i] # -1
               PROVE  E[st][i].key + u.cells[st].shift[i] = u.cells[st].pos[i]
    BY DEF KeysAt
  <2>1. u.cells[st].pos[i] = k.cells[st].pos[i] /\ u.cells[st].shift[i] = 0
    BY <1>2, <1>6
  <2>2. E[st][i].key = k.cells[st].pos[i] /\ k.cells[st].pos[i] \in Int
    BY <1>9, <2>1, CellFields
  <2> QED
    BY ONLY <2>1, <2>2
<1> QED
  BY <1>6, <1>7, <1>10, <1>11

----------------------------------------------------------------------------
(* An ubatch is placed.                                                     *)

(* x is k but for what was removed.                                         *)
Reduced(k, x) == x \in KVKind /\ x.sc = k.sc /\ KeepsAll(k, x) /\ (AllUnshifted(k) => AllUnshifted(x))

LEMMA ReducedTransitive ==
    ASSUME NEW k, NEW k1, NEW k2, Reduced(k, k1), Reduced(k1, k2)
    PROVE  Reduced(k, k2)
<1>1. KeepsAll(k, k2)
  BY KeepsTransitive DEF Reduced
<1> QED
  BY <1>1, Zenon DEF Reduced

LEMMA SeqRmReduces ==
    ASSUME conf \in Confs, NEW k \in KVKind, NEW s \in Seqs, NEW p0, NEW p1
    PROVE  Reduced(k, SeqRm(k, s, p0, p1))
<1> PICK x : x = SeqRm(k, s, p0, p1)
  OBVIOUS
<1>1. x \in KVKind /\ x.sc = k.sc /\ KeepsAll(k, x) /\ (AllUnshifted(k) => AllUnshifted(x))
  BY SeqRmIs
<1> QED
  BY <1>1 DEF Reduced

LEMMA EachSeqIs ==
    ASSUME conf \in Confs
    PROVE  /\ Len(EachSeq) \in Nat /\ DOMAIN EachSeq = 1 .. Len(EachSeq) /\ EachSeq \in Seq(Seqs)
           /\ \A n \in 0 .. Len(EachSeq) - 1 : EachSeq[n + 1] \in Seqs
<1>1. NSeq \in Nat \ {0} /\ Seqs = 0 .. (NSeq - 1)
  BY ConfFacts
<1>2. EachSeq = [j \in 1 .. NSeq |-> j - 1]
  BY DEF EachSeq
<1>3. \A j \in 1 .. NSeq : j - 1 \in Seqs
  BY <1>1
<1>4. EachSeq \in Seq(Seqs) /\ Len(EachSeq) = NSeq
  BY ONLY <1>1, <1>2, <1>3
<1> QED
  BY ONLY <1>1, <1>2, <1>3, <1>4

PurgeStep(c, x, s) ==
    LET over == {i \in ToSet(c.part.idxs) : ~IsEmpty(c.cells, i)}
        max_rm == Max({-1} \cup {c.cells.pos[i] : i \in {j \in over : s \in c.cells.seq[j]}})
        p == seq_pos_min(CellsOf(x, s), s)
    IN  IF max_rm >= 0 /\ p <= max_rm THEN SeqRm(x, s, p, max_rm + 1) ELSE x

StillReduced(c, n, x) == Reduced(c.kv, x)

Purge == INSTANCE FoldProofs WITH Op <- PurgeStep, Good <- StillReduced

LEMMA PurgeInvariant ==
    ASSUME NEW c, NEW b, NEW s, Len(s) \in Nat, DOMAIN s = 1 .. Len(s), StillReduced(c, 0, b),
           ASSUME NEW n \in 0 .. Len(s) - 1, NEW v, StillReduced(c, n, v)
           PROVE  StillReduced(c, n + 1, PurgeStep(c, v, s[n + 1]))
    PROVE  StillReduced(c, Len(s), Purge!FoldOf(c, b, s))
<1>1. \A n \in 0 .. Len(s) - 1 : \A v : StillReduced(c, n, v) => StillReduced(c, n + 1, PurgeStep(c, v, s[n + 1]))
  OBVIOUS
<1> QED
  BY ONLY Len(s) \in Nat, DOMAIN s = 1 .. Len(s), StillReduced(c, 0, b), <1>1, Purge!FoldInvariant, Zenon

LEMMA PurgedIsFold ==
    ASSUME NEW k, NEW e
    PROVE  Purged(k, e.cells, e.part) = Purge!FoldOf(e, k, EachSeq)
BY Zenon DEF Purged, FoldLeft, MapThenFoldSet, Max,
       Purge!FoldOf, Purge!MapThenFoldSet, Purge!Greatest, PurgeStep

LEMMA PurgedIs ==
    ASSUME conf \in Confs, NEW k \in KVKind, NEW c, NEW part
    PROVE  Reduced(k, Purged(k, c, part))
<1> PICK e : e = [kv |-> k, cells |-> c, part |-> part]
  OBVIOUS
<1>e. e.kv = k /\ e.cells = c /\ e.part = part
  OBVIOUS
<1>1. StillReduced(e, 0, k)
  BY <1>e, KeepsItself DEF StillReduced, Reduced
<1>2. ASSUME NEW n \in 0 .. Len(EachSeq) - 1, NEW v, StillReduced(e, n, v)
      PROVE  StillReduced(e, n + 1, PurgeStep(e, v, EachSeq[n + 1]))
  <2>1. Reduced(k, v) /\ v \in KVKind
    BY <1>e, <1>2 DEF StillReduced, Reduced
  <2>2. EachSeq[n + 1] \in Seqs
    BY EachSeqIs
  <2> PICK s : s = EachSeq[n + 1]
    OBVIOUS
  <2>3. \A p0, p1 : Reduced(k, SeqRm(v, s, p0, p1))
    BY <2>1, <2>2, SeqRmReduces, ReducedTransitive
  <2>4. Reduced(k, PurgeStep(e, v, s))
    BY <2>1, <2>3, Zenon DEF PurgeStep
  <2> QED
    BY <1>e, <2>4 DEF StillReduced
<1>3. StillReduced(e, Len(EachSeq), Purge!FoldOf(e, k, EachSeq))
  BY ONLY <1>1, <1>2, EachSeqIs, conf \in Confs, PurgeInvariant
<1>4. Purged(k, c, part) = Purge!FoldOf(e, k, EachSeq)
  BY <1>e, PurgedIsFold
<1> QED
  BY <1>e, <1>3, <1>4 DEF StillReduced

(* The tokens of a failed ubatch are taken back.                            *)
TakeStep(c, x, s) ==
    LET own == {t.pos : t \in {y \in UNION {ToSet(c.sinfo[j].toks) : j \in DOMAIN c.sinfo} : y.seq = s}}
    IN  IF own # {} THEN SeqRm(x, s, Min(own), -1) ELSE x

Take == INSTANCE FoldProofs WITH Op <- TakeStep, Good <- StillReduced

LEMMA TakeInvariant ==
    ASSUME NEW c, NEW b, NEW s, Len(s) \in Nat, DOMAIN s = 1 .. Len(s), StillReduced(c, 0, b),
           ASSUME NEW n \in 0 .. Len(s) - 1, NEW v, StillReduced(c, n, v)
           PROVE  StillReduced(c, n + 1, TakeStep(c, v, s[n + 1]))
    PROVE  StillReduced(c, Len(s), Take!FoldOf(c, b, s))
<1>1. \A n \in 0 .. Len(s) - 1 : \A v : StillReduced(c, n, v) => StillReduced(c, n + 1, TakeStep(c, v, s[n + 1]))
  OBVIOUS
<1> QED
  BY ONLY Len(s) \in Nat, DOMAIN s = 1 .. Len(s), StillReduced(c, 0, b), <1>1, Take!FoldInvariant, Zenon

LEMMA TakenBackIsFold ==
    ASSUME NEW k, NEW e
    PROVE  TakenBack(k, e.sinfo) = Take!FoldOf(e, k, EachSeq)
BY Zenon DEF TakenBack, FoldLeft, MapThenFoldSet, Max,
       Take!FoldOf, Take!MapThenFoldSet, Take!Greatest, TakeStep

LEMMA TakenBackIs ==
    ASSUME conf \in Confs, NEW k \in KVKind, NEW sinfo
    PROVE  Reduced(k, TakenBack(k, sinfo))
<1> PICK e : e = [kv |-> k, sinfo |-> sinfo]
  OBVIOUS
<1>e. e.kv = k /\ e.sinfo = sinfo
  OBVIOUS
<1>1. StillReduced(e, 0, k)
  BY <1>e, KeepsItself DEF StillReduced, Reduced
<1>2. ASSUME NEW n \in 0 .. Len(EachSeq) - 1, NEW v, StillReduced(e, n, v)
      PROVE  StillReduced(e, n + 1, TakeStep(e, v, EachSeq[n + 1]))
  <2>1. Reduced(k, v) /\ v \in KVKind
    BY <1>e, <1>2 DEF StillReduced, Reduced
  <2>2. EachSeq[n + 1] \in Seqs
    BY EachSeqIs
  <2> PICK s : s = EachSeq[n + 1]
    OBVIOUS
  <2>3. \A p0, p1 : Reduced(k, SeqRm(v, s, p0, p1))
    BY <2>1, <2>2, SeqRmReduces, ReducedTransitive
  <2>4. Reduced(k, TakeStep(e, v, s))
    BY <2>1, <2>3, Zenon DEF TakeStep
  <2> QED
    BY <1>e, <2>4 DEF StillReduced
<1>3. StillReduced(e, Len(EachSeq), Take!FoldOf(e, k, EachSeq))
  BY ONLY <1>1, <1>2, EachSeqIs, conf \in Confs, TakeInvariant
<1>4. TakenBack(k, sinfo) = Take!FoldOf(e, k, EachSeq)
  BY <1>e, TakenBackIsFold
<1> QED
  BY <1>e, <1>3, <1>4 DEF StillReduced

(* What y makes of k when part is placed.                                   *)
PartApplied(k, part, y) ==
    /\ y \in KVKind /\ y.sc = k.sc /\ (AllUnshifted(k) => AllUnshifted(y))
    /\ \A st \in Streams, i \in Cells :
          y.cells[st].pos[i] # -1 =>
              IF st = part.strm /\ i \in ToSet(part.idxs)
              THEN y.cells[st].pos[i] - y.cells[st].shift[i] = TokenAt(part, i).pos
              ELSE /\ k.cells[st].pos[i] # -1
                   /\ y.cells[st].pos[i] - y.cells[st].shift[i] = k.cells[st].pos[i] - k.cells[st].shift[i]

LEMMA ApplyPartIs ==
    ASSUME conf \in Confs, NEW k \in KVKind, NEW part \in Parts
    PROVE  PartApplied(k, part, apply_part(k, part))
<1> PICK st : st = part.strm
  OBVIOUS
<1>1. st \in Streams /\ k.cells[st] \in GoodCells
  BY PartFields, KVFields
<1> PICK o : o = k.cells[st]
  OBVIOUS
<1>2. o \in GoodCells
  BY <1>1
<1> PICK c : c = Placed(o, part)
  OBVIOUS
<1>3. /\ c \in GoodCells
      /\ \A i \in Cells :
            LET taken == i \in ToSet(part.idxs)
            IN  /\ c.pos[i] = IF taken THEN TokenAt(part, i).pos ELSE o.pos[i]
                /\ c.shift[i] = IF taken THEN 0 ELSE o.shift[i]
  <2>1. /\ Placed(o, part) \in GoodCells
        /\ \A i \in Cells :
              LET taken == i \in ToSet(part.idxs)
              IN  /\ Placed(o, part).pos[i] = IF taken THEN TokenAt(part, i).pos ELSE o.pos[i]
                  /\ Placed(o, part).seq[i] = IF taken THEN {TokenAt(part, i).seq} ELSE o.seq[i]
                  /\ Placed(o, part).shift[i] = IF taken THEN 0 ELSE o.shift[i]
        /\ Placed(o, part).has_shift = o.has_shift
    BY ONLY conf \in Confs, <1>2, part \in Parts, PlacedIs
  <2> QED
    BY ONLY <2>1, c = Placed(o, part)
<1> PICK k1 : k1 = [k EXCEPT !.cells[st] = c]
  OBVIOUS
<1>4. /\ k1 \in KVKind /\ k1.sc = k.sc
      /\ \A t \in Streams : k1.cells[t] = IF t = st THEN c ELSE k.cells[t]
  BY ONLY k \in KVKind, <1>1, <1>3, k1 = [k EXCEPT !.cells[st] = c] DEF KVKind
<1> PICK k2 : k2 = Purged(k1, o, part)
  OBVIOUS
<1>5. k2 \in KVKind /\ k2.sc = k1.sc /\ KeepsAll(k1, k2) /\ (AllUnshifted(k1) => AllUnshifted(k2))
  <2>1. k1 \in KVKind
    BY <1>4
  <2>2. Reduced(k1, k2)
    BY ONLY conf \in Confs, <2>1, k2 = Purged(k1, o, part), PurgedIs
  <2> QED
    BY <2>2, Zenon DEF Reduced
<1> PICK h : h = Last(part.idxs) + 1
  OBVIOUS
<1>6. h \in 0 .. conf.size
  <2>1. part.idxs[Len(part.idxs)] \in Cells
    BY PartFields
  <2>2. conf.size \in Nat \ {0} /\ Cells = 0 .. (conf.size - 1)
    BY ConfFacts
  <2> QED
    BY ONLY <2>1, <2>2, h = Last(part.idxs) + 1 DEF Last
<1> PICK y : y = [k2 EXCEPT !.heads[st] = h]
  OBVIOUS
<1>7. apply_part(k, part) = y
  BY DEF apply_part
<1>8. y \in KVKind /\ y.sc = k2.sc /\ y.cells = k2.cells
  BY ONLY <1>1, <1>5, <1>6, y = [k2 EXCEPT !.heads[st] = h] DEF KVKind
<1>9. AllUnshifted(k) => AllUnshifted(y)
  <2>1. AllUnshifted(k) => AllUnshifted(k1)
    <3> SUFFICES ASSUME AllUnshifted(k), NEW t \in Streams, NEW i \in Cells PROVE k1.cells[t].shift[i] = 0
      BY DEF AllUnshifted, Unshifted
    <3>1. k.cells[t].shift[i] = 0 /\ k.cells[st].shift[i] = 0
      BY <1>1 DEF AllUnshifted, Unshifted
    <3> QED
      BY <1>3, <1>4, <3>1
  <2> QED
    BY <1>5, <1>8, <2>1 DEF AllUnshifted
<1>10. ASSUME NEW t \in Streams, NEW i \in Cells, y.cells[t].pos[i] # -1
       PROVE  IF t = part.strm /\ i \in ToSet(part.idxs)
              THEN y.cells[t].pos[i] - y.cells[t].shift[i] = TokenAt(part, i).pos
              ELSE /\ k.cells[t].pos[i] # -1
                   /\ y.cells[t].pos[i] - y.cells[t].shift[i] = k.cells[t].pos[i] - k.cells[t].shift[i]
  <2>1. y.cells[t] = k2.cells[t]
    BY <1>8
  <2>2. /\ k1.cells[t].pos[i] # -1
        /\ y.cells[t].pos[i] - y.cells[t].shift[i] = k1.cells[t].pos[i] - k1.cells[t].shift[i]
    BY <1>5, <1>10, <2>1, Zenon DEF KeepsAll, Keeps
  <2>3. CASE t = part.strm /\ i \in ToSet(part.idxs)
    <3>1. k1.cells[t] = c /\ c.pos[i] = TokenAt(part, i).pos /\ c.shift[i] = 0
      BY <1>3, <1>4, <2>3
    <3>2. TokenAt(part, i).pos \in Nat
      BY <2>3, TokenAtKind
    <3>3. TokenAt(part, i).pos - 0 = TokenAt(part, i).pos
      BY ONLY <3>2
    <3> QED
      BY <2>2, <2>3, <3>1, <3>3
  <2>4. CASE ~(t = part.strm /\ i \in ToSet(part.idxs))
    <3>1. k1.cells[t].pos[i] = k.cells[t].pos[i] /\ k1.cells[t].shift[i] = k.cells[t].shift[i]
      BY <1>3, <1>4, <2>4
    <3> QED
      BY <2>2, <2>4, <3>1
  <2> QED
    BY <2>3, <2>4
<1> QED
  <2>1. y \in KVKind /\ y.sc = k.sc
    BY <1>4, <1>5, <1>8
  <2>2. PartApplied(k, part, y)
    BY ONLY <2>1, <1>9, <1>10, Zenon DEF PartApplied
  <2> QED
    BY <1>7, <2>2

(* The tokens of a part are written.                                        *)
WriteStep(c, x, part) ==
    [x EXCEPT ![part.strm] = [i \in Cells |->
        IF i \in ToSet(part.idxs)
        THEN [key |-> TokenAt(part, i).pos, tok |-> TokenAt(part, i).seq]
        ELSE @[i]]]

LEMMA WriteStepIs ==
    ASSUME conf \in Confs, NEW d \in DataKind, NEW part \in Parts, NEW c
    PROVE  /\ WriteStep(c, d, part) \in DataKind
           /\ \A st \in Streams, i \in Cells :
                 IF st = part.strm /\ i \in ToSet(part.idxs)
                 THEN WriteStep(c, d, part)[st][i].key = TokenAt(part, i).pos
                 ELSE WriteStep(c, d, part)[st][i] = d[st][i]
<1> PICK st : st = part.strm
  OBVIOUS
<1>1. st \in Streams
  BY PartFields
<1> DEFINE K == [key : -1 .. (conf.n_ctx - 1), tok : Seqs \cup {-1}]
           e(i) == [key |-> TokenAt(part, i).pos, tok |-> TokenAt(part, i).seq]
<1> PICK f : f = [i \in Cells |-> IF i \in ToSet(part.idxs) THEN e(i) ELSE d[st][i]]
  OBVIOUS
<1>2. \A i \in ToSet(part.idxs) : e(i) \in K /\ e(i).key = TokenAt(part, i).pos
  <2> TAKE i \in ToSet(part.idxs)
  <2>1. TokenAt(part, i).seq \in Seqs /\ TokenAt(part, i).pos \in 0 .. (conf.n_ctx - 1)
    BY TokenAtKind
  <2>2. TokenAt(part, i).pos \in -1 .. (conf.n_ctx - 1)
    <3>1. conf.n_ctx \in Nat \ {0}
      BY ConfFacts
    <3> QED
      BY ONLY <2>1, <3>1
  <2> QED
    BY ONLY <2>1, <2>2
<1>3. d[st] \in [Cells -> K] /\ d \in [Streams -> [Cells -> K]]
  BY <1>1 DEF DataKind
<1> HIDE DEF K, e
<1>4. f \in [Cells -> K] /\ \A i \in Cells : f[i] = IF i \in ToSet(part.idxs) THEN e(i) ELSE d[st][i]
  BY ONLY <1>2, <1>3, f = [i \in Cells |-> IF i \in ToSet(part.idxs) THEN e(i) ELSE d[st][i]]
<1> PICK x : x = [d EXCEPT ![st] = f]
  OBVIOUS
<1>5. WriteStep(c, d, part) = x
  BY <1>3 DEF WriteStep, e
<1>6. x \in [Streams -> [Cells -> K]] /\ \A t \in Streams : x[t] = IF t = st THEN f ELSE d[t]
  BY ONLY <1>1, <1>3, <1>4, x = [d EXCEPT ![st] = f]
<1>7. x \in DataKind
  BY <1>6 DEF DataKind, K
<1>8. ASSUME NEW t \in Streams, NEW i \in Cells
      PROVE  IF t = part.strm /\ i \in ToSet(part.idxs) THEN x[t][i].key = TokenAt(part, i).pos
             ELSE x[t][i] = d[t][i]
  <2>1. CASE t = st /\ i \in ToSet(part.idxs)
    BY <1>2, <1>4, <1>6, <2>1
  <2>2. CASE ~(t = st /\ i \in ToSet(part.idxs))
    BY <1>4, <1>6, <2>2
  <2> QED
    BY <2>1, <2>2
<1> QED
  BY <1>5, <1>7, <1>8

LEMMA PartKeys ==
    ASSUME conf \in Confs, NEW k \in KVKind, NEW d \in DataKind, NEW part \in Parts, NEW y, NEW c,
           KeysAt(k.cells, d), PartApplied(k, part, y)
    PROVE  WriteStep(c, d, part) \in DataKind /\ KeysAt(y.cells, WriteStep(c, d, part))
<1> PICK x : x = WriteStep(c, d, part)
  OBVIOUS
<1>1. /\ x \in DataKind
      /\ \A st \in Streams, i \in Cells :
            IF st = part.strm /\ i \in ToSet(part.idxs)
            THEN x[st][i].key = TokenAt(part, i).pos ELSE x[st][i] = d[st][i]
  BY WriteStepIs
<1>2. /\ y \in KVKind
      /\ \A st \in Streams, i \in Cells :
          y.cells[st].pos[i] # -1 =>
              IF st = part.strm /\ i \in ToSet(part.idxs)
              THEN y.cells[st].pos[i] - y.cells[st].shift[i] = TokenAt(part, i).pos
              ELSE /\ k.cells[st].pos[i] # -1
                   /\ y.cells[st].pos[i] - y.cells[st].shift[i] = k.cells[st].pos[i] - k.cells[st].shift[i]
  BY Zenon DEF PartApplied
<1>3. ASSUME NEW st \in Streams, NEW i \in Cells, y.cells[st].pos[i] # -1
      PROVE  x[st][i].key + y.cells[st].shift[i] = y.cells[st].pos[i]
  <2>1. /\ y.cells[st].pos[i] \in Int /\ y.cells[st].shift[i] \in Int
        /\ k.cells[st].pos[i] \in Int /\ k.cells[st].shift[i] \in Int
    BY <1>2, CellFields
  <2>2. x[st][i].key \in Int
    BY <1>1, DataFields
  <2>3. CASE st = part.strm /\ i \in ToSet(part.idxs)
    <3>1. x[st][i].key = TokenAt(part, i).pos
      BY <1>1, <2>3, Zenon
    <3>2. y.cells[st].pos[i] - y.cells[st].shift[i] = TokenAt(part, i).pos
      BY <1>2, <1>3, <2>3, Zenon
    <3> QED
      BY ONLY <2>1, <2>2, <3>1, <3>2
  <2>4. CASE ~(st = part.strm /\ i \in ToSet(part.idxs))
    <3>1. x[st][i] = d[st][i]
      BY <1>1, <2>4, Zenon
    <3>2. /\ k.cells[st].pos[i] # -1
          /\ y.cells[st].pos[i] - y.cells[st].shift[i] = k.cells[st].pos[i] - k.cells[st].shift[i]
      BY <1>2, <1>3, <2>4, Zenon
    <3>3. d[st][i].key + k.cells[st].shift[i] = k.cells[st].pos[i]
      BY <3>2 DEF KeysAt
    <3> QED
      BY ONLY <2>1, <2>2, <3>1, <3>2, <3>3
  <2> QED
    BY <2>3, <2>4
<1> QED
  BY <1>1, <1>3 DEF KeysAt

ApplyStep(c, x, part) == apply_part(x, part)

(* What the first n parts made of c.kv.                                     *)
PartsApplied(c, n, x) ==
    /\ x \in KVKind /\ x.sc = c.kv.sc
    /\ AllUnshifted(c.kv) =>
          /\ AllUnshifted(x)
          /\ \A st \in Streams, i \in Cells :
                \/ x.cells[st].pos[i] \in {-1, c.kv.cells[st].pos[i]}
                \/ \E j \in 1 .. n : st = c.sinfo[j].strm /\ i \in ToSet(c.sinfo[j].idxs)

Placing == INSTANCE FoldProofs WITH Op <- ApplyStep, Good <- PartsApplied
Writing == INSTANCE FoldProofs WITH Op <- WriteStep, Good <- IsData

LEMMA PlacingInvariant ==
    ASSUME NEW c, NEW b, NEW s, Len(s) \in Nat, DOMAIN s = 1 .. Len(s), PartsApplied(c, 0, b),
           ASSUME NEW n \in 0 .. Len(s) - 1, NEW v, PartsApplied(c, n, v)
           PROVE  PartsApplied(c, n + 1, ApplyStep(c, v, s[n + 1]))
    PROVE  PartsApplied(c, Len(s), Placing!FoldOf(c, b, s))
<1>1. \A n \in 0 .. Len(s) - 1 : \A v : PartsApplied(c, n, v) => PartsApplied(c, n + 1, ApplyStep(c, v, s[n + 1]))
  OBVIOUS
<1> QED
  BY ONLY Len(s) \in Nat, DOMAIN s = 1 .. Len(s), PartsApplied(c, 0, b), <1>1, Placing!FoldInvariant, Zenon

LEMMA ApplyIsFold ==
    ASSUME NEW k, NEW sinfo, NEW c
    PROVE  apply_ubatch(k, sinfo) = Placing!FoldOf(c, k, sinfo)
BY Zenon DEF apply_ubatch, FoldLeft, MapThenFoldSet, Max,
       Placing!FoldOf, Placing!MapThenFoldSet, Placing!Greatest, ApplyStep

LEMMA WrittenIsFold ==
    ASSUME NEW d, NEW sinfo, NEW c
    PROVE  Written(d, sinfo) = Writing!FoldOf(c, d, sinfo)
BY Zenon DEF Written, FoldLeft, MapThenFoldSet, Max,
       Writing!FoldOf, Writing!MapThenFoldSet, Writing!Greatest, WriteStep

LEMMA PlacingTrace ==
    ASSUME NEW c, NEW b, NEW q, Len(q) \in Nat, DOMAIN q = 1 .. Len(q)
    PROVE  \E f : /\ f[0] = b
                  /\ \A n \in 0 .. Len(q) - 1 : f[n + 1] = ApplyStep(c, f[n], q[n + 1])
                  /\ f[Len(q)] = Placing!FoldOf(c, b, q)
BY Placing!FoldTrace

LEMMA WritingTrace ==
    ASSUME NEW c, NEW b, NEW q, Len(q) \in Nat, DOMAIN q = 1 .. Len(q)
    PROVE  \E f : /\ f[0] = b
                  /\ \A n \in 0 .. Len(q) - 1 : f[n + 1] = WriteStep(c, f[n], q[n + 1])
                  /\ f[Len(q)] = Writing!FoldOf(c, b, q)
BY Writing!FoldTrace

(* An ubatch is placed and computed.                                        *)
LEMMA ComputedIs ==
    ASSUME conf \in Confs, NEW k \in KVKind, NEW d \in DataKind, KeysAt(k.cells, d), NEW q \in Seq(Parts)
    PROVE  /\ apply_ubatch(k, q) \in KVKind /\ apply_ubatch(k, q).sc = k.sc
           /\ Written(d, q) \in DataKind /\ KeysAt(apply_ubatch(k, q).cells, Written(d, q))
<1> PICK c : c = {}
  OBVIOUS
<1>1. Len(q) \in Nat /\ DOMAIN q = 1 .. Len(q)
  OBVIOUS
<1>2. PICK f : /\ f[0] = k
               /\ \A n \in 0 .. Len(q) - 1 : f[n + 1] = ApplyStep(c, f[n], q[n + 1])
               /\ f[Len(q)] = Placing!FoldOf(c, k, q)
  BY ONLY <1>1, PlacingTrace
<1>3. PICK g : /\ g[0] = d
               /\ \A n \in 0 .. Len(q) - 1 : g[n + 1] = WriteStep(c, g[n], q[n + 1])
               /\ g[Len(q)] = Writing!FoldOf(c, d, q)
  <2> PICK b : b = d
    OBVIOUS
  <2>1. \E g : /\ g[0] = b
               /\ \A n \in 0 .. Len(q) - 1 : g[n + 1] = WriteStep(c, g[n], q[n + 1])
               /\ g[Len(q)] = Writing!FoldOf(c, b, q)
    BY ONLY <1>1, WritingTrace
  <2> QED
    BY ONLY <2>1, b = d
<1> DEFINE P(n) == f[n] \in KVKind /\ f[n].sc = k.sc /\ g[n] \in DataKind /\ KeysAt(f[n].cells, g[n])
           T == {n \in Nat : n <= Len(q) => P(n)}
<1>4. 0 \in T
  <2>1. P(0)
    BY <1>2, <1>3, Zenon
  <2> HIDE DEF P
  <2> QED
    BY <2>1
<1>5. ASSUME NEW n \in T PROVE n + 1 \in T
  <2> SUFFICES ASSUME n + 1 <= Len(q) PROVE P(n + 1)
    OBVIOUS
  <2>1. n \in 0 .. Len(q) - 1 /\ n <= Len(q) /\ n + 1 \in 1 .. Len(q)
    BY <1>1
  <2>2. P(n)
    BY <2>1
  <2> HIDE DEF T
  <2> PICK x, e, part : x = f[n] /\ e = g[n] /\ part = q[n + 1]
    OBVIOUS
  <2>3. part \in Parts
    BY <1>1, <2>1
  <2>4. x \in KVKind /\ x.sc = k.sc /\ e \in DataKind /\ KeysAt(x.cells, e)
    BY <2>2, Zenon
  <2>5. f[n + 1] = apply_part(x, part) /\ g[n + 1] = WriteStep(c, e, part)
    BY <1>2, <1>3, <2>1, Zenon DEF ApplyStep
  <2> PICK y : y = apply_part(x, part)
    OBVIOUS
  <2>6. PartApplied(x, part, y)
    BY <2>3, <2>4, ApplyPartIs
  <2>7. y \in KVKind /\ y.sc = x.sc
    BY <2>6, Zenon DEF PartApplied
  <2>8. WriteStep(c, e, part) \in DataKind /\ KeysAt(y.cells, WriteStep(c, e, part))
    BY ONLY conf \in Confs, <2>3, <2>4, <2>6, PartKeys
  <2> QED
    BY <2>4, <2>5, <2>7, <2>8, Zenon
<1>6. T = Nat
  <2>1. T \in SUBSET Nat
    OBVIOUS
  <2> HIDE DEF T
  <2> QED
    BY <1>4, <1>5, <2>1, NatSetInduction
<1>7. P(Len(q))
  <2>1. Len(q) \in T /\ Len(q) <= Len(q)
    BY <1>1, <1>6
  <2> QED
    BY <2>1
<1>8. apply_ubatch(k, q) = f[Len(q)] /\ Written(d, q) = g[Len(q)]
  BY <1>2, <1>3, ApplyIsFold, WrittenIsFold, Zenon
<1> QED
  BY <1>7, <1>8, Zenon

(* An ubatch is placed among cells without a shift.                         *)
LEMMA AppliedIs ==
    ASSUME conf \in Confs, NEW k \in KVKind, NEW q \in Seq(Parts)
    PROVE  /\ apply_ubatch(k, q) \in KVKind /\ apply_ubatch(k, q).sc = k.sc
           /\ AllUnshifted(k) =>
                 /\ AllUnshifted(apply_ubatch(k, q))
                 /\ \A st \in Streams, i \in Cells :
                       \/ apply_ubatch(k, q).cells[st].pos[i] \in {-1, k.cells[st].pos[i]}
                       \/ \E j \in 1 .. Len(q) : st = q[j].strm /\ i \in ToSet(q[j].idxs)
<1> PICK c : c = [kv |-> k, sinfo |-> q]
  OBVIOUS
<1>c. c.kv = k /\ c.sinfo = q
  OBVIOUS
<1>1. Len(q) \in Nat /\ DOMAIN q = 1 .. Len(q)
  OBVIOUS
<1>2. PartsApplied(c, 0, k)
  BY <1>c DEF PartsApplied
<1>3. ASSUME NEW n \in 0 .. Len(q) - 1, NEW v, PartsApplied(c, n, v)
      PROVE  PartsApplied(c, n + 1, ApplyStep(c, v, q[n + 1]))
  <2> PICK part, y : part = q[n + 1] /\ y = apply_part(v, part)
    OBVIOUS
  <2>1. part \in Parts /\ n + 1 \in 1 .. n + 1 /\ \A j \in 1 .. n : j \in 1 .. n + 1
    BY <1>1
  <2>2. v \in KVKind /\ v.sc = k.sc
    BY <1>c, <1>3 DEF PartsApplied
  <2>3. PartApplied(v, part, y)
    BY <2>1, <2>2, ApplyPartIs
  <2>4. y \in KVKind /\ y.sc = k.sc
    BY <2>2, <2>3 DEF PartApplied
  <2>5. ASSUME AllUnshifted(k)
        PROVE  /\ AllUnshifted(y)
               /\ \A st \in Streams, i \in Cells :
                     \/ y.cells[st].pos[i] \in {-1, k.cells[st].pos[i]}
                     \/ \E j \in 1 .. n + 1 : st = q[j].strm /\ i \in ToSet(q[j].idxs)
    <3>1. /\ AllUnshifted(v)
          /\ \A st \in Streams, i \in Cells :
                \/ v.cells[st].pos[i] \in {-1, k.cells[st].pos[i]}
                \/ \E j \in 1 .. n : st = q[j].strm /\ i \in ToSet(q[j].idxs)
      BY <1>3, <1>c, <2>5 DEF PartsApplied
    <3>2. AllUnshifted(y)
      BY <2>3, <3>1 DEF PartApplied
    <3>3. ASSUME NEW st \in Streams, NEW i \in Cells, ~(st = part.strm /\ i \in ToSet(part.idxs)),
                 y.cells[st].pos[i] # -1
          PROVE  y.cells[st].pos[i] = v.cells[st].pos[i]
      <4>1. y.cells[st].pos[i] - y.cells[st].shift[i] = v.cells[st].pos[i] - v.cells[st].shift[i]
        BY <2>3, <3>3, Zenon DEF PartApplied
      <4>2. y.cells[st].shift[i] = 0 /\ v.cells[st].shift[i] = 0
        BY <3>1, <3>2 DEF AllUnshifted, Unshifted
      <4>3. y.cells[st].pos[i] \in Int /\ v.cells[st].pos[i] \in Int
        BY <2>2, <2>4, CellFields
      <4> QED
        BY ONLY <4>1, <4>2, <4>3
    <3>4. ASSUME NEW st \in Streams, NEW i \in Cells
          PROVE  \/ y.cells[st].pos[i] \in {-1, k.cells[st].pos[i]}
                 \/ \E j \in 1 .. n + 1 : st = q[j].strm /\ i \in ToSet(q[j].idxs)
      <4>1. CASE st = part.strm /\ i \in ToSet(part.idxs)
        BY <2>1, <4>1
      <4>2. CASE ~(st = part.strm /\ i \in ToSet(part.idxs))
        <5>1. y.cells[st].pos[i] = -1 \/ y.cells[st].pos[i] = v.cells[st].pos[i]
          BY <3>3, <4>2
        <5>2. \/ v.cells[st].pos[i] \in {-1, k.cells[st].pos[i]}
              \/ \E j \in 1 .. n : st = q[j].strm /\ i \in ToSet(q[j].idxs)
          BY <3>1
        <5> QED
          BY ONLY <2>1, <5>1, <5>2
      <4> QED
        BY <4>1, <4>2
    <3> QED
      BY <3>2, <3>4
  <2> QED
    BY <1>c, <2>4, <2>5 DEF PartsApplied, ApplyStep
<1>4. PartsApplied(c, Len(q), Placing!FoldOf(c, k, q))
  BY ONLY <1>1, <1>2, <1>3, PlacingInvariant
<1>5. apply_ubatch(k, q) = Placing!FoldOf(c, k, q)
  BY ApplyIsFold
<1> QED
  BY <1>4, <1>5, <1>c DEF PartsApplied

----------------------------------------------------------------------------
(* The cells that were filled to try a batch are set back.                  *)

SInfos == {q \in Seq(Parts) : \A j \in DOMAIN q : j - 1 \in Streams}

(* Cell i of stream st is one of the cells of the first n parts.            *)
Among(q, n, st, i) == \E j \in 1 .. n : st = q[j].strm /\ i \in ToSet(q[j].idxs)

LEMMA RestorePartIs ==
    ASSUME conf \in Confs, NEW k \in KVKind, AllUnshifted(k), NEW q \in SInfos, NEW j \in DOMAIN q,
           NEW old \in KVKind
    PROVE  /\ RestorePart(k, q, j, old) \in KVKind /\ RestorePart(k, q, j, old).sc = k.sc
           /\ AllUnshifted(RestorePart(k, q, j, old))
           /\ \A t \in Streams, i \in Cells :
                 RestorePart(k, q, j, old).cells[t].pos[i] =
                     IF t = q[j].strm /\ i \in ToSet(q[j].idxs) THEN old.cells[t].pos[i] ELSE k.cells[t].pos[i]
<1> PICK part : part = q[j]
  OBVIOUS
<1>1. part \in Parts /\ j - 1 \in Streams
  BY DEF SInfos
<1> PICK st : st = part.strm
  OBVIOUS
<1> PICK I : I = ToSet(part.idxs)
  OBVIOUS
<1>2. st \in Streams /\ I \in SUBSET Cells
  BY <1>1, PartFields
<1> PICK o : o = k.cells[st]
  OBVIOUS
<1> PICK b : b = old.cells[st]
  OBVIOUS
<1>3. o \in GoodCells /\ b \in GoodCells /\ old.heads[j - 1] \in 0 .. conf.size /\ \A i \in Cells : o.shift[i] = 0
  BY <1>1, <1>2, KVFields DEF AllUnshifted, Unshifted
<1> PICK c : c = SetCells(o, I, b)
  OBVIOUS
<1>4. /\ c \in GoodCells
      /\ \A i \in Cells : c.pos[i] = (IF i \in I THEN b.pos[i] ELSE o.pos[i]) /\ c.shift[i] = 0
  <2>1. /\ SetCells(o, I, b) \in GoodCells
        /\ \A i \in Cells :
              /\ SetCells(o, I, b).pos[i] = IF i \in I THEN b.pos[i] ELSE o.pos[i]
              /\ SetCells(o, I, b).seq[i] = IF i \in I THEN b.seq[i] ELSE o.seq[i]
              /\ SetCells(o, I, b).shift[i] = 0
        /\ SetCells(o, I, b).has_shift = o.has_shift
    BY ONLY conf \in Confs, <1>2, <1>3, SetCellsIs
  <2> QED
    BY ONLY <2>1, c = SetCells(o, I, b)
<1> PICK h : h = old.heads[j - 1]
  OBVIOUS
<1> PICK y : y = [k EXCEPT !.cells[st] = c, !.heads[st] = h]
  OBVIOUS
<1>5. RestorePart(k, q, j, old) = y
  BY DEF RestorePart, KVKind
<1>6. /\ y \in KVKind /\ y.sc = k.sc
      /\ \A t \in Streams : y.cells[t] = IF t = st THEN c ELSE k.cells[t]
  <2>1. h \in 0 .. conf.size
    BY <1>3
  <2>2. c \in GoodCells
    BY <1>4, Zenon
  <2>3. st \in Streams
    BY <1>2
  <2> QED
    BY ONLY k \in KVKind, <2>1, <2>2, <2>3, y = [k EXCEPT !.cells[st] = c, !.heads[st] = h] DEF KVKind
<1>7. AllUnshifted(y)
  BY <1>4, <1>6 DEF AllUnshifted, Unshifted
<1>8. ASSUME NEW t \in Streams, NEW i \in Cells
      PROVE  y.cells[t].pos[i] =
                 IF t = q[j].strm /\ i \in ToSet(q[j].idxs) THEN old.cells[t].pos[i] ELSE k.cells[t].pos[i]
  <2>1. CASE t = st
    BY <1>4, <1>6, <2>1
  <2>2. CASE t # st
    BY <1>6, <2>2
  <2> QED
    BY <2>1, <2>2
<1> QED
  BY <1>5, <1>6, <1>7, <1>8

RestoreStep(c, x, j) == RestorePart(x, c.sinfo, j, c.old)

(* What the first n parts of an ubatch, set back, make of c.kv.             *)
RestoredTo(c, n, x) ==
    /\ x \in KVKind /\ x.sc = c.kv.sc /\ AllUnshifted(x)
    /\ \A st \in Streams, i \in Cells :
          x.cells[st].pos[i] = IF Among(c.sinfo, n, st, i) THEN c.old.cells[st].pos[i] ELSE c.kv.cells[st].pos[i]

Restoring == INSTANCE FoldProofs WITH Op <- RestoreStep, Good <- RestoredTo

LEMMA RestoringInvariant ==
    ASSUME NEW c, NEW b, NEW s, Len(s) \in Nat, DOMAIN s = 1 .. Len(s), RestoredTo(c, 0, b),
           ASSUME NEW n \in 0 .. Len(s) - 1, NEW v, RestoredTo(c, n, v)
           PROVE  RestoredTo(c, n + 1, RestoreStep(c, v, s[n + 1]))
    PROVE  RestoredTo(c, Len(s), Restoring!FoldOf(c, b, s))
<1>1. \A n \in 0 .. Len(s) - 1 : \A v : RestoredTo(c, n, v) => RestoredTo(c, n + 1, RestoreStep(c, v, s[n + 1]))
  OBVIOUS
<1> QED
  BY ONLY Len(s) \in Nat, DOMAIN s = 1 .. Len(s), RestoredTo(c, 0, b), <1>1, Restoring!FoldInvariant, Zenon

LEMMA RestoreIsFold ==
    ASSUME NEW k, NEW state
    PROVE  Restore(k, state) = Restoring!FoldOf(state, k, [j \in DOMAIN state.sinfo |-> j])
BY Zenon DEF Restore, FoldLeft, MapThenFoldSet, Max,
       Restoring!FoldOf, Restoring!MapThenFoldSet, Restoring!Greatest, RestoreStep

StateKind == [sinfo : SInfos, old : KVKind]

LEMMA RestoreIs ==
    ASSUME conf \in Confs, NEW k \in KVKind, AllUnshifted(k), NEW state \in StateKind
    PROVE  /\ Restore(k, state) \in KVKind /\ Restore(k, state).sc = k.sc
           /\ AllUnshifted(Restore(k, state))
           /\ \A st \in Streams, i \in Cells :
                 Restore(k, state).cells[st].pos[i] =
                     IF Among(state.sinfo, Len(state.sinfo), st, i) THEN state.old.cells[st].pos[i]
                     ELSE k.cells[st].pos[i]
<1> PICK q : q = state.sinfo
  OBVIOUS
<1> PICK old : old = state.old
  OBVIOUS
<1>0. q \in SInfos /\ old \in KVKind /\ q \in Seq(Parts)
  BY DEF StateKind, SInfos
<1> PICK c : c = [kv |-> k, sinfo |-> q, old |-> old]
  OBVIOUS
<1>c. c.kv = k /\ c.sinfo = q /\ c.old = old
  OBVIOUS
<1> PICK s : s = [j \in DOMAIN q |-> j]
  OBVIOUS
<1>1. Len(q) \in Nat /\ DOMAIN q = 1 .. Len(q)
  BY <1>0
<1>2. Len(s) = Len(q) /\ Len(s) \in Nat /\ DOMAIN s = 1 .. Len(s) /\ \A j \in 1 .. Len(q) : s[j] = j
  BY ONLY <1>1, s = [j \in DOMAIN q |-> j]
<1>3. RestoredTo(c, 0, k)
  <2>1. \A st \in Streams, i \in Cells : ~Among(q, 0, st, i)
    BY DEF Among
  <2> QED
    BY <1>c, <2>1 DEF RestoredTo
<1>4. ASSUME NEW n \in 0 .. Len(s) - 1, NEW v, RestoredTo(c, n, v)
      PROVE  RestoredTo(c, n + 1, RestoreStep(c, v, s[n + 1]))
  <2>1. s[n + 1] = n + 1 /\ n + 1 \in DOMAIN q /\ n + 1 \in 1 .. n + 1 /\ n \in Nat
    BY <1>1, <1>2
  <2>2. /\ v \in KVKind /\ v.sc = k.sc /\ AllUnshifted(v)
        /\ \A st \in Streams, i \in Cells :
              v.cells[st].pos[i] = IF Among(q, n, st, i) THEN old.cells[st].pos[i] ELSE k.cells[st].pos[i]
    BY <1>4, <1>c, Zenon DEF RestoredTo
  <2> PICK m : m = n + 1
    OBVIOUS
  <2> PICK y : y = RestorePart(v, q, m, old)
    OBVIOUS
  <2>3. /\ y \in KVKind /\ y.sc = v.sc /\ AllUnshifted(y)
        /\ \A t \in Streams, i \in Cells :
              y.cells[t].pos[i] =
                  IF t = q[m].strm /\ i \in ToSet(q[m].idxs) THEN old.cells[t].pos[i] ELSE v.cells[t].pos[i]
    <3>1. m \in DOMAIN q /\ v \in KVKind /\ AllUnshifted(v)
      BY <2>1, <2>2
    <3> QED
      BY ONLY conf \in Confs, <1>0, <3>1, y = RestorePart(v, q, m, old), RestorePartIs
  <2>4. \A st \in Streams, i \in Cells :
           Among(q, m, st, i) <=> Among(q, n, st, i) \/ (st = q[m].strm /\ i \in ToSet(q[m].idxs))
    <3>1. \A j \in 1 .. m : j \in 1 .. n \/ j = m
      BY <2>1
    <3>2. m \in 1 .. m /\ \A j \in 1 .. n : j \in 1 .. m
      BY <2>1
    <3> QED
      BY ONLY <3>1, <3>2 DEF Among
  <2>5. \A st \in Streams, i \in Cells :
           y.cells[st].pos[i] = IF Among(q, m, st, i) THEN old.cells[st].pos[i] ELSE k.cells[st].pos[i]
    <3> HIDE DEF Among
    <3> QED
      BY ONLY <2>2, <2>3, <2>4
  <2>6. RestoredTo(c, m, y)
    BY <1>c, <2>2, <2>3, <2>5, Zenon DEF RestoredTo
  <2> QED
    BY <1>c, <2>1, <2>6 DEF RestoreStep
<1>5. RestoredTo(c, Len(s), Restoring!FoldOf(c, k, s))
  BY ONLY <1>2, <1>3, <1>4, RestoringInvariant
<1>6. Restore(k, c) = Restoring!FoldOf(c, k, s)
  BY <1>c, RestoreIsFold
<1>7. Restore(k, c) = Restore(k, state)
  BY <1>c DEF Restore
<1>8. RestoredTo(c, Len(q), Restore(k, state))
  BY <1>2, <1>5, <1>6, <1>7
<1> QED
  BY <1>8, <1>c, Zenon DEF RestoredTo

Touched(q, st, i) == Among(q, Len(q), st, i)

(* Cell i of stream st is as in k0, or free, or one that a state after the  *)
(* n-th sets back.                                                          *)
Pending(k0, states, n, k) ==
    \A st \in Streams, i \in Cells :
        \/ k.cells[st].pos[i] \in {-1, k0.cells[st].pos[i]}
        \/ \E m \in n + 1 .. Len(states) : Touched(states[m].sinfo, st, i)

Chained(k0, states) ==
    /\ states \in Seq(StateKind)
    /\ \A n \in DOMAIN states : Pending(k0, states, n, states[n].old)

UnwindStep(c, x, state) == Restore(x, state)

UnwoundTo(c, n, x) ==
    x \in KVKind /\ x.sc = c.sc /\ AllUnshifted(x) /\ Pending(c.start, c.states, n, x)

Unwinding == INSTANCE FoldProofs WITH Op <- UnwindStep, Good <- UnwoundTo

LEMMA UnwindingInvariant ==
    ASSUME NEW c, NEW b, NEW s, Len(s) \in Nat, DOMAIN s = 1 .. Len(s), UnwoundTo(c, 0, b),
           ASSUME NEW n \in 0 .. Len(s) - 1, NEW v, UnwoundTo(c, n, v)
           PROVE  UnwoundTo(c, n + 1, UnwindStep(c, v, s[n + 1]))
    PROVE  UnwoundTo(c, Len(s), Unwinding!FoldOf(c, b, s))
<1>1. \A n \in 0 .. Len(s) - 1 : \A v : UnwoundTo(c, n, v) => UnwoundTo(c, n + 1, UnwindStep(c, v, s[n + 1]))
  OBVIOUS
<1> QED
  BY ONLY Len(s) \in Nat, DOMAIN s = 1 .. Len(s), UnwoundTo(c, 0, b), <1>1, Unwinding!FoldInvariant, Zenon

LEMMA UnwindIsFold ==
    ASSUME NEW k, NEW states, NEW c
    PROVE  FoldLeft(Restore, k, states) = Unwinding!FoldOf(c, k, states)
BY Zenon DEF FoldLeft, MapThenFoldSet, Max,
       Unwinding!FoldOf, Unwinding!MapThenFoldSet, Unwinding!Greatest, UnwindStep

(* All are set back: what is left in the cells was there before.            *)
LEMMA UnwoundIs ==
    ASSUME conf \in Confs, NEW k0 \in KVKind, NEW k \in KVKind, AllUnshifted(k), NEW states,
           Chained(k0, states), Pending(k0, states, 0, k)
    PROVE  /\ FoldLeft(Restore, k, states) \in KVKind /\ FoldLeft(Restore, k, states).sc = k.sc
           /\ AllUnshifted(FoldLeft(Restore, k, states))
           /\ \A st \in Streams, i \in Cells :
                 FoldLeft(Restore, k, states).cells[st].pos[i] \in {-1, k0.cells[st].pos[i]}
<1> PICK c : c = [start |-> k0, states |-> states, sc |-> k.sc]
  OBVIOUS
<1>c. c.start = k0 /\ c.states = states /\ c.sc = k.sc
  OBVIOUS
<1>1. Len(states) \in Nat /\ DOMAIN states = 1 .. Len(states) /\ \A n \in 1 .. Len(states) : states[n] \in StateKind
  <2>1. states \in Seq(StateKind)
    BY DEF Chained
  <2> QED
    BY <2>1
<1>2. UnwoundTo(c, 0, k)
  BY <1>c DEF UnwoundTo
<1>3. ASSUME NEW n \in 0 .. Len(states) - 1, NEW v, UnwoundTo(c, n, v)
      PROVE  UnwoundTo(c, n + 1, UnwindStep(c, v, states[n + 1]))
  <2>1. v \in KVKind /\ v.sc = k.sc /\ AllUnshifted(v) /\ Pending(k0, states, n, v)
    BY <1>3, <1>c, Zenon DEF UnwoundTo
  <2> PICK m : m = n + 1
    OBVIOUS
  <2> PICK state : state = states[m]
    OBVIOUS
  <2>2. m \in 1 .. Len(states) /\ m \in DOMAIN states /\ n \in Nat
    BY <1>1
  <2>3. state \in StateKind
    BY <1>1, <2>2
  <2> PICK y : y = Restore(v, state)
    OBVIOUS
  <2>4. /\ y \in KVKind /\ y.sc = v.sc /\ AllUnshifted(y)
        /\ \A st \in Streams, i \in Cells :
              y.cells[st].pos[i] = IF Touched(state.sinfo, st, i) THEN state.old.cells[st].pos[i]
                                   ELSE v.cells[st].pos[i]
    BY ONLY conf \in Confs, <2>1, <2>3, y = Restore(v, state), RestoreIs DEF Touched
  <2>5. Pending(k0, states, m, state.old)
    BY <2>2 DEF Chained
  <2>6. ASSUME NEW st \in Streams, NEW i \in Cells
        PROVE  \/ y.cells[st].pos[i] \in {-1, k0.cells[st].pos[i]}
               \/ \E l \in m + 1 .. Len(states) : Touched(states[l].sinfo, st, i)
    <3>1. CASE Touched(state.sinfo, st, i)
      <4>1. y.cells[st].pos[i] = state.old.cells[st].pos[i]
        BY <2>4, <3>1, Zenon
      <4> QED
        BY <2>5, <4>1, Zenon DEF Pending
    <3>2. CASE ~Touched(state.sinfo, st, i)
      <4>1. y.cells[st].pos[i] = v.cells[st].pos[i]
        BY <2>4, <3>2, Zenon
      <4>2. \/ v.cells[st].pos[i] \in {-1, k0.cells[st].pos[i]}
            \/ \E l \in n + 1 .. Len(states) : Touched(states[l].sinfo, st, i)
        BY <2>1, Zenon DEF Pending
      <4>3. ASSUME NEW l \in n + 1 .. Len(states), Touched(states[l].sinfo, st, i)
            PROVE  l \in m + 1 .. Len(states)
        <5>1. l # m
          BY <3>2, <4>3
        <5> QED
          BY <1>1, <2>2, <5>1
      <4> QED
        BY <4>1, <4>2, <4>3, Zenon
    <3> QED
      BY <3>1, <3>2
  <2>7. UnwoundTo(c, m, y)
    BY <1>c, <2>1, <2>4, <2>6, Zenon DEF UnwoundTo, Pending
  <2> QED
    BY <2>7 DEF UnwindStep
<1>4. UnwoundTo(c, Len(states), Unwinding!FoldOf(c, k, states))
  BY ONLY <1>1, <1>2, <1>3, UnwindingInvariant
<1> PICK x : x = FoldLeft(Restore, k, states)
  OBVIOUS
<1>5. UnwoundTo(c, Len(states), x)
  BY <1>4, UnwindIsFold
<1>6. x \in KVKind /\ x.sc = k.sc /\ AllUnshifted(x) /\ Pending(k0, states, Len(states), x)
  BY <1>5, <1>c, Zenon DEF UnwoundTo
<1>7. Len(states) + 1 .. Len(states) = {}
  BY <1>1
<1>8. \A st \in Streams, i \in Cells : x.cells[st].pos[i] \in {-1, k0.cells[st].pos[i]}
  BY <1>6, <1>7, Zenon DEF Pending
<1> QED
  BY <1>6, <1>8

----------------------------------------------------------------------------
(* Cells are found for an ubatch.                                           *)

(* The tokens of a part of an ubatch, all of one stream.                    *)
TokenSeqs ==
    {p \in Seq(TokenKind) :
        p # <<>> /\ \A j \in DOMAIN p : seq_to_stream(p[j].seq) = seq_to_stream(p[1].seq)}

Ubatches == {u \in Seq(TokenSeqs) : \A j \in DOMAIN u : j - 1 \in Streams}

LEMMA ModRange ==
    ASSUME NEW a \in Nat, NEW n \in Nat \ {0}
    PROVE  a % n \in 0 .. (n - 1)
OBVIOUS

LEMMA FoundIs ==
    ASSUME conf \in Confs, NEW c, NEW head \in 0 .. conf.size, NEW n \in Nat \ {0}
    PROVE  Found(c, head, n) \in Seq(Cells) /\ (Found(c, head, n) # <<>> => Len(Found(c, head, n)) = n)
<1>1. conf.size \in Nat \ {0} /\ Cells = 0 .. (conf.size - 1)
  BY ConfFacts
<1> PICK start : start = IF head > Cardinality(c.used) + 2 * n THEN 0 ELSE head
  OBVIOUS
<1>2. start \in Nat
  BY <1>1
<1> PICK q : q = [j \in 1 .. conf.size |-> (start + j - 1) % conf.size]
  OBVIOUS
<1>3. q \in Seq(Cells)
  <2>1. \A j \in 1 .. conf.size : (start + j - 1) % conf.size \in Cells
    <3> TAKE j \in 1 .. conf.size
    <3>1. start + j - 1 \in Nat
      BY <1>1, <1>2
    <3> PICK a : a = start + j - 1
      OBVIOUS
    <3>2. a % conf.size \in 0 .. (conf.size - 1)
      BY ONLY <1>1, <3>1, a = start + j - 1, ModRange
    <3> QED
      BY <1>1, <3>2
  <2> QED
    BY ONLY <1>1, <2>1, q = [j \in 1 .. conf.size |-> (start + j - 1) % conf.size]
<1> PICK S : S = {i \in Cells : CanUse(c, i)}
  OBVIOUS
<1> PICK usable : usable = Keep(q, S)
  OBVIOUS
<1>4. usable \in Seq(Cells)
  BY <1>3, KeepSelects
<1>5. Found(c, head, n) = IF Len(usable) < n THEN <<>> ELSE SubSeq(usable, 1, n)
  BY DEF Found
<1>6. CASE Len(usable) < n
  BY <1>5, <1>6
<1>7. CASE ~(Len(usable) < n)
  <2>1. Len(usable) \in Nat /\ \A j \in 1 .. n : usable[j] \in Cells
    BY ONLY <1>4, <1>7, n \in Nat \ {0}
  <2>2. SubSeq(usable, 1, n) \in Seq(Cells) /\ Len(SubSeq(usable, 1, n)) = n
    BY ONLY <1>4, <1>7, <2>1, n \in Nat \ {0}, SubSeqProperties
  <2> QED
    BY <1>5, <1>7, <2>2
<1> QED
  BY <1>6, <1>7

LEMMA FindSlotIs ==
    ASSUME conf \in Confs, NEW k \in KVKind, NEW u \in Ubatches, ~NoSlot(find_slot(k, u))
    PROVE  find_slot(k, u) \in SInfos
<1>1. u \in Seq(TokenSeqs) /\ Len(u) \in Nat /\ DOMAIN u = 1 .. Len(u) /\ \A j \in 1 .. Len(u) : j - 1 \in Streams
  <2>1. u \in Seq(TokenSeqs) /\ \A j \in DOMAIN u : j - 1 \in Streams
    BY DEF Ubatches
  <2>2. Len(u) \in Nat /\ DOMAIN u = 1 .. Len(u)
    BY ONLY <2>1
  <2> QED
    BY ONLY <2>1, <2>2
<1> PICK q : q = find_slot(k, u)
  OBVIOUS
<1>2. ASSUME NEW j \in 1 .. Len(u)
      PROVE  /\ q[j] = [strm |-> seq_to_stream(u[j][1].seq), toks |-> u[j],
                        idxs |-> Found(k.cells[seq_to_stream(u[j][1].seq)],
                                       k.heads[seq_to_stream(u[j][1].seq)], Len(u[j]))]
             /\ q[j] \in Parts
  <2>1. u[j] \in TokenSeqs
    BY <1>1
  <2> PICK p : p = u[j]
    OBVIOUS
  <2>2. /\ p \in Seq(TokenKind) /\ p # <<>>
        /\ \A n \in DOMAIN p : seq_to_stream(p[n].seq) = seq_to_stream(p[1].seq)
    BY <2>1 DEF TokenSeqs
  <2>3. p[1] \in TokenKind /\ Len(p) \in Nat \ {0}
    BY ONLY <2>2
  <2> PICK st : st = seq_to_stream(p[1].seq)
    OBVIOUS
  <2>4. st \in Streams
    BY <2>3, ConfFacts DEF TokenKind
  <2> PICK f : f = Found(k.cells[st], k.heads[st], Len(p))
    OBVIOUS
  <2>5. q[j] = [strm |-> st, toks |-> p, idxs |-> f]
    BY <1>1 DEF find_slot
  <2>6. q[j].idxs # <<>>
    <3>1. DOMAIN q = DOMAIN u
      BY DEF find_slot
    <3> QED
      BY <1>1, <3>1 DEF NoSlot
  <2>7. f \in Seq(Cells) /\ f # <<>> /\ Len(f) = Len(p)
    <3>1. k.heads[st] \in 0 .. conf.size
      BY <2>4, KVFields
    <3>2. f \in Seq(Cells) /\ (f # <<>> => Len(f) = Len(p))
      BY <2>3, <3>1, FoundIs
    <3>3. f # <<>>
      BY <2>5, <2>6
    <3> QED
      BY <3>2, <3>3
  <2>8. [strm |-> st, toks |-> p, idxs |-> f] \in Parts
    BY <2>2, <2>4, <2>7 DEF Parts
  <2> QED
    BY <2>5, <2>8
<1>3. q = [j \in 1 .. Len(u) |-> q[j]]
  BY <1>1 DEF find_slot
<1>4. q \in Seq(Parts) /\ DOMAIN q = 1 .. Len(u)
  <2>1. \A j \in 1 .. Len(u) : q[j] \in Parts
    BY <1>2
  <2> PICK n : n = Len(u)
    OBVIOUS
  <2>2. n \in Nat /\ q = [j \in 1 .. n |-> q[j]] /\ \A j \in 1 .. n : q[j] \in Parts
    BY <1>1, <1>3, <2>1
  <2>3. q \in [1 .. n -> Parts]
    BY ONLY <2>2
  <2> QED
    BY ONLY <2>2, <2>3, n = Len(u)
<1> QED
  BY <1>1, <1>4 DEF SInfos

----------------------------------------------------------------------------
(* Cells are found for all ubatches of a batch.                             *)

LEMMA ConsFacts ==
    ASSUME NEW S, NEW e \in S, NEW q \in Seq(S)
    PROVE  /\ <<e>> \o q \in Seq(S) /\ Len(<<e>> \o q) = Len(q) + 1
           /\ (<<e>> \o q)[1] = e /\ \A n \in 1 .. Len(q) : (<<e>> \o q)[n + 1] = q[n]
<1> PICK a : a = <<e>>
  OBVIOUS
<1>1. a \in Seq(S) /\ Len(a) = 1 /\ a[1] = e
  OBVIOUS
<1> PICK t : t = a \o q
  OBVIOUS
<1>2. /\ t \in Seq(S) /\ Len(t) = Len(a) + Len(q)
      /\ \A i \in 1 .. Len(a) + Len(q) : t[i] = IF i <= Len(a) THEN a[i] ELSE q[i - Len(a)]
  BY ONLY <1>1, q \in Seq(S), t = a \o q, ConcatProperties
<1>3. Len(q) \in Nat
  OBVIOUS
<1> QED
  BY ONLY <1>1, <1>2, <1>3, t = a \o q, a = <<e>>

LEMMA PendingShift ==
    ASSUME NEW k0, NEW states \in Seq(StateKind), NEW e \in StateKind, NEW n \in Nat, NEW x,
           Pending(k0, states, n, x)
    PROVE  Pending(k0, <<e>> \o states, n + 1, x)
<1> PICK t : t = <<e>> \o states
  OBVIOUS
<1>1. Len(t) = Len(states) + 1 /\ Len(states) \in Nat /\ \A m \in 1 .. Len(states) : t[m + 1] = states[m]
  BY ConsFacts
<1>2. ASSUME NEW st \in Streams, NEW i \in Cells
      PROVE  \/ x.cells[st].pos[i] \in {-1, k0.cells[st].pos[i]}
             \/ \E m \in (n + 1) + 1 .. Len(t) : Touched(t[m].sinfo, st, i)
  <2>1. CASE x.cells[st].pos[i] \in {-1, k0.cells[st].pos[i]}
    BY <2>1
  <2>2. CASE \E m \in n + 1 .. Len(states) : Touched(states[m].sinfo, st, i)
    <3>1. PICK m \in n + 1 .. Len(states) : Touched(states[m].sinfo, st, i)
      BY <2>2
    <3>2. m + 1 \in (n + 1) + 1 .. Len(t) /\ m \in 1 .. Len(states)
      BY <1>1
    <3>3. Touched(t[m + 1].sinfo, st, i)
      BY <1>1, <3>1, <3>2, Zenon
    <3> QED
      BY <3>2, <3>3, Zenon
  <2> QED
    BY <2>1, <2>2, Zenon DEF Pending
<1> QED
  BY <1>2, Zenon DEF Pending

SimulateStep(c, a, u) ==
    LET sinfo == find_slot(a.kv, u)
    IN  IF ~a.ok \/ NoSlot(sinfo) THEN [a EXCEPT !.ok = FALSE]
        ELSE [a EXCEPT !.kv = apply_ubatch(a.kv, sinfo),
                       !.states = <<[sinfo |-> sinfo, old |-> a.kv]>> \o @]

SimulatedTo(c, n, a) ==
    /\ a \in [ok : BOOLEAN, kv : KVKind, states : Seq(StateKind)]
    /\ a.kv.sc = c.sc /\ AllUnshifted(a.kv)
    /\ Chained(c, a.states) /\ Pending(c, a.states, 0, a.kv)

Simulation == INSTANCE FoldProofs WITH Op <- SimulateStep, Good <- SimulatedTo

LEMMA SimulationInvariant ==
    ASSUME NEW c, NEW b, NEW s, Len(s) \in Nat, DOMAIN s = 1 .. Len(s), SimulatedTo(c, 0, b),
           ASSUME NEW n \in 0 .. Len(s) - 1, NEW v, SimulatedTo(c, n, v)
           PROVE  SimulatedTo(c, n + 1, SimulateStep(c, v, s[n + 1]))
    PROVE  SimulatedTo(c, Len(s), Simulation!FoldOf(c, b, s))
<1>1. \A n \in 0 .. Len(s) - 1 : \A v : SimulatedTo(c, n, v) => SimulatedTo(c, n + 1, SimulateStep(c, v, s[n + 1]))
  OBVIOUS
<1> QED
  BY ONLY Len(s) \in Nat, DOMAIN s = 1 .. Len(s), SimulatedTo(c, 0, b), <1>1, Simulation!FoldInvariant, Zenon

LEMMA SimulatedIsFold ==
    ASSUME NEW k, NEW ubatches
    PROVE  Simulated(k, ubatches) = Simulation!FoldOf(k, [ok |-> TRUE, kv |-> k, states |-> <<>>], ubatches)
BY Zenon DEF Simulated, FoldLeft, MapThenFoldSet, Max,
       Simulation!FoldOf, Simulation!MapThenFoldSet, Simulation!Greatest, SimulateStep

LEMMA SimulateStepIs ==
    ASSUME conf \in Confs, NEW k0 \in KVKind, NEW n, NEW a, SimulatedTo(k0, n, a), NEW u \in Ubatches
    PROVE  SimulatedTo(k0, n + 1, SimulateStep(k0, a, u))
<1> PICK k : k = a.kv
  OBVIOUS
<1> PICK states : states = a.states
  OBVIOUS
<1>1. /\ a \in [ok : BOOLEAN, kv : KVKind, states : Seq(StateKind)]
      /\ k.sc = k0.sc /\ AllUnshifted(k) /\ Chained(k0, states) /\ Pending(k0, states, 0, k)
  BY Zenon DEF SimulatedTo
<1>2. k \in KVKind /\ states \in Seq(StateKind)
  BY <1>1
<1> PICK q : q = find_slot(k, u)
  OBVIOUS
<1>3. CASE ~a.ok \/ NoSlot(q)
  <2> PICK y : y = [a EXCEPT !.ok = FALSE]
    OBVIOUS
  <2>1. y \in [ok : BOOLEAN, kv : KVKind, states : Seq(StateKind)] /\ y.kv = k /\ y.states = states
    BY <1>1
  <2>2. SimulateStep(k0, a, u) = y
    BY <1>3 DEF SimulateStep
  <2> QED
    BY <1>1, <2>1, <2>2 DEF SimulatedTo
<1>4. CASE ~(~a.ok \/ NoSlot(q))
  <2>1. q \in SInfos /\ q \in Seq(Parts)
    <3>1. q \in SInfos
      BY <1>2, <1>4, FindSlotIs
    <3> QED
      BY <3>1 DEF SInfos
  <2> PICK k2 : k2 = apply_ubatch(k, q)
    OBVIOUS
  <2> PICK e : e = [sinfo |-> q, old |-> k]
    OBVIOUS
  <2>2. e \in StateKind /\ e.sinfo = q /\ e.old = k
    BY <1>2, <2>1 DEF StateKind
  <2> PICK t : t = <<e>> \o states
    OBVIOUS
  <2>3. /\ t \in Seq(StateKind) /\ Len(t) = Len(states) + 1 /\ Len(states) \in Nat /\ DOMAIN t = 1 .. Len(t)
        /\ t[1] = e /\ \A m \in 1 .. Len(states) : t[m + 1] = states[m]
    <3>1. /\ t \in Seq(StateKind) /\ Len(t) = Len(states) + 1
          /\ t[1] = e /\ \A m \in 1 .. Len(states) : t[m + 1] = states[m]
      BY ONLY <1>2, <2>2, t = <<e>> \o states, ConsFacts
    <3>2. Len(states) \in Nat /\ DOMAIN t = 1 .. Len(t)
      BY ONLY <1>2, <3>1
    <3> QED
      BY <3>1, <3>2
  <2>4. /\ k2 \in KVKind /\ k2.sc = k.sc /\ AllUnshifted(k2)
        /\ \A st \in Streams, i \in Cells :
              k2.cells[st].pos[i] \in {-1, k.cells[st].pos[i]} \/ Touched(q, st, i)
    <3>1. /\ k2 \in KVKind /\ k2.sc = k.sc
          /\ AllUnshifted(k) =>
                /\ AllUnshifted(k2)
                /\ \A st \in Streams, i \in Cells :
                      \/ k2.cells[st].pos[i] \in {-1, k.cells[st].pos[i]}
                      \/ \E j \in 1 .. Len(q) : st = q[j].strm /\ i \in ToSet(q[j].idxs)
      BY ONLY conf \in Confs, <1>2, <2>1, k2 = apply_ubatch(k, q), AppliedIs
    <3> QED
      <4>1. AllUnshifted(k2) /\ k2 \in KVKind /\ k2.sc = k.sc
        BY <1>1, <3>1
      <4>2. ASSUME NEW st \in Streams, NEW i \in Cells
            PROVE  k2.cells[st].pos[i] \in {-1, k.cells[st].pos[i]} \/ Touched(q, st, i)
        <5>1. \/ k2.cells[st].pos[i] \in {-1, k.cells[st].pos[i]}
              \/ \E j \in 1 .. Len(q) : st = q[j].strm /\ i \in ToSet(q[j].idxs)
          BY <1>1, <3>1
        <5> QED
          BY <5>1 DEF Touched, Among
      <4> QED
        BY ONLY <4>1, <4>2
  <2> PICK y : y = [a EXCEPT !.kv = k2, !.states = t]
    OBVIOUS
  <2>5. SimulateStep(k0, a, u) = y
    BY <1>4 DEF SimulateStep
  <2>6. y \in [ok : BOOLEAN, kv : KVKind, states : Seq(StateKind)] /\ y.kv = k2 /\ y.states = t
    BY ONLY <1>1, <2>3, <2>4, y = [a EXCEPT !.kv = k2, !.states = t]
  <2>7. Pending(k0, t, 1, k)
    <3>1. Pending(k0, t, 0 + 1, k)
      BY <1>1, <1>2, <2>2, PendingShift
    <3> QED
      BY <3>1
  <2>8. Pending(k0, t, 0, k2)
    <3> SUFFICES ASSUME NEW st \in Streams, NEW i \in Cells
                 PROVE  \/ k2.cells[st].pos[i] \in {-1, k0.cells[st].pos[i]}
                        \/ \E m \in 0 + 1 .. Len(t) : Touched(t[m].sinfo, st, i)
      BY Zenon DEF Pending
    <3>0. 1 \in 0 + 1 .. Len(t) /\ \A m \in 1 + 1 .. Len(t) : m \in 0 + 1 .. Len(t)
      BY <2>3
    <3>1. CASE Touched(q, st, i)
      <4>1. t[1].sinfo = q
        BY ONLY <2>2, <2>3
      <4>2. Touched(t[1].sinfo, st, i)
        BY ONLY <3>1, <4>1, Zenon
      <4> QED
        BY ONLY <3>0, <4>2, Zenon
    <3>2. CASE k2.cells[st].pos[i] = -1
      BY <3>2
    <3>3. CASE k2.cells[st].pos[i] = k.cells[st].pos[i]
      <4>1. \/ k.cells[st].pos[i] \in {-1, k0.cells[st].pos[i]}
            \/ \E m \in 1 + 1 .. Len(t) : Touched(t[m].sinfo, st, i)
        BY <2>7, Zenon DEF Pending
      <4> QED
        BY <3>0, <3>3, <4>1, Zenon
    <3> QED
      BY <2>4, <3>1, <3>2, <3>3
  <2>9. Chained(k0, t)
    <3>1. ASSUME NEW m \in DOMAIN t PROVE Pending(k0, t, m, t[m].old)
      <4>1. CASE m = 1
        BY <2>2, <2>3, <2>7, <4>1
      <4>2. CASE m # 1
        <5> PICK l : l = m - 1
          OBVIOUS
        <5>1. l \in 1 .. Len(states) /\ l \in Nat /\ l + 1 = m /\ l \in DOMAIN states
          BY <1>2, <2>3, <4>2
        <5>2. Pending(k0, states, l, states[l].old)
          BY <1>1, <5>1 DEF Chained
        <5>3. Pending(k0, t, l + 1, states[l].old)
          BY <1>2, <2>2, <5>1, <5>2, PendingShift
        <5>4. t[m] = states[l]
          BY <2>3, <5>1
        <5> QED
          BY <5>1, <5>3, <5>4
      <4> QED
        BY <4>1, <4>2
    <3> QED
      BY <2>3, <3>1 DEF Chained
  <2> QED
    BY <1>1, <2>4, <2>5, <2>6, <2>8, <2>9 DEF SimulatedTo
<1> QED
  BY <1>3, <1>4

LEMMA SimulatedIs ==
    ASSUME conf \in Confs, NEW k \in KVKind, AllUnshifted(k), NEW ubatches \in Seq(Ubatches)
    PROVE  /\ Simulated(k, ubatches) \in [ok : BOOLEAN, kv : KVKind, states : Seq(StateKind)]
           /\ Simulated(k, ubatches).kv.sc = k.sc /\ AllUnshifted(Simulated(k, ubatches).kv)
           /\ Chained(k, Simulated(k, ubatches).states)
           /\ Pending(k, Simulated(k, ubatches).states, 0, Simulated(k, ubatches).kv)
<1> PICK b : b = [ok |-> TRUE, kv |-> k, states |-> <<>>]
  OBVIOUS
<1>1. Len(ubatches) \in Nat /\ DOMAIN ubatches = 1 .. Len(ubatches)
  OBVIOUS
<1>2. SimulatedTo(k, 0, b)
  <2>1. b \in [ok : BOOLEAN, kv : KVKind, states : Seq(StateKind)] /\ b.kv = k /\ b.states = <<>>
    OBVIOUS
  <2>2. Chained(k, <<>>)
    BY DEF Chained
  <2>3. Pending(k, <<>>, 0, k)
    BY DEF Pending
  <2> QED
    BY <2>1, <2>2, <2>3 DEF SimulatedTo
<1>3. ASSUME NEW n \in 0 .. Len(ubatches) - 1, NEW v, SimulatedTo(k, n, v)
      PROVE  SimulatedTo(k, n + 1, SimulateStep(k, v, ubatches[n + 1]))
  <2>1. ubatches[n + 1] \in Ubatches
    BY <1>1
  <2> QED
    BY ONLY conf \in Confs, k \in KVKind, <1>3, <2>1, SimulateStepIs
<1>4. SimulatedTo(k, Len(ubatches), Simulation!FoldOf(k, b, ubatches))
  BY ONLY <1>1, <1>2, <1>3, SimulationInvariant
<1> PICK a : a = Simulated(k, ubatches)
  OBVIOUS
<1>5. SimulatedTo(k, Len(ubatches), a)
  BY <1>4, SimulatedIsFold
<1> QED
  BY <1>5, Zenon DEF SimulatedTo

(* A batch finds its cells; those of the cache hold what they held, or are  *)
(* free.                                                                    *)
LEMMA PreparedIs ==
    ASSUME conf \in Confs, NEW k \in KVKind, AllUnshifted(k), NEW ubatches \in Seq(Ubatches)
    PROVE  /\ Prepared(k, ubatches).kv \in KVKind /\ Prepared(k, ubatches).kv.sc = k.sc
           /\ KeepsAll(k, Prepared(k, ubatches).kv)
           /\ Prepared(k, ubatches).sinfos \in Seq(SInfos)
<1> PICK sim : sim = Simulated(k, ubatches)
  OBVIOUS
<1>1. /\ sim \in [ok : BOOLEAN, kv : KVKind, states : Seq(StateKind)]
      /\ sim.kv.sc = k.sc /\ AllUnshifted(sim.kv)
      /\ Chained(k, sim.states) /\ Pending(k, sim.states, 0, sim.kv)
  BY SimulatedIs
<1> PICK states, x : states = sim.states /\ x = sim.kv
  OBVIOUS
<1>2. states \in Seq(StateKind) /\ x \in KVKind
  BY <1>1
<1> PICK y : y = FoldLeft(Restore, x, states)
  OBVIOUS
<1>3. /\ y \in KVKind /\ y.sc = k.sc /\ AllUnshifted(y)
      /\ \A st \in Streams, i \in Cells : y.cells[st].pos[i] \in {-1, k.cells[st].pos[i]}
  BY <1>1, <1>2, UnwoundIs
<1>4. KeepsAll(k, y)
  BY <1>3 DEF KeepsAll, Keeps, AllUnshifted, Unshifted
<1> PICK q : q = [j \in DOMAIN states |-> states[j].sinfo]
  OBVIOUS
<1> PICK p : p = Prepared(k, ubatches)
  OBVIOUS
<1>5. p.kv = y /\ p.sinfos = Reverse(q)
  BY DEF Prepared
<1>6. Reverse(q) \in Seq(SInfos)
  <2> PICK n : n = Len(states)
    OBVIOUS
  <2>1. n \in Nat /\ DOMAIN states = 1 .. n /\ \A j \in 1 .. n : states[j] \in StateKind
    BY <1>2
  <2>2. \A j \in 1 .. n : states[j].sinfo \in SInfos
    BY <2>1 DEF StateKind
  <2>3. q = [j \in 1 .. n |-> states[j].sinfo]
    BY <2>1
  <2>4. DOMAIN q = 1 .. n /\ Len(q) = n /\ \A j \in 1 .. n : q[j] \in SInfos
    BY ONLY <2>1, <2>2, <2>3
  <2>5. \A i \in 1 .. n : q[(n - i) + 1] \in SInfos
    <3>1. \A i \in 1 .. n : (n - i) + 1 \in 1 .. n
      BY ONLY <2>1
    <3> QED
      BY ONLY <2>4, <3>1
  <2> PICK r : r = Reverse(q)
    OBVIOUS
  <2>6. r = [i \in 1 .. n |-> q[(n - i) + 1]]
    BY <2>4 DEF Reverse
  <2>7. r \in [1 .. n -> SInfos]
    BY ONLY <2>5, <2>6
  <2> QED
    BY ONLY <2>1, <2>7, r = Reverse(q)
<1> QED
  BY <1>3, <1>4, <1>5, <1>6

----------------------------------------------------------------------------
(* A batch is cut into ubatches.                                            *)

(* What a batch can have: the tokens of a sequence fit its context.         *)
Counts ==
    {c \in [Seqs -> 0 .. conf.max_batch] : \A s \in Seqs : c[s] > 0 => Length(s) + c[s] <= conf.n_ctx}

LEMMA LengthIs ==
    ASSUME conf \in Confs, kv \in KVKind, NEW s \in Seqs
    PROVE  Length(s) \in 0 .. conf.n_ctx
<1> PICK c : c = CellsOf(kv, s)
  OBVIOUS
<1>1. c \in GoodCells
  BY ConfFacts, KVFields DEF CellsOf
<1>2. Length(s) = IF c.seq_pos[s] = {} THEN 0 ELSE Max({x[1] : x \in c.seq_pos[s]}) + 1
  BY DEF Length, seq_pos_max
<1>3. conf.n_ctx \in Nat \ {0}
  BY ConfFacts
<1> PICK D : D = {x[1] : x \in c.seq_pos[s]}
  OBVIOUS
<1>4. \A p \in D : p \in 0 .. (conf.n_ctx - 1)
  <2> TAKE p \in D
  <2>1. PICK x \in c.seq_pos[s] : p = x[1]
    OBVIOUS
  <2>2. x \in Int \X Cells
    BY <1>1, GoodFields, RawFields
  <2>3. PICK q \in Int, i \in Cells : x = <<q, i>>
    BY <2>2
  <2>4. Pointed(c) /\ Marked(c)
    BY <1>1, GoodFields
  <2>5. s \in c.seq[i] /\ q = c.pos[i]
    BY <2>1, <2>3, <2>4 DEF Pointed
  <2>6. q \in -1 .. (conf.n_ctx - 1) /\ q # -1
    BY <2>4, <2>5 DEF Marked
  <2> QED
    BY <1>3, <2>1, <2>3, <2>6
<1>5. CASE c.seq_pos[s] = {}
  BY <1>2, <1>3, <1>5
<1>6. CASE c.seq_pos[s] # {}
  <2>1. D # {} /\ D \in SUBSET Int /\ \A p \in D : p <= conf.n_ctx - 1
    BY <1>3, <1>4, <1>6
  <2> PICK a : a = conf.n_ctx - 1
    OBVIOUS
  <2>2. a \in Int
    BY <1>3
  <2>3. Max(D) \in D
    BY <2>1, <2>2, MaxOfInt
  <2> QED
    BY <1>2, <1>3, <1>4, <1>6, <2>3
<1> QED
  BY <1>5, <1>6

LEMMA TokensAre ==
    ASSUME conf \in Confs, NEW s \in Seqs, NEW from \in Nat, NEW n \in Nat, n > 0 => from + n <= conf.n_ctx
    PROVE  /\ Tokens(s, from, n) \in Seq(TokenKind) /\ Len(Tokens(s, from, n)) = n
           /\ \A j \in 1 .. n : Tokens(s, from, n)[j].seq = s
<1>1. \A j \in 1 .. n : [seq |-> s, pos |-> from + j - 1] \in TokenKind
  <2> TAKE j \in 1 .. n
  <2> PICK l : l = conf.n_ctx
    OBVIOUS
  <2>1. l \in Nat
    BY ConfFacts
  <2>2. from + n <= l
    BY ONLY j \in 1 .. n, n \in Nat, n > 0 => from + n <= conf.n_ctx, l = conf.n_ctx
  <2>3. from + j - 1 \in 0 .. (l - 1)
    BY ONLY <2>1, <2>2, j \in 1 .. n, n \in Nat, from \in Nat
  <2> QED
    BY <2>3 DEF TokenKind
<1> PICK q : q = Tokens(s, from, n)
  OBVIOUS
<1>2. q = [j \in 1 .. n |-> [seq |-> s, pos |-> from + j - 1]]
  BY DEF Tokens
<1>3. q \in [1 .. n -> TokenKind] /\ \A j \in 1 .. n : q[j].seq = s
  BY ONLY <1>1, <1>2
<1> QED
  BY ONLY <1>3, n \in Nat, q = Tokens(s, from, n)

LEMMA CountsFit ==
    ASSUME conf \in Confs, kv \in KVKind, NEW c \in Counts, NEW s \in Seqs
    PROVE  c[s] \in Nat /\ Length(s) \in Nat /\ (c[s] > 0 => Length(s) + c[s] <= conf.n_ctx)
<1>1. c \in [Seqs -> 0 .. conf.max_batch] /\ (c[s] > 0 => Length(s) + c[s] <= conf.n_ctx)
  BY DEF Counts
<1>2. conf.max_batch \in Nat /\ conf.n_ctx \in Nat
  BY ConfFacts
<1>3. c[s] \in 0 .. conf.max_batch /\ Length(s) \in 0 .. conf.n_ctx
  BY <1>1, LengthIs
<1> QED
  BY <1>1, <1>2, <1>3

----------------------------------------------------------------------------
(* One stream: the tokens in a row, in pieces.                              *)

GatherStep(c, x, s) == x \o Tokens(s, Length(s), c[s])

TokensGathered(c, n, x) == x \in Seq(TokenKind)

Gathering == INSTANCE FoldProofs WITH Op <- GatherStep, Good <- TokensGathered

LEMMA GatheringInvariant ==
    ASSUME NEW c, NEW b, NEW s, Len(s) \in Nat, DOMAIN s = 1 .. Len(s), TokensGathered(c, 0, b),
           ASSUME NEW n \in 0 .. Len(s) - 1, NEW v, TokensGathered(c, n, v)
           PROVE  TokensGathered(c, n + 1, GatherStep(c, v, s[n + 1]))
    PROVE  TokensGathered(c, Len(s), Gathering!FoldOf(c, b, s))
<1>1. \A n \in 0 .. Len(s) - 1 : \A v : TokensGathered(c, n, v) => TokensGathered(c, n + 1, GatherStep(c, v, s[n + 1]))
  OBVIOUS
<1> QED
  BY ONLY Len(s) \in Nat, DOMAIN s = 1 .. Len(s), TokensGathered(c, 0, b), <1>1, Gathering!FoldInvariant, Zenon

LEMMA GatheredIsFold ==
    ASSUME NEW c
    PROVE  FoldLeft(LAMBDA x, s : x \o Tokens(s, Length(s), c[s]), <<>>, EachSeq)
               = Gathering!FoldOf(c, <<>>, EachSeq)
BY Zenon DEF FoldLeft, MapThenFoldSet, Max,
       Gathering!FoldOf, Gathering!MapThenFoldSet, Gathering!Greatest, GatherStep

LEMMA GatheredIs ==
    ASSUME conf \in Confs, kv \in KVKind, NEW c \in Counts
    PROVE  FoldLeft(LAMBDA x, s : x \o Tokens(s, Length(s), c[s]), <<>>, EachSeq) \in Seq(TokenKind)
<1> PICK b : b = <<>>
  OBVIOUS
<1>1. TokensGathered(c, 0, b)
  BY DEF TokensGathered
<1>2. ASSUME NEW n \in 0 .. Len(EachSeq) - 1, NEW v, TokensGathered(c, n, v)
      PROVE  TokensGathered(c, n + 1, GatherStep(c, v, EachSeq[n + 1]))
  <2> PICK s : s = EachSeq[n + 1]
    OBVIOUS
  <2>1. s \in Seqs
    BY EachSeqIs
  <2> PICK t : t = Tokens(s, Length(s), c[s])
    OBVIOUS
  <2>2. t \in Seq(TokenKind)
    <3> PICK from, m : from = Length(s) /\ m = c[s]
      OBVIOUS
    <3>1. m \in Nat /\ from \in Nat /\ (m > 0 => from + m <= conf.n_ctx)
      BY <2>1, CountsFit
    <3>2. Tokens(s, from, m) \in Seq(TokenKind)
      BY ONLY <2>1, <3>1, conf \in Confs, TokensAre
    <3> QED
      BY <3>2
  <2>3. v \in Seq(TokenKind)
    BY <1>2, Zenon DEF TokensGathered
  <2>4. v \o t \in Seq(TokenKind)
    BY ONLY <2>2, <2>3, ConcatProperties
  <2> QED
    BY <2>4 DEF TokensGathered, GatherStep
<1>3. TokensGathered(c, Len(EachSeq), Gathering!FoldOf(c, b, EachSeq))
  BY ONLY <1>1, <1>2, EachSeqIs, conf \in Confs, GatheringInvariant
<1> QED
  BY <1>3, GatheredIsFold, Zenon DEF TokensGathered

LEMMA MinOfTwo ==
    ASSUME NEW a \in Int, NEW b \in Int
    PROVE  Min({a, b}) = IF a <= b THEN a ELSE b
<1> PICK m : m = IF a <= b THEN a ELSE b
  OBVIOUS
<1> PICK D : D = {a, b}
  OBVIOUS
<1>1. m \in Int /\ D \in SUBSET Int /\ D # {} /\ \A x \in D : m <= x
  OBVIOUS
<1>2. Min(D) \in D /\ \A y \in D : Min(D) <= y
  BY ONLY <1>1, MinOfInt
<1> QED
  BY <1>2

LEMMA MaxOfTwo ==
    ASSUME NEW a \in Int, NEW b \in Int
    PROVE  Max({a, b}) = IF a >= b THEN a ELSE b
<1> PICK m : m = IF a >= b THEN a ELSE b
  OBVIOUS
<1> PICK D : D = {a, b}
  OBVIOUS
<1>1. m \in Int /\ D \in SUBSET Int /\ D # {} /\ \A x \in D : x <= m
  OBVIOUS
<1>2. Max(D) \in D /\ \A y \in D : y <= Max(D)
  BY ONLY <1>1, MaxOfInt
<1> QED
  BY <1>2

LEMMA DivFacts ==
    ASSUME NEW a \in Nat, NEW u \in Nat \ {0}
    PROVE  a \div u \in Nat /\ (a \div u) * u <= a
<1>1. a = u * (a \div u) + (a % u) /\ a % u \in 0 .. (u - 1) /\ a \div u \in Int
  OBVIOUS
<1> PICK q, r : q = a \div u /\ r = a % u
  OBVIOUS
<1>2. a = u * q + r /\ r \in Nat /\ q \in Int /\ r < u
  BY <1>1
<1>3. q * u <= a
  BY <1>2
<1>4. ~(q < 0)
  <2> SUFFICES ASSUME q < 0 PROVE FALSE
    OBVIOUS
  <2> PICK i : i = -1 - q
    OBVIOUS
  <2>1. i \in Nat /\ q = -1 - i
    BY <1>2
  <2>2. i * u \in Nat /\ u * q = -u - i * u
    BY <2>1
  <2> QED
    BY <1>2, <2>2
<1> QED
  BY <1>2, <1>3, <1>4

(* The j-th of the pieces of u tokens that l tokens make is not empty.      *)
LEMMA PieceFacts ==
    ASSUME NEW u \in Nat \ {0}, NEW l \in Nat, NEW j \in 1 .. ((l + u - 1) \div u)
    PROVE  /\ (j - 1) * u + 1 \in Nat /\ j * u \in Nat
           /\ (j - 1) * u + 1 <= l /\ (j - 1) * u + 1 <= j * u /\ (j - 1) * u + 1 >= 1
<1> PICK n : n = (l + u - 1) \div u
  OBVIOUS
<1>1. n \in Nat /\ n * u <= l + u - 1
  <2> PICK a : a = l + u - 1
    OBVIOUS
  <2>1. a \in Nat
    OBVIOUS
  <2> QED
    BY <2>1, DivFacts
<1> PICK i : i = j - 1
  OBVIOUS
<1> PICK d : d = n - j
  OBVIOUS
<1>2. i \in Nat /\ d \in Nat /\ j = i + 1 /\ n = i + 1 + d
  BY <1>1
<1>3. i * u \in Nat /\ d * u \in Nat
  BY ONLY <1>2, u \in Nat \ {0}
<1>4. j * u = i * u + u /\ n * u = i * u + u + d * u
  BY ONLY <1>2, u \in Nat \ {0}
<1>5. (j - 1) * u = i * u
  OBVIOUS
<1> QED
  BY ONLY <1>1, <1>3, <1>4, <1>5, u \in Nat \ {0}, l \in Nat

LEMMA SplitSimpleIs ==
    ASSUME conf \in Confs, conf.unified, kv \in KVKind, NEW c \in Counts
    PROVE  SplitSimple(c) \in Seq(Ubatches)
<1> PICK toks : toks = FoldLeft(LAMBDA x, s : x \o Tokens(s, Length(s), c[s]), <<>>, EachSeq)
  OBVIOUS
<1>1. toks \in Seq(TokenKind)
  BY GatheredIs
<1> PICK u, l : u = conf.n_ubatch /\ l = Len(toks)
  OBVIOUS
<1>2. u \in Nat \ {0} /\ l \in Nat /\ \A j \in 1 .. l : toks[j] \in TokenKind
  <2>1. u \in Nat \ {0}
    BY ConfFacts
  <2>2. l \in Nat /\ \A j \in 1 .. l : toks[j] \in TokenKind
    BY ONLY <1>1, u = conf.n_ubatch /\ l = Len(toks)
  <2> QED
    BY <2>1, <2>2
<1> PICK n : n = (l + u - 1) \div u
  OBVIOUS
<1>3. n \in Nat
  <2> PICK a : a = l + u - 1
    OBVIOUS
  <2>1. a \in Nat
    BY ONLY <1>2, a = l + u - 1
  <2>2. a \div u \in Nat
    BY ONLY <1>2, <2>1, DivFacts
  <2> QED
    BY <2>2
<1> PICK q : q = SplitSimple(c)
  OBVIOUS
<1>4. q = [j \in 1 .. n |-> <<SubSeq(toks, (j - 1) * u + 1, Min({j * u, l}))>>]
  BY DEF SplitSimple
<1>5. ASSUME NEW j \in 1 .. n
      PROVE  <<SubSeq(toks, (j - 1) * u + 1, Min({j * u, l}))>> \in Ubatches
  <2> PICK a, b : a = (j - 1) * u + 1 /\ b = Min({j * u, l})
    OBVIOUS
  <2>1. a \in Nat /\ j * u \in Nat /\ a <= l /\ a <= j * u /\ a >= 1
    <3>1. j \in 1 .. ((l + u - 1) \div u)
      OBVIOUS
    <3> QED
      BY ONLY <1>2, <3>1, a = (j - 1) * u + 1, PieceFacts
  <2>2. b \in Nat /\ a <= b /\ b <= l
    <3> PICK ju : ju = j * u
      OBVIOUS
    <3>1. b = IF ju <= l THEN ju ELSE l
      BY ONLY <1>2, <2>1, ju = j * u, b = Min({j * u, l}), MinOfTwo
    <3> QED
      BY ONLY <1>2, <2>1, <3>1, ju = j * u
  <2> PICK p : p = SubSeq(toks, a, b)
    OBVIOUS
  <2>3. p \in Seq(TokenKind) /\ Len(p) = b - a + 1
    <3>1. a \in Int /\ b \in Int /\ \A i \in a .. b : toks[i] \in TokenKind
      BY ONLY <1>2, <2>1, <2>2
    <3> QED
      BY ONLY <2>2, <3>1, p = SubSeq(toks, a, b), SubSeqProperties
  <2>4. p # <<>> /\ \A i \in DOMAIN p : p[i] \in TokenKind
    BY ONLY <2>1, <2>2, <2>3
  <2>5. p \in TokenSeqs
    BY <2>3, <2>4 DEF TokenSeqs, seq_to_stream
  <2>6. 0 \in Streams
    BY ConfFacts
  <2>7. <<p>> \in Ubatches
    <3>1. <<p>> \in Seq(TokenSeqs) /\ DOMAIN <<p>> = {1}
      BY ONLY <2>5
    <3> QED
      BY ONLY <2>6, <3>1 DEF Ubatches
  <2> QED
    BY <2>7
<1>6. q \in [1 .. n -> Ubatches]
  BY ONLY <1>4, <1>5
<1> QED
  BY ONLY <1>3, <1>6, q = SplitSimple(c)

----------------------------------------------------------------------------
(* Streams of their own: equal parts of sequences that follow each other.   *)

LEMMA TogetherIs ==
    ASSUME conf \in Confs, NEW left \in [Seqs -> Nat], ~(\A s \in Seqs : left[s] = 0)
    PROVE  \E a \in Seqs, b \in Seqs :
               a <= b /\ Together(left) = a .. b /\ \A s \in a .. b : s \in Seqs /\ left[s] > 0
<1> PICK D : D = {s \in Seqs : left[s] > 0}
  OBVIOUS
<1>1. NSeq \in Nat \ {0} /\ Seqs = 0 .. (NSeq - 1) /\ conf.n_ubatch \in Nat
  BY ConfFacts
<1>2. D # {} /\ D \in SUBSET Seqs
  OBVIOUS
<1> PICK a : a = Min(D)
  OBVIOUS
<1>3. a \in D
  <2>1. 0 \in Int /\ D \in SUBSET Int /\ \A x \in D : 0 <= x
    BY ONLY <1>1, <1>2
  <2> QED
    BY ONLY <1>2, <2>1, a = Min(D), MinOfInt
<1>4. a \in Seqs /\ left[a] > 0
  BY <1>3
<1> PICK m : m = Min({a + conf.n_ubatch, NSeq - 1})
  OBVIOUS
<1>5. m \in Int /\ a <= m /\ m <= NSeq - 1
  <2> PICK x, y : x = a + conf.n_ubatch /\ y = NSeq - 1
    OBVIOUS
  <2>1. x \in Int /\ y \in Int /\ a <= x /\ a <= y
    BY <1>1, <1>4
  <2>2. m = IF x <= y THEN x ELSE y
    BY ONLY <2>1, x = a + conf.n_ubatch /\ y = NSeq - 1, m = Min({a + conf.n_ubatch, NSeq - 1}), MinOfTwo
  <2> QED
    BY <2>1, <2>2
<1> PICK E : E = {s \in a .. m : \A t \in a .. s : left[t] > 0}
  OBVIOUS
<1>6. a \in Int
  BY <1>1, <1>4
<1>7. a \in E
  <2>1. a \in a .. m /\ \A t \in a .. a : t = a
    BY ONLY <1>5, <1>6
  <2>2. \A t \in a .. a : left[t] > 0
    BY <1>4, <2>1, Zenon
  <2> QED
    BY <2>1, <2>2
<1> PICK b : b = Max(E)
  OBVIOUS
<1>8. b \in E
  <2>1. E \in SUBSET Int /\ E # {} /\ \A x \in E : x <= m
    <3>1. E \in SUBSET (a .. m)
      OBVIOUS
    <3> QED
      BY ONLY <1>5, <1>6, <1>7, <3>1
  <2> QED
    BY ONLY <1>5, <2>1, b = Max(E), MaxOfInt
<1>9. b \in a .. m /\ \A t \in a .. b : left[t] > 0
  BY <1>8
<1>10. b \in Seqs /\ a <= b /\ \A s \in a .. b : s \in Seqs
  BY ONLY <1>1, <1>4, <1>5, <1>9
<1>11. Together(left) = a .. b
  BY DEF Together
<1> QED
  BY <1>4, <1>9, <1>10, <1>11

LEMMA EqualCountIs ==
    ASSUME conf \in Confs, NEW left \in [Seqs -> Nat], NEW a \in Seqs, NEW b \in Seqs, a <= b,
           Together(left) = a .. b, \A s \in a .. b : s \in Seqs /\ left[s] > 0
    PROVE  /\ EqualCount(left) \in Nat \ {0} /\ \A s \in a .. b : EqualCount(left) <= left[s]
           /\ Cardinality(a .. b) = b - a + 1 /\ Min(a .. b) = a /\ a \in Nat /\ b \in Nat
<1>1. a \in Nat /\ b \in Nat /\ conf.n_ubatch \in Nat
  <2>1. Seqs = 0 .. (NSeq - 1) /\ NSeq \in Nat /\ conf.n_ubatch \in Nat
    BY ConfFacts
  <2> QED
    BY ONLY <2>1, a \in Seqs, b \in Seqs
<1>2. Cardinality(a .. b) = b - a + 1
  BY ONLY <1>1, a <= b, FS_Interval
<1> PICK w, z : w = b - a + 1 /\ z = conf.n_ubatch \div w
  OBVIOUS
<1>3. w \in Nat \ {0} /\ z \in Int
  <2>1. w \in Nat \ {0}
    BY ONLY <1>1, a <= b, w = b - a + 1 /\ z = conf.n_ubatch \div w
  <2> PICK v : v = conf.n_ubatch
    OBVIOUS
  <2>2. v \div w \in Nat
    BY ONLY <1>1, <2>1, v = conf.n_ubatch, DivFacts
  <2> QED
    BY ONLY <2>1, <2>2, v = conf.n_ubatch, w = b - a + 1 /\ z = conf.n_ubatch \div w
<1> PICK g : g = Max({1, z})
  OBVIOUS
<1>4. g \in Nat \ {0}
  <2>1. 1 \in Int
    OBVIOUS
  <2>2. g = IF 1 >= z THEN 1 ELSE z
    BY ONLY <1>3, <2>1, g = Max({1, z}), MaxOfTwo
  <2> QED
    BY ONLY <1>3, <2>2
<1> PICK D : D = {left[s] : s \in a .. b} \cup {g}
  OBVIOUS
<1>5. D \in SUBSET Int /\ D # {} /\ \A x \in D : 1 <= x
  <2>1. ASSUME NEW x \in D PROVE x \in Int /\ 1 <= x
    <3>1. CASE x = g
      BY ONLY <1>4, <3>1
    <3>2. CASE x # g
      <4>1. PICK s \in a .. b : x = left[s]
        BY <3>2
      <4>2. left[s] \in Nat /\ left[s] > 0
        OBVIOUS
      <4> QED
        BY ONLY <4>1, <4>2
    <3> QED
      BY <3>1, <3>2
  <2>2. g \in D
    OBVIOUS
  <2> QED
    BY ONLY <2>1, <2>2
<1> PICK n : n = Min(D)
  OBVIOUS
<1>6. n \in D /\ \A y \in D : n <= y
  <2>1. 1 \in Int
    OBVIOUS
  <2> QED
    BY ONLY <1>5, <2>1, n = Min(D), MinOfInt
<1>7. n \in Nat \ {0} /\ \A s \in a .. b : n <= left[s]
  <2>1. n \in Nat \ {0}
    BY ONLY <1>5, <1>6
  <2>2. \A s \in a .. b : left[s] \in D
    OBVIOUS
  <2> QED
    BY ONLY <1>6, <2>1, <2>2
<1>8. EqualCount(left) = n
  BY <1>2 DEF EqualCount
<1>9. Min(a .. b) = a
  <2> PICK S : S = a .. b
    OBVIOUS
  <2>1. S \in SUBSET Int /\ a \in S /\ (\A x \in S : a <= x) /\ a \in Int
    BY ONLY <1>1, a <= b, S = a .. b
  <2>2. S # {}
    BY <2>1
  <2> PICK x : x = Min(S)
    OBVIOUS
  <2>3. x \in S /\ \A y \in S : x <= y
    BY ONLY <2>1, <2>2, x = Min(S), MinOfInt
  <2>4. x = a
    <3>1. x <= a /\ a <= x /\ x \in Int
      BY ONLY <2>1, <2>3
    <3> QED
      BY ONLY <2>1, <3>1
  <2> QED
    BY ONLY <2>4, x = Min(S), S = a .. b
<1> QED
  BY <1>1, <1>2, <1>7, <1>8, <1>9

EqualStep(count, x, j) == NextEqual(x, count)

EqualTo(count, n, x) ==
    /\ x \in [left : [Seqs -> Nat], ubatches : Seq(Ubatches)]
    /\ \A s \in Seqs : x.left[s] <= count[s]

Equals == INSTANCE FoldProofs WITH Op <- EqualStep, Good <- EqualTo

LEMMA EqualsInvariant ==
    ASSUME NEW c, NEW b, NEW s, Len(s) \in Nat, DOMAIN s = 1 .. Len(s), EqualTo(c, 0, b),
           ASSUME NEW n \in 0 .. Len(s) - 1, NEW v, EqualTo(c, n, v)
           PROVE  EqualTo(c, n + 1, EqualStep(c, v, s[n + 1]))
    PROVE  EqualTo(c, Len(s), Equals!FoldOf(c, b, s))
<1>1. \A n \in 0 .. Len(s) - 1 : \A v : EqualTo(c, n, v) => EqualTo(c, n + 1, EqualStep(c, v, s[n + 1]))
  OBVIOUS
<1> QED
  BY ONLY Len(s) \in Nat, DOMAIN s = 1 .. Len(s), EqualTo(c, 0, b), <1>1, Equals!FoldInvariant, Zenon

LEMMA EqualIsFold ==
    ASSUME NEW c
    PROVE  SplitEqual(c) = Equals!FoldOf(c, [left |-> c, ubatches |-> <<>>],
                                         [j \in 1 .. NSeq * conf.max_batch |-> j]).ubatches
BY Zenon DEF SplitEqual, FoldLeft, MapThenFoldSet, Max,
       Equals!FoldOf, Equals!MapThenFoldSet, Equals!Greatest, EqualStep

LEMMA NextEqualIs ==
    ASSUME conf \in Confs, ~conf.unified, kv \in KVKind, NEW c \in Counts, NEW n, NEW x, EqualTo(c, n, x)
    PROVE  EqualTo(c, n + 1, NextEqual(x, c))
<1> PICK left, old : left = x.left /\ old = x.ubatches
  OBVIOUS
<1>1. left \in [Seqs -> Nat] /\ old \in Seq(Ubatches) /\ \A s \in Seqs : left[s] <= c[s]
  BY DEF EqualTo
<1>2. CASE \A s \in Seqs : left[s] = 0
  <2>1. NextEqual(x, c) = x
    BY <1>2 DEF NextEqual
  <2> QED
    BY <2>1 DEF EqualTo
<1>3. CASE ~(\A s \in Seqs : left[s] = 0)
  <2>1. PICK a \in Seqs, b \in Seqs :
             a <= b /\ Together(left) = a .. b /\ \A s \in a .. b : s \in Seqs /\ left[s] > 0
    BY <1>1, <1>3, TogetherIs
  <2> PICK m : m = EqualCount(left)
    OBVIOUS
  <2>2. /\ m \in Nat \ {0} /\ \A s \in a .. b : m <= left[s]
        /\ Cardinality(a .. b) = b - a + 1 /\ Min(a .. b) = a /\ a \in Nat /\ b \in Nat
    BY ONLY conf \in Confs, <1>1, <2>1, m = EqualCount(left), EqualCountIs
  <2> PICK w : w = b - a + 1
    OBVIOUS
  <2>3. w \in Nat \ {0}
    BY <2>1, <2>2
  <2> PICK rest : rest = [s \in Seqs |-> left[s] - IF s \in a .. b THEN m ELSE 0]
    OBVIOUS
  <2> PICK u : u = [j \in 1 .. w |-> Tokens(a + j - 1, Length(a + j - 1) + c[a + j - 1] - left[a + j - 1], m)]
    OBVIOUS
  <2>4. NextEqual(x, c) = [left |-> rest, ubatches |-> Append(old, u)]
    BY <1>3, <2>1, <2>2 DEF NextEqual
  <2>5. rest \in [Seqs -> Nat] /\ \A s \in Seqs : rest[s] <= c[s]
    <3>1. ASSUME NEW s \in Seqs
          PROVE  rest[s] \in Nat /\ rest[s] <= c[s]
      <4>1. rest[s] = left[s] - IF s \in a .. b THEN m ELSE 0
        OBVIOUS
      <4>2. left[s] \in Nat /\ left[s] <= c[s] /\ (s \in a .. b => m <= left[s]) /\ c[s] \in Nat
        BY <1>1, <2>2, CountsFit
      <4> QED
        BY ONLY <2>2, <4>1, <4>2
    <3> QED
      BY <3>1
  <2>6. ASSUME NEW j \in 1 .. w
        PROVE  u[j] \in TokenSeqs /\ j - 1 \in Streams
    <3> PICK s : s = a + j - 1
      OBVIOUS
    <3>1. s \in a .. b
      BY ONLY <2>2, j \in 1 .. w, w = b - a + 1, s = a + j - 1
    <3>2. s \in Seqs /\ left[s] \in Nat /\ m <= left[s] /\ left[s] <= c[s]
      BY <1>1, <2>1, <2>2, <3>1
    <3>3. c[s] \in Nat /\ Length(s) \in Nat /\ (c[s] > 0 => Length(s) + c[s] <= conf.n_ctx)
      BY <3>2, CountsFit
    <3> PICK cs, ls, fs, from : cs = c[s] /\ ls = left[s] /\ fs = Length(s) /\ from = fs + cs - ls
      OBVIOUS
    <3> PICK l : l = conf.n_ctx
      OBVIOUS
    <3>l. l \in Nat
      BY ConfFacts
    <3>4. from \in Nat /\ from + m <= l
      <4>1. cs \in Nat /\ ls \in Nat /\ fs \in Nat /\ m \in Nat \ {0} /\ m <= ls /\ ls <= cs
        BY ONLY <2>2, <3>2, <3>3, cs = c[s] /\ ls = left[s] /\ fs = Length(s) /\ from = fs + cs - ls
      <4>2. cs > 0
        BY ONLY <4>1
      <4>3. fs + cs <= l
        BY ONLY <3>3, <4>2, l = conf.n_ctx, cs = c[s] /\ ls = left[s] /\ fs = Length(s) /\ from = fs + cs - ls
      <4>4. from = fs + cs - ls
        OBVIOUS
      <4> QED
        BY ONLY <3>l, <4>1, <4>3, <4>4
    <3> PICK p : p = Tokens(s, from, m)
      OBVIOUS
    <3>5. p \in Seq(TokenKind) /\ Len(p) = m /\ \A i \in 1 .. m : p[i].seq = s
      <4>1. m \in Nat /\ (m > 0 => from + m <= conf.n_ctx)
        BY <2>2, <3>4
      <4> QED
        BY ONLY conf \in Confs, <3>2, <3>4, <4>1, p = Tokens(s, from, m), TokensAre
    <3>6. p # <<>> /\ DOMAIN p = 1 .. m /\ 1 \in 1 .. m
      BY ONLY <2>2, <3>5
    <3>7. p \in TokenSeqs
      <4>1. \A i \in DOMAIN p : seq_to_stream(p[i].seq) = seq_to_stream(p[1].seq)
        <5>1. p[1].seq = s /\ \A i \in DOMAIN p : p[i].seq = s
          BY ONLY <3>5, <3>6
        <5> QED
          BY ONLY <5>1, Zenon
      <4> QED
        BY ONLY <3>5, <3>6, <4>1 DEF TokenSeqs
    <3>8. j - 1 \in Streams
      <4>1. Streams = 0 .. (NSeq - 1) /\ NSeq \in Nat
        BY ConfFacts DEF Streams
      <4>2. b \in 0 .. (NSeq - 1)
        BY ConfFacts
      <4> QED
        BY ONLY <2>2, <4>1, <4>2, j \in 1 .. w, w = b - a + 1
    <3> QED
      BY <3>7, <3>8
  <2>7. u \in Ubatches
    <3>1. u \in [1 .. w -> TokenSeqs]
      <4>1. u = [j \in 1 .. w |-> u[j]]
        OBVIOUS
      <4> QED
        BY ONLY <2>6, <4>1
    <3>2. u \in Seq(TokenSeqs) /\ DOMAIN u = 1 .. w
      BY ONLY <2>3, <3>1
    <3> QED
      BY ONLY <2>6, <3>2 DEF Ubatches
  <2>8. Append(old, u) \in Seq(Ubatches)
    BY <1>1, <2>7
  <2> PICK y, more : y = NextEqual(x, c) /\ more = Append(old, u)
    OBVIOUS
  <2>9. y = [left |-> rest, ubatches |-> more] /\ more \in Seq(Ubatches)
    BY <2>4, <2>8
  <2>10. y \in [left : [Seqs -> Nat], ubatches : Seq(Ubatches)] /\ y.left = rest
    BY ONLY <2>5, <2>9
  <2> QED
    BY <2>5, <2>10 DEF EqualTo
<1> QED
  BY <1>2, <1>3

LEMMA SplitEqualIs ==
    ASSUME conf \in Confs, ~conf.unified, kv \in KVKind, NEW c \in Counts
    PROVE  SplitEqual(c) \in Seq(Ubatches)
<1> PICK b, N : b = [left |-> c, ubatches |-> <<>>] /\ N = NSeq * conf.max_batch
  OBVIOUS
<1> PICK q : q = [j \in 1 .. N |-> j]
  OBVIOUS
<1>1. N \in Nat
  <2>1. NSeq \in Nat /\ conf.max_batch \in Nat
    BY ConfFacts
  <2> QED
    BY ONLY <2>1, b = [left |-> c, ubatches |-> <<>>] /\ N = NSeq * conf.max_batch
<1>2. Len(q) \in Nat /\ DOMAIN q = 1 .. Len(q)
  BY ONLY <1>1, q = [j \in 1 .. N |-> j]
<1>3. EqualTo(c, 0, b)
  <2>1. c = [s \in Seqs |-> c[s]] /\ \A s \in Seqs : c[s] \in Nat
    BY CountsFit DEF Counts
  <2>2. c \in [Seqs -> Nat] /\ \A s \in Seqs : c[s] <= c[s]
    BY ONLY <2>1
  <2>3. b \in [left : [Seqs -> Nat], ubatches : Seq(Ubatches)] /\ b.left = c
    BY <2>2
  <2> QED
    BY <2>2, <2>3 DEF EqualTo
<1>4. ASSUME NEW n \in 0 .. Len(q) - 1, NEW v, EqualTo(c, n, v)
      PROVE  EqualTo(c, n + 1, EqualStep(c, v, q[n + 1]))
  <2>1. EqualTo(c, n + 1, NextEqual(v, c))
    BY <1>4, NextEqualIs
  <2> QED
    BY <2>1, Zenon DEF EqualStep
<1>5. EqualTo(c, Len(q), Equals!FoldOf(c, b, q))
  BY ONLY <1>2, <1>3, <1>4, EqualsInvariant
<1> PICK y : y = Equals!FoldOf(c, b, q)
  OBVIOUS
<1>6. y.ubatches \in Seq(Ubatches)
  BY <1>5 DEF EqualTo
<1>7. SplitEqual(c) = y.ubatches
  BY EqualIsFold
<1> QED
  BY <1>6, <1>7

(* A batch is cut into ubatches whose tokens fit the contexts.              *)
LEMMA SplitIs ==
    ASSUME conf \in Confs, kv \in KVKind, NEW c \in Counts
    PROVE  Split(c) \in Seq(Ubatches)
BY SplitSimpleIs, SplitEqualIs DEF Split

----------------------------------------------------------------------------
(* The invariant.                                                           *)

Roles == [Seqs -> {"idle", "single", "parent", "child", "waiting"}]

(* The cells of each stream have exact indexes, the keys will be where the  *)
(* cells are once the pending copies and shifts are made, the ubatches that *)
(* wait have cells for all of their tokens, and no copy waits with them.    *)
Kinds == kv \in KVKind /\ data \in DataKind /\ todo \in Seq(SInfos) /\ role \in Roles

Keyed == KeysAt(kv.cells, StreamsCopied(data, kv.sc)) /\ (todo # <<>> => kv.sc = <<>>)

KVInv == conf \in Confs /\ Kinds /\ Keyed

LEMMA KindsStay ==
    ASSUME conf' = conf
    PROVE  /\ KVKind' = KVKind /\ DataKind' = DataKind /\ SInfos' = SInfos
           /\ Streams' = Streams /\ Cells' = Cells
<1>1. Cells' = Cells
  BY DEF Cells
<1>2. Streams' = Streams
  BY DEF Streams
<1>3. RawCells' = RawCells
  BY <1>1, Zenon DEF RawCells
<1>4. ASSUME NEW c
      PROVE  c \in GoodCells' <=> c \in GoodCells
  <2>1. ASSUME NEW s PROVE Index(c, s)' = Index(c, s)
    BY <1>1, Zenon DEF Index
  <2>2. Exact(c)' <=> Exact(c)
    BY <1>1, <2>1, Zenon DEF Exact
  <2>3. c \in GoodCells' <=> c \in RawCells' /\ Exact(c)' /\ \A i \in Cells' : c.pos[i] \in -1 .. (conf'.n_ctx - 1)
    BY DEF GoodCells
  <2>4. c \in GoodCells <=> c \in RawCells /\ Exact(c) /\ \A i \in Cells : c.pos[i] \in -1 .. (conf.n_ctx - 1)
    BY DEF GoodCells
  <2> QED
    BY <1>1, <1>3, <2>2, <2>3, <2>4
<1>5. GoodCells' = GoodCells
  BY <1>4
<1>6. KVKind' = KVKind
  BY <1>2, <1>5, Zenon DEF KVKind
<1>7. DataKind' = DataKind
  BY <1>1, <1>2, Zenon DEF DataKind
<1>8. TokenKind' = TokenKind
  BY DEF TokenKind
<1>9. \A s : seq_to_stream(s)' = seq_to_stream(s)
  BY Zenon DEF seq_to_stream
<1>10. ASSUME NEW p
       PROVE  p \in Parts' <=> p \in Parts
  BY <1>1, <1>2, <1>8, <1>9 DEF Parts
<1>11. Parts' = Parts
  BY <1>10
<1>12. SInfos' = SInfos
  BY <1>2, <1>11, Zenon DEF SInfos
<1> QED
  BY <1>1, <1>2, <1>6, <1>7, <1>12

(* What is to show of a step.                                               *)
LEMMA StepKeeps ==
    ASSUME conf \in Confs, conf' = conf, kv' \in KVKind, data' \in DataKind, todo' \in Seq(SInfos), role' \in Roles,
           KeysAt(kv'.cells, StreamsCopied(data', kv'.sc)), todo' # <<>> => kv'.sc = <<>>
    PROVE  KVInv'
<1>1. /\ KVKind' = KVKind /\ DataKind' = DataKind /\ SInfos' = SInfos
      /\ Streams' = Streams /\ Cells' = Cells
  BY KindsStay
<1>2. Kinds'
  BY <1>1 DEF Kinds, Roles
<1>3. Keyed'
  BY <1>1, Zenon DEF Keyed, KeysAt
<1> QED
  BY <1>2, <1>3 DEF KVInv

(* A slot's step changes the cells alone, to hold some of what they held.   *)
LEMMA SlotKeeps ==
    ASSUME KVInv, Between, role' \in Roles, kv' \in KVKind, kv'.sc = kv.sc, KeepsAll(kv, kv')
    PROVE  KVInv'
<1>1. conf' = conf /\ data' = data /\ todo' = todo /\ todo = <<>>
  BY DEF Between
<1>2. conf \in Confs /\ kv \in KVKind /\ data \in DataKind /\ todo \in Seq(SInfos)
  BY DEF KVInv, Kinds
<1> PICK d : d = StreamsCopied(data, kv.sc)
  OBVIOUS
<1>3. d \in DataKind /\ KeysAt(kv.cells, d)
  BY <1>2, KVFields, CopiesAreData DEF KVInv, Keyed
<1>4. KeysAt(kv'.cells, d)
  BY <1>2, <1>3, KeepsKeys
<1>5. KeysAt(kv'.cells, StreamsCopied(data', kv'.sc))
  BY <1>1, <1>4
<1> QED
  BY <1>1, <1>2, <1>5, StepKeeps

LEMMA InitKeyed == Init => KVInv
<1> SUFFICES ASSUME Init PROVE KVInv
  OBVIOUS
<1>1. conf \in Confs /\ todo = <<>> /\ role = [s \in Seqs |-> "idle"]
  BY DEF Init
<1>2. kv = [cells |-> [st \in Streams |-> EmptyCells], heads |-> [st \in Streams |-> 0], sc |-> <<>>]
  BY DEF Init
<1> PICK e : e = EmptyCells
  OBVIOUS
<1>3. e \in GoodCells /\ \A i \in Cells : e.pos[i] = -1
  BY <1>1, EmptyIsGood DEF EmptyCells
<1>4. 0 \in 0 .. conf.size
  BY <1>1, ConfFacts
<1>5. kv \in KVKind /\ \A st \in Streams : kv.cells[st] = e
  BY <1>2, <1>3, <1>4 DEF KVKind
<1>6. data \in DataKind
  <2>1. NoData \in [key : -1 .. (conf.n_ctx - 1), tok : Seqs \cup {-1}]
    BY <1>1, RangeFacts DEF NoData
  <2>2. data = [st \in Streams |-> [i \in Cells |-> NoData]]
    BY DEF Init
  <2> QED
    BY ONLY <2>1, <2>2 DEF DataKind
<1>7. Keyed
  BY <1>1, <1>3, <1>5 DEF Keyed, KeysAt
<1>8. todo \in Seq(SInfos) /\ role \in Roles
  BY <1>1 DEF Roles
<1> QED
  BY <1>1, <1>5, <1>6, <1>7, <1>8 DEF KVInv, Kinds

LEMMA DecodeKeeps ==
    ASSUME KVInv, NEW count \in [Seqs -> 0 .. conf.max_batch], Decode(count)
    PROVE  KVInv'
<1>1. conf \in Confs /\ kv \in KVKind /\ data \in DataKind /\ role \in Roles
  BY DEF KVInv, Kinds
<1>2. conf' = conf /\ role' = role /\ data' = UpdatedData(kv, data) /\ todo = <<>>
  BY DEF Decode
<1> PICK u : u = Updated(kv)
  OBVIOUS
<1>3. u \in KVKind /\ u.sc = <<>> /\ AllUnshifted(u) /\ data' \in DataKind /\ KeysAt(u.cells, data')
  BY <1>1, <1>2, UpdatedIs DEF KVInv, Keyed
<1>4. count \in Counts
  BY DEF Decode, Counts
<1> PICK ubatches : ubatches = Split(count)
  OBVIOUS
<1>5. ubatches \in Seq(Ubatches)
  BY <1>1, <1>4, SplitIs
<1> PICK p : p = Prepared(u, ubatches)
  OBVIOUS
<1>6. p.kv \in KVKind /\ p.kv.sc = u.sc /\ KeepsAll(u, p.kv) /\ p.sinfos \in Seq(SInfos)
  BY ONLY <1>1, <1>3, <1>5, p = Prepared(u, ubatches), PreparedIs
<1>7. KeysAt(p.kv.cells, data')
  <2> PICK d, y : d = data' /\ y = p.kv
    OBVIOUS
  <2>1. d \in DataKind /\ KeysAt(u.cells, d) /\ y \in KVKind /\ KeepsAll(u, y)
    BY <1>3, <1>6
  <2>2. KeysAt(y.cells, d)
    BY ONLY <1>1, <1>3, <2>1, KeepsKeys
  <2> QED
    BY <2>2
<1>8. \/ kv' = p.kv /\ todo' = IF p.ok THEN p.sinfos ELSE <<>>
      \/ kv' = u /\ todo' = todo
  BY Zenon DEF Decode
<1>9. kv' \in KVKind /\ kv'.sc = <<>> /\ KeysAt(kv'.cells, data') /\ todo' \in Seq(SInfos)
  <2>1. todo' = p.sinfos \/ todo' = <<>>
    BY <1>2, <1>8, Zenon
  <2>2. <<>> \in Seq(SInfos)
    OBVIOUS
  <2>3. kv' = p.kv \/ kv' = u
    BY <1>8, Zenon
  <2>4. todo' \in Seq(SInfos)
    BY <1>6, <2>1, <2>2, Zenon
  <2>5. kv' \in KVKind /\ kv'.sc = <<>> /\ KeysAt(kv'.cells, data')
    BY <1>3, <1>6, <1>7, <2>3, Zenon
  <2> QED
    BY <2>4, <2>5
<1>10. KeysAt(kv'.cells, StreamsCopied(data', kv'.sc))
  BY <1>9, CopiesOfNone
<1> QED
  BY <1>1, <1>2, <1>3, <1>9, <1>10, StepKeeps

(* The next ubatch, and the cells and data when nothing waits for them.     *)
LEMMA NextUbatch ==
    ASSUME KVInv, todo # <<>>
    PROVE  /\ conf \in Confs /\ kv \in KVKind /\ data \in DataKind /\ role \in Roles
           /\ Head(todo) \in Seq(Parts) /\ Tail(todo) \in Seq(SInfos)
           /\ kv.sc = <<>> /\ KeysAt(kv.cells, data)
<1>1. conf \in Confs /\ kv \in KVKind /\ data \in DataKind /\ role \in Roles /\ todo \in Seq(SInfos)
  BY DEF KVInv, Kinds
<1>2. kv.sc = <<>> /\ KeysAt(kv.cells, StreamsCopied(data, kv.sc))
  BY DEF KVInv, Keyed
<1>3. Head(todo) \in SInfos /\ Tail(todo) \in Seq(SInfos)
  BY ONLY <1>1, todo # <<>>
<1>4. Head(todo) \in Seq(Parts)
  BY <1>3 DEF SInfos
<1> QED
  BY <1>1, <1>2, <1>3, <1>4, CopiesOfNone

LEMMA ComputeKeeps ==
    ASSUME KVInv, Compute
    PROVE  KVInv'
<1>1. todo # <<>> /\ conf' = conf /\ role' = role
  BY DEF Compute
<1>2. kv' = apply_ubatch(kv, Head(todo)) /\ data' = Written(data, Head(todo)) /\ todo' = Tail(todo)
  BY DEF Compute
<1>3. /\ kv' \in KVKind /\ kv'.sc = kv.sc /\ data' \in DataKind /\ KeysAt(kv'.cells, data')
  BY <1>1, <1>2, NextUbatch, ComputedIs
<1>4. KeysAt(kv'.cells, StreamsCopied(data', kv'.sc)) /\ kv'.sc = <<>>
  BY <1>1, <1>3, NextUbatch, CopiesOfNone
<1> QED
  BY <1>1, <1>2, <1>3, <1>4, NextUbatch, StepKeeps

LEMMA ComputeFailsKeeps ==
    ASSUME KVInv, ComputeFails
    PROVE  KVInv'
<1>1. todo # <<>> /\ conf' = conf /\ role' = role /\ todo' = <<>>
  BY DEF ComputeFails
<1> PICK q : q = Head(todo)
  OBVIOUS
<1> PICK y : y = apply_ubatch(kv, q)
  OBVIOUS
<1>2. kv' = TakenBack(y, q) /\ data' = Written(data, q)
  BY DEF ComputeFails
<1>3. y \in KVKind /\ y.sc = kv.sc /\ data' \in DataKind /\ KeysAt(y.cells, data')
  BY <1>1, <1>2, NextUbatch, ComputedIs
<1>4. kv' \in KVKind /\ kv'.sc = y.sc /\ KeepsAll(y, kv')
  BY <1>1, <1>2, <1>3, NextUbatch, TakenBackIs DEF Reduced
<1>5. KeysAt(kv'.cells, data')
  <2> PICK d, z : d = data' /\ z = kv'
    OBVIOUS
  <2>1. conf \in Confs /\ d \in DataKind /\ KeysAt(y.cells, d) /\ z \in KVKind /\ KeepsAll(y, z)
    BY <1>1, <1>3, <1>4, NextUbatch
  <2>2. KeysAt(z.cells, d)
    BY ONLY <1>3, <2>1, KeepsKeys
  <2> QED
    BY <2>2
<1>6. KeysAt(kv'.cells, StreamsCopied(data', kv'.sc)) /\ kv'.sc = <<>>
  BY <1>1, <1>3, <1>4, <1>5, NextUbatch, CopiesOfNone
<1>7. todo' \in Seq(SInfos)
  BY <1>1
<1> QED
  BY <1>1, <1>3, <1>4, <1>6, <1>7, NextUbatch, StepKeeps

LEMMA StartKeeps ==
    ASSUME KVInv, NEW s \in Seqs, NEW n \in 0 .. Length(s), NEW head_c \in 0 .. Length(s), NEW m \in 0 .. Length(s),
           NEW has_new_tokens, NEW as \in Roles, Start(s, n, head_c, m, has_new_tokens, as)
    PROVE  KVInv'
<1>1. conf \in Confs /\ kv \in KVKind
  BY DEF KVInv, Kinds
<1>2. Between /\ role' = as /\ (m > 0 => n < head_c)
  BY DEF Start
<1> PICK k : k = IF m > 0 THEN ChunkReused(kv, s, n, head_c, m) ELSE kv
  OBVIOUS
<1>3. kv' = SeqRm(k, s, Kept(k, s, n + m, has_new_tokens), -1)
  BY DEF Start
<1>4. k \in KVKind /\ k.sc = kv.sc /\ KeepsAll(kv, k)
  <2>1. CASE ~(m > 0)
    BY <1>1, <2>1, KeepsItself
  <2>2. CASE m > 0
    <3> PICK l, d : l = SeqRm(kv, s, n, head_c) /\ d = n - head_c
      OBVIOUS
    <3>1. l \in KVKind /\ l.sc = kv.sc /\ KeepsAll(kv, l)
      BY <1>1, SeqRmIs
    <3>2. d \in Int /\ d < 0
      <4>1. Length(s) \in 0 .. conf.n_ctx
        BY <1>1, LengthIs
      <4> QED
        BY <1>2, <2>2, <4>1
    <3>3. k = SeqAdd(l, s, head_c, head_c + m, d)
      BY <2>2 DEF ChunkReused
    <3>4. k \in KVKind /\ k.sc = l.sc /\ KeepsAll(l, k)
      BY ONLY <1>1, <3>1, <3>2, <3>3, s \in Seqs, SeqAddIs
    <3> QED
      BY <3>1, <3>4, KeepsTransitive
  <2> QED
    BY <2>1, <2>2
<1>5. kv' \in KVKind /\ kv'.sc = k.sc /\ KeepsAll(k, kv')
  BY <1>1, <1>3, <1>4, SeqRmIs
<1>6. KeepsAll(kv, kv')
  <2> PICK x : x = kv'
    OBVIOUS
  <2>1. KeepsAll(k, x)
    BY <1>5
  <2>2. KeepsAll(kv, x)
    BY ONLY <1>4, <2>1, KeepsTransitive
  <2> QED
    BY <2>2
<1> QED
  BY <1>2, <1>4, <1>5, <1>6, SlotKeeps

LEMMA StartAnyKeeps ==
    ASSUME KVInv, NEW s \in Seqs, StartAny(s)
    PROVE  KVInv'
<1>1. role \in Roles
  BY DEF KVInv, Kinds
<1>2. PICK n \in 0 .. Length(s), has_new_tokens \in BOOLEAN, head_c \in 0 .. Length(s), m \in 0 .. Length(s) :
          \/ Start(s, n, head_c, m, has_new_tokens, Alone(s))
          \/ \E c \in Seqs \ {s} : Start(s, n, head_c, m, has_new_tokens, Family(s, c))
  BY Zenon DEF StartAny
<1>3. CASE Start(s, n, head_c, m, has_new_tokens, Alone(s))
  <2>1. Alone(s) \in Roles
    BY <1>1 DEF Roles, Alone
  <2> QED
    BY <1>3, <2>1, StartKeeps
<1>4. CASE \E c \in Seqs \ {s} : Start(s, n, head_c, m, has_new_tokens, Family(s, c))
  <2>1. PICK c \in Seqs \ {s} : Start(s, n, head_c, m, has_new_tokens, Family(s, c))
    BY <1>4
  <2>2. Family(s, c) \in Roles
    BY <1>1 DEF Roles, Family
  <2> QED
    BY <2>1, <2>2, StartKeeps
<1> QED
  BY <1>2, <1>3, <1>4

LEMMA CopyStateKeeps ==
    ASSUME KVInv, NEW p \in Seqs, NEW c \in Seqs, CopyState(p, c)
    PROVE  KVInv'
<1>1. conf \in Confs /\ kv \in KVKind /\ data \in DataKind /\ role \in Roles /\ todo \in Seq(SInfos)
  BY DEF KVInv, Kinds
<1>2. /\ conf' = conf /\ data' = data /\ todo' = todo /\ todo = <<>>
      /\ kv' = SeqCp(SeqRm(kv, c, -1, -1), p, c) /\ role' = [role EXCEPT ![c] = "child"]
  BY DEF CopyState, Between
<1> PICK k : k = SeqRm(kv, c, -1, -1)
  OBVIOUS
<1>3. k \in KVKind /\ k.sc = kv.sc /\ KeepsAll(kv, k)
  BY <1>1, SeqRmIs
<1> PICK d, x : d = StreamsCopied(data, kv.sc) /\ x = data
  OBVIOUS
<1>4. d \in DataKind /\ KeysAt(kv.cells, d)
  BY <1>1, KVFields, CopiesAreData DEF KVInv, Keyed
<1>5. KeysAt(k.cells, d)
  BY ONLY <1>1, <1>3, <1>4, KeepsKeys
<1>6. x \in DataKind /\ KeysAt(k.cells, StreamsCopied(x, k.sc))
  BY <1>1, <1>3, <1>5
<1> PICK y : y = SeqCp(k, p, c)
  OBVIOUS
<1>7. y \in KVKind /\ KeysAt(y.cells, StreamsCopied(x, y.sc))
  BY ONLY <1>1, <1>3, <1>6, y = SeqCp(k, p, c), p \in Seqs, c \in Seqs, SeqCpIs
<1>8. role' \in Roles
  BY <1>1, <1>2 DEF Roles
<1>9. kv' \in KVKind /\ KeysAt(kv'.cells, StreamsCopied(data', kv'.sc))
  BY <1>2, <1>7
<1> QED
  BY <1>1, <1>2, <1>8, <1>9, StepKeeps

LEMMA ContextShiftKeeps ==
    ASSUME KVInv, NEW s \in Seqs, NEW n_keep, NEW n_discard \in 1 .. conf.n_ctx, ContextShift(s, n_keep, n_discard)
    PROVE  KVInv'
<1>1. conf \in Confs /\ kv \in KVKind /\ role \in Roles
  BY DEF KVInv, Kinds
<1>2. Between /\ role' = role
  BY DEF ContextShift
<1> PICK l, d : l = SeqRm(kv, s, n_keep, n_keep + n_discard) /\ d = -n_discard
  OBVIOUS
<1>3. l \in KVKind /\ l.sc = kv.sc /\ KeepsAll(kv, l)
  BY <1>1, SeqRmIs
<1>4. d \in Int /\ d < 0
  OBVIOUS
<1> PICK y : y = SeqAdd(l, s, n_keep + n_discard, Length(s), d)
  OBVIOUS
<1>5. y \in KVKind /\ y.sc = l.sc /\ KeepsAll(l, y)
  BY ONLY <1>1, <1>3, <1>4, s \in Seqs, y = SeqAdd(l, s, n_keep + n_discard, Length(s), d), SeqAddIs
<1>6. kv' = y
  BY DEF ContextShift
<1>7. KeepsAll(kv, y)
  BY <1>3, <1>5, KeepsTransitive
<1> QED
  BY <1>1, <1>2, <1>3, <1>5, <1>6, <1>7, SlotKeeps

(* Reject, Release and PromptClear remove from a sequence, or nothing.      *)
LEMMA RemovalKeeps ==
    ASSUME KVInv, NEW s \in Seqs, Between, role' \in Roles,
           kv' = kv \/ \E p0, p1 : kv' = SeqRm(kv, s, p0, p1)
    PROVE  KVInv'
<1>1. conf \in Confs /\ kv \in KVKind
  BY DEF KVInv, Kinds
<1>2. CASE kv' = kv
  BY <1>1, <1>2, KeepsItself, SlotKeeps
<1>3. CASE \E p0, p1 : kv' = SeqRm(kv, s, p0, p1)
  <2>1. PICK p0, p1 : kv' = SeqRm(kv, s, p0, p1)
    BY <1>3
  <2>2. kv' \in KVKind /\ kv'.sc = kv.sc /\ KeepsAll(kv, kv')
    BY <1>1, <2>1, SeqRmIs
  <2> QED
    BY <2>2, SlotKeeps
<1> QED
  BY <1>2, <1>3

LEMMA SlotStepKeeps ==
    ASSUME KVInv, NEW s \in Seqs, SlotStep(s)
    PROVE  KVInv'
<1>1. role \in Roles
  BY DEF KVInv, Kinds
<1>2. CASE StartAny(s)
  BY <1>2, StartAnyKeeps
<1>3. CASE \E c \in Seqs : CopyState(c, s)
  BY <1>3, CopyStateKeeps
<1>4. CASE \E n_keep \in 0 .. Length(s), n_discard \in 1 .. conf.n_ctx : ContextShift(s, n_keep, n_discard)
  BY <1>4, ContextShiftKeeps
<1>5. CASE Reject(s)
  <2>1. Between /\ role' = role /\ \E p0, p1 : kv' = SeqRm(kv, s, p0, p1)
    BY <1>5, Zenon DEF Reject
  <2> QED
    BY <1>1, <2>1, RemovalKeeps
<1>6. CASE Release(s)
  <2>1. Between /\ role' = [role EXCEPT ![s] = "idle"] /\ (kv' = kv \/ \E p0, p1 : kv' = SeqRm(kv, s, p0, p1))
    BY <1>6, Zenon DEF Release
  <2>2. role' \in Roles
    BY <1>1, <2>1 DEF Roles
  <2> QED
    BY <2>1, <2>2, RemovalKeeps
<1>7. CASE PromptClear(s)
  <2>1. Between /\ role' = role /\ \E p0, p1 : kv' = SeqRm(kv, s, p0, p1)
    BY <1>7, Zenon DEF PromptClear
  <2> QED
    BY <1>1, <2>1, RemovalKeeps
<1> QED
  BY <1>2, <1>3, <1>4, <1>5, <1>6, <1>7, Zenon DEF SlotStep

LEMMA ClearKeeps ==
    ASSUME KVInv, Clear
    PROVE  KVInv'
<1>1. conf \in Confs /\ kv \in KVKind /\ role \in Roles /\ todo \in Seq(SInfos)
  BY DEF KVInv, Kinds
<1>2. /\ conf' = conf /\ role' = role /\ todo' = todo /\ todo = <<>> /\ kv' = Cleared(kv)
      /\ data' = [st \in Streams |-> [i \in Cells |-> NoData]]
  BY DEF Clear
<1>3. data' \in DataKind
  <2>1. NoData \in [key : -1 .. (conf.n_ctx - 1), tok : Seqs \cup {-1}]
    BY <1>1, RangeFacts DEF NoData
  <2> QED
    BY ONLY <1>2, <2>1 DEF DataKind
<1> PICK d : d = StreamsCopied(data', kv'.sc)
  OBVIOUS
<1>4. kv' \in KVKind /\ KeysAt(kv'.cells, d)
  BY <1>1, <1>2, ClearedIs
<1> QED
  BY <1>1, <1>2, <1>3, <1>4, StepKeeps

LEMMA NextKeyed == KVInv /\ [Next]_vars => KVInv'
<1> SUFFICES ASSUME KVInv, [Next]_vars PROVE KVInv'
  OBVIOUS
<1>1. CASE \E count \in [Seqs -> 0 .. conf.max_batch] : Decode(count)
  BY <1>1, DecodeKeeps
<1>2. CASE Compute
  BY <1>2, ComputeKeeps
<1>3. CASE ComputeFails
  BY <1>3, ComputeFailsKeeps
<1>4. CASE \E s \in Seqs : SlotStep(s)
  BY <1>4, SlotStepKeeps
<1>5. CASE Clear
  BY <1>5, ClearKeeps
<1>6. CASE UNCHANGED vars
  <2>1. conf' = conf /\ kv' = kv /\ data' = data /\ todo' = todo /\ role' = role
    BY <1>6 DEF vars
  <2>2. /\ conf \in Confs /\ kv \in KVKind /\ data \in DataKind /\ todo \in Seq(SInfos) /\ role \in Roles
        /\ KeysAt(kv.cells, StreamsCopied(data, kv.sc)) /\ (todo # <<>> => kv.sc = <<>>)
    BY DEF KVInv, Kinds, Keyed
  <2> QED
    BY <2>1, <2>2, StepKeeps
<1> QED
  BY <1>1, <1>2, <1>3, <1>4, <1>5, <1>6, Zenon DEF Next

----------------------------------------------------------------------------
(* What the invariant says of the cells.                                    *)

LEMMA KeyedMeans ==
    ASSUME KVInv
    PROVE  TypeOK /\ IndexExact /\ KeyAtPosition
<1>1. /\ conf \in Confs /\ kv \in KVKind /\ data \in DataKind /\ role \in Roles
      /\ KeysAt(kv.cells, Settled)
  BY DEF KVInv, Kinds, Keyed, Settled
<1>2. KeyAtPosition
  BY <1>1, Zenon DEF KeysAt, KeyAtPosition, IsEmpty
<1>3. Settled \in DataKind
  BY <1>1, KVFields, CopiesAreData DEF Settled
<1>4. ASSUME NEW st \in Streams
      PROVE  kv.cells[st] \in CellsType /\ kv.heads[st] \in 0 .. conf.size
  <2> PICK c : c = kv.cells[st]
    OBVIOUS
  <2>1. c \in GoodCells /\ kv.heads[st] \in 0 .. conf.size
    BY <1>1, KVFields
  <2>2. c \in RawCells /\ Pointed(c) /\ Marked(c)
    BY <2>1, GoodFields
  <2> PICK n : n = conf.n_ctx
    OBVIOUS
  <2>3. n \in Nat \ {0}
    BY <1>1, ConfFacts
  <2>4. \A i \in Cells : c.pos[i] \in -1 .. (n - 1)
    BY <2>2 DEF Marked
  <2>5. ASSUME NEW i \in Cells
        PROVE  c.shift[i] \in -n .. n
    <3>1. c.shift[i] \in Int /\ c.pos[i] \in -1 .. (n - 1)
      BY <2>1, <2>4, GoodFields
    <3>2. CASE c.pos[i] = -1
      <4>1. c.shift[i] = 0
        BY <2>2, <3>2 DEF Marked
      <4> QED
        BY ONLY <2>3, <4>1
    <3>3. CASE c.pos[i] # -1
      <4> PICK key : key = Settled[st][i].key
        OBVIOUS
      <4>1. key \in -1 .. (n - 1)
        BY <1>1, <1>3, DataFields
      <4>2. key + c.shift[i] = c.pos[i]
        BY <1>1, <3>3 DEF KeysAt
      <4> QED
        BY ONLY <2>3, <3>1, <3>3, <4>1, <4>2
    <3> QED
      BY <3>2, <3>3
  <2>6. ASSUME NEW s \in Seqs, NEW x \in c.seq_pos[s]
        PROVE  x \in (0 .. (n - 1)) \X Cells
    <3>1. x \in Int \X Cells
      BY <2>2, RawFields
    <3>2. PICK p \in Int, i \in Cells : x = <<p, i>>
      BY <3>1
    <3>3. s \in c.seq[i] /\ p = c.pos[i]
      BY <2>2, <3>2 DEF Pointed
    <3>4. p # -1 /\ p \in -1 .. (n - 1)
      BY <2>2, <2>4, <3>3 DEF Marked
    <3>5. p \in 0 .. (n - 1)
      BY ONLY <2>3, <3>4
    <3> QED
      BY ONLY <3>2, <3>5
  <2>7. c.seq_pos \in [Seqs -> SUBSET ((0 .. (n - 1)) \X Cells)]
    <3>1. c.seq_pos \in [Seqs -> SUBSET (Int \X Cells)]
      BY <2>2, RawFields
    <3> PICK f, T : f = c.seq_pos /\ T = (0 .. (n - 1)) \X Cells
      OBVIOUS
    <3>2. f = [s \in Seqs |-> f[s]]
      BY <3>1
    <3>3. \A s \in Seqs : f[s] \in SUBSET T
      BY <2>6
    <3> QED
      BY ONLY <3>2, <3>3, f = c.seq_pos /\ T = (0 .. (n - 1)) \X Cells
  <2>8. c.pos \in [Cells -> -1 .. (n - 1)] /\ c.shift \in [Cells -> -n .. n]
    <3>1. c.pos \in [Cells -> Int] /\ c.shift \in [Cells -> Int]
      BY <2>2, RawFields
    <3> PICK f, g : f = c.pos /\ g = c.shift
      OBVIOUS
    <3>2. f = [i \in Cells |-> f[i]] /\ g = [i \in Cells |-> g[i]]
      BY <3>1
    <3>3. \A i \in Cells : f[i] \in -1 .. (n - 1) /\ g[i] \in -n .. n
      BY <2>4, <2>5
    <3> QED
      BY ONLY <3>2, <3>3, f = c.pos /\ g = c.shift
  <2>9. c \in [pos : [Cells -> -1 .. (n - 1)], seq : [Cells -> SUBSET Seqs], shift : [Cells -> -n .. n],
               has_shift : BOOLEAN, used : SUBSET Cells,
               seq_pos : [Seqs -> SUBSET ((0 .. (n - 1)) \X Cells)]]
    BY ONLY <2>2, <2>7, <2>8 DEF RawCells
  <2> QED
    BY <2>1, <2>9 DEF CellsType
<1>5. TypeOK
  <2>1. kv.sc \in Seq(Streams \X Streams)
    BY <1>1, KVFields
  <2> QED
    BY <1>1, <1>4, <2>1, Zenon DEF TypeOK, DataKind, Roles
<1>6. IndexExact
  <2> SUFFICES ASSUME NEW st \in Streams
               PROVE  LET c == kv.cells[st]
                          full == {i \in Cells : ~IsEmpty(c, i)}
                      IN  /\ c.used = full /\ full = {i \in Cells : c.seq[i] # {}}
                          /\ \A s \in Seqs : c.seq_pos[s] = {<<c.pos[i], i>> : i \in {j \in Cells : s \in c.seq[j]}}
                          /\ \A i \in Cells : c.shift[i] # 0 => i \in full /\ c.has_shift
    BY Zenon DEF IndexExact
  <2> PICK c : c = kv.cells[st]
    OBVIOUS
  <2> PICK full : full = {i \in Cells : ~IsEmpty(c, i)}
    OBVIOUS
  <2>1. c \in GoodCells
    BY <1>1, KVFields
  <2>2. Exact(c) /\ c.used \in SUBSET Cells /\ Marked(c)
    BY <2>1, GoodFields, RawFields DEF GoodCells
  <2>3. \A i \in Cells : i \in full <=> c.pos[i] # -1
    BY DEF IsEmpty
  <2>4. c.used = full /\ full = {i \in Cells : c.seq[i] # {}}
    BY <2>2, <2>3 DEF Marked
  <2>5. \A i \in Cells : c.shift[i] # 0 => i \in full /\ c.has_shift
    BY <2>2, <2>3 DEF Marked
  <2>6. \A s \in Seqs : c.seq_pos[s] = {<<c.pos[i], i>> : i \in {j \in Cells : s \in c.seq[j]}}
    BY <2>2, Zenon DEF Exact, Index
  <2> QED
    BY <2>4, <2>5, <2>6
<1> QED
  BY <1>2, <1>5, <1>6

LEMMA AlwaysKeyed == Spec => []KVInv
<1> QED
  BY InitKeyed, NextKeyed, PTL DEF Spec

(* What the code reads off the cells' indexes is what the cells hold, in    *)
(* every state: apply_ubatch, the sequence operations, the setting back of  *)
(* a batch that was tried and the taking back of one that failed included.  *)
THEOREM CellsIndexed == Spec => [](TypeOK /\ IndexExact)
<1>1. KVInv => TypeOK /\ IndexExact
  BY KeyedMeans
<1> QED
  BY AlwaysKeyed, <1>1, PTL

(* Every key is rotated for the position its cell will have been shifted    *)
(* from once the stream copies that wait are made.                          *)
THEOREM KeysMatch == Spec => []KeyAtPosition
<1>1. KVInv => KeyAtPosition
  BY KeyedMeans
<1> QED
  BY AlwaysKeyed, <1>1, PTL

=============================================================================
