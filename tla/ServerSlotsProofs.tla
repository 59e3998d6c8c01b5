-------------------------- MODULE ServerSlotsProofs --------------------------
(* What a slot, a saved state or the file claims to hold is in its memory,  *)
(* the prompt cache keeps its limit, and each task is in one place          *)
(* (ServerSlots).                                                           *)
EXTENDS ServerSlots, FiltersProofs, FiniteSetTheorems

(* The servers that a configuration allows, as values of Srv.               *)
SlotKind ==
    [state : {"IDLE", "WAIT_OTHER", "STARTED", "GENERATING"}, task : Tasks \cup {NoTask},
     lora : Loras \cup {NoLora}, prompt : Tokens, mem : Cells]

EntryKind == [tokens : Tokens, cells : Cells]

ServerKind(c) ==
    [slot : [1 .. c.n_slots -> SlotKind], lru : Seq(1 .. c.n_slots), states : Seq(EntryKind),
     limit : 0 .. c.limit, tasks : Seq(DOMAIN c.task), deferred : Seq(DOMAIN c.task)]

Distinct(q) == \A i, j \in DOMAIN q : q[i] = q[j] => i = j

(* A slot has a task and its adapters while it is busy.  It holds all the   *)
(* tokens of its cells or, after a change of adapters, none; a slot that    *)
(* generates has a prompt.                                                  *)
SlotSound(c, x) ==
    /\ x.state = "IDLE" <=> x.task = NoTask
    /\ x.state # "IDLE" => x.task \in DOMAIN c.task /\ x.lora \in Loras
    /\ x.state = "STARTED" => c.task[x.task].type \in Scheduled
    /\ x.prompt = <<>> \/ x.prompt = Toks(x.mem)
    /\ x.state = "GENERATING" => x.prompt # <<>>

AllSlotsOrdered(c, w) == Distinct(w.lru) /\ ToSet(w.lru) = 1 .. c.n_slots
SlotsSound(c, w)      == \A s \in 1 .. c.n_slots : SlotSound(c, w.slot[s])
EntriesSound(w)       == \A i \in DOMAIN w.states : w.states[i].tokens = Toks(w.states[i].cells)

NoneContained(entries) ==
    \A i, j \in DOMAIN entries : i # j => ~IsPrefix(entries[i].tokens, entries[j].tokens)

Tidy(w) == CacheSize(w.states) <= w.limit /\ NoneContained(w.states)

Servers(c) ==
    {w \in ServerKind(c) : AllSlotsOrdered(c, w) /\ SlotsSound(c, w) /\ EntriesSound(w) /\ Tidy(w)}

FileSound(f) ==
    \A x \in ToSet(f) : x \in EntryKind /\ (x.tokens = <<>> \/ x.tokens = Toks(x.cells))

ServerInv ==
    /\ conf \in Confs /\ base_lora \in Loras /\ unposted \subseteq DOMAIN Task
    /\ Srv \in Servers(conf)
    /\ file \in Seq(EntryKind) /\ FileSound(file)

(* Where the tasks are: those not posted, in the queue or deferred are      *)
(* pending, and were not launched, nor were their children.                 *)
InSlots(w)        == {w.slot[s].task : s \in DOMAIN w.slot} \ {NoTask}
OneSlotEach(w)    == \A s, t \in DOMAIN w.slot : w.slot[s].task = w.slot[t].task => s = t \/ w.slot[s].task = NoTask
Pending(w, u)     == u \cup ToSet(w.tasks) \cup ToSet(w.deferred)

Placed(c, w, u) ==
    /\ Distinct(w.tasks) /\ Distinct(w.deferred)
    /\ ToSet(w.tasks) \cap ToSet(w.deferred) = {}
    /\ u \cap (ToSet(w.tasks) \cup ToSet(w.deferred)) = {}
    /\ OneSlotEach(w)
    /\ \A r \in Pending(w, u) : c.task[r].parent = NoTask
    /\ \A t \in InSlots(w) : t \notin Pending(w, u) /\ c.task[t].parent \notin Pending(w, u)

PlaceInv == Placed(conf, Srv, unposted)

----------------------------------------------------------------------------
(* What is known of a configuration.                                        *)

LEMMA ConfFacts ==
    ASSUME NEW c \in Confs
    PROVE  /\ c.n_slots \in Nat \ {0} /\ c.limit \in Nat /\ c.n_gen \in Nat
           /\ 1 .. c.n_slots \subseteq 1 .. MaxSlots
           /\ c.loras \subseteq Loras
           /\ c.task \in Seq(TaskType) /\ DOMAIN c.task \subseteq Tasks
<1>1. IsConf(c)
  BY ServerSlotsAssumption
<1>2. MaxSlots \in Nat /\ MaxTasks \in Nat
  BY ServerSlotsAssumption
<1>3. c.n_slots \in 1 .. MaxSlots /\ c.limit \in Nat /\ c.n_gen \in Nat /\ c.loras \subseteq Loras
  BY <1>1 DEF IsConf
<1>4. c.task \in Seq(TaskType) /\ Len(c.task) <= MaxTasks
  BY <1>1 DEF IsConf
<1>5. DOMAIN c.task = 1 .. Len(c.task) /\ Len(c.task) \in Nat
  BY <1>4
<1> QED
  BY <1>2, <1>3, <1>4, <1>5 DEF Tasks

LEMMA TaskFacts ==
    ASSUME NEW c \in Confs, NEW r \in DOMAIN c.task
    PROVE  /\ c.task[r] \in TaskType
           /\ c.task[r].type \in Scheduled => c.task[r].tokens # <<>>
           /\ c.task[r].type \in SlotActions => c.task[r].target \in 1 .. c.n_slots
           /\ c.task[r].type = "CANCEL" => c.task[r].target \in DOMAIN c.task
           /\ c.task[r].type = "SET_LORA" => c.task[r].lora \in Loras
<1>1. IsConf(c)
  BY ServerSlotsAssumption
<1>2. c.task \in Seq(TaskType)
  BY <1>1 DEF IsConf
<1>3. c.task[r] \in TaskType
  BY <1>2
<1> QED
  BY <1>1, <1>3 DEF IsConf

LEMMA ChildFacts ==
    ASSUME NEW c \in Confs, NEW r \in DOMAIN c.task
    PROVE  /\ c.task[r].children \in Seq(1 .. MaxTasks)
           /\ \A i \in DOMAIN c.task[r].children :
                 c.task[r].children[i] \in DOMAIN c.task /\ c.task[c.task[r].children[i]].parent = r
           /\ Distinct(c.task[r].children)
<1>1. IsConf(c)
  BY ServerSlotsAssumption
<1>2. c.task[r] \in TaskType
  BY TaskFacts
<1>3. c.task[r].children \in Seq(1 .. MaxTasks)
  BY <1>2 DEF TaskType
<1> QED
  BY <1>1, <1>3 DEF IsConf, Distinct

LEMMA ServerFields ==
    ASSUME NEW c, NEW w \in ServerKind(c)
    PROVE  /\ w.slot \in [1 .. c.n_slots -> SlotKind] /\ w.lru \in Seq(1 .. c.n_slots)
           /\ w.states \in Seq(EntryKind) /\ w.limit \in 0 .. c.limit
           /\ w.tasks \in Seq(DOMAIN c.task) /\ w.deferred \in Seq(DOMAIN c.task)
           /\ w = [slot |-> w.slot, lru |-> w.lru, states |-> w.states, limit |-> w.limit,
                   tasks |-> w.tasks, deferred |-> w.deferred]
BY DEF ServerKind

LEMMA SlotFields ==
    ASSUME NEW x \in SlotKind
    PROVE  /\ x.state \in {"IDLE", "WAIT_OTHER", "STARTED", "GENERATING"} /\ x.task \in Tasks \cup {NoTask}
           /\ x.lora \in Loras \cup {NoLora} /\ x.prompt \in Tokens /\ x.mem \in Cells
BY DEF SlotKind

----------------------------------------------------------------------------
(* Tokens and cells.                                                        *)

Cell == [tok : Nat, lora : Loras]

LEMMA ToksFacts ==
    ASSUME NEW cells \in Cells
    PROVE  /\ Toks(cells) \in Tokens /\ Len(Toks(cells)) = Len(cells)
           /\ \A i \in 1 .. Len(cells) : Toks(cells)[i] = cells[i].tok
<1>1. cells \in Seq(Cell) /\ Len(cells) \in Nat /\ DOMAIN cells = 1 .. Len(cells)
  BY DEF Cells, Cell
<1>2. \A i \in 1 .. Len(cells) : cells[i] \in Cell
  BY <1>1
<1>3. \A i \in 1 .. Len(cells) : cells[i].tok \in Nat
  BY <1>2 DEF Cell
<1>4. Toks(cells) = [i \in 1 .. Len(cells) |-> cells[i].tok]
  BY <1>1 DEF Toks
<1> DEFINE n == Len(cells)
<1>5. [i \in 1 .. n |-> cells[i].tok] \in Seq(Nat) /\ Len([i \in 1 .. n |-> cells[i].tok]) = n
  BY <1>1, <1>3
<1> QED
  BY <1>4, <1>5 DEF Tokens

LEMMA ComputedFacts ==
    ASSUME NEW tokens \in Tokens, NEW lora \in Loras
    PROVE  Computed(tokens, lora) \in Cells /\ Toks(Computed(tokens, lora)) = tokens
<1>1. tokens \in Seq(Nat) /\ Len(tokens) \in Nat /\ DOMAIN tokens = 1 .. Len(tokens)
  BY DEF Tokens
<1> DEFINE n == Len(tokens)
           f == [i \in 1 .. n |-> [tok |-> tokens[i], lora |-> lora]]
<1>2. Computed(tokens, lora) = f
  BY <1>1 DEF Computed
<1>3. \A i \in 1 .. n : tokens[i] \in Nat
  BY <1>1
<1>4. \A i \in 1 .. n : [tok |-> tokens[i], lora |-> lora] \in Cell
  BY <1>3 DEF Cell
<1>5. f \in Seq(Cell)
  BY <1>1, <1>4
<1>6. DOMAIN f = DOMAIN tokens /\ \A i \in DOMAIN tokens : f[i].tok = tokens[i]
  BY <1>1
<1>7. Toks(f) = [i \in DOMAIN tokens |-> tokens[i]]
  BY <1>6 DEF Toks
<1>8. tokens = [i \in DOMAIN tokens |-> tokens[i]]
  BY <1>1
<1> QED
  BY <1>2, <1>5, <1>7, <1>8 DEF Cells, Cell

LEMMA ToksConcat ==
    ASSUME NEW a \in Cells, NEW b \in Cells
    PROVE  a \o b \in Cells /\ Toks(a \o b) = Toks(a) \o Toks(b)
<1>1. a \in Seq(Cell) /\ b \in Seq(Cell) /\ Len(a) \in Nat /\ Len(b) \in Nat
  BY DEF Cells, Cell
<1>2. a \o b \in Seq(Cell) /\ Len(a \o b) = Len(a) + Len(b)
  BY <1>1
<1>3. a \o b \in Cells
  BY <1>2 DEF Cells, Cell
<1>4. /\ Toks(a) \in Seq(Nat) /\ Len(Toks(a)) = Len(a)
      /\ \A i \in 1 .. Len(a) : Toks(a)[i] = a[i].tok
  BY ToksFacts DEF Tokens
<1>5. /\ Toks(b) \in Seq(Nat) /\ Len(Toks(b)) = Len(b)
      /\ \A i \in 1 .. Len(b) : Toks(b)[i] = b[i].tok
  BY ToksFacts DEF Tokens
<1>6. /\ Toks(a \o b) \in Seq(Nat) /\ Len(Toks(a \o b)) = Len(a \o b)
      /\ \A i \in 1 .. Len(a \o b) : Toks(a \o b)[i] = (a \o b)[i].tok
  BY <1>3, ToksFacts DEF Tokens
<1>7. Toks(a) \o Toks(b) \in Seq(Nat) /\ Len(Toks(a) \o Toks(b)) = Len(a) + Len(b)
  BY <1>4, <1>5, ConcatProperties
<1>8. ASSUME NEW i \in 1 .. Len(a) + Len(b) PROVE Toks(a \o b)[i] = (Toks(a) \o Toks(b))[i]
  <2>1. Toks(a \o b)[i] = (a \o b)[i].tok
    BY <1>2, <1>6
  <2>a. i <= Len(a) \/ i > Len(a)
    BY <1>1
  <2>2. CASE i <= Len(a)
    <3>1. (a \o b)[i] = a[i] /\ (Toks(a) \o Toks(b))[i] = Toks(a)[i] /\ i \in 1 .. Len(a)
      BY <1>1, <1>4, <1>5, <2>2
    <3> QED
      BY <1>4, <2>1, <3>1
  <2>3. CASE i > Len(a)
    <3>1. i - Len(a) \in 1 .. Len(b)
      BY <1>1, <2>3
    <3>2. (a \o b)[i] = b[i - Len(a)] /\ (Toks(a) \o Toks(b))[i] = Toks(b)[i - Len(a)]
      BY <1>1, <1>4, <1>5, <2>3
    <3> QED
      BY <1>5, <2>1, <3>1, <3>2
  <2> QED
    BY <2>a, <2>2, <2>3, Zenon
<1>9. Len(Toks(a \o b)) = Len(Toks(a) \o Toks(b))
  BY <1>2, <1>6, <1>7
<1>10. \A i \in 1 .. Len(Toks(a \o b)) : Toks(a \o b)[i] = (Toks(a) \o Toks(b))[i]
  BY <1>2, <1>6, <1>8
<1> HIDE DEF Cells
<1>11. Toks(a \o b) = Toks(a) \o Toks(b)
  BY <1>6, <1>7, <1>9, <1>10, SeqEqual
<1> QED
  BY <1>3, <1>11

LEMMA ToksSubSeq ==
    ASSUME NEW a \in Cells, NEW n \in 0 .. Len(a)
    PROVE  SubSeq(a, 1, n) \in Cells /\ Len(SubSeq(a, 1, n)) = n
           /\ Toks(SubSeq(a, 1, n)) = SubSeq(Toks(a), 1, n)
<1>1. a \in Seq(Cell) /\ Len(a) \in Nat
  BY DEF Cells, Cell
<1> DEFINE s == SubSeq(a, 1, n)
           t == SubSeq(Toks(a), 1, n)
<1>2. s \in Seq(Cell) /\ Len(s) = n /\ \A i \in 1 .. n : s[i] = a[i]
  BY <1>1
<1>3. s \in Cells
  BY <1>2 DEF Cells, Cell
<1>4. Toks(a) \in Seq(Nat) /\ Len(Toks(a)) = Len(a) /\ \A i \in 1 .. Len(a) : Toks(a)[i] = a[i].tok
  BY ToksFacts DEF Tokens
<1>5. t \in Seq(Nat) /\ Len(t) = n /\ \A i \in 1 .. n : t[i] = Toks(a)[i]
  BY <1>1, <1>4
<1> HIDE DEF s, t
<1>6. Toks(s) \in Seq(Nat) /\ Len(Toks(s)) = n /\ \A i \in 1 .. n : Toks(s)[i] = s[i].tok
  BY <1>2, <1>3, ToksFacts DEF Tokens
<1>7. ASSUME NEW i \in 1 .. n PROVE Toks(s)[i] = t[i]
  <2>1. i \in 1 .. Len(a)
    BY <1>1
  <2> QED
    BY <1>2, <1>4, <1>5, <1>6, <2>1
<1>8. Toks(s) = t
  BY <1>5, <1>6, <1>7, SeqEqual
<1> QED
  BY <1>2, <1>3, <1>8 DEF s, t

(* A set of naturals has a least one.                                       *)
LEMMA LeastOfNat ==
    ASSUME NEW D \in SUBSET Nat, D # {}
    PROVE  \E x \in D : \A y \in D : x <= y
<1>1. IsWellFoundedOn(OpToRel(<, Nat), Nat)
  BY NatLessThanWellFounded
<1>2. PICK x \in D : \A y \in D : <<y, x>> \notin OpToRel(<, Nat)
  <2> HIDE DEF IsWellFoundedOn
  <2> QED
    BY <1>1, WFMin, Zenon
<1>3. \A y \in D : ~(y < x)
  BY <1>2, Zenon DEF OpToRel
<1> QED
  BY <1>3

(* The longest common prefix is one.                                        *)
LEMMA LcpFacts ==
    ASSUME NEW R, NEW p \in Seq(R), NEW q \in Seq(R)
    PROVE  /\ Lcp(p, q) \in Nat /\ Lcp(p, q) <= Len(p) /\ Lcp(p, q) <= Len(q)
           /\ \A i \in 1 .. Lcp(p, q) : p[i] = q[i]
<1> DEFINE m == Min({Len(p), Len(q)})
           D == {n \in 1 .. m : \A i \in 1 .. n : p[i] = q[i]}
<1>1. Len(p) \in Nat /\ Len(q) \in Nat
  OBVIOUS
<1>2. m \in Nat /\ m <= Len(p) /\ m <= Len(q)
  <2>1. \E x \in {Len(p), Len(q)} : \A y \in {Len(p), Len(q)} : x <= y
    BY <1>1
  <2>2. m \in {Len(p), Len(q)} /\ \A y \in {Len(p), Len(q)} : m <= y
    BY <2>1, Zenon DEF Min
  <2> QED
    BY <1>1, <2>2
<1>3. Lcp(p, q) = Cardinality(D)
  BY DEF Lcp
<1> HIDE DEF m
<1> DEFINE T == {k \in Nat : k <= m => \E n \in 0 .. k : D \cap (1 .. k) = 1 .. n /\ (n < k => n + 1 \notin D)}
<1>4. \E n \in 0 .. m : D = 1 .. n
  <2>1. 0 \in T
    <3>1. D \cap (1 .. 0) = 1 .. 0
      OBVIOUS
    <3> QED
      BY <3>1
  <2>2. ASSUME NEW k \in T PROVE k + 1 \in T
    <3> SUFFICES ASSUME k + 1 <= m
                 PROVE  \E n \in 0 .. k + 1 : /\ D \cap (1 .. k + 1) = 1 .. n
                                              /\ n < k + 1 => n + 1 \notin D
      OBVIOUS
    <3>1. k \in Nat /\ k <= m
      BY <1>2
    <3>2. PICK n \in 0 .. k : D \cap (1 .. k) = 1 .. n /\ (n < k => n + 1 \notin D)
      BY <3>1
    <3>3. CASE k + 1 \in D
      <4>1. 1 .. k \subseteq D
        BY <1>2, <3>1, <3>3
      <4>2. D \cap (1 .. k + 1) = 1 .. k + 1
        BY <3>1, <3>3, <4>1
      <4> QED
        BY <3>1, <4>2
    <3>4. CASE k + 1 \notin D
      <4>1. D \cap (1 .. k + 1) = D \cap (1 .. k)
        BY <3>1, <3>4
      <4>2. n < k + 1 => n + 1 \notin D
        BY <3>1, <3>2, <3>4
      <4>3. n \in 0 .. k + 1
        BY <3>1
      <4> QED
        BY <3>2, <4>1, <4>2, <4>3
    <3> QED
      BY <3>3, <3>4
  <2>3. T \in SUBSET Nat
    OBVIOUS
  <2> HIDE DEF T
  <2>4. T = Nat
    BY <2>1, <2>2, <2>3, NatSetInduction
  <2>5. m \in T
    BY <1>2, <2>4
  <2>7. \E n \in 0 .. m : D \cap (1 .. m) = 1 .. n
    <3>1. m <= m
      BY <1>2
    <3>2. m <= m => \E n \in 0 .. m : D \cap (1 .. m) = 1 .. n /\ (n < m => n + 1 \notin D)
      BY <2>5, Zenon DEF T
    <3> QED
      BY <3>1, <3>2, Zenon
  <2>6. D \cap (1 .. m) = D
    OBVIOUS
  <2> QED
    BY <2>6, <2>7
<1>5. PICK n \in 0 .. m : D = 1 .. n
  BY <1>4
<1>6. Cardinality(1 .. n) = n
  BY <1>2, FS_Interval
<1>7. Lcp(p, q) = n
  BY <1>3, <1>5, <1>6
<1>8. ASSUME NEW i \in 1 .. n PROVE p[i] = q[i]
  <2>1. n \in 1 .. n
    BY <1>2
  <2>2. n \in D
    BY <1>5, <2>1
  <2> QED
    BY <2>2
<1> QED
  BY <1>1, <1>2, <1>7, <1>8

----------------------------------------------------------------------------
(* The size of the cache.                                                   *)

AddSize(c, n, e) == n + Len(e.cells)

Natural(c, n, v) == v \in Nat

Sizes == INSTANCE FoldProofs WITH Op <- AddSize, Good <- Natural

(* f adds up the sizes of the entries.                                      *)
Adding(f, q) ==
    /\ f[0] = 0
    /\ \A n \in 0 .. Len(q) - 1 : f[n + 1] = f[n] + Len(q[n + 1].cells)
    /\ f[Len(q)] = CacheSize(q)

LEMMA SizesTrace ==
    ASSUME NEW c, NEW b, NEW q, Len(q) \in Nat, DOMAIN q = 1 .. Len(q)
    PROVE  \E f : /\ f[0] = b
                  /\ \A n \in 0 .. Len(q) - 1 : f[n + 1] = AddSize(c, f[n], q[n + 1])
                  /\ f[Len(q)] = Sizes!FoldOf(c, b, q)
BY Sizes!FoldTrace

LEMMA CacheSizeAdds ==
    ASSUME NEW q \in Seq(EntryKind)
    PROVE  \E f : Adding(f, q) /\ \A n \in 0 .. Len(q) : f[n] \in Nat
<1>1. Len(q) \in Nat /\ DOMAIN q = 1 .. Len(q)
  OBVIOUS
<1>2. CacheSize(q) = Sizes!FoldOf({}, 0, q)
  BY DEF CacheSize, FoldLeft, MapThenFoldSet, Max,
         Sizes!FoldOf, Sizes!MapThenFoldSet, Sizes!Greatest, AddSize
<1> PICK b, c : b = 0 /\ c = {}
  OBVIOUS
<1>a. \E f : /\ f[0] = b
             /\ \A n \in 0 .. Len(q) - 1 : f[n + 1] = AddSize(c, f[n], q[n + 1])
             /\ f[Len(q)] = Sizes!FoldOf(c, b, q)
  BY ONLY <1>1, SizesTrace
<1>3. PICK f : /\ f[0] = 0
               /\ \A n \in 0 .. Len(q) - 1 : f[n + 1] = AddSize({}, f[n], q[n + 1])
               /\ f[Len(q)] = Sizes!FoldOf({}, 0, q)
  BY <1>a
<1>4. Adding(f, q)
  BY <1>2, <1>3 DEF Adding, AddSize
<1>5. ASSUME NEW n \in 1 .. Len(q) PROVE Len(q[n].cells) \in Nat
  <2>1. q[n] \in EntryKind
    OBVIOUS
  <2> QED
    BY <2>1 DEF EntryKind, Cells
<1> DEFINE T == {n \in Nat : n <= Len(q) => f[n] \in Nat}
<1>6. 0 \in T
  BY <1>4 DEF Adding
<1>7. ASSUME NEW n \in T PROVE n + 1 \in T
  <2> SUFFICES ASSUME n + 1 <= Len(q) PROVE f[n + 1] \in Nat
    OBVIOUS
  <2>1. n \in 0 .. Len(q) - 1 /\ n + 1 \in 1 .. Len(q) /\ f[n] \in Nat
    BY <1>1
  <2>2. f[n + 1] = f[n] + Len(q[n + 1].cells)
    BY <1>4, <2>1 DEF Adding
  <2> QED
    BY <1>5, <2>1, <2>2
<1>8. T \in SUBSET Nat
  OBVIOUS
<1>9. T = Nat
  <2> HIDE DEF T
  <2> QED
    BY <1>6, <1>7, <1>8, NatSetInduction
<1>10. \A n \in 0 .. Len(q) : f[n] \in Nat
  BY <1>1, <1>9
<1> QED
  BY <1>4, <1>10

LEMMA CacheSizeType ==
    ASSUME NEW q \in Seq(EntryKind)
    PROVE  CacheSize(q) \in Nat
<1>1. PICK f : Adding(f, q) /\ \A n \in 0 .. Len(q) : f[n] \in Nat
  BY CacheSizeAdds
<1>2. Len(q) \in 0 .. Len(q)
  OBVIOUS
<1> QED
  BY <1>1, <1>2 DEF Adding

LEMMA CacheSizeEmpty == CacheSize(<<>>) = 0
<1>1. <<>> \in Seq(EntryKind) /\ Len(<<>>) = 0
  OBVIOUS
<1>2. PICK f : Adding(f, <<>>)
  BY <1>1, CacheSizeAdds
<1> QED
  BY <1>1, <1>2 DEF Adding

LEMMA EntrySize ==
    ASSUME NEW e \in EntryKind
    PROVE  Len(e.cells) \in Nat /\ e.cells \in Cells /\ e.tokens \in Tokens
BY DEF EntryKind, Cells

(* Two caches of which one begins with the other.                           *)
LEMMA AddingAgrees ==
    ASSUME NEW p \in Seq(EntryKind), NEW q \in Seq(EntryKind), NEW f, NEW g,
           Adding(f, p), Adding(g, q), NEW m \in Nat, m <= Len(p), m <= Len(q),
           \A i \in 1 .. m : p[i] = q[i]
    PROVE  f[m] = g[m]
<1> DEFINE T == {n \in Nat : n <= m => f[n] = g[n]}
<1>1. Len(p) \in Nat /\ Len(q) \in Nat
  OBVIOUS
<1>2. 0 \in T
  BY DEF Adding
<1>3. ASSUME NEW n \in T PROVE n + 1 \in T
  <2> SUFFICES ASSUME n + 1 <= m PROVE f[n + 1] = g[n + 1]
    OBVIOUS
  <2>1. n \in 0 .. Len(p) - 1 /\ n \in 0 .. Len(q) - 1 /\ n + 1 \in 1 .. m /\ f[n] = g[n]
    BY <1>1
  <2>2. f[n + 1] = f[n] + Len(p[n + 1].cells) /\ g[n + 1] = g[n] + Len(q[n + 1].cells)
    BY <2>1 DEF Adding
  <2> QED
    BY <2>1, <2>2
<1>4. T \in SUBSET Nat
  OBVIOUS
<1>5. T = Nat
  <2> HIDE DEF T
  <2> QED
    BY <1>2, <1>3, <1>4, NatSetInduction
<1> QED
  BY <1>5

LEMMA CacheSizeAppend ==
    ASSUME NEW q \in Seq(EntryKind), NEW e \in EntryKind
    PROVE  CacheSize(Append(q, e)) = CacheSize(q) + Len(e.cells)
<1> PICK p : p = Append(q, e)
  OBVIOUS
<1>1. p \in Seq(EntryKind) /\ Len(p) = Len(q) + 1 /\ Len(q) \in Nat /\ p[Len(q) + 1] = e
      /\ \A i \in 1 .. Len(q) : p[i] = q[i]
  OBVIOUS
<1>2. PICK f : Adding(f, p)
  BY <1>1, CacheSizeAdds
<1>3. PICK g : Adding(g, q)
  BY CacheSizeAdds
<1>4. f[Len(q)] = g[Len(q)]
  <2>1. Len(q) \in Nat /\ Len(q) <= Len(p) /\ Len(q) <= Len(q)
    BY <1>1
  <2> PICK m : m = Len(q)
    OBVIOUS
  <2>2. m \in Nat /\ m <= Len(p) /\ m <= Len(q) /\ \A i \in 1 .. m : p[i] = q[i]
    BY <1>1, <2>1
  <2>3. f[m] = g[m]
    <3>1. p \in Seq(EntryKind) /\ q \in Seq(EntryKind)
      BY <1>1
    <3> QED
      BY ONLY <3>1, <1>2, <1>3, <2>2, AddingAgrees
  <2> QED
    BY <2>3
<1>5. Len(q) \in 0 .. Len(p) - 1
  BY <1>1
<1>6. f[Len(q) + 1] = f[Len(q)] + Len(p[Len(q) + 1].cells)
  BY <1>2, <1>5 DEF Adding
<1>7. f[Len(p)] = CacheSize(p) /\ g[Len(q)] = CacheSize(q)
  BY <1>2, <1>3 DEF Adding
<1> QED
  BY <1>1, <1>4, <1>6, <1>7

(* What is taken out frees its size.                                        *)
LEMMA CacheSizeRemoveAt ==
    ASSUME NEW q \in Seq(EntryKind), NEW k \in DOMAIN q
    PROVE  CacheSize(RemoveAt(q, k)) <= CacheSize(q)
<1> PICK p : p = RemoveAt(q, k)
  OBVIOUS
<1>1. /\ p \in Seq(EntryKind) /\ Len(p) = Len(q) - 1
      /\ \A j \in 1 .. (Len(q) - 1) : p[j] = IF j < k THEN q[j] ELSE q[j + 1]
  BY RemoveAtShifts
<1>2. Len(q) \in Nat /\ k \in 1 .. Len(q) /\ Len(p) \in Nat
  BY <1>1
<1>3. PICK f : Adding(f, p) /\ \A n \in 0 .. Len(p) : f[n] \in Nat
  BY <1>1, CacheSizeAdds
<1>4. PICK g : Adding(g, q) /\ \A n \in 0 .. Len(q) : g[n] \in Nat
  BY CacheSizeAdds
<1>5. ASSUME NEW n \in 1 .. Len(q) PROVE Len(q[n].cells) \in Nat
  <2>1. q[n] \in EntryKind
    OBVIOUS
  <2> QED
    BY <2>1, EntrySize
<1>6. f[k - 1] = g[k - 1]
  <2>1. k - 1 \in Nat /\ k - 1 <= Len(p) /\ k - 1 <= Len(q) /\ \A i \in 1 .. k - 1 : p[i] = q[i]
    BY <1>1, <1>2
  <2> PICK m : m = k - 1
    OBVIOUS
  <2>3. m \in Nat /\ m <= Len(p) /\ m <= Len(q) /\ \A i \in 1 .. m : p[i] = q[i]
    BY <2>1
  <2>2. f[m] = g[m]
    <3>1. p \in Seq(EntryKind) /\ q \in Seq(EntryKind)
      BY <1>1
    <3> QED
      BY ONLY <3>1, <1>3, <1>4, <2>3, AddingAgrees
  <2> QED
    BY <2>2
<1> DEFINE T == {n \in Nat : k - 1 + n <= Len(p) => f[k - 1 + n] <= g[k + n]}
<1>7. 0 \in T
  <2>1. k - 1 \in 0 .. Len(q) - 1 /\ k - 1 + 1 = k
    BY <1>2
  <2>2. g[k - 1 + 1] = g[k - 1] + Len(q[k - 1 + 1].cells)
    BY <1>4, <2>1 DEF Adding
  <2>3. g[k] = g[k - 1] + Len(q[k].cells) /\ Len(q[k].cells) \in Nat /\ g[k - 1] \in Nat
    BY <1>2, <1>4, <1>5, <2>1, <2>2
  <2>4. f[k - 1] <= g[k]
    BY <1>6, <2>3
  <2>5. k - 1 + 0 = k - 1 /\ k + 0 = k
    BY <1>2
  <2> QED
    BY <2>4, <2>5
<1>8. ASSUME NEW n \in T PROVE n + 1 \in T
  <2> SUFFICES ASSUME k - 1 + (n + 1) <= Len(p)
               PROVE  f[k - 1 + (n + 1)] <= g[k + (n + 1)]
    OBVIOUS
  <2> DEFINE a == k - 1 + n
  <2>1. /\ a \in 0 .. Len(p) - 1 /\ a + 1 \in 0 .. Len(q) - 1 /\ a + 1 \in 1 .. Len(q) - 1 /\ ~(a + 1 < k)
        /\ a + 1 = k + n /\ a + 2 = k + (n + 1) /\ a + 1 + 1 = a + 2 /\ a + 1 = k - 1 + (n + 1)
        /\ a \in 0 .. Len(p) /\ a + 1 \in 0 .. Len(q) /\ a + 2 \in 1 .. Len(q)
    BY <1>1, <1>2
  <2>2. f[a] <= g[a + 1]
    <3>1. n \in T /\ k - 1 + n <= Len(p)
      BY <1>2, <2>1
    <3>2. f[k - 1 + n] <= g[k + n]
      BY <3>1
    <3> QED
      BY <2>1, <3>2
  <2> HIDE DEF a, T
  <2>3. f[a + 1] = f[a] + Len(p[a + 1].cells)
    BY <1>3, <2>1 DEF Adding
  <2>4. g[a + 1 + 1] = g[a + 1] + Len(q[a + 1 + 1].cells)
    BY <1>4, <2>1 DEF Adding
  <2>5. p[a + 1] = q[a + 1 + 1]
    BY <1>1, <2>1
  <2>6. f[a] \in Nat /\ g[a + 1] \in Nat /\ Len(q[a + 2].cells) \in Nat
    BY <1>3, <1>4, <1>5, <2>1
  <2>7. f[a + 1] <= g[a + 2]
    BY <2>1, <2>2, <2>3, <2>4, <2>5, <2>6
  <2> QED
    BY <2>1, <2>7
<1>9. T = Nat
  <2>1. T \in SUBSET Nat
    OBVIOUS
  <2> HIDE DEF T
  <2> QED
    BY <1>7, <1>8, <2>1, NatSetInduction
<1>10. Len(p) - (k - 1) \in T
  <2>1. Len(p) - (k - 1) \in Nat
    BY <1>1, <1>2
  <2> QED
    BY <1>9, <2>1
<1>11. f[Len(p)] <= g[Len(q)]
  <2> DEFINE n == Len(p) - (k - 1)
  <2>1. k - 1 + n = Len(p) /\ k + n = Len(q) /\ k - 1 + n <= Len(p)
    BY <1>1, <1>2
  <2>2. f[k - 1 + n] <= g[k + n]
    BY <1>10, <2>1
  <2> QED
    BY <2>1, <2>2
<1> QED
  BY <1>3, <1>4, <1>11 DEF Adding

----------------------------------------------------------------------------
(* The entries of the cache.                                                *)

(* Fewer entries, in their order, are still tidy and sound.                 *)
SoundEntries(q) == \A i \in DOMAIN q : q[i].tokens = Toks(q[i].cells)

LEMMA FewerEntries ==
    ASSUME NEW q \in Seq(EntryKind), NEW s \in Seq(EntryKind), Within(s, q)
    PROVE  /\ NoneContained(q) => NoneContained(s)
           /\ SoundEntries(q) => SoundEntries(s)
<1>0. DOMAIN q \subseteq Nat /\ DOMAIN s \subseteq Nat
  OBVIOUS
<1>1. ASSUME NoneContained(q), NEW a \in DOMAIN s, NEW b \in DOMAIN s, a # b
      PROVE  ~IsPrefix(s[a].tokens, s[b].tokens)
  <2>1. \E i, j \in DOMAIN q : i # j /\ s[a] = q[i] /\ s[b] = q[j]
    <3>1. CASE a < b
      <4>1. PICK i \in DOMAIN q, j \in DOMAIN q : i < j /\ s[a] = q[i] /\ s[b] = q[j]
        BY <3>1 DEF Within
      <4>2. i # j
        BY <1>0, <4>1
      <4> QED
        BY <4>1, <4>2, Zenon
    <3>2. CASE b < a
      <4>1. PICK i \in DOMAIN q, j \in DOMAIN q : i < j /\ s[b] = q[i] /\ s[a] = q[j]
        BY <3>2 DEF Within
      <4>2. i # j
        BY <1>0, <4>1
      <4> QED
        BY <4>1, <4>2, Zenon
    <3>3. a < b \/ b < a
      BY <1>0, <1>1
    <3> QED
      BY <3>1, <3>2, <3>3, Zenon
  <2> QED
    BY <1>1, <2>1, Zenon DEF NoneContained
<1>2. ASSUME SoundEntries(q), NEW a \in DOMAIN s PROVE s[a].tokens = Toks(s[a].cells)
  <2>1. PICK i \in DOMAIN q : s[a] = q[i]
    BY DEF Within
  <2> QED
    BY <1>2, <2>1, Zenon DEF SoundEntries
<1> QED
  BY <1>1, <1>2, Zenon DEF NoneContained, SoundEntries

LEMMA SubSeqWithin ==
    ASSUME NEW R, NEW q \in Seq(R), NEW k \in 0 .. Len(q)
    PROVE  SubSeq(q, k + 1, Len(q)) \in Seq(R) /\ Within(SubSeq(q, k + 1, Len(q)), q)
<1> DEFINE s == SubSeq(q, k + 1, Len(q))
<1>1. Len(q) \in Nat /\ DOMAIN q = 1 .. Len(q) /\ \A i \in 1 .. Len(q) : q[i] \in R
  OBVIOUS
<1>2. /\ s \in Seq(R) /\ Len(s) = Len(q) - k
      /\ \A i \in 1 .. Len(q) - k : s[i] = q[k + i]
  <2>1. \A i \in k + 1 .. Len(q) : q[i] \in R
    BY <1>1
  <2> PICK m, n : m = k + 1 /\ n = Len(q)
    OBVIOUS
  <2>2. m \in Int /\ n \in Int /\ \A i \in m .. n : q[i] \in R
    BY <1>1, <2>1
  <2>3. /\ SubSeq(q, m, n) \in Seq(R)
        /\ Len(SubSeq(q, m, n)) = IF m <= n THEN n - m + 1 ELSE 0
        /\ \A i \in 1 .. n - m + 1 : SubSeq(q, m, n)[i] = q[m + i - 1]
    BY ONLY <2>2, SubSeqProperties
  <2>4. s = SubSeq(q, m, n) /\ n - m + 1 = Len(q) - k /\ (m > n => k = Len(q))
    BY <1>1
  <2> HIDE DEF s
  <2>5. \A i \in 1 .. Len(q) - k : m + i - 1 = k + i
    BY <1>1
  <2> QED
    BY <1>1, <2>2, <2>3, <2>4, <2>5
<1> HIDE DEF s
<1>3. DOMAIN s = 1 .. Len(q) - k
  BY <1>2
<1>4. \A i \in DOMAIN s : k + i \in DOMAIN q /\ s[i] = q[k + i]
  BY <1>1, <1>2, <1>3
<1>5. \A a, b \in DOMAIN s : a < b => k + a < k + b
  BY <1>1, <1>3
<1>6. \A a \in DOMAIN s : \E i \in DOMAIN q : s[a] = q[i]
  BY <1>4, Zenon
<1>7. \A a, b \in DOMAIN s : a < b => \E i, j \in DOMAIN q : i < j /\ s[a] = q[i] /\ s[b] = q[j]
  BY <1>4, <1>5, Zenon
<1>8. Within(s, q)
  BY <1>6, <1>7, Zenon DEF Within
<1> QED
  BY <1>2, <1>8 DEF s

(* The oldest entries make room.                                            *)
LEMMA NewestFacts ==
    ASSUME NEW q \in Seq(EntryKind), NEW room \in Nat
    PROVE  /\ Newest(q, room) \in Seq(EntryKind) /\ Within(Newest(q, room), q)
           /\ CacheSize(Newest(q, room)) <= room
<1> DEFINE D == {k \in 0 .. Len(q) : CacheSize(SubSeq(q, k + 1, Len(q))) <= room}
<1>1. Len(q) \in Nat
  OBVIOUS
<1>2. Len(q) \in D
  <2>1. SubSeq(q, Len(q) + 1, Len(q)) = <<>>
    OBVIOUS
  <2>4. CacheSize(SubSeq(q, Len(q) + 1, Len(q))) = 0
    BY <2>1, CacheSizeEmpty, Zenon
  <2>2. CacheSize(SubSeq(q, Len(q) + 1, Len(q))) <= room
    BY <2>4
  <2>3. Len(q) \in 0 .. Len(q)
    BY <1>1
  <2> QED
    BY <2>2, <2>3, Zenon
<1> DEFINE k == Min(D)
<1>3. D \in SUBSET Nat /\ D # {}
  BY <1>1, <1>2
<1>4. k \in D
  <2> HIDE DEF D
  <2>1. \E x \in D : \A y \in D : x <= y
    BY ONLY <1>3, LeastOfNat
  <2> QED
    BY <2>1, Zenon DEF Min
<1>5. Newest(q, room) = SubSeq(q, k + 1, Len(q))
  BY DEF Newest
<1> HIDE DEF k
<1>6. k \in 0 .. Len(q) /\ CacheSize(SubSeq(q, k + 1, Len(q))) <= room
  BY <1>4
<1> QED
  BY <1>5, <1>6, SubSeqWithin

(* The prompts that the new one contains are gone.                          *)
LEMMA NotContainedFacts ==
    ASSUME NEW q \in Seq(EntryKind), NEW p
    PROVE  /\ NotContained(q, p) \in Seq(EntryKind) /\ Within(NotContained(q, p), q)
           /\ \A a \in DOMAIN NotContained(q, p) : ~IsPrefix(NotContained(q, p)[a].tokens, p)
BY KeepWithin DEF NotContained

----------------------------------------------------------------------------
(* Changes of a server.                                                     *)

WithSlot(w, s, x) == [w EXCEPT !.slot[s] = x]

LEMMA WithSlotFields ==
    ASSUME NEW c, NEW w \in ServerKind(c), NEW s \in 1 .. c.n_slots, NEW x \in SlotKind
    PROVE  /\ WithSlot(w, s, x) \in ServerKind(c)
           /\ WithSlot(w, s, x).slot[s] = x
           /\ \A t \in 1 .. c.n_slots : t # s => WithSlot(w, s, x).slot[t] = w.slot[t]
           /\ WithSlot(w, s, x).lru = w.lru /\ WithSlot(w, s, x).states = w.states
           /\ WithSlot(w, s, x).limit = w.limit
           /\ WithSlot(w, s, x).tasks = w.tasks /\ WithSlot(w, s, x).deferred = w.deferred
BY DEF WithSlot, ServerKind

LEMMA WithSlotServer ==
    ASSUME NEW c, NEW w \in Servers(c), NEW s \in 1 .. c.n_slots, NEW x \in SlotKind, SlotSound(c, x)
    PROVE  WithSlot(w, s, x) \in Servers(c)
<1>1. w \in ServerKind(c) /\ AllSlotsOrdered(c, w) /\ SlotsSound(c, w) /\ EntriesSound(w) /\ Tidy(w)
  BY DEF Servers
<1> PICK v : v = WithSlot(w, s, x)
  OBVIOUS
<1>2. /\ v \in ServerKind(c) /\ v.slot[s] = x
      /\ \A t \in 1 .. c.n_slots : t # s => v.slot[t] = w.slot[t]
      /\ v.lru = w.lru /\ v.states = w.states /\ v.limit = w.limit
  BY <1>1, WithSlotFields
<1>3. AllSlotsOrdered(c, v) /\ EntriesSound(v) /\ Tidy(v)
  BY <1>1, <1>2, Zenon DEF AllSlotsOrdered, EntriesSound, Tidy
<1>4. SlotsSound(c, v)
  BY <1>1, <1>2, Zenon DEF SlotsSound
<1> QED
  BY <1>2, <1>3, <1>4, Zenon DEF Servers

(* Another cache.                                                           *)
LEMMA OtherCache ==
    ASSUME NEW c, NEW w \in Servers(c), NEW v \in ServerKind(c), v.slot = w.slot, v.lru = w.lru,
           SoundEntries(v.states), NoneContained(v.states), CacheSize(v.states) <= v.limit
    PROVE  v \in Servers(c)
<1>1. AllSlotsOrdered(c, w) /\ SlotsSound(c, w)
  BY DEF Servers
<1>2. AllSlotsOrdered(c, v) /\ SlotsSound(c, v)
  BY <1>1, Zenon DEF AllSlotsOrdered, SlotsSound
<1>3. EntriesSound(v) /\ Tidy(v)
  BY Zenon DEF EntriesSound, SoundEntries, Tidy
<1> QED
  BY <1>2, <1>3, Zenon DEF Servers

(* Other queues.                                                            *)
WithQueues(w, q, d) == [w EXCEPT !.tasks = q, !.deferred = d]

LEMMA WithQueuesServer ==
    ASSUME NEW c, NEW w \in Servers(c), NEW q \in Seq(DOMAIN c.task), NEW d \in Seq(DOMAIN c.task)
    PROVE  /\ WithQueues(w, q, d) \in Servers(c)
           /\ WithQueues(w, q, d).slot = w.slot /\ WithQueues(w, q, d).lru = w.lru
           /\ WithQueues(w, q, d).tasks = q /\ WithQueues(w, q, d).deferred = d
<1>1. w \in ServerKind(c) /\ AllSlotsOrdered(c, w) /\ SlotsSound(c, w) /\ EntriesSound(w) /\ Tidy(w)
  BY DEF Servers
<1> PICK v : v = WithQueues(w, q, d)
  OBVIOUS
<1>2. /\ v \in ServerKind(c) /\ v.slot = w.slot /\ v.lru = w.lru /\ v.states = w.states
      /\ v.limit = w.limit /\ v.tasks = q /\ v.deferred = d
  BY <1>1 DEF WithQueues, ServerKind
<1>3. AllSlotsOrdered(c, v) /\ SlotsSound(c, v) /\ EntriesSound(v) /\ Tidy(v)
  BY <1>1, <1>2, Zenon DEF AllSlotsOrdered, SlotsSound, EntriesSound, Tidy
<1> QED
  BY <1>2, <1>3, Zenon DEF Servers

(* The queues and what the slots do are the same in both.                   *)
SameWork(w, v) ==
    /\ v.lru = w.lru /\ v.tasks = w.tasks /\ v.deferred = w.deferred
    /\ DOMAIN v.slot = DOMAIN w.slot
    /\ \A s \in DOMAIN w.slot : v.slot[s].state = w.slot[s].state /\ v.slot[s].task = w.slot[s].task

LEMMA SameWorkTransitive ==
    ASSUME NEW u, NEW v, NEW w, SameWork(u, v), SameWork(v, w)
    PROVE  SameWork(u, w)
BY Zenon DEF SameWork

LEMMA SameSlotsSameWork ==
    ASSUME NEW w, NEW v, v.slot = w.slot, v.lru = w.lru, v.tasks = w.tasks, v.deferred = w.deferred
    PROVE  SameWork(w, v)
BY Zenon DEF SameWork

----------------------------------------------------------------------------
(* The prompt of a slot is saved, or another is loaded.                     *)

(* An entry that neither contains another nor is contained in one.          *)
LEMMA EntryAdded ==
    ASSUME NEW q \in Seq(EntryKind), NEW e \in EntryKind, NoneContained(q), SoundEntries(q),
           e.tokens = Toks(e.cells),
           \A i \in DOMAIN q : ~IsPrefix(q[i].tokens, e.tokens) /\ ~IsPrefix(e.tokens, q[i].tokens)
    PROVE  NoneContained(Append(q, e)) /\ SoundEntries(Append(q, e))
<1> PICK p : p = Append(q, e)
  OBVIOUS
<1>1. /\ Len(q) \in Nat /\ DOMAIN q = 1 .. Len(q) /\ DOMAIN p = 1 .. Len(q) + 1 /\ p[Len(q) + 1] = e
      /\ \A i \in 1 .. Len(q) : p[i] = q[i]
  OBVIOUS
<1>2. \A i \in DOMAIN p : (i \in DOMAIN q /\ p[i] = q[i]) \/ (i = Len(q) + 1 /\ p[i] = e)
  BY <1>1
<1>3. ASSUME NEW i \in DOMAIN p, NEW j \in DOMAIN p, i # j
      PROVE  ~IsPrefix(p[i].tokens, p[j].tokens)
  <2>1. CASE i \in DOMAIN q /\ p[i] = q[i] /\ j \in DOMAIN q /\ p[j] = q[j]
    BY <1>3, <2>1, Zenon DEF NoneContained
  <2>2. CASE i \in DOMAIN q /\ p[i] = q[i] /\ p[j] = e
    BY <2>2, Zenon
  <2>3. CASE p[i] = e /\ j \in DOMAIN q /\ p[j] = q[j]
    BY <2>3, Zenon
  <2> QED
    BY <1>2, <1>3, <2>1, <2>2, <2>3, Zenon
<1>4. SoundEntries(p)
  BY <1>2, Zenon DEF SoundEntries
<1>5. NoneContained(p)
  BY <1>3, Zenon DEF NoneContained
<1> QED
  BY <1>4, <1>5

LEMMA PromptSavedServers ==
    ASSUME conf \in Confs, NEW w \in Servers(conf), NEW s \in Slots, NEW v \in PromptSaved(w, s)
    PROVE  v \in Servers(conf) /\ v.slot = w.slot /\ SameWork(w, v)
<1> DEFINE p    == w.slot[s].prompt
           size == Len(w.slot[s].mem)
           left == NotContained(w.states, p)
           kept == Newest(left, w.limit - size)
           less == (4 * CacheSize(kept)) \div 10
           new  == Entry(p, w.slot[s].mem)
           more == Append(kept, new)
           few  == Newest(kept, less)
<1>1. /\ w \in ServerKind(conf) /\ AllSlotsOrdered(conf, w) /\ SlotsSound(conf, w) /\ EntriesSound(w)
      /\ Tidy(w)
  BY DEF Servers
<1>2. conf.n_slots \in Nat \ {0} /\ conf.limit \in Nat
  BY ConfFacts
<1>3. /\ w.slot \in [1 .. conf.n_slots -> SlotKind] /\ w.lru \in Seq(1 .. conf.n_slots)
      /\ w.states \in Seq(EntryKind) /\ w.limit \in 0 .. conf.limit
      /\ w.tasks \in Seq(DOMAIN conf.task) /\ w.deferred \in Seq(DOMAIN conf.task)
  BY <1>1, ServerFields
<1>4. w.slot[s] \in SlotKind /\ SlotSound(conf, w.slot[s])
  BY <1>1, <1>3 DEF Slots, SlotsSound
<1>5. p \in Tokens /\ w.slot[s].mem \in Cells /\ size \in Nat
  <2>1. w.slot[s].mem \in Cells /\ p \in Tokens
    BY <1>4, SlotFields
  <2> QED
    BY <2>1 DEF Cells
<1>6. NoneContained(w.states) /\ SoundEntries(w.states) /\ w.limit \in Nat
  BY <1>1, <1>2, <1>3 DEF Tidy, EntriesSound, SoundEntries
<1>7. CASE v = w
  BY <1>7, Zenon DEF SameWork
<1>8. ASSUME p # <<>>, size <= w.limit, \A i \in DOMAIN w.states : ~IsPrefix(p, w.states[i].tokens),
             v \in {[w EXCEPT !.states = more]}
                  \cup IF conf.oom THEN {[w EXCEPT !.limit = less, !.states = few]} ELSE {}
      PROVE  v \in Servers(conf) /\ v.slot = w.slot /\ SameWork(w, v)
  <2>1. /\ left \in Seq(EntryKind) /\ Within(left, w.states)
        /\ \A a \in DOMAIN left : ~IsPrefix(left[a].tokens, p)
    <3> HIDE DEF p
    <3> QED
      BY <1>3, NotContainedFacts
  <2> HIDE DEF left
  <2>2. w.limit - size \in Nat /\ w.limit - size + size = w.limit /\ w.limit - size <= w.limit
    BY <1>5, <1>6, <1>8
  <2>3. kept \in Seq(EntryKind) /\ Within(kept, left) /\ CacheSize(kept) <= w.limit - size
    <3> PICK room : room = w.limit - size
      OBVIOUS
    <3>1. room \in Nat
      BY <2>2
    <3>2. Newest(left, room) \in Seq(EntryKind) /\ Within(Newest(left, room), left)
          /\ CacheSize(Newest(left, room)) <= room
      BY ONLY <2>1, <3>1, NewestFacts
    <3> QED
      BY <3>2
  <2> HIDE DEF kept
  <2>4. Within(kept, w.states)
    BY ONLY <2>1, <2>3, WithinTransitive
  <2>5. NoneContained(kept) /\ SoundEntries(kept)
    BY ONLY <1>3, <1>6, <2>3, <2>4, FewerEntries
  <2>6. \A i \in DOMAIN kept : ~IsPrefix(kept[i].tokens, p) /\ ~IsPrefix(p, kept[i].tokens)
    <3> SUFFICES ASSUME NEW i \in DOMAIN kept
                 PROVE  ~IsPrefix(kept[i].tokens, p) /\ ~IsPrefix(p, kept[i].tokens)
      OBVIOUS
    <3>1. PICK j \in DOMAIN left : kept[i] = left[j]
      BY <2>3, Zenon DEF Within
    <3>2. PICK k \in DOMAIN w.states : kept[i] = w.states[k]
      BY <2>4, Zenon DEF Within
    <3> QED
      BY <1>8, <2>1, <3>1, <3>2, Zenon
  <2>7. CacheSize(kept) \in Nat
    BY <2>3, CacheSizeType
  <2>8. CASE v = [w EXCEPT !.states = more]
    <3>1. new \in EntryKind /\ new.tokens = p /\ new.cells = w.slot[s].mem
      BY <1>5 DEF Entry, EntryKind
    <3>2. p = Toks(w.slot[s].mem)
      BY <1>4, <1>8 DEF SlotSound
    <3> HIDE DEF new, p, size
    <3>3. NoneContained(more) /\ SoundEntries(more)
      BY <2>3, <2>5, <2>6, <3>1, <3>2, EntryAdded
    <3>4. CacheSize(more) = CacheSize(kept) + Len(new.cells)
      BY <2>3, <3>1, CacheSizeAppend
    <3>5. CacheSize(more) <= w.limit
      <4>1. CacheSize(more) = CacheSize(kept) + size
        BY <3>1, <3>4 DEF size
      <4> QED
        BY <1>5, <1>6, <2>2, <2>3, <2>7, <4>1
    <3>6. more \in Seq(EntryKind)
      BY <2>3, <3>1
    <3> HIDE DEF more
    <3>7. /\ v \in ServerKind(conf) /\ v.slot = w.slot /\ v.lru = w.lru /\ v.states = more
          /\ v.limit = w.limit /\ v.tasks = w.tasks /\ v.deferred = w.deferred
      BY <1>1, <2>8, <3>6 DEF ServerKind
    <3>8. v \in Servers(conf)
      BY <3>3, <3>5, <3>7, OtherCache
    <3> QED
      BY <3>7, <3>8, SameSlotsSameWork
  <2>9. CASE v = [w EXCEPT !.limit = less, !.states = few]
    <3>1. less \in Nat /\ less <= CacheSize(kept)
      <4> PICK x : x = CacheSize(kept)
        OBVIOUS
      <4>1. x \in Nat
        BY <2>7
      <4>2. (4 * x) \div 10 \in Nat /\ (4 * x) \div 10 <= x
        BY ONLY <4>1
      <4> QED
        BY <4>2
    <3> HIDE DEF less
    <3>2. less \in 0 .. conf.limit
      <4>1. less \in Nat /\ less <= w.limit
        BY <1>5, <1>6, <2>2, <2>3, <2>7, <3>1
      <4> QED
        BY <1>2, <1>3, <4>1
    <3>3. few \in Seq(EntryKind) /\ Within(few, kept) /\ CacheSize(few) <= less
      BY <2>3, <3>1, NewestFacts
    <3> HIDE DEF few
    <3>4. NoneContained(few) /\ SoundEntries(few)
      BY ONLY <2>3, <2>5, <3>3, FewerEntries
    <3>7. /\ v \in ServerKind(conf) /\ v.slot = w.slot /\ v.lru = w.lru /\ v.states = few
          /\ v.limit = less /\ v.tasks = w.tasks /\ v.deferred = w.deferred
      BY <1>1, <2>9, <3>2, <3>3 DEF ServerKind
    <3>8. v \in Servers(conf)
      BY <3>3, <3>4, <3>7, OtherCache
    <3> QED
      BY <3>7, <3>8, SameSlotsSameWork
  <2> QED
    BY <1>8, <2>8, <2>9
<1> HIDE DEF p, size, more, few, less
<1>9. \/ v = w
      \/ /\ p # <<>> /\ ~(size > w.limit) /\ \A i \in DOMAIN w.states : ~IsPrefix(p, w.states[i].tokens)
         /\ v \in {[w EXCEPT !.states = more]}
                    \cup IF conf.oom THEN {[w EXCEPT !.limit = less, !.states = few]} ELSE {}
  BY Zenon DEF PromptSaved, p, size, more, few, less, kept, left, new
<1>10. ~(size > w.limit) => size <= w.limit
  BY <1>5, <1>6
<1> QED
  BY <1>7, <1>8, <1>9, <1>10, Zenon

(* The choice of BestEntry among c.entries.                                 *)
BetterOf(c, V, x) ==
    LET held(i) == IF i = 0 THEN c.prompt ELSE c.entries[i].tokens
        better(best, i) == IF Worthy(held(i), c.tokens) /\ Below(held(best), held(i), c.tokens)
                           THEN {i} ELSE {best}
    IN  UNION {better(v, x) : v \in V}

EntryOrNone(c, n, V) == V \subseteq 0 .. Len(c.entries)

Bests == INSTANCE FoldProofs WITH Op <- BetterOf, Good <- EntryOrNone

LEMMA BestsInvariant ==
    ASSUME NEW c, NEW b, NEW s, Len(s) \in Nat, DOMAIN s = 1 .. Len(s), EntryOrNone(c, 0, b),
           ASSUME NEW n \in 0 .. Len(s) - 1, NEW v, EntryOrNone(c, n, v)
           PROVE  EntryOrNone(c, n + 1, BetterOf(c, v, s[n + 1]))
    PROVE  EntryOrNone(c, Len(s), Bests!FoldOf(c, b, s))
<1>1. \A n \in 0 .. Len(s) - 1 : \A v : EntryOrNone(c, n, v) => EntryOrNone(c, n + 1, BetterOf(c, v, s[n + 1]))
  OBVIOUS
<1> QED
  BY ONLY Len(s) \in Nat, DOMAIN s = 1 .. Len(s), EntryOrNone(c, 0, b), <1>1, Bests!FoldInvariant, Zenon

LEMMA BestIsFold ==
    ASSUME NEW c
    PROVE  BestEntry(c.entries, c.prompt, c.tokens)
               = Bests!FoldOf(c, {0}, [i \in DOMAIN c.entries |-> i])
BY Zenon DEF BestEntry, ForEach, FoldLeft, MapThenFoldSet, Max,
       Bests!FoldOf, Bests!MapThenFoldSet, Bests!Greatest, BetterOf

LEMMA BestEntryFacts ==
    ASSUME NEW entries \in Seq(EntryKind), NEW prompt, NEW tokens
    PROVE  BestEntry(entries, prompt, tokens) \subseteq 0 .. Len(entries)
<1> PICK c : c = [entries |-> entries, prompt |-> prompt, tokens |-> tokens]
  OBVIOUS
<1> PICK q : q = [i \in DOMAIN entries |-> i]
  OBVIOUS
<1> PICK b : b = {0}
  OBVIOUS
<1>1. c.entries = entries /\ c.prompt = prompt /\ c.tokens = tokens
  OBVIOUS
<1>2. Len(entries) \in Nat /\ Len(q) = Len(entries) /\ DOMAIN q = 1 .. Len(q) /\ \A i \in 1 .. Len(q) : q[i] = i
  <2> PICK m : m = Len(entries)
    OBVIOUS
  <2>1. m \in Nat /\ DOMAIN entries = 1 .. m
    OBVIOUS
  <2>2. q = [i \in 1 .. m |-> i]
    BY <2>1
  <2>3. q \in Seq(1 .. m)
    BY <2>1, <2>2
  <2>4. Len(q) = m
    BY <2>1, <2>2, <2>3
  <2> QED
    BY <2>1, <2>2, <2>4
<1>3. BestEntry(entries, prompt, tokens) = Bests!FoldOf(c, b, q)
  <2>1. BestEntry(c.entries, c.prompt, c.tokens) = Bests!FoldOf(c, {0}, [i \in DOMAIN c.entries |-> i])
    BY ONLY BestIsFold
  <2>2. [i \in DOMAIN c.entries |-> i] = q
    BY <1>1
  <2> QED
    BY <1>1, <2>1, <2>2, Zenon
<1>4. Len(q) \in Nat /\ DOMAIN q = 1 .. Len(q)
  BY <1>2
<1>5. EntryOrNone(c, 0, b)
  BY <1>1, <1>2 DEF EntryOrNone
<1>6. ASSUME NEW n \in 0 .. Len(q) - 1, NEW v, EntryOrNone(c, n, v)
      PROVE  EntryOrNone(c, n + 1, BetterOf(c, v, q[n + 1]))
  <2>1. BetterOf(c, v, q[n + 1]) \subseteq v \cup {q[n + 1]}
    BY DEF BetterOf
  <2>2. q[n + 1] \in 0 .. Len(entries)
    BY <1>2
  <2> QED
    BY <1>1, <1>6, <2>1, <2>2, Zenon DEF EntryOrNone
<1>7. EntryOrNone(c, Len(q), Bests!FoldOf(c, b, q))
  BY ONLY <1>4, <1>5, <1>6, BestsInvariant
<1> QED
  BY <1>1, <1>3, <1>7, Zenon DEF EntryOrNone

(* A slot gets a prompt and its memory.                                     *)
LEMMA HoldingServer ==
    ASSUME NEW c, NEW w \in Servers(c), NEW s \in 1 .. c.n_slots, NEW tokens \in Tokens, NEW cells \in Cells,
           tokens = <<>> \/ tokens = Toks(cells), w.slot[s].state = "GENERATING" => tokens # <<>>
    PROVE  /\ Holding(w, s, tokens, cells) \in Servers(c)
           /\ SameWork(w, Holding(w, s, tokens, cells))
           /\ Holding(w, s, tokens, cells).states = w.states /\ Holding(w, s, tokens, cells).limit = w.limit
<1> DEFINE x == [w.slot[s] EXCEPT !.prompt = tokens, !.mem = cells]
<1>1. w \in ServerKind(c) /\ SlotsSound(c, w)
  BY DEF Servers
<1>2. w.slot \in [1 .. c.n_slots -> SlotKind]
  BY <1>1, ServerFields
<1>3. w.slot[s] \in SlotKind /\ SlotSound(c, w.slot[s])
  BY <1>1, <1>2 DEF SlotsSound
<1>4. /\ x \in SlotKind /\ x.state = w.slot[s].state /\ x.task = w.slot[s].task
      /\ x.lora = w.slot[s].lora /\ x.prompt = tokens /\ x.mem = cells
  BY <1>3 DEF SlotKind
<1>5. Holding(w, s, tokens, cells) = WithSlot(w, s, x)
  BY Zenon DEF Holding, WithSlot
<1> HIDE DEF x
<1>6. SlotSound(c, x)
  BY <1>3, <1>4, Zenon DEF SlotSound
<1> PICK v : v = WithSlot(w, s, x)
  OBVIOUS
<1>7. v \in Servers(c)
  BY <1>4, <1>6, WithSlotServer
<1>8. /\ v \in ServerKind(c) /\ v.slot[s] = x /\ \A t \in 1 .. c.n_slots : t # s => v.slot[t] = w.slot[t]
      /\ v.lru = w.lru /\ v.states = w.states /\ v.limit = w.limit
      /\ v.tasks = w.tasks /\ v.deferred = w.deferred
  BY <1>1, <1>4, WithSlotFields
<1>9. DOMAIN v.slot = 1 .. c.n_slots /\ DOMAIN w.slot = 1 .. c.n_slots
  <2>1. v.slot \in [1 .. c.n_slots -> SlotKind]
    BY <1>8, ServerFields
  <2> QED
    BY <1>2, <2>1
<1>10. SameWork(w, v)
  BY <1>4, <1>8, <1>9, Zenon DEF SameWork
<1> QED
  BY <1>5, <1>7, <1>8, <1>10

LEMMA PromptClearServer ==
    ASSUME NEW c, NEW w \in Servers(c), NEW s \in 1 .. c.n_slots, w.slot[s].state # "GENERATING"
    PROVE  PromptClear(w, s) \in Servers(c) /\ SameWork(w, PromptClear(w, s))
<1>1. <<>> \in Tokens /\ <<>> \in Cells
  BY DEF Tokens, Cells
<1>2. Holding(w, s, <<>>, <<>>) \in Servers(c) /\ SameWork(w, Holding(w, s, <<>>, <<>>))
  BY <1>1, HoldingServer
<1> QED
  BY <1>2 DEF PromptClear

LEMMA PromptLoadedServers ==
    ASSUME NEW w \in Servers(conf), NEW s \in Slots, w.slot[s].state # "GENERATING", NEW tokens,
           NEW v \in PromptLoaded(w, s, tokens)
    PROVE  v \in Servers(conf) /\ SameWork(w, v)
<1>1. s \in 1 .. conf.n_slots
  BY DEF Slots
<1>2. w \in ServerKind(conf) /\ EntriesSound(w) /\ Tidy(w)
  BY DEF Servers
<1>3. w.states \in Seq(EntryKind)
  BY <1>2, ServerFields
<1> DEFINE loaded(i) == Holding(w, s, w.states[i].tokens, w.states[i].cells)
<1>4. PICK best \in BestEntry(w.states, w.slot[s].prompt, tokens) :
          v \in IF best = 0 THEN {w}
                ELSE {[loaded(best) EXCEPT !.states = RemoveAt(@, best)]}
                     \cup IF conf.fails THEN {PromptClear(w, s)} ELSE {}
  BY Zenon DEF PromptLoaded
<1>5. CASE v = w
  BY <1>5, Zenon DEF SameWork
<1>6. CASE v = PromptClear(w, s)
  BY <1>1, <1>6, PromptClearServer
<1>7. ASSUME best # 0, v = [loaded(best) EXCEPT !.states = RemoveAt(@, best)]
      PROVE  v \in Servers(conf) /\ SameWork(w, v)
  <2>1. best \in DOMAIN w.states
    <3>1. best \in 0 .. Len(w.states)
      BY <1>3, BestEntryFacts
    <3> QED
      BY <1>3, <1>7, <3>1
  <2>2. w.states[best] \in EntryKind
    BY <1>3, <2>1
  <2>3. w.states[best].tokens \in Tokens /\ w.states[best].cells \in Cells
    BY <2>2, EntrySize
  <2>4. w.states[best].tokens = Toks(w.states[best].cells)
    BY <1>2, <2>1, Zenon DEF EntriesSound
  <2>5. /\ loaded(best) \in Servers(conf) /\ SameWork(w, loaded(best))
        /\ loaded(best).states = w.states /\ loaded(best).limit = w.limit
    BY <1>1, <2>3, <2>4, HoldingServer
  <2> PICK x : x = loaded(best)
    OBVIOUS
  <2>6. x \in Servers(conf) /\ SameWork(w, x) /\ x.states = w.states /\ x.limit = w.limit
    BY <2>5
  <2>7. x \in ServerKind(conf)
    BY <2>6 DEF Servers
  <2> PICK q : q = RemoveAt(w.states, best)
    OBVIOUS
  <2>8. q \in Seq(EntryKind) /\ Within(q, w.states)
    BY <1>3, <2>1, RemoveAtWithin
  <2>9. CacheSize(q) <= CacheSize(w.states)
    BY <1>3, <2>1, CacheSizeRemoveAt
  <2>10. CacheSize(q) \in Nat /\ CacheSize(w.states) \in Nat
    BY <1>3, <2>8, CacheSizeType
  <2>11. v = [x EXCEPT !.states = q]
    BY <1>7, <2>6
  <2>12. /\ v \in ServerKind(conf) /\ v.slot = x.slot /\ v.lru = x.lru /\ v.states = q /\ v.limit = x.limit
         /\ v.tasks = x.tasks /\ v.deferred = x.deferred
    BY <2>7, <2>8, <2>11 DEF ServerKind
  <2>13. NoneContained(q) /\ SoundEntries(q)
    <3>1. NoneContained(w.states) /\ SoundEntries(w.states)
      BY <1>2, Zenon DEF Tidy, EntriesSound, SoundEntries
    <3> QED
      BY ONLY <1>3, <2>8, <3>1, FewerEntries
  <2>14. CacheSize(v.states) <= v.limit
    <3>1. CacheSize(w.states) <= w.limit
      BY <1>2 DEF Tidy
    <3>2. w.limit \in Int
      BY <1>2 DEF ServerKind
    <3> QED
      BY <2>6, <2>9, <2>10, <2>12, <3>1, <3>2
  <2>15. v \in Servers(conf)
    BY <2>6, <2>12, <2>13, <2>14, OtherCache
  <2>16. SameWork(x, v)
    BY <2>12, SameSlotsSameWork
  <2> QED
    BY <2>6, <2>15, <2>16, SameWorkTransitive
<1> HIDE DEF loaded
<1> QED
  BY <1>4, <1>5, <1>6, <1>7, Zenon

LEMMA OfferedServers ==
    ASSUME conf \in Confs, NEW w \in Servers(conf), NEW s \in Slots \cup {NoSlot}, NEW r,
           NEW v \in Offered(w, s, r)
    PROVE  v \in Servers(conf) /\ SameWork(w, v)
<1>1. CASE v = w
  BY <1>1, Zenon DEF SameWork
<1>2. ASSUME s # NoSlot, ~Processing(w, s), NEW x \in PromptSaved(w, s),
             v \in PromptLoaded(x, s, Task[r].tokens)
      PROVE  v \in Servers(conf) /\ SameWork(w, v)
  <2>1. s \in Slots
    BY <1>2
  <2>2. x \in Servers(conf) /\ x.slot = w.slot /\ SameWork(w, x)
    BY <2>1, PromptSavedServers
  <2>3. x.slot[s].state # "GENERATING"
    BY <1>2, <2>2 DEF Processing
  <2>4. v \in Servers(conf) /\ SameWork(x, v)
    BY <1>2, <2>1, <2>2, <2>3, PromptLoadedServers
  <2> QED
    BY <2>2, <2>4, SameWorkTransitive
<1>3. \/ v = w
      \/ s # NoSlot /\ ~Processing(w, s) /\ \E x \in PromptSaved(w, s) : v \in PromptLoaded(x, s, Task[r].tokens)
  BY Zenon DEF Offered, Then
<1> QED
  BY <1>1, <1>2, <1>3, Zenon

----------------------------------------------------------------------------
(* The choice of a slot.                                                    *)

LEMMA FreeSlotsFacts ==
    ASSUME NEW w \in Servers(conf), NEW x
    PROVE  /\ FreeSlots(w, x) \in Seq(Slots)
           /\ \A i \in DOMAIN FreeSlots(w, x) : ~Processing(w, FreeSlots(w, x)[i])
<1> DEFINE free  == {s \in Slots \ {x} : ~Processing(w, s)}
           empty == {s \in free : w.slot[s].prompt = <<>>}
<1> PICK a, b : a = Keep(w.lru, empty) /\ b = Keep(w.lru, free \ empty)
  OBVIOUS
<1>1. w.lru \in Seq(Slots)
  BY DEF Servers, ServerKind, Slots
<1>2. /\ a \in Seq(Slots) /\ \A i \in DOMAIN a : a[i] \in empty
      /\ b \in Seq(Slots) /\ \A i \in DOMAIN b : b[i] \in free \ empty
  BY <1>1, KeepWithin
<1>3. FreeSlots(w, x) = a \o b
  BY DEF FreeSlots
<1>4. empty \subseteq free /\ free \ empty \subseteq free
  OBVIOUS
<1>5. \A s \in free : ~Processing(w, s)
  OBVIOUS
<1> HIDE DEF free, empty
<1> PICK S, F : S = Slots /\ F = free
  OBVIOUS
<1>6. a \in Seq(S) /\ b \in Seq(S) /\ (\A i \in DOMAIN a : a[i] \in F) /\ \A i \in DOMAIN b : b[i] \in F
  BY <1>2, <1>4
<1>7. a \o b \in Seq(S) /\ \A i \in DOMAIN (a \o b) : (a \o b)[i] \in F
  <2>1. a \o b \in Seq(S) /\ Len(a \o b) = Len(a) + Len(b) /\ Len(a) \in Nat /\ Len(b) \in Nat
    BY ONLY <1>6
  <2>2. ASSUME NEW i \in DOMAIN (a \o b) PROVE (a \o b)[i] \in F
    <3>1. i \in 1 .. Len(a) + Len(b)
      BY <2>1
    <3>2. CASE i <= Len(a)
      <4>1. i \in DOMAIN a /\ (a \o b)[i] = a[i]
        BY ONLY <1>6, <2>1, <3>1, <3>2
      <4> QED
        BY <1>6, <4>1, Zenon
    <3>3. CASE i > Len(a)
      <4>1. i - Len(a) \in DOMAIN b /\ (a \o b)[i] = b[i - Len(a)]
        BY ONLY <1>6, <2>1, <3>1, <3>3
      <4> QED
        BY <1>6, <4>1, Zenon
    <3>4. i <= Len(a) \/ i > Len(a)
      BY <2>1, <3>1
    <3> QED
      BY <3>2, <3>3, <3>4, Zenon
  <2> QED
    BY <2>1, <2>2
<1> QED
  BY <1>3, <1>5, <1>7

(* A slot's prompt and a task's have a common prefix.                       *)
LEMMA TaskTokens ==
    ASSUME conf \in Confs, NEW r \in DOMAIN Task
    PROVE  Task[r].tokens \in Tokens /\ Task[r].tokens \in Seq(Nat \ {0})
<1>1. Task[r] \in TaskType
  BY TaskFacts DEF Task
<1>2. Task[r].tokens \in Seq(Nat \ {0})
  BY <1>1 DEF TaskType
<1> PICK t : t = Task[r].tokens
  OBVIOUS
<1>3. t \in Seq(Nat)
  BY <1>2
<1> QED
  BY <1>2, <1>3 DEF Tokens

LEMMA MostSimilarFacts ==
    ASSUME conf \in Confs, NEW w \in Servers(conf), NEW r \in DOMAIN Task, Similar(w, r) # {}
    PROVE  MostSimilar(w, r) \in Slots
<1> DEFINE sim(s) == Lcp(w.slot[s].prompt, Task[r].tokens)
           n      == Len(Task[r].tokens)
           far    == {n - sim(s) : s \in Similar(w, r)}
           best   == {s \in Similar(w, r) : \A t \in Similar(w, r) : sim(s) >= sim(t)}
<1>1. Similar(w, r) \subseteq Slots
  BY DEF Similar
<1>2. Slots \subseteq Nat
  <2>1. conf.n_slots \in Nat
    BY ConfFacts
  <2> QED
    BY <2>1 DEF Slots
<1>3. Task[r].tokens \in Seq(Nat) /\ n \in Nat
  BY TaskTokens DEF Tokens
<1>4. ASSUME NEW s \in Slots PROVE sim(s) \in Nat /\ sim(s) <= n
  <2>1. w.slot \in [1 .. conf.n_slots -> SlotKind]
    BY DEF Servers, ServerKind
  <2>2. w.slot[s] \in SlotKind
    BY <2>1 DEF Slots
  <2>3. w.slot[s].prompt \in Seq(Nat)
    BY <2>2 DEF SlotKind, Tokens
  <2> QED
    BY ONLY <1>3, <2>3, LcpFacts
<1> HIDE DEF sim, n
<1>5. far \in SUBSET Nat /\ far # {}
  BY <1>1, <1>3, <1>4
<1>6. PICK x \in far : \A y \in far : x <= y
  <2> HIDE DEF far
  <2> QED
    BY ONLY <1>5, LeastOfNat
<1>7. PICK s \in Similar(w, r) : x = n - sim(s)
  BY <1>6
<1>8. s \in best
  <2> SUFFICES ASSUME NEW t \in Similar(w, r) PROVE sim(s) >= sim(t)
    OBVIOUS
  <2>1. n - sim(t) \in far
    OBVIOUS
  <2>2. x <= n - sim(t)
    BY <1>6, <2>1
  <2>3. sim(s) \in Nat /\ sim(t) \in Nat
    BY <1>1, <1>4
  <2> QED
    BY <1>3, <1>7, <2>2, <2>3
<1>9. best \in SUBSET Nat /\ best # {}
  BY <1>1, <1>2, <1>8
<1>10. MostSimilar(w, r) = Min(best)
  BY DEF MostSimilar, sim
<1>11. Min(best) \in best
  <2> HIDE DEF best
  <2>1. \E y \in best : \A z \in best : y <= z
    BY ONLY <1>9, LeastOfNat
  <2> QED
    BY <2>1, Zenon DEF Min
<1> QED
  BY <1>1, <1>10, <1>11

LEMMA AvailableSlotFacts ==
    ASSUME conf \in Confs, NEW w \in Servers(conf), NEW r \in DOMAIN Task
    PROVE  AvailableSlot(w, r) \in Slots \cup {NoSlot}
<1>1. CASE Pinned(r)
  BY <1>1 DEF Pinned, AvailableSlot
<1>2. CASE ~Pinned(r) /\ Similar(w, r) # {}
  BY <1>2, MostSimilarFacts DEF AvailableSlot
<1>3. CASE ~Pinned(r) /\ Similar(w, r) = {} /\ FreeSlots(w, NoSlot) # <<>>
  <2> PICK q : q = FreeSlots(w, NoSlot)
    OBVIOUS
  <2>1. q \in Seq(Slots) /\ q # <<>>
    BY <1>3, FreeSlotsFacts
  <2>2. Head(q) \in Slots
    BY <2>1
  <2> QED
    BY <1>3, <2>2 DEF AvailableSlot
<1>4. CASE ~Pinned(r) /\ Similar(w, r) = {} /\ FreeSlots(w, NoSlot) = <<>>
  BY <1>4 DEF AvailableSlot
<1> QED
  BY <1>1, <1>2, <1>3, <1>4, Zenon

(* The places of a task and its children: a slot and a task each.           *)
LEMMA PlacesFacts ==
    ASSUME conf \in Confs, NEW w \in Servers(conf), NEW r \in DOMAIN Task, NEW s \in Slots, ~NoRoom(w, s, r),
           Task[r].parent = NoTask
    PROVE  LET p == Places(w, s, r)
           IN  /\ p \in Seq([slot : Slots, task : DOMAIN Task])
               /\ \A i \in DOMAIN p : p[i].task = r \/ Task[p[i].task].parent = r
               /\ \A i, j \in DOMAIN p : p[i].task = p[j].task => i = j
               /\ \A i \in DOMAIN p : w.slot[p[i].slot].state = "IDLE"
<1> DEFINE child == Task[r].children
           free  == FreeSlots(w, s)
           kids  == [i \in DOMAIN child |-> [slot |-> free[i], task |-> child[i]]]
           p     == Append(kids, [slot |-> s, task |-> r])
           m     == Len(child)
<1>1. /\ child \in Seq(1 .. MaxTasks) /\ Distinct(child)
      /\ \A i \in DOMAIN child : child[i] \in DOMAIN Task /\ Task[child[i]].parent = r
  BY ChildFacts DEF Task
<1>2. free \in Seq(Slots)
  BY FreeSlotsFacts
<1>3. m \in Nat /\ DOMAIN child = 1 .. m
  BY <1>1
<1>4. m <= Len(free)
  <2>1. ~(Len(free) < m)
    BY DEF NoRoom
  <2> QED
    BY <1>2, <1>3, <2>1
<1>5. \A i \in 1 .. m : free[i] \in Slots /\ w.slot[free[i]].state = "IDLE"
  <2>1. \A i \in DOMAIN free : ~Processing(w, free[i])
    BY FreeSlotsFacts
  <2>2. \A i \in 1 .. m : i \in DOMAIN free /\ free[i] \in Slots
    BY <1>2, <1>3, <1>4
  <2> QED
    BY <2>1, <2>2, Zenon DEF Processing
<1>6. Places(w, s, r) = p
  BY DEF Places
<1> HIDE DEF child, free, m
<1>7. /\ kids \in Seq([slot : Slots, task : DOMAIN Task]) /\ Len(kids) = m
      /\ \A i \in 1 .. m : kids[i].task = child[i] /\ kids[i].slot = free[i]
  <2>1. kids = [i \in 1 .. m |-> [slot |-> free[i], task |-> child[i]]]
    BY <1>3
  <2>2. \A i \in 1 .. m : [slot |-> free[i], task |-> child[i]] \in [slot : Slots, task : DOMAIN Task]
    BY <1>1, <1>3, <1>5
  <2> QED
    BY <1>3, <2>1, <2>2
<1> HIDE DEF kids
<1>8. /\ p \in Seq([slot : Slots, task : DOMAIN Task]) /\ DOMAIN p = 1 .. m + 1
      /\ p[m + 1].task = r /\ p[m + 1].slot = s
      /\ \A i \in 1 .. m : p[i].task = child[i] /\ p[i].slot = free[i]
  BY <1>3, <1>7
<1> HIDE DEF p
<1>9. \A i \in DOMAIN p : (i \in DOMAIN child /\ p[i].task = child[i]) \/ (i = m + 1 /\ p[i].task = r)
  BY <1>3, <1>8
<1>10. \A i \in DOMAIN child : child[i] # r
  <2> SUFFICES ASSUME NEW i \in DOMAIN child, child[i] = r PROVE FALSE
    OBVIOUS
  <2>1. Task[r].parent = r
    BY <1>1
  <2>2. r \in Tasks
    BY ConfFacts DEF Task
  <2> QED
    BY <2>1, <2>2, ServerSlotsAssumption DEF Tasks
<1>11. \A i \in DOMAIN p : p[i].task = r \/ Task[p[i].task].parent = r
  BY <1>1, <1>9, Zenon
<1>12. ASSUME NEW i \in DOMAIN p, NEW j \in DOMAIN p, p[i].task = p[j].task
       PROVE  i = j
  <2>1. CASE i \in DOMAIN child /\ p[i].task = child[i] /\ j \in DOMAIN child /\ p[j].task = child[j]
    BY <1>1, <1>12, <2>1, Zenon DEF Distinct
  <2>2. CASE i \in DOMAIN child /\ p[i].task = child[i] /\ p[j].task = r
    BY <1>10, <1>12, <2>2, Zenon
  <2>3. CASE p[i].task = r /\ j \in DOMAIN child /\ p[j].task = child[j]
    BY <1>10, <1>12, <2>3, Zenon
  <2> QED
    BY <1>9, <2>1, <2>2, <2>3, Zenon
<1>13. \A i \in DOMAIN p : w.slot[p[i].slot].state = "IDLE"
  <2>1. w.slot[s].state = "IDLE" \/ s = NoSlot
    BY DEF NoRoom, Processing
  <2>2. s # NoSlot
    BY DEF NoRoom
  <2>3. \A i \in DOMAIN p : i \in 1 .. m \/ i = m + 1
    BY <1>3, <1>8
  <2> QED
    BY <1>5, <1>8, <2>1, <2>2, <2>3, Zenon
<1> QED
  BY <1>6, <1>8, <1>11, <1>12, <1>13, Zenon

----------------------------------------------------------------------------
(* Sequences without repetition.                                            *)

LEMMA WithinDistinct ==
    ASSUME NEW R, NEW s \in Seq(R), NEW q \in Seq(R), Within(s, q), Distinct(q)
    PROVE  Distinct(s) /\ ToSet(s) \subseteq ToSet(q)
<1>1. DOMAIN s \subseteq Nat /\ DOMAIN q \subseteq Nat
  OBVIOUS
<1>2. ASSUME NEW a \in DOMAIN s, NEW b \in DOMAIN s, a < b PROVE s[a] # s[b]
  <2>1. PICK i \in DOMAIN q, j \in DOMAIN q : i < j /\ s[a] = q[i] /\ s[b] = q[j]
    BY <1>2, Zenon DEF Within
  <2>2. i # j
    BY <1>1, <2>1
  <2> QED
    BY <2>1, <2>2, Zenon DEF Distinct
<1>3. \A a, b \in DOMAIN s : a = b \/ a < b \/ b < a
  BY <1>1
<1>4. Distinct(s)
  BY <1>2, <1>3, Zenon DEF Distinct
<1>5. ToSet(s) \subseteq ToSet(q)
  BY DEF Within, ToSet
<1> QED
  BY <1>4, <1>5

LEMMA WithoutFacts ==
    ASSUME NEW R, NEW q \in Seq(R), NEW x, Distinct(q)
    PROVE  /\ Without(q, x) \in Seq(R) /\ Distinct(Without(q, x))
           /\ ToSet(Without(q, x)) = ToSet(q) \ {x}
<1> DEFINE s == Without(q, x)
           S == ToSet(q) \ {x}
<1>1. /\ s \in Seq(R) /\ Within(s, q) /\ \A a \in DOMAIN s : s[a] \in S
  BY KeepWithin DEF Without
<1>2. \A i \in 1 .. Len(q) : q[i] \in S => \E a \in 1 .. Len(s) : s[a] = q[i]
  <2>1. Selected(s, q, S, Len(q))
    BY KeepSelects DEF Without
  <2> QED
    BY <2>1 DEF Selected
<1> HIDE DEF s
<1>3. Distinct(s)
  BY <1>1, WithinDistinct
<1>4. DOMAIN s = 1 .. Len(s) /\ DOMAIN q = 1 .. Len(q)
  BY <1>1
<1>5. S \subseteq ToSet(s)
  BY <1>2, <1>4 DEF ToSet
<1>6. ToSet(s) \subseteq S
  BY <1>1, Zenon DEF ToSet
<1> QED
  BY <1>1, <1>3, <1>5, <1>6 DEF s

LEMMA AppendFacts ==
    ASSUME NEW R, NEW q \in Seq(R), NEW x \in R
    PROVE  /\ Append(q, x) \in Seq(R) /\ ToSet(Append(q, x)) = ToSet(q) \cup {x}
           /\ Distinct(q) /\ x \notin ToSet(q) => Distinct(Append(q, x))
<1> PICK p : p = Append(q, x)
  OBVIOUS
<1>1. /\ p \in Seq(R) /\ Len(q) \in Nat /\ DOMAIN q = 1 .. Len(q) /\ DOMAIN p = 1 .. Len(q) + 1
      /\ p[Len(q) + 1] = x /\ \A i \in 1 .. Len(q) : p[i] = q[i]
  OBVIOUS
<1>2. \A i \in DOMAIN p : (i \in DOMAIN q /\ p[i] = q[i]) \/ (i = Len(q) + 1 /\ p[i] = x)
  BY <1>1
<1>3. \A i \in DOMAIN q : i \in DOMAIN p /\ p[i] = q[i]
  BY <1>1
<1>4. Len(q) + 1 \in DOMAIN p /\ p[Len(q) + 1] = x
  BY <1>1
<1>5. ToSet(p) = ToSet(q) \cup {x}
  BY <1>2, <1>3, <1>4 DEF ToSet
<1>6. ASSUME Distinct(q), x \notin ToSet(q), NEW i \in DOMAIN p, NEW j \in DOMAIN p, p[i] = p[j]
      PROVE  i = j
  <2>0. \A k \in DOMAIN q : q[k] # x
    BY <1>6 DEF ToSet
  <2>1. CASE i \in DOMAIN q /\ p[i] = q[i] /\ j \in DOMAIN q /\ p[j] = q[j]
    BY <1>6, <2>1, Zenon DEF Distinct
  <2>2. CASE i \in DOMAIN q /\ p[i] = q[i] /\ p[j] = x
    BY <1>6, <2>0, <2>2, Zenon
  <2>3. CASE p[i] = x /\ j \in DOMAIN q /\ p[j] = q[j]
    BY <1>6, <2>0, <2>3, Zenon
  <2>4. CASE i = Len(q) + 1 /\ j = Len(q) + 1
    BY <2>4
  <2> QED
    BY <1>2, <2>1, <2>2, <2>3, <2>4, Zenon
<1>7. Distinct(q) /\ x \notin ToSet(q) => Distinct(p)
  BY <1>6, Zenon DEF Distinct
<1> QED
  BY <1>1, <1>5, <1>7

LEMMA ConsFacts ==
    ASSUME NEW R, NEW q \in Seq(R), NEW x \in R
    PROVE  /\ <<x>> \o q \in Seq(R) /\ ToSet(<<x>> \o q) = ToSet(q) \cup {x}
           /\ Distinct(q) /\ x \notin ToSet(q) => Distinct(<<x>> \o q)
<1> PICK p : p = <<x>> \o q
  OBVIOUS
<1>1. /\ p \in Seq(R) /\ Len(q) \in Nat /\ DOMAIN q = 1 .. Len(q) /\ DOMAIN p = 1 .. Len(q) + 1
      /\ p[1] = x /\ \A i \in 1 .. Len(q) : p[i + 1] = q[i]
  OBVIOUS
<1>2. \A i \in DOMAIN p : (i - 1 \in DOMAIN q /\ p[i] = q[i - 1]) \/ (i = 1 /\ p[i] = x)
  <2> SUFFICES ASSUME NEW i \in DOMAIN p, i # 1 PROVE i - 1 \in DOMAIN q /\ p[i] = q[i - 1]
    BY <1>1
  <2>1. i - 1 \in 1 .. Len(q) /\ i - 1 + 1 = i
    BY <1>1
  <2> QED
    BY <1>1, <2>1
<1>3. \A i \in DOMAIN q : i + 1 \in DOMAIN p /\ p[i + 1] = q[i]
  BY <1>1
<1>4. 1 \in DOMAIN p /\ p[1] = x
  BY <1>1
<1>5. ToSet(p) = ToSet(q) \cup {x}
  <2>1. ToSet(p) \subseteq ToSet(q) \cup {x}
    BY <1>2, Zenon DEF ToSet
  <2>2. ToSet(q) \subseteq ToSet(p)
    BY <1>3, Zenon DEF ToSet
  <2>3. x \in ToSet(p)
    BY <1>4, Zenon DEF ToSet
  <2> QED
    BY <2>1, <2>2, <2>3
<1>6. ASSUME Distinct(q), x \notin ToSet(q), NEW i \in DOMAIN p, NEW j \in DOMAIN p, p[i] = p[j]
      PROVE  i = j
  <2>0. \A k \in DOMAIN q : q[k] # x
    BY <1>6 DEF ToSet
  <2>1. CASE i - 1 \in DOMAIN q /\ p[i] = q[i - 1] /\ j - 1 \in DOMAIN q /\ p[j] = q[j - 1]
    <3>1. i - 1 = j - 1
      BY <1>6, <2>1, Zenon DEF Distinct
    <3> QED
      BY <1>1, <3>1
  <2>2. CASE i - 1 \in DOMAIN q /\ p[i] = q[i - 1] /\ p[j] = x
    BY <1>6, <2>0, <2>2, Zenon
  <2>3. CASE p[i] = x /\ j - 1 \in DOMAIN q /\ p[j] = q[j - 1]
    BY <1>6, <2>0, <2>3, Zenon
  <2>4. CASE i = 1 /\ j = 1
    BY <2>4
  <2> QED
    BY <1>2, <2>1, <2>2, <2>3, <2>4, Zenon
<1>7. Distinct(q) /\ x \notin ToSet(q) => Distinct(p)
  BY <1>6, Zenon DEF Distinct
<1> QED
  BY <1>1, <1>5, <1>7

LEMMA TailFacts ==
    ASSUME NEW R, NEW q \in Seq(R), q # <<>>
    PROVE  /\ Head(q) \in R /\ Tail(q) \in Seq(R) /\ ToSet(q) = ToSet(Tail(q)) \cup {Head(q)}
           /\ Distinct(q) => Distinct(Tail(q)) /\ Head(q) \notin ToSet(Tail(q))
<1> PICK p, x : p = Tail(q) /\ x = Head(q)
  OBVIOUS
<1>1. /\ x \in R /\ p \in Seq(R) /\ Len(q) \in Nat \ {0} /\ DOMAIN q = 1 .. Len(q)
      /\ DOMAIN p = 1 .. Len(q) - 1 /\ q[1] = x /\ \A i \in 1 .. Len(q) - 1 : p[i] = q[i + 1]
  OBVIOUS
<1>2. \A i \in DOMAIN p : i + 1 \in DOMAIN q /\ p[i] = q[i + 1]
  BY <1>1
<1>3. \A i \in DOMAIN q : i = 1 \/ (i - 1 \in DOMAIN p /\ i - 1 + 1 = i)
  BY <1>1
<1>4. 1 \in DOMAIN q
  BY <1>1
<1>5. ToSet(q) = ToSet(p) \cup {x}
  <2>1. ASSUME NEW i \in DOMAIN q PROVE q[i] \in ToSet(p) \cup {x}
    <3>1. CASE i = 1
      BY <1>1, <3>1
    <3>2. CASE i - 1 \in DOMAIN p /\ i - 1 + 1 = i
      <4>1. p[i - 1] = q[i]
        BY <1>2, <3>2
      <4> QED
        BY <3>2, <4>1 DEF ToSet
    <3> QED
      BY <1>3, <3>1, <3>2
  <2>2. ToSet(p) \subseteq ToSet(q)
    BY <1>2 DEF ToSet
  <2>3. x \in ToSet(q)
    BY <1>1, <1>4 DEF ToSet
  <2>4. ToSet(q) \subseteq ToSet(p) \cup {x}
    BY <2>1 DEF ToSet
  <2> QED
    BY <2>2, <2>3, <2>4
<1>6. ASSUME Distinct(q), NEW i \in DOMAIN p, NEW j \in DOMAIN p, p[i] = p[j] PROVE i = j
  <2>1. i + 1 = j + 1
    BY <1>2, <1>6, Zenon DEF Distinct
  <2> QED
    BY <1>1, <2>1
<1>7. ASSUME Distinct(q), NEW i \in DOMAIN p, p[i] = x PROVE FALSE
  <2>1. i + 1 = 1
    BY <1>1, <1>2, <1>4, <1>7, Zenon DEF Distinct
  <2> QED
    BY <1>1, <2>1
<1>8. Distinct(q) => Distinct(p)
  BY <1>6, Zenon DEF Distinct
<1>9. Distinct(q) => x \notin ToSet(p)
  BY <1>7, Zenon DEF ToSet
<1> QED
  BY <1>1, <1>5, <1>8, <1>9

LEMMA RemoveAtFacts ==
    ASSUME NEW R, NEW q \in Seq(R), NEW k \in DOMAIN q, Distinct(q)
    PROVE  /\ RemoveAt(q, k) \in Seq(R) /\ Distinct(RemoveAt(q, k))
           /\ ToSet(RemoveAt(q, k)) \subseteq ToSet(q) \ {q[k]} /\ q[k] \in ToSet(q)
<1> PICK p : p = RemoveAt(q, k)
  OBVIOUS
<1>1. p \in Seq(R) /\ Within(p, q) /\ \A a \in DOMAIN p : \E i \in DOMAIN q \ {k} : p[a] = q[i]
  BY RemoveAtWithin
<1>2. Distinct(p) /\ ToSet(p) \subseteq ToSet(q)
  BY <1>1, WithinDistinct
<1>3. \A a \in DOMAIN p : p[a] # q[k]
  <2> SUFFICES ASSUME NEW a \in DOMAIN p, p[a] = q[k] PROVE FALSE
    OBVIOUS
  <2>1. PICK i \in DOMAIN q \ {k} : p[a] = q[i]
    BY <1>1
  <2>2. q[i] = q[k] /\ i \in DOMAIN q /\ i # k
    BY <2>1
  <2> QED
    BY <2>2, Zenon DEF Distinct
<1> QED
  BY <1>1, <1>2, <1>3 DEF ToSet

(* A sequence without repetition is as long as the set of its elements.     *)
LEMMA DistinctLength ==
    ASSUME NEW R, NEW q \in Seq(R), Distinct(q), NEW n \in Nat, ToSet(q) = 1 .. n
    PROVE  Len(q) = n
<1> PICK m : m = Len(q)
  OBVIOUS
<1>1. m \in Nat /\ DOMAIN q = 1 .. m
  OBVIOUS
<1>2. q \in Bijection(1 .. m, 1 .. n)
  <2>1. q \in [1 .. m -> 1 .. n]
    <3>1. \A i \in 1 .. m : q[i] \in 1 .. n
      BY <1>1 DEF ToSet
    <3>2. q = [i \in 1 .. m |-> q[i]]
      BY <1>1
    <3> QED
      BY <3>1, <3>2
  <2>2. \A i, j \in 1 .. m : q[i] = q[j] => i = j
    BY <1>1 DEF Distinct
  <2>3. \A t \in 1 .. n : \E i \in 1 .. m : q[i] = t
    <3> SUFFICES ASSUME NEW t \in 1 .. n PROVE \E i \in 1 .. m : q[i] = t
      OBVIOUS
    <3>1. t \in ToSet(q)
      OBVIOUS
    <3> QED
      BY <1>1, <3>1, Zenon DEF ToSet
  <2> QED
    BY <2>1, <2>2, <2>3 DEF Bijection, Injection, Surjection, IsInjective
<1>a. ASSUME NEW k \in Nat PROVE IsFiniteSet(1 .. k) /\ Cardinality(1 .. k) = k
  <2> PICK a : a = 1
    OBVIOUS
  <2>1. a \in Int /\ k \in Int
    OBVIOUS
  <2>2. IsFiniteSet(a .. k) /\ Cardinality(a .. k) = IF a > k THEN 0 ELSE k - a + 1
    BY ONLY <2>1, FS_Interval
  <2>3. (IF a > k THEN 0 ELSE k - a + 1) = k
    OBVIOUS
  <2> QED
    BY <2>2, <2>3
<1>3. IsFiniteSet(1 .. m) /\ Cardinality(1 .. m) = m /\ Cardinality(1 .. n) = n
  BY <1>1, <1>a
<1>4. ExistsBijection(1 .. m, 1 .. n)
  BY <1>2 DEF ExistsBijection
<1>5. Cardinality(1 .. n) = Cardinality(1 .. m)
  BY <1>3, <1>4, FS_Bijection
<1> QED
  BY <1>1, <1>3, <1>5

----------------------------------------------------------------------------
(* Launch and release.                                                      *)

(* The state and the task of slot s change, those of the others do not.     *)
OtherSlotsSame(w, v, s) ==
    /\ v.tasks = w.tasks /\ v.deferred = w.deferred
    /\ DOMAIN v.slot = DOMAIN w.slot
    /\ \A t \in DOMAIN w.slot : t # s => v.slot[t].state = w.slot[t].state /\ v.slot[t].task = w.slot[t].task

LEMMA SlotOf ==
    ASSUME NEW w \in Servers(conf), NEW s \in Slots
    PROVE  /\ w.slot[s] \in SlotKind /\ SlotSound(conf, w.slot[s])
           /\ DOMAIN w.slot = Slots /\ w \in ServerKind(conf)
<1>1. w \in ServerKind(conf) /\ SlotsSound(conf, w)
  BY DEF Servers
<1>2. w.slot \in [1 .. conf.n_slots -> SlotKind]
  BY <1>1, ServerFields
<1> QED
  BY <1>1, <1>2 DEF SlotsSound, Slots

LEMMA WithSlotSame ==
    ASSUME NEW w \in Servers(conf), NEW s \in Slots, NEW x \in SlotKind, SlotSound(conf, x)
    PROVE  /\ WithSlot(w, s, x) \in Servers(conf) /\ OtherSlotsSame(w, WithSlot(w, s, x), s)
           /\ WithSlot(w, s, x).slot[s] = x /\ WithSlot(w, s, x).lru = w.lru
<1> PICK v : v = WithSlot(w, s, x)
  OBVIOUS
<1>1. s \in 1 .. conf.n_slots /\ DOMAIN w.slot = Slots /\ w \in ServerKind(conf)
  BY SlotOf DEF Slots
<1>2. v \in Servers(conf)
  BY <1>1, WithSlotServer
<1>3. /\ v.slot[s] = x /\ \A t \in 1 .. conf.n_slots : t # s => v.slot[t] = w.slot[t]
      /\ v.lru = w.lru /\ v.tasks = w.tasks /\ v.deferred = w.deferred
  BY <1>1, WithSlotFields
<1>4. DOMAIN v.slot = Slots
  BY <1>2, SlotOf
<1>5. OtherSlotsSame(w, v, s)
  BY <1>1, <1>3, <1>4, Zenon DEF OtherSlotsSame, Slots
<1> QED
  BY <1>2, <1>3, <1>5

LEMMA WithLoraServer ==
    ASSUME conf \in Confs, base_lora \in Loras, NEW w \in Servers(conf), NEW s \in Slots,
           NEW r \in DOMAIN Task, w.slot[s].state # "GENERATING"
    PROVE  /\ WithLora(w, s, r) \in Servers(conf) /\ SameWork(w, WithLora(w, s, r))
           /\ WithLora(w, s, r).slot[s].lora \in Loras
<1> DEFINE l == Task[r].lora
           p == IF l # NoLora /\ l # w.slot[s].lora THEN <<>> ELSE w.slot[s].prompt
           m == IF l = NoLora THEN base_lora ELSE l
           x == [w.slot[s] EXCEPT !.lora = m, !.prompt = p]
<1>1. w.slot[s] \in SlotKind /\ SlotSound(conf, w.slot[s]) /\ DOMAIN w.slot = Slots
  BY SlotOf
<1>2. l \in Loras \cup {NoLora}
  <2>1. Task[r] \in TaskType
    BY TaskFacts DEF Task
  <2> QED
    BY <2>1 DEF TaskType
<1>3. m \in Loras
  BY <1>2
<1>4. p \in Tokens /\ (p = <<>> \/ p = w.slot[s].prompt)
  <2>1. w.slot[s].prompt \in Tokens /\ <<>> \in Tokens
    BY <1>1 DEF SlotKind, Tokens
  <2> QED
    BY <2>1
<1>5. WithLora(w, s, r) = WithSlot(w, s, x)
  BY Zenon DEF WithLora, WithSlot
<1> HIDE DEF m, p
<1>6. /\ x \in SlotKind /\ x.state = w.slot[s].state /\ x.task = w.slot[s].task
      /\ x.lora = m /\ x.prompt = p /\ x.mem = w.slot[s].mem
  BY <1>1, <1>3, <1>4 DEF SlotKind
<1> HIDE DEF x
<1>7. SlotSound(conf, x)
  BY <1>1, <1>3, <1>4, <1>6, Zenon DEF SlotSound
<1> PICK v : v = WithSlot(w, s, x)
  OBVIOUS
<1>8. v \in Servers(conf) /\ OtherSlotsSame(w, v, s) /\ v.slot[s] = x /\ v.lru = w.lru
  BY <1>6, <1>7, WithSlotSame
<1>9. SameWork(w, v)
  BY <1>6, <1>8, Zenon DEF SameWork, OtherSlotsSame
<1> QED
  BY <1>3, <1>5, <1>6, <1>8, <1>9

LEMMA LaunchedServer ==
    ASSUME conf \in Confs, base_lora \in Loras, NEW w \in Servers(conf), NEW s \in Slots,
           NEW r \in DOMAIN Task, w.slot[s].state # "GENERATING",
           ~IsChild(r) => Task[r].type \in Scheduled
    PROVE  /\ Launched(w, s, r) \in Servers(conf) /\ OtherSlotsSame(w, Launched(w, s, r), s)
           /\ Launched(w, s, r).slot[s].task = r /\ Launched(w, s, r).slot[s].state # "GENERATING"
<1> PICK v : v = WithLora(w, s, r)
  OBVIOUS
<1>1. v \in Servers(conf) /\ SameWork(w, v) /\ v.slot[s].lora \in Loras
  BY WithLoraServer
<1> DEFINE state == IF IsChild(r) THEN "WAIT_OTHER" ELSE "STARTED"
           x     == [v.slot[s] EXCEPT !.task = r, !.state = state]
<1>2. v.slot[s] \in SlotKind /\ SlotSound(conf, v.slot[s]) /\ DOMAIN v.slot = Slots
  BY <1>1, SlotOf
<1>3. r \in Tasks /\ r # NoTask
  <2>1. r \in Tasks
    BY ConfFacts DEF Task
  <2> QED
    BY <2>1, ServerSlotsAssumption DEF Tasks
<1>4. Launched(w, s, r) = WithSlot(v, s, x)
  BY Zenon DEF Launched, WithSlot
<1>5. state \in {"WAIT_OTHER", "STARTED"} /\ (state = "STARTED" => ~IsChild(r))
  OBVIOUS
<1> HIDE DEF state
<1>6. /\ x \in SlotKind /\ x.state = state /\ x.task = r
      /\ x.lora = v.slot[s].lora /\ x.prompt = v.slot[s].prompt /\ x.mem = v.slot[s].mem
  BY <1>2, <1>3, <1>5 DEF SlotKind
<1> HIDE DEF x
<1>7. x.state # "IDLE" /\ x.state # "GENERATING" /\ (x.state = "STARTED" => conf.task[r].type \in Scheduled)
  BY <1>5, <1>6 DEF Task
<1>8. r \in DOMAIN conf.task
  BY DEF Task
<1>9. SlotSound(conf, x)
  BY <1>1, <1>2, <1>3, <1>6, <1>7, <1>8, Zenon DEF SlotSound
<1> PICK y : y = WithSlot(v, s, x)
  OBVIOUS
<1>10. y \in Servers(conf) /\ OtherSlotsSame(v, y, s) /\ y.slot[s] = x
  BY <1>1, <1>6, <1>9, WithSlotSame
<1>11. OtherSlotsSame(w, y, s)
  BY <1>1, <1>10, Zenon DEF SameWork, OtherSlotsSame
<1> QED
  BY <1>4, <1>6, <1>7, <1>10, <1>11

LEMMA PopDeferredServer ==
    ASSUME NEW w \in Servers(conf), NEW s, Distinct(w.deferred)
    PROVE  LET v == PopDeferred(w, s)
           IN  /\ v \in Servers(conf) /\ v.slot = w.slot
               /\ \/ v.tasks = w.tasks /\ v.deferred = w.deferred
                  \/ \E x \in ToSet(w.deferred) :
                        /\ v.tasks = <<x>> \o w.tasks
                        /\ Distinct(v.deferred) /\ ToSet(v.deferred) \subseteq ToSet(w.deferred) \ {x}
<1> DEFINE test(r) == Task[r].id_slot = s
           i == SelectInSeq(w.deferred, LAMBDA r : Task[r].id_slot = s)
           j == IF i = 0 THEN 1 ELSE i
           I == {k \in 1 .. Len(w.deferred) : Task[w.deferred[k]].id_slot = s}
           v == PopDeferred(w, s)
<1>1. /\ w \in ServerKind(conf) /\ w.tasks \in Seq(DOMAIN conf.task) /\ w.deferred \in Seq(DOMAIN conf.task)
  BY DEF Servers, ServerKind
<1>2. CASE w.deferred = <<>>
  <2>1. v = w
    BY <1>2 DEF PopDeferred
  <2> QED
    BY <2>1
<1>3. ASSUME w.deferred # <<>>
      PROVE  /\ v \in Servers(conf) /\ v.slot = w.slot
             /\ \E x \in ToSet(w.deferred) :
                   /\ v.tasks = <<x>> \o w.tasks
                   /\ Distinct(v.deferred) /\ ToSet(v.deferred) \subseteq ToSet(w.deferred) \ {x}
  <2> PICK d : d = w.deferred
    OBVIOUS
  <2>1. d \in Seq(DOMAIN conf.task) /\ d # <<>> /\ Distinct(d) /\ Len(d) \in Nat \ {0} /\ DOMAIN d = 1 .. Len(d)
    <3>1. d \in Seq(DOMAIN conf.task) /\ d # <<>>
      BY <1>1, <1>3
    <3> QED
      BY <3>1
  <2>2. j \in DOMAIN d
    <3>1. i = IF I # {} THEN Min(I) ELSE 0
      BY Zenon DEF SelectInSeq
    <3>2. I \in SUBSET Nat /\ I \subseteq DOMAIN d
      BY <2>1
    <3>3. I # {} => Min(I) \in I
      <4> HIDE DEF I
      <4> SUFFICES ASSUME I # {} PROVE Min(I) \in I
        OBVIOUS
      <4>1. \E y \in I : \A z \in I : y <= z
        BY ONLY <3>2, I # {}, LeastOfNat
      <4> QED
        BY <4>1, Zenon DEF Min
    <3>4. 1 \in DOMAIN d
      BY <2>1
    <3> HIDE DEF I, i
    <3> QED
      BY <3>1, <3>2, <3>3, <3>4
  <2> PICK k : k = j
    OBVIOUS
  <2>3. k \in DOMAIN d
    BY <2>2
  <2>4. v = WithQueues(w, <<d[k]>> \o w.tasks, RemoveAt(d, k))
    <3>1. PopDeferred(w, s) = IF w.deferred = <<>> THEN w
             ELSE [w EXCEPT !.tasks = <<w.deferred[j]>> \o @, !.deferred = RemoveAt(@, j)]
      BY Zenon DEF PopDeferred
    <3>2. w.deferred[j] = d[k] /\ RemoveAt(w.deferred, j) = RemoveAt(d, k)
      BY Zenon
    <3> HIDE DEF j
    <3>3. v = [w EXCEPT !.tasks = <<w.deferred[j]>> \o w.tasks, !.deferred = RemoveAt(w.deferred, j)]
      BY <1>3, <3>1, Zenon
    <3>4. WithQueues(w, <<d[k]>> \o w.tasks, RemoveAt(d, k))
              = [w EXCEPT !.tasks = <<d[k]>> \o w.tasks, !.deferred = RemoveAt(d, k)]
      BY Zenon DEF WithQueues
    <3> QED
      BY <3>2, <3>3, <3>4, Zenon
  <2> HIDE DEF j, v
  <2>5. /\ RemoveAt(d, k) \in Seq(DOMAIN conf.task) /\ Distinct(RemoveAt(d, k))
        /\ ToSet(RemoveAt(d, k)) \subseteq ToSet(d) \ {d[k]} /\ d[k] \in ToSet(d)
    BY <2>1, <2>3, RemoveAtFacts
  <2>6. d[k] \in DOMAIN conf.task
    BY <2>1, <2>3
  <2>7. <<d[k]>> \o w.tasks \in Seq(DOMAIN conf.task)
    BY <1>1, <2>6, ConsFacts
  <2>8. v \in Servers(conf) /\ v.slot = w.slot /\ v.tasks = <<d[k]>> \o w.tasks /\ v.deferred = RemoveAt(d, k)
    <3> PICK a, b : a = <<d[k]>> \o w.tasks /\ b = RemoveAt(d, k)
      OBVIOUS
    <3>1. a \in Seq(DOMAIN conf.task) /\ b \in Seq(DOMAIN conf.task) /\ v = WithQueues(w, a, b)
      BY <2>4, <2>5, <2>7
    <3>2. w \in Servers(conf)
      OBVIOUS
    <3>3. /\ WithQueues(w, a, b) \in Servers(conf) /\ WithQueues(w, a, b).slot = w.slot
          /\ WithQueues(w, a, b).tasks = a /\ WithQueues(w, a, b).deferred = b
      BY ONLY <3>1, <3>2, WithQueuesServer
    <3> QED
      BY <3>1, <3>3
  <2> QED
    BY <2>5, <2>8
<1> HIDE DEF v
<1> QED
  BY <1>2, <1>3 DEF v

(* The slot that is released, before it wakes a deferred task.              *)
Freed(w, s) ==
    LET r == w.slot[s].task
        v == IF IsChild(r) \/ Stateless(r) THEN PromptClear(w, s) ELSE w
    IN  [v EXCEPT !.slot[s] = [@ EXCEPT !.state = "IDLE", !.task = NoTask],
                  !.lru = Append(Without(@, s), s)]

LEMMA FreedServer ==
    ASSUME NEW w \in Servers(conf), NEW s \in Slots
    PROVE  /\ Freed(w, s) \in Servers(conf) /\ OtherSlotsSame(w, Freed(w, s), s)
           /\ Freed(w, s).slot[s].state = "IDLE" /\ Freed(w, s).slot[s].task = NoTask
<1> DEFINE r == w.slot[s].task
           c == [w.slot[s] EXCEPT !.prompt = <<>>, !.mem = <<>>]
<1> PICK v : v = IF IsChild(r) \/ Stateless(r) THEN PromptClear(w, s) ELSE w
  OBVIOUS
<1>1. w.slot[s] \in SlotKind /\ SlotSound(conf, w.slot[s]) /\ DOMAIN w.slot = Slots /\ w \in ServerKind(conf)
  BY SlotOf
<1>2. s \in 1 .. conf.n_slots /\ Slots = 1 .. conf.n_slots
  BY DEF Slots
<1>3. /\ v \in ServerKind(conf) /\ v.lru = w.lru /\ v.states = w.states /\ v.limit = w.limit
      /\ v.tasks = w.tasks /\ v.deferred = w.deferred
      /\ \A t \in 1 .. conf.n_slots : t # s => v.slot[t] = w.slot[t]
      /\ v.slot[s] \in SlotKind /\ v.slot[s].lora = w.slot[s].lora
      /\ v.slot[s].prompt = <<>> \/ v.slot[s].prompt = Toks(v.slot[s].mem)
  <2>1. CASE v = w
    BY <1>1, <2>1 DEF SlotSound
  <2>2. CASE v = PromptClear(w, s)
    <3>0. <<>> \in Tokens /\ <<>> \in Cells
      BY DEF Tokens, Cells
    <3>1. c \in SlotKind /\ c.prompt = <<>> /\ c.lora = w.slot[s].lora
      BY <1>1, <3>0 DEF SlotKind
    <3>2. PromptClear(w, s) = WithSlot(w, s, c)
      BY Zenon DEF PromptClear, Holding, WithSlot
    <3> HIDE DEF c
    <3>3. /\ v \in ServerKind(conf) /\ v.slot[s] = c
          /\ \A t \in 1 .. conf.n_slots : t # s => v.slot[t] = w.slot[t]
          /\ v.lru = w.lru /\ v.states = w.states /\ v.limit = w.limit
          /\ v.tasks = w.tasks /\ v.deferred = w.deferred
      BY <1>1, <1>2, <2>2, <3>1, <3>2, WithSlotFields
    <3> QED
      BY <3>1, <3>3
  <2> QED
    BY <2>1, <2>2, Zenon
<1> DEFINE x == [v.slot[s] EXCEPT !.state = "IDLE", !.task = NoTask]
           l == Append(Without(w.lru, s), s)
<1>4. Freed(w, s) = [v EXCEPT !.slot[s] = x, !.lru = l]
  <2>1. Freed(w, s) = [v EXCEPT !.slot[s] = [@ EXCEPT !.state = "IDLE", !.task = NoTask],
                                !.lru = Append(Without(@, s), s)]
    BY DEF Freed
  <2> QED
    BY <1>3, <2>1
<1>5. /\ x \in SlotKind /\ x.state = "IDLE" /\ x.task = NoTask /\ x.lora = v.slot[s].lora
      /\ x.prompt = v.slot[s].prompt /\ x.mem = v.slot[s].mem
  BY <1>3 DEF SlotKind
<1>6. l \in Seq(1 .. conf.n_slots) /\ Distinct(l) /\ ToSet(l) = 1 .. conf.n_slots
  <2>1. w.lru \in Seq(1 .. conf.n_slots) /\ Distinct(w.lru) /\ ToSet(w.lru) = 1 .. conf.n_slots
    BY <1>1 DEF Servers, AllSlotsOrdered, ServerKind
  <2> PICK p, R : p = w.lru /\ R = 1 .. conf.n_slots
    OBVIOUS
  <2>a. p \in Seq(R) /\ Distinct(p) /\ ToSet(p) = R /\ s \in R
    BY <1>2, <2>1
  <2> PICK q : q = Without(p, s)
    OBVIOUS
  <2>2. Without(p, s) \in Seq(R) /\ Distinct(Without(p, s)) /\ ToSet(Without(p, s)) = ToSet(p) \ {s}
    BY ONLY <2>a, WithoutFacts
  <2>3. q \in Seq(R) /\ Distinct(q) /\ s \notin ToSet(q) /\ ToSet(q) \cup {s} = R
    BY <2>a, <2>2
  <2>4. Append(q, s) \in Seq(R) /\ Distinct(Append(q, s)) /\ ToSet(Append(q, s)) = R
    <3>1. /\ Append(q, s) \in Seq(R) /\ ToSet(Append(q, s)) = ToSet(q) \cup {s}
          /\ Distinct(q) /\ s \notin ToSet(q) => Distinct(Append(q, s))
      BY ONLY <2>a, <2>3, AppendFacts
    <3> QED
      BY <2>3, <3>1
  <2> QED
    BY <2>4
<1> HIDE DEF x, l
<1> PICK y : y = [v EXCEPT !.slot[s] = x, !.lru = l]
  OBVIOUS
<1>7. /\ y \in ServerKind(conf) /\ y.slot = [v.slot EXCEPT ![s] = x] /\ y.lru = l
      /\ y.states = v.states /\ y.limit = v.limit /\ y.tasks = v.tasks /\ y.deferred = v.deferred
  BY <1>2, <1>3, <1>5, <1>6 DEF ServerKind
<1>8. y.slot[s] = x /\ DOMAIN y.slot = 1 .. conf.n_slots
      /\ \A t \in 1 .. conf.n_slots : t # s => y.slot[t] = w.slot[t]
  <2> PICK R, f, g : R = 1 .. conf.n_slots /\ f = v.slot /\ g = y.slot
    OBVIOUS
  <2>1. f \in [R -> SlotKind]
    BY <1>3, ServerFields
  <2>2. g = [f EXCEPT ![s] = x] /\ s \in R
    BY <1>2, <1>7
  <2>3. g[s] = x /\ DOMAIN g = R /\ \A t \in R : t # s => g[t] = f[t]
    BY ONLY <2>1, <2>2
  <2>4. \A t \in R : t # s => f[t] = w.slot[t]
    BY <1>3
  <2> QED
    BY <2>3, <2>4, Zenon
<1>9. SlotSound(conf, x)
  BY <1>3, <1>5 DEF SlotSound
<1>10. y \in Servers(conf)
  <2>1. SlotsSound(conf, w) /\ EntriesSound(w) /\ Tidy(w)
    BY DEF Servers
  <2>2. SlotsSound(conf, y)
    BY <1>8, <1>9, <2>1, Zenon DEF SlotsSound
  <2>3. EntriesSound(y) /\ Tidy(y)
    <3>1. y.states = w.states /\ y.limit = w.limit
      BY <1>3, <1>7, Zenon
    <3> QED
      BY <2>1, <3>1, Zenon DEF EntriesSound, Tidy
  <2>4. AllSlotsOrdered(conf, y)
    BY <1>6, <1>7, Zenon DEF AllSlotsOrdered
  <2> QED
    BY <1>7, <2>2, <2>3, <2>4, Zenon DEF Servers
<1>11. OtherSlotsSame(w, y, s)
  BY <1>1, <1>2, <1>3, <1>7, <1>8, Zenon DEF OtherSlotsSame
<1> QED
  BY <1>4, <1>5, <1>8, <1>10, <1>11

LEMMA ReleasedIs ==
    ASSUME NEW w, NEW s
    PROVE  Released(w, s) = PopDeferred(Freed(w, s), s)
BY Zenon DEF Released, Freed

----------------------------------------------------------------------------
(* Where the tasks are.                                                     *)

LEMMA SameWorkPlaced ==
    ASSUME NEW c, NEW u, NEW w, NEW v, Placed(c, w, u), SameWork(w, v)
    PROVE  Placed(c, v, u)
<1>1. InSlots(v) = InSlots(w)
  BY DEF SameWork, InSlots
<1>2. Pending(v, u) = Pending(w, u)
  BY DEF SameWork, Pending
<1>3. OneSlotEach(w) => OneSlotEach(v)
  BY Zenon DEF SameWork, OneSlotEach
<1>4. v.tasks = w.tasks /\ v.deferred = w.deferred
  BY DEF SameWork
<1> QED
  BY <1>1, <1>2, <1>3, <1>4 DEF Placed

(* Less is pending and less in the slots.                                   *)
LEMMA FewerPlaced ==
    ASSUME NEW c, NEW u, NEW w, NEW t, NEW v, Placed(c, w, u),
           Distinct(v.tasks), Distinct(v.deferred), ToSet(v.tasks) \cap ToSet(v.deferred) = {},
           t \cap (ToSet(v.tasks) \cup ToSet(v.deferred)) = {}, Pending(v, t) \subseteq Pending(w, u),
           OneSlotEach(v), InSlots(v) \subseteq InSlots(w)
    PROVE  Placed(c, v, t)
<1>1. \A r \in Pending(v, t) : c.task[r].parent = NoTask
  BY DEF Placed
<1>2. \A x \in InSlots(v) : x \notin Pending(v, t) /\ c.task[x].parent \notin Pending(v, t)
  BY DEF Placed
<1> QED
  BY <1>1, <1>2, Zenon DEF Placed

LEMMA FreedPlaced ==
    ASSUME NEW u, NEW w, NEW s, NEW v, Placed(conf, w, u), OtherSlotsSame(w, v, s), v.slot[s].task = NoTask
    PROVE  Placed(conf, v, u)
<1>1. v.tasks = w.tasks /\ v.deferred = w.deferred /\ DOMAIN v.slot = DOMAIN w.slot
  BY DEF OtherSlotsSame
<1>2. \A t \in DOMAIN v.slot : v.slot[t].task = NoTask \/ v.slot[t].task = w.slot[t].task
  BY Zenon DEF OtherSlotsSame
<1>3. InSlots(v) \subseteq InSlots(w)
  BY <1>1, <1>2 DEF InSlots
<1>4. OneSlotEach(w)
  BY DEF Placed
<1>5. OneSlotEach(v)
  BY <1>1, <1>2, <1>4, Zenon DEF OneSlotEach
<1>6. Pending(v, u) \subseteq Pending(w, u)
  BY <1>1 DEF Pending
<1>7. /\ Distinct(v.tasks) /\ Distinct(v.deferred) /\ ToSet(v.tasks) \cap ToSet(v.deferred) = {}
      /\ u \cap (ToSet(v.tasks) \cup ToSet(v.deferred)) = {}
  BY <1>1 DEF Placed
<1> QED
  BY <1>3, <1>5, <1>6, <1>7, FewerPlaced

LEMMA ReleasedServer ==
    ASSUME NEW w \in Servers(conf), NEW s \in Slots, NEW u, Placed(conf, w, u)
    PROVE  Released(w, s) \in Servers(conf) /\ Placed(conf, Released(w, s), u)
<1> PICK x : x = Freed(w, s)
  OBVIOUS
<1>1. x \in Servers(conf) /\ OtherSlotsSame(w, x, s) /\ x.slot[s].task = NoTask
  BY FreedServer
<1>2. Placed(conf, x, u)
  BY <1>1, FreedPlaced
<1>3. Distinct(x.deferred) /\ Distinct(x.tasks) /\ ToSet(x.tasks) \cap ToSet(x.deferred) = {}
      /\ u \cap (ToSet(x.tasks) \cup ToSet(x.deferred)) = {} /\ OneSlotEach(x)
  BY <1>2 DEF Placed
<1> PICK v : v = PopDeferred(x, s)
  OBVIOUS
<1>4. /\ v \in Servers(conf) /\ v.slot = x.slot
      /\ \/ v.tasks = x.tasks /\ v.deferred = x.deferred
         \/ \E d \in ToSet(x.deferred) :
               /\ v.tasks = <<d>> \o x.tasks
               /\ Distinct(v.deferred) /\ ToSet(v.deferred) \subseteq ToSet(x.deferred) \ {d}
  BY <1>1, <1>3, PopDeferredServer
<1>5. InSlots(v) \subseteq InSlots(x) /\ OneSlotEach(v)
  <2>1. v.slot = x.slot
    BY <1>4, Zenon
  <2> QED
    BY <1>3, <2>1 DEF InSlots, OneSlotEach
<1>6. ASSUME v.tasks = x.tasks, v.deferred = x.deferred
      PROVE  Placed(conf, v, u)
  <2>1. /\ Distinct(v.tasks) /\ Distinct(v.deferred) /\ ToSet(v.tasks) \cap ToSet(v.deferred) = {}
        /\ u \cap (ToSet(v.tasks) \cup ToSet(v.deferred)) = {} /\ Pending(v, u) \subseteq Pending(x, u)
    <3>1. ToSet(v.tasks) = ToSet(x.tasks) /\ ToSet(v.deferred) = ToSet(x.deferred)
      BY <1>6, Zenon
    <3>2. Distinct(v.tasks) /\ Distinct(v.deferred)
      BY <1>3, <1>6, Zenon
    <3> QED
      BY <1>3, <3>1, <3>2 DEF Pending
  <2> QED
    BY <1>2, <1>5, <2>1, FewerPlaced
<1>7. ASSUME \E d \in ToSet(x.deferred) :
                 /\ v.tasks = <<d>> \o x.tasks
                 /\ Distinct(v.deferred) /\ ToSet(v.deferred) \subseteq ToSet(x.deferred) \ {d}
      PROVE  Placed(conf, v, u)
  <2> PICK d \in ToSet(x.deferred) :
               /\ v.tasks = <<d>> \o x.tasks
               /\ Distinct(v.deferred) /\ ToSet(v.deferred) \subseteq ToSet(x.deferred) \ {d}
    BY <1>7
  <2>0. /\ v.tasks = <<d>> \o x.tasks
        /\ Distinct(v.deferred) /\ ToSet(v.deferred) \subseteq ToSet(x.deferred) \ {d}
    OBVIOUS
  <2>1. x.tasks \in Seq(DOMAIN conf.task) /\ x.deferred \in Seq(DOMAIN conf.task)
    BY <1>1 DEF Servers, ServerKind
  <2>2. d \in DOMAIN conf.task
    BY <2>1 DEF ToSet
  <2>3. d \notin ToSet(x.tasks)
    BY <1>3
  <2> PICK q : q = x.tasks
    OBVIOUS
  <2>4. Distinct(<<d>> \o q) /\ ToSet(<<d>> \o q) = ToSet(q) \cup {d}
    <3>1. q \in Seq(DOMAIN conf.task) /\ Distinct(q) /\ d \notin ToSet(q)
      BY <1>3, <2>1, <2>3
    <3> QED
      BY ONLY <2>2, <3>1, ConsFacts
  <2>5. Distinct(v.tasks) /\ ToSet(v.tasks) = ToSet(x.tasks) \cup {d}
    BY <2>0, <2>4
  <2>6. ToSet(v.tasks) \cap ToSet(v.deferred) = {} /\ u \cap (ToSet(v.tasks) \cup ToSet(v.deferred)) = {}
    BY <1>3, <2>0, <2>5
  <2>7. Pending(v, u) \subseteq Pending(x, u)
    BY <2>0, <2>5 DEF Pending
  <2> QED
    BY <1>2, <1>5, <2>0, <2>5, <2>6, <2>7, FewerPlaced
<1>8. Placed(conf, v, u)
  BY <1>4, <1>6, <1>7
<1> QED
  BY <1>4, <1>8, ReleasedIs

----------------------------------------------------------------------------
(* The launch of a task and its children.                                   *)

(* The places of a task that is in none, and of its children.               *)
PlacesSound(w, p) ==
    /\ p \in Seq([slot : Slots, task : DOMAIN Task])
    /\ \A i \in DOMAIN p : ~IsChild(p[i].task) => Task[p[i].task].type \in Scheduled
    /\ \A i, j \in DOMAIN p : p[i].task = p[j].task => i = j
    /\ \A i \in DOMAIN p : p[i].task \notin InSlots(w)

LEMMA PlaceOf ==
    ASSUME NEW p \in Seq([slot : Slots, task : DOMAIN Task]), NEW i \in DOMAIN p
    PROVE  p[i].slot \in Slots /\ p[i].task \in DOMAIN Task
<1> PICK R : R = [slot : Slots, task : DOMAIN Task]
  OBVIOUS
<1>1. p \in Seq(R)
  OBVIOUS
<1>2. p[i] \in R
  BY ONLY <1>1, i \in DOMAIN p
<1> QED
  BY <1>2

(* v is what became of w when the tasks of the first n places were          *)
(* launched.                                                                *)
After(w, p, n, v) ==
    /\ v \in Servers(conf) /\ v.tasks = w.tasks /\ v.deferred = w.deferred /\ OneSlotEach(v)
    /\ InSlots(v) \subseteq InSlots(w) \cup {p[i].task : i \in 1 .. n}
    /\ \A i \in DOMAIN p : v.slot[p[i].slot].state # "GENERATING"

LEMMA SameWorkAfter ==
    ASSUME NEW w, NEW p, NEW n, NEW v, NEW y, After(w, p, n, v), SameWork(v, y), y \in Servers(conf),
           p \in Seq([slot : Slots, task : DOMAIN Task])
    PROVE  After(w, p, n, y)
<1>1. /\ v \in Servers(conf) /\ v.tasks = w.tasks /\ v.deferred = w.deferred /\ OneSlotEach(v)
      /\ InSlots(v) \subseteq InSlots(w) \cup {p[i].task : i \in 1 .. n}
      /\ \A i \in DOMAIN p : v.slot[p[i].slot].state # "GENERATING"
  BY DEF After
<1>2. y.tasks = w.tasks /\ y.deferred = w.deferred
  BY <1>1 DEF SameWork
<1>3. InSlots(y) = InSlots(v)
  BY DEF SameWork, InSlots
<1>4. OneSlotEach(y)
  BY <1>1, Zenon DEF SameWork, OneSlotEach
<1>5. ASSUME NEW i \in DOMAIN p PROVE y.slot[p[i].slot].state # "GENERATING"
  <2>1. p[i].slot \in Slots
    BY PlaceOf
  <2>2. p[i].slot \in DOMAIN v.slot
    BY <1>1, <2>1, SlotOf
  <2> QED
    BY <1>1, <2>2, Zenon DEF SameWork
<1> QED
  BY <1>1, <1>2, <1>3, <1>4, <1>5 DEF After

LEMMA LaunchedAfter ==
    ASSUME conf \in Confs, base_lora \in Loras, NEW w, NEW p, PlacesSound(w, p), NEW n \in Nat, n + 1 \in DOMAIN p,
           NEW v, After(w, p, n, v), NEW y, y = Launched(v, p[n + 1].slot, p[n + 1].task)
    PROVE  After(w, p, n + 1, y)
<1> PICK x : x = p[n + 1]
  OBVIOUS
<1>0. /\ p \in Seq([slot : Slots, task : DOMAIN Task])
      /\ \A i \in DOMAIN p : ~IsChild(p[i].task) => Task[p[i].task].type \in Scheduled
      /\ \A i, j \in DOMAIN p : p[i].task = p[j].task => i = j
      /\ \A i \in DOMAIN p : p[i].task \notin InSlots(w)
  BY DEF PlacesSound
<1>2. x.slot \in Slots /\ x.task \in DOMAIN Task
  BY <1>0, PlaceOf
<1>3. /\ v \in Servers(conf) /\ v.tasks = w.tasks /\ v.deferred = w.deferred /\ OneSlotEach(v)
      /\ InSlots(v) \subseteq InSlots(w) \cup {p[i].task : i \in 1 .. n}
      /\ \A i \in DOMAIN p : v.slot[p[i].slot].state # "GENERATING"
  BY DEF After
<1>4. v.slot[x.slot].state # "GENERATING"
  BY <1>3
<1>5. ~IsChild(x.task) => Task[x.task].type \in Scheduled
  BY <1>0
<1>6. y = Launched(v, x.slot, x.task)
  OBVIOUS
<1>7. y \in Servers(conf) /\ OtherSlotsSame(v, y, x.slot) /\ y.slot[x.slot].task = x.task
      /\ y.slot[x.slot].state # "GENERATING"
  BY <1>2, <1>3, <1>4, <1>5, <1>6, LaunchedServer
<1>8. y.tasks = w.tasks /\ y.deferred = w.deferred
  BY <1>3, <1>7 DEF OtherSlotsSame
<1>9. DOMAIN v.slot = Slots /\ DOMAIN y.slot = Slots
  BY <1>2, <1>3, <1>7, SlotOf
<1>10. \A t \in Slots : t = x.slot \/ (y.slot[t].task = v.slot[t].task /\ y.slot[t].state = v.slot[t].state)
  BY <1>7, <1>9, Zenon DEF OtherSlotsSame
<1>11. InSlots(y) \subseteq InSlots(v) \cup {x.task}
  BY <1>7, <1>9, <1>10 DEF InSlots
<1>12. InSlots(y) \subseteq InSlots(w) \cup {p[i].task : i \in 1 .. n + 1}
  <2>1. \A i \in 1 .. n : i \in 1 .. n + 1
    OBVIOUS
  <2>2. n + 1 \in 1 .. n + 1
    OBVIOUS
  <2> QED
    BY <1>3, <1>11, <2>1, <2>2
<1>13. x.task \notin InSlots(v)
  <2>1. x.task \notin InSlots(w)
    BY <1>0
  <2>2. x.task \notin {p[i].task : i \in 1 .. n}
    <3>1. DOMAIN p = 1 .. Len(p)
      BY <1>0
    <3>2. \A i \in 1 .. n : i \in DOMAIN p /\ i # n + 1
      BY <3>1
    <3> QED
      BY <1>0, <3>2
  <2> QED
    BY <1>3, <2>1, <2>2
<1>14. x.task # NoTask
  <2>1. x.task \in Tasks
    BY <1>2, ConfFacts DEF Task
  <2> QED
    BY <2>1, ServerSlotsAssumption DEF Tasks
<1>15. \A t \in Slots : v.slot[t].task # x.task
  BY <1>9, <1>13, <1>14 DEF InSlots
<1>16. OneSlotEach(y)
  <2> SUFFICES ASSUME NEW s \in Slots, NEW t \in Slots, y.slot[s].task = y.slot[t].task, s # t
               PROVE  y.slot[s].task = NoTask
    BY <1>9, Zenon DEF OneSlotEach
  <2>1. CASE s = x.slot
    <3>1. y.slot[t].task = v.slot[t].task
      BY <1>10, <2>1, Zenon
    <3> QED
      BY <1>7, <1>15, <2>1, <3>1, Zenon
  <2>2. CASE t = x.slot
    <3>1. y.slot[s].task = v.slot[s].task
      BY <1>10, <2>2, Zenon
    <3> QED
      BY <1>7, <1>15, <2>2, <3>1, Zenon
  <2>3. CASE s # x.slot /\ t # x.slot
    <3>1. y.slot[s].task = v.slot[s].task /\ y.slot[t].task = v.slot[t].task
      BY <1>10, <2>3, Zenon
    <3>2. v.slot[s].task = v.slot[t].task => s = t \/ v.slot[s].task = NoTask
      BY <1>3, <1>9, Zenon DEF OneSlotEach
    <3> QED
      BY <3>1, <3>2, Zenon
  <2> QED
    BY <2>1, <2>2, <2>3, Zenon
<1>17. ASSUME NEW i \in DOMAIN p PROVE y.slot[p[i].slot].state # "GENERATING"
  <2>1. p[i].slot \in Slots
    BY <1>0, PlaceOf
  <2> QED
    BY <1>3, <1>7, <1>10, <2>1, Zenon
<1> QED
  BY <1>7, <1>8, <1>12, <1>16, <1>17 DEF After

LEMMA SavedForChildFacts ==
    ASSUME conf \in Confs, NEW w \in Servers(conf), NEW x, x.slot \in Slots, NEW v \in SavedForChild(w, x)
    PROVE  v \in Servers(conf) /\ SameWork(w, v)
<1>1. CASE v = w
  BY <1>1, Zenon DEF SameWork
<1>2. CASE v \in PromptSaved(w, x.slot)
  BY <1>2, PromptSavedServers
<1>3. v = w \/ v \in PromptSaved(w, x.slot)
  BY DEF SavedForChild
<1> QED
  BY <1>1, <1>2, <1>3, Zenon

LaunchStep(c, W, x) == UNION {{Launched(v, x.slot, x.task) : v \in SavedForChild(w, x)} : w \in W}

AllAfter(c, n, W) == \A v \in W : After(c.server, c.places, n, v)

Launching == INSTANCE FoldProofs WITH Op <- LaunchStep, Good <- AllAfter

LEMMA LaunchesInvariant ==
    ASSUME NEW c, NEW b, NEW s, Len(s) \in Nat, DOMAIN s = 1 .. Len(s), AllAfter(c, 0, b),
           ASSUME NEW n \in 0 .. Len(s) - 1, NEW v, AllAfter(c, n, v)
           PROVE  AllAfter(c, n + 1, LaunchStep(c, v, s[n + 1]))
    PROVE  AllAfter(c, Len(s), Launching!FoldOf(c, b, s))
<1>1. \A n \in 0 .. Len(s) - 1 : \A v : AllAfter(c, n, v) => AllAfter(c, n + 1, LaunchStep(c, v, s[n + 1]))
  OBVIOUS
<1> QED
  BY ONLY Len(s) \in Nat, DOMAIN s = 1 .. Len(s), AllAfter(c, 0, b), <1>1, Launching!FoldInvariant, Zenon

LEMMA LaunchAllIsFold ==
    ASSUME NEW c, NEW W, NEW p
    PROVE  LaunchAll(W, p) = Launching!FoldOf(c, W, p)
BY Zenon DEF LaunchAll, ForEach, FoldLeft, MapThenFoldSet, Max,
       Launching!FoldOf, Launching!MapThenFoldSet, Launching!Greatest, LaunchStep

LEMMA LaunchAllFacts ==
    ASSUME conf \in Confs, base_lora \in Loras, NEW w, NEW p, PlacesSound(w, p), NEW W,
           \A v \in W : After(w, p, 0, v), NEW q, Len(q) \in Nat, DOMAIN q = 1 .. Len(q), Len(q) <= Len(p),
           \A i \in 1 .. Len(q) : q[i] = p[i]
    PROVE  \A v \in LaunchAll(W, q) : After(w, p, Len(q), v)
<1> PICK c : c = [server |-> w, places |-> p]
  OBVIOUS
<1>1. c.server = w /\ c.places = p
  OBVIOUS
<1>2. AllAfter(c, 0, W)
  BY <1>1 DEF AllAfter
<1>3. ASSUME NEW n \in 0 .. Len(q) - 1, NEW V, AllAfter(c, n, V)
      PROVE  AllAfter(c, n + 1, LaunchStep(c, V, q[n + 1]))
  <2> SUFFICES ASSUME NEW u \in V, NEW v \in SavedForChild(u, q[n + 1]), NEW y,
                      y = Launched(v, q[n + 1].slot, q[n + 1].task)
               PROVE  After(w, p, n + 1, y)
    BY <1>1 DEF AllAfter, LaunchStep
  <2>0. p \in Seq([slot : Slots, task : DOMAIN Task])
    BY DEF PlacesSound
  <2>1. n \in Nat /\ n + 1 \in DOMAIN p /\ q[n + 1] = p[n + 1]
    <3>1. DOMAIN p = 1 .. Len(p) /\ Len(p) \in Nat
      BY <2>0
    <3>2. n + 1 \in 1 .. Len(q)
      OBVIOUS
    <3> QED
      BY <3>1, <3>2
  <2>2. After(w, p, n, u)
    BY <1>1, <1>3 DEF AllAfter
  <2>3. u \in Servers(conf)
    BY <2>2 DEF After
  <2>4. q[n + 1].slot \in Slots
    BY <2>0, <2>1, PlaceOf
  <2>5. v \in Servers(conf) /\ SameWork(u, v)
    BY <2>3, <2>4, SavedForChildFacts
  <2>6. After(w, p, n, v)
    BY <2>0, <2>2, <2>5, SameWorkAfter
  <2>7. y = Launched(v, p[n + 1].slot, p[n + 1].task)
    BY <2>1
  <2> QED
    BY <2>1, <2>6, <2>7, LaunchedAfter
<1>4. AllAfter(c, Len(q), Launching!FoldOf(c, W, q))
  BY ONLY Len(q) \in Nat, DOMAIN q = 1 .. Len(q), <1>2, <1>3, LaunchesInvariant
<1>5. LaunchAll(W, q) = Launching!FoldOf(c, W, q)
  BY LaunchAllIsFold
<1> QED
  BY <1>1, <1>4, <1>5, Zenon DEF AllAfter

LaunchRefused(W, x) == UNION {{WithLora(v, x.slot, x.task) : v \in SavedForChild(w, x)} : w \in W}

LEMMA RefusedAfter ==
    ASSUME conf \in Confs, base_lora \in Loras, NEW w, NEW p, NEW n, NEW k \in DOMAIN p,
           p \in Seq([slot : Slots, task : DOMAIN Task]), NEW W, \A v \in W : After(w, p, n, v),
           NEW y \in LaunchRefused(W, p[k])
    PROVE  After(w, p, n, y)
<1> PICK u \in W : \E v \in SavedForChild(u, p[k]) : y = WithLora(v, p[k].slot, p[k].task)
  BY DEF LaunchRefused
<1> PICK v \in SavedForChild(u, p[k]) : y = WithLora(v, p[k].slot, p[k].task)
  OBVIOUS
<1>1. After(w, p, n, u)
  OBVIOUS
<1>2. p[k].slot \in Slots /\ p[k].task \in DOMAIN Task
  BY PlaceOf
<1>3. u \in Servers(conf)
  BY <1>1 DEF After
<1>4. v \in Servers(conf) /\ SameWork(u, v)
  BY <1>2, <1>3, SavedForChildFacts
<1>5. After(w, p, n, v)
  BY <1>1, <1>4, SameWorkAfter
<1>6. v.slot[p[k].slot].state # "GENERATING"
  BY <1>5 DEF After
<1>7. y \in Servers(conf) /\ SameWork(v, y)
  BY <1>2, <1>4, <1>6, WithLoraServer
<1> QED
  BY <1>5, <1>7, SameWorkAfter

(* Those launched before it are released.                                   *)
ReleaseStep(c, W, s) == UNION {{Released(w, s)} : w \in W}

AllPlaced(c, n, W) == \A w \in W : w \in Servers(conf) /\ Placed(conf, w, c)

Releasing == INSTANCE FoldProofs WITH Op <- ReleaseStep, Good <- AllPlaced

LEMMA ReleasingInvariant ==
    ASSUME NEW c, NEW b, NEW s, Len(s) \in Nat, DOMAIN s = 1 .. Len(s), AllPlaced(c, 0, b),
           ASSUME NEW n \in 0 .. Len(s) - 1, NEW v, AllPlaced(c, n, v)
           PROVE  AllPlaced(c, n + 1, ReleaseStep(c, v, s[n + 1]))
    PROVE  AllPlaced(c, Len(s), Releasing!FoldOf(c, b, s))
<1>1. \A n \in 0 .. Len(s) - 1 : \A v : AllPlaced(c, n, v) => AllPlaced(c, n + 1, ReleaseStep(c, v, s[n + 1]))
  OBVIOUS
<1> QED
  BY ONLY Len(s) \in Nat, DOMAIN s = 1 .. Len(s), AllPlaced(c, 0, b), <1>1, Releasing!FoldInvariant, Zenon

LEMMA ReleasesAreFold ==
    ASSUME NEW c, NEW W, NEW q
    PROVE  ForEach(W, LAMBDA w, s : {Released(w, s)}, q) = Releasing!FoldOf(c, W, q)
BY Zenon DEF ForEach, FoldLeft, MapThenFoldSet, Max,
       Releasing!FoldOf, Releasing!MapThenFoldSet, Releasing!Greatest, ReleaseStep

LEMMA ReleasesFacts ==
    ASSUME NEW u, NEW W, \A w \in W : w \in Servers(conf) /\ Placed(conf, w, u), NEW q \in Seq(Slots)
    PROVE  \A w \in ForEach(W, LAMBDA x, s : {Released(x, s)}, q) : w \in Servers(conf) /\ Placed(conf, w, u)
<1>1. Len(q) \in Nat /\ DOMAIN q = 1 .. Len(q)
  OBVIOUS
<1>2. AllPlaced(u, 0, W)
  BY DEF AllPlaced
<1>3. ASSUME NEW n \in 0 .. Len(q) - 1, NEW V, AllPlaced(u, n, V)
      PROVE  AllPlaced(u, n + 1, ReleaseStep(u, V, q[n + 1]))
  <2>1. q[n + 1] \in Slots
    BY <1>1
  <2>2. ASSUME NEW w \in V
        PROVE  Released(w, q[n + 1]) \in Servers(conf) /\ Placed(conf, Released(w, q[n + 1]), u)
    <3>1. w \in Servers(conf) /\ Placed(conf, w, u)
      BY <1>3 DEF AllPlaced
    <3> QED
      BY <2>1, <3>1, ReleasedServer
  <2> QED
    BY <2>2 DEF AllPlaced, ReleaseStep
<1>4. AllPlaced(u, Len(q), Releasing!FoldOf(u, W, q))
  BY ONLY <1>1, <1>2, <1>3, ReleasingInvariant
<1>5. ForEach(W, LAMBDA w, s : {Released(w, s)}, q) = Releasing!FoldOf(u, W, q)
  BY ReleasesAreFold
<1> QED
  BY <1>4, <1>5, Zenon DEF AllPlaced

(* The prompts of idle slots are saved.                                     *)
VisitStep(c, W, s) ==
    LET visit(w, t) == IF Processing(w, t) THEN {w}
                       ELSE IF conf.kv_unified THEN {PromptClear(v, t) : v \in PromptSaved(w, t)}
                       ELSE PromptSaved(w, t)
    IN  UNION {visit(v, s) : v \in W}

AllSame(c, n, W) == \A v \in W : v \in Servers(conf) /\ \E w \in c : SameWork(w, v)

Visiting == INSTANCE FoldProofs WITH Op <- VisitStep, Good <- AllSame

LEMMA VisitingInvariant ==
    ASSUME NEW c, NEW b, NEW s, Len(s) \in Nat, DOMAIN s = 1 .. Len(s), AllSame(c, 0, b),
           ASSUME NEW n \in 0 .. Len(s) - 1, NEW v, AllSame(c, n, v)
           PROVE  AllSame(c, n + 1, VisitStep(c, v, s[n + 1]))
    PROVE  AllSame(c, Len(s), Visiting!FoldOf(c, b, s))
<1>1. \A n \in 0 .. Len(s) - 1 : \A v : AllSame(c, n, v) => AllSame(c, n + 1, VisitStep(c, v, s[n + 1]))
  OBVIOUS
<1> QED
  BY ONLY Len(s) \in Nat, DOMAIN s = 1 .. Len(s), AllSame(c, 0, b), <1>1, Visiting!FoldInvariant, Zenon

LEMMA IdleCachedIsFold ==
    ASSUME NEW c, NEW W
    PROVE  IdleCached(W) = IF conf.cache_idle_slots THEN Visiting!FoldOf(c, W, [s \in Slots |-> s]) ELSE W
BY Zenon DEF IdleCached, ForEach, FoldLeft, MapThenFoldSet, Max,
       Visiting!FoldOf, Visiting!MapThenFoldSet, Visiting!Greatest, VisitStep

LEMMA VisitServers ==
    ASSUME conf \in Confs, NEW W, NEW s \in Slots, NEW v \in VisitStep({}, W, s), W \subseteq Servers(conf)
    PROVE  v \in Servers(conf) /\ \E w \in W : SameWork(w, v)
<1> PICK w \in W : v \in IF Processing(w, s) THEN {w}
                         ELSE IF conf.kv_unified THEN {PromptClear(x, s) : x \in PromptSaved(w, s)}
                         ELSE PromptSaved(w, s)
  BY DEF VisitStep
<1>1. w \in Servers(conf)
  OBVIOUS
<1>2. CASE v = w
  BY <1>1, <1>2, Zenon DEF SameWork
<1>3. CASE v \in PromptSaved(w, s)
  <2>1. v \in Servers(conf) /\ SameWork(w, v)
    BY <1>1, <1>3, PromptSavedServers
  <2> QED
    BY <2>1
<1>4. ASSUME ~Processing(w, s), NEW x \in PromptSaved(w, s), v = PromptClear(x, s)
      PROVE  v \in Servers(conf) /\ \E y \in W : SameWork(y, v)
  <2>1. x \in Servers(conf) /\ x.slot = w.slot /\ SameWork(w, x)
    BY <1>1, PromptSavedServers
  <2>2. x.slot[s].state # "GENERATING" /\ s \in 1 .. conf.n_slots
    BY <1>4, <2>1 DEF Processing, Slots
  <2>3. v \in Servers(conf) /\ SameWork(x, v)
    BY <1>4, <2>1, <2>2, PromptClearServer
  <2>4. SameWork(w, v)
    BY <2>1, <2>3, SameWorkTransitive
  <2> QED
    BY <2>3, <2>4
<1> QED
  BY <1>2, <1>3, <1>4

LEMMA IdleCachedFacts ==
    ASSUME conf \in Confs, NEW W, W \subseteq Servers(conf), NEW v \in IdleCached(W)
    PROVE  v \in Servers(conf) /\ \E w \in W : SameWork(w, v)
<1> PICK q : q = [s \in Slots |-> s]
  OBVIOUS
<1>1. Len(q) \in Nat /\ DOMAIN q = 1 .. Len(q) /\ \A i \in DOMAIN q : q[i] \in Slots
  <2> PICK n : n = conf.n_slots
    OBVIOUS
  <2>1. n \in Nat /\ q = [s \in 1 .. n |-> s] /\ Slots = 1 .. n
    BY ConfFacts DEF Slots
  <2>2. q \in Seq(1 .. n) /\ DOMAIN q = 1 .. n
    BY <2>1
  <2> QED
    BY <2>1, <2>2
<1>2. AllSame(W, 0, W)
  BY SameSlotsSameWork DEF AllSame
<1>3. ASSUME NEW n \in 0 .. Len(q) - 1, NEW V, AllSame(W, n, V)
      PROVE  AllSame(W, n + 1, VisitStep(W, V, q[n + 1]))
  <2> PICK s : s = q[n + 1]
    OBVIOUS
  <2>1. s \in Slots
    BY <1>1
  <2>2. V \subseteq Servers(conf)
    BY <1>3 DEF AllSame
  <2>3. VisitStep(W, V, s) = VisitStep({}, V, s)
    BY Zenon DEF VisitStep
  <2>4. ASSUME NEW y \in VisitStep(W, V, s) PROVE y \in Servers(conf) /\ \E w \in W : SameWork(w, y)
    <3>1. y \in VisitStep({}, V, s)
      BY <2>3
    <3>2. y \in Servers(conf) /\ \E x \in V : SameWork(x, y)
      BY <2>1, <2>2, <3>1, VisitServers
    <3>3. PICK x \in V : SameWork(x, y)
      BY <3>2
    <3>4. PICK w \in W : SameWork(w, x)
      BY <1>3 DEF AllSame
    <3>5. SameWork(w, y)
      BY <3>3, <3>4, SameWorkTransitive
    <3> QED
      BY <3>2, <3>5
  <2> QED
    BY <2>4 DEF AllSame
<1>4. AllSame(W, Len(q), Visiting!FoldOf(W, W, q))
  BY ONLY <1>1, <1>2, <1>3, VisitingInvariant
<1>5. v \in Visiting!FoldOf(W, W, q) \/ v \in W
  BY IdleCachedIsFold
<1> QED
  BY <1>2, <1>4, <1>5, Zenon DEF AllSame

----------------------------------------------------------------------------
(* A task that was taken from the queue.                                    *)

(* r is nowhere, and neither are its children.                              *)
Away(w, u, r) ==
    /\ r \in DOMAIN Task /\ Task[r].parent = NoTask
    /\ r \notin Pending(w, u)
    /\ \A t \in InSlots(w) : t # r /\ Task[t].parent # r

LEMMA SameWorkAway ==
    ASSUME NEW u, NEW w, NEW v, NEW r, Away(w, u, r), SameWork(w, v)
    PROVE  Away(v, u, r)
<1>1. InSlots(v) = InSlots(w)
  BY DEF SameWork, InSlots
<1>2. Pending(v, u) = Pending(w, u)
  BY DEF SameWork, Pending
<1> QED
  BY <1>1, <1>2 DEF Away

LEMMA PendingTasks ==
    ASSUME conf \in Confs, NEW w \in Servers(conf), NEW u, u \subseteq DOMAIN Task
    PROVE  Pending(w, u) \subseteq DOMAIN Task /\ NoTask \notin Pending(w, u)
<1>1. w.tasks \in Seq(DOMAIN Task) /\ w.deferred \in Seq(DOMAIN Task)
  BY DEF Servers, ServerKind, Task
<1>2. Pending(w, u) \subseteq DOMAIN Task
  BY <1>1 DEF Pending, ToSet
<1>3. DOMAIN Task \subseteq Tasks /\ NoTask \notin Tasks
  BY ConfFacts, ServerSlotsAssumption DEF Task, Tasks
<1> QED
  BY <1>2, <1>3

LEMMA TakenFacts ==
    ASSUME ServerInv, PlaceInv, NEW r, NEW types, Takes(r, types)
    PROVE  /\ Taken \in Servers(conf) /\ Placed(conf, Taken, unposted) /\ Away(Taken, unposted, r)
           /\ Task[r].type \in types /\ Taken.slot = slot
<1>1. conf \in Confs /\ Srv \in Servers(conf) /\ unposted \subseteq DOMAIN Task
  BY DEF ServerInv
<1> PICK w : w = Srv
  OBVIOUS
<1>2. w.slot = slot /\ w.tasks = queue_tasks /\ w.deferred = queue_tasks_deferred
  BY DEF Srv
<1>3. w \in Servers(conf) /\ Placed(conf, w, unposted)
  BY <1>1 DEF PlaceInv
<1>4. w.tasks \in Seq(DOMAIN conf.task) /\ w.deferred \in Seq(DOMAIN conf.task) /\ w \in ServerKind(conf)
  BY <1>3 DEF Servers, ServerKind
<1> PICK q : q = w.tasks
  OBVIOUS
<1>5. q # <<>> /\ r = Head(q) /\ Task[r].type \in types
  BY <1>2 DEF Takes
<1> PICK R : R = DOMAIN conf.task
  OBVIOUS
<1>6. q \in Seq(R) /\ Distinct(q)
  BY <1>3, <1>4 DEF Placed
<1>7. /\ Head(q) \in R /\ Tail(q) \in Seq(R) /\ ToSet(q) = ToSet(Tail(q)) \cup {Head(q)}
      /\ Distinct(Tail(q)) /\ Head(q) \notin ToSet(Tail(q))
  BY ONLY <1>5, <1>6, TailFacts
<1> PICK v : v = WithQueues(w, Tail(q), w.deferred)
  OBVIOUS
<1>8. v \in Servers(conf) /\ v.slot = w.slot /\ v.tasks = Tail(q) /\ v.deferred = w.deferred
  <2> PICK a : a = Tail(q)
    OBVIOUS
  <2> PICK d : d = w.deferred
    OBVIOUS
  <2>1. a \in Seq(DOMAIN conf.task) /\ d \in Seq(DOMAIN conf.task)
    BY <1>4, <1>7
  <2>2. /\ WithQueues(w, a, d) \in Servers(conf) /\ WithQueues(w, a, d).slot = w.slot
        /\ WithQueues(w, a, d).tasks = a /\ WithQueues(w, a, d).deferred = d
    BY ONLY <1>3, <2>1, WithQueuesServer
  <2> QED
    BY <2>2
<1>9. Taken = v
  <2>1. w = [slot |-> w.slot, lru |-> w.lru, states |-> w.states, limit |-> w.limit,
             tasks |-> w.tasks, deferred |-> w.deferred]
    BY <1>4, ServerFields
  <2>2. [w EXCEPT !.tasks = Tail(@)] = [w EXCEPT !.tasks = Tail(q), !.deferred = w.deferred]
    BY <2>1
  <2> QED
    BY <2>2 DEF Taken, WithQueues
<1>10. Placed(conf, v, unposted)
  <2>1. InSlots(v) \subseteq InSlots(w) /\ OneSlotEach(v)
    <3>1. OneSlotEach(w)
      BY <1>3 DEF Placed
    <3> QED
      BY <1>8, <3>1 DEF InSlots, OneSlotEach
  <2>2. ToSet(v.tasks) \subseteq ToSet(w.tasks) /\ ToSet(v.deferred) = ToSet(w.deferred)
    BY <1>7, <1>8
  <2>3. Pending(v, unposted) \subseteq Pending(w, unposted)
    BY <2>2 DEF Pending
  <2>4. Distinct(v.tasks) /\ Distinct(v.deferred) /\ ToSet(v.tasks) \cap ToSet(v.deferred) = {}
        /\ unposted \cap (ToSet(v.tasks) \cup ToSet(v.deferred)) = {}
    BY <1>3, <1>7, <1>8, <2>2 DEF Placed
  <2> QED
    BY <1>3, <2>1, <2>3, <2>4, FewerPlaced
<1>11. Away(v, unposted, r)
  <2>1. r \in ToSet(w.tasks) /\ r \notin ToSet(v.tasks)
    BY <1>5, <1>7, <1>8
  <2>2. r \in Pending(w, unposted)
    BY <2>1 DEF Pending
  <2>3. Task[r].parent = NoTask
    BY <1>3, <2>2 DEF Placed, Task
  <2>4. r \notin ToSet(v.deferred) /\ r \notin unposted
    BY <1>3, <1>8, <2>1 DEF Placed
  <2>5. InSlots(v) = InSlots(w)
    BY <1>8 DEF InSlots
  <2>6. \A t \in InSlots(v) : t # r /\ Task[t].parent # r
    BY <1>3, <2>2, <2>5 DEF Placed, Task
  <2>7. r \in DOMAIN Task
    BY <1>5, <1>7 DEF Task
  <2> QED
    BY <2>1, <2>3, <2>4, <2>6, <2>7 DEF Away, Pending
<1> QED
  BY <1>2, <1>5, <1>8, <1>9, <1>10, <1>11

(* It is deferred.                                                          *)
LEMMA DeferredServer ==
    ASSUME conf \in Confs, NEW w \in Servers(conf), NEW u, Placed(conf, w, u), NEW r, Away(w, u, r)
    PROVE  [w EXCEPT !.deferred = Append(@, r)] \in Servers(conf)
           /\ Placed(conf, [w EXCEPT !.deferred = Append(@, r)], u)
<1>1. w.tasks \in Seq(DOMAIN conf.task) /\ w.deferred \in Seq(DOMAIN conf.task) /\ w \in ServerKind(conf)
  BY DEF Servers, ServerKind
<1> PICK q : q = w.deferred
  OBVIOUS
<1> PICK R : R = DOMAIN conf.task
  OBVIOUS
<1>2. /\ Distinct(w.tasks) /\ Distinct(w.deferred) /\ ToSet(w.tasks) \cap ToSet(w.deferred) = {}
      /\ u \cap (ToSet(w.tasks) \cup ToSet(w.deferred)) = {} /\ OneSlotEach(w)
      /\ \A x \in Pending(w, u) : conf.task[x].parent = NoTask
      /\ \A t \in InSlots(w) : t \notin Pending(w, u) /\ conf.task[t].parent \notin Pending(w, u)
  BY DEF Placed
<1>3. /\ r \in R /\ conf.task[r].parent = NoTask /\ r \notin u /\ r \notin ToSet(w.tasks) /\ r \notin ToSet(w.deferred)
      /\ \A t \in InSlots(w) : t # r /\ conf.task[t].parent # r
  BY DEF Away, Pending, Task
<1>4. q \in Seq(R) /\ Distinct(q) /\ r \notin ToSet(q)
  BY <1>1, <1>2, <1>3
<1>5. Append(q, r) \in Seq(R) /\ ToSet(Append(q, r)) = ToSet(q) \cup {r} /\ Distinct(Append(q, r))
  BY ONLY <1>3, <1>4, AppendFacts
<1> PICK v : v = WithQueues(w, w.tasks, Append(q, r))
  OBVIOUS
<1>6. v \in Servers(conf) /\ v.slot = w.slot /\ v.tasks = w.tasks /\ v.deferred = Append(q, r)
  <2> PICK a : a = w.tasks
    OBVIOUS
  <2> PICK d : d = Append(q, r)
    OBVIOUS
  <2>1. a \in Seq(DOMAIN conf.task) /\ d \in Seq(DOMAIN conf.task)
    BY <1>1, <1>5
  <2>2. /\ WithQueues(w, a, d) \in Servers(conf) /\ WithQueues(w, a, d).slot = w.slot
        /\ WithQueues(w, a, d).tasks = a /\ WithQueues(w, a, d).deferred = d
    BY ONLY w \in Servers(conf), <2>1, WithQueuesServer
  <2> QED
    BY <2>2
<1>7. [w EXCEPT !.deferred = Append(@, r)] = v
  <2>1. w = [slot |-> w.slot, lru |-> w.lru, states |-> w.states, limit |-> w.limit,
             tasks |-> w.tasks, deferred |-> w.deferred]
    BY <1>1, ServerFields
  <2>2. [w EXCEPT !.deferred = Append(@, r)] = [w EXCEPT !.tasks = w.tasks, !.deferred = Append(q, r)]
    BY <2>1
  <2> QED
    BY <2>2 DEF WithQueues
<1>8. InSlots(v) = InSlots(w) /\ OneSlotEach(v)
  BY <1>2, <1>6 DEF InSlots, OneSlotEach
<1>9. Pending(v, u) = Pending(w, u) \cup {r}
  BY <1>5, <1>6 DEF Pending
<1>10. /\ Distinct(v.tasks) /\ Distinct(v.deferred) /\ ToSet(v.tasks) \cap ToSet(v.deferred) = {}
       /\ u \cap (ToSet(v.tasks) \cup ToSet(v.deferred)) = {}
  <2>1. ToSet(v.tasks) = ToSet(w.tasks) /\ ToSet(v.deferred) = ToSet(w.deferred) \cup {r}
    BY <1>5, <1>6
  <2>2. Distinct(v.tasks) /\ Distinct(v.deferred)
    BY <1>2, <1>5, <1>6, Zenon
  <2> QED
    BY <1>2, <1>3, <2>1, <2>2
<1>11. \A x \in Pending(v, u) : conf.task[x].parent = NoTask
  BY <1>2, <1>3, <1>9
<1>12. \A t \in InSlots(v) : t \notin Pending(v, u) /\ conf.task[t].parent \notin Pending(v, u)
  BY <1>2, <1>3, <1>8, <1>9
<1>13. Placed(conf, v, u)
  BY <1>8, <1>10, <1>11, <1>12, Zenon DEF Placed
<1> QED
  BY <1>6, <1>7, <1>13

(* It is launched, with its children.                                       *)
LEMMA AwayPlaces ==
    ASSUME conf \in Confs, NEW w \in Servers(conf), NEW u, NEW r, Away(w, u, r),
           NEW s \in Slots, ~NoRoom(w, s, r), Task[r].type \in Scheduled
    PROVE  LET p == Places(w, s, r)
           IN  /\ PlacesSound(w, p)
               /\ \A i \in DOMAIN p : p[i].task = r \/ Task[p[i].task].parent = r
               /\ \A i \in DOMAIN p : w.slot[p[i].slot].state = "IDLE"
<1> PICK p : p = Places(w, s, r)
  OBVIOUS
<1>1. /\ r \in DOMAIN Task /\ Task[r].parent = NoTask
      /\ \A t \in InSlots(w) : t # r /\ Task[t].parent # r
  BY DEF Away
<1>2. /\ p \in Seq([slot : Slots, task : DOMAIN Task])
      /\ \A i \in DOMAIN p : p[i].task = r \/ Task[p[i].task].parent = r
      /\ \A i, j \in DOMAIN p : p[i].task = p[j].task => i = j
      /\ \A i \in DOMAIN p : w.slot[p[i].slot].state = "IDLE"
  BY <1>1, PlacesFacts
<1>3. r # NoTask
  <2>1. r \in Tasks
    BY <1>1, ConfFacts DEF Task
  <2> QED
    BY <2>1, ServerSlotsAssumption DEF Tasks
<1>4. \A i \in DOMAIN p : p[i].task \notin InSlots(w)
  BY <1>1, <1>2
<1>5. \A i \in DOMAIN p : ~IsChild(p[i].task) => Task[p[i].task].type \in Scheduled
  BY <1>2, <1>3 DEF IsChild
<1>6. PlacesSound(w, p)
  BY <1>2, <1>4, <1>5, Zenon DEF PlacesSound
<1> QED
  BY <1>2, <1>6

LEMMA AfterPlaced ==
    ASSUME conf \in Confs, NEW w \in Servers(conf), NEW u, u \subseteq DOMAIN Task, Placed(conf, w, u),
           NEW r, Away(w, u, r), NEW p, NEW n, \A i \in 1 .. n : p[i].task = r \/ Task[p[i].task].parent = r,
           NEW v, After(w, p, n, v)
    PROVE  v \in Servers(conf) /\ Placed(conf, v, u)
<1>1. /\ v \in Servers(conf) /\ v.tasks = w.tasks /\ v.deferred = w.deferred /\ OneSlotEach(v)
      /\ InSlots(v) \subseteq InSlots(w) \cup {p[i].task : i \in 1 .. n}
  BY DEF After
<1>2. /\ Distinct(w.tasks) /\ Distinct(w.deferred) /\ ToSet(w.tasks) \cap ToSet(w.deferred) = {}
      /\ u \cap (ToSet(w.tasks) \cup ToSet(w.deferred)) = {}
      /\ \A x \in Pending(w, u) : conf.task[x].parent = NoTask
      /\ \A t \in InSlots(w) : t \notin Pending(w, u) /\ conf.task[t].parent \notin Pending(w, u)
  BY DEF Placed
<1>3. Pending(v, u) = Pending(w, u)
  BY <1>1 DEF Pending
<1>4. NoTask \notin Pending(w, u)
  BY PendingTasks
<1>5. r \in DOMAIN Task /\ conf.task[r].parent = NoTask /\ r \notin Pending(w, u)
  BY DEF Away, Task
<1>6. r # NoTask
  <2>1. r \in Tasks
    BY <1>5, ConfFacts DEF Task
  <2> QED
    BY <2>1, ServerSlotsAssumption DEF Tasks
<1>7. \A i \in 1 .. n : p[i].task \notin Pending(w, u) /\ conf.task[p[i].task].parent \notin Pending(w, u)
  <2> SUFFICES ASSUME NEW i \in 1 .. n
               PROVE  p[i].task \notin Pending(w, u) /\ conf.task[p[i].task].parent \notin Pending(w, u)
    OBVIOUS
  <2>1. p[i].task = r \/ conf.task[p[i].task].parent = r
    BY DEF Task
  <2>2. CASE p[i].task = r
    BY <1>4, <1>5, <2>2
  <2>3. CASE conf.task[p[i].task].parent = r
    BY <1>2, <1>5, <1>6, <2>3
  <2> QED
    BY <2>1, <2>2, <2>3
<1>8. \A t \in InSlots(v) : t \notin Pending(v, u) /\ conf.task[t].parent \notin Pending(v, u)
  <2> SUFFICES ASSUME NEW t \in InSlots(v)
               PROVE  t \notin Pending(w, u) /\ conf.task[t].parent \notin Pending(w, u)
    BY <1>3
  <2>1. t \in InSlots(w) \/ \E i \in 1 .. n : t = p[i].task
    BY <1>1
  <2> QED
    BY <1>2, <1>7, <2>1
<1>9. Placed(conf, v, u)
  BY <1>1, <1>2, <1>3, <1>8, Zenon DEF Placed
<1> QED
  BY <1>1, <1>9

----------------------------------------------------------------------------
(* The steps.                                                               *)

LEMMA BecomeFacts ==
    ASSUME NEW w \in Servers(conf), Become(w)
    PROVE  Srv' = w
<1>1. w \in ServerKind(conf)
  BY DEF Servers
<1>2. w = [slot |-> w.slot, lru |-> w.lru, states |-> w.states, limit |-> w.limit,
           tasks |-> w.tasks, deferred |-> w.deferred]
  BY <1>1, ServerFields
<1>3. /\ slot' = w.slot /\ lru' = w.lru /\ states' = w.states /\ limit_size' = w.limit
      /\ queue_tasks' = w.tasks /\ queue_tasks_deferred' = w.deferred
  BY DEF Become
<1> QED
  BY <1>2, <1>3, Zenon DEF Srv

LEMMA StepFacts ==
    ASSUME ServerInv, NEW w \in Servers(conf), Become(w), Placed(conf, w, unposted'), unposted' \subseteq unposted,
           conf' = conf, base_lora' \in Loras, file' \in Seq(EntryKind), FileSound(file')
    PROVE  ServerInv' /\ PlaceInv'
<1>1. Srv' = w
  BY BecomeFacts
<1>2. conf' \in Confs /\ unposted' \subseteq DOMAIN Task'
  BY DEF ServerInv, Task
<1>3. Srv' \in Servers(conf') /\ Placed(conf', Srv', unposted')
  BY <1>1, Zenon
<1>4. PlaceInv'
  BY <1>3 DEF PlaceInv
<1>5. ServerInv'
  BY <1>2, <1>3 DEF ServerInv
<1> QED
  BY <1>4, <1>5

LEMMA SameFile ==
    ASSUME ServerInv, UNCHANGED <<conf, base_lora, file>>
    PROVE  conf' = conf /\ base_lora' \in Loras /\ file' \in Seq(EntryKind) /\ FileSound(file')
BY DEF ServerInv

(* A task that needs a slot, whose prompt was saved or replaced.            *)
LEMMA OfferedFacts ==
    ASSUME ServerInv, PlaceInv, NEW r, NEW types, Takes(r, types), NEW s \in Slots \cup {NoSlot},
           NEW w \in Offered(Taken, s, r)
    PROVE  /\ w \in Servers(conf) /\ SameWork(Taken, w)
           /\ Placed(conf, w, unposted) /\ Away(w, unposted, r)
<1>1. conf \in Confs
  BY DEF ServerInv
<1>2. Taken \in Servers(conf) /\ Placed(conf, Taken, unposted) /\ Away(Taken, unposted, r)
  BY TakenFacts
<1> PICK v : v = Taken
  OBVIOUS
<1>3. w \in Servers(conf) /\ SameWork(v, w)
  BY <1>1, <1>2, OfferedServers
<1> QED
  BY <1>2, <1>3, SameWorkPlaced, SameWorkAway

LEMMA ChosenSlot ==
    ASSUME ServerInv, PlaceInv, NEW r, NEW types, Takes(r, types)
    PROVE  AvailableSlot(Taken, r) \in Slots \cup {NoSlot}
<1>1. conf \in Confs
  BY DEF ServerInv
<1>2. Taken \in Servers(conf) /\ r \in DOMAIN Task
  BY TakenFacts DEF Away
<1> QED
  BY <1>1, <1>2, AvailableSlotFacts

LEMMA DeferTaskStep ==
    ASSUME ServerInv, PlaceInv, NEW r, DeferTask(r)
    PROVE  ServerInv' /\ PlaceInv'
<1>1. conf \in Confs
  BY DEF ServerInv
<1>2. Takes(r, Scheduled) /\ UNCHANGED <<conf, unposted, base_lora, file>>
  BY DEF DeferTask
<1> PICK s : s = AvailableSlot(Taken, r)
  OBVIOUS
<1>3. s \in Slots \cup {NoSlot}
  BY <1>2, ChosenSlot
<1>4. \E w \in Offered(Taken, s, r) : Become([w EXCEPT !.deferred = Append(@, r)])
  BY DEF DeferTask
<1>5. PICK w \in Offered(Taken, s, r) : Become([w EXCEPT !.deferred = Append(@, r)])
  BY <1>4
<1>6. w \in Servers(conf) /\ Placed(conf, w, unposted) /\ Away(w, unposted, r)
  BY <1>2, <1>3, OfferedFacts
<1> PICK v : v = [w EXCEPT !.deferred = Append(@, r)]
  OBVIOUS
<1>7. v \in Servers(conf) /\ Placed(conf, v, unposted)
  BY <1>1, <1>6, DeferredServer
<1>8. Become(v)
  BY <1>5
<1>9. conf' = conf /\ base_lora' \in Loras /\ file' \in Seq(EntryKind) /\ FileSound(file')
  BY <1>2, SameFile
<1>10. unposted' = unposted
  BY <1>2
<1> QED
  BY <1>7, <1>8, <1>9, <1>10, StepFacts

(* What the slot is offered does not count as a launch.                     *)
LEMMA OfferedAfter ==
    ASSUME ServerInv, PlaceInv, NEW r, Takes(r, Scheduled), NEW s \in Slots, ~NoRoom(Taken, s, r),
           NEW p, p = Places(Taken, s, r)
    PROVE  /\ PlacesSound(Taken, p)
           /\ \A i \in DOMAIN p : p[i].task = r \/ Task[p[i].task].parent = r
           /\ \A v \in Offered(Taken, s, r) : After(Taken, p, 0, v)
<1>1. conf \in Confs
  BY DEF ServerInv
<1>2. /\ Taken \in Servers(conf) /\ Placed(conf, Taken, unposted) /\ Away(Taken, unposted, r)
      /\ Task[r].type \in Scheduled
  BY TakenFacts
<1> PICK w : w = Taken
  OBVIOUS
<1>3. /\ PlacesSound(w, p)
      /\ \A i \in DOMAIN p : p[i].task = r \/ Task[p[i].task].parent = r
      /\ \A i \in DOMAIN p : w.slot[p[i].slot].state = "IDLE"
  BY <1>1, <1>2, AwayPlaces
<1>4. ASSUME NEW v \in Offered(Taken, s, r) PROVE After(w, p, 0, v)
  <2>1. v \in Servers(conf) /\ SameWork(w, v)
    BY OfferedFacts
  <2>2. w \in Servers(conf) /\ OneSlotEach(w)
    BY <1>2 DEF Placed
  <2>3. \A i \in DOMAIN p : w.slot[p[i].slot].state # "GENERATING"
    BY <1>3
  <2>4. After(w, p, 0, w)
    BY <2>2, <2>3 DEF After
  <2>5. p \in Seq([slot : Slots, task : DOMAIN Task])
    BY <1>3 DEF PlacesSound
  <2> QED
    BY <2>1, <2>4, <2>5, SameWorkAfter
<1> QED
  BY <1>3, <1>4

LEMMA LaunchTaskStep ==
    ASSUME ServerInv, PlaceInv, NEW r, LaunchTask(r)
    PROVE  ServerInv' /\ PlaceInv'
<1>1. conf \in Confs /\ base_lora \in Loras /\ unposted \subseteq DOMAIN Task
  BY DEF ServerInv
<1>2. Takes(r, Scheduled) /\ UNCHANGED <<conf, unposted, base_lora, file>>
  BY DEF LaunchTask
<1> PICK s : s = AvailableSlot(Taken, r)
  OBVIOUS
<1> PICK p : p = Places(Taken, s, r)
  OBVIOUS
<1> PICK W : W = LaunchAll(Offered(Taken, s, r), p)
  OBVIOUS
<1>3. ~NoRoom(Taken, s, r) /\ \E w \in IdleCached(W) : Become(w)
  BY DEF LaunchTask
<1>4. s \in Slots
  <2>1. s \in Slots \cup {NoSlot}
    BY <1>2, ChosenSlot
  <2> QED
    BY <1>3, <2>1 DEF NoRoom
<1>5. PICK w \in IdleCached(W) : Become(w)
  BY <1>3
<1> PICK t : t = Taken
  OBVIOUS
<1>6. /\ PlacesSound(t, p)
      /\ \A i \in DOMAIN p : p[i].task = r \/ Task[p[i].task].parent = r
      /\ \A v \in Offered(Taken, s, r) : After(t, p, 0, v)
  BY <1>2, <1>3, <1>4, OfferedAfter
<1>7. Len(p) \in Nat /\ DOMAIN p = 1 .. Len(p) /\ Len(p) <= Len(p) /\ \A i \in 1 .. Len(p) : p[i] = p[i]
  <2>1. p \in Seq([slot : Slots, task : DOMAIN Task])
    BY <1>6 DEF PlacesSound
  <2> QED
    BY <2>1
<1>8. \A v \in W : After(t, p, Len(p), v)
  BY <1>1, <1>6, <1>7, LaunchAllFacts
<1>9. t \in Servers(conf) /\ Placed(conf, t, unposted) /\ Away(t, unposted, r)
  BY <1>2, TakenFacts
<1>10. \A i \in 1 .. Len(p) : p[i].task = r \/ Task[p[i].task].parent = r
  BY <1>6, <1>7
<1>11. \A v \in W : v \in Servers(conf) /\ Placed(conf, v, unposted)
  <2> SUFFICES ASSUME NEW v \in W PROVE v \in Servers(conf) /\ Placed(conf, v, unposted)
    OBVIOUS
  <2> PICK n : n = Len(p)
    OBVIOUS
  <2>1. After(t, p, n, v) /\ \A i \in 1 .. n : p[i].task = r \/ Task[p[i].task].parent = r
    BY <1>8, <1>10
  <2> QED
    BY ONLY <1>1, <1>9, <2>1, AfterPlaced
<1>12. w \in Servers(conf) /\ \E v \in W : SameWork(v, w)
  <2>1. W \subseteq Servers(conf)
    BY <1>11
  <2> QED
    BY <1>1, <1>5, <2>1, IdleCachedFacts
<1>13. Placed(conf, w, unposted)
  <2> PICK v \in W : SameWork(v, w)
    BY <1>12
  <2> QED
    BY <1>11, SameWorkPlaced
<1>14. conf' = conf /\ base_lora' \in Loras /\ file' \in Seq(EntryKind) /\ FileSound(file') /\ unposted' = unposted
  BY <1>2, SameFile
<1> QED
  BY <1>5, <1>12, <1>13, <1>14, StepFacts

(* The places up to the first that is refused.                              *)
LEMMA RefusedFacts ==
    ASSUME NEW R, NEW p \in Seq(R), Refused(p) # {}, NEW n, n = Min(Refused(p)),
           NEW q, q = SubSeq(p, 1, n - 1)
    PROVE  /\ n \in DOMAIN p /\ n \in Nat /\ Len(q) \in Nat /\ DOMAIN q = 1 .. Len(q) /\ Len(q) <= Len(p)
           /\ \A i \in 1 .. Len(q) : q[i] = p[i]
<1>1. Refused(p) \in SUBSET Nat /\ Refused(p) \subseteq DOMAIN p /\ DOMAIN p = 1 .. Len(p) /\ Len(p) \in Nat
  BY DEF Refused
<1>2. \E y \in Refused(p) : \A z \in Refused(p) : y <= z
  BY <1>1, LeastOfNat
<1>3. n \in Refused(p)
  BY <1>2, Zenon DEF Min
<1>4. n \in 1 .. Len(p)
  BY <1>1, <1>3
<1> PICK m : m = n - 1
  OBVIOUS
<1>5. m \in Nat /\ m + 1 = n /\ m <= Len(p)
  BY <1>4
<1>6. q = SubSeq(p, 1, m)
  OBVIOUS
<1>7. Len(q) = m /\ DOMAIN q = 1 .. m /\ \A i \in 1 .. m : q[i] = p[i]
  BY ONLY p \in Seq(R), <1>5, <1>6
<1> QED
  BY <1>1, <1>3, <1>5, <1>7

LEMMA KeptSlots ==
    ASSUME conf \in Confs, NEW S
    PROVE  Keep([s \in Slots |-> s], S) \in Seq(Slots)
<1> PICK q : q = [s \in Slots |-> s]
  OBVIOUS
<1>1. q \in Seq(Slots)
  <2> PICK n : n = conf.n_slots
    OBVIOUS
  <2>1. n \in Nat /\ q = [s \in 1 .. n |-> s] /\ Slots = 1 .. n
    BY ConfFacts DEF Slots
  <2> QED
    BY <2>1
<1> QED
  BY <1>1, KeepWithin

LEMMA LaunchFailsStep ==
    ASSUME ServerInv, PlaceInv, NEW r, LaunchFails(r)
    PROVE  ServerInv' /\ PlaceInv'
<1>1. conf \in Confs /\ base_lora \in Loras /\ unposted \subseteq DOMAIN Task
  BY DEF ServerInv
<1>2. Takes(r, Scheduled) /\ UNCHANGED <<conf, unposted, base_lora, file>>
  BY DEF LaunchFails
<1> PICK s : s = AvailableSlot(Taken, r)
  OBVIOUS
<1> PICK p : p = Places(Taken, s, r)
  OBVIOUS
<1> PICK W : W = Offered(Taken, s, r)
  OBVIOUS
<1> PICK n : n = Min(Refused(p))
  OBVIOUS
<1>3. ~NoRoom(Taken, s, r) /\ Refused(p) # {} /\ \E w \in LaunchUntil(W, p, n) : Become(w)
  BY DEF LaunchFails
<1>4. s \in Slots
  <2>1. s \in Slots \cup {NoSlot}
    BY <1>2, ChosenSlot
  <2> QED
    BY <1>3, <2>1 DEF NoRoom
<1>5. PICK w \in LaunchUntil(W, p, n) : Become(w)
  BY <1>3
<1> PICK t : t = Taken
  OBVIOUS
<1>6. /\ PlacesSound(t, p)
      /\ \A i \in DOMAIN p : p[i].task = r \/ Task[p[i].task].parent = r
      /\ \A v \in W : After(t, p, 0, v)
  BY <1>2, <1>3, <1>4, OfferedAfter
<1>7. Len(p) \in Nat /\ DOMAIN p = 1 .. Len(p) /\ p \in Seq([slot : Slots, task : DOMAIN Task])
  <2>1. p \in Seq([slot : Slots, task : DOMAIN Task])
    BY <1>6 DEF PlacesSound
  <2> QED
    BY <2>1
<1> PICK q : q = SubSeq(p, 1, n - 1)
  OBVIOUS
<1>8. /\ n \in DOMAIN p /\ n \in Nat /\ Len(q) \in Nat /\ DOMAIN q = 1 .. Len(q) /\ Len(q) <= Len(p)
      /\ \A i \in 1 .. Len(q) : q[i] = p[i]
  <2> PICK R : R = [slot : Slots, task : DOMAIN Task]
    OBVIOUS
  <2>1. p \in Seq(R) /\ Refused(p) # {} /\ n = Min(Refused(p)) /\ q = SubSeq(p, 1, n - 1)
    BY <1>3, <1>7
  <2> QED
    BY ONLY <2>1, RefusedFacts
<1> PICK V : V = LaunchAll(W, q)
  OBVIOUS
<1>9. \A v \in V : After(t, p, Len(q), v)
  BY <1>1, <1>6, <1>8, LaunchAllFacts
<1> PICK U : U = LaunchRefused(V, p[n])
  OBVIOUS
<1> PICK m : m = Len(q)
  OBVIOUS
<1>10. \A y \in U : After(t, p, m, y)
  <2>1. \A v \in V : After(t, p, m, v)
    BY <1>9
  <2> QED
    BY <1>1, <1>7, <1>8, <2>1, RefusedAfter
<1>11. t \in Servers(conf) /\ Placed(conf, t, unposted) /\ Away(t, unposted, r)
  BY <1>2, TakenFacts
<1>12. \A i \in 1 .. m : p[i].task = r \/ Task[p[i].task].parent = r
  BY <1>6, <1>7, <1>8
<1>13. \A y \in U : y \in Servers(conf) /\ Placed(conf, y, unposted)
  <2> SUFFICES ASSUME NEW y \in U PROVE y \in Servers(conf) /\ Placed(conf, y, unposted)
    OBVIOUS
  <2>1. After(t, p, m, y)
    BY <1>10
  <2> QED
    BY ONLY <1>1, <1>11, <1>12, <2>1, AfterPlaced
<1> PICK k : k = Keep([x \in Slots |-> x], {p[i].slot : i \in 1 .. (n - 1)})
  OBVIOUS
<1>14. k \in Seq(Slots)
  BY <1>1, KeptSlots
<1>15. LaunchUntil(W, p, n) = ForEach(U, LAMBDA x, y : {Released(x, y)}, k)
  BY Zenon DEF LaunchUntil, Then, LaunchRefused
<1>16. w \in Servers(conf) /\ Placed(conf, w, unposted)
  <2>1. \A z \in ForEach(U, LAMBDA x, y : {Released(x, y)}, k) : z \in Servers(conf) /\ Placed(conf, z, unposted)
    BY ONLY <1>13, <1>14, ReleasesFacts
  <2> QED
    BY <1>5, <1>15, <2>1, Zenon
<1>17. conf' = conf /\ base_lora' \in Loras /\ file' \in Seq(EntryKind) /\ FileSound(file') /\ unposted' = unposted
  BY <1>2, SameFile
<1> QED
  BY <1>5, <1>16, <1>17, StepFacts

LEMMA SetLoraStep ==
    ASSUME ServerInv, PlaceInv, NEW r, SetLora(r)
    PROVE  ServerInv' /\ PlaceInv'
<1>1. conf \in Confs /\ file \in Seq(EntryKind) /\ FileSound(file)
  BY DEF ServerInv
<1>2. /\ Takes(r, {"SET_LORA"}) /\ base_lora' = Task[r].lora /\ Become(Taken)
      /\ UNCHANGED <<conf, unposted, file>>
  BY DEF SetLora
<1> PICK w : w = Taken
  OBVIOUS
<1>3. w \in Servers(conf) /\ Placed(conf, w, unposted) /\ r \in DOMAIN Task /\ Task[r].type = "SET_LORA"
  BY <1>2, TakenFacts DEF Away
<1>4. base_lora' \in Loras
  BY <1>1, <1>2, <1>3, TaskFacts DEF Task
<1>5. conf' = conf /\ unposted' = unposted /\ file' \in Seq(EntryKind) /\ FileSound(file') /\ Become(w)
  BY <1>1, <1>2
<1> QED
  BY <1>3, <1>4, <1>5, StepFacts

LEMMA CancelStep ==
    ASSUME ServerInv, PlaceInv, NEW r, Cancel(r)
    PROVE  ServerInv' /\ PlaceInv'
<1>1. conf \in Confs
  BY DEF ServerInv
<1> PICK of : of = {s \in Slots : slot[s].task = Task[r].target}
  OBVIOUS
<1> PICK t : t = Taken
  OBVIOUS
<1> PICK w : w = IF of = {} THEN t ELSE Released(t, Min(of))
  OBVIOUS
<1>2. Takes(r, {"CANCEL"}) /\ Become(w) /\ UNCHANGED <<conf, unposted, base_lora, file>>
  BY DEF Cancel
<1>3. t \in Servers(conf) /\ Placed(conf, t, unposted)
  BY <1>2, TakenFacts
<1>4. ASSUME of # {} PROVE Min(of) \in Slots
  <2>1. Slots \subseteq Nat
    <3>1. conf.n_slots \in Nat
      BY <1>1, ConfFacts
    <3> QED
      BY <3>1 DEF Slots
  <2>2. of \in SUBSET Nat /\ of \subseteq Slots
    BY <2>1
  <2>3. \E y \in of : \A z \in of : y <= z
    BY ONLY <1>4, <2>2, LeastOfNat
  <2>4. Min(of) \in of
    BY <2>3, Zenon DEF Min
  <2> QED
    BY <2>2, <2>4
<1>5. w \in Servers(conf) /\ Placed(conf, w, unposted)
  <2>1. CASE of = {}
    BY <1>3, <2>1
  <2>2. CASE of # {}
    <3> PICK m : m = Min(of)
      OBVIOUS
    <3>1. m \in Slots
      BY <1>4, <2>2
    <3>2. Released(t, m) \in Servers(conf) /\ Placed(conf, Released(t, m), unposted)
      BY ONLY <1>3, <3>1, ReleasedServer
    <3> QED
      BY <2>2, <3>2
  <2> QED
    BY <2>1, <2>2
<1>6. conf' = conf /\ base_lora' \in Loras /\ file' \in Seq(EntryKind) /\ FileSound(file') /\ unposted' = unposted
  BY <1>2, SameFile
<1> QED
  BY <1>2, <1>5, <1>6, StepFacts

LEMMA DeferSlotActionStep ==
    ASSUME ServerInv, PlaceInv, NEW r, DeferSlotAction(r)
    PROVE  ServerInv' /\ PlaceInv'
<1>1. conf \in Confs
  BY DEF ServerInv
<1> PICK t : t = Taken
  OBVIOUS
<1> PICK w : w = [t EXCEPT !.deferred = Append(@, r)]
  OBVIOUS
<1>2. Takes(r, SlotActions) /\ Become(w) /\ UNCHANGED <<conf, unposted, base_lora, file>>
  BY DEF DeferSlotAction
<1>3. t \in Servers(conf) /\ Placed(conf, t, unposted) /\ Away(t, unposted, r)
  BY <1>2, TakenFacts
<1>4. w \in Servers(conf) /\ Placed(conf, w, unposted)
  BY <1>1, <1>3, DeferredServer
<1>5. conf' = conf /\ base_lora' \in Loras /\ file' \in Seq(EntryKind) /\ FileSound(file') /\ unposted' = unposted
  BY <1>2, SameFile
<1> QED
  BY <1>2, <1>4, <1>5, StepFacts

(* A slot that is not busy holds something else.                            *)
LEMMA IdleTarget ==
    ASSUME ServerInv, PlaceInv, NEW r, NEW types, types \subseteq SlotActions, Takes(r, types),
           NEW s, s = Task[r].target, ~Processing(Taken, s)
    PROVE  /\ s \in 1 .. conf.n_slots /\ s \in Slots /\ Taken \in Servers(conf)
           /\ Placed(conf, Taken, unposted) /\ Taken.slot[s].state # "GENERATING" /\ Taken.slot = slot
<1>1. conf \in Confs
  BY DEF ServerInv
<1>2. /\ Taken \in Servers(conf) /\ Placed(conf, Taken, unposted) /\ r \in DOMAIN Task
      /\ Task[r].type \in SlotActions /\ Taken.slot = slot
  BY TakenFacts DEF Away
<1>3. s \in 1 .. conf.n_slots
  BY <1>1, <1>2, TaskFacts DEF Task
<1>4. Taken.slot[s].state # "GENERATING"
  BY DEF Processing
<1> QED
  BY <1>2, <1>3, <1>4 DEF Slots

LEMMA SlotSaveStep ==
    ASSUME ServerInv, PlaceInv, NEW r, SlotSave(r)
    PROVE  ServerInv' /\ PlaceInv'
<1>1. conf \in Confs /\ base_lora \in Loras
  BY DEF ServerInv
<1> PICK t : t = Taken
  OBVIOUS
<1> PICK s : s = Task[r].target
  OBVIOUS
<1>2. /\ Takes(r, {"SLOT_SAVE"}) /\ Become(t) /\ ~Processing(t, s) /\ UNCHANGED <<conf, unposted, base_lora>>
      /\ file' \in {<<Entry(slot[s].prompt, slot[s].mem)>>} \cup IF conf.fails THEN {<<>>} ELSE {}
  BY DEF SlotSave
<1>3. {"SLOT_SAVE"} \subseteq SlotActions
  BY DEF SlotActions
<1>4. t \in Servers(conf) /\ Placed(conf, t, unposted) /\ t.slot = slot /\ s \in Slots
  BY <1>2, <1>3, IdleTarget
<1> PICK x : x = slot[s]
  OBVIOUS
<1>5. x \in SlotKind /\ SlotSound(conf, x)
  BY <1>4, SlotOf
<1> PICK e : e = Entry(x.prompt, x.mem)
  OBVIOUS
<1>6. e \in EntryKind /\ (e.tokens = <<>> \/ e.tokens = Toks(e.cells))
  <2>1. e.tokens = x.prompt /\ e.cells = x.mem
    BY DEF Entry
  <2>2. x.prompt \in Tokens /\ x.mem \in Cells
    BY <1>5, SlotFields
  <2>3. e \in EntryKind
    BY <2>2 DEF Entry, EntryKind
  <2> QED
    BY <1>5, <2>1, <2>3 DEF SlotSound
<1>7. file' = <<e>> \/ file' = <<>>
  BY <1>2
<1>8. file' \in Seq(EntryKind) /\ FileSound(file')
  <2> PICK R : R = EntryKind
    OBVIOUS
  <2>1. CASE file' = <<e>>
    <3>1. <<e>> \in Seq(R) /\ ToSet(<<e>>) = {e}
      BY <1>6 DEF ToSet
    <3> QED
      BY <1>6, <2>1, <3>1 DEF FileSound
  <2>2. CASE file' = <<>>
    <3>1. <<>> \in Seq(R) /\ ToSet(<<>>) = {}
      BY DEF ToSet
    <3> QED
      BY <2>2, <3>1 DEF FileSound
  <2> QED
    BY <1>7, <2>1, <2>2
<1>9. conf' = conf /\ base_lora' \in Loras /\ unposted' = unposted
  BY <1>1, <1>2
<1> QED
  BY <1>2, <1>4, <1>8, <1>9, StepFacts

LEMMA SlotRestoreStep ==
    ASSUME ServerInv, PlaceInv, NEW r, SlotRestore(r)
    PROVE  ServerInv' /\ PlaceInv'
<1>1. conf \in Confs /\ file \in Seq(EntryKind) /\ FileSound(file)
  BY DEF ServerInv
<1> PICK t : t = Taken
  OBVIOUS
<1> PICK s : s = Task[r].target
  OBVIOUS
<1>2. /\ Takes(r, {"SLOT_RESTORE"}) /\ ~Processing(t, s) /\ UNCHANGED <<conf, unposted, base_lora, file>>
      /\ \E w \in {Holding(t, s, x.tokens, x.cells) : x \in ToSet(file)}
                   \cup IF conf.fails \/ file = <<>> THEN {PromptClear(t, s)} ELSE {} : Become(w)
  BY DEF SlotRestore
<1>3. {"SLOT_RESTORE"} \subseteq SlotActions
  BY DEF SlotActions
<1>4. /\ t \in Servers(conf) /\ Placed(conf, t, unposted) /\ s \in 1 .. conf.n_slots
      /\ t.slot[s].state # "GENERATING"
  BY <1>2, <1>3, IdleTarget
<1>5. PICK w : /\ (\E x \in ToSet(file) : w = Holding(t, s, x.tokens, x.cells)) \/ w = PromptClear(t, s)
               /\ Become(w)
  BY <1>2
<1>6. w \in Servers(conf) /\ SameWork(t, w)
  <2>1. ASSUME NEW x \in ToSet(file), w = Holding(t, s, x.tokens, x.cells)
        PROVE  w \in Servers(conf) /\ SameWork(t, w)
    <3> PICK a : a = x.tokens
      OBVIOUS
    <3> PICK b : b = x.cells
      OBVIOUS
    <3>1. a \in Tokens /\ b \in Cells /\ (a = <<>> \/ a = Toks(b))
      BY <1>1 DEF FileSound, EntryKind
    <3>2. t.slot[s].state = "GENERATING" => a # <<>>
      BY <1>4
    <3>3. Holding(t, s, a, b) \in Servers(conf) /\ SameWork(t, Holding(t, s, a, b))
      BY ONLY <1>4, <3>1, <3>2, HoldingServer
    <3> QED
      BY <2>1, <3>3
  <2>2. ASSUME w = PromptClear(t, s)
        PROVE  w \in Servers(conf) /\ SameWork(t, w)
    BY <1>4, <2>2, PromptClearServer
  <2> QED
    BY <1>5, <2>1, <2>2
<1>7. Placed(conf, w, unposted)
  BY <1>4, <1>6, SameWorkPlaced
<1>8. conf' = conf /\ base_lora' \in Loras /\ file' \in Seq(EntryKind) /\ FileSound(file') /\ unposted' = unposted
  BY <1>2, SameFile
<1> QED
  BY <1>5, <1>6, <1>7, <1>8, StepFacts

LEMMA SlotEraseStep ==
    ASSUME ServerInv, PlaceInv, NEW r, SlotErase(r)
    PROVE  ServerInv' /\ PlaceInv'
<1> PICK t : t = Taken
  OBVIOUS
<1> PICK s : s = Task[r].target
  OBVIOUS
<1> PICK w : w = PromptClear(t, s)
  OBVIOUS
<1>1. /\ Takes(r, {"SLOT_ERASE"}) /\ ~Processing(t, s) /\ Become(w)
      /\ UNCHANGED <<conf, unposted, base_lora, file>>
  BY DEF SlotErase
<1>2. {"SLOT_ERASE"} \subseteq SlotActions
  BY DEF SlotActions
<1>3. /\ t \in Servers(conf) /\ Placed(conf, t, unposted) /\ s \in 1 .. conf.n_slots
      /\ t.slot[s].state # "GENERATING"
  BY <1>1, <1>2, IdleTarget
<1>4. w \in Servers(conf) /\ SameWork(t, w)
  BY <1>3, PromptClearServer
<1>5. Placed(conf, w, unposted)
  BY <1>3, <1>4, SameWorkPlaced
<1>6. conf' = conf /\ base_lora' \in Loras /\ file' \in Seq(EntryKind) /\ FileSound(file') /\ unposted' = unposted
  BY <1>1, SameFile
<1> QED
  BY <1>1, <1>4, <1>5, <1>6, StepFacts

(* A task is posted; one that is cancelled is pending no more.              *)
LEMMA PostedServer ==
    ASSUME conf \in Confs, NEW w \in Servers(conf), NEW u, Placed(conf, w, u), NEW r \in u, r \in DOMAIN Task,
           NEW q, NEW d, q \in Seq(DOMAIN Task), d \in Seq(DOMAIN Task), Distinct(q), Distinct(d),
           r \in ToSet(q), ToSet(q) \subseteq ToSet(w.tasks) \cup {r}, ToSet(d) \subseteq ToSet(w.deferred)
    PROVE  WithQueues(w, q, d) \in Servers(conf) /\ Placed(conf, WithQueues(w, q, d), u \ {r})
<1> PICK v : v = WithQueues(w, q, d)
  OBVIOUS
<1>1. q \in Seq(DOMAIN conf.task) /\ d \in Seq(DOMAIN conf.task)
  BY DEF Task
<1>2. v \in Servers(conf) /\ v.slot = w.slot /\ v.tasks = q /\ v.deferred = d
  BY <1>1, WithQueuesServer
<1>3. /\ ToSet(w.tasks) \cap ToSet(w.deferred) = {}
      /\ u \cap (ToSet(w.tasks) \cup ToSet(w.deferred)) = {} /\ OneSlotEach(w)
  BY DEF Placed
<1>4. InSlots(v) \subseteq InSlots(w) /\ OneSlotEach(v)
  BY <1>2, <1>3 DEF InSlots, OneSlotEach
<1>5. ToSet(v.tasks) = ToSet(q) /\ ToSet(v.deferred) = ToSet(d) /\ Distinct(v.tasks) /\ Distinct(v.deferred)
  BY <1>2, Zenon
<1>6. ToSet(v.tasks) \cap ToSet(v.deferred) = {} /\ (u \ {r}) \cap (ToSet(v.tasks) \cup ToSet(v.deferred)) = {}
  BY <1>3, <1>5
<1>7. Pending(v, u \ {r}) \subseteq Pending(w, u)
  BY <1>5 DEF Pending
<1>8. Placed(conf, v, u \ {r})
  BY <1>4, <1>5, <1>6, <1>7, FewerPlaced
<1> QED
  BY <1>2, <1>8

LEMMA PostStep ==
    ASSUME ServerInv, PlaceInv, NEW r, Post(r)
    PROVE  ServerInv' /\ PlaceInv'
<1>1. conf \in Confs /\ Srv \in Servers(conf) /\ unposted \subseteq DOMAIN Task
  BY DEF ServerInv
<1> PICK w : w = Srv
  OBVIOUS
<1>2. /\ w.slot = slot /\ w.tasks = queue_tasks /\ w.deferred = queue_tasks_deferred
      /\ w.lru = lru /\ w.states = states /\ w.limit = limit_size
  BY DEF Srv
<1>3. w \in Servers(conf) /\ Placed(conf, w, unposted)
  BY <1>1 DEF PlaceInv
<1>4. w.tasks \in Seq(DOMAIN conf.task) /\ w.deferred \in Seq(DOMAIN conf.task) /\ w \in ServerKind(conf)
  BY <1>3 DEF Servers, ServerKind
<1>5. r \in unposted /\ r \in DOMAIN conf.task /\ unposted' = unposted \ {r}
      /\ UNCHANGED <<conf, base_lora, slot, lru, states, limit_size, file>>
  BY <1>1 DEF Post, Task
<1> PICK R : R = DOMAIN conf.task
  OBVIOUS
<1> PICK q, d : q = w.tasks /\ d = w.deferred
  OBVIOUS
<1> PICK x : x = Task[r].target
  OBVIOUS
<1>6. /\ Distinct(q) /\ Distinct(d) /\ q \in Seq(R) /\ d \in Seq(R) /\ r \in R
      /\ r \notin ToSet(q) /\ r \notin ToSet(d)
  BY <1>3, <1>4, <1>5 DEF Placed
<1>7. PICK a, b : /\ a \in Seq(R) /\ b \in Seq(R) /\ Distinct(a) /\ Distinct(b) /\ r \in ToSet(a)
                  /\ ToSet(a) \subseteq ToSet(q) \cup {r} /\ ToSet(b) \subseteq ToSet(d)
                  /\ queue_tasks' = a /\ queue_tasks_deferred' = b
  <2>1. CASE Task[r].type = "CANCEL"
    <3> PICK y : y = Without(q, x)
      OBVIOUS
    <3>1. /\ Without(q, x) \in Seq(R) /\ Distinct(Without(q, x))
          /\ ToSet(Without(q, x)) = ToSet(q) \ {x}
      BY ONLY <1>6, WithoutFacts
    <3>2. /\ Without(d, x) \in Seq(R) /\ Distinct(Without(d, x))
          /\ ToSet(Without(d, x)) = ToSet(d) \ {x}
      BY ONLY <1>6, WithoutFacts
    <3>3. y \in Seq(R) /\ Distinct(y) /\ r \notin ToSet(y) /\ r \in R
      BY <1>6, <3>1
    <3>4. <<r>> \o y \in Seq(R) /\ ToSet(<<r>> \o y) = ToSet(y) \cup {r} /\ Distinct(<<r>> \o y)
      BY ONLY <3>3, ConsFacts
    <3>5. queue_tasks' = <<r>> \o y /\ queue_tasks_deferred' = Without(d, x)
      BY <1>2, <2>1 DEF Post
    <3> QED
      BY <3>1, <3>2, <3>4, <3>5
  <2>2. CASE Task[r].type # "CANCEL"
    <3>1. Append(q, r) \in Seq(R) /\ ToSet(Append(q, r)) = ToSet(q) \cup {r} /\ Distinct(Append(q, r))
      BY ONLY <1>6, AppendFacts
    <3>2. queue_tasks' = Append(q, r) /\ queue_tasks_deferred' = d
      BY <1>2, <2>2 DEF Post
    <3> QED
      BY <1>6, <3>1, <3>2
  <2> QED
    BY <2>1, <2>2
<1> PICK v : v = WithQueues(w, a, b)
  OBVIOUS
<1>8. v \in Servers(conf) /\ Placed(conf, v, unposted \ {r})
  <2>1. a \in Seq(DOMAIN Task) /\ b \in Seq(DOMAIN Task) /\ r \in DOMAIN Task /\ r \in unposted
    BY <1>5, <1>7 DEF Task
  <2>2. ToSet(a) \subseteq ToSet(w.tasks) \cup {r} /\ ToSet(b) \subseteq ToSet(w.deferred)
    BY <1>7
  <2>3. Distinct(a) /\ Distinct(b) /\ r \in ToSet(a)
    BY <1>7
  <2>4. WithQueues(w, a, b) \in Servers(conf) /\ Placed(conf, WithQueues(w, a, b), unposted \ {r})
    BY ONLY <1>1, <1>3, <2>1, <2>2, <2>3, PostedServer
  <2> QED
    BY <2>4
<1>9. Become(v)
  <2>1. /\ v.slot = w.slot /\ v.lru = w.lru /\ v.states = w.states /\ v.limit = w.limit
        /\ v.tasks = a /\ v.deferred = b
    BY <1>4 DEF WithQueues, ServerKind
  <2> QED
    BY <1>2, <1>5, <1>7, <2>1 DEF Become
<1>10. conf' = conf /\ base_lora' \in Loras /\ file' \in Seq(EntryKind) /\ FileSound(file')
  BY <1>5, SameFile
<1>11. Placed(conf, v, unposted') /\ unposted' \subseteq unposted
  BY <1>5, <1>8
<1> QED
  BY <1>8, <1>9, <1>10, <1>11, StepFacts

----------------------------------------------------------------------------
(* The updates of the slots.                                                *)

LEMMA SameTasksPlaced ==
    ASSUME NEW c, NEW u, NEW w, NEW v, Placed(c, w, u), v.tasks = w.tasks, v.deferred = w.deferred,
           DOMAIN v.slot = DOMAIN w.slot, \A s \in DOMAIN w.slot : v.slot[s].task = w.slot[s].task
    PROVE  Placed(c, v, u)
<1>1. InSlots(v) = InSlots(w)
  BY DEF InSlots
<1>2. Pending(v, u) = Pending(w, u)
  BY DEF Pending
<1>3. OneSlotEach(w) => OneSlotEach(v)
  BY Zenon DEF OneSlotEach
<1> QED
  BY <1>1, <1>2, <1>3 DEF Placed

LEMMA LeastOfTwo ==
    ASSUME NEW a \in Nat, NEW b \in Nat
    PROVE  Min({a, b}) \in Nat /\ Min({a, b}) <= a /\ Min({a, b}) <= b
<1> PICK S : S = {a, b}
  OBVIOUS
<1>1. S \in SUBSET Nat /\ S # {}
  OBVIOUS
<1>2. \E y \in S : \A z \in S : y <= z
  BY ONLY <1>1, LeastOfNat
<1>3. Min(S) \in S /\ \A z \in S : Min(S) <= z
  BY <1>2, Zenon DEF Min
<1> QED
  BY <1>3

LEMMA SplitSequence ==
    ASSUME NEW R, NEW p \in Seq(R), NEW m \in Seq(R), NEW n \in 0 .. Len(p), n <= Len(m),
           \A i \in 1 .. n : m[i] = p[i]
    PROVE  SubSeq(m, 1, n) \o SubSeq(p, n + 1, Len(p)) = p /\ SubSeq(p, n + 1, Len(p)) \in Seq(R)
<1> PICK l : l = Len(p)
  OBVIOUS
<1> PICK one, k : one = 1 /\ k = n + 1
  OBVIOUS
<1>1. /\ l \in Nat /\ n \in Nat /\ n <= l /\ one \in Int /\ k \in Int /\ n \in Int /\ l \in Int
      /\ \A i \in 1 .. l : p[i] \in R
  OBVIOUS
<1>2. \A i \in one .. n : m[i] \in R
  OBVIOUS
<1>3. \A i \in k .. l : p[i] \in R
  BY <1>1
<1> PICK a, b : a = SubSeq(m, one, n) /\ b = SubSeq(p, k, l)
  OBVIOUS
<1>4. /\ a \in Seq(R) /\ Len(a) = (IF one <= n THEN n - one + 1 ELSE 0)
      /\ \A i \in 1 .. n - one + 1 : a[i] = m[one + i - 1]
  BY ONLY <1>1, <1>2, a = SubSeq(m, one, n), SubSeqProperties
<1>5. /\ b \in Seq(R) /\ Len(b) = (IF k <= l THEN l - k + 1 ELSE 0)
      /\ \A i \in 1 .. l - k + 1 : b[i] = p[k + i - 1]
  BY ONLY <1>1, <1>3, b = SubSeq(p, k, l), SubSeqProperties
<1>6. Len(a) = n /\ Len(b) = l - n
  BY <1>1, <1>4, <1>5
<1> PICK c : c = a \o b
  OBVIOUS
<1>7. /\ c \in Seq(R) /\ Len(c) = Len(a) + Len(b)
      /\ \A i \in 1 .. Len(a) + Len(b) : c[i] = IF i <= Len(a) THEN a[i] ELSE b[i - Len(a)]
  <2>1. /\ a \o b \in Seq(R) /\ Len(a \o b) = Len(a) + Len(b)
        /\ \A i \in 1 .. Len(a) + Len(b) : (a \o b)[i] = IF i <= Len(a) THEN a[i] ELSE b[i - Len(a)]
    BY ONLY <1>4, <1>5, ConcatProperties
  <2> QED
    BY <2>1, Zenon
<1>8. /\ c \in Seq(R) /\ Len(c) = l
      /\ \A i \in 1 .. l : c[i] = IF i <= n THEN a[i] ELSE b[i - n]
  <2>1. Len(a) + Len(b) = l
    <3>1. n + (l - n) = l
      BY ONLY <1>1
    <3> QED
      BY ONLY <1>6, <3>1, Zenon
  <2>2. c \in Seq(R) /\ Len(c) = l
    BY <1>7, <2>1
  <2>3. ASSUME NEW i \in 1 .. l PROVE c[i] = IF i <= n THEN a[i] ELSE b[i - n]
    <3>1. i \in 1 .. Len(a) + Len(b)
      BY ONLY <2>1, i \in 1 .. l, Zenon
    <3>2. c[i] = IF i <= Len(a) THEN a[i] ELSE b[i - Len(a)]
      BY ONLY <1>7, <3>1, Zenon
    <3>3. Len(a) = n
      BY <1>6
    <3> QED
      BY ONLY <3>2, <3>3, Zenon
  <2> QED
    BY <2>2, <2>3
<1>9. \A i \in 1 .. l : c[i] = p[i]
  <2> SUFFICES ASSUME NEW i \in 1 .. l PROVE c[i] = p[i]
    OBVIOUS
  <2>1. CASE i <= n
    <3>1. i \in 1 .. n /\ i \in 1 .. n - one + 1 /\ one + i - 1 = i
      BY <1>1, <2>1
    <3>2. a[i] = m[i]
      BY <1>4, <3>1
    <3> QED
      BY <1>8, <2>1, <3>1, <3>2
  <2>2. CASE ~(i <= n)
    <3>1. i - n \in 1 .. l - k + 1 /\ k + (i - n) - 1 = i
      BY <1>1, <2>2
    <3>2. b[i - n] = p[i]
      BY <1>5, <3>1
    <3> QED
      BY <1>8, <2>2, <3>2
  <2> QED
    BY <2>1, <2>2
<1>10. c = p
  <2>1. c \in Seq(R) /\ p \in Seq(R) /\ Len(c) = Len(p) /\ \A i \in 1 .. Len(c) : c[i] = p[i]
    BY <1>8, <1>9
  <2> QED
    BY ONLY <2>1, SeqEqual
<1> QED
  BY <1>5, <1>10

(* What is reused of a prompt is in the memory.                             *)
LEMMA PrefilledCells ==
    ASSUME NEW prompt \in Tokens, NEW mem \in Cells, prompt = <<>> \/ prompt = Toks(mem),
           NEW p \in Tokens, NEW lora \in Loras, NEW n \in Nat, n <= Lcp(prompt, p)
    PROVE  LET cells == SubSeq(mem, 1, n) \o Computed(SubSeq(p, n + 1, Len(p)), lora)
           IN  cells \in Cells /\ Toks(cells) = p
<1>1. prompt \in Seq(Nat) /\ p \in Seq(Nat)
  BY DEF Tokens
<1> PICK l : l = Lcp(prompt, p)
  OBVIOUS
<1>2. l \in Nat /\ l <= Len(prompt) /\ l <= Len(p) /\ \A i \in 1 .. l : prompt[i] = p[i]
  BY ONLY <1>1, l = Lcp(prompt, p), LcpFacts
<1>3. Toks(mem) \in Tokens /\ Len(Toks(mem)) = Len(mem) /\ Len(mem) \in Nat
  <2>1. mem \in Seq(Cell)
    BY DEF Cells, Cell
  <2>2. Len(mem) \in Nat
    BY <2>1
  <2> QED
    BY <2>2, ToksFacts
<1>4. n <= Len(mem) /\ (n = 0 \/ prompt = Toks(mem))
  BY <1>1, <1>2, <1>3
<1> PICK a : a = SubSeq(mem, 1, n)
  OBVIOUS
<1>5. a \in Cells /\ Toks(a) = SubSeq(Toks(mem), 1, n)
  BY <1>3, <1>4, ToksSubSeq
<1>6. SubSeq(Toks(mem), 1, n) \o SubSeq(p, n + 1, Len(p)) = p /\ SubSeq(p, n + 1, Len(p)) \in Seq(Nat)
  <2> PICK m : m = Toks(mem)
    OBVIOUS
  <2>1. m \in Seq(Nat) /\ n <= Len(m) /\ n \in 0 .. Len(p)
    BY <1>1, <1>2, <1>3, <1>4 DEF Tokens
  <2>2. \A i \in 1 .. n : m[i] = p[i]
    BY <1>2, <1>4
  <2> QED
    BY ONLY <1>1, m = Toks(mem), <2>1, <2>2, SplitSequence
<1> PICK t : t = SubSeq(p, n + 1, Len(p))
  OBVIOUS
<1>7. t \in Tokens
  BY <1>6 DEF Tokens
<1> PICK b : b = Computed(t, lora)
  OBVIOUS
<1>8. b \in Cells /\ Toks(b) = t
  BY <1>7, ComputedFacts
<1>9. a \o b \in Cells /\ Toks(a \o b) = Toks(a) \o Toks(b)
  BY <1>5, <1>8, ToksConcat
<1> QED
  BY <1>5, <1>6, <1>8, <1>9

LEMMA ReusedFacts ==
    ASSUME conf \in Confs, Srv \in Servers(conf), NEW s \in Slots, slot[s].state = "STARTED"
    PROVE  /\ Task[slot[s].task].tokens \in Tokens /\ Task[slot[s].task].tokens # <<>>
           /\ Reused(s) \in Nat /\ Reused(s) <= Lcp(slot[s].prompt, Task[slot[s].task].tokens)
<1> PICK w, x : w = Srv /\ x = slot[s]
  OBVIOUS
<1>1. w \in Servers(conf) /\ w.slot[s] = x
  BY DEF Srv
<1>2. x \in SlotKind /\ SlotSound(conf, x)
  BY <1>1, SlotOf
<1>3. x.task \in DOMAIN Task /\ Task[x.task].type \in Scheduled
  BY <1>2 DEF SlotSound, Task
<1> PICK p : p = Task[x.task].tokens
  OBVIOUS
<1>4. p \in Tokens /\ p # <<>>
  BY <1>3, TaskTokens, TaskFacts DEF Task
<1>5. Len(p) - 1 \in Nat
  <2>1. p \in Seq(Nat) /\ p # <<>>
    BY <1>4 DEF Tokens
  <2> QED
    BY ONLY <2>1
<1> PICK l, k : l = Lcp(x.prompt, p) /\ k = Len(p) - 1
  OBVIOUS
<1>6. l \in Nat
  <2>1. x.prompt \in Seq(Nat) /\ p \in Seq(Nat)
    BY <1>2, <1>4, SlotFields DEF Tokens
  <2> QED
    BY <2>1, LcpFacts
<1>7. Min({l, k}) \in Nat /\ Min({l, k}) <= l
  BY <1>5, <1>6, LeastOfTwo
<1>8. Reused(s) = IF Stateless(x.task) THEN 0 ELSE Min({l, k})
  BY Zenon DEF Reused
<1>9. Reused(s) \in Nat /\ Reused(s) <= l
  <2>1. 0 <= l
    BY <1>6
  <2> QED
    BY <1>7, <1>8, <2>1
<1> QED
  BY <1>4, <1>9

LEMMA PrefillStep ==
    ASSUME ServerInv, PlaceInv, NEW s \in Slots, Prefill(s)
    PROVE  ServerInv' /\ PlaceInv'
<1>1. conf \in Confs /\ Srv \in Servers(conf)
  BY DEF ServerInv
<1>2. slot[s].state = "STARTED" /\ UNCHANGED <<conf, unposted, base_lora, lru, states, limit_size, queue_tasks,
                                               queue_tasks_deferred, file>>
  BY DEF Prefill
<1> PICK w : w = Srv
  OBVIOUS
<1>3. /\ w.slot = slot /\ w.lru = lru /\ w.states = states /\ w.limit = limit_size
      /\ w.tasks = queue_tasks /\ w.deferred = queue_tasks_deferred
  BY DEF Srv
<1>4. w \in Servers(conf) /\ Placed(conf, w, unposted)
  BY <1>1 DEF PlaceInv
<1>5. w \in ServerKind(conf) /\ AllSlotsOrdered(conf, w) /\ SlotsSound(conf, w) /\ EntriesSound(w) /\ Tidy(w)
  BY <1>4 DEF Servers
<1>6. slot \in [1 .. conf.n_slots -> SlotKind]
  BY <1>3, <1>5, ServerFields
<1> PICK x : x = slot[s]
  OBVIOUS
<1>7. x \in SlotKind /\ SlotSound(conf, x)
  BY <1>3, <1>4, SlotOf
<1> PICK p, n : p = Task[x.task].tokens /\ n = Reused(s)
  OBVIOUS
<1>8. p \in Tokens /\ p # <<>> /\ n \in Nat /\ n <= Lcp(x.prompt, p)
  BY <1>1, <1>2, ReusedFacts
<1>9. /\ x.prompt \in Tokens /\ x.mem \in Cells /\ (x.prompt = <<>> \/ x.prompt = Toks(x.mem)) /\ x.lora \in Loras
  BY <1>2, <1>7, SlotFields DEF SlotSound
<1> PICK cells : cells = SubSeq(x.mem, 1, n) \o Computed(SubSeq(p, n + 1, Len(p)), x.lora)
  OBVIOUS
<1>10. cells \in Cells /\ Toks(cells) = p
  <2> PICK a, b, l : a = x.prompt /\ b = x.mem /\ l = x.lora
    OBVIOUS
  <2>1. /\ a \in Tokens /\ b \in Cells /\ (a = <<>> \/ a = Toks(b)) /\ l \in Loras
        /\ p \in Tokens /\ n \in Nat /\ n <= Lcp(a, p)
    BY <1>8, <1>9
  <2>2. LET z == SubSeq(b, 1, n) \o Computed(SubSeq(p, n + 1, Len(p)), l)
        IN  z \in Cells /\ Toks(z) = p
    BY ONLY <2>1, PrefilledCells
  <2> QED
    BY <2>2
<1> PICK next : next = {s} \cup {c \in Slots : /\ slot[c].state = "WAIT_OTHER"
                                                /\ Task[slot[c].task].parent = slot[s].task}
  OBVIOUS
<1>11. slot' = [c \in Slots |-> IF c \in next
                                THEN [slot[c] EXCEPT !.state = "GENERATING", !.prompt = p, !.mem = cells]
                                ELSE slot[c]]
  BY DEF Prefill
<1>12. \A c \in next : c \in Slots /\ slot[c].state # "IDLE"
  BY <1>2
<1> PICK v : v = [w EXCEPT !.slot = slot']
  OBVIOUS
<1>13. ASSUME NEW c \in Slots
       PROVE  slot'[c] \in SlotKind /\ SlotSound(conf, slot'[c]) /\ slot'[c].task = slot[c].task
  <2> PICK y : y = slot[c]
    OBVIOUS
  <2>1. y \in SlotKind /\ SlotSound(conf, y)
    BY <1>3, <1>4, SlotOf
  <2>2. CASE c \notin next
    <3>1. slot'[c] = y
      BY <1>11, <2>2
    <3> QED
      BY <2>1, <3>1
  <2>3. CASE c \in next
    <3> PICK z : z = [y EXCEPT !.state = "GENERATING", !.prompt = p, !.mem = cells]
      OBVIOUS
    <3>1. slot'[c] = z
      BY <1>11, <2>3
    <3>2. /\ z \in SlotKind /\ z.state = "GENERATING" /\ z.task = y.task /\ z.lora = y.lora
          /\ z.prompt = p /\ z.mem = cells
      BY <1>8, <1>10, <2>1 DEF SlotKind
    <3>3. y.state # "IDLE"
      BY <1>12, <2>3
    <3>4. SlotSound(conf, z)
      BY <1>8, <1>10, <2>1, <3>2, <3>3, Zenon DEF SlotSound
    <3> QED
      BY <3>1, <3>2, <3>4
  <2> QED
    BY <2>2, <2>3
<1>14. slot' \in [1 .. conf.n_slots -> SlotKind]
  <2>1. DOMAIN slot' = Slots /\ slot' = [c \in Slots |-> slot'[c]]
    BY <1>11
  <2> QED
    BY <1>13, <2>1 DEF Slots
<1>15. /\ v \in ServerKind(conf) /\ v.slot = slot' /\ v.lru = w.lru /\ v.states = w.states /\ v.limit = w.limit
       /\ v.tasks = w.tasks /\ v.deferred = w.deferred
  <2> PICK y : y = slot'
    OBVIOUS
  <2>1. y \in [1 .. conf.n_slots -> SlotKind] /\ v = [w EXCEPT !.slot = y]
    BY <1>14
  <2>2. /\ v \in ServerKind(conf) /\ v.slot = y /\ v.lru = w.lru /\ v.states = w.states /\ v.limit = w.limit
        /\ v.tasks = w.tasks /\ v.deferred = w.deferred
    BY ONLY <1>5, <2>1 DEF ServerKind
  <2> QED
    BY <2>2
<1>16. v \in Servers(conf)
  <2>1. SlotsSound(conf, v)
    BY <1>13, <1>15 DEF SlotsSound, Slots
  <2>2. AllSlotsOrdered(conf, v) /\ EntriesSound(v) /\ Tidy(v)
    BY <1>5, <1>15, Zenon DEF AllSlotsOrdered, EntriesSound, Tidy
  <2> QED
    BY <1>15, <2>1, <2>2, Zenon DEF Servers
<1>17. Placed(conf, v, unposted)
  <2>1. DOMAIN v.slot = DOMAIN w.slot /\ DOMAIN w.slot = Slots
    BY <1>3, <1>6, <1>14, <1>15 DEF Slots
  <2>2. \A c \in DOMAIN w.slot : v.slot[c].task = w.slot[c].task
    BY <1>3, <1>13, <1>15, <2>1
  <2> QED
    BY <1>4, <1>15, <2>1, <2>2, SameTasksPlaced
<1>18. Become(v)
  BY <1>2, <1>3, <1>15 DEF Become
<1>19. conf' = conf /\ base_lora' \in Loras /\ file' \in Seq(EntryKind) /\ FileSound(file') /\ unposted' = unposted
  BY <1>2, SameFile
<1> QED
  BY <1>16, <1>17, <1>18, <1>19, StepFacts

LEMMA FinishStep ==
    ASSUME ServerInv, PlaceInv, NEW s \in Slots, Finish(s)
    PROVE  ServerInv' /\ PlaceInv'
<1>1. conf \in Confs /\ Srv \in Servers(conf)
  BY DEF ServerInv
<1> PICK w : w = Srv
  OBVIOUS
<1> PICK x : x = slot[s]
  OBVIOUS
<1>2. /\ x.state = "GENERATING" /\ UNCHANGED <<conf, unposted, base_lora, file>>
      /\ \E n \in 0 .. IF Stateless(x.task) THEN 0 ELSE conf.n_gen :
            LET new == [i \in 1 .. n |-> 0]
            IN  Become(Released(Holding(w, s, x.prompt \o new, x.mem \o Computed(new, x.lora)), s))
  BY DEF Finish
<1>3. PICK n \in 0 .. IF Stateless(x.task) THEN 0 ELSE conf.n_gen :
          LET new == [i \in 1 .. n |-> 0]
          IN  Become(Released(Holding(w, s, x.prompt \o new, x.mem \o Computed(new, x.lora)), s))
  BY <1>2
<1>4. w \in Servers(conf) /\ Placed(conf, w, unposted) /\ w.slot[s] = x
  BY <1>1 DEF PlaceInv, Srv
<1>5. x \in SlotKind /\ SlotSound(conf, x)
  BY <1>4, SlotOf
<1>6. x.prompt \in Tokens /\ x.mem \in Cells /\ x.prompt # <<>> /\ x.prompt = Toks(x.mem) /\ x.lora \in Loras
  BY <1>2, <1>5, SlotFields DEF SlotSound
<1>7. n \in Nat
  <2>1. conf.n_gen \in Nat
    BY <1>1, ConfFacts
  <2> QED
    BY <2>1
<1> PICK new : new = [i \in 1 .. n |-> 0]
  OBVIOUS
<1>8. new \in Tokens
  BY <1>7 DEF Tokens
<1> PICK a, b, l : a = x.prompt /\ b = x.mem /\ l = x.lora
  OBVIOUS
<1> PICK d : d = Computed(new, l)
  OBVIOUS
<1>9. d \in Cells /\ Toks(d) = new
  BY <1>6, <1>8, ComputedFacts
<1>10. b \o d \in Cells /\ Toks(b \o d) = a \o new
  <2>1. b \in Cells /\ Toks(b) = a
    BY <1>6
  <2>2. b \o d \in Cells /\ Toks(b \o d) = Toks(b) \o Toks(d)
    BY ONLY <1>9, <2>1, ToksConcat
  <2> QED
    BY ONLY <1>9, <2>1, <2>2
<1>11. a \o new \in Tokens /\ a \o new # <<>>
  <2>1. a \in Seq(Nat) /\ new \in Seq(Nat) /\ a # <<>>
    BY <1>6, <1>8 DEF Tokens
  <2>2. a \o new \in Seq(Nat) /\ Len(a \o new) = Len(a) + Len(new) /\ Len(a) > 0 /\ Len(new) \in Nat /\ Len(a) \in Nat
    BY ONLY <2>1
  <2>3. Len(a \o new) # 0
    BY <2>2
  <2> QED
    BY <2>2, <2>3 DEF Tokens
<1> PICK e, f : e = a \o new /\ f = b \o d
  OBVIOUS
<1> PICK h : h = Holding(w, s, e, f)
  OBVIOUS
<1>12. h \in Servers(conf) /\ SameWork(w, h)
  <2>1. e \in Tokens /\ f \in Cells /\ (e = <<>> \/ e = Toks(f)) /\ e # <<>> /\ s \in 1 .. conf.n_slots
    BY <1>10, <1>11 DEF Slots
  <2> QED
    BY ONLY <1>4, <2>1, h = Holding(w, s, e, f), HoldingServer
<1>13. Placed(conf, h, unposted)
  BY <1>4, <1>12, SameWorkPlaced
<1> PICK v : v = Released(h, s)
  OBVIOUS
<1>14. v \in Servers(conf) /\ Placed(conf, v, unposted)
  BY <1>12, <1>13, ReleasedServer
<1>15. Become(v)
  BY <1>3, Zenon
<1>16. conf' = conf /\ base_lora' \in Loras /\ file' \in Seq(EntryKind) /\ FileSound(file') /\ unposted' = unposted
  BY <1>2, SameFile
<1> QED
  BY <1>14, <1>15, <1>16, StepFacts

----------------------------------------------------------------------------
(* The invariant.                                                           *)

LEMMA InitServer ==
    ASSUME Init
    PROVE  ServerInv /\ PlaceInv
<1>1. /\ conf \in Confs /\ base_lora \in conf.loras
      /\ unposted = {r \in DOMAIN conf.task : conf.task[r].parent = NoTask}
      /\ lru = [s \in 1 .. conf.n_slots |-> s]
      /\ slot = [s \in 1 .. conf.n_slots |-> [state |-> "IDLE", task |-> NoTask, lora |-> NoLora,
                                              prompt |-> <<>>, mem |-> <<>>]]
      /\ states = <<>> /\ limit_size = conf.limit
      /\ queue_tasks = <<>> /\ queue_tasks_deferred = <<>> /\ file = <<>>
  BY DEF Init
<1>2. conf.n_slots \in Nat /\ conf.limit \in Nat /\ conf.loras \subseteq Loras
  BY <1>1, ConfFacts
<1> PICK n : n = conf.n_slots
  OBVIOUS
<1> PICK x : x = [state |-> "IDLE", task |-> NoTask, lora |-> NoLora, prompt |-> <<>>, mem |-> <<>>]
  OBVIOUS
<1>3. x \in SlotKind
  <2>1. <<>> \in Tokens /\ <<>> \in Cells
    BY DEF Tokens, Cells
  <2> QED
    BY <2>1 DEF SlotKind
<1>4. SlotSound(conf, x)
  BY DEF SlotSound
<1> PICK w : w = Srv
  OBVIOUS
<1>5. /\ w.slot = slot /\ w.lru = lru /\ w.states = <<>> /\ w.limit = limit_size
      /\ w.tasks = <<>> /\ w.deferred = <<>>
      /\ w = [slot |-> slot, lru |-> lru, states |-> states, limit |-> limit_size,
              tasks |-> queue_tasks, deferred |-> queue_tasks_deferred]
  BY <1>1 DEF Srv
<1>6. slot = [s \in 1 .. n |-> x] /\ lru = [s \in 1 .. n |-> s] /\ n \in Nat
  BY <1>1, <1>2
<1>7. slot \in [1 .. n -> SlotKind] /\ lru \in Seq(1 .. n) /\ DOMAIN lru = 1 .. n
  BY <1>3, <1>6
<1>8. w \in ServerKind(conf)
  <2>1. limit_size \in 0 .. conf.limit
    BY <1>1, <1>2
  <2> PICK A, B : A = EntryKind /\ B = DOMAIN conf.task
    OBVIOUS
  <2>2. <<>> \in Seq(A) /\ <<>> \in Seq(B)
    OBVIOUS
  <2> QED
    BY <1>1, <1>5, <1>7, <2>1, <2>2 DEF ServerKind
<1>9. AllSlotsOrdered(conf, w)
  <2>1. Distinct(lru)
    BY <1>6 DEF Distinct
  <2>2. ToSet(lru) = 1 .. n
    BY <1>6 DEF ToSet
  <2> QED
    BY <1>5, <2>1, <2>2, Zenon DEF AllSlotsOrdered
<1>10. SlotsSound(conf, w)
  BY <1>4, <1>5, <1>6 DEF SlotsSound
<1>11. EntriesSound(w) /\ NoneContained(w.states)
  BY <1>5 DEF EntriesSound, NoneContained
<1>12. Tidy(w)
  <2>1. CacheSize(w.states) = 0
    BY <1>5, CacheSizeEmpty, Zenon
  <2>2. 0 <= w.limit
    BY <1>1, <1>2, <1>5
  <2> QED
    BY <1>11, <2>1, <2>2 DEF Tidy
<1>13. w \in Servers(conf)
  BY <1>8, <1>9, <1>10, <1>11, <1>12, Zenon DEF Servers
<1>14. file \in Seq(EntryKind) /\ FileSound(file)
  <2> PICK A : A = EntryKind
    OBVIOUS
  <2>1. <<>> \in Seq(A)
    OBVIOUS
  <2> QED
    BY <1>1, <2>1 DEF FileSound, ToSet
<1>15. ServerInv
  BY <1>1, <1>2, <1>13, <1>14 DEF ServerInv, Task
<1>16. Placed(conf, w, unposted)
  <2>1. ToSet(w.tasks) = {} /\ ToSet(w.deferred) = {}
    BY <1>5 DEF ToSet
  <2>2. Distinct(w.tasks) /\ Distinct(w.deferred)
    BY <1>5 DEF Distinct
  <2>3. \A s \in DOMAIN w.slot : w.slot[s].task = NoTask
    BY <1>5, <1>6
  <2>4. InSlots(w) = {} /\ OneSlotEach(w)
    BY <2>3 DEF InSlots, OneSlotEach
  <2>5. \A r \in Pending(w, unposted) : conf.task[r].parent = NoTask
    BY <1>1, <2>1 DEF Pending
  <2> QED
    BY <2>1, <2>2, <2>4, <2>5 DEF Placed
<1> QED
  BY <1>15, <1>16 DEF PlaceInv

LEMMA NextServer ==
    ASSUME ServerInv, PlaceInv, [Next]_vars
    PROVE  ServerInv' /\ PlaceInv'
<1>1. CASE UNCHANGED vars
  <2>1. /\ conf' = conf /\ unposted' = unposted /\ base_lora' = base_lora /\ slot' = slot /\ lru' = lru
        /\ states' = states /\ limit_size' = limit_size /\ queue_tasks' = queue_tasks
        /\ queue_tasks_deferred' = queue_tasks_deferred /\ file' = file
    BY <1>1 DEF vars
  <2>2. Srv' = Srv /\ Task' = Task
    BY <2>1, Zenon DEF Srv, Task
  <2>3. PlaceInv'
    BY <2>1, <2>2, Zenon DEF PlaceInv
  <2>4. ServerInv'
    BY <2>1, <2>2, Zenon DEF ServerInv
  <2> QED
    BY <2>3, <2>4
<1>2. ASSUME NEW r \in DOMAIN Task, Post(r) PROVE ServerInv' /\ PlaceInv'
  BY <1>2, PostStep
<1>3. ASSUME NEW r \in DOMAIN Task, Dispatch(r) PROVE ServerInv' /\ PlaceInv'
  <2>1. CASE DeferTask(r)
    BY <2>1, DeferTaskStep
  <2>2. CASE LaunchTask(r)
    BY <2>2, LaunchTaskStep
  <2>3. CASE LaunchFails(r)
    BY <2>3, LaunchFailsStep
  <2>4. CASE Cancel(r)
    BY <2>4, CancelStep
  <2>5. CASE SetLora(r)
    BY <2>5, SetLoraStep
  <2>6. CASE DeferSlotAction(r)
    BY <2>6, DeferSlotActionStep
  <2>7. CASE SlotSave(r)
    BY <2>7, SlotSaveStep
  <2>8. CASE SlotRestore(r)
    BY <2>8, SlotRestoreStep
  <2>9. CASE SlotErase(r)
    BY <2>9, SlotEraseStep
  <2> QED
    BY <1>3, <2>1, <2>2, <2>3, <2>4, <2>5, <2>6, <2>7, <2>8, <2>9, Zenon DEF Dispatch
<1>4. ASSUME NEW s \in Slots, Prefill(s) PROVE ServerInv' /\ PlaceInv'
  BY <1>4, PrefillStep
<1>5. ASSUME NEW s \in Slots, Finish(s) PROVE ServerInv' /\ PlaceInv'
  BY <1>5, FinishStep
<1> QED
  BY <1>1, <1>2, <1>3, <1>4, <1>5, Zenon DEF Next

----------------------------------------------------------------------------
(* What it implies.                                                         *)

LEMMA AtMostOne ==
    ASSUME NEW A, \A x, y \in A : x = y
    PROVE  Cardinality(A) = IF A = {} THEN 0 ELSE 1
<1>1. CASE A = {}
  BY <1>1, FS_EmptySet
<1>2. CASE A # {}
  <2>1. PICK x : x \in A
    BY <1>2
  <2>2. A = {x}
    BY <2>1
  <2>3. Cardinality({x}) = 1
    BY FS_Singleton
  <2> QED
    BY <1>2, <2>2, <2>3
<1> QED
  BY <1>1, <1>2

LEMMA InOnePlaceFacts ==
    ASSUME ServerInv, PlaceInv
    PROVE  InOnePlace
<1> PICK w : w = Srv
  OBVIOUS
<1>1. w.slot = slot /\ w.tasks = queue_tasks /\ w.deferred = queue_tasks_deferred
  BY DEF Srv
<1>2. conf \in Confs /\ w \in Servers(conf) /\ Placed(conf, w, unposted)
  BY DEF ServerInv, PlaceInv
<1> SUFFICES ASSUME NEW r \in DOMAIN Task
             PROVE  Cardinality({i \in DOMAIN queue_tasks : queue_tasks[i] = r})
                        + Cardinality({i \in DOMAIN queue_tasks_deferred : queue_tasks_deferred[i] = r})
                        + Cardinality({s \in Slots : slot[s].task = r})
                        + (IF r \in unposted THEN 1 ELSE 0) <= 1
  BY DEF InOnePlace
<1> PICK A, B, C : /\ A = {i \in DOMAIN queue_tasks : queue_tasks[i] = r}
                   /\ B = {i \in DOMAIN queue_tasks_deferred : queue_tasks_deferred[i] = r}
                   /\ C = {s \in Slots : slot[s].task = r}
  OBVIOUS
<1>3. /\ Distinct(queue_tasks) /\ Distinct(queue_tasks_deferred)
      /\ ToSet(queue_tasks) \cap ToSet(queue_tasks_deferred) = {}
      /\ unposted \cap (ToSet(queue_tasks) \cup ToSet(queue_tasks_deferred)) = {} /\ OneSlotEach(w)
      /\ \A t \in InSlots(w) : t \notin Pending(w, unposted)
  BY <1>1, <1>2, Zenon DEF Placed
<1>4. DOMAIN slot = Slots
  BY <1>1, <1>2, ServerFields DEF Servers, Slots
<1>5. r # NoTask
  <2>1. r \in Tasks
    BY <1>2, ConfFacts DEF Task
  <2> QED
    BY <2>1, ServerSlotsAssumption DEF Tasks
<1>6. /\ \A x, y \in A : x = y
      /\ \A x, y \in B : x = y
  BY <1>3 DEF Distinct
<1>7. \A x, y \in C : x = y
  BY <1>1, <1>3, <1>4, <1>5 DEF OneSlotEach
<1>8. /\ A # {} => r \in ToSet(queue_tasks)
      /\ B # {} => r \in ToSet(queue_tasks_deferred)
  BY DEF ToSet
<1>9. C # {} => r \in InSlots(w)
  BY <1>1, <1>4, <1>5 DEF InSlots
<1>10. r \in InSlots(w) => r \notin unposted /\ r \notin ToSet(queue_tasks) /\ r \notin ToSet(queue_tasks_deferred)
  BY <1>1, <1>3 DEF Pending
<1>11. /\ Cardinality(A) = (IF A = {} THEN 0 ELSE 1) /\ Cardinality(B) = (IF B = {} THEN 0 ELSE 1)
       /\ Cardinality(C) = (IF C = {} THEN 0 ELSE 1)
  BY ONLY <1>6, <1>7, AtMostOne
<1> QED
  BY <1>3, <1>8, <1>9, <1>10, <1>11

LEMMA InvImplies ==
    ASSUME ServerInv, PlaceInv
    PROVE  WellFormed /\ PromptInMemory
<1> PICK w : w = Srv
  OBVIOUS
<1>1. /\ w.slot = slot /\ w.tasks = queue_tasks /\ w.deferred = queue_tasks_deferred
      /\ w.lru = lru /\ w.states = states /\ w.limit = limit_size
  BY DEF Srv
<1>2. /\ conf \in Confs /\ base_lora \in Loras /\ unposted \subseteq DOMAIN Task
      /\ w \in Servers(conf) /\ file \in Seq(EntryKind) /\ FileSound(file)
  BY DEF ServerInv
<1>3. /\ w \in ServerKind(conf) /\ AllSlotsOrdered(conf, w) /\ SlotsSound(conf, w) /\ EntriesSound(w) /\ Tidy(w)
  BY <1>2 DEF Servers
<1>4. /\ slot \in [1 .. conf.n_slots -> SlotKind] /\ lru \in Seq(1 .. conf.n_slots)
      /\ states \in Seq(EntryKind) /\ limit_size \in 0 .. conf.limit
      /\ queue_tasks \in Seq(DOMAIN conf.task) /\ queue_tasks_deferred \in Seq(DOMAIN conf.task)
  BY <1>1, <1>3, ServerFields
<1>5. Len(lru) = conf.n_slots /\ ToSet(lru) = 1 .. conf.n_slots
  <2> PICK n : n = conf.n_slots
    OBVIOUS
  <2>1. n \in Nat /\ Distinct(lru) /\ ToSet(lru) = 1 .. n /\ lru \in Seq(1 .. n)
    BY <1>1, <1>2, <1>3, <1>4, ConfFacts DEF AllSlotsOrdered
  <2>2. Len(lru) = n
    BY ONLY <2>1, DistinctLength
  <2> QED
    BY <2>1, <2>2
<1>6. \A x \in ToSet(states) \cup ToSet(file) : x \in EntryKind
  BY <1>2, <1>4 DEF ToSet
<1>7. TypeOK
  <2>1. \A x \in ToSet(states) \cup ToSet(file) : x.tokens \in Tokens /\ x.cells \in Cells
    BY <1>6 DEF EntryKind
  <2> QED
    BY <1>2, <1>4, <1>5, <2>1, Zenon DEF TypeOK, Slots, Task, SlotKind
<1>8. CacheTidy
  BY <1>1, <1>3, Zenon DEF CacheTidy, Tidy, NoneContained
<1>9. WellFormed
  BY <1>7, <1>8, InOnePlaceFacts DEF WellFormed
<1>10. ASSUME NEW q \in Tokens, NEW c \in Cells, q = <<>> \/ q = Toks(c)
       PROVE  IsPrefix(q, Toks(c))
  <2> PICK t : t = Toks(c)
    OBVIOUS
  <2>1. t \in Seq(Nat)
    BY ToksFacts DEF Tokens
  <2>2. Len(t) \in Nat /\ Len(<<>>) = 0
    BY <2>1
  <2>3. IsPrefix(t, t) /\ IsPrefix(<<>>, t)
    BY <2>1, <2>2 DEF IsPrefix
  <2> QED
    BY <1>10, <2>3
<1>11. \A s \in Slots : IsPrefix(slot[s].prompt, Toks(slot[s].mem))
  <2> SUFFICES ASSUME NEW s \in Slots PROVE IsPrefix(slot[s].prompt, Toks(slot[s].mem))
    OBVIOUS
  <2>1. slot[s] \in SlotKind /\ SlotSound(conf, slot[s])
    BY <1>1, <1>2, SlotOf
  <2> PICK x : x = slot[s]
    OBVIOUS
  <2>2. x.prompt \in Tokens /\ x.mem \in Cells /\ (x.prompt = <<>> \/ x.prompt = Toks(x.mem))
    BY <2>1, SlotFields DEF SlotSound
  <2> QED
    BY <1>10, <2>2
<1>12. \A x \in ToSet(states) : x.tokens = Toks(x.cells)
  BY <1>1, <1>3 DEF EntriesSound, ToSet
<1>13. \A x \in ToSet(file) : IsPrefix(x.tokens, Toks(x.cells))
  <2> SUFFICES ASSUME NEW x \in ToSet(file) PROVE IsPrefix(x.tokens, Toks(x.cells))
    OBVIOUS
  <2>1. x.tokens \in Tokens /\ x.cells \in Cells /\ (x.tokens = <<>> \/ x.tokens = Toks(x.cells))
    BY <1>2 DEF FileSound, EntryKind
  <2> QED
    BY <1>10, <2>1
<1>14. PromptInMemory
  BY <1>11, <1>12, <1>13 DEF PromptInMemory
<1> QED
  BY <1>9, <1>14

LEMMA SpecServer == Spec => [](ServerInv /\ PlaceInv)
<1>1. Init => ServerInv /\ PlaceInv
  BY InitServer
<1>2. (ServerInv /\ PlaceInv) /\ [Next]_vars => (ServerInv /\ PlaceInv)'
  BY NextServer
<1> QED
  BY <1>1, <1>2, PTL DEF Spec

(* What a slot, a saved state or the slot file says it holds is, token for  *)
(* token, in the memory that goes with it, through every choice of a slot,  *)
(* launch, release, save to and load from the host cache, and save, restore *)
(* or erase of a slot.                                                      *)
THEOREM PromptsInMemory == Spec => []PromptInMemory
<1>1. ServerInv /\ PlaceInv => PromptInMemory
  BY InvImplies
<1> QED
  BY <1>1, SpecServer, PTL

(* The types; the host cache keeps to its limit, also when it shrinks, and  *)
(* keeps no prompt that another entry contains; and no task is ever in two  *)
(* of the queues and slots, or twice in one.                                *)
THEOREM SlotsWellFormed == Spec => []WellFormed
<1>1. ServerInv /\ PlaceInv => WellFormed
  BY InvImplies
<1> QED
  BY <1>1, SpecServer, PTL

=============================================================================
