-------------------------- MODULE SlotBatchProofs --------------------------
(* Proofs about SlotBatch, for every set of requests, any number of slots,  *)
(* every size of the batch and of the context, and whatever may fail: first *)
(* who holds and answers a request, then what the slots have in memory.     *)
EXTENDS SlotBatch, FiltersProofs, FiniteSetTheorems

----------------------------------------------------------------------------
(* What a configuration provides.                                           *)

LEMMA ConfTyped ==
    ASSUME conf \in Confs
    PROVE  /\ Posted \subseteq Requests /\ Task \in [Posted -> TaskType]
           /\ NoRequest \notin Posted
           /\ conf.n_slots \in Nat /\ conf.n_slots >= 1 /\ conf.n_slots <= MaxSlots
           /\ conf.n_batch \in Nat \ {0} /\ conf.n_ctx \in Nat /\ conf.n_keep \in Nat
           /\ conf.n_keep + 4 <= conf.n_ctx
           /\ conf.loras \subseteq Loras /\ conf.loras # {}
<1>1. IsConf(conf)
  BY SlotBatchAssumption
<1> QED
  BY <1>1, SlotBatchAssumption DEF IsConf, Posted, Task

LEMMA TaskTyped ==
    ASSUME conf \in Confs, NEW r \in Posted
    PROVE  /\ Task[r].type \in Types /\ Task[r].tokens \in Seq(Nat)
           /\ Len(Task[r].tokens) \in Nat
           /\ Task[r].parent \in Requests \cup {NoRequest}
           /\ Task[r].pos_first \in Nat /\ Task[r].n_tokens_shared \in Nat
           /\ Task[r].limit \in Nat \ {0} /\ Task[r].lora \in Loras \cup {DefaultLora}
<1>1. Task[r] \in TaskType
  BY ConfTyped
<1>2. /\ Task[r].type \in Types /\ Task[r].tokens \in Seq(Nat)
      /\ Task[r].parent \in Requests \cup {NoRequest}
      /\ Task[r].pos_first \in Nat /\ Task[r].n_tokens_shared \in Nat
      /\ Task[r].limit \in Nat \ {0} /\ Task[r].lora \in Loras \cup {DefaultLora}
  BY <1>1 DEF TaskType
<1> QED
  BY <1>2

(* Parents are posted, and are no children.                                 *)
LEMMA ParentPosted ==
    ASSUME conf \in Confs, NEW r \in Posted, IsChild(r)
    PROVE  /\ Task[r].parent \in Posted /\ ~IsChild(Task[r].parent)
           /\ IsChildOf(Task[r], Task[Task[r].parent])
<1>1. IsConf(conf)
  BY SlotBatchAssumption
<1>2. Task[r].parent \in Posted /\ IsChildOf(Task[r], Task[Task[r].parent])
  BY <1>1 DEF IsConf, Posted, Task, IsChild
<1> QED
  BY <1>2 DEF IsChildOf, IsChild

LEMMA SlotsTyped ==
    ASSUME conf \in Confs
    PROVE  /\ Slots \subseteq Nat /\ 1 \in Slots /\ NoSlot \notin Slots
           /\ IsFiniteSet(Slots) /\ IsFiniteSet(Posted)
           /\ \A s \in Slots : s \in Nat /\ s >= 1 /\ s <= conf.n_slots
<1>1. conf.n_slots \in Nat /\ conf.n_slots >= 1
  BY ConfTyped
<1>2. IsFiniteSet(Slots)
  BY <1>1, FS_Interval DEF Slots
<1>3. IsFiniteSet(Posted)
  BY ConfTyped, SlotBatchAssumption, FS_Subset
<1> QED
  BY <1>1, <1>2, <1>3 DEF Slots, NoSlot

----------------------------------------------------------------------------
(* Minima, prefixes.                                                        *)

LEMMA MinOf ==
    ASSUME NEW S \in SUBSET Nat, S # {}
    PROVE  Min(S) \in S /\ \A n \in S : Min(S) <= n
<1>1. IsWellFoundedOn(OpToRel(<, Nat), Nat)
  BY NatLessThanWellFounded
<1>2. PICK x \in S : \A y \in S : <<y, x>> \notin OpToRel(<, Nat)
  <2> HIDE DEF IsWellFoundedOn
  <2> QED
    BY <1>1, WFMin, Zenon
<1>3. \A y \in S : ~(y < x)
  BY <1>2, Zenon DEF OpToRel
<1>4. \A y \in S : x <= y
  BY <1>3
<1>5. \E m \in S : \A y \in S : m <= y
  BY <1>4
<1> QED
  BY <1>5, Zenon DEF Min

(* The start of a sequence.                                                 *)
LEMMA StartOf ==
    ASSUME NEW R, NEW q \in Seq(R), NEW n \in Nat, n <= Len(q)
    PROVE  /\ SubSeq(q, 1, n) \in Seq(R) /\ Len(SubSeq(q, 1, n)) = n
           /\ \A i \in 1 .. n : SubSeq(q, 1, n)[i] = q[i]
OBVIOUS

LEMMA CommonPrefix ==
    ASSUME NEW a \in Seq(Nat), NEW b \in Seq(Nat)
    PROVE  LET n == Len(LongestCommonPrefix({a, b}))
           IN  /\ n \in Nat /\ n <= Len(a) /\ n <= Len(b)
               /\ \A i \in 1 .. n : a[i] = b[i]
<1> DEFINE C == CommonPrefixes({a, b})
           T == {k \in Nat : \E p \in C : k = Len(a) - Len(p)}
<1>1. \A p \in C : /\ p \in Seq(Nat) /\ Len(p) \in Nat
                   /\ IsPrefix(p, a) /\ IsPrefix(p, b)
  <2> SUFFICES ASSUME NEW p \in C PROVE p \in Seq(Nat) /\ IsPrefix(p, a) /\ IsPrefix(p, b)
    OBVIOUS
  <2>1. p \in UNION {Prefixes(t) : t \in {a, b}} /\ IsPrefix(p, a) /\ IsPrefix(p, b)
    BY DEF CommonPrefixes
  <2>2. PICK t \in {a, b} : p \in Prefixes(t)
    BY <2>1
  <2>3. PICK l \in 0 .. Len(t) : p = SubSeq(t, 1, l)
    BY <2>2 DEF Prefixes
  <2> QED
    BY <2>1, <2>3
<1>2. <<>> \in C
  <2>1. <<>> = SubSeq(a, 1, 0) /\ <<>> = SubSeq(b, 1, 0)
    OBVIOUS
  <2>2. <<>> \in Prefixes(a)
    <3>1. 0 \in 0 .. Len(a)
      OBVIOUS
    <3>2. SubSeq(a, 1, 0) \in Prefixes(a)
      BY <3>1, Zenon DEF Prefixes
    <3> QED
      BY <2>1, <3>2, Zenon
  <2>3. IsPrefix(<<>>, a) /\ IsPrefix(<<>>, b)
    BY <2>1 DEF IsPrefix
  <2> QED
    BY <2>2, <2>3 DEF CommonPrefixes
<1>3. \A p \in C : Len(p) <= Len(a) /\ Len(p) <= Len(b)
  BY <1>1 DEF IsPrefix
<1>4. \E longest \in C : \A other \in C : Len(other) <= Len(longest)
  <2>1. T \in SUBSET Nat /\ T # {}
    <3>1. Len(a) - Len(<<>>) \in T
      BY <1>2
    <3> QED
      BY <3>1
  <2>2. Min(T) \in T /\ \A n \in T : Min(T) <= n
    <3> HIDE DEF T
    <3> QED
      BY <2>1, MinOf
  <2>3. PICK p \in C : Min(T) = Len(a) - Len(p)
    BY <2>2
  <2>4. ASSUME NEW other \in C PROVE Len(other) <= Len(p)
    <3>1. Len(a) \in Nat /\ Len(other) \in Nat /\ Len(p) \in Nat /\ Len(other) <= Len(a)
      <4> HIDE DEF C, T
      <4>1. Len(a) \in Nat
        OBVIOUS
      <4> QED
        BY <1>1, <1>3, <4>1, Zenon
    <3>2. Len(a) - Len(other) \in Nat
      BY <3>1
    <3>3. Len(a) - Len(other) \in T
      BY <3>2, Zenon
    <3>4. Min(T) <= Len(a) - Len(other)
      BY <2>2, <3>3, Zenon
    <3> HIDE DEF T
    <3> QED
      BY <2>3, <3>1, <3>4
  <2> HIDE DEF C
  <2> QED
    BY <2>4, Zenon
<1> DEFINE p == LongestCommonPrefix({a, b})
<1>5. p \in C
  <2> HIDE DEF C
  <2>1. p = CHOOSE longest \in C : \A other \in C : Len(other) <= Len(longest)
    BY DEF LongestCommonPrefix, C
  <2> QED
    BY <2>1, <1>4
<1> HIDE DEF p, C
<1>6. p \in Seq(Nat) /\ IsPrefix(p, a) /\ IsPrefix(p, b)
  BY <1>1, <1>5
<1>7. Len(p) \in Nat /\ Len(p) <= Len(a) /\ Len(p) <= Len(b)
  BY <1>6 DEF IsPrefix
<1>8. SubSeq(p, 1, Len(p)) = SubSeq(a, 1, Len(p)) /\ SubSeq(p, 1, Len(p)) = SubSeq(b, 1, Len(p))
  BY <1>6 DEF IsPrefix
<1>9. \A i \in 1 .. Len(p) : a[i] = b[i]
  BY <1>7, <1>8, StartOf
<1> QED
  BY <1>7, <1>9 DEF p

LEMMA PartOf ==
    ASSUME NEW R, NEW q \in Seq(R), NEW m \in Nat \ {0}, NEW n \in Nat, n <= Len(q)
    PROVE  /\ SubSeq(q, m, n) \in Seq(R)
           /\ Len(SubSeq(q, m, n)) = IF m <= n THEN n - m + 1 ELSE 0
           /\ \A i \in 1 .. n - m + 1 : SubSeq(q, m, n)[i] = q[m + i - 1]
<1>1. CASE m <= n
  BY <1>1
<1>2. CASE m > n
  BY <1>2
<1> QED
  BY <1>1, <1>2

----------------------------------------------------------------------------
(* Types.                                                                   *)

Cell  == [token : Nat, lora : Loras]
Cells == UNION {[D -> Cell] : D \in SUBSET Nat}
Entry == [slot : Slots, token : Nat, pos : Nat]

LEMMA CellsAre ==
    ASSUME NEW c \in Cells
    PROVE  /\ DOMAIN c \subseteq Nat /\ c \in [DOMAIN c -> Cell]
           /\ \A p \in DOMAIN c : c[p] \in Cell /\ c[p].token \in Nat /\ c[p].lora \in Loras
           /\ DOMAIN c = {} => c = NoCells
<1>1. PICK D \in SUBSET Nat : c \in [D -> Cell]
  BY Zenon DEF Cells
<1>2. DOMAIN c = D
  BY <1>1
<1>3. \A p \in DOMAIN c : c[p] \in Cell
  BY <1>1, <1>2
<1>4. ASSUME DOMAIN c = {} PROVE c = NoCells
  <2>1. c = [p \in {} |-> c[p]]
    BY <1>1, <1>2, <1>4
  <2>2. NoCells = [p \in {} |-> c[p]]
    BY DEF NoCells
  <2> QED
    BY <2>1, <2>2
<1> QED
  BY <1>1, <1>2, <1>3, <1>4 DEF Cell

LEMMA CellsMade ==
    ASSUME NEW D \in SUBSET Nat, NEW c \in [D -> Cell]
    PROVE  c \in Cells
BY Zenon DEF Cells

LEMMA NoCellsTyped == NoCells \in Cells /\ DOMAIN NoCells = {}
<1>1. NoCells = [p \in {} |-> NoCells[p]] /\ DOMAIN NoCells = {}
  BY DEF NoCells
<1>2. NoCells \in [{} -> Cell]
  BY <1>1
<1> QED
  BY <1>1, <1>2, CellsMade

TypedWalk  == conf \in Confs /\ pc \in At /\ at \in Slots
TypedTasks == /\ waiting \subseteq Posted /\ stopped \subseteq Posted
              /\ results \in [Posted -> Seq({"final", "error"})]
              /\ base_lora \in Loras
TypedSlots == /\ state \in [Slots -> States] /\ task \in [Slots -> Posted \cup {NoRequest}]
              /\ \A s \in Slots : state[s] = "IDLE" <=> task[s] = NoRequest
              /\ lora \in [Slots -> Loras]
              /\ i_batch \in [Slots -> Nat] /\ n_gen \in [Slots -> Nat]
TypedCache == prompt \in [Slots -> Seq(Nat)] /\ kv \in [Slots -> Cells]
TypedBatch == /\ batch \in Seq(Entry) /\ slot_batched \in Slots \cup {NoSlot}
              /\ batch # <<>> => slot_batched # NoSlot
              /\ off \in Nat /\ n_batch \in 1 .. conf.n_batch

Typed == TypedWalk /\ TypedTasks /\ TypedSlots /\ TypedCache /\ TypedBatch

LEMMA Fixed ==
    ASSUME conf' = conf
    PROVE  Slots' = Slots /\ Posted' = Posted /\ Task' = Task /\ Entry' = Entry
BY DEF Slots, Posted, Task, Entry

LEMMA ReleaseTyped ==
    ASSUME Typed, conf' = conf, NEW R \in SUBSET Slots, ReleaseState(R)
    PROVE  /\ state' \in [Slots -> States] /\ task' \in [Slots -> Posted \cup {NoRequest}]
           /\ \A s \in Slots : state'[s] = "IDLE" <=> task'[s] = NoRequest
           /\ n_gen' \in [Slots -> Nat]
BY DEF Typed, TypedSlots, ReleaseState, States

LEMMA ClearTyped ==
    ASSUME Typed, conf' = conf, NEW R, Clear(R)
    PROVE  TypedCache'
<1>1. \A s \in Slots : (IF s \in R THEN NoCells ELSE kv[s]) \in Cells
  BY NoCellsTyped DEF Typed, TypedCache
<1>2. \A s \in Slots : (IF s \in R THEN <<>> ELSE prompt[s]) \in Seq(Nat)
  BY DEF Typed, TypedCache
<1>3. kv' \in [Slots -> Cells]
  BY <1>1, Zenon DEF Clear
<1>4. prompt' \in [Slots -> Seq(Nat)]
  BY <1>2, Zenon DEF Clear
<1> QED
  BY <1>3, <1>4, Fixed DEF TypedCache

LEMMA AnswerTyped ==
    ASSUME Typed, NEW R, NEW x \in {"final", "error"}, Answer(R, x)
    PROVE  results' \in [Posted -> Seq({"final", "error"})]
BY DEF Typed, TypedTasks, Answer

LEMMA AdvanceTyped ==
    ASSUME Typed, conf' = conf, NEW s \in Slots, NEW next \in At, Advance(s, next)
    PROVE  TypedWalk'
<1>1. at' \in Slots /\ pc' \in At
  BY SlotsTyped, ConfTyped DEF Typed, TypedWalk, Advance, Slots
<1> QED
  BY <1>1, Fixed DEF Typed, TypedWalk

(* The sub-batch.                                                           *)
ViewEnd == IF off + n_batch < Len(batch) THEN off + n_batch ELSE Len(batch)

LEMMA ViewIs ==
    ASSUME Typed
    PROVE  /\ ViewEnd \in Nat /\ ViewEnd <= Len(batch) /\ Len(batch) \in Nat
           /\ View = off + 1 .. ViewEnd
           /\ IsFiniteSet(View)
           /\ off < Len(batch) => off < ViewEnd /\ Cardinality(View) = ViewEnd - off
           /\ off >= Len(batch) => Cardinality(View) = 0
           /\ Cardinality(View) \in Nat
<1>1. /\ off \in Nat /\ n_batch \in Nat /\ n_batch >= 1 /\ Len(batch) \in Nat
  BY ConfTyped DEF Typed, TypedWalk, TypedBatch
<1>2. ViewEnd \in Nat /\ ViewEnd <= Len(batch)
  BY <1>1 DEF ViewEnd
<1>3. View = off + 1 .. ViewEnd
  BY <1>1 DEF View, ViewEnd
<1>4. IsFiniteSet(View) /\ Cardinality(View) = IF off + 1 > ViewEnd THEN 0 ELSE ViewEnd - (off + 1) + 1
  BY <1>1, <1>2, <1>3, FS_Interval
<1>5. off < Len(batch) => off < ViewEnd
  BY <1>1 DEF ViewEnd
<1> QED
  BY <1>1, <1>2, <1>3, <1>4, <1>5

----------------------------------------------------------------------------
(* What is kept of a cached prompt, and how far the prompt gets.            *)

LEMMA BusyTask ==
    ASSUME Typed, NEW s \in Slots, state[s] # "IDLE"
    PROVE  /\ task[s] \in Posted /\ Task[task[s]].tokens \in Seq(Nat) /\ NTokens(s) \in Nat
           /\ NShared(s) \in Nat /\ PosFirst(s) \in Nat
<1>1. task[s] \in Posted /\ conf \in Confs
  BY DEF Typed, TypedSlots, TypedWalk
<1> QED
  BY <1>1, TaskTyped DEF NTokens, NShared, PosFirst

LEMMA CommonIs ==
    ASSUME Typed, NEW s \in Slots, state[s] # "IDLE"
    PROVE  /\ Common(s) \in Nat /\ Common(s) <= Len(prompt[s]) /\ Common(s) <= NTokens(s)
           /\ \A i \in 1 .. Common(s) : prompt[s][i] = Task[task[s]].tokens[i]
           /\ NShared(s) > 0 => Common(s) <= NShared(s)
           /\ IsDecision(s) => Common(s) <= PosFirst(s)
<1> DEFINE n == Len(LongestCommonPrefix({Task[task[s]].tokens, prompt[s]}))
           S == {n} \cup (IF NShared(s) > 0 THEN {NShared(s)} ELSE {})
                    \cup (IF IsDecision(s) THEN {PosFirst(s)} ELSE {})
<1>1. prompt[s] \in Seq(Nat)
  BY DEF Typed, TypedCache
<1>2. /\ n \in Nat /\ n <= Len(prompt[s]) /\ n <= NTokens(s)
      /\ \A i \in 1 .. n : Task[task[s]].tokens[i] = prompt[s][i]
  BY <1>1, BusyTask, CommonPrefix DEF NTokens
<1>3. Common(s) = Min(S)
  BY DEF Common
<1> HIDE DEF n
<1>4. S \in SUBSET Nat /\ n \in S
  BY <1>2, BusyTask
<1>5. Min(S) \in S /\ \A k \in S : Min(S) <= k
  <2> HIDE DEF S
  <2> QED
    BY <1>4, MinOf
<1>6. /\ Min(S) \in Nat /\ Min(S) <= n
      /\ NShared(s) > 0 => Min(S) <= NShared(s)
      /\ IsDecision(s) => Min(S) <= PosFirst(s)
  BY <1>4, <1>5
<1> HIDE DEF S
<1>7. Len(prompt[s]) \in Nat /\ NTokens(s) \in Nat
  BY <1>1, BusyTask
<1> QED
  BY <1>2, <1>3, <1>6, <1>7

LEMMA NPastIs ==
    ASSUME Typed, NEW s \in Slots, state[s] # "IDLE"
    PROVE  /\ NPast(s) \in Nat /\ NPast(s) <= Common(s)
           /\ NTokens(s) > 0 => NPast(s) < NTokens(s)
           /\ ~CanSplit(task[s]) => NPast(s) = 0
BY CommonIs, BusyTask DEF NPast

LEMMA KeptIs ==
    ASSUME Typed, NEW s \in Slots, state[s] # "IDLE"
    PROVE  /\ Kept(s) \in Seq(Nat) /\ Len(Kept(s)) \in Nat /\ Len(Kept(s)) <= Len(prompt[s])
           /\ \A i \in 1 .. Len(Kept(s)) : Kept(s)[i] = prompt[s][i]
           /\ state[s] = "STARTED" =>
                 /\ Len(Kept(s)) = NPast(s)
                 /\ \A i \in 1 .. Len(Kept(s)) : Kept(s)[i] = Task[task[s]].tokens[i]
           /\ state[s] # "STARTED" => Kept(s) = prompt[s]
<1>1. prompt[s] \in Seq(Nat) /\ Len(prompt[s]) \in Nat
  BY DEF Typed, TypedCache
<1>2. NPast(s) \in Nat /\ NPast(s) <= Len(prompt[s]) /\ NPast(s) <= Common(s) /\ Common(s) \in Nat
  BY <1>1, NPastIs, CommonIs
<1>3. CASE state[s] = "STARTED"
  <2>1. Kept(s) = SubSeq(prompt[s], 1, NPast(s))
    BY <1>3 DEF Kept
  <2>2. /\ Kept(s) \in Seq(Nat) /\ Len(Kept(s)) = NPast(s)
        /\ \A i \in 1 .. NPast(s) : Kept(s)[i] = prompt[s][i]
    BY <1>1, <1>2, <2>1, StartOf
  <2>3. \A i \in 1 .. NPast(s) : prompt[s][i] = Task[task[s]].tokens[i]
    BY <1>2, CommonIs
  <2> QED
    BY <1>1, <1>2, <1>3, <2>2, <2>3
<1>4. CASE state[s] # "STARTED"
  BY <1>1, <1>4 DEF Kept
<1> QED
  BY <1>3, <1>4

LEMMA PromptEndIs ==
    ASSUME Typed, NEW s \in Slots, PromptPending(s)
    PROVE  /\ PromptEnd(s) \in Nat /\ PromptEnd(s) <= NTokens(s)
           /\ PromptEnd(s) <= Len(Kept(s)) + conf.n_batch - Len(batch)
           /\ Len(Kept(s)) <= NTokens(s) => Len(Kept(s)) <= PromptEnd(s)
           /\ NShared(s) > Len(Kept(s)) /\ WaitingChildren(s) # {} => PromptEnd(s) <= NShared(s)
           /\ \/ PromptEnd(s) = NTokens(s)
              \/ PromptEnd(s) = Len(Kept(s)) + conf.n_batch - Len(batch)
              \/ PromptEnd(s) = NShared(s) /\ NShared(s) > Len(Kept(s)) /\ WaitingChildren(s) # {}
              \/ /\ PromptEnd(s) = PosFirst(s) /\ IsDecision(s) /\ Len(Kept(s)) <= PosFirst(s)
                 /\ Len(Kept(s)) + conf.n_batch - Len(batch) < NTokens(s)
           /\ IsDecision(s) /\ Len(Kept(s)) <= PosFirst(s)
                /\ Len(Kept(s)) + conf.n_batch - Len(batch) < NTokens(s) => PromptEnd(s) <= PosFirst(s)
<1> DEFINE first == Len(Kept(s))
           room  == conf.n_batch - Len(batch)
           S == {NTokens(s), first + room}
                 \cup (IF NShared(s) > first /\ WaitingChildren(s) # {} THEN {NShared(s)} ELSE {})
                 \cup (IF IsDecision(s) /\ first <= PosFirst(s) /\ first + room < NTokens(s)
                       THEN {PosFirst(s)} ELSE {})
<1>1. state[s] # "IDLE" /\ Len(batch) < conf.n_batch
  BY DEF PromptPending
<1>2. /\ first \in Nat /\ room \in Nat /\ NTokens(s) \in Nat /\ NShared(s) \in Nat /\ PosFirst(s) \in Nat
  BY <1>1, KeptIs, BusyTask, ConfTyped DEF Typed, TypedWalk, TypedBatch
<1>3. PromptEnd(s) = Min(S)
  BY Zenon DEF PromptEnd
<1> HIDE DEF first, room
<1>4. S \in SUBSET Nat /\ NTokens(s) \in S /\ first + room \in S
  BY <1>2
<1>5. Min(S) \in S /\ \A k \in S : Min(S) <= k
  <2> HIDE DEF S
  <2> QED
    BY <1>4, MinOf
<1>6. /\ Min(S) \in Nat /\ Min(S) <= NTokens(s) /\ Min(S) <= first + room
      /\ NShared(s) > first /\ WaitingChildren(s) # {} => Min(S) <= NShared(s)
      /\ \/ Min(S) = NTokens(s)
         \/ Min(S) = first + room
         \/ Min(S) = NShared(s) /\ NShared(s) > first /\ WaitingChildren(s) # {}
         \/ Min(S) = PosFirst(s) /\ IsDecision(s) /\ first <= PosFirst(s) /\ first + room < NTokens(s)
      /\ IsDecision(s) /\ first <= PosFirst(s) /\ first + room < NTokens(s) => Min(S) <= PosFirst(s)
  BY <1>4, <1>5
<1> HIDE DEF S
<1>7. first <= NTokens(s) => first <= Min(S)
  BY <1>2, <1>6
<1>8. first + room = Len(Kept(s)) + conf.n_batch - Len(batch)
  BY <1>2, KeptIs, <1>1, ConfTyped DEF first, room, Typed, TypedWalk, TypedBatch
<1> QED
  BY <1>2, <1>3, <1>6, <1>7, <1>8 DEF first

----------------------------------------------------------------------------
(* Cells that are removed, moved, computed and copied.                      *)

LEMMA SeqRmIs ==
    ASSUME NEW c \in Cells, NEW n \in Nat
    PROVE  /\ SeqRm(c, n) \in Cells
           /\ DOMAIN SeqRm(c, n) = {q \in DOMAIN c : q < n}
           /\ \A q \in DOMAIN c : q < n => SeqRm(c, n)[q] = c[q]
<1>1. SeqRm(c, n) = [q \in {q \in DOMAIN c : q < n} |-> c[q]]
  BY DEF SeqRm, Restrict
<1>2. {q \in DOMAIN c : q < n} \in SUBSET Nat
  BY CellsAre
<1>3. SeqRm(c, n) \in [{q \in DOMAIN c : q < n} -> Cell]
  BY <1>1, CellsAre
<1>4. SeqRm(c, n) \in Cells
  BY <1>2, <1>3, CellsMade
<1> QED
  BY <1>1, <1>4

LEMMA SeqShiftIs ==
    ASSUME NEW c \in Cells, NEW keep \in Nat, NEW discard \in Nat
    PROVE  /\ SeqShift(c, keep, discard) \in Cells
           /\ DOMAIN SeqShift(c, keep, discard) =
                 {q \in DOMAIN c : q < keep} \cup {q - discard : q \in {q \in DOMAIN c : q >= keep + discard}}
           /\ \A p \in DOMAIN SeqShift(c, keep, discard) :
                 SeqShift(c, keep, discard)[p] = IF p < keep THEN c[p] ELSE c[p + discard]
<1> DEFINE D == {q \in DOMAIN c : q < keep} \cup {q - discard : q \in {q \in DOMAIN c : q >= keep + discard}}
           m == SeqShift(c, keep, discard)
<1>1. m = [p \in D |-> IF p < keep THEN c[p] ELSE c[p + discard]]
  BY DEF SeqShift
<1>2. DOMAIN c \subseteq Nat
  BY CellsAre
<1>3. D \in SUBSET Nat
  BY <1>2
<1>4. ASSUME NEW p \in D PROVE (IF p < keep THEN c[p] ELSE c[p + discard]) \in Cell
  <2>1. CASE p < keep
    <3>1. p \in DOMAIN c
      BY <1>2, <2>1
    <3> QED
      BY <2>1, <3>1, CellsAre
  <2>2. CASE ~(p < keep)
    <3>1. PICK q \in DOMAIN c : q >= keep + discard /\ p = q - discard
      BY <2>2
    <3>2. p + discard = q
      BY <1>2, <3>1
    <3> QED
      BY <2>2, <3>2, CellsAre
  <2> QED
    BY <2>1, <2>2
<1> HIDE DEF D, m
<1>5. m \in [D -> Cell]
  BY <1>1, <1>4, Zenon
<1>6. m \in Cells
  BY <1>3, <1>5, CellsMade
<1>7. DOMAIN m = D /\ \A p \in D : m[p] = IF p < keep THEN c[p] ELSE c[p + discard]
  BY <1>1, Zenon
<1> QED
  BY <1>6, <1>7, Zenon DEF D, m

LEMMA EntriesAre ==
    ASSUME NEW s, NEW q \in Seq(Nat), NEW first \in Nat
    PROVE  /\ Entries(s, q, first) \in Seq([slot : {s}, token : Nat, pos : Nat])
           /\ Len(Entries(s, q, first)) = Len(q)
           /\ \A i \in 1 .. Len(q) : Entries(s, q, first)[i] = [slot |-> s, token |-> q[i], pos |-> first + i - 1]
<1>1. Len(q) \in Nat /\ \A i \in 1 .. Len(q) : q[i] \in Nat /\ first + i - 1 \in Nat
  OBVIOUS
<1> DEFINE E(i) == [slot |-> s, token |-> q[i], pos |-> first + i - 1]
<1>2. \A i \in 1 .. Len(q) : E(i) \in [slot : {s}, token : Nat, pos : Nat]
  BY <1>1
<1>3. Entries(s, q, first) = [i \in 1 .. Len(q) |-> E(i)]
  BY DEF Entries
<1> HIDE DEF E
<1>4. Entries(s, q, first) \in Seq([slot : {s}, token : Nat, pos : Nat])
  BY <1>1, <1>2, <1>3
<1>5. Len(Entries(s, q, first)) = Len(q) /\ \A i \in 1 .. Len(q) : Entries(s, q, first)[i] = E(i)
  BY <1>1, <1>3
<1> QED
  BY <1>4, <1>5 DEF E

(* More entries in the batch.                                               *)
LEMMA BatchGrows ==
    ASSUME Typed, NEW s \in Slots, NEW q \in Seq(Nat), NEW first \in Nat,
           batch' = batch \o Entries(s, q, first), conf' = conf
    PROVE  /\ batch' \in Seq(Entry) /\ Len(batch) \in Nat /\ Len(batch') \in Nat
           /\ Len(batch') = Len(batch) + Len(q)
           /\ \A i \in 1 .. Len(batch) : batch'[i] = batch[i]
           /\ \A i \in 1 .. Len(q) :
                 batch'[Len(batch) + i] = [slot |-> s, token |-> q[i], pos |-> first + i - 1]
<1> DEFINE e == Entries(s, q, first)
<1>1. e \in Seq([slot : {s}, token : Nat, pos : Nat]) /\ Len(e) = Len(q)
  BY EntriesAre
<1>2. \A i \in 1 .. Len(q) : e[i] = [slot |-> s, token |-> q[i], pos |-> first + i - 1]
  BY EntriesAre
<1>3. batch \in Seq(Entry)
  BY DEF Typed, TypedBatch
<1> HIDE DEF e
<1>4. [slot : {s}, token : Nat, pos : Nat] \subseteq Entry
  BY DEF Entry
<1>5. e \in Seq(Entry)
  <2> DEFINE T == [slot : {s}, token : Nat, pos : Nat]
  <2>1. T \subseteq Entry /\ e \in Seq(T)
    BY <1>1, <1>4
  <2> HIDE DEF T
  <2>2. \A i \in 1 .. Len(e) : e[i] \in Entry
    BY <2>1
  <2>3. e = [i \in 1 .. Len(e) |-> e[i]] /\ Len(e) \in Nat
    BY <2>1
  <2>4. ASSUME NEW n \in Nat, n = Len(e) PROVE [i \in 1 .. n |-> e[i]] \in Seq(Entry)
    BY <2>2, <2>4
  <2> QED
    BY <2>3, <2>4
<1>6. batch' = batch \o e
  BY DEF e
<1>7. /\ batch \o e \in Seq(Entry) /\ Len(batch \o e) = Len(batch) + Len(e) /\ Len(batch) \in Nat
      /\ \A i \in 1 .. Len(batch) : (batch \o e)[i] = batch[i]
      /\ \A i \in 1 .. Len(e) : (batch \o e)[Len(batch) + i] = e[i]
  BY <1>3, <1>5
<1> QED
  BY <1>1, <1>2, <1>6, <1>7

LEMMA EntryTyped ==
    ASSUME Typed, NEW i \in DOMAIN batch
    PROVE  /\ i \in Nat /\ i >= 1 /\ i <= Len(batch)
           /\ batch[i].slot \in Slots /\ batch[i].token \in Nat /\ batch[i].pos \in Nat
<1>1. batch \in Seq(Entry)
  BY DEF Typed, TypedBatch
<1>2. \A j \in DOMAIN batch : batch[j] \in Entry /\ j \in Nat /\ j >= 1 /\ j <= Len(batch)
  BY <1>1
<1> QED
  BY <1>2 DEF Entry

(* The entries of the sub-batch, by index.                                  *)
LEMMA ViewOfIs ==
    ASSUME Typed, NEW s \in Slots
    PROVE  /\ \A e \in ViewOf(s) : \E i \in DOMAIN batch :
                 i > off /\ i <= ViewEnd /\ batch[i].slot = s /\ e = batch[i]
           /\ \A i \in DOMAIN batch :
                 i > off /\ i <= ViewEnd /\ batch[i].slot = s => batch[i] \in ViewOf(s)
           /\ \A e \in ViewOf(s) : e.pos \in Nat /\ e.token \in Nat /\ e.slot = s
<1>1. batch \in Seq(Entry) /\ DOMAIN batch = 1 .. Len(batch) /\ off \in Nat
  BY DEF Typed, TypedBatch
<1>2. View = off + 1 .. ViewEnd /\ ViewEnd \in Nat /\ ViewEnd <= Len(batch)
  BY ViewIs
<1>3. ASSUME NEW e \in ViewOf(s)
      PROVE  \E i \in DOMAIN batch : i > off /\ i <= ViewEnd /\ batch[i].slot = s /\ e = batch[i]
  <2>1. PICK i \in View : batch[i].slot = s /\ e = batch[i]
    BY Zenon DEF ViewOf
  <2>2. i \in DOMAIN batch /\ i > off /\ i <= ViewEnd
    BY <1>1, <1>2, <2>1
  <2> QED
    BY <2>1, <2>2, Zenon
<1>4. ASSUME NEW i \in DOMAIN batch, i > off, i <= ViewEnd, batch[i].slot = s
      PROVE  batch[i] \in ViewOf(s)
  <2>1. i \in View
    BY <1>1, <1>2, <1>4
  <2> QED
    BY <1>4, <2>1, Zenon DEF ViewOf
<1>5. ASSUME NEW e \in ViewOf(s)
      PROVE  e.pos \in Nat /\ e.token \in Nat /\ e.slot = s
  BY <1>3, EntryTyped
<1> QED
  BY <1>3, <1>4, <1>5, Zenon

LEMMA ComputedIs ==
    ASSUME Typed, Decoding
    PROVE  /\ Computed \in [Slots -> Cells]
           /\ \A s \in Slots : DOMAIN Computed[s] = DOMAIN kv[s] \cup {e.pos : e \in ViewOf(s)}
           /\ \A s \in Slots : \A p \in DOMAIN Computed[s] :
                 /\ (~\E e \in ViewOf(s) : e.pos = p) => Computed[s][p] = kv[s][p]
                 /\ (\E e \in ViewOf(s) : e.pos = p) =>
                       /\ Computed[s][p].lora = lora[slot_batched]
                       /\ \E e \in ViewOf(s) : e.pos = p /\ Computed[s][p].token = e.token
<1>1. /\ slot_batched \in Slots /\ lora[slot_batched] \in Loras
      /\ kv \in [Slots -> Cells]
  <2>1. batch # <<>>
    BY ViewIs DEF Decoding, Typed, TypedBatch
  <2> QED
    BY <2>1 DEF Typed, TypedBatch, TypedSlots, TypedCache
<1> DEFINE L == lora[slot_batched]
           D(s) == DOMAIN kv[s] \cup {e.pos : e \in ViewOf(s)}
           V(s, p) == IF \E e \in ViewOf(s) : e.pos = p
                      THEN [token |-> (CHOOSE e \in ViewOf(s) : e.pos = p).token, lora |-> L]
                      ELSE kv[s][p]
           C(s) == [p \in D(s) |-> V(s, p)]
<1>2. Computed = [s \in Slots |-> C(s)]
  BY DEF Computed
<1>3. ASSUME NEW s \in Slots PROVE D(s) \in SUBSET Nat /\ DOMAIN kv[s] \subseteq Nat
  <2>1. DOMAIN kv[s] \subseteq Nat
    BY <1>1, CellsAre
  <2>2. \A e \in ViewOf(s) : e.pos \in Nat
    BY ViewOfIs
  <2> QED
    BY <2>1, <2>2
<1>4. ASSUME NEW s \in Slots, NEW p \in D(s)
      PROVE  /\ V(s, p) \in Cell
             /\ (~\E e \in ViewOf(s) : e.pos = p) => V(s, p) = kv[s][p]
             /\ (\E e \in ViewOf(s) : e.pos = p) =>
                   V(s, p).lora = L /\ \E e \in ViewOf(s) : e.pos = p /\ V(s, p).token = e.token
  <2>1. CASE \E e \in ViewOf(s) : e.pos = p
    <3> DEFINE e == CHOOSE e \in ViewOf(s) : e.pos = p
    <3>1. e \in ViewOf(s) /\ e.pos = p
      BY <2>1, Zenon
    <3> HIDE DEF e
    <3>2. e.token \in Nat
      BY <3>1, ViewOfIs
    <3>3. V(s, p) = [token |-> e.token, lora |-> L]
      BY <2>1, Zenon DEF e
    <3> HIDE DEF V
    <3>4. V(s, p).token = e.token /\ V(s, p).lora = L /\ V(s, p) \in Cell
      BY <1>1, <3>2, <3>3 DEF Cell
    <3> QED
      BY <2>1, <3>1, <3>4
  <2>2. CASE ~\E e \in ViewOf(s) : e.pos = p
    <3>1. V(s, p) = kv[s][p]
      BY <2>2, Zenon
    <3>2. p \in DOMAIN kv[s]
      BY <2>2
    <3>3. kv[s] \in Cells
      BY <1>1
    <3>4. kv[s][p] \in Cell
      BY <3>2, <3>3, CellsAre
    <3> HIDE DEF V
    <3> QED
      BY <2>2, <3>1, <3>4
  <2> HIDE DEF V, D
  <2> QED
    BY <2>1, <2>2
<1> HIDE DEF D, V
<1>5. ASSUME NEW s \in Slots PROVE C(s) \in Cells
  <2>1. C(s) \in [D(s) -> Cell]
    BY <1>4, Zenon
  <2> HIDE DEF C
  <2> QED
    BY <1>3, <2>1, CellsMade
<1>6. \A s \in Slots : DOMAIN C(s) = D(s) /\ \A p \in D(s) : C(s)[p] = V(s, p)
  BY Zenon
<1> HIDE DEF C
<1>7. Computed \in [Slots -> Cells]
  BY <1>2, <1>5, Zenon
<1>8. \A s \in Slots : Computed[s] = C(s)
  BY <1>2, Zenon
<1>9. \A s \in Slots : DOMAIN Computed[s] = DOMAIN kv[s] \cup {e.pos : e \in ViewOf(s)}
  BY <1>6, <1>8, Zenon DEF D
<1>10. ASSUME NEW s \in Slots, NEW p \in DOMAIN Computed[s]
       PROVE  Computed[s][p] = V(s, p) /\ p \in D(s)
  BY <1>6, <1>8, Zenon
<1>11. ASSUME NEW s \in Slots, NEW p \in DOMAIN Computed[s]
       PROVE  /\ (~\E e \in ViewOf(s) : e.pos = p) => Computed[s][p] = kv[s][p]
              /\ (\E e \in ViewOf(s) : e.pos = p) =>
                    /\ Computed[s][p].lora = L
                    /\ \E e \in ViewOf(s) : e.pos = p /\ Computed[s][p].token = e.token
  <2>1. Computed[s][p] = V(s, p) /\ p \in D(s)
    BY <1>10, Zenon
  <2> HIDE DEF L
  <2>2. CASE \E e \in ViewOf(s) : e.pos = p
    <3>1. V(s, p).lora = L /\ \E e \in ViewOf(s) : e.pos = p /\ V(s, p).token = e.token
      BY <1>4, <2>1, <2>2, Zenon
    <3> QED
      BY <2>1, <2>2, <3>1
  <2>3. CASE ~\E e \in ViewOf(s) : e.pos = p
    BY <1>4, <2>1, <2>3, Zenon
  <2> QED
    BY <2>2, <2>3, Zenon
<1> QED
  BY <1>7, <1>9, <1>11, Zenon DEF L

LEMMA DiscardIs ==
    ASSUME NEW s \in Slots, Len(prompt[s]) \in Nat, conf.n_keep \in Nat, Len(prompt[s]) >= conf.n_keep
    PROVE  Discard(s) \in Nat /\ conf.n_keep + 2 * Discard(s) <= Len(prompt[s])
<1>1. \A x \in Nat : x \div 2 \in Nat /\ 2 * (x \div 2) <= x
  OBVIOUS
<1>2. Len(prompt[s]) - conf.n_keep \in Nat
  OBVIOUS
<1>3. Discard(s) \in Nat /\ 2 * Discard(s) <= Len(prompt[s]) - conf.n_keep
  BY <1>1, <1>2 DEF Discard
<1> QED
  BY <1>3

(* The slot a child takes over from.                                        *)
Donor(c) == CHOOSE s \in Slots : task[s] = Task[task[c]].parent

LEMMA CopiedIs ==
    ASSUME Typed
    PROVE  /\ \A c \in Activated : /\ c \in Slots /\ state[c] = "WAIT_OTHER"
                                   /\ Donor(c) \in Slots /\ task[Donor(c)] = Task[task[c]].parent
           /\ \A f : Copied(f) = [c \in Slots |-> IF c \in Activated THEN f[Donor(c)] ELSE f[c]]
           /\ \A T : \A f \in [Slots -> T] : Copied(f) \in [Slots -> T]
<1>1. ASSUME NEW c \in Activated
      PROVE  /\ c \in Slots /\ state[c] = "WAIT_OTHER"
             /\ Donor(c) \in Slots /\ task[Donor(c)] = Task[task[c]].parent
  <2>1. PICK s \in Slots : c \in WaitingChildren(s)
    BY DEF Activated
  <2>2. c \in Slots /\ state[c] = "WAIT_OTHER" /\ Task[task[c]].parent = task[s]
    BY <2>1 DEF WaitingChildren
  <2>3. \E t \in Slots : task[t] = Task[task[c]].parent
    BY <2>2
  <2> QED
    BY <2>2, <2>3, Zenon DEF Donor
<1>2. \A f : Copied(f) = [c \in Slots |-> IF c \in Activated THEN f[Donor(c)] ELSE f[c]]
  BY Zenon DEF Copied, Donor
<1>3. ASSUME NEW T, NEW f \in [Slots -> T] PROVE Copied(f) \in [Slots -> T]
  <2>1. \A c \in Slots : (IF c \in Activated THEN f[Donor(c)] ELSE f[c]) \in T
    BY <1>1
  <2>2. [c \in Slots |-> IF c \in Activated THEN f[Donor(c)] ELSE f[c]] \in [Slots -> T]
    BY <2>1
  <2> QED
    BY <1>2, <2>2, Zenon
<1> QED
  BY <1>1, <1>2, <1>3, Zenon

----------------------------------------------------------------------------
(* Launches.                                                                *)

LEMMA KeptPromptIs ==
    ASSUME Typed, NEW s \in Slots, NEW r
    PROVE  /\ KeptPrompt(s, r) \in Seq(Nat)
           /\ KeptPrompt(s, r) = <<>> \/ KeptPrompt(s, r) = prompt[s]
BY DEF KeptPrompt, Typed, TypedCache

LEMMA LoraOfTyped ==
    ASSUME Typed, NEW r \in Posted
    PROVE  LoraOf(r) \in Loras
<1>1. Task[r].lora \in Loras \cup {DefaultLora} /\ base_lora \in Loras
  BY TaskTyped DEF Typed, TypedWalk, TypedTasks
<1> QED
  BY <1>1 DEF LoraOf

(* What a launch does, with the request each slot is given.                 *)
Starts(r, taken, given) ==
    /\ taken \subseteq Idle
    /\ \A s \in taken : given[s] \in {r} \cup Children(r)
    /\ \A q \in {r} \cup Children(r) : \E s \in taken : given[s] = q
    /\ \A s, t \in taken : given[s] = given[t] => s = t
    /\ \A s \in Slots \ taken :
          /\ state'[s] = state[s] /\ task'[s] = task[s] /\ lora'[s] = lora[s]
          /\ \/ prompt'[s] = prompt[s] /\ kv'[s] = kv[s]
             \/ prompt'[s] = <<>> /\ kv'[s] = NoCells /\ s \in Idle
    /\ \A s \in taken :
          /\ state'[s] = IF IsChild(given[s]) THEN "WAIT_OTHER" ELSE "STARTED"
          /\ task'[s] = given[s] /\ lora'[s] = LoraOf(given[s])
          /\ prompt'[s] = KeptPrompt(s, given[s]) /\ kv'[s] = kv[s]

LEMMA LaunchIs ==
    ASSUME Typed, NEW r \in Posted, Launch(r)
    PROVE  /\ \E taken, given : Starts(r, taken, given)
           /\ DOMAIN state' = Slots /\ state' = [s \in Slots |-> state'[s]]
           /\ task' = [s \in Slots |-> task'[s]] /\ lora' = [s \in Slots |-> lora'[s]]
           /\ prompt' = [s \in Slots |-> prompt'[s]] /\ kv' = [s \in Slots |-> kv'[s]]
           /\ {r} \cup Children(r) \subseteq Posted
<1> DEFINE F == {r} \cup Children(r)
<1>1. PICK place \in [F -> Idle] :
          /\ IsInjective(place)
          /\ LET taken == {place[q] : q \in DOMAIN place}
                 of(s) == CHOOSE q \in DOMAIN place : place[q] = s
                 wiped == IF conf.cache_idle_slots /\ conf.kv_unified THEN Idle \ taken ELSE {}
                 start(q) == IF IsChild(q) THEN "WAIT_OTHER" ELSE "STARTED"
             IN  /\ state' = [s \in Slots |-> IF s \in taken THEN start(of(s)) ELSE state[s]]
                 /\ task' = [s \in Slots |-> IF s \in taken THEN of(s) ELSE task[s]]
                 /\ lora' = [s \in Slots |-> IF s \in taken THEN LoraOf(of(s)) ELSE lora[s]]
                 /\ prompt' = [s \in Slots |-> IF s \in taken THEN KeptPrompt(s, of(s))
                                               ELSE IF s \in wiped THEN <<>> ELSE prompt[s]]
                 /\ kv' = [s \in Slots |-> IF s \in wiped THEN NoCells ELSE kv[s]]
  BY Zenon DEF Launch
<1> DEFINE taken == {place[q] : q \in DOMAIN place}
           of(s) == CHOOSE q \in DOMAIN place : place[q] = s
           wiped == IF conf.cache_idle_slots /\ conf.kv_unified THEN Idle \ taken ELSE {}
           given == [s \in taken |-> of(s)]
<1>2. /\ state' = [s \in Slots |-> IF s \in taken THEN (IF IsChild(of(s)) THEN "WAIT_OTHER" ELSE "STARTED")
                                   ELSE state[s]]
      /\ task' = [s \in Slots |-> IF s \in taken THEN of(s) ELSE task[s]]
      /\ lora' = [s \in Slots |-> IF s \in taken THEN LoraOf(of(s)) ELSE lora[s]]
      /\ prompt' = [s \in Slots |-> IF s \in taken THEN KeptPrompt(s, of(s))
                                    ELSE IF s \in wiped THEN <<>> ELSE prompt[s]]
      /\ kv' = [s \in Slots |-> IF s \in wiped THEN NoCells ELSE kv[s]]
  BY <1>1, Zenon
<1>3. DOMAIN place = F /\ \A q \in F : place[q] \in Idle
  OBVIOUS
<1>4. taken \subseteq Idle /\ \A s \in taken : of(s) \in F /\ place[of(s)] = s
  <2>1. \A s \in taken : \E q \in DOMAIN place : place[q] = s
    OBVIOUS
  <2>2. \A s \in taken : of(s) \in DOMAIN place /\ place[of(s)] = s
    BY <2>1, Zenon
  <2> QED
    BY <1>3, <2>2
<1>5. ASSUME NEW q \in F PROVE place[q] \in taken /\ of(place[q]) = q
  <2>1. place[q] \in taken
    BY <1>3
  <2>2. of(place[q]) \in F /\ place[of(place[q])] = place[q]
    BY <1>4, <2>1
  <2> HIDE DEF of
  <2> QED
    BY <1>1, <1>3, <2>1, <2>2, Zenon DEF IsInjective
<1>6. wiped \cap taken = {} /\ wiped \subseteq Idle /\ Idle \subseteq Slots
  BY DEF Idle
<1>7. \A s \in taken : given[s] = of(s)
  OBVIOUS
<1> HIDE DEF taken, of, wiped, given
<1>8. Starts(r, taken, given)
  <2>1. \A s \in taken : given[s] \in F
    BY <1>4, <1>7
  <2>2. \A q \in F : \E s \in taken : given[s] = q
    BY <1>5, <1>7
  <2>3. \A s, t \in taken : given[s] = given[t] => s = t
    BY <1>4, <1>7
  <2>4. ASSUME NEW s \in Slots \ taken
        PROVE  /\ state'[s] = state[s] /\ task'[s] = task[s] /\ lora'[s] = lora[s]
               /\ \/ prompt'[s] = prompt[s] /\ kv'[s] = kv[s]
                  \/ prompt'[s] = <<>> /\ kv'[s] = NoCells /\ s \in Idle
    BY <1>2, <1>6
  <2>5. ASSUME NEW s \in taken
        PROVE  /\ state'[s] = IF IsChild(given[s]) THEN "WAIT_OTHER" ELSE "STARTED"
               /\ task'[s] = given[s] /\ lora'[s] = LoraOf(given[s])
               /\ prompt'[s] = KeptPrompt(s, given[s]) /\ kv'[s] = kv[s]
    <3>1. s \in Slots /\ s \notin wiped
      BY <1>4, <1>6
    <3> QED
      BY <1>2, <1>7, <3>1
  <2> QED
    BY <1>4, <2>1, <2>2, <2>3, <2>4, <2>5, Zenon DEF Starts
<1>9. F \subseteq Posted
  BY DEF Children
<1> QED
  BY <1>2, <1>8, <1>9

LEMMA LaunchTyped ==
    ASSUME Typed, NEW r \in Posted, Launch(r)
    PROVE  Typed'
<1>1. PICK taken, given : Starts(r, taken, given)
  BY LaunchIs
<1>2. UNCHANGED <<conf, pc, at, stopped, base_lora, results, i_batch, n_gen, batchVars, decodeVars>> /\ waiting' = waiting \ {r}
  BY DEF Launch
<1>3. /\ \A s \in Slots : state[s] \in States /\ task[s] \in Posted \cup {NoRequest}
      /\ \A s \in Slots : (state[s] = "IDLE" <=> task[s] = NoRequest) /\ lora[s] \in Loras
      /\ \A s \in Slots : prompt[s] \in Seq(Nat) /\ kv[s] \in Cells
      /\ NoRequest \notin Posted /\ <<>> \in Seq(Nat)
  BY ConfTyped DEF Typed, TypedWalk, TypedSlots, TypedCache
<1>4. ASSUME NEW s \in Slots
      PROVE  /\ state'[s] \in States /\ task'[s] \in Posted \cup {NoRequest}
             /\ (state'[s] = "IDLE" <=> task'[s] = NoRequest) /\ lora'[s] \in Loras
             /\ prompt'[s] \in Seq(Nat) /\ kv'[s] \in Cells
  <2>1. CASE s \in taken
    <3>1. given[s] \in Posted
      BY <1>1, <2>1, LaunchIs DEF Starts
    <3> QED
      BY <1>1, <1>3, <2>1, <3>1, KeptPromptIs, LoraOfTyped DEF Starts, States
  <2>2. CASE s \notin taken
    BY <1>1, <1>3, <2>2, NoCellsTyped DEF Starts
  <2> QED
    BY <2>1, <2>2
<1>5. /\ state' \in [Slots -> States] /\ task' \in [Slots -> Posted \cup {NoRequest}]
      /\ lora' \in [Slots -> Loras] /\ prompt' \in [Slots -> Seq(Nat)] /\ kv' \in [Slots -> Cells]
  BY <1>4, LaunchIs, Zenon
<1>6. TypedSlots' /\ TypedCache'
  BY <1>2, <1>4, <1>5, Fixed DEF Typed, TypedSlots, TypedCache
<1>7. TypedWalk' /\ TypedTasks' /\ TypedBatch'
  BY <1>2, Fixed DEF Typed, TypedWalk, TypedTasks, TypedBatch, batchVars, decodeVars
<1> QED
  BY <1>6, <1>7 DEF Typed

----------------------------------------------------------------------------
(* Types: the other steps.                                                  *)

LEMMA TasksTyped ==
    ASSUME Typed, \/ \E r \in Posted : LaunchFails(r) \/ Stop(r)
                  \/ \E s \in Slots : Cancel(s)
                  \/ SetLora \/ BeginUpdate \/ EndUpdate
    PROVE  Typed'
<1>1. ASSUME NEW r \in Posted, LaunchFails(r) PROVE Typed'
  <2>1. UNCHANGED <<conf, pc, at, stopped, base_lora, state, task, i_batch, n_gen, batchVars, decodeVars>>
    BY <1>1 DEF LaunchFails
  <2>2. PICK s \in Idle : \E launched \in SUBSET (Idle \ {s}) :
          /\ prompt' = [c \in Slots |-> IF c \in launched THEN <<>>
                                         ELSE IF c = s THEN KeptPrompt(s, r) ELSE prompt[c]]
          /\ kv' = [c \in Slots |-> IF c \in launched THEN NoCells ELSE kv[c]]
          /\ lora' = [c \in Slots |-> IF c \in launched \cup {s} THEN LoraOf(r) ELSE lora[c]]
    BY <1>1, Zenon DEF LaunchFails
  <2>3. PICK launched \in SUBSET (Idle \ {s}) :
          /\ prompt' = [c \in Slots |-> IF c \in launched THEN <<>>
                                         ELSE IF c = s THEN KeptPrompt(s, r) ELSE prompt[c]]
          /\ kv' = [c \in Slots |-> IF c \in launched THEN NoCells ELSE kv[c]]
          /\ lora' = [c \in Slots |-> IF c \in launched \cup {s} THEN LoraOf(r) ELSE lora[c]]
    BY <2>2
  <2>4. KeptPrompt(s, r) \in Seq(Nat) /\ LoraOf(r) \in Loras
    BY KeptPromptIs, LoraOfTyped DEF Idle
  <2>5. prompt' \in [Slots -> Seq(Nat)]
    BY <2>3, <2>4 DEF Typed, TypedCache
  <2>6. kv' \in [Slots -> Cells]
    BY <2>3, NoCellsTyped DEF Typed, TypedCache
  <2>7. lora' \in [Slots -> Loras]
    BY <2>3, <2>4 DEF Typed, TypedSlots
  <2>8. PICK failed \in {r} \cup Children(r) : results' = [results EXCEPT ![failed] = Append(@, "error")]
    BY <1>1, Zenon DEF LaunchFails
  <2>9. results' \in [Posted -> Seq({"final", "error"})]
    <3>1. failed \in Posted /\ results[failed] \in Seq({"final", "error"})
      BY DEF Children, Typed, TypedTasks
    <3>2. Append(results[failed], "error") \in Seq({"final", "error"})
      BY <3>1
    <3> QED
      BY <2>8, <3>1, <3>2 DEF Typed, TypedTasks
  <2>10. waiting' \subseteq Posted
    BY <1>1 DEF LaunchFails, Typed, TypedTasks
  <2> QED
    BY <2>1, <2>5, <2>6, <2>7, <2>9, <2>10, Fixed
    DEF Typed, TypedWalk, TypedTasks, TypedSlots, TypedCache, TypedBatch, batchVars, decodeVars
<1>2. ASSUME NEW r \in Posted, Stop(r) PROVE Typed'
  <2>1. Family(r) \subseteq Posted /\ UNCHANGED <<conf, pc, at, base_lora, slotVars, batchVars, decodeVars>>
    BY <1>2 DEF Stop, Family, Children
  <2>2. stopped' \subseteq Posted /\ waiting' \subseteq Posted
    BY <1>2, <2>1 DEF Stop, Typed, TypedTasks
  <2> QED
    BY <2>1, <2>2, Fixed
    DEF Typed, TypedWalk, TypedTasks, TypedSlots, TypedCache, TypedBatch, slotVars, batchVars, decodeVars
<1>3. ASSUME NEW s \in Slots, Cancel(s) PROVE Typed'
  <2>1. UNCHANGED <<pc, at, taskVars, results, batchVars, decodeVars, lora, i_batch>>
    BY <1>3 DEF Cancel, Release
  <2>2. conf' = conf /\ ReleaseState({s}) /\ Clear({t \in {s} : ClearedOnRelease(t)})
    BY <1>3 DEF Cancel, Release, taskVars
  <2>3. TypedCache' /\ {s} \in SUBSET Slots
    BY <2>2, ClearTyped
  <2>4. TypedSlots'
    BY <2>1, <2>2, <2>3, ReleaseTyped, Fixed DEF Typed, TypedSlots
  <2> QED
    BY <2>1, <2>2, <2>3, <2>4, Fixed DEF Typed, TypedWalk, TypedTasks, TypedBatch, taskVars, batchVars, decodeVars
<1>4. ASSUME SetLora PROVE Typed'
  <2>1. UNCHANGED <<conf, pc, at, waiting, stopped, slotVars, batchVars, decodeVars>> /\ base_lora' \in Loras
    BY <1>4, ConfTyped DEF SetLora, Typed, TypedWalk
  <2> QED
    BY <2>1, Fixed
    DEF Typed, TypedWalk, TypedTasks, TypedSlots, TypedCache, TypedBatch, slotVars, batchVars, decodeVars
<1>5. ASSUME BeginUpdate PROVE Typed'
  <2>1. UNCHANGED <<taskVars, slotVars>> /\ conf' = conf
    BY <1>5 DEF BeginUpdate, taskVars
  <2>2. /\ pc' = "shift" /\ at' = 1 /\ batch' = <<>> /\ slot_batched' = NoSlot
        /\ off' = 0 /\ n_batch' = conf.n_batch
    BY <1>5 DEF BeginUpdate
  <2>3. 1 \in Slots /\ conf.n_batch \in 1 .. conf.n_batch
    BY SlotsTyped, ConfTyped DEF Typed, TypedWalk
  <2>4. TypedBatch'
    BY <2>1, <2>2, <2>3 DEF TypedBatch
  <2>5. TypedWalk'
    BY <2>1, <2>2, <2>3, Fixed DEF Typed, TypedWalk, At
  <2> QED
    BY <2>1, <2>4, <2>5, Fixed DEF Typed, TypedTasks, TypedSlots, TypedCache, taskVars, slotVars
<1>6. ASSUME EndUpdate PROVE Typed'
  <2>1. UNCHANGED <<at, taskVars, slotVars, batchVars, decodeVars>> /\ conf' = conf /\ pc' = "tasks"
    BY <1>6 DEF EndUpdate, taskVars
  <2> QED
    BY <2>1, Fixed
    DEF Typed, TypedWalk, TypedTasks, TypedSlots, TypedCache, TypedBatch, taskVars, slotVars, batchVars, decodeVars, At
<1> QED
  BY <1>1, <1>2, <1>3, <1>4, <1>5, <1>6

(* A step of pre_decode's walks.                                            *)
WalkStep(s) ==
    \/ NoShift(s) \/ ShiftRefused(s) \/ ShiftContext(s)
    \/ AddSampled(s) \/ NothingSampled(s)
    \/ NoPrompt(s) \/ EmptyPrompt(s) \/ PromptRefused(s) \/ PromptAborts(s)
    \/ PromptPostponed(s) \/ AddPrompt(s)

LEMMA WalkTyped ==
    ASSUME Typed, NEW s \in Slots, WalkStep(s)
    PROVE  Typed'
<1> USE DEF taskVars
<1>1. {"generate", "prompts", "decode"} \subseteq At /\ AfterGenerating \in At
  BY DEF At, AfterGenerating
<1>2. ASSUME NEW next \in At, Advance(s, next), UNCHANGED <<taskVars, slotVars, batchVars, decodeVars>>
      PROVE  Typed'
  <2>1. conf' = conf
    BY <1>2
  <2>2. TypedWalk'
    BY <1>2, <2>1, AdvanceTyped
  <2> QED
    BY <1>2, <2>1, <2>2, Fixed DEF Typed, TypedTasks, TypedSlots, TypedCache, TypedBatch, slotVars, batchVars, decodeVars
<1>3. ASSUME NoShift(s) \/ NothingSampled(s) \/ NoPrompt(s) PROVE Typed'
  BY <1>1, <1>2, <1>3 DEF NoShift, NothingSampled, NoPrompt
<1>4. ASSUME NEW next \in At, NEW x \in {"final", "error"}, Advance(s, next), Answer({s}, x), Release({s}),
             UNCHANGED <<taskVars, batchVars, decodeVars>>
      PROVE  Typed'
  <2>1. conf' = conf /\ UNCHANGED <<lora, i_batch>> /\ {s} \in SUBSET Slots
    BY <1>4 DEF Release
  <2>2. TypedWalk'
    BY <1>4, <2>1, AdvanceTyped
  <2>3. ReleaseState({s}) /\ Clear({t \in {s} : ClearedOnRelease(t)})
    BY <1>4 DEF Release
  <2>4. TypedCache'
    BY <2>1, <2>3, ClearTyped
  <2>5. TypedSlots'
    BY <2>1, <2>3, ReleaseTyped, Fixed DEF Typed, TypedSlots
  <2>6. TypedTasks'
    BY <1>4, AnswerTyped, Fixed DEF Typed, TypedTasks
  <2> QED
    BY <1>4, <2>2, <2>4, <2>5, <2>6, Fixed DEF Typed, TypedBatch, batchVars, decodeVars
<1>5. ASSUME ShiftRefused(s) \/ EmptyPrompt(s) \/ PromptRefused(s) PROVE Typed'
  BY <1>1, <1>4, <1>5 DEF ShiftRefused, EmptyPrompt, PromptRefused
<1>6. ASSUME ShiftContext(s) PROVE Typed'
  <2>1. /\ conf' = conf /\ UNCHANGED <<taskVars, results, state, task, lora, i_batch, n_gen, batchVars, decodeVars>>
        /\ Advance(s, "generate")
    BY <1>6 DEF ShiftContext
  <2>2. TypedWalk'
    BY <1>1, <2>1, AdvanceTyped
  <2>3. /\ prompt[s] \in Seq(Nat) /\ Len(prompt[s]) \in Nat /\ conf.n_keep \in Nat /\ conf.n_ctx \in Nat
        /\ conf.n_keep + 4 <= conf.n_ctx /\ Len(prompt[s]) + 1 >= conf.n_ctx /\ kv[s] \in Cells
    BY <1>6, ConfTyped DEF ShiftContext, ContextFull, Typed, TypedWalk, TypedCache
  <2>4. Discard(s) \in Nat /\ conf.n_keep + Discard(s) + 1 \in Nat \ {0}
    <3>1. Len(prompt[s]) >= conf.n_keep
      BY <2>3
    <3>2. Discard(s) \in Nat
      BY <2>3, <3>1, DiscardIs, Zenon
    <3>3. \A k, d \in Nat : k + d + 1 \in Nat \ {0}
      OBVIOUS
    <3> QED
      BY <2>3, <3>2, <3>3, Zenon
  <2>5. SubSeq(prompt[s], 1, conf.n_keep) \o SubSeq(prompt[s], conf.n_keep + Discard(s) + 1, Len(prompt[s])) \in Seq(Nat)
    <3>1. SubSeq(prompt[s], 1, conf.n_keep) \in Seq(Nat)
      BY <2>3, SMTT(20)
    <3>2. SubSeq(prompt[s], conf.n_keep + Discard(s) + 1, Len(prompt[s])) \in Seq(Nat)
      <4>1. \A m \in Nat \ {0} : SubSeq(prompt[s], m, Len(prompt[s])) \in Seq(Nat)
        BY <2>3, PartOf
      <4> QED
        BY <2>4, <4>1, Zenon
    <3> QED
      BY <3>1, <3>2
  <2>6. prompt' \in [Slots -> Seq(Nat)]
    BY <1>6, <2>5 DEF ShiftContext, Typed, TypedCache
  <2>7. SeqShift(kv[s], conf.n_keep, Discard(s)) \in Cells
    BY <2>3, <2>4, SeqShiftIs
  <2>8. kv' \in [Slots -> Cells]
    BY <1>6, <2>7 DEF ShiftContext, Typed, TypedCache
  <2> QED
    BY <2>1, <2>2, <2>6, <2>8, Fixed DEF Typed, TypedTasks, TypedSlots, TypedCache, TypedBatch, batchVars, decodeVars
<1>7. ASSUME AddSampled(s) PROVE Typed'
  <2>1. /\ conf' = conf /\ UNCHANGED <<taskVars, results, state, task, lora, n_gen, kv, decodeVars>>
        /\ Advance(s, AfterGenerating)
    BY <1>7 DEF AddSampled
  <2>2. TypedWalk'
    BY <1>1, <2>1, AdvanceTyped
  <2>3. prompt[s] \in Seq(Nat) /\ Len(prompt[s]) \in Nat
    BY DEF Typed, TypedCache
  <2>4. /\ batch' = batch \o Entries(s, <<SampledToken>>, Len(prompt[s]))
        /\ i_batch' = [i_batch EXCEPT ![s] = Len(batch')]
        /\ prompt' = [prompt EXCEPT ![s] = Append(@, SampledToken)]
        /\ Batched(s)
    BY <1>7 DEF AddSampled
  <2>5. <<SampledToken>> \in Seq(Nat)
    BY DEF SampledToken
  <2>6. batch' \in Seq(Entry) /\ Len(batch') \in Nat
    BY <2>1, <2>3, <2>4, <2>5, BatchGrows
  <2>7. prompt' \in [Slots -> Seq(Nat)]
    BY <2>3, <2>4 DEF Typed, TypedCache, SampledToken
  <2>8. i_batch' \in [Slots -> Nat]
    BY <2>4, <2>6 DEF Typed, TypedSlots
  <2>9. slot_batched' \in Slots /\ NoSlot \notin Slots
    BY <2>4, SlotsTyped DEF Batched, Typed, TypedBatch, TypedWalk
  <2> QED
    BY <2>1, <2>2, <2>6, <2>7, <2>8, <2>9, Fixed DEF Typed, TypedTasks, TypedSlots, TypedCache, TypedBatch, decodeVars
<1>8. ASSUME PromptAborts(s) PROVE Typed'
  <2>1. conf' = conf /\ UNCHANGED <<at, taskVars, slotVars, batchVars, decodeVars>> /\ pc' \in At
    BY <1>8 DEF PromptAborts, At
  <2> QED
    BY <2>1, Fixed DEF Typed, TypedWalk, TypedTasks, TypedSlots, TypedCache, TypedBatch, slotVars, batchVars, decodeVars
<1>9. ASSUME PromptPostponed(s) PROVE Typed'
  <2>1. /\ conf' = conf /\ UNCHANGED <<taskVars, results, task, lora, i_batch, n_gen, kv, batchVars, decodeVars>>
        /\ Advance(s, "decode") /\ state[s] \in {"STARTED", "PROCESSING_PROMPT"}
    BY <1>9 DEF PromptPostponed, PromptReady, PromptPending
  <2>2. TypedWalk'
    BY <1>1, <2>1, AdvanceTyped
  <2>3. Kept(s) \in Seq(Nat)
    BY <2>1, KeptIs
  <2>4. TypedSlots'
    BY <1>9, <2>1, Fixed DEF PromptPostponed, Typed, TypedSlots, States
  <2>5. TypedCache'
    BY <1>9, <2>1, <2>3, Fixed DEF PromptPostponed, Typed, TypedCache
  <2> QED
    BY <2>1, <2>2, <2>4, <2>5, Fixed DEF Typed, TypedTasks, TypedBatch, batchVars, decodeVars
<1>10. ASSUME AddPrompt(s) PROVE Typed'
  <2> DEFINE first == Len(Kept(s))
             added == SubSeq(Task[task[s]].tokens, first + 1, PromptEnd(s))
             done  == PromptEnd(s) = NTokens(s)
             started == IF NShared(s) > 0 /\ first = NShared(s) THEN WaitingChildren(s) ELSE {}
  <2>1. /\ conf' = conf /\ UNCHANGED <<taskVars, results, task, lora, decodeVars>>
        /\ Advance(s, "decode") /\ PromptPending(s) /\ state[s] \in {"STARTED", "PROCESSING_PROMPT"}
    BY <1>10 DEF AddPrompt, PromptReady, PromptPending
  <2>2. TypedWalk'
    BY <1>1, <2>1, AdvanceTyped
  <2>3. /\ batch' = batch \o Entries(s, added, first)
        /\ kv' = [c \in Slots |-> IF c \in started \cup {s} THEN Truncated(s) ELSE kv[c]]
        /\ prompt' = [c \in Slots |-> IF c = s THEN Kept(s) \o added
                                      ELSE IF c \in started THEN Kept(s) ELSE prompt[c]]
        /\ state' = [c \in Slots |->
                        IF c = s THEN (IF done THEN "DONE_PROMPT" ELSE "PROCESSING_PROMPT")
                        ELSE IF c \in started THEN "STARTED" ELSE state[c]]
        /\ i_batch' = IF done THEN [i_batch EXCEPT ![s] = Len(batch')] ELSE i_batch
        /\ n_gen' = IF done THEN [n_gen EXCEPT ![s] = 0] ELSE n_gen
        /\ Batched(s)
    BY <1>10, Zenon DEF AddPrompt
  <2>4. Kept(s) \in Seq(Nat) /\ first \in Nat
    BY <2>1, KeptIs
  <2>5. added \in Seq(Nat)
    <3>1. Task[task[s]].tokens \in Seq(Nat) /\ PromptEnd(s) \in Nat /\ PromptEnd(s) <= Len(Task[task[s]].tokens)
      BY <2>1, BusyTask, PromptEndIs DEF NTokens
    <3> HIDE DEF first
    <3>2. first + 1 \in Nat \ {0}
      BY <2>4
    <3> QED
      BY <3>1, <3>2, PartOf
  <2> HIDE DEF first, added
  <2>6. batch' \in Seq(Entry) /\ Len(batch') \in Nat
    BY <2>1, <2>3, <2>4, <2>5, BatchGrows
  <2>7. Truncated(s) \in Cells
    BY <2>4, SeqRmIs DEF Truncated, Typed, TypedCache, first
  <2>8. kv' \in [Slots -> Cells]
    BY <2>3, <2>7 DEF Typed, TypedCache
  <2>9. prompt' \in [Slots -> Seq(Nat)]
    <3>1. Kept(s) \o added \in Seq(Nat)
      BY <2>4, <2>5
    <3> QED
      BY <2>3, <2>4, <3>1 DEF Typed, TypedCache
  <2>10. \A c \in started : state[c] = "WAIT_OTHER"
    BY DEF WaitingChildren
  <2> HIDE DEF started, done
  <2>11. TypedSlots'
    <3>1. state' \in [Slots -> States]
      BY <2>3 DEF Typed, TypedSlots, States
    <3>2. \A c \in Slots : state'[c] = "IDLE" <=> state[c] = "IDLE"
      BY <2>1, <2>3, <2>10 DEF Typed, TypedSlots
    <3>3. i_batch' \in [Slots -> Nat] /\ n_gen' \in [Slots -> Nat]
      BY <2>3, <2>6 DEF Typed, TypedSlots
    <3> QED
      BY <2>1, <3>1, <3>2, <3>3, Fixed DEF Typed, TypedSlots
  <2>12. slot_batched' \in Slots /\ NoSlot \notin Slots
    BY <2>3, SlotsTyped DEF Batched, Typed, TypedBatch, TypedWalk
  <2> QED
    BY <2>1, <2>2, <2>6, <2>8, <2>9, <2>11, <2>12, Fixed DEF Typed, TypedTasks, TypedCache, TypedBatch, decodeVars
<1> QED
  BY <1>3, <1>5, <1>6, <1>7, <1>8, <1>9, <1>10 DEF WalkStep

(* A step of decode.                                                        *)
DecodeStep == DecodeSucceeds \/ DecodeRetries \/ DecodeFatal \/ DecodeThrows

LEMMA DecodeTyped ==
    ASSUME Typed, DecodeStep
    PROVE  Typed'
<1> USE DEF taskVars
<1>1. 1 \in Slots /\ Processing \in SUBSET Slots
  BY SlotsTyped DEF Typed, TypedWalk, Processing, Idle
<1>2. ASSUME DecodeSucceeds PROVE Typed'
  <2>1. /\ conf' = conf /\ UNCHANGED <<taskVars, results, task, lora, batchVars, decodeVars>>
        /\ pc' = "post" /\ at' = 1 /\ Decoding
        /\ kv' = Copied(Computed) /\ prompt' = Copied(prompt)
        /\ i_batch' = Copied(i_batch) /\ n_gen' = Copied(n_gen)
        /\ state' = [c \in Slots |-> IF c \in Activated THEN "DONE_PROMPT" ELSE state[c]]
    BY <1>2 DEF DecodeSucceeds, ComputedAndCopied
  <2>2. Computed \in [Slots -> Cells]
    BY <2>1, ComputedIs
  <2>3. kv' \in [Slots -> Cells] /\ prompt' \in [Slots -> Seq(Nat)]
    BY <2>1, <2>2, CopiedIs DEF Typed, TypedCache
  <2>4. i_batch' \in [Slots -> Nat] /\ n_gen' \in [Slots -> Nat]
    BY <2>1, CopiedIs DEF Typed, TypedSlots
  <2>5. state' \in [Slots -> States] /\ \A c \in Slots : state'[c] = "IDLE" <=> state[c] = "IDLE"
    BY <2>1, CopiedIs DEF Typed, TypedSlots, States
  <2>6. TypedSlots'
    BY <2>1, <2>4, <2>5, Fixed DEF Typed, TypedSlots
  <2>7. TypedWalk'
    BY <1>1, <2>1, Fixed DEF Typed, TypedWalk, At
  <2> QED
    BY <2>1, <2>3, <2>6, <2>7, Fixed DEF Typed, TypedTasks, TypedCache, TypedBatch, batchVars, decodeVars
<1>3. ASSUME DecodeRetries PROVE Typed'
  <2>1. /\ conf' = conf /\ CanRetry
        /\ UNCHANGED <<pc, at, taskVars, results, state, task, lora, i_batch, n_gen, batchVars, off>>
        /\ IF Purgeable # {}
           THEN Clear({Min(Purgeable)}) /\ UNCHANGED n_batch
           ELSE n_batch' = n_batch \div 2 /\ UNCHANGED <<prompt, kv>>
    BY <1>3, Zenon DEF DecodeRetries
  <2>2. TypedCache'
    <3>1. CASE Purgeable # {}
      BY <2>1, <3>1, ClearTyped
    <3>2. CASE Purgeable = {}
      BY <2>1, <3>2, Fixed DEF Typed, TypedCache
    <3> QED
      BY <3>1, <3>2
  <2>3. n_batch' \in 1 .. conf.n_batch
    <3>1. n_batch \in 1 .. conf.n_batch /\ n_batch > 1 /\ conf.n_batch \in Nat
      BY <2>1, ConfTyped DEF CanRetry, Typed, TypedWalk, TypedBatch
    <3>2. n_batch \div 2 \in 1 .. conf.n_batch
      BY <3>1
    <3> QED
      BY <2>1, <3>1, <3>2
  <2> QED
    BY <2>1, <2>2, <2>3, Fixed DEF Typed, TypedWalk, TypedTasks, TypedSlots, TypedBatch, batchVars
<1>4. ASSUME conf' = conf, UNCHANGED <<at, taskVars, lora, i_batch, batchVars, decodeVars>>, pc' = "tasks",
             Answer(Processing, "error"), ReleaseState(Processing), TypedCache'
      PROVE  Typed'
  <2>1. TypedSlots'
    BY <1>1, <1>4, ReleaseTyped, Fixed DEF Typed, TypedSlots
  <2>2. TypedTasks'
    BY <1>4, AnswerTyped, Fixed DEF Typed, TypedTasks
  <2> QED
    BY <1>4, <2>1, <2>2, Fixed DEF Typed, TypedWalk, TypedBatch, batchVars, decodeVars, At
<1>5. ASSUME DecodeFatal PROVE Typed'
  <2>1. /\ conf' = conf /\ UNCHANGED <<at, taskVars, lora, i_batch, batchVars, decodeVars>> /\ pc' = "tasks"
        /\ Answer(Processing, "error") /\ ReleaseState(Processing) /\ Clear(FatalClears)
    BY <1>5 DEF DecodeFatal
  <2> QED
    BY <1>4, <2>1, ClearTyped
<1>6. ASSUME DecodeThrows PROVE Typed'
  <2>1. /\ conf' = conf /\ UNCHANGED <<at, taskVars, lora, i_batch, batchVars, decodeVars>> /\ pc' = "tasks"
        /\ Answer(Processing, "error") /\ ReleaseState(Processing) /\ Decoding
    BY <1>6 DEF DecodeThrows
  <2>2. PICK cells \in {kv, Computed} :
          kv' = [s \in Slots |-> IF s \in Processing /\ ClearedOnRelease(s) THEN NoCells ELSE cells[s]]
    BY <1>6 DEF DecodeThrows
  <2>3. cells \in [Slots -> Cells]
    BY <2>1, <2>2, ComputedIs DEF Typed, TypedCache
  <2>4. kv' \in [Slots -> Cells]
    BY <2>2, <2>3, NoCellsTyped
  <2>5. prompt' = [s \in Slots |-> IF s \in Processing /\ ClearedOnRelease(s) THEN <<>> ELSE prompt[s]]
    BY <1>6 DEF DecodeThrows
  <2>6. prompt' \in [Slots -> Seq(Nat)]
    BY <2>5 DEF Typed, TypedCache
  <2> QED
    BY <1>4, <2>1, <2>4, <2>6, Fixed DEF TypedCache
<1> QED
  BY <1>2, <1>3, <1>5, <1>6 DEF DecodeStep

(* A step of post_decode.                                                   *)
PostStep(s) == NotSampling(s) \/ SendOutputs(s) \/ GoesOn(s) \/ Ends(s)

LEMMA PostAdvanceTyped ==
    ASSUME Typed, NEW s \in Slots, PostAdvance(s)
    PROVE  /\ conf' = conf /\ UNCHANGED <<taskVars, batchVars>>
           /\ TypedWalk' /\ TypedBatch'
<1>1. conf' = conf /\ UNCHANGED <<taskVars, batchVars>> /\ Advance(s, "decode")
  BY DEF PostAdvance, taskVars
<1>2. TypedWalk'
  BY <1>1, AdvanceTyped DEF At
<1>3. off' \in Nat /\ n_batch' \in 1 .. conf.n_batch
  <2>1. /\ conf.n_batch \in 1 .. conf.n_batch /\ off \in Nat /\ n_batch \in 1 .. conf.n_batch
        /\ Cardinality(View) \in Nat
    BY ConfTyped, ViewIs DEF Typed, TypedWalk, TypedBatch
  <2> QED
    BY <2>1 DEF PostAdvance, decodeVars
<1> QED
  BY <1>1, <1>2, <1>3, Fixed DEF Typed, TypedBatch, batchVars

LEMMA PostTyped ==
    ASSUME Typed, NEW s \in Slots, PostStep(s)
    PROVE  Typed'
<1>1. /\ conf' = conf /\ UNCHANGED <<taskVars, batchVars>> /\ TypedWalk' /\ TypedBatch'
  BY PostAdvanceTyped DEF PostStep, NotSampling, SendOutputs, GoesOn, Ends, Generates
<1>2. ASSUME NotSampling(s) PROVE Typed'
  <2>1. UNCHANGED slotVars
    BY <1>2 DEF NotSampling
  <2> QED
    BY <1>1, <2>1, Fixed DEF Typed, TypedTasks, TypedSlots, TypedCache, slotVars, taskVars
<1>3. ASSUME NEW x \in {"final", "error"}, Answer({s}, x), ReleaseState({s}),
             Clear({c \in {s} : ClearedOnRelease(s)}), i_batch' = [i_batch EXCEPT ![s] = NoSlot], UNCHANGED lora
      PROVE  Typed'
  <2>1. TypedCache' /\ {s} \in SUBSET Slots
    BY <1>1, <1>3, ClearTyped
  <2>2. i_batch' \in [Slots -> Nat]
    BY <1>3 DEF Typed, TypedSlots, NoSlot
  <2>3. TypedSlots'
    BY <1>1, <1>3, <2>1, <2>2, ReleaseTyped, Fixed DEF Typed, TypedSlots
  <2>4. TypedTasks'
    BY <1>1, <1>3, AnswerTyped, Fixed DEF Typed, TypedTasks, taskVars
  <2> QED
    BY <1>1, <2>1, <2>3, <2>4 DEF Typed
<1>4. ASSUME SendOutputs(s) PROVE Typed'
  BY <1>3, <1>4 DEF SendOutputs
<1>5. ASSUME Ends(s) PROVE Typed'
  BY <1>3, <1>5 DEF Ends, Generates
<1>6. ASSUME GoesOn(s) PROVE Typed'
  <2>1. /\ UNCHANGED <<lora, results, task, prompt, kv>> /\ state' = [state EXCEPT ![s] = "GENERATING"]
        /\ n_gen' = [n_gen EXCEPT ![s] = @ + 1] /\ i_batch' = [i_batch EXCEPT ![s] = NoSlot]
        /\ state[s] # "IDLE"
    BY <1>6 DEF GoesOn, Generates, Sampling
  <2>2. n_gen[s] + 1 \in Nat /\ NoSlot \in Nat
    BY DEF Typed, TypedSlots, NoSlot
  <2>3. n_gen' \in [Slots -> Nat] /\ i_batch' \in [Slots -> Nat]
    BY <2>1, <2>2 DEF Typed, TypedSlots
  <2>4. state' \in [Slots -> States]
    BY <2>1 DEF Typed, TypedSlots, States
  <2>5. \A c \in Slots : state'[c] = "IDLE" <=> state[c] = "IDLE"
    BY <2>1 DEF Typed, TypedSlots
  <2>6. TypedSlots'
    BY <1>1, <2>1, <2>3, <2>4, <2>5, Fixed DEF Typed, TypedSlots
  <2> QED
    BY <1>1, <2>1, <2>6, Fixed DEF Typed, TypedTasks, TypedCache, taskVars
<1> QED
  BY <1>2, <1>4, <1>5, <1>6 DEF PostStep

LEMMA TypedInit ==
    ASSUME Init
    PROVE  Typed
<1>1. conf \in Confs
  BY DEF Init
<1>2. 1 \in Slots /\ conf.n_batch \in 1 .. conf.n_batch /\ conf.loras \subseteq Loras /\ NoRequest \notin Posted
  BY <1>1, SlotsTyped, ConfTyped
<1>3. TypedWalk /\ TypedBatch /\ TypedCache
  BY <1>2, NoCellsTyped DEF Init, TypedWalk, TypedBatch, TypedCache, At
<1>4. TypedTasks /\ TypedSlots
  BY <1>2 DEF Init, TypedTasks, TypedSlots, States, NoSlot
<1> QED
  BY <1>3, <1>4 DEF Typed

LEMMA TypedStep ==
    ASSUME Typed, [Next]_vars
    PROVE  Typed'
<1>1. ASSUME UNCHANGED vars PROVE Typed'
  BY <1>1, Fixed DEF vars, taskVars, slotVars, batchVars, decodeVars,
                     Typed, TypedWalk, TypedTasks, TypedSlots, TypedCache, TypedBatch
<1>2. ASSUME UpdateStep PROVE Typed'
  <2>1. \/ \E s \in Slots : WalkStep(s) \/ PostStep(s)
        \/ BeginUpdate \/ EndUpdate \/ DecodeStep
    BY <1>2 DEF UpdateStep, WalkStep, PostStep, DecodeStep
  <2> QED
    BY <2>1, WalkTyped, PostTyped, DecodeTyped, TasksTyped
<1> QED
  BY <1>1, <1>2, LaunchTyped, TasksTyped DEF Next

LEMMA TypedIsTypeOK ==
    ASSUME Typed
    PROVE  TypeOK
<1>1. \A s \in Slots : kv[s] \in Cells
  BY DEF Typed, TypedCache
<1>2. \A s \in Slots : /\ DOMAIN kv[s] \subseteq Nat
                       /\ \A p \in DOMAIN kv[s] : kv[s][p] \in [token : Nat, lora : Loras]
  BY <1>1, CellsAre DEF Cell
<1> QED
  BY <1>2 DEF Typed, TypedWalk, TypedTasks, TypedSlots, TypedCache, TypedBatch, TypeOK, Entry

(* Every variable keeps its type, and a slot holds a task when it is busy.  *)
THEOREM BatchTyped == Spec => []TypeOK
<1>1. Spec => []Typed
  BY TypedInit, TypedStep, PTL DEF Spec
<1>2. Typed => TypeOK
  BY TypedIsTypeOK
<1> QED
  BY <1>1, <1>2, PTL

----------------------------------------------------------------------------
(* Where every request is.                                                  *)

Root(r)   == IF IsChild(r) THEN Task[r].parent ELSE r
Failed(r) == \E q \in Family(r) : Contains(results[q], "error")
Held(r)   == \E s \in Slots : task[s] = r

(* Only tasks without a parent wait; before their launch nothing is sent to *)
(* the family, afterwards each of it is in a slot or answered, unless one   *)
(* failed or they were stopped.                                             *)
RequestInv(r) ==
    /\ Len(results[r]) <= 1
    /\ r \in waiting => ~IsChild(r)
    /\ Root(r) \in waiting => results[r] = <<>>
    /\ r \in stopped <=> Root(r) \in stopped
    /\ r \in stopped => Root(r) \notin waiting
    /\ r \notin stopped /\ Root(r) \notin waiting => Failed(r) \/ results[r] # <<>> \/ Held(r)

(* The slots have launched requests that are not answered, each another.    *)
HolderInv(s) ==
    task[s] # NoRequest =>
        /\ results[task[s]] = <<>> /\ Root(task[s]) \notin waiting
        /\ \A t \in Slots : task[t] = task[s] => t = s

TaskInv == (\A r \in Posted : RequestInv(r)) /\ (\A s \in Slots : HolderInv(s))

LEMMA FamilyIs ==
    ASSUME conf \in Confs, NEW r \in Posted
    PROVE  /\ Root(r) \in Posted /\ ~IsChild(Root(r)) /\ Root(Root(r)) = Root(r)
           /\ Family(r) = {q \in Posted : Root(q) = Root(r)}
           /\ ~IsChild(r) => {r} \cup Children(r) = Family(r) /\ Root(r) = r
<1>1. Root(r) \in Posted /\ ~IsChild(Root(r))
  BY ParentPosted DEF Root
<1>2. \A q \in Posted : q \in Children(Root(r)) <=> Task[q].parent = Root(r)
  BY DEF Children
<1>3. ASSUME NEW q \in Posted PROVE q \in {Root(r)} \cup Children(Root(r)) <=> Root(q) = Root(r)
  <2>1. CASE IsChild(q)
    BY <1>1, <1>2, <2>1 DEF Root
  <2>2. CASE ~IsChild(q)
    <3>1. Task[q].parent = NoRequest /\ NoRequest \notin Posted
      BY <2>2, ConfTyped DEF IsChild
    <3> QED
      BY <1>1, <1>2, <2>2, <3>1 DEF Root
  <2> QED
    BY <2>1, <2>2
<1>4. Family(r) = {Root(r)} \cup Children(Root(r))
  BY DEF Family, Root
<1>5. Children(Root(r)) \subseteq Posted
  BY DEF Children
<1>6. Family(r) = {q \in Posted : Root(q) = Root(r)}
  BY <1>1, <1>3, <1>4, <1>5
<1> QED
  BY <1>1, <1>4, <1>6 DEF Root

LEMMA TaskFixed ==
    ASSUME conf' = conf
    PROVE  /\ \A r : IsChild(r)' = IsChild(r) /\ Root(r)' = Root(r)
           /\ \A r : Children(r)' = Children(r) /\ Family(r)' = Family(r)
BY DEF Task, Posted, IsChild, Root, Children, Family

LEMMA TaskFrame ==
    ASSUME TaskInv, UNCHANGED <<conf, waiting, stopped, results, task>>
    PROVE  TaskInv'
<1>1. /\ \A r : Root(r)' = Root(r) /\ IsChild(r)' = IsChild(r) /\ Family(r)' = Family(r)
      /\ Posted' = Posted /\ Slots' = Slots
  BY TaskFixed, Fixed
<1>2. \A r : (Failed(r)' <=> Failed(r)) /\ (Held(r)' <=> Held(r))
  BY <1>1 DEF Failed, Held
<1> QED
  BY <1>1, <1>2 DEF TaskInv, RequestInv, HolderInv

(* The tasks of released slots are answered, all of them alike.             *)
LEMMA TaskAnswered ==
    ASSUME Typed, TaskInv, UNCHANGED <<conf, waiting, stopped>>, NEW R \in SUBSET Processing,
           NEW x \in {"final", "error"}, Answer(R, x), ReleaseState(R)
    PROVE  TaskInv'
<1> DEFINE Given(r) == \E s \in R : task[s] = r
<1>1. /\ \A r : Root(r)' = Root(r) /\ IsChild(r)' = IsChild(r) /\ Family(r)' = Family(r)
      /\ Posted' = Posted /\ Slots' = Slots
  BY TaskFixed, Fixed
<1>2. /\ task' = [s \in Slots |-> IF s \in R THEN NoRequest ELSE task[s]]
      /\ NoRequest \notin Posted /\ R \subseteq Slots /\ \A s \in R : task[s] \in Posted
  BY ConfTyped DEF ReleaseState, Processing, Typed, TypedWalk, TypedSlots
<1>3. ASSUME NEW r \in Posted
      PROVE  /\ results[r] \in Seq({"final", "error"})
             /\ results'[r] = IF Given(r) THEN Append(results[r], x) ELSE results[r]
             /\ Given(r) => results[r] = <<>> /\ Root(r) \notin waiting /\ results'[r] # <<>> /\ Len(results'[r]) <= 1
  <2>1. /\ results[r] \in Seq({"final", "error"})
        /\ results'[r] = IF Given(r) THEN Append(results[r], x) ELSE results[r]
    BY DEF Answer, Typed, TypedTasks
  <2>2. Given(r) => results[r] = <<>> /\ Root(r) \notin waiting
    BY <1>2 DEF TaskInv, HolderInv
  <2>3. Append(<<>>, x) # <<>> /\ Len(Append(<<>>, x)) <= 1
    OBVIOUS
  <2> QED
    BY <2>1, <2>2, <2>3
<1>4. ASSUME NEW r \in Posted PROVE Contains(results[r], "error") => Contains(results[r], "error")'
  BY <1>3 DEF Contains
<1>5. ASSUME NEW r \in Posted PROVE Failed(r) => Failed(r)'
  <2>1. Family(r) \subseteq Posted
    BY FamilyIs DEF Typed, TypedWalk
  <2> QED
    BY <1>1, <1>4, <2>1 DEF Failed
<1>6. ASSUME NEW r \in Posted PROVE Held(r) => Held(r)' \/ Given(r)
  BY <1>1, <1>2 DEF Held
<1>7. ASSUME NEW r \in Posted PROVE RequestInv(r)'
  <2>1. RequestInv(r)
    BY DEF TaskInv
  <2>2. /\ IsChild(r)' = IsChild(r) /\ Root(r)' = Root(r) /\ waiting' = waiting /\ stopped' = stopped
        /\ Failed(r) => Failed(r)'
        /\ Held(r) => Held(r)' \/ Given(r)
    BY <1>1, <1>5, <1>6
  <2> HIDE DEF Given
  <2>3. /\ Given(r) => Root(r) \notin waiting /\ results'[r] # <<>> /\ Len(results'[r]) <= 1
        /\ ~Given(r) => results'[r] = results[r]
    BY <1>3
  <2>4. CASE Given(r)
    BY <2>1, <2>2, <2>3, <2>4, Zenon DEF RequestInv
  <2>5. CASE ~Given(r)
    BY <2>1, <2>2, <2>3, <2>5 DEF RequestInv
  <2> QED
    BY <2>4, <2>5
<1>8. ASSUME NEW s \in Slots PROVE HolderInv(s)'
  <2>1. HolderInv(s) /\ \A t \in Slots : task[t] # NoRequest => task[t] \in Posted
    BY DEF TaskInv, Typed, TypedSlots
  <2>2. SUFFICES ASSUME task'[s] # NoRequest PROVE HolderInv(s)'
    BY DEF HolderInv
  <2>3. s \notin R /\ task'[s] = task[s] /\ task[s] \in Posted
    BY <1>2, <2>1, <2>2
  <2>4. ~Given(task[s])
    <3>1. \A t \in R : t \in Slots /\ t # s
      BY <1>2, <2>3
    <3> QED
      BY <2>1, <2>3, <2>2, <3>1 DEF HolderInv
  <2>5. results'[task[s]] = results[task[s]]
    BY <1>3, <2>3, <2>4
  <2>6. \A t \in Slots : task'[t] = task[s] => task[t] = task[s]
    BY <1>2, <2>2, <2>3
  <2> QED
    BY <1>1, <2>1, <2>2, <2>3, <2>5, <2>6 DEF HolderInv
<1> QED
  BY <1>1, <1>7, <1>8 DEF TaskInv

LEMMA TaskCancelled ==
    ASSUME Typed, TaskInv, NEW s \in Slots, Cancel(s)
    PROVE  TaskInv'
<1>1. UNCHANGED <<conf, waiting, stopped, results>> /\ ReleaseState({s}) /\ task[s] \in stopped
  BY DEF Cancel, Release, taskVars
<1>2. /\ \A r : Root(r)' = Root(r) /\ IsChild(r)' = IsChild(r) /\ Family(r)' = Family(r)
      /\ Posted' = Posted /\ Slots' = Slots
  BY <1>1, TaskFixed, Fixed
<1>3. task' = [t \in Slots |-> IF t = s THEN NoRequest ELSE task[t]]
  BY <1>1 DEF ReleaseState
<1>4. \A r : Failed(r)' <=> Failed(r)
  BY <1>1, <1>2 DEF Failed
<1>5. \A r \in Posted \ stopped : Held(r) => Held(r)'
  BY <1>1, <1>2, <1>3 DEF Held
<1>6. ASSUME NEW r \in Posted PROVE RequestInv(r)'
  <2>1. RequestInv(r)
    BY DEF TaskInv
  <2> QED
    BY <1>1, <1>2, <1>4, <1>5, <2>1 DEF RequestInv
<1>7. ASSUME NEW t \in Slots PROVE HolderInv(t)'
  <2>1. HolderInv(t)
    BY DEF TaskInv
  <2> QED
    BY <1>1, <1>2, <1>3, <2>1 DEF HolderInv
<1> QED
  BY <1>2, <1>6, <1>7 DEF TaskInv

LEMMA TaskStopped ==
    ASSUME Typed, TaskInv, NEW r \in Posted, Stop(r)
    PROVE  TaskInv'
<1>1. /\ UNCHANGED <<conf, results, task>> /\ ~IsChild(r)
      /\ stopped' = stopped \cup Family(r) /\ waiting' = waiting \ {r}
  BY DEF Stop, slotVars
<1>2. /\ \A q : Root(q)' = Root(q) /\ IsChild(q)' = IsChild(q) /\ Family(q)' = Family(q)
      /\ Posted' = Posted /\ Slots' = Slots
  BY <1>1, TaskFixed, Fixed
<1>3. \A q : (Failed(q)' <=> Failed(q)) /\ (Held(q)' <=> Held(q))
  BY <1>1, <1>2 DEF Failed, Held
<1>4. ASSUME NEW q \in Posted
      PROVE  q \in Family(r) <=> Root(q) = r
  BY <1>1, FamilyIs DEF Typed, TypedWalk
<1>5. ASSUME NEW q \in Posted PROVE RequestInv(q)'
  <2>1. RequestInv(q)
    BY DEF TaskInv
  <2>2. Root(q) \in Posted /\ Root(Root(q)) = Root(q)
    BY FamilyIs DEF Typed, TypedWalk
  <2>3. /\ q \in Family(r) <=> Root(q) = r
        /\ Root(q) \in Family(r) <=> Root(q) = r
    BY <1>4, <2>2
  <2>4. CASE Root(q) = r
    BY <1>1, <1>2, <1>3, <2>1, <2>3, <2>4, Zenon DEF RequestInv
  <2>5. CASE Root(q) # r
    BY <1>1, <1>2, <1>3, <2>1, <2>3, <2>5 DEF RequestInv
  <2> QED
    BY <2>4, <2>5
<1>6. ASSUME NEW s \in Slots PROVE HolderInv(s)'
  <2>1. HolderInv(s)
    BY DEF TaskInv
  <2> QED
    BY <1>1, <1>2, <2>1 DEF HolderInv
<1> QED
  BY <1>2, <1>5, <1>6 DEF TaskInv

LEMMA TaskLaunched ==
    ASSUME Typed, TaskInv, NEW r \in Posted, Launch(r)
    PROVE  TaskInv'
<1>1. UNCHANGED <<conf, stopped, results>> /\ waiting' = waiting \ {r} /\ r \in waiting
  BY DEF Launch
<1>2. /\ \A q : Root(q)' = Root(q) /\ IsChild(q)' = IsChild(q) /\ Family(q)' = Family(q)
      /\ Posted' = Posted /\ Slots' = Slots
  BY <1>1, TaskFixed, Fixed
<1>3. ~IsChild(r) /\ Root(r) = r /\ {r} \cup Children(r) = Family(r)
  BY <1>1, FamilyIs DEF TaskInv, RequestInv, Typed, TypedWalk
<1>4. ASSUME NEW q \in Posted
      PROVE  /\ q \in Family(r) <=> Root(q) = r
             /\ Root(q) = r => results[q] = <<>>
  <2>1. q \in Family(r) <=> Root(q) = r
    BY <1>3, FamilyIs DEF Typed, TypedWalk
  <2>2. Root(q) = r => results[q] = <<>>
    BY <1>1 DEF TaskInv, RequestInv
  <2> QED
    BY <2>1, <2>2
<1>5. PICK taken, given : Starts(r, taken, given)
  BY LaunchIs
<1>6. /\ taken \subseteq Slots /\ \A s \in taken : task[s] = NoRequest
      /\ \A s \in taken : given[s] \in Family(r) /\ task'[s] = given[s]
      /\ \A q \in Family(r) : \E s \in taken : given[s] = q
      /\ \A s, t \in taken : given[s] = given[t] => s = t
      /\ \A s \in Slots \ taken : task'[s] = task[s]
  BY <1>3, <1>5 DEF Starts, Idle, Processing, Typed, TypedSlots
<1>7. Family(r) \subseteq Posted /\ NoRequest \notin Posted
  BY ConfTyped, FamilyIs DEF Typed, TypedWalk
<1>8. \A q : Failed(q)' <=> Failed(q)
  BY <1>1, <1>2 DEF Failed
<1>9. ASSUME NEW q \in Posted PROVE (Root(q) = r \/ Held(q)) => Held(q)'
  <2>1. CASE Root(q) = r
    <3>1. \E s \in taken : given[s] = q
      BY <1>4, <1>6, <2>1
    <3> QED
      BY <1>2, <1>6, <3>1 DEF Held
  <2>2. CASE Held(q)
    <3>1. PICK s \in Slots : task[s] = q
      BY <2>2 DEF Held
    <3>2. s \notin taken
      BY <1>6, <1>7, <3>1
    <3> QED
      BY <1>2, <1>6, <3>1, <3>2 DEF Held
  <2> QED
    BY <2>1, <2>2
<1>10. ASSUME NEW q \in Posted PROVE RequestInv(q)'
  <2>1. RequestInv(q)
    BY DEF TaskInv
  <2>2. CASE Root(q) = r
    BY <1>1, <1>2, <1>8, <1>9, <2>1, <2>2, Zenon DEF RequestInv
  <2>3. CASE Root(q) # r
    BY <1>1, <1>2, <1>8, <1>9, <2>1, <2>3 DEF RequestInv
  <2> QED
    BY <2>2, <2>3
<1>11. ASSUME NEW s \in Slots PROVE HolderInv(s)'
  <2>1. \A t \in Slots : HolderInv(t)
    BY DEF TaskInv
  <2>2. CASE s \in taken
    <3>1. given[s] \in Posted /\ Root(given[s]) = r /\ results[given[s]] = <<>> /\ task'[s] = given[s]
      BY <1>4, <1>6, <1>7, <2>2
    <3>2. ASSUME NEW t \in Slots, task'[t] = given[s] PROVE t = s
      <4>1. t \in taken
        BY <1>1, <1>6, <1>7, <2>1, <3>1, <3>2 DEF HolderInv
      <4> QED
        BY <1>6, <2>2, <3>2, <4>1
    <3> QED
      BY <1>1, <1>2, <3>1, <3>2 DEF HolderInv
  <2>3. CASE s \notin taken
    <3>1. task'[s] = task[s]
      BY <1>6, <2>3
    <3>2. ASSUME NEW t \in Slots, task'[t] = task[s], task[s] # NoRequest PROVE t = s
      <4>1. t \notin taken
        <5>1. Root(task[s]) # r
          BY <1>1, <2>1, <3>2 DEF HolderInv
        <5> QED
          BY <1>4, <1>6, <1>7, <3>2, <5>1
      <4> QED
        BY <1>6, <2>1, <3>2, <4>1 DEF HolderInv
    <3> QED
      BY <1>1, <1>2, <2>1, <3>1, <3>2 DEF HolderInv
  <2> QED
    BY <2>2, <2>3
<1> QED
  BY <1>2, <1>10, <1>11 DEF TaskInv

LEMMA TaskLaunchFailed ==
    ASSUME Typed, TaskInv, NEW r \in Posted, LaunchFails(r)
    PROVE  TaskInv'
<1>1. UNCHANGED <<conf, stopped, task>> /\ waiting' = waiting \ {r} /\ r \in waiting
  BY DEF LaunchFails
<1>2. /\ \A q : Root(q)' = Root(q) /\ IsChild(q)' = IsChild(q) /\ Family(q)' = Family(q)
      /\ Posted' = Posted /\ Slots' = Slots
  BY <1>1, TaskFixed, Fixed
<1>3. ~IsChild(r) /\ Root(r) = r /\ {r} \cup Children(r) = Family(r)
  BY <1>1, FamilyIs DEF TaskInv, RequestInv, Typed, TypedWalk
<1>4. PICK failed \in Family(r) : results' = [results EXCEPT ![failed] = Append(@, "error")]
  BY <1>3, Zenon DEF LaunchFails
<1>5. ASSUME NEW q \in Posted
      PROVE  /\ q \in Family(r) <=> Root(q) = r
             /\ Root(q) = r => results[q] = <<>>
  <2>1. q \in Family(r) <=> Root(q) = r
    BY <1>3, FamilyIs DEF Typed, TypedWalk
  <2>2. Root(q) = r => results[q] = <<>>
    BY <1>1 DEF TaskInv, RequestInv
  <2> QED
    BY <2>1, <2>2
<1>6. failed \in Posted /\ Root(failed) = r /\ results[failed] = <<>>
  <2>1. failed \in Posted
    BY FamilyIs DEF Typed, TypedWalk
  <2> QED
    BY <1>5, <2>1
<1>7. /\ results'[failed] = <<"error">>
      /\ \A q \in Posted : q # failed => results'[q] = results[q]
  BY <1>4, <1>6 DEF Typed, TypedTasks
<1>8. Contains(results'[failed], "error") /\ Len(results'[failed]) <= 1 /\ results'[failed] # <<>>
  BY <1>7 DEF Contains
<1>9. ASSUME NEW q \in Posted
      PROVE  /\ Root(q) = r => Failed(q)'
             /\ Root(q) # r => (Failed(q)' <=> Failed(q))
  <2>1. Family(q) = {p \in Posted : Root(p) = Root(q)}
    BY FamilyIs DEF Typed, TypedWalk
  <2>2. CASE Root(q) = r
    BY <1>2, <1>6, <1>8, <2>1, <2>2 DEF Failed
  <2>3. CASE Root(q) # r
    <3>1. \A p \in Family(q) : results'[p] = results[p]
      BY <1>6, <1>7, <2>1, <2>3
    <3> QED
      BY <1>2, <2>3, <3>1 DEF Failed
  <2> QED
    BY <2>2, <2>3
<1>10. \A q : Held(q)' <=> Held(q)
  BY <1>1, <1>2 DEF Held
<1>11. ASSUME NEW q \in Posted PROVE RequestInv(q)'
  <2>1. RequestInv(q)
    BY DEF TaskInv
  <2>2. CASE Root(q) = r
    <3>1. Len(results'[q]) <= 1
      BY <1>7, <1>8, <2>1 DEF RequestInv
    <3>2. Failed(q)' /\ Root(q)' \notin waiting'
      BY <1>1, <1>2, <1>9, <2>2
    <3> QED
      BY <1>1, <1>2, <2>1, <2>2, <3>1, <3>2, Zenon DEF RequestInv
  <2>3. CASE Root(q) # r
    <3>1. results'[q] = results[q] /\ (Failed(q)' <=> Failed(q))
      BY <1>6, <1>7, <1>9, <2>3
    <3> QED
      BY <1>1, <1>2, <1>10, <2>1, <2>3, <3>1 DEF RequestInv
  <2> QED
    BY <2>2, <2>3
<1>12. ASSUME NEW s \in Slots PROVE HolderInv(s)'
  <2>1. HolderInv(s) /\ (task[s] # NoRequest => task[s] \in Posted)
    BY DEF TaskInv, Typed, TypedSlots
  <2>2. task[s] # NoRequest => results'[task[s]] = results[task[s]]
    BY <1>1, <1>6, <1>7, <2>1 DEF HolderInv
  <2> QED
    BY <1>1, <1>2, <2>1, <2>2 DEF HolderInv
<1> QED
  BY <1>2, <1>11, <1>12 DEF TaskInv

LEMMA TaskStarts ==
    ASSUME Init
    PROVE  TaskInv
<1>1. Typed
  BY TypedInit
<1>2. ASSUME NEW r \in Posted PROVE RequestInv(r)
  <2>1. Root(r) \in waiting /\ results[r] = <<>> /\ stopped = {} /\ (r \in waiting => ~IsChild(r))
    BY <1>1, FamilyIs DEF Init, Typed, TypedWalk
  <2> QED
    BY <2>1 DEF RequestInv
<1>3. ASSUME NEW s \in Slots PROVE HolderInv(s)
  BY DEF Init, HolderInv
<1> QED
  BY <1>2, <1>3 DEF TaskInv

LEMMA TaskStep ==
    ASSUME Typed, TaskInv, [Next]_vars
    PROVE  TaskInv'
<1>1. ASSUME UNCHANGED vars \/ SetLora \/ BeginUpdate \/ EndUpdate \/ DecodeSucceeds \/ DecodeRetries
      PROVE  TaskInv'
  BY <1>1, TaskFrame
  DEF vars, taskVars, slotVars, SetLora, BeginUpdate, EndUpdate, DecodeSucceeds, DecodeRetries
<1>2. ASSUME NEW s \in Slots, state[s] # "IDLE", UNCHANGED taskVars,
             NEW x \in {"final", "error"}, Answer({s}, x), ReleaseState({s})
      PROVE  TaskInv'
  <2>1. {s} \in SUBSET Processing /\ UNCHANGED <<conf, waiting, stopped>>
    BY <1>2 DEF Processing, taskVars
  <2> QED
    BY <1>2, <2>1, TaskAnswered
<1>3. ASSUME NEW s \in Slots, WalkStep(s) PROVE TaskInv'
  <2>1. ASSUME \/ NoShift(s) \/ ShiftContext(s) \/ AddSampled(s) \/ NothingSampled(s) \/ NoPrompt(s)
               \/ PromptAborts(s) \/ PromptPostponed(s) \/ AddPrompt(s)
        PROVE  TaskInv'
    BY <2>1, TaskFrame
    DEF NoShift, ShiftContext, AddSampled, NothingSampled, NoPrompt, PromptAborts, PromptPostponed, AddPrompt,
        taskVars, slotVars
  <2>2. ASSUME ShiftRefused(s) \/ EmptyPrompt(s) \/ PromptRefused(s) PROVE TaskInv'
    BY <1>2, <2>2 DEF ShiftRefused, EmptyPrompt, PromptRefused, ContextFull, PromptPending, Release
  <2> QED
    BY <1>3, <2>1, <2>2 DEF WalkStep
<1>4. ASSUME NEW s \in Slots, PostStep(s) PROVE TaskInv'
  <2>1. ASSUME NotSampling(s) \/ GoesOn(s) PROVE TaskInv'
    BY <2>1, TaskFrame DEF NotSampling, GoesOn, Generates, PostAdvance, taskVars, slotVars
  <2>2. ASSUME SendOutputs(s) \/ Ends(s) PROVE TaskInv'
    BY <1>2, <2>2 DEF SendOutputs, Ends, Generates, Sampling, PostAdvance
  <2> QED
    BY <1>4, <2>1, <2>2 DEF PostStep
<1>5. ASSUME DecodeFatal \/ DecodeThrows PROVE TaskInv'
  BY <1>5, TaskAnswered DEF DecodeFatal, DecodeThrows, taskVars
<1>6. ASSUME UpdateStep PROVE TaskInv'
  BY <1>1, <1>3, <1>4, <1>5, <1>6 DEF UpdateStep, WalkStep, PostStep
<1> QED
  BY <1>1, <1>6, TaskLaunched, TaskLaunchFailed, TaskStopped, TaskCancelled DEF Next

LEMMA TaskAnswers ==
    ASSUME Typed, TaskInv
    PROVE  AnsweredOnce
<1> SUFFICES ASSUME NEW r \in Posted \ stopped
             PROVE  LET places == Cardinality(Holders(r)) + Len(results[r])
                    IN  IF r \in waiting THEN places = 0
                        ELSE IF \E q \in Family(r) : Contains(results[q], "error") THEN places <= 1
                        ELSE IF IsChild(r) /\ Task[r].parent \in waiting THEN places = 0
                        ELSE places = 1
  BY DEF AnsweredOnce
<1>1. RequestInv(r) /\ results[r] \in Seq({"final", "error"}) /\ r # NoRequest
  BY ConfTyped DEF TaskInv, Typed, TypedTasks, TypedWalk
<1>2. /\ Held(r) => Cardinality(Holders(r)) = 1 /\ results[r] = <<>> /\ Root(r) \notin waiting
      /\ ~Held(r) => Cardinality(Holders(r)) = 0
  <2>1. ASSUME Held(r)
        PROVE  Cardinality(Holders(r)) = 1 /\ results[r] = <<>> /\ Root(r) \notin waiting
    <3>1. PICK s \in Slots : task[s] = r
      BY <2>1 DEF Held
    <3>2. HolderInv(s)
      BY DEF TaskInv
    <3>3. Holders(r) = {s}
      BY <1>1, <3>1, <3>2 DEF Holders, HolderInv
    <3> QED
      BY <1>1, <3>1, <3>2, <3>3, FS_Singleton DEF HolderInv
  <2>2. ASSUME ~Held(r) PROVE Cardinality(Holders(r)) = 0
    <3>1. Holders(r) = {}
      BY <2>2 DEF Held, Holders
    <3> QED
      BY <3>1, FS_EmptySet
  <2> QED
    BY <2>1, <2>2
<1>3. Len(results[r]) \in Nat /\ Len(results[r]) <= 1 /\ (results[r] = <<>> <=> Len(results[r]) = 0)
  BY <1>1 DEF RequestInv
<1>4. CASE Root(r) \in waiting
  <2>1. Cardinality(Holders(r)) = 0 /\ Len(results[r]) = 0
    BY <1>1, <1>2, <1>3, <1>4 DEF RequestInv
  <2>2. r \in waiting \/ (IsChild(r) /\ Task[r].parent \in waiting)
    BY <1>4, Zenon DEF Root
  <2> QED
    BY <2>1, <2>2
<1>5. CASE Root(r) \notin waiting
  <2>1. r \notin waiting /\ ~(IsChild(r) /\ Task[r].parent \in waiting)
    BY <1>1, <1>5 DEF Root, RequestInv
  <2>2. Cardinality(Holders(r)) + Len(results[r]) <= 1
    BY <1>2, <1>3
  <2>3. ~Failed(r) => Cardinality(Holders(r)) + Len(results[r]) = 1
    BY <1>1, <1>2, <1>3, <1>5 DEF RequestInv
  <2> QED
    BY <2>1, <2>2, <2>3 DEF Failed
<1> QED
  BY <1>4, <1>5

(* Whatever fails, throws or is cancelled, a request that was launched is   *)
(* in one slot or answered once, and not both; after an error in its family *)
(* it is not answered twice.                                                *)
THEOREM RequestsAnsweredOnce == Spec => []AnsweredOnce
<1>1. Init => Typed /\ TaskInv
  BY TypedInit, TaskStarts
<1>2. Typed /\ TaskInv /\ [Next]_vars => (Typed /\ TaskInv)'
  BY TypedStep, TaskStep
<1>3. Typed /\ TaskInv => AnsweredOnce
  BY TaskAnswers
<1> QED
  BY <1>1, <1>2, <1>3, PTL DEF Spec

----------------------------------------------------------------------------
(* What is in the sequences of the slots and what is about to be, whatever  *)
(* shares the batch, and what an update owes every slot.                    *)

Sampled == {"DONE_PROMPT", "GENERATING"}
Active  == Sampled \cup {"PROCESSING_PROMPT"}

(* The entries of a slot that are still to be decoded.                      *)
Decoded  == IF pc = "tasks" THEN Len(batch) ELSE IF pc = "post" THEN ViewEnd ELSE off
Queue(s) == [i \in {i \in DOMAIN batch : i > Decoded /\ batch[i].slot = s} |-> batch[i]]

Queued(E) == /\ DOMAIN E \subseteq Nat
             /\ \A i \in DOMAIN E : E[i].pos \in Nat /\ E[i].token \in Nat

(* The entries E are the end of the prompt, in its order, and not in memory.*)
Continues(E, cells, tokens) ==
    /\ \A i \in DOMAIN E : /\ E[i].pos < Len(tokens) /\ E[i].token = tokens[E[i].pos + 1]
                           /\ E[i].pos \notin DOMAIN cells
    /\ \A i, j \in DOMAIN E : i < j => E[i].pos < E[j].pos
    /\ \A i \in DOMAIN E : \A p \in Nat :
          E[i].pos < p /\ p < Len(tokens) => \E j \in DOMAIN E : E[j].pos = p

(* The memory has no gaps, and the prompt's tokens as far as the two reach. *)
Closed(cells) == \A p \in DOMAIN cells : \A q \in 0 .. p : q \in DOMAIN cells
Matches(cells, tokens) == \A p \in DOMAIN cells : p < Len(tokens) => cells[p].token = tokens[p + 1]
Inside(cells, tokens)  == \A p \in DOMAIN cells : p < Len(tokens)

Covered(E, cells, tokens) ==
    \A p \in 0 .. Len(tokens) - 1 : p \in DOMAIN cells \/ \E i \in DOMAIN E : E[i].pos = p

(* The memory of a slot in state st.  After an exception it may fall short  *)
(* of the prompt, until the slot samples.                                   *)
Good(E, cells, tokens, st, throws) ==
    /\ Continues(E, cells, tokens) /\ Closed(cells) /\ Matches(cells, tokens)
    /\ DOMAIN E # {} => st \in Active
    /\ st \in Sampled \/ (st = "PROCESSING_PROMPT" /\ tokens # <<>>) => Inside(cells, tokens)
    /\ ~throws \/ (st \in Sampled /\ DOMAIN E = {}) => Covered(E, cells, tokens)
    /\ st \in Active /\ DOMAIN cells = {} /\ tokens # <<>> => \E i \in DOMAIN E : E[i].pos = 0

SlotGood(s) == Good(Queue(s), kv[s], prompt[s], state[s], conf.throws)

(* When a slot may have entries to be decoded.                              *)
Timing(s) ==
    DOMAIN Queue(s) # {} =>
        /\ pc = "generate" => s < at /\ state[s] = "GENERATING"
        /\ pc = "prompts" => s < at \/ state[s] = "GENERATING"
        /\ state[s] # "GENERATING" => Len(batch) <= conf.n_batch
        /\ state[s] \in Sampled => \A i \in DOMAIN Queue(s) : i <= i_batch[s]

(* The entry a slot will sample from: the last token of its prompt.         *)
Start(s) == IF pc = "tasks" THEN Len(batch) ELSE IF pc = "post" /\ s < at THEN ViewEnd ELSE off
Ready(s) ==
    /\ i_batch[s] \in DOMAIN batch /\ i_batch[s] > Start(s)
    /\ batch[i_batch[s]].pos = Len(prompt[s]) - 1
    /\ batch[i_batch[s]].slot = s \/ (IsChild(task[s]) /\ i_batch[s] <= Decoded)
SampleInv(s) ==
    /\ state[s] = "DONE_PROMPT" => Ready(s)
    /\ state[s] = "GENERATING" => i_batch[s] = NoSlot \/ Ready(s)
    /\ state[s] = "PROCESSING_PROMPT" => Len(prompt[s]) < NTokens(s)

UpdateInv ==
    /\ pc = "shift" => batch = <<>>
    /\ ~conf.refills => n_batch = conf.n_batch
    /\ pc \notin {"decode", "post", "tasks"} => off = 0 /\ n_batch = conf.n_batch
    /\ pc = "post" => off < Len(batch)
    /\ ~conf.throws => pc # "aborted"

(* The children that wait for a shared prefix wait while it is processed.   *)
SharedInv ==
    \A c, s \in Slots : state[c] = "WAIT_OTHER" =>
        /\ IsChild(task[c])
        /\ task[s] = Task[task[c]].parent /\ state[s] \in Active /\ NShared(s) > 0 =>
              state[s] = "PROCESSING_PROMPT" /\ Len(prompt[s]) <= NShared(s)

SlotMem(s) == SlotGood(s) /\ Timing(s) /\ SampleInv(s)
MemInv == UpdateInv /\ SharedInv /\ \A s \in Slots : SlotMem(s)

----------------------------------------------------------------------------
(* A slot's memory when it changes.                                         *)

(* Nothing is queued and nothing believed: any memory will do.              *)
LEMMA GoodForgotten ==
    ASSUME NEW E, DOMAIN E = {}, NEW cells \in Cells, Closed(cells), NEW st, st \notin Sampled, NEW throws
    PROVE  Good(E, cells, <<>>, st, throws)
<1>1. Continues(E, cells, <<>>)
  BY DEF Continues
<1>2. Covered(E, cells, <<>>)
  BY DEF Covered
<1>3. Matches(cells, <<>>)
  BY CellsAre DEF Matches
<1> QED
  BY <1>1, <1>2, <1>3 DEF Good

(* Nothing is queued, and the slot gives up or starts.                      *)
LEMMA GoodLeft ==
    ASSUME NEW E, DOMAIN E = {}, NEW cells, NEW tokens, NEW st, NEW throws, Good(E, cells, tokens, st, throws),
           NEW st2, st2 \notin Active
    PROVE  Good(E, cells, tokens, st2, throws)
BY DEF Good, Active

LEMMA Joined ==
    ASSUME NEW R, NEW a \in Seq(R), NEW b \in Seq(R)
    PROVE  /\ a \o b \in Seq(R) /\ Len(a \o b) = Len(a) + Len(b)
           /\ \A i \in 1 .. Len(a) + Len(b) : (a \o b)[i] = IF i <= Len(a) THEN a[i] ELSE b[i - Len(a)]
OBVIOUS

LEMMA Counted ==
    ASSUME NEW m \in Nat, NEW n \in Nat, NEW i \in m + 1 .. m + n
    PROVE  i \in Nat /\ i - m \in 1 .. n /\ m + (i - m) = i
OBVIOUS

LEMMA Follows ==
    ASSUME NEW R, NEW a \in Seq(R), NEW b \in Seq(R), NEW x \in Nat, NEW y \in 1 .. Len(b), x = Len(a) + y - 1
    PROVE  (a \o b)[x + 1] = b[y]
<1>1. x + 1 \in 1 .. Len(a) + Len(b) /\ ~(x + 1 <= Len(a)) /\ x + 1 - Len(a) = y
  OBVIOUS
<1>2. (a \o b)[x + 1] = b[x + 1 - Len(a)]
  BY <1>1, Joined
<1> QED
  BY <1>1, <1>2

LEMMA GoodClosed ==
    ASSUME NEW E, NEW cells, NEW tokens, NEW st, NEW throws, Good(E, cells, tokens, st, throws)
    PROVE  Closed(cells) /\ Matches(cells, tokens)
BY DEF Good

(* Nothing is queued and the memory is the prompt.                          *)
LEMMA GoodWhole ==
    ASSUME NEW E, NEW cells \in Cells, NEW tokens \in Seq(Nat), NEW st, st \in Sampled, NEW throws,
           DOMAIN E = {}, Good(E, cells, tokens, st, throws)
    PROVE  DOMAIN cells = 0 .. Len(tokens) - 1 /\ Matches(cells, tokens)
<1>1. Inside(cells, tokens) /\ Covered(E, cells, tokens) /\ Matches(cells, tokens)
  BY DEF Good
<1>2. DOMAIN cells \subseteq Nat /\ Len(tokens) \in Nat
  BY CellsAre
<1>3. \A p \in DOMAIN cells : p \in 0 .. Len(tokens) - 1
  BY <1>1, <1>2 DEF Inside
<1>4. \A p \in 0 .. Len(tokens) - 1 : p \in DOMAIN cells
  BY <1>1 DEF Covered
<1> QED
  BY <1>1, <1>3, <1>4

LEMMA WholeGood ==
    ASSUME NEW E, NEW cells, NEW tokens \in Seq(Nat), NEW st, NEW throws,
           DOMAIN E = {}, DOMAIN cells = 0 .. Len(tokens) - 1, Matches(cells, tokens)
    PROVE  Good(E, cells, tokens, st, throws)
<1>1. Len(tokens) \in Nat /\ (tokens # <<>> => 0 \in DOMAIN cells)
  OBVIOUS
<1>2. Closed(cells) /\ Inside(cells, tokens) /\ Covered(E, cells, tokens) /\ Continues(E, cells, tokens)
  BY <1>1 DEF Closed, Inside, Covered, Continues
<1> QED
  BY <1>1, <1>2 DEF Good

(* A context shift.                                                         *)
LEMMA GoodShifted ==
    ASSUME NEW E, DOMAIN E = {}, NEW cells \in Cells, NEW tokens \in Seq(Nat), NEW st, st \in Sampled, NEW throws,
           Good(E, cells, tokens, st, throws),
           NEW keep \in Nat, NEW d \in Nat, keep + d <= Len(tokens)
    PROVE  Good(E, SeqShift(cells, keep, d),
                SubSeq(tokens, 1, keep) \o SubSeq(tokens, keep + d + 1, Len(tokens)), st, throws)
<1> DEFINE n == Len(tokens)
           a == SubSeq(tokens, 1, keep)
           b == SubSeq(tokens, keep + d + 1, n)
           c == SeqShift(cells, keep, d)
<1>1. DOMAIN cells = 0 .. n - 1 /\ Matches(cells, tokens) /\ n \in Nat
  BY GoodWhole
<1>2. a \in Seq(Nat) /\ Len(a) = keep /\ \A i \in 1 .. keep : a[i] = tokens[i]
  BY <1>1, StartOf
<1>3. b \in Seq(Nat) /\ Len(b) = n - keep - d /\ \A i \in 1 .. n - keep - d : b[i] = tokens[keep + d + i]
  <2> DEFINE m == keep + d + 1
  <2>1. m \in Nat \ {0} /\ n <= Len(tokens) /\ n \in Nat
    BY <1>1
  <2> HIDE DEF m, n
  <2>2. /\ b \in Seq(Nat) /\ Len(b) = IF m <= n THEN n - m + 1 ELSE 0
        /\ \A i \in 1 .. n - m + 1 : b[i] = tokens[m + i - 1]
    <3>1. b = SubSeq(tokens, m, n)
      BY DEF m
    <3> HIDE DEF b
    <3> QED
      BY <2>1, <3>1, PartOf
  <2>3. keep + d <= n
    BY DEF n
  <2> HIDE DEF b
  <2>4. Len(b) = n - keep - d /\ n - m + 1 = n - keep - d
    BY <2>1, <2>2, <2>3 DEF m
  <2>5. ASSUME NEW i \in 1 .. n - keep - d PROVE b[i] = tokens[keep + d + i]
    <3>1. i \in 1 .. n - m + 1 /\ m + i - 1 = keep + d + i
      BY <2>1, <2>4 DEF m
    <3> QED
      BY <2>2, <3>1, Zenon
  <2> QED
    BY <2>2, <2>4, <2>5
<1> HIDE DEF a, b, n
<1>4. /\ a \o b \in Seq(Nat) /\ Len(a \o b) = n - d
      /\ \A i \in 1 .. n - d : (a \o b)[i] = IF i <= keep THEN tokens[i] ELSE tokens[i + d]
  <2>1. /\ a \o b \in Seq(Nat) /\ Len(a \o b) = Len(a) + Len(b)
        /\ \A i \in 1 .. Len(a) + Len(b) : (a \o b)[i] = IF i <= Len(a) THEN a[i] ELSE b[i - Len(a)]
    BY <1>2, <1>3, Joined, ZenonT(40)
  <2>2. Len(a) + Len(b) = n - d /\ keep + d <= n
    BY <1>1, <1>2, <1>3 DEF n
  <2>3. ASSUME NEW i \in 1 .. n - d PROVE (a \o b)[i] = IF i <= keep THEN tokens[i] ELSE tokens[i + d]
    <3>1. (a \o b)[i] = IF i <= keep THEN a[i] ELSE b[i - keep]
      BY <1>2, <2>1, <2>2
    <3>2. CASE i <= keep
      <4>1. i \in 1 .. keep
        BY <3>2
      <4> QED
        BY <1>2, <3>1, <3>2, <4>1, Zenon
    <3>3. CASE ~(i <= keep)
      <4>1. i - keep \in 1 .. n - keep - d /\ keep + d + (i - keep) = i + d
        BY <1>1, <2>2, <3>3
      <4>2. b[i - keep] = tokens[i + d]
        BY <1>3, <4>1
      <4> QED
        BY <3>1, <3>3, <4>2, Zenon
    <3> QED
      BY <3>2, <3>3
  <2> QED
    BY <2>1, <2>2, <2>3
<1>5. /\ DOMAIN c = {q \in DOMAIN cells : q < keep} \cup {q - d : q \in {q \in DOMAIN cells : q >= keep + d}}
      /\ \A p \in DOMAIN c : c[p] = IF p < keep THEN cells[p] ELSE cells[p + d]
  BY SeqShiftIs
<1> HIDE DEF c
<1>6. DOMAIN c = 0 .. n - d - 1
  <2>1. ASSUME NEW p \in DOMAIN c PROVE p \in 0 .. n - d - 1
    BY <1>1, <1>5 DEF n
  <2>2. ASSUME NEW p \in 0 .. n - d - 1 PROVE p \in DOMAIN c
    <3>1. CASE p < keep
      <4>1. p \in DOMAIN cells
        BY <1>1, <3>1
      <4> QED
        BY <1>5, <3>1, <4>1
    <3>2. CASE ~(p < keep)
      <4>1. p + d \in DOMAIN cells /\ p + d >= keep + d /\ (p + d) - d = p
        BY <1>1, <3>2
      <4> QED
        BY <1>5, <4>1
    <3> QED
      BY <1>1, <3>1, <3>2
  <2> QED
    BY <2>1, <2>2
<1>7. Matches(c, a \o b)
  <2> SUFFICES ASSUME NEW p \in DOMAIN c PROVE c[p].token = (a \o b)[p + 1]
    BY DEF Matches
  <2>1. p \in Nat /\ p + 1 \in 1 .. n - d
    BY <1>1, <1>6
  <2>2. CASE p < keep
    <3>1. p \in DOMAIN cells /\ p < Len(tokens) /\ p + 1 <= keep
      BY <1>1, <2>1, <2>2 DEF n
    <3> QED
      BY <1>1, <1>4, <1>5, <2>1, <2>2, <3>1 DEF Matches
  <2>3. CASE ~(p < keep)
    <3>1. p + d \in DOMAIN cells /\ p + d < Len(tokens) /\ ~(p + 1 <= keep) /\ p + d + 1 = (p + 1) + d
      BY <1>1, <2>1, <2>3, SMTT(20) DEF n
    <3>2. cells[p + d].token = tokens[p + d + 1]
      BY <1>1, <3>1 DEF Matches
    <3>3. (a \o b)[p + 1] = tokens[(p + 1) + d]
      BY <1>4, <2>1, <3>1, Zenon
    <3>4. c[p] = cells[p + d]
      BY <1>5, <2>3, Zenon
    <3> QED
      BY <3>1, <3>2, <3>3, <3>4
  <2> QED
    BY <2>1, <2>2, <2>3
<1> QED
  BY <1>4, <1>6, <1>7, WholeGood DEF a, b, c, n

(* A token that was sampled is added.                                       *)
LEMMA GoodAppended ==
    ASSUME NEW E, DOMAIN E = {}, NEW cells \in Cells, NEW tokens \in Seq(Nat), NEW throws,
           Good(E, cells, tokens, "GENERATING", throws),
           NEW F, NEW n \in Nat, DOMAIN F = {n}, NEW t \in Nat, F[n].pos = Len(tokens), F[n].token = t
    PROVE  Good(F, cells, Append(tokens, t), "GENERATING", throws)
<1>1. DOMAIN cells = 0 .. Len(tokens) - 1 /\ Matches(cells, tokens)
  BY GoodWhole DEF Sampled
<1>2. /\ Append(tokens, t) \in Seq(Nat) /\ Len(Append(tokens, t)) = Len(tokens) + 1 /\ Len(tokens) \in Nat
      /\ Append(tokens, t)[Len(tokens) + 1] = t
      /\ \A i \in 1 .. Len(tokens) : Append(tokens, t)[i] = tokens[i]
  OBVIOUS
<1> DEFINE q == Append(tokens, t)
<1> HIDE DEF q
<1>3. Continues(F, cells, q)
  BY <1>1, <1>2 DEF Continues, q
<1>4. Closed(cells) /\ Inside(cells, q)
  BY <1>1, <1>2 DEF Closed, Inside, q
<1>5. Matches(cells, q)
  BY <1>1, <1>2 DEF Matches, q
<1>6. Covered(F, cells, q)
  BY <1>1, <1>2 DEF Covered, q
<1>7. DOMAIN cells = {} => F[n].pos = 0
  <2>1. Len(tokens) # 0 => 0 \in DOMAIN cells
    BY <1>1, <1>2
  <2> QED
    BY <2>1
<1> QED
  BY <1>3, <1>4, <1>5, <1>6, <1>7 DEF Good, Active, Sampled, q

(* What is kept of the cached prompt goes on with tokens of the new one.    *)
LEMMA GoodExtended ==
    ASSUME NEW cells \in Cells, NEW kept \in Seq(Nat), NEW added \in Seq(Nat), NEW throws,
           Closed(cells), Matches(cells, kept),
           kept # <<>> => DOMAIN cells # {},
           ~throws => \A p \in 0 .. Len(kept) - 1 : p \in DOMAIN cells,
           NEW F, NEW m \in Nat, DOMAIN F = m + 1 .. m + Len(added),
           \A i \in 1 .. Len(added) : F[m + i].pos = Len(kept) + i - 1 /\ F[m + i].token = added[i],
           NEW st, st = "PROCESSING_PROMPT" \/ (st = "DONE_PROMPT" /\ added # <<>>)
    PROVE  Good(F, SeqRm(cells, Len(kept)), kept \o added, st, throws)
<1> DEFINE k == Len(kept)
           n == Len(added)
           q == kept \o added
           c == SeqRm(cells, k)
<1>1. /\ q \in Seq(Nat) /\ Len(q) = k + n /\ k \in Nat /\ n \in Nat
      /\ \A i \in 1 .. k + n : q[i] = IF i <= k THEN kept[i] ELSE added[i - k]
      /\ (n = 0 <=> added = <<>>) /\ (k = 0 <=> kept = <<>>)
  BY Joined
<1>2. DOMAIN c = {p \in DOMAIN cells : p < k} /\ \A p \in DOMAIN c : c[p] = cells[p]
  <2> HIDE DEF k
  <2>1. /\ DOMAIN SeqRm(cells, k) = {p \in DOMAIN cells : p < k}
        /\ \A p \in DOMAIN cells : p < k => SeqRm(cells, k)[p] = cells[p]
    BY <1>1, SeqRmIs
  <2> QED
    BY <2>1
<1>3. DOMAIN cells \subseteq Nat
  BY CellsAre
<1>4. ~throws => \A p \in 0 .. k - 1 : p \in DOMAIN cells
  OBVIOUS
<1>5. Matches(cells, kept) /\ Closed(cells) /\ (k # 0 => DOMAIN cells # {})
  BY <1>1
<1>16. DOMAIN F = m + 1 .. m + n /\ \A i \in 1 .. n : F[m + i].pos = k + i - 1 /\ F[m + i].token = added[i]
  OBVIOUS
<1>17. k \in Nat /\ n \in Nat
  BY <1>1
<1>19. Len(q) = k + n
  BY <1>1
<1>20. \A x \in Nat, y \in 1 .. n : x = k + y - 1 /\ x + 1 \in 1 .. k + n => q[x + 1] = added[y]
  BY Follows
<1>18. \A i \in 1 .. k + n : (i <= k => q[i] = kept[i]) /\ (~(i <= k) => q[i] = added[i - k])
  BY <1>1
<1> HIDE DEF k, n, q, c
<1>6. ASSUME NEW i \in DOMAIN F
      PROVE  /\ i - m \in 1 .. n /\ F[i].pos = k + (i - m) - 1 /\ F[i].token = added[i - m]
             /\ i \in Nat /\ F[i].pos \in Nat /\ k <= F[i].pos /\ F[i].pos < k + n
  <2>5. i \in m + 1 .. m + n
    BY <1>16
  <2>1. i \in Nat /\ i - m \in 1 .. n /\ m + (i - m) = i
    BY <1>17, <2>5, Counted, SMTT(20)
  <2>2. F[i].pos = k + (i - m) - 1 /\ F[i].token = added[i - m]
    BY <1>16, <2>1
  <2>3. \A j \in 1 .. n : k + j - 1 \in Nat /\ k <= k + j - 1 /\ k + j - 1 < k + n
    BY <1>17
  <2>4. F[i].pos \in Nat /\ k <= F[i].pos /\ F[i].pos < k + n
    BY <2>1, <2>2, <2>3
  <2> QED
    BY <2>1, <2>2, <2>4
<1>7. ASSUME NEW p \in Nat, k <= p, p < k + n
      PROVE  \E i \in DOMAIN F : F[i].pos = p
  <2>1. p - k + 1 \in 1 .. n /\ m + (p - k + 1) \in DOMAIN F /\ k + (p - k + 1) - 1 = p
    BY <1>7, <1>16, <1>17
  <2>2. F[m + (p - k + 1)].pos = p
    BY <1>16, <2>1
  <2> QED
    BY <2>1, <2>2
<1>8. Continues(F, c, q)
  <2>1. ASSUME NEW i \in DOMAIN F
        PROVE  F[i].pos < Len(q) /\ F[i].token = q[F[i].pos + 1] /\ F[i].pos \notin DOMAIN c /\ F[i].pos \in Nat
    <3>1. PICK x \in Nat, y \in 1 .. n : x = F[i].pos /\ y = i - m
      BY <1>6
    <3>2. x = k + y - 1 /\ F[i].token = added[y]
      BY <1>6, <3>1
    <3>3. x < k + n /\ k <= x /\ x + 1 \in 1 .. k + n /\ ~(x + 1 <= k) /\ x + 1 - k = y
      BY <1>17, <3>2
    <3>4. q[x + 1] = added[y]
      BY <1>20, <3>2, <3>3, Zenon
    <3>5. x \notin DOMAIN c
      BY <1>2, <1>17, <3>3
    <3> QED
      BY <1>19, <3>1, <3>2, <3>3, <3>4, <3>5
  <2>2. ASSUME NEW i \in DOMAIN F, NEW j \in DOMAIN F, i < j PROVE F[i].pos < F[j].pos
    BY <1>17, <1>6, <2>2, SMTT(20)
  <2>3. ASSUME NEW i \in DOMAIN F, NEW p \in Nat, F[i].pos < p, p < Len(q)
        PROVE  \E j \in DOMAIN F : F[j].pos = p
    <3>1. k <= p /\ p < k + n
      BY <1>17, <1>19, <1>6, <2>3, SMTT(20)
    <3> QED
      BY <1>7, <3>1
  <2> QED
    BY <2>1, <2>2, <2>3 DEF Continues
<1>9. Closed(c) /\ Inside(c, q)
  <2>1. ASSUME NEW p \in DOMAIN c, NEW r \in 0 .. p PROVE r \in DOMAIN c
    <3>1. p \in DOMAIN cells /\ p \in Nat /\ p < k
      BY <1>2, <1>3
    <3>2. r \in DOMAIN cells /\ r < k
      BY <1>1, <1>5, <3>1 DEF Closed
    <3> QED
      BY <1>2, <3>2
  <2>2. \A p \in DOMAIN c : p < Len(q)
    BY <1>1, <1>2, <1>3
  <2> QED
    BY <2>1, <2>2 DEF Closed, Inside
<1>10. Matches(c, q)
  <2> SUFFICES ASSUME NEW p \in DOMAIN c PROVE c[p].token = q[p + 1]
    BY DEF Matches
  <2>1. p \in DOMAIN cells /\ p \in Nat /\ p < k /\ c[p] = cells[p] /\ p + 1 \in 1 .. k + n /\ p + 1 <= k
    BY <1>17, <1>19, <1>2, <1>3
  <2>2. cells[p].token = kept[p + 1]
    BY <1>5, <2>1 DEF Matches, k
  <2> QED
    BY <1>18, <2>1, <2>2
<1>11. ~throws => Covered(F, c, q)
  <2> SUFFICES ASSUME ~throws, NEW p \in 0 .. Len(q) - 1
               PROVE  p \in DOMAIN c \/ \E i \in DOMAIN F : F[i].pos = p
    BY DEF Covered
  <2>1. p \in Nat /\ p < k + n
    BY <1>1
  <2>2. CASE p < k
    BY <1>1, <1>2, <1>4, <2>1, <2>2
  <2>3. CASE ~(p < k)
    <3>1. k <= p
      BY <1>17, <2>1, <2>3
    <3> QED
      BY <1>7, <2>1, <3>1
  <2> QED
    BY <2>2, <2>3
<1>12. st \in Sampled => n # 0
  BY <1>1 DEF Sampled
<1>13. n # 0 => DOMAIN F # {}
  <2>1. n # 0 => m + 1 \in m + 1 .. m + n
    BY <1>17
  <2> QED
    BY <1>16, <2>1
<1>14. DOMAIN c = {} /\ q # <<>> => \E i \in DOMAIN F : F[i].pos = 0
  <2> SUFFICES ASSUME DOMAIN c = {}, q # <<>> PROVE \E i \in DOMAIN F : F[i].pos = 0
    OBVIOUS
  <2>1. k = 0
    <3> SUFFICES ASSUME k # 0 PROVE FALSE
      OBVIOUS
    <3>1. PICK p \in DOMAIN cells : TRUE
      BY <1>5
    <3>2. p \in Nat /\ 0 \in 0 .. p
      BY <1>3
    <3>3. 0 \in DOMAIN cells
      BY <1>5, <3>2 DEF Closed
    <3> QED
      BY <1>1, <1>2, <3>3
  <2>2. n # 0
    BY <1>1, <2>1
  <2>3. 0 \in Nat /\ k <= 0 /\ 0 < k + n
    BY <1>1, <2>1, <2>2
  <2> QED
    BY <1>7, <2>3
<1>15. st \in Active /\ st # "GENERATING"
  BY DEF Active, Sampled
<1> QED
  BY <1>8, <1>9, <1>10, <1>11, <1>12, <1>13, <1>14, <1>15 DEF Good, k, q, c

(* A child starts from the memory and the prompt that are kept.             *)
LEMMA GoodShared ==
    ASSUME NEW cells \in Cells, NEW kept \in Seq(Nat), NEW throws,
           Closed(cells), Matches(cells, kept),
           ~throws => \A p \in 0 .. Len(kept) - 1 : p \in DOMAIN cells,
           NEW F, DOMAIN F = {}
    PROVE  Good(F, SeqRm(cells, Len(kept)), kept, "STARTED", throws)
<1> DEFINE c == SeqRm(cells, Len(kept))
<1>1. DOMAIN c = {p \in DOMAIN cells : p < Len(kept)} /\ \A p \in DOMAIN c : c[p] = cells[p]
  <2> DEFINE k == Len(kept)
  <2>1. k \in Nat
    OBVIOUS
  <2> HIDE DEF k
  <2>2. /\ DOMAIN SeqRm(cells, k) = {p \in DOMAIN cells : p < k}
        /\ \A p \in DOMAIN cells : p < k => SeqRm(cells, k)[p] = cells[p]
    BY <2>1, SeqRmIs
  <2> QED
    BY <2>2 DEF k
<1>2. DOMAIN cells \subseteq Nat
  BY CellsAre
<1> HIDE DEF c
<1>3. Closed(c) /\ Matches(c, kept)
  BY <1>1, <1>2 DEF Closed, Matches
<1>4. ~throws => Covered(F, c, kept)
  BY <1>1 DEF Covered
<1>5. Continues(F, c, kept)
  BY DEF Continues
<1> QED
  BY <1>3, <1>4, <1>5 DEF Good, Active, Sampled, c

(* The entries up to m are decoded.  Where the memory is not empty, they    *)
(* continue it: llama_decode has checked that.                              *)
LEMMA GoodDecoded ==
    ASSUME NEW E, Queued(E), NEW cells \in Cells, NEW tokens \in Seq(Nat), NEW st, NEW throws,
           Good(E, cells, tokens, st, throws),
           NEW m \in Nat, NEW E2, DOMAIN E2 = {i \in DOMAIN E : i > m}, \A i \in DOMAIN E2 : E2[i] = E[i],
           NEW c \in Cells, \A p \in DOMAIN cells : p \in DOMAIN c,
           \A i \in DOMAIN E : i <= m => E[i].pos \in DOMAIN c,
           \A p \in DOMAIN c : \/ p \in DOMAIN cells /\ c[p] = cells[p]
                               \/ \E i \in DOMAIN E : i <= m /\ E[i].pos = p /\ c[p].token = E[i].token,
           DOMAIN cells # {} => \A i \in DOMAIN E : i <= m => E[i].pos - 1 \in DOMAIN c
    PROVE  Good(E2, c, tokens, st, throws)
<1>1. /\ DOMAIN cells \subseteq Nat /\ DOMAIN c \subseteq Nat /\ Len(tokens) \in Nat /\ DOMAIN E \subseteq Nat
      /\ \A i \in DOMAIN E : E[i].pos \in Nat
  BY CellsAre DEF Queued
<1>2. /\ \A i \in DOMAIN E : /\ E[i].pos < Len(tokens) /\ E[i].token = tokens[E[i].pos + 1]
                             /\ E[i].pos \notin DOMAIN cells
      /\ \A i, j \in DOMAIN E : i < j => E[i].pos < E[j].pos
  BY DEF Good, Continues
<1>3. \A i \in DOMAIN E : \A p \in Nat :
          E[i].pos < p /\ p < Len(tokens) => \E j \in DOMAIN E : E[j].pos = p
  BY DEF Good, Continues
<1>4. Closed(cells) /\ Matches(cells, tokens)
  BY DEF Good
<1> DEFINE V == {i \in DOMAIN E : i <= m}
<1>5. ASSUME NEW i \in DOMAIN E, NEW j \in DOMAIN E, E[i].pos <= E[j].pos PROVE i <= j
  BY <1>1, <1>2, <1>5, SMTT(20)
<1>6. ASSUME NEW i \in V
      PROVE  \E a \in V : /\ E[a].pos <= E[i].pos
                          /\ \A q \in Nat : q < E[a].pos => q \in DOMAIN c
  <2> DEFINE P == {E[j].pos : j \in V}
  <2>1. P \in SUBSET Nat /\ E[i].pos \in P
    BY <1>1
  <2>2. Min(P) \in P /\ \A n \in P : Min(P) <= n
    <3> HIDE DEF P
    <3> QED
      BY <2>1, MinOf
  <2>3. PICK a \in V : Min(P) = E[a].pos
    BY <2>2
  <2>4. \A j \in V : E[a].pos <= E[j].pos
    <3> SUFFICES ASSUME NEW j \in V PROVE E[a].pos <= E[j].pos
      OBVIOUS
    <3>1. E[j].pos \in P
      OBVIOUS
    <3>2. Min(P) <= E[j].pos
      <4> HIDE DEF P
      <4> QED
        BY <2>2, <3>1
    <3> HIDE DEF P
    <3> QED
      BY <2>3, <3>2, Zenon
  <2>5. CASE DOMAIN cells # {}
    <3>1. PICK x \in Nat : x = E[a].pos
      BY <1>1
    <3>2. x - 1 \in DOMAIN c /\ x \in Nat /\ x - 1 \in Nat /\ x - 1 < x
      BY <1>1, <2>5, <3>1
    <3>3. x - 1 \in DOMAIN cells
      <4>1. ~(\E j \in DOMAIN E : j <= m /\ E[j].pos = x - 1)
        BY <2>4, <3>1, <3>2
      <4> QED
        BY <3>2, <4>1
    <3>4. ASSUME NEW q \in Nat, q < x PROVE q \in DOMAIN c
      <4>1. q \in 0 .. x - 1
        BY <3>2, <3>4
      <4> QED
        BY <1>4, <3>3, <4>1 DEF Closed
    <3> QED
      BY <2>4, <3>1, <3>4
  <2>6. CASE DOMAIN cells = {}
    <3>1. tokens # <<>>
      <4>1. i \in DOMAIN E /\ E[i].pos \in Nat /\ E[i].pos < Len(tokens)
        BY <1>1, <1>2
      <4>2. Len(tokens) # 0
        BY <1>1, <4>1
      <4> QED
        BY <4>2
    <3>2. DOMAIN E # {}
      OBVIOUS
    <3>3. PICK j \in DOMAIN E : E[j].pos = 0
      BY <2>6, <3>1, <3>2 DEF Good
    <3>4. E[j].pos <= E[a].pos
      BY <1>1, <3>3
    <3>5. j <= a /\ a <= m
      BY <1>5, <3>4
    <3>6. j \in V
      BY <1>1, <3>5
    <3>7. E[j].pos <= E[i].pos /\ \A q \in Nat : ~(q < E[j].pos)
      BY <1>1, <3>3
    <3> QED
      BY <3>6, <3>7
  <2> QED
    BY <2>5, <2>6
<1>7. ASSUME NEW i \in V, NEW q \in Nat, q <= E[i].pos PROVE q \in DOMAIN c
  <2>1. PICK a \in V : /\ E[a].pos <= E[i].pos
                       /\ \A r \in Nat : r < E[a].pos => r \in DOMAIN c
    BY <1>6
  <2>2. CASE q < E[a].pos
    BY <2>1, <2>2
  <2>3. CASE q = E[a].pos
    BY <2>3
  <2>4. CASE E[a].pos < q
    <3>1. q < Len(tokens)
      BY <1>1, <1>2, <1>7, SMTT(20)
    <3>2. PICK j \in DOMAIN E : E[j].pos = q
      BY <1>3, <2>4, <3>1
    <3>3. j <= i /\ i <= m
      BY <1>5, <1>7, <3>2
    <3>4. j <= m
      BY <1>1, <3>3
    <3> QED
      BY <3>2, <3>4
  <2> QED
    BY <1>1, <2>2, <2>3, <2>4
<1>8. Closed(c)
  <2> SUFFICES ASSUME NEW p \in DOMAIN c, NEW q \in 0 .. p PROVE q \in DOMAIN c
    BY DEF Closed
  <2>1. p \in Nat /\ q \in Nat /\ q <= p
    BY <1>1
  <2>2. CASE p \in DOMAIN cells
    BY <1>4, <2>2 DEF Closed
  <2>3. CASE p \notin DOMAIN cells
    <3>1. PICK i \in V : E[i].pos = p
      BY <2>3
    <3> QED
      BY <1>7, <2>1, <3>1
  <2> QED
    BY <2>2, <2>3
<1>9. Continues(E2, c, tokens)
  <2>1. ASSUME NEW i \in DOMAIN E2 PROVE E2[i].pos \notin DOMAIN c
    <3>1. i \in DOMAIN E /\ i > m /\ E2[i] = E[i]
      OBVIOUS
    <3>2. ASSUME NEW j \in DOMAIN E, j <= m PROVE E[j].pos # E[i].pos
      <4>1. j \in Nat /\ i \in Nat /\ E[j].pos \in Nat /\ E[i].pos \in Nat
        BY <1>1, <3>1
      <4>2. j < i
        BY <3>1, <3>2, <4>1
      <4>3. E[j].pos < E[i].pos
        BY <1>2, <3>1, <4>2
      <4> QED
        BY <4>1, <4>3
    <3> QED
      BY <1>2, <3>1, <3>2
  <2>2. ASSUME NEW i \in DOMAIN E2, NEW p \in Nat, E2[i].pos < p, p < Len(tokens)
        PROVE  \E j \in DOMAIN E2 : E2[j].pos = p
    <3>1. i \in DOMAIN E /\ i > m /\ E2[i] = E[i]
      OBVIOUS
    <3>2. PICK j \in DOMAIN E : E[j].pos = p
      BY <1>3, <2>2, <3>1
    <3>3. E[i].pos <= E[j].pos
      BY <1>1, <2>2, <3>1, <3>2
    <3>4. i <= j
      BY <1>5, <3>1, <3>3
    <3>5. j > m
      BY <1>1, <3>1, <3>4
    <3> QED
      BY <3>2, <3>5
  <2>3. \A i \in DOMAIN E2 : E2[i].pos < Len(tokens) /\ E2[i].token = tokens[E2[i].pos + 1]
    BY <1>2
  <2>4. \A i, j \in DOMAIN E2 : i < j => E2[i].pos < E2[j].pos
    BY <1>2
  <2> QED
    BY <2>1, <2>2, <2>3, <2>4 DEF Continues
<1>10. Matches(c, tokens)
  <2> SUFFICES ASSUME NEW p \in DOMAIN c, p < Len(tokens) PROVE c[p].token = tokens[p + 1]
    BY DEF Matches
  <2>1. CASE p \in DOMAIN cells /\ c[p] = cells[p]
    BY <1>4, <2>1 DEF Matches
  <2>2. CASE \E i \in DOMAIN E : i <= m /\ E[i].pos = p /\ c[p].token = E[i].token
    BY <1>2, <2>2
  <2> QED
    BY <2>1, <2>2
<1>11. Inside(cells, tokens) => Inside(c, tokens)
  BY <1>2 DEF Inside
<1>12. Covered(E, cells, tokens) => Covered(E2, c, tokens)
  <2> SUFFICES ASSUME Covered(E, cells, tokens), NEW p \in 0 .. Len(tokens) - 1, p \notin DOMAIN c
               PROVE  \E i \in DOMAIN E2 : E2[i].pos = p
    BY DEF Covered
  <2>1. PICK i \in DOMAIN E : E[i].pos = p
    BY DEF Covered
  <2>2. i > m
    BY <1>1, <2>1
  <2> QED
    BY <2>1, <2>2
<1>13. DOMAIN E2 = {} /\ DOMAIN E # {} => Covered(E2, c, tokens)
  <2> SUFFICES ASSUME DOMAIN E2 = {}, NEW i \in DOMAIN E, NEW p \in 0 .. Len(tokens) - 1
               PROVE  p \in DOMAIN c
    BY DEF Covered
  <2>1. \A j \in DOMAIN E : j \in V
    BY <1>1
  <2>2. p \in Nat /\ p < Len(tokens)
    BY <1>1
  <2>3. CASE p <= E[i].pos
    BY <1>7, <2>1, <2>2, <2>3
  <2>4. CASE E[i].pos < p
    BY <1>3, <2>1, <2>2, <2>4
  <2> QED
    BY <1>1, <2>2, <2>3, <2>4
<1>14. st \in Active /\ DOMAIN c = {} /\ tokens # <<>> => \E i \in DOMAIN E2 : E2[i].pos = 0
  <2> SUFFICES ASSUME st \in Active, DOMAIN c = {}, tokens # <<>>
               PROVE  \E i \in DOMAIN E2 : E2[i].pos = 0
    OBVIOUS
  <2>1. PICK i \in DOMAIN E : E[i].pos = 0
    BY DEF Good
  <2>2. i > m
    BY <1>1
  <2> QED
    BY <2>1, <2>2
<1>15. DOMAIN E2 # {} => DOMAIN E # {}
  OBVIOUS
<1> QED
  BY <1>8, <1>9, <1>10, <1>11, <1>12, <1>13, <1>14, <1>15 DEF Good

----------------------------------------------------------------------------
(* What is queued.                                                          *)

LEMMA QueueIs ==
    ASSUME Typed, NEW s \in Slots
    PROVE  /\ DOMAIN Queue(s) = {i \in DOMAIN batch : i > Decoded /\ batch[i].slot = s}
           /\ \A i \in DOMAIN Queue(s) : Queue(s)[i] = batch[i]
           /\ Queued(Queue(s)) /\ DOMAIN batch = 1 .. Len(batch) /\ Len(batch) \in Nat /\ Decoded \in Nat
<1>1. DOMAIN Queue(s) = {i \in DOMAIN batch : i > Decoded /\ batch[i].slot = s}
  BY DEF Queue
<1>2. \A i \in DOMAIN Queue(s) : Queue(s)[i] = batch[i]
  BY DEF Queue
<1>3. batch \in Seq(Entry) /\ off \in Nat
  BY DEF Typed, TypedBatch
<1>4. DOMAIN batch = 1 .. Len(batch) /\ Len(batch) \in Nat
  BY <1>3
<1>5. Decoded \in Nat
  BY <1>3, <1>4, ViewIs DEF Decoded
<1>6. Queued(Queue(s))
  BY <1>1, <1>2, EntryTyped DEF Queued
<1> QED
  BY <1>1, <1>2, <1>4, <1>5, <1>6

LEMMA QueueIsThen ==
    ASSUME Typed', conf' = conf, NEW s \in Slots
    PROVE  /\ DOMAIN Queue(s)' = {i \in DOMAIN batch' : i > Decoded' /\ batch'[i].slot = s}
           /\ \A i \in DOMAIN Queue(s)' : Queue(s)'[i] = batch'[i]
           /\ DOMAIN batch' = 1 .. Len(batch') /\ Len(batch') \in Nat /\ Decoded' \in Nat
<1>1. DOMAIN Queue(s)' = {i \in DOMAIN batch' : i > Decoded' /\ batch'[i].slot = s}
  BY DEF Queue
<1>2. \A i \in DOMAIN Queue(s)' : Queue(s)'[i] = batch'[i]
  BY DEF Queue
<1>3. batch' \in Seq(Entry') /\ off' \in Nat
  BY DEF Typed, TypedBatch
<1>4. DOMAIN batch' = 1 .. Len(batch') /\ Len(batch') \in Nat
  BY <1>3
<1>5. ViewEnd' \in Nat
  <2>1. conf.n_batch \in Nat /\ n_batch' \in 1 .. conf.n_batch
    BY ConfTyped DEF Typed, TypedWalk, TypedBatch
  <2>2. n_batch' \in Nat /\ off' \in Nat /\ Len(batch') \in Nat
    BY <1>3, <1>4, <2>1
  <2>3. ViewEnd' = IF off' + n_batch' < Len(batch') THEN off' + n_batch' ELSE Len(batch')
    BY Zenon DEF ViewEnd
  <2>4. \A a, b \in Nat : a + b \in Nat
    OBVIOUS
  <2> HIDE DEF ViewEnd
  <2> QED
    BY <2>2, <2>3, <2>4, Zenon
<1>6. Decoded' \in Nat
  BY <1>3, <1>4, <1>5 DEF Decoded
<1> QED
  BY <1>1, <1>2, <1>4, <1>6

(* No entry of the slot t comes to the batch.                               *)
Extends(t) == /\ \A i \in DOMAIN batch : i \in DOMAIN batch' /\ batch'[i] = batch[i]
              /\ \A i \in DOMAIN batch' : i \in DOMAIN batch \/ batch'[i].slot # t

LEMMA QueueSame ==
    ASSUME NEW t \in Slots, Extends(t), Decoded' = Decoded
    PROVE  Queue(t)' = Queue(t)
<1>1. {i \in DOMAIN batch' : i > Decoded' /\ batch'[i].slot = t} = {i \in DOMAIN batch : i > Decoded /\ batch[i].slot = t}
  BY DEF Extends
<1>2. \A i \in {i \in DOMAIN batch : i > Decoded /\ batch[i].slot = t} : batch'[i] = batch[i]
  BY DEF Extends
<1> QED
  BY <1>1, <1>2 DEF Queue

LEMMA NothingQueued ==
    ASSUME Typed, pc = "tasks" \/ batch = <<>>, NEW s \in Slots
    PROVE  DOMAIN Queue(s) = {}
<1>1. DOMAIN batch = 1 .. Len(batch) /\ Len(batch) \in Nat /\ Decoded \in Nat
  BY QueueIs
<1>2. CASE pc = "tasks"
  <2>1. Decoded = Len(batch)
    BY <1>2 DEF Decoded
  <2>2. \A i \in DOMAIN batch : ~(i > Decoded)
    BY <1>1, <2>1
  <2> QED
    BY <2>2, QueueIs
<1>3. CASE batch = <<>>
  <2>1. DOMAIN batch = {}
    BY <1>3
  <2> QED
    BY <2>1, QueueIs
<1> QED
  BY <1>2, <1>3

LEMMA GoodEmpty ==
    ASSUME NEW E, DOMAIN E = {}, NEW F, DOMAIN F = {}, NEW cells, NEW tokens, NEW st, NEW throws,
           Good(E, cells, tokens, st, throws)
    PROVE  Good(F, cells, tokens, st, throws)
BY DEF Good, Continues, Covered

----------------------------------------------------------------------------
(* What a step leaves alone.                                                *)

Still(t) == /\ state'[t] = state[t] /\ task'[t] = task[t] /\ prompt'[t] = prompt[t]
            /\ kv'[t] = kv[t] /\ i_batch'[t] = i_batch[t]

(* A slot without anything queued goes idle, starts or waits.               *)
LEMMA SlotEmptied ==
    ASSUME Typed, conf' = conf, NEW t \in Slots, SlotGood(t),
           DOMAIN Queue(t) = {}, DOMAIN Queue(t)' = {}, state'[t] \notin Active,
           \/ prompt'[t] = prompt[t] /\ kv'[t] = kv[t]
           \/ prompt'[t] = <<>> /\ (kv'[t] = NoCells \/ kv'[t] = kv[t])
    PROVE  SlotMem(t)'
<1>1. Good(Queue(t), kv[t], prompt[t], state[t], conf.throws)
  BY DEF SlotGood
<1>2. Good(Queue(t)', kv'[t], prompt'[t], state'[t], conf.throws)
  <2>1. CASE prompt'[t] = prompt[t] /\ kv'[t] = kv[t]
    BY <1>1, <2>1, GoodLeft, GoodEmpty
  <2>2. CASE prompt'[t] = <<>> /\ kv'[t] = NoCells
    <3>1. Closed(NoCells) /\ NoCells \in Cells
      BY NoCellsTyped DEF Closed
    <3> QED
      BY <2>2, <3>1, GoodForgotten DEF Active
  <2>3. CASE prompt'[t] = <<>> /\ kv'[t] = kv[t]
    <3>1. Closed(kv[t]) /\ kv[t] \in Cells
      BY <1>1, GoodClosed DEF Typed, TypedCache
    <3> QED
      BY <2>3, <3>1, GoodForgotten DEF Active
  <2> QED
    BY <2>1, <2>2, <2>3
<1>3. SlotGood(t)'
  BY <1>2 DEF SlotGood
<1>4. Timing(t)'
  BY DEF Timing
<1>5. SampleInv(t)'
  BY DEF SampleInv, Active, Sampled
<1> QED
  BY <1>3, <1>4, <1>5 DEF SlotMem

(* Between two updates nothing is queued.                                   *)
LEMMA SlotWaits ==
    ASSUME Typed, conf' = conf, pc = "tasks", pc' = pc, UNCHANGED batchVars, UNCHANGED decodeVars,
           NEW t \in Slots, SlotMem(t), Still(t)
    PROVE  SlotMem(t)'
<1>1. Queue(t)' = Queue(t) /\ DOMAIN Queue(t) = {}
  <2>1. batch' = batch /\ Decoded' = Decoded
    BY DEF batchVars, decodeVars, Decoded
  <2> QED
    BY <2>1, NothingQueued DEF Queue
<1>2. SlotGood(t)'
  BY <1>1 DEF SlotMem, SlotGood, Still
<1>3. Timing(t)'
  BY <1>1 DEF Timing
<1>4. SampleInv(t)'
  <2>1. batch' = batch /\ Start(t)' = Start(t) /\ Decoded' = Decoded
    BY DEF batchVars, decodeVars, Start, Decoded
  <2>2. IsChild(task[t])' = IsChild(task[t]) /\ NTokens(t)' = NTokens(t)
    BY DEF IsChild, NTokens, Task, Still
  <2> QED
    BY <2>1, <2>2 DEF SampleInv, Ready, SlotMem, Still
<1> QED
  BY <1>2, <1>3, <1>4 DEF SlotMem

(* A walk over the slots: at the slot s, the slot t is left alone.          *)
Phases == {"shift", "generate", "prompts"}
Goes(s) ==
    /\ pc \in Phases /\ at = s
    /\ (pc' = pc /\ at' = s + 1) \/ (pc' \in Phases \cup {"decode", "aborted"} /\ pc' # pc)
    /\ pc = "shift" => pc' \in {"shift", "generate"} /\ batch' = batch
    /\ pc' = "shift" => pc = "shift"
    /\ pc' = "generate" => pc \in {"shift", "generate"}
    /\ batch' = batch \/ pc = "generate" \/ Len(batch') <= conf.n_batch
    /\ off' = off /\ n_batch' = n_batch

LEMMA Walks ==
    ASSUME Typed, UpdateInv, NEW s \in Slots, NEW next, conf' = conf, UNCHANGED decodeVars, at = s,
           \/ pc = "shift" /\ next = "generate" /\ batch' = batch
           \/ pc = "generate" /\ next \in {"prompts", "decode"}
           \/ pc = "prompts" /\ next = "decode" /\ (batch' = batch \/ Len(batch') <= conf.n_batch),
           Advance(s, next)
    PROVE  Goes(s)
<1>1. off' = off /\ n_batch' = n_batch /\ at = s
  BY DEF decodeVars
<1>2. (at' = s + 1 /\ pc' = pc) \/ pc' = next
  BY Zenon DEF Advance
<1>3. CASE pc = "shift" /\ next = "generate" /\ batch' = batch
  BY <1>1, <1>2, <1>3 DEF Goes, Phases
<1>4. CASE pc = "generate" /\ next \in {"prompts", "decode"}
  BY <1>1, <1>2, <1>4 DEF Goes, Phases
<1>5. CASE pc = "prompts" /\ next = "decode" /\ (batch' = batch \/ Len(batch') <= conf.n_batch)
  BY <1>1, <1>2, <1>5 DEF Goes, Phases
<1> QED
  BY <1>3, <1>4, <1>5

LEMMA WalkDecoded ==
    ASSUME Typed, UpdateInv, NEW s \in Slots, Goes(s)
    PROVE  Decoded = 0 /\ Decoded' = 0 /\ \A t : Start(t) = 0 /\ Start(t)' = 0
<1>1. off = 0 /\ off' = 0 /\ pc \notin {"tasks", "post"} /\ pc' \notin {"tasks", "post"}
  BY DEF UpdateInv, Goes, Phases
<1> QED
  BY <1>1 DEF Decoded, Start

LEMMA SlotPassed ==
    ASSUME Typed, UpdateInv, NEW s \in Slots, Goes(s), conf' = conf,
           NEW t \in Slots, SlotMem(t), Still(t), Extends(t)
    PROVE  SlotMem(t)'
<1>1. Decoded = 0 /\ Decoded' = 0 /\ Start(t) = 0 /\ Start(t)' = 0
  BY WalkDecoded
<1>2. Queue(t)' = Queue(t)
  BY <1>1, QueueSame
<1>3. SlotGood(t)'
  BY <1>2 DEF SlotMem, SlotGood, Still
<1>4. Timing(t)'
  <2>1. SUFFICES ASSUME DOMAIN Queue(t) # {} PROVE Timing(t)'
    BY <1>2 DEF Timing
  <2>2. /\ pc = "generate" => t < at /\ state[t] = "GENERATING"
        /\ pc = "prompts" => t < at \/ state[t] = "GENERATING"
        /\ state[t] # "GENERATING" => Len(batch) <= conf.n_batch
        /\ state[t] \in Sampled => \A i \in DOMAIN Queue(t) : i <= i_batch[t]
    BY <2>1 DEF SlotMem, Timing
  <2>3. batch # <<>>
    BY <2>1, NothingQueued
  <2>4. pc # "shift" /\ t \in Nat /\ s \in Nat /\ at = s
    BY <2>3, SlotsTyped DEF UpdateInv, Goes, Typed, TypedWalk
  <2>5. pc' = "generate" => t < at' /\ state'[t] = "GENERATING"
    BY <2>2, <2>4 DEF Goes, Still
  <2>6. pc' = "prompts" => t < at' \/ state'[t] = "GENERATING"
    BY <2>2, <2>4 DEF Goes, Still, Phases
  <2>7. state'[t] # "GENERATING" => Len(batch') <= conf.n_batch
    BY <2>2, <2>4 DEF Goes, Still
  <2> QED
    BY <1>2, <2>2, <2>5, <2>6, <2>7 DEF Timing, Still
<1>5. SampleInv(t)'
  <2>1. /\ IsChild(task[t])' = IsChild(task[t]) /\ NTokens(t)' = NTokens(t)
    BY DEF IsChild, NTokens, Task, Still
  <2>2. Ready(t) => Ready(t)'
    BY <1>1, <2>1 DEF Ready, Still, Extends
  <2> QED
    BY <2>1, <2>2 DEF SampleInv, SlotMem, Still
<1> QED
  BY <1>3, <1>4, <1>5 DEF SlotMem

(* The walk leaves the rest of the update as it should be.                  *)
LEMMA UpdateGoes ==
    ASSUME UpdateInv, NEW s \in Slots, Goes(s), conf' = conf, ~conf.throws => pc' # "aborted"
    PROVE  UpdateInv'
BY DEF UpdateInv, Goes, Phases

(* No slot gets ahead of the children that wait for it.                     *)
Waited(s) == NShared(s) > 0 /\ \E c \in WaitingChildren(s) : state'[c] = "WAIT_OTHER"

LEMMA SharedKept ==
    ASSUME Typed, SharedInv, conf' = conf,
           \A c \in Slots : state'[c] = "WAIT_OTHER" => state[c] = "WAIT_OTHER" /\ task'[c] = task[c],
           \A s \in Slots : state'[s] \in Active =>
              /\ task'[s] = task[s]
              /\ \/ state[s] \in Sampled \/ IsChild(task[s])
                 \/ state'[s] = state[s] /\ prompt'[s] = prompt[s]
                 \/ Waited(s) => state'[s] = "PROCESSING_PROMPT" /\ Len(prompt'[s]) <= NShared(s)
    PROVE  SharedInv'
<1>1. Slots' = Slots /\ Task' = Task
  BY Fixed
<1>2. SUFFICES ASSUME NEW c \in Slots, NEW s \in Slots, state'[c] = "WAIT_OTHER"
               PROVE  /\ IsChild(task'[c])
                      /\ task'[s] = Task[task'[c]].parent /\ state'[s] \in Active /\ NShared(s)' > 0 =>
                            state'[s] = "PROCESSING_PROMPT" /\ Len(prompt'[s]) <= NShared(s)'
  BY <1>1 DEF SharedInv, IsChild
<1>3. state[c] = "WAIT_OTHER" /\ task'[c] = task[c] /\ IsChild(task[c])
  BY <1>2 DEF SharedInv
<1>4. SUFFICES ASSUME task'[s] = Task[task[c]].parent, state'[s] \in Active, NShared(s)' > 0
               PROVE  state'[s] = "PROCESSING_PROMPT" /\ Len(prompt'[s]) <= NShared(s)'
  BY <1>3
<1>5. task'[s] = task[s] /\ NShared(s)' = NShared(s)
  BY <1>1, <1>4 DEF NShared
<1>6. c \in WaitingChildren(s) /\ Waited(s)
  BY <1>2, <1>3, <1>4, <1>5 DEF WaitingChildren, Waited
<1>7. ~IsChild(task[s])
  <2>1. task[c] \in Posted /\ conf \in Confs
    BY <1>3, BusyTask DEF Typed, TypedWalk
  <2> QED
    BY <1>3, <1>4, <1>5, <2>1, ParentPosted
<1>8. state[s] \in Active => state[s] = "PROCESSING_PROMPT" /\ Len(prompt[s]) <= NShared(s)
  BY <1>3, <1>4, <1>5 DEF SharedInv
<1> QED
  BY <1>4, <1>5, <1>6, <1>7, <1>8 DEF Active, Sampled

(* Slots that are released or left alone.                                   *)
LEMMA SharedFrame ==
    ASSUME Typed, SharedInv, conf' = conf,
           \A s \in Slots : state'[s] = "IDLE" \/ Still(s)
    PROVE  SharedInv'
BY SharedKept DEF Still, Active, Sampled

LEMMA ExtendsSame ==
    ASSUME batch' = batch
    PROVE  \A t : Extends(t)
BY DEF Extends

(* The walk passes over the slots.                                          *)
LEMMA MemPassed ==
    ASSUME Typed, MemInv, conf' = conf, NEW s \in Slots, Goes(s), batch' = batch, UNCHANGED slotVars,
           ~conf.throws => pc' # "aborted"
    PROVE  MemInv'
<1>1. \A t \in Slots : Still(t)
  BY DEF slotVars, Still
<1>2. SharedInv'
  BY <1>1, SharedFrame DEF MemInv
<1>3. \A t \in Slots : SlotMem(t)'
  BY <1>1, ExtendsSame, SlotPassed DEF MemInv
<1>4. UpdateInv'
  BY UpdateGoes DEF MemInv
<1> QED
  BY <1>2, <1>3, <1>4, Fixed DEF MemInv

(* The memory of a slot with a cached prompt is not empty.                  *)
LEMMA CacheThere ==
    ASSUME Typed, MemInv, ~conf.throws, NEW s \in Slots, PromptPending(s), state[s] = "STARTED"
    PROVE  ~CacheGone(s)
<1> SUFFICES ASSUME CacheGone(s) PROVE FALSE
  OBVIOUS
<1>1. Common(s) > 0 /\ DOMAIN kv[s] = {}
  BY NoCellsTyped DEF CacheGone
<1>2. Common(s) \in Nat /\ Common(s) <= Len(prompt[s]) /\ Len(prompt[s]) \in Nat
  BY CommonIs DEF Typed, TypedCache
<1>3. DOMAIN Queue(s) = {} /\ Covered(Queue(s), kv[s], prompt[s])
  BY DEF MemInv, SlotMem, SlotGood, Good, Active, Sampled
<1>4. 0 \in 0 .. Len(prompt[s]) - 1
  BY <1>1, <1>2
<1> QED
  BY <1>1, <1>3, <1>4 DEF Covered

LEMMA MemLeft ==
    ASSUME Typed, MemInv, NEW s \in Slots,
           NoShift(s) \/ NothingSampled(s) \/ NoPrompt(s) \/ PromptAborts(s)
    PROVE  MemInv'
<1>1. UNCHANGED <<taskVars, slotVars, batchVars, decodeVars>> /\ at = s
  BY DEF NoShift, NothingSampled, NoPrompt, PromptAborts, PromptPending, Walk
<1>2. conf' = conf /\ batch' = batch /\ UNCHANGED slotVars /\ UNCHANGED decodeVars
  BY <1>1 DEF taskVars, batchVars
<1>3. CASE NoShift(s) \/ NothingSampled(s) \/ NoPrompt(s)
  <2>1. Goes(s)
    <3>1. CASE NoShift(s)
      BY <1>1, <1>2, <3>1, Walks DEF NoShift, Walk, MemInv
    <3>2. CASE NothingSampled(s)
      BY <1>1, <1>2, <3>2, Walks DEF NothingSampled, Walk, MemInv, AfterGenerating
    <3>3. CASE NoPrompt(s)
      BY <1>1, <1>2, <3>3, Walks DEF NoPrompt, Walk, MemInv
    <3> QED
      BY <1>3, <3>1, <3>2, <3>3
  <2>2. pc' # "aborted"
    BY <1>3 DEF NoShift, NothingSampled, NoPrompt, Walk, Advance, AfterGenerating
  <2> QED
    BY <1>2, <2>1, <2>2, MemPassed
<1>4. CASE PromptAborts(s)
  <2>1. pc' = "aborted" /\ pc = "prompts" /\ PromptPending(s) /\ state[s] = "STARTED" /\ CacheGone(s)
    BY <1>4 DEF PromptAborts, PromptPending, Walk
  <2>2. conf.throws
    BY <2>1, CacheThere
  <2>3. Goes(s)
    BY <1>1, <1>2, <2>1 DEF Goes, Phases, decodeVars
  <2> QED
    BY <1>2, <2>2, <2>3, MemPassed
<1> QED
  BY <1>3, <1>4

(* A slot is released on the walk.                                          *)
LEMMA MemRefused ==
    ASSUME Typed, Typed', MemInv, NEW s \in Slots,
           ShiftRefused(s) \/ EmptyPrompt(s) \/ PromptRefused(s)
    PROVE  MemInv'
<1>1. Release({s}) /\ conf' = conf /\ UNCHANGED batchVars /\ UNCHANGED decodeVars /\ at = s
  BY DEF ShiftRefused, EmptyPrompt, PromptRefused, PromptPending, Walk, taskVars
<1>2. batch' = batch
  BY <1>1 DEF batchVars
<1>3. Goes(s) /\ pc' # "aborted"
  <2>1. CASE ShiftRefused(s)
    BY <1>1, <1>2, <2>1, Walks DEF ShiftRefused, Walk, MemInv, Advance
  <2>2. CASE EmptyPrompt(s) \/ PromptRefused(s)
    BY <1>1, <1>2, <2>2, Walks DEF EmptyPrompt, PromptRefused, PromptPending, Walk, MemInv, Advance
  <2> QED
    BY <2>1, <2>2
<1>4. DOMAIN Queue(s) = {}
  <2>1. CASE ShiftRefused(s)
    <3>1. batch = <<>>
      BY <2>1 DEF ShiftRefused, Walk, MemInv, UpdateInv
    <3> QED
      BY <3>1, NothingQueued
  <2>2. CASE EmptyPrompt(s) \/ PromptRefused(s)
    <3>1. state[s] = "STARTED"
      BY <2>2 DEF EmptyPrompt, PromptRefused
    <3> QED
      BY <3>1 DEF MemInv, SlotMem, SlotGood, Good, Active, Sampled
  <2> QED
    BY <2>1, <2>2
<1>5. /\ state'[s] = "IDLE"
      /\ (prompt'[s] = prompt[s] /\ kv'[s] = kv[s]) \/ (prompt'[s] = <<>> /\ kv'[s] = NoCells)
  BY <1>1 DEF Release, ReleaseState, Clear
<1>6. \A t \in Slots \ {s} : Still(t)
  BY <1>1 DEF Release, ReleaseState, Clear, Still
<1>7. SlotMem(s)'
  <2>1. Decoded' = Decoded
    BY <1>3, WalkDecoded DEF MemInv
  <2>2. DOMAIN Queue(s)' = {}
    BY <1>2, <1>4, <2>1, ExtendsSame, QueueSame
  <2> QED
    BY <1>1, <1>4, <1>5, <2>2, SlotEmptied DEF MemInv, SlotMem, Active, Sampled
<1>8. \A t \in Slots : SlotMem(t)'
  BY <1>1, <1>2, <1>3, <1>6, <1>7, ExtendsSame, SlotPassed DEF MemInv
<1>9. SharedInv'
  BY <1>1, <1>5, <1>6, SharedFrame DEF MemInv
<1>10. UpdateInv'
  BY <1>1, <1>3, UpdateGoes DEF MemInv
<1> QED
  BY <1>1, <1>8, <1>9, <1>10, Fixed DEF MemInv

LEMMA MemShifted ==
    ASSUME Typed, MemInv, NEW s \in Slots, ShiftContext(s)
    PROVE  MemInv'
<1> DEFINE keep == conf.n_keep
           d    == Discard(s)
           q    == SubSeq(prompt[s], 1, keep) \o SubSeq(prompt[s], keep + d + 1, Len(prompt[s]))
           c    == SeqShift(kv[s], keep, d)
<1>1. /\ conf' = conf /\ batch' = batch /\ UNCHANGED decodeVars /\ pc = "shift" /\ at = s
      /\ state' = state /\ task' = task /\ i_batch' = i_batch /\ state[s] = "GENERATING"
      /\ Advance(s, "generate") /\ ContextFull(s)
  BY DEF ShiftContext, ContextFull, Walk, taskVars, batchVars
<1>2. Goes(s) /\ pc' # "aborted"
  BY <1>1, Walks DEF MemInv, Advance
<1>3. prompt \in [Slots -> Seq(Nat)] /\ kv \in [Slots -> Cells] /\ prompt[s] \in Seq(Nat) /\ kv[s] \in Cells
  BY DEF Typed, TypedCache
<1>4. prompt' = [prompt EXCEPT ![s] = q] /\ kv' = [kv EXCEPT ![s] = c]
  BY DEF ShiftContext
<1>5. keep \in Nat /\ d \in Nat /\ keep + d <= Len(prompt[s])
  <2>1. Len(prompt[s]) \in Nat /\ keep \in Nat /\ Len(prompt[s]) >= keep
    BY <1>1, <1>3, ConfTyped DEF ContextFull, Typed, TypedWalk
  <2>2. d \in Nat /\ keep + 2 * d <= Len(prompt[s])
    BY <2>1, DiscardIs
  <2> QED
    BY <2>1, <2>2
<1>6. prompt'[s] = q /\ kv'[s] = c /\ \A t \in Slots \ {s} : prompt'[t] = prompt[t] /\ kv'[t] = kv[t]
  <2> HIDE DEF q, c
  <2> QED
    BY <1>3, <1>4
<1>7. batch = <<>>
  BY <1>1 DEF MemInv, UpdateInv
<1>8. DOMAIN Queue(s) = {} /\ Queue(s)' = Queue(s)
  BY <1>1, <1>2, <1>7, NothingQueued, QueueSame, ExtendsSame, WalkDecoded DEF MemInv
<1>9. Good(Queue(s), c, q, "GENERATING", conf.throws)
  <2>1. Good(Queue(s), kv[s], prompt[s], "GENERATING", conf.throws)
    BY <1>1 DEF MemInv, SlotMem, SlotGood
  <2> HIDE DEF keep, d
  <2> QED
    BY <1>3, <1>5, <1>8, <2>1, GoodShifted DEF Sampled
<1> HIDE DEF keep, d, q, c
<1>10. SlotGood(s)'
  BY <1>1, <1>6, <1>8, <1>9 DEF SlotGood
<1>11. Timing(s)'
  BY <1>8 DEF Timing
<1>12. SampleInv(s)'
  <2>1. ~Ready(s)
    BY <1>7 DEF Ready
  <2>2. i_batch[s] = NoSlot
    BY <1>1, <2>1 DEF MemInv, SlotMem, SampleInv
  <2> QED
    BY <1>1, <2>2 DEF SampleInv
<1>13. \A t \in Slots : SlotMem(t)'
  <2>1. \A t \in Slots \ {s} : Still(t)
    BY <1>1, <1>6 DEF Still
  <2> QED
    BY <1>1, <1>2, <1>10, <1>11, <1>12, <2>1, ExtendsSame, SlotPassed DEF MemInv, SlotMem
<1>14. SharedInv'
  BY <1>1, <1>6, SharedKept DEF MemInv, Sampled
<1>15. UpdateInv'
  BY <1>1, <1>2, UpdateGoes DEF MemInv
<1> QED
  BY <1>1, <1>13, <1>14, <1>15, Fixed DEF MemInv

(* The entries of the slot s that come to the batch.                        *)
LEMMA Added ==
    ASSUME Typed, Typed', conf' = conf, NEW s \in Slots, NEW q \in Seq(Nat), NEW first \in Nat,
           batch' = batch \o Entries(s, q, first), DOMAIN Queue(s) = {}, Decoded = 0, Decoded' = 0
    PROVE  /\ Len(batch) \in Nat /\ Len(batch') = Len(batch) + Len(q) /\ DOMAIN batch' = 1 .. Len(batch) + Len(q)
           /\ \A t \in Slots \ {s} : Extends(t)
           /\ DOMAIN Queue(s)' = Len(batch) + 1 .. Len(batch) + Len(q)
           /\ \A i \in 1 .. Len(q) : /\ Queue(s)'[Len(batch) + i].pos = first + i - 1
                                     /\ Queue(s)'[Len(batch) + i].token = q[i]
                                     /\ batch'[Len(batch) + i].pos = first + i - 1
                                     /\ batch'[Len(batch) + i].slot = s
<1> DEFINE n == Len(batch)
           k == Len(q)
<1>1. /\ n \in Nat /\ Len(batch') = n + k /\ k \in Nat
      /\ \A i \in 1 .. n : batch'[i] = batch[i]
      /\ \A i \in 1 .. k : batch'[n + i] = [slot |-> s, token |-> q[i], pos |-> first + i - 1]
  <2>1. Len(q) \in Nat
    OBVIOUS
  <2> QED
    BY <2>1, BatchGrows, Zenon
<1>2. DOMAIN batch = 1 .. n /\ DOMAIN batch' = 1 .. n + k
  BY <1>1, QueueIs, QueueIsThen
<1>3. \A i \in DOMAIN batch : batch[i].slot # s
  <2>1. \A i \in DOMAIN batch : i > Decoded
    BY <1>1, <1>2
  <2> QED
    BY <2>1, QueueIs
<1> HIDE DEF n, k
<1>4. \A i \in 1 .. k : batch'[n + i].slot = s /\ batch'[n + i].pos = first + i - 1 /\ batch'[n + i].token = q[i]
  <2> SUFFICES ASSUME NEW i \in 1 .. k
               PROVE  batch'[n + i].slot = s /\ batch'[n + i].pos = first + i - 1 /\ batch'[n + i].token = q[i]
    OBVIOUS
  <2>1. PICK e : e = batch'[n + i] /\ e = [slot |-> s, token |-> q[i], pos |-> first + i - 1]
    BY <1>1
  <2> QED
    BY <2>1
<1>5. \A i \in DOMAIN batch' : i \in DOMAIN batch \/ (i - n \in 1 .. k /\ n + (i - n) = i)
  BY <1>1, <1>2
<1>6. \A i \in DOMAIN batch' : i \in DOMAIN batch \/ batch'[i].slot = s
  BY <1>4, <1>5
<1>7. \A i \in DOMAIN batch : i \in DOMAIN batch' /\ batch'[i] = batch[i]
  BY <1>1, <1>2
<1>8. \A t \in Slots \ {s} : Extends(t)
  BY <1>6, <1>7 DEF Extends
<1>9. DOMAIN Queue(s)' = n + 1 .. n + k
  <2>1. DOMAIN Queue(s)' = {i \in DOMAIN batch' : i > 0 /\ batch'[i].slot = s}
    BY QueueIsThen
  <2>2. \A i \in n + 1 .. n + k : i \in DOMAIN batch' /\ i > 0 /\ i \notin DOMAIN batch
    BY <1>1, <1>2
  <2>3. \A i \in DOMAIN batch' : i \notin DOMAIN batch => i \in n + 1 .. n + k
    BY <1>1, <1>2
  <2> QED
    BY <1>3, <1>6, <1>7, <2>1, <2>2, <2>3
<1>10. \A i \in 1 .. k : n + i \in n + 1 .. n + k
  BY <1>1
<1>11. \A i \in 1 .. k : Queue(s)'[n + i] = batch'[n + i]
  BY <1>9, <1>10, QueueIsThen
<1> QED
  BY <1>1, <1>2, <1>4, <1>8, <1>9, <1>11 DEF n, k

LEMMA MemSampled ==
    ASSUME Typed, Typed', MemInv, NEW s \in Slots, AddSampled(s)
    PROVE  MemInv'
<1> DEFINE q == <<SampledToken>>
           m == Len(batch)
<1>1. /\ conf' = conf /\ UNCHANGED decodeVars /\ pc = "generate" /\ at = s
      /\ state' = state /\ task' = task /\ kv' = kv /\ state[s] = "GENERATING"
      /\ Advance(s, AfterGenerating) /\ batch' = batch \o Entries(s, q, Len(prompt[s]))
      /\ i_batch' = [i_batch EXCEPT ![s] = Len(batch')]
      /\ prompt' = [prompt EXCEPT ![s] = Append(@, SampledToken)]
  BY DEF AddSampled, Walk, taskVars
<1>2. Goes(s) /\ pc' # "aborted"
  BY <1>1, Walks DEF MemInv, Advance, AfterGenerating
<1>3. /\ prompt \in [Slots -> Seq(Nat)] /\ prompt[s] \in Seq(Nat) /\ kv[s] \in Cells /\ i_batch \in [Slots -> Nat]
      /\ Len(prompt[s]) \in Nat
  BY DEF Typed, TypedCache, TypedSlots
<1>4. DOMAIN Queue(s) = {} /\ Decoded = 0 /\ Decoded' = 0 /\ Start(s)' = 0
  <2>1. ~(s < at)
    BY <1>1, SlotsTyped DEF Typed, TypedWalk
  <2> QED
    BY <1>1, <1>2, <2>1, WalkDecoded DEF MemInv, SlotMem, Timing
<1>5. q \in Seq(Nat) /\ Len(q) = 1 /\ q[1] = SampledToken /\ SampledToken \in Nat
  BY DEF SampledToken
<1> HIDE DEF q
<1>6. /\ m \in Nat /\ Len(batch') = m + Len(q) /\ DOMAIN batch' = 1 .. m + Len(q)
      /\ \A t \in Slots \ {s} : Extends(t)
      /\ DOMAIN Queue(s)' = m + 1 .. m + Len(q)
      /\ \A i \in 1 .. Len(q) : /\ Queue(s)'[m + i].pos = Len(prompt[s]) + i - 1
                                /\ Queue(s)'[m + i].token = q[i]
                                /\ batch'[m + i].pos = Len(prompt[s]) + i - 1
                                /\ batch'[m + i].slot = s
  <2>1. batch' = batch \o Entries(s, q, Len(prompt[s]))
    BY <1>1
  <2>2. PICK first \in Nat : first = Len(prompt[s])
    BY <1>3
  <2>3. conf' = conf /\ q \in Seq(Nat) /\ batch' = batch \o Entries(s, q, first)
    BY <1>1, <1>5, <2>1, <2>2
  <2>4. /\ Len(batch) \in Nat /\ Len(batch') = Len(batch) + Len(q) /\ DOMAIN batch' = 1 .. Len(batch) + Len(q)
        /\ \A t \in Slots \ {s} : Extends(t)
        /\ DOMAIN Queue(s)' = Len(batch) + 1 .. Len(batch) + Len(q)
        /\ \A i \in 1 .. Len(q) : /\ Queue(s)'[Len(batch) + i].pos = first + i - 1
                                  /\ Queue(s)'[Len(batch) + i].token = q[i]
                                  /\ batch'[Len(batch) + i].pos = first + i - 1
                                  /\ batch'[Len(batch) + i].slot = s
    BY <1>4, <2>3, Added, ZenonT(30)
  <2> QED
    BY <2>2, <2>4, Zenon
<1> HIDE DEF m
<1>7. /\ m \in Nat /\ Len(batch') = m + 1 /\ DOMAIN batch' = 1 .. m + 1 /\ DOMAIN Queue(s)' = {m + 1}
      /\ Queue(s)'[m + 1].pos = Len(prompt[s]) /\ Queue(s)'[m + 1].token = SampledToken
      /\ batch'[m + 1].pos = Len(prompt[s]) /\ batch'[m + 1].slot = s
  <2>1. 1 \in 1 .. Len(q) /\ Len(prompt[s]) + 1 - 1 = Len(prompt[s]) /\ m + 1 .. m + 1 = {m + 1}
    BY <1>3, <1>5, <1>6
  <2> QED
    BY <1>5, <1>6, <2>1
<1>8. /\ prompt'[s] = Append(prompt[s], SampledToken) /\ i_batch'[s] = m + 1
      /\ \A t \in Slots \ {s} : prompt'[t] = prompt[t] /\ i_batch'[t] = i_batch[t]
  <2>1. Len(batch') = m + 1
    BY <1>7
  <2> QED
    BY <1>1, <1>3, <2>1
<1>9. SlotGood(s)'
  <2>1. Good(Queue(s), kv[s], prompt[s], "GENERATING", conf.throws)
    BY <1>1 DEF MemInv, SlotMem, SlotGood
  <2>2. Good(Queue(s)', kv[s], Append(prompt[s], SampledToken), "GENERATING", conf.throws)
    <3>1. m + 1 \in Nat
      BY <1>6
    <3> QED
      BY <1>3, <1>4, <1>5, <1>7, <2>1, <3>1, GoodAppended
  <2> QED
    BY <1>1, <1>8, <2>2 DEF SlotGood
<1>10. Timing(s)'
  <2>1. pc' \in {"generate", "prompts"} => pc' = "prompts" \/ s < at'
    BY <1>1, SlotsTyped DEF Advance, AfterGenerating, Typed, TypedWalk
  <2>2. \A i \in DOMAIN Queue(s)' : i <= i_batch'[s]
    BY <1>7, <1>8
  <2> QED
    BY <1>1, <2>1, <2>2 DEF Timing
<1>11. SampleInv(s)'
  <2>1. Len(prompt'[s]) - 1 = Len(prompt[s])
    BY <1>3, <1>8
  <2>2. m + 1 \in DOMAIN batch' /\ m + 1 > 0
    BY <1>7
  <2>3. Ready(s)'
    BY <1>4, <1>7, <1>8, <2>1, <2>2 DEF Ready
  <2> QED
    BY <1>1, <2>3 DEF SampleInv
<1>12. \A t \in Slots : SlotMem(t)'
  <2>1. \A t \in Slots \ {s} : Still(t)
    BY <1>1, <1>8 DEF Still
  <2> QED
    BY <1>1, <1>2, <1>6, <1>9, <1>10, <1>11, <2>1, SlotPassed DEF MemInv, SlotMem
<1>13. SharedInv'
  BY <1>1, <1>8, SharedKept DEF MemInv, Sampled
<1>14. UpdateInv'
  BY <1>1, <1>2, UpdateGoes DEF MemInv
<1> QED
  BY <1>1, <1>12, <1>13, <1>14, Fixed DEF MemInv

(* A slot whose turn in the prompts has come has nothing queued.            *)
LEMMA PendingEmpty ==
    ASSUME Typed, MemInv, NEW s \in Slots, PromptPending(s)
    PROVE  DOMAIN Queue(s) = {} /\ pc = "prompts" /\ at = s /\ Decoded = 0
<1>1. pc = "prompts" /\ at = s /\ state[s] # "GENERATING" /\ ~(s < at)
  BY SlotsTyped DEF PromptPending, Walk, Typed, TypedWalk
<1>2. off = 0
  BY <1>1 DEF MemInv, UpdateInv
<1> QED
  BY <1>1, <1>2 DEF MemInv, SlotMem, Timing, Decoded

LEMMA MemPostponed ==
    ASSUME Typed, MemInv, NEW s \in Slots, PromptPostponed(s)
    PROVE  MemInv'
<1>1. /\ conf' = conf /\ UNCHANGED decodeVars /\ batch' = batch /\ pc = "prompts" /\ at = s
      /\ task' = task /\ kv' = kv /\ i_batch' = i_batch /\ PromptPending(s) /\ DoesNotFit(s)
      /\ state' = [state EXCEPT ![s] = "PROCESSING_PROMPT"]
      /\ prompt' = [prompt EXCEPT ![s] = Kept(s)]
      /\ Advance(s, "decode") /\ state[s] \in {"STARTED", "PROCESSING_PROMPT"}
      /\ state[s] = "STARTED" => NTokens(s) > 0
  BY DEF PromptPostponed, PromptReady, PromptPending, Walk, taskVars, batchVars
<1>2. Goes(s) /\ pc' # "aborted"
  BY <1>1, Walks DEF MemInv, Advance
<1>3. state'[s] = "PROCESSING_PROMPT" /\ prompt'[s] = Kept(s)
      /\ \A t \in Slots \ {s} : state'[t] = state[t] /\ prompt'[t] = prompt[t]
  BY <1>1 DEF Typed, TypedSlots, TypedCache
<1>4. \A t \in Slots \ {s} : Still(t)
  BY <1>1, <1>3 DEF Still
<1>5. DOMAIN Queue(s) = {} /\ Queue(s)' = Queue(s)
  BY <1>1, <1>2, PendingEmpty, ExtendsSame, QueueSame, WalkDecoded DEF MemInv
<1>6. state[s] = "STARTED" => Kept(s) = <<>>
  <2> SUFFICES ASSUME state[s] = "STARTED" PROVE Kept(s) = <<>>
    OBVIOUS
  <2>1. NPast(s) = 0
    BY <1>1, NPastIs DEF DoesNotFit
  <2>2. Kept(s) \in Seq(Nat) /\ Len(Kept(s)) = 0
    BY <2>1, KeptIs
  <2> HIDE DEF Kept
  <2> QED
    BY <2>2
<1>7. SlotMem(s)'
  <2>1. CASE state[s] = "STARTED"
    <3>1. Good(Queue(s), kv[s], <<>>, "PROCESSING_PROMPT", conf.throws)
      <4>1. kv[s] \in Cells /\ Closed(kv[s])
        BY GoodClosed DEF MemInv, SlotMem, SlotGood, Typed, TypedCache
      <4> QED
        BY <1>5, <4>1, GoodForgotten DEF Sampled
    <3>2. SlotGood(s)' /\ Timing(s)'
      BY <1>1, <1>3, <1>5, <1>6, <2>1, <3>1 DEF SlotGood, Timing
    <3>3. SampleInv(s)'
      <4>1. NTokens(s)' = NTokens(s) /\ Len(<<>>) = 0
        BY <1>1 DEF NTokens, Task
      <4> QED
        BY <1>1, <1>3, <1>6, <2>1, <4>1 DEF SampleInv
    <3> QED
      BY <3>2, <3>3 DEF SlotMem
  <2>2. CASE state[s] = "PROCESSING_PROMPT"
    <3>1. Kept(s) = prompt[s]
      BY <2>2 DEF Kept
    <3>2. Still(s)
      BY <1>1, <1>3, <2>2, <3>1 DEF Still
    <3> QED
      BY <1>1, <1>2, <3>2, ExtendsSame, SlotPassed DEF MemInv
  <2> QED
    BY <1>1, <2>1, <2>2
<1>8. \A t \in Slots : SlotMem(t)'
  BY <1>1, <1>2, <1>4, <1>7, ExtendsSame, SlotPassed DEF MemInv
<1>9. SharedInv'
  <2>1. state[s] = "STARTED" /\ Waited(s) => Len(prompt'[s]) <= NShared(s)
    <3>1. NShared(s) \in Nat /\ Len(<<>>) = 0
      BY <1>1, BusyTask
    <3> QED
      BY <1>3, <1>6, <3>1
  <2>2. state[s] = "PROCESSING_PROMPT" => prompt'[s] = prompt[s] /\ state'[s] = state[s]
    BY <1>3 DEF Kept
  <2> QED
    BY <1>1, <1>3, <2>1, <2>2, SharedKept DEF MemInv
<1>10. UpdateInv'
  BY <1>1, <1>2, UpdateGoes DEF MemInv
<1> QED
  BY <1>1, <1>8, <1>9, <1>10, Fixed DEF MemInv

----------------------------------------------------------------------------
(* A prompt comes to the batch.                                             *)

First(s) == Len(Kept(s))
New(s)   == SubSeq(Task[task[s]].tokens, First(s) + 1, PromptEnd(s))
Begun(s) == IF NShared(s) > 0 /\ First(s) = NShared(s) THEN WaitingChildren(s) ELSE {}

LEMMA AddPromptIs ==
    ASSUME Typed, NEW s \in Slots, AddPrompt(s)
    PROVE  /\ conf' = conf /\ UNCHANGED taskVars /\ task' = task /\ UNCHANGED decodeVars /\ Advance(s, "decode")
           /\ PromptPending(s) /\ pc = "prompts" /\ at = s /\ state[s] \in {"STARTED", "PROCESSING_PROMPT"}
           /\ state[s] = "STARTED" => NTokens(s) > 0 /\ ~CacheGone(s)
           /\ batch' = batch \o Entries(s, New(s), First(s))
           /\ kv'[s] = Truncated(s) /\ prompt'[s] = Kept(s) \o New(s)
           /\ state'[s] = IF PromptEnd(s) = NTokens(s) THEN "DONE_PROMPT" ELSE "PROCESSING_PROMPT"
           /\ PromptEnd(s) = NTokens(s) => i_batch'[s] = Len(batch')
           /\ \A c \in Begun(s) : /\ c \in Slots \ {s} /\ state[c] = "WAIT_OTHER" /\ state'[c] = "STARTED"
                                   /\ kv'[c] = Truncated(s) /\ prompt'[c] = Kept(s)
           /\ \A c \in Slots \ {s} : c \in Begun(s) \/ Still(c)
<1> DEFINE done == PromptEnd(s) = NTokens(s)
           X == Begun(s)
<1>1. /\ conf' = conf /\ UNCHANGED taskVars /\ task' = task /\ UNCHANGED decodeVars /\ Advance(s, "decode")
      /\ PromptPending(s) /\ pc = "prompts" /\ at = s /\ state[s] \in {"STARTED", "PROCESSING_PROMPT"}
      /\ state[s] = "STARTED" => NTokens(s) > 0 /\ ~CacheGone(s)
  BY DEF AddPrompt, PromptReady, PromptPending, Walk, taskVars
<1>2. /\ batch' = batch \o Entries(s, New(s), First(s))
      /\ kv' = [c \in Slots |-> IF c \in X \cup {s} THEN Truncated(s) ELSE kv[c]]
      /\ prompt' = [c \in Slots |-> IF c = s THEN Kept(s) \o New(s)
                                    ELSE IF c \in X THEN Kept(s) ELSE prompt[c]]
      /\ state' = [c \in Slots |->
                      IF c = s THEN (IF done THEN "DONE_PROMPT" ELSE "PROCESSING_PROMPT")
                      ELSE IF c \in X THEN "STARTED" ELSE state[c]]
      /\ i_batch' = IF done THEN [i_batch EXCEPT ![s] = Len(batch')] ELSE i_batch
  BY Zenon DEF AddPrompt, First, New, Begun
<1>3. \A c \in X : c \in Slots /\ state[c] = "WAIT_OTHER" /\ c # s
  BY <1>1 DEF Begun, WaitingChildren
<1>4. i_batch \in [Slots -> Nat]
  BY DEF Typed, TypedSlots
<1> HIDE DEF done, X
<1>5. /\ kv'[s] = Truncated(s) /\ prompt'[s] = Kept(s) \o New(s)
      /\ state'[s] = IF done THEN "DONE_PROMPT" ELSE "PROCESSING_PROMPT"
  BY <1>2
<1>6. /\ done => i_batch'[s] = Len(batch')
      /\ \A c \in Slots \ {s} : i_batch'[c] = i_batch[c]
  <2>1. PICK n : n = Len(batch')
    OBVIOUS
  <2>2. i_batch' = IF done THEN [i_batch EXCEPT ![s] = n] ELSE i_batch
    BY <1>2, <2>1
  <2> QED
    BY <1>4, <2>1, <2>2
<1>7. \A c \in X : state'[c] = "STARTED" /\ kv'[c] = Truncated(s) /\ prompt'[c] = Kept(s)
  BY <1>2, <1>3
<1>8. \A c \in Slots \ {s} : c \notin X => state'[c] = state[c] /\ kv'[c] = kv[c] /\ prompt'[c] = prompt[c]
  BY <1>2
<1> QED
  BY <1>1, <1>2, <1>3, <1>5, <1>6, <1>7, <1>8 DEF done, X, Still

(* How far it gets.                                                         *)
LEMMA NewIs ==
    ASSUME Typed, MemInv, NEW s \in Slots, AddPrompt(s)
    PROVE  /\ Kept(s) \in Seq(Nat) /\ First(s) \in Nat /\ First(s) < NTokens(s) /\ First(s) <= Len(prompt[s])
           /\ New(s) \in Seq(Nat) /\ First(s) + Len(New(s)) = PromptEnd(s)
           /\ PromptEnd(s) \in Nat /\ NTokens(s) \in Nat /\ PromptEnd(s) <= NTokens(s)
           /\ Len(batch) + Len(New(s)) <= conf.n_batch
           /\ Kept(s) \o New(s) \in Seq(Nat) /\ Len(Kept(s) \o New(s)) = PromptEnd(s)
           /\ \A i \in 1 .. First(s) : Kept(s)[i] = prompt[s][i]
<1>1. /\ PromptPending(s) /\ state[s] \in {"STARTED", "PROCESSING_PROMPT"}
      /\ state[s] = "STARTED" => NTokens(s) > 0
  BY AddPromptIs
<1>2. /\ Kept(s) \in Seq(Nat) /\ First(s) \in Nat /\ First(s) <= Len(prompt[s])
      /\ \A i \in 1 .. First(s) : Kept(s)[i] = prompt[s][i]
      /\ state[s] = "STARTED" => First(s) = NPast(s)
      /\ state[s] # "STARTED" => Kept(s) = prompt[s]
  BY <1>1, KeptIs DEF First
<1>3. NTokens(s) \in Nat /\ Task[task[s]].tokens \in Seq(Nat) /\ NTokens(s) = Len(Task[task[s]].tokens)
  BY <1>1, BusyTask DEF NTokens
<1>4. First(s) < NTokens(s)
  <2>1. CASE state[s] = "STARTED"
    BY <1>1, <1>2, <2>1, NPastIs
  <2>2. CASE state[s] = "PROCESSING_PROMPT"
    BY <1>2, <2>2 DEF MemInv, SlotMem, SampleInv, First
  <2> QED
    BY <1>1, <2>1, <2>2
<1>5. /\ PromptEnd(s) \in Nat /\ PromptEnd(s) <= NTokens(s)
      /\ PromptEnd(s) <= First(s) + conf.n_batch - Len(batch)
      /\ First(s) <= NTokens(s) => First(s) <= PromptEnd(s)
  BY <1>1, PromptEndIs DEF First
<1>6. New(s) \in Seq(Nat) /\ Len(New(s)) = PromptEnd(s) - First(s)
  <2>1. PICK n \in Nat, k \in Nat : n = First(s) /\ k = PromptEnd(s)
    BY <1>2, <1>5
  <2>2. New(s) = SubSeq(Task[task[s]].tokens, n + 1, k) /\ n + 1 \in Nat \ {0}
    BY <2>1 DEF New
  <2>3. k <= Len(Task[task[s]].tokens) /\ n <= k
    BY <1>3, <1>4, <1>5, <1>2, <2>1
  <2>4. PICK m \in Nat \ {0}, q \in Seq(Nat) : m = n + 1 /\ q = Task[task[s]].tokens
    BY <1>3, <2>2
  <2>5. New(s) = SubSeq(q, m, k) /\ k <= Len(q)
    BY <2>2, <2>3, <2>4
  <2>6. New(s) \in Seq(Nat) /\ Len(New(s)) = IF m <= k THEN k - m + 1 ELSE 0
    BY <2>5, PartOf
  <2>7. (IF m <= k THEN k - m + 1 ELSE 0) = k - n
    BY <2>3, <2>4
  <2> QED
    BY <2>1, <2>6, <2>7
<1>7. Len(batch) \in Nat /\ conf.n_batch \in Nat
  BY QueueIs, ConfTyped DEF Typed, TypedWalk
<1>8. First(s) + Len(New(s)) = PromptEnd(s) /\ Len(batch) + Len(New(s)) <= conf.n_batch
  BY <1>2, <1>5, <1>6, <1>7
<1>9. Kept(s) \o New(s) \in Seq(Nat) /\ Len(Kept(s) \o New(s)) = PromptEnd(s)
  <2>1. Kept(s) \o New(s) \in Seq(Nat) /\ Len(Kept(s) \o New(s)) = First(s) + Len(New(s))
    BY <1>2, <1>6, Joined DEF First
  <2> QED
    BY <1>8, <2>1
<1> QED
  BY <1>2, <1>3, <1>4, <1>5, <1>6, <1>8, <1>9

(* What is kept of the cached prompt is in the memory.                      *)
LEMMA KeptInMemory ==
    ASSUME Typed, MemInv, NEW s \in Slots, AddPrompt(s)
    PROVE  /\ kv[s] \in Cells /\ Closed(kv[s]) /\ Matches(kv[s], Kept(s))
           /\ Kept(s) # <<>> => DOMAIN kv[s] # {}
           /\ ~conf.throws => \A p \in 0 .. Len(Kept(s)) - 1 : p \in DOMAIN kv[s]
           /\ DOMAIN Queue(s) = {} /\ Decoded = 0
<1>1. /\ PromptPending(s) /\ state[s] \in {"STARTED", "PROCESSING_PROMPT"}
      /\ state[s] = "STARTED" => ~CacheGone(s)
  BY AddPromptIs
<1>2. DOMAIN Queue(s) = {} /\ Decoded = 0
  BY <1>1, PendingEmpty
<1>3. Good(Queue(s), kv[s], prompt[s], state[s], conf.throws)
  BY DEF MemInv, SlotMem, SlotGood
<1>4. /\ Kept(s) \in Seq(Nat) /\ First(s) \in Nat /\ First(s) <= Len(prompt[s])
      /\ \A i \in 1 .. First(s) : Kept(s)[i] = prompt[s][i]
      /\ kv[s] \in Cells /\ Len(prompt[s]) \in Nat
  BY NewIs DEF Typed, TypedCache
<1>5. Closed(kv[s]) /\ Matches(kv[s], prompt[s]) /\ DOMAIN kv[s] \subseteq Nat
  BY <1>3, <1>4, GoodClosed, CellsAre
<1>6. Matches(kv[s], Kept(s))
  <2> SUFFICES ASSUME NEW p \in DOMAIN kv[s], p < Len(Kept(s)) PROVE kv[s][p].token = Kept(s)[p + 1]
    BY DEF Matches
  <2>1. p \in Nat /\ p < First(s)
    BY <1>5 DEF First
  <2>2. p + 1 \in 1 .. First(s) /\ p < Len(prompt[s])
    BY <1>4, <2>1
  <2> QED
    BY <1>4, <1>5, <2>2 DEF Matches
<1>7. Kept(s) # <<>> => DOMAIN kv[s] # {}
  <2> SUFFICES ASSUME Kept(s) # <<>>, DOMAIN kv[s] = {} PROVE FALSE
    OBVIOUS
  <2>1. First(s) > 0
    <3> HIDE DEF Kept
    <3> QED
      BY <1>4 DEF First
  <2>2. kv[s] = NoCells
    BY <1>4, CellsAre
  <2>3. CASE state[s] = "STARTED"
    <3>1. First(s) = NPast(s) /\ Common(s) \in Nat /\ NPast(s) <= Common(s)
          /\ (~CanSplit(task[s]) => NPast(s) = 0)
      BY <1>1, <2>3, KeptIs, NPastIs, CommonIs DEF First
    <3>2. CanSplit(task[s]) /\ Common(s) > 0
      BY <1>4, <2>1, <3>1
    <3> QED
      BY <1>1, <2>2, <2>3, <3>2 DEF CacheGone
  <2>4. CASE state[s] = "PROCESSING_PROMPT"
    <3>1. prompt[s] # <<>>
      BY <2>4 DEF Kept
    <3> QED
      BY <1>2, <1>3, <2>4, <3>1 DEF Good, Active
  <2> QED
    BY <1>1, <2>3, <2>4
<1>8. ~conf.throws => \A p \in 0 .. Len(Kept(s)) - 1 : p \in DOMAIN kv[s]
  <2> SUFFICES ASSUME ~conf.throws, NEW p \in 0 .. First(s) - 1 PROVE p \in DOMAIN kv[s]
    BY DEF First
  <2>1. p \in 0 .. Len(prompt[s]) - 1
    BY <1>4
  <2> QED
    BY <1>2, <1>3, <2>1 DEF Good, Covered
<1> QED
  BY <1>2, <1>4, <1>5, <1>6, <1>7, <1>8

LEMMA AddPromptGoes ==
    ASSUME Typed, Typed', MemInv, NEW s \in Slots, AddPrompt(s)
    PROVE  /\ Goes(s)
           /\ pc' = "prompts" => s < at'
           /\ pc' # "aborted" /\ Start(s)' = 0 /\ Decoded' = 0
           /\ Len(batch) \in Nat /\ Len(batch') = Len(batch) + Len(New(s))
           /\ DOMAIN batch' = 1 .. Len(batch) + Len(New(s)) /\ Len(batch') <= conf.n_batch
           /\ \A t \in Slots \ {s} : Extends(t)
           /\ DOMAIN Queue(s)' = Len(batch) + 1 .. Len(batch) + Len(New(s))
           /\ \A i \in 1 .. Len(New(s)) : /\ Queue(s)'[Len(batch) + i].pos = First(s) + i - 1
                                          /\ Queue(s)'[Len(batch) + i].token = New(s)[i]
                                          /\ batch'[Len(batch) + i].pos = First(s) + i - 1
                                          /\ batch'[Len(batch) + i].slot = s
<1>1. /\ conf' = conf /\ UNCHANGED decodeVars /\ Advance(s, "decode") /\ pc = "prompts" /\ at = s
      /\ batch' = batch \o Entries(s, New(s), First(s))
  BY AddPromptIs
<1>2. New(s) \in Seq(Nat) /\ First(s) \in Nat /\ Len(batch) + Len(New(s)) <= conf.n_batch
  BY NewIs
<1>3. DOMAIN Queue(s) = {} /\ Decoded = 0 /\ off = 0
  BY <1>1, KeptInMemory DEF MemInv, UpdateInv
<1>4. Decoded' = 0 /\ pc' # "aborted" /\ Start(s)' = 0
  BY <1>1, <1>3 DEF Decoded, Advance, decodeVars, Start
<1>5. /\ Len(batch) \in Nat /\ Len(batch') = Len(batch) + Len(New(s))
      /\ DOMAIN batch' = 1 .. Len(batch) + Len(New(s))
      /\ \A t \in Slots \ {s} : Extends(t)
      /\ DOMAIN Queue(s)' = Len(batch) + 1 .. Len(batch) + Len(New(s))
      /\ \A i \in 1 .. Len(New(s)) : /\ Queue(s)'[Len(batch) + i].pos = First(s) + i - 1
                                     /\ Queue(s)'[Len(batch) + i].token = New(s)[i]
                                     /\ batch'[Len(batch) + i].pos = First(s) + i - 1
                                     /\ batch'[Len(batch) + i].slot = s
  BY <1>1, <1>2, <1>3, <1>4, Added, ZenonT(30)
<1>6. Len(batch') <= conf.n_batch
  BY <1>2, <1>5, Zenon
<1>7. Goes(s)
  BY <1>1, <1>6, Walks DEF MemInv
<1>8. pc' = "prompts" => s < at'
  BY <1>1, SlotsTyped DEF Advance, Typed, TypedWalk
<1> QED
  BY <1>4, <1>5, <1>6, <1>7, <1>8

LEMMA AddedOwn ==
    ASSUME Typed, Typed', MemInv, NEW s \in Slots, AddPrompt(s)
    PROVE  SlotMem(s)'
<1> DEFINE m == Len(batch)
           n == Len(New(s))
           done == PromptEnd(s) = NTokens(s)
<1>1. /\ conf' = conf /\ task' = task
      /\ kv'[s] = SeqRm(kv[s], Len(Kept(s))) /\ prompt'[s] = Kept(s) \o New(s)
      /\ state'[s] = IF done THEN "DONE_PROMPT" ELSE "PROCESSING_PROMPT"
      /\ done => i_batch'[s] = Len(batch')
  BY AddPromptIs DEF Truncated
<1>2. /\ Kept(s) \in Seq(Nat) /\ First(s) \in Nat /\ First(s) < NTokens(s)
      /\ New(s) \in Seq(Nat) /\ n \in Nat /\ First(s) + n = PromptEnd(s)
      /\ PromptEnd(s) \in Nat /\ NTokens(s) \in Nat /\ PromptEnd(s) <= NTokens(s)
      /\ prompt'[s] \in Seq(Nat) /\ Len(prompt'[s]) = PromptEnd(s)
  <2>1. New(s) \in Seq(Nat)
    BY NewIs
  <2>2. Len(New(s)) \in Nat
    BY <2>1
  <2> QED
    BY <1>1, <2>2, NewIs
<1>3. /\ kv[s] \in Cells /\ Closed(kv[s]) /\ Matches(kv[s], Kept(s))
      /\ Kept(s) # <<>> => DOMAIN kv[s] # {}
      /\ ~conf.throws => \A p \in 0 .. Len(Kept(s)) - 1 : p \in DOMAIN kv[s]
  BY KeptInMemory
<1>4. /\ m \in Nat /\ Len(batch') = m + n /\ DOMAIN batch' = 1 .. m + n /\ Len(batch') <= conf.n_batch
      /\ DOMAIN Queue(s)' = m + 1 .. m + n
      /\ pc' = "prompts" => s < at'
      /\ Goes(s) /\ pc' # "aborted" /\ Start(s)' = 0
  BY AddPromptGoes
<1>5. \A i \in 1 .. n : /\ Queue(s)'[m + i].pos = First(s) + i - 1
                        /\ Queue(s)'[m + i].token = New(s)[i]
                        /\ batch'[m + i].pos = First(s) + i - 1
                        /\ batch'[m + i].slot = s
  BY AddPromptGoes
<1> HIDE DEF m
<1>6. done => n # 0 /\ New(s) # <<>>
  <2>1. New(s) = <<>> => n = 0
    OBVIOUS
  <2> HIDE DEF n
  <2> QED
    BY <1>2, <2>1
<1>7. Good(Queue(s)', kv'[s], prompt'[s], state'[s], conf.throws)
  <2>1. PICK F : F = Queue(s)'
    OBVIOUS
  <2>2. /\ DOMAIN F = m + 1 .. m + Len(New(s))
        /\ \A i \in 1 .. Len(New(s)) : F[m + i].pos = Len(Kept(s)) + i - 1 /\ F[m + i].token = New(s)[i]
    BY <1>4, <1>5, <2>1 DEF First
  <2>3. PICK st : st = state'[s] /\ (st = "PROCESSING_PROMPT" \/ (st = "DONE_PROMPT" /\ New(s) # <<>>))
    BY <1>1, <1>6
  <2>4. Good(F, SeqRm(kv[s], Len(Kept(s))), Kept(s) \o New(s), st, conf.throws)
    BY <1>2, <1>3, <1>4, <2>2, <2>3, GoodExtended
  <2> QED
    BY <1>1, <2>1, <2>3, <2>4
<1>8. SlotGood(s)'
  BY <1>1, <1>7 DEF SlotGood
<1> HIDE DEF n
<1>9. Timing(s)'
  <2>1. pc' # "generate"
    BY <1>4, AddPromptIs DEF Goes
  <2>2. ASSUME state'[s] \in Sampled, NEW i \in DOMAIN Queue(s)' PROVE i <= i_batch'[s]
    <3>1. done
      BY <1>1, <2>2 DEF Sampled
    <3>2. i_batch'[s] = m + n
      BY <1>1, <1>4, <3>1
    <3> QED
      BY <1>4, <3>2
  <2> QED
    BY <1>1, <1>4, <2>1, <2>2 DEF Timing
<1>10. SampleInv(s)'
  <2>1. NTokens(s)' = NTokens(s)
    BY <1>1 DEF NTokens, Task
  <2>2. CASE done
    <3>1. n >= 1 /\ n \in 1 .. n /\ m + n \in 1 .. m + n /\ m + n > 0 /\ First(s) + n - 1 = PromptEnd(s) - 1
      BY <1>2, <1>4, <1>6, <2>2
    <3>2. i_batch'[s] = m + n
      BY <1>1, <1>4, <2>2
    <3>3. batch'[m + n].pos = First(s) + n - 1 /\ batch'[m + n].slot = s
      BY <1>5, <3>1
    <3>4. Ready(s)'
      BY <1>2, <1>4, <3>1, <3>2, <3>3 DEF Ready
    <3> QED
      BY <1>1, <2>2, <3>4 DEF SampleInv
  <2>3. CASE ~done
    <3>1. Len(prompt'[s]) < NTokens(s)'
      BY <1>2, <2>1, <2>3
    <3> QED
      BY <1>1, <2>3, <3>1 DEF SampleInv
  <2> QED
    BY <2>2, <2>3
<1> QED
  BY <1>8, <1>9, <1>10 DEF SlotMem

LEMMA AddedShared ==
    ASSUME Typed, Typed', MemInv, NEW s \in Slots, AddPrompt(s)
    PROVE  SharedInv'
<1>1. /\ conf' = conf /\ task' = task
      /\ state[s] \in {"STARTED", "PROCESSING_PROMPT"} /\ PromptPending(s)
      /\ state'[s] = IF PromptEnd(s) = NTokens(s) THEN "DONE_PROMPT" ELSE "PROCESSING_PROMPT"
      /\ \A c \in Begun(s) : state'[c] = "STARTED"
      /\ \A c \in Slots \ {s} : c \in Begun(s) \/ Still(c)
  BY AddPromptIs
<1>2. ASSUME Waited(s)
      PROVE  state'[s] = "PROCESSING_PROMPT" /\ Len(prompt'[s]) <= NShared(s)
  <2>1. PICK c \in WaitingChildren(s) : state'[c] = "WAIT_OTHER"
    BY <1>2 DEF Waited
  <2>2. c \in Slots /\ state[c] = "WAIT_OTHER" /\ Task[task[c]].parent = task[s] /\ NShared(s) > 0
    BY <1>2, <2>1 DEF WaitingChildren, Waited
  <2>3. /\ IsChild(task[c])
        /\ state[s] \in Active => state[s] = "PROCESSING_PROMPT" /\ Len(prompt[s]) <= NShared(s)
    BY <2>2 DEF MemInv, SharedInv
  <2>4. /\ First(s) \in Nat /\ First(s) <= Len(prompt[s]) /\ Len(prompt[s]) \in Nat /\ NShared(s) \in Nat
        /\ PromptEnd(s) \in Nat /\ NTokens(s) \in Nat
    BY <1>1, NewIs, BusyTask DEF Typed, TypedCache
  <2>5. First(s) # NShared(s)
    BY <1>1, <2>1, <2>2 DEF Begun
  <2>6. First(s) <= NShared(s)
    <3>1. CASE state[s] = "STARTED"
      <4>1. First(s) = NPast(s) /\ NPast(s) <= Common(s) /\ Common(s) <= NShared(s)
            /\ NPast(s) \in Nat /\ Common(s) \in Nat
        BY <2>2, <3>1, KeptIs, NPastIs, CommonIs DEF First
      <4> QED
        BY <2>4, <4>1
    <3>2. CASE state[s] = "PROCESSING_PROMPT"
      BY <2>3, <2>4, <3>2 DEF Active
    <3> QED
      BY <1>1, <3>1, <3>2
  <2>7. PromptEnd(s) <= NShared(s)
    <3>1. NShared(s) > Len(Kept(s)) /\ WaitingChildren(s) # {}
      BY <2>1, <2>4, <2>5, <2>6 DEF First
    <3> QED
      BY <1>1, <3>1, PromptEndIs
  <2>8. NShared(s) < NTokens(s)
    <3>1. task[c] \in Posted /\ conf \in Confs
      BY <2>2, BusyTask DEF Typed, TypedWalk
    <3>2. IsChildOf(Task[task[c]], Task[task[s]])
      BY <2>2, <2>3, <3>1, ParentPosted
    <3>3. Task[task[s]].n_tokens_shared # 0
      BY <2>2, <2>4 DEF NShared
    <3> QED
      BY <3>2, <3>3 DEF IsChildOf, NShared, NTokens
  <2>9. PromptEnd(s) # NTokens(s)
    BY <2>4, <2>7, <2>8
  <2>10. Len(prompt'[s]) = PromptEnd(s)
    BY NewIs, AddPromptIs
  <2> QED
    BY <1>1, <2>7, <2>9, <2>10
<1>3. \A c \in Slots : state'[c] = "WAIT_OTHER" => state[c] = "WAIT_OTHER" /\ task'[c] = task[c]
  BY <1>1 DEF Still
<1>4. \A t \in Slots \ {s} : state'[t] \in Active => state'[t] = state[t] /\ prompt'[t] = prompt[t]
  BY <1>1 DEF Still, Active, Sampled
<1> QED
  BY <1>1, <1>2, <1>3, <1>4, SharedKept DEF MemInv

LEMMA MemAdded ==
    ASSUME Typed, Typed', MemInv, NEW s \in Slots, AddPrompt(s)
    PROVE  MemInv'
<1>1. /\ conf' = conf
      /\ \A c \in Begun(s) : /\ c \in Slots \ {s} /\ state[c] = "WAIT_OTHER" /\ state'[c] = "STARTED"
                             /\ kv'[c] = SeqRm(kv[s], Len(Kept(s))) /\ prompt'[c] = Kept(s)
      /\ \A c \in Slots \ {s} : c \in Begun(s) \/ Still(c)
  BY AddPromptIs DEF Truncated
<1>2. Goes(s) /\ pc' # "aborted" /\ Decoded' = 0 /\ \A t \in Slots \ {s} : Extends(t)
  BY AddPromptGoes
<1>3. ASSUME NEW c \in Begun(s) PROVE SlotMem(c)'
  <2>1. c \in Slots /\ c # s /\ state[c] = "WAIT_OTHER" /\ Extends(c)
    BY <1>1, <1>2
  <2>2. DOMAIN Queue(c) = {}
    BY <2>1 DEF MemInv, SlotMem, SlotGood, Good, Active, Sampled
  <2>3. DOMAIN Queue(c)' = {}
    <3>1. Decoded' = Decoded
      BY <1>2, KeptInMemory
    <3> QED
      BY <2>1, <2>2, <3>1, QueueSame
  <2>4. Good(Queue(c)', SeqRm(kv[s], Len(Kept(s))), Kept(s), "STARTED", conf.throws)
    <3>1. PICK F : F = Queue(c)'
      OBVIOUS
    <3>2. DOMAIN F = {} /\ Kept(s) \in Seq(Nat)
      BY <2>3, <3>1, NewIs
    <3>3. Good(F, SeqRm(kv[s], Len(Kept(s))), Kept(s), "STARTED", conf.throws)
      BY <3>2, KeptInMemory, GoodShared
    <3> QED
      BY <3>1, <3>3
  <2>5. SlotGood(c)'
    BY <1>1, <2>4 DEF SlotGood
  <2>6. Timing(c)' /\ SampleInv(c)'
    BY <1>1, <2>3 DEF Timing, SampleInv
  <2> QED
    BY <2>5, <2>6 DEF SlotMem
<1>4. \A t \in Slots : SlotMem(t)'
  BY <1>1, <1>2, <1>3, AddedOwn, SlotPassed DEF MemInv
<1>5. UpdateInv'
  BY <1>1, <1>2, UpdateGoes DEF MemInv
<1> QED
  BY <1>1, <1>4, <1>5, AddedShared, Fixed DEF MemInv

LEMMA MemWalk ==
    ASSUME Typed, Typed', MemInv, NEW s \in Slots, WalkStep(s)
    PROVE  MemInv'
BY MemLeft, MemRefused, MemShifted, MemSampled, MemPostponed, MemAdded DEF WalkStep

----------------------------------------------------------------------------
(* Between two updates.                                                     *)

LEMMA QueueEmptyThen ==
    ASSUME Typed', conf' = conf, pc' = "tasks" \/ batch' = <<>>, NEW s \in Slots
    PROVE  DOMAIN Queue(s)' = {}
<1>1. /\ DOMAIN Queue(s)' = {i \in DOMAIN batch' : i > Decoded' /\ batch'[i].slot = s}
      /\ DOMAIN batch' = 1 .. Len(batch') /\ Len(batch') \in Nat
  BY QueueIsThen
<1>2. CASE pc' = "tasks"
  <2>1. Decoded' = Len(batch')
    BY <1>2 DEF Decoded
  <2>2. \A i \in DOMAIN batch' : ~(i > Decoded')
    BY <1>1, <2>1
  <2> QED
    BY <1>1, <2>2
<1>3. CASE batch' = <<>>
  <2>1. DOMAIN batch' = {}
    BY <1>3
  <2> QED
    BY <1>1, <2>1
<1> QED
  BY <1>2, <1>3

(* Slots are left alone, or have their cache kept or emptied.               *)
LEMMA MemTasks ==
    ASSUME Typed, Typed', MemInv, conf' = conf, pc = "tasks", pc' = pc, UNCHANGED batchVars, UNCHANGED decodeVars,
           \A t \in Slots :
              \/ Still(t)
              \/ /\ state'[t] \notin Active
                 /\ \/ prompt'[t] = prompt[t] /\ kv'[t] = kv[t]
                    \/ prompt'[t] = <<>> /\ (kv'[t] = NoCells \/ kv'[t] = kv[t]),
           SharedInv'
    PROVE  MemInv'
<1>1. \A t \in Slots : DOMAIN Queue(t) = {} /\ DOMAIN Queue(t)' = {}
  BY NothingQueued, QueueEmptyThen
<1>2. \A t \in Slots : SlotMem(t)'
  BY <1>1, SlotWaits, SlotEmptied DEF MemInv, SlotMem
<1>3. UpdateInv'
  BY DEF MemInv, UpdateInv, batchVars, decodeVars
<1> QED
  BY <1>2, <1>3, Fixed DEF MemInv

LEMMA MemSame ==
    ASSUME Typed, Typed', MemInv, SetLora \/ \E r \in Posted : Stop(r)
    PROVE  MemInv'
<1>1. /\ conf' = conf /\ pc = "tasks" /\ pc' = pc /\ UNCHANGED batchVars /\ UNCHANGED decodeVars
      /\ UNCHANGED slotVars
  BY DEF SetLora, Stop
<1>2. \A t \in Slots : Still(t)
  BY <1>1 DEF Still, slotVars
<1>3. SharedInv'
  BY <1>1, <1>2, SharedFrame DEF MemInv
<1> QED
  BY <1>1, <1>2, <1>3, MemTasks

LEMMA MemCancelled ==
    ASSUME Typed, Typed', MemInv, NEW s \in Slots, Cancel(s)
    PROVE  MemInv'
<1>1. conf' = conf /\ pc = "tasks" /\ pc' = pc /\ UNCHANGED batchVars /\ UNCHANGED decodeVars /\ Release({s})
  BY DEF Cancel, taskVars
<1>2. \A t \in Slots \ {s} : Still(t)
  BY <1>1 DEF Release, ReleaseState, Clear, Still
<1>3. /\ state'[s] = "IDLE"
      /\ (prompt'[s] = prompt[s] /\ kv'[s] = kv[s]) \/ (prompt'[s] = <<>> /\ kv'[s] = NoCells)
  BY <1>1 DEF Release, ReleaseState, Clear
<1>4. SharedInv'
  BY <1>1, <1>2, <1>3, SharedFrame DEF MemInv
<1>5. state'[s] \notin Active
  BY <1>3 DEF Active, Sampled
<1> QED
  BY <1>1, <1>2, <1>3, <1>4, <1>5, MemTasks

LEMMA MemLaunchFailed ==
    ASSUME Typed, Typed', MemInv, NEW r \in Posted, LaunchFails(r)
    PROVE  MemInv'
<1>1. /\ conf' = conf /\ pc = "tasks" /\ pc' = pc /\ UNCHANGED batchVars /\ UNCHANGED decodeVars
      /\ state' = state /\ task' = task /\ i_batch' = i_batch
  BY DEF LaunchFails, taskVars
<1>2. PICK s \in Idle, launched \in SUBSET Idle :
          /\ prompt' = [c \in Slots |-> IF c \in launched THEN <<>>
                                         ELSE IF c = s THEN KeptPrompt(s, r) ELSE prompt[c]]
          /\ kv' = [c \in Slots |-> IF c \in launched THEN NoCells ELSE kv[c]]
  BY DEF LaunchFails
<1>3. /\ \A t \in Slots \ Idle : Still(t)
      /\ \A t \in Idle : t \in Slots /\ state'[t] = "IDLE" /\ state[t] = "IDLE"
  BY <1>1, <1>2 DEF Still, Idle, Processing
<1>4. ASSUME NEW t \in Idle
      PROVE  \/ prompt'[t] = prompt[t] /\ kv'[t] = kv[t]
             \/ prompt'[t] = <<>> /\ (kv'[t] = NoCells \/ kv'[t] = kv[t])
  <2>1. KeptPrompt(s, r) = <<>> \/ KeptPrompt(s, r) = prompt[s]
    BY KeptPromptIs DEF Idle
  <2> QED
    BY <1>2, <1>3, <2>1
<1>5. SharedInv'
  BY <1>1, <1>3, SharedFrame DEF MemInv
<1>6. \A t \in Idle : state'[t] \notin Active
  BY <1>3 DEF Active, Sampled
<1> QED
  BY <1>1, <1>3, <1>4, <1>5, <1>6, MemTasks

LEMMA MemLaunched ==
    ASSUME Typed, Typed', TaskInv, MemInv, NEW r \in Posted, Launch(r)
    PROVE  MemInv'
<1>1. /\ conf' = conf /\ pc = "tasks" /\ pc' = pc /\ UNCHANGED batchVars /\ UNCHANGED decodeVars
      /\ i_batch' = i_batch /\ r \in waiting
  BY DEF Launch
<1>2. PICK taken, given : Starts(r, taken, given)
  BY LaunchIs
<1>3. /\ taken \subseteq Idle /\ Idle \subseteq Slots /\ \A t \in Idle : state[t] = "IDLE"
      /\ \A t \in Slots \ taken : /\ state'[t] = state[t] /\ task'[t] = task[t]
                                  /\ \/ prompt'[t] = prompt[t] /\ kv'[t] = kv[t]
                                     \/ prompt'[t] = <<>> /\ kv'[t] = NoCells /\ t \in Idle
      /\ \A t \in taken : /\ given[t] \in {r} \cup Children(r) /\ task'[t] = given[t]
                          /\ state'[t] = IF IsChild(given[t]) THEN "WAIT_OTHER" ELSE "STARTED"
                          /\ prompt'[t] = KeptPrompt(t, given[t]) /\ kv'[t] = kv[t]
  BY <1>2 DEF Starts, Idle, Processing
<1>4. ASSUME NEW t \in Slots
      PROVE  \/ Still(t)
             \/ /\ state'[t] \notin Active
                /\ \/ prompt'[t] = prompt[t] /\ kv'[t] = kv[t]
                   \/ prompt'[t] = <<>> /\ (kv'[t] = NoCells \/ kv'[t] = kv[t])
  <2>1. CASE t \in taken
    <3>1. KeptPrompt(t, given[t]) = <<>> \/ KeptPrompt(t, given[t]) = prompt[t]
      BY KeptPromptIs
    <3>2. state'[t] \notin Active
      BY <1>3, <2>1 DEF Active, Sampled
    <3> QED
      BY <1>3, <2>1, <3>1, <3>2
  <2>2. CASE t \notin taken
    BY <1>1, <1>3, <2>2 DEF Still, Active, Sampled
  <2> QED
    BY <2>1, <2>2
<1>5. SharedInv'
  <2>1. Slots' = Slots /\ Task' = Task
    BY <1>1, Fixed
  <2>2. SUFFICES ASSUME NEW c \in Slots, NEW s \in Slots, state'[c] = "WAIT_OTHER"
                 PROVE  /\ IsChild(task'[c])
                        /\ task'[s] = Task[task'[c]].parent /\ state'[s] \in Active /\ NShared(s)' > 0 =>
                              state'[s] = "PROCESSING_PROMPT" /\ Len(prompt'[s]) <= NShared(s)'
    BY <2>1 DEF SharedInv, IsChild
  <2>3. state'[s] \in Active => s \notin taken /\ Still(s) /\ state[s] \in Active
    BY <1>1, <1>3 DEF Active, Sampled, Still
  <2>4. NShared(s)' = NShared(s) \/ task'[s] # task[s]
    BY <2>1 DEF NShared
  <2>5. CASE c \in taken
    <3>1. IsChild(task'[c])
      BY <1>3, <2>2, <2>5
    <3>2. task'[c] \in Children(r)
      <4>1. ~IsChild(r)
        BY <1>1 DEF TaskInv, RequestInv
      <4> QED
        BY <1>3, <2>5, <3>1, <4>1
    <3>3. Task[task'[c]].parent = r
      BY <3>2 DEF Children
    <3>4. ~(task'[s] = r /\ state'[s] \in Active)
      <4> SUFFICES ASSUME task'[s] = r, state'[s] \in Active PROVE FALSE
        OBVIOUS
      <4>1. task[s] = r /\ r # NoRequest
        BY <2>3, ConfTyped DEF Still, Typed, TypedWalk
      <4>2. Root(r) \notin waiting
        BY <4>1 DEF TaskInv, HolderInv
      <4>3. Root(r) = r
        BY <1>1 DEF TaskInv, RequestInv, Root
      <4> QED
        BY <1>1, <4>2, <4>3
    <3> QED
      BY <3>1, <3>3, <3>4
  <2>6. CASE c \notin taken
    <3>1. state[c] = "WAIT_OTHER" /\ task'[c] = task[c]
      BY <1>3, <2>2, <2>6
    <3> QED
      BY <2>3, <2>4, <3>1 DEF MemInv, SharedInv, Still
  <2> QED
    BY <2>5, <2>6
<1> QED
  BY <1>1, <1>4, <1>5, MemTasks

LEMMA MemBegun ==
    ASSUME Typed, Typed', MemInv, BeginUpdate \/ EndUpdate
    PROVE  MemInv'
<1>1. /\ conf' = conf /\ UNCHANGED slotVars /\ pc' # "aborted" /\ (pc = "tasks" \/ pc' = "tasks")
      /\ pc = "tasks" \/ (pc = "decode" /\ off >= Len(batch) /\ UNCHANGED batchVars /\ UNCHANGED decodeVars)
      /\ pc' = "tasks" \/ (pc' = "shift" /\ batch' = <<>> /\ off' = 0 /\ n_batch' = conf.n_batch)
  BY DEF BeginUpdate, EndUpdate, taskVars
<1>2. \A t \in Slots : Still(t)
  BY <1>1 DEF Still, slotVars
<1>3. SharedInv'
  BY <1>1, <1>2, SharedFrame DEF MemInv
<1>4. \A t \in Slots : DOMAIN Queue(t)' = {}
  BY <1>1, QueueEmptyThen
<1>5. ASSUME NEW t \in Slots PROVE DOMAIN Queue(t) = {} /\ ~Ready(t)
  <2>1. DOMAIN batch = 1 .. Len(batch) /\ Len(batch) \in Nat /\ off \in Nat
    BY QueueIs DEF Typed, TypedBatch
  <2>2. CASE pc = "tasks"
    <3>1. ~Ready(t)
      BY <2>1, <2>2 DEF Ready, Start
    <3> QED
      BY <2>2, <3>1, NothingQueued
  <2>3. CASE pc = "decode" /\ off >= Len(batch)
    <3>1. \A i \in DOMAIN batch : ~(i > off)
      BY <2>1, <2>3
    <3>2. Decoded = off /\ Start(t) = off
      BY <2>3 DEF Decoded, Start
    <3> QED
      BY <3>1, <3>2, QueueIs DEF Ready
  <2> QED
    BY <1>1, <2>2, <2>3
<1>6. ASSUME NEW t \in Slots PROVE SlotMem(t)'
  <2>1. SlotGood(t)'
    <3>1. Good(Queue(t)', kv[t], prompt[t], state[t], conf.throws)
      BY <1>4, <1>5, GoodEmpty DEF MemInv, SlotMem, SlotGood
    <3> QED
      BY <1>1, <1>2, <3>1 DEF SlotGood, Still
  <2>2. Timing(t)'
    BY <1>4 DEF Timing
  <2>3. SampleInv(t)'
    <3>1. NTokens(t)' = NTokens(t)
      BY <1>1, <1>2 DEF NTokens, Task, Still
    <3> QED
      BY <1>2, <1>5, <3>1 DEF MemInv, SlotMem, SampleInv, Still
  <2> QED
    BY <2>1, <2>2, <2>3 DEF SlotMem
<1>7. UpdateInv'
  <2>1. UpdateInv /\ conf' = conf
    BY <1>1 DEF MemInv
  <2>2. CASE pc' = "tasks"
    <3>1. n_batch' = n_batch
      BY <1>1, <2>2 DEF BeginUpdate, EndUpdate, decodeVars
    <3> QED
      BY <2>1, <2>2, <3>1 DEF UpdateInv
  <2>3. CASE pc' = "shift" /\ batch' = <<>> /\ off' = 0 /\ n_batch' = conf.n_batch
    BY <2>1, <2>3 DEF UpdateInv
  <2> QED
    BY <1>1, <2>2, <2>3
<1> QED
  BY <1>1, <1>3, <1>6, <1>7, Fixed DEF MemInv

----------------------------------------------------------------------------
(* decode.                                                                  *)

(* The sub-batch that is computed.                                          *)
Rest(s) == [i \in {i \in DOMAIN Queue(s) : i > ViewEnd} |-> Queue(s)[i]]

LEMMA ComputedGood ==
    ASSUME Typed, MemInv, Decoding, NEW s \in Slots, Consistent(s)
    PROVE  Good(Rest(s), Computed[s], prompt[s], state[s], conf.throws)
<1> DEFINE E == Queue(s)
           c == Computed[s]
<1>1. /\ DOMAIN E = {i \in DOMAIN batch : i > off /\ batch[i].slot = s}
      /\ \A i \in DOMAIN E : E[i] = batch[i]
      /\ Queued(E)
  <2>1. Decoded = off
    BY DEF Decoding, Decoded
  <2> QED
    BY <2>1, QueueIs
<1>2. /\ c \in Cells /\ DOMAIN c = DOMAIN kv[s] \cup {e.pos : e \in ViewOf(s)}
      /\ \A p \in DOMAIN c : /\ (~\E e \in ViewOf(s) : e.pos = p) => c[p] = kv[s][p]
                             /\ (\E e \in ViewOf(s) : e.pos = p) =>
                                   \E e \in ViewOf(s) : e.pos = p /\ c[p].token = e.token
  BY ComputedIs
<1>3. /\ \A e \in ViewOf(s) : \E i \in DOMAIN E : i <= ViewEnd /\ e = E[i]
      /\ \A i \in DOMAIN E : i <= ViewEnd => E[i] \in ViewOf(s)
  BY <1>1, ViewOfIs
<1>4. kv[s] \in Cells /\ prompt[s] \in Seq(Nat) /\ ViewEnd \in Nat
  BY ViewIs DEF Typed, TypedCache
<1>5. Good(E, kv[s], prompt[s], state[s], conf.throws)
  BY DEF MemInv, SlotMem, SlotGood
<1> HIDE DEF E, c
<1>6. DOMAIN kv[s] # {} => \A i \in DOMAIN E : i <= ViewEnd => E[i].pos - 1 \in DOMAIN c
  <2> SUFFICES ASSUME DOMAIN kv[s] # {}, NEW i \in DOMAIN E, i <= ViewEnd PROVE E[i].pos - 1 \in DOMAIN c
    OBVIOUS
  <2>1. kv[s] # NoCells
    BY NoCellsTyped
  <2>2. \E p \in DOMAIN kv[s] \cup {f.pos : f \in ViewOf(s)} : p = E[i].pos - 1
    BY <1>3, <2>1 DEF Consistent
  <2> QED
    BY <1>2, <2>2
<1>7. \A p \in DOMAIN c : \/ p \in DOMAIN kv[s] /\ c[p] = kv[s][p]
                          \/ \E i \in DOMAIN E : i <= ViewEnd /\ E[i].pos = p /\ c[p].token = E[i].token
  <2> SUFFICES ASSUME NEW p \in DOMAIN c
               PROVE  \/ p \in DOMAIN kv[s] /\ c[p] = kv[s][p]
                      \/ \E i \in DOMAIN E : i <= ViewEnd /\ E[i].pos = p /\ c[p].token = E[i].token
    OBVIOUS
  <2>1. CASE \E e \in ViewOf(s) : e.pos = p
    <3>1. PICK e \in ViewOf(s) : e.pos = p /\ c[p].token = e.token
      BY <1>2, <2>1
    <3> QED
      BY <1>3, <3>1
  <2>2. CASE ~\E e \in ViewOf(s) : e.pos = p
    BY <1>2, <2>2
  <2> QED
    BY <2>1, <2>2
<1>8. /\ \A p \in DOMAIN kv[s] : p \in DOMAIN c
      /\ \A i \in DOMAIN E : i <= ViewEnd => E[i].pos \in DOMAIN c
  BY <1>2, <1>3
<1>9. DOMAIN Rest(s) = {i \in DOMAIN E : i > ViewEnd} /\ \A i \in DOMAIN Rest(s) : Rest(s)[i] = E[i]
  BY DEF Rest, E
<1>10. Good(Rest(s), c, prompt[s], state[s], conf.throws)
  <2>1. PICK E2, cells, tokens, m : E2 = Rest(s) /\ cells = kv[s] /\ tokens = prompt[s] /\ m = ViewEnd
    OBVIOUS
  <2>2. /\ Queued(E) /\ cells \in Cells /\ tokens \in Seq(Nat) /\ m \in Nat /\ c \in Cells
        /\ Good(E, cells, tokens, state[s], conf.throws)
    BY <1>1, <1>2, <1>4, <1>5, <2>1
  <2>3. DOMAIN E2 = {i \in DOMAIN E : i > m} /\ \A i \in DOMAIN E2 : E2[i] = E[i]
    BY <1>9, <2>1
  <2>4. /\ \A p \in DOMAIN cells : p \in DOMAIN c
        /\ \A i \in DOMAIN E : i <= m => E[i].pos \in DOMAIN c
    BY <1>8, <2>1
  <2>5. \A p \in DOMAIN c : \/ p \in DOMAIN cells /\ c[p] = cells[p]
                            \/ \E i \in DOMAIN E : i <= m /\ E[i].pos = p /\ c[p].token = E[i].token
    BY <1>7, <2>1
  <2>6. DOMAIN cells # {} => \A i \in DOMAIN E : i <= m => E[i].pos - 1 \in DOMAIN c
    BY <1>6, <2>1
  <2>7. Good(E2, c, tokens, state[s], conf.throws)
    BY <2>2, <2>3, <2>4, <2>5, <2>6, GoodDecoded
  <2> QED
    BY <2>1, <2>7
<1> QED
  BY <1>10 DEF c

(* An idle slot has nothing in the batch.                                   *)
LEMMA IdleEmpty ==
    ASSUME MemInv, NEW s \in Slots, state[s] \notin Active
    PROVE  DOMAIN Queue(s) = {}
BY DEF MemInv, SlotMem, SlotGood, Good

LEMMA MemRetried ==
    ASSUME Typed, Typed', MemInv, DecodeRetries
    PROVE  MemInv'
<1>1. /\ conf' = conf /\ conf.refills /\ pc = "decode" /\ pc' = pc /\ batch' = batch /\ off' = off /\ at' = at
      /\ state' = state /\ task' = task /\ i_batch' = i_batch
  BY DEF DecodeRetries, Decoding, taskVars, batchVars
<1>2. \A t \in Slots : Queue(t)' = Queue(t) /\ Decoded' = Decoded /\ Start(t)' = Start(t)
  <2>1. Decoded' = Decoded /\ \A t : Start(t)' = Start(t)
    BY <1>1 DEF Decoded, Start
  <2> QED
    BY <1>1, <2>1, ExtendsSame, QueueSame
<1>3. ASSUME NEW t \in Slots
      PROVE  \/ Still(t)
             \/ state[t] = "IDLE" /\ prompt'[t] = <<>> /\ kv'[t] = NoCells
  <2>1. CASE Purgeable # {}
    <3>1. Min(Purgeable) \in Purgeable
      <4>1. Purgeable \in SUBSET Nat
        BY SlotsTyped DEF Purgeable, Idle, Processing, Typed, TypedWalk
      <4> QED
        BY <2>1, <4>1, MinOf
    <3>2. Clear({Min(Purgeable)}) /\ state[Min(Purgeable)] = "IDLE"
      BY <2>1, <3>1 DEF DecodeRetries, Purgeable, Idle, Processing
    <3> QED
      BY <1>1, <3>2 DEF Clear, Still
  <2>2. CASE Purgeable = {}
    BY <1>1, <2>2 DEF DecodeRetries, Still
  <2> QED
    BY <2>1, <2>2
<1>4. ASSUME NEW t \in Slots PROVE SlotMem(t)'
  <2>1. CASE Still(t)
    <3>1. SlotGood(t)'
      BY <1>1, <1>2, <2>1 DEF MemInv, SlotMem, SlotGood, Still
    <3>2. Timing(t)'
      BY <1>1, <1>2, <2>1 DEF MemInv, SlotMem, Timing, Still
    <3>3. SampleInv(t)'
      <4>1. NTokens(t)' = NTokens(t) /\ IsChild(task[t])' = IsChild(task[t])
        BY <1>1, <2>1 DEF NTokens, Task, IsChild, Still
      <4>2. Ready(t) => Ready(t)'
        BY <1>1, <1>2, <2>1, <4>1 DEF Ready, Still
      <4> QED
        BY <2>1, <4>1, <4>2 DEF MemInv, SlotMem, SampleInv, Still
    <3> QED
      BY <3>1, <3>2, <3>3 DEF SlotMem
  <2>2. CASE state[t] = "IDLE" /\ prompt'[t] = <<>> /\ kv'[t] = NoCells
    <3>1. state[t] \notin Active /\ state'[t] \notin Active
      BY <1>1, <2>2 DEF Active, Sampled
    <3>2. DOMAIN Queue(t) = {} /\ DOMAIN Queue(t)' = {}
      BY <1>2, <3>1, IdleEmpty
    <3> QED
      BY <1>1, <2>2, <3>1, <3>2, SlotEmptied DEF MemInv, SlotMem
  <2> QED
    BY <1>3, <2>1, <2>2
<1>5. SharedInv'
  BY <1>1, <1>3, SharedFrame DEF MemInv
<1>6. UpdateInv'
  BY <1>1 DEF MemInv, UpdateInv
<1> QED
  BY <1>1, <1>4, <1>5, <1>6, Fixed DEF MemInv

(* Every slot is idle after an error.                                       *)
LEMMA MemAllIdle ==
    ASSUME Typed, Typed', MemInv, conf' = conf, pc' = "tasks", UNCHANGED decodeVars,
           \A t \in Slots : state'[t] = "IDLE",
           \A t \in Slots : \E st, E : st \notin Active /\ DOMAIN E = {} /\ Good(E, kv'[t], prompt'[t], st, conf.throws)
    PROVE  MemInv'
<1>1. \A t \in Slots : DOMAIN Queue(t)' = {}
  BY QueueEmptyThen
<1>2. ASSUME NEW t \in Slots PROVE SlotMem(t)'
  <2>1. PICK st, E : st \notin Active /\ DOMAIN E = {} /\ Good(E, kv'[t], prompt'[t], st, conf.throws)
    OBVIOUS
  <2>2. "IDLE" \notin Active
    BY DEF Active, Sampled
  <2>3. Good(Queue(t)', kv'[t], prompt'[t], "IDLE", conf.throws)
    BY <1>1, <2>1, <2>2, GoodLeft, GoodEmpty
  <2>4. SlotGood(t)'
    BY <2>3 DEF SlotGood
  <2>5. Timing(t)' /\ SampleInv(t)'
    BY <1>1 DEF Timing, SampleInv
  <2> QED
    BY <2>4, <2>5 DEF SlotMem
<1>3. SharedInv'
  BY SharedFrame DEF MemInv
<1>4. UpdateInv'
  BY DEF MemInv, UpdateInv, decodeVars
<1> QED
  BY <1>2, <1>3, <1>4, Fixed DEF MemInv

LEMMA GoodNone ==
    ASSUME NEW throws
    PROVE  \E st, E : st \notin Active /\ DOMAIN E = {} /\ Good(E, NoCells, <<>>, st, throws)
<1>1. Closed(NoCells) /\ NoCells \in Cells /\ DOMAIN NoCells = {}
  BY NoCellsTyped DEF Closed
<1>2. "IDLE" \notin Active /\ "IDLE" \notin Sampled
  BY DEF Active, Sampled
<1>3. Good(NoCells, NoCells, <<>>, "IDLE", throws)
  BY <1>1, <1>2, GoodForgotten
<1> QED
  BY <1>1, <1>2, <1>3

LEMMA MemFatal ==
    ASSUME Typed, Typed', MemInv, DecodeFatal
    PROVE  MemInv'
<1>1. /\ conf' = conf /\ pc' = "tasks" /\ UNCHANGED decodeVars
      /\ \A t \in Slots : state'[t] = "IDLE"
      /\ \A t \in Processing : prompt'[t] = <<>> /\ kv'[t] = NoCells
      /\ \A t \in Slots \ Processing : prompt'[t] = prompt[t] /\ kv'[t] = kv[t] /\ state[t] = "IDLE"
  BY DEF DecodeFatal, ReleaseState, Clear, FatalClears, Processing, taskVars
<1>2. ASSUME NEW t \in Slots
      PROVE  \E st, E : st \notin Active /\ DOMAIN E = {} /\ Good(E, kv'[t], prompt'[t], st, conf.throws)
  <2>1. CASE t \in Processing
    BY <1>1, <2>1, GoodNone
  <2>2. CASE t \notin Processing
    <3>1. state[t] \notin Active
      BY <1>1, <2>2 DEF Active, Sampled
    <3>2. Good(Queue(t), kv[t], prompt[t], state[t], conf.throws)
      BY DEF MemInv, SlotMem, SlotGood
    <3> QED
      BY <1>1, <2>2, <3>1, <3>2, IdleEmpty
  <2> QED
    BY <2>1, <2>2
<1> QED
  BY <1>1, <1>2, MemAllIdle

(* A cache that an exception may have left behind its slot's prompt.        *)
LEMMA GoodTorn ==
    ASSUME NEW cells, NEW tokens, Closed(cells), Matches(cells, tokens)
    PROVE  \E st, E : st \notin Active /\ DOMAIN E = {} /\ Good(E, cells, tokens, st, TRUE)
<1>1. "IDLE" \notin Active /\ "IDLE" \notin Sampled /\ "IDLE" # "PROCESSING_PROMPT" /\ DOMAIN NoCells = {}
  BY NoCellsTyped DEF Active, Sampled
<1>2. Continues(NoCells, cells, tokens)
  BY <1>1 DEF Continues
<1>3. Good(NoCells, cells, tokens, "IDLE", TRUE)
  BY <1>1, <1>2 DEF Good
<1> QED
  BY <1>1, <1>3

LEMMA MemThrown ==
    ASSUME Typed, Typed', MemInv, DecodeThrows
    PROVE  MemInv'
<1>1. /\ conf' = conf /\ pc' = "tasks" /\ UNCHANGED decodeVars /\ conf.throws /\ Decoding
      /\ \A t \in Slots : state'[t] = "IDLE"
  BY DEF DecodeThrows, ReleaseState, Processing, taskVars
<1>2. PICK cells \in {kv} \cup (IF \A c \in Slots : Consistent(c) THEN {Computed} ELSE {}) :
          kv' = [s \in Slots |-> IF s \in Processing /\ ClearedOnRelease(s) THEN NoCells ELSE cells[s]]
  BY DEF DecodeThrows
<1>3. prompt' = [s \in Slots |-> IF s \in Processing /\ ClearedOnRelease(s) THEN <<>> ELSE prompt[s]]
  BY DEF DecodeThrows
<1>4. conf.throws = TRUE
  <2>1. IsConf(conf)
    BY SlotBatchAssumption DEF Typed, TypedWalk
  <2>2. conf.throws \in BOOLEAN
    BY <2>1 DEF IsConf
  <2> QED
    BY <1>1, <2>2
<1>5. ASSUME NEW t \in Slots PROVE Closed(cells[t]) /\ Matches(cells[t], prompt[t])
  <2>1. CASE cells = kv
    BY <2>1, GoodClosed DEF MemInv, SlotMem, SlotGood
  <2>2. CASE (\A c \in Slots : Consistent(c)) /\ cells = Computed
    <3>1. Good(Rest(t), Computed[t], prompt[t], state[t], conf.throws)
      BY <1>1, <2>2, ComputedGood
    <3> QED
      BY <2>2, <3>1, GoodClosed
  <2> QED
    BY <1>2, <2>1, <2>2
<1>6. ASSUME NEW t \in Slots
      PROVE  \E st, E : st \notin Active /\ DOMAIN E = {} /\ Good(E, kv'[t], prompt'[t], st, conf.throws)
  <2>1. CASE t \in Processing /\ ClearedOnRelease(t)
    <3>1. kv'[t] = NoCells /\ prompt'[t] = <<>>
      BY <1>2, <1>3, <2>1
    <3> QED
      BY <3>1, GoodNone
  <2>2. CASE ~(t \in Processing /\ ClearedOnRelease(t))
    <3>1. kv'[t] = cells[t] /\ prompt'[t] = prompt[t]
      BY <1>2, <1>3, <2>2
    <3> QED
      BY <1>4, <1>5, <3>1, GoodTorn
  <2> QED
    BY <2>1, <2>2
<1> QED
  BY <1>1, <1>6, MemAllIdle

(* A child takes over a whole prompt: the retries of a decode, which may    *)
(* split a batch, only meet children that do not wait for a whole prompt.   *)
Whole == conf.refills => \A r \in Posted : IsChild(r) => Task[r].type = "DECISION"

LEMMA DecodeIs ==
    ASSUME Typed, DecodeSucceeds
    PROVE  /\ conf' = conf /\ pc = "decode" /\ pc' = "post" /\ at' = 1 /\ UNCHANGED decodeVars /\ batch' = batch
           /\ task' = task /\ Decoding /\ off < Len(batch) /\ \A t \in Slots : Consistent(t)
           /\ off < ViewEnd /\ ViewEnd <= Len(batch) /\ ViewEnd' = ViewEnd /\ Decoded = off /\ Decoded' = ViewEnd
           /\ \A t \in Slots : Start(t) = off /\ Start(t)' = off /\ Queue(t)' = Rest(t)
           /\ \A t \in Slots \ Activated : kv'[t] = Computed[t] /\ prompt'[t] = prompt[t]
                                           /\ i_batch'[t] = i_batch[t] /\ state'[t] = state[t]
           /\ \A c \in Activated : kv'[c] = Computed[Donor(c)] /\ prompt'[c] = prompt[Donor(c)]
                                   /\ i_batch'[c] = i_batch[Donor(c)] /\ state'[c] = "DONE_PROMPT"
<1>1. /\ conf' = conf /\ pc = "decode" /\ pc' = "post" /\ at' = 1 /\ UNCHANGED decodeVars /\ batch' = batch
      /\ task' = task /\ Decoding /\ off < Len(batch) /\ \A t \in Slots : Consistent(t)
  BY DEF DecodeSucceeds, Decoding, taskVars, batchVars
<1>2. off < ViewEnd /\ ViewEnd <= Len(batch) /\ ViewEnd \in Nat /\ off \in Nat
  BY <1>1, ViewIs DEF Typed, TypedBatch
<1>3. ViewEnd' = ViewEnd
  BY <1>1 DEF ViewEnd, decodeVars
<1>4. Decoded = off /\ Decoded' = ViewEnd
  BY <1>1, <1>3 DEF Decoded
<1>5. ASSUME NEW t \in Slots PROVE Start(t) = off /\ Start(t)' = off
  <2>1. t \in Nat /\ t >= 1
    BY SlotsTyped DEF Typed, TypedWalk
  <2> QED
    BY <1>1, <2>1 DEF Start, decodeVars
<1>6. ASSUME NEW t \in Slots PROVE Queue(t)' = Rest(t)
  <2> DEFINE A == {i \in DOMAIN batch : i > off /\ batch[i].slot = t}
             B == {i \in DOMAIN batch : i > ViewEnd /\ batch[i].slot = t}
  <2>1. Queue(t) = [i \in A |-> batch[i]]
    BY <1>4 DEF Queue
  <2>2. Queue(t)' = [i \in B |-> batch[i]]
    BY <1>1, <1>4 DEF Queue
  <2>3. \A i \in DOMAIN batch : i \in Nat
    BY EntryTyped
  <2>4. B = {i \in A : i > ViewEnd}
    BY <1>2, <2>3
  <2> HIDE DEF A, B
  <2>5. Rest(t) = [i \in B |-> batch[i]]
    BY <2>1, <2>4 DEF Rest
  <2> QED
    BY <2>2, <2>5
<1>7. \A c \in Activated : c \in Slots
  BY DEF Activated
<1>8. kv' = Copied(Computed) /\ prompt' = Copied(prompt) /\ i_batch' = Copied(i_batch)
      /\ state' = [c \in Slots |-> IF c \in Activated THEN "DONE_PROMPT" ELSE state[c]]
  BY DEF DecodeSucceeds, ComputedAndCopied
<1>9. \A f : Copied(f) = [c \in Slots |-> IF c \in Activated THEN f[Donor(c)] ELSE f[c]]
  BY CopiedIs
<1>10. /\ \A t \in Slots \ Activated : kv'[t] = Computed[t] /\ prompt'[t] = prompt[t]
                                       /\ i_batch'[t] = i_batch[t] /\ state'[t] = state[t]
       /\ \A c \in Activated : kv'[c] = Computed[Donor(c)] /\ prompt'[c] = prompt[Donor(c)]
                               /\ i_batch'[c] = i_batch[Donor(c)] /\ state'[c] = "DONE_PROMPT"
  BY <1>7, <1>8, <1>9
<1> QED
  BY <1>1, <1>2, <1>3, <1>4, <1>5, <1>6, <1>10

(* The whole prompt of a parent is in the sub-batch that activates its      *)
(* children, and what it samples from.                                      *)
LEMMA DonorReady ==
    ASSUME Typed, TaskInv, MemInv, Whole, DecodeSucceeds, NEW c \in Activated
    PROVE  /\ c \in Slots /\ state[c] = "WAIT_OTHER" /\ IsChild(task[c])
           /\ Donor(c) \in Slots /\ state[Donor(c)] = "DONE_PROMPT"
           /\ DOMAIN Rest(Donor(c)) = {} /\ i_batch[Donor(c)] <= ViewEnd
<1> DEFINE d == Donor(c)
<1>1. c \in Slots /\ state[c] = "WAIT_OTHER" /\ d \in Slots /\ task[d] = Task[task[c]].parent
  BY CopiedIs
<1>2. IsChild(task[c])
  BY <1>1 DEF MemInv, SharedInv
<1>3. task[c] \in Posted /\ conf \in Confs
  BY <1>1, BusyTask DEF Typed, TypedWalk
<1>4. task[d] # NoRequest /\ ~IsChild(task[d]) /\ IsChildOf(Task[task[c]], Task[task[d]])
  BY <1>1, <1>2, <1>3, ParentPosted, ConfTyped
<1>5. state[d] = "DONE_PROMPT"
  <2>1. PICK s \in Slots : state[s] = "DONE_PROMPT" /\ c \in WaitingChildren(s)
    BY DEF Activated
  <2>2. task[s] = task[d]
    BY <1>1, <2>1 DEF WaitingChildren
  <2>3. s = d
    BY <1>1, <1>4, <2>2 DEF TaskInv, HolderInv
  <2> QED
    BY <2>1, <2>3
<1> HIDE DEF d
<1>6. NShared(d) = 0
  <2>1. NShared(d) > 0 => FALSE
    BY <1>1, <1>5 DEF MemInv, SharedInv, Active, Sampled
  <2>2. NShared(d) \in Nat
    BY <1>1, <1>5, BusyTask
  <2> QED
    BY <2>1, <2>2
<1>7. ~conf.refills /\ n_batch = conf.n_batch
  <2>1. Task[task[c]].type = "COMPLETION"
    BY <1>4, <1>6 DEF IsChildOf, NShared
  <2>2. ~conf.refills
    BY <1>2, <1>3, <2>1 DEF Whole
  <2> QED
    BY <2>2 DEF MemInv, UpdateInv
<1>8. /\ off < ViewEnd /\ Decoded = off /\ Start(d) = off /\ pc = "decode"
  BY <1>1, DecodeIs
<1>9. off \in Nat /\ Len(batch) \in Nat /\ conf.n_batch \in Nat /\ ViewEnd \in Nat
  BY QueueIs, <1>1, <1>3, ConfTyped, ViewIs DEF Typed, TypedBatch
<1>10. i_batch[d] \in DOMAIN Queue(d)
  <2>1. Ready(d)
    BY <1>1, <1>5 DEF MemInv, SlotMem, SampleInv
  <2>2. i_batch[d] \in DOMAIN batch /\ i_batch[d] > off /\ batch[i_batch[d]].slot = d
    BY <1>4, <1>8, <2>1 DEF Ready
  <2> QED
    BY <1>1, <1>8, <2>2, QueueIs
<1>11. Len(batch) <= conf.n_batch
  BY <1>1, <1>5, <1>10 DEF MemInv, SlotMem, Timing
<1>12. ViewEnd = Len(batch)
  BY <1>7, <1>9, <1>11 DEF ViewEnd
<1>13. \A i \in DOMAIN Queue(d) : i <= ViewEnd /\ i \in Nat
  BY <1>1, <1>12, QueueIs, EntryTyped
<1>14. DOMAIN Rest(d) = {}
  <2>1. DOMAIN Rest(d) = {i \in DOMAIN Queue(d) : i > ViewEnd}
    BY DEF Rest
  <2> QED
    BY <1>9, <1>13, <2>1
<1>15. i_batch[d] <= ViewEnd
  BY <1>10, <1>13
<1> QED
  BY <1>1, <1>2, <1>5, <1>14, <1>15 DEF d

LEMMA MemComputed ==
    ASSUME Typed, Typed', TaskInv, MemInv, Whole, DecodeSucceeds
    PROVE  MemInv'
<1>1. /\ conf' = conf /\ pc = "decode" /\ pc' = "post" /\ UNCHANGED decodeVars /\ batch' = batch
      /\ task' = task /\ Decoding /\ off < Len(batch)
      /\ off < ViewEnd /\ Decoded = off /\ Decoded' = ViewEnd
      /\ \A t \in Slots : Start(t) = off /\ Start(t)' = off /\ Queue(t)' = Rest(t)
  BY DecodeIs
<1>2. ASSUME NEW t \in Slots
      PROVE  /\ DOMAIN Rest(t) = {i \in DOMAIN Queue(t) : i > ViewEnd} /\ DOMAIN Rest(t) \subseteq DOMAIN Queue(t)
             /\ Good(Rest(t), Computed[t], prompt[t], state[t], conf.throws)
  BY DecodeIs, ComputedGood DEF Rest
<1>3. off \in Nat /\ ViewEnd \in Nat
  BY ViewIs DEF Typed, TypedBatch
<1>4. ASSUME NEW t \in Slots, t \notin Activated PROVE SlotMem(t)'
  <2>1. kv'[t] = Computed[t] /\ prompt'[t] = prompt[t] /\ i_batch'[t] = i_batch[t] /\ state'[t] = state[t]
    BY <1>4, DecodeIs
  <2>2. SlotGood(t)'
    BY <1>1, <1>2, <2>1 DEF SlotGood
  <2>3. Timing(t)'
    <3>1. SUFFICES ASSUME DOMAIN Rest(t) # {} PROVE Timing(t)'
      BY <1>1 DEF Timing
    <3>2. DOMAIN Queue(t) # {}
      BY <1>2, <3>1
    <3>3. /\ state[t] # "GENERATING" => Len(batch) <= conf.n_batch
          /\ state[t] \in Sampled => \A i \in DOMAIN Queue(t) : i <= i_batch[t]
      BY <3>2 DEF MemInv, SlotMem, Timing
    <3> QED
      BY <1>1, <1>2, <2>1, <3>3 DEF Timing
  <2>4. SampleInv(t)'
    <3>1. NTokens(t)' = NTokens(t) /\ IsChild(task[t])' = IsChild(task[t])
      BY <1>1 DEF NTokens, Task, IsChild
    <3>2. Ready(t) => Ready(t)'
      <4> SUFFICES ASSUME Ready(t) PROVE Ready(t)'
        OBVIOUS
      <4>1. /\ i_batch[t] \in DOMAIN batch /\ i_batch[t] > off
            /\ batch[i_batch[t]].pos = Len(prompt[t]) - 1
            /\ batch[i_batch[t]].slot = t \/ (IsChild(task[t]) /\ i_batch[t] <= off)
        BY <1>1 DEF Ready
      <4>2. i_batch[t] \in Nat
        BY DEF Typed, TypedSlots
      <4>3. batch[i_batch[t]].slot = t \/ (IsChild(task[t]) /\ i_batch[t] <= ViewEnd)
        BY <1>1, <1>3, <4>1, <4>2
      <4> QED
        BY <1>1, <2>1, <3>1, <4>1, <4>3 DEF Ready
    <3> QED
      BY <2>1, <3>1, <3>2 DEF MemInv, SlotMem, SampleInv
  <2> QED
    BY <2>2, <2>3, <2>4 DEF SlotMem
<1>5. ASSUME NEW c \in Activated PROVE SlotMem(c)' /\ c \in Slots /\ IsChild(task[c])
  <2>1. PICK d \in Slots : d = Donor(c)
    BY DonorReady
  <2>2. /\ c \in Slots /\ state[c] = "WAIT_OTHER" /\ IsChild(task[c])
        /\ state[d] = "DONE_PROMPT" /\ DOMAIN Rest(d) = {} /\ i_batch[d] <= ViewEnd
    BY <2>1, DonorReady
  <2>3. kv'[c] = Computed[d] /\ prompt'[c] = prompt[d] /\ i_batch'[c] = i_batch[d] /\ state'[c] = "DONE_PROMPT"
    BY <2>1, DecodeIs
  <2>4. DOMAIN Rest(c) = {}
    <3>1. DOMAIN Queue(c) = {}
      BY <2>2, IdleEmpty DEF Active, Sampled
    <3> QED
      BY <1>2, <2>2, <3>1
  <2>5. Good(Rest(c), Computed[d], prompt[d], "DONE_PROMPT", conf.throws)
    <3>1. Good(Rest(d), Computed[d], prompt[d], "DONE_PROMPT", conf.throws)
      BY <1>2, <2>2
    <3> QED
      BY <2>2, <2>4, <3>1, GoodEmpty
  <2>6. SlotGood(c)'
    BY <1>1, <2>2, <2>3, <2>5 DEF SlotGood
  <2>7. Timing(c)'
    BY <1>1, <2>2, <2>4 DEF Timing
  <2>8. SampleInv(c)'
    <3>1. Ready(d)
      BY <2>2 DEF MemInv, SlotMem, SampleInv
    <3>2. i_batch[d] \in DOMAIN batch /\ i_batch[d] > off /\ batch[i_batch[d]].pos = Len(prompt[d]) - 1
      BY <1>1, <3>1 DEF Ready
    <3>3. IsChild(task[c])'
      BY <1>1, <2>2 DEF IsChild, Task
    <3>4. Ready(c)'
      BY <1>1, <2>2, <2>3, <3>2, <3>3 DEF Ready
    <3> QED
      BY <2>3, <3>4 DEF SampleInv
  <2> QED
    BY <2>2, <2>6, <2>7, <2>8 DEF SlotMem
<1>6. \A t \in Slots : SlotMem(t)'
  BY <1>4, <1>5
<1>7. SharedInv'
  <2>1. \A t \in Slots \ Activated : state'[t] = state[t] /\ prompt'[t] = prompt[t]
    BY DecodeIs
  <2>2. \A c \in Activated : state'[c] = "DONE_PROMPT" /\ IsChild(task[c])
    BY <1>5, DecodeIs
  <2>3. \A c \in Slots : state'[c] = "WAIT_OTHER" => state[c] = "WAIT_OTHER" /\ task'[c] = task[c]
    BY <1>1, <2>1, <2>2
  <2>4. \A t \in Slots : IsChild(task[t]) \/ (state'[t] = state[t] /\ prompt'[t] = prompt[t])
    BY <2>1, <2>2
  <2> QED
    BY <1>1, <2>3, <2>4, SharedKept DEF MemInv
<1>8. UpdateInv'
  <2>1. UpdateInv
    BY DEF MemInv
  <2> QED
    BY <1>1, <2>1 DEF UpdateInv, decodeVars
<1> QED
  BY <1>1, <1>6, <1>7, <1>8, Fixed DEF MemInv

----------------------------------------------------------------------------
(* post_decode.                                                             *)

LEMMA PostIs ==
    ASSUME Typed, MemInv, NEW s \in Slots, PostAdvance(s), Walk("post", s)
    PROVE  /\ conf' = conf /\ batch' = batch /\ pc = "post" /\ at = s /\ pc' \in {"post", "decode"}
           /\ \A t \in Slots : Queue(t)' = Queue(t)
           /\ Decoded = ViewEnd /\ Decoded' = ViewEnd /\ ViewEnd \in Nat
           /\ \A t \in Slots \ {s} : Start(t)' = Start(t)
           /\ Start(s) = off /\ Start(s)' = ViewEnd
           /\ \A i \in Nat : InView(i) <=> off < i /\ i <= ViewEnd
           /\ UpdateInv'
<1>1. /\ conf' = conf /\ batch' = batch /\ pc = "post" /\ at = s /\ Advance(s, "decode")
      /\ IF s < conf.n_slots THEN UNCHANGED decodeVars
         ELSE off' = off + Cardinality(View) /\ n_batch' = conf.n_batch
  BY DEF PostAdvance, Walk, taskVars, batchVars
<1>2. off < Len(batch) /\ UpdateInv
  BY <1>1 DEF MemInv, UpdateInv
<1>3. off \in Nat /\ ViewEnd \in Nat /\ off < ViewEnd /\ Cardinality(View) = ViewEnd - off
  BY <1>2, ViewIs DEF Typed, TypedBatch
<1>4. off + Cardinality(View) = ViewEnd
  BY <1>3
<1>5. s \in Nat /\ conf.n_slots \in Nat /\ \A t \in Slots : t \in Nat /\ t <= conf.n_slots
  BY SlotsTyped, ConfTyped DEF Typed, TypedWalk
<1>6. \A i \in Nat : InView(i) <=> off < i /\ i <= ViewEnd
  BY <1>4 DEF InView
<1>7. CASE s < conf.n_slots
  <2>1. pc' = "post" /\ at' = s + 1 /\ UNCHANGED decodeVars
    BY <1>1, <1>7 DEF Advance
  <2>2. ViewEnd' = ViewEnd
    BY <1>1, <2>1 DEF ViewEnd, decodeVars
  <2>3. Decoded = ViewEnd /\ Decoded' = ViewEnd
    BY <1>1, <2>1, <2>2 DEF Decoded
  <2>4. /\ \A t \in Slots \ {s} : t < s + 1 <=> t < s
        /\ s < s + 1 /\ ~(s < s)
    BY <1>5
  <2>5. /\ \A t \in Slots \ {s} : Start(t)' = Start(t)
        /\ Start(s) = off /\ Start(s)' = ViewEnd
    BY <1>1, <2>1, <2>2, <2>4 DEF Start, decodeVars
  <2>6. UpdateInv'
    BY <1>1, <1>2, <2>1 DEF UpdateInv, decodeVars
  <2> QED
    BY <1>1, <1>3, <1>6, <2>1, <2>3, <2>5, <2>6, ExtendsSame, QueueSame
<1>8. CASE ~(s < conf.n_slots)
  <2>1. pc' = "decode" /\ off' = ViewEnd /\ n_batch' = conf.n_batch
    BY <1>1, <1>4, <1>8 DEF Advance
  <2>2. Decoded = ViewEnd /\ Decoded' = ViewEnd
    BY <1>1, <2>1 DEF Decoded
  <2>3. \A t \in Slots \ {s} : t < s
    BY <1>5, <1>8
  <2>4. ~(s < s)
    BY <1>5
  <2>5. /\ \A t \in Slots \ {s} : Start(t)' = Start(t)
        /\ Start(s) = off /\ Start(s)' = ViewEnd
    BY <1>1, <2>1, <2>3, <2>4 DEF Start
  <2>6. UpdateInv'
    BY <1>1, <2>1 DEF UpdateInv
  <2> QED
    BY <1>1, <1>3, <1>6, <2>1, <2>2, <2>5, <2>6, ExtendsSame, QueueSame
<1> QED
  BY <1>7, <1>8

LEMMA PostOthers ==
    ASSUME Typed, MemInv, NEW s \in Slots, PostAdvance(s), Walk("post", s),
           NEW t \in Slots, Still(t), t # s \/ ~Sampling(s)
    PROVE  SlotMem(t)'
<1>1. /\ conf' = conf /\ batch' = batch /\ pc = "post" /\ pc' \in {"post", "decode"}
      /\ Queue(t)' = Queue(t) /\ Decoded = ViewEnd /\ Decoded' = ViewEnd
      /\ t # s => Start(t)' = Start(t)
      /\ Start(s) = off /\ Start(s)' = ViewEnd /\ ViewEnd \in Nat
      /\ \A i \in Nat : InView(i) <=> off < i /\ i <= ViewEnd
  BY PostIs
<1>2. SlotGood(t)'
  BY <1>1 DEF MemInv, SlotMem, SlotGood, Still
<1>3. Timing(t)'
  BY <1>1 DEF MemInv, SlotMem, Timing, Still
<1>4. NTokens(t)' = NTokens(t) /\ IsChild(task[t])' = IsChild(task[t])
  BY <1>1 DEF NTokens, Task, IsChild, Still
<1>5. Ready(t) /\ state[t] \in Sampled => Ready(t)'
  <2> SUFFICES ASSUME Ready(t), state[t] \in Sampled PROVE Ready(t)'
    OBVIOUS
  <2>1. i_batch[t] > Start(t)'
    <3>1. CASE t # s
      BY <1>1, <3>1 DEF Ready
    <3>2. CASE t = s
      <4>1. i_batch[t] \in Nat /\ off < i_batch[t] /\ ~InView(i_batch[t])
        BY <1>1, <3>2 DEF Ready, Sampling, Sampled, Typed, TypedSlots, TypedBatch
      <4> QED
        BY <1>1, <3>2, <4>1
    <3> QED
      BY <3>1, <3>2
  <2> QED
    BY <1>1, <1>4, <2>1 DEF Ready, Still
<1>6. SampleInv(t)'
  BY <1>4, <1>5 DEF MemInv, SlotMem, SampleInv, Still, Sampled
<1> QED
  BY <1>2, <1>3, <1>6 DEF SlotMem

(* A slot that samples has nothing queued any more.                         *)
LEMMA SamplingEmpty ==
    ASSUME Typed, MemInv, NEW s \in Slots, Walk("post", s), Sampling(s)
    PROVE  /\ DOMAIN Queue(s) = {} /\ state[s] \in Sampled
           /\ Ready(s) /\ i_batch[s] \in Nat /\ i_batch[s] <= ViewEnd
<1>1. pc = "post" /\ at = s /\ InView(i_batch[s]) /\ state[s] \in Sampled
  BY DEF Walk, Sampling, Sampled
<1>2. off < Len(batch)
  BY <1>1 DEF MemInv, UpdateInv
<1>3. ViewEnd \in Nat /\ Cardinality(View) = ViewEnd - off /\ off \in Nat /\ i_batch[s] \in Nat /\ Decoded = ViewEnd
  BY <1>1, <1>2, ViewIs DEF Typed, TypedBatch, TypedSlots, Decoded
<1>4. off < i_batch[s] /\ i_batch[s] <= ViewEnd
  BY <1>1, <1>3 DEF InView
<1>5. Ready(s)
  <2>1. i_batch[s] # NoSlot
    BY <1>3, <1>4 DEF NoSlot
  <2> QED
    BY <1>1, <2>1 DEF MemInv, SlotMem, SampleInv, Sampled
<1>6. DOMAIN Queue(s) = {}
  <2> SUFFICES ASSUME NEW i \in DOMAIN Queue(s) PROVE FALSE
    OBVIOUS
  <2>1. i <= i_batch[s]
    BY <1>1 DEF MemInv, SlotMem, Timing
  <2>2. i \in Nat /\ i > ViewEnd
    BY <1>3, QueueIs, EntryTyped
  <2> QED
    BY <1>3, <1>4, <2>1, <2>2
<1> QED
  BY <1>1, <1>3, <1>4, <1>5, <1>6

LEMMA MemPost ==
    ASSUME Typed, Typed', MemInv, NEW s \in Slots, PostStep(s)
    PROVE  MemInv'
<1>1. PostAdvance(s) /\ Walk("post", s)
  BY DEF PostStep, NotSampling, SendOutputs, GoesOn, Ends, Generates
<1>2. conf' = conf /\ UpdateInv' /\ Queue(s)' = Queue(s)
  BY <1>1, PostIs
<1>3. \A t \in Slots \ {s} : Still(t)
  <2>1. CASE NotSampling(s)
    BY <2>1 DEF NotSampling, slotVars, Still
  <2>2. CASE SendOutputs(s) \/ Ends(s)
    BY <2>2 DEF SendOutputs, Ends, Generates, ReleaseState, Clear, Still, Typed, TypedSlots
  <2>3. CASE GoesOn(s)
    BY <2>3 DEF GoesOn, Generates, Still, Typed, TypedSlots
  <2> QED
    BY <2>1, <2>2, <2>3 DEF PostStep
<1>4. CASE NotSampling(s)
  <2>1. ~Sampling(s) /\ \A t \in Slots : Still(t)
    BY <1>4 DEF NotSampling, slotVars, Still
  <2>2. \A t \in Slots : SlotMem(t)'
    BY <1>1, <2>1, PostOthers
  <2>3. SharedInv'
    BY <1>2, <2>1, SharedFrame DEF MemInv
  <2> QED
    BY <1>2, <2>2, <2>3, Fixed DEF MemInv
<1>5. CASE SendOutputs(s) \/ Ends(s)
  <2>1. Sampling(s) /\ ReleaseState({s}) /\ Clear({c \in {s} : ClearedOnRelease(s)})
    BY <1>5 DEF SendOutputs, Ends, Generates
  <2>2. /\ state'[s] = "IDLE"
        /\ (prompt'[s] = prompt[s] /\ kv'[s] = kv[s]) \/ (prompt'[s] = <<>> /\ kv'[s] = NoCells)
    BY <2>1 DEF ReleaseState, Clear
  <2>3. DOMAIN Queue(s) = {} /\ DOMAIN Queue(s)' = {}
    BY <1>1, <1>2, <2>1, SamplingEmpty
  <2>4. SlotMem(s)'
    BY <1>2, <2>2, <2>3, SlotEmptied DEF MemInv, SlotMem, Active, Sampled
  <2>5. \A t \in Slots : SlotMem(t)'
    BY <1>1, <1>3, <2>4, PostOthers
  <2>6. SharedInv'
    BY <1>2, <1>3, <2>2, SharedFrame DEF MemInv
  <2> QED
    BY <1>2, <2>5, <2>6, Fixed DEF MemInv
<1>6. CASE GoesOn(s)
  <2>1. Sampling(s) /\ task' = task /\ prompt' = prompt /\ kv' = kv
        /\ state' = [state EXCEPT ![s] = "GENERATING"] /\ i_batch' = [i_batch EXCEPT ![s] = NoSlot]
    BY <1>6 DEF GoesOn, Generates
  <2>2. state'[s] = "GENERATING" /\ i_batch'[s] = NoSlot
    BY <2>1 DEF Typed, TypedSlots
  <2>3. DOMAIN Queue(s) = {} /\ state[s] \in Sampled
    BY <1>1, <2>1, SamplingEmpty
  <2>4. Good(Queue(s), kv[s], prompt[s], "GENERATING", conf.throws)
    <3>1. Good(Queue(s), kv[s], prompt[s], state[s], conf.throws)
      BY DEF MemInv, SlotMem, SlotGood
    <3> QED
      BY <2>3, <3>1 DEF Good, Sampled, Active
  <2>5. SlotMem(s)'
    <3>1. SlotGood(s)'
      BY <1>2, <2>1, <2>2, <2>4 DEF SlotGood
    <3>2. Timing(s)' /\ SampleInv(s)'
      BY <1>2, <2>2, <2>3 DEF Timing, SampleInv
    <3> QED
      BY <3>1, <3>2 DEF SlotMem
  <2>6. \A t \in Slots : SlotMem(t)'
    BY <1>1, <1>3, <2>5, PostOthers
  <2>7. SharedInv'
    <3>1. \A t \in Slots \ {s} : state'[t] = state[t] /\ prompt'[t] = prompt[t]
      BY <1>3 DEF Still
    <3> QED
      BY <1>2, <2>1, <2>2, <2>3, <3>1, SharedKept DEF MemInv
  <2> QED
    BY <1>2, <2>6, <2>7, Fixed DEF MemInv
<1> QED
  BY <1>4, <1>5, <1>6 DEF PostStep

----------------------------------------------------------------------------
(* The invariant.                                                           *)

LEMMA MemStarts ==
    ASSUME Init
    PROVE  MemInv
<1>1. Typed
  BY TypedInit
<1>2. /\ pc = "tasks" /\ off = 0 /\ n_batch = conf.n_batch
      /\ \A t \in Slots : state[t] = "IDLE" /\ prompt[t] = <<>> /\ kv[t] = NoCells
  BY DEF Init
<1>3. ASSUME NEW t \in Slots PROVE SlotMem(t)
  <2>1. DOMAIN Queue(t) = {}
    BY <1>1, <1>2, NothingQueued
  <2>2. Closed(NoCells) /\ NoCells \in Cells
    BY NoCellsTyped DEF Closed
  <2>3. Good(Queue(t), kv[t], prompt[t], state[t], conf.throws)
    BY <1>2, <2>1, <2>2, GoodForgotten DEF Sampled
  <2> QED
    BY <1>2, <2>1, <2>3 DEF SlotMem, SlotGood, Timing, SampleInv
<1>4. UpdateInv /\ SharedInv
  BY <1>2 DEF UpdateInv, SharedInv
<1> QED
  BY <1>3, <1>4 DEF MemInv

LEMMA MemStutters ==
    ASSUME MemInv, UNCHANGED vars
    PROVE  MemInv'
<1>1. UNCHANGED <<conf, pc, at, state, task, prompt, kv, i_batch, batch, off, n_batch>>
  BY DEF vars, taskVars, slotVars, batchVars, decodeVars
<1>2. Decoded' = Decoded /\ \A t : Queue(t)' = Queue(t) /\ Start(t)' = Start(t)
  BY <1>1 DEF Decoded, Queue, Start, ViewEnd
<1>3. ASSUME NEW t \in Slots PROVE SlotMem(t)'
  <2>1. SlotGood(t)' /\ Timing(t)'
    BY <1>1, <1>2 DEF MemInv, SlotMem, SlotGood, Timing
  <2>2. NTokens(t)' = NTokens(t) /\ IsChild(task[t])' = IsChild(task[t])
    BY <1>1 DEF NTokens, Task, IsChild
  <2>3. SampleInv(t)'
    BY <1>1, <1>2, <2>2 DEF MemInv, SlotMem, SampleInv, Ready
  <2> QED
    BY <2>1, <2>3 DEF SlotMem
<1>4. UpdateInv'
  BY <1>1 DEF MemInv, UpdateInv
<1>5. SharedInv'
  BY <1>1 DEF MemInv, SharedInv, IsChild, Task, NShared, Slots
<1> QED
  BY <1>1, <1>3, <1>4, <1>5, Fixed DEF MemInv

LEMMA MemStep ==
    ASSUME Typed, Typed', TaskInv, MemInv, Whole, [Next]_vars
    PROVE  MemInv'
<1>1. ASSUME UpdateStep PROVE MemInv'
  <2>1. \/ \E s \in Slots : WalkStep(s) \/ PostStep(s)
        \/ BeginUpdate \/ EndUpdate \/ DecodeSucceeds \/ DecodeRetries \/ DecodeFatal \/ DecodeThrows
    BY <1>1 DEF UpdateStep, WalkStep, PostStep
  <2> QED
    BY <2>1, MemWalk, MemPost, MemBegun, MemComputed, MemRetried, MemFatal, MemThrown
<1>2. ASSUME NEW r \in Posted, Launch(r) \/ LaunchFails(r) \/ Stop(r) PROVE MemInv'
  BY <1>2, MemLaunched, MemLaunchFailed, MemSame
<1>3. ASSUME NEW s \in Slots, Cancel(s) PROVE MemInv'
  BY <1>3, MemCancelled
<1>4. ASSUME SetLora PROVE MemInv'
  BY <1>4, MemSame
<1> QED
  BY <1>1, <1>2, <1>3, <1>4, MemStutters DEF Next

LEMMA ConfKept ==
    ASSUME [Next]_vars
    PROVE  conf' = conf
<1>1. ASSUME UpdateStep PROVE conf' = conf
  BY <1>1 DEF UpdateStep, NoShift, ShiftRefused, ShiftContext, AddSampled, NothingSampled, NoPrompt, EmptyPrompt,
     PromptRefused, PromptAborts, PromptPostponed, AddPrompt, NotSampling, SendOutputs, GoesOn, Ends, Generates,
     PostAdvance, BeginUpdate, EndUpdate, DecodeSucceeds, DecodeRetries, DecodeFatal, DecodeThrows, taskVars
<1>2. ASSUME NEW r \in Posted, Launch(r) \/ LaunchFails(r) \/ Stop(r) PROVE conf' = conf
  BY <1>2 DEF Launch, LaunchFails, Stop
<1>3. ASSUME SetLora \/ \E s \in Slots : Cancel(s) PROVE conf' = conf
  BY <1>3 DEF SetLora, Cancel, taskVars
<1>4. ASSUME UNCHANGED vars PROVE conf' = conf
  BY <1>4 DEF vars, taskVars
<1> QED
  BY <1>1, <1>2, <1>3, <1>4 DEF Next

MemoryInv == Typed /\ TaskInv /\ (Whole => MemInv)

LEMMA MemoryInvariant == Spec => []MemoryInv
<1>1. Init => MemoryInv
  BY TypedInit, TaskStarts, MemStarts DEF MemoryInv
<1>2. MemoryInv /\ [Next]_vars => MemoryInv'
  <2> SUFFICES ASSUME MemoryInv, [Next]_vars PROVE MemoryInv'
    OBVIOUS
  <2>1. Typed' /\ TaskInv'
    BY TypedStep, TaskStep DEF MemoryInv
  <2>2. conf' = conf
    BY ConfKept
  <2>3. Whole' => Whole
    BY <2>2 DEF Whole, IsChild, Posted, Task
  <2> QED
    BY <2>1, <2>3, MemStep DEF MemoryInv
<1> QED
  BY <1>1, <1>2, PTL DEF Spec

----------------------------------------------------------------------------
(* What follows from it.                                                    *)

LEMMA MemSamples ==
    ASSUME Typed, MemInv
    PROVE  SamplesOwnPrompt
<1> SUFFICES ASSUME NEW s \in Slots, Walk("post", s), Sampling(s)
             PROVE  /\ batch[i_batch[s]].slot = s \/ IsChild(task[s])
                    /\ batch[i_batch[s]].pos = Len(prompt[s]) - 1
                    /\ InMemory(s) /\ Cardinality(DOMAIN kv[s]) = Len(prompt[s])
  BY DEF SamplesOwnPrompt
<1>1. DOMAIN Queue(s) = {} /\ state[s] \in Sampled /\ Ready(s)
  BY SamplingEmpty
<1>2. kv[s] \in Cells /\ prompt[s] \in Seq(Nat) /\ Len(prompt[s]) \in Nat
  BY DEF Typed, TypedCache
<1>3. DOMAIN kv[s] = 0 .. Len(prompt[s]) - 1 /\ Matches(kv[s], prompt[s])
  <2>1. Good(Queue(s), kv[s], prompt[s], state[s], conf.throws)
    BY DEF MemInv, SlotMem, SlotGood
  <2> QED
    BY <1>1, <1>2, <2>1, GoodWhole
<1>4. InMemory(s)
  <2> SUFFICES ASSUME NEW p \in 0 .. Len(prompt[s]) - 1
               PROVE  p \in DOMAIN kv[s] /\ kv[s][p].token = prompt[s][p + 1]
    BY DEF InMemory
  <2>1. p < Len(prompt[s])
    BY <1>2
  <2> QED
    BY <1>3, <2>1 DEF Matches
<1>5. Cardinality(DOMAIN kv[s]) = Len(prompt[s])
  <2>1. PICK n \in Nat : n = Len(prompt[s])
    BY <1>2
  <2>2. Cardinality(0 .. n - 1) = IF 0 > n - 1 THEN 0 ELSE (n - 1) - 0 + 1
    BY FS_Interval
  <2>3. Cardinality(0 .. n - 1) = n
    BY <2>2
  <2> QED
    BY <1>3, <2>1, <2>3
<1> QED
  BY <1>1, <1>4, <1>5 DEF Ready

LEMMA MemPrompt ==
    ASSUME Typed, MemInv
    PROVE  PromptInMemory
<1> SUFFICES ASSUME ~conf.throws
             PROVE  (pc = "tasks" => \A s \in Slots : InMemory(s)) /\ pc # "aborted"
  BY DEF PromptInMemory
<1>1. pc # "aborted"
  BY DEF MemInv, UpdateInv
<1>2. ASSUME pc = "tasks", NEW s \in Slots PROVE InMemory(s)
  <2>1. DOMAIN Queue(s) = {}
    BY <1>2, NothingQueued
  <2>2. Covered(Queue(s), kv[s], prompt[s]) /\ Matches(kv[s], prompt[s])
    BY DEF MemInv, SlotMem, SlotGood, Good
  <2>3. Len(prompt[s]) \in Nat
    BY DEF Typed, TypedCache
  <2> QED
    BY <2>1, <2>2, <2>3 DEF InMemory, Covered, Matches
<1> QED
  BY <1>1, <1>2

LEMMA MemConsistent ==
    ASSUME Typed, MemInv
    PROVE  BatchConsistent
<1> SUFFICES ASSUME ~conf.throws, Decoding, NEW s \in Slots, kv[s] # NoCells, NEW e \in ViewOf(s)
             PROVE  \E p \in DOMAIN kv[s] \cup {f.pos : f \in ViewOf(s)} : p = e.pos - 1 /\ e.pos \notin DOMAIN kv[s]
  BY DEF BatchConsistent, Consistent
<1> DEFINE E == Queue(s)
<1>1. Decoded = off
  BY DEF Decoding, Decoded
<1>2. /\ DOMAIN E = {i \in DOMAIN batch : i > off /\ batch[i].slot = s}
      /\ \A i \in DOMAIN E : E[i] = batch[i] /\ i \in Nat /\ E[i].pos \in Nat
  BY <1>1, QueueIs, EntryTyped DEF Queued
<1>3. Good(E, kv[s], prompt[s], state[s], conf.throws)
  BY DEF MemInv, SlotMem, SlotGood
<1>4. PICK i \in DOMAIN E : i <= ViewEnd /\ e = E[i]
  BY <1>2, ViewOfIs
<1>5. /\ \A j \in DOMAIN E : E[j].pos < Len(prompt[s]) /\ E[j].pos \notin DOMAIN kv[s]
      /\ \A j, k \in DOMAIN E : j < k => E[j].pos < E[k].pos
      /\ Covered(E, kv[s], prompt[s]) /\ Closed(kv[s])
  BY <1>3 DEF Good, Continues
<1>6. kv[s] \in Cells /\ DOMAIN kv[s] # {} /\ DOMAIN kv[s] \subseteq Nat
      /\ Len(prompt[s]) \in Nat /\ ViewEnd \in Nat
  <2>1. kv[s] \in Cells /\ Len(prompt[s]) \in Nat
    BY DEF Typed, TypedCache
  <2>2. kv[s] \in [DOMAIN kv[s] -> Cell] /\ DOMAIN kv[s] \subseteq Nat
    BY <2>1, CellsAre
  <2>3. DOMAIN kv[s] # {}
    BY <2>1, CellsAre
  <2>4. ViewEnd \in Nat
    BY ViewIs
  <2> QED
    BY <2>1, <2>2, <2>3, <2>4
<1>7. 0 \in DOMAIN kv[s]
  <2>1. PICK p \in DOMAIN kv[s] : p \in Nat
    BY <1>6
  <2>2. 0 \in 0 .. p
    BY <2>1
  <2> QED
    BY <1>5, <2>1, <2>2 DEF Closed
<1>8. PICK x \in Nat : x = e.pos
  BY <1>2, <1>4
<1>9. x \notin DOMAIN kv[s] /\ x - 1 \in 0 .. Len(prompt[s]) - 1
  <2>1. x \notin DOMAIN kv[s] /\ x < Len(prompt[s])
    BY <1>4, <1>5, <1>8
  <2>2. x # 0
    BY <1>7, <2>1
  <2> QED
    BY <1>6, <2>1, <2>2
<1>10. CASE x - 1 \in DOMAIN kv[s]
  BY <1>8, <1>9, <1>10
<1>11. CASE x - 1 \notin DOMAIN kv[s]
  <2>1. PICK j \in DOMAIN E : E[j].pos = x - 1
    BY <1>5, <1>9, <1>11 DEF Covered
  <2>2. ~(i <= j)
    <3>1. i = j \/ i < j => x <= E[j].pos
      <4>1. E[i].pos = x /\ E[j].pos \in Nat
        BY <1>2, <1>4, <1>8
      <4> QED
        BY <1>5, <4>1
    <3> QED
      BY <1>2, <2>1, <3>1
  <2>3. j <= ViewEnd
    BY <1>2, <1>4, <1>6, <2>2
  <2>4. E[j] \in ViewOf(s)
    BY <1>2, <2>3, ViewOfIs
  <2> QED
    BY <1>8, <1>9, <2>1, <2>4
<1> QED
  BY <1>10, <1>11

(* Whatever shares the batch, a slot samples from the logits of its own     *)
(* last token, or of its parent's, over exactly the tokens of its prompt:   *)
(* for every order of launches, cancellations, failures and exceptions, as  *)
(* long as a full memory does not split a batch that a child waits for.     *)
THEOREM SampledFromOwnPrompt == Spec => [](Whole => SamplesOwnPrompt)
<1>1. MemoryInv => (Whole => SamplesOwnPrompt)
  BY MemSamples DEF MemoryInv
<1> QED
  BY <1>1, MemoryInvariant, PTL

(* Between two updates the tokens a slot believes to have cached are in its *)
(* memory, and the process does not abort over a cache that is gone.        *)
THEOREM CacheInMemory == Spec => [](Whole => PromptInMemory)
<1>1. MemoryInv => (Whole => PromptInMemory)
  BY MemPrompt DEF MemoryInv
<1> QED
  BY <1>1, MemoryInvariant, PTL

----------------------------------------------------------------------------
(* What an update owes every slot: it decodes something as long as a slot   *)
(* is ready, a child has a parent that will get to it, and what a slot      *)
(* samples from was computed with its adapters.                             *)

Waits  == {"IDLE", "WAIT_OTHER"}
Pending == {"STARTED", "PROCESSING_PROMPT"}

(* A prompt that is being processed has been found to fit.                  *)
Fits == \A s \in Slots : state[s] = "PROCESSING_PROMPT" => ~TooLong(s)

(* The batch is empty as long as no slot had anything for it.               *)
EmptyInv ==
    batch = <<>> =>
        /\ pc \in Phases => slot_batched = NoSlot
        /\ pc = "generate" => \A s \in Slots : s < at => state[s] # "GENERATING"
        /\ pc = "prompts" => \A s \in Slots : state[s] # "GENERATING" /\ (s < at => state[s] \in Waits)
        /\ pc = "decode" => \A s \in Slots : state[s] \in Waits

(* Why a child may wait for ever.                                           *)
Excuse(r) == Task[Task[r].parent].tokens = <<>> \/ r \in stopped \/ Failed(r)

(* s holds the parent of c and will get to it, or has just done so.         *)
Attends(s, c) ==
    /\ task[s] = Task[task[c]].parent
    /\ \/ state[s] \in Pending
       \/ state[s] = "DONE_PROMPT" /\ (pc \in {"prompts", "aborted"} \/ (pc = "decode" /\ off = 0))

ChildInv ==
    \A c \in Slots : state[c] = "WAIT_OTHER" =>
        IsChild(task[c]) /\ (Excuse(task[c]) \/ \E s \in Slots : Attends(s, c))

----------------------------------------------------------------------------
(* Which steps a walk takes, and how they move a slot.                      *)

PromptStep(s) ==
    \/ NoPrompt(s) \/ EmptyPrompt(s) \/ PromptRefused(s)
    \/ PromptAborts(s) \/ PromptPostponed(s) \/ AddPrompt(s)
EarlyStep(s) ==
    \/ NoShift(s) \/ ShiftRefused(s) \/ ShiftContext(s)
    \/ AddSampled(s) \/ NothingSampled(s)
TasksStep ==
    \/ \E r \in Posted : Launch(r) \/ LaunchFails(r) \/ Stop(r)
    \/ \E s \in Slots : Cancel(s)
    \/ SetLora \/ BeginUpdate

LEMMA StepKinds ==
    ASSUME [Next]_vars
    PROVE  \/ UNCHANGED vars
           \/ pc = "tasks" /\ TasksStep
           \/ \E s \in Slots : pc \in {"shift", "generate"} /\ EarlyStep(s)
           \/ \E s \in Slots : pc = "prompts" /\ at = s /\ PromptStep(s)
           \/ pc = "decode" /\ (EndUpdate \/ DecodeStep)
           \/ \E s \in Slots : pc = "post" /\ at = s /\ PostStep(s)
<1>1. CASE UNCHANGED vars
  BY <1>1
<1>2. ASSUME NEW s \in Slots, EarlyStep(s) PROVE pc \in {"shift", "generate"}
  BY <1>2 DEF EarlyStep, NoShift, ShiftRefused, ShiftContext, AddSampled, NothingSampled, Walk
<1>3. ASSUME NEW s \in Slots, PromptStep(s) PROVE pc = "prompts" /\ at = s
  BY <1>3 DEF PromptStep, NoPrompt, EmptyPrompt, PromptRefused, PromptAborts, PromptPostponed, AddPrompt,
     PromptReady, PromptPending, Walk
<1>4. ASSUME NEW s \in Slots, PostStep(s) PROVE pc = "post" /\ at = s
  BY <1>4 DEF PostStep, NotSampling, SendOutputs, GoesOn, Ends, Generates, Walk
<1>5. ASSUME EndUpdate \/ DecodeStep PROVE pc = "decode"
  BY <1>5 DEF EndUpdate, DecodeStep, DecodeSucceeds, DecodeRetries, DecodeFatal, DecodeThrows, Decoding
<1>6. ASSUME TasksStep PROVE pc = "tasks"
  BY <1>6 DEF TasksStep, Launch, LaunchFails, Stop, Cancel, SetLora, BeginUpdate
<1>7. CASE Next
  <2>1. \/ TasksStep \/ EndUpdate \/ DecodeStep
        \/ \E s \in Slots : EarlyStep(s) \/ PromptStep(s) \/ PostStep(s)
    BY <1>7 DEF Next, UpdateStep, TasksStep, DecodeStep, EarlyStep, PromptStep, PostStep
  <2> QED
    BY <1>2, <1>3, <1>4, <1>5, <1>6, <2>1
<1> QED
  BY <1>1, <1>7

LEMMA AdvanceIs ==
    ASSUME Typed, NEW s \in Slots, NEW next, Advance(s, next)
    PROVE  \/ pc' = pc /\ at' = s + 1
           \/ pc' = next /\ at' = 1 /\ \A t \in Slots : t <= s
<1>1. s \in Nat /\ \A t \in Slots : t \in Nat /\ t <= conf.n_slots
  BY SlotsTyped DEF Typed, TypedWalk
<1>2. conf.n_slots \in Nat
  BY ConfTyped DEF Typed, TypedWalk
<1> QED
  BY <1>1, <1>2 DEF Advance

Same(t) == state'[t] = state[t] /\ task'[t] = task[t]

Moves(t) ==
    \/ Same(t)
    \/ state'[t] = "IDLE"
    \/ state[t] = "IDLE" /\ \E r \in Posted : Launch(r)
    \/ /\ task'[t] = task[t]
       /\ \/ state[t] = "WAIT_OTHER" /\ state'[t] \in {"STARTED", "DONE_PROMPT"}
          \/ /\ state[t] \in Pending /\ state'[t] \in {"PROCESSING_PROMPT", "DONE_PROMPT"} /\ ~TooLong(t)
             /\ pc = "prompts" /\ pc' \in {"prompts", "decode"} /\ off' = off
          \/ pc = "post" /\ state[t] \in Sampled /\ state'[t] = "GENERATING"

LEMMA MovesPrompt ==
    ASSUME Typed, Fits, NEW s \in Slots, PromptStep(s), NEW t \in Slots
    PROVE  Moves(t)
<1>1. CASE NoPrompt(s) \/ PromptAborts(s)
  BY <1>1 DEF NoPrompt, PromptAborts, slotVars, Moves, Same
<1>2. CASE EmptyPrompt(s) \/ PromptRefused(s)
  BY <1>2 DEF EmptyPrompt, PromptRefused, Release, ReleaseState, Moves, Same
<1>3. PromptReady(s) => ~TooLong(s) /\ state[s] \in Pending /\ pc = "prompts"
  BY DEF PromptReady, PromptPending, Walk, Fits, Pending
<1>4. CASE PromptPostponed(s)
  <2>1. PromptReady(s) /\ state' = [state EXCEPT ![s] = "PROCESSING_PROMPT"] /\ task' = task /\ off' = off
        /\ Advance(s, "decode")
    BY <1>4 DEF PromptPostponed, decodeVars
  <2>2. pc' \in {"prompts", "decode"}
    BY <1>3, <2>1 DEF Advance
  <2>3. CASE t = s
    BY <1>3, <2>1, <2>2, <2>3 DEF Moves, Typed, TypedSlots
  <2>4. CASE t # s
    BY <2>1, <2>4 DEF Moves, Same, Typed, TypedSlots
  <2> QED
    BY <2>3, <2>4
<1>5. CASE AddPrompt(s)
  <2>1. PromptReady(s) /\ off' = off /\ task' = task
    BY <1>5 DEF AddPrompt, decodeVars
  <2>2. pc' \in {"prompts", "decode"} /\ state'[s] \in {"PROCESSING_PROMPT", "DONE_PROMPT"}
    BY <1>5, AddPromptIs DEF Advance
  <2>3. CASE t = s
    BY <1>3, <2>1, <2>2, <2>3 DEF Moves
  <2>4. CASE t \in Begun(s)
    BY <1>5, <2>1, <2>4, AddPromptIs DEF Moves
  <2>5. CASE t \notin Begun(s) /\ t # s
    BY <1>5, <2>5, AddPromptIs DEF Moves, Same, Still
  <2> QED
    BY <2>3, <2>4, <2>5
<1> QED
  BY <1>1, <1>2, <1>4, <1>5 DEF PromptStep

LEMMA SlotMoves ==
    ASSUME Typed, Fits, [Next]_vars, NEW t \in Slots
    PROVE  Moves(t)
<1>1. CASE UNCHANGED vars
  BY <1>1 DEF vars, slotVars, Moves, Same
<1>2. CASE TasksStep
  <2>1. ASSUME NEW r \in Posted, Launch(r) PROVE Moves(t)
    <3>1. PICK taken, given : Starts(r, taken, given)
      BY <2>1, LaunchIs
    <3> QED
      BY <2>1, <3>1 DEF Starts, Idle, Processing, Moves, Same
  <2>2. ASSUME NEW r \in Posted, LaunchFails(r) \/ Stop(r) PROVE Moves(t)
    BY <2>2 DEF LaunchFails, Stop, slotVars, Moves, Same
  <2>3. ASSUME NEW s \in Slots, Cancel(s) PROVE Moves(t)
    BY <2>3 DEF Cancel, Release, ReleaseState, Moves, Same
  <2>4. CASE SetLora \/ BeginUpdate
    BY <2>4 DEF SetLora, BeginUpdate, slotVars, Moves, Same
  <2> QED
    BY <1>2, <2>1, <2>2, <2>3, <2>4 DEF TasksStep
<1>3. ASSUME NEW s \in Slots, EarlyStep(s) PROVE Moves(t)
  <2>1. CASE NoShift(s) \/ NothingSampled(s)
    BY <2>1 DEF NoShift, NothingSampled, slotVars, Moves, Same
  <2>2. CASE ShiftContext(s) \/ AddSampled(s)
    BY <2>2 DEF ShiftContext, AddSampled, Moves, Same
  <2>3. CASE ShiftRefused(s)
    BY <2>3 DEF ShiftRefused, Release, ReleaseState, Moves, Same
  <2> QED
    BY <1>3, <2>1, <2>2, <2>3 DEF EarlyStep
<1>4. CASE EndUpdate \/ DecodeStep
  <2>1. CASE EndUpdate \/ DecodeRetries
    BY <2>1 DEF EndUpdate, DecodeRetries, slotVars, Moves, Same
  <2>2. CASE DecodeFatal \/ DecodeThrows
    BY <2>2 DEF DecodeFatal, DecodeThrows, ReleaseState, Processing, Moves
  <2>3. CASE DecodeSucceeds
    <3>1. task' = task /\ (t \in Activated => state[t] = "WAIT_OTHER" /\ state'[t] = "DONE_PROMPT")
          /\ (t \notin Activated => state'[t] = state[t])
      BY <2>3, DecodeIs, CopiedIs
    <3> QED
      BY <3>1 DEF Moves, Same
  <2> QED
    BY <1>4, <2>1, <2>2, <2>3 DEF DecodeStep
<1>5. ASSUME NEW s \in Slots, pc = "post", PostStep(s) PROVE Moves(t)
  <2>1. CASE NotSampling(s)
    BY <2>1 DEF NotSampling, slotVars, Moves, Same
  <2>2. CASE SendOutputs(s) \/ Ends(s)
    BY <2>2 DEF SendOutputs, Ends, Generates, ReleaseState, Moves, Same
  <2>3. CASE GoesOn(s)
    <3>1. task' = task /\ state' = [state EXCEPT ![s] = "GENERATING"] /\ state[s] \in Sampled
      BY <2>3 DEF GoesOn, Generates, Sampling, Sampled
    <3> QED
      BY <1>5, <3>1 DEF Moves, Same, Typed, TypedSlots
  <2> QED
    BY <1>5, <2>1, <2>2, <2>3 DEF PostStep
<1> QED
  BY <1>1, <1>2, <1>3, <1>4, <1>5, StepKinds, MovesPrompt

LEMMA TooLongSame ==
    ASSUME conf' = conf, NEW t \in Slots, task'[t] = task[t]
    PROVE  TooLong(t)' = TooLong(t)
BY DEF TooLong, NTokens, CanSplit, IsDecision, PosFirst, Task

LEMMA FitsStep ==
    ASSUME Typed, Fits, [Next]_vars
    PROVE  Fits'
<1>1. conf' = conf /\ Slots' = Slots
  BY ConfKept, Fixed
<1> SUFFICES ASSUME NEW t \in Slots, state'[t] = "PROCESSING_PROMPT" PROVE ~TooLong(t)'
  BY <1>1 DEF Fits
<1>2. Moves(t)
  BY SlotMoves
<1>3. task'[t] = task[t] /\ ~TooLong(t)
  <2>1. ASSUME NEW r \in Posted, Launch(r), state[t] = "IDLE" PROVE FALSE
    <3>1. PICK taken, given : Starts(r, taken, given)
      BY <2>1, LaunchIs
    <3> QED
      BY <2>1, <3>1 DEF Starts
  <2> QED
    BY <1>2, <2>1 DEF Moves, Same, Fits, Sampled
<1> QED
  BY <1>1, <1>3, TooLongSame

----------------------------------------------------------------------------
(* An update gets somewhere.                                                *)

(* A prompt that comes first always gets something into the batch.          *)
LEMMA FirstAdds ==
    ASSUME Typed, Typed', MemInv, Fits, NEW s \in Slots, AddPrompt(s)
    PROVE  batch' # <<>>
<1> SUFFICES ASSUME batch' = <<>> PROVE FALSE
  OBVIOUS
<1> DEFINE first == First(s)
           end   == PromptEnd(s)
           n     == conf.n_batch
<1>1. PromptReady(s) /\ PromptPending(s) /\ state[s] \in Pending
  BY DEF AddPrompt, PromptReady, PromptPending, Pending
<1>2. ~TooLong(s)
  BY <1>1 DEF PromptReady, Fits, Pending
<1>3. first \in Nat /\ end \in Nat /\ first + Len(New(s)) = end /\ first < NTokens(s) /\ NTokens(s) \in Nat
      /\ Len(New(s)) \in Nat
  BY NewIs
<1>4. n \in Nat /\ n >= 1 /\ PosFirst(s) \in Nat /\ NShared(s) \in Nat
  BY <1>1, ConfTyped, BusyTask DEF Typed, TypedWalk, Pending
<1>5. Len(batch) = 0 /\ Len(New(s)) = 0
  <2>1. Len(batch) \in Nat /\ Len(batch') = Len(batch) + Len(New(s)) /\ Len(batch') = 0
    BY AddPromptGoes
  <2> QED
    BY <1>3, <2>1
<1>6. end = first
  BY <1>3, <1>5
<1>7. \/ end = NTokens(s)
      \/ end = first + n
      \/ (NShared(s) > first /\ end = NShared(s))
      \/ (end = PosFirst(s) /\ IsDecision(s) /\ first + n < NTokens(s))
  <2>1. Len(Kept(s)) + conf.n_batch - Len(batch) = first + n
    BY <1>3, <1>4, <1>5 DEF First
  <2> QED
    BY <1>1, <2>1, PromptEndIs DEF First
<1>8. IsDecision(s) => ~(NTokens(s) - PosFirst(s) > n)
  BY <1>2 DEF TooLong
<1> HIDE DEF first, end, n
<1>9. end = PosFirst(s) /\ IsDecision(s) /\ first + n < NTokens(s)
  BY <1>3, <1>4, <1>6, <1>7
<1> QED
  BY <1>3, <1>4, <1>6, <1>8, <1>9

LEMMA NoneDone ==
    ASSUME MemInv, batch = <<>>, NEW s \in Slots
    PROVE  state[s] # "DONE_PROMPT"
BY DEF MemInv, SlotMem, SampleInv, Ready

LEMMA Joins ==
    ASSUME Typed, slot_batched = NoSlot, NEW s
    PROVE  CanBatch(s)
BY DEF CanBatch

LEMMA EmptyEarly ==
    ASSUME Typed, Typed', MemInv, EmptyInv, NEW s \in Slots, EarlyStep(s)
    PROVE  EmptyInv'
<1>1. conf' = conf /\ Slots' = Slots /\ at = s
  <2>1. conf' = conf /\ at = s
    BY DEF EarlyStep, NoShift, ShiftRefused, ShiftContext, AddSampled, NothingSampled, taskVars, Walk
  <2> QED
    BY <2>1, Fixed
<1> SUFFICES ASSUME batch' = <<>>
             PROVE  /\ pc' \in Phases => slot_batched' = NoSlot
                    /\ pc' = "generate" => \A t \in Slots : t < at' => state'[t] # "GENERATING"
                    /\ pc' = "prompts" => \A t \in Slots : state'[t] # "GENERATING" /\ (t < at' => state'[t] \in Waits)
                    /\ pc' = "decode" => \A t \in Slots : state'[t] \in Waits
  BY <1>1 DEF EmptyInv
<1>2. \A t \in Slots : t \in Nat /\ t >= 1
  BY SlotsTyped DEF Typed, TypedWalk
<1>3. CASE NoShift(s) \/ ShiftRefused(s) \/ ShiftContext(s)
  <2>1. Advance(s, "generate") /\ pc = "shift" /\ batch' = batch /\ slot_batched' = slot_batched
    BY <1>3 DEF NoShift, ShiftRefused, ShiftContext, Walk, ContextFull, batchVars
  <2>2. slot_batched' = NoSlot
    BY <2>1 DEF EmptyInv, Phases
  <2>3. pc' = "shift" \/ (pc' = "generate" /\ at' = 1)
    BY <2>1, AdvanceIs
  <2>4. \A t \in Slots : ~(t < 1)
    BY <1>2
  <2> QED
    BY <2>2, <2>3, <2>4
<1>4. CASE AddSampled(s)
  <2>1. batch' = batch \o Entries(s, <<SampledToken>>, Len(prompt[s])) /\ Len(prompt[s]) \in Nat
    BY <1>4, SMTT(20) DEF AddSampled, Typed, TypedCache
  <2>2. <<SampledToken>> \in Seq(Nat) /\ Len(<<SampledToken>>) = 1
    BY DEF SampledToken
  <2>3. Len(batch') = Len(batch) + 1 /\ Len(batch) \in Nat
    BY <1>1, <2>1, <2>2, BatchGrows
  <2> QED
    BY <2>3
<1>5. CASE NothingSampled(s)
  <2>1. /\ batch' = batch /\ slot_batched' = slot_batched /\ state' = state /\ pc = "generate"
        /\ state[s] = "GENERATING" => ~CanBatch(s)
        /\ Advance(s, AfterGenerating)
    BY <1>5 DEF NothingSampled, Walk, batchVars, slotVars
  <2>2. slot_batched = NoSlot /\ \A t \in Slots : t < s => state[t] # "GENERATING"
    BY <1>1, <2>1 DEF EmptyInv, Phases
  <2>3. state[s] # "GENERATING"
    BY <2>1, <2>2, Joins
  <2>4. \/ pc' = "generate" /\ at' = s + 1
        \/ pc' = "prompts" /\ at' = 1 /\ \A t \in Slots : t <= s
    BY <2>1, AdvanceIs DEF AfterGenerating
  <2>5. \A t \in Slots : (t < s + 1 \/ t <= s) => t < s \/ t = s
    BY <1>2
  <2>6. \A t \in Slots : ~(t < 1)
    BY <1>2
  <2> QED
    BY <2>1, <2>2, <2>3, <2>4, <2>5, <2>6
<1> QED
  BY <1>3, <1>4, <1>5 DEF EarlyStep

LEMMA EmptyPrompts ==
    ASSUME Typed, Typed', MemInv, Fits, EmptyInv, pc = "prompts", NEW s \in Slots, at = s, PromptStep(s)
    PROVE  EmptyInv'
<1>1. conf' = conf /\ Slots' = Slots
  <2>1. conf' = conf
    BY DEF PromptStep, NoPrompt, EmptyPrompt, PromptRefused, PromptAborts, PromptPostponed, AddPrompt, taskVars
  <2> QED
    BY <2>1, Fixed
<1>2. CASE AddPrompt(s)
  BY <1>2, FirstAdds DEF EmptyInv
<1>3. CASE PromptAborts(s)
  BY <1>3 DEF PromptAborts, EmptyInv, Phases
<1>4. ASSUME batch = <<>>
      PROVE  /\ slot_batched = NoSlot
             /\ \A t \in Slots : state[t] # "GENERATING" /\ (t < s => state[t] \in Waits)
             /\ CanBatch(s) /\ Len(batch) < conf.n_batch /\ Len(batch) = 0
             /\ state[s] \in Pending \/ state[s] \in Waits
  <2>1. slot_batched = NoSlot /\ \A t \in Slots : state[t] # "GENERATING" /\ (t < s => state[t] \in Waits)
    BY <1>4 DEF EmptyInv, Phases
  <2>2. conf.n_batch \in Nat /\ conf.n_batch > 0
    BY ConfTyped DEF Typed, TypedWalk
  <2>3. Len(batch) = 0
    BY <1>4
  <2>4. state[s] \in States /\ state[s] # "DONE_PROMPT"
    BY <1>4, NoneDone DEF Typed, TypedSlots
  <2> QED
    BY <2>1, <2>2, <2>3, <2>4, Joins DEF States, Pending, Waits
<1>5. CASE NoPrompt(s) \/ EmptyPrompt(s) \/ PromptRefused(s)
  <2>1. batch' = batch /\ slot_batched' = slot_batched /\ Advance(s, "decode")
    BY <1>5 DEF NoPrompt, EmptyPrompt, PromptRefused, batchVars
  <2>2. \A t \in Slots : state'[t] = state[t] \/ state'[t] = "IDLE"
    BY <1>5 DEF NoPrompt, EmptyPrompt, PromptRefused, Release, ReleaseState, slotVars
  <2>3. batch = <<>> => state'[s] \in Waits
    <3>1. CASE NoPrompt(s)
      <4>1. ~PromptPending(s) /\ state' = state
        BY <3>1 DEF NoPrompt, slotVars
      <4>2. batch = <<>> => state[s] \notin Pending
        BY <1>4, <4>1 DEF PromptPending, Walk, Pending
      <4> QED
        BY <1>4, <4>1, <4>2
    <3>2. CASE EmptyPrompt(s) \/ PromptRefused(s)
      BY <3>2 DEF EmptyPrompt, PromptRefused, Release, ReleaseState, Waits
    <3> QED
      BY <1>5, <3>1, <3>2
  <2>4. \A t \in Slots : (t < s + 1 \/ t <= s) => t < s \/ t = s
    BY SlotsTyped DEF Typed, TypedWalk
  <2>5. ASSUME batch = <<>>, NEW t \in Slots
        PROVE  state'[t] # "GENERATING" /\ (t < s + 1 \/ t <= s => state'[t] \in Waits)
    BY <1>4, <2>2, <2>3, <2>4, <2>5 DEF Waits
  <2>6. (pc' = "prompts" /\ at' = s + 1) \/ (pc' = "decode" /\ \A t \in Slots : t <= s)
    BY <2>1, AdvanceIs
  <2> QED
    BY <1>1, <1>4, <2>1, <2>5, <2>6 DEF EmptyInv, Phases
<1>6. CASE PromptPostponed(s)
  <2> SUFFICES ASSUME batch = <<>> PROVE FALSE
    BY <1>6 DEF PromptPostponed, batchVars, EmptyInv
  <2>1. PromptReady(s) /\ DoesNotFit(s)
    BY <1>6 DEF PromptPostponed
  <2>2. ~TooLong(s) /\ state[s] \in Pending
    BY <2>1 DEF PromptReady, PromptPending, Fits, Pending
  <2>3. NTokens(s) \in Nat
    BY <2>2, BusyTask DEF Pending
  <2> QED
    BY <1>4, <2>1, <2>2, <2>3 DEF DoesNotFit, TooLong
<1> QED
  BY <1>2, <1>3, <1>5, <1>6 DEF PromptStep

LEMMA EmptyStep ==
    ASSUME Typed, Typed', MemInv, Fits, EmptyInv, [Next]_vars
    PROVE  EmptyInv'
<1>1. CASE UNCHANGED vars
  <2>1. Slots' = Slots
    BY <1>1 DEF vars, taskVars, Slots
  <2> QED
    BY <1>1, <2>1 DEF vars, slotVars, batchVars, EmptyInv
<1>2. CASE pc = "tasks" /\ TasksStep
  <2>1. pc' = "tasks" \/ (pc' = "shift" /\ slot_batched' = NoSlot)
    BY <1>2 DEF TasksStep, Launch, LaunchFails, Stop, Cancel, SetLora, BeginUpdate
  <2> QED
    BY <2>1 DEF EmptyInv, Phases
<1>3. CASE pc = "decode" /\ (EndUpdate \/ DecodeStep)
  <2>1. CASE EndUpdate \/ DecodeFatal \/ DecodeThrows
    BY <2>1 DEF EndUpdate, DecodeFatal, DecodeThrows, EmptyInv, Phases
  <2>2. CASE DecodeSucceeds \/ DecodeRetries
    <3>1. Decoding /\ batch' = batch /\ off \in Nat
      BY <2>2 DEF DecodeSucceeds, DecodeRetries, batchVars, Typed, TypedBatch
    <3>2. batch # <<>>
      BY <3>1 DEF Decoding
    <3> QED
      BY <3>1, <3>2 DEF EmptyInv
  <2> QED
    BY <1>3, <2>1, <2>2 DEF DecodeStep
<1>4. ASSUME NEW s \in Slots, pc = "post", PostStep(s) PROVE EmptyInv'
  <2>1. batch' = batch /\ off \in Nat /\ off < Len(batch)
    BY <1>4 DEF PostStep, NotSampling, SendOutputs, GoesOn, Ends, Generates, PostAdvance, batchVars,
       Typed, TypedBatch, MemInv, UpdateInv
  <2>2. batch # <<>>
    BY <2>1
  <2> QED
    BY <2>1, <2>2 DEF EmptyInv
<1> QED
  BY <1>1, <1>2, <1>3, <1>4, StepKinds, EmptyEarly, EmptyPrompts

----------------------------------------------------------------------------
(* Children.                                                                *)

LEMMA ErrorsStay ==
    ASSUME NEW R, NEW q \in Seq(R), NEW x, Contains(q, "error") \/ x = "error"
    PROVE  Contains(Append(q, x), "error")
<1>1. /\ Len(Append(q, x)) = Len(q) + 1 /\ Len(q) \in Nat
      /\ Append(q, x)[Len(q) + 1] = x
      /\ \A i \in 1 .. Len(q) : Append(q, x)[i] = q[i]
  OBVIOUS
<1>2. CASE Contains(q, "error")
  <2>1. PICK i \in 1 .. Len(q) : q[i] = "error"
    BY <1>2 DEF Contains
  <2>2. i \in 1 .. Len(q) + 1
    BY <1>1
  <2> QED
    BY <1>1, <2>1, <2>2 DEF Contains
<1>3. CASE x = "error"
  <2>1. Len(q) + 1 \in 1 .. Len(q) + 1
    BY <1>1
  <2> QED
    BY <1>1, <1>3, <2>1 DEF Contains
<1> QED
  BY <1>2, <1>3

(* Results and cancellations are only added.                                *)
Grown == \A q \in Posted : results'[q] = results[q] \/ \E x : results'[q] = Append(results[q], x)

LEMMA Grows ==
    ASSUME Typed, [Next]_vars
    PROVE  Grown /\ stopped \subseteq stopped'
<1>0. results \in [Posted -> Seq({"final", "error"})]
  BY DEF Typed, TypedTasks
<1>1. CASE UNCHANGED vars
  BY <1>1 DEF vars, slotVars, taskVars, Grown
<1>2. ASSUME NEW R, NEW x, Answer(R, x) PROVE Grown
  BY <1>2 DEF Answer, Grown
<1>3. CASE TasksStep
  <2>1. ASSUME NEW r \in Posted, LaunchFails(r) PROVE Grown /\ stopped' = stopped
    <3>1. PICK f : results' = [results EXCEPT ![f] = Append(@, "error")]
      BY <2>1 DEF LaunchFails
    <3> QED
      BY <1>0, <2>1, <3>1 DEF LaunchFails, Grown
  <2>2. ASSUME NEW r \in Posted, Launch(r) \/ Stop(r) PROVE Grown /\ stopped \subseteq stopped'
    BY <2>2 DEF Launch, Stop, slotVars, Grown
  <2>3. ASSUME (\E s \in Slots : Cancel(s)) \/ SetLora \/ BeginUpdate PROVE Grown /\ stopped' = stopped
    BY <2>3 DEF Cancel, SetLora, BeginUpdate, slotVars, taskVars, Grown
  <2> QED
    BY <1>3, <2>1, <2>2, <2>3 DEF TasksStep
<1>4. ASSUME NEW s \in Slots, EarlyStep(s) \/ PromptStep(s) PROVE Grown /\ stopped' = stopped
  <2>1. stopped' = stopped
    BY <1>4 DEF EarlyStep, PromptStep, NoShift, ShiftRefused, ShiftContext, AddSampled, NothingSampled,
       NoPrompt, EmptyPrompt, PromptRefused, PromptAborts, PromptPostponed, AddPrompt, taskVars
  <2>2. results' = results \/ \E x : Answer({s}, x)
    BY <1>4 DEF EarlyStep, PromptStep, NoShift, ShiftRefused, ShiftContext, AddSampled, NothingSampled,
       NoPrompt, EmptyPrompt, PromptRefused, PromptAborts, PromptPostponed, AddPrompt, slotVars
  <2> QED
    BY <1>2, <2>1, <2>2 DEF Grown
<1>5. ASSUME EndUpdate \/ DecodeStep PROVE Grown /\ stopped' = stopped
  <2>1. stopped' = stopped
    BY <1>5 DEF EndUpdate, DecodeStep, DecodeSucceeds, DecodeRetries, DecodeFatal, DecodeThrows, taskVars
  <2>2. results' = results \/ Answer(Processing, "error")
    BY <1>5 DEF EndUpdate, DecodeStep, DecodeSucceeds, DecodeRetries, DecodeFatal, DecodeThrows, slotVars
  <2> QED
    BY <1>2, <2>1, <2>2 DEF Grown
<1>6. ASSUME NEW s \in Slots, PostStep(s) PROVE Grown /\ stopped' = stopped
  <2>1. stopped' = stopped
    BY <1>6 DEF PostStep, NotSampling, SendOutputs, GoesOn, Ends, Generates, PostAdvance, taskVars
  <2>2. results' = results \/ \E x : Answer({s}, x)
    BY <1>6 DEF PostStep, NotSampling, SendOutputs, GoesOn, Ends, Generates, slotVars
  <2> QED
    BY <1>2, <2>1, <2>2 DEF Grown
<1> QED
  BY <1>1, <1>3, <1>4, <1>5, <1>6, StepKinds

LEMMA ExcuseStays ==
    ASSUME Typed, [Next]_vars, NEW r \in Posted, Excuse(r)
    PROVE  Excuse(r)'
<1>1. conf' = conf
  BY ConfKept
<1>2. Task' = Task /\ Posted' = Posted /\ Family(r)' = Family(r)
  BY <1>1, Fixed, TaskFixed
<1>3. Grown /\ stopped \subseteq stopped'
  BY Grows
<1>4. CASE Failed(r)
  <2>1. PICK q \in Family(r) : Contains(results[q], "error")
    BY <1>4 DEF Failed
  <2>2. q \in Posted
    BY <2>1, FamilyIs DEF Typed, TypedWalk
  <2>3. results[q] \in Seq({"final", "error"})
    BY <2>2 DEF Typed, TypedTasks
  <2>4. Contains(results'[q], "error")
    <3>1. CASE results'[q] = results[q]
      BY <2>1, <3>1
    <3>2. ASSUME NEW x, results'[q] = Append(results[q], x) PROVE Contains(results'[q], "error")
      BY <2>1, <2>3, <3>2, ErrorsStay
    <3> QED
      BY <1>3, <2>2, <3>1, <3>2 DEF Grown
  <2> QED
    BY <1>2, <2>1, <2>4 DEF Excuse, Failed
<1>5. CASE ~Failed(r)
  BY <1>2, <1>3, <1>5 DEF Excuse
<1> QED
  BY <1>4, <1>5

(* A parent that has not got to its children is released only when there is *)
(* nothing to wait for, or with everybody else.                             *)
LEMMA Leaves ==
    ASSUME Typed, [Next]_vars, NEW s \in Slots, state[s] # "IDLE", state'[s] = "IDLE"
    PROVE  \/ pc = "tasks" /\ task[s] \in stopped
           \/ pc = "prompts" /\ state[s] = "STARTED" /\ NTokens(s) = 0
           \/ pc \in {"shift", "prompts"} /\ Contains(results'[task[s]], "error")
           \/ pc = "decode" /\ \A t \in Slots : state'[t] = "IDLE"
           \/ pc = "post" /\ state[s] \in Sampled
<1>0. task[s] \in Posted /\ results[task[s]] \in Seq({"final", "error"})
  BY BusyTask DEF Typed, TypedTasks
<1>1. CASE UNCHANGED vars
  BY <1>1 DEF vars, slotVars
<1>2. CASE pc = "tasks" /\ TasksStep
  <2>1. ASSUME NEW r \in Posted, Launch(r) PROVE FALSE
    <3>1. PICK taken, given : Starts(r, taken, given)
      BY <2>1, LaunchIs
    <3> QED
      BY <3>1 DEF Starts, Idle, Processing
  <2>2. ASSUME NEW r \in Posted, LaunchFails(r) \/ Stop(r) PROVE FALSE
    BY <2>2 DEF LaunchFails, Stop, slotVars
  <2>3. ASSUME NEW t \in Slots, Cancel(t) PROVE task[s] \in stopped
    BY <2>3 DEF Cancel, Release, ReleaseState
  <2>4. CASE SetLora \/ BeginUpdate
    BY <2>4 DEF SetLora, BeginUpdate, slotVars
  <2> QED
    BY <1>2, <2>1, <2>2, <2>3, <2>4 DEF TasksStep
<1>3. ASSUME NEW t \in Slots, Answer({t}, "error"), Release({t})
      PROVE  Contains(results'[task[s]], "error")
  <2>1. s = t
    BY <1>3 DEF Release, ReleaseState
  <2>2. results'[task[s]] = Append(results[task[s]], "error")
    BY <1>0, <1>3, <2>1 DEF Answer
  <2> QED
    BY <1>0, <2>2, ErrorsStay
<1>4. ASSUME NEW t \in Slots, pc \in {"shift", "generate"}, EarlyStep(t)
      PROVE  pc = "shift" /\ Contains(results'[task[s]], "error")
  <2>1. CASE NoShift(t) \/ NothingSampled(t)
    BY <2>1 DEF NoShift, NothingSampled, slotVars
  <2>2. CASE ShiftContext(t) \/ AddSampled(t)
    BY <2>2 DEF ShiftContext, AddSampled
  <2>3. CASE ShiftRefused(t)
    BY <1>3, <2>3 DEF ShiftRefused, Walk
  <2> QED
    BY <1>4, <2>1, <2>2, <2>3 DEF EarlyStep
<1>5. ASSUME NEW t \in Slots, PromptStep(t)
      PROVE  (state[s] = "STARTED" /\ NTokens(s) = 0) \/ Contains(results'[task[s]], "error")
  <2>1. CASE NoPrompt(t) \/ PromptAborts(t)
    BY <2>1 DEF NoPrompt, PromptAborts, slotVars
  <2>2. CASE EmptyPrompt(t)
    BY <2>2 DEF EmptyPrompt, Release, ReleaseState
  <2>3. CASE PromptRefused(t)
    BY <1>3, <2>3 DEF PromptRefused
  <2>4. CASE PromptPostponed(t)
    BY <2>4 DEF PromptPostponed, Typed, TypedSlots
  <2>5. CASE AddPrompt(t)
    <3>1. state'[s] # "IDLE"
      BY <2>5, AddPromptIs DEF Still
    <3> QED
      BY <3>1
  <2> QED
    BY <1>5, <2>1, <2>2, <2>3, <2>4, <2>5 DEF PromptStep
<1>6. CASE pc = "decode" /\ (EndUpdate \/ DecodeStep)
  <2>1. CASE EndUpdate \/ DecodeRetries
    BY <2>1 DEF EndUpdate, DecodeRetries, slotVars
  <2>2. CASE DecodeFatal \/ DecodeThrows
    BY <1>6, <2>2 DEF DecodeFatal, DecodeThrows, ReleaseState, Processing
  <2>3. CASE DecodeSucceeds
    BY <2>3, DecodeIs
  <2> QED
    BY <1>6, <2>1, <2>2, <2>3 DEF DecodeStep
<1>7. ASSUME NEW t \in Slots, PostStep(t)
      PROVE  state[s] \in Sampled
  <2>1. CASE NotSampling(t)
    BY <2>1 DEF NotSampling, slotVars
  <2>2. CASE SendOutputs(t) \/ Ends(t)
    BY <2>2 DEF SendOutputs, Ends, Generates, ReleaseState, Sampling, Sampled
  <2>3. CASE GoesOn(t)
    BY <2>3 DEF GoesOn, Generates, Typed, TypedSlots
  <2> QED
    BY <1>7, <2>1, <2>2, <2>3 DEF PostStep
<1> QED
  BY <1>1, <1>2, <1>4, <1>5, <1>6, <1>7, StepKinds

LEMMA AttendsStep ==
    ASSUME Typed, Typed', TaskInv, MemInv, Fits, EmptyInv, [Next]_vars,
           NEW c \in Slots, state[c] = "WAIT_OTHER", state'[c] = "WAIT_OTHER", task'[c] = task[c],
           IsChild(task[c]), NEW s \in Slots, Attends(s, c)
    PROVE  Attends(s, c)' \/ Excuse(task[c])'
<1> DEFINE r == task[c]
           p == Task[task[c]].parent
<1>1. r \in Posted /\ p \in Posted /\ ~IsChild(p) /\ Root(r) = p /\ Root(p) = p /\ p \in Family(r) /\ task[s] = p
  <2>1. r \in Posted
    BY BusyTask
  <2>2. p \in Posted /\ ~IsChild(p)
    BY <2>1, ParentPosted DEF Typed, TypedWalk
  <2> QED
    BY <2>1, <2>2 DEF Root, Family, Attends
<1>2. conf' = conf /\ Task' = Task /\ Family(r)' = Family(r)
  BY ConfKept, Fixed, TaskFixed
<1>3. stopped \subseteq stopped'
  BY Grows
<1>4. ASSUME task'[s] = task[s] PROVE task'[s] = (Task[task[c]].parent)'
  BY <1>1, <1>2, <1>4
<1>5. Moves(s)
  BY SlotMoves
<1>6. ASSUME state[s] # "IDLE", state'[s] = "IDLE", state[s] \in Pending \/ pc # "post"
      PROVE  Excuse(r)'
  <2>1. CASE task[s] \in stopped
    <3>1. r \in stopped
      BY <1>1, <2>1 DEF TaskInv, RequestInv
    <3> QED
      BY <1>2, <1>3, <3>1 DEF Excuse
  <2>2. CASE state[s] = "STARTED" /\ NTokens(s) = 0
    <3>1. Task[p].tokens \in Seq(Nat) /\ Len(Task[p].tokens) = 0
      BY <1>1, <2>2, BusyTask DEF NTokens
    <3>2. Task[p].tokens = <<>>
      BY <3>1
    <3> QED
      BY <1>2, <3>2 DEF Excuse
  <2>3. CASE Contains(results'[task[s]], "error")
    BY <1>1, <1>2, <2>3 DEF Excuse, Failed
  <2> QED
    BY <1>6, <2>1, <2>2, <2>3, Leaves DEF Pending, Sampled
<1>7. CASE state[s] \in Pending
  <2>1. CASE Same(s)
    BY <1>4, <1>7, <2>1 DEF Attends, Same
  <2>2. CASE state'[s] = "IDLE"
    BY <1>6, <1>7, <2>2 DEF Pending
  <2>3. CASE task'[s] = task[s] /\ state'[s] \in {"PROCESSING_PROMPT", "DONE_PROMPT"}
             /\ pc = "prompts" /\ pc' \in {"prompts", "decode"} /\ off' = off
    <3>1. off' = 0
      BY <2>3 DEF MemInv, UpdateInv
    <3> QED
      BY <1>4, <2>3, <3>1 DEF Attends, Pending
  <2> QED
    BY <1>5, <1>7, <2>1, <2>2, <2>3 DEF Moves, Pending, Sampled
<1>8. CASE state[s] = "DONE_PROMPT" /\ pc \in {"prompts", "aborted"}
  <2>1. CASE state'[s] = "IDLE"
    BY <1>6, <1>8, <2>1
  <2>2. CASE Same(s)
    <3>1. CASE UNCHANGED vars
      BY <1>4, <1>8, <2>2, <3>1 DEF vars, Attends, Same
    <3>2. ASSUME NEW t \in Slots, pc = "prompts", PromptStep(t) PROVE Attends(s, c)'
      <4>1. off = 0
        BY <3>2 DEF MemInv, UpdateInv
      <4>2. off' = off /\ pc' \in {"prompts", "decode", "aborted"}
        BY <3>2 DEF PromptStep, NoPrompt, EmptyPrompt, PromptRefused, PromptAborts, PromptPostponed, AddPrompt,
           Advance, decodeVars
      <4> QED
        BY <1>4, <1>8, <2>2, <4>1, <4>2 DEF Attends, Same
    <3> QED
      BY <1>8, <3>1, <3>2, StepKinds
  <2> QED
    BY <1>5, <1>8, <2>1, <2>2 DEF Moves, Pending
<1>9. CASE state[s] = "DONE_PROMPT" /\ pc = "decode" /\ off = 0
  <2>1. CASE UNCHANGED vars
    BY <1>1, <1>2, <1>9, <2>1 DEF vars, slotVars, decodeVars, Attends
  <2>2. CASE EndUpdate
    <3>1. batch = <<>>
      BY <1>9, <2>2 DEF EndUpdate, Typed, TypedBatch
    <3> QED
      BY <1>9, <3>1, NoneDone
  <2>3. CASE DecodeSucceeds
    <3>1. c \in Activated
      BY <1>1, <1>9 DEF Activated, WaitingChildren
    <3> QED
      BY <2>3, <3>1, DecodeIs
  <2>4. CASE DecodeRetries
    BY <1>1, <1>2, <1>9, <2>4 DEF DecodeRetries, Attends
  <2>5. CASE DecodeFatal \/ DecodeThrows
    BY <2>5 DEF DecodeFatal, DecodeThrows, ReleaseState, Processing
  <2> QED
    BY <1>9, <2>1, <2>2, <2>3, <2>4, <2>5, StepKinds DEF DecodeStep
<1> QED
  BY <1>7, <1>8, <1>9 DEF Attends

LEMMA ChildStep ==
    ASSUME Typed, Typed', TaskInv, MemInv, Fits, EmptyInv, ChildInv, [Next]_vars
    PROVE  ChildInv'
<1>1. conf' = conf /\ Slots' = Slots /\ Task' = Task /\ \A q : IsChild(q)' = IsChild(q)
  BY ConfKept, Fixed, TaskFixed
<1> SUFFICES ASSUME NEW c \in Slots, state'[c] = "WAIT_OTHER"
             PROVE  IsChild(task'[c]) /\ (Excuse(task[c])' \/ \E s \in Slots : Attends(s, c)')
  BY <1>1 DEF ChildInv
<1>2. Moves(c)
  BY SlotMoves
<1>3. CASE state[c] = "WAIT_OTHER" /\ task'[c] = task[c]
  <2>1. IsChild(task[c]) /\ (Excuse(task[c]) \/ \E s \in Slots : Attends(s, c))
    BY <1>3 DEF ChildInv
  <2>2. ASSUME Excuse(task[c]) PROVE Excuse(task[c])'
    <3>1. task[c] \in Posted
      BY <1>3, BusyTask
    <3>2. PICK r \in Posted : r = task[c]
      BY <3>1
    <3>3. Excuse(r)'
      BY <2>2, <3>2, ExcuseStays
    <3> QED
      BY <1>3, <3>2, <3>3 DEF Excuse, Failed, Family, Children, IsChild
  <2>3. ASSUME NEW s \in Slots, Attends(s, c) PROVE Attends(s, c)' \/ Excuse(task[c])'
    BY <1>3, <2>1, <2>3, AttendsStep
  <2> QED
    BY <1>3, <2>1, <2>2, <2>3
<1>4. ASSUME NEW r \in Posted, Launch(r), state[c] = "IDLE"
      PROVE  IsChild(task'[c]) /\ \E s \in Slots : Attends(s, c)'
  <2>1. PICK taken, given : Starts(r, taken, given)
    BY <1>4, LaunchIs
  <2>2. c \in taken /\ IsChild(given[c]) /\ task'[c] = given[c]
    BY <1>4, <2>1 DEF Starts
  <2>3. ~IsChild(r)
    BY <1>4 DEF Launch, TaskInv, RequestInv
  <2>4. Task[given[c]].parent = r
    BY <2>1, <2>2, <2>3 DEF Starts, Children
  <2>5. PICK s \in taken : given[s] = r
    BY <2>1 DEF Starts
  <2>6. s \in Slots /\ state'[s] = "STARTED" /\ task'[s] = r
    BY <2>1, <2>3, <2>5 DEF Starts, Idle
  <2> QED
    BY <1>1, <2>2, <2>4, <2>6 DEF Attends, Pending
<1> QED
  BY <1>2, <1>3, <1>4 DEF Moves, Same

LEMMA ChildAwaits ==
    ASSUME Typed, ChildInv
    PROVE  ChildrenAwaitParent
<1> SUFFICES ASSUME pc = "tasks", NEW c \in Slots, state[c] = "WAIT_OTHER"
             PROVE  \/ Task[Task[task[c]].parent].tokens = <<>>
                    \/ \E s \in Holders(Task[task[c]].parent) : state[s] \in {"STARTED", "PROCESSING_PROMPT"}
                    \/ task[c] \in stopped
                    \/ \E q \in Family(task[c]) : Contains(results[q], "error")
  BY DEF ChildrenAwaitParent
<1>1. Excuse(task[c]) \/ \E s \in Slots : Attends(s, c)
  BY DEF ChildInv
<1> QED
  BY <1>1 DEF Excuse, Failed, Attends, Holders, Pending

----------------------------------------------------------------------------
(* Adapters.                                                                *)

(* A request without a lora field takes the server's adapters and does not  *)
(* look at those of the slot: it reuses only what it should when the server *)
(* has the same adapters all the time.                                      *)
Sole(l) == conf.loras = {l} /\ \A r \in Posted : Task[r].lora \in {DefaultLora, l}
LoraKnown == (\E r \in Posted : Task[r].lora = DefaultLora) => \E l \in Loras : Sole(l)

Own(cells, tokens, l) == \A p \in DOMAIN cells : p < Len(tokens) => cells[p].lora = l
OwnLora(s) == Own(kv[s], prompt[s], lora[s])

SoleInv   == /\ base_lora \in conf.loras
             /\ \A l \in Loras : Sole(l) => base_lora = l /\ \A s \in Slots : lora[s] = l
FamilyInv == \A s, t \in Slots :
                task[s] # NoRequest /\ task[t] # NoRequest /\ Root(task[s]) = Root(task[t]) => lora[s] = lora[t]
BatchInv  == pc # "tasks" => \A i \in DOMAIN batch : lora[batch[i].slot] = lora[slot_batched]
LoraInv   == SoleInv /\ FamilyInv /\ BatchInv /\ (LoraKnown => \A s \in Slots : OwnLora(s))

LEMMA SoleSame ==
    ASSUME conf' = conf
    PROVE  (\A l : Sole(l)' = Sole(l)) /\ LoraKnown' = LoraKnown
BY DEF Sole, LoraKnown, Posted, Task

LEMMA LorasKept ==
    ASSUME [Next]_vars
    PROVE  \/ lora' = lora /\ base_lora' = base_lora
           \/ pc = "tasks" /\ pc' = "tasks" /\ (SetLora \/ \E r \in Posted : Launch(r) \/ LaunchFails(r))
<1>1. CASE UNCHANGED vars
  BY <1>1 DEF vars, slotVars, taskVars
<1>2. CASE pc = "tasks" /\ TasksStep
  BY <1>2 DEF TasksStep, Launch, LaunchFails, Stop, Cancel, Release, SetLora, BeginUpdate, slotVars, taskVars
<1>3. ASSUME NEW s \in Slots, EarlyStep(s) \/ PromptStep(s) PROVE lora' = lora /\ base_lora' = base_lora
  BY <1>3 DEF EarlyStep, PromptStep, NoShift, ShiftRefused, ShiftContext, AddSampled, NothingSampled,
     NoPrompt, EmptyPrompt, PromptRefused, PromptAborts, PromptPostponed, AddPrompt, Release, slotVars, taskVars
<1>4. ASSUME EndUpdate \/ DecodeStep PROVE lora' = lora /\ base_lora' = base_lora
  BY <1>4 DEF EndUpdate, DecodeStep, DecodeSucceeds, DecodeRetries, DecodeFatal, DecodeThrows, slotVars, taskVars
<1>5. ASSUME NEW s \in Slots, PostStep(s) PROVE lora' = lora /\ base_lora' = base_lora
  BY <1>5 DEF PostStep, NotSampling, SendOutputs, GoesOn, Ends, Generates, PostAdvance, slotVars, taskVars
<1> QED
  BY <1>1, <1>2, <1>3, <1>4, <1>5, StepKinds

LEMMA SoleLora ==
    ASSUME Typed, SoleInv, NEW r \in Posted, NEW l \in Loras, Sole(l)
    PROVE  LoraOf(r) = l
BY DEF LoraOf, SoleInv, Sole

LEMMA SoleStep ==
    ASSUME Typed, SoleInv, [Next]_vars
    PROVE  SoleInv'
<1>1. conf' = conf /\ Slots' = Slots /\ \A l : Sole(l)' = Sole(l)
  BY ConfKept, Fixed, SoleSame
<1>2. CASE lora' = lora /\ base_lora' = base_lora
  BY <1>1, <1>2 DEF SoleInv
<1>3. CASE SetLora
  BY <1>1, <1>3 DEF SetLora, slotVars, SoleInv, Sole
<1>4. ASSUME NEW r \in Posted, Launch(r) PROVE SoleInv'
  <2>1. PICK taken, given : Starts(r, taken, given)
    BY <1>4, LaunchIs
  <2>2. base_lora' = base_lora
    BY <1>4 DEF Launch
  <2>3. ASSUME NEW l \in Loras, Sole(l), NEW s \in Slots PROVE lora'[s] = l
    <3>1. CASE s \in taken
      <4>1. given[s] \in Posted /\ lora'[s] = LoraOf(given[s])
        BY <1>4, <2>1, <3>1, LaunchIs DEF Starts
      <4> QED
        BY <2>3, <4>1, SoleLora
    <3>2. CASE s \notin taken
      BY <2>1, <2>3, <3>2 DEF Starts, SoleInv
    <3> QED
      BY <3>1, <3>2
  <2> QED
    BY <1>1, <2>2, <2>3 DEF SoleInv
<1>5. ASSUME NEW r \in Posted, LaunchFails(r) PROVE SoleInv'
  <2>1. PICK some : lora' = [c \in Slots |-> IF c \in some THEN LoraOf(r) ELSE lora[c]]
    BY <1>5 DEF LaunchFails
  <2>2. base_lora' = base_lora
    BY <1>5 DEF LaunchFails
  <2> QED
    BY <1>1, <2>1, <2>2, SoleLora DEF SoleInv
<1> QED
  BY <1>2, <1>3, <1>4, <1>5, LorasKept

(* Requests are launched by families, with the same adapters.               *)
LEMMA FamilyLora ==
    ASSUME Typed, NEW r \in Posted, NEW q \in {r} \cup Children(r)
    PROVE  LoraOf(q) = LoraOf(r)
<1>1. CASE q = r
  BY <1>1
<1>2. CASE q \in Children(r)
  <2>1. q \in Posted /\ Task[q].parent = r
    BY <1>2 DEF Children
  <2>2. IsChild(q)
    BY <2>1, ConfTyped DEF IsChild, Typed, TypedWalk
  <2>3. Task[q].lora = Task[r].lora
    BY <2>1, <2>2, ParentPosted DEF IsChildOf, Typed, TypedWalk
  <2> QED
    BY <2>3 DEF LoraOf
<1> QED
  BY <1>1, <1>2

LEMMA FamilyStep ==
    ASSUME Typed, Typed', TaskInv, Fits, FamilyInv, [Next]_vars
    PROVE  FamilyInv'
<1>1. conf' = conf /\ Slots' = Slots /\ \A q : Root(q)' = Root(q)
  BY ConfKept, Fixed, TaskFixed
<1> SUFFICES ASSUME NEW s \in Slots, NEW t \in Slots, task'[s] # NoRequest, task'[t] # NoRequest,
                    Root(task'[s]) = Root(task'[t])
             PROVE  lora'[s] = lora'[t]
  BY <1>1 DEF FamilyInv, Root, IsChild, Task
<1>2. \A c \in Slots : (state[c] = "IDLE" <=> task[c] = NoRequest) /\ (state'[c] = "IDLE" <=> task'[c] = NoRequest)
  BY <1>1 DEF Typed, TypedSlots
<1>3. ASSUME NEW r \in Posted, Launch(r) PROVE lora'[s] = lora'[t]
  <2>1. PICK taken, given : Starts(r, taken, given)
    BY <1>3, LaunchIs
  <2>2. r \in waiting /\ ~IsChild(r)
    BY <1>3 DEF Launch, TaskInv, RequestInv
  <2>3. ASSUME NEW c \in taken PROVE Root(task'[c]) = r /\ lora'[c] = LoraOf(r)
    <3>1. given[c] \in {r} \cup Children(r) /\ task'[c] = given[c] /\ lora'[c] = LoraOf(given[c])
      BY <2>1 DEF Starts
    <3>2. r # NoRequest
      BY ConfTyped DEF Typed, TypedWalk
    <3>3. Root(given[c]) = r
      BY <2>2, <3>1, <3>2 DEF Root, IsChild, Children
    <3> QED
      BY <3>1, <3>3, FamilyLora
  <2>4. ASSUME NEW c \in Slots, c \notin taken, task'[c] # NoRequest
        PROVE  task'[c] = task[c] /\ lora'[c] = lora[c] /\ Root(task'[c]) # r
    <3>1. task'[c] = task[c] /\ lora'[c] = lora[c]
      BY <2>1, <2>4 DEF Starts
    <3>2. Root(task[c]) \notin waiting
      BY <2>4, <3>1 DEF TaskInv, HolderInv
    <3> QED
      BY <2>2, <3>1, <3>2
  <2> QED
    BY <2>3, <2>4 DEF FamilyInv
<1>4. ASSUME NEW r \in Posted, LaunchFails(r) PROVE lora'[s] = lora'[t]
  <2>1. PICK some : some \subseteq Idle /\ lora' = [c \in Slots |-> IF c \in some THEN LoraOf(r) ELSE lora[c]]
    BY <1>4, ZenonT(40) DEF LaunchFails
  <2>2. task' = task /\ \A c \in some : task[c] = NoRequest
    BY <1>2, <1>4, <2>1 DEF LaunchFails, Idle, Processing
  <2> QED
    BY <2>1, <2>2 DEF FamilyInv
<1>5. CASE lora' = lora /\ ~\E r \in Posted : Launch(r)
  <2>1. Moves(s) /\ Moves(t)
    BY SlotMoves
  <2>2. task'[s] = task[s] /\ task'[t] = task[t]
    BY <1>2, <1>5, <2>1 DEF Moves, Same
  <2> QED
    BY <1>5, <2>2 DEF FamilyInv
<1>6. CASE SetLora
  BY <1>6 DEF SetLora, slotVars, FamilyInv
<1> QED
  BY <1>3, <1>4, <1>5, <1>6, LorasKept

LEMMA BatchStep ==
    ASSUME Typed, Typed', MemInv, BatchInv, [Next]_vars
    PROVE  BatchInv'
<1> SUFFICES ASSUME pc' # "tasks", NEW i \in DOMAIN batch' PROVE lora'[batch'[i].slot] = lora'[slot_batched']
  BY DEF BatchInv
<1>1. lora' = lora
  BY LorasKept
<1>2. batch \in Seq(Entry) /\ (batch # <<>> => slot_batched # NoSlot)
  BY DEF Typed, TypedBatch
<1>3. ASSUME NEW s \in Slots, NEW q \in Seq(Nat), NEW n \in Nat, conf' = conf, pc # "tasks",
             batch' = batch \o Entries(s, q, n), CanBatch(s), Batched(s)
      PROVE  lora[batch'[i].slot] = lora[slot_batched']
  <2>0. Len(q) \in Nat /\ (i \in DOMAIN batch' => i \in 1 .. Len(batch'))
    BY <1>3, BatchGrows
  <2>1. /\ Len(batch) \in Nat /\ Len(batch') = Len(batch) + Len(q) /\ batch' \in Seq(Entry)
        /\ \A j \in 1 .. Len(batch) : batch'[j] = batch[j]
        /\ \A j \in 1 .. Len(q) : batch'[Len(batch) + j] = [slot |-> s, token |-> q[j], pos |-> n + j - 1]
    BY <1>3, BatchGrows
  <2>2. lora[slot_batched'] = lora[s]
    BY <1>3 DEF CanBatch, Batched
  <2>3. i \in 1 .. Len(batch) + Len(q)
    BY <2>0, <2>1
  <2>4. CASE i <= Len(batch)
    <3>1. i \in 1 .. Len(batch) /\ i \in DOMAIN batch
      BY <1>2, <2>1, <2>3, <2>4
    <3>2. batch # <<>> /\ batch'[i] = batch[i]
      BY <1>2, <2>1, <3>1
    <3>3. slot_batched' = slot_batched
      BY <1>2, <1>3, <3>2 DEF Batched
    <3> QED
      BY <1>3, <3>1, <3>2, <3>3 DEF BatchInv
  <2>5. CASE ~(i <= Len(batch))
    <3>1. PICK j \in 1 .. Len(q) : i = Len(batch) + j
      <4>1. i - Len(batch) \in 1 .. Len(q) /\ i = Len(batch) + (i - Len(batch))
        BY <2>1, <2>3, <2>5
      <4> QED
        BY <4>1
    <3>2. batch'[i] = [slot |-> s, token |-> q[j], pos |-> n + j - 1]
      BY <2>1, <3>1
    <3>3. batch'[i].slot = s
      BY <3>2
    <3> QED
      BY <2>2, <3>3
  <2> QED
    BY <2>4, <2>5
<1>4. ASSUME NEW s \in Slots, AddSampled(s) PROVE lora'[batch'[i].slot] = lora'[slot_batched']
  <2>1. /\ batch' = batch \o Entries(s, <<SampledToken>>, Len(prompt[s])) /\ CanBatch(s) /\ Batched(s)
        /\ conf' = conf /\ pc # "tasks" /\ Len(prompt[s]) \in Nat
    BY <1>4 DEF AddSampled, Walk, taskVars, Typed, TypedCache
  <2>2. <<SampledToken>> \in Seq(Nat)
    BY DEF SampledToken
  <2> QED
    BY <1>1, <1>3, <2>1, <2>2
<1>5. ASSUME NEW s \in Slots, AddPrompt(s) PROVE lora'[batch'[i].slot] = lora'[slot_batched']
  <2>1. CanBatch(s) /\ Batched(s) /\ pc # "tasks"
    BY <1>5 DEF AddPrompt, PromptReady, PromptPending, Walk
  <2>2. batch' = batch \o Entries(s, New(s), First(s)) /\ conf' = conf /\ New(s) \in Seq(Nat) /\ First(s) \in Nat
    BY <1>5, AddPromptIs, NewIs
  <2> QED
    BY <1>1, <1>3, <2>1, <2>2
<1>6. CASE BeginUpdate
  BY <1>6 DEF BeginUpdate
<1>7. CASE pc # "tasks" /\ UNCHANGED batchVars
  BY <1>1, <1>7 DEF BatchInv, batchVars
<1>8. ASSUME ~BeginUpdate, ~\E s \in Slots : AddSampled(s) \/ AddPrompt(s)
      PROVE  pc # "tasks" /\ UNCHANGED batchVars
  <2>1. CASE UNCHANGED vars
    BY <2>1 DEF vars
  <2>2. CASE TasksStep /\ pc = "tasks"
    BY <1>8, <2>2 DEF TasksStep, Launch, LaunchFails, Stop, Cancel, SetLora
  <2>3. ASSUME NEW s \in Slots, EarlyStep(s) \/ PromptStep(s) PROVE UNCHANGED batchVars
    BY <1>8, <2>3 DEF EarlyStep, PromptStep, NoShift, ShiftRefused, ShiftContext, NothingSampled,
       NoPrompt, EmptyPrompt, PromptRefused, PromptAborts, PromptPostponed
  <2>4. ASSUME EndUpdate \/ DecodeStep PROVE UNCHANGED batchVars
    BY <2>4 DEF EndUpdate, DecodeStep, DecodeSucceeds, DecodeRetries, DecodeFatal, DecodeThrows
  <2>5. ASSUME NEW s \in Slots, PostStep(s) PROVE UNCHANGED batchVars
    BY <2>5 DEF PostStep, NotSampling, SendOutputs, GoesOn, Ends, Generates, PostAdvance
  <2> QED
    BY <2>1, <2>2, <2>3, <2>4, <2>5, StepKinds DEF vars
<1> QED
  BY <1>4, <1>5, <1>6, <1>7, <1>8

(* What a slot keeps of the memory was computed with its adapters.          *)
LEMMA OwnGone ==
    ASSUME NEW cells \in Cells, NEW tokens, NEW l, tokens = <<>> \/ cells = NoCells
    PROVE  Own(cells, tokens, l)
<1>1. CASE tokens = <<>>
  <2>1. \A p \in DOMAIN cells : p \in Nat
    BY CellsAre
  <2>2. Len(tokens) = 0
    BY <1>1
  <2> QED
    BY <2>1, <2>2 DEF Own
<1>2. CASE cells = NoCells
  BY <1>2, NoCellsTyped DEF Own
<1> QED
  BY <1>1, <1>2

(* The memory is left alone or forgotten.                                   *)
Leave(s) == /\ lora'[s] = lora[s]
            /\ \/ prompt'[s] = prompt[s] /\ kv'[s] = kv[s]
               \/ prompt'[s] = <<>> \/ kv'[s] = NoCells

LEMMA OwnLeft ==
    ASSUME Typed', conf' = conf, NEW s \in Slots, Leave(s), OwnLora(s)
    PROVE  OwnLora(s)'
<1>1. kv'[s] \in Cells
  BY Fixed DEF Typed, TypedCache
<1>2. CASE prompt'[s] = prompt[s] /\ kv'[s] = kv[s]
  BY <1>2 DEF Leave, OwnLora
<1>3. CASE prompt'[s] = <<>> \/ kv'[s] = NoCells
  BY <1>1, <1>3, OwnGone DEF OwnLora
<1> QED
  BY <1>2, <1>3 DEF Leave

LEMMA ClearLeaves ==
    ASSUME NEW R, Clear(R), lora' = lora, NEW s \in Slots
    PROVE  Leave(s)
BY DEF Clear, Leave

LEMMA KeptLora ==
    ASSUME Typed, SoleInv, LoraKnown, NEW s \in Slots, NEW r \in Posted
    PROVE  \/ KeptPrompt(s, r) = <<>>
           \/ KeptPrompt(s, r) = prompt[s] /\ LoraOf(r) = lora[s]
<1>1. CASE Task[r].lora # DefaultLora
  BY <1>1 DEF KeptPrompt, LoraOf
<1>2. CASE Task[r].lora = DefaultLora
  <2>1. PICK l \in Loras : Sole(l)
    BY <1>2 DEF LoraKnown
  <2> QED
    BY <1>2, <2>1 DEF KeptPrompt, LoraOf, SoleInv
<1> QED
  BY <1>1, <1>2

LEMMA OwnTaken ==
    ASSUME Typed, Typed', conf' = conf, SoleInv, LoraKnown, NEW s \in Slots, OwnLora(s), NEW r \in Posted,
           prompt'[s] = KeptPrompt(s, r), kv'[s] = kv[s], lora'[s] = LoraOf(r)
    PROVE  OwnLora(s)'
<1>1. kv'[s] \in Cells
  BY Fixed DEF Typed, TypedCache
<1>2. CASE KeptPrompt(s, r) = <<>>
  BY <1>1, <1>2, OwnGone DEF OwnLora
<1>3. CASE KeptPrompt(s, r) = prompt[s] /\ LoraOf(r) = lora[s]
  BY <1>3 DEF OwnLora
<1> QED
  BY <1>2, <1>3, KeptLora

LEMMA ChildLora ==
    ASSUME Typed, FamilyInv, NEW c \in Slots, state[c] = "WAIT_OTHER", IsChild(task[c]),
           NEW t \in Slots, task[t] = Task[task[c]].parent
    PROVE  lora[c] = lora[t]
<1>1. task[c] \in Posted /\ conf \in Confs
  BY BusyTask DEF Typed, TypedWalk
<1>2. task[t] \in Posted /\ ~IsChild(task[t])
  BY <1>1, ParentPosted
<1>3. task[c] # NoRequest /\ task[t] # NoRequest
  BY <1>1, <1>2, ConfTyped
<1>4. Root(task[c]) = task[t] /\ Root(task[t]) = task[t]
  BY <1>2 DEF Root
<1> QED
  BY <1>3, <1>4 DEF FamilyInv

LEMMA OwnTasks ==
    ASSUME Typed, Typed', LoraInv, LoraKnown, conf' = conf, TasksStep, NEW s \in Slots
    PROVE  OwnLora(s)'
<1>0. SoleInv /\ OwnLora(s)
  BY DEF LoraInv
<1>1. ASSUME NEW r \in Posted, Launch(r) PROVE OwnLora(s)'
  <2>1. PICK taken, given : Starts(r, taken, given)
    BY <1>1, LaunchIs
  <2>2. CASE s \in taken
    <3>1. given[s] \in Posted
      BY <1>1, <2>1, <2>2, LaunchIs DEF Starts
    <3>2. prompt'[s] = KeptPrompt(s, given[s]) /\ kv'[s] = kv[s] /\ lora'[s] = LoraOf(given[s])
      BY <2>1, <2>2 DEF Starts
    <3> QED
      BY <1>0, <3>1, <3>2, OwnTaken
  <2>3. CASE s \notin taken
    <3>1. Leave(s)
      BY <2>1, <2>3 DEF Starts, Leave
    <3> QED
      BY <1>0, <3>1, OwnLeft
  <2> QED
    BY <2>2, <2>3
<1>2. ASSUME NEW r \in Posted, LaunchFails(r) PROVE OwnLora(s)'
  <2>1. PICK t \in Idle : \E launched \in SUBSET (Idle \ {t}) :
          /\ prompt' = [c \in Slots |-> IF c \in launched THEN <<>>
                                         ELSE IF c = t THEN KeptPrompt(t, r) ELSE prompt[c]]
          /\ kv' = [c \in Slots |-> IF c \in launched THEN NoCells ELSE kv[c]]
          /\ lora' = [c \in Slots |-> IF c \in launched \cup {t} THEN LoraOf(r) ELSE lora[c]]
    BY <1>2 DEF LaunchFails
  <2>2. PICK launched \in SUBSET (Idle \ {t}) :
          /\ prompt' = [c \in Slots |-> IF c \in launched THEN <<>>
                                         ELSE IF c = t THEN KeptPrompt(t, r) ELSE prompt[c]]
          /\ kv' = [c \in Slots |-> IF c \in launched THEN NoCells ELSE kv[c]]
          /\ lora' = [c \in Slots |-> IF c \in launched \cup {t} THEN LoraOf(r) ELSE lora[c]]
    BY <2>1
  <2>3. CASE s \in launched
    <3>1. kv'[s] = NoCells
      BY <2>2, <2>3
    <3>2. Own(kv'[s], prompt'[s], lora'[s])
      BY <3>1, NoCellsTyped, OwnGone
    <3> QED
      BY <3>2 DEF OwnLora
  <2>4. CASE s = t
    <3>1. prompt'[s] = KeptPrompt(s, r) /\ kv'[s] = kv[s] /\ lora'[s] = LoraOf(r)
      BY <2>2, <2>4
    <3> QED
      BY <1>0, <3>1, OwnTaken
  <2>5. CASE s # t /\ s \notin launched
    <3>1. Leave(s)
      BY <2>2, <2>5 DEF Leave
    <3> QED
      BY <1>0, <3>1, OwnLeft
  <2> QED
    BY <2>3, <2>4, <2>5
<1>3. CASE UNCHANGED <<lora, prompt, kv>>
  BY <1>0, <1>3 DEF OwnLora
<1>4. ASSUME NEW t \in Slots, Cancel(t) PROVE OwnLora(s)'
  <2>1. Leave(s)
    BY <1>4, ClearLeaves DEF Cancel, Release
  <2> QED
    BY <1>0, <2>1, OwnLeft
<1>5. ASSUME (\E r \in Posted : Stop(r)) \/ SetLora \/ BeginUpdate PROVE UNCHANGED <<lora, prompt, kv>>
  BY <1>5 DEF Stop, SetLora, BeginUpdate, slotVars
<1> QED
  BY <1>1, <1>2, <1>3, <1>4, <1>5 DEF TasksStep

LEMMA OwnEarly ==
    ASSUME Typed, Typed', MemInv, LoraInv, LoraKnown, conf' = conf, NEW t \in Slots, EarlyStep(t), NEW s \in Slots
    PROVE  OwnLora(s)'
<1>0. OwnLora(s) /\ kv[s] \in Cells /\ prompt[s] \in Seq(Nat) /\ prompt \in [Slots -> Seq(Nat)]
  BY DEF LoraInv, Typed, TypedCache
<1>1. CASE NoShift(t) \/ NothingSampled(t)
  BY <1>0, <1>1 DEF NoShift, NothingSampled, slotVars, OwnLora
<1>2. CASE ShiftRefused(t)
  <2>1. Leave(s)
    BY <1>2, ClearLeaves DEF ShiftRefused, Release
  <2> QED
    BY <1>0, <2>1, OwnLeft
<1>3. CASE (ShiftContext(t) \/ AddSampled(t)) /\ s # t
  <2>1. Leave(s)
    BY <1>3 DEF ShiftContext, AddSampled, Leave, Typed, TypedCache
  <2> QED
    BY <1>0, <2>1, OwnLeft
<1>4. CASE ShiftContext(s)
  <2> DEFINE n == Len(prompt[s])
             k == conf.n_keep
             d == Discard(s)
  <2>1. n \in Nat /\ k \in Nat /\ n >= k
    <3>1. conf.n_ctx \in Nat /\ conf.n_keep \in Nat /\ conf.n_keep + 4 <= conf.n_ctx
      BY ConfTyped DEF Typed, TypedWalk
    <3>2. Len(prompt[s]) \in Nat /\ Len(prompt[s]) + 1 >= conf.n_ctx
      BY <1>0, <1>4 DEF ShiftContext, ContextFull
    <3> QED
      BY <3>1, <3>2
  <2>2. d \in Nat /\ k + 2 * d <= n
    BY <2>1, DiscardIs
  <2>3. prompt'[s] = SubSeq(prompt[s], 1, k) \o SubSeq(prompt[s], k + d + 1, n)
    BY <1>0, <1>4 DEF ShiftContext
  <2>4. kv'[s] = SeqShift(kv[s], k, d) /\ lora'[s] = lora[s]
    BY <1>4 DEF ShiftContext, Typed, TypedCache
  <2> HIDE DEF n, k, d
  <2>5. Len(prompt'[s]) = n - d
    <3>1. SubSeq(prompt[s], 1, k) \in Seq(Nat) /\ Len(SubSeq(prompt[s], 1, k)) = k
      BY <1>0, <2>1, StartOf DEF n
    <3>2. k + d + 1 \in Nat \ {0} /\ n <= Len(prompt[s])
      BY <2>1, <2>2 DEF n
    <3>3. /\ SubSeq(prompt[s], k + d + 1, n) \in Seq(Nat)
          /\ Len(SubSeq(prompt[s], k + d + 1, n)) = IF k + d + 1 <= n THEN n - (k + d + 1) + 1 ELSE 0
      BY <1>0, <2>1, <3>2, PartOf
    <3>4. Len(SubSeq(prompt[s], k + d + 1, n)) = n - (k + d)
      BY <2>1, <2>2, <3>3
    <3>5. Len(prompt'[s]) = k + (n - (k + d))
      BY <2>3, <3>1, <3>3, <3>4, Joined
    <3> QED
      BY <2>1, <2>2, <3>5
  <2>6. ASSUME NEW p \in DOMAIN kv'[s], p < n - d PROVE kv'[s][p].lora = lora[s]
    <3>1. /\ \/ p < k /\ p \in DOMAIN kv[s]
             \/ \E q \in DOMAIN kv[s] : q >= k + d /\ p = q - d
          /\ kv'[s][p] = IF p < k THEN kv[s][p] ELSE kv[s][p + d]
      <4>1. /\ DOMAIN SeqShift(kv[s], k, d) =
                  {q \in DOMAIN kv[s] : q < k} \cup {q - d : q \in {q \in DOMAIN kv[s] : q >= k + d}}
            /\ \A x \in DOMAIN SeqShift(kv[s], k, d) :
                  SeqShift(kv[s], k, d)[x] = IF x < k THEN kv[s][x] ELSE kv[s][x + d]
        BY <1>0, <2>1, <2>2, SeqShiftIs
      <4>2. p \in DOMAIN SeqShift(kv[s], k, d)
        BY <2>4
      <4>3. kv'[s][p] = IF p < k THEN kv[s][p] ELSE kv[s][p + d]
        BY <2>4, <4>1, <4>2
      <4>4. p \in {q \in DOMAIN kv[s] : q < k} \/ p \in {q - d : q \in {q \in DOMAIN kv[s] : q >= k + d}}
        BY <4>1, <4>2
      <4> QED
        BY <4>3, <4>4
    <3>2. \A q \in DOMAIN kv[s] : q \in Nat /\ (q < n => kv[s][q].lora = lora[s])
      BY <1>0, CellsAre DEF OwnLora, Own, n
    <3>3. CASE p < k /\ p \in DOMAIN kv[s]
      <4>1. p < n
        BY <2>1, <3>2, <3>3
      <4> QED
        BY <3>1, <3>2, <3>3, <4>1
    <3>4. ASSUME NEW q \in DOMAIN kv[s], q >= k + d, p = q - d PROVE kv'[s][p].lora = lora[s]
      <4>1. q \in Nat
        BY <3>2
      <4>2. ~(p < k) /\ p + d = q /\ q < n
        BY <2>1, <2>2, <2>6, <3>4, <4>1
      <4> QED
        BY <3>1, <3>2, <4>2
    <3> QED
      BY <3>1, <3>3, <3>4
  <2> QED
    BY <2>4, <2>5, <2>6 DEF OwnLora, Own
<1>5. CASE AddSampled(s)
  <2>1. state[s] = "GENERATING" /\ kv'[s] = kv[s] /\ lora'[s] = lora[s]
    BY <1>5 DEF AddSampled
  <2>2. Inside(kv[s], prompt[s])
    BY <2>1 DEF MemInv, SlotMem, SlotGood, Good, Sampled
  <2> QED
    BY <1>0, <2>1, <2>2 DEF OwnLora, Own, Inside
<1> QED
  BY <1>1, <1>2, <1>3, <1>4, <1>5 DEF EarlyStep

LEMMA OwnPrompts ==
    ASSUME Typed, Typed', MemInv, LoraInv, LoraKnown, conf' = conf, NEW t \in Slots, PromptStep(t), NEW s \in Slots
    PROVE  OwnLora(s)'
<1>0. OwnLora(s) /\ OwnLora(t) /\ kv[s] \in Cells /\ kv[t] \in Cells /\ prompt \in [Slots -> Seq(Nat)]
  BY DEF LoraInv, Typed, TypedCache
<1>1. CASE NoPrompt(t) \/ PromptAborts(t)
  BY <1>0, <1>1 DEF NoPrompt, PromptAborts, slotVars, OwnLora
<1>2. CASE EmptyPrompt(t) \/ PromptRefused(t)
  <2>1. Leave(s)
    BY <1>2, ClearLeaves DEF EmptyPrompt, PromptRefused, Release
  <2> QED
    BY <1>0, <2>1, OwnLeft
<1>3. CASE PromptPostponed(t)
  <2>1. prompt' = [prompt EXCEPT ![t] = Kept(t)] /\ kv' = kv /\ lora' = lora /\ state[t] # "IDLE"
    BY <1>3 DEF PromptPostponed, PromptReady, PromptPending
  <2>2. CASE s # t
    <3>1. Leave(s)
      BY <1>0, <2>1, <2>2 DEF Leave
    <3> QED
      BY <1>0, <3>1, OwnLeft
  <2>3. CASE s = t
    <3>1. Len(Kept(s)) \in Nat /\ Len(Kept(s)) <= Len(prompt[s]) /\ Len(prompt[s]) \in Nat
      BY <1>0, <2>1, <2>3, KeptIs
    <3>2. prompt'[s] = Kept(s) /\ \A p \in DOMAIN kv[s] : p \in Nat
      BY <1>0, <2>1, <2>3, CellsAre
    <3>3. \A p \in DOMAIN kv[s] : p < Len(Kept(s)) => p < Len(prompt[s])
      BY <3>1, <3>2
    <3> QED
      BY <1>0, <2>1, <3>2, <3>3 DEF OwnLora, Own
  <2> QED
    BY <2>2, <2>3
<1>4. CASE AddPrompt(t)
  <2>1. lora' = lora
    BY <1>4 DEF AddPrompt
  <2>2. First(t) \in Nat /\ First(t) <= Len(prompt[t]) /\ Len(prompt[t]) \in Nat
    BY <1>0, <1>4, NewIs
  <2>3. \A p \in DOMAIN Truncated(t) : p \in DOMAIN kv[t] /\ p < First(t) /\ Truncated(t)[p] = kv[t][p]
    BY <1>0, <2>2, SeqRmIs DEF Truncated, First
  <2>4. ASSUME NEW p \in DOMAIN Truncated(t) PROVE Truncated(t)[p].lora = lora[t]
    <3>1. p \in Nat /\ p < Len(prompt[t])
      BY <1>0, <2>2, <2>3, CellsAre
    <3> QED
      BY <1>0, <2>3, <3>1 DEF OwnLora, Own
  <2>5. CASE s = t
    <3>1. kv'[s] = Truncated(t)
      BY <1>4, <2>5, AddPromptIs
    <3> QED
      BY <2>1, <2>4, <2>5, <3>1 DEF OwnLora, Own
  <2>6. CASE s \in Begun(t)
    <3>1. kv'[s] = Truncated(t) /\ state[s] = "WAIT_OTHER"
      BY <1>4, <2>6, AddPromptIs
    <3>2. Task[task[s]].parent = task[t]
      BY <2>6 DEF Begun, WaitingChildren
    <3>3. IsChild(task[s])
      BY <3>1 DEF MemInv, SharedInv
    <3>4. lora[s] = lora[t]
      BY <3>1, <3>2, <3>3, ChildLora DEF LoraInv
    <3> QED
      BY <2>1, <2>4, <3>1, <3>4 DEF OwnLora, Own
  <2>7. CASE s # t /\ s \notin Begun(t)
    <3>1. Leave(s)
      BY <1>4, <2>1, <2>7, AddPromptIs DEF Still, Leave
    <3> QED
      BY <1>0, <3>1, OwnLeft
  <2> QED
    BY <2>5, <2>6, <2>7
<1> QED
  BY <1>1, <1>2, <1>3, <1>4 DEF PromptStep

(* What is computed is computed with the adapters of the batch.             *)
LEMMA OwnComputed ==
    ASSUME Typed, BatchInv, Decoding, NEW s \in Slots, OwnLora(s)
    PROVE  Own(Computed[s], prompt[s], lora[s])
<1>1. /\ DOMAIN Computed[s] = DOMAIN kv[s] \cup {e.pos : e \in ViewOf(s)}
      /\ \A p \in DOMAIN Computed[s] :
            /\ (~\E e \in ViewOf(s) : e.pos = p) => Computed[s][p] = kv[s][p]
            /\ (\E e \in ViewOf(s) : e.pos = p) => Computed[s][p].lora = lora[slot_batched]
  BY ComputedIs
<1> SUFFICES ASSUME NEW p \in DOMAIN Computed[s], p < Len(prompt[s]) PROVE Computed[s][p].lora = lora[s]
  BY DEF Own
<1>2. ASSUME NEW e \in ViewOf(s), e.pos = p PROVE Computed[s][p].lora = lora[s]
  <2>1. PICK i \in DOMAIN batch : batch[i].slot = s
    BY ViewOfIs
  <2>2. lora[s] = lora[slot_batched]
    BY <2>1 DEF BatchInv, Decoding
  <2> QED
    BY <1>1, <1>2, <2>2
<1>3. CASE ~\E e \in ViewOf(s) : e.pos = p
  <2>1. p \in DOMAIN kv[s] /\ Computed[s][p] = kv[s][p]
    BY <1>1, <1>3
  <2> QED
    BY <2>1 DEF OwnLora, Own
<1> QED
  BY <1>2, <1>3

LEMMA OwnDecode ==
    ASSUME Typed, Typed', MemInv, LoraInv, LoraKnown, conf' = conf, EndUpdate \/ DecodeStep, NEW s \in Slots
    PROVE  OwnLora(s)'
<1>0. FamilyInv /\ BatchInv /\ \A t \in Slots : OwnLora(t)
  BY DEF LoraInv
<1>1. CASE EndUpdate
  BY <1>0, <1>1 DEF EndUpdate, slotVars, OwnLora
<1>2. CASE DecodeRetries
  <2>1. lora' = lora /\ ((\E t : Clear({t})) \/ UNCHANGED <<prompt, kv>>)
    BY <1>2 DEF DecodeRetries
  <2>2. Leave(s)
    BY <2>1, ClearLeaves DEF Leave
  <2> QED
    BY <1>0, <2>2, OwnLeft
<1>3. CASE DecodeFatal
  <2>1. Leave(s)
    BY <1>3, ClearLeaves DEF DecodeFatal
  <2> QED
    BY <1>0, <2>1, OwnLeft
<1>4. CASE DecodeThrows
  <2>1. /\ lora' = lora /\ Decoding
        /\ \E cells \in {kv} \cup (IF \A c \in Slots : Consistent(c) THEN {Computed} ELSE {}) :
             kv' = [t \in Slots |-> IF t \in Processing /\ ClearedOnRelease(t) THEN NoCells ELSE cells[t]]
        /\ prompt' = [t \in Slots |-> IF t \in Processing /\ ClearedOnRelease(t) THEN <<>> ELSE prompt[t]]
    BY <1>4 DEF DecodeThrows
  <2>2. PICK cells \in {kv, Computed} :
             kv' = [t \in Slots |-> IF t \in Processing /\ ClearedOnRelease(t) THEN NoCells ELSE cells[t]]
    BY <2>1
  <2>3. CASE s \in Processing /\ ClearedOnRelease(s)
    <3>1. Leave(s)
      BY <2>1, <2>2, <2>3 DEF Leave
    <3> QED
      BY <1>0, <3>1, OwnLeft
  <2>4. CASE ~(s \in Processing /\ ClearedOnRelease(s))
    <3>1. kv'[s] = cells[s] /\ prompt'[s] = prompt[s] /\ lora'[s] = lora[s]
      BY <2>1, <2>2, <2>4
    <3>2. Own(Computed[s], prompt[s], lora[s]) /\ Own(kv[s], prompt[s], lora[s])
      BY <1>0, <2>1, OwnComputed DEF OwnLora
    <3>3. Own(cells[s], prompt[s], lora[s])
      BY <2>2, <3>2
    <3> QED
      BY <3>1, <3>3 DEF OwnLora
  <2> QED
    BY <2>3, <2>4
<1>5. CASE DecodeSucceeds
  <2>0. lora' = lora /\ Decoding
    BY <1>5 DEF DecodeSucceeds
  <2>1. \A t \in Slots : Own(Computed[t], prompt[t], lora[t])
    BY <1>0, <2>0, OwnComputed
  <2>2. CASE s \notin Activated
    <3>1. kv'[s] = Computed[s] /\ prompt'[s] = prompt[s]
      BY <1>5, <2>2, DecodeIs
    <3> QED
      BY <2>0, <2>1, <3>1 DEF OwnLora
  <2>3. CASE s \in Activated
    <3>1. kv'[s] = Computed[Donor(s)] /\ prompt'[s] = prompt[Donor(s)]
      BY <1>5, <2>3, DecodeIs
    <3>2. state[s] = "WAIT_OTHER" /\ Donor(s) \in Slots /\ task[Donor(s)] = Task[task[s]].parent
      BY <2>3, CopiedIs
    <3>3. IsChild(task[s])
      BY <3>2 DEF MemInv, SharedInv
    <3>4. lora[s] = lora[Donor(s)]
      BY <1>0, <3>2, <3>3, ChildLora
    <3> QED
      BY <2>0, <2>1, <3>1, <3>2, <3>4 DEF OwnLora
  <2> QED
    BY <2>2, <2>3
<1> QED
  BY <1>1, <1>2, <1>3, <1>4, <1>5 DEF DecodeStep

LEMMA OwnPost ==
    ASSUME Typed', LoraInv, LoraKnown, conf' = conf, NEW t \in Slots, PostStep(t), NEW s \in Slots
    PROVE  OwnLora(s)'
<1>1. OwnLora(s)
  BY DEF LoraInv
<1>2. CASE NotSampling(t) \/ GoesOn(t)
  BY <1>1, <1>2 DEF NotSampling, GoesOn, Generates, slotVars, OwnLora
<1>3. CASE SendOutputs(t) \/ Ends(t)
  <2>1. lora' = lora /\ Clear({c \in {t} : ClearedOnRelease(t)})
    BY <1>3 DEF SendOutputs, Ends, Generates
  <2>2. Leave(s)
    BY <2>1, ClearLeaves
  <2> QED
    BY <1>1, <2>2, OwnLeft
<1> QED
  BY <1>2, <1>3 DEF PostStep

LEMMA LoraStep ==
    ASSUME Typed, Typed', TaskInv, MemInv, Fits, LoraInv, [Next]_vars
    PROVE  LoraInv'
<1>1. conf' = conf /\ Slots' = Slots /\ LoraKnown' = LoraKnown
  BY ConfKept, Fixed, SoleSame
<1>2. SoleInv' /\ FamilyInv' /\ BatchInv'
  BY SoleStep, FamilyStep, BatchStep DEF LoraInv
<1>3. ASSUME LoraKnown, NEW s \in Slots PROVE OwnLora(s)'
  <2>1. CASE UNCHANGED vars
    BY <1>3, <2>1 DEF vars, slotVars, LoraInv, OwnLora
  <2> QED
    BY <1>1, <1>3, <2>1, StepKinds, OwnTasks, OwnEarly, OwnPrompts, OwnDecode, OwnPost
<1> QED
  BY <1>1, <1>2, <1>3 DEF LoraInv

----------------------------------------------------------------------------
(* Outputs that are read from one sub-batch.                                *)

(* Where the outputs of an embedding or a decision start.                   *)
Outputs(s)   == IF IsDecision(s) THEN PosFirst(s) ELSE 0
Completes(s) == Task[task[s]].type = "COMPLETION"

(* A prompt of theirs is split before its outputs or not at all, and the    *)
(* batch it ends in is decoded as one.                                      *)
TogetherInv ==
    /\ off = 0 \/ off >= conf.n_batch \/ off >= Len(batch)
    /\ \A s \in Slots :
          /\ state[s] = "GENERATING" => Completes(s)
          /\ state[s] = "PROCESSING_PROMPT" /\ ~Completes(s) => Len(prompt[s]) <= Outputs(s)
          /\ state[s] = "DONE_PROMPT" /\ ~Completes(s) =>
                /\ Len(batch) <= conf.n_batch
                /\ \A p \in Outputs(s) .. NTokens(s) - 1 :
                      \E i \in DOMAIN batch : batch[i].slot = s /\ batch[i].pos = p

(* How a slot comes to be processed.                                        *)
Stays(t) == /\ state'[t] = state[t] /\ task'[t] = task[t]
            /\ state[t] = "PROCESSING_PROMPT" => prompt'[t] = prompt[t] \/ prompt'[t] = <<>>

LEMMA ClearStays ==
    ASSUME NEW R, Clear(R), NEW t \in Slots, state'[t] = state[t], task'[t] = task[t]
    PROVE  Stays(t)
BY DEF Clear, Stays

LEMMA FreedStays ==
    ASSUME NEW F, ReleaseState(F), NEW R, Clear(R), NEW t \in Slots, state'[t] \in Active
    PROVE  Stays(t)
<1>1. state'[t] = state[t] /\ task'[t] = task[t]
  BY DEF ReleaseState, Active, Sampled
<1> QED
  BY <1>1, ClearStays

LEMMA PromptStays ==
    ASSUME Typed, NEW s \in Slots, PromptStep(s), NEW t \in Slots, state'[t] \in Active
    PROVE  AddPrompt(t) \/ PromptPostponed(t) \/ Stays(t)
<1>1. CASE NoPrompt(s) \/ PromptAborts(s)
  BY <1>1 DEF NoPrompt, PromptAborts, slotVars, Stays
<1>2. CASE EmptyPrompt(s) \/ PromptRefused(s)
  BY <1>2, FreedStays DEF EmptyPrompt, PromptRefused, Release
<1>3. CASE PromptPostponed(s) /\ t # s
  BY <1>3 DEF PromptPostponed, Stays, Typed, TypedSlots, TypedCache
<1>4. CASE AddPrompt(s) /\ t # s
  <2>1. t \notin Begun(s)
    BY <1>4, AddPromptIs DEF Active, Sampled
  <2> QED
    BY <1>4, <2>1, AddPromptIs DEF Still, Stays
<1> QED
  BY <1>1, <1>2, <1>3, <1>4 DEF PromptStep

LEMMA Keeps ==
    ASSUME Typed, [Next]_vars, NEW t \in Slots, state'[t] \in Active
    PROVE  AddPrompt(t) \/ PromptPostponed(t) \/ (DecodeSucceeds /\ t \in Activated) \/ GoesOn(t) \/ Stays(t)
<1>1. CASE UNCHANGED vars
  BY <1>1 DEF vars, slotVars, Stays
<1>2. CASE TasksStep
  <2>1. ASSUME NEW r \in Posted, Launch(r) PROVE Stays(t)
    <3>1. PICK taken, given : Starts(r, taken, given)
      BY <2>1, LaunchIs
    <3> QED
      BY <3>1 DEF Starts, Stays, Active, Sampled
  <2>2. ASSUME NEW r \in Posted, LaunchFails(r) PROVE Stays(t)
    <3>1. state' = state /\ task' = task
          /\ (prompt'[t] = <<>> \/ prompt'[t] = KeptPrompt(t, r) \/ prompt'[t] = prompt[t])
      BY <2>2 DEF LaunchFails
    <3> QED
      BY <3>1, KeptPromptIs DEF Stays
  <2>3. ASSUME (\E r \in Posted : Stop(r)) \/ SetLora \/ BeginUpdate PROVE Stays(t)
    BY <2>3 DEF Stop, SetLora, BeginUpdate, slotVars, Stays
  <2>4. ASSUME NEW s \in Slots, Cancel(s) PROVE Stays(t)
    BY <2>4, FreedStays DEF Cancel, Release
  <2> QED
    BY <1>2, <2>1, <2>2, <2>3, <2>4 DEF TasksStep
<1>3. ASSUME NEW s \in Slots, EarlyStep(s) PROVE Stays(t)
  <2>1. CASE NoShift(s) \/ NothingSampled(s)
    BY <2>1 DEF NoShift, NothingSampled, slotVars, Stays
  <2>2. CASE ShiftRefused(s)
    BY <2>2, FreedStays DEF ShiftRefused, Release
  <2>3. CASE ShiftContext(s) \/ AddSampled(s)
    <3>1. state' = state /\ task' = task /\ state[s] = "GENERATING" /\ (t # s => prompt'[t] = prompt[t])
      BY <2>3 DEF ShiftContext, AddSampled, ContextFull, Typed, TypedCache
    <3> QED
      BY <3>1 DEF Stays
  <2> QED
    BY <1>3, <2>1, <2>2, <2>3 DEF EarlyStep
<1>4. CASE EndUpdate \/ DecodeStep
  <2>1. CASE EndUpdate
    BY <2>1 DEF EndUpdate, slotVars, Stays
  <2>2. CASE DecodeRetries
    <3>1. state' = state /\ task' = task /\ ((\E x : Clear({x})) \/ prompt' = prompt)
      BY <2>2 DEF DecodeRetries
    <3> QED
      BY <3>1, ClearStays DEF Stays
  <2>3. CASE DecodeFatal \/ DecodeThrows
    <3>1. state'[t] = "IDLE" \/ (state'[t] = state[t] /\ state[t] = "IDLE")
      BY <2>3 DEF DecodeFatal, DecodeThrows, ReleaseState, Processing
    <3> QED
      BY <3>1 DEF Active, Sampled
  <2>4. CASE DecodeSucceeds
    BY <2>4, DecodeIs DEF Stays
  <2> QED
    BY <1>4, <2>1, <2>2, <2>3, <2>4 DEF DecodeStep
<1>5. ASSUME NEW s \in Slots, PostStep(s) PROVE GoesOn(t) \/ Stays(t)
  <2>1. CASE NotSampling(s)
    BY <2>1 DEF NotSampling, slotVars, Stays
  <2>2. CASE SendOutputs(s) \/ Ends(s)
    BY <2>2, FreedStays DEF SendOutputs, Ends
  <2>3. CASE GoesOn(s) /\ t # s
    BY <2>3 DEF GoesOn, Stays, Typed, TypedSlots
  <2> QED
    BY <1>5, <2>1, <2>2, <2>3 DEF PostStep
<1> QED
  BY <1>1, <1>2, <1>3, <1>4, <1>5, StepKinds, PromptStays

(* A prefix is shared by decisions, and ends before their outputs.          *)
LEMMA WaitShared ==
    ASSUME Typed, NEW s \in Slots, state[s] # "IDLE", NEW c \in WaitingChildren(s)
    PROVE  /\ NShared(s) = 0 => Completes(c)
           /\ NShared(s) > 0 => IsDecision(s) /\ NShared(s) <= PosFirst(s)
<1>1. c \in Slots /\ state[c] = "WAIT_OTHER" /\ Task[task[c]].parent = task[s] /\ conf \in Confs
  BY DEF WaitingChildren, Typed, TypedWalk
<1>2. task[c] \in Posted /\ task[s] \in Posted /\ NShared(s) \in Nat
  BY <1>1, BusyTask
<1>3. IsChild(task[c])
  BY <1>1, <1>2, ConfTyped DEF IsChild
<1>4. IsChildOf(Task[task[c]], Task[task[s]])
  BY <1>1, <1>2, <1>3, ParentPosted
<1>5. CASE NShared(s) = 0
  BY <1>4, <1>5 DEF IsChildOf, NShared, Completes
<1>6. CASE NShared(s) # 0
  BY <1>4, <1>6 DEF IsChildOf, NShared, PosFirst, IsDecision
<1> QED
  BY <1>2, <1>5, <1>6

LEMMA FirstOutputs ==
    ASSUME Typed, TogetherInv, NEW s \in Slots, PromptPending(s), ~Completes(s)
    PROVE  First(s) \in Nat /\ Outputs(s) \in Nat /\ First(s) <= Outputs(s)
           /\ (IsDecision(s) \/ (~CanSplit(task[s]) /\ ~IsDecision(s)))
<1>1. state[s] \in {"STARTED", "PROCESSING_PROMPT"}
  BY DEF PromptPending
<1>2. task[s] \in Posted /\ PosFirst(s) \in Nat
  BY <1>1, BusyTask
<1>3. IsDecision(s) \/ (~CanSplit(task[s]) /\ ~IsDecision(s))
  BY <1>2, TaskTyped DEF Typed, TypedWalk, Completes, IsDecision, CanSplit, Types
<1>4. First(s) \in Nat /\ Outputs(s) \in Nat
  BY <1>1, <1>2, KeptIs DEF First, Outputs
<1>5. CASE state[s] = "STARTED"
  <2>1. First(s) = NPast(s) /\ NPast(s) \in Nat /\ Common(s) \in Nat /\ NPast(s) <= Common(s)
    BY <1>5, KeptIs, NPastIs, CommonIs DEF First
  <2>2. CASE IsDecision(s)
    BY <1>2, <1>5, <2>1, <2>2, CommonIs DEF Outputs
  <2>3. CASE ~CanSplit(task[s]) /\ ~IsDecision(s)
    BY <1>5, <2>1, <2>3, NPastIs DEF Outputs
  <2> QED
    BY <1>3, <1>4, <2>2, <2>3
<1>6. CASE state[s] = "PROCESSING_PROMPT"
  <2>1. Kept(s) = prompt[s]
    BY <1>6, KeptIs
  <2> QED
    BY <1>3, <1>4, <1>6, <2>1 DEF TogetherInv, First
<1> QED
  BY <1>1, <1>5, <1>6

LEMMA SplitBefore ==
    ASSUME Typed, MemInv, TogetherInv, NEW s \in Slots, AddPrompt(s), ~Completes(s), PromptEnd(s) # NTokens(s)
    PROVE  PromptEnd(s) <= Outputs(s)
<1>1. PromptPending(s) /\ ~DoesNotFit(s) /\ state[s] # "IDLE"
  BY DEF AddPrompt, PromptReady, PromptPending
<1> DEFINE end   == PromptEnd(s)
           first == First(s)
           all   == NTokens(s)
           n     == conf.n_batch - Len(batch)
<1>2. first \in Nat /\ all \in Nat /\ end \in Nat /\ end <= all /\ end # all /\ n \in Nat
  <2>1. conf.n_batch \in Nat /\ Len(batch) \in Nat /\ Len(batch) < conf.n_batch
    BY <1>1, ConfTyped DEF PromptPending, Typed, TypedWalk, TypedBatch
  <2> QED
    BY <2>1, NewIs
<1>3. first + conf.n_batch - Len(batch) = first + n
  BY <1>1, <1>2, ConfTyped DEF Typed, TypedWalk, TypedBatch
<1>4. /\ end <= first + n
      /\ end = first + n \/ (end = NShared(s) /\ NShared(s) > first /\ WaitingChildren(s) # {}) \/ (end = PosFirst(s) /\ IsDecision(s))
      /\ IsDecision(s) /\ first <= PosFirst(s) /\ first + n < all => end <= PosFirst(s)
  BY <1>1, <1>2, <1>3, PromptEndIs DEF First
<1>5. first <= Outputs(s) /\ (IsDecision(s) \/ (~CanSplit(task[s]) /\ ~IsDecision(s)))
  BY <1>1, FirstOutputs
<1>6. NShared(s) > first /\ WaitingChildren(s) # {} => IsDecision(s) /\ NShared(s) <= PosFirst(s)
  <2>1. NShared(s) \in Nat
    BY <1>1, BusyTask
  <2> QED
    BY <1>1, <1>2, <2>1, WaitShared
<1>7. ~CanSplit(task[s]) => all <= n
  BY <1>1, <1>2, ConfTyped DEF DoesNotFit, Typed, TypedWalk, TypedBatch
<1>8. PosFirst(s) \in Nat /\ NShared(s) \in Nat
  BY <1>1, BusyTask
<1> HIDE DEF end, first, all, n
<1>9. CASE IsDecision(s)
  <2>1. Outputs(s) = PosFirst(s)
    BY <1>9 DEF Outputs
  <2>2. end = first + n => end <= PosFirst(s)
    BY <1>2, <1>4, <1>5, <1>9, <2>1
  <2>3. end <= PosFirst(s)
    BY <1>4, <1>6, <1>8, <2>2
  <2> QED
    BY <2>1, <2>3 DEF end
<1>10. CASE ~CanSplit(task[s]) /\ ~IsDecision(s)
  <2>1. end = first + n
    BY <1>4, <1>6, <1>10
  <2> QED
    BY <1>2, <1>7, <1>10, <2>1
<1> QED
  BY <1>5, <1>9, <1>10

LEMMA OffStep ==
    ASSUME Typed, MemInv, TogetherInv, ~conf.refills, [Next]_vars
    PROVE  off' = 0 \/ off' >= conf.n_batch \/ off' >= Len(batch')
<1>1. conf.n_batch \in Nat /\ off \in Nat
  BY ConfTyped DEF Typed, TypedWalk, TypedBatch
<1>2. CASE off' = off /\ batch' = batch
  BY <1>2 DEF TogetherInv
<1>3. CASE UNCHANGED vars
  BY <1>2, <1>3 DEF vars, batchVars, decodeVars
<1>4. CASE TasksStep
  <2>1. BeginUpdate => off' = 0
    BY DEF BeginUpdate
  <2>2. ~BeginUpdate => off' = off /\ batch' = batch
    BY <1>4 DEF TasksStep, Launch, LaunchFails, Stop, Cancel, SetLora, batchVars, decodeVars
  <2> QED
    BY <1>2, <2>1, <2>2
<1>5. ASSUME NEW s \in Slots, pc \in Phases, EarlyStep(s) \/ PromptStep(s) PROVE off' = 0
  <2>1. off' = off
    BY <1>5 DEF EarlyStep, PromptStep, NoShift, ShiftRefused, ShiftContext, AddSampled, NothingSampled,
       NoPrompt, EmptyPrompt, PromptRefused, PromptAborts, PromptPostponed, AddPrompt, decodeVars
  <2>2. off = 0
    BY <1>5 DEF MemInv, UpdateInv, Phases
  <2> QED
    BY <2>1, <2>2
<1>6. CASE EndUpdate \/ DecodeStep
  <2>1. off' = off /\ batch' = batch
    BY <1>6 DEF EndUpdate, DecodeStep, DecodeSucceeds, DecodeRetries, DecodeFatal, DecodeThrows, batchVars, decodeVars
  <2> QED
    BY <1>2, <2>1
<1>7. ASSUME NEW s \in Slots, pc = "post", PostStep(s) PROVE off' = 0 \/ off' >= conf.n_batch \/ off' >= Len(batch')
  <2>1. PostAdvance(s)
    BY <1>7 DEF PostStep, NotSampling, SendOutputs, GoesOn, Ends, Generates
  <2>2. batch' = batch /\ (off' = off \/ off' = off + Cardinality(View))
    BY <2>1 DEF PostAdvance, batchVars, decodeVars
  <2>3. off < Len(batch) /\ n_batch = conf.n_batch
    BY <1>7 DEF MemInv, UpdateInv
  <2>4. Cardinality(View) = ViewEnd - off /\ ViewEnd \in Nat /\ Len(batch) \in Nat
    BY <2>3, ViewIs
  <2>5. off + Cardinality(View) = ViewEnd
    BY <1>1, <2>4
  <2>6. ViewEnd = off + conf.n_batch \/ ViewEnd = Len(batch)
    BY <2>3 DEF ViewEnd
  <2>7. ViewEnd >= conf.n_batch \/ ViewEnd >= Len(batch)
    BY <1>1, <2>4, <2>6
  <2> QED
    BY <1>2, <2>2, <2>5, <2>7
<1> QED
  BY <1>3, <1>4, <1>5, <1>6, <1>7, StepKinds DEF Phases

(* A batch that holds a finished prompt keeps what it has, and its size.    *)
LEMMA BatchStays ==
    ASSUME Typed, Typed', MemInv, [Next]_vars, NEW t \in Slots, state[t] = "DONE_PROMPT"
    PROVE  /\ \A i \in DOMAIN batch : i \in DOMAIN batch' /\ batch'[i] = batch[i]
           /\ batch' = batch \/ Len(batch') <= conf.n_batch
<1>1. Ready(t) /\ i_batch[t] \in Nat /\ i_batch[t] >= 1 /\ i_batch[t] <= Len(batch) /\ Len(batch) \in Nat
  BY EntryTyped DEF MemInv, SlotMem, SampleInv, Ready, Typed, TypedBatch
<1>2. pc # "tasks"
  BY <1>1 DEF Ready, Start
<1>3. ASSUME NEW s \in Slots, AddSampled(s) PROVE FALSE
  <2>1. pc = "generate" /\ off = 0
    BY <1>3 DEF AddSampled, Walk, MemInv, UpdateInv
  <2>2. Decoded = 0
    BY <2>1 DEF Decoded
  <2>3. batch[i_batch[t]].slot = t
    BY <1>1, <2>2 DEF Ready
  <2>4. i_batch[t] \in DOMAIN Queue(t)
    <3>1. i_batch[t] \in DOMAIN batch /\ i_batch[t] > Decoded
      BY <1>1, <2>2 DEF Ready
    <3>2. DOMAIN Queue(t) = {i \in DOMAIN batch : i > Decoded /\ batch[i].slot = t}
      BY QueueIs
    <3> QED
      BY <2>3, <3>1, <3>2
  <2> QED
    BY <2>1, <2>4 DEF MemInv, SlotMem, Timing
<1>4. ASSUME NEW s \in Slots, AddPrompt(s)
      PROVE  Len(batch') <= conf.n_batch /\ \A i \in DOMAIN batch : i \in DOMAIN batch' /\ batch'[i] = batch[i]
  <2>1. t # s
    BY <1>4 DEF AddPrompt, PromptReady, PromptPending
  <2> QED
    BY <1>4, <2>1, AddPromptGoes DEF Extends
<1>5. ASSUME ~\E s \in Slots : AddSampled(s) \/ AddPrompt(s) PROVE batch' = batch
  <2>1. CASE UNCHANGED vars
    BY <2>1 DEF vars, batchVars
  <2>2. ASSUME NEW s \in Slots, EarlyStep(s) \/ PromptStep(s) PROVE batch' = batch
    BY <1>5, <2>2 DEF EarlyStep, PromptStep, NoShift, ShiftRefused, ShiftContext, NothingSampled,
       NoPrompt, EmptyPrompt, PromptRefused, PromptAborts, PromptPostponed, batchVars
  <2>3. ASSUME EndUpdate \/ DecodeStep PROVE batch' = batch
    BY <2>3 DEF EndUpdate, DecodeStep, DecodeSucceeds, DecodeRetries, DecodeFatal, DecodeThrows, batchVars
  <2>4. ASSUME NEW s \in Slots, PostStep(s) PROVE batch' = batch
    BY <2>4 DEF PostStep, NotSampling, SendOutputs, GoesOn, Ends, Generates, PostAdvance, batchVars
  <2> QED
    BY <1>2, <2>1, <2>2, <2>3, <2>4, StepKinds
<1> QED
  BY <1>3, <1>4, <1>5

LEMMA TogetherStep ==
    ASSUME Typed, Typed', MemInv, TogetherInv, ~conf.refills, [Next]_vars
    PROVE  TogetherInv'
<1>1. conf' = conf /\ Slots' = Slots /\ Task' = Task
  BY ConfKept, Fixed
<1>2. ASSUME NEW t \in Slots, task'[t] = task[t]
      PROVE  Completes(t)' = Completes(t) /\ Outputs(t)' = Outputs(t) /\ NTokens(t)' = NTokens(t)
  BY <1>1, <1>2 DEF Completes, Outputs, NTokens, IsDecision, PosFirst
<1>3. ASSUME NEW t \in Slots, AddPrompt(t), ~Completes(t)
      PROVE  /\ task'[t] = task[t] /\ state'[t] # "GENERATING"
             /\ state'[t] = "PROCESSING_PROMPT" => Len(prompt'[t]) <= Outputs(t)
             /\ state'[t] = "DONE_PROMPT" =>
                   /\ Len(batch') <= conf.n_batch
                   /\ \A p \in Outputs(t) .. NTokens(t) - 1 :
                         \E i \in DOMAIN batch' : batch'[i].slot = t /\ batch'[i].pos = p
  <2>1. task' = task /\ PromptPending(t) /\ prompt'[t] = Kept(t) \o New(t)
        /\ state'[t] = IF PromptEnd(t) = NTokens(t) THEN "DONE_PROMPT" ELSE "PROCESSING_PROMPT"
    BY <1>3, AddPromptIs
  <2>2. Len(prompt'[t]) = PromptEnd(t) /\ First(t) + Len(New(t)) = PromptEnd(t) /\ NTokens(t) \in Nat
    BY <1>3, <2>1, NewIs
  <2>3. First(t) \in Nat /\ Outputs(t) \in Nat /\ First(t) <= Outputs(t)
    BY <1>3, <2>1, FirstOutputs
  <2>4. Len(New(t)) \in Nat
    BY <1>3, NewIs
  <2>5. ASSUME PromptEnd(t) = NTokens(t), NEW p \in Outputs(t) .. NTokens(t) - 1
        PROVE  \E i \in DOMAIN batch' : batch'[i].slot = t /\ batch'[i].pos = p
    <3>1. PICK j \in 1 .. Len(New(t)) : First(t) + j - 1 = p
      <4>1. p - First(t) + 1 \in 1 .. Len(New(t)) /\ First(t) + (p - First(t) + 1) - 1 = p
        BY <2>2, <2>3, <2>4, <2>5
      <4> QED
        BY <4>1
    <3>2. Len(batch) \in Nat /\ DOMAIN batch' = 1 .. Len(batch) + Len(New(t))
          /\ batch'[Len(batch) + j].slot = t /\ batch'[Len(batch) + j].pos = p
      BY <1>3, <3>1, AddPromptGoes
    <3>3. Len(batch) + j \in DOMAIN batch'
      BY <2>4, <3>2
    <3> QED
      BY <3>2, <3>3
  <2>6. Len(batch') <= conf.n_batch
    BY <1>3, AddPromptGoes
  <2> QED
    BY <1>3, <2>1, <2>2, <2>5, <2>6, SplitBefore
<1>4. ASSUME NEW t \in Slots, PromptPostponed(t)
      PROVE  /\ task'[t] = task[t] /\ state'[t] = "PROCESSING_PROMPT"
             /\ ~Completes(t) => Len(prompt'[t]) <= Outputs(t)
  <2>1. task' = task /\ state'[t] = "PROCESSING_PROMPT" /\ prompt'[t] = Kept(t) /\ PromptPending(t)
    BY <1>4 DEF PromptPostponed, PromptReady, Typed, TypedSlots, TypedCache
  <2> QED
    BY <2>1, FirstOutputs DEF First
<1>5. ASSUME NEW t \in Slots, DecodeSucceeds, t \in Activated
      PROVE  task'[t] = task[t] /\ state'[t] = "DONE_PROMPT" /\ Completes(t)
  <2>1. task' = task /\ state'[t] = "DONE_PROMPT"
    BY <1>5, DecodeIs
  <2>2. PICK s \in Slots : state[s] = "DONE_PROMPT" /\ t \in WaitingChildren(s)
    BY <1>5 DEF Activated
  <2>3. NShared(s) \in Nat
    BY <2>2, BusyTask
  <2>4. ~(NShared(s) > 0)
    BY <2>2 DEF WaitingChildren, MemInv, SharedInv, Active, Sampled
  <2> QED
    BY <2>1, <2>2, <2>3, <2>4, WaitShared
<1>6. ASSUME NEW t \in Slots, GoesOn(t)
      PROVE  task'[t] = task[t] /\ Completes(t)' /\ state'[t] = "GENERATING"
  <2>1. task' = task /\ Completes(t) /\ state'[t] = "GENERATING"
    BY <1>6 DEF GoesOn, Generates, Completes, Typed, TypedSlots
  <2> QED
    BY <1>2, <2>1
<1>7. ASSUME NEW t \in Slots
      PROVE  /\ state'[t] = "GENERATING" => Completes(t)'
             /\ state'[t] = "PROCESSING_PROMPT" /\ ~Completes(t)' => Len(prompt'[t]) <= Outputs(t)'
             /\ state'[t] = "DONE_PROMPT" /\ ~Completes(t)' =>
                   /\ Len(batch') <= conf.n_batch
                   /\ \A p \in Outputs(t)' .. NTokens(t)' - 1 :
                         \E i \in DOMAIN batch' : batch'[i].slot = t /\ batch'[i].pos = p
  <2>1. CASE AddPrompt(t)
    <3>1. task'[t] = task[t] /\ state'[t] # "GENERATING"
      BY <2>1, AddPromptIs
    <3> QED
      BY <1>2, <1>3, <2>1, <3>1
  <2>2. CASE PromptPostponed(t)
    BY <1>2, <1>4, <2>2
  <2>3. CASE DecodeSucceeds /\ t \in Activated
    BY <1>2, <1>5, <2>3
  <2>4. CASE GoesOn(t)
    BY <1>6, <2>4
  <2>5. CASE Stays(t)
    <3>1. state'[t] = state[t] /\ Completes(t)' = Completes(t) /\ Outputs(t)' = Outputs(t) /\ NTokens(t)' = NTokens(t)
      BY <1>2, <2>5 DEF Stays
    <3>2. ASSUME state[t] = "PROCESSING_PROMPT", ~Completes(t) PROVE Len(prompt'[t]) <= Outputs(t)
      <4>1. Len(prompt[t]) <= Outputs(t) /\ Outputs(t) \in Nat
        BY <3>2, BusyTask DEF TogetherInv, Outputs
      <4> QED
        BY <2>5, <3>2, <4>1 DEF Stays
    <3>3. ASSUME state[t] = "DONE_PROMPT", ~Completes(t)
          PROVE  /\ Len(batch') <= conf.n_batch
                 /\ \A p \in Outputs(t) .. NTokens(t) - 1 :
                       \E i \in DOMAIN batch' : batch'[i].slot = t /\ batch'[i].pos = p
      <4>1. /\ Len(batch) <= conf.n_batch
            /\ \A p \in Outputs(t) .. NTokens(t) - 1 : \E i \in DOMAIN batch : batch[i].slot = t /\ batch[i].pos = p
        BY <3>3 DEF TogetherInv
      <4>2. /\ \A i \in DOMAIN batch : i \in DOMAIN batch' /\ batch'[i] = batch[i]
            /\ batch' = batch \/ Len(batch') <= conf.n_batch
        BY <3>3, BatchStays
      <4> QED
        BY <4>1, <4>2
    <3> QED
      BY <3>1, <3>2, <3>3 DEF TogetherInv
  <2>6. state'[t] \in {"GENERATING", "PROCESSING_PROMPT", "DONE_PROMPT"} => state'[t] \in Active
    BY DEF Active, Sampled
  <2> QED
    BY <2>1, <2>2, <2>3, <2>4, <2>5, <2>6, Keeps
<1>8. off' = 0 \/ off' >= conf.n_batch \/ off' >= Len(batch')
  BY OffStep
<1> QED
  BY <1>1, <1>7, <1>8 DEF TogetherInv

LEMMA TogetherRead ==
    ASSUME Typed, MemInv, ~conf.refills => TogetherInv
    PROVE  OutputsTogether
<1> SUFFICES ASSUME ~conf.refills, NEW s \in Slots, Walk("post", s), Sampling(s), Task[task[s]].type # "COMPLETION",
                    NEW p \in Outputs(s) .. NTokens(s) - 1
             PROVE  \E e \in ViewOf(s) : e.pos = p
  BY DEF OutputsTogether, Outputs
<1>1. state[s] = "DONE_PROMPT"
  BY DEF Sampling, TogetherInv, Completes
<1>2. PICK i \in DOMAIN batch : batch[i].slot = s /\ batch[i].pos = p
  BY <1>1 DEF TogetherInv, Completes
<1>3. Len(batch) <= conf.n_batch /\ (off = 0 \/ off >= conf.n_batch \/ off >= Len(batch))
  BY <1>1 DEF TogetherInv, Completes
<1>4. off < Len(batch) /\ n_batch = conf.n_batch
  BY DEF Walk, MemInv, UpdateInv
<1>5. Len(batch) \in Nat /\ conf.n_batch \in Nat /\ off \in Nat
  BY ConfTyped DEF Typed, TypedWalk, TypedBatch
<1>6. off = 0
  BY <1>3, <1>4, <1>5
<1>7. ViewEnd = Len(batch)
  BY <1>3, <1>4, <1>5, <1>6 DEF ViewEnd
<1>8. i > off /\ i <= ViewEnd
  BY <1>6, <1>7, EntryTyped
<1>9. batch[i] \in ViewOf(s)
  BY <1>2, <1>8, ViewOfIs
<1> QED
  BY <1>2, <1>9

----------------------------------------------------------------------------
(* The theorems.                                                            *)

LEMMA UpdateStarts ==
    ASSUME Init
    PROVE  Fits /\ EmptyInv /\ ChildInv /\ LoraInv /\ TogetherInv
<1>1. pc = "tasks" /\ base_lora \in conf.loras /\ \A s \in Slots : state[s] = "IDLE" /\ task[s] = NoRequest
  BY DEF Init
<1>2. \A s \in Slots : lora[s] = base_lora /\ kv[s] = NoCells
  BY DEF Init
<1>3. Fits /\ EmptyInv /\ ChildInv
  BY <1>1 DEF Fits, EmptyInv, ChildInv, Phases
<1>4. SoleInv
  BY <1>1, <1>2 DEF SoleInv, Sole
<1>5. FamilyInv /\ BatchInv
  BY <1>1 DEF FamilyInv, BatchInv
<1>6. \A s \in Slots : OwnLora(s)
  BY <1>2, NoCellsTyped DEF OwnLora, Own
<1>7. TogetherInv
  BY <1>1 DEF TogetherInv, Init
<1> QED
  BY <1>3, <1>4, <1>5, <1>6, <1>7 DEF LoraInv

(* The inductive invariant of the update.                                   *)
OwedInv ==
    /\ MemoryInv
    /\ Whole => Fits /\ EmptyInv /\ ChildInv /\ LoraInv /\ (~conf.refills => TogetherInv)

LEMMA OwedInvariant == Spec => []OwedInv
<1>1. Init => MemoryInv
  BY TypedInit, TaskStarts, MemStarts DEF MemoryInv
<1>2. Init => OwedInv
  BY <1>1, UpdateStarts DEF OwedInv
<1>3. OwedInv /\ [Next]_vars => OwedInv'
  <2> SUFFICES ASSUME OwedInv, [Next]_vars PROVE OwedInv'
    OBVIOUS
  <2>1. Typed /\ TaskInv /\ Typed' /\ TaskInv'
    BY TypedStep, TaskStep DEF OwedInv, MemoryInv
  <2>2. conf' = conf /\ Whole' = Whole
    BY ConfKept, Fixed, TaskFixed DEF Whole
  <2>3. ASSUME Whole PROVE MemInv' /\ Fits' /\ EmptyInv' /\ ChildInv' /\ LoraInv'
    <3>1. MemInv /\ Fits /\ EmptyInv /\ ChildInv /\ LoraInv
      BY <2>3 DEF OwedInv, MemoryInv
    <3> QED
      BY <2>1, <2>3, <3>1, MemStep, FitsStep, EmptyStep, ChildStep, LoraStep
  <2>4. ASSUME Whole, ~conf.refills PROVE TogetherInv'
    <3>1. MemInv /\ TogetherInv
      BY <2>4 DEF OwedInv, MemoryInv
    <3> QED
      BY <2>1, <2>4, <3>1, TogetherStep
  <2> QED
    BY <2>1, <2>2, <2>3, <2>4 DEF OwedInv, MemoryInv
<1> QED
  BY <1>2, <1>3, PTL DEF Spec

(* What is about to be decoded is well-formed, whatever the requests, the   *)
(* configuration and the order of events: a sequence goes on where its      *)
(* memory ends, an update with a ready slot has something to decode, and a  *)
(* child waits only for a parent that will get to it.                       *)
THEOREM UpdateWellFormed == Spec => [](Whole => WellFormed)
<1>1. OwedInv => (Whole => WellFormed)
  <2> SUFFICES ASSUME OwedInv, Whole PROVE WellFormed
    OBVIOUS
  <2>1. Typed /\ MemInv /\ EmptyInv /\ ChildInv
    BY DEF OwedInv, MemoryInv
  <2>2. BatchNotEmpty
    BY <2>1 DEF EmptyInv, BatchNotEmpty, Waits
  <2> QED
    BY <2>1, <2>2, TypedIsTypeOK, MemConsistent, ChildAwaits DEF WellFormed
<1> QED
  BY <1>1, OwedInvariant, PTL

(* A slot samples only from what was computed with its own adapters, for    *)
(* requests that name their adapters or a server that has only one set.     *)
THEOREM SampledUnderOwnLora == Spec => [](Whole /\ LoraKnown => SamplesUnderOwnLora)
<1>1. OwedInv => (Whole /\ LoraKnown => SamplesUnderOwnLora)
  <2> SUFFICES ASSUME OwedInv, Whole, LoraKnown, NEW s \in Slots, Walk("post", s), Sampling(s), NEW p \in DOMAIN kv[s]
               PROVE  kv[s][p].lora = lora[s]
    BY DEF SamplesUnderOwnLora
  <2>1. Typed /\ MemInv /\ OwnLora(s)
    BY DEF OwedInv, MemoryInv, LoraInv
  <2>2. state[s] \in Sampled
    BY <2>1, SamplingEmpty
  <2>3. Inside(kv[s], prompt[s])
    BY <2>1, <2>2 DEF MemInv, SlotMem, SlotGood, Good
  <2> QED
    BY <2>1, <2>3 DEF OwnLora, Own, Inside
<1> QED
  BY <1>1, OwedInvariant, PTL

(* The outputs of a decision, and the whole input of an embedding, are in   *)
(* the sub-batch they are read from, whatever other requests share it: a    *)
(* prompt is split before its outputs or not at all.                        *)
THEOREM OutputsReadWhole == Spec => []OutputsTogether
<1>1. OwedInv => OutputsTogether
  <2>1. ASSUME conf.refills PROVE OutputsTogether
    BY <2>1 DEF OutputsTogether
  <2>2. ASSUME OwedInv, ~conf.refills PROVE OutputsTogether
    <3>1. Typed /\ MemInv /\ TogetherInv
      BY <2>2 DEF OwedInv, MemoryInv, Whole
    <3> QED
      BY <3>1, TogetherRead
  <2> QED
    BY <2>1, <2>2
<1> QED
  BY <1>1, OwedInvariant, PTL

=============================================================================
