------------------------------ MODULE KVCache ------------------------------
(* The KV cache of a llama_context as llama-server uses it: llama_kv_cache, *)
(* the cells behind it (llama_kv_cells), the decode that fills them, and    *)
(* the slots that truncate, copy and shift their sequences between decodes. *)
(*                                                                          *)
(* One thread drives it all.  An action is one call into the cache, or the  *)
(* calls a slot makes in a row; a decode is cut into its ubatches, each of  *)
(* which may fail to compute.  A loop over cells that handles each on its   *)
(* own is one operator on the set of those cells.                           *)
(*                                                                          *)
(* A token is the sequence it was decoded for.  The K data of a cell is the *)
(* position it is rotated for and its token.                                *)
EXTENDS Integers, FiniteSets, Sequences, SequencesExt, Filters

CONSTANTS
    NSeq,       \* sequences, one per slot
    MaxCopies,  \* bound on the stream copies that wait for an update
    Confs       \* the contexts to check (ConfType)

(* size: cells of a stream.  n_ctx: context of a slot.  max_batch: bound on *)
(* the tokens a sequence has in a batch.  n_swa: window of the cache (0:    *)
(* none), which then stands beside one without a window, of size_base       *)
(* cells (swa_full is off).  shift, families: the slots use                 *)
(* context shift, shared prompts.  fails: a ubatch may fail to compute.     *)
ConfType == [unified : BOOLEAN, size : Nat \ {0}, n_ctx : Nat \ {0},
             n_ubatch : Nat \ {0}, max_batch : Nat \ {0}, n_swa : Nat, size_base : Nat,
             shift : BOOLEAN, families : BOOLEAN, fails : BOOLEAN]

ASSUME KVCacheAssumption ==
    /\ NSeq \in Nat \ {0} /\ MaxCopies \in Nat
    /\ Confs \subseteq ConfType
    /\ \A c \in Confs : c.n_swa > 0 =>
           /\ c.unified /\ ~c.families /\ ~c.shift
           /\ c.size = Min({c.size_base, c.n_swa * NSeq + c.n_ubatch})

VARIABLES
    conf,
    kv,     \* cells and heads of each stream, stream copies not yet made
    data,   \* the K data of each cell
    todo,   \* ubatches of the running decode, with the cells found for them
    role    \* what each sequence's slot is doing

vars == <<conf, kv, data, todo, role>>

Seqs    == 0 .. (NSeq - 1)
EachSeq == [j \in 1 .. NSeq |-> j - 1]     \* a loop over them
Streams == IF conf.unified THEN {0} ELSE Seqs
Cells   == 0 .. (conf.size - 1)
seq_to_stream(s) == IF conf.unified THEN 0 ELSE s

NoData == [key |-> -1, tok |-> -1]

(* ---- llama_kv_cells ---- *)

EmptyCells ==
    [pos |-> [i \in Cells |-> -1], seq |-> [i \in Cells |-> {}], shift |-> [i \in Cells |-> 0],
     has_shift |-> FALSE, used |-> {}, seq_pos |-> [s \in Seqs |-> {}]]

IsEmpty(c, i) == c.pos[i] = -1
PosIn(c, i, p0, p1) == c.pos[i] >= p0 /\ (p1 < 0 \/ c.pos[i] < p1)
HeldIn(c, s, p0, p1) == {i \in Cells : PosIn(c, i, p0, p1) /\ s \in c.seq[i]}

seq_pos_min(c, s) == IF c.seq_pos[s] = {} THEN -1 ELSE Min({x[1] : x \in c.seq_pos[s]})
seq_pos_max(c, s) == IF c.seq_pos[s] = {} THEN -1 ELSE Max({x[1] : x \in c.seq_pos[s]})

(* seq_pos_rm, seq_pos_add: cells I leave, enter the index of their         *)
(* sequences (seq_bits, its projection on the cells, changes with it).      *)
IndexWithout(c, I) ==
    [s \in Seqs |-> c.seq_pos[s] \ {<<c.pos[i], i>> : i \in {j \in I : s \in c.seq[j]}}]
IndexWith(c, I) ==
    [s \in Seqs |-> c.seq_pos[s] \cup {<<c.pos[i], i>> : i \in {j \in I : s \in c.seq[j]}}]

Unindexed(c, I) == [c EXCEPT !.seq_pos = IndexWithout(c, I)]
Indexed(c, I)   == [c EXCEPT !.seq_pos = IndexWith(c, I)]

Freed(c, I) ==
    [Unindexed(c, I) EXCEPT
        !.pos   = [i \in Cells |-> IF i \in I THEN -1 ELSE @[i]],
        !.seq   = [i \in Cells |-> IF i \in I THEN {} ELSE @[i]],
        !.shift = [i \in Cells |-> IF i \in I THEN 0 ELSE @[i]],
        !.used  = @ \ I]

(* Fault: a cell is freed although other sequences hold it.                 *)
SeqRemovedShared(c, s, I) == Freed(c, I)

SeqRemoved(c, s, I) ==
    LET empty == {i \in I : c.seq[i] = {s}}
    IN  [Freed(c, empty) EXCEPT
            !.seq = [i \in Cells |-> IF i \in I THEN @[i] \ {s} ELSE @[i]],
            !.seq_pos[s] = @ \ {<<c.pos[i], i>> : i \in I}]

SeqAdded(c, s, I) ==
    [c EXCEPT !.seq = [i \in Cells |-> IF i \in I THEN @[i] \cup {s} ELSE @[i]],
              !.seq_pos[s] = @ \cup {<<c.pos[i], i>> : i \in I}]

PosAdded(c, I, d) ==
    LET gone  == {i \in I : c.pos[i] + d < 0}
        moved == [Unindexed(c, I) EXCEPT
                     !.pos   = [i \in Cells |-> IF i \in I THEN @[i] + d ELSE @[i]],
                     !.shift = [i \in Cells |-> IF i \in I THEN @[i] + d ELSE @[i]],
                     !.has_shift = @ \/ I # {}]
    IN  Freed(Indexed(moved, I \ gone), gone)

ResetShift(c) == [c EXCEPT !.has_shift = FALSE, !.shift = [i \in Cells |-> 0]]

(* Fault: the cells that were filled stay in use.                           *)
SetCellsUsed(c, I, b) ==
    LET set == [Unindexed(c, I) EXCEPT
                   !.pos = [i \in Cells |-> IF i \in I THEN b.pos[i] ELSE @[i]],
                   !.seq = [i \in Cells |-> IF i \in I THEN b.seq[i] ELSE @[i]]]
    IN  Indexed(set, I)

(* set: cells I as they are in b.                                           *)
SetCells(c, I, b) ==
    LET set == [Unindexed(c, I) EXCEPT
                   !.pos  = [i \in Cells |-> IF i \in I THEN b.pos[i] ELSE @[i]],
                   !.seq  = [i \in Cells |-> IF i \in I THEN b.seq[i] ELSE @[i]],
                   !.used = (@ \ I) \cup {i \in I : ~IsEmpty(b, i)}]
    IN  Indexed(set, I)

(* ---- llama_kv_cache: operations on sequences ---- *)

CellsOf(k, s) == k.cells[seq_to_stream(s)]

(* The search for cells starts at a cell that became free.                  *)
HeadAt(head, freed) == IF freed # {} /\ Min(freed) < head THEN Min(freed) ELSE head
NowFree(before, after) == {i \in Cells : ~IsEmpty(before, i) /\ IsEmpty(after, i)}

SeqRm(k, s, p0, p1) ==
    LET st == seq_to_stream(s)
        c  == SeqRemoved(k.cells[st], s, HeldIn(k.cells[st], s, p0, p1))
    IN  [k EXCEPT !.cells[st] = c, !.heads[st] = HeadAt(@, NowFree(k.cells[st], c))]

SeqAdd(k, s, p0, p1, d) ==
    LET st == seq_to_stream(s)
        c  == PosAdded(k.cells[st], HeldIn(k.cells[st], s, p0, p1), d)
        freed == NowFree(k.cells[st], c)
    IN  IF d = 0 \/ p0 = p1 THEN k
        ELSE [k EXCEPT !.cells[st] = c, !.heads[st] = IF freed = {} THEN 0 ELSE Min(freed)]

(* Fault: the shift that waits for an update is not copied.                 *)
CopiedUnshifted(c, s, d) ==
    LET I == HeldIn(c, s, 0, -1)
    IN  Indexed([EmptyCells EXCEPT !.pos  = [i \in Cells |-> IF i \in I THEN c.pos[i] ELSE -1],
                                   !.seq  = [i \in Cells |-> IF i \in I THEN {d} ELSE {}],
                                   !.used = I], I)

(* The whole sequence: shared cells in one stream, a copy of the data later *)
(* and of the cells now between two.                                        *)
Copied(c, s, d) ==
    LET I == HeldIn(c, s, 0, -1)
    IN  Indexed([EmptyCells EXCEPT
                    !.pos   = [i \in Cells |-> IF i \in I THEN c.pos[i] ELSE -1],
                    !.seq   = [i \in Cells |-> IF i \in I THEN {d} ELSE {}],
                    !.shift = [i \in Cells |-> IF i \in I THEN c.shift[i] ELSE 0],
                    !.has_shift = \E i \in I : c.shift[i] # 0,
                    !.used  = I], I)

SeqCp(k, s, d) ==
    LET s0 == seq_to_stream(s)
        s1 == seq_to_stream(d)
    IN  IF s0 = s1 THEN [k EXCEPT !.cells[s0] = SeqAdded(@, d, HeldIn(@, s, 0, -1))]
        ELSE [k EXCEPT !.sc = Append(@, <<s0, s1>>), !.cells[s1] = Copied(k.cells[s0], s, d),
                       !.heads[s1] = k.heads[s0]]

Cleared(k) == [k EXCEPT !.cells = [st \in Streams |-> EmptyCells], !.heads = [st \in Streams |-> 0]]

(* update: the stream copies in order, then the rotation of all cells to    *)
(* where they were shifted.                                                 *)
StreamsCopied(d, sc) == FoldLeft(LAMBDA x, p : [x EXCEPT ![p[2]] = x[p[1]]], d, sc)
HasShift(k) == \E st \in Streams : k.cells[st].has_shift

Updated(k) ==
    [k EXCEPT !.sc = <<>>, !.cells = [st \in Streams |-> IF HasShift(k) THEN ResetShift(@[st]) ELSE @[st]]]
UpdatedData(k, d) ==
    LET copied == StreamsCopied(d, k.sc)
    IN  [st \in Streams |-> [i \in Cells |->
            IF IsEmpty(k.cells[st], i) THEN NoData
            ELSE [copied[st][i] EXCEPT !.key = @ + k.cells[st].shift[i]]]]

(* ---- llama_kv_cache: placing a batch ---- *)

(* is_masked_swa, standard window.                                          *)
IsMaskedSwa(p0, p1) == conf.n_swa > 0 /\ p1 - p0 >= conf.n_swa

CanUse(c, i) ==
    \/ IsEmpty(c, i)
    \/ \E s \in Seqs : c.seq[i] = {s} /\ IsMaskedSwa(c.pos[i], seq_pos_max(c, s) + 1)

(* The first n usable cells from the head on, once around.                  *)
Found(c, head, n) ==
    LET start  == IF head > Cardinality(c.used) + 2 * n THEN 0 ELSE head
        usable == Keep([j \in 1 .. conf.size |-> (start + j - 1) % conf.size],
                       {i \in Cells : CanUse(c, i)})
    IN  IF Len(usable) < n THEN <<>> ELSE SubSeq(usable, 1, n)

(* A ubatch is a sequence of parts, one per stream; a token is [seq, pos].  *)
find_slot(k, ubatch) ==
    [j \in DOMAIN ubatch |->
        LET st == seq_to_stream(ubatch[j][1].seq)
        IN  [strm |-> st, toks |-> ubatch[j], idxs |-> Found(k.cells[st], k.heads[st], Len(ubatch[j]))]]
NoSlot(sinfo) == \E j \in DOMAIN sinfo : sinfo[j].idxs = <<>>

TokenAt(part, i) == part.toks[CHOOSE j \in DOMAIN part.idxs : part.idxs[j] = i]

Placed(c, part) ==
    LET I == ToSet(part.idxs)
        free == Freed(c, {i \in I : ~IsEmpty(c, i)})
    IN  Indexed([free EXCEPT
                    !.pos  = [i \in Cells |-> IF i \in I THEN TokenAt(part, i).pos ELSE @[i]],
                    !.seq  = [i \in Cells |-> IF i \in I THEN {TokenAt(part, i).seq} ELSE @[i]],
                    !.used = @ \cup I], I)

(* What a sequence has before a token that was overwritten goes too.        *)
Purged(k, c, part) ==
    LET over == {i \in ToSet(part.idxs) : ~IsEmpty(c, i)}
        max_rm(s) == Max({-1} \cup {c.pos[i] : i \in {j \in over : s \in c.seq[j]}})
    IN  FoldLeft(LAMBDA x, s : LET p == seq_pos_min(CellsOf(x, s), s)
                               IN  IF max_rm(s) >= 0 /\ p <= max_rm(s)
                                   THEN SeqRm(x, s, p, max_rm(s) + 1) ELSE x,
                 k, EachSeq)

apply_part(k, part) ==
    LET c == k.cells[part.strm]
        placed == [k EXCEPT !.cells[part.strm] = Placed(c, part)]
    IN  [Purged(placed, c, part) EXCEPT !.heads[part.strm] = Last(part.idxs) + 1]

apply_ubatch(k, sinfo) == FoldLeft(apply_part, k, sinfo)

(* set and the heads: v_heads_old is indexed by the part, not the stream.   *)
RestorePart(k, sinfo, j, old) ==
    LET st == sinfo[j].strm
    IN  [k EXCEPT !.cells[st] = SetCells(@, ToSet(sinfo[j].idxs), old.cells[st]),
                  !.heads[st] = old.heads[j - 1]]

Restore(k, state) ==
    FoldLeft(LAMBDA x, j : RestorePart(x, state.sinfo, j, state.old), k,
             [j \in DOMAIN state.sinfo |-> j])

(* prepare: each ubatch is placed to find the cells of the next, then the   *)
(* cells that were filled are set back, the last ubatch first.              *)
Simulated(k, ubatches) ==
    FoldLeft(LAMBDA a, u :
                LET sinfo == find_slot(a.kv, u)
                IN  IF ~a.ok \/ NoSlot(sinfo) THEN [a EXCEPT !.ok = FALSE]
                    ELSE [a EXCEPT !.kv = apply_ubatch(a.kv, sinfo),
                                   !.states = <<[sinfo |-> sinfo, old |-> a.kv]>> \o @],
             [ok |-> TRUE, kv |-> k, states |-> <<>>], ubatches)

Prepared(k, ubatches) ==
    LET sim == Simulated(k, ubatches)
    IN  [ok |-> sim.ok, kv |-> FoldLeft(Restore, sim.kv, sim.states),
         sinfos |-> Reverse([j \in DOMAIN sim.states |-> sim.states[j].sinfo])]

(* ---- llama_batch_allocr: cutting a batch ---- *)

Length(s) == seq_pos_max(CellsOf(kv, s), s) + 1

Tokens(s, from, n) == [j \in 1 .. n |-> [seq |-> s, pos |-> from + j - 1]]

(* count: how many tokens of each sequence the batch has, in their order.   *)
SplitSimple(count) ==
    LET toks == FoldLeft(LAMBDA x, s : x \o Tokens(s, Length(s), count[s]), <<>>, EachSeq)
        n    == (Len(toks) + conf.n_ubatch - 1) \div conf.n_ubatch
    IN  [j \in 1 .. n |->
            <<SubSeq(toks, (j - 1) * conf.n_ubatch + 1, Min({j * conf.n_ubatch, Len(toks)}))>>]

(* The sequences of the next ubatch: the first with tokens left and those   *)
(* that follow it without a gap, one more than n_ubatch at most.            *)
Together(left) ==
    LET first == Min({s \in Seqs : left[s] > 0})
    IN  first .. Max({s \in first .. Min({first + conf.n_ubatch, NSeq - 1}) :
                         \A t \in first .. s : left[t] > 0})

EqualCount(left) ==
    LET S == Together(left)
    IN  Min({left[s] : s \in S} \cup {Max({1, conf.n_ubatch \div Cardinality(S)})})

(* x.left: how many tokens of each sequence are left for further ubatches.  *)
NextEqual(x, count) ==
    LET S == Together(x.left)
        n == EqualCount(x.left)
        part(s) == Tokens(s, Length(s) + count[s] - x.left[s], n)
    IN  IF \A s \in Seqs : x.left[s] = 0 THEN x
        ELSE [left |-> [s \in Seqs |-> x.left[s] - IF s \in S THEN n ELSE 0],
              ubatches |-> Append(x.ubatches, [j \in 1 .. Cardinality(S) |-> part(Min(S) + j - 1)])]

(* As long as tokens are left; each ubatch has some.                        *)
SplitEqual(count) ==
    FoldLeft(LAMBDA x, j : NextEqual(x, count), [left |-> count, ubatches |-> <<>>],
             [j \in 1 .. NSeq * conf.max_batch |-> j]).ubatches

Split(count) == IF conf.unified THEN SplitSimple(count) ELSE SplitEqual(count)

(* ---- llama_decode ---- *)

Working == {s \in Seqs : role[s] \in {"single", "parent", "child"}}

(* The cache beside one with a window holds every token.                    *)
BaseHasRoom(count) ==
    conf.n_swa > 0 => SumFunction([s \in Seqs |-> Length(s) + count[s]]) <= conf.size_base

Init ==
    /\ conf \in Confs
    /\ kv = [cells |-> [st \in Streams |-> EmptyCells], heads |-> [st \in Streams |-> 0], sc |-> <<>>]
    /\ data = [st \in Streams |-> [i \in Cells |-> NoData]]
    /\ todo = <<>>
    /\ role = [s \in Seqs |-> "idle"]

(* Pending shifts and copies are made, then cells are found for the whole   *)
(* batch or it is refused.                                                  *)
Decode(count) ==
    /\ todo = <<>>
    /\ \A s \in Seqs : count[s] > 0 => s \in Working /\ Length(s) + count[s] <= conf.n_ctx
    /\ \E s \in Seqs : count[s] > 0
    /\ data' = UpdatedData(kv, data)
    /\ LET prepared == Prepared(Updated(kv), Split(count))
       IN  IF BaseHasRoom(count)
           THEN /\ kv' = prepared.kv
                /\ todo' = IF prepared.ok THEN prepared.sinfos ELSE <<>>
           ELSE kv' = Updated(kv) /\ UNCHANGED todo
    /\ UNCHANGED <<conf, role>>

Written(d, sinfo) ==
    FoldLeft(LAMBDA x, part :
                [x EXCEPT ![part.strm] = [i \in Cells |->
                    IF i \in ToSet(part.idxs)
                    THEN [key |-> TokenAt(part, i).pos, tok |-> TokenAt(part, i).seq]
                    ELSE @[i]]],
             d, sinfo)

(* process_ubatch: the cells are taken, the graph is computed.              *)
Compute ==
    /\ todo # <<>>
    /\ kv' = apply_ubatch(kv, Head(todo))
    /\ data' = Written(data, Head(todo))
    /\ todo' = Tail(todo)
    /\ UNCHANGED <<conf, role>>

(* The failed ubatch is taken back, the rest of the batch is given up.      *)
TakenBack(k, sinfo) ==
    LET toks == UNION {ToSet(sinfo[j].toks) : j \in DOMAIN sinfo}
    IN  FoldLeft(LAMBDA x, s : LET own == {t.pos : t \in {y \in toks : y.seq = s}}
                               IN  IF own # {} THEN SeqRm(x, s, Min(own), -1) ELSE x,
                 k, EachSeq)

ComputeFails ==
    /\ todo # <<>> /\ conf.fails
    /\ kv' = TakenBack(apply_ubatch(kv, Head(todo)), Head(todo))
    /\ data' = Written(data, Head(todo))
    /\ todo' = <<>>
    /\ UNCHANGED <<conf, role>>

(* ---- the slots, between two decodes ---- *)

Between == todo = <<>> /\ UNCHANGED <<conf, data, todo>>

(* Fault: one position too few is asked for.                                *)
KeptTooMany(k, s, n, has_new_tokens) ==
    LET pos_eval == IF has_new_tokens THEN n ELSE n - 1
    IN  IF n > 0 /\ seq_pos_min(CellsOf(k, s), s) > Max({0, pos_eval - conf.n_swa + 2}) THEN 0 ELSE pos_eval

(* How many of the first n cached tokens a new prompt keeps: the last one   *)
(* of a prompt that has no more is decoded again, and all are if the window *)
(* of the first one to decode is not in the cache.                          *)
Kept(k, s, n, has_new_tokens) ==
    LET pos_eval == IF has_new_tokens THEN n ELSE n - 1
        pos_min_thold == Max({0, IF conf.n_swa > 0 THEN pos_eval - conf.n_swa + 2 ELSE pos_eval})
    IN  IF n > 0 /\ seq_pos_min(CellsOf(k, s), s) >= pos_min_thold THEN 0 ELSE pos_eval

(* The m tokens cached from head_c on become those from head_p on.          *)
ChunkReused(k, s, head_p, head_c, m) ==
    SeqAdd(SeqRm(k, s, head_p, head_c), s, head_c, head_c + m, head_p - head_c)

(* A slot takes a request, alone or for a family, that shares n tokens with *)
(* its cache and may reuse m more.                                          *)
Start(s, n, head_c, m, has_new_tokens, as) ==
    /\ role[s] = "idle" /\ n <= Length(s)
    /\ n + m > 0 \/ has_new_tokens
    /\ m > 0 => conf.shift /\ n < head_c /\ head_c + m <= Length(s)
    /\ LET k == IF m > 0 THEN ChunkReused(kv, s, n, head_c, m) ELSE kv
       IN  kv' = SeqRm(k, s, Kept(k, s, n + m, has_new_tokens), -1)
    /\ role' = as
    /\ Between

Alone(s)     == [role EXCEPT ![s] = "single"]
Family(s, c) == [role EXCEPT ![s] = "parent", ![c] = "waiting"]

(* copy_state_to.                                                           *)
CopyState(p, c) ==
    /\ role[p] = "parent" /\ role[c] = "waiting" /\ Length(p) > 0 /\ Len(kv.sc) < MaxCopies
    /\ kv' = SeqCp(SeqRm(kv, c, -1, -1), p, c)
    /\ role' = [role EXCEPT ![c] = "child"]
    /\ Between

ContextShift(s, n_keep, n_discard) ==
    /\ conf.shift /\ role[s] = "single" /\ Length(s) + 1 >= conf.n_ctx
    /\ n_keep + n_discard < Length(s)
    /\ kv' = SeqAdd(SeqRm(kv, s, n_keep, n_keep + n_discard),
                    s, n_keep + n_discard, Length(s), -n_discard)
    /\ UNCHANGED role /\ Between

(* A drafted token was not accepted.                                        *)
Reject(s) ==
    /\ conf.n_swa = 0 /\ s \in Working /\ Length(s) > 1
    /\ kv' = SeqRm(kv, s, Length(s) - 1, -1)
    /\ UNCHANGED role /\ Between

(* release; the prompt of a child is not kept.                              *)
Release(s) ==
    /\ s \in Working
    /\ role[s] = "parent" => \A c \in Seqs : role[c] # "waiting"
    /\ kv' = IF role[s] = "child" THEN SeqRm(kv, s, -1, -1) ELSE kv
    /\ role' = [role EXCEPT ![s] = "idle"]
    /\ Between

(* prompt_clear of an idle slot, to make room.                              *)
PromptClear(s) ==
    /\ role[s] = "idle" /\ Length(s) > 0
    /\ kv' = SeqRm(kv, s, -1, -1)
    /\ UNCHANGED role /\ Between

(* llama_memory_clear, nobody at work; the copies not yet made stay listed. *)
Clear ==
    /\ todo = <<>> /\ \A s \in Seqs : role[s] = "idle"
    /\ kv' = Cleared(kv)
    /\ data' = [st \in Streams |-> [i \in Cells |-> NoData]]
    /\ UNCHANGED <<conf, todo, role>>

StartAny(s) ==
    \E n \in 0 .. Length(s), has_new_tokens \in BOOLEAN, head_c, m \in 0 .. Length(s) :
        /\ m = 0 => head_c = 0
        /\ \/ Start(s, n, head_c, m, has_new_tokens, Alone(s))
           \/ /\ conf.families
              /\ \E c \in Seqs \ {s} :
                     role[c] = "idle" /\ Start(s, n, head_c, m, has_new_tokens, Family(s, c))

SlotStep(s) ==
    \/ StartAny(s)
    \/ \E c \in Seqs : CopyState(c, s)
    \/ \E n_keep \in 0 .. Length(s), n_discard \in 1 .. conf.n_ctx : ContextShift(s, n_keep, n_discard)
    \/ Reject(s)
    \/ Release(s)
    \/ PromptClear(s)

Next ==
    \/ \E count \in [Seqs -> 0 .. conf.max_batch] : Decode(count)
    \/ Compute
    \/ ComputeFails
    \/ \E s \in Seqs : SlotStep(s)
    \/ Clear

Spec == Init /\ [][Next]_vars

(* ---- properties ---- *)

CellsType == [pos : [Cells -> -1 .. (conf.n_ctx - 1)], seq : [Cells -> SUBSET Seqs],
              shift : [Cells -> -conf.n_ctx .. conf.n_ctx], has_shift : BOOLEAN,
              used : SUBSET Cells, seq_pos : [Seqs -> SUBSET ((0 .. (conf.n_ctx - 1)) \X Cells)]]

TypeOK ==
    /\ conf \in Confs
    /\ \A st \in Streams : kv.cells[st] \in CellsType /\ kv.heads[st] \in 0 .. conf.size
    /\ kv.sc \in Seq(Streams \X Streams)
    /\ data \in [Streams -> [Cells -> [key : -1 .. (conf.n_ctx - 1), tok : Seqs \cup {-1}]]]
    /\ role \in [Seqs -> {"idle", "single", "parent", "child", "waiting"}]

(* The indexes of the cells say what the cells say: which are used, where   *)
(* each sequence has tokens, and that a shift is pending wherever one is;   *)
(* a cell without a position belongs to nobody.                             *)
IndexExact ==
    \A st \in Streams :
        LET c == kv.cells[st]
            full == {i \in Cells : ~IsEmpty(c, i)}
        IN  /\ c.used = full /\ full = {i \in Cells : c.seq[i] # {}}
            /\ \A s \in Seqs : c.seq_pos[s] = {<<c.pos[i], i>> : i \in {j \in Cells : s \in c.seq[j]}}
            /\ \A i \in Cells : c.shift[i] # 0 => i \in full /\ c.has_shift

(* Between decodes a sequence has every position from its first to its last *)
(* one once (llama_memory_seq_pos_min, llama_memory_seq_pos_max).           *)
Contiguous ==
    todo = <<>> =>
        \A s \in Seqs :
            LET c == CellsOf(kv, s)
            IN  c.seq_pos[s] # {} =>
                    /\ {x[1] : x \in c.seq_pos[s]} = seq_pos_min(c, s) .. seq_pos_max(c, s)
                    /\ Cardinality(c.seq_pos[s]) = seq_pos_max(c, s) - seq_pos_min(c, s) + 1

(* The cells are well-formed: what the code reads off an index, a position  *)
(* or a free cell, is what reading all the cells would give, and between    *)
(* decodes no sequence has a gap.                                           *)
WellFormed == TypeOK /\ IndexExact /\ Contiguous

(* What a cell holds once the pending stream copies are made.               *)
Settled == StreamsCopied(data, kv.sc)

(* The K data of every cell is rotated for the position it will have been   *)
(* shifted from, so that the next update rotates it to where the cell is.   *)
KeyAtPosition ==
    \A st \in Streams, i \in Cells :
        ~IsEmpty(kv.cells[st], i) => Settled[st][i].key + kv.cells[st].shift[i] = kv.cells[st].pos[i]

(* What a sequence remembers.                                               *)
Memory(s) ==
    LET st == seq_to_stream(s)
    IN  {[pos |-> x[1], tok |-> Settled[st][x[2]].tok] : x \in kv.cells[st].seq_pos[s]}

(* A token is computed with every earlier position its window shows it.     *)
AttendsWindow ==
    [][Compute => \A j \in DOMAIN Head(todo) : \A t \in ToSet(Head(todo)[j].toks) :
           \A q \in 0 .. (t.pos - 1) :
               ~IsMaskedSwa(q, t.pos) => \E x \in Memory(t.seq)' : x.pos = q]_vars

(* The cells implement the memory of the sequences: sharing, shifting,      *)
(* copying and recycling them shows in no sequence.                         *)
Sequences == INSTANCE SeqMemory WITH
    n_swa <- conf.n_swa, mem <- [s \in Seqs |-> Memory(s)]

Implements == Sequences!Spec

=============================================================================
