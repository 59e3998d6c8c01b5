----------------------------- MODULE SlotBatch -----------------------------
(* update_slots of server_context: how the slots of llama-server share one  *)
(* batch, and what that does to the memory (KV cache) of their sequences.   *)
(*                                                                          *)
(* Between two updates the main loop launches requests, cancels them and    *)
(* changes the LoRA adapters.  An update walks over the slots (context      *)
(* shift, sampled tokens, prompts), then decodes the batch in one or more   *)
(* sub-batches; after each, the slots whose last token was in it sample.    *)
(* One action per slot and walk, one per call of decode().                  *)
(*                                                                          *)
(* Positions count from 0, slots and batch entries from 1.  The memory is   *)
(* kept to what the slots see of it: a sequence maps positions to the token *)
(* and the adapters it was computed with, and a decode may find no room.    *)
(* Speculative decoding, audio, media chunks, checkpoints, alora and chunk  *)
(* reuse (n_cache_reuse) are off.                                           *)
EXTENDS Integers, FiniteSets, Sequences, SequencesExt, Functions

CONSTANTS
    MaxSlots, Requests,     \* slots, and the tasks that may be posted, children included
    NoRequest,
    Loras,                  \* LoRA configurations
    DefaultLora,            \* marks a request without a lora field
    Confs                   \* the servers to check (IsConf)

NoSlot == 0
Types  == {"COMPLETION", "EMBEDDING", "DECISION"}

(* parent, n_tokens_shared: see server_task; pos_first is that of a         *)
(* decision, limit is n_predict.  alone: a decision that has an order (its  *)
(* head reads the whole batch) or no_batching.                              *)
TaskType == [type : Types, tokens : Seq(Nat), parent : Requests \cup {NoRequest}, pos_first : Nat,
             n_tokens_shared : Nat, limit : Nat \ {0}, lora : Loras \cup {DefaultLora}, alone : BOOLEAN]

(* A child has its parent's type and adapters.  With n_cmpl > 1 it is a copy *)
(* of the parent (add_child); decisions are grouped by a prefix before the  *)
(* outputs of each of them (server_decision_group_tasks).                   *)
IsChildOf(q, p) ==
    /\ p.parent = NoRequest /\ q.n_tokens_shared = 0
    /\ q.type = p.type /\ q.lora = p.lora
    /\ IF p.n_tokens_shared = 0
       THEN q.type = "COMPLETION" /\ q.tokens = p.tokens /\ q.limit = p.limit
       ELSE /\ q.type = "DECISION"
            /\ \A t \in {q, p} : p.n_tokens_shared < Len(t.tokens) /\ p.n_tokens_shared <= t.pos_first
            /\ \A i \in 1 .. p.n_tokens_shared : q.tokens[i] = p.tokens[i]

(* task: what is posted.  n_batch: n_batch and n_ubatch.  n_ctx: context of *)
(* a slot.  n_keep: tokens a context shift keeps.  loras: the adapters an   *)
(* operator switches between.  refills: a decode may find the memory full.  *)
(* fails: a launch or a computation may fail.  throws: a decode or the      *)
(* processing of a token may throw.  cancels: clients may disconnect.       *)
IsConf(c) ==
    /\ DOMAIN c.task \subseteq Requests /\ c.task \in [DOMAIN c.task -> TaskType]
    /\ \A r \in DOMAIN c.task : c.task[r].parent # NoRequest =>
          c.task[r].parent \in DOMAIN c.task /\ IsChildOf(c.task[r], c.task[c.task[r].parent])
    /\ c.n_slots \in 1 .. MaxSlots /\ c.n_batch \in Nat \ {0}
    /\ c.n_ctx \in Nat /\ c.n_keep \in Nat /\ c.n_keep + 4 <= c.n_ctx
    /\ c.loras \subseteq Loras /\ c.loras # {}
    /\ {c.cont_batching, c.ctx_shift, c.kv_unified, c.cache_idle_slots, c.refills, c.fails,
         c.throws, c.cancels} \subseteq BOOLEAN

ASSUME SlotBatchAssumption ==
    /\ MaxSlots \in Nat \ {0}
    /\ IsFiniteSet(Requests) /\ NoRequest \notin Requests
    /\ Loras # {} /\ DefaultLora \notin Loras
    /\ \A c \in Confs : IsConf(c)

VARIABLES
    conf,
    pc, at,             \* the walk of the update, the slot it has come to
    waiting,            \* requests not launched yet
    stopped,            \* requests whose reader has stopped, with their children
    results,            \* final results and errors sent for each request
    base_lora,          \* params_base.lora_adapters
    state, task, lora, prompt, i_batch, n_gen,      \* the slots
    kv,                 \* the memory, by slot
    batch, slot_batched, off, n_batch

taskVars   == <<conf, waiting, stopped, base_lora>>
slotVars   == <<state, task, lora, prompt, i_batch, n_gen, kv, results>>
batchVars  == <<batch, slot_batched>>
decodeVars == <<off, n_batch>>
vars       == <<pc, at, taskVars, slotVars, batchVars, decodeVars>>

Task   == conf.task
Posted == DOMAIN Task
Slots  == 1 .. conf.n_slots

Children(r) == {c \in Posted : Task[c].parent = r}
IsChild(r)  == Task[r].parent # NoRequest
Family(r)   == LET root == IF IsChild(r) THEN Task[r].parent ELSE r
               IN  {root} \cup Children(root)

NTokens(s)    == Len(Task[task[s]].tokens)
Processing    == {s \in Slots : state[s] # "IDLE"}
Idle          == Slots \ Processing
Stateless(r)  == Task[r].type = "EMBEDDING"
CanSplit(r)   == Task[r].type # "EMBEDDING"

----------------------------------------------------------------------------
(* Memory: a function from positions to [token, lora].                      *)

NoCells == <<>>

SeqRm(cells, p) == Restrict(cells, {q \in DOMAIN cells : q < p})

(* seq_rm(keep, keep + discard) and seq_add(keep + discard, end, -discard). *)
SeqShift(cells, keep, discard) ==
    [p \in {q \in DOMAIN cells : q < keep}
              \cup {q - discard : q \in {q \in DOMAIN cells : q >= keep + discard}} |->
        IF p < keep THEN cells[p] ELSE cells[p + discard]]

----------------------------------------------------------------------------
(* Slots are released together with what the callers do around it: the      *)
(* sequences in cleared are emptied by prompt_clear, and an answer is sent. *)

ClearedOnRelease(s) == IsChild(task[s]) \/ Stateless(task[s])

Clear(cleared) ==
    /\ prompt' = [s \in Slots |-> IF s \in cleared THEN <<>> ELSE prompt[s]]
    /\ kv' = [s \in Slots |-> IF s \in cleared THEN NoCells ELSE kv[s]]

ReleaseState(released) ==
    /\ state' = [s \in Slots |-> IF s \in released THEN "IDLE" ELSE state[s]]
    /\ task' = [s \in Slots |-> IF s \in released THEN NoRequest ELSE task[s]]
    /\ n_gen' = [s \in Slots |-> IF s \in released THEN 0 ELSE n_gen[s]]

Release(released) ==
    /\ ReleaseState(released)
    /\ Clear({s \in released : ClearedOnRelease(s)})
    /\ UNCHANGED <<lora, i_batch>>

(* Fault: only one of them is answered. *)
AnswerOne(released, result) ==
    LET first == Min(released)
    IN  results' = [r \in Posted |->
                       IF task[first] = r THEN Append(results[r], result) ELSE results[r]]

Answer(released, result) ==
    results' = [r \in Posted |->
                   IF \E s \in released : task[s] = r THEN Append(results[r], result) ELSE results[r]]

----------------------------------------------------------------------------
Init ==
    /\ conf \in Confs
    /\ pc = "tasks" /\ at = 1
    /\ waiting = {r \in Posted : ~IsChild(r)} /\ stopped = {}
    /\ results = [r \in Posted |-> <<>>]
    /\ base_lora \in conf.loras
    /\ state = [s \in Slots |-> "IDLE"] /\ task = [s \in Slots |-> NoRequest]
    /\ lora = [s \in Slots |-> base_lora]
    /\ prompt = [s \in Slots |-> <<>>] /\ kv = [s \in Slots |-> NoCells]
    /\ i_batch = [s \in Slots |-> NoSlot] /\ n_gen = [s \in Slots |-> 0]
    /\ batch = <<>> /\ slot_batched = NoSlot
    /\ off = 0 /\ n_batch = conf.n_batch

----------------------------------------------------------------------------
(* Between two updates.                                                     *)

(* The cached tokens a launch keeps: none of those computed with other      *)
(* adapters, except that a request without a lora field takes the server's  *)
(* adapters and does not compare.                                           *)
KeptPrompt(s, r) ==
    IF Task[r].lora # DefaultLora /\ Task[r].lora # lora[s] THEN <<>> ELSE prompt[s]

LoraOf(r) == IF Task[r].lora = DefaultLora THEN base_lora ELSE Task[r].lora

(* A task and its children get idle slots, all or none of them.             *)
Launch(r) ==
    /\ pc = "tasks" /\ r \in waiting
    /\ \E place \in [{r} \cup Children(r) -> Idle] :
          /\ IsInjective(place)
          /\ LET taken == {place[q] : q \in DOMAIN place}
                 of(s) == CHOOSE q \in DOMAIN place : place[q] = s
                 wiped == IF conf.cache_idle_slots /\ conf.kv_unified THEN Idle \ taken ELSE {}
                 start(q) == IF IsChild(q) THEN "WAIT_OTHER" ELSE "STARTED"
             IN  /\ state' = [s \in Slots |-> IF s \in taken THEN start(of(s)) ELSE state[s]]
                 /\ task' = [s \in Slots |-> IF s \in taken THEN of(s) ELSE task[s]]
                 /\ lora' = [s \in Slots |-> IF s \in taken THEN LoraOf(of(s)) ELSE lora[s]]
                 /\ prompt' = [s \in Slots |-> IF s \in taken THEN KeptPrompt(s, of(s))
                                               ELSE IF s \in wiped THEN <<>> ELSE prompt[s]]
                 /\ kv' = [s \in Slots |-> IF s \in wiped THEN NoCells ELSE kv[s]]
    /\ waiting' = waiting \ {r}
    /\ UNCHANGED <<conf, pc, at, stopped, base_lora, results, i_batch, n_gen, batchVars, decodeVars>>

(* The launch of the task or of one of its children fails: the error is     *)
(* sent and the children launched before it are released.                   *)
LaunchFails(r) ==
    /\ conf.fails
    /\ pc = "tasks" /\ r \in waiting
    /\ Cardinality(Idle) > Cardinality(Children(r))
    /\ \E s \in Idle : \E launched \in SUBSET (Idle \ {s}) :
          /\ Cardinality(launched) <= Cardinality(Children(r))
          /\ prompt' = [c \in Slots |-> IF c \in launched THEN <<>>
                                         ELSE IF c = s THEN KeptPrompt(s, r) ELSE prompt[c]]
          /\ kv' = [c \in Slots |-> IF c \in launched THEN NoCells ELSE kv[c]]
          /\ lora' = [c \in Slots |-> IF c \in launched \cup {s} THEN LoraOf(r) ELSE lora[c]]
    /\ \E failed \in {r} \cup Children(r) : results' = [results EXCEPT ![failed] = Append(@, "error")]
    /\ waiting' = waiting \ {r}
    /\ UNCHANGED <<conf, pc, at, stopped, base_lora, state, task, i_batch, n_gen, batchVars, decodeVars>>

(* The reader of a request stops on an error, or when its client has gone:  *)
(* what is queued is dropped, a CANCEL is posted for each task.             *)
Stop(r) ==
    /\ pc = "tasks" /\ ~IsChild(r) /\ r \notin stopped
    /\ \E q \in Family(r) : results[q] = <<>>
    /\ conf.cancels \/ \E q \in Family(r) : Contains(results[q], "error")
    /\ stopped' = stopped \cup Family(r)
    /\ waiting' = waiting \ {r}
    /\ UNCHANGED <<conf, pc, at, base_lora, slotVars, batchVars, decodeVars>>

Cancel(s) ==
    /\ pc = "tasks" /\ state[s] # "IDLE" /\ task[s] \in stopped
    /\ Release({s})
    /\ UNCHANGED <<pc, at, taskVars, results, batchVars, decodeVars>>

SetLora ==
    /\ pc = "tasks"
    /\ base_lora' \in conf.loras \ {base_lora}
    /\ UNCHANGED <<conf, pc, at, waiting, stopped, slotVars, batchVars, decodeVars>>

(* update_slots returns at once when every slot is idle.                    *)
BeginUpdate ==
    /\ pc = "tasks" /\ Processing # {}
    /\ pc' = "shift" /\ at' = 1
    /\ batch' = <<>> /\ slot_batched' = NoSlot
    /\ off' = 0 /\ n_batch' = conf.n_batch
    /\ UNCHANGED <<taskVars, slotVars>>

----------------------------------------------------------------------------
(* pre_decode.                                                              *)

Walk(phase, s)   == pc = phase /\ at = s
Advance(s, next) == IF s < conf.n_slots THEN at' = s + 1 /\ pc' = pc ELSE at' = 1 /\ pc' = next

ContextFull(s) == state[s] = "GENERATING" /\ Len(prompt[s]) + 1 >= conf.n_ctx

NoShift(s) ==
    /\ Walk("shift", s) /\ ~ContextFull(s)
    /\ Advance(s, "generate")
    /\ UNCHANGED <<taskVars, slotVars, batchVars, decodeVars>>

(* Without context shift process_token has already stopped the generation.  *)
ShiftRefused(s) ==
    /\ Walk("shift", s) /\ ContextFull(s)
    /\ ~conf.ctx_shift \/ IsChild(task[s]) \/ Children(task[s]) # {}
    /\ Answer({s}, "error") /\ Release({s})
    /\ Advance(s, "generate")
    /\ UNCHANGED <<taskVars, batchVars, decodeVars>>

Discard(s) == (Len(prompt[s]) - conf.n_keep) \div 2

ShiftContext(s) ==
    /\ Walk("shift", s) /\ ContextFull(s)
    /\ conf.ctx_shift /\ ~IsChild(task[s]) /\ Children(task[s]) = {}
    /\ prompt' = [prompt EXCEPT ![s] = SubSeq(@, 1, conf.n_keep) \o SubSeq(@, conf.n_keep + Discard(s) + 1, Len(@))]
    /\ kv' = [kv EXCEPT ![s] = SeqShift(@, conf.n_keep, Discard(s))]
    /\ Advance(s, "generate")
    /\ UNCHANGED <<taskVars, results, state, task, lora, i_batch, n_gen, batchVars, decodeVars>>

(* Fault: slots with different adapters share a batch. *)
CanBatchAny(s) == slot_batched # NoSlot => Task[task[slot_batched]].type = Task[task[s]].type

(* Embedded inputs have one size here.                                      *)
CanBatch(s) ==
    slot_batched # NoSlot =>
        /\ ~Task[task[s]].alone /\ ~Task[task[slot_batched]].alone
        /\ Task[task[slot_batched]].type = Task[task[s]].type
        /\ lora[slot_batched] = lora[s]

Batched(s) == slot_batched' = IF slot_batched = NoSlot THEN s ELSE slot_batched

Entries(s, tokens, first) ==
    [i \in 1 .. Len(tokens) |-> [slot |-> s, token |-> tokens[i], pos |-> first + i - 1]]

SampledToken == 0

AfterGenerating == IF conf.cont_batching \/ batch' = <<>> THEN "prompts" ELSE "decode"

AddSampled(s) ==
    /\ Walk("generate", s)
    /\ state[s] = "GENERATING" /\ CanBatch(s)
    /\ batch' = batch \o Entries(s, <<SampledToken>>, Len(prompt[s]))
    /\ i_batch' = [i_batch EXCEPT ![s] = Len(batch')]
    /\ prompt' = [prompt EXCEPT ![s] = Append(@, SampledToken)]
    /\ Batched(s)
    /\ Advance(s, AfterGenerating)
    /\ UNCHANGED <<taskVars, results, state, task, lora, n_gen, kv, decodeVars>>

NothingSampled(s) ==
    /\ Walk("generate", s)
    /\ state[s] = "GENERATING" => ~CanBatch(s)
    /\ UNCHANGED <<taskVars, slotVars, batchVars, decodeVars>>
    /\ Advance(s, AfterGenerating)

(* The prompts.                                                             *)

PromptPending(s) ==
    /\ Walk("prompts", s)
    /\ state[s] \in {"STARTED", "PROCESSING_PROMPT"}
    /\ Len(batch) < conf.n_batch /\ CanBatch(s)

NoPrompt(s) ==
    /\ Walk("prompts", s) /\ ~PromptPending(s)
    /\ Advance(s, "decode")
    /\ UNCHANGED <<taskVars, slotVars, batchVars, decodeVars>>

(* Where the outputs of a decision start; they are read from one batch.     *)
IsDecision(s) == Task[task[s]].type = "DECISION"
PosFirst(s)   == Task[task[s]].pos_first
NShared(s)    == Task[task[s]].n_tokens_shared

TooLong(s) ==
    \/ ~CanSplit(task[s]) /\ NTokens(s) > conf.n_batch
    \/ ~CanSplit(task[s]) /\ NTokens(s) > conf.n_ctx
    \/ CanSplit(task[s]) /\ NTokens(s) >= conf.n_ctx
    \/ IsDecision(s) /\ NTokens(s) - PosFirst(s) > conf.n_batch

EmptyPrompt(s) ==
    /\ PromptPending(s) /\ state[s] = "STARTED" /\ NTokens(s) = 0
    /\ Answer({s}, "final") /\ Release({s})
    /\ Advance(s, "decode")
    /\ UNCHANGED <<taskVars, batchVars, decodeVars>>

PromptRefused(s) ==
    /\ PromptPending(s) /\ state[s] = "STARTED" /\ TooLong(s)
    /\ Answer({s}, "error") /\ Release({s})
    /\ Advance(s, "decode")
    /\ UNCHANGED <<taskVars, batchVars, decodeVars>>

(* How many cached tokens the new prompt can share.                         *)
Common(s) ==
    Min({Len(LongestCommonPrefix({Task[task[s]].tokens, prompt[s]}))}
           \cup (IF NShared(s) > 0 THEN {NShared(s)} ELSE {})
           \cup (IF IsDecision(s) THEN {PosFirst(s)} ELSE {}))

(* "n_past > 0, but pos_min == -1": GGML_ABORT. *)
CacheGone(s) == CanSplit(task[s]) /\ Common(s) > 0 /\ kv[s] = NoCells

(* Fault: the last token of a prompt that is cached whole is not evaluated. *)
NPastWhole(s) == IF CanSplit(task[s]) THEN Common(s) ELSE 0

(* The tokens kept: none when the memory does not reach back far enough,    *)
(* and at least one token is evaluated.                                     *)
NPast(s) ==
    LET n   == Common(s)
        new == n < NTokens(s)
    IN  IF ~CanSplit(task[s]) \/ n = 0 THEN 0
        ELSE IF Min(DOMAIN kv[s]) >= (IF new THEN n ELSE n - 1) THEN 0
        ELSE IF new THEN n ELSE n - 1

(* The prompt of a slot that is about to be put in the batch.               *)
Kept(s) == IF state[s] = "STARTED" THEN SubSeq(prompt[s], 1, NPast(s)) ELSE prompt[s]

PromptAborts(s) ==
    /\ PromptPending(s) /\ state[s] = "STARTED" /\ NTokens(s) > 0 /\ ~TooLong(s)
    /\ CacheGone(s)
    /\ pc' = "aborted"
    /\ UNCHANGED <<at, taskVars, slotVars, batchVars, decodeVars>>

PromptReady(s) ==
    /\ PromptPending(s)
    /\ state[s] = "STARTED" => NTokens(s) > 0 /\ ~TooLong(s) /\ ~CacheGone(s)

(* A prompt that must not be split waits for a batch it fits in.            *)
DoesNotFit(s) == ~CanSplit(task[s]) /\ Len(batch) + NTokens(s) > conf.n_batch

PromptPostponed(s) ==
    /\ PromptReady(s) /\ DoesNotFit(s)
    /\ state' = [state EXCEPT ![s] = "PROCESSING_PROMPT"]
    /\ prompt' = [prompt EXCEPT ![s] = Kept(s)]
    /\ Advance(s, "decode")
    /\ UNCHANGED <<taskVars, results, task, lora, i_batch, n_gen, kv, batchVars, decodeVars>>

WaitingChildren(s) == {c \in Slots : state[c] = "WAIT_OTHER" /\ Task[task[c]].parent = task[s]}

(* Fault: the prompt just fills the batch. *)
PromptEndFull(s) == Min({NTokens(s), Len(Kept(s)) + conf.n_batch - Len(batch)})

(* How far the prompt gets in this batch: it stops where the shared prefix  *)
(* ends while children wait for it, and before outputs that would be split. *)
PromptEnd(s) ==
    LET first == Len(Kept(s))
        room  == conf.n_batch - Len(batch)
    IN  Min({NTokens(s), first + room}
                 \cup (IF NShared(s) > first /\ WaitingChildren(s) # {} THEN {NShared(s)} ELSE {})
                 \cup (IF IsDecision(s) /\ first <= PosFirst(s) /\ first + room < NTokens(s)
                       THEN {PosFirst(s)} ELSE {}))

(* Fault: the cells of the rejected tokens stay. *)
TruncateNothing(s) == kv[s]

Truncated(s) == SeqRm(kv[s], Len(Kept(s)))

AddPrompt(s) ==
    /\ PromptReady(s) /\ ~DoesNotFit(s)
    /\ LET first   == Len(Kept(s))
           added   == SubSeq(Task[task[s]].tokens, first + 1, PromptEnd(s))
           done    == PromptEnd(s) = NTokens(s)
           started == IF NShared(s) > 0 /\ first = NShared(s) THEN WaitingChildren(s) ELSE {}
       IN  /\ batch' = batch \o Entries(s, added, first)
           /\ kv' = [c \in Slots |-> IF c \in started \cup {s} THEN Truncated(s) ELSE kv[c]]
           /\ prompt' = [c \in Slots |-> IF c = s THEN Kept(s) \o added
                                         ELSE IF c \in started THEN Kept(s) ELSE prompt[c]]
           /\ state' = [c \in Slots |->
                           IF c = s THEN (IF done THEN "DONE_PROMPT" ELSE "PROCESSING_PROMPT")
                           ELSE IF c \in started THEN "STARTED" ELSE state[c]]
           /\ i_batch' = IF done THEN [i_batch EXCEPT ![s] = Len(batch')] ELSE i_batch
           /\ n_gen' = IF done THEN [n_gen EXCEPT ![s] = 0] ELSE n_gen
    /\ Batched(s)
    /\ Advance(s, "decode")
    /\ UNCHANGED <<taskVars, results, task, lora, decodeVars>>

----------------------------------------------------------------------------
(* decode, of the next sub-batch.                                           *)

View == {i \in 1 .. Len(batch) : off < i /\ i <= off + n_batch}
Decoding  == pc = "decode" /\ off < Len(batch)

ViewOf(s) == {batch[i] : i \in {i \in View : batch[i].slot = s}}

(* A sequence goes on where its memory ends; llama_decode checks this.      *)
Consistent(s) ==
    kv[s] # NoCells =>
        \A e \in ViewOf(s) : \E p \in DOMAIN kv[s] \cup {f.pos : f \in ViewOf(s)} :
            /\ p = e.pos - 1
            /\ e.pos \notin DOMAIN kv[s]

Computed ==
    [s \in Slots |-> [p \in DOMAIN kv[s] \cup {e.pos : e \in ViewOf(s)} |->
        IF \E e \in ViewOf(s) : e.pos = p
        THEN [token |-> (CHOOSE e \in ViewOf(s) : e.pos = p).token, lora |-> lora[slot_batched]]
        ELSE kv[s][p]]]

EndUpdate ==
    /\ pc = "decode" /\ off >= Len(batch)
    /\ pc' = "tasks"
    /\ UNCHANGED <<at, taskVars, slotVars, batchVars, decodeVars>>

(* The children of the parents whose prompt is in the batch.                *)
Activated == {c \in Slots : \E s \in Slots : state[s] = "DONE_PROMPT" /\ c \in WaitingChildren(s)}

(* copy_state_to: what a child takes over from its parent.                  *)
Copied(f) ==
    LET parent(c) == CHOOSE s \in Slots : task[s] = Task[task[c]].parent
    IN  [c \in Slots |-> IF c \in Activated THEN f[parent(c)] ELSE f[c]]

(* Fault: the children get the prompt but not the memory. *)
ComputedOnly == Computed

ComputedAndCopied == Copied(Computed)

DecodeSucceeds ==
    /\ Decoding /\ \A s \in Slots : Consistent(s)
    /\ kv' = ComputedAndCopied
    /\ prompt' = Copied(prompt) /\ i_batch' = Copied(i_batch) /\ n_gen' = Copied(n_gen)
    /\ state' = [c \in Slots |-> IF c \in Activated THEN "DONE_PROMPT" ELSE state[c]]
    /\ pc' = "post" /\ at' = 1
    /\ UNCHANGED <<taskVars, results, task, lora, batchVars, decodeVars>>

Purgeable == {s \in Idle : conf.kv_unified /\ prompt[s] # <<>>}

CanRetry == n_batch > 1

(* No room: an idle slot is purged or a smaller sub-batch is tried.         *)
DecodeRetries ==
    /\ conf.refills
    /\ Decoding /\ \A s \in Slots : Consistent(s)
    /\ CanRetry
    /\ IF Purgeable # {}
       THEN Clear({Min(Purgeable)}) /\ UNCHANGED n_batch
       ELSE n_batch' = n_batch \div 2 /\ UNCHANGED <<prompt, kv>>
    /\ UNCHANGED <<pc, at, taskVars, results, state, task, lora, i_batch, n_gen, batchVars, off>>

(* Fault: the requests fail but their sequences stay in memory. *)
FatalClearsNone == {}

FatalClears == Processing

(* Invalid batch, compute error, or no room for a single token.             *)
DecodeFatal ==
    /\ Decoding
    /\ \/ \E s \in Slots : ~Consistent(s)
       \/ conf.fails
       \/ conf.refills /\ n_batch = 1
    /\ Answer(Processing, "error")
    /\ ReleaseState(Processing) /\ Clear(FatalClears)
    /\ pc' = "tasks"
    /\ UNCHANGED <<at, taskVars, lora, i_batch, batchVars, decodeVars>>

(* decode() throws before or after the computation: abort_all_slots.        *)
DecodeThrows ==
    /\ conf.throws /\ Decoding
    /\ \E cells \in {kv} \cup (IF \A c \in Slots : Consistent(c) THEN {Computed} ELSE {}) :
          kv' = [s \in Slots |->
                    IF s \in Processing /\ ClearedOnRelease(s) THEN NoCells ELSE cells[s]]
    /\ prompt' = [s \in Slots |-> IF s \in Processing /\ ClearedOnRelease(s) THEN <<>> ELSE prompt[s]]
    /\ Answer(Processing, "error") /\ ReleaseState(Processing)
    /\ pc' = "tasks"
    /\ UNCHANGED <<at, taskVars, lora, i_batch, batchVars, decodeVars>>

----------------------------------------------------------------------------
(* post_decode.                                                             *)

InView(i) == off < i /\ i <= off + Cardinality(View)

Sampling(s) ==
    /\ InView(i_batch[s])
    /\ state[s] \in {"DONE_PROMPT", "GENERATING"}

PostAdvance(s) ==
    /\ Advance(s, "decode")
    /\ IF s < conf.n_slots THEN UNCHANGED decodeVars
       ELSE off' = off + Cardinality(View) /\ n_batch' = conf.n_batch
    /\ UNCHANGED <<taskVars, batchVars>>

NotSampling(s) ==
    /\ Walk("post", s) /\ ~Sampling(s)
    /\ PostAdvance(s)
    /\ UNCHANGED slotVars

SendOutputs(s) ==
    /\ Walk("post", s) /\ Sampling(s) /\ Task[task[s]].type # "COMPLETION"
    /\ Answer({s}, "final")
    /\ ReleaseState({s}) /\ Clear({c \in {s} : ClearedOnRelease(s)})
    /\ i_batch' = [i_batch EXCEPT ![s] = NoSlot]
    /\ PostAdvance(s)
    /\ UNCHANGED lora

MustEnd(s) ==
    \/ ~conf.ctx_shift /\ Len(prompt[s]) + 1 >= conf.n_ctx
    \/ n_gen[s] + 1 >= Task[task[s]].limit

Generates(s) ==
    /\ Walk("post", s) /\ Sampling(s) /\ Task[task[s]].type = "COMPLETION"
    /\ PostAdvance(s)
    /\ i_batch' = [i_batch EXCEPT ![s] = NoSlot]
    /\ UNCHANGED lora

GoesOn(s) ==
    /\ Generates(s) /\ ~MustEnd(s)
    /\ state' = [state EXCEPT ![s] = "GENERATING"]
    /\ n_gen' = [n_gen EXCEPT ![s] = @ + 1]
    /\ UNCHANGED <<results, task, prompt, kv>>

(* The limit, an end-of-generation token, a stop word; or an exception.     *)
Ends(s) ==
    /\ Generates(s)
    /\ \/ Answer({s}, "final")
       \/ conf.throws /\ Answer({s}, "error")
    /\ ReleaseState({s}) /\ Clear({c \in {s} : ClearedOnRelease(s)})

----------------------------------------------------------------------------
UpdateStep ==
    \/ \E s \in Slots :
          \/ NoShift(s) \/ ShiftRefused(s) \/ ShiftContext(s)
          \/ AddSampled(s) \/ NothingSampled(s)
          \/ NoPrompt(s) \/ EmptyPrompt(s) \/ PromptRefused(s) \/ PromptAborts(s)
          \/ PromptPostponed(s) \/ AddPrompt(s)
          \/ NotSampling(s) \/ SendOutputs(s) \/ GoesOn(s) \/ Ends(s)
    \/ BeginUpdate \/ EndUpdate
    \/ DecodeSucceeds \/ DecodeRetries \/ DecodeFatal \/ DecodeThrows

Next ==
    \/ UpdateStep
    \/ \E r \in Posted : Launch(r) \/ LaunchFails(r) \/ Stop(r)
    \/ \E s \in Slots : Cancel(s)
    \/ SetLora

Spec == Init /\ [][Next]_vars

(* The main loop goes on while a slot is busy (NEXT_RESPONSE), and handles  *)
(* what is posted, in between.                                              *)
Fairness ==
    /\ WF_vars(UpdateStep)
    /\ \A r \in Requests : WF_vars(r \in Posted /\ Stop(r) /\ \E q \in Family(r) : Contains(results[q], "error"))
    /\ \A s \in 1 .. MaxSlots : SF_vars(s \in Slots /\ Cancel(s))

FairSpec == Spec /\ Fairness

----------------------------------------------------------------------------
(* Properties.                                                              *)

At     == {"tasks", "shift", "generate", "prompts", "decode", "post", "aborted"}
States == {"IDLE", "WAIT_OTHER", "STARTED", "PROCESSING_PROMPT", "DONE_PROMPT", "GENERATING"}

(* Every variable has its type, and a slot holds a task when it is busy.    *)
TypeOK ==
    /\ conf \in Confs /\ pc \in At /\ at \in Slots
    /\ waiting \subseteq Posted /\ stopped \subseteq Posted
    /\ results \in [Posted -> Seq({"final", "error"})]
    /\ base_lora \in Loras /\ lora \in [Slots -> Loras]
    /\ state \in [Slots -> States]
    /\ task \in [Slots -> Posted \cup {NoRequest}]
    /\ \A s \in Slots : state[s] = "IDLE" <=> task[s] = NoRequest
    /\ prompt \in [Slots -> Seq(Nat)] /\ i_batch \in [Slots -> Nat] /\ n_gen \in [Slots -> Nat]
    /\ \A s \in Slots : /\ DOMAIN kv[s] \subseteq Nat
                        /\ \A p \in DOMAIN kv[s] : kv[s][p] \in [token : Nat, lora : Loras]
    /\ batch \in Seq([slot : Slots, token : Nat, pos : Nat])
    /\ slot_batched \in Slots \cup {NoSlot}
    /\ off \in Nat /\ n_batch \in 1 .. conf.n_batch

InMemory(s) ==
    \A p \in 0 .. Len(prompt[s]) - 1 : p \in DOMAIN kv[s] /\ kv[s][p].token = prompt[s][p + 1]

(* Between updates, the tokens a slot believes to have cached are in the    *)
(* memory: what a later request may reuse, whatever happened to the         *)
(* requests before it, so that the process does not abort over "pos_min ==  *)
(* -1, but n_past > 0"; an exception is another matter (see the README).    *)
PromptInMemory ==
    ~conf.throws =>
        /\ pc = "tasks" => \A s \in Slots : InMemory(s)
        /\ pc # "aborted"

(* The sequence of a slot continues where its memory ends in every          *)
(* sub-batch that is submitted, after retries with smaller ones too.        *)
BatchConsistent == ~conf.throws /\ Decoding => \A s \in Slots : Consistent(s)

(* An update gets somewhere: the batch is empty only when nothing but       *)
(* children without a parent is left, so the loop does not spin.            *)
BatchNotEmpty ==
    pc = "decode" /\ batch = <<>> => \A s \in Slots : state[s] \in {"IDLE", "WAIT_OTHER"}

Holders(r) == {s \in Slots : task[s] = r}

(* A child waits only for a parent that will get to it, unless an error or  *)
(* a disconnection is about to cancel the whole family.                     *)
ChildrenAwaitParent ==
    pc = "tasks" => \A c \in Slots : state[c] = "WAIT_OTHER" =>
        \/ Task[Task[task[c]].parent].tokens = <<>>
        \/ \E s \in Holders(Task[task[c]].parent) : state[s] \in {"STARTED", "PROCESSING_PROMPT"}
        \/ task[c] \in stopped
        \/ \E q \in Family(task[c]) : Contains(results[q], "error")

(* What is about to be decoded is well-formed: the memory can take it, an   *)
(* update with a busy slot has something to decode, and no slot waits for   *)
(* what will not come.                                                      *)
WellFormed == TypeOK /\ BatchConsistent /\ BatchNotEmpty /\ ChildrenAwaitParent

(* A slot samples from the logits of its own last token (for a child, of    *)
(* its parent's), computed over exactly the tokens of its own prompt.       *)
SamplesOwnPrompt ==
    \A s \in Slots : Walk("post", s) /\ Sampling(s) =>
        /\ batch[i_batch[s]].slot = s \/ IsChild(task[s])
        /\ batch[i_batch[s]].pos = Len(prompt[s]) - 1
        /\ InMemory(s) /\ Cardinality(DOMAIN kv[s]) = Len(prompt[s])

(* ... and all of them with the adapters of the slot.                       *)
SamplesUnderOwnLora ==
    \A s \in Slots : Walk("post", s) /\ Sampling(s) =>
        \A p \in DOMAIN kv[s] : kv[s][p].lora = lora[s]

(* The outputs of a decision, and the whole input of an embedding, are in   *)
(* the sub-batch they are read from, as long as no full memory halves the   *)
(* batch (see the README).                                                  *)
OutputsTogether ==
    ~conf.refills => \A s \in Slots : Walk("post", s) /\ Sampling(s) /\ Task[task[s]].type # "COMPLETION" =>
        LET first == IF IsDecision(s) THEN PosFirst(s) ELSE 0
        IN  \A p \in first .. NTokens(s) - 1 : \E e \in ViewOf(s) : e.pos = p

(* A request is waiting, in one slot or answered once; the children are     *)
(* where their parent was until they have slots of their own.               *)
AnsweredOnce ==
    \A r \in Posted \ stopped :
        LET places == Cardinality(Holders(r)) + Len(results[r])
        IN  IF r \in waiting THEN places = 0
            ELSE IF \E q \in Family(r) : Contains(results[q], "error") THEN places <= 1
            ELSE IF IsChild(r) /\ Task[r].parent \in waiting THEN places = 0
            ELSE places = 1

(* Every slot is given back, whatever else shares the batch: requests being *)
(* finite, all are idle again and again.  When an exception has torn a      *)
(* prompt from its cache the process may abort first.                       *)
SlotsGivenBack == []<>(Processing = {} \/ (conf.throws /\ pc = "aborted"))

=============================================================================
