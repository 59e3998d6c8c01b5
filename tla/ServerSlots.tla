----------------------------- MODULE ServerSlots -----------------------------
(* Which slot a request of llama-server gets, what becomes of the prompt    *)
(* the slot still holds, and which deferred task a released slot wakes:     *)
(* get_available_slot, the launch of a task and its children, release, the  *)
(* host prompt cache (server_prompt_cache), save, restore and erase of a    *)
(* slot.  SlotBatch models the decoding between launch and release, which   *)
(* is two steps here; ServerQueue models the queue's threads.               *)
(*                                                                          *)
(* The main thread runs one handler at a time.  A handler is one action;    *)
(* what it consists of are operators from a state of the server (Srv) to    *)
(* the set of those it may lead to.  A cell of a slot's memory is a token   *)
(* and the adapters it was computed with; the size of a saved state is its  *)
(* number of cells.  There is no draft model, no aLoRA and no checkpoint.   *)
EXTENDS Filters, FiniteSets, SequencesExt

CONSTANTS
    MaxSlots, MaxTasks,     \* bounds on the slots and the requests of Confs
    NoSlot, NoTask, NoLora, \* id_slot = -1, no parent, no lora field
    Loras,                  \* LoRA configurations
    Confs                   \* the servers to check (IsConf)

Scheduled   == {"COMPLETION", "EMBEDDING"}
SlotActions == {"SLOT_SAVE", "SLOT_RESTORE", "SLOT_ERASE"}

(* children: the tasks launched with this one.  target: the task a CANCEL,  *)
(* the slot a slot action is for.  invalid: its launch fails.               *)
TaskType ==
    [type : Scheduled \cup SlotActions \cup {"CANCEL", "SET_LORA"}, tokens : Seq(Nat \ {0}),
     id_slot : 1 .. MaxSlots \cup {NoSlot}, lora : Loras \cup {NoLora},
     parent : 1 .. MaxTasks \cup {NoTask}, children : Seq(1 .. MaxTasks),
     target : Nat, invalid : BOOLEAN]

(* similarity: slot_prompt_similarity, in percent.  limit: size of the      *)
(* prompt cache (0: none).  n_gen: bound on the tokens a slot generates.    *)
(* loras: the server's adapters at the start.                               *)
(* fails: a state may not be restored.  oom: a saved state may find no      *)
(* memory on the host.  steady: no task is cancelled, refused or a slot     *)
(* action; progress is asked of these.                                      *)
IsConf(c) ==
    /\ c.n_slots \in 1 .. MaxSlots /\ c.similarity \in 0 .. 100 /\ c.limit \in Nat /\ c.n_gen \in Nat
    /\ {c.kv_unified, c.cache_idle_slots, c.fails, c.oom, c.steady} \subseteq BOOLEAN
    /\ c.limit = 0 => ~c.cache_idle_slots
    /\ c.loras \subseteq Loras /\ c.loras # {}
    /\ c.task \in Seq(TaskType) /\ Len(c.task) <= MaxTasks
    /\ \A r \in DOMAIN c.task :
          /\ c.steady => c.task[r].type \in Scheduled \cup {"SET_LORA"} /\ ~c.task[r].invalid
          /\ c.task[r].type \in Scheduled => c.task[r].tokens # <<>>
          /\ c.task[r].type \in SlotActions => c.task[r].target \in 1 .. c.n_slots
          /\ c.task[r].type = "CANCEL" =>
                /\ c.task[r].target \in DOMAIN c.task
                /\ c.task[c.task[r].target].children = <<>>
          /\ c.task[r].type = "SET_LORA" => c.task[r].lora \in Loras
          /\ LET child == c.task[r].children
             IN  /\ Len(child) < c.n_slots
                 /\ \A i \in DOMAIN child : /\ child[i] \in DOMAIN c.task
                                            /\ c.task[child[i]].parent = r
                 /\ \A i, j \in DOMAIN child : child[i] = child[j] => i = j

ASSUME ServerSlotsAssumption ==
    /\ MaxSlots \in Nat /\ MaxTasks \in Nat
    /\ NoSlot \notin 1 .. MaxSlots /\ NoTask \notin 1 .. MaxTasks /\ NoLora \notin Loras
    /\ \A c \in Confs : IsConf(c)

VARIABLES
    conf,
    unposted,                           \* requests not posted yet
    base_lora,                          \* params_base.lora_adapters
    slot,                               \* state, task, lora, prompt and memory of each slot
    lru,                                \* the slots in the order of t_last_used
    states, limit_size,                 \* server_prompt_cache
    queue_tasks, queue_tasks_deferred,
    file                                \* the slot save file, <<>> when there is none

vars == <<conf, unposted, base_lora, slot, lru, states, limit_size, queue_tasks,
          queue_tasks_deferred, file>>

Task  == conf.task
Slots == 1 .. conf.n_slots

Stateless(r) == Task[r].type = "EMBEDDING"
IsChild(r)   == Task[r].parent # NoTask
Pinned(r)    == Task[r].id_slot \in Slots

(* The state of the server, which the steps of a handler change in turn.    *)
Srv == [slot |-> slot, lru |-> lru, states |-> states, limit |-> limit_size,
        tasks |-> queue_tasks, deferred |-> queue_tasks_deferred]

(* From any of the states in W by Step, and by one Step for each x of xs.   *)
Then(W, Step(_)) == UNION {Step(w) : w \in W}
ForEach(W, Step(_, _), xs) == FoldLeft(LAMBDA V, x : UNION {Step(v, x) : v \in V}, W, xs)

Become(w) ==
    /\ slot' = w.slot /\ lru' = w.lru
    /\ states' = w.states /\ limit_size' = w.limit
    /\ queue_tasks' = w.tasks /\ queue_tasks_deferred' = w.deferred

Processing(w, s) == w.slot[s].state # "IDLE"

Without(q, x) == Keep(q, ToSet(q) \ {x})

----------------------------------------------------------------------------
(* Prompts and their memory.                                                *)

(* get_common_prefix *)
Lcp(p, q) ==
    Cardinality({n \in 1 .. Min({Len(p), Len(q)}) : \A i \in 1 .. n : p[i] = q[i]})

Toks(cells) == [i \in DOMAIN cells |-> cells[i].tok]
Computed(tokens, lora) == [i \in DOMAIN tokens |-> [tok |-> tokens[i], lora |-> lora]]

Entry(tokens, cells) == [tokens |-> tokens, cells |-> cells]

Holding(w, s, tokens, cells) ==
    [w EXCEPT !.slot[s] = [@ EXCEPT !.prompt = tokens, !.mem = cells]]

(* Fault: the tokens are not forgotten with the cells. *)
MemoryClear(w, s) == Holding(w, s, w.slot[s].prompt, <<>>)

PromptClear(w, s) == Holding(w, s, <<>>, <<>>)

----------------------------------------------------------------------------
(* server_prompt_cache.                                                     *)

CacheSize(entries) == FoldLeft(LAMBDA n, e : n + Len(e.cells), 0, entries)

(* The entries that are left when the oldest make room.                     *)
Newest(entries, room) ==
    LET dropped == {k \in 0 .. Len(entries) :
                       CacheSize(SubSeq(entries, k + 1, Len(entries))) <= room}
    IN  SubSeq(entries, Min(dropped) + 1, Len(entries))

(* Fault: it is saved beside them. *)
ContainedStay(entries, p) == entries

(* A new entry replaces the prompts it contains.                            *)
NotContained(entries, p) == Keep(entries, {e \in ToSet(entries) : ~IsPrefix(e.tokens, p)})

(* prompt_save: nothing is saved that the cache contains or cannot hold;    *)
(* when there is no memory for it, the cache shrinks instead.  update() has *)
(* then nothing left to drop.                                               *)
PromptSaved(w, s) ==
    LET p    == w.slot[s].prompt
        size == Len(w.slot[s].mem)
        kept == Newest(NotContained(w.states, p), w.limit - size)
        less == (4 * CacheSize(kept)) \div 10
    IN  IF p = <<>> \/ size > w.limit \/ \E i \in DOMAIN w.states : IsPrefix(p, w.states[i].tokens)
        THEN {w}
        ELSE {[w EXCEPT !.states = Append(kept, Entry(p, w.slot[s].mem))]}
             \cup IF conf.oom THEN {[w EXCEPT !.limit = less, !.states = Newest(kept, less)]} ELSE {}


(* f_keep and f_sim of a are below those of b, for a task with these        *)
(* tokens: f_keep = lcp / size, below any when the prompt is empty.         *)
Below(a, b, tokens) ==
    LET la == Lcp(a, tokens)  lb == Lcp(b, tokens)
    IN  la < lb /\ (a = <<>> \/ la * Len(b) < lb * Len(a))

(* don't trash large prompts *)
Worthy(p, tokens) == 4 * Lcp(p, tokens) >= Len(p)

(* The entry that load finds, 0 when it finds none better than prompt.      *)
BestEntry(entries, prompt, tokens) ==
    LET held(i) == IF i = 0 THEN prompt ELSE entries[i].tokens
        better(best, i) == IF Worthy(held(i), tokens) /\ Below(held(best), held(i), tokens)
                           THEN {i} ELSE {best}
    IN  ForEach({0}, better, [i \in DOMAIN entries |-> i])

(* prompt_load, and prompt_clear when the state could not be restored: its  *)
(* entry then stays in the cache.                                           *)
PromptLoaded(w, s, tokens) ==
    UNION {IF best = 0 THEN {w}
           ELSE {[Holding(w, s, w.states[best].tokens, w.states[best].cells)
                  EXCEPT !.states = RemoveAt(@, best)]}
                \cup IF conf.fails THEN {PromptClear(w, s)} ELSE {} :
           best \in BestEntry(w.states, w.slot[s].prompt, tokens)}

----------------------------------------------------------------------------
(* The choice of a slot.                                                    *)

(* get_free_slots: empty slots first, then the least recently used.         *)
FreeSlots(w, exclude) ==
    LET free  == {s \in Slots \ {exclude} : ~Processing(w, s)}
        empty == {s \in free : w.slot[s].prompt = <<>>}
    IN  Keep(w.lru, empty) \o Keep(w.lru, free \ empty)

(* The slots whose prompt is similar enough to the task's.                  *)
Similar(w, r) ==
    {s \in Slots : /\ conf.similarity > 0
                   /\ ~Processing(w, s)
                   /\ Task[r].id_slot \in {NoSlot, s}
                   /\ w.slot[s].prompt # <<>>
                   /\ Lcp(w.slot[s].prompt, Task[r].tokens) * 100 > conf.similarity * Len(Task[r].tokens)}

MostSimilar(w, r) ==
    LET sim(s) == Lcp(w.slot[s].prompt, Task[r].tokens)
    IN  Min({s \in Similar(w, r) : \A t \in Similar(w, r) : sim(s) >= sim(t)})

(* get_available_slot: the slot, NoSlot when all are busy.  A task that     *)
(* asks for a slot there is not gets any.                                   *)
AvailableSlot(w, r) ==
    IF Pinned(r) THEN Task[r].id_slot
    ELSE IF Similar(w, r) # {} THEN MostSimilar(w, r)
    ELSE IF FreeSlots(w, NoSlot) # <<>> THEN Head(FreeSlots(w, NoSlot))
    ELSE NoSlot

(* f_keep < 0.5, where f_keep is 0 / 0 for an empty prompt and counts a     *)
(* prompt that is not similar enough as 0.                                  *)
KeepsLittle(w, r, s) ==
    LET p == w.slot[s].prompt
        f == IF s \in Similar(w, r) THEN Lcp(p, Task[r].tokens) ELSE 0
    IN  p # <<>> /\ 2 * f < Len(p)


UpdatesCache(w, r, s) ==
    /\ IF Similar(w, r) # {} \/ Pinned(r) THEN conf.similarity > 0 /\ KeepsLittle(w, r, s) ELSE TRUE
    /\ conf.limit > 0
    /\ ~Stateless(r)

(* ... and what it does to the prompt of that slot.                         *)
Offered(w, s, r) ==
    IF s = NoSlot THEN {w}
    ELSE IF Processing(w, s) \/ ~UpdatesCache(w, r, s) THEN {w}
    ELSE Then(PromptSaved(w, s), LAMBDA v : PromptLoaded(v, s, Task[r].tokens))

----------------------------------------------------------------------------
(* Launch and release.                                                      *)

(* Adapters other than the slot's make it forget its tokens, though not its *)
(* cells; a request that names none takes the server's without a look.      *)
WithLora(w, s, r) ==
    LET l == Task[r].lora
        p == IF l # NoLora /\ l # w.slot[s].lora THEN <<>> ELSE w.slot[s].prompt
    IN  [w EXCEPT !.slot[s] = [@ EXCEPT !.lora = IF l = NoLora THEN base_lora ELSE l, !.prompt = p]]

Launched(w, s, r) ==
    LET v == WithLora(w, s, r)
    IN  [v EXCEPT !.slot[s] = [@ EXCEPT !.task = r, !.state = IF IsChild(r) THEN "WAIT_OTHER"
                                                              ELSE "STARTED"]]

(* Fault: only a task that asks for this slot. *)
PopPinned(w, s) ==
    LET i == SelectInSeq(w.deferred, LAMBDA r : Task[r].id_slot = s)
    IN  IF i = 0 THEN w ELSE [w EXCEPT !.tasks = <<w.deferred[i]>> \o @, !.deferred = RemoveAt(@, i)]

(* pop_deferred_task: the first that asks for this slot, or the first.      *)
PopDeferred(w, s) ==
    LET i == SelectInSeq(w.deferred, LAMBDA r : Task[r].id_slot = s)
        j == IF i = 0 THEN 1 ELSE i
    IN  IF w.deferred = <<>> THEN w
        ELSE [w EXCEPT !.tasks = <<w.deferred[j]>> \o @, !.deferred = RemoveAt(@, j)]

(* server_slot::release.                                                    *)
Released(w, s) ==
    LET r == w.slot[s].task
        v == IF IsChild(r) \/ Stateless(r) THEN PromptClear(w, s) ELSE w
    IN  PopDeferred([v EXCEPT !.slot[s] = [@ EXCEPT !.state = "IDLE", !.task = NoTask],
                              !.lru = Append(Without(@, s), s)], s)

(* The slots of a task and its children, in the order they are launched:    *)
(* the children on free slots, whose prompts are saved, then the task.      *)
Places(w, s, r) ==
    LET child == Task[r].children
    IN  Append([i \in DOMAIN child |-> [slot |-> FreeSlots(w, s)[i], task |-> child[i]]],
               [slot |-> s, task |-> r])

SavedForChild(w, x) ==
    IF IsChild(x.task) /\ conf.limit > 0 THEN PromptSaved(w, x.slot) ELSE {w}

LaunchAll(W, places) ==
    ForEach(W, LAMBDA w, x : {Launched(v, x.slot, x.task) : v \in SavedForChild(w, x)}, places)

(* One is refused after it changed the slot's adapters: those launched      *)
(* before it are released.                                                  *)
LaunchUntil(W, places, n) ==
    LET x == places[n]
        refused(w)  == {WithLora(v, x.slot, x.task) : v \in SavedForChild(w, x)}
        launched    == {places[i].slot : i \in 1 .. (n - 1)}
    IN  ForEach(Then(LaunchAll(W, SubSeq(places, 1, n - 1)), refused),
                LAMBDA w, s : {Released(w, s)}, Keep([s \in Slots |-> s], launched))

(* cache_idle_slots: prompts of idle slots are saved, and with a unified    *)
(* memory cleared.                                                          *)
IdleCached(W) ==
    LET visit(w, s) == IF Processing(w, s) THEN {w}
                       ELSE IF conf.kv_unified THEN {PromptClear(v, s) : v \in PromptSaved(w, s)}
                       ELSE PromptSaved(w, s)
    IN  IF conf.cache_idle_slots THEN ForEach(W, visit, [s \in Slots |-> s]) ELSE W

----------------------------------------------------------------------------
Init ==
    /\ conf \in Confs
    /\ base_lora \in conf.loras
    /\ unposted = {r \in DOMAIN conf.task : conf.task[r].parent = NoTask}
    /\ slot = [s \in 1 .. conf.n_slots |-> [state |-> "IDLE", task |-> NoTask, lora |-> NoLora,
                                            prompt |-> <<>>, mem |-> <<>>]]
    /\ lru = [s \in 1 .. conf.n_slots |-> s]
    /\ states = <<>> /\ limit_size = conf.limit
    /\ queue_tasks = <<>> /\ queue_tasks_deferred = <<>>
    /\ file = <<>>

(* A CANCEL goes to the front and drops its target where it is pending.     *)
Post(r) ==
    /\ r \in unposted
    /\ unposted' = unposted \ {r}
    /\ IF Task[r].type = "CANCEL"
       THEN /\ queue_tasks' = <<r>> \o Without(queue_tasks, Task[r].target)
            /\ queue_tasks_deferred' = Without(queue_tasks_deferred, Task[r].target)
       ELSE /\ queue_tasks' = Append(queue_tasks, r)
            /\ UNCHANGED queue_tasks_deferred
    /\ UNCHANGED <<conf, base_lora, slot, lru, states, limit_size, file>>

(* The main loop takes the first task.                                      *)
Takes(r, types) ==
    /\ queue_tasks # <<>>
    /\ r = Head(queue_tasks)
    /\ Task[r].type \in types

Taken == [Srv EXCEPT !.tasks = Tail(@)]

(* There is no slot, or it is busy, or there are too few for the children.  *)
NoRoom(w, s, r) ==
    \/ s = NoSlot
    \/ s # NoSlot /\ Processing(w, s)
    \/ Len(FreeSlots(w, s)) < Len(Task[r].children)

Refused(places) == {i \in DOMAIN places : Task[places[i].task].invalid}

(* process_single_task, for a task that needs a slot: the prompt of the     *)
(* slot may change before the task is deferred or refused.                  *)
DeferTask(r) ==
    /\ Takes(r, Scheduled)
    /\ \E s \in {AvailableSlot(Taken, r)} :
          /\ NoRoom(Taken, s, r)
          /\ \E w \in Offered(Taken, s, r) : Become([w EXCEPT !.deferred = Append(@, r)])
    /\ UNCHANGED <<conf, unposted, base_lora, file>>

LaunchTask(r) ==
    /\ Takes(r, Scheduled)
    /\ \E s \in {AvailableSlot(Taken, r)} :
          /\ ~NoRoom(Taken, s, r)
          /\ \E p \in {Places(Taken, s, r)} :
                /\ Refused(p) = {}
                /\ \E w \in IdleCached(LaunchAll(Offered(Taken, s, r), p)) : Become(w)
    /\ UNCHANGED <<conf, unposted, base_lora, file>>

LaunchFails(r) ==
    /\ Takes(r, Scheduled)
    /\ \E s \in {AvailableSlot(Taken, r)} :
          /\ ~NoRoom(Taken, s, r)
          /\ \E p \in {Places(Taken, s, r)} :
                /\ Refused(p) # {}
                /\ \E w \in LaunchUntil(Offered(Taken, s, r), p, Min(Refused(p))) : Become(w)
    /\ UNCHANGED <<conf, unposted, base_lora, file>>

Cancel(r) ==
    /\ Takes(r, {"CANCEL"})
    /\ LET of == {s \in Slots : slot[s].task = Task[r].target}
       IN  Become(IF of = {} THEN Taken ELSE Released(Taken, Min(of)))
    /\ UNCHANGED <<conf, unposted, base_lora, file>>

SetLora(r) ==
    /\ Takes(r, {"SET_LORA"})
    /\ base_lora' = Task[r].lora
    /\ Become(Taken)
    /\ UNCHANGED <<conf, unposted, file>>

(* Saving, restoring and erasing wait for the slot, and wake nobody.        *)
DeferSlotAction(r) ==
    /\ Takes(r, SlotActions)
    /\ Processing(Taken, Task[r].target)
    /\ Become([Taken EXCEPT !.deferred = Append(@, r)])
    /\ UNCHANGED <<conf, unposted, base_lora, file>>

SlotSave(r) ==
    /\ Takes(r, {"SLOT_SAVE"})
    /\ ~Processing(Taken, Task[r].target)
    /\ LET s == Task[r].target
       IN  file' \in {<<Entry(slot[s].prompt, slot[s].mem)>>} \cup IF conf.fails THEN {<<>>} ELSE {}
    /\ Become(Taken)
    /\ UNCHANGED <<conf, unposted, base_lora>>

SlotRestore(r) ==
    /\ Takes(r, {"SLOT_RESTORE"})
    /\ ~Processing(Taken, Task[r].target)
    /\ LET s == Task[r].target
       IN  \E w \in {Holding(Taken, s, x.tokens, x.cells) : x \in ToSet(file)}
                     \cup IF conf.fails \/ file = <<>> THEN {PromptClear(Taken, s)} ELSE {} : Become(w)
    /\ UNCHANGED <<conf, unposted, base_lora, file>>

SlotErase(r) ==
    /\ Takes(r, {"SLOT_ERASE"})
    /\ ~Processing(Taken, Task[r].target)
    /\ Become(PromptClear(Taken, Task[r].target))
    /\ UNCHANGED <<conf, unposted, base_lora, file>>

Dispatch(r) ==
    \/ DeferTask(r) \/ LaunchTask(r) \/ LaunchFails(r)
    \/ Cancel(r) \/ SetLora(r)
    \/ DeferSlotAction(r) \/ SlotSave(r) \/ SlotRestore(r) \/ SlotErase(r)

----------------------------------------------------------------------------
(* The updates of the slots, in SlotBatch's detail: the prompt is computed  *)
(* but for what the slot already holds, and the children get a copy; then   *)
(* tokens are generated and the slot is released.                           *)

(* At least the last token is evaluated.                                    *)
Reused(s) ==
    LET p == Task[slot[s].task].tokens
    IN  IF Stateless(slot[s].task) THEN 0 ELSE Min({Lcp(slot[s].prompt, p), Len(p) - 1})

Prefill(s) ==
    /\ slot[s].state = "STARTED"
    /\ LET p     == Task[slot[s].task].tokens
           n     == Reused(s)
           cells == SubSeq(slot[s].mem, 1, n) \o Computed(SubSeq(p, n + 1, Len(p)), slot[s].lora)
           next  == {s} \cup {c \in Slots : /\ slot[c].state = "WAIT_OTHER"
                                             /\ Task[slot[c].task].parent = slot[s].task}
       IN  slot' = [c \in Slots |-> IF c \in next
                                    THEN [slot[c] EXCEPT !.state = "GENERATING", !.prompt = p, !.mem = cells]
                                    ELSE slot[c]]
    /\ UNCHANGED <<conf, unposted, base_lora, lru, states, limit_size, queue_tasks,
                   queue_tasks_deferred, file>>

(* A generated token is 0.                                                  *)
Finish(s) ==
    /\ slot[s].state = "GENERATING"
    /\ \E n \in 0 .. IF Stateless(slot[s].task) THEN 0 ELSE conf.n_gen :
          LET new == [i \in 1 .. n |-> 0]
          IN  Become(Released(Holding(Srv, s, slot[s].prompt \o new,
                                      slot[s].mem \o Computed(new, slot[s].lora)), s))
    /\ UNCHANGED <<conf, unposted, base_lora, file>>

Next ==
    \/ \E r \in DOMAIN Task : Post(r) \/ Dispatch(r)
    \/ \E s \in Slots : Prefill(s) \/ Finish(s)

Spec == Init /\ [][Next]_vars

(* Of the steady servers: the main loop takes a task when there is one, and *)
(* a slot at work gets to its end (SlotsGivenBack of SlotBatch).            *)
Fairness ==
    /\ WF_vars(conf.steady /\ \E r \in DOMAIN Task : Dispatch(r))
    /\ \A s \in 1 .. MaxSlots : WF_vars(conf.steady /\ s \in Slots /\ (Prefill(s) \/ Finish(s)))

FairSpec == Spec /\ Fairness

----------------------------------------------------------------------------
Tasks  == 1 .. MaxTasks
Tokens == Seq(Nat)
Cells  == Seq([tok : Nat, lora : Loras])

TypeOK ==
    /\ conf \in Confs /\ unposted \subseteq DOMAIN Task /\ base_lora \in Loras
    /\ slot \in [Slots -> [state : {"IDLE", "WAIT_OTHER", "STARTED", "GENERATING"},
                            task : Tasks \cup {NoTask}, lora : Loras \cup {NoLora}, prompt : Tokens, mem : Cells]]
    /\ lru \in Seq(Slots) /\ Len(lru) = conf.n_slots /\ ToSet(lru) = Slots
    /\ limit_size \in 0 .. conf.limit
    /\ \A x \in ToSet(states) \cup ToSet(file) : x.tokens \in Tokens /\ x.cells \in Cells
    /\ queue_tasks \in Seq(DOMAIN Task) /\ queue_tasks_deferred \in Seq(DOMAIN Task)

(* The prompt cache keeps its limit, and no prompt that another contains.   *)
CacheTidy ==
    /\ CacheSize(states) <= limit_size
    /\ \A i, j \in DOMAIN states : i # j => ~IsPrefix(states[i].tokens, states[j].tokens)

(* A task is in the queue, deferred or in a slot, and in one of them once.  *)
InOnePlace ==
    \A r \in DOMAIN Task :
        Cardinality({i \in DOMAIN queue_tasks : queue_tasks[i] = r})
            + Cardinality({i \in DOMAIN queue_tasks_deferred : queue_tasks_deferred[i] = r})
            + Cardinality({s \in Slots : slot[s].task = r})
            + (IF r \in unposted THEN 1 ELSE 0) <= 1

(* The types of the variables, a tidy cache and each task in one place.     *)
WellFormed == TypeOK /\ CacheTidy /\ InOnePlace

(* What a slot, a saved state or the file says it holds is in its memory,   *)
(* token for token: the next request is computed on top of it.              *)
PromptInMemory ==
    /\ \A s \in Slots : IsPrefix(slot[s].prompt, Toks(slot[s].mem))
    /\ \A x \in ToSet(states) : x.tokens = Toks(x.cells)
    /\ \A x \in ToSet(file) : IsPrefix(x.tokens, Toks(x.cells))

(* A task is launched on the slot: its own, or one for its child.           *)
Launches(s) == slot[s].state = "IDLE" /\ slot'[s].state # "IDLE"

(* The slots whose prompt is lost with a task: it goes, a child's parent    *)
(* overwrites it, or the task reuses less than half of it.                  *)
Loses(s) ==
    LET p == slot[s].prompt
        r == slot'[s].task
    IN  \/ ~IsPrefix(p, slot'[s].prompt)
        \/ Launches(s) /\ (IsChild(r) \/ 2 * Lcp(p, Task[r].tokens) < Len(p))

(* The task does not bring the slot other adapters (WithLora).              *)
KeepsAdapters(r, s) == Task[r].lora = NoLora \/ slot'[s].lora = slot[s].lora

(* p and the saved prompts that stand for it.                               *)
Containing(p) == {p} \cup {e.tokens : e \in {x \in ToSet(states) : IsPrefix(p, x.tokens)}}



(* README.md:613, the lora field: "A list of LoRA adapters to be applied to *)
(* this specific request": all a slot generates from was computed with the  *)
(* adapters of its request.                                                 *)
ReusedUnderOwnLora ==
    \A s \in Slots : slot[s].state = "GENERATING" =>
        \A i \in DOMAIN slot[s].mem : slot[s].mem[i].lora = slot[s].lora

Waiting(r) == Contains(queue_tasks, r) \/ Contains(queue_tasks_deferred, r)

(* Where tasks are neither cancelled nor refused and no slot is saved or    *)
(* restored (steady), every task that waits is launched: also a pinned one, *)
(* a family, and one passed over in favour of another.                      *)
DeferredServed == \A r \in Tasks : conf.steady /\ Waiting(r) ~> ~Waiting(r)
=============================================================================
