---------------------------- MODULE ModelsSched ----------------------------
(* The router of llama-server: model instances (child processes), the queue *)
(* of requests that wait for one (--models-max), the accounting of device   *)
(* memory (--models-memory-margin), and the requests that load, use and     *)
(* unload instances.                                                        *)
(*                                                                          *)
(* Grain: one action per critical section of models.mutex.  A report of a   *)
(* child and its exit reach the registry through one monitor thread, so     *)
(* each is one action.  A waiter polls every 200 ms besides being notified: *)
(* it may look at any time.  One device; a model needs the same memory at   *)
(* its smallest context and in use.  A measure child that cannot be spawned *)
(* is one that fails; downloads and the reload of the model list are left   *)
(* out, so the set of models is fixed.                                      *)
EXTENDS Integers, FiniteSets, Sequences, SequencesExt, Functions

CONSTANTS
    Models, NoModel,
    Requests,       \* HTTP requests: each arrives at most once
    Confs           \* the routers to check, and what is asked of them (ConfType)

(* models: those of the mapping.  max: models_max, 0 if unlimited.  total:  *)
(* device memory less the margin, 0 when memory is not watched.  A USE is a *)
(* proxied request with autoload.                                           *)
ConfType == [models : SUBSET Models, max : Nat, total : Nat, need : [Models -> Nat \ {0}],
             want : [Requests -> Models], kind : [Requests -> {"USE", "LOAD", "UNLOAD", "NONE"}],
             crashes : BOOLEAN, sleeps : BOOLEAN, cancels : BOOLEAN]

ASSUME ModelsSchedAssumption ==
    /\ IsFiniteSet(Models) /\ NoModel \notin Models
    /\ Confs \subseteq ConfType
    \* the routes refuse a model the mapping does not have
    /\ \A c \in Confs : \A r \in Requests : c.want[r] \in c.models

VARIABLES
    conf,
    status, failed,         \* meta.status, meta.exit_code # 0
    req_count,
    last_used,              \* the models, least recently used first
    stopping_models,
    queue,
    held, known, effective, \* memory counted for an instance, device reported, instance reported
    measure, n_attempts, measure_queue, measuring,
    pc, queued, did_load, saw_loading,  \* the requests
    victim,                 \* the instance make_room of a request unloads
    orphans,                \* requests whose instance went down
    main

instVars    == <<status, failed, req_count, last_used, stopping_models>>
memVars     == <<held, known, effective>>
measureVars == <<measure, n_attempts, measure_queue, measuring>>
reqVars     == <<pc, queued, did_load, saw_loading, victim>>
vars == <<conf, instVars, queue, memVars, measureVars, reqVars, orphans, main>>

Wanted(r) == conf.want[r]
Up      == {"LOADED", "SLEEPING"}

IsRunning(s, m) == s[m] # "UNLOADED"
Running(s)      == {m \in Models : IsRunning(s, m)}
MemoryEnabled   == conf.total > 0

SumOver(f, S)   == FoldFunctionOnSet(LAMBDA a, b : a + b, 0, f, S)

(* s without the first m, if there is one.                                  *)
Without(s, m)   == IF Contains(s, m) THEN RemoveAt(s, CHOOSE i \in DOMAIN s : s[i] = m) ELSE s
Touch(m)        == Append(Without(last_used, m), m)

----------------------------------------------------------------------------
(* The queue: one entry per model.                                          *)

Find(q, m) == {i \in DOMAIN q : q[i].model = m}
At(q, m)   == CHOOSE i \in Find(q, m) : TRUE

Join(q, m) ==
    IF Find(q, m) # {} THEN [q EXCEPT ![At(q, m)].n_waiters = @ + 1]
    ELSE Append(q, [model |-> m, n_waiters |-> 1, loading |-> FALSE])

Leave(q, m) ==
    IF Find(q, m) = {} THEN q
    ELSE IF q[At(q, m)].n_waiters = 1 THEN RemoveAt(q, At(q, m))
    ELSE [q EXCEPT ![At(q, m)].n_waiters = @ - 1]

ClaimDone(q, m, ok) ==
    IF ok \/ Find(q, m) = {} THEN q ELSE [q EXCEPT ![At(q, m)].loading = FALSE]

HasCapacity == conf.max = 0 \/ Cardinality(Running(status)) < conf.max

(* Fault: a busy model is as good as any.                                   *)
VictimsBusyToo(s, count, stop, q) ==
    {m \in Models : s[m] \in Up /\ m \notin stop /\ Find(q, m) = {}}

(* Idle models nobody in the queue wants.                                   *)
Victims(s, count, stop, q) ==
    {m \in Models : count[m] = 0 /\ s[m] \in Up /\ m \notin stop /\ Find(q, m) = {}}

(* Those of V least recently used before m.                                 *)
Before(m, V) ==
    {x \in V : \E i, j \in DOMAIN last_used : i < j /\ last_used[i] = x /\ last_used[j] = m}

(* pick_victim                                                              *)
PickVictim ==
    LET V == Victims(status, req_count, stopping_models, queue)
    IN  IF V = {} THEN NoModel ELSE CHOOSE m \in V : Before(m, V) = {}

(* Fault: nothing is evicted.                                               *)
TickNothing(s, count, stop, q) == stop

(* tick: the stopping models once idle ones are evicted for the requests    *)
(* that have no slot free or being freed.                                   *)
Tick(s, count, stop, q) ==
    IF conf.max = 0 \/ q = <<>> THEN stop
    ELSE LET needed  == Cardinality({i \in DOMAIN q : ~q[i].loading})
             claimed == Cardinality({i \in DOMAIN q : q[i].loading /\ ~IsRunning(s, q[i].model)})
             free    == conf.max - Cardinality(Running(s) \ stop) - claimed
             V       == Victims(s, count, stop, q)
         IN  stop \cup {m \in V : Cardinality(Before(m, V)) < needed - free}

Ticked(s, count, stop, q) == stopping_models' = Tick(s, count, stop, q)

----------------------------------------------------------------------------
(* Memory.                                                                  *)

Deficit(m) ==
    /\ measure[m] = "MEASURED" /\ known
    /\ conf.need[m] > conf.total - SumOver(held, Models)

(* limits_exceeded; with nothing to unload the model is loaded anyway.      *)
LimitsExceeded(m) ==
    \/ ~HasCapacity
    \/ MemoryEnabled /\ Deficit(m) /\ Running(status) # {}

(* reserve: the usage the instance reported, else its measured minimum.     *)
Reserve(h, eff, m) ==
    IF h[m] = 0 /\ (eff[m] \/ measure[m] = "MEASURED") THEN [h EXCEPT ![m] = conf.need[m]] ELSE h

(* measure_next, once `q` is the queue and `ms` the states: models measured *)
(* meanwhile are dropped.                                                   *)
MeasureNext(q, ms, current) ==
    IF current # NoModel \/ \A i \in DOMAIN q : ms[q[i]] # "UNMEASURED"
    THEN /\ measuring' = current /\ measure' = ms /\ UNCHANGED n_attempts
         /\ measure_queue' = IF current # NoModel THEN q ELSE <<>>
    ELSE LET k == CHOOSE i \in DOMAIN q :
                     ms[q[i]] = "UNMEASURED" /\ \A j \in 1 .. (i - 1) : ms[q[j]] # "UNMEASURED"
         IN  /\ measuring' = q[k]
             /\ measure' = [ms EXCEPT ![q[k]] = "MEASURING"]
             /\ n_attempts' = [n_attempts EXCEPT ![q[k]] = @ + 1]
             /\ measure_queue' = SubSeq(q, k + 1, Len(q))

(* enqueue_measure                                                          *)
EnqueueMeasure(m, front, ms) ==
    IF ms[m] # "UNMEASURED" \/ (~front /\ Contains(measure_queue, m))
    THEN measure' = ms /\ UNCHANGED <<n_attempts, measure_queue, measuring>>
    ELSE MeasureNext(IF front THEN <<m>> \o Without(measure_queue, m) ELSE Append(measure_queue, m),
                     ms, measuring)

----------------------------------------------------------------------------
Init ==
    /\ conf \in Confs
    /\ status = [m \in Models |-> "UNLOADED"] /\ failed = [m \in Models |-> FALSE]
    /\ req_count = [m \in Models |-> 0] /\ stopping_models = {}
    /\ last_used = SetToSeq(conf.models)
    /\ queue = <<>>
    /\ held = [m \in Models |-> 0] /\ known = FALSE /\ effective = [m \in Models |-> FALSE]
    \* the model list was loaded: every model is queued for its measure child
    /\ LET first == IF MemoryEnabled /\ conf.models # {} THEN Head(last_used) ELSE NoModel
       IN  /\ measuring = first
           /\ measure = [m \in Models |-> IF m = first THEN "MEASURING" ELSE "UNMEASURED"]
           /\ n_attempts = [m \in Models |-> IF m = first THEN 1 ELSE 0]
           /\ measure_queue = IF first # NoModel THEN Tail(last_used) ELSE <<>>
    /\ pc = [r \in Requests |-> "idle"] /\ queued = [r \in Requests |-> FALSE]
    /\ did_load = [r \in Requests |-> FALSE] /\ saw_loading = [r \in Requests |-> FALSE]
    /\ victim = [r \in Requests |-> NoModel]
    /\ orphans = {} /\ main = "serving"

Goto(r, l) == pc' = [pc EXCEPT ![r] = l]

----------------------------------------------------------------------------
(* ensure_model_ready.                                                      *)

LookFrame == <<conf, queue, instVars, memVars, measureVars, queued, did_load, saw_loading, victim,
               orphans, main>>

(* The routes look at the model first.                                      *)
Arrive(r) ==
    /\ pc[r] = "idle" /\ main = "serving" /\ conf.kind[r] # "NONE"
    /\ Goto(r, CASE conf.kind[r] = "USE"    -> IF status[Wanted(r)] \in Up THEN "checkStop" ELSE "enqueue"
                 [] conf.kind[r] = "LOAD"   -> IF IsRunning(status, Wanted(r)) THEN "done" ELSE "load"
                 [] conf.kind[r] = "UNLOAD" -> IF IsRunning(status, Wanted(r)) THEN "unload" ELSE "done")
    /\ UNCHANGED LookFrame

(* Ready, by the copy of the meta just taken.                               *)
CheckStop(r) ==
    /\ pc[r] = "checkStop"
    /\ Goto(r, IF Wanted(r) \in stopping_models THEN "enqueue" ELSE "proxy")
    /\ UNCHANGED LookFrame

JoinFrame == <<conf, status, failed, req_count, last_used, memVars, measureVars, did_load,
               saw_loading, victim, orphans, main>>

JoinAndTick(r) ==
    /\ queue' = Join(queue, Wanted(r))
    /\ queued' = [queued EXCEPT ![r] = TRUE]
    /\ Ticked(status, req_count, stopping_models, Join(queue, Wanted(r)))

Enqueue(r) ==
    /\ pc[r] = "enqueue"
    /\ Goto(r, "wait")
    /\ IF status[Wanted(r)] = "UNLOADED" THEN JoinAndTick(r)
       ELSE UNCHANGED <<queue, queued, stopping_models>>
    /\ UNCHANGED JoinFrame

(* A stopping instance takes no new request: the next one serves it.        *)
JoinStopping(r) ==
    /\ pc[r] = "wait" /\ Wanted(r) \in stopping_models /\ ~queued[r]
    /\ JoinAndTick(r)
    /\ UNCHANGED <<JoinFrame, pc>>

Waiting(r) == pc[r] = "wait" /\ Wanted(r) \notin stopping_models

SeeLoading(r) ==
    /\ Waiting(r) /\ status[Wanted(r)] = "LOADING" /\ ~saw_loading[r]
    /\ saw_loading' = [saw_loading EXCEPT ![r] = TRUE]
    /\ UNCHANGED <<conf, queue, instVars, memVars, measureVars, pc, queued, did_load, victim, orphans,
                   main>>

LeaveQueue(r) ==
    /\ queue' = IF queued[r] THEN Leave(queue, Wanted(r)) ELSE queue
    /\ queued' = [queued EXCEPT ![r] = FALSE]

(* The loop ends: ready, unloaded again by someone else, or never queued.   *)
StopWaiting(r) ==
    /\ Waiting(r)
    /\ \/ status[Wanted(r)] \in Up
       \/ /\ status[Wanted(r)] = "UNLOADED"
          /\ IF did_load[r] \/ saw_loading[r] THEN ~failed[Wanted(r)] ELSE ~queued[r]
    /\ LeaveQueue(r) /\ Goto(r, "proxy")
    /\ UNCHANGED <<JoinFrame, stopping_models>>

(* ... or throws: the slot freed for this waiter goes to the next one.      *)
GiveUp(r) ==
    /\ LeaveQueue(r) /\ Goto(r, "done")
    /\ Ticked(status, req_count, stopping_models, queue')
    /\ UNCHANGED JoinFrame

SeeFailed(r) ==
    /\ Waiting(r) /\ status[Wanted(r)] = "UNLOADED" /\ failed[Wanted(r)]
    /\ did_load[r] \/ saw_loading[r]
    /\ GiveUp(r)

Cancelled(r) ==
    /\ conf.cancels /\ pc[r] = "wait"
    /\ \/ Wanted(r) \in stopping_models /\ queued[r]
       \/ Wanted(r) \notin stopping_models /\ status[Wanted(r)] = "LOADING"
       \/ status[Wanted(r)] = "UNLOADED" /\ queued[r] /\ ~did_load[r] /\ ~saw_loading[r]
    /\ GiveUp(r)

(* Fault: the claim does not look whether another waiter is loading. *)
ClaimableByAll(m) == queue # <<>> /\ Head(queue).model = m /\ HasCapacity

(* try_claim                                                                *)
Claimable(m) ==
    /\ queue # <<>> /\ Head(queue).model = m /\ ~Head(queue).loading
    /\ HasCapacity
    /\ ~(MemoryEnabled /\ LimitsExceeded(m) /\ PickVictim = NoModel)

Claim(r) ==
    /\ Waiting(r) /\ status[Wanted(r)] = "UNLOADED" /\ queued[r]
    /\ ~did_load[r] /\ ~saw_loading[r]
    /\ Claimable(Wanted(r))
    /\ queue' = [queue EXCEPT ![At(queue, Wanted(r))].loading = TRUE]
    /\ Goto(r, "load")
    /\ UNCHANGED <<JoinFrame, queued, stopping_models>>

----------------------------------------------------------------------------
(* load() and make_room().                                                  *)

LoadFrame == <<conf, queue, queued, did_load, saw_loading, orphans, main>>

StartLoad(r) ==
    /\ pc[r] = "load"
    /\ IF MemoryEnabled THEN EnqueueMeasure(Wanted(r), TRUE, measure) /\ Goto(r, "measure")
       ELSE UNCHANGED measureVars /\ Goto(r, "room")
    /\ UNCHANGED <<LoadFrame, instVars, memVars, victim>>

Measured(r) ==
    /\ pc[r] = "measure" /\ measure[Wanted(r)] \in {"MEASURED", "FAILED"}
    /\ Goto(r, "room")
    /\ UNCHANGED <<LoadFrame, instVars, memVars, measureVars, victim>>

(* Room, or nobody can be unloaded: load() reports the limit.               *)
MakeRoom(r) ==
    /\ pc[r] = "room"
    /\ LET v == IF LimitsExceeded(Wanted(r)) THEN PickVictim ELSE NoModel
       IN  /\ victim' = [victim EXCEPT ![r] = v]
           /\ Goto(r, IF v = NoModel THEN "spawn" ELSE "evict")
    /\ UNCHANGED <<LoadFrame, instVars, memVars, measureVars>>

(* unload(): an instance that is still loading is killed at once.           *)
Unloaded(m) ==
    stopping_models' = stopping_models \cup {x \in {m} : IsRunning(status, x)}

EvictVictim(r) ==
    /\ pc[r] = "evict"
    /\ Unloaded(victim[r])
    /\ Goto(r, "gone")
    /\ UNCHANGED <<LoadFrame, status, failed, req_count, last_used, memVars, measureVars, victim>>

VictimGone(r) ==
    /\ pc[r] = "gone" /\ status[victim[r]] = "UNLOADED"
    /\ victim' = [victim EXCEPT ![r] = NoModel]
    /\ Goto(r, "room")
    /\ UNCHANGED <<LoadFrame, instVars, memVars, measureVars>>

LoadReturns(r, ok) ==
    Goto(r, IF conf.kind[r] = "LOAD" THEN "done" ELSE IF ok THEN "loaded" ELSE "notLoaded")

LoadRefused(r) ==
    /\ pc[r] = "spawn"
    /\ LET unneeded == status[Wanted(r)] # "UNLOADED"
       IN  /\ unneeded \/ LimitsExceeded(Wanted(r)) \/ conf.crashes
           /\ LoadReturns(r, unneeded)
    /\ UNCHANGED <<LoadFrame, instVars, memVars, measureVars, victim>>

(* Fault: the limits are not checked again under the lock.                  *)
SpawnUnchecked(r) ==
    /\ pc[r] = "spawn" /\ status[Wanted(r)] = "UNLOADED"
    /\ status' = [status EXCEPT ![Wanted(r)] = "LOADING"]
    /\ req_count' = [req_count EXCEPT ![Wanted(r)] = 0]
    /\ last_used' = Touch(Wanted(r))
    /\ held' = Reserve(held, effective, Wanted(r))
    /\ LoadReturns(r, TRUE)
    /\ UNCHANGED <<LoadFrame, failed, stopping_models, known, effective, measureVars, victim>>

(* A new instance_t takes the place of the old one, counter included.       *)
Spawn(r) ==
    /\ pc[r] = "spawn" /\ status[Wanted(r)] = "UNLOADED" /\ ~LimitsExceeded(Wanted(r))
    /\ status' = [status EXCEPT ![Wanted(r)] = "LOADING"]
    /\ req_count' = [req_count EXCEPT ![Wanted(r)] = 0]
    /\ last_used' = Touch(Wanted(r))
    /\ held' = Reserve(held, effective, Wanted(r))
    /\ LoadReturns(r, TRUE)
    /\ UNCHANGED <<LoadFrame, failed, stopping_models, known, effective, measureVars, victim>>

AfterLoad(r) ==
    /\ pc[r] \in {"loaded", "notLoaded"}
    /\ LET ok == pc[r] = "loaded"
           q  == ClaimDone(queue, Wanted(r), ok)
       IN  /\ queue' = q
           /\ did_load' = [did_load EXCEPT ![r] = ok]
           /\ Ticked(status, req_count, stopping_models, q)
    /\ Goto(r, "wait")
    /\ UNCHANGED <<conf, status, failed, req_count, last_used, memVars, measureVars, queued,
                   saw_loading, victim, orphans, main>>

Unload(r) ==
    /\ pc[r] = "unload"
    /\ Unloaded(Wanted(r))
    /\ Goto(r, "done")
    /\ UNCHANGED <<LoadFrame, status, failed, req_count, last_used, memVars, measureVars, victim>>

----------------------------------------------------------------------------
(* proxy_request.                                                           *)

LookAgain(r) ==
    /\ pc[r] = "proxy"
    /\ Goto(r, IF IsRunning(status, Wanted(r)) THEN "count" ELSE "done")
    /\ UNCHANGED LookFrame

StartProxy(r) ==
    /\ pc[r] = "count"
    /\ last_used' = Touch(Wanted(r))
    /\ req_count' = [req_count EXCEPT ![Wanted(r)] = @ + 1]
    /\ orphans' = orphans \cup {x \in {r} : ~IsRunning(status, Wanted(r))}
    /\ Goto(r, "proxying")
    /\ UNCHANGED <<conf, queue, status, failed, stopping_models, memVars, measureVars, queued,
                   did_load, saw_loading, victim, main>>

(* The cleanup of the proxy.                                                *)
EndProxy(r) ==
    /\ pc[r] = "proxying"
    /\ LET n     == IF req_count[Wanted(r)] > 0 THEN req_count[Wanted(r)] - 1 ELSE 0
           count == [req_count EXCEPT ![Wanted(r)] = n]
       IN  /\ req_count' = count
           /\ IF n = 0 /\ req_count[Wanted(r)] > 0 THEN Ticked(status, count, stopping_models, queue)
              ELSE UNCHANGED stopping_models
    /\ Goto(r, "done")
    /\ UNCHANGED <<conf, queue, status, failed, last_used, memVars, measureVars, queued, did_load,
                   saw_loading, victim, orphans, main>>

Progress(r) ==
    \/ CheckStop(r) \/ Enqueue(r)
    \/ JoinStopping(r) \/ SeeLoading(r) \/ StopWaiting(r) \/ SeeFailed(r) \/ Claim(r)
    \/ StartLoad(r) \/ Measured(r) \/ MakeRoom(r) \/ EvictVictim(r) \/ VictimGone(r)
    \/ LoadRefused(r) \/ Spawn(r) \/ AfterLoad(r)
    \/ Unload(r) \/ LookAgain(r) \/ StartProxy(r) \/ EndProxy(r)

----------------------------------------------------------------------------
(* The children, as the monitor thread reports them.                        *)

MonitorFrame == <<conf, req_count, last_used, reqVars, queue, main>>

Proxied(m) == {r \in Requests : pc[r] = "proxying" /\ Wanted(r) = m}
Live(m)    == Proxied(m) \ orphans

(* update_status *)
NewStatus(m, s) ==
    /\ status' = [status EXCEPT ![m] = s]
    /\ Ticked(status', req_count, stopping_models \ {x \in {m} : s = "UNLOADED"}, queue)

(* An instance that reports its usage for the first time may have its       *)
(* failed measurement tried again; one that woke up reports none.           *)
ChildReady(m) ==
    /\ status[m] = "LOADING"
    /\ NewStatus(m, "LOADED")
    /\ IF ~MemoryEnabled THEN UNCHANGED <<memVars, measureVars>>
       ELSE IF effective[m]
       THEN held' = Reserve(held, effective, m) /\ UNCHANGED <<known, effective, measureVars>>
       ELSE /\ effective' = [effective EXCEPT ![m] = TRUE] /\ known' = TRUE
            /\ held' = Reserve([held EXCEPT ![m] = 0], effective', m)
            /\ IF measure[m] = "FAILED" /\ n_attempts[m] < 2
               THEN EnqueueMeasure(m, FALSE, [measure EXCEPT ![m] = "UNMEASURED"])
               ELSE UNCHANGED measureVars
    /\ UNCHANGED <<MonitorFrame, failed, orphans>>

ChildSleeps(m) ==
    /\ conf.sleeps /\ status[m] = "LOADED" /\ Live(m) = {}
    /\ NewStatus(m, "SLEEPING")
    /\ held' = [held EXCEPT ![m] = 0]
    /\ UNCHANGED <<MonitorFrame, failed, known, effective, measureVars, orphans>>

(* A request wakes the instance, which loads its model again.               *)
ChildWakes(m) ==
    /\ status[m] = "SLEEPING" /\ Live(m) # {}
    /\ NewStatus(m, "LOADING")
    /\ UNCHANGED <<MonitorFrame, failed, memVars, measureVars, orphans>>

(* It was asked to exit (and is killed if it does not), or crashed.         *)
ChildExits(m) ==
    /\ IsRunning(status, m)
    /\ IF m \in stopping_models THEN failed' \in {failed, [failed EXCEPT ![m] = ~@]}
       ELSE conf.crashes /\ failed' = [failed EXCEPT ![m] = TRUE]
    /\ NewStatus(m, "UNLOADED")
    /\ held' = [held EXCEPT ![m] = 0]
    /\ effective' = [effective EXCEPT ![m] = FALSE]
    /\ orphans' = orphans \cup Live(m)
    /\ UNCHANGED <<MonitorFrame, known, measureVars>>

MeasureReports ==
    /\ measuring # NoModel /\ measure[measuring] = "MEASURING"
    /\ \E s \in {"MEASURED", "FAILED"} : measure' = [measure EXCEPT ![measuring] = s]
    /\ known' = (known \/ measure'[measuring] = "MEASURED")
    /\ UNCHANGED <<MonitorFrame, failed, status, stopping_models, held, effective, n_attempts,
                   measure_queue, measuring, orphans>>

(* It exits: without a report, it crashed or was killed after its timeout.  *)
MeasureExits ==
    /\ measuring # NoModel
    /\ MeasureNext(measure_queue,
                   [measure EXCEPT ![measuring] = IF @ = "MEASURING" THEN "FAILED" ELSE @], NoModel)
    /\ UNCHANGED <<MonitorFrame, failed, status, stopping_models, memVars, orphans>>

----------------------------------------------------------------------------
(* unload_all, once the HTTP server has stopped.                            *)

CloseFrame == <<conf, status, failed, req_count, last_used, queue, memVars, measure, n_attempts,
                measuring, reqVars, orphans>>

(* Fault: the instances that are still loading are forgotten.               *)
UnloadAllButLoading ==
    /\ main = "serving" /\ \A r \in Requests : pc[r] \in {"idle", "done"}
    /\ main' = "closing"
    /\ measure_queue' = <<>>
    /\ stopping_models' = stopping_models \cup {m \in Models : status[m] \in Up}
    /\ UNCHANGED CloseFrame

UnloadAll ==
    /\ main = "serving" /\ \A r \in Requests : pc[r] \in {"idle", "done"}
    /\ main' = "closing"
    /\ measure_queue' = <<>>
    /\ stopping_models' = stopping_models \cup Running(status)
    /\ UNCHANGED CloseFrame

AllUnloaded ==
    /\ main = "closing" /\ Running(status) = {} /\ measuring = NoModel
    /\ main' = "closed"
    /\ UNCHANGED <<CloseFrame, measure_queue, stopping_models>>

Next ==
    \/ \E r \in Requests : Arrive(r) \/ Cancelled(r) \/ Progress(r)
    \/ \E m \in Models : ChildReady(m) \/ ChildSleeps(m) \/ ChildWakes(m) \/ ChildExits(m)
    \/ MeasureReports \/ MeasureExits
    \/ UnloadAll \/ AllUnloaded

Spec == Init /\ [][Next]_vars

(* A request that arrived goes on (it may never be cancelled), a proxied    *)
(* one ends, a child comes up, wakes or goes down when asked to, a measure  *)
(* child ends (its deadline is 300 s).                                      *)
Fairness ==
    /\ \A r \in Requests : WF_vars(Progress(r))
    /\ \A m \in Models :
          WF_vars(ChildReady(m)) /\ WF_vars(ChildWakes(m)) /\ WF_vars(m \in stopping_models /\ ChildExits(m))
    /\ WF_vars(MeasureExits) /\ WF_vars(AllUnloaded)

FairSpec == Spec /\ Fairness

----------------------------------------------------------------------------
(* Properties.                                                              *)

Statuses == {"UNLOADED", "LOADING", "LOADED", "SLEEPING"}
RequestAt == {"idle", "checkStop", "enqueue", "wait", "load", "measure", "room", "evict", "gone", "spawn",
              "loaded", "notLoaded", "unload", "proxy", "count", "proxying", "done"}

(* Every variable has its type, and only a running instance is stopping.    *)
TypeOK ==
    /\ conf \in Confs
    /\ status \in [Models -> Statuses] /\ failed \in [Models -> BOOLEAN]
    /\ req_count \in [Models -> Nat]
    /\ last_used \in Seq(Models) /\ ToSet(last_used) = conf.models
    /\ stopping_models \subseteq Running(status)
    /\ queue \in Seq([model : Models, n_waiters : Nat \ {0}, loading : BOOLEAN])
    /\ held \in [Models -> Nat] /\ known \in BOOLEAN /\ effective \in [Models -> BOOLEAN]
    /\ measure \in [Models -> {"UNMEASURED", "MEASURING", "MEASURED", "FAILED"}]
    /\ n_attempts \in [Models -> 0 .. 2] /\ measure_queue \in Seq(Models)
    /\ measuring \in Models \cup {NoModel}
    /\ pc \in [Requests -> RequestAt]
    /\ {queued, did_load, saw_loading} \subseteq [Requests -> BOOLEAN]
    /\ victim \in [Requests -> Models \cup {NoModel}]
    /\ orphans \subseteq Requests /\ main \in {"serving", "closing", "closed"}

(* The queue holds one entry per model that requests wait for, with their   *)
(* number, whichever way they left.                                         *)
QueueExact ==
    \A m \in Models :
        LET n == Cardinality({r \in Requests : queued[r] /\ Wanted(r) = m})
        IN  IF n = 0 THEN Find(queue, m) = {}
            ELSE Cardinality(Find(queue, m)) = 1 /\ queue[At(queue, m)].n_waiters = n

InLoad == {"load", "measure", "room", "evict", "gone", "spawn"}

(* Of the requests that wait, one at a time loads: the head of the queue.   *)
OneLoader ==
    \A r, x \in {y \in Requests : conf.kind[y] = "USE" /\ pc[y] \in InLoad} :
        Wanted(r) = Wanted(x) => r = x

(* req_count is the number of requests being proxied to the model; the end  *)
(* of one that outlived its instance may only make it too small.            *)
CountExact ==
    \A m \in Models :
        /\ req_count[m] <= Cardinality(Proxied(m))
        /\ {r \in orphans : Wanted(r) = m} = {} => req_count[m] = Cardinality(Proxied(m))

(* The books of the router are right: the queue against those who wait in   *)
(* it, the claim of an entry against the load it stands for, the request    *)
(* counts that protect a model against the requests it is working on.       *)
WellFormed == TypeOK /\ QueueExact /\ OneLoader /\ CountExact

OnlyUses == \A r \in Requests : conf.kind[r] \in {"USE", "NONE"}

Outlived(m) == {r \in orphans : Wanted(r) = m}

(* Who may stop a model whatever it is doing: a client, the shutdown, and   *)
(* make_room, which has nothing to do when waiters alone load and memory    *)
(* is not watched.                                                          *)
StoppedByHand(m) ==
    \/ main' # "serving"
    \/ \E r \in Requests : pc[r] = "unload" /\ Wanted(r) = m
    \/ (~OnlyUses \/ MemoryEnabled) /\ \E r \in Requests : pc[r] = "evict" /\ victim[r] = m

(* A model is not stopped in the middle of a request to make room for       *)
(* others, unless a request that outlived an earlier instance of it took    *)
(* its end off the count of this one.                                       *)
NotCutOff ==
    [][\A m \in stopping_models' \ stopping_models :
          Live(m)' = {} \/ Outlived(m) # {} \/ StoppedByHand(m)]_vars

(* Concurrent loads never exceed models_max, although make_room gives up    *)
(* the lock before load() takes it.                                         *)
CapacityKept == conf.max > 0 => Cardinality(Running(status)) <= conf.max

(* The models whose need was known before they came up.                     *)
Counted == {m \in Running(status) : measure[m] = "MEASURED" /\ n_attempts[m] = 1}

(* Their memory fits, unless one is alone of them, whatever else runs.  (An *)
(* instance that wakes up is not checked again.)                            *)
MemoryKept ==
    MemoryEnabled /\ ~conf.sleeps /\ Cardinality(Counted) > 1 => SumOver(conf.need, Counted) <= conf.total

(* Neither limit is exceeded, in number or in memory.                       *)
LimitsKept == CapacityKept /\ MemoryKept

(* Every request that waits is served in the end.                           *)
WaiterServed == \A r \in Requests : OnlyUses /\ ~conf.crashes /\ pc[r] = "wait" ~> pc[r] \in {"proxying", "done"}

(* All requests sharing an entry are unblocked by the load it performs.     *)
WaitersUnblocked == \A r \in Requests : pc[r] = "wait" ~> pc[r] # "wait"

(* unload_all ends, whatever the children were doing.                       *)
ShutdownEnds == main = "closing" ~> main = "closed"

=============================================================================
