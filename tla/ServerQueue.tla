---------------------------- MODULE ServerQueue ----------------------------
(* server_queue of llama-server: the task queue, its main loop              *)
(* (start_loop), the worker thread that keeps answering read-only tasks     *)
(* while the main thread decodes (yield_to_queue), the idle sleep, and the  *)
(* HTTP threads that wake the loop, post and cancel requests.               *)
(*                                                                          *)
(* Grain: one action per critical section of mutex_tasks, so a condition    *)
(* variable is the set of threads blocked on it.  A notification removes    *)
(* threads from the set; a thread that is out of the set evaluates its      *)
(* predicate again in a later action.  The callbacks of server_context are  *)
(* kept to what the queue sees of them: a slot is taken, a task is          *)
(* deferred, a slot is released, a task is answered or declined.            *)
EXTENDS Integers, Sequences, FiniteSets, SequencesExt

CONSTANTS
    Clients,        \* HTTP threads that post inference requests
    Probes,         \* HTTP threads that post metrics requests
    NSlots,         \* number of slots
    MaxId,          \* bound: ids handed out by get_new_id
    MaySleep,       \* sleep_idle_seconds >= 1 (otherwise it is -1)
    MayTerminate,   \* the shutdown handler may run
    MayCancel,      \* HTTP clients may disconnect
    MayThrow,       \* decode and the worker's callback may throw
    MayReject,      \* a request may fail before it has a slot (bad input, sampler, ...)
    PromptWakeups   \* a notified thread runs again before the idle timer (>= 1 s) expires

ASSUME ServerQueueAssumption ==
    /\ NSlots \in Nat \ {0}
    /\ MaxId \in Nat
    /\ Clients \cap Probes = {}
    /\ {"main", "worker"} \cap (Clients \cup Probes) = {}
    /\ {MaySleep, MayTerminate, MayCancel, MayThrow, MayReject, PromptWakeups} \subseteq BOOLEAN

VARIABLES
    id,                     \* next task id
    running, sleeping, req_stop_sleeping,
    idle,                   \* now - time_last_task >= idle_sleep_ms
    queue_tasks, queue_tasks_deferred, queue_tasks_unhandled,
    stop, busy, yielding, exception,    \* the fields of worker_t
    cv_tasks,               \* threads blocked on condition_tasks
    cv_worker,              \* the worker is blocked on worker.cv
    mpc, main_task,         \* main thread: where it is, the task it handles (at most one)
    work_exception,         \* yield_to_queue: work() threw
    slots,                  \* ids of the requests that occupy a slot
    wpc, worker_task,       \* worker thread, likewise
    cpc, mine,              \* HTTP threads: where they are, the id of their request
    results,                \* results sent and not yet received
    terminated              \* terminate() was called

queueVars   == <<queue_tasks, queue_tasks_deferred, queue_tasks_unhandled>>
sleepVars   == <<sleeping, req_stop_sleeping>>
workerVars  == <<stop, busy, yielding, exception>>
condVars    == <<cv_tasks, cv_worker>>
mainVars    == <<main_task, work_exception, slots>>
workerLocal == <<wpc, worker_task>>
clientVars  == <<id, cpc, mine>>
runVars     == <<running, terminated>>
others      == <<workerLocal, clientVars, runVars>>
allButMpc   == <<queueVars, sleepVars, workerVars, condVars, mainVars, others, idle, results>>
vars        == <<allButMpc, mpc>>

Http    == Clients \cup Probes
Threads == {"main", "worker"} \cup Http

----------------------------------------------------------------------------
(* Tasks.  NEXT_RESPONSE and CANCEL tasks draw ids too, but nobody waits    *)
(* for or cancels them: they all carry NoId.                                *)

NoId  == -1
Ids   == Nat \cup {NoId}
Tasks == [kind : {"INFER", "METRICS"}, id : Nat, target : {NoId}]
             \cup [kind : {"CANCEL"}, id : {NoId}, target : Nat]
             \cup [kind : {"NEXT_RESPONSE"}, id : {NoId}, target : {NoId}]

Request(kind, i) == [kind |-> kind, id |-> i, target |-> NoId]
Cancel(i)        == [kind |-> "CANCEL", id |-> NoId, target |-> i]
NextResponse     == Request("NEXT_RESPONSE", NoId)

(* Faults, in this module, are variants of the definition that follows them; *)
(* each is there to show that some property notices it.                      *)
ReadOnlyAll(task)  == TRUE
ReadOnlyNext(task) == task.kind \in {"METRICS", "NEXT_RESPONSE"}

(* So is SLOT_GET, of which there is none here: it differs from METRICS in  *)
(* that its handler wakes the server and that it restarts the idle timer.   *)
ReadOnly(task) == task.kind = "METRICS"

(* cleanup_pending_task on one deque: ids are unique, so at most one goes.  *)
Without(q, i) ==
    IF \E k \in DOMAIN q : q[k].id = i
    THEN RemoveAt(q, CHOOSE k \in DOMAIN q : q[k].id = i)
    ELSE q

Waited(i) == \E c \in Http : mine[c] = i

(* server_response::send: a result nobody waits for is dropped.             *)
Send(i, error) ==
    results' = results \cup {r \in {[id |-> i, error |-> error]} : Waited(i)}

NotifyOne ==
    \/ cv_tasks = {} /\ UNCHANGED cv_tasks
    \/ \E t \in cv_tasks : cv_tasks' = cv_tasks \ {t}

NotifyAll == cv_tasks' = {}

(* post() of a task that cancels nothing.                                   *)
Post(task, front) ==
    /\ queue_tasks' = IF front THEN <<task>> \o queue_tasks ELSE Append(queue_tasks, task)
    /\ idle' = (idle /\ task.kind = "METRICS")
    /\ NotifyOne
    /\ UNCHANGED <<queue_tasks_deferred, queue_tasks_unhandled>>

(* post() of the CANCEL task a reader sends for its request, at the front.  *)
PostCancel(i) ==
    /\ queue_tasks' = <<Cancel(i)>> \o Without(queue_tasks, i)
    /\ queue_tasks_deferred' = Without(queue_tasks_deferred, i)
    /\ queue_tasks_unhandled' = Without(queue_tasks_unhandled, i)
    /\ idle' = FALSE
    /\ NotifyOne

(* Fault: the released slot wakes no deferred task.                         *)
PopNothing ==
    /\ idle' = FALSE
    /\ NotifyOne
    /\ UNCHANGED queueVars

(* pop_deferred_task: one deferred task moves to the front of the queue.    *)
PopDeferred ==
    /\ IF queue_tasks_deferred = <<>>
       THEN UNCHANGED <<queue_tasks, queue_tasks_deferred>>
       ELSE /\ queue_tasks' = <<Head(queue_tasks_deferred)>> \o queue_tasks
            /\ queue_tasks_deferred' = Tail(queue_tasks_deferred)
    /\ idle' = FALSE
    /\ NotifyOne
    /\ UNCHANGED queue_tasks_unhandled

----------------------------------------------------------------------------
Init ==
    /\ id = 0
    /\ running = FALSE /\ terminated = FALSE
    /\ sleeping = FALSE /\ req_stop_sleeping = FALSE /\ idle = FALSE
    /\ queue_tasks = <<>> /\ queue_tasks_deferred = <<>> /\ queue_tasks_unhandled = <<>>
    /\ stop = FALSE /\ busy = FALSE /\ yielding = FALSE /\ exception = FALSE
    /\ cv_tasks = {} /\ cv_worker = FALSE
    /\ mpc = "init" /\ main_task = <<>> /\ work_exception = FALSE /\ slots = {}
    /\ wpc = "none" /\ worker_task = <<>>
    /\ cpc = [c \in Http |-> "idle"] /\ mine = [c \in Http |-> NoId]
    /\ results = {}

----------------------------------------------------------------------------
(* The main thread: start_loop and process_new_tasks(false).                *)

StartLoop ==
    /\ mpc = "init"
    /\ running' = TRUE /\ idle' = FALSE
    /\ stop' = FALSE /\ busy' = FALSE /\ yielding' = FALSE
    /\ wpc' = "wait" /\ mpc' = "process"
    /\ UNCHANGED <<exception, terminated, queueVars, sleepVars, condVars, mainVars, worker_task,
                   clientVars, results>>

MainTakes ==
    /\ mpc = "process" /\ running /\ queue_tasks # <<>>
    /\ main_task' = <<Head(queue_tasks)>>
    /\ queue_tasks' = Tail(queue_tasks)
    /\ mpc' = "handle"
    /\ UNCHANGED <<queue_tasks_deferred, queue_tasks_unhandled, sleepVars, workerVars, condVars,
                   work_exception, slots, others, idle, results>>

MainDrained ==
    /\ mpc = "process"
    /\ mpc' = IF ~running THEN "stopWorker" ELSE "update"
    /\ running => queue_tasks = <<>>
    /\ UNCHANGED allButMpc

Handles(kind) ==
    /\ mpc = "handle" /\ main_task[1].kind = kind
    /\ mpc' = "process" /\ main_task' = <<>>
    /\ UNCHANGED <<sleepVars, workerVars, cv_worker, work_exception, others>>

MainLaunches ==
    /\ Handles("INFER")
    /\ Cardinality(slots) < NSlots
    /\ slots' = slots \cup {main_task[1].id}
    /\ UNCHANGED <<queueVars, cv_tasks, idle, results>>

MainDefers ==
    /\ Handles("INFER")
    /\ Cardinality(slots) >= NSlots
    /\ queue_tasks_deferred' = Append(queue_tasks_deferred, main_task[1])
    /\ idle' = FALSE
    /\ NotifyOne
    /\ UNCHANGED <<queue_tasks, queue_tasks_unhandled, slots, results>>

(* Rejected, or failed to launch: the error is sent and no slot was taken,  *)
(* so none will be released.                                                *)
MainRejects ==
    /\ MayReject
    /\ Handles("INFER")
    /\ Send(main_task[1].id, TRUE)
    /\ UNCHANGED <<queueVars, cv_tasks, slots, idle>>

MainAnswers ==
    /\ Handles("METRICS")
    /\ Send(main_task[1].id, FALSE)
    /\ UNCHANGED <<queueVars, cv_tasks, slots, idle>>

MainCancels ==
    /\ Handles("CANCEL")
    /\ IF main_task[1].target \in slots
       THEN slots' = slots \ {main_task[1].target} /\ PopDeferred
       ELSE UNCHANGED <<slots, queueVars, idle, cv_tasks>>
    /\ UNCHANGED results

MainNextResponse ==
    /\ Handles("NEXT_RESPONSE")
    /\ UNCHANGED <<queueVars, cv_tasks, slots, idle, results>>

----------------------------------------------------------------------------
(* update_slots: nothing to do when every slot is idle; otherwise a         *)
(* NEXT_RESPONSE task keeps the loop turning and the batch is decoded in    *)
(* one or more yields.  Slots are released between them.                    *)

UpdateSlots ==
    /\ mpc = "update"
    /\ IF slots = {}
       THEN mpc' = "updated" /\ UNCHANGED <<queueVars, idle, cv_tasks>>
       ELSE mpc' = "batch" /\ Post(NextResponse, FALSE)
    /\ UNCHANGED <<sleepVars, workerVars, cv_worker, mainVars, others, results>>

Released(i, error) ==
    /\ slots' = slots \ {i}
    /\ Send(i, error)
    /\ PopDeferred
    /\ UNCHANGED <<sleepVars, workerVars, cv_worker, main_task, work_exception, others, mpc>>

FinishSlot ==
    /\ mpc = "batch"
    /\ \E i \in slots : \E error \in {FALSE, MayThrow} : Released(i, error)

(* abort_all_slots: every occupied slot is failed and released.             *)
AbortSlot ==
    /\ mpc = "abort"
    /\ \E i \in slots : Released(i, TRUE)

BatchThrows ==
    /\ MayThrow /\ mpc = "batch"
    /\ mpc' = "abort"
    /\ UNCHANGED allButMpc

AbortDone ==
    /\ mpc = "abort" /\ slots = {}
    /\ mpc' = "updated"
    /\ UNCHANGED allButMpc

EndUpdate ==
    /\ mpc = "batch"
    /\ mpc' = "updated"
    /\ UNCHANGED allButMpc

(* time_last_task is shifted over the update, so that decoding is not idle time. *)
ShiftTimer ==
    /\ mpc = "updated"
    /\ mpc' = "idle"
    /\ UNCHANGED allButMpc

----------------------------------------------------------------------------
(* yield_to_queue.                                                          *)

YieldBegin ==
    /\ mpc = "batch"
    /\ busy' = TRUE /\ yielding' = TRUE
    /\ mpc' = "yieldNotify"
    /\ UNCHANGED <<stop, exception, queueVars, sleepVars, condVars, mainVars, others, idle,
                   results>>

YieldNotify ==
    /\ mpc = "yieldNotify"
    /\ cv_worker' = FALSE
    /\ mpc' = "work"
    /\ UNCHANGED <<queueVars, sleepVars, workerVars, cv_tasks, mainVars, others, idle, results>>

WorkEnds ==
    /\ mpc = "work"
    /\ work_exception' \in {FALSE, MayThrow}
    /\ mpc' = "yieldEnd"
    /\ UNCHANGED <<queueVars, sleepVars, workerVars, condVars, main_task, slots, others, idle,
                   results>>

(* Faults: the declined tasks come back reversed, or not at all.            *)
RequeuedReversed == Reverse(queue_tasks_unhandled) \o queue_tasks
RequeuedNone     == queue_tasks

(* The declined tasks go back to the front, in order.                       *)
Requeued == queue_tasks_unhandled \o queue_tasks

(* Fault: an exception is rethrown before they are back.                    *)
YieldReturnsThrowingFirst ==
    /\ idle' = FALSE
    /\ exception' = FALSE /\ work_exception' = FALSE
    /\ IF work_exception \/ exception
       THEN mpc' = "abort" /\ UNCHANGED <<queue_tasks, queue_tasks_unhandled>>
       ELSE mpc' = "batch" /\ queue_tasks' = Requeued /\ queue_tasks_unhandled' = <<>>

(* The worker is done.                                                      *)
YieldReturns ==
    /\ queue_tasks' = Requeued /\ queue_tasks_unhandled' = <<>>
    /\ idle' = FALSE
    /\ exception' = FALSE /\ work_exception' = FALSE
    /\ mpc' = IF work_exception \/ exception THEN "abort" ELSE "batch"

(* Fault: the yield ends without waiting for the worker.                    *)
YieldEndAtOnce ==
    /\ mpc = "yieldEnd"
    /\ yielding' = FALSE
    /\ NotifyAll /\ YieldReturns
    /\ UNCHANGED <<queue_tasks_deferred, sleepVars, stop, busy, cv_worker, main_task, slots, others,
                   results>>

YieldEnd ==
    /\ mpc = "yieldEnd"
    /\ yielding' = FALSE
    /\ IF busy
       THEN /\ cv_tasks' = {"main"}
            /\ mpc' = "yieldWait"
            /\ UNCHANGED <<queue_tasks, queue_tasks_unhandled, idle, exception, work_exception>>
       ELSE NotifyAll /\ YieldReturns
    /\ UNCHANGED <<queue_tasks_deferred, sleepVars, stop, busy, cv_worker, main_task, slots, others,
                   results>>

YieldWakes ==
    /\ mpc = "yieldWait" /\ "main" \notin cv_tasks
    /\ IF busy
       THEN /\ cv_tasks' = cv_tasks \cup {"main"}
            /\ UNCHANGED <<queue_tasks, queue_tasks_unhandled, idle, exception, work_exception,
                           mpc>>
       ELSE UNCHANGED cv_tasks /\ YieldReturns
    /\ UNCHANGED <<queue_tasks_deferred, sleepVars, stop, busy, yielding, cv_worker, main_task,
                   slots, others, results>>

----------------------------------------------------------------------------
(* The idle wait and the sleep.                                             *)

(* Fault: terminate() does not end the wait. *)
MayLoopIfTasks == queue_tasks # <<>>

MayLoop == ~running \/ queue_tasks # <<>>

IdleCheck ==
    /\ mpc = "idle"
    /\ IF MayLoop
       THEN mpc' = "process" /\ UNCHANGED <<sleepVars, cv_tasks>>
       ELSE /\ cv_tasks' = cv_tasks \cup {"main"}
            /\ IF MaySleep /\ idle
               THEN mpc' = "asleep" /\ sleeping' = TRUE /\ req_stop_sleeping' = FALSE
               ELSE mpc' = "idleWait" /\ UNCHANGED sleepVars
    /\ UNCHANGED <<queueVars, workerVars, cv_worker, mainVars, others, idle, results>>

(* wait_for gives up after one second and the idle check runs again.        *)
IdleTimeout ==
    /\ mpc = "idleWait"
    /\ mpc' = IF MayLoop THEN "process" ELSE "idle"
    /\ cv_tasks' = cv_tasks \ {"main"}
    /\ UNCHANGED <<queueVars, sleepVars, workerVars, cv_worker, mainVars, others, idle, results>>

IdleWakes ==
    /\ mpc = "idleWait" /\ "main" \notin cv_tasks
    /\ IF MayLoop
       THEN mpc' = "process" /\ UNCHANGED cv_tasks
       ELSE cv_tasks' = cv_tasks \cup {"main"} /\ UNCHANGED mpc
    /\ UNCHANGED <<queueVars, sleepVars, workerVars, cv_worker, mainVars, others, idle, results>>

SleepWakes ==
    /\ mpc = "asleep" /\ "main" \notin cv_tasks
    /\ \/ /\ ~running
          /\ mpc' = "process"
          /\ UNCHANGED <<sleepVars, cv_tasks, idle>>
       \/ /\ running /\ req_stop_sleeping
          /\ mpc' = "process"
          /\ sleeping' = FALSE /\ req_stop_sleeping' = FALSE /\ idle' = FALSE
          /\ NotifyAll
       \/ /\ running /\ ~req_stop_sleeping
          /\ cv_tasks' = cv_tasks \cup {"main"}
          /\ UNCHANGED <<mpc, sleepVars, idle>>
    /\ UNCHANGED <<queueVars, workerVars, cv_worker, mainVars, others, results>>

(* Time passes while nothing is posted.  The timer is read in IdleCheck     *)
(* only and an update shifts it, so it is enough to let it expire there.    *)
ElapseIdle ==
    /\ MaySleep /\ ~idle /\ mpc \in {"idle", "idleWait"}
    /\ PromptWakeups => \A c \in Http : cpc[c] = "sleepWait" => c \in cv_tasks
    /\ idle' = TRUE
    /\ UNCHANGED <<queueVars, sleepVars, workerVars, condVars, mainVars, others, mpc, results>>

----------------------------------------------------------------------------
(* worker_stop and the end of start_loop.                                   *)

StopWorker ==
    /\ mpc = "stopWorker"
    /\ stop' = TRUE
    /\ mpc' = "stopNotify"
    /\ UNCHANGED <<busy, yielding, exception, queueVars, sleepVars, condVars, mainVars, others,
                   idle, results>>

StopNotify ==
    /\ mpc = "stopNotify"
    /\ cv_worker' = FALSE
    /\ NotifyAll
    /\ mpc' = "join"
    /\ UNCHANGED <<queueVars, sleepVars, workerVars, mainVars, others, idle, results>>

JoinWorker ==
    /\ mpc = "join" /\ wpc = "exited"
    /\ mpc' = "exited"
    /\ UNCHANGED allButMpc

MainStep ==
    \/ StartLoop \/ MainTakes \/ MainDrained
    \/ MainLaunches \/ MainDefers \/ MainRejects \/ MainAnswers \/ MainCancels \/ MainNextResponse
    \/ UpdateSlots \/ FinishSlot \/ AbortSlot \/ BatchThrows \/ AbortDone \/ EndUpdate \/ ShiftTimer
    \/ YieldBegin \/ YieldNotify \/ WorkEnds \/ YieldEnd \/ YieldWakes
    \/ IdleCheck \/ IdleTimeout \/ IdleWakes \/ SleepWakes
    \/ StopWorker \/ StopNotify \/ JoinWorker

----------------------------------------------------------------------------
(* The worker thread: worker_loop and process_new_tasks(true).              *)

WorkerFrame == <<queue_tasks_deferred, sleepVars, stop, yielding, mainVars, clientVars, runVars,
                 idle, mpc>>

WorkerWaits ==
    /\ wpc = "wait" /\ ~cv_worker
    /\ \/ stop /\ wpc' = "exited" /\ UNCHANGED cv_worker
       \/ ~stop /\ busy /\ wpc' = "process" /\ UNCHANGED cv_worker
       \/ ~stop /\ ~busy /\ cv_worker' = TRUE /\ UNCHANGED wpc
    /\ UNCHANGED <<queue_tasks, queue_tasks_unhandled, busy, exception, cv_tasks, worker_task,
                   results, WorkerFrame>>

WorkerTakes ==
    /\ wpc = "process" /\ running /\ queue_tasks # <<>>
    /\ worker_task' = <<Head(queue_tasks)>>
    /\ queue_tasks' = Tail(queue_tasks)
    /\ wpc' = "handle"
    /\ UNCHANGED <<queue_tasks_unhandled, busy, exception, condVars, results, WorkerFrame>>

WorkerDrained ==
    /\ wpc = "process"
    /\ wpc' = IF ~running THEN "signal" ELSE "check"
    /\ running => queue_tasks = <<>>
    /\ UNCHANGED <<queue_tasks, queue_tasks_unhandled, busy, exception, condVars, worker_task,
                   results, WorkerFrame>>

WorkerAnswers ==
    /\ wpc = "handle" /\ ReadOnly(worker_task[1])
    /\ Send(worker_task[1].id, FALSE)
    /\ worker_task' = <<>> /\ wpc' = "process"
    /\ UNCHANGED <<queue_tasks, queue_tasks_unhandled, busy, exception, condVars, WorkerFrame>>

(* The callback throws: the task is gone and nobody is told.                *)
WorkerThrows ==
    /\ MayThrow /\ wpc = "handle" /\ ReadOnly(worker_task[1])
    /\ exception' = TRUE
    /\ worker_task' = <<>> /\ wpc' = "signal"
    /\ UNCHANGED <<queue_tasks, queue_tasks_unhandled, busy, condVars, results, WorkerFrame>>

WorkerDeclines ==
    /\ wpc = "handle" /\ ~ReadOnly(worker_task[1])
    /\ queue_tasks_unhandled' = queue_tasks_unhandled \o worker_task
    /\ worker_task' = <<>> /\ wpc' = "process"
    /\ UNCHANGED <<queue_tasks, busy, exception, condVars, results, WorkerFrame>>

WorkerChecks ==
    /\ wpc = "check"
    /\ \/ (stop \/ ~yielding) /\ wpc' = "signal" /\ UNCHANGED cv_tasks
       \/ ~stop /\ yielding /\ MayLoop /\ wpc' = "process" /\ UNCHANGED cv_tasks
       \/ /\ ~stop /\ yielding /\ ~MayLoop
          /\ wpc' = "queueWait" /\ cv_tasks' = cv_tasks \cup {"worker"}
    /\ UNCHANGED <<queue_tasks, queue_tasks_unhandled, busy, exception, cv_worker, worker_task,
                   results, WorkerFrame>>

WorkerWakes ==
    /\ wpc = "queueWait" /\ "worker" \notin cv_tasks
    /\ IF stop \/ ~yielding \/ MayLoop
       THEN wpc' = "process" /\ UNCHANGED cv_tasks
       ELSE cv_tasks' = cv_tasks \cup {"worker"} /\ UNCHANGED wpc
    /\ UNCHANGED <<queue_tasks, queue_tasks_unhandled, busy, exception, cv_worker, worker_task,
                   results, WorkerFrame>>

WorkerSignals ==
    /\ wpc = "signal"
    /\ busy' = FALSE
    /\ wpc' = "notify"
    /\ UNCHANGED <<queue_tasks, queue_tasks_unhandled, exception, condVars, worker_task, results,
                   WorkerFrame>>

WorkerNotifies ==
    /\ wpc = "notify"
    /\ NotifyAll
    /\ wpc' = "wait"
    /\ UNCHANGED <<queue_tasks, queue_tasks_unhandled, busy, exception, cv_worker, worker_task,
                   results, WorkerFrame>>

WorkerStep ==
    \/ WorkerWaits \/ WorkerTakes \/ WorkerDrained \/ WorkerAnswers \/ WorkerThrows
    \/ WorkerDeclines \/ WorkerChecks \/ WorkerWakes \/ WorkerSignals \/ WorkerNotifies

----------------------------------------------------------------------------
(* The HTTP threads.  An inference handler first waits until the server is  *)
(* awake, then prepares its task (tokenizing takes a while), then posts it. *)

HttpFrame == <<running, sleeping, workerVars, cv_worker, mainVars, workerLocal, mpc, terminated>>

AwaitAwake(c) ==
    /\ c \in Clients /\ cpc[c] = "idle"
    /\ IF sleeping
       THEN /\ cpc' = [cpc EXCEPT ![c] = "sleepWait"]
            /\ req_stop_sleeping' = TRUE
            /\ IF req_stop_sleeping
               THEN cv_tasks' = cv_tasks \cup {c}
               ELSE \/ cv_tasks = {} /\ cv_tasks' = {c}
                    \/ \E t \in cv_tasks : cv_tasks' = (cv_tasks \ {t}) \cup {c}
       ELSE cpc' = [cpc EXCEPT ![c] = "awake"] /\ UNCHANGED <<req_stop_sleeping, cv_tasks>>
    /\ UNCHANGED <<id, mine, queueVars, idle, results, HttpFrame>>

AwakeAgain(c) ==
    /\ cpc[c] = "sleepWait" /\ c \notin cv_tasks
    /\ IF sleeping
       THEN cv_tasks' = cv_tasks \cup {c} /\ UNCHANGED cpc
       ELSE cpc' = [cpc EXCEPT ![c] = "awake"] /\ UNCHANGED cv_tasks
    /\ UNCHANGED <<id, mine, queueVars, req_stop_sleeping, idle, results, HttpFrame>>

(* The metrics handler does not wake the server: asleep, it answers from its cache. *)
ProbeStarts(c) ==
    /\ c \in Probes /\ cpc[c] = "idle" /\ ~sleeping
    /\ cpc' = [cpc EXCEPT ![c] = "awake"]
    /\ UNCHANGED <<id, mine, queueVars, req_stop_sleeping, cv_tasks, idle, results, HttpFrame>>

GetNewId(c) ==
    /\ cpc[c] = "awake" /\ id < MaxId
    /\ mine' = [mine EXCEPT ![c] = id]
    /\ id' = id + 1
    /\ cpc' = [cpc EXCEPT ![c] = "ready"]
    /\ UNCHANGED <<queueVars, req_stop_sleeping, cv_tasks, idle, results, HttpFrame>>

PostRequest(c) ==
    /\ cpc[c] = "ready"
    /\ cpc' = [cpc EXCEPT ![c] = "posted"]
    /\ IF c \in Probes
       THEN Post(Request("METRICS", mine[c]), TRUE)
       ELSE Post(Request("INFER", mine[c]), FALSE)
    /\ UNCHANGED <<id, mine, req_stop_sleeping, results, HttpFrame>>

(* Leaving a request: what was sent for it is purged.                       *)
Leave(c) ==
    /\ cpc' = [cpc EXCEPT ![c] = "idle"]
    /\ mine' = [mine EXCEPT ![c] = NoId]
    /\ results' = {r \in results : r.id # mine[c]}
    /\ UNCHANGED <<id, req_stop_sleeping, HttpFrame>>

Receive(c) ==
    /\ cpc[c] = "posted"
    /\ [id |-> mine[c], error |-> FALSE] \in results
    /\ Leave(c)
    /\ UNCHANGED <<queueVars, cv_tasks, idle>>

(* On an error the reader stops, which cancels what is left of the request. *)
ReceiveError(c) ==
    /\ cpc[c] = "posted"
    /\ [id |-> mine[c], error |-> TRUE] \in results
    /\ Leave(c)
    /\ PostCancel(mine[c])

(* Fault: a probe does not look whether the server fell asleep.             *)
StopReadingOnDisconnect(c) ==
    /\ cpc[c] = "posted"
    /\ MayCancel
    /\ Leave(c)
    /\ PostCancel(mine[c])

(* The client went away, or a probe sees that the server fell asleep.       *)
StopReading(c) ==
    /\ cpc[c] = "posted"
    /\ MayCancel \/ (c \in Probes /\ sleeping)
    /\ Leave(c)
    /\ PostCancel(mine[c])

HttpStep(c) ==
    \/ AwaitAwake(c) \/ AwakeAgain(c) \/ ProbeStarts(c) \/ GetNewId(c) \/ PostRequest(c)
    \/ Receive(c) \/ ReceiveError(c) \/ StopReading(c)

(* server_context::terminate, called by the shutdown handler.               *)
Terminate ==
    /\ MayTerminate /\ ~terminated
    /\ terminated' = TRUE /\ running' = FALSE
    /\ NotifyAll
    /\ UNCHANGED <<queueVars, sleepVars, workerVars, cv_worker, mainVars, workerLocal, clientVars,
                   idle, mpc, results>>

Next ==
    \/ MainStep
    \/ WorkerStep
    \/ \E c \in Http : HttpStep(c)
    \/ ElapseIdle
    \/ Terminate

Spec == Init /\ [][Next]_vars

(* The threads are scheduled, a handler that entered its request goes on    *)
(* with it (a new request, a cancellation and a shutdown may never come),   *)
(* a probe polls, a batch has finitely many chunks and a generation ends.   *)
Fairness ==
    /\ WF_vars(MainStep) /\ SF_vars(EndUpdate) /\ SF_vars(FinishSlot)
    /\ WF_vars(WorkerStep)
    /\ \A c \in Http :
          /\ WF_vars(AwakeAgain(c)) /\ WF_vars(GetNewId(c)) /\ WF_vars(PostRequest(c))
          /\ WF_vars(Receive(c)) /\ WF_vars(ReceiveError(c))
    /\ \A c \in Probes : WF_vars(sleeping /\ StopReading(c))

FairSpec == Spec /\ Fairness

----------------------------------------------------------------------------
(* Properties.                                                              *)

MainAt   == {"init", "process", "handle", "update", "batch", "yieldNotify", "work", "yieldEnd",
             "yieldWait", "abort", "updated", "idle", "idleWait", "asleep", "stopWorker",
             "stopNotify", "join", "exited"}
WorkerAt == {"none", "wait", "process", "handle", "check", "queueWait", "signal", "notify", "exited"}
HttpAt   == {"idle", "sleepWait", "awake", "ready", "posted"}

(* Every variable has its type; a result always names a request.            *)
TypeOK ==
    /\ id \in Nat
    /\ queue_tasks \in Seq(Tasks)
    /\ queue_tasks_deferred \in Seq(Tasks)
    /\ queue_tasks_unhandled \in Seq(Tasks)
    /\ main_task \in Seq(Tasks) /\ Len(main_task) = (IF mpc = "handle" THEN 1 ELSE 0)
    /\ worker_task \in Seq(Tasks) /\ Len(worker_task) = (IF wpc = "handle" THEN 1 ELSE 0)
    /\ {running, terminated, sleeping, req_stop_sleeping, idle, stop, busy, yielding, exception,
        cv_worker, work_exception} \subseteq BOOLEAN
    /\ cv_tasks \subseteq Threads
    /\ mpc \in MainAt /\ wpc \in WorkerAt /\ (mpc = "init" <=> wpc = "none")
    /\ cpc \in [Http -> HttpAt] /\ mine \in [Http -> Ids]
    /\ \A c \in Http : cpc[c] \in {"ready", "posted"} => mine[c] \in Nat
    /\ slots \subseteq Nat
    /\ results \subseteq [id : Nat, error : BOOLEAN]

Yielding == {"yieldNotify", "work", "yieldEnd", "yieldWait"}
WorkerBusy == {"process", "handle", "check", "queueWait", "signal"}

(* The worker touches the queue and the server state only while the main    *)
(* thread sits inside yield_to_queue, even when it was already processing a *)
(* task as the yield ended: server state is never used by two threads, and  *)
(* the assertion that yields do not nest holds.                             *)
CallbackExclusion == busy \/ wpc \in WorkerBusy => mpc \in Yielding

(* A declined task is back in the queue by the time yield_to_queue returns, *)
(* also when work() or the worker throws.                                   *)
DeclinedOnlyWhileYielding == queue_tasks_unhandled # <<>> => mpc \in Yielding

(* No lost wakeup: a thread is blocked on a condition variable only while   *)
(* its predicate is false, or while the thread that made it true has not    *)
(* sent its notification yet.                                               *)
NoLostWakeup ==
    /\ "worker" \in cv_tasks => ~stop /\ yielding /\ running /\ queue_tasks = <<>>
    /\ cv_worker => (stop => mpc = "stopNotify") /\ (busy => mpc = "yieldNotify")
    /\ "main" \in cv_tasks =>
          \/ mpc = "idleWait" /\ running /\ queue_tasks = <<>>
          \/ mpc = "asleep" /\ running /\ ~req_stop_sleeping
          \/ mpc = "yieldWait" /\ (busy \/ wpc = "notify")
    /\ \A c \in Http : c \in cv_tasks => cpc[c] = "sleepWait" /\ sleeping

(* wait_until_no_sleep may notify a single thread because nobody else than  *)
(* the main thread waits when the first client asks it to stop sleeping.    *)
OnlyMainAwaitsRequest == sleeping /\ ~req_stop_sleeping => cv_tasks \subseteq {"main"}

(* The main loop neither waits nor sleeps while a slot is generating: the   *)
(* NEXT_RESPONSE task that drives it survives every yield.                  *)
LoopTurns == mpc \in {"idleWait", "asleep"} => slots = {}

(* Tasks in the order the main thread will meet them.                       *)
Pending == queue_tasks_unhandled \o worker_task \o queue_tasks

Precedes(q, a, b) == \E i, j \in DOMAIN q : i < j /\ q[i] = a /\ q[j] = b

(* Yields, declines and their return to the queue keep tasks in order.      *)
ServiceOrderKept ==
    [][\A a, b \in ToSet(Pending) :
         Precedes(Pending, a, b) /\ {a, b} \subseteq ToSet(Pending') => Precedes(Pending', a, b)]_vars

(* A deferred task waits for a slot: it does not wait while all are idle.   *)
DeferredNotStranded == mpc \in {"idleWait", "asleep"} => queue_tasks_deferred = <<>>

(* Every inference request is answered, although only one deferred task is  *)
(* woken per released slot and a yield declines every inference task; save  *)
(* for one that was posted to a server that sleeps.                         *)
RequestAnswered ==
    \A c \in Clients : cpc[c] = "posted" ~> cpc[c] # "posted" \/ sleeping \/ ~running

(* A probe is not left hanging when the server falls asleep over its task.  *)
ProbeReleased == \A c \in Probes : cpc[c] = "posted" ~> cpc[c] # "posted" \/ ~running

(* wait_until_no_sleep returns on a server that goes on running.            *)
WaiterServed == \A c \in Clients : cpc[c] = "sleepWait" ~> cpc[c] # "sleepWait" \/ ~running

(* terminate() on a running loop ends it, wherever the two threads are.     *)
TerminateStops == (mpc # "init" /\ ~running) ~> (mpc = "exited")

----------------------------------------------------------------------------
(* The queue, its slots and the results implement TaskService: a request is *)
(* queued while its task is in a deque or in a thread's hands.              *)

Reserved == {mine[c] : c \in {d \in Http : cpc[d] = "ready"}}
Awaited  == {mine[c] : c \in {d \in Http : cpc[d] = "posted"}}

(* The tasks in the deques and in the hands of the two threads.             *)
Present == ToSet(queue_tasks) \cup ToSet(queue_tasks_deferred) \cup ToSet(queue_tasks_unhandled)
               \cup ToSet(main_task) \cup ToSet(worker_task)

Requested(S) == {[kind |-> t.kind, id |-> t.id] : t \in {u \in S : u.kind \in {"INFER", "METRICS"}}}
Queued       == Requested(Present)

Service == INSTANCE TaskService WITH
    next       <- id,
    reserved   <- Reserved,
    waiting    <- Awaited,
    queued     <- Queued,
    generating <- slots,
    answers    <- results

(* Whatever the two threads, the deques and the yields do, a request is     *)
(* served at most once, with a slot if it generates, answered at most once, *)
(* and broken off only when nobody waits for it.                            *)
Implements == Service!Spec

=============================================================================
