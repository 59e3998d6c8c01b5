------------------------- MODULE ServerQueueProofs -------------------------
(* Proofs about ServerQueue, for every set of HTTP threads, every number of *)
(* slots and every combination of the environment's switches.               *)
EXTENDS ServerQueue, SequenceTheorems, TLAPS

----------------------------------------------------------------------------
(* Typing of the operators on deques.                                       *)

(* cleanup_pending_task leaves a deque of tasks.                            *)
LEMMA WithoutType ==
    ASSUME NEW q \in Seq(Tasks), NEW i
    PROVE  Without(q, i) \in Seq(Tasks)
<1>1. CASE \E k \in DOMAIN q : q[k].id = i
  <2> DEFINE k == CHOOSE k \in DOMAIN q : q[k].id = i
  <2>1. k \in 1..Len(q)
    BY <1>1
  <2>2. Without(q, i) = SubSeq(q, 1, k - 1) \o SubSeq(q, k + 1, Len(q))
    BY <1>1 DEF Without, RemoveAt
  <2> HIDE DEF k
  <2>3. \A j \in 1..Len(q) : q[j] \in Tasks
    BY ElementOfSeq
  <2>4. k \in Int /\ Len(q) \in Int
    BY <2>1
  <2>5. SubSeq(q, 1, k - 1) \in Seq(Tasks)
    <3>1. \A j \in 1..(k - 1) : q[j] \in Tasks
      BY <2>1, <2>3
    <3> QED
      BY <2>4, <3>1, SubSeqProperties
  <2>6. SubSeq(q, k + 1, Len(q)) \in Seq(Tasks)
    <3>1. \A j \in (k + 1)..Len(q) : q[j] \in Tasks
      BY <2>1, <2>3
    <3> QED
      BY <2>4, <3>1, SubSeqProperties
  <2> QED
    BY <2>2, <2>5, <2>6, ConcatProperties
<1>2. CASE ~ \E k \in DOMAIN q : q[k].id = i
  BY <1>2 DEF Without
<1> QED
  BY <1>1, <1>2

(* The tasks that are built.                                                *)
LEMMA TaskType ==
    /\ NextResponse \in Tasks
    /\ \A i \in Nat : /\ Request("INFER", i) \in Tasks
                      /\ Request("METRICS", i) \in Tasks
                      /\ Cancel(i) \in Tasks
BY DEF Request, NextResponse, Cancel, Tasks, NoId

(* A request has a proper id.                                               *)
LEMMA RequestId ==
    ASSUME NEW t \in Tasks
    PROVE  /\ t.kind \in {"INFER", "METRICS"} => t.id \in Nat
           /\ t.kind = "CANCEL" => t.target \in Nat
BY DEF Tasks

(* Pushing at either end.                                                   *)
LEMMA PushType ==
    ASSUME NEW q \in Seq(Tasks), NEW t \in Tasks
    PROVE  <<t>> \o q \in Seq(Tasks) /\ Append(q, t) \in Seq(Tasks)
<1>1. <<t>> \in Seq(Tasks)
  OBVIOUS
<1> QED
  BY <1>1, ConcatProperties, AppendProperties

(* Popping the front.                                                       *)
LEMMA PopType ==
    ASSUME NEW q \in Seq(Tasks), q # <<>>
    PROVE  Head(q) \in Tasks /\ Tail(q) \in Seq(Tasks)
           /\ <<Head(q)>> \in Seq(Tasks) /\ Len(<<Head(q)>>) = 1
BY HeadTailProperties

----------------------------------------------------------------------------
(* Typing of the steps that several actions share.                          *)

QueuesOK ==
    /\ queue_tasks \in Seq(Tasks)
    /\ queue_tasks_deferred \in Seq(Tasks)
    /\ queue_tasks_unhandled \in Seq(Tasks)
    /\ idle \in BOOLEAN
    /\ cv_tasks \subseteq Threads

LEMMA NotifyType ==
    ASSUME NotifyOne \/ NotifyAll
    PROVE  cv_tasks' \subseteq cv_tasks
BY DEF NotifyOne, NotifyAll

LEMMA PostType ==
    ASSUME QueuesOK, NEW t \in Tasks, NEW front \in BOOLEAN, Post(t, front)
    PROVE  QueuesOK'
BY PushType, NotifyType DEF QueuesOK, Post

LEMMA PostCancelType ==
    ASSUME QueuesOK, NEW i \in Nat, PostCancel(i)
    PROVE  QueuesOK'
<1>1. /\ Without(queue_tasks, i) \in Seq(Tasks)
      /\ Without(queue_tasks_deferred, i) \in Seq(Tasks)
      /\ Without(queue_tasks_unhandled, i) \in Seq(Tasks)
  BY WithoutType DEF QueuesOK
<1> QED
  BY <1>1, PushType, TaskType, NotifyType DEF QueuesOK, PostCancel

LEMMA PopDeferredType ==
    ASSUME QueuesOK, PopDeferred
    PROVE  QueuesOK'
<1>1. CASE queue_tasks_deferred = <<>>
  BY <1>1, NotifyType DEF QueuesOK, PopDeferred
<1>2. CASE queue_tasks_deferred # <<>>
  BY <1>2, PushType, PopType, NotifyType DEF QueuesOK, PopDeferred
<1> QED
  BY <1>1, <1>2

LEMMA SendType ==
    ASSUME results \subseteq [id : Nat, error : BOOLEAN], NEW i \in Nat, NEW e \in BOOLEAN, Send(i, e)
    PROVE  results' \subseteq [id : Nat, error : BOOLEAN]
BY DEF Send

----------------------------------------------------------------------------
(* Type correctness.                                                        *)

USE DEF queueVars, sleepVars, workerVars, condVars, mainVars, workerLocal, clientVars, runVars,
        others, allButMpc, WorkerFrame, HttpFrame

LEMMA TypeInit == Init => TypeOK
<1> SUFFICES ASSUME Init PROVE TypeOK
  OBVIOUS
<1>1. <<>> \in Seq(Tasks) /\ Len(<<>>) = 0
  BY EmptySeq
<1>2. cpc \in [Http -> HttpAt] /\ mine \in [Http -> Ids]
  BY DEF Init, HttpAt, Ids, NoId
<1>3. \A c \in Http : cpc[c] \in {"ready", "posted"} => mine[c] \in Nat
  BY DEF Init
<1>4. {running, terminated, sleeping, req_stop_sleeping, idle, stop, busy, yielding, exception,
       cv_worker, work_exception} \subseteq BOOLEAN
  BY DEF Init
<1>5. results \subseteq [id : Nat, error : BOOLEAN] /\ slots \subseteq Nat /\ cv_tasks \subseteq Threads
  BY DEF Init
<1> QED
  BY <1>1, <1>2, <1>3, <1>4, <1>5 DEF Init, TypeOK, MainAt, WorkerAt

(* What is in the hands of a thread is a task.                              *)
LEMMA HeldType ==
    ASSUME TypeOK
    PROVE  /\ mpc = "handle" => main_task[1] \in Tasks
           /\ wpc = "handle" => worker_task[1] \in Tasks
BY ElementOfSeq DEF TypeOK

LEMMA TypeMain == TypeOK /\ MainStep => TypeOK'
<1> SUFFICES ASSUME TypeOK, MainStep PROVE TypeOK'
  OBVIOUS
<1> USE DEF TypeOK
<1>q. QueuesOK
  BY DEF QueuesOK
<1>1. CASE StartLoop
  BY <1>1 DEF StartLoop, MainAt, WorkerAt
<1>2. CASE MainDrained
  BY <1>2 DEF MainDrained, MainAt, WorkerAt
<1>3. CASE BatchThrows
  BY <1>3 DEF BatchThrows, MainAt, WorkerAt
<1>4. CASE AbortDone
  BY <1>4 DEF AbortDone, MainAt, WorkerAt
<1>5. CASE EndUpdate
  BY <1>5 DEF EndUpdate, MainAt, WorkerAt
<1>6. CASE ShiftTimer
  BY <1>6 DEF ShiftTimer, MainAt, WorkerAt
<1>7. CASE YieldBegin
  BY <1>7 DEF YieldBegin, MainAt, WorkerAt
<1>8. CASE YieldNotify
  BY <1>8 DEF YieldNotify, MainAt, WorkerAt
<1>9. CASE StopWorker
  BY <1>9 DEF StopWorker, MainAt, WorkerAt
<1>10. CASE JoinWorker
  BY <1>10 DEF JoinWorker, MainAt, WorkerAt
<1>11. CASE MainTakes
  BY <1>11, PopType DEF MainTakes, MainAt
<1>12. CASE MainLaunches
  <2>1. main_task[1].id \in Nat
    BY <1>12, HeldType, RequestId DEF MainLaunches, Handles
  <2>2. slots' \subseteq Nat
    BY <1>12, <2>1 DEF MainLaunches
  <2> QED
    BY <1>12, <2>2 DEF MainLaunches, Handles, MainAt
<1>13. CASE MainDefers
  <2>1. main_task[1] \in Tasks
    BY <1>13, HeldType DEF MainDefers, Handles
  <2>2. QueuesOK'
    BY <1>13, <2>1, PushType, NotifyType DEF MainDefers, QueuesOK
  <2> QED
    BY <1>13, <2>2 DEF MainDefers, Handles, MainAt, QueuesOK
<1>14. CASE MainRejects
  <2>1. main_task[1].id \in Nat
    BY <1>14, HeldType, RequestId DEF MainRejects, Handles
  <2>2. results' \subseteq [id : Nat, error : BOOLEAN]
    BY <1>14, <2>1, SendType DEF MainRejects
  <2> QED
    BY <1>14, <2>2 DEF MainRejects, Handles, MainAt
<1>15. CASE MainAnswers
  <2>1. main_task[1].id \in Nat
    BY <1>15, HeldType, RequestId DEF MainAnswers, Handles
  <2>2. results' \subseteq [id : Nat, error : BOOLEAN]
    BY <1>15, <2>1, SendType DEF MainAnswers
  <2> QED
    BY <1>15, <2>2 DEF MainAnswers, Handles, MainAt
<1>16. CASE MainCancels
  <2>1. QueuesOK'
    BY <1>16, <1>q, PopDeferredType DEF MainCancels, QueuesOK
  <2> QED
    <3>1. slots' \subseteq slots
      BY <1>16 DEF MainCancels
    <3> QED
      BY <1>16, <2>1, <3>1 DEF MainCancels, Handles, MainAt, QueuesOK
<1>17. CASE MainNextResponse
  BY <1>17 DEF MainNextResponse, Handles, MainAt
<1>18. CASE UpdateSlots
  <2>1. QueuesOK'
    BY <1>18, <1>q, PostType, TaskType DEF UpdateSlots, QueuesOK
  <2> QED
    BY <1>18, <2>1 DEF UpdateSlots, MainAt, QueuesOK
<1>19. CASE FinishSlot \/ AbortSlot
  <2>1. PICK t \in slots, e \in BOOLEAN : Released(t, e)
    BY <1>19, ServerQueueAssumption DEF FinishSlot, AbortSlot
  <2>2. QueuesOK'
    BY <1>q, <2>1, PopDeferredType DEF Released
  <2>3. results' \subseteq [id : Nat, error : BOOLEAN]
    BY <2>1, SendType DEF Released
  <2> QED
    BY <2>1, <2>2, <2>3 DEF Released, QueuesOK
<1>20. CASE WorkEnds
  BY <1>20, ServerQueueAssumption DEF WorkEnds, MainAt
<1>21. CASE YieldEnd
  <2>1. queue_tasks_unhandled \o queue_tasks \in Seq(Tasks) /\ <<>> \in Seq(Tasks)
    BY ConcatProperties, EmptySeq
  <2>2. QueuesOK'
    BY <1>21, <1>q, <2>1 DEF YieldEnd, YieldReturns, Requeued, NotifyAll, Threads, QueuesOK
  <2>3. mpc' \in {"yieldWait", "abort", "batch"}
    BY <1>21 DEF YieldEnd, YieldReturns
  <2>4. exception' \in BOOLEAN /\ work_exception' \in BOOLEAN
    BY <1>21 DEF YieldEnd, YieldReturns
  <2> QED
    BY <1>21, <2>2, <2>3, <2>4 DEF YieldEnd, MainAt, QueuesOK
<1>22. CASE YieldWakes
  <2>1. queue_tasks_unhandled \o queue_tasks \in Seq(Tasks) /\ <<>> \in Seq(Tasks)
    BY ConcatProperties, EmptySeq
  <2>2. QueuesOK'
    BY <1>22, <1>q, <2>1 DEF YieldWakes, YieldReturns, Requeued, NotifyAll, Threads, QueuesOK
  <2>3. mpc' \in {"yieldWait", "abort", "batch"}
    BY <1>22 DEF YieldWakes, YieldReturns
  <2>4. exception' \in BOOLEAN /\ work_exception' \in BOOLEAN
    BY <1>22 DEF YieldWakes, YieldReturns
  <2> QED
    BY <1>22, <2>2, <2>3, <2>4 DEF YieldWakes, MainAt, QueuesOK
<1>23. CASE IdleCheck
  BY <1>23 DEF IdleCheck, NotifyAll, MainAt, Threads
<1>24. CASE IdleTimeout
  BY <1>24 DEF IdleTimeout, NotifyAll, MainAt, Threads
<1>25. CASE IdleWakes
  BY <1>25 DEF IdleWakes, NotifyAll, MainAt, Threads
<1>26. CASE SleepWakes
  BY <1>26 DEF SleepWakes, NotifyAll, MainAt, Threads
<1>27. CASE StopNotify
  BY <1>27 DEF StopNotify, NotifyAll, MainAt, Threads
<1> QED
  BY <1>1, <1>2, <1>3, <1>4, <1>5, <1>6, <1>7, <1>8, <1>9, <1>10, <1>11, <1>12, <1>13, <1>14, <1>15, <1>16, <1>17, <1>18, <1>19, <1>20, <1>21, <1>22, <1>23, <1>24, <1>25, <1>26, <1>27 DEF MainStep

LEMMA TypeWorker == TypeOK /\ WorkerStep => TypeOK'
<1> SUFFICES ASSUME TypeOK, WorkerStep PROVE TypeOK'
  OBVIOUS
<1> USE DEF TypeOK
<1>1. CASE WorkerWaits
  BY <1>1 DEF WorkerWaits, WorkerAt, NotifyAll, Threads
<1>2. CASE WorkerDrained
  BY <1>2 DEF WorkerDrained, WorkerAt, NotifyAll, Threads
<1>3. CASE WorkerThrows
  BY <1>3 DEF WorkerThrows, WorkerAt, NotifyAll, Threads
<1>4. CASE WorkerChecks
  BY <1>4 DEF WorkerChecks, WorkerAt, NotifyAll, Threads
<1>5. CASE WorkerWakes
  BY <1>5 DEF WorkerWakes, WorkerAt, NotifyAll, Threads
<1>6. CASE WorkerSignals
  BY <1>6 DEF WorkerSignals, WorkerAt, NotifyAll, Threads
<1>7. CASE WorkerNotifies
  BY <1>7 DEF WorkerNotifies, WorkerAt, NotifyAll, Threads
<1>8. CASE WorkerTakes
  BY <1>8, PopType DEF WorkerTakes, WorkerAt
<1>9. CASE WorkerAnswers
  <2>1. worker_task[1].id \in Nat
    BY <1>9, HeldType, RequestId DEF WorkerAnswers, ReadOnly
  <2>2. results' \subseteq [id : Nat, error : BOOLEAN]
    BY <1>9, <2>1, SendType DEF WorkerAnswers
  <2> QED
    BY <1>9, <2>2 DEF WorkerAnswers, WorkerAt
<1>10. CASE WorkerDeclines
  BY <1>10, ConcatProperties DEF WorkerDeclines, WorkerAt
<1> QED
  BY <1>1, <1>2, <1>3, <1>4, <1>5, <1>6, <1>7, <1>8, <1>9, <1>10 DEF WorkerStep

LEMMA TypeHttp == ASSUME TypeOK, NEW c \in Http, HttpStep(c) PROVE TypeOK'
<1> USE DEF TypeOK
<1>q. QueuesOK
  BY DEF QueuesOK
<1>1. CASE AwaitAwake(c)
  <2>1. cv_tasks' \subseteq cv_tasks \cup {c}
    BY <1>1 DEF AwaitAwake
  <2>2. cpc' \in [Http -> HttpAt] /\ \A d \in Http : cpc'[d] \in {"ready", "posted"} => mine[d] \in Nat
    BY <1>1 DEF AwaitAwake, HttpAt
  <2> QED
    BY <1>1, <2>1, <2>2 DEF AwaitAwake, Threads
<1>2. CASE AwakeAgain(c)
  BY <1>2 DEF AwakeAgain, HttpAt, Threads, Ids
<1>3. CASE ProbeStarts(c)
  BY <1>3 DEF ProbeStarts, HttpAt, Threads, Ids
<1>4. CASE GetNewId(c)
  BY <1>4 DEF GetNewId, HttpAt, Threads, Ids
<1>5. CASE PostRequest(c)
  <2>1. mine[c] \in Nat
    BY <1>5 DEF PostRequest
  <2>2. QueuesOK'
    BY <1>q, <1>5, <2>1, PostType, TaskType DEF PostRequest
  <2> QED
    BY <1>5, <2>1, <2>2 DEF PostRequest, HttpAt, QueuesOK
<1>6. CASE Receive(c)
  BY <1>6 DEF Receive, Leave, HttpAt, Ids
<1>7. CASE ReceiveError(c)
  <2>1. mine[c] \in Nat
    BY <1>7 DEF ReceiveError
  <2>2. QueuesOK'
    BY <1>q, <1>7, <2>1, PostCancelType DEF ReceiveError
  <2> QED
    BY <1>7, <2>2 DEF ReceiveError, Leave, HttpAt, QueuesOK, Ids
<1>8. CASE StopReading(c)
  <2>1. mine[c] \in Nat
    BY <1>8 DEF StopReading
  <2>2. QueuesOK'
    BY <1>q, <1>8, <2>1, PostCancelType DEF StopReading
  <2> QED
    BY <1>8, <2>2 DEF StopReading, Leave, HttpAt, QueuesOK, Ids
<1> QED
  BY <1>1, <1>2, <1>3, <1>4, <1>5, <1>6, <1>7, <1>8 DEF HttpStep

(* Every variable keeps its type; in particular every result and every slot *)
(* carries the id of a request, never that of an internal task.             *)
THEOREM TypeCorrect == Spec => []TypeOK
<1>1. TypeOK /\ [Next]_vars => TypeOK'
  <2> SUFFICES ASSUME TypeOK, [Next]_vars PROVE TypeOK'
    OBVIOUS
  <2>1. CASE MainStep
    BY <2>1, TypeMain
  <2>2. CASE WorkerStep
    BY <2>2, TypeWorker
  <2>3. CASE \E c \in Http : HttpStep(c)
    BY <2>3, TypeHttp
  <2>4. CASE ElapseIdle
    BY <2>4 DEF ElapseIdle, TypeOK
  <2>5. CASE Terminate
    BY <2>5 DEF Terminate, NotifyAll, TypeOK
  <2>6. CASE UNCHANGED vars
    BY <2>6 DEF vars, TypeOK
  <2> QED
    BY <2>1, <2>2, <2>3, <2>4, <2>5, <2>6 DEF Next
<1> QED
  BY TypeInit, <1>1, PTL DEF Spec

----------------------------------------------------------------------------
(* The inductive invariant.  ThreadInv ties the flags under mutex_tasks to  *)
(* where the two threads are, WaitInv tells why each blocked thread is      *)
(* blocked, SleepInv that a client in wait_until_no_sleep has asked for the *)
(* wakeup it waits for, or has been granted it a moment ago.                *)

AfterSleep == {"asleep", "process", "stopWorker", "stopNotify", "join", "exited"}

ThreadInv ==
    /\ busy => mpc \in Yielding
    /\ wpc \in WorkerBusy => busy
    /\ yielding => mpc \in Yielding /\ mpc # "yieldWait"
    /\ queue_tasks_unhandled # <<>> => mpc \in Yielding
    /\ sleeping => mpc \in AfterSleep /\ (mpc = "process" => ~running)

WaitInv ==
    /\ "worker" \in cv_tasks =>
          wpc = "queueWait" /\ ~stop /\ yielding /\ running /\ queue_tasks = <<>>
    /\ cv_worker => wpc = "wait" /\ (stop => mpc = "stopNotify") /\ (busy => mpc = "yieldNotify")
    /\ "main" \in cv_tasks =>
          \/ mpc = "idleWait" /\ running /\ queue_tasks = <<>>
          \/ mpc = "asleep" /\ running /\ ~req_stop_sleeping
          \/ mpc = "yieldWait" /\ (busy \/ wpc = "notify")
    /\ \A c \in Http : c \in cv_tasks => cpc[c] = "sleepWait" /\ sleeping

SleepInv ==
    \A c \in Http : cpc[c] = "sleepWait" => IF sleeping THEN req_stop_sleeping ELSE ~idle

LEMMA WithoutEmpty == \A i : Without(<<>>, i) = <<>>
<1>1. DOMAIN <<>> = {}
  OBVIOUS
<1> QED
  BY <1>1 DEF Without

----------------------------------------------------------------------------
(* ThreadInv is inductive.                                                  *)

LEMMA ThreadMain == ASSUME TypeOK, ThreadInv, MainStep PROVE ThreadInv'
<1> USE DEF ThreadInv, Yielding, AfterSleep
<1>1. CASE StartLoop
  BY <1>1 DEF StartLoop, TypeOK, WorkerBusy
<1>2. CASE MainTakes
  BY <1>2 DEF MainTakes
<1>3. CASE MainDrained
  BY <1>3 DEF MainDrained
<1>4. CASE BatchThrows
  BY <1>4 DEF BatchThrows
<1>5. CASE AbortDone
  BY <1>5 DEF AbortDone
<1>6. CASE EndUpdate
  BY <1>6 DEF EndUpdate
<1>7. CASE ShiftTimer
  BY <1>7 DEF ShiftTimer
<1>8. CASE YieldBegin
  BY <1>8 DEF YieldBegin
<1>9. CASE YieldNotify
  BY <1>9 DEF YieldNotify
<1>10. CASE WorkEnds
  BY <1>10 DEF WorkEnds
<1>11. CASE IdleCheck
  BY <1>11 DEF IdleCheck
<1>12. CASE IdleTimeout
  BY <1>12 DEF IdleTimeout
<1>13. CASE IdleWakes
  BY <1>13 DEF IdleWakes
<1>14. CASE SleepWakes
  BY <1>14 DEF SleepWakes
<1>15. CASE StopWorker
  BY <1>15 DEF StopWorker
<1>16. CASE StopNotify
  BY <1>16 DEF StopNotify
<1>17. CASE JoinWorker
  BY <1>17 DEF JoinWorker
<1>18. CASE MainLaunches
  BY <1>18 DEF MainLaunches, Handles
<1>19. CASE MainDefers
  BY <1>19 DEF MainDefers, Handles
<1>20. CASE MainRejects
  BY <1>20 DEF MainRejects, Handles
<1>21. CASE MainAnswers
  BY <1>21 DEF MainAnswers, Handles
<1>22. CASE MainNextResponse
  BY <1>22 DEF MainNextResponse, Handles
<1>23. CASE MainCancels
  BY <1>23 DEF MainCancels, Handles, PopDeferred
<1>24. CASE UpdateSlots
  BY <1>24 DEF UpdateSlots, Post
<1>25. CASE FinishSlot \/ AbortSlot
  <2>1. UNCHANGED <<mpc, wpc, busy, yielding, sleeping, running, queue_tasks_unhandled>>
    BY <1>25 DEF FinishSlot, AbortSlot, Released, PopDeferred
  <2> QED
    BY <2>1 DEF WorkerBusy
<1>26. CASE YieldEnd
  BY <1>26 DEF YieldEnd, YieldReturns
<1>27. CASE YieldWakes
  BY <1>27 DEF YieldWakes, YieldReturns
<1> QED
  BY <1>1, <1>2, <1>3, <1>4, <1>5, <1>6, <1>7, <1>8, <1>9, <1>10, <1>11, <1>12, <1>13, <1>14, <1>15, <1>16, <1>17, <1>18, <1>19, <1>20, <1>21, <1>22, <1>23, <1>24, <1>25, <1>26, <1>27 DEF MainStep

LEMMA ThreadWorker == ASSUME TypeOK, ThreadInv, WorkerStep PROVE ThreadInv'
<1> USE DEF ThreadInv, Yielding, AfterSleep, WorkerBusy
<1>1. CASE WorkerWaits
  BY <1>1 DEF WorkerWaits
<1>2. CASE WorkerTakes
  BY <1>2 DEF WorkerTakes
<1>3. CASE WorkerDrained
  BY <1>3 DEF WorkerDrained
<1>4. CASE WorkerAnswers
  BY <1>4 DEF WorkerAnswers
<1>5. CASE WorkerThrows
  BY <1>5 DEF WorkerThrows
<1>6. CASE WorkerDeclines
  BY <1>6 DEF WorkerDeclines
<1>7. CASE WorkerChecks
  BY <1>7 DEF WorkerChecks
<1>8. CASE WorkerWakes
  BY <1>8 DEF WorkerWakes
<1>9. CASE WorkerSignals
  BY <1>9 DEF WorkerSignals
<1>10. CASE WorkerNotifies
  BY <1>10 DEF WorkerNotifies
<1> QED
  BY <1>1, <1>2, <1>3, <1>4, <1>5, <1>6, <1>7, <1>8, <1>9, <1>10 DEF WorkerStep

LEMMA ThreadHttp == ASSUME TypeOK, ThreadInv, NEW c \in Http, HttpStep(c) PROVE ThreadInv'
<1> USE DEF ThreadInv
<1>1. CASE AwaitAwake(c)
  BY <1>1 DEF AwaitAwake
<1>2. CASE AwakeAgain(c)
  BY <1>2 DEF AwakeAgain
<1>3. CASE ProbeStarts(c)
  BY <1>3 DEF ProbeStarts
<1>4. CASE GetNewId(c)
  BY <1>4 DEF GetNewId
<1>5. CASE PostRequest(c)
  BY <1>5 DEF PostRequest, Post
<1>6. CASE Receive(c)
  BY <1>6 DEF Receive, Leave
<1>7. CASE ReceiveError(c)
  BY <1>7, WithoutEmpty DEF ReceiveError, Leave, PostCancel
<1>8. CASE StopReading(c)
  BY <1>8, WithoutEmpty DEF StopReading, Leave, PostCancel
<1> QED
  BY <1>1, <1>2, <1>3, <1>4, <1>5, <1>6, <1>7, <1>8 DEF HttpStep

LEMMA ThreadOther == ASSUME TypeOK, ThreadInv, ElapseIdle \/ Terminate PROVE ThreadInv'
BY DEF ThreadInv, ElapseIdle, Terminate

LEMMA ThreadCorrect == Spec => []ThreadInv
<1>1. Init => ThreadInv
  BY DEF Init, ThreadInv, WorkerBusy
<1>2. TypeOK /\ ThreadInv /\ [Next]_vars => ThreadInv'
  <2> SUFFICES ASSUME TypeOK, ThreadInv, [Next]_vars PROVE ThreadInv'
    OBVIOUS
  <2>1. CASE UNCHANGED vars
    BY <2>1 DEF vars, ThreadInv
  <2> QED
    BY <2>1, ThreadMain, ThreadWorker, ThreadHttp, ThreadOther DEF Next
<1> QED
  BY TypeCorrect, <1>1, <1>2, PTL DEF Spec

(* The server state is never in the hands of two threads, and yields do not *)
(* nest: the worker is idle whenever the main thread is outside a yield.    *)
THEOREM CallbacksExclusive == Spec => []CallbackExclusion
<1>1. ThreadInv => CallbackExclusion
  BY DEF ThreadInv, CallbackExclusion
<1> QED
  BY ThreadCorrect, <1>1, PTL

(* No declined task is left aside when yield_to_queue has returned or thrown. *)
THEOREM DeclinedReturn == Spec => []DeclinedOnlyWhileYielding
<1>1. ThreadInv => DeclinedOnlyWhileYielding
  BY DEF ThreadInv, DeclinedOnlyWhileYielding
<1> QED
  BY ThreadCorrect, <1>1, PTL

----------------------------------------------------------------------------
(* WaitInv and SleepInv are inductive when a notified thread runs again     *)
(* before the idle timer expires.                                           *)

Inv == TypeOK /\ ThreadInv /\ WaitInv /\ SleepInv

(* notify_one reaches the thread it is meant for: nobody else is waiting.   *)
LEMMA Notified ==
    ASSUME Inv, NotifyOne
    PROVE  /\ cv_tasks' \subseteq cv_tasks
           /\ "worker" \notin cv_tasks'
           /\ mpc = "idleWait" => "main" \notin cv_tasks'
<1> USE DEF Inv
<1>1. cv_tasks \subseteq Threads /\ mpc \in MainAt
  BY DEF TypeOK
<1>2. "worker" \in cv_tasks => cv_tasks \subseteq {"worker"}
  <2> SUFFICES ASSUME "worker" \in cv_tasks, NEW t \in cv_tasks PROVE t = "worker"
    OBVIOUS
  <2>1. mpc \in Yielding /\ mpc # "yieldWait" /\ ~sleeping
    BY DEF ThreadInv, WaitInv, AfterSleep, Yielding
  <2>2. t # "main"
    BY <2>1 DEF WaitInv, Yielding
  <2>3. t \notin Http
    BY <2>1 DEF WaitInv
  <2> QED
    BY <1>1, <2>2, <2>3 DEF Threads
<1>3. mpc = "idleWait" => cv_tasks \subseteq {"main"}
  <2> SUFFICES ASSUME mpc = "idleWait", NEW t \in cv_tasks PROVE t = "main"
    OBVIOUS
  <2>1. ~sleeping /\ ~yielding
    BY DEF ThreadInv, AfterSleep, Yielding
  <2> QED
    BY <1>1, <2>1 DEF WaitInv, Threads
<1> QED
  BY <1>2, <1>3 DEF NotifyOne

LEMMA WaitMain == ASSUME Inv, MainStep PROVE WaitInv'
<1> USE DEF Inv, WaitInv
<1>1. CASE StartLoop
  BY <1>1 DEF StartLoop, TypeOK
<1>2. CASE MainTakes
  BY <1>2 DEF MainTakes, ThreadInv, Yielding
<1>3. CASE MainDrained
  BY <1>3 DEF MainDrained, ThreadInv, Yielding
<1>4. CASE BatchThrows
  BY <1>4 DEF BatchThrows, ThreadInv, Yielding
<1>5. CASE AbortDone
  BY <1>5 DEF AbortDone, ThreadInv, Yielding
<1>6. CASE EndUpdate
  BY <1>6 DEF EndUpdate, ThreadInv, Yielding
<1>7. CASE ShiftTimer
  BY <1>7 DEF ShiftTimer, ThreadInv, Yielding
<1>8. CASE StopWorker
  BY <1>8 DEF StopWorker, ThreadInv, Yielding
<1>9. CASE JoinWorker
  BY <1>9 DEF JoinWorker, ThreadInv, Yielding
<1>10. CASE WorkEnds
  BY <1>10 DEF WorkEnds, ThreadInv, Yielding
<1>11. CASE YieldBegin
  BY <1>11 DEF YieldBegin, ThreadInv, Yielding
<1>12. CASE YieldNotify
  BY <1>12 DEF YieldNotify, ThreadInv, Yielding
<1>13. CASE MainLaunches
  BY <1>13 DEF MainLaunches, Handles, ThreadInv, Yielding
<1>14. CASE MainRejects
  BY <1>14 DEF MainRejects, Handles, ThreadInv, Yielding
<1>15. CASE MainAnswers
  BY <1>15 DEF MainAnswers, Handles, ThreadInv, Yielding
<1>16. CASE MainNextResponse
  BY <1>16 DEF MainNextResponse, Handles, ThreadInv, Yielding
<1>17. CASE MainDefers
  BY <1>17, Notified DEF MainDefers, Handles
<1>18. CASE MainCancels
  BY <1>18, Notified DEF MainCancels, Handles, PopDeferred
<1>19. CASE UpdateSlots
  BY <1>19, Notified DEF UpdateSlots, Post
<1>20. CASE FinishSlot \/ AbortSlot
  <2>1. mpc \in {"batch", "abort"} /\ NotifyOne
    BY <1>20 DEF FinishSlot, AbortSlot, Released, PopDeferred
  <2>2. UNCHANGED <<mpc, wpc, busy, yielding, running, stop, req_stop_sleeping, sleeping, cpc, cv_worker>>
    BY <1>20 DEF FinishSlot, AbortSlot, Released
  <2> QED
    BY <2>1, <2>2, Notified
<1>21. CASE YieldEnd
  BY <1>21, ServerQueueAssumption DEF YieldEnd, YieldReturns, NotifyAll, Threads, Http, ThreadInv, Yielding
<1>22. CASE YieldWakes
  BY <1>22, ServerQueueAssumption DEF YieldWakes, YieldReturns, ThreadInv, Yielding, Threads, Http
<1>23. CASE IdleCheck
  BY <1>23, ServerQueueAssumption DEF IdleCheck, MayLoop, ThreadInv, Yielding, Http
<1>24. CASE IdleTimeout
  BY <1>24 DEF IdleTimeout, ThreadInv, Yielding
<1>25. CASE IdleWakes
  BY <1>25, ServerQueueAssumption DEF IdleWakes, MayLoop, ThreadInv, Yielding, Http
<1>26. CASE SleepWakes
  BY <1>26, ServerQueueAssumption DEF SleepWakes, NotifyAll, ThreadInv, Yielding, Http
<1>27. CASE StopNotify
  BY <1>27 DEF StopNotify, NotifyAll
<1> QED
  BY <1>1, <1>2, <1>3, <1>4, <1>5, <1>6, <1>7, <1>8, <1>9, <1>10, <1>11, <1>12, <1>13, <1>14, <1>15, <1>16, <1>17, <1>18, <1>19, <1>20, <1>21, <1>22, <1>23, <1>24, <1>25, <1>26, <1>27 DEF MainStep

LEMMA WaitWorker == ASSUME Inv, WorkerStep PROVE WaitInv'
<1> USE DEF Inv, WaitInv
<1>1. CASE WorkerTakes
  BY <1>1 DEF WorkerTakes, ThreadInv, WorkerBusy
<1>2. CASE WorkerDrained
  BY <1>2 DEF WorkerDrained, ThreadInv, WorkerBusy
<1>3. CASE WorkerAnswers
  BY <1>3 DEF WorkerAnswers, ThreadInv, WorkerBusy
<1>4. CASE WorkerThrows
  BY <1>4 DEF WorkerThrows, ThreadInv, WorkerBusy
<1>5. CASE WorkerDeclines
  BY <1>5 DEF WorkerDeclines, ThreadInv, WorkerBusy
<1>6. CASE WorkerWaits
  BY <1>6 DEF WorkerWaits, Yielding, ThreadInv
<1>7. CASE WorkerChecks
  BY <1>7, ServerQueueAssumption DEF WorkerChecks, MayLoop, Http, ThreadInv, WorkerBusy
<1>8. CASE WorkerWakes
  BY <1>8, ServerQueueAssumption DEF WorkerWakes, MayLoop, Http, ThreadInv, WorkerBusy
<1>9. CASE WorkerSignals
  BY <1>9 DEF WorkerSignals
<1>10. CASE WorkerNotifies
  BY <1>10 DEF WorkerNotifies, NotifyAll
<1> QED
  BY <1>1, <1>2, <1>3, <1>4, <1>5, <1>6, <1>7, <1>8, <1>9, <1>10 DEF WorkerStep

LEMMA WaitHttp == ASSUME Inv, NEW c \in Http, HttpStep(c) PROVE WaitInv'
<1> USE DEF Inv, WaitInv
<1>1. CASE AwaitAwake(c)
  <2>1. c \notin {"main", "worker"}
    BY ServerQueueAssumption DEF Http
  <2>2. CASE ~sleeping
    BY <1>1, <2>1, <2>2 DEF AwaitAwake, TypeOK
  <2>3. CASE sleeping
    <3>1. ~req_stop_sleeping => "worker" \notin cv_tasks /\ \A t \in cv_tasks : t = "main"
      BY <2>3 DEF SleepInv, ThreadInv, AfterSleep, Yielding, TypeOK, Threads
    <3>2. "main" \in cv_tasks' => "main" \in cv_tasks /\ req_stop_sleeping
      BY <1>1, <2>1, <2>3, <3>1 DEF AwaitAwake
    <3>3. cv_tasks' \subseteq cv_tasks \cup {c}
      BY <1>1, <2>3 DEF AwaitAwake
    <3>4. mpc = "asleep" /\ req_stop_sleeping => "main" \notin cv_tasks
      OBVIOUS
    <3>5. "main" \notin cv_tasks'
      BY <2>3, <3>2, <3>4 DEF ThreadInv, AfterSleep
    <3> QED
      BY <1>1, <2>1, <2>3, <3>3, <3>5 DEF AwaitAwake, TypeOK
  <2> QED
    BY <2>2, <2>3
<1>2. CASE AwakeAgain(c)
  BY <1>2, ServerQueueAssumption DEF AwakeAgain, TypeOK, SleepInv, Http
<1>3. CASE ProbeStarts(c)
  BY <1>3 DEF ProbeStarts, TypeOK
<1>4. CASE GetNewId(c)
  BY <1>4 DEF GetNewId, TypeOK
<1>5. CASE PostRequest(c)
  BY <1>5, Notified DEF PostRequest, Post, TypeOK
<1>6. CASE Receive(c)
  BY <1>6 DEF Receive, Leave, TypeOK
<1>7. CASE ReceiveError(c)
  BY <1>7, Notified DEF ReceiveError, Leave, PostCancel, TypeOK
<1>8. CASE StopReading(c)
  BY <1>8, Notified DEF StopReading, Leave, PostCancel, TypeOK
<1> QED
  BY <1>1, <1>2, <1>3, <1>4, <1>5, <1>6, <1>7, <1>8 DEF HttpStep

LEMMA WaitOther == ASSUME Inv, ElapseIdle \/ Terminate PROVE WaitInv'
<1>1. CASE ElapseIdle
  BY <1>1 DEF Inv, WaitInv, ElapseIdle
<1>2. CASE Terminate
  BY <1>2 DEF Inv, WaitInv, Terminate, NotifyAll
<1> QED
  BY <1>1, <1>2

LEMMA SleepStep == ASSUME PromptWakeups, Inv, [Next]_vars PROVE SleepInv'
<1> USE DEF Inv, SleepInv
<1>1. CASE MainStep
  <2>1. CASE IdleCheck
    BY <2>1 DEF IdleCheck, ThreadInv, AfterSleep
  <2>2. CASE SleepWakes
    BY <2>2 DEF SleepWakes
  <2> DEFINE Quiet == UNCHANGED <<cpc, sleeping, req_stop_sleeping>> /\ (idle' => idle)
  <2>3. CASE FinishSlot \/ AbortSlot
    <3>1. Quiet
      BY <2>3 DEF FinishSlot, AbortSlot, Released, PopDeferred
    <3> QED
      BY <3>1
  <2>4. CASE StartLoop
    <3>1. Quiet
      BY <2>4 DEF StartLoop
    <3> QED
      BY <3>1
  <2>5. CASE MainTakes
    <3>1. Quiet
      BY <2>5 DEF MainTakes
    <3> QED
      BY <3>1
  <2>6. CASE MainDrained
    <3>1. Quiet
      BY <2>6 DEF MainDrained
    <3> QED
      BY <3>1
  <2>7. CASE MainLaunches
    <3>1. Quiet
      BY <2>7 DEF MainLaunches, Handles
    <3> QED
      BY <3>1
  <2>8. CASE MainDefers
    <3>1. Quiet
      BY <2>8 DEF MainDefers, Handles
    <3> QED
      BY <3>1
  <2>9. CASE MainRejects
    <3>1. Quiet
      BY <2>9 DEF MainRejects, Handles
    <3> QED
      BY <3>1
  <2>10. CASE MainAnswers
    <3>1. Quiet
      BY <2>10 DEF MainAnswers, Handles
    <3> QED
      BY <3>1
  <2>11. CASE MainCancels
    <3>1. Quiet
      BY <2>11 DEF MainCancels, Handles, PopDeferred
    <3> QED
      BY <3>1
  <2>12. CASE MainNextResponse
    <3>1. Quiet
      BY <2>12 DEF MainNextResponse, Handles
    <3> QED
      BY <3>1
  <2>13. CASE UpdateSlots
    <3>1. Quiet
      BY <2>13 DEF UpdateSlots, Post
    <3> QED
      BY <3>1
  <2>14. CASE BatchThrows
    <3>1. Quiet
      BY <2>14 DEF BatchThrows
    <3> QED
      BY <3>1
  <2>15. CASE AbortDone
    <3>1. Quiet
      BY <2>15 DEF AbortDone
    <3> QED
      BY <3>1
  <2>16. CASE EndUpdate
    <3>1. Quiet
      BY <2>16 DEF EndUpdate
    <3> QED
      BY <3>1
  <2>17. CASE ShiftTimer
    <3>1. Quiet
      BY <2>17 DEF ShiftTimer
    <3> QED
      BY <3>1
  <2>18. CASE YieldBegin
    <3>1. Quiet
      BY <2>18 DEF YieldBegin
    <3> QED
      BY <3>1
  <2>19. CASE YieldNotify
    <3>1. Quiet
      BY <2>19 DEF YieldNotify
    <3> QED
      BY <3>1
  <2>20. CASE WorkEnds
    <3>1. Quiet
      BY <2>20 DEF WorkEnds
    <3> QED
      BY <3>1
  <2>21. CASE YieldEnd
    <3>1. Quiet
      BY <2>21 DEF YieldEnd, YieldReturns
    <3> QED
      BY <3>1
  <2>22. CASE YieldWakes
    <3>1. Quiet
      BY <2>22 DEF YieldWakes, YieldReturns
    <3> QED
      BY <3>1
  <2>23. CASE IdleTimeout
    <3>1. Quiet
      BY <2>23 DEF IdleTimeout
    <3> QED
      BY <3>1
  <2>24. CASE IdleWakes
    <3>1. Quiet
      BY <2>24 DEF IdleWakes
    <3> QED
      BY <3>1
  <2>25. CASE StopWorker
    <3>1. Quiet
      BY <2>25 DEF StopWorker
    <3> QED
      BY <3>1
  <2>26. CASE StopNotify
    <3>1. Quiet
      BY <2>26 DEF StopNotify
    <3> QED
      BY <3>1
  <2>27. CASE JoinWorker
    <3>1. Quiet
      BY <2>27 DEF JoinWorker
    <3> QED
      BY <3>1
  <2> QED
    BY <1>1, <2>1, <2>2, <2>3, <2>4, <2>5, <2>6, <2>7, <2>8, <2>9, <2>10, <2>11, <2>12, <2>13, <2>14, <2>15, <2>16, <2>17, <2>18, <2>19, <2>20, <2>21, <2>22, <2>23, <2>24, <2>25, <2>26, <2>27 DEF MainStep
<1>2. CASE WorkerStep
  <2>1. UNCHANGED <<cpc, sleeping, req_stop_sleeping, idle>>
    BY <1>2 DEF WorkerStep, WorkerWaits, WorkerTakes, WorkerDrained, WorkerAnswers, WorkerThrows,
       WorkerDeclines, WorkerChecks, WorkerWakes, WorkerSignals, WorkerNotifies
  <2> QED
    BY <2>1
<1>3. CASE \E c \in Http : HttpStep(c)
  <2> PICK c \in Http : HttpStep(c)
    BY <1>3
  <2> USE DEF TypeOK
  <2>1. CASE AwaitAwake(c)
    BY <2>1 DEF AwaitAwake
  <2>2. CASE AwakeAgain(c)
    BY <2>2 DEF AwakeAgain
  <2>3. CASE ProbeStarts(c) \/ GetNewId(c)
    BY <2>3 DEF ProbeStarts, GetNewId
  <2>4. CASE PostRequest(c)
    BY <2>4 DEF PostRequest, Post
  <2>5. CASE Receive(c)
    BY <2>5 DEF Receive, Leave
  <2>6. CASE ReceiveError(c) \/ StopReading(c)
    BY <2>6 DEF ReceiveError, StopReading, Leave, PostCancel
  <2> QED
    BY <2>1, <2>2, <2>3, <2>4, <2>5, <2>6 DEF HttpStep
<1>4. CASE ElapseIdle
  BY <1>4 DEF ElapseIdle, WaitInv, ThreadInv, AfterSleep
<1>5. CASE Terminate
  BY <1>5 DEF Terminate
<1>6. CASE UNCHANGED vars
  BY <1>6 DEF vars
<1> QED
  BY <1>1, <1>2, <1>3, <1>4, <1>5, <1>6 DEF Next

LEMMA InvCorrect == ASSUME PromptWakeups PROVE Spec => []Inv
<1>1. Init => WaitInv /\ SleepInv
  BY DEF Init, WaitInv, SleepInv
<1>2. Inv /\ [Next]_vars => WaitInv' /\ SleepInv'
  <2> SUFFICES ASSUME Inv, [Next]_vars PROVE WaitInv' /\ SleepInv'
    OBVIOUS
  <2>1. CASE UNCHANGED vars
    BY <2>1 DEF vars, Inv, WaitInv, SleepInv
  <2>2. CASE Next
    BY <2>2, WaitMain, WaitWorker, WaitHttp, WaitOther, SleepStep DEF Next
  <2> QED
    BY <2>1, <2>2
<1> QED
  BY TypeCorrect, ThreadCorrect, <1>1, <1>2, PTL DEF Spec, Inv

(* No wakeup is lost on either condition variable, although condition_tasks *)
(* is shared by the main thread, the worker and the HTTP threads and posts  *)
(* wake only one of them.                                                   *)
THEOREM NoWakeupLost == ASSUME PromptWakeups PROVE Spec => []NoLostWakeup
<1>1. Inv => NoLostWakeup
  BY DEF Inv, WaitInv, NoLostWakeup
<1> QED
  BY InvCorrect, <1>1, PTL

(* When the first client asks the server to stop sleeping, the main thread  *)
(* is the only one that notify_one can reach.                               *)
THEOREM OnlyMainNotified == ASSUME PromptWakeups PROVE Spec => []OnlyMainAwaitsRequest
<1>1. Inv => OnlyMainAwaitsRequest
  <2> SUFFICES ASSUME Inv, sleeping, ~req_stop_sleeping, NEW t \in cv_tasks PROVE t = "main"
    BY DEF OnlyMainAwaitsRequest
  <2>1. t \in Threads
    BY DEF Inv, TypeOK
  <2>2. t # "worker"
    BY DEF Inv, ThreadInv, WaitInv, AfterSleep, Yielding
  <2>3. t \notin Http
    BY DEF Inv, WaitInv, SleepInv
  <2> QED
    BY <2>1, <2>2, <2>3 DEF Threads
<1> QED
  BY InvCorrect, <1>1, PTL

----------------------------------------------------------------------------
(* The main loop keeps turning while a slot is generating.                  *)

HasNext(q) == \E k \in 1 .. Len(q) : q[k] = NextResponse

AfterUpdate == Yielding \cup {"batch", "abort", "updated", "idle"}

(* The NEXT_RESPONSE task that an update with busy slots posts is in the    *)
(* queue, in the worker's hands or among the declined tasks until the main  *)
(* thread takes tasks again.                                                *)
LoopInv ==
    /\ mpc \in AfterUpdate /\ slots # {} =>
          HasNext(queue_tasks) \/ HasNext(queue_tasks_unhandled) \/ HasNext(worker_task)
    /\ mpc \in {"idleWait", "asleep"} => slots = {}

----------------------------------------------------------------------------
(* What the deque operations do to it.                                      *)

LEMMA HasNextConcat ==
    ASSUME NEW p \in Seq(Tasks), NEW q \in Seq(Tasks)
    PROVE  HasNext(p \o q) <=> HasNext(p) \/ HasNext(q)
<1>1. Len(p \o q) = Len(p) + Len(q) /\ Len(p) \in Nat /\ Len(q) \in Nat
  BY ConcatProperties, LenProperties
<1>2. ASSUME NEW k \in 1 .. Len(p) PROVE k \in 1 .. Len(p \o q) /\ (p \o q)[k] = p[k]
  BY <1>1, ConcatProperties
<1>3. ASSUME NEW k \in 1 .. Len(q)
      PROVE  k + Len(p) \in 1 .. Len(p \o q) /\ (p \o q)[k + Len(p)] = q[k]
  BY <1>1, ConcatProperties
<1>4. ASSUME NEW k \in 1 .. Len(p \o q), k > Len(p)
      PROVE  k - Len(p) \in 1 .. Len(q) /\ (p \o q)[k] = q[k - Len(p)]
  BY <1>1, <1>4, ConcatProperties
<1>5. ASSUME HasNext(p \o q) PROVE HasNext(p) \/ HasNext(q)
  <2>1. PICK k \in 1 .. Len(p \o q) : (p \o q)[k] = NextResponse
    BY <1>5 DEF HasNext
  <2>2. CASE k > Len(p)
    BY <2>1, <2>2, <1>4 DEF HasNext
  <2>3. CASE ~(k > Len(p))
    <3>1. k \in 1 .. Len(p)
      BY <2>1, <2>3, <1>1
    <3> QED
      BY <2>1, <3>1, <1>2 DEF HasNext
  <2> QED
    BY <2>2, <2>3
<1>6. HasNext(p) => HasNext(p \o q)
  BY <1>2 DEF HasNext
<1>7. HasNext(q) => HasNext(p \o q)
  <2> SUFFICES ASSUME NEW k \in 1 .. Len(q), q[k] = NextResponse PROVE HasNext(p \o q)
    BY DEF HasNext
  <2>1. k + Len(p) \in 1 .. Len(p \o q) /\ (p \o q)[k + Len(p)] = NextResponse
    BY <1>3
  <2> QED
    BY <2>1 DEF HasNext
<1> QED
  BY <1>5, <1>6, <1>7

LEMMA HasNextOne ==
    ASSUME NEW t \in Tasks
    PROVE  <<t>> \in Seq(Tasks) /\ (HasNext(<<t>>) <=> t = NextResponse)
<1>1. Len(<<t>>) = 1 /\ <<t>>[1] = t
  OBVIOUS
<1> QED
  BY <1>1 DEF HasNext

(* cleanup_pending_task never removes it: it belongs to no request.         *)
LEMMA HasNextWithout ==
    ASSUME NEW q \in Seq(Tasks), NEW i \in Nat, HasNext(q)
    PROVE  HasNext(Without(q, i))
<1>1. CASE \E k \in DOMAIN q : q[k].id = i
  <2> DEFINE k == CHOOSE k \in DOMAIN q : q[k].id = i
  <2>1. k \in 1 .. Len(q) /\ q[k].id = i
    BY <1>1
  <2>2. Without(q, i) = SubSeq(q, 1, k - 1) \o SubSeq(q, k + 1, Len(q))
    BY <1>1 DEF Without, RemoveAt
  <2> HIDE DEF k
  <2>3. PICK j \in 1 .. Len(q) : q[j] = NextResponse
    BY DEF HasNext
  <2>4. j # k
    BY <2>1, <2>3 DEF NextResponse, Request, NoId
  <2>5. /\ SubSeq(q, 1, k - 1) \in Seq(Tasks)
        /\ Len(SubSeq(q, 1, k - 1)) = k - 1
        /\ \A l \in 1 .. k - 1 : SubSeq(q, 1, k - 1)[l] = q[l]
    <3>1. \A l \in 1 .. (k - 1) : q[l] \in Tasks
      BY <2>1, ElementOfSeq
    <3> QED
      BY <2>1, <3>1, SubSeqProperties
  <2>6. /\ SubSeq(q, k + 1, Len(q)) \in Seq(Tasks)
        /\ Len(SubSeq(q, k + 1, Len(q))) = Len(q) - k
        /\ \A l \in 1 .. Len(q) - k : SubSeq(q, k + 1, Len(q))[l] = q[k + l]
    <3>1. \A l \in (k + 1) .. Len(q) : q[l] \in Tasks
      BY <2>1, ElementOfSeq
    <3> QED
      BY <2>1, <3>1, SubSeqProperties
  <2>7. ASSUME j < k PROVE HasNext(SubSeq(q, 1, k - 1))
    <3>1. j \in 1 .. k - 1
      BY <2>1, <2>3, <2>7
    <3> QED
      BY <2>3, <2>5, <3>1 DEF HasNext
  <2>8. ASSUME j > k PROVE HasNext(SubSeq(q, k + 1, Len(q)))
    <3>1. j - k \in 1 .. Len(q) - k /\ k + (j - k) = j
      BY <2>1, <2>3, <2>8
    <3> QED
      BY <2>3, <2>6, <3>1 DEF HasNext
  <2>9. HasNext(SubSeq(q, 1, k - 1)) \/ HasNext(SubSeq(q, k + 1, Len(q)))
    BY <2>1, <2>3, <2>4, <2>7, <2>8
  <2> DEFINE a == SubSeq(q, 1, k - 1)
             b == SubSeq(q, k + 1, Len(q))
  <2>10. a \in Seq(Tasks) /\ b \in Seq(Tasks) /\ (HasNext(a) \/ HasNext(b))
    BY <2>5, <2>6, <2>9
  <2>11. Without(q, i) = a \o b
    BY <2>2
  <2> HIDE DEF a, b
  <2> QED
    BY <2>10, <2>11, HasNextConcat
<1>2. CASE ~ \E k \in DOMAIN q : q[k].id = i
  BY <1>2 DEF Without
<1> QED
  BY <1>1, <1>2

LEMMA HasNextPush ==
    ASSUME NEW q \in Seq(Tasks), NEW t \in Tasks, HasNext(q) \/ t = NextResponse
    PROVE  HasNext(<<t>> \o q) /\ HasNext(Append(q, t))
<1>1. HasNext(<<t>> \o q)
  BY HasNextOne, HasNextConcat
<1>2. HasNext(q \o <<t>>)
  BY HasNextOne, HasNextConcat
<1>3. Append(q, t) = q \o <<t>>
  BY AppendIsConcat
<1> QED
  BY <1>1, <1>2, <1>3

(* Taking the head splits the deque.                                        *)
LEMMA HasNextPop ==
    ASSUME NEW q \in Seq(Tasks), q # <<>>, HasNext(q)
    PROVE  HasNext(<<Head(q)>>) \/ HasNext(Tail(q))
<1>1. Head(q) \in Tasks /\ Tail(q) \in Seq(Tasks) /\ q = <<Head(q)>> \o Tail(q)
  BY HeadTailProperties, SMT
<1>2. PICK t \in Tasks, r \in Seq(Tasks) : t = Head(q) /\ r = Tail(q) /\ q = <<t>> \o r
  BY <1>1
<1>3. <<t>> \in Seq(Tasks)
  OBVIOUS
<1>4. HasNext(<<t>> \o r)
  BY <1>2
<1> QED
  BY <1>2, <1>3, <1>4, HasNextConcat

LEMMA HasNextEmpty == ~HasNext(<<>>)
BY DEF HasNext

----------------------------------------------------------------------------
(* LoopInv is inductive.                                                    *)

USE DEF queueVars, sleepVars, workerVars, condVars, mainVars, workerLocal, clientVars, runVars,
        others, allButMpc, WorkerFrame, HttpFrame

LEMMA PostKeepsNext ==
    ASSUME QueuesOK, NEW t \in Tasks, NEW front \in BOOLEAN, Post(t, front),
           HasNext(queue_tasks) \/ t = NextResponse
    PROVE  HasNext(queue_tasks')
BY HasNextPush DEF QueuesOK, Post

LEMMA PopDeferredKeepsNext ==
    ASSUME QueuesOK, PopDeferred, HasNext(queue_tasks)
    PROVE  HasNext(queue_tasks')
<1>1. CASE queue_tasks_deferred = <<>>
  BY <1>1 DEF PopDeferred
<1>2. CASE queue_tasks_deferred # <<>>
  BY <1>2, PopType, HasNextPush DEF PopDeferred, QueuesOK
<1> QED
  BY <1>1, <1>2

LEMMA LoopMain == ASSUME TypeOK, ThreadInv, LoopInv, MainStep PROVE LoopInv'
<1> USE DEF LoopInv, AfterUpdate, Yielding
<1>q. QueuesOK
  BY DEF QueuesOK, TypeOK
<1>1. CASE StartLoop
  BY <1>1 DEF StartLoop
<1>2. CASE MainTakes
  BY <1>2 DEF MainTakes
<1>3. CASE MainDrained
  BY <1>3 DEF MainDrained
<1>4. CASE MainLaunches \/ MainDefers \/ MainRejects \/ MainAnswers \/ MainCancels
             \/ MainNextResponse
  BY <1>4 DEF MainLaunches, MainDefers, MainRejects, MainAnswers, MainCancels, MainNextResponse,
             Handles
<1>5. CASE UpdateSlots
  <2>1. CASE slots = {}
    BY <1>5, <2>1 DEF UpdateSlots, mainVars
  <2>2. CASE slots # {}
    <3>1. Post(NextResponse, FALSE) /\ NextResponse \in Tasks /\ mpc' = "batch"
      BY <1>5, <2>2, TaskType DEF UpdateSlots
    <3>2. HasNext(queue_tasks')
      BY <1>q, <3>1, PostKeepsNext
    <3> QED
      BY <3>1, <3>2
  <2> QED
    BY <2>1, <2>2
<1>6. ASSUME NEW i \in slots, NEW e \in BOOLEAN, Released(i, e), mpc \in {"batch", "abort"}
      PROVE  LoopInv'
  <2>1. /\ PopDeferred /\ slots' \subseteq slots /\ mpc' = mpc
        /\ queue_tasks_unhandled' = queue_tasks_unhandled /\ worker_task' = worker_task
    BY <1>6 DEF Released, PopDeferred, others, workerLocal
  <2>2. HasNext(queue_tasks) => HasNext(queue_tasks')
    BY <1>q, <2>1, PopDeferredKeepsNext
  <2> QED
    BY <1>6, <2>1, <2>2
<1>7. CASE FinishSlot
  BY <1>6, <1>7, ServerQueueAssumption DEF FinishSlot
<1>8. CASE AbortSlot
  BY <1>6, <1>8 DEF AbortSlot
<1>9. CASE BatchThrows \/ EndUpdate \/ ShiftTimer \/ AbortDone
  BY <1>9 DEF BatchThrows, EndUpdate, ShiftTimer, AbortDone, allButMpc, queueVars, mainVars, others,
             workerLocal
<1>10. CASE YieldBegin \/ YieldNotify \/ WorkEnds
  BY <1>10 DEF YieldBegin, YieldNotify, WorkEnds, queueVars, mainVars, others, workerLocal
<1>11. ASSUME YieldReturns, UNCHANGED <<slots, others>>, mpc \in Yielding PROVE LoopInv'
  <2>1. /\ queue_tasks' = queue_tasks_unhandled \o queue_tasks
        /\ slots' = slots /\ worker_task' = worker_task /\ mpc' \in {"abort", "batch"}
    BY <1>11 DEF YieldReturns, Requeued, others, workerLocal
  <2>2. HasNext(queue_tasks) \/ HasNext(queue_tasks_unhandled) => HasNext(queue_tasks')
    BY <1>q, <2>1, HasNextConcat DEF QueuesOK
  <2> QED
    BY <1>11, <2>1, <2>2
<1>12. CASE YieldEnd
  <2>1. CASE busy
    BY <1>12, <2>1 DEF YieldEnd, others, workerLocal
  <2>2. CASE ~busy
    BY <1>11, <1>12, <2>2 DEF YieldEnd
  <2> QED
    BY <2>1, <2>2
<1>13. CASE YieldWakes
  <2>1. CASE busy
    BY <1>13, <2>1 DEF YieldWakes, others, workerLocal
  <2>2. CASE ~busy
    BY <1>11, <1>13, <2>2 DEF YieldWakes
  <2> QED
    BY <2>1, <2>2
<1>14. CASE IdleCheck
  <2>1. mpc = "idle" /\ slots' = slots
    BY <1>14 DEF IdleCheck, mainVars
  <2>2. CASE MayLoop
    BY <1>14, <2>2 DEF IdleCheck
  <2>3. CASE ~MayLoop
    <3>1. queue_tasks = <<>> /\ queue_tasks_unhandled = <<>>
      BY <2>1, <2>3 DEF MayLoop, ThreadInv
    <3>2. worker_task = <<>>
      <4>1. wpc # "handle"
        BY <2>1 DEF ThreadInv, WorkerBusy
      <4>2. worker_task \in Seq(Tasks) /\ Len(worker_task) = 0
        BY <4>1 DEF TypeOK
      <4> QED
        BY <4>2, EmptySeq
    <3>3. slots = {}
      BY <2>1, <3>1, <3>2, HasNextEmpty
    <3> QED
      BY <1>14, <2>1, <2>3, <3>3 DEF IdleCheck
  <2> QED
    BY <2>2, <2>3
<1>15. CASE IdleTimeout \/ IdleWakes \/ SleepWakes
  BY <1>15 DEF IdleTimeout, IdleWakes, SleepWakes, mainVars
<1>16. CASE StopWorker \/ StopNotify \/ JoinWorker
  BY <1>16 DEF StopWorker, StopNotify, JoinWorker
<1> QED
  BY <1>1, <1>2, <1>3, <1>4, <1>5, <1>7, <1>8, <1>9, <1>10, <1>12, <1>13, <1>14, <1>15, <1>16
     DEF MainStep

(* Outside the handling of a task the worker holds none.                    *)
LEMMA HandsEmpty == ASSUME TypeOK, wpc # "handle" PROVE worker_task = <<>>
<1>1. worker_task \in Seq(Tasks) /\ Len(worker_task) = 0
  BY DEF TypeOK
<1> QED
  BY <1>1, EmptySeq

(* The worker drops only the read-only tasks it has answered.               *)
LEMMA AnsweredIsNotNext ==
    ASSUME TypeOK, wpc = "handle", ReadOnly(worker_task[1])
    PROVE  ~HasNext(worker_task)
<1>1. Len(worker_task) = 1
  BY DEF TypeOK
<1>2. worker_task[1] # NextResponse
  BY DEF ReadOnly, NextResponse, Request
<1> QED
  BY <1>1, <1>2 DEF HasNext

LEMMA LoopWorker == ASSUME TypeOK, ThreadInv, LoopInv, WorkerStep PROVE LoopInv'
<1> USE DEF LoopInv
<1>q. QueuesOK
  BY DEF QueuesOK, TypeOK
<1>1. CASE WorkerTakes
  <2>1. HasNext(queue_tasks) => HasNext(worker_task') \/ HasNext(queue_tasks')
    BY <1>1, <1>q, HasNextPop DEF WorkerTakes, QueuesOK
  <2>2. ~HasNext(worker_task)
    BY <1>1, HandsEmpty, HasNextEmpty DEF WorkerTakes
  <2>3. UNCHANGED <<mpc, slots, queue_tasks_unhandled>>
    BY <1>1 DEF WorkerTakes
  <2> QED
    BY <2>1, <2>2, <2>3
<1>2. CASE WorkerAnswers \/ WorkerThrows
  <2>1. ~HasNext(worker_task)
    BY <1>2, AnsweredIsNotNext DEF WorkerAnswers, WorkerThrows
  <2>2. UNCHANGED <<mpc, slots, queue_tasks, queue_tasks_unhandled>>
    BY <1>2 DEF WorkerAnswers, WorkerThrows
  <2> QED
    BY <2>1, <2>2
<1>3. CASE WorkerDeclines
  <2>1. HasNext(queue_tasks_unhandled') <=> HasNext(queue_tasks_unhandled) \/ HasNext(worker_task)
    <3>1. worker_task \in Seq(Tasks) /\ queue_tasks_unhandled \in Seq(Tasks)
      BY DEF TypeOK
    <3> QED
      BY <1>3, <3>1, HasNextConcat DEF WorkerDeclines
  <2>2. UNCHANGED <<mpc, slots, queue_tasks>>
    BY <1>3 DEF WorkerDeclines
  <2> QED
    BY <2>1, <2>2
<1>4. CASE WorkerWaits \/ WorkerDrained \/ WorkerChecks \/ WorkerWakes \/ WorkerSignals
             \/ WorkerNotifies
  <2>1. UNCHANGED <<mpc, slots, queue_tasks, queue_tasks_unhandled, worker_task>>
    BY <1>4 DEF WorkerWaits, WorkerDrained, WorkerChecks, WorkerWakes, WorkerSignals,
                WorkerNotifies
  <2> QED
    BY <2>1
<1> QED
  BY <1>1, <1>2, <1>3, <1>4 DEF WorkerStep

(* A reader that stops removes tasks of its own request only.               *)
LEMMA CancelKeepsNext ==
    ASSUME QueuesOK, NEW i \in Nat, PostCancel(i)
    PROVE  /\ HasNext(queue_tasks) => HasNext(queue_tasks')
           /\ HasNext(queue_tasks_unhandled) => HasNext(queue_tasks_unhandled')
<1>1. Without(queue_tasks, i) \in Seq(Tasks) /\ Cancel(i) \in Tasks
  BY WithoutType, TaskType DEF QueuesOK
<1>2. HasNext(queue_tasks) => HasNext(Without(queue_tasks, i))
  BY HasNextWithout DEF QueuesOK
<1>3. HasNext(queue_tasks_unhandled) => HasNext(Without(queue_tasks_unhandled, i))
  BY HasNextWithout DEF QueuesOK
<1>4. queue_tasks' = <<Cancel(i)>> \o Without(queue_tasks, i)
      /\ queue_tasks_unhandled' = Without(queue_tasks_unhandled, i)
  BY DEF PostCancel
<1> QED
  BY <1>1, <1>2, <1>3, <1>4, HasNextPush

LEMMA LoopHttp == ASSUME TypeOK, LoopInv, NEW c \in Http, HttpStep(c) PROVE LoopInv'
<1> USE DEF LoopInv
<1>q. QueuesOK
  BY DEF QueuesOK, TypeOK
<1>1. UNCHANGED <<mpc, slots, worker_task>>
  BY DEF HttpStep, AwaitAwake, AwakeAgain, ProbeStarts, GetNewId, PostRequest, Receive,
         ReceiveError, StopReading, Leave
<1>2. CASE AwaitAwake(c) \/ AwakeAgain(c) \/ ProbeStarts(c) \/ GetNewId(c) \/ Receive(c)
  BY <1>1, <1>2 DEF AwaitAwake, AwakeAgain, ProbeStarts, GetNewId, Receive
<1>3. CASE PostRequest(c)
  <2>1. mine[c] \in Nat
    BY <1>3 DEF PostRequest, TypeOK
  <2>2. PICK t \in Tasks, front \in BOOLEAN : Post(t, front)
    BY <1>3, <2>1, TaskType DEF PostRequest
  <2>3. /\ HasNext(queue_tasks) => HasNext(queue_tasks')
        /\ queue_tasks_unhandled' = queue_tasks_unhandled
    BY <1>q, <2>2, PostKeepsNext DEF Post
  <2> QED
    BY <1>1, <2>3
<1>4. CASE ReceiveError(c) \/ StopReading(c)
  <2>1. mine[c] \in Nat /\ PostCancel(mine[c])
    BY <1>4 DEF ReceiveError, StopReading, TypeOK
  <2> QED
    BY <1>1, <1>q, <2>1, CancelKeepsNext
<1> QED
  BY <1>2, <1>3, <1>4 DEF HttpStep

(* The main loop neither waits on an empty queue nor goes to sleep while a  *)
(* slot is generating, whatever the worker declines during the yields and   *)
(* whatever the HTTP threads cancel meanwhile.                              *)
THEOREM LoopKeepsTurning == Spec => []LoopTurns
<1>1. Init => LoopInv
  BY DEF Init, LoopInv, AfterUpdate, Yielding
<1>2. TypeOK /\ ThreadInv /\ LoopInv /\ [Next]_vars => LoopInv'
  <2> SUFFICES ASSUME TypeOK, ThreadInv, LoopInv, [Next]_vars PROVE LoopInv'
    OBVIOUS
  <2>1. CASE ElapseIdle \/ Terminate \/ UNCHANGED vars
    <3>1. UNCHANGED <<mpc, slots, queue_tasks, queue_tasks_unhandled, worker_task>>
      BY <2>1 DEF ElapseIdle, Terminate, vars
    <3> QED
      BY <3>1 DEF LoopInv
  <2> QED
    BY <2>1, LoopMain, LoopWorker, LoopHttp DEF Next
<1>3. LoopInv => LoopTurns
  BY DEF LoopInv, LoopTurns
<1> QED
  BY TypeCorrect, ThreadCorrect, <1>1, <1>2, <1>3, PTL DEF Spec

----------------------------------------------------------------------------
(* A task is in one place, once.                                            *)

(* No two tasks of a deque, or of two deques, carry the id of one request.  *)
Once(q)     == \A i, j \in DOMAIN q : q[i].id = q[j].id /\ q[i].id # NoId => i = j
Apart(S, T) == \A t \in S, u \in T : t.id = u.id => t.id = NoId

LEMMA ConcatIs ==
    ASSUME NEW p \in Seq(Tasks), NEW q \in Seq(Tasks)
    PROVE  /\ p \o q \in Seq(Tasks) /\ Len(p) \in Nat /\ Len(q) \in Nat
           /\ DOMAIN (p \o q) = 1 .. Len(p) + Len(q)
           /\ \A k \in DOMAIN p : k \in DOMAIN (p \o q) /\ (p \o q)[k] = p[k]
           /\ \A k \in DOMAIN q : k + Len(p) \in DOMAIN (p \o q) /\ (p \o q)[k + Len(p)] = q[k]
           /\ \A k \in DOMAIN (p \o q) : IF k <= Len(p) THEN k \in DOMAIN p ELSE k - Len(p) \in DOMAIN q
<1>1. Len(p \o q) = Len(p) + Len(q) /\ Len(p) \in Nat /\ Len(q) \in Nat /\ p \o q \in Seq(Tasks)
  BY ConcatProperties, LenProperties
<1>2. DOMAIN p = 1 .. Len(p) /\ DOMAIN q = 1 .. Len(q) /\ DOMAIN (p \o q) = 1 .. Len(p) + Len(q)
  BY <1>1, LenProperties
<1>3. \A k \in 1 .. Len(p) + Len(q) : (p \o q)[k] = IF k <= Len(p) THEN p[k] ELSE q[k - Len(p)]
  BY ConcatProperties
<1> QED
  BY <1>1, <1>2, <1>3

LEMMA SetConcat ==
    ASSUME NEW p \in Seq(Tasks), NEW q \in Seq(Tasks)
    PROVE  ToSet(p \o q) = ToSet(p) \cup ToSet(q)
<1> DEFINE r == p \o q
<1>1. /\ Len(p) \in Nat
      /\ \A k \in DOMAIN p : k \in DOMAIN r /\ r[k] = p[k]
      /\ \A k \in DOMAIN q : k + Len(p) \in DOMAIN r /\ r[k + Len(p)] = q[k]
      /\ \A k \in DOMAIN r : IF k <= Len(p) THEN k \in DOMAIN p ELSE k - Len(p) \in DOMAIN q
      /\ DOMAIN r \subseteq Int
  BY ConcatIs
<1> HIDE DEF r
<1>2. ASSUME NEW k \in DOMAIN r PROVE r[k] \in ToSet(p) \cup ToSet(q)
  <2>1. CASE k <= Len(p)
    BY <1>1, <2>1 DEF ToSet
  <2>2. CASE ~(k <= Len(p))
    <3>1. k - Len(p) \in DOMAIN q /\ (k - Len(p)) + Len(p) = k
      BY <1>1, <2>2
    <3>2. r[k] = q[k - Len(p)]
      BY <1>1, <3>1
    <3> QED
      BY <3>1, <3>2 DEF ToSet
  <2> QED
    BY <2>1, <2>2
<1>3. ToSet(p) \subseteq ToSet(r) /\ ToSet(q) \subseteq ToSet(r)
  BY <1>1 DEF ToSet
<1>4. ToSet(r) \subseteq ToSet(p) \cup ToSet(q)
  BY <1>2 DEF ToSet
<1> QED
  BY <1>3, <1>4 DEF r

LEMMA OnceConcat ==
    ASSUME NEW p \in Seq(Tasks), NEW q \in Seq(Tasks), Once(p), Once(q), Apart(ToSet(p), ToSet(q))
    PROVE  Once(p \o q)
<1> DEFINE r == p \o q
<1>1. /\ Len(p) \in Nat
      /\ \A k \in DOMAIN p : k \in DOMAIN r /\ r[k] = p[k]
      /\ \A k \in DOMAIN q : k + Len(p) \in DOMAIN r /\ r[k + Len(p)] = q[k]
      /\ \A k \in DOMAIN r : IF k <= Len(p) THEN k \in DOMAIN p ELSE k - Len(p) \in DOMAIN q
      /\ DOMAIN r \subseteq Int
  BY ConcatIs
<1> HIDE DEF r
<1>2. ASSUME NEW k \in DOMAIN r
      PROVE  \/ k <= Len(p) /\ k \in DOMAIN p /\ r[k] = p[k] /\ r[k] \in ToSet(p)
             \/ ~(k <= Len(p)) /\ k - Len(p) \in DOMAIN q /\ r[k] = q[k - Len(p)] /\ r[k] \in ToSet(q)
  <2>1. CASE k <= Len(p)
    BY <1>1, <2>1 DEF ToSet
  <2>2. CASE ~(k <= Len(p))
    <3>1. k - Len(p) \in DOMAIN q /\ (k - Len(p)) + Len(p) = k
      BY <1>1, <2>2
    <3>2. r[k] = q[k - Len(p)]
      BY <1>1, <3>1
    <3> QED
      BY <2>2, <3>1, <3>2 DEF ToSet
  <2> QED
    BY <2>1, <2>2
<1>3. SUFFICES ASSUME NEW i \in DOMAIN r, NEW j \in DOMAIN r, r[i].id = r[j].id, r[i].id # NoId
               PROVE  i = j
  BY DEF Once, r
<1>4. CASE i <= Len(p) /\ j <= Len(p)
  BY <1>2, <1>3, <1>4 DEF Once
<1>5. CASE ~(i <= Len(p)) /\ ~(j <= Len(p))
  <2>1. i - Len(p) = j - Len(p)
    BY <1>2, <1>3, <1>5 DEF Once
  <2> QED
    BY <1>1, <2>1
<1>6. CASE i <= Len(p) /\ ~(j <= Len(p))
  BY <1>2, <1>3, <1>6 DEF Apart
<1>7. CASE ~(i <= Len(p)) /\ j <= Len(p)
  BY <1>2, <1>3, <1>7 DEF Apart
<1> QED
  BY <1>4, <1>5, <1>6, <1>7

(* A deque of one task, and a task pushed at either end.                    *)
LEMMA SetOne ==
    ASSUME NEW t \in Tasks
    PROVE  <<t>> \in Seq(Tasks) /\ ToSet(<<t>>) = {t} /\ Once(<<t>>)
<1>1. <<t>> \in Seq(Tasks) /\ DOMAIN <<t>> = {1} /\ <<t>>[1] = t
  OBVIOUS
<1> QED
  BY <1>1 DEF ToSet, Once

LEMMA SetPush ==
    ASSUME NEW q \in Seq(Tasks), NEW t \in Tasks
    PROVE  /\ ToSet(<<t>> \o q) = {t} \cup ToSet(q) /\ ToSet(Append(q, t)) = {t} \cup ToSet(q)
           /\ Once(q) /\ (\A u \in ToSet(q) : u.id = t.id => t.id = NoId)
                  => Once(<<t>> \o q) /\ Once(Append(q, t))
<1>1. <<t>> \in Seq(Tasks) /\ ToSet(<<t>>) = {t} /\ Once(<<t>>)
  BY SetOne
<1>2. Append(q, t) = q \o <<t>>
  BY AppendIsConcat
<1>3. ToSet(<<t>> \o q) = {t} \cup ToSet(q) /\ ToSet(q \o <<t>>) = ToSet(q) \cup {t}
  BY <1>1, SetConcat
<1>4. ASSUME Once(q), \A u \in ToSet(q) : u.id = t.id => t.id = NoId
      PROVE  Once(<<t>> \o q) /\ Once(q \o <<t>>)
  <2>1. Apart({t}, ToSet(q)) /\ Apart(ToSet(q), {t})
    BY <1>1, <1>4 DEF Apart
  <2> QED
    BY <1>1, <1>4, <2>1, OnceConcat
<1> QED
  BY <1>2, <1>3, <1>4

LEMMA SetEmpty == ToSet(<<>>) = {} /\ Once(<<>>)
BY DEF ToSet, Once

LEMMA SetPop ==
    ASSUME NEW q \in Seq(Tasks), q # <<>>
    PROVE  /\ Head(q) \in Tasks /\ Tail(q) \in Seq(Tasks)
           /\ ToSet(q) = {Head(q)} \cup ToSet(Tail(q))
           /\ Once(q) => /\ Once(Tail(q))
                         /\ \A u \in ToSet(Tail(q)) : u.id = Head(q).id => u.id = NoId
<1>1. /\ Head(q) \in Tasks /\ Tail(q) \in Seq(Tasks) /\ q = <<Head(q)>> \o Tail(q)
      /\ Len(q) \in Nat \ {0} /\ DOMAIN q = 1 .. Len(q) /\ DOMAIN Tail(q) = 1 .. Len(q) - 1 /\ Head(q) = q[1]
      /\ \A k \in 1 .. Len(q) - 1 : Tail(q)[k] = q[k + 1]
  BY HeadTailProperties, LenProperties, SMT
<1>2. ToSet(q) = {Head(q)} \cup ToSet(Tail(q))
  BY <1>1, SetPush
<1>3. ASSUME Once(q)
      PROVE  /\ Once(Tail(q))
             /\ \A u \in ToSet(Tail(q)) : u.id = Head(q).id => u.id = NoId
  <2>1. \A k \in DOMAIN Tail(q) : k + 1 \in DOMAIN q /\ 1 \in DOMAIN q /\ Tail(q)[k] = q[k + 1] /\ k + 1 # 1
    BY <1>1
  <2>2. ASSUME NEW i \in DOMAIN Tail(q), NEW j \in DOMAIN Tail(q), Tail(q)[i].id = Tail(q)[j].id,
               Tail(q)[i].id # NoId
        PROVE  i = j
    <3>1. i + 1 = j + 1
      BY <1>3, <2>1, <2>2 DEF Once
    <3> QED
      BY <1>1, <3>1
  <2>3. \A k \in DOMAIN Tail(q) : Tail(q)[k].id = q[1].id => Tail(q)[k].id = NoId
    BY <1>3, <2>1 DEF Once
  <2> QED
    BY <1>1, <2>2, <2>3 DEF Once, ToSet
<1> QED
  BY <1>1, <1>2, <1>3

(* What cleanup_pending_task leaves of a deque, part by part.               *)
LEMMA WithoutParts ==
    ASSUME NEW q \in Seq(Tasks), NEW i, \E k \in DOMAIN q : q[k].id = i
    PROVE  \E k \in 1 .. Len(q) : \E a, b \in Seq(Tasks) :
              /\ q[k].id = i /\ Without(q, i) = a \o b
              /\ DOMAIN a = 1 .. k - 1 /\ \A l \in 1 .. k - 1 : a[l] = q[l]
              /\ DOMAIN b = 1 .. Len(q) - k /\ \A l \in 1 .. Len(q) - k : b[l] = q[k + l]
<1>1. PICK k \in 1 .. Len(q) : k = (CHOOSE l \in DOMAIN q : q[l].id = i) /\ q[k].id = i
  <2>1. /\ (CHOOSE k \in DOMAIN q : q[k].id = i) \in DOMAIN q
        /\ q[CHOOSE k \in DOMAIN q : q[k].id = i].id = i
    OBVIOUS
  <2> QED
    BY <2>1, LenProperties
<1>2. Len(q) \in Nat /\ DOMAIN q = 1 .. Len(q) /\ k \in Int /\ 1 <= k /\ k <= Len(q) /\ q[k].id = i
  BY <1>1, LenProperties
<1> DEFINE a == SubSeq(q, 1, k - 1)
           b == SubSeq(q, k + 1, Len(q))
<1>3. Without(q, i) = a \o b
  BY <1>1 DEF Without, RemoveAt
<1>4. \A l \in 1 .. Len(q) : q[l] \in Tasks
  BY ElementOfSeq
<1>5. a \in Seq(Tasks) /\ DOMAIN a = 1 .. k - 1 /\ \A l \in 1 .. k - 1 : a[l] = q[l]
  <2>1. \A l \in 1 .. (k - 1) : q[l] \in Tasks
    BY <1>2, <1>4
  <2>2. a \in Seq(Tasks) /\ Len(a) = k - 1 /\ \A l \in 1 .. k - 1 : a[l] = q[l]
    BY <1>2, <2>1, SubSeqProperties
  <2> QED
    BY <2>2, LenProperties
<1>6. b \in Seq(Tasks) /\ DOMAIN b = 1 .. Len(q) - k /\ \A l \in 1 .. Len(q) - k : b[l] = q[k + l]
  <2>1. \A l \in (k + 1) .. Len(q) : q[l] \in Tasks
    BY <1>2, <1>4
  <2> HIDE DEF b
  <2>2. /\ SubSeq(q, k + 1, Len(q)) \in Seq(Tasks)
        /\ Len(SubSeq(q, k + 1, Len(q))) = Len(q) - k
        /\ \A l \in 1 .. Len(q) - k : SubSeq(q, k + 1, Len(q))[l] = q[k + l]
    <3>0. PICK m \in Int : m = k + 1
      BY <1>2
    <3>1. /\ SubSeq(q, m, Len(q)) \in Seq(Tasks)
          /\ Len(SubSeq(q, m, Len(q))) = IF m <= Len(q) THEN Len(q) - m + 1 ELSE 0
          /\ \A l \in 1 .. Len(q) - m + 1 : SubSeq(q, m, Len(q))[l] = q[m + l - 1]
      BY <1>2, <2>1, <3>0, SubSeqProperties
    <3>2. \A l \in 1 .. Len(q) - k : m + l - 1 = k + l
      BY <1>2, <3>0
    <3>3. \A n \in Nat : k <= n => n - m + 1 = n - k /\ (m <= n \/ n - k = 0)
      BY <1>2, <3>0
    <3>4. Len(q) - m + 1 = Len(q) - k /\ (m <= Len(q) \/ Len(q) - k = 0)
      BY <1>2, <3>3
    <3> QED
      BY <3>1, <3>2, <3>4
  <2> QED
    BY <2>2, LenProperties DEF b
<1> HIDE DEF a, b
<1> QED
  BY <1>2, <1>3, <1>5, <1>6

(* cleanup_pending_task removes the task of request i and no other.         *)
LEMMA SetWithout ==
    ASSUME NEW q \in Seq(Tasks), NEW i \in Nat, Once(q)
    PROVE  /\ Without(q, i) \in Seq(Tasks) /\ Once(Without(q, i))
           /\ ToSet(Without(q, i)) = {t \in ToSet(q) : t.id # i}
<1>1. CASE \E k \in DOMAIN q : q[k].id = i
  <2>1. PICK k \in 1 .. Len(q), a \in Seq(Tasks), b \in Seq(Tasks) :
           /\ q[k].id = i /\ Without(q, i) = a \o b
           /\ DOMAIN a = 1 .. k - 1 /\ \A l \in 1 .. k - 1 : a[l] = q[l]
           /\ DOMAIN b = 1 .. Len(q) - k /\ \A l \in 1 .. Len(q) - k : b[l] = q[k + l]
    BY <1>1, WithoutParts
  <2>a. Len(q) \in Nat /\ DOMAIN q = 1 .. Len(q) /\ k \in Int /\ 1 <= k /\ k <= Len(q) /\ q[k].id = i
    BY <2>1, LenProperties
  <2>6. \A l \in DOMAIN a : l \in DOMAIN q /\ l # k /\ l < k /\ a[l] = q[l]
    BY <2>a, <2>1
  <2>7. \A l \in DOMAIN b : k + l \in DOMAIN q /\ k + l # k /\ k + l > k /\ b[l] = q[k + l]
    BY <2>a, <2>1
  <2>8. \A j \in DOMAIN q : j # k => j \in DOMAIN a \/ (j - k \in DOMAIN b /\ k + (j - k) = j)
    BY <2>a, <2>1
  <2>9. \A j \in DOMAIN q : q[j].id = i => j = k
    BY <2>a DEF Once, NoId
  <2>10. Once(a)
    BY <2>6 DEF Once
  <2>11. Once(b)
    <3> SUFFICES ASSUME NEW l \in DOMAIN b, NEW m \in DOMAIN b, b[l].id = b[m].id, b[l].id # NoId PROVE l = m
      BY DEF Once
    <3>1. k + l = k + m
      BY <2>7 DEF Once
    <3> QED
      BY <2>a, <2>1, <3>1
  <2>12. Apart(ToSet(a), ToSet(b))
    <3> SUFFICES ASSUME NEW l \in DOMAIN a, NEW m \in DOMAIN b, a[l].id = b[m].id PROVE a[l].id = NoId
      BY DEF Apart, ToSet
    <3>1. l # k + m
      BY <2>a, <2>1
    <3> QED
      BY <2>6, <2>7, <3>1 DEF Once
  <2>13. ToSet(a) \cup ToSet(b) \subseteq {t \in ToSet(q) : t.id # i}
    <3>1. ASSUME NEW l \in DOMAIN a PROVE a[l] \in ToSet(q) /\ a[l].id # i
      BY <2>6, <2>9 DEF ToSet
    <3>2. ASSUME NEW l \in DOMAIN b PROVE b[l] \in ToSet(q) /\ b[l].id # i
      BY <2>7, <2>9 DEF ToSet
    <3> QED
      BY <3>1, <3>2 DEF ToSet
  <2>14. {t \in ToSet(q) : t.id # i} \subseteq ToSet(a) \cup ToSet(b)
    <3> SUFFICES ASSUME NEW j \in DOMAIN q, q[j].id # i PROVE q[j] \in ToSet(a) \cup ToSet(b)
      BY DEF ToSet
    <3>1. j # k
      BY <2>a
    <3>2. CASE j \in DOMAIN a
      BY <2>6, <3>2 DEF ToSet
    <3>3. CASE j - k \in DOMAIN b /\ k + (j - k) = j
      <4>1. b[j - k] = q[j]
        BY <2>7, <3>3
      <4> QED
        BY <3>3, <4>1 DEF ToSet
    <3> QED
      BY <2>8, <3>1, <3>2, <3>3
  <2>15. Without(q, i) = a \o b
    BY <2>1
  <2> QED
    BY <2>10, <2>11, <2>12, <2>13, <2>14, <2>15, OnceConcat, SetConcat, ConcatProperties
<1>2. CASE ~ \E k \in DOMAIN q : q[k].id = i
  <2>1. Without(q, i) = q
    BY <1>2 DEF Without
  <2>2. \A t \in ToSet(q) : t.id # i
    BY <1>2 DEF ToSet
  <2> QED
    BY <2>1, <2>2
<1> QED
  BY <1>1, <1>2

----------------------------------------------------------------------------
(* Where the tasks are.                                                     *)

Queue     == ToSet(queue_tasks)
Deferred  == ToSet(queue_tasks_deferred)
Unhandled == ToSet(queue_tasks_unhandled)
InMain    == ToSet(main_task)
InWorker  == ToSet(worker_task)

LEMMA PresentIs ==
    /\ Present = Queue \cup Deferred \cup Unhandled \cup InMain \cup InWorker
    /\ Present' = (Queue \cup Deferred \cup Unhandled \cup InMain \cup InWorker)'
BY DEF Present, Queue, Deferred, Unhandled, InMain, InWorker

(* No request has two tasks.                                                *)
PlacesInv ==
    /\ Once(queue_tasks) /\ Once(queue_tasks_deferred) /\ Once(queue_tasks_unhandled)
    /\ Apart(Queue, Deferred) /\ Apart(Queue, Unhandled) /\ Apart(Queue, InMain) /\ Apart(Queue, InWorker)
    /\ Apart(Deferred, Unhandled) /\ Apart(Deferred, InMain) /\ Apart(Deferred, InWorker)
    /\ Apart(Unhandled, InMain) /\ Apart(Unhandled, InWorker)
    /\ Apart(InMain, InWorker)

(* A thread holds one task while it handles it, and none otherwise.         *)
LEMMA InHands ==
    ASSUME TypeOK
    PROVE  /\ mpc = "handle" => main_task = <<main_task[1]>> /\ InMain = {main_task[1]} /\ main_task[1] \in Tasks
           /\ mpc # "handle" => main_task = <<>> /\ InMain = {}
           /\ wpc = "handle" => /\ worker_task = <<worker_task[1]>> /\ InWorker = {worker_task[1]}
                                /\ worker_task[1] \in Tasks
           /\ wpc # "handle" => worker_task = <<>> /\ InWorker = {}
<1>1. \A q \in Seq(Tasks) : /\ Len(q) = 0 => q = <<>>
                            /\ Len(q) = 1 => q = <<q[1]>> /\ q[1] \in Tasks
  <2> SUFFICES ASSUME NEW q \in Seq(Tasks) PROVE /\ Len(q) = 0 => q = <<>>
                                                 /\ Len(q) = 1 => q = <<q[1]>> /\ q[1] \in Tasks
    OBVIOUS
  <2>1. Len(q) = 0 => q = <<>>
    BY EmptySeq
  <2>2. ASSUME Len(q) = 1 PROVE q = <<q[1]>> /\ q[1] \in Tasks
    BY <2>2, ElementOfSeq, SMT
  <2> QED
    BY <2>1, <2>2
<1>2. \A t \in Tasks : ToSet(<<t>>) = {t}
  BY SetOne
<1>3. /\ mpc = "handle" => main_task = <<main_task[1]>> /\ main_task[1] \in Tasks
      /\ mpc # "handle" => main_task = <<>>
  BY <1>1 DEF TypeOK
<1>4. /\ wpc = "handle" => worker_task = <<worker_task[1]>> /\ worker_task[1] \in Tasks
      /\ wpc # "handle" => worker_task = <<>>
  BY <1>1 DEF TypeOK
<1>5. mpc = "handle" => InMain = {main_task[1]}
  <2> HAVE mpc = "handle"
  <2> PICK t \in Tasks : t = main_task[1] /\ main_task = <<t>>
    BY <1>3
  <2> QED
    BY <1>2 DEF InMain
<1>6. wpc = "handle" => InWorker = {worker_task[1]}
  <2> HAVE wpc = "handle"
  <2> PICK t \in Tasks : t = worker_task[1] /\ worker_task = <<t>>
    BY <1>4
  <2> QED
    BY <1>2 DEF InWorker
<1> QED
  BY <1>3, <1>4, <1>5, <1>6, SetEmpty DEF InMain, InWorker

----------------------------------------------------------------------------
(* What a step does to the places.                                          *)

PlacesOK == /\ queue_tasks \in Seq(Tasks) /\ queue_tasks_deferred \in Seq(Tasks)
            /\ queue_tasks_unhandled \in Seq(Tasks) /\ PlacesInv

places == <<queue_tasks, queue_tasks_deferred, queue_tasks_unhandled, main_task, worker_task>>

(* Task t is gone, and no other carries its id.                             *)
Dropped(t) == Present = {t} \cup Present' /\ \A u \in Present' : u.id = t.id => t.id = NoId

LEMMA PlacesSame ==
    ASSUME PlacesInv, UNCHANGED places
    PROVE  PlacesInv' /\ Present' = Present
BY DEF PlacesInv, places, Present, Queue, Deferred, Unhandled, InMain, InWorker, Once

(* A thread takes the first task.                                           *)
LEMMA PlacesTakes ==
    ASSUME PlacesOK, queue_tasks # <<>>, queue_tasks' = Tail(queue_tasks),
           UNCHANGED <<queue_tasks_deferred, queue_tasks_unhandled>>,
           \/ main_task' = <<Head(queue_tasks)>> /\ InMain = {} /\ UNCHANGED worker_task
           \/ worker_task' = <<Head(queue_tasks)>> /\ InWorker = {} /\ UNCHANGED main_task
    PROVE  PlacesInv' /\ Present' = Present
<1> PICK t \in Tasks : t = Head(queue_tasks)
  BY SetPop DEF PlacesOK
<1>1. /\ Queue = {t} \cup Queue' /\ Once(queue_tasks')
      /\ \A u \in Queue' : u.id = t.id => u.id = NoId
  BY SetPop DEF PlacesOK, PlacesInv, Queue
<1>2. Deferred' = Deferred /\ Unhandled' = Unhandled
      /\ Once(queue_tasks_deferred') /\ Once(queue_tasks_unhandled')
  BY DEF PlacesOK, PlacesInv, Deferred, Unhandled
<1>3. \/ InMain = {} /\ InMain' = {t} /\ InWorker' = InWorker
      \/ InWorker = {} /\ InWorker' = {t} /\ InMain' = InMain
  BY SetOne DEF InMain, InWorker
<1>4. Present' = Present
  BY <1>1, <1>2, <1>3, PresentIs
<1>5. Apart(Queue, Deferred)' /\ Apart(Queue, Unhandled)' /\ Apart(Deferred, Unhandled)'
  BY <1>1, <1>2 DEF PlacesOK, PlacesInv, Apart
<1>6. Apart(Queue, InMain)' /\ Apart(Queue, InWorker)' /\ Apart(InMain, InWorker)'
  BY <1>1, <1>3 DEF PlacesOK, PlacesInv, Apart
<1>7. /\ Apart(Deferred, InMain)' /\ Apart(Deferred, InWorker)'
      /\ Apart(Unhandled, InMain)' /\ Apart(Unhandled, InWorker)'
  BY <1>1, <1>2, <1>3 DEF PlacesOK, PlacesInv, Apart
<1> QED
  BY <1>1, <1>2, <1>4, <1>5, <1>6, <1>7 DEF PlacesInv, Once

(* The main thread puts the task it holds off.                              *)
LEMMA PlacesDefers ==
    ASSUME PlacesOK, NEW t \in Tasks, InMain = {t}, main_task' = <<>>,
           queue_tasks_deferred' = Append(queue_tasks_deferred, t),
           UNCHANGED <<queue_tasks, queue_tasks_unhandled, worker_task>>
    PROVE  PlacesInv' /\ Present' = Present
<1>0. \A u \in Deferred : u.id = t.id => t.id = NoId
  BY DEF PlacesOK, PlacesInv, Apart
<1>1. Deferred' = {t} \cup Deferred /\ Once(queue_tasks_deferred')
  BY <1>0, SetPush DEF PlacesOK, PlacesInv, Deferred
<1>2. Queue' = Queue /\ Unhandled' = Unhandled /\ InWorker' = InWorker /\ InMain' = {}
      /\ Once(queue_tasks') /\ Once(queue_tasks_unhandled')
  BY SetEmpty DEF PlacesOK, PlacesInv, Queue, Unhandled, InMain, InWorker
<1>3. Present' = Present
  BY <1>1, <1>2, PresentIs
<1>4. Apart(Queue, Deferred)' /\ Apart(Deferred, Unhandled)' /\ Apart(Deferred, InWorker)'
  BY <1>1, <1>2 DEF PlacesOK, PlacesInv, Apart
<1>5. /\ Apart(Queue, InMain)' /\ Apart(Deferred, InMain)' /\ Apart(Unhandled, InMain)' /\ Apart(InMain, InWorker)'
  BY <1>2 DEF Apart
<1>6. Apart(Queue, Unhandled)' /\ Apart(Queue, InWorker)' /\ Apart(Unhandled, InWorker)'
  BY <1>2 DEF PlacesOK, PlacesInv, Apart
<1> QED
  BY <1>1, <1>2, <1>3, <1>4, <1>5, <1>6 DEF PlacesInv, Once

(* A thread is done with its task.                                          *)
LEMMA PlacesDrops ==
    ASSUME PlacesOK, NEW t \in Tasks,
           UNCHANGED <<queue_tasks, queue_tasks_deferred, queue_tasks_unhandled>>,
           \/ InMain = {t} /\ main_task' = <<>> /\ UNCHANGED worker_task
           \/ InWorker = {t} /\ worker_task' = <<>> /\ UNCHANGED main_task
    PROVE  PlacesInv' /\ Dropped(t)
<1>1. Queue' = Queue /\ Deferred' = Deferred /\ Unhandled' = Unhandled
      /\ Once(queue_tasks') /\ Once(queue_tasks_deferred') /\ Once(queue_tasks_unhandled')
  BY DEF PlacesOK, PlacesInv, Queue, Deferred, Unhandled
<1>2. \/ InMain = {t} /\ InMain' = {} /\ InWorker' = InWorker
      \/ InWorker = {t} /\ InWorker' = {} /\ InMain' = InMain
  BY SetEmpty DEF InMain, InWorker
<1>3. InMain' \subseteq InMain /\ InWorker' \subseteq InWorker
  BY <1>2
<1>4. Present = {t} \cup Present'
  BY <1>1, <1>2, PresentIs
<1>5. \A u \in Present' : u.id = t.id => t.id = NoId
  <2>1. CASE InMain = {t} /\ InMain' = {} /\ InWorker' = InWorker
    BY <1>1, <2>1, PresentIs DEF PlacesOK, PlacesInv, Apart
  <2>2. CASE InWorker = {t} /\ InWorker' = {} /\ InMain' = InMain
    BY <1>1, <2>2, PresentIs DEF PlacesOK, PlacesInv, Apart
  <2> QED
    BY <1>2, <2>1, <2>2
<1>6. Apart(Queue, Deferred)' /\ Apart(Queue, Unhandled)' /\ Apart(Deferred, Unhandled)'
  BY <1>1 DEF PlacesOK, PlacesInv, Apart
<1>7. /\ Apart(Queue, InMain)' /\ Apart(Queue, InWorker)' /\ Apart(InMain, InWorker)'
      /\ Apart(Deferred, InMain)' /\ Apart(Deferred, InWorker)'
      /\ Apart(Unhandled, InMain)' /\ Apart(Unhandled, InWorker)'
  BY <1>1, <1>3 DEF PlacesOK, PlacesInv, Apart
<1> QED
  BY <1>1, <1>4, <1>5, <1>6, <1>7 DEF PlacesInv, Once, Dropped

(* pop_deferred_task.                                                       *)
LEMMA PlacesPop ==
    ASSUME PlacesOK, PopDeferred, InMain' \subseteq InMain, InWorker' = InWorker
    PROVE  PlacesInv' /\ (Queue \cup Deferred)' = Queue \cup Deferred /\ Unhandled' = Unhandled
<1>1. /\ (Queue \cup Deferred)' = Queue \cup Deferred
      /\ Once(queue_tasks') /\ Once(queue_tasks_deferred') /\ Apart(Queue, Deferred)'
  <2>1. CASE queue_tasks_deferred = <<>>
    BY <2>1 DEF PopDeferred, PlacesOK, PlacesInv, Queue, Deferred
  <2>2. CASE queue_tasks_deferred # <<>>
    <3>1. PICK t \in Tasks : t = Head(queue_tasks_deferred)
      BY <2>2, SetPop DEF PlacesOK
    <3>2. queue_tasks' = <<t>> \o queue_tasks /\ queue_tasks_deferred' = Tail(queue_tasks_deferred)
      BY <2>2, <3>1 DEF PopDeferred
    <3>3. /\ Deferred = {t} \cup Deferred' /\ Once(queue_tasks_deferred')
          /\ \A u \in Deferred' : u.id = t.id => u.id = NoId
      BY <2>2, <3>1, <3>2, SetPop DEF PlacesOK, PlacesInv, Deferred
    <3>4. \A u \in Queue : u.id = t.id => t.id = NoId
      BY <3>3 DEF PlacesOK, PlacesInv, Apart
    <3>5. Queue' = {t} \cup Queue /\ Once(queue_tasks')
      BY <3>2, <3>4, SetPush DEF PlacesOK, PlacesInv, Queue
    <3>6. Apart(Queue, Deferred)'
      BY <3>3, <3>5 DEF PlacesOK, PlacesInv, Apart
    <3> QED
      BY <3>3, <3>5, <3>6
  <2> QED
    BY <2>1, <2>2
<1>2. Unhandled' = Unhandled /\ Once(queue_tasks_unhandled')
  BY DEF PopDeferred, PlacesOK, PlacesInv, Unhandled
<1>3. Queue' \subseteq Queue \cup Deferred /\ Deferred' \subseteq Queue \cup Deferred
  BY <1>1
<1>4. Apart(Queue, Unhandled)' /\ Apart(Deferred, Unhandled)' /\ Apart(Unhandled, InMain)' /\ Apart(Unhandled, InWorker)'
  BY <1>2, <1>3 DEF PlacesOK, PlacesInv, Apart
<1>5. Apart(Queue, InMain)' /\ Apart(Queue, InWorker)' /\ Apart(Deferred, InMain)' /\ Apart(Deferred, InWorker)'
  BY <1>3 DEF PlacesOK, PlacesInv, Apart
<1>6. Apart(InMain, InWorker)'
  BY DEF PlacesOK, PlacesInv, Apart
<1> QED
  BY <1>1, <1>2, <1>4, <1>5, <1>6 DEF PlacesInv, Once

(* The declined tasks return to the queue.                                  *)
LEMMA PlacesReturn ==
    ASSUME PlacesOK, queue_tasks' = queue_tasks_unhandled \o queue_tasks, queue_tasks_unhandled' = <<>>,
           UNCHANGED <<queue_tasks_deferred, main_task, worker_task>>
    PROVE  PlacesInv' /\ Present' = Present
<1>0. Apart(Unhandled, Queue)
  BY DEF PlacesOK, PlacesInv, Apart
<1>1. Queue' = Unhandled \cup Queue /\ Once(queue_tasks')
  BY <1>0, SetConcat, OnceConcat DEF PlacesOK, PlacesInv, Queue, Unhandled
<1>2. Unhandled' = {} /\ Once(queue_tasks_unhandled')
  BY SetEmpty DEF Unhandled
<1>3. Deferred' = Deferred /\ InMain' = InMain /\ InWorker' = InWorker /\ Once(queue_tasks_deferred')
  BY DEF PlacesOK, PlacesInv, Deferred, InMain, InWorker
<1>4. Present' = Present
  BY <1>1, <1>2, <1>3, PresentIs
<1>5. Apart(Queue, Deferred)' /\ Apart(Queue, InMain)' /\ Apart(Queue, InWorker)'
  BY <1>1, <1>3 DEF PlacesOK, PlacesInv, Apart
<1>6. Apart(Queue, Unhandled)' /\ Apart(Deferred, Unhandled)' /\ Apart(Unhandled, InMain)' /\ Apart(Unhandled, InWorker)'
  BY <1>2 DEF Apart
<1>7. Apart(Deferred, InMain)' /\ Apart(Deferred, InWorker)' /\ Apart(InMain, InWorker)'
  BY <1>3 DEF PlacesOK, PlacesInv, Apart
<1> QED
  BY <1>1, <1>2, <1>3, <1>4, <1>5, <1>6, <1>7 DEF PlacesInv, Once

(* The worker declines the task it holds.                                   *)
LEMMA PlacesDeclines ==
    ASSUME PlacesOK, NEW t \in Tasks, worker_task = <<t>>, worker_task' = <<>>,
           queue_tasks_unhandled' = queue_tasks_unhandled \o worker_task,
           UNCHANGED <<queue_tasks, queue_tasks_deferred, main_task>>
    PROVE  PlacesInv' /\ Present' = Present
<1>0. InWorker = {t} /\ Apart(Unhandled, InWorker) /\ <<t>> \in Seq(Tasks) /\ Once(<<t>>)
  BY SetOne DEF PlacesOK, PlacesInv, InWorker
<1>1. Unhandled' = Unhandled \cup InWorker /\ Once(queue_tasks_unhandled')
  BY <1>0, SetConcat, OnceConcat DEF PlacesOK, PlacesInv, InWorker, Unhandled
<1>2. InWorker' = {}
  BY SetEmpty DEF InWorker
<1>3. /\ Deferred' = Deferred /\ InMain' = InMain /\ Queue' = Queue
      /\ Once(queue_tasks_deferred') /\ Once(queue_tasks')
  BY DEF PlacesOK, PlacesInv, Deferred, InMain, Queue
<1>4. Present' = Present
  BY <1>1, <1>2, <1>3, PresentIs
<1>5. Apart(Queue, Unhandled)' /\ Apart(Deferred, Unhandled)' /\ Apart(Unhandled, InMain)'
  BY <1>1, <1>3 DEF PlacesOK, PlacesInv, Apart
<1>6. Apart(Queue, InWorker)' /\ Apart(Deferred, InWorker)' /\ Apart(Unhandled, InWorker)' /\ Apart(InMain, InWorker)'
  BY <1>2 DEF Apart
<1>7. Apart(Queue, Deferred)' /\ Apart(Queue, InMain)' /\ Apart(Deferred, InMain)'
  BY <1>3 DEF PlacesOK, PlacesInv, Apart
<1> QED
  BY <1>1, <1>3, <1>4, <1>5, <1>6, <1>7 DEF PlacesInv, Once

(* post of a task that nothing else carries the id of.                      *)
LEMMA PlacesPost ==
    ASSUME PlacesOK, NEW t \in Tasks, NEW front \in BOOLEAN, Post(t, front),
           \A u \in Present : u.id = t.id => t.id = NoId, UNCHANGED <<main_task, worker_task>>
    PROVE  PlacesInv' /\ Present' = {t} \cup Present
<1>1. Queue' = {t} \cup Queue /\ Once(queue_tasks')
  BY SetPush, PresentIs DEF PlacesOK, PlacesInv, Queue, Post
<1>2. /\ Deferred' = Deferred /\ InMain' = InMain /\ InWorker' = InWorker /\ Unhandled' = Unhandled
      /\ Once(queue_tasks_deferred') /\ Once(queue_tasks_unhandled')
  BY DEF PlacesOK, PlacesInv, Deferred, InMain, InWorker, Unhandled, Post
<1>3. Present' = {t} \cup Present
  BY <1>1, <1>2, PresentIs
<1>4. Apart({t}, Deferred) /\ Apart({t}, Unhandled) /\ Apart({t}, InMain) /\ Apart({t}, InWorker)
  BY PresentIs DEF Apart
<1>5. Apart(Queue, Deferred)' /\ Apart(Queue, Unhandled)' /\ Apart(Queue, InMain)' /\ Apart(Queue, InWorker)'
  BY <1>1, <1>2, <1>4 DEF PlacesOK, PlacesInv, Apart
<1>6. /\ Apart(Deferred, Unhandled)' /\ Apart(Deferred, InMain)' /\ Apart(Deferred, InWorker)'
      /\ Apart(Unhandled, InMain)' /\ Apart(Unhandled, InWorker)' /\ Apart(InMain, InWorker)'
  BY <1>2 DEF PlacesOK, PlacesInv, Apart
<1> QED
  BY <1>1, <1>2, <1>3, <1>5, <1>6 DEF PlacesInv, Once

(* The CANCEL of request i: its task leaves the deques, not the hands.      *)
LEMMA PlacesCancel ==
    ASSUME PlacesOK, NEW i \in Nat, PostCancel(i), UNCHANGED <<main_task, worker_task>>
    PROVE  /\ PlacesInv' /\ Present' \subseteq {Cancel(i)} \cup Present
           /\ {t \in Present : t.id # i} \subseteq Present'
           /\ \/ {t \in Present' : t.id = i} = {}
              \/ {t \in Present' : t.id = i} = {t \in Present : t.id = i}
<1> DEFINE q == Without(queue_tasks, i)
<1>0. Cancel(i) \in Tasks /\ Cancel(i).id = NoId /\ NoId # i
  BY TaskType DEF Cancel, NoId
<1>1. /\ q \in Seq(Tasks) /\ Once(q) /\ ToSet(q) = {t \in Queue : t.id # i}
      /\ queue_tasks' = <<Cancel(i)>> \o q
  BY SetWithout DEF PlacesOK, PlacesInv, Queue, PostCancel
<1> HIDE DEF q
<1>2. Queue' = {Cancel(i)} \cup {t \in Queue : t.id # i} /\ Once(queue_tasks')
  BY <1>0, <1>1, SetPush DEF Queue
<1>3. /\ Deferred' = {t \in Deferred : t.id # i} /\ Once(queue_tasks_deferred')
      /\ Unhandled' = {t \in Unhandled : t.id # i} /\ Once(queue_tasks_unhandled')
  BY SetWithout DEF PlacesOK, PlacesInv, Deferred, Unhandled, PostCancel
<1>4. InMain' = InMain /\ InWorker' = InWorker
  BY DEF InMain, InWorker
<1>5. \A t \in Present' : t \in Present \/ t = Cancel(i)
  BY <1>2, <1>3, <1>4, PresentIs
<1>6. {t \in Present : t.id # i} \subseteq Present'
  BY <1>2, <1>3, <1>4, PresentIs
<1>7. \/ {t \in Present' : t.id = i} = {}
      \/ {t \in Present' : t.id = i} = {t \in Present : t.id = i}
  <2>1. {t \in Present' : t.id = i} = {t \in InMain \cup InWorker : t.id = i}
    BY <1>0, <1>2, <1>3, <1>4, PresentIs
  <2>2. ASSUME NEW u \in InMain \cup InWorker, u.id = i
        PROVE  {t \in Present : t.id = i} \subseteq InMain \cup InWorker
    BY <1>0, <2>2, PresentIs DEF PlacesOK, PlacesInv, Apart
  <2> QED
    BY <2>1, <2>2, PresentIs
<1>8. \A t \in Queue' : t.id = NoId \/ t \in Queue
  BY <1>0, <1>2
<1>9. Apart(Queue, Deferred)' /\ Apart(Queue, Unhandled)' /\ Apart(Queue, InMain)' /\ Apart(Queue, InWorker)'
  BY <1>3, <1>4, <1>8 DEF PlacesOK, PlacesInv, Apart
<1>10. /\ Apart(Deferred, Unhandled)' /\ Apart(Deferred, InMain)' /\ Apart(Deferred, InWorker)'
       /\ Apart(Unhandled, InMain)' /\ Apart(Unhandled, InWorker)' /\ Apart(InMain, InWorker)'
  BY <1>3, <1>4 DEF PlacesOK, PlacesInv, Apart
<1> QED
  BY <1>2, <1>3, <1>5, <1>6, <1>7, <1>9, <1>10 DEF PlacesInv, Once

----------------------------------------------------------------------------
(* Ids: what is drawn later is larger, a client has at most one request of  *)
(* its own, nothing of a request exists before it is posted, and one that   *)
(* is cancelled belongs to nobody any more.                                 *)
IdsInv ==
    /\ \A t \in Present :
          /\ t.id < id /\ t.target < id
          /\ \A c \in Http : /\ cpc[c] = "ready" => mine[c] # t.id
                             /\ mine[c] = t.target => t.target = NoId
    /\ \A i \in slots : i < id /\ \A c \in Http : cpc[c] = "ready" => mine[c] # i
    /\ \A c \in Http : /\ mine[c] < id
                       /\ mine[c] # NoId <=> cpc[c] \in {"ready", "posted"}
                       /\ \A d \in Http : mine[c] = mine[d] /\ mine[c] # NoId => c = d

OwnInv == PlacesInv /\ IdsInv

LEMMA PresentType == ASSUME TypeOK PROVE PlacesInv => PlacesOK /\ Present \subseteq Tasks
<1>1. \A q \in Seq(Tasks) : ToSet(q) \subseteq Tasks
  BY LenProperties, ElementOfSeq DEF ToSet
<1>2. /\ queue_tasks \in Seq(Tasks) /\ queue_tasks_deferred \in Seq(Tasks) /\ queue_tasks_unhandled \in Seq(Tasks)
      /\ main_task \in Seq(Tasks) /\ worker_task \in Seq(Tasks)
  BY DEF TypeOK
<1> QED
  BY <1>1, <1>2 DEF PlacesOK, Present

(* What the two threads do to the tasks draws no id.                        *)
LEMMA IdsFrame ==
    ASSUME TypeOK, IdsInv, UNCHANGED <<id, cpc, mine>>,
           \A t \in Present' : t \in Present \/ (t.id = NoId /\ t.target = NoId),
           \A i \in slots' : i \in slots \/ \E t \in Present : t.id = i
    PROVE  IdsInv'
<1>1. id \in Nat /\ NoId < id /\ \A c \in Http : cpc[c] = "ready" => mine[c] # NoId
  BY DEF TypeOK, NoId
<1>2. ASSUME NEW t \in Present'
      PROVE  /\ t.id < id' /\ t.target < id'
             /\ \A c \in Http : /\ cpc'[c] = "ready" => mine'[c] # t.id
                                /\ mine'[c] = t.target => t.target = NoId
  BY <1>1 DEF IdsInv
<1>3. ASSUME NEW i \in slots'
      PROVE  i < id' /\ \A c \in Http : cpc'[c] = "ready" => mine'[c] # i
  BY DEF IdsInv
<1>4. \A c \in Http : /\ mine'[c] < id'
                      /\ mine'[c] # NoId <=> cpc'[c] \in {"ready", "posted"}
                      /\ \A d \in Http : mine'[c] = mine'[d] /\ mine'[c] # NoId => c = d
  BY DEF IdsInv
<1> QED
  BY <1>2, <1>3, <1>4 DEF IdsInv

----------------------------------------------------------------------------
(* The service's view of a step.                                            *)

(* A task that goes takes its request along, if it is one.                  *)
LEMMA RequestGoes ==
    ASSUME NEW t \in Tasks, t.kind \in {"INFER", "METRICS"}, Dropped(t)
    PROVE  /\ Service!Request(t.kind, t.id) \in Queued
           /\ Queued' = Queued \ {Service!Request(t.kind, t.id)}
<1>1. t.id # NoId
  BY RequestId DEF NoId
<1>2. Service!Request(t.kind, t.id) = [kind |-> t.kind, id |-> t.id]
  BY DEF Service!Request
<1>3. t \in Present /\ \A u \in Present' : u.id # t.id
  BY <1>1 DEF Dropped
<1>4. [kind |-> t.kind, id |-> t.id] \in Queued
  BY <1>3 DEF Queued, Requested
<1>5. \A r \in Queued' : r \in Queued /\ r # [kind |-> t.kind, id |-> t.id]
  BY <1>3 DEF Queued, Requested, Dropped
<1>6. \A r \in Queued : r \in Queued' \/ r = [kind |-> t.kind, id |-> t.id]
  BY DEF Queued, Requested, Dropped
<1> QED
  BY <1>2, <1>4, <1>5, <1>6

(* Tasks that are no requests do not show.                                  *)
LEMMA NoRequestShows ==
    ASSUME \A t \in Present' : t \in Present \/ t.kind \notin {"INFER", "METRICS"},
           \A t \in Present : t \in Present' \/ t.kind \notin {"INFER", "METRICS"}
    PROVE  Queued' = Queued
BY DEF Queued, Requested

(* Nothing shows of a step that moves tasks about.                          *)
LEMMA Stutters ==
    ASSUME Queued' = Queued, UNCHANGED <<id, cpc, mine, slots, results>>
    PROVE  UNCHANGED Service!vars
<1>1. Reserved' = Reserved /\ Awaited' = Awaited
  BY DEF Reserved, Awaited
<1> QED
  BY <1>1 DEF Service!vars

(* server_response::send, to whoever still waits.                           *)
LEMMA SendAnswers ==
    ASSUME TypeOK, IdsInv, NEW i \in Nat, NEW error \in BOOLEAN, Send(i, error),
           \A c \in Http : cpc[c] = "ready" => mine[c] # i
    PROVE  results' = results \cup Service!AnswerOf(i, error)
<1>1. Waited(i) <=> i \in Awaited
  <2>1. \A c \in Http : mine[c] = i => cpc[c] = "posted"
    BY DEF IdsInv, NoId
  <2> QED
    BY <2>1 DEF Waited, Awaited
<1> QED
  BY <1>1 DEF Send, Service!AnswerOf

ServiceStep == Service!Next \/ UNCHANGED Service!vars

LEMMA OwnFrame ==
    ASSUME TypeOK, OwnInv, UNCHANGED places, UNCHANGED <<id, cpc, mine, slots, results>>
    PROVE  OwnInv' /\ ServiceStep
<1>1. PlacesInv' /\ Present' = Present
  BY PlacesSame DEF OwnInv
<1>2. IdsInv'
  BY <1>1, IdsFrame DEF OwnInv
<1>3. Queued' = Queued
  BY <1>1, NoRequestShows
<1> QED
  BY <1>1, <1>2, <1>3, Stutters DEF OwnInv, ServiceStep

LEMMA OwnMoves ==
    ASSUME TypeOK, OwnInv, PlacesInv', Present' = Present, UNCHANGED <<id, cpc, mine, slots, results>>
    PROVE  OwnInv' /\ ServiceStep
<1>2. IdsInv'
  BY IdsFrame DEF OwnInv
<1>3. Queued' = Queued
  BY NoRequestShows
<1> QED
  BY <1>2, <1>3, Stutters DEF OwnInv, ServiceStep

(* The main thread has handled the request it held.                         *)
LEMMA OwnAnswered ==
    ASSUME TypeOK, OwnInv, NEW t \in Tasks, t.kind \in {"INFER", "METRICS"}, t \in Present,
           PlacesInv', Dropped(t), Send(t.id, t.kind = "INFER"), UNCHANGED <<id, cpc, mine, slots>>
    PROVE  OwnInv' /\ ServiceStep
<1>1. t.id \in Nat
  BY RequestId
<1>2. Present' \subseteq Present
  BY DEF Dropped
<1>3. IdsInv'
  BY <1>2, IdsFrame DEF OwnInv
<1>4. results' = results \cup Service!AnswerOf(t.id, t.kind = "INFER")
  BY <1>1, SendAnswers DEF OwnInv, IdsInv
<1>5. Service!Request(t.kind, t.id) \in Queued /\ Queued' = Queued \ {Service!Request(t.kind, t.id)}
  BY RequestGoes
<1>6. Reserved' = Reserved /\ Awaited' = Awaited
  BY DEF Reserved, Awaited
<1>7. Service!AnswerQueued(t.kind, t.id)
  BY <1>4, <1>5, <1>6 DEF Service!AnswerQueued
<1>8. PICK r \in Queued : r.kind = t.kind /\ r.id = t.id
  BY <1>5 DEF Service!Request
<1>9. Service!Next
  BY <1>7, <1>8 DEF Service!Next
<1> QED
  BY <1>3, <1>9 DEF OwnInv, ServiceStep

LEMMA SameCardinality == ASSUME NEW S PROVE Service!Cardinality(S) = Cardinality(S)
BY DEF Service!Cardinality, Cardinality

LEMMA OwnLaunches == ASSUME TypeOK, OwnInv, MainLaunches PROVE OwnInv' /\ ServiceStep
<1>1. PICK t \in Tasks : t = main_task[1] /\ InMain = {t}
  BY InHands DEF MainLaunches, Handles
<1>2. /\ t.kind = "INFER" /\ main_task' = <<>> /\ Cardinality(slots) < NSlots /\ slots' = slots \cup {t.id}
      /\ UNCHANGED <<queue_tasks, queue_tasks_deferred, queue_tasks_unhandled, worker_task, id, cpc, mine, results>>
  BY <1>1 DEF MainLaunches, Handles
<1>3. PlacesInv' /\ Dropped(t)
  BY <1>1, <1>2, PresentType, PlacesDrops DEF OwnInv
<1>4. t \in Present /\ Present' \subseteq Present
  BY <1>3 DEF Dropped
<1>5. IdsInv'
  BY <1>2, <1>4, IdsFrame DEF OwnInv
<1>6. Service!Request("INFER", t.id) \in Queued /\ Queued' = Queued \ {Service!Request("INFER", t.id)}
  BY <1>2, <1>3, RequestGoes
<1>7. Reserved' = Reserved /\ Awaited' = Awaited
  BY <1>2 DEF Reserved, Awaited
<1>8. Service!Start(t.id)
  BY <1>2, <1>6, <1>7, SameCardinality DEF Service!Start
<1>9. PICK r \in Queued : r.id = t.id
  BY <1>6 DEF Service!Request
<1>10. Service!Next
  BY <1>8, <1>9 DEF Service!Next
<1> QED
  BY <1>3, <1>5, <1>10 DEF OwnInv, ServiceStep

LEMMA OwnDefers == ASSUME TypeOK, OwnInv, MainDefers PROVE OwnInv' /\ ServiceStep
<1>1. PICK t \in Tasks : t = main_task[1] /\ InMain = {t}
  BY InHands DEF MainDefers, Handles
<1>2. /\ main_task' = <<>> /\ queue_tasks_deferred' = Append(queue_tasks_deferred, t)
      /\ UNCHANGED <<queue_tasks, queue_tasks_unhandled, worker_task, id, cpc, mine, results, slots>>
  BY <1>1 DEF MainDefers, Handles
<1>3. PlacesInv' /\ Present' = Present
  BY <1>1, <1>2, PresentType, PlacesDefers DEF OwnInv
<1> QED
  BY <1>2, <1>3, OwnMoves

LEMMA OwnReplies == ASSUME TypeOK, OwnInv, MainRejects \/ MainAnswers PROVE OwnInv' /\ ServiceStep
<1>1. PICK t \in Tasks : t = main_task[1] /\ InMain = {t}
  BY InHands DEF MainRejects, MainAnswers, Handles
<1>2. /\ t.kind \in {"INFER", "METRICS"} /\ main_task' = <<>> /\ Send(t.id, t.kind = "INFER")
      /\ UNCHANGED <<queue_tasks, queue_tasks_deferred, queue_tasks_unhandled, worker_task, id, cpc, mine, slots>>
  BY <1>1 DEF MainRejects, MainAnswers, Handles
<1>3. PlacesInv' /\ Dropped(t)
  BY <1>1, <1>2, PresentType, PlacesDrops DEF OwnInv
<1>4. t \in Present
  BY <1>3 DEF Dropped
<1> QED
  BY <1>2, <1>3, <1>4, OwnAnswered

LEMMA OwnNext == ASSUME TypeOK, OwnInv, MainNextResponse PROVE OwnInv' /\ ServiceStep
<1>1. PICK t \in Tasks : t = main_task[1] /\ InMain = {t}
  BY InHands DEF MainNextResponse, Handles
<1>2. /\ t.kind = "NEXT_RESPONSE" /\ main_task' = <<>>
      /\ UNCHANGED <<queue_tasks, queue_tasks_deferred, queue_tasks_unhandled, worker_task, id, cpc, mine, slots, results>>
  BY <1>1 DEF MainNextResponse, Handles
<1>3. PlacesInv' /\ Dropped(t)
  BY <1>1, <1>2, PresentType, PlacesDrops DEF OwnInv
<1>a. Present' \subseteq Present
  BY <1>3 DEF Dropped
<1>4. IdsInv'
  BY <1>2, <1>a, IdsFrame DEF OwnInv
<1>5. Queued' = Queued
  BY <1>2, <1>3, NoRequestShows DEF Dropped
<1> QED
  BY <1>2, <1>3, <1>4, <1>5, Stutters DEF OwnInv, ServiceStep

LEMMA OwnCancels == ASSUME TypeOK, OwnInv, MainCancels PROVE OwnInv' /\ ServiceStep
<1>1. PICK t \in Tasks : t = main_task[1] /\ InMain = {t}
  BY InHands DEF MainCancels, Handles
<1>2. /\ t.kind = "CANCEL" /\ main_task' = <<>> /\ t \in Present
      /\ UNCHANGED <<worker_task, id, cpc, mine, results>>
  BY <1>1, PresentIs DEF MainCancels, Handles
<1>3. t.target \in Nat /\ t.target # NoId /\ PlacesOK
  BY <1>2, RequestId, PresentType DEF OwnInv, NoId
<1>4. CASE t.target \in slots
  <2>1. slots' = slots \ {t.target} /\ PopDeferred
    BY <1>1, <1>4 DEF MainCancels
  <2>2. InMain' = {} /\ InWorker' = InWorker
    BY <1>2, SetEmpty DEF InMain, InWorker
  <2>3. PlacesInv' /\ (Queue \cup Deferred)' = Queue \cup Deferred /\ Unhandled' = Unhandled
    BY <1>3, <2>1, <2>2, PlacesPop
  <2>4. Present = {t} \cup Present'
    BY <1>1, <2>2, <2>3, PresentIs
  <2>5. IdsInv'
    BY <1>2, <2>1, <2>4, IdsFrame DEF OwnInv
  <2>6. Queued' = Queued /\ Reserved' = Reserved /\ Awaited' = Awaited
    BY <1>2, <2>4, NoRequestShows DEF Reserved, Awaited
  <2>7. t.target \notin Awaited
    BY <1>2, <1>3 DEF OwnInv, IdsInv, Awaited
  <2>8. Service!BreakOff(t.target)
    BY <1>2, <1>4, <2>1, <2>6, <2>7 DEF Service!BreakOff
  <2> QED
    BY <1>4, <2>3, <2>5, <2>8 DEF OwnInv, ServiceStep, Service!Next
<1>5. CASE t.target \notin slots
  <2>1. UNCHANGED <<queue_tasks, queue_tasks_deferred, queue_tasks_unhandled, slots>>
    BY <1>1, <1>5 DEF MainCancels
  <2>2. PlacesInv' /\ Dropped(t)
    BY <1>1, <1>2, <1>3, <2>1, PlacesDrops
  <2>3. IdsInv'
    BY <1>2, <2>1, <2>2, IdsFrame DEF OwnInv, Dropped
  <2>4. Queued' = Queued
    BY <1>2, <2>2, NoRequestShows DEF Dropped
  <2> QED
    BY <1>2, <2>1, <2>2, <2>3, <2>4, Stutters DEF OwnInv, ServiceStep
<1> QED
  BY <1>4, <1>5

LEMMA OwnReleased ==
    ASSUME TypeOK, OwnInv, NEW i \in slots, NEW error \in BOOLEAN, Released(i, error)
    PROVE  OwnInv' /\ ServiceStep
<1>1. /\ slots' = slots \ {i} /\ Send(i, error) /\ PopDeferred /\ i \in Nat
      /\ UNCHANGED <<main_task, worker_task, id, cpc, mine>>
  BY DEF Released, TypeOK
<1>2. InMain' = InMain /\ InWorker' = InWorker
  BY <1>1 DEF InMain, InWorker
<1>3. PlacesInv' /\ (Queue \cup Deferred)' = Queue \cup Deferred /\ Unhandled' = Unhandled
  BY <1>1, <1>2, PlacesPop, PresentType DEF OwnInv
<1>4. Present' = Present
  BY <1>2, <1>3, PresentIs
<1>5. IdsInv'
  BY <1>1, <1>4, IdsFrame DEF OwnInv
<1>6. Queued' = Queued /\ Reserved' = Reserved /\ Awaited' = Awaited
  BY <1>1, <1>4, NoRequestShows DEF Reserved, Awaited
<1>7. results' = results \cup Service!AnswerOf(i, error)
  BY <1>1, SendAnswers DEF OwnInv, IdsInv
<1>8. Service!Finish(i, error)
  BY <1>1, <1>6, <1>7 DEF Service!Finish
<1> QED
  BY <1>3, <1>5, <1>8 DEF OwnInv, ServiceStep, Service!Next

LEMMA OwnReturns ==
    ASSUME TypeOK, OwnInv, YieldReturns, UNCHANGED <<queue_tasks_deferred, main_task, slots, others, results>>
    PROVE  OwnInv' /\ ServiceStep
<1>1. /\ queue_tasks' = queue_tasks_unhandled \o queue_tasks /\ queue_tasks_unhandled' = <<>>
      /\ UNCHANGED <<queue_tasks_deferred, main_task, worker_task, id, cpc, mine, slots, results>>
  BY DEF YieldReturns, Requeued
<1>2. PlacesInv' /\ Present' = Present
  BY <1>1, PlacesReturn, PresentType DEF OwnInv
<1> QED
  BY <1>1, <1>2, OwnMoves

LEMMA OwnMain == ASSUME TypeOK, OwnInv, MainStep PROVE OwnInv' /\ ServiceStep
<1>1. CASE UNCHANGED places /\ UNCHANGED <<id, cpc, mine, slots, results>>
  BY <1>1, OwnFrame
<1>2. CASE StartLoop \/ MainDrained \/ BatchThrows \/ AbortDone \/ EndUpdate \/ ShiftTimer
  BY <1>1, <1>2 DEF StartLoop, MainDrained, BatchThrows, AbortDone, EndUpdate, ShiftTimer, places
<1>3. CASE YieldBegin \/ YieldNotify \/ WorkEnds \/ StopWorker \/ StopNotify \/ JoinWorker
  BY <1>1, <1>3 DEF YieldBegin, YieldNotify, WorkEnds, StopWorker, StopNotify, JoinWorker, places
<1>4. CASE IdleCheck \/ IdleTimeout \/ IdleWakes \/ SleepWakes
  BY <1>1, <1>4 DEF IdleCheck, IdleTimeout, IdleWakes, SleepWakes, places
<1>5. CASE MainTakes
  <2>1. /\ queue_tasks # <<>> /\ queue_tasks' = Tail(queue_tasks) /\ main_task' = <<Head(queue_tasks)>> /\ InMain = {}
        /\ UNCHANGED <<queue_tasks_deferred, queue_tasks_unhandled, worker_task, id, cpc, mine, slots, results>>
    BY <1>5, InHands DEF MainTakes
  <2>2. PlacesInv' /\ Present' = Present
    BY <2>1, PlacesTakes, PresentType DEF OwnInv
  <2> QED
    BY <2>1, <2>2, OwnMoves
<1>6. CASE MainLaunches \/ MainDefers \/ MainRejects \/ MainAnswers \/ MainCancels \/ MainNextResponse
  BY <1>6, OwnLaunches, OwnDefers, OwnReplies, OwnCancels, OwnNext
<1>7. CASE UpdateSlots
  <2>1. CASE slots = {}
    BY <1>1, <1>7, <2>1 DEF UpdateSlots, places
  <2>2. CASE slots # {}
    <3>1. /\ Post(NextResponse, FALSE) /\ NextResponse \in Tasks
          /\ UNCHANGED <<main_task, worker_task, id, cpc, mine, slots, results>>
      BY <1>7, <2>2, TaskType DEF UpdateSlots
    <3>2. NextResponse.id = NoId /\ NextResponse.target = NoId /\ NextResponse.kind = "NEXT_RESPONSE"
      BY DEF NextResponse, Request
    <3>3. PlacesInv' /\ Present' = {NextResponse} \cup Present
      BY <3>1, <3>2, PlacesPost, PresentType DEF OwnInv
    <3>4. IdsInv'
      BY <3>1, <3>2, <3>3, IdsFrame DEF OwnInv
    <3>5. Queued' = Queued
      BY <3>2, <3>3, NoRequestShows
    <3> QED
      BY <3>1, <3>3, <3>4, <3>5, Stutters DEF OwnInv, ServiceStep
  <2> QED
    BY <2>1, <2>2
<1>8. CASE FinishSlot \/ AbortSlot
  <2>1. PICK i \in slots, error \in BOOLEAN : Released(i, error)
    BY <1>8, ServerQueueAssumption DEF FinishSlot, AbortSlot
  <2> QED
    BY <2>1, OwnReleased
<1>9. CASE YieldEnd
  <2>1. CASE busy
    BY <1>1, <1>9, <2>1 DEF YieldEnd, places
  <2>2. CASE ~busy
    BY <1>9, <2>2, OwnReturns DEF YieldEnd
  <2> QED
    BY <2>1, <2>2
<1>10. CASE YieldWakes
  <2>1. CASE busy
    BY <1>1, <1>10, <2>1 DEF YieldWakes, places
  <2>2. CASE ~busy
    BY <1>10, <2>2, OwnReturns DEF YieldWakes
  <2> QED
    BY <2>1, <2>2
<1> QED
  BY <1>2, <1>3, <1>4, <1>5, <1>6, <1>7, <1>8, <1>9, <1>10 DEF MainStep

LEMMA OwnWorker == ASSUME TypeOK, OwnInv, WorkerStep PROVE OwnInv' /\ ServiceStep
<1>1. CASE UNCHANGED places /\ UNCHANGED <<id, cpc, mine, slots, results>>
  BY <1>1, OwnFrame
<1>2. CASE WorkerWaits \/ WorkerDrained \/ WorkerChecks \/ WorkerWakes \/ WorkerSignals \/ WorkerNotifies
  BY <1>1, <1>2 DEF WorkerWaits, WorkerDrained, WorkerChecks, WorkerWakes, WorkerSignals, WorkerNotifies, places
<1>3. CASE WorkerTakes
  <2>1. /\ queue_tasks # <<>> /\ queue_tasks' = Tail(queue_tasks) /\ worker_task' = <<Head(queue_tasks)>>
        /\ InWorker = {}
        /\ UNCHANGED <<queue_tasks_deferred, queue_tasks_unhandled, main_task, id, cpc, mine, slots, results>>
    BY <1>3, InHands DEF WorkerTakes
  <2>2. PlacesInv' /\ Present' = Present
    BY <2>1, PlacesTakes, PresentType DEF OwnInv
  <2> QED
    BY <2>1, <2>2, OwnMoves
<1>4. CASE WorkerAnswers \/ WorkerThrows
  <2>1. PICK t \in Tasks : t = worker_task[1] /\ InWorker = {t}
    BY <1>4, InHands DEF WorkerAnswers, WorkerThrows
  <2>2. /\ t.kind = "METRICS" /\ worker_task' = <<>>
        /\ UNCHANGED <<queue_tasks, queue_tasks_deferred, queue_tasks_unhandled, main_task, id, cpc, mine, slots>>
        /\ Send(t.id, FALSE) \/ results' = results
    BY <1>4, <2>1 DEF WorkerAnswers, WorkerThrows, ReadOnly
  <2>3. PlacesInv' /\ Dropped(t)
    BY <2>1, <2>2, PresentType, PlacesDrops DEF OwnInv
  <2>4. t \in Present /\ Present' \subseteq Present
    BY <2>3 DEF Dropped
  <2>5. CASE Send(t.id, FALSE)
    BY <2>2, <2>3, <2>4, <2>5, OwnAnswered
  <2>6. CASE results' = results
    <3>1. IdsInv'
      BY <2>2, <2>4, IdsFrame DEF OwnInv
    <3>2. /\ Service!Request("METRICS", t.id) \in Queued
          /\ Queued' = Queued \ {Service!Request("METRICS", t.id)}
      BY <2>2, <2>3, RequestGoes
    <3>3. Reserved' = Reserved /\ Awaited' = Awaited
      BY <2>2 DEF Reserved, Awaited
    <3>4. Service!Lose(t.id)
      BY <2>2, <2>6, <3>2, <3>3 DEF Service!Lose
    <3>5. PICK r \in Queued : r.id = t.id
      BY <3>2 DEF Service!Request
    <3>6. Service!Next
      BY <3>4, <3>5 DEF Service!Next
    <3> QED
      BY <2>3, <3>1, <3>6 DEF OwnInv, ServiceStep
  <2> QED
    BY <2>2, <2>5, <2>6
<1>5. CASE WorkerDeclines
  <2>1. PICK t \in Tasks : worker_task = <<t>>
    BY <1>5, InHands DEF WorkerDeclines
  <2>2. /\ worker_task' = <<>> /\ queue_tasks_unhandled' = queue_tasks_unhandled \o worker_task
        /\ UNCHANGED <<queue_tasks, queue_tasks_deferred, main_task, id, cpc, mine, slots, results>>
    BY <1>5 DEF WorkerDeclines
  <2>3. PlacesInv' /\ Present' = Present
    BY <2>1, <2>2, PlacesDeclines, PresentType DEF OwnInv
  <2> QED
    BY <2>2, <2>3, OwnMoves
<1> QED
  BY <1>2, <1>3, <1>4, <1>5 DEF WorkerStep

(* A client that has no request waits.                                      *)
LEMMA OwnWaits ==
    ASSUME TypeOK, OwnInv, NEW c \in Http, NEW at \in {"sleepWait", "awake"}, cpc[c] \notin {"ready", "posted"},
           cpc' = cpc \/ cpc' = [cpc EXCEPT ![c] = at], UNCHANGED places, UNCHANGED <<id, mine, slots, results>>
    PROVE  OwnInv' /\ ServiceStep
<1>1. PlacesInv' /\ Present' = Present
  BY PlacesSame DEF OwnInv
<1>2. \A d \in Http : /\ cpc'[d] = "ready" <=> cpc[d] = "ready"
                      /\ cpc'[d] = "posted" <=> cpc[d] = "posted"
  BY DEF TypeOK
<1>3. IdsInv'
  BY <1>1, <1>2 DEF OwnInv, IdsInv
<1>4. Queued' = Queued /\ Reserved' = Reserved /\ Awaited' = Awaited
  BY <1>1, <1>2, NoRequestShows DEF Reserved, Awaited
<1> QED
  BY <1>1, <1>3, <1>4 DEF OwnInv, ServiceStep, Service!vars

LEMMA OwnDraws == ASSUME TypeOK, OwnInv, NEW c \in Http, GetNewId(c) PROVE OwnInv' /\ ServiceStep
<1>1. /\ cpc[c] = "awake" /\ mine' = [mine EXCEPT ![c] = id] /\ id' = id + 1 /\ cpc' = [cpc EXCEPT ![c] = "ready"]
      /\ UNCHANGED places /\ UNCHANGED <<slots, results>> /\ id \in Nat
  BY DEF GetNewId, places, TypeOK
<1>2. PlacesInv' /\ Present' = Present
  BY <1>1, PlacesSame DEF OwnInv
<1>3. /\ cpc'[c] = "ready" /\ mine'[c] = id
      /\ \A d \in Http : d # c => cpc'[d] = cpc[d] /\ mine'[d] = mine[d]
  BY <1>1 DEF TypeOK
<1>4. /\ \A t \in Present : t.id < id /\ t.target < id
      /\ \A i \in slots : i < id
      /\ \A d \in Http : mine[d] < id
  BY DEF OwnInv, IdsInv
<1>5. IdsInv'
  <2>0. /\ \A t \in Present : t.id \in Int /\ t.target \in Int
        /\ \A i \in slots : i \in Int
        /\ \A d \in Http : mine[d] \in Int
    BY PresentType DEF OwnInv, TypeOK, Tasks, NoId, Ids
  <2>1. ASSUME NEW t \in Present'
        PROVE  /\ t.id < id' /\ t.target < id'
               /\ \A d \in Http : /\ cpc'[d] = "ready" => mine'[d] # t.id
                                  /\ mine'[d] = t.target => t.target = NoId
    <3>1. t \in Present /\ t.id < id /\ t.target < id /\ t.id \in Int /\ t.target \in Int
      BY <1>2, <1>4, <2>0
    <3>2. t.id < id' /\ t.target < id' /\ t.id # id /\ t.target # id
      BY <1>1, <3>1
    <3> QED
      BY <1>3, <3>1, <3>2 DEF OwnInv, IdsInv
  <2>2. ASSUME NEW i \in slots'
        PROVE  i < id' /\ \A d \in Http : cpc'[d] = "ready" => mine'[d] # i
    <3>1. i \in slots /\ i < id' /\ i # id
      BY <1>1, <1>4, <2>0
    <3> QED
      BY <1>3, <3>1 DEF OwnInv, IdsInv
  <2>3. ASSUME NEW d \in Http
        PROVE  /\ mine'[d] < id'
               /\ mine'[d] # NoId <=> cpc'[d] \in {"ready", "posted"}
               /\ \A e \in Http : mine'[d] = mine'[e] /\ mine'[d] # NoId => d = e
    <3>1. mine'[d] < id'
      BY <1>1, <1>3, <1>4, <2>0
    <3>2. \A e \in Http : mine[e] # id
      BY <1>1, <1>4, <2>0
    <3>3. id # NoId
      BY <1>1 DEF NoId
    <3> QED
      BY <1>3, <3>1, <3>2, <3>3 DEF OwnInv, IdsInv
  <2> QED
    BY <2>1, <2>2, <2>3 DEF IdsInv
<1>6. Queued' = Queued
  BY <1>2, NoRequestShows
<1>7. Reserved' = Reserved \cup {id} /\ Awaited' = Awaited
  <2>1. \A x : x \in Reserved' <=> x \in Reserved \cup {id}
    BY <1>1, <1>3 DEF Reserved
  <2>2. \A x : x \in Awaited' <=> x \in Awaited
    BY <1>1, <1>3 DEF Awaited
  <2> QED
    BY <2>1, <2>2
<1>8. Service!Reserve
  BY <1>1, <1>6, <1>7 DEF Service!Reserve
<1> QED
  BY <1>2, <1>5, <1>8 DEF OwnInv, ServiceStep, Service!Next

LEMMA OwnPosts == ASSUME TypeOK, OwnInv, NEW c \in Http, PostRequest(c) PROVE OwnInv' /\ ServiceStep
<1>1. PICK kind \in {"INFER", "METRICS"}, front \in BOOLEAN : Post(Request(kind, mine[c]), front)
  BY DEF PostRequest
<1>2. PICK t \in Tasks : t = Request(kind, mine[c]) /\ t.kind = kind /\ t.id = mine[c] /\ t.target = NoId
  BY TaskType DEF PostRequest, TypeOK, Request
<1>3. /\ cpc[c] = "ready" /\ cpc' = [cpc EXCEPT ![c] = "posted"]
      /\ UNCHANGED <<main_task, worker_task, id, mine, slots, results>>
  BY DEF PostRequest
<1>4. /\ cpc'[c] = "posted" /\ \A d \in Http : d # c => cpc'[d] = cpc[d]
  BY <1>3 DEF TypeOK
<1>5. mine[c] # NoId /\ \A d \in Http : d # c => mine[d] # mine[c]
  BY <1>3 DEF OwnInv, IdsInv
<1>6. \A u \in Present : u.id # t.id
  BY <1>2, <1>3 DEF OwnInv, IdsInv
<1>7. PlacesInv' /\ Present' = {t} \cup Present
  BY <1>1, <1>2, <1>3, <1>6, PlacesPost, PresentType DEF OwnInv
<1>8. IdsInv'
  <2>1. t.id < id /\ t.target < id
    BY <1>2 DEF OwnInv, IdsInv, TypeOK, NoId
  <2>2. ASSUME NEW u \in Present'
        PROVE  /\ u.id < id' /\ u.target < id'
               /\ \A d \in Http : /\ cpc'[d] = "ready" => mine'[d] # u.id
                                  /\ mine'[d] = u.target => u.target = NoId
    <3>1. CASE u = t
      BY <1>2, <1>3, <1>4, <1>5, <2>1, <3>1
    <3>2. CASE u \in Present
      BY <1>3, <1>4, <3>2 DEF OwnInv, IdsInv
    <3> QED
      BY <1>7, <3>1, <3>2
  <2>3. ASSUME NEW i \in slots'
        PROVE  i < id' /\ \A d \in Http : cpc'[d] = "ready" => mine'[d] # i
    BY <1>3, <1>4 DEF OwnInv, IdsInv
  <2>4. ASSUME NEW d \in Http
        PROVE  /\ mine'[d] < id'
               /\ mine'[d] # NoId <=> cpc'[d] \in {"ready", "posted"}
               /\ \A e \in Http : mine'[d] = mine'[e] /\ mine'[d] # NoId => d = e
    BY <1>3, <1>4, <1>5 DEF OwnInv, IdsInv
  <2> QED
    BY <2>2, <2>3, <2>4 DEF IdsInv
<1>9. Queued' = Queued \cup {Service!Request(kind, mine[c])}
  <2>1. Service!Request(kind, mine[c]) = [kind |-> kind, id |-> mine[c]]
    BY DEF Service!Request
  <2>2. \A x : x \in Queued' <=> x \in Queued \/ x = [kind |-> kind, id |-> mine[c]]
    BY <1>2, <1>7 DEF Queued, Requested
  <2> QED
    BY <2>1, <2>2
<1>10. mine[c] \in Reserved /\ Reserved' = Reserved \ {mine[c]} /\ Awaited' = Awaited \cup {mine[c]}
  <2>1. \A x : x \in Reserved' <=> x \in Reserved /\ x # mine[c]
    BY <1>3, <1>4, <1>5 DEF Reserved
  <2>2. \A x : x \in Awaited' <=> x \in Awaited \/ x = mine[c]
    BY <1>3, <1>4 DEF Awaited
  <2> QED
    BY <1>3, <2>1, <2>2 DEF Reserved
<1>11. Service!Submit(kind, mine[c])
  BY <1>3, <1>9, <1>10 DEF Service!Submit
<1> QED
  BY <1>7, <1>8, <1>10, <1>11 DEF OwnInv, ServiceStep, Service!Next

(* The request of client c is left: answered, or not wanted any more.       *)
LEMMA OwnLeaves ==
    ASSUME TypeOK, OwnInv, NEW c \in Http, cpc[c] = "posted", Leave(c),
           UNCHANGED <<queue_tasks, queue_tasks_deferred, queue_tasks_unhandled>> \/ PostCancel(mine[c])
    PROVE  OwnInv' /\ ServiceStep
<1>1. PICK i \in Nat : i = mine[c]
  BY DEF TypeOK
<1>2. /\ cpc' = [cpc EXCEPT ![c] = "idle"] /\ mine' = [mine EXCEPT ![c] = NoId]
      /\ results' = {r \in results : r.id # i}
      /\ UNCHANGED <<id, main_task, worker_task, slots>>
  BY <1>1 DEF Leave
<1>3. /\ cpc'[c] = "idle" /\ mine'[c] = NoId /\ i # NoId
      /\ \A d \in Http : d # c => cpc'[d] = cpc[d] /\ mine'[d] = mine[d] /\ mine[d] # i
  BY <1>1, <1>2 DEF TypeOK, OwnInv, IdsInv, NoId
<1>4. /\ PlacesInv' /\ \A t \in Present' : t \in Present \/ t = Cancel(i)
      /\ {t \in Present : t.id # i} \subseteq Present'
      /\ \/ {t \in Present' : t.id = i} = {}
         \/ {t \in Present' : t.id = i} = {t \in Present : t.id = i}
  <2>1. CASE UNCHANGED <<queue_tasks, queue_tasks_deferred, queue_tasks_unhandled>>
    <3>1. UNCHANGED places
      BY <1>2, <2>1 DEF places
    <3> QED
      BY <3>1, PlacesSame DEF OwnInv
  <2>2. CASE PostCancel(i)
    <3>1. PlacesOK /\ UNCHANGED <<main_task, worker_task>>
      BY <1>2, PresentType DEF OwnInv
    <3> QED
      BY <2>2, <3>1, PlacesCancel
  <2> QED
    BY <1>1, <2>1, <2>2
<1>5. Cancel(i).id = NoId /\ Cancel(i).target = i /\ Cancel(i).kind = "CANCEL"
  BY DEF Cancel
<1>6. IdsInv'
  <2>1. i < id /\ NoId < id
    BY <1>1 DEF OwnInv, IdsInv, TypeOK, NoId
  <2>2. ASSUME NEW u \in Present'
        PROVE  /\ u.id < id' /\ u.target < id'
               /\ \A d \in Http : /\ cpc'[d] = "ready" => mine'[d] # u.id
                                  /\ mine'[d] = u.target => u.target = NoId
    <3>1. CASE u = Cancel(i)
      BY <1>2, <1>3, <1>5, <2>1, <3>1 DEF OwnInv, IdsInv
    <3>2. CASE u \in Present
      BY <1>2, <1>3, <3>2 DEF OwnInv, IdsInv
    <3> QED
      BY <1>4, <3>1, <3>2
  <2>3. ASSUME NEW j \in slots'
        PROVE  j < id' /\ \A d \in Http : cpc'[d] = "ready" => mine'[d] # j
    BY <1>2, <1>3 DEF OwnInv, IdsInv
  <2>4. ASSUME NEW d \in Http
        PROVE  /\ mine'[d] < id'
               /\ mine'[d] # NoId <=> cpc'[d] \in {"ready", "posted"}
               /\ \A e \in Http : mine'[d] = mine'[e] /\ mine'[d] # NoId => d = e
    BY <1>2, <1>3, <2>1 DEF OwnInv, IdsInv
  <2> QED
    BY <2>2, <2>3, <2>4 DEF IdsInv
<1>7. Queued' \in {Queued, {q \in Queued : q.id # i}}
  <2>1. ASSUME {t \in Present' : t.id = i} = {} PROVE Queued' = {q \in Queued : q.id # i}
    <3>1. \A q \in Queued' : q \in Queued /\ q.id # i
      BY <1>4, <1>5, <2>1 DEF Queued, Requested
    <3>2. \A q \in Queued : q.id # i => q \in Queued'
      BY <1>4 DEF Queued, Requested
    <3> QED
      BY <3>1, <3>2
  <2>2. ASSUME {t \in Present' : t.id = i} = {t \in Present : t.id = i} PROVE Queued' = Queued
    <3>1. \A t \in Present : t \in Present'
      BY <1>4, <2>2
    <3>2. \A t \in Present' : t \in Present \/ t.kind \notin {"INFER", "METRICS"}
      BY <1>4, <1>5
    <3> QED
      BY <3>1, <3>2, NoRequestShows
  <2> QED
    BY <1>4, <2>1, <2>2
<1>8. i \in Awaited /\ Awaited' = Awaited \ {i} /\ Reserved' = Reserved
  <2>1. \A x : x \in Awaited' <=> x \in Awaited /\ x # i
    BY <1>1, <1>2, <1>3 DEF Awaited
  <2>2. \A x : x \in Reserved' <=> x \in Reserved
    BY <1>2, <1>3 DEF Reserved
  <2> QED
    BY <1>1, <2>1, <2>2 DEF Awaited
<1>9. Service!Leave(i)
  BY <1>2, <1>7, <1>8 DEF Service!Leave
<1> QED
  BY <1>4, <1>6, <1>8, <1>9 DEF OwnInv, ServiceStep, Service!Next

LEMMA OwnHttp == ASSUME TypeOK, OwnInv, NEW c \in Http, HttpStep(c) PROVE OwnInv' /\ ServiceStep
<1>1. CASE AwaitAwake(c) \/ AwakeAgain(c) \/ ProbeStarts(c)
  <2>1. cpc[c] \in {"idle", "sleepWait"} /\ UNCHANGED places /\ UNCHANGED <<id, mine, slots, results>>
    BY <1>1 DEF AwaitAwake, AwakeAgain, ProbeStarts, places
  <2>2. PICK at \in {"sleepWait", "awake"} : cpc' = cpc \/ cpc' = [cpc EXCEPT ![c] = at]
    BY <1>1 DEF AwaitAwake, AwakeAgain, ProbeStarts
  <2> QED
    BY <2>1, <2>2, OwnWaits
<1>2. CASE Receive(c) \/ ReceiveError(c) \/ StopReading(c)
  BY <1>2, OwnLeaves DEF Receive, ReceiveError, StopReading
<1> QED
  BY <1>1, <1>2, OwnDraws, OwnPosts DEF HttpStep

LEMMA OwnStep == ASSUME TypeOK, OwnInv, [Next]_vars PROVE OwnInv' /\ ServiceStep
<1>1. CASE ElapseIdle \/ Terminate \/ UNCHANGED vars
  BY <1>1, OwnFrame DEF ElapseIdle, Terminate, vars, places
<1> QED
  BY <1>1, OwnMain, OwnWorker, OwnHttp DEF Next

LEMMA OwnInitially == ASSUME Init PROVE OwnInv /\ Service!Init
<1>1. /\ Queue = {} /\ Deferred = {} /\ Unhandled = {} /\ InMain = {} /\ InWorker = {}
      /\ Once(queue_tasks) /\ Once(queue_tasks_deferred) /\ Once(queue_tasks_unhandled)
  BY SetEmpty DEF Init, Queue, Deferred, Unhandled, InMain, InWorker
<1>2. PlacesInv /\ Present = {}
  BY <1>1, PresentIs DEF PlacesInv, Apart
<1>3. slots = {} /\ id = 0 /\ results = {} /\ \A c \in Http : cpc[c] = "idle" /\ mine[c] = NoId
  BY DEF Init
<1>4. IdsInv
  BY <1>2, <1>3 DEF IdsInv, NoId
<1>5. Queued = {} /\ Reserved = {} /\ Awaited = {}
  BY <1>2, <1>3 DEF Queued, Requested, Reserved, Awaited
<1> QED
  BY <1>2, <1>3, <1>4, <1>5 DEF OwnInv, Service!Init

(* The queue implements the task service: whatever the two threads, the     *)
(* deques, the yields and the clients do, an id is drawn once, a request is *)
(* served from the queue at most once and in a slot if it generates, it is  *)
(* answered at most once and only to somebody who waits, and a generation   *)
(* is broken off only when nobody does.                                     *)
THEOREM ServesRequests == Spec => Implements
<1>1. Init => OwnInv /\ Service!Init
  BY OwnInitially
<1>2. TypeOK /\ OwnInv /\ [Next]_vars => OwnInv' /\ [Service!Next]_(Service!vars)
  BY OwnStep DEF ServiceStep
<1> QED
  BY TypeCorrect, <1>1, <1>2, PTL DEF Spec, Implements, Service!Spec

----------------------------------------------------------------------------
(* The order of the pending tasks.  Precedes is what a sequence says of     *)
(* order: it is computed for a concatenation, and the steps insert a task   *)
(* that was not there or take tasks out.                                    *)

LEMMA PrecedesIn ==
    ASSUME NEW q, NEW a, NEW b, Precedes(q, a, b)
    PROVE  a \in ToSet(q) /\ b \in ToSet(q)
BY DEF Precedes, ToSet

LEMMA PrecedesConcat ==
    ASSUME NEW p \in Seq(Tasks), NEW q \in Seq(Tasks), NEW a, NEW b
    PROVE  Precedes(p \o q, a, b) <=>
              \/ Precedes(p, a, b) \/ Precedes(q, a, b)
              \/ (a \in ToSet(p) /\ b \in ToSet(q))
<1> DEFINE r == p \o q
<1>1. /\ Len(p) \in Nat /\ DOMAIN p = 1 .. Len(p) /\ DOMAIN q = 1 .. Len(q) /\ Len(q) \in Nat
      /\ \A k \in DOMAIN p : k \in DOMAIN r /\ r[k] = p[k]
      /\ \A k \in DOMAIN q : k + Len(p) \in DOMAIN r /\ r[k + Len(p)] = q[k]
      /\ \A k \in DOMAIN r : IF k <= Len(p) THEN k \in DOMAIN p ELSE k - Len(p) \in DOMAIN q
      /\ DOMAIN r \subseteq Int
  BY ConcatIs, LenProperties
<1> HIDE DEF r
<1>2. ASSUME Precedes(p, a, b) PROVE Precedes(r, a, b)
  BY <1>1, <1>2 DEF Precedes
<1>3. ASSUME Precedes(q, a, b) PROVE Precedes(r, a, b)
  <2>1. PICK i \in DOMAIN q, j \in DOMAIN q : i < j /\ q[i] = a /\ q[j] = b
    BY <1>3 DEF Precedes
  <2>2. i + Len(p) < j + Len(p)
    BY <1>1, <2>1
  <2> QED
    BY <1>1, <2>1, <2>2 DEF Precedes
<1>4. ASSUME a \in ToSet(p), b \in ToSet(q) PROVE Precedes(r, a, b)
  <2>1. PICK i \in DOMAIN p, j \in DOMAIN q : p[i] = a /\ q[j] = b
    BY <1>4 DEF ToSet
  <2>2. i < j + Len(p)
    BY <1>1, <2>1
  <2> QED
    BY <1>1, <2>1, <2>2 DEF Precedes
<1>5. ASSUME Precedes(r, a, b)
      PROVE  Precedes(p, a, b) \/ Precedes(q, a, b) \/ (a \in ToSet(p) /\ b \in ToSet(q))
  <2>1. PICK i \in DOMAIN r, j \in DOMAIN r : i < j /\ r[i] = a /\ r[j] = b
    BY <1>5 DEF Precedes
  <2>2. \A k \in DOMAIN r : ~(k <= Len(p)) => k - Len(p) \in DOMAIN q /\ r[k] = q[k - Len(p)]
    BY <1>1
  <2>3. CASE j <= Len(p)
    <3>1. i \in DOMAIN p /\ j \in DOMAIN p
      BY <1>1, <2>1, <2>3
    <3> QED
      BY <1>1, <2>1, <3>1 DEF Precedes
  <2>4. CASE i <= Len(p) /\ ~(j <= Len(p))
    BY <1>1, <2>1, <2>2, <2>4 DEF ToSet
  <2>5. CASE ~(i <= Len(p))
    <3>1. ~(j <= Len(p)) /\ i - Len(p) < j - Len(p)
      BY <1>1, <2>1, <2>5
    <3> QED
      BY <2>1, <2>2, <2>5, <3>1 DEF Precedes
  <2> QED
    BY <2>3, <2>4, <2>5
<1> QED
  BY <1>2, <1>3, <1>4, <1>5 DEF r

LEMMA PrecedesOne == ASSUME NEW t \in Tasks, NEW a, NEW b PROVE ~Precedes(<<t>>, a, b)
BY DEF Precedes

(* No task is in a deque twice.                                             *)
Distinct(q) == \A x \in ToSet(q) : ~Precedes(q, x, x)

LEMMA DistinctConcat ==
    ASSUME NEW p \in Seq(Tasks), NEW q \in Seq(Tasks)
    PROVE  Distinct(p \o q) <=> Distinct(p) /\ Distinct(q) /\ ToSet(p) \cap ToSet(q) = {}
BY PrecedesConcat, PrecedesIn, SetConcat DEF Distinct

(* r is s without some of its tasks.                                        *)
Thins(s, r) ==
    /\ ToSet(r) \subseteq ToSet(s)
    /\ \A a, b : Precedes(r, a, b) => Precedes(s, a, b)
    /\ \A a, b \in ToSet(r) : Precedes(s, a, b) => Precedes(r, a, b)

LEMMA ThinsSame == ASSUME NEW q PROVE Thins(q, q)
BY DEF Thins

LEMMA ThinsDistinct == ASSUME NEW s, NEW r, Thins(s, r), Distinct(s) PROVE Distinct(r)
BY DEF Thins, Distinct

LEMMA ThinsConcat ==
    ASSUME NEW p \in Seq(Tasks), NEW q \in Seq(Tasks), Distinct(p \o q),
           NEW u \in Seq(Tasks), NEW v \in Seq(Tasks), Thins(p, u), Thins(q, v)
    PROVE  Thins(p \o q, u \o v)
<1>1. ToSet(p \o q) = ToSet(p) \cup ToSet(q) /\ ToSet(u \o v) = ToSet(u) \cup ToSet(v)
  BY SetConcat
<1>2. ToSet(p) \cap ToSet(q) = {}
  BY DistinctConcat
<1>3. ASSUME NEW a, NEW b, Precedes(u \o v, a, b) PROVE Precedes(p \o q, a, b)
  <2>1. Precedes(u, a, b) \/ Precedes(v, a, b) \/ (a \in ToSet(u) /\ b \in ToSet(v))
    BY <1>3, PrecedesConcat
  <2>2. Precedes(p, a, b) \/ Precedes(q, a, b) \/ (a \in ToSet(p) /\ b \in ToSet(q))
    BY <2>1 DEF Thins
  <2> QED
    BY <2>2, PrecedesConcat
<1>4. ASSUME NEW a \in ToSet(u \o v), NEW b \in ToSet(u \o v), Precedes(p \o q, a, b)
      PROVE  Precedes(u \o v, a, b)
  <2>1. Precedes(p, a, b) \/ Precedes(q, a, b) \/ (a \in ToSet(p) /\ b \in ToSet(q))
    BY <1>4, PrecedesConcat
  <2>2. /\ Precedes(p, a, b) => a \in ToSet(p) /\ b \in ToSet(p)
        /\ Precedes(q, a, b) => a \in ToSet(q) /\ b \in ToSet(q)
    BY PrecedesIn
  <2>3. /\ a \in ToSet(u) \/ a \in ToSet(v)
        /\ b \in ToSet(u) \/ b \in ToSet(v)
        /\ ToSet(u) \subseteq ToSet(p) /\ ToSet(v) \subseteq ToSet(q)
    BY <1>1, <1>4 DEF Thins
  <2>4. Precedes(u, a, b) \/ Precedes(v, a, b) \/ (a \in ToSet(u) /\ b \in ToSet(v))
    BY <1>2, <2>1, <2>2, <2>3 DEF Thins
  <2> QED
    BY <2>4, PrecedesConcat
<1> QED
  BY <1>1, <1>3, <1>4 DEF Thins

LEMMA HeadAndTail ==
    ASSUME NEW q \in Seq(Tasks), q # <<>>
    PROVE  \E t \in Tasks : \E r \in Seq(Tasks) : t = Head(q) /\ r = Tail(q) /\ q = <<t>> \o r
<1>1. Head(q) \in Tasks /\ Tail(q) \in Seq(Tasks) /\ q = <<Head(q)>> \o Tail(q)
  BY HeadTailProperties, SMT
<1> QED
  BY <1>1

(* One task is taken out.                                                   *)
LEMMA ThinsOut ==
    ASSUME NEW p \in Seq(Tasks), NEW q \in Seq(Tasks), NEW t \in Tasks, Distinct(p \o (<<t>> \o q))
    PROVE  Thins(p \o (<<t>> \o q), p \o q)
<1>1. <<t>> \in Seq(Tasks) /\ ToSet(<<t>>) = {t} /\ <<t>> \o q \in Seq(Tasks)
  BY SetOne, ConcatProperties
<1>2. Distinct(p) /\ Distinct(<<t>> \o q)
  BY <1>1, DistinctConcat
<1>3. Distinct(q) /\ t \notin ToSet(q)
  BY <1>1, <1>2, DistinctConcat
<1>4. \A a, b : Precedes(<<t>> \o q, a, b) <=> Precedes(q, a, b) \/ (a = t /\ b \in ToSet(q))
  BY <1>1, PrecedesConcat, PrecedesOne
<1>5. Thins(<<t>> \o q, q)
  <2>1. ToSet(<<t>> \o q) = {t} \cup ToSet(q)
    BY SetPush
  <2> QED
    BY <1>3, <1>4, <2>1 DEF Thins
<1> QED
  BY <1>1, <1>5, ThinsSame, ThinsConcat

(* s is q with task t somewhere.                                            *)
Adds(q, t, s) ==
    /\ ToSet(s) = {t} \cup ToSet(q)
    /\ \A a, b : Precedes(q, a, b) => Precedes(s, a, b)
    /\ Distinct(q) /\ t \notin ToSet(q) => Distinct(s)

LEMMA AddsIn ==
    ASSUME NEW p \in Seq(Tasks), NEW q \in Seq(Tasks), NEW t \in Tasks
    PROVE  Adds(p \o q, t, p \o (<<t>> \o q))
<1>1. <<t>> \in Seq(Tasks) /\ ToSet(<<t>>) = {t} /\ <<t>> \o q \in Seq(Tasks)
  BY SetOne, ConcatProperties
<1>2. \A a, b : Precedes(<<t>> \o q, a, b) <=> Precedes(q, a, b) \/ (a = t /\ b \in ToSet(q))
  BY <1>1, PrecedesConcat, PrecedesOne
<1>3. /\ ToSet(<<t>> \o q) = {t} \cup ToSet(q)
      /\ ToSet(p \o q) = ToSet(p) \cup ToSet(q)
      /\ ToSet(p \o (<<t>> \o q)) = ToSet(p) \cup ToSet(<<t>> \o q)
  BY <1>1, SetConcat, SetPush
<1>4. \A a, b : Precedes(p \o q, a, b) => Precedes(p \o (<<t>> \o q), a, b)
  BY <1>1, <1>2, <1>3, PrecedesConcat
<1>5. ASSUME Distinct(p \o q), t \notin ToSet(p \o q) PROVE Distinct(p \o (<<t>> \o q))
  <2>1. Distinct(p) /\ Distinct(q) /\ ToSet(p) \cap ToSet(q) = {}
    BY <1>5, DistinctConcat
  <2>2. Distinct(<<t>> \o q)
    <3>1. \A x : Precedes(q, x, x) => x \in ToSet(q)
      BY PrecedesIn
    <3> QED
      BY <1>2, <1>3, <1>5, <2>1, <3>1 DEF Distinct
  <2> QED
    <3>1. ToSet(p) \cap ToSet(<<t>> \o q) = {}
      BY <1>3, <1>5, <2>1
    <3> QED
      BY <1>1, <2>1, <2>2, <3>1, DistinctConcat
<1> QED
  BY <1>3, <1>4, <1>5 DEF Adds

LEMMA AddsLast ==
    ASSUME NEW q \in Seq(Tasks), NEW t \in Tasks
    PROVE  Adds(q, t, q \o <<t>>)
<1>1. <<t>> \in Seq(Tasks) /\ <<>> \in Seq(Tasks)
  BY SetOne
<1>2. q \o <<>> = q /\ <<t>> \o <<>> = <<t>>
  BY <1>1, ConcatEmptySeq
<1> QED
  BY <1>1, <1>2, AddsIn

(* cleanup_pending_task takes one task out, or none.                        *)
LEMMA ThinsWithout ==
    ASSUME NEW q \in Seq(Tasks), NEW i, Distinct(q)
    PROVE  Without(q, i) \in Seq(Tasks) /\ Thins(q, Without(q, i))
<1>1. CASE \E k \in DOMAIN q : q[k].id = i
  <2>1. PICK k \in 1 .. Len(q), a \in Seq(Tasks), b \in Seq(Tasks) :
           /\ q[k].id = i /\ Without(q, i) = a \o b
           /\ DOMAIN a = 1 .. k - 1 /\ \A l \in 1 .. k - 1 : a[l] = q[l]
           /\ DOMAIN b = 1 .. Len(q) - k /\ \A l \in 1 .. Len(q) - k : b[l] = q[k + l]
    BY <1>1, WithoutParts
  <2>2. PICK n \in Nat : n = Len(q) /\ DOMAIN q = 1 .. n /\ k \in 1 .. n
    BY <2>1, LenProperties
  <2>3. PICK t \in Tasks : t = q[k]
    BY <2>2, ElementOfSeq
  <2> DEFINE s == <<t>> \o b
             r == a \o s
  <2>4. Len(a) = k - 1 /\ Len(b) = n - k
    <3>1. \A u, v \in Nat : 1 .. u = 1 .. v => u = v
      <4> SUFFICES ASSUME NEW u \in Nat, NEW v \in Nat, u # v PROVE 1 .. u # 1 .. v
        OBVIOUS
      <4>1. CASE u < v
        <5>1. v \in 1 .. v /\ v \notin 1 .. u
          BY <4>1
        <5> QED
          BY <5>1
      <4>2. CASE v < u
        <5>1. u \in 1 .. u /\ u \notin 1 .. v
          BY <4>2
        <5> QED
          BY <5>1
      <4> QED
        BY <4>1, <4>2
    <3>2. k - 1 \in Nat /\ n - k \in Nat
      BY <2>2
    <3>3. DOMAIN a = 1 .. Len(a) /\ Len(a) \in Nat /\ DOMAIN b = 1 .. Len(b) /\ Len(b) \in Nat
      BY LenProperties
    <3> QED
      BY <2>1, <2>2, <3>1, <3>2, <3>3
  <2>5. /\ s \in Seq(Tasks) /\ Len(s) = 1 + (n - k)
        /\ s[1] = t /\ \A l \in 1 .. n - k : s[1 + l] = b[l]
    <3>0. <<t>> \in Seq(Tasks) /\ Len(<<t>>) = 1 /\ <<t>>[1] = t
      OBVIOUS
    <3>1. PICK o \in Seq(Tasks) : o = <<t>> /\ Len(o) = 1 /\ o[1] = t
      BY <3>0
    <3>2. /\ o \o b \in Seq(Tasks) /\ Len(o \o b) = 1 + (n - k)
          /\ \A l \in 1 .. 1 + (n - k) : (o \o b)[l] = IF l <= 1 THEN o[l] ELSE b[l - 1]
      BY <2>4, <3>1, ConcatProperties
    <3>3. 1 \in 1 .. 1 + (n - k) /\ \A l \in 1 .. n - k : 1 + l \in 1 .. 1 + (n - k) /\ ~(1 + l <= 1) /\ (1 + l) - 1 = l
      BY <2>2
    <3> QED
      BY <3>1, <3>2, <3>3
  <2> HIDE DEF s
  <2>6. /\ r \in Seq(Tasks) /\ Len(r) = n
        /\ \A l \in 1 .. n : r[l] = IF l <= k - 1 THEN a[l] ELSE s[l - (k - 1)]
    <3>1. /\ r \in Seq(Tasks) /\ Len(r) = Len(a) + Len(s)
          /\ \A l \in 1 .. Len(a) + Len(s) : r[l] = IF l <= Len(a) THEN a[l] ELSE s[l - Len(a)]
      BY <2>5, ConcatProperties
    <3>2. Len(a) + Len(s) = n /\ \A l \in 1 .. n : (l <= Len(a) <=> l <= k - 1) /\ l - Len(a) = l - (k - 1)
      BY <2>2, <2>4, <2>5
    <3> HIDE DEF r
    <3>3. ASSUME NEW l \in 1 .. n PROVE r[l] = IF l <= k - 1 THEN a[l] ELSE s[l - (k - 1)]
      <4>1. r[l] = IF l <= Len(a) THEN a[l] ELSE s[l - Len(a)]
        BY <3>1, <3>2
      <4>2. (l <= Len(a) <=> l <= k - 1) /\ l - Len(a) = l - (k - 1)
        BY <3>2
      <4> QED
        BY <4>1, <4>2
    <3> QED
      BY <3>1, <3>2, <3>3
  <2> HIDE DEF r
  <2>7. ASSUME NEW l \in 1 .. n PROVE r[l] = q[l]
    <3>1. CASE l <= k - 1
      BY <2>1, <2>2, <2>6, <3>1
    <3>2. CASE l = k
      <4>1. ~(l <= k - 1) /\ l - (k - 1) = 1
        BY <2>2, <3>2
      <4> QED
        BY <2>3, <2>5, <2>6, <3>2, <4>1
    <3>3. CASE l > k
      <4>1. l - (k - 1) = 1 + (l - k) /\ l - k \in 1 .. n - k /\ k + (l - k) = l /\ ~(l <= k - 1)
        BY <2>2, <3>3
      <4>2. r[l] = b[l - k]
        BY <2>5, <2>6, <4>1
      <4> QED
        BY <2>1, <2>2, <4>1, <4>2
    <3> QED
      BY <2>2, <3>1, <3>2, <3>3
  <2>8. q = r
    BY <2>2, <2>6, <2>7, SeqEqual
  <2>9. Thins(q, a \o b)
    BY <2>8, ThinsOut DEF r, s
  <2> QED
    BY <2>1, <2>9, ConcatProperties
<1>2. CASE ~ \E k \in DOMAIN q : q[k].id = i
  BY <1>2, ThinsSame DEF Without
<1> QED
  BY <1>1, <1>2

----------------------------------------------------------------------------
(* No task is pending twice; only INFER tasks are deferred; and there is no *)
(* NEXT_RESPONSE task when update_slots is about to post one.               *)
OrderInv ==
    /\ Distinct(Pending)
    /\ \A t \in Deferred : t.kind = "INFER"
    /\ mpc = "update" => NextResponse \notin ToSet(Pending)

OrderKept ==
    \A a, b \in ToSet(Pending) :
        Precedes(Pending, a, b) /\ {a, b} \subseteq ToSet(Pending') => Precedes(Pending', a, b)

LEMMA PendingType ==
    ASSUME TypeOK
    PROVE  /\ Pending \in Seq(Tasks) /\ queue_tasks \in Seq(Tasks) /\ queue_tasks_unhandled \in Seq(Tasks)
           /\ worker_task \in Seq(Tasks) /\ queue_tasks_unhandled \o worker_task \in Seq(Tasks)
           /\ ToSet(Pending) = (Unhandled \cup InWorker) \cup Queue
<1>1. /\ queue_tasks \in Seq(Tasks) /\ queue_tasks_unhandled \in Seq(Tasks) /\ worker_task \in Seq(Tasks)
  BY DEF TypeOK
<1>2. /\ queue_tasks_unhandled \o worker_task \in Seq(Tasks)
      /\ ToSet(queue_tasks_unhandled \o worker_task) = Unhandled \cup InWorker
  BY <1>1, SetConcat, ConcatProperties DEF Unhandled, InWorker
<1>3. Pending = (queue_tasks_unhandled \o worker_task) \o queue_tasks
  BY DEF Pending
<1>4. (queue_tasks_unhandled \o worker_task) \o queue_tasks \in Seq(Tasks)
  BY <1>1, <1>2, ConcatProperties
<1> QED
  BY <1>1, <1>2, <1>3, <1>4, SetConcat DEF Queue

(* Nothing about the pending tasks changes.                                 *)
LEMMA OrderSame ==
    ASSUME OrderInv, Pending' = Pending, \A t \in Deferred' : t \in Deferred \/ t.kind = "INFER",
           mpc' = "update" => mpc = "update" \/ NextResponse \notin ToSet(Pending)
    PROVE  OrderInv' /\ OrderKept
<1>1. Distinct(Pending)'
  BY DEF OrderInv, Distinct
<1>2. (\A t \in Deferred : t.kind = "INFER")'
  BY DEF OrderInv
<1>3. (mpc = "update" => NextResponse \notin ToSet(Pending))'
  BY DEF OrderInv, NextResponse, Request
<1> QED
  BY <1>1, <1>2, <1>3 DEF OrderInv, OrderKept

LEMMA OrderThins ==
    ASSUME OrderInv, Thins(Pending, Pending'), Deferred' \subseteq Deferred, mpc' # "update"
    PROVE  OrderInv' /\ OrderKept
<1>1. Distinct(Pending)'
  BY ThinsDistinct DEF OrderInv, Distinct
<1>2. (\A t \in Deferred : t.kind = "INFER")'
  BY DEF OrderInv
<1> QED
  BY <1>1, <1>2 DEF OrderInv, OrderKept, Thins

(* A task comes that was not there; others may go.                          *)
LEMMA OrderAdds ==
    ASSUME OrderInv, NEW t, NEW r, Thins(Pending, r), Adds(r, t, Pending'), t \notin ToSet(Pending),
           Deferred' \subseteq Deferred, mpc' # "update" \/ (mpc = "update" /\ t.kind # "NEXT_RESPONSE")
    PROVE  OrderInv' /\ OrderKept
<1>1. Distinct(Pending') /\ ToSet(Pending') = {t} \cup ToSet(r) /\ ToSet(r) \subseteq ToSet(Pending)
  BY ThinsDistinct DEF OrderInv, Adds, Thins
<1>2. (\A u \in Deferred : u.kind = "INFER")'
  BY DEF OrderInv
<1>3. mpc' = "update" => NextResponse \notin ToSet(Pending')
  BY <1>1 DEF OrderInv, NextResponse, Request
<1>4. OrderKept
  <2> SUFFICES ASSUME NEW a \in ToSet(Pending), NEW b \in ToSet(Pending), Precedes(Pending, a, b),
                      a \in ToSet(Pending'), b \in ToSet(Pending')
               PROVE  Precedes(Pending', a, b)
    BY DEF OrderKept
  <2>1. a \in ToSet(r) /\ b \in ToSet(r)
    BY <1>1
  <2> QED
    BY <2>1 DEF Thins, Adds
<1>5. Distinct(Pending)'
  BY <1>1 DEF Distinct
<1>6. (mpc = "update" => NextResponse \notin ToSet(Pending))'
  BY <1>3 DEF NextResponse, Request
<1> QED
  BY <1>2, <1>4, <1>5, <1>6 DEF OrderInv

(* Outside a yield only the queue holds pending tasks.                      *)
LEMMA PendingQueue ==
    ASSUME TypeOK, ThreadInv
    PROVE  /\ mpc \notin Yielding => queue_tasks_unhandled = <<>> /\ worker_task = <<>> /\ Pending = queue_tasks
           /\ ~busy => worker_task = <<>> /\ Pending = queue_tasks_unhandled \o queue_tasks
<1>1. ~busy => worker_task = <<>>
  BY HandsEmpty DEF ThreadInv, WorkerBusy
<1>2. mpc \notin Yielding => ~busy /\ queue_tasks_unhandled = <<>>
  BY DEF ThreadInv, TypeOK
<1>3. /\ queue_tasks_unhandled \o <<>> = queue_tasks_unhandled
      /\ <<>> \o queue_tasks = queue_tasks
  BY PendingType, ConcatEmptySeq
<1>4. worker_task = <<>> => Pending = queue_tasks_unhandled \o queue_tasks
  BY <1>3 DEF Pending
<1> QED
  BY <1>1, <1>2, <1>3, <1>4

LEMMA OrderFrame ==
    ASSUME OrderInv, UNCHANGED places, mpc' = "update" => mpc = "update" \/ NextResponse \notin ToSet(Pending)
    PROVE  OrderInv' /\ OrderKept
<1>1. Pending' = Pending /\ Deferred' = Deferred
  BY DEF places, Pending, Deferred
<1> QED
  BY <1>1, OrderSame

(* pop_deferred_task puts a task before the queue that was not pending.     *)
LEMMA OrderPops ==
    ASSUME TypeOK, OwnInv, OrderInv, PopDeferred, UNCHANGED worker_task, mpc' # "update"
    PROVE  OrderInv' /\ OrderKept
<1>1. CASE queue_tasks_deferred = <<>>
  <2>1. Pending' = Pending /\ Deferred' = Deferred
    BY <1>1 DEF PopDeferred, Pending, Deferred
  <2> QED
    BY <2>1, OrderSame
<1>2. CASE queue_tasks_deferred # <<>>
  <2>1. PICK t \in Tasks : /\ t = Head(queue_tasks_deferred)
                           /\ Deferred = {t} \cup ToSet(Tail(queue_tasks_deferred))
    BY <1>2, SetPop DEF Deferred, TypeOK
  <2>2. Deferred' \subseteq Deferred /\ t \in Deferred
    BY <1>2, <2>1 DEF PopDeferred, Deferred
  <2>3. t.kind = "INFER" /\ t.id # NoId
    BY <2>2, TaskType DEF OrderInv, Tasks, NoId
  <2>4. t \notin ToSet(Pending)
    BY <2>2, <2>3, PendingType DEF OwnInv, PlacesInv, Apart
  <2> DEFINE p == queue_tasks_unhandled \o worker_task
  <2>5. Pending = p \o queue_tasks /\ Pending' = p \o (<<t>> \o queue_tasks)
    BY <1>2, <2>1 DEF PopDeferred, Pending
  <2>6. p \in Seq(Tasks) /\ queue_tasks \in Seq(Tasks)
    BY PendingType
  <2> HIDE DEF p
  <2>7. Adds(Pending, t, Pending')
    BY <2>5, <2>6, AddsIn
  <2> QED
    BY <2>2, <2>4, <2>7, ThinsSame, OrderAdds
<1> QED
  BY <1>1, <1>2

LEMMA OrderReturns ==
    ASSUME TypeOK, ThreadInv, OrderInv, ~busy, YieldReturns, UNCHANGED <<queue_tasks_deferred, worker_task>>
    PROVE  OrderInv' /\ OrderKept
<1>1. worker_task = <<>> /\ Pending = queue_tasks_unhandled \o queue_tasks
  BY PendingQueue
<1>2. Pending' = (<<>> \o <<>>) \o Pending
  BY <1>1 DEF YieldReturns, Requeued, Pending
<1>3. Pending' = Pending /\ Deferred' = Deferred
  BY <1>2, PendingType, ConcatEmptySeq DEF Deferred
<1>4. mpc' # "update"
  BY DEF YieldReturns
<1> QED
  BY <1>3, <1>4, OrderSame

LEMMA OrderMain == ASSUME TypeOK, ThreadInv, OwnInv, OrderInv, MainStep PROVE OrderInv' /\ OrderKept
<1>1. CASE UNCHANGED places /\ mpc' # "update"
  BY <1>1, OrderFrame
<1>2. CASE StartLoop \/ BatchThrows \/ AbortDone \/ EndUpdate \/ ShiftTimer
  BY <1>1, <1>2 DEF StartLoop, BatchThrows, AbortDone, EndUpdate, ShiftTimer, places
<1>3. CASE YieldBegin \/ YieldNotify \/ WorkEnds \/ StopWorker \/ StopNotify \/ JoinWorker
  BY <1>1, <1>3 DEF YieldBegin, YieldNotify, WorkEnds, StopWorker, StopNotify, JoinWorker, places
<1>4. CASE IdleCheck \/ IdleTimeout \/ IdleWakes \/ SleepWakes
  BY <1>1, <1>4 DEF IdleCheck, IdleTimeout, IdleWakes, SleepWakes, places
<1>5. CASE MainDrained
  <2>1. UNCHANGED places /\ (running => queue_tasks = <<>>) /\ mpc = "process"
        /\ (mpc' = "update" => running)
    BY <1>5 DEF MainDrained, places
  <2>2. Pending = queue_tasks
    BY <2>1, PendingQueue DEF Yielding
  <2> QED
    BY <2>1, <2>2, SetEmpty, OrderFrame
<1>6. CASE MainTakes
  <2>1. /\ queue_tasks # <<>> /\ queue_tasks' = Tail(queue_tasks) /\ mpc' = "handle"
        /\ queue_tasks_unhandled = <<>> /\ worker_task = <<>> /\ Pending = queue_tasks
        /\ UNCHANGED <<queue_tasks_deferred, queue_tasks_unhandled, worker_task>>
    BY <1>6, PendingQueue DEF MainTakes, Yielding
  <2>2. PICK t \in Tasks, q \in Seq(Tasks) : q = Tail(queue_tasks) /\ queue_tasks = <<t>> \o q
    BY <2>1, HeadAndTail, PendingType
  <2>3. /\ Pending' = (<<>> \o <<>>) \o q /\ <<>> \o q = q /\ <<>> \o (<<t>> \o q) = <<t>> \o q
        /\ <<>> \o <<>> = <<>> /\ <<>> \in Seq(Tasks)
    BY <2>1, <2>2, PendingType, ConcatEmptySeq DEF Pending
  <2>4. Thins(<<t>> \o q, q)
    BY <2>1, <2>2, <2>3, ThinsOut DEF OrderInv
  <2>5. Thins(Pending, Pending') /\ Deferred' = Deferred
    BY <2>1, <2>2, <2>3, <2>4 DEF Deferred
  <2> QED
    BY <2>1, <2>5, OrderThins
<1>7. CASE MainLaunches \/ MainRejects \/ MainAnswers \/ MainNextResponse
  <2>1. Pending' = Pending /\ Deferred' = Deferred /\ mpc' # "update"
    BY <1>7 DEF MainLaunches, MainRejects, MainAnswers, MainNextResponse, Handles, Pending, Deferred
  <2> QED
    BY <2>1, OrderSame
<1>8. CASE MainDefers
  <2>1. PICK t \in Tasks : t = main_task[1] /\ t.kind = "INFER"
    BY <1>8, InHands DEF MainDefers, Handles
  <2>2. Pending' = Pending /\ queue_tasks_deferred' = Append(queue_tasks_deferred, t) /\ mpc' # "update"
    BY <1>8, <2>1 DEF MainDefers, Handles, Pending
  <2>3. Deferred' = {t} \cup Deferred
    BY <2>2, SetPush DEF Deferred, TypeOK
  <2> QED
    BY <2>1, <2>2, <2>3, OrderSame
<1>9. CASE MainCancels
  <2>1. UNCHANGED worker_task /\ mpc' # "update"
    BY <1>9 DEF MainCancels, Handles
  <2>2. PopDeferred \/ UNCHANGED queueVars
    BY <1>9 DEF MainCancels
  <2>3. CASE UNCHANGED queueVars
    <3>1. Pending' = Pending /\ Deferred' = Deferred
      BY <2>1, <2>3 DEF Pending, Deferred
    <3> QED
      BY <2>1, <3>1, OrderSame
  <2> QED
    BY <2>1, <2>2, <2>3, OrderPops
<1>10. CASE UpdateSlots
  <2>1. CASE slots = {}
    BY <1>1, <1>10, <2>1 DEF UpdateSlots, places
  <2>2. CASE slots # {}
    <3>1. /\ mpc = "update" /\ mpc' = "batch" /\ queue_tasks' = Append(queue_tasks, NextResponse)
          /\ UNCHANGED <<queue_tasks_deferred, queue_tasks_unhandled, worker_task>>
      BY <1>10, <2>2 DEF UpdateSlots, Post
    <3>2. queue_tasks_unhandled = <<>> /\ worker_task = <<>> /\ Pending = queue_tasks
      BY <3>1, PendingQueue DEF Yielding
    <3>3. NextResponse \in Tasks /\ NextResponse \notin ToSet(Pending)
      BY <3>1, TaskType DEF OrderInv
    <3>4. Append(queue_tasks, NextResponse) = Pending \o <<NextResponse>>
      BY <3>2, <3>3, AppendIsConcat, PendingType
    <3>5. Pending' = (<<>> \o <<>>) \o (Pending \o <<NextResponse>>)
      BY <3>1, <3>2, <3>4 DEF Pending
    <3>6. <<NextResponse>> \in Seq(Tasks) /\ Pending \o <<NextResponse>> \in Seq(Tasks)
      BY <3>3, SetOne, PendingType, ConcatProperties
    <3>7. Pending' = Pending \o <<NextResponse>>
      BY <3>5, <3>6, ConcatEmptySeq
    <3>8. Adds(Pending, NextResponse, Pending') /\ Deferred' = Deferred
      BY <3>1, <3>3, <3>7, AddsLast, PendingType DEF Deferred
    <3> QED
      BY <3>1, <3>3, <3>8, ThinsSame, OrderAdds
  <2> QED
    BY <2>1, <2>2
<1>11. CASE FinishSlot \/ AbortSlot
  <2>1. PopDeferred /\ UNCHANGED worker_task /\ mpc' # "update"
    BY <1>11 DEF FinishSlot, AbortSlot, Released
  <2> QED
    BY <2>1, OrderPops
<1>12. CASE YieldEnd \/ YieldWakes
  <2>1. CASE busy
    BY <1>1, <1>12, <2>1 DEF YieldEnd, YieldWakes, places
  <2>2. CASE ~busy
    BY <1>12, <2>2, OrderReturns DEF YieldEnd, YieldWakes
  <2> QED
    BY <2>1, <2>2
<1> QED
  BY <1>2, <1>3, <1>4, <1>5, <1>6, <1>7, <1>8, <1>9, <1>10, <1>11, <1>12 DEF MainStep

LEMMA OrderWorker == ASSUME TypeOK, ThreadInv, OwnInv, OrderInv, WorkerStep PROVE OrderInv' /\ OrderKept
<1>0. mpc' = mpc /\ Deferred' = Deferred
  BY DEF WorkerStep, WorkerWaits, WorkerTakes, WorkerDrained, WorkerAnswers, WorkerThrows, WorkerDeclines,
         WorkerChecks, WorkerWakes, WorkerSignals, WorkerNotifies, Deferred
<1>1. CASE WorkerWaits \/ WorkerDrained \/ WorkerChecks \/ WorkerWakes \/ WorkerSignals \/ WorkerNotifies
  <2>1. UNCHANGED places
    BY <1>1 DEF WorkerWaits, WorkerDrained, WorkerChecks, WorkerWakes, WorkerSignals, WorkerNotifies, places
  <2> QED
    BY <1>0, <2>1, OrderFrame
<1>2. CASE WorkerTakes
  <2>1. /\ queue_tasks # <<>> /\ queue_tasks' = Tail(queue_tasks) /\ worker_task' = <<Head(queue_tasks)>>
        /\ worker_task = <<>> /\ UNCHANGED queue_tasks_unhandled
    BY <1>2, HandsEmpty DEF WorkerTakes
  <2>2. PICK t \in Tasks, q \in Seq(Tasks) : t = Head(queue_tasks) /\ q = Tail(queue_tasks) /\ queue_tasks = <<t>> \o q
    BY <2>1, HeadAndTail, PendingType
  <2>3. queue_tasks_unhandled \in Seq(Tasks) /\ <<t>> \in Seq(Tasks)
    BY PendingType, SetOne
  <2>4. Pending = queue_tasks_unhandled \o (<<t>> \o q)
    BY <2>1, <2>2, <2>3, ConcatEmptySeq DEF Pending
  <2>5. Pending' = (queue_tasks_unhandled \o <<t>>) \o q
    BY <2>1, <2>2 DEF Pending
  <2>6. Pending' = Pending
    BY <2>3, <2>4, <2>5, ConcatAssociative
  <2> QED
    BY <1>0, <2>6, OrderSame
<1>3. CASE WorkerAnswers \/ WorkerThrows
  <2>1. wpc = "handle" /\ worker_task' = <<>> /\ UNCHANGED <<queue_tasks, queue_tasks_unhandled>>
    BY <1>3 DEF WorkerAnswers, WorkerThrows
  <2>2. PICK t \in Tasks : worker_task = <<t>>
    BY <2>1, InHands
  <2>3. queue_tasks_unhandled \in Seq(Tasks) /\ <<t>> \in Seq(Tasks) /\ queue_tasks \in Seq(Tasks)
    BY PendingType, SetOne
  <2>4. Pending = queue_tasks_unhandled \o (<<t>> \o queue_tasks)
    BY <2>2, <2>3, ConcatAssociative DEF Pending
  <2>5. Pending' = queue_tasks_unhandled \o queue_tasks
    BY <2>1, <2>3, ConcatEmptySeq DEF Pending
  <2>6. Thins(Pending, Pending')
    BY <2>3, <2>4, <2>5, ThinsOut DEF OrderInv
  <2>7. mpc' # "update"
    BY <1>0, <2>1 DEF ThreadInv, WorkerBusy, Yielding
  <2> QED
    BY <1>0, <2>6, <2>7, OrderThins
<1>4. CASE WorkerDeclines
  <2>1. /\ worker_task' = <<>> /\ queue_tasks_unhandled' = queue_tasks_unhandled \o worker_task
        /\ UNCHANGED queue_tasks
    BY <1>4 DEF WorkerDeclines
  <2>2. (queue_tasks_unhandled \o worker_task) \o <<>> = queue_tasks_unhandled \o worker_task
    BY PendingType, ConcatEmptySeq
  <2>3. Pending' = Pending
    BY <2>1, <2>2 DEF Pending
  <2> QED
    BY <1>0, <2>3, OrderSame
<1> QED
  BY <1>1, <1>2, <1>3, <1>4 DEF WorkerStep

LEMMA OrderPosts ==
    ASSUME TypeOK, OwnInv, OrderInv, NEW c \in Http, PostRequest(c)
    PROVE  OrderInv' /\ OrderKept
<1>1. PICK kind \in {"INFER", "METRICS"}, front \in BOOLEAN : Post(Request(kind, mine[c]), front)
  BY DEF PostRequest
<1>2. PICK t \in Tasks : t = Request(kind, mine[c]) /\ t.kind = kind /\ t.id = mine[c]
  BY RequestId DEF PostRequest, TypeOK, Tasks, Request, NoId
<1>3. cpc[c] = "ready" /\ UNCHANGED <<mpc, worker_task, queue_tasks_deferred, queue_tasks_unhandled>>
  BY <1>1 DEF PostRequest, Post
<1>4. t \notin ToSet(Pending)
  <2>1. ToSet(Pending) \subseteq Present
    BY PendingType, PresentIs
  <2>2. \A u \in Present : mine[c] # u.id
    BY <1>3 DEF OwnInv, IdsInv
  <2> QED
    BY <1>2, <2>1, <2>2
<1> DEFINE p == queue_tasks_unhandled \o worker_task
<1>5. Pending = p \o queue_tasks /\ p \in Seq(Tasks) /\ queue_tasks \in Seq(Tasks) /\ <<t>> \in Seq(Tasks)
  BY PendingType, SetOne DEF Pending
<1>6. Pending' = p \o (<<t>> \o queue_tasks) \/ Pending' = p \o (queue_tasks \o <<t>>)
  BY <1>1, <1>2, <1>3, <1>5, AppendIsConcat DEF Post, Pending
<1> HIDE DEF p
<1>7. Adds(Pending, t, Pending')
  <2>1. CASE Pending' = p \o (<<t>> \o queue_tasks)
    BY <1>5, <2>1, AddsIn
  <2>2. CASE Pending' = p \o (queue_tasks \o <<t>>)
    <3>1. Pending' = Pending \o <<t>> /\ Pending \in Seq(Tasks)
      BY <1>5, <2>2, ConcatAssociative, ConcatProperties
    <3> QED
      BY <3>1, AddsLast
  <2> QED
    BY <1>6, <2>1, <2>2
<1>8. Deferred' = Deferred /\ t.kind # "NEXT_RESPONSE"
  BY <1>2, <1>3 DEF Deferred
<1> QED
  BY <1>3, <1>4, <1>7, <1>8, ThinsSame, OrderAdds

LEMMA OrderCancels ==
    ASSUME TypeOK, OwnInv, OrderInv, NEW c \in Http, cpc[c] = "posted", PostCancel(mine[c]),
           UNCHANGED <<mpc, worker_task>>
    PROVE  OrderInv' /\ OrderKept
<1>1. PICK i \in Nat : i = mine[c] /\ PostCancel(i)
  BY DEF TypeOK
<1>2. PICK t \in Tasks : t = Cancel(i) /\ t.kind = "CANCEL" /\ t.target = i
  BY TaskType DEF Cancel
<1>3. t \notin ToSet(Pending)
  <2>1. ToSet(Pending) \subseteq Present
    BY PendingType, PresentIs
  <2>2. \A u \in Present : mine[c] = u.target => u.target = NoId
    BY DEF OwnInv, IdsInv
  <2> QED
    BY <1>1, <1>2, <2>1, <2>2 DEF NoId
<1>4. PICK u \in Seq(Tasks), w \in Seq(Tasks), q \in Seq(Tasks) :
         /\ u = queue_tasks_unhandled /\ w = worker_task /\ q = queue_tasks
         /\ u \o w \in Seq(Tasks) /\ Pending = (u \o w) \o q
  BY PendingType DEF Pending
<1>5. Distinct(u \o w) /\ Distinct(q)
  BY <1>4, DistinctConcat DEF OrderInv
<1>6. Distinct(u)
  BY <1>5, DistinctConcat
<1> DEFINE v == Without(u, i)
           s == Without(q, i)
<1>7. v \in Seq(Tasks) /\ s \in Seq(Tasks) /\ Thins(u, v) /\ Thins(q, s)
  BY <1>5, <1>6, ThinsWithout
<1>8. queue_tasks' = <<t>> \o s /\ queue_tasks_unhandled' = v /\ worker_task' = w
  BY <1>1, <1>2, <1>4 DEF PostCancel
<1> HIDE DEF v, s
<1>9. v \o w \in Seq(Tasks) /\ Thins(u \o w, v \o w)
  BY <1>5, <1>7, ThinsSame, ThinsConcat, ConcatProperties
<1>10. Thins(Pending, (v \o w) \o s)
  BY <1>4, <1>7, <1>9, ThinsConcat DEF OrderInv
<1>11. Pending' = (v \o w) \o (<<t>> \o s)
  BY <1>8 DEF Pending
<1>12. Adds((v \o w) \o s, t, Pending')
  BY <1>7, <1>9, <1>11, AddsIn
<1>13. Deferred' \subseteq Deferred
  <2>1. Once(queue_tasks_deferred) /\ queue_tasks_deferred \in Seq(Tasks)
    BY DEF OwnInv, PlacesInv, TypeOK
  <2>2. PICK d \in Seq(Tasks) : d = queue_tasks_deferred /\ Once(d) /\ queue_tasks_deferred' = Without(d, i)
    BY <1>1, <2>1 DEF PostCancel
  <2>3. ToSet(Without(d, i)) \subseteq ToSet(d)
    BY <2>2, SetWithout
  <2> QED
    BY <2>2, <2>3 DEF Deferred
<1> QED
  BY <1>2, <1>3, <1>10, <1>12, <1>13, OrderAdds

LEMMA OrderHttp ==
    ASSUME TypeOK, OwnInv, OrderInv, NEW c \in Http, HttpStep(c) PROVE OrderInv' /\ OrderKept
<1>1. CASE AwaitAwake(c) \/ AwakeAgain(c) \/ ProbeStarts(c) \/ GetNewId(c) \/ Receive(c)
  <2>1. UNCHANGED places /\ mpc' = mpc
    BY <1>1 DEF AwaitAwake, AwakeAgain, ProbeStarts, GetNewId, Receive, Leave, places
  <2> QED
    BY <2>1, OrderFrame
<1>2. CASE ReceiveError(c) \/ StopReading(c)
  <2>1. cpc[c] = "posted" /\ PostCancel(mine[c]) /\ UNCHANGED <<mpc, worker_task>>
    BY <1>2 DEF ReceiveError, StopReading, Leave
  <2> QED
    BY <2>1, OrderCancels
<1> QED
  BY <1>1, <1>2, OrderPosts DEF HttpStep

LEMMA OrderStep ==
    ASSUME TypeOK, ThreadInv, OwnInv, OrderInv, [Next]_vars
    PROVE  OrderInv' /\ [OrderKept]_vars
<1>1. CASE UNCHANGED vars \/ ElapseIdle \/ Terminate
  <2>1. UNCHANGED places /\ mpc' = mpc
    BY <1>1 DEF ElapseIdle, Terminate, vars, places
  <2> QED
    BY <2>1, OrderFrame
<1> QED
  BY <1>1, OrderMain, OrderWorker, OrderHttp DEF Next

LEMMA OrderInitially == ASSUME Init PROVE OrderInv
<1>1. Pending = <<>> /\ Deferred = {} /\ mpc = "init"
  BY SetEmpty DEF Init, Pending, Deferred
<1> QED
  BY <1>1, SetEmpty DEF OrderInv, Distinct

(* No step swaps two pending tasks: what the worker declines, what returns  *)
(* from a yield, a released slot's deferred task, a cancellation and every  *)
(* post leave the order of the others as it was.                            *)
THEOREM OrderIsKept == Spec => ServiceOrderKept
<1>1. Init => OrderInv /\ OwnInv
  BY OrderInitially, OwnInitially
<1>2. TypeOK /\ ThreadInv /\ OwnInv /\ OrderInv /\ [Next]_vars => OwnInv' /\ OrderInv' /\ [OrderKept]_vars
  BY OrderStep, OwnStep
<1>3. Spec => [][OrderKept]_vars
  BY TypeCorrect, ThreadCorrect, <1>1, <1>2, PTL DEF Spec
<1> QED
  BY <1>3 DEF ServiceOrderKept, OrderKept

=============================================================================
