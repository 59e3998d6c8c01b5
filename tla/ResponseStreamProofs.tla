------------------------ MODULE ResponseStreamProofs ------------------------
(* Proofs about ResponseStream, for every set of requests and readers, any  *)
(* number of tasks a request may have, every length of their results and    *)
(* every size of a session's buffer: the sessions and their readers first,  *)
(* then the response queue and the tasks, last what a stream puts out.      *)
EXTENDS ResponseStream, FiltersProofs, FiniteSetTheorems

----------------------------------------------------------------------------
(* What a configuration provides.                                           *)

LEMMA ConfTyped ==
    ASSUME conf \in Confs
    PROVE  /\ conf.asked \subseteq Requests
           /\ conf.conv \in [Requests -> Conversations \cup {NoConversation}]
           /\ conf.out \in [Requests -> Seq(Seq(Nat))]
           /\ conf.rconv \in [Readers -> Conversations]
           /\ conf.from \in [Readers -> Nat]
           /\ conf.cap \in Nat \ {0}
BY ResponseStreamAssumption DEF ConfType

LEMMA TasksTyped ==
    ASSUME conf \in Confs, NEW r \in conf.asked
    PROVE  /\ r \in Requests
           /\ TasksOf(r) \subseteq Tasks
           /\ \A t \in TasksOf(r) : t[1] = r /\ Results(t) \in Seq(Nat) /\ Results(t) # <<>>
<1>1. r \in Requests /\ conf.out[r] \in Seq(Seq(Nat))
  BY ConfTyped
<1>2. Len(conf.out[r]) \in 1 .. MaxTasks /\ <<>> \notin ToSet(conf.out[r])
  BY ResponseStreamAssumption
<1>3. \A i \in DOMAIN conf.out[r] : i \in 1 .. MaxTasks /\ conf.out[r][i] \in Seq(Nat) /\ conf.out[r][i] # <<>>
  <2> TAKE i \in DOMAIN conf.out[r]
  <2>1. i \in 1 .. Len(conf.out[r]) /\ conf.out[r][i] \in Seq(Nat)
    BY <1>1
  <2>2. conf.out[r][i] # <<>>
    BY <1>1, <1>2 DEF ToSet
  <2>3. i \in 1 .. MaxTasks
    BY <1>2, <2>1, ResponseStreamAssumption
  <2> QED BY <2>1, <2>2, <2>3
<1>4. \A i \in DOMAIN conf.out[r] : <<r, i>> \in Tasks
  BY <1>1, <1>3 DEF Tasks
<1>5. \A i \in DOMAIN conf.out[r] :
         <<r, i>>[1] = r /\ Results(<<r, i>>) \in Seq(Nat) /\ Results(<<r, i>>) # <<>>
  BY <1>3 DEF Results
<1> QED
  BY <1>1, <1>4, <1>5 DEF TasksOf

----------------------------------------------------------------------------
(* The response queue: what may become of it.                               *)

ResultType == [id : Tasks, kind : {"partial", "final", "error"}, len : Nat]

(* What is left after stop.                                                 *)
LEMMA PurgeWithin ==
    ASSUME NEW q \in Seq(ResultType), NEW ids
    PROVE  /\ Purge(q, ids) \in Seq(ResultType) /\ Within(Purge(q, ids), q)
           /\ \A a \in DOMAIN Purge(q, ids) : Purge(q, ids)[a].id \notin ids
BY KeepWithin DEF Purge

----------------------------------------------------------------------------
(* Typing.  The sequences have their types, the rest is TypeOK's.           *)

TypedServer ==
    /\ waiting_task_ids \subseteq Tasks /\ cancels \subseteq Tasks
    /\ queue_results \in Seq(ResultType)
    /\ gen \in [Tasks -> {"none", "queued", "ended", "failed", "cancelled"}]
    /\ n_sent \in [Tasks -> Nat]
    /\ id_tasks \in [Requests -> SUBSET Tasks] /\ received_count \in [Requests -> Nat]
    /\ cancelled \in [Requests -> BOOLEAN]

TypedRequests ==
    /\ pc \in [Requests -> PcStates] /\ peer \in [Requests -> BOOLEAN]
    /\ held \in [Requests -> Nat] /\ detached \in [Requests -> BOOLEAN]
    /\ out \in [Requests -> Nat] /\ n_pings \in [Requests -> Nat]

TypedMap ==
    /\ sessions \in [Conversations -> Requests \cup {NoRequest}]
    /\ removed \in [Threads -> [ss : SUBSET Requests, cancel : BOOLEAN]]

TypedSessions ==
    /\ buffer \in [Requests -> Seq(Nat)] /\ prefix_dropped \in [Requests -> Nat]
    /\ \A r \in Requests : Len(buffer[r]) <= conf.cap
    /\ done \in [Requests -> BOOLEAN] /\ is_cancelled \in [Requests -> BOOLEAN]

TypedReaders ==
    /\ rpc \in [Readers -> {"idle", "refused", "checking", "reading", "ended"}]
    /\ rpeer \in [Readers -> BOOLEAN] /\ source \in [Readers -> Requests \cup {NoRequest}]
    /\ got \in [Readers -> Seq(Nat)] /\ lost \in [Readers -> BOOLEAN]

MainStates == {"running", "returned", "cleaned", "stopped", "exited"}

Typed ==
    /\ conf \in Confs /\ main \in MainStates
    /\ TypedServer /\ TypedRequests /\ TypedMap /\ TypedSessions /\ TypedReaders

(* The tasks of a request are its own: what is known of them before and     *)
(* after they are posted.                                                   *)
Fresh == {"idle", "replacing", "posting"}

TasksInv ==
    /\ \A r \in Requests : pc[r] # "idle" => r \in conf.asked
    /\ \A r \in Requests : pc[r] \in Fresh =>
          id_tasks[r] = {} /\ received_count[r] = 0 /\ cancelled[r] = FALSE
    /\ \A r \in Requests : id_tasks[r] \subseteq TasksOf(r)
    /\ \A r \in conf.asked : pc[r] \in Fresh \cup {"registered"} =>
          \A t \in TasksOf(r) : gen[t] = "none"
    /\ \A t \in Tasks : gen[t] # "none" => t[1] \in conf.asked /\ t \in id_tasks[t[1]]
    /\ \A t \in Tasks :
          t[1] \in conf.asked /\ t \in TasksOf(t[1]) /\ gen[t] \in {"none", "queued"} =>
             n_sent[t] < Len(Results(t))

(* stop, on what is left of the queue.                                      *)
LEMMA StopReaderTyped ==
    ASSUME TypedServer, NEW r \in Requests, NEW q \in Seq(ResultType), StopReader(r, q),
           UNCHANGED <<gen, n_sent, id_tasks, received_count>>
    PROVE  TypedServer'
<1>1. queue_results' \in Seq(ResultType)
  <2>1. Purge(q, id_tasks[r]) \in Seq(ResultType)
    BY PurgeWithin
  <2> QED
    BY <2>1, Zenon DEF StopReader
<1>2. waiting_task_ids' \subseteq Tasks /\ cancels' \subseteq Tasks
  BY Zenon DEF StopReader, TypedServer
<1>3. cancelled' \in [Requests -> BOOLEAN]
  BY DEF StopReader, TypedServer
<1> QED
  BY <1>1, <1>2, <1>3 DEF TypedServer

LEMMA TakeResultTyped ==
    ASSUME TypedServer, NEW r \in Requests, NEW k \in NextResult(r), TakeResult(r, k),
           UNCHANGED <<gen, n_sent, id_tasks>>
    PROVE  TypedServer' /\ queue_results[k] \in ResultType
<1>1. k \in DOMAIN queue_results /\ queue_results \in Seq(ResultType)
  BY DEF NextResult, TypedServer
<1>2. queue_results[k] \in ResultType /\ RemoveAt(queue_results, k) \in Seq(ResultType)
  BY <1>1, RemoveAtWithin
<1>3. CASE queue_results[k].kind = "error"
  BY <1>2, <1>3, StopReaderTyped DEF TakeResult
<1>4. CASE queue_results[k].kind # "error"
  <2>1. /\ queue_results' \in Seq(ResultType) /\ UNCHANGED <<waiting_task_ids, cancelled, cancels>>
        /\ received_count' = [received_count EXCEPT ![r] =
                                 @ + IF queue_results[k].kind = "final" THEN 1 ELSE 0]
    BY <1>2, <1>4, Zenon DEF TakeResult
  <2>2. received_count' \in [Requests -> Nat]
    BY <2>1 DEF TypedServer
  <2> QED
    BY <1>2, <2>1, <2>2 DEF TypedServer
<1> QED
  BY <1>3, <1>4

(* A result is sent.                                                        *)
LEMMA SayTyped ==
    ASSUME TypedServer, NEW t \in Tasks, NEW kind \in {"partial", "final", "error"},
           NEW len \in Nat, Say(t, kind, len)
    PROVE  queue_results' \in Seq(ResultType)
<1>1. [id |-> t, kind |-> kind, len |-> len] \in ResultType
  BY DEF ResultType
<1> QED
  BY <1>1, AppendProperties DEF Say, Send, TypedServer

LEMMA GenerateTyped ==
    ASSUME Typed, TasksInv, NEW t \in Tasks, Generate(t)
    PROVE  TypedServer'
<1> DEFINE n == n_sent[t] + 1
<1>1. gen[t] = "queued" /\ n_sent[t] \in Nat /\ TypedServer /\ conf \in Confs
  BY DEF Generate, Typed, TypedServer
<1>2. t[1] \in conf.asked /\ t \in TasksOf(t[1]) /\ t[1] \in Requests /\ n_sent[t] < Len(Results(t))
  BY <1>1, ConfTyped DEF TasksInv, Tasks
<1>3. Results(t) \in Seq(Nat) /\ n \in 1 .. Len(Results(t))
  BY <1>1, <1>2, TasksTyped
<1>4. Results(t)[n] \in Nat
  BY <1>3, ElementOfSeq
<1>5. /\ Say(t, IF n = Len(Results(t)) THEN "final" ELSE "partial", Results(t)[n])
      /\ n_sent' = [n_sent EXCEPT ![t] = n]
      /\ gen' = [gen EXCEPT ![t] = IF n = Len(Results(t)) THEN "ended" ELSE @]
      /\ UNCHANGED <<waiting_task_ids, cancels, id_tasks, received_count, cancelled>>
  BY DEF Generate, readerVars
<1>6. queue_results' \in Seq(ResultType)
  <2>1. (IF n = Len(Results(t)) THEN "final" ELSE "partial") \in {"partial", "final", "error"}
    OBVIOUS
  <2> QED
    BY <1>1, <1>4, <1>5, <2>1, SayTyped
<1>7. n_sent' \in [Tasks -> Nat] /\ n \in Nat
  BY <1>1, <1>3, <1>5 DEF TypedServer
<1> HIDE DEF n
<1>8. gen' \in [Tasks -> {"none", "queued", "ended", "failed", "cancelled"}]
  BY <1>1, <1>5 DEF TypedServer
<1> QED
  BY <1>1, <1>5, <1>6, <1>7, <1>8 DEF TypedServer

LEMMA FailTyped ==
    ASSUME TypedServer, NEW t \in Tasks, Fail(t)
    PROVE  TypedServer'
<1>1. /\ Say(t, "error", 1) /\ gen' = [gen EXCEPT ![t] = "failed"]
      /\ UNCHANGED <<waiting_task_ids, cancels, n_sent, id_tasks, received_count, cancelled>>
  BY DEF Fail, readerVars
<1>2. queue_results' \in Seq(ResultType)
  <2>1. 1 \in Nat /\ "error" \in {"partial", "final", "error"}
    OBVIOUS
  <2> QED
    BY <1>1, <2>1, SayTyped
<1> QED
  BY <1>1, <1>2 DEF TypedServer

(* Who changes the response queue, the tasks and their readers.             *)
LEMMA ServerTyped ==
    ASSUME Typed, TasksInv, [Next]_vars
    PROVE  TypedServer'
<1>1. TypedServer /\ conf \in Confs
  BY DEF Typed
<1>2. ASSUME UNCHANGED serverVars PROVE TypedServer'
  BY <1>1, <1>2 DEF TypedServer, serverVars, responseVars, loopVars, readerVars
<1>3. ASSUME NEW r \in Requests, Request(r) PROVE TypedServer'
  <2>1. CASE Register(r)
    <3>1. r \in conf.asked
      BY <2>1 DEF Register, TasksInv
    <3>2. TasksOf(r) \subseteq Tasks
      BY <1>1, <3>1, TasksTyped
    <3> QED
      BY <1>1, <2>1, <3>2 DEF Register, TypedServer, loopVars
  <2>2. CASE PostTasks(r)
    BY <1>1, <2>2 DEF PostTasks, TypedServer, responseVars, readerVars
  <2>3. CASE TakeFirst(r)
    <3>1. PICK k \in NextResult(r) : TakeResult(r, k)
      BY <2>3 DEF TakeFirst
    <3>2. UNCHANGED <<gen, n_sent, id_tasks>>
      BY <2>3 DEF TakeFirst
    <3> QED
      BY <1>1, <3>1, <3>2, TakeResultTyped
  <2>4. CASE TakeNext(r)
    <3>1. PICK k \in NextResult(r) : TakeResult(r, k)
      BY <2>4 DEF TakeNext
    <3>2. UNCHANGED <<gen, n_sent, id_tasks>>
      BY <2>4 DEF TakeNext
    <3> QED
      BY <1>1, <3>1, <3>2, TakeResultTyped
  <2>5. CASE Release(r)
    <3>1. queue_results \in Seq(ResultType)
      BY <1>1 DEF TypedServer
    <3>2. StopReader(r, queue_results) /\ UNCHANGED <<gen, n_sent, id_tasks, received_count>>
      BY <2>5 DEF Release
    <3> QED
      BY <1>1, <3>1, <3>2, StopReaderTyped
  <2>6. CASE \/ Reject(r) \/ GiveUp(r) \/ SeeStop(r) \/ FlushFirst(r) \/ SayDone(r) \/ AwaitNext(r)
             \/ Ping(r) \/ LoseClient(r) \/ Complete(r) \/ FinishRemoval(r) \/ Destroy(r)
    BY <1>2, <2>6 DEF Reject, GiveUp, SeeStop, FlushFirst, SayDone, AwaitNext, Ping, LoseClient,
                      Complete, FinishRemoval, Destroy
  <2> QED
    BY <1>3, <2>1, <2>2, <2>3, <2>4, <2>5, <2>6 DEF Request
<1>4. ASSUME NEW t \in Tasks, Loop(t) \/ Fail(t) PROVE TypedServer'
  <2>1. CASE CancelTask(t)
    BY <1>1, <2>1 DEF CancelTask, TypedServer, responseVars, readerVars
  <2> QED
    BY <1>1, <1>4, <2>1, GenerateTyped, FailTyped DEF Loop
<1>5. ASSUME NEW r \in Requests, Arrive(r) \/ Leave(r) PROVE TypedServer'
  BY <1>2, <1>5 DEF Arrive, Leave
<1>6. ASSUME \/ \E c \in Conversations : Delete(c)
             \/ \E cs \in SUBSET Conversations : Expire(cs)
             \/ \E x \in {"DELETE", "gc"} : FinishRemoval(x)
      PROVE  TypedServer'
  BY <1>2, <1>6 DEF Delete, Expire, FinishRemoval
<1>7. ASSUME NEW g \in Readers, Open(g) \/ Quit(g) \/ Reader(g) PROVE TypedServer'
  BY <1>2, <1>7 DEF Open, Quit, Reader, CheckOffset, ReadBytes, ReadEnd
<1>8. ASSUME Terminate \/ Main PROVE TypedServer'
  BY <1>2, <1>8 DEF Terminate, Main, StopStreams, FinishRemoval, StopServer, JoinWorkers
<1>9. ASSUME UNCHANGED vars PROVE TypedServer'
  BY <1>2, <1>9 DEF vars
<1> QED
  BY <1>3, <1>4, <1>5, <1>6, <1>7, <1>8, <1>9 DEF Next

(* A request moves on.                                                      *)
LEMMA Moves ==
    ASSUME TypedRequests, NEW r \in Requests, NEW l \in PcStates, Goto(r, l)
    PROVE  pc' \in [Requests -> PcStates]
BY DEF Goto, TypedRequests

(* What is sent off to a stream or a client.                                *)
LEMMA YieldTyped ==
    ASSUME TypedRequests, NEW r \in Requests, NEW n \in Nat, NEW more \in BOOLEAN, Yield(r, n, more)
    PROVE  /\ pc' \in [Requests -> PcStates] /\ out' \in [Requests -> Nat]
           /\ pc' = [pc EXCEPT ![r] = IF more THEN "streaming" ELSE "releasing"]
<1>1. (IF more THEN "streaming" ELSE "releasing") \in PcStates
  BY DEF PcStates
<1>2. out' = [out EXCEPT ![r] = @ + n] /\ Goto(r, IF more THEN "streaming" ELSE "releasing")
  BY DEF Yield
<1>3. pc' \in [Requests -> PcStates]
  BY <1>1, <1>2, Moves
<1> QED
  BY <1>2, <1>3 DEF TypedRequests, Goto

LEMMA RequestsTyped ==
    ASSUME Typed, [Next]_vars
    PROVE  TypedRequests'
<1>1. TypedRequests /\ TypedServer /\ conf \in Confs
  BY DEF Typed
<1>2. ASSUME UNCHANGED requestVars PROVE TypedRequests'
  BY <1>1, <1>2 DEF TypedRequests, requestVars
<1>3. ASSUME pc' \in [Requests -> PcStates], UNCHANGED clientVars PROVE TypedRequests'
  BY <1>1, <1>3 DEF TypedRequests, clientVars
<1>4. ASSUME NEW x \in Threads, FinishRemoval(x) PROVE TypedRequests'
  <2>1. pc' \in [Requests -> PcStates]
    <3>1. CASE x \in Others
      BY <1>1, <1>4, <3>1 DEF FinishRemoval, TypedRequests
    <3>2. CASE x \in Requests /\ x \notin Others
      <4>1. PICK l \in {"posting", "releasing"} : pc' = [pc EXCEPT ![x] = l]
        BY <1>4, <3>2 DEF FinishRemoval
      <4>2. l \in PcStates
        BY DEF PcStates
      <4> QED
        BY <1>1, <3>2, <4>1, <4>2 DEF TypedRequests
    <3> QED
      BY <3>1, <3>2 DEF Threads
  <2> QED
    BY <1>3, <1>4, <2>1 DEF FinishRemoval
<1>5. ASSUME NEW r \in Requests, Request(r) PROVE TypedRequests'
  <2>1. CASE \/ Reject(r) \/ Register(r) \/ PostTasks(r) \/ GiveUp(r) \/ SeeStop(r) \/ AwaitNext(r)
             \/ Complete(r) \/ Release(r) \/ Destroy(r)
    <3>1. PICK l \in PcStates : Goto(r, l)
      BY <2>1, Zenon DEF Reject, Register, PostTasks, GiveUp, SeeStop, AwaitNext, Complete, Release,
                         Destroy, PcStates
    <3>2. UNCHANGED clientVars
      BY <2>1 DEF Reject, Register, PostTasks, GiveUp, SeeStop, AwaitNext, Complete, Release, Destroy
    <3> QED
      BY <1>1, <1>3, <3>1, <3>2, Moves
  <2>2. CASE TakeFirst(r)
    <3>1. PICK k \in NextResult(r) :
             /\ TakeResult(r, k)
             /\ \/ held' = [held EXCEPT ![r] = queue_results[k].len] /\ Goto(r, "streaming")
                \/ UNCHANGED held /\ (Goto(r, "completing") \/ UNCHANGED pc)
      BY <2>2 DEF TakeFirst
    <3>2. UNCHANGED <<gen, n_sent, id_tasks>> /\ UNCHANGED <<peer, detached, out, n_pings>>
      BY <2>2 DEF TakeFirst
    <3>3. queue_results[k].len \in Nat
      BY <1>1, <3>1, <3>2, TakeResultTyped DEF ResultType
    <3>4. held' \in [Requests -> Nat]
      BY <1>1, <3>1, <3>3 DEF TypedRequests
    <3>5. "streaming" \in PcStates /\ "completing" \in PcStates
      BY DEF PcStates
    <3>6. pc' \in [Requests -> PcStates]
      BY <1>1, <3>1, <3>5, Moves DEF TypedRequests
    <3> QED
      BY <1>1, <3>2, <3>4, <3>6 DEF TypedRequests
  <2>3. CASE TakeNext(r)
    <3>1. PICK k \in NextResult(r) :
             TakeResult(r, k) /\ Yield(r, queue_results[k].len, queue_results[k].kind # "error")
      BY <2>3 DEF TakeNext
    <3>2. UNCHANGED <<gen, n_sent, id_tasks>> /\ UNCHANGED <<peer, held, detached, n_pings>>
      BY <2>3 DEF TakeNext
    <3>3. queue_results[k].len \in Nat
      BY <1>1, <3>1, <3>2, TakeResultTyped DEF ResultType
    <3>4. pc' \in [Requests -> PcStates] /\ out' \in [Requests -> Nat]
      BY <1>1, <3>1, <3>3, YieldTyped
    <3> QED
      BY <1>1, <3>2, <3>4 DEF TypedRequests
  <2>4. CASE FlushFirst(r)
    <3>1. Yield(r, held[r], TRUE) /\ held' = [held EXCEPT ![r] = 0] /\ UNCHANGED <<peer, detached, n_pings>>
      BY <2>4 DEF FlushFirst
    <3>2. held[r] \in Nat /\ held' \in [Requests -> Nat]
      BY <1>1, <3>1 DEF TypedRequests
    <3>3. pc' \in [Requests -> PcStates] /\ out' \in [Requests -> Nat]
      BY <1>1, <3>1, <3>2, YieldTyped
    <3> QED
      BY <1>1, <3>1, <3>2, <3>3 DEF TypedRequests
  <2>5. CASE SayDone(r)
    <3>1. Yield(r, 1, FALSE) /\ UNCHANGED <<peer, held, detached, n_pings>>
      BY <2>5 DEF SayDone
    <3>2. pc' \in [Requests -> PcStates] /\ out' \in [Requests -> Nat]
      BY <1>1, <3>1, YieldTyped
    <3> QED
      BY <1>1, <3>1, <3>2 DEF TypedRequests
  <2>6. CASE Ping(r)
    <3>1. Yield(r, 1, TRUE) /\ UNCHANGED <<peer, held, detached>> /\ n_pings' = [n_pings EXCEPT ![r] = @ + 1]
      BY <2>6 DEF Ping
    <3>2. pc' \in [Requests -> PcStates] /\ out' \in [Requests -> Nat]
      BY <1>1, <3>1, YieldTyped
    <3>3. n_pings' \in [Requests -> Nat]
      BY <1>1, <3>1 DEF TypedRequests
    <3> QED
      BY <1>1, <3>1, <3>2, <3>3 DEF TypedRequests
  <2>7. CASE LoseClient(r)
    <3>1. "releasing" \in PcStates
      BY DEF PcStates
    <3>2. pc' \in [Requests -> PcStates]
      BY <1>1, <2>7, <3>1, Moves DEF LoseClient, TypedRequests
    <3>3. detached' \in [Requests -> BOOLEAN]
      BY <1>1, <2>7 DEF LoseClient, TypedRequests
    <3> QED
      BY <1>1, <2>7, <3>2, <3>3 DEF LoseClient, TypedRequests
  <2>8. CASE FinishRemoval(r)
    BY <1>4, <2>8 DEF Threads
  <2> QED
    BY <1>5, <2>1, <2>2, <2>3, <2>4, <2>5, <2>6, <2>7, <2>8 DEF Request
<1>6. ASSUME NEW t \in Tasks, Loop(t) \/ Fail(t) PROVE TypedRequests'
  BY <1>2, <1>6 DEF Loop, Generate, CancelTask, Fail
<1>7. ASSUME NEW r \in Requests, Arrive(r) PROVE TypedRequests'
  <2>1. PICK l \in {"posting", "replacing"} : Goto(r, l)
    BY <1>7, Zenon DEF Arrive, Replace
  <2>2. l \in PcStates
    BY DEF PcStates
  <2> QED
    BY <1>1, <1>3, <1>7, <2>1, <2>2, Moves DEF Arrive
<1>8. ASSUME NEW r \in Requests, Leave(r) PROVE TypedRequests'
  BY <1>1, <1>8 DEF Leave, TypedRequests
<1>9. ASSUME (\E c \in Conversations : Delete(c)) \/ (\E cs \in SUBSET Conversations : Expire(cs))
      PROVE  TypedRequests'
  BY <1>2, <1>9 DEF Delete, Expire
<1>10. ASSUME NEW g \in Readers, Open(g) \/ Quit(g) \/ Reader(g) PROVE TypedRequests'
  BY <1>2, <1>10 DEF Open, Quit, Reader, CheckOffset, ReadBytes, ReadEnd
<1>11. ASSUME Terminate \/ StopStreams \/ StopServer \/ JoinWorkers PROVE TypedRequests'
  BY <1>2, <1>11 DEF Terminate, StopStreams, StopServer, JoinWorkers
<1>12. ASSUME UNCHANGED vars PROVE TypedRequests'
  BY <1>2, <1>12 DEF vars
<1>13. \A x \in {"DELETE", "gc", "main"} : x \in Threads
  BY DEF Threads, Others
<1> QED
  BY <1>4, <1>5, <1>6, <1>7, <1>8, <1>9, <1>10, <1>11, <1>12, <1>13 DEF Next, Main

(* The map and the threads that take sessions out of it.                    *)
LEMMA TakeOutTyped ==
    ASSUME TypedMap, NEW x \in Threads, NEW cs \in SUBSET Conversations, NEW cancel \in BOOLEAN,
           TakeOut(x, cs, cancel)
    PROVE  TypedMap'
<1>1. {sessions[c] : c \in cs} \ {NoRequest} \subseteq Requests
  BY DEF TypedMap
<1> DEFINE e == [ss |-> {sessions[c] : c \in cs} \ {NoRequest}, cancel |-> cancel]
<1>2. e \in [ss : SUBSET Requests, cancel : BOOLEAN]
  BY <1>1
<1>3. removed' = [removed EXCEPT ![x] = e]
  BY DEF TakeOut
<1> HIDE DEF e
<1>4. removed' \in [Threads -> [ss : SUBSET Requests, cancel : BOOLEAN]]
  BY <1>2, <1>3 DEF TypedMap
<1>5. sessions' \in [Conversations -> Requests \cup {NoRequest}]
  BY DEF TakeOut, TypedMap
<1> QED
  BY <1>4, <1>5 DEF TypedMap

LEMMA ReplaceTyped ==
    ASSUME TypedMap, NEW r \in Requests, NEW c \in Conversations, Replace(r, c)
    PROVE  TypedMap'
<1>1. sessions' \in [Conversations -> Requests \cup {NoRequest}]
  BY DEF Replace, TypedMap
<1>2. CASE sessions[c] = NoRequest
  BY <1>1, <1>2 DEF Replace, TypedMap
<1>3. CASE sessions[c] # NoRequest
  <2> DEFINE e == [ss |-> {sessions[c]}, cancel |-> TRUE]
  <2>1. e \in [ss : SUBSET Requests, cancel : BOOLEAN]
    BY <1>3 DEF TypedMap
  <2>2. removed' = [removed EXCEPT ![r] = e]
    BY <1>3 DEF Replace
  <2> HIDE DEF e
  <2> QED
    BY <1>1, <2>1, <2>2 DEF TypedMap
<1> QED
  BY <1>2, <1>3

LEMMA MapTyped ==
    ASSUME Typed, [Next]_vars
    PROVE  TypedMap'
<1>1. TypedMap /\ conf \in Confs
  BY DEF Typed
<1>2. ASSUME UNCHANGED mapVars PROVE TypedMap'
  BY <1>1, <1>2 DEF TypedMap, mapVars
<1>3. ASSUME NEW x \in Threads, FinishRemoval(x) PROVE TypedMap'
  <2>1. Nothing \in [ss : SUBSET Requests, cancel : BOOLEAN]
    BY DEF Nothing
  <2>2. removed' = [removed EXCEPT ![x] = Nothing] /\ UNCHANGED sessions
    BY <1>3 DEF FinishRemoval
  <2> QED
    BY <1>1, <2>1, <2>2 DEF TypedMap
<1>4. \A x \in {"DELETE", "gc", "main"} : x \in Threads
  BY DEF Threads, Others
<1>5. ASSUME NEW r \in Requests, Request(r) PROVE TypedMap'
  <2>1. CASE Complete(r)
    <3>1. CASE UNCHANGED mapVars
      BY <1>2, <3>1
    <3>2. CASE ~ UNCHANGED mapVars
      <4>1. TakeOut(r, {conf.conv[r]}, FALSE) /\ HasSpipe(r)
        BY <2>1, <3>2 DEF Complete
      <4>2. {conf.conv[r]} \in SUBSET Conversations /\ r \in Threads
        BY <1>1, <4>1, ConfTyped DEF HasSpipe, Threads
      <4> QED
        BY <1>1, <4>1, <4>2, TakeOutTyped
    <3> QED
      BY <3>1, <3>2
  <2>2. CASE FinishRemoval(r)
    BY <1>3, <2>2 DEF Threads
  <2>3. CASE \/ Reject(r) \/ Register(r) \/ PostTasks(r) \/ TakeFirst(r) \/ GiveUp(r) \/ SeeStop(r)
             \/ FlushFirst(r) \/ SayDone(r) \/ AwaitNext(r) \/ TakeNext(r) \/ Ping(r) \/ LoseClient(r)
             \/ Release(r) \/ Destroy(r)
    BY <1>2, <2>3 DEF Reject, Register, PostTasks, TakeFirst, GiveUp, SeeStop, FlushFirst, SayDone,
                      AwaitNext, TakeNext, Ping, LoseClient, Release, Destroy, streamVars
  <2> QED
    BY <1>5, <2>1, <2>2, <2>3 DEF Request
<1>6. ASSUME NEW t \in Tasks, Loop(t) \/ Fail(t) PROVE TypedMap'
  BY <1>2, <1>6 DEF Loop, Generate, CancelTask, Fail, streamVars
<1>7. ASSUME NEW r \in Requests, Arrive(r) PROVE TypedMap'
  <2>1. CASE HasSpipe(r)
    <3>1. conf.conv[r] \in Conversations /\ Replace(r, conf.conv[r])
      BY <1>1, <1>7, <2>1, ConfTyped DEF HasSpipe, Arrive
    <3> QED
      BY <1>1, <3>1, ReplaceTyped
  <2>2. CASE ~HasSpipe(r)
    BY <1>2, <1>7, <2>2 DEF Arrive
  <2> QED
    BY <2>1, <2>2
<1>8. ASSUME NEW r \in Requests, Leave(r) PROVE TypedMap'
  BY <1>2, <1>8 DEF Leave, streamVars
<1>9. ASSUME NEW c \in Conversations, Delete(c) PROVE TypedMap'
  <2>1. TakeOut("DELETE", {c}, TRUE)
    BY <1>9 DEF Delete
  <2> QED
    BY <1>1, <1>4, <2>1, TakeOutTyped
<1>10. ASSUME NEW cs \in SUBSET Conversations, Expire(cs) PROVE TypedMap'
  <2>1. TakeOut("gc", cs, FALSE)
    BY <1>10 DEF Expire
  <2> QED
    BY <1>1, <1>4, <2>1, TakeOutTyped
<1>11. ASSUME NEW g \in Readers, Open(g) \/ Quit(g) \/ Reader(g) PROVE TypedMap'
  BY <1>2, <1>11 DEF Open, Quit, Reader, CheckOffset, ReadBytes, ReadEnd, streamVars
<1>12. CASE StopStreams
  <2>1. TakeOut("main", Conversations, FALSE)
    BY <1>12 DEF StopStreams
  <2> QED
    BY <1>1, <1>4, <2>1, TakeOutTyped
<1>13. ASSUME Terminate \/ StopServer \/ JoinWorkers \/ UNCHANGED vars PROVE TypedMap'
  BY <1>2, <1>13 DEF Terminate, StopServer, JoinWorkers, vars, streamVars
<1> QED
  BY <1>3, <1>4, <1>5, <1>6, <1>7, <1>8, <1>9, <1>10, <1>11, <1>12, <1>13 DEF Next, Main

----------------------------------------------------------------------------
(* The buffer of a session holds consecutive bytes.                         *)

(* b are the bytes from the d-th on.                                        *)
Counts(b, d) == \A i \in DOMAIN b : b[i] = d + i - 1

(* A suffix of the bytes from the d-th on starts that much later.           *)
LEMMA SuffixCounts ==
    ASSUME NEW b \in Seq(Nat), NEW d \in Int, NEW n \in Nat, n <= Len(b)
    PROVE  /\ SubSeq(b, n + 1, Len(b)) \in Seq(Nat)
           /\ Len(SubSeq(b, n + 1, Len(b))) = Len(b) - n
           /\ Counts(b, d) => Counts(SubSeq(b, n + 1, Len(b)), d + n)
<1> DEFINE s == SubSeq(b, n + 1, Len(b))
<1>1. Len(b) \in Nat /\ \A i \in 1 .. Len(b) : b[i] \in Nat
  BY ElementOfSeq
<1>2. s \in Seq(Nat) /\ Len(s) = Len(b) - n /\ \A i \in 1 .. Len(b) - n : s[i] = b[n + i]
  <2>1. \A i \in n + 1 .. Len(b) : b[i] \in Nat
    BY <1>1
  <2> QED
    BY <1>1, <2>1, SubSeqProperties
<1> HIDE DEF s
<1>4. DOMAIN s = 1 .. Len(b) - n /\ DOMAIN b = 1 .. Len(b)
  BY <1>2
<1>3. ASSUME Counts(b, d), NEW i \in DOMAIN s PROVE s[i] = (d + n) + i - 1
  <2>1. i \in 1 .. Len(b) - n /\ i \in Int
    BY <1>1, <1>4
  <2>3. n + i \in 1 .. Len(b)
    BY <1>1, <2>1
  <2>2. s[i] = b[n + i] /\ b[n + i] = d + (n + i) - 1
    BY <1>2, <1>3, <1>4, <2>1, <2>3, Zenon DEF Counts
  <2> QED
    BY <2>1, <2>2
<1> QED
  BY <1>2, <1>3 DEF s, Counts

(* So does what two consecutive pieces make.                                *)
LEMMA ConcatCounts ==
    ASSUME NEW b \in Seq(Nat), NEW c \in Seq(Nat), NEW d \in Int
    PROVE  /\ b \o c \in Seq(Nat) /\ Len(b \o c) = Len(b) + Len(c)
           /\ Counts(b, d) /\ Counts(c, d + Len(b)) => Counts(b \o c, d)
<1>1. b \o c \in Seq(Nat) /\ Len(b \o c) = Len(b) + Len(c)
  BY ConcatProperties, Zenon
<1>2. \A i \in 1 .. Len(b) + Len(c) : (b \o c)[i] = IF i <= Len(b) THEN b[i] ELSE c[i - Len(b)]
  BY ConcatProperties, Zenon
<1> DEFINE s == b \o c
<1>3. DOMAIN s = 1 .. Len(b) + Len(c) /\ Len(b) \in Nat /\ Len(c) \in Nat
  BY <1>1
<1>4. ASSUME Counts(b, d), Counts(c, d + Len(b)), NEW i \in DOMAIN s PROVE s[i] = d + i - 1
  <2>1. CASE i <= Len(b)
    <3>1. s[i] = b[i] /\ i \in DOMAIN b
      BY <1>2, <1>3, <2>1
    <3> QED
      BY <1>4, <3>1 DEF Counts
  <2>2. CASE ~ (i <= Len(b))
    <3>1. s[i] = c[i - Len(b)] /\ i - Len(b) \in DOMAIN c
      BY <1>2, <1>3, <2>2
    <3>2. c[i - Len(b)] = (d + Len(b)) + (i - Len(b)) - 1
      BY <1>4, <3>1 DEF Counts
    <3>3. (d + Len(b)) + (i - Len(b)) - 1 = d + i - 1
      BY <1>3
    <3> QED
      BY <3>1, <3>2, <3>3
  <2> QED
    BY <2>1, <2>2
<1> QED
  BY <1>1, <1>4 DEF Counts

(* append keeps the last cap bytes and accounts for those it drops.         *)
LEMMA AppendedCounts ==
    ASSUME conf \in Confs, NEW b \in Seq(Nat), NEW d \in Nat, NEW chunk \in Seq(Nat), Len(b) <= conf.cap
    PROVE  LET a == Appended(b, d, chunk)
           IN  /\ a.buffer \in Seq(Nat) /\ a.dropped \in Nat /\ Len(a.buffer) <= conf.cap
               /\ a.dropped + Len(a.buffer) = d + Len(b) + Len(chunk)
               /\ Counts(b, d) /\ Counts(chunk, d + Len(b)) => Counts(a.buffer, a.dropped)
<1> DEFINE a   == Appended(b, d, chunk)
           cap == conf.cap
           n   == Len(b) + Len(chunk) - cap
           m   == Len(chunk) - cap
<1>1. cap \in Nat \ {0} /\ Len(b) \in Nat /\ Len(chunk) \in Nat
  BY ConfTyped
<1>2. CASE Len(chunk) >= cap
  <2>1. a.buffer = SubSeq(chunk, m + 1, Len(chunk)) /\ a.dropped = d + Len(b) + m
    BY <1>1, <1>2 DEF Appended
  <2>2. m \in Nat /\ m <= Len(chunk) /\ d + Len(b) \in Int
    BY <1>1, <1>2
  <2> HIDE DEF a, m
  <2>3. /\ a.buffer \in Seq(Nat) /\ Len(a.buffer) = Len(chunk) - m
        /\ Counts(chunk, d + Len(b)) => Counts(a.buffer, (d + Len(b)) + m)
    BY <2>1, <2>2, SuffixCounts
  <2>7. Len(a.buffer) = Len(chunk) - m /\ a.dropped = d + Len(b) + m
    BY <2>1, <2>3
  <2>4. (d + Len(b)) + m = a.dropped
    BY <1>1, <2>2, <2>7
  <2>5. a.dropped + Len(a.buffer) = d + Len(b) + Len(chunk) /\ a.dropped \in Nat
    BY <1>1, <2>2, <2>7
  <2>6. Len(a.buffer) <= cap
    BY <1>1, <2>3 DEF m
  <2> QED
    BY <2>3, <2>4, <2>5, <2>6 DEF a
<1>3. CASE Len(chunk) < cap /\ n > 0
  <2>0. ~ (Len(chunk) >= cap)
    BY <1>1, <1>3
  <2>1. a.buffer = SubSeq(b, n + 1, Len(b)) \o chunk /\ a.dropped = d + n
    BY <1>3, <2>0, Zenon DEF Appended
  <2>2. n \in Nat /\ n <= Len(b)
    BY <1>1, <1>3
  <2>3. Len(b) - n + Len(chunk) = cap /\ (d + n) + cap = d + Len(b) + Len(chunk)
    BY <1>1
  <2> HIDE DEF a, n
  <2> DEFINE s == SubSeq(b, n + 1, Len(b))
  <2>4. s \in Seq(Nat) /\ Len(s) = Len(b) - n /\ (Counts(b, d) => Counts(s, d + n))
    BY <2>2, SuffixCounts
  <2>11. Len(s) = Len(b) - n /\ n \in Nat
    BY <2>2, <2>4
  <2>5. (d + n) + Len(s) = d + Len(b)
    <3>1. (d + n) + (Len(b) - n) = d + Len(b)
      BY <1>1, <2>2
    <3> QED
      BY <2>11, <3>1
  <2>6. a.buffer = s \o chunk
    BY <2>1
  <2> HIDE DEF s
  <2>7. /\ a.buffer \in Seq(Nat) /\ Len(a.buffer) = Len(s) + Len(chunk)
        /\ Counts(s, d + n) /\ Counts(chunk, (d + n) + Len(s)) => Counts(a.buffer, d + n)
    <3>1. d + n \in Int
      BY <2>2
    <3> QED
      BY <2>4, <2>6, <3>1, ConcatCounts
  <2>8. Len(a.buffer) = cap /\ a.dropped + Len(a.buffer) = d + Len(b) + Len(chunk) /\ a.dropped \in Nat
    <3>1. Len(a.buffer) = Len(s) + Len(chunk) /\ a.dropped = d + n
      BY <2>1, <2>7
    <3> QED
      BY <1>1, <2>3, <2>11, <3>1
  <2>9. Len(a.buffer) <= cap
    BY <1>1, <2>8
  <2>10. Counts(b, d) /\ Counts(chunk, d + Len(b)) => Counts(a.buffer, a.dropped)
    BY <2>1, <2>4, <2>5, <2>7
  <2> QED
    BY <2>7, <2>8, <2>9, <2>10 DEF a
<1>4. CASE Len(chunk) < cap /\ ~ (n > 0)
  <2>1. a.buffer = b \o chunk /\ a.dropped = d
    BY <1>1, <1>4 DEF Appended
  <2>2. Len(b) + Len(chunk) <= cap
    BY <1>1, <1>4
  <2> HIDE DEF a, n
  <2>3. /\ a.buffer \in Seq(Nat) /\ Len(a.buffer) = Len(b) + Len(chunk)
        /\ Counts(b, d) /\ Counts(chunk, d + Len(b)) => Counts(a.buffer, d)
    BY <2>1, ConcatCounts
  <2>4. a.dropped + Len(a.buffer) = d + Len(b) + Len(chunk) /\ a.dropped \in Nat /\ Len(a.buffer) <= cap
    BY <1>1, <2>1, <2>2, <2>3
  <2> QED
    BY <2>1, <2>3, <2>4 DEF a
<1> QED
  BY <1>1, <1>2, <1>3, <1>4

(* The bytes the request is at.                                             *)
LEMMA ChunkCounts ==
    ASSUME NEW k \in Nat, NEW n \in Nat
    PROVE  LET chunk == [i \in 1 .. n |-> k + i - 1]
           IN  chunk \in Seq(Nat) /\ Len(chunk) = n /\ Counts(chunk, k)
<1> DEFINE chunk == [i \in 1 .. n |-> k + i - 1]
<1>1. chunk \in [1 .. n -> Nat]
  OBVIOUS
<1>2. DOMAIN chunk = 1 .. n /\ \A i \in 1 .. n : chunk[i] = k + i - 1
  OBVIOUS
<1> HIDE DEF chunk
<1>3. chunk \in Seq(Nat) /\ Len(chunk) = n
  BY <1>1
<1> QED
  BY <1>2, <1>3 DEF chunk, Counts

(* The buffers say where they start and, until their session is done, end   *)
(* where the request is.                                                    *)
BuffersInv ==
    /\ \A r \in Requests : Counts(buffer[r], prefix_dropped[r])
    /\ \A r \in Requests : HasSpipe(r) /\ ~done[r] => LogicalEnd(r) = out[r]

(* A write by request r, if any.                                            *)
LEMMA WriteCounts ==
    ASSUME Typed, conf' = conf, NEW r \in Requests, NEW n \in Nat, Write(r, n)
    PROVE  /\ buffer' \in [Requests -> Seq(Nat)] /\ prefix_dropped' \in [Requests -> Nat]
           /\ \A s \in Requests : Len(buffer'[s]) <= conf.cap
           /\ \A s \in Requests : s # r \/ done[s] =>
                 buffer'[s] = buffer[s] /\ prefix_dropped'[s] = prefix_dropped[s]
           /\ BuffersInv => /\ \A s \in Requests : Counts(buffer'[s], prefix_dropped'[s])
                            /\ HasSpipe(r) /\ ~done[r] =>
                                  prefix_dropped'[r] + Len(buffer'[r]) = out[r] + n
<1> DEFINE chunk == [i \in 1 .. n |-> out[r] + i - 1]
           a     == Appended(buffer[r], prefix_dropped[r], chunk)
<1>1. /\ conf \in Confs /\ out[r] \in Nat
      /\ buffer \in [Requests -> Seq(Nat)] /\ prefix_dropped \in [Requests -> Nat]
      /\ \A s \in Requests : Len(buffer[s]) <= conf.cap
  BY DEF Typed, TypedRequests, TypedSessions
<1>2. chunk \in Seq(Nat) /\ Len(chunk) = n /\ Counts(chunk, out[r])
  BY <1>1, ChunkCounts
<1>3. IF ~HasSpipe(r) \/ n = 0 \/ done[r] THEN UNCHANGED <<buffer, prefix_dropped>>
      ELSE /\ buffer' = [buffer EXCEPT ![r] = a.buffer]
           /\ prefix_dropped' = [prefix_dropped EXCEPT ![r] = a.dropped]
  BY DEF Write
<1> HIDE DEF chunk
<1>4. CASE ~HasSpipe(r) \/ n = 0 \/ done[r]
  <2>1. buffer' = buffer /\ prefix_dropped' = prefix_dropped
    BY <1>3, <1>4
  <2>2. BuffersInv /\ HasSpipe(r) /\ ~done[r] => prefix_dropped[r] + Len(buffer[r]) = out[r] + n
    BY <1>1, <1>4 DEF BuffersInv, LogicalEnd
  <2> QED
    BY <1>1, <2>1, <2>2 DEF BuffersInv
<1>5. CASE ~(~HasSpipe(r) \/ n = 0 \/ done[r])
  <2>1. /\ buffer' = [buffer EXCEPT ![r] = a.buffer]
        /\ prefix_dropped' = [prefix_dropped EXCEPT ![r] = a.dropped]
    BY <1>3, <1>5
  <2> DEFINE b == buffer[r]
             d == prefix_dropped[r]
  <2>2. b \in Seq(Nat) /\ d \in Nat /\ Len(b) <= conf.cap
    BY <1>1
  <2>3. /\ a.buffer \in Seq(Nat) /\ a.dropped \in Nat /\ Len(a.buffer) <= conf.cap
        /\ a.dropped + Len(a.buffer) = d + Len(b) + Len(chunk)
        /\ Counts(b, d) /\ Counts(chunk, d + Len(b)) => Counts(a.buffer, a.dropped)
    BY <1>1, <1>2, <2>2, AppendedCounts
  <2> HIDE DEF a
  <2>4. \A s \in Requests : /\ buffer'[s] = IF s = r THEN a.buffer ELSE buffer[s]
                            /\ prefix_dropped'[s] = IF s = r THEN a.dropped ELSE prefix_dropped[s]
    BY <1>1, <2>1
  <2>5. buffer' \in [Requests -> Seq(Nat)] /\ prefix_dropped' \in [Requests -> Nat]
    BY <1>1, <2>1, <2>3
  <2>6. \A s \in Requests : Len(buffer'[s]) <= conf.cap
    BY <1>1, <2>3, <2>4
  <2>7. \A s \in Requests : s # r \/ done[s] =>
           buffer'[s] = buffer[s] /\ prefix_dropped'[s] = prefix_dropped[s]
    BY <1>5, <2>4
  <2>8. ASSUME BuffersInv PROVE d + Len(b) = out[r] /\ Counts(b, d)
    BY <1>5, <2>8 DEF BuffersInv, LogicalEnd
  <2>9. ASSUME BuffersInv
        PROVE  /\ \A s \in Requests : Counts(buffer'[s], prefix_dropped'[s])
               /\ prefix_dropped'[r] + Len(buffer'[r]) = out[r] + n
    <3>1. Counts(a.buffer, a.dropped)
      BY <1>2, <2>3, <2>8, <2>9
    <3>2. \A s \in Requests : Counts(buffer'[s], prefix_dropped'[s])
      BY <2>4, <2>9, <3>1 DEF BuffersInv
    <3>3. prefix_dropped'[r] + Len(buffer'[r]) = out[r] + n
      BY <1>2, <2>3, <2>4, <2>8, <2>9
    <3> QED
      BY <3>2, <3>3
  <2> QED
    BY <2>5, <2>6, <2>7, <2>9
<1> QED
  BY <1>4, <1>5

(* One step of the sessions: a finished one is left as it is.               *)
SessionsStep ==
    /\ TypedSessions'
    /\ BuffersInv => BuffersInv'
    /\ \A r \in Requests : done[r] => done'[r] /\ buffer'[r] = buffer[r] /\ prefix_dropped'[r] = prefix_dropped[r]

(* A request puts out n bytes.                                              *)
LEMMA WriteSteps ==
    ASSUME Typed, conf' = conf, NEW r \in Requests, NEW n \in Nat, Write(r, n),
           out' = [out EXCEPT ![r] = @ + n], UNCHANGED <<done, is_cancelled>>
    PROVE  SessionsStep
<1>1. /\ buffer' \in [Requests -> Seq(Nat)] /\ prefix_dropped' \in [Requests -> Nat]
      /\ \A s \in Requests : Len(buffer'[s]) <= conf.cap
      /\ \A s \in Requests : s # r \/ done[s] =>
            buffer'[s] = buffer[s] /\ prefix_dropped'[s] = prefix_dropped[s]
      /\ BuffersInv => /\ \A s \in Requests : Counts(buffer'[s], prefix_dropped'[s])
                       /\ HasSpipe(r) /\ ~done[r] => prefix_dropped'[r] + Len(buffer'[r]) = out[r] + n
  BY WriteCounts
<1>2. TypedSessions'
  BY <1>1 DEF Typed, TypedSessions
<1>3. out \in [Requests -> Nat]
  BY DEF Typed, TypedRequests
<1>4. ASSUME BuffersInv PROVE BuffersInv'
  <2>1. ASSUME NEW s \in Requests, HasSpipe(s)', ~done'[s] PROVE LogicalEnd(s)' = out'[s]
    <3>1. HasSpipe(s) /\ ~done[s]
      BY <2>1 DEF HasSpipe
    <3>2. CASE s = r
      BY <1>1, <1>3, <1>4, <3>1, <3>2 DEF LogicalEnd
    <3>3. CASE s # r
      BY <1>1, <1>3, <1>4, <3>1, <3>3 DEF LogicalEnd, BuffersInv
    <3> QED
      BY <3>2, <3>3
  <2> QED
    BY <1>1, <1>4, <2>1 DEF BuffersInv
<1> QED
  BY <1>1, <1>2, <1>4 DEF SessionsStep

(* Sessions are finished.                                                   *)
LEMMA FinishSteps ==
    ASSUME Typed, UNCHANGED <<conf, buffer, prefix_dropped, out>>,
           done' \in [Requests -> BOOLEAN], is_cancelled' \in [Requests -> BOOLEAN],
           \A r \in Requests : done[r] => done'[r]
    PROVE  SessionsStep
<1>1. TypedSessions'
  BY DEF Typed, TypedSessions
<1>2. BuffersInv => BuffersInv'
  BY DEF BuffersInv, LogicalEnd, HasSpipe
<1> QED
  BY <1>1, <1>2 DEF SessionsStep

LEMMA SessionsKept ==
    ASSUME Typed, [Next]_vars
    PROVE  SessionsStep
<1>1. TypedSessions /\ TypedRequests /\ TypedServer /\ conf \in Confs
  BY DEF Typed
<1>2. ASSUME UNCHANGED <<conf, sessionVars, out>> PROVE SessionsStep
  BY <1>1, <1>2, FinishSteps DEF sessionVars, TypedSessions
<1>3. ASSUME NEW x \in Threads, FinishRemoval(x) PROVE SessionsStep
  <2>1. UNCHANGED <<conf, buffer, prefix_dropped, out>>
    BY <1>3 DEF FinishRemoval, clientVars
  <2>2. /\ is_cancelled' = [s \in Requests |-> is_cancelled[s] \/ (removed[x].cancel /\ s \in removed[x].ss)]
        /\ done' = [s \in Requests |-> done[s] \/ s \in Finalized(x)]
    BY <1>3 DEF FinishRemoval
  <2>3. removed[x].cancel \in BOOLEAN
    BY DEF Typed, TypedMap
  <2>4. done' \in [Requests -> BOOLEAN] /\ is_cancelled' \in [Requests -> BOOLEAN]
    BY <1>1, <2>2, <2>3 DEF TypedSessions
  <2>5. \A r \in Requests : done[r] => done'[r]
    BY <2>2
  <2> QED
    BY <2>1, <2>4, <2>5, FinishSteps
<1>4. ASSUME NEW r \in Requests, NEW n \in Nat, NEW more, Yield(r, n, more),
             UNCHANGED <<conf, done, is_cancelled>>
      PROVE  SessionsStep
  BY <1>4, WriteSteps DEF Yield
<1>5. ASSUME NEW r \in Requests, Request(r) PROVE SessionsStep
  <2>1. CASE FlushFirst(r)
    <3>1. held[r] \in Nat
      BY <1>1 DEF TypedRequests
    <3> QED
      BY <1>4, <2>1, <3>1 DEF FlushFirst
  <2>2. CASE SayDone(r) \/ Ping(r)
    <3>1. 1 \in Nat
      OBVIOUS
    <3> QED
      BY <1>4, <2>2, <3>1 DEF SayDone, Ping
  <2>3. CASE TakeNext(r)
    <3>1. PICK k \in NextResult(r) :
             TakeResult(r, k) /\ Yield(r, queue_results[k].len, queue_results[k].kind # "error")
      BY <2>3 DEF TakeNext
    <3>2. UNCHANGED <<gen, n_sent, id_tasks>> /\ UNCHANGED <<conf, done, is_cancelled>>
      BY <2>3 DEF TakeNext
    <3>3. queue_results[k].len \in Nat
      BY <1>1, <3>1, <3>2, TakeResultTyped DEF ResultType
    <3> QED
      BY <1>4, <3>1, <3>2, <3>3
  <2>4. CASE Destroy(r)
    <3>1. done' = [done EXCEPT ![r] = @ \/ HasSpipe(r)] /\ HasSpipe(r) \in BOOLEAN
      BY <2>4 DEF Destroy, HasSpipe
    <3>2. done' \in [Requests -> BOOLEAN] /\ \A s \in Requests : done[s] => done'[s]
      BY <1>1, <3>1 DEF TypedSessions
    <3>3. UNCHANGED <<conf, buffer, prefix_dropped, out, is_cancelled>>
      BY <2>4 DEF Destroy, clientVars
    <3> QED
      BY <1>1, <3>2, <3>3, FinishSteps DEF TypedSessions
  <2>5. CASE FinishRemoval(r)
    BY <1>3, <2>5 DEF Threads
  <2>6. CASE \/ Reject(r) \/ Register(r) \/ PostTasks(r) \/ TakeFirst(r) \/ GiveUp(r) \/ SeeStop(r)
             \/ AwaitNext(r) \/ LoseClient(r) \/ Complete(r) \/ Release(r)
    BY <1>2, <2>6 DEF Reject, Register, PostTasks, TakeFirst, GiveUp, SeeStop, AwaitNext, LoseClient,
                      Complete, Release, streamVars, clientVars
  <2> QED
    BY <1>5, <2>1, <2>2, <2>3, <2>4, <2>5, <2>6 DEF Request
<1>6. ASSUME NEW t \in Tasks, Loop(t) \/ Fail(t) PROVE SessionsStep
  BY <1>2, <1>6 DEF Loop, Generate, CancelTask, Fail, streamVars, requestVars
<1>7. ASSUME NEW r \in Requests, Arrive(r) \/ Leave(r) PROVE SessionsStep
  BY <1>2, <1>7 DEF Arrive, Leave, streamVars, clientVars
<1>8. ASSUME (\E c \in Conversations : Delete(c)) \/ (\E cs \in SUBSET Conversations : Expire(cs))
      PROVE  SessionsStep
  BY <1>2, <1>8 DEF Delete, Expire, requestVars
<1>9. ASSUME NEW g \in Readers, Open(g) \/ Quit(g) \/ Reader(g) PROVE SessionsStep
  BY <1>2, <1>9 DEF Open, Quit, Reader, CheckOffset, ReadBytes, ReadEnd, streamVars, requestVars
<1>10. ASSUME Terminate \/ StopStreams \/ StopServer \/ JoinWorkers PROVE SessionsStep
  BY <1>2, <1>10 DEF Terminate, StopStreams, StopServer, JoinWorkers, streamVars, requestVars
<1>11. ASSUME UNCHANGED vars PROVE SessionsStep
  BY <1>2, <1>11 DEF vars, streamVars, requestVars
<1>12. \A x \in {"DELETE", "gc", "main"} : x \in Threads
  BY DEF Threads, Others
<1> QED
  BY <1>3, <1>5, <1>6, <1>7, <1>8, <1>9, <1>10, <1>11, <1>12 DEF Next, Main

----------------------------------------------------------------------------
(* The readers.                                                             *)

ReadersInv ==
    /\ \A g \in Readers : rpc[g] \in {"checking", "reading", "ended"} => source[g] \in Requests
    /\ ReadsExactly

(* Whatever else happens, a reader that has ended has read all of a session *)
(* that does not change any more.                                           *)
LEMMA OthersRead ==
    ASSUME Typed, ReadersInv, SessionsStep, UNCHANGED <<conf, getVars>>
    PROVE  ReadersInv'
<1>1. \A g \in Readers : Offset(g)' = Offset(g)
  BY DEF Offset, getVars
<1>2. ASSUME NEW g \in Readers, rpc[g] = "ended", rpeer[g], ~lost[g]
      PROVE  done'[source[g]] /\ Offset(g)' >= LogicalEnd(source[g])'
  <2>1. done[source[g]] /\ Offset(g) >= LogicalEnd(source[g]) /\ source[g] \in Requests
    BY <1>2 DEF ReadersInv, ReadsExactly, ReadsToEnd
  <2>2. done'[source[g]] /\ LogicalEnd(source[g])' = LogicalEnd(source[g])
    BY <2>1 DEF SessionsStep, LogicalEnd, getVars
  <2> QED
    BY <1>1, <2>1, <2>2
<1>3. ReadsToEnd'
  BY <1>2 DEF ReadsToEnd, getVars
<1>4. ReplayExact'
  BY DEF ReadersInv, ReadsExactly, ReplayExact, getVars
<1> QED
  BY <1>3, <1>4 DEF ReadersInv, ReadsExactly, getVars

(* One reader moves on and does not end.                                    *)
LEMMA ReaderGoesOn ==
    ASSUME Typed, ReadersInv, NEW g \in Readers,
           UNCHANGED <<conf, buffer, prefix_dropped, done, lost>>,
           \A h \in Readers \ {g} : rpc'[h] = rpc[h] /\ source'[h] = source[h] /\ rpeer'[h] = rpeer[h]
                                    /\ got'[h] = got[h],
           rpc'[g] # "ended",
           rpc'[g] \in {"checking", "reading"} => source'[g] \in Requests,
           Counts(got'[g], conf.from[g])
    PROVE  ReadersInv'
<1>1. \A h \in Readers : rpc'[h] \in {"checking", "reading", "ended"} => source'[h] \in Requests
  BY DEF ReadersInv
<1>2. ReplayExact'
  BY DEF ReadersInv, ReadsExactly, ReplayExact, Counts
<1>3. ReadsToEnd'
  BY DEF ReadersInv, ReadsExactly, ReadsToEnd, Offset, LogicalEnd
<1> QED
  BY <1>1, <1>2, <1>3 DEF ReadersInv, ReadsExactly

LEMMA ReadersKept ==
    ASSUME Typed, ReadersInv, BuffersInv, SessionsStep, [Next]_vars
    PROVE  TypedReaders' /\ ReadersInv'
<1>1. TypedReaders /\ TypedSessions /\ TypedMap /\ conf \in Confs
  BY DEF Typed
<1>2. ASSUME UNCHANGED <<conf, getVars>> PROVE TypedReaders' /\ ReadersInv'
  BY <1>1, <1>2, OthersRead DEF TypedReaders, getVars
<1>3. \A g \in Readers : Counts(got[g], conf.from[g])
  BY DEF ReadersInv, ReadsExactly, ReplayExact, Counts
<1>4. ASSUME NEW g \in Readers, Open(g) PROVE TypedReaders' /\ ReadersInv'
  <2> DEFINE s == sessions[conf.rconv[g]]
             l == IF s = NoRequest THEN "refused" ELSE "checking"
  <2>1. conf.rconv[g] \in Conversations /\ s \in Requests \cup {NoRequest}
    BY <1>1, ConfTyped DEF TypedMap
  <2>2. /\ source' = [source EXCEPT ![g] = s] /\ rpc' = [rpc EXCEPT ![g] = l]
        /\ UNCHANGED <<conf, buffer, prefix_dropped, done, lost, rpeer, got>>
    BY <1>4 DEF Open, streamVars, sessionVars
  <2> HIDE DEF s
  <2>3. rpc'[g] # "ended" /\ (rpc'[g] \in {"checking", "reading"} => source'[g] \in Requests)
    BY <1>1, <2>1, <2>2 DEF TypedReaders
  <2>4. \A h \in Readers \ {g} : rpc'[h] = rpc[h] /\ source'[h] = source[h]
    BY <1>1, <2>2 DEF TypedReaders
  <2>5. TypedReaders'
    BY <1>1, <2>1, <2>2 DEF TypedReaders
  <2> QED
    BY <1>3, <2>2, <2>3, <2>4, <2>5, ReaderGoesOn
<1>5. ASSUME NEW g \in Readers, CheckOffset(g) PROVE TypedReaders' /\ ReadersInv'
  <2>1. PICK l \in {"refused", "reading"} : rpc' = [rpc EXCEPT ![g] = l]
    BY <1>5, Zenon DEF CheckOffset
  <2>2. UNCHANGED <<conf, buffer, prefix_dropped, done, lost, rpeer, got, source>>
    BY <1>5 DEF CheckOffset, streamVars, sessionVars
  <2>3. source[g] \in Requests
    BY <1>5 DEF CheckOffset, ReadersInv
  <2>4. TypedReaders'
    BY <1>1, <2>1, <2>2 DEF TypedReaders
  <2>5. rpc'[g] # "ended" /\ \A h \in Readers \ {g} : rpc'[h] = rpc[h]
    BY <1>1, <2>1 DEF TypedReaders
  <2> QED
    BY <1>3, <2>2, <2>3, <2>4, <2>5, ReaderGoesOn
<1>6. ASSUME NEW g \in Readers, Quit(g) PROVE TypedReaders' /\ ReadersInv'
  <2>1. UNCHANGED <<conf, buffer, prefix_dropped, done, lost, rpc, got, source>>
    BY <1>6 DEF Quit, streamVars, sessionVars
  <2>2. rpc[g] = "reading" /\ rpeer' = [rpeer EXCEPT ![g] = FALSE]
    BY <1>6 DEF Quit
  <2>3. TypedReaders'
    BY <1>1, <2>1, <2>2 DEF TypedReaders
  <2>4. source[g] \in Requests /\ rpc'[g] # "ended" /\ \A h \in Readers \ {g} : rpeer'[h] = rpeer[h]
    BY <1>1, <2>1, <2>2 DEF ReadersInv, TypedReaders
  <2> QED
    BY <1>3, <2>1, <2>3, <2>4, ReaderGoesOn
<1>7. ASSUME NEW g \in Readers, ReadBytes(g) PROVE TypedReaders' /\ ReadersInv'
  <2> DEFINE s == source[g]
             d == prefix_dropped[s]
             n == Offset(g) - d
             piece == SubSeq(buffer[s], n + 1, Len(buffer[s]))
  <2>1. /\ UNCHANGED <<conf, buffer, prefix_dropped, done, lost, rpc, rpeer, source>>
        /\ rpc[g] = "reading" /\ Found(s, Offset(g)) = "bytes"
        /\ got' = [got EXCEPT ![g] = @ \o piece]
    BY <1>7 DEF ReadBytes, streamVars, sessionVars
  <2>2. s \in Requests
    BY <2>1 DEF ReadersInv
  <2>3. /\ buffer[s] \in Seq(Nat) /\ d \in Nat /\ Counts(buffer[s], d)
        /\ got[g] \in Seq(Nat) /\ conf.from[g] \in Nat
    BY <1>1, <2>2, ConfTyped DEF TypedSessions, TypedReaders, BuffersInv
  <2>4. Offset(g) = conf.from[g] + Len(got[g]) /\ Offset(g) \in Nat
    BY <2>3 DEF Offset
  <2>5. d <= Offset(g) /\ Offset(g) < d + Len(buffer[s])
    <3>1. LogicalEnd(s) = d + Len(buffer[s]) /\ LogicalEnd(s) \in Nat
      BY <2>3 DEF LogicalEnd
    <3> QED
      BY <2>1, <2>3, <2>4, <3>1 DEF Found
  <2>6. n \in Nat /\ n <= Len(buffer[s]) /\ d + n = Offset(g)
    BY SMTT(60), <2>3, <2>4, <2>5
  <2> HIDE DEF n, d
  <2>7. piece \in Seq(Nat) /\ Counts(piece, d + n)
    <3>1. d \in Int
      BY <2>3
    <3> QED
      BY <2>3, <2>6, <3>1, SuffixCounts
  <2> HIDE DEF piece
  <2>8. Counts(piece, conf.from[g] + Len(got[g]))
    BY <2>4, <2>6, <2>7
  <2>9. got[g] \o piece \in Seq(Nat) /\ Counts(got[g] \o piece, conf.from[g])
    <3>1. conf.from[g] \in Int
      BY <2>3
    <3> QED
      BY <1>3, <2>3, <2>7, <2>8, <3>1, ConcatCounts
  <2>10. got'[g] = got[g] \o piece /\ \A h \in Readers \ {g} : got'[h] = got[h]
    BY <1>1, <2>1 DEF TypedReaders
  <2>11. TypedReaders'
    BY <1>1, <2>1, <2>9 DEF TypedReaders
  <2> QED
    BY <2>1, <2>2, <2>9, <2>10, <2>11, ReaderGoesOn
<1>8. ASSUME NEW g \in Readers, ReadEnd(g) PROVE TypedReaders' /\ ReadersInv'
  <2> DEFINE s == source[g]
             f == Found(s, Offset(g))
  <2>1. /\ UNCHANGED <<conf, buffer, prefix_dropped, done, got, rpeer, source>>
        /\ rpc[g] = "reading" /\ (~rpeer[g] \/ f \in {"lost", "done"})
        /\ lost' = [lost EXCEPT ![g] = f = "lost"] /\ rpc' = [rpc EXCEPT ![g] = "ended"]
    BY <1>8 DEF ReadEnd, streamVars, sessionVars
  <2>2. s \in Requests
    BY <2>1 DEF ReadersInv
  <2>3. /\ buffer[s] \in Seq(Nat) /\ prefix_dropped[s] \in Nat
        /\ got[g] \in Seq(Nat) /\ conf.from[g] \in Nat
    BY <1>1, <2>2, ConfTyped DEF TypedSessions, TypedReaders
  <2>4. LogicalEnd(s) \in Nat /\ Offset(g) \in Nat /\ LogicalEnd(s) = prefix_dropped[s] + Len(buffer[s])
    BY SMTT(60), <2>3 DEF LogicalEnd, Offset
  <2>5. f = "done" => done[s] /\ Offset(g) >= LogicalEnd(s)
    BY <2>3, <2>4 DEF Found
  <2> HIDE DEF f
  <2>6. TypedReaders'
    BY <1>1, <2>1 DEF TypedReaders
  <2>7. \A h \in Readers : /\ rpc'[h] = IF h = g THEN "ended" ELSE rpc[h]
                           /\ lost'[h] = IF h = g THEN f = "lost" ELSE lost[h]
    BY <1>1, <2>1 DEF TypedReaders
  <2>8. \A h \in Readers : Offset(h)' = Offset(h) /\ LogicalEnd(source[h])' = LogicalEnd(source[h])
    BY <2>1 DEF Offset, LogicalEnd
  <2>9. ASSUME NEW h \in Readers, rpc'[h] = "ended", rpeer'[h], ~lost'[h]
        PROVE  done'[source'[h]] /\ Offset(h)' >= LogicalEnd(source[h])'
    <3>1. CASE h = g
      <4>1. f = "done"
        BY <2>1, <2>7, <2>9, <3>1
      <4> QED
        BY <2>1, <2>5, <2>8, <3>1, <4>1
    <3>2. CASE h # g
      <4>1. rpc[h] = "ended" /\ rpeer[h] /\ ~lost[h]
        BY <2>1, <2>7, <2>9, <3>2
      <4> QED
        BY <2>1, <2>8, <4>1 DEF ReadersInv, ReadsExactly, ReadsToEnd
    <3> QED
      BY <3>1, <3>2
  <2>10. ReadsToEnd'
    BY <2>1, <2>9 DEF ReadsToEnd
  <2>11. ReplayExact'
    BY <2>1 DEF ReadersInv, ReadsExactly, ReplayExact
  <2>12. \A h \in Readers : rpc'[h] \in {"checking", "reading", "ended"} => source'[h] \in Requests
    BY <2>1, <2>2, <2>7 DEF ReadersInv
  <2> QED
    BY <2>6, <2>10, <2>11, <2>12 DEF ReadersInv, ReadsExactly
<1>9. ASSUME NEW r \in Requests, Request(r) PROVE UNCHANGED <<conf, getVars>>
  BY <1>9 DEF Request, Reject, Register, PostTasks, TakeFirst, GiveUp, SeeStop, FlushFirst, SayDone,
              AwaitNext, TakeNext, Ping, LoseClient, Complete, FinishRemoval, Release, Destroy
<1>10. ASSUME NEW t \in Tasks, Loop(t) \/ Fail(t) PROVE UNCHANGED <<conf, getVars>>
  BY <1>10 DEF Loop, Generate, CancelTask, Fail
<1>11. ASSUME NEW r \in Requests, Arrive(r) \/ Leave(r) PROVE UNCHANGED <<conf, getVars>>
  BY <1>11 DEF Arrive, Leave
<1>12. ASSUME \/ \E c \in Conversations : Delete(c)
              \/ \E cs \in SUBSET Conversations : Expire(cs)
              \/ \E x \in {"DELETE", "gc"} : FinishRemoval(x)
              \/ Terminate \/ Main \/ UNCHANGED vars
       PROVE  UNCHANGED <<conf, getVars>>
  BY <1>12 DEF Delete, Expire, FinishRemoval, Terminate, Main, StopStreams, StopServer, JoinWorkers, vars
<1> QED
  BY <1>2, <1>4, <1>5, <1>6, <1>7, <1>8, <1>9, <1>10, <1>11, <1>12 DEF Next, Reader

----------------------------------------------------------------------------
(* The tasks of the requests.                                               *)

(* Apart from stop and next, nobody touches a reader's state: these only    *)
(* change that of their own request.                                        *)
LEMMA StopReaderOwn ==
    ASSUME TypedServer, NEW r \in Requests, NEW q, StopReader(r, q)
    PROVE  \A s \in Requests \ {r} : cancelled'[s] = cancelled[s]
BY DEF StopReader, TypedServer

LEMMA TakeResultOwn ==
    ASSUME TypedServer, NEW r \in Requests, NEW k, TakeResult(r, k)
    PROVE  \A s \in Requests \ {r} : cancelled'[s] = cancelled[s] /\ received_count'[s] = received_count[s]
<1>1. CASE queue_results[k].kind = "error"
  <2>1. StopReader(r, RemoveAt(queue_results, k)) /\ UNCHANGED received_count
    BY <1>1 DEF TakeResult
  <2> QED
    BY <2>1, StopReaderOwn
<1>2. CASE queue_results[k].kind # "error"
  <2>1. /\ received_count' = [received_count EXCEPT ![r] =
                                 @ + IF queue_results[k].kind = "final" THEN 1 ELSE 0]
        /\ UNCHANGED cancelled
    BY <1>2, Zenon DEF TakeResult
  <2> QED
    BY <2>1 DEF TypedServer
<1> QED
  BY <1>1, <1>2

(* Steps that neither post tasks nor work on them.                          *)
LEMMA TasksMove ==
    ASSUME Typed, TasksInv, UNCHANGED <<conf, id_tasks, gen, n_sent>>,
           \A r \in Requests : pc[r] = "idle" /\ pc'[r] # "idle" => r \in conf.asked,
           \A r \in Requests : pc'[r] \in Fresh \cup {"registered"} => pc[r] \in Fresh \cup {"registered"},
           \A r \in Requests : pc'[r] \in Fresh =>
              pc[r] \in Fresh /\ received_count'[r] = received_count[r] /\ cancelled'[r] = cancelled[r]
    PROVE  TasksInv'
<1>1. \A r \in Requests : pc'[r] # "idle" => r \in conf'.asked
  BY DEF TasksInv
<1>2. \A r \in Requests : pc'[r] \in Fresh =>
         id_tasks'[r] = {} /\ received_count'[r] = 0 /\ cancelled'[r] = FALSE
  BY DEF TasksInv
<1>3. \A r \in Requests : TasksOf(r)' = TasksOf(r)
  BY DEF TasksOf
<1>4. \A t \in Tasks : Results(t)' = Results(t)
  BY DEF Results
<1>5. \A t \in Tasks : t[1] \in Requests
  BY DEF Tasks
<1>6. \A r \in Requests : id_tasks'[r] \subseteq TasksOf(r)'
  BY <1>3 DEF TasksInv
<1>7. \A r \in conf'.asked : pc'[r] \in Fresh \cup {"registered"} =>
         \A t \in TasksOf(r)' : gen'[t] = "none"
  BY <1>3, ConfTyped DEF TasksInv, Typed
<1>8. \A t \in Tasks : gen'[t] # "none" => t[1] \in conf'.asked /\ t \in id_tasks'[t[1]]
  BY DEF TasksInv
<1>9. \A t \in Tasks :
         t[1] \in conf'.asked /\ t \in TasksOf(t[1])' /\ gen'[t] \in {"none", "queued"} =>
            n_sent'[t] < Len(Results(t)')
  BY <1>3, <1>4, <1>5 DEF TasksInv
<1> QED
  BY <1>1, <1>2, <1>6, <1>7, <1>8, <1>9 DEF TasksInv

(* Task t, which is being worked on, is sent more of or not.                *)
LEMMA TasksWork ==
    ASSUME Typed, TasksInv, UNCHANGED <<conf, pc, id_tasks, received_count, cancelled>>,
           NEW t \in Tasks, gen[t] # "none",
           \A u \in Tasks \ {t} : gen'[u] = gen[u] /\ n_sent'[u] = n_sent[u],
           gen'[t] # "none", gen'[t] = "queued" => n_sent'[t] < Len(Results(t))
    PROVE  TasksInv'
<1>1. \A r \in Requests : TasksOf(r)' = TasksOf(r)
  BY DEF TasksOf
<1>2. \A u \in Tasks : Results(u)' = Results(u) /\ u[1] \in Requests
  BY DEF Results, Tasks
<1>3. t[1] \in conf.asked /\ t \in id_tasks[t[1]] /\ t \in TasksOf(t[1])
  BY <1>2 DEF TasksInv
<1>4. \A r \in conf.asked : pc[r] \in Fresh \cup {"registered"} =>
         \A u \in TasksOf(r) : u \in Tasks /\ u # t /\ gen[u] = "none"
  BY TasksTyped DEF TasksInv, Typed
<1>5. \A r \in conf.asked : r \in Requests
  BY ConfTyped DEF Typed
<1> QED
  BY <1>1, <1>2, <1>3, <1>4, <1>5 DEF TasksInv

(* A request has taken sessions out of the map only while it deals with     *)
(* them.                                                                    *)
RemovalsInv == \A r \in Requests : removed[r].ss # {} => pc[r] \in {"replacing", "evicting"}

LEMMA TasksKept ==
    ASSUME Typed, TasksInv, RemovalsInv, [Next]_vars
    PROVE  TasksInv'
<1>1. TypedServer /\ TypedRequests /\ conf \in Confs
  BY DEF Typed
<1>2. ASSUME UNCHANGED <<conf, serverVars, pc>> PROVE TasksInv'
  BY <1>2, TasksMove DEF serverVars, loopVars, readerVars
<1>3. ASSUME NEW r \in Requests, NEW l \in PcStates \ (Fresh \cup {"registered"}),
             pc[r] # "idle", Goto(r, l), UNCHANGED <<conf, id_tasks, gen, n_sent>>,
             \A s \in Requests \ {r} : received_count'[s] = received_count[s] /\ cancelled'[s] = cancelled[s]
      PROVE  TasksInv'
  <2>1. \A s \in Requests : pc'[s] = IF s = r THEN l ELSE pc[s]
    BY <1>1, <1>3 DEF Goto, TypedRequests
  <2>2. l \notin Fresh /\ l # "registered" /\ l # "idle"
    BY DEF Fresh
  <2> QED
    BY <1>3, <2>1, <2>2, TasksMove
<1>4. ASSUME NEW x \in Threads, FinishRemoval(x), x \in Requests => pc[x] \in {"replacing", "evicting"}
      PROVE  TasksInv'
  <2>1. UNCHANGED <<conf, serverVars>>
    BY <1>4 DEF FinishRemoval
  <2>2. CASE x \in Others
    BY <1>2, <1>4, <2>1, <2>2 DEF FinishRemoval
  <2>3. CASE x \in Requests /\ x \notin Others
    <3>1. pc' = [pc EXCEPT ![x] = IF @ = "replacing" THEN "posting" ELSE "releasing"]
      BY <1>4, <2>3 DEF FinishRemoval
    <3>2. \A s \in Requests : pc'[s] = IF s = x THEN IF pc[x] = "replacing" THEN "posting" ELSE "releasing"
                                       ELSE pc[s]
      BY <1>1, <2>3, <3>1 DEF TypedRequests
    <3> QED
      BY <1>4, <2>1, <2>3, <3>2, TasksMove DEF Fresh, serverVars, loopVars, readerVars
  <2> QED
    BY <2>2, <2>3 DEF Threads
<1>5. ASSUME NEW r \in Requests, Register(r) PROVE TasksInv'
  <2>1. pc[r] = "posting" /\ id_tasks' = [id_tasks EXCEPT ![r] = TasksOf(r)] /\ pc' = [pc EXCEPT ![r] = "registered"]
        /\ UNCHANGED <<conf, gen, n_sent, received_count, cancelled>>
    BY <1>5 DEF Register, Goto, loopVars
  <2>2. \A s \in Requests : /\ pc'[s] = IF s = r THEN "registered" ELSE pc[s]
                            /\ id_tasks'[s] = IF s = r THEN TasksOf(r) ELSE id_tasks[s]
    BY <1>1, <2>1 DEF TypedRequests, TypedServer
  <2>3. \A s \in Requests : TasksOf(s)' = TasksOf(s)
    BY <2>1 DEF TasksOf
  <2>4. \A t \in Tasks : Results(t)' = Results(t) /\ t[1] \in Requests
    BY <2>1 DEF Results, Tasks
  <2>5. \A s \in conf.asked : s \in Requests
    BY <1>1, ConfTyped
  <2>6. \A t \in Tasks : gen[t] # "none" => t \in id_tasks'[t[1]]
    BY <2>2, <2>4 DEF TasksInv
  <2> QED
    BY <2>1, <2>2, <2>3, <2>4, <2>5, <2>6 DEF TasksInv, Fresh
<1>6. ASSUME NEW r \in Requests, PostTasks(r) PROVE TasksInv'
  <2>1. /\ pc[r] = "registered" /\ pc' = [pc EXCEPT ![r] = "first"]
        /\ gen' = [t \in Tasks |-> IF t \in id_tasks[r] THEN "queued" ELSE gen[t]]
        /\ UNCHANGED <<conf, n_sent, id_tasks, received_count, cancelled>>
    BY <1>6 DEF PostTasks, Goto, readerVars
  <2>2. \A s \in Requests : pc'[s] = IF s = r THEN "first" ELSE pc[s]
    BY <1>1, <2>1 DEF TypedRequests
  <2>3. \A s \in Requests : TasksOf(s)' = TasksOf(s)
    BY <2>1 DEF TasksOf
  <2>4. \A t \in Tasks : Results(t)' = Results(t) /\ t[1] \in Requests
    BY <2>1 DEF Results, Tasks
  <2>5. r \in conf.asked /\ id_tasks[r] \subseteq TasksOf(r)
    BY <2>1 DEF TasksInv
  <2>6. \A s \in conf.asked : s \in Requests /\ TasksOf(s) \subseteq Tasks /\ \A t \in TasksOf(s) : t[1] = s
    BY <1>1, ConfTyped, TasksTyped
  <2>7. \A s \in conf.asked : pc'[s] \in Fresh \cup {"registered"} => \A t \in TasksOf(s) : gen'[t] = "none"
    <3> SUFFICES ASSUME NEW s \in conf.asked, pc'[s] \in Fresh \cup {"registered"}, NEW t \in TasksOf(s)
                 PROVE  gen'[t] = "none"
      OBVIOUS
    <3>1. s # r /\ pc'[s] = pc[s]
      BY <2>2, <2>6 DEF Fresh
    <3>2. t \in Tasks /\ gen[t] = "none" /\ t \notin id_tasks[r]
      BY <2>5, <2>6, <3>1 DEF TasksInv
    <3> QED
      BY <2>1, <3>2
  <2>8. \A t \in Tasks : gen'[t] # "none" => t[1] \in conf.asked /\ t \in id_tasks[t[1]]
    <3> SUFFICES ASSUME NEW t \in Tasks, gen'[t] # "none" PROVE t[1] \in conf.asked /\ t \in id_tasks[t[1]]
      OBVIOUS
    <3>1. CASE t \in id_tasks[r]
      BY <2>5, <2>6, <3>1
    <3>2. CASE t \notin id_tasks[r]
      BY <2>1, <3>2 DEF TasksInv
    <3> QED
      BY <3>1, <3>2
  <2>9. \A t \in Tasks : gen'[t] \in {"none", "queued"} => gen[t] \in {"none", "queued"}
    <3> SUFFICES ASSUME NEW t \in Tasks, t \in id_tasks[r] PROVE gen[t] = "none"
      BY <2>1
    <3> QED
      BY <2>1, <2>5 DEF TasksInv
  <2>10. \A s \in Requests : pc'[s] \in Fresh => pc[s] \in Fresh
    BY <2>2 DEF Fresh
  <2>11. \A s \in Requests : pc'[s] # "idle" => s \in conf.asked
    BY <2>2, <2>5 DEF TasksInv
  <2>12. \A t \in Tasks :
            t[1] \in conf.asked /\ t \in TasksOf(t[1])' /\ gen'[t] \in {"none", "queued"} =>
               n_sent[t] < Len(Results(t)')
    BY <2>3, <2>4, <2>9 DEF TasksInv
  <2>13. \A s \in Requests : id_tasks[s] \subseteq TasksOf(s)'
    BY <2>3 DEF TasksInv
  <2>14. \A s \in Requests : pc'[s] \in Fresh => id_tasks[s] = {} /\ received_count[s] = 0 /\ cancelled[s] = FALSE
    BY <2>10 DEF TasksInv
  <2>15. \A s \in conf.asked : pc'[s] \in Fresh \cup {"registered"} => \A t \in TasksOf(s)' : gen'[t] = "none"
    BY <2>3, <2>6, <2>7
  <2> HIDE DEF Fresh
  <2> QED
    BY <2>1, <2>8, <2>11, <2>12, <2>13, <2>14, <2>15 DEF TasksInv
<1>7. ASSUME NEW r \in Requests, Request(r) PROVE TasksInv'
  <2>1. CASE \/ Reject(r) \/ GiveUp(r) \/ SeeStop(r) \/ FlushFirst(r) \/ SayDone(r) \/ AwaitNext(r)
             \/ Ping(r) \/ Complete(r)
    <3>1. PICK l \in {"completing", "releasing", "streaming", "receiving", "evicting"} : Goto(r, l)
      BY <2>1, Zenon DEF Reject, GiveUp, SeeStop, FlushFirst, SayDone, AwaitNext, Ping, Complete, Yield
    <3>2. l \in PcStates \ (Fresh \cup {"registered"})
      BY DEF PcStates, Fresh
    <3>3. pc[r] # "idle" /\ UNCHANGED <<conf, serverVars>>
      BY <2>1 DEF Reject, GiveUp, SeeStop, FlushFirst, SayDone, AwaitNext, Ping, Complete
    <3> QED
      BY <1>3, <3>1, <3>2, <3>3 DEF serverVars, loopVars, readerVars
  <2>2. CASE LoseClient(r)
    <3>1. "releasing" \in PcStates \ (Fresh \cup {"registered"})
      BY DEF PcStates, Fresh
    <3>2. pc[r] # "idle" /\ UNCHANGED <<conf, serverVars>> /\ (Goto(r, "releasing") \/ UNCHANGED pc)
      BY <2>2 DEF LoseClient
    <3> QED
      BY <1>2, <1>3, <3>1, <3>2 DEF serverVars, loopVars, readerVars
  <2>3. CASE Release(r) \/ Destroy(r)
    <3>1. "released" \in PcStates \ (Fresh \cup {"registered"}) /\ "gone" \in PcStates \ (Fresh \cup {"registered"})
      BY DEF PcStates, Fresh
    <3>2. /\ pc[r] # "idle" /\ (Goto(r, "released") \/ Goto(r, "gone"))
          /\ UNCHANGED <<conf, id_tasks, gen, n_sent, received_count>>
      BY <2>3 DEF Release, Destroy, serverVars, loopVars, readerVars
    <3>3. \A s \in Requests \ {r} : cancelled'[s] = cancelled[s]
      BY <1>1, <2>3, StopReaderOwn DEF Release, Destroy, serverVars, readerVars
    <3> QED
      BY <1>3, <3>1, <3>2, <3>3
  <2>4. CASE TakeFirst(r)
    <3>1. PICK k \in NextResult(r) :
             TakeResult(r, k) /\ (Goto(r, "streaming") \/ Goto(r, "completing") \/ UNCHANGED pc)
      BY <2>4 DEF TakeFirst
    <3>2. pc[r] = "first" /\ UNCHANGED <<conf, id_tasks, gen, n_sent>>
      BY <2>4 DEF TakeFirst
    <3>3. \A s \in Requests \ {r} : received_count'[s] = received_count[s] /\ cancelled'[s] = cancelled[s]
      BY <1>1, <3>1, TakeResultOwn
    <3>4. \A l \in {"streaming", "completing", "first"} : l \in PcStates \ (Fresh \cup {"registered"})
      BY DEF PcStates, Fresh
    <3>5. UNCHANGED pc => Goto(r, "first")
      BY <1>1, <3>2 DEF Goto, TypedRequests
    <3> QED
      BY <1>3, <3>1, <3>2, <3>3, <3>4, <3>5
  <2>5. CASE TakeNext(r)
    <3>1. PICK k \in NextResult(r) :
             TakeResult(r, k) /\ (Goto(r, "streaming") \/ Goto(r, "releasing"))
      BY <2>5, Zenon DEF TakeNext, Yield
    <3>2. pc[r] = "receiving" /\ UNCHANGED <<conf, id_tasks, gen, n_sent>>
      BY <2>5 DEF TakeNext
    <3>3. \A s \in Requests \ {r} : received_count'[s] = received_count[s] /\ cancelled'[s] = cancelled[s]
      BY <1>1, <3>1, TakeResultOwn
    <3>4. \A l \in {"streaming", "releasing"} : l \in PcStates \ (Fresh \cup {"registered"})
      BY DEF PcStates, Fresh
    <3> QED
      BY <1>3, <3>1, <3>2, <3>3, <3>4
  <2>6. CASE FinishRemoval(r)
    <3>1. removed[r].ss # {} /\ r \in Threads
      BY <2>6 DEF FinishRemoval, Threads
    <3> QED
      BY <1>4, <2>6, <3>1 DEF RemovalsInv
  <2> QED
    BY <1>5, <1>6, <1>7, <2>1, <2>2, <2>3, <2>4, <2>5, <2>6 DEF Request
<1>8. ASSUME NEW t \in Tasks, Loop(t) \/ Fail(t) PROVE TasksInv'
  <2>1. UNCHANGED <<conf, pc, id_tasks, received_count, cancelled>>
    BY <1>8 DEF Loop, Generate, CancelTask, Fail, readerVars, requestVars
  <2>2. CASE Generate(t)
    <3> DEFINE n == n_sent[t] + 1
    <3>1. gen[t] = "queued" /\ n_sent' = [n_sent EXCEPT ![t] = n]
          /\ gen' = [gen EXCEPT ![t] = IF n = Len(Results(t)) THEN "ended" ELSE @]
      BY <2>2 DEF Generate
    <3>2. t[1] \in conf.asked /\ t \in TasksOf(t[1]) /\ n_sent[t] < Len(Results(t)) /\ n_sent[t] \in Nat
      BY <1>1, <3>1, ConfTyped DEF TasksInv, Tasks, TypedServer
    <3>3. Len(Results(t)) \in Nat
      BY <1>1, <3>2, TasksTyped
    <3>4. n = Len(Results(t)) \/ n < Len(Results(t))
      BY <3>2, <3>3
    <3> HIDE DEF n
    <3>5. gen'[t] \in {"queued", "ended"} /\ n_sent'[t] = n /\ (gen'[t] = "queued" => n # Len(Results(t)))
      BY <1>1, <3>1 DEF TypedServer
    <3>6. \A u \in Tasks \ {t} : gen'[u] = gen[u] /\ n_sent'[u] = n_sent[u]
      BY <1>1, <3>1 DEF TypedServer
    <3> QED
      BY <2>1, <3>1, <3>4, <3>5, <3>6, TasksWork
  <2>3. CASE Fail(t)
    <3>1. gen[t] = "queued" /\ gen' = [gen EXCEPT ![t] = "failed"] /\ UNCHANGED n_sent
      BY <2>3 DEF Fail
    <3>2. gen'[t] = "failed" /\ \A u \in Tasks \ {t} : gen'[u] = gen[u] /\ n_sent'[u] = n_sent[u]
      BY <1>1, <3>1 DEF TypedServer
    <3> QED
      BY <2>1, <3>1, <3>2, TasksWork
  <2>4. CASE CancelTask(t)
    <3>1. gen' = [gen EXCEPT ![t] = IF @ = "queued" THEN "cancelled" ELSE @] /\ UNCHANGED n_sent
      BY <2>4 DEF CancelTask
    <3>2. CASE gen[t] = "queued"
      <4>1. gen'[t] = "cancelled" /\ \A u \in Tasks \ {t} : gen'[u] = gen[u] /\ n_sent'[u] = n_sent[u]
        BY <1>1, <3>1, <3>2 DEF TypedServer
      <4> QED
        BY <2>1, <3>2, <4>1, TasksWork
    <3>3. CASE gen[t] # "queued"
      <4>1. gen' = gen
        BY <1>1, <3>1, <3>3 DEF TypedServer
      <4> QED
        BY <2>1, <3>1, <4>1, TasksMove
    <3> QED
      BY <3>2, <3>3
  <2> QED
    BY <1>8, <2>2, <2>3, <2>4 DEF Loop
<1>9. ASSUME NEW r \in Requests, Arrive(r) PROVE TasksInv'
  <2>1. PICK l \in {"posting", "replacing"} : pc' = [pc EXCEPT ![r] = l]
    BY <1>9, Zenon DEF Arrive, Replace, Goto
  <2>2. \A s \in Requests : pc'[s] = IF s = r THEN l ELSE pc[s]
    BY <1>1, <2>1 DEF TypedRequests
  <2>3. r \in conf.asked /\ pc[r] = "idle" /\ UNCHANGED <<conf, serverVars>>
    BY <1>9 DEF Arrive
  <2> QED
    BY <2>2, <2>3, TasksMove DEF Fresh, serverVars, loopVars, readerVars
<1>10. ASSUME NEW r \in Requests, Leave(r) PROVE TasksInv'
  BY <1>2, <1>10 DEF Leave
<1>11. ASSUME (\E c \in Conversations : Delete(c)) \/ (\E cs \in SUBSET Conversations : Expire(cs))
       PROVE  TasksInv'
  BY <1>2, <1>11 DEF Delete, Expire, requestVars
<1>12. ASSUME NEW x \in Others, FinishRemoval(x) PROVE TasksInv'
  <2>1. pc' = pc /\ UNCHANGED <<conf, serverVars>>
    BY <1>12 DEF FinishRemoval
  <2> QED
    BY <1>2, <2>1
<1>13. ASSUME NEW g \in Readers, Open(g) \/ Quit(g) \/ Reader(g) PROVE TasksInv'
  BY <1>2, <1>13 DEF Open, Quit, Reader, CheckOffset, ReadBytes, ReadEnd, requestVars
<1>14. ASSUME Terminate \/ StopStreams \/ StopServer \/ JoinWorkers PROVE TasksInv'
  BY <1>2, <1>14 DEF Terminate, StopStreams, StopServer, JoinWorkers, requestVars
<1>15. ASSUME UNCHANGED vars PROVE TasksInv'
  BY <1>2, <1>15 DEF vars, requestVars
<1>16. \A x \in {"DELETE", "gc", "main"} : x \in Others
  BY DEF Others
<1> QED
  BY <1>7, <1>8, <1>9, <1>10, <1>11, <1>12, <1>13, <1>14, <1>15, <1>16 DEF Next, Main

----------------------------------------------------------------------------
(* The map of the sessions.                                                 *)

(* A session that may still grow is in the map under its conversation, or   *)
(* some thread is about to finalize it.  A conversation leads to a session  *)
(* of its own, whose request has arrived; main takes sessions once, after   *)
(* the loop was left.                                                       *)
SessionsInv ==
    /\ \A c \in Conversations : sessions[c] # NoRequest =>
          conf.conv[sessions[c]] = c /\ pc[sessions[c]] # "idle"
    /\ \A x \in Threads : \A r \in removed[x].ss : HasSpipe(r)
    /\ RemovalsInv
    /\ main \in {"running", "returned"} => removed["main"].ss = {}
    /\ \A r \in Requests : done[r] => HasSpipe(r)
    /\ OneLiveSession

LEMMA Distinct == /\ NoRequest \notin Requests
                  /\ \A r \in Requests : r \in Threads /\ r \notin Others
                  /\ \A x \in Others : x \in Threads /\ x \notin Requests
BY ResponseStreamAssumption DEF Threads

(* Steps that leave the map and what was taken out of it alone.             *)
LEMMA SessionsMove ==
    ASSUME Typed, SessionsInv, UNCHANGED <<conf, sessions, removed>>,
           \A r \in Requests : pc'[r] = pc[r] \/ (pc[r] \notin {"idle", "replacing", "evicting"} /\ pc'[r] # "idle"),
           \A r \in Requests : (done[r] => done'[r]) /\ (done'[r] => done[r] \/ HasSpipe(r)),
           main' \in {"running", "returned"} => main \in {"running", "returned"}
    PROVE  SessionsInv'
<1>1. \A r : HasSpipe(r)' = HasSpipe(r)
  BY DEF HasSpipe
<1>2. \A r \in Requests : pc'[r] = "idle" <=> pc[r] = "idle"
  OBVIOUS
<1>3. \A c \in Conversations : sessions[c] \in Requests \cup {NoRequest}
  BY DEF Typed, TypedMap
<1>4. OneLiveSession'
  BY <1>1, <1>2 DEF SessionsInv, OneLiveSession
<1>5. RemovalsInv'
  BY DEF SessionsInv, RemovalsInv
<1>6. \A c \in Conversations : sessions'[c] # NoRequest =>
         conf'.conv[sessions'[c]] = c /\ pc'[sessions'[c]] # "idle"
  BY <1>2, <1>3 DEF SessionsInv
<1> QED
  BY <1>1, <1>4, <1>5, <1>6 DEF SessionsInv

(* Thread x, which has nothing left to finalize, takes sessions out.        *)
LEMMA TakeOutMap ==
    ASSUME Typed, SessionsInv, NEW x \in Threads, removed[x].ss = {},
           NEW cs \in SUBSET Conversations, NEW cancel \in BOOLEAN, TakeOut(x, cs, cancel),
           UNCHANGED <<conf, done>>,
           \A r \in Requests : pc'[r] = pc[r] \/ (r = x /\ pc[r] # "idle" /\ pc'[r] = "evicting"),
           x \in Requests => pc'[x] = "evicting",
           main' \in {"running", "returned"} => main \in {"running", "returned"} /\ x # "main"
    PROVE  SessionsInv'
<1> DEFINE ss == {sessions[c] : c \in cs} \ {NoRequest}
<1>1. TypedMap /\ conf \in Confs
  BY DEF Typed
<1>2. \A y \in Threads : /\ y = x => removed'[y].ss = ss
                         /\ y # x => removed'[y] = removed[y]
  BY <1>1 DEF TakeOut, TypedMap
<1>3. \A c \in Conversations : sessions'[c] = IF c \in cs THEN NoRequest ELSE sessions[c]
  BY DEF TakeOut
<1>4. \A r : HasSpipe(r)' = HasSpipe(r)
  BY DEF HasSpipe
<1>5. \A r \in ss : r \in Requests /\ HasSpipe(r)
  <2> SUFFICES ASSUME NEW c \in cs, sessions[c] # NoRequest PROVE sessions[c] \in Requests /\ HasSpipe(sessions[c])
    OBVIOUS
  <2>1. sessions[c] \in Requests /\ conf.conv[sessions[c]] = c /\ c \in Conversations
    BY <1>1 DEF TypedMap, SessionsInv
  <2> QED
    BY <2>1, ResponseStreamAssumption DEF HasSpipe
<1>6. \A c \in Conversations : sessions'[c] # NoRequest =>
         conf'.conv[sessions'[c]] = c /\ pc'[sessions'[c]] # "idle"
  <2> SUFFICES ASSUME NEW c \in Conversations, sessions'[c] # NoRequest
               PROVE  conf.conv[sessions'[c]] = c /\ pc'[sessions'[c]] # "idle"
    OBVIOUS
  <2>1. sessions'[c] = sessions[c] /\ sessions[c] \in Requests
    BY <1>1, <1>3 DEF TypedMap
  <2>2. conf.conv[sessions[c]] = c /\ pc[sessions[c]] # "idle"
    BY <2>1 DEF SessionsInv
  <2> QED
    BY <2>1, <2>2
<1> HIDE DEF ss
<1>7. \A y \in Threads : \A r \in removed'[y].ss : HasSpipe(r)'
  BY <1>2, <1>4, <1>5 DEF SessionsInv
<1>8. RemovalsInv'
  <2> SUFFICES ASSUME NEW r \in Requests, removed'[r].ss # {} PROVE pc'[r] \in {"replacing", "evicting"}
    BY DEF RemovalsInv
  <2>1. CASE r = x
    BY <2>1
  <2>2. CASE r # x
    BY <1>2, <2>2, Distinct DEF SessionsInv, RemovalsInv
  <2> QED
    BY <2>1, <2>2
<1>9. main' \in {"running", "returned"} => removed'["main"].ss = {}
  BY <1>2, Distinct DEF SessionsInv, Others
<1>10. OneLiveSession'
  <2> SUFFICES ASSUME NEW r \in Requests, HasSpipe(r), pc'[r] # "idle", ~done[r]
               PROVE  \/ sessions'[conf.conv[r]] = r
                      \/ \E y \in Threads : r \in removed'[y].ss
    BY <1>4 DEF OneLiveSession
  <2>1. pc[r] # "idle"
    OBVIOUS
  <2>2. conf.conv[r] \in Conversations /\ r # NoRequest
    BY <1>1, ConfTyped, Distinct DEF HasSpipe
  <2>3. CASE \E y \in Threads : r \in removed[y].ss
    <3>1. PICK y \in Threads : r \in removed[y].ss
      BY <2>3
    <3>2. y # x
      BY <3>1
    <3> QED
      BY <1>2, <3>1, <3>2
  <2>4. CASE sessions[conf.conv[r]] = r
    <3>1. CASE conf.conv[r] \in cs
      <4>1. r \in ss
        BY <2>2, <2>4, <3>1 DEF ss
      <4> QED
        BY <1>2, <4>1
    <3>2. CASE conf.conv[r] \notin cs
      BY <1>3, <2>2, <2>4, <3>2
    <3> QED
      BY <3>1, <3>2
  <2> QED
    BY <2>1, <2>3, <2>4 DEF SessionsInv, OneLiveSession
<1>11. \A r \in Requests : done'[r] => HasSpipe(r)'
  BY <1>4 DEF SessionsInv
<1> QED
  BY <1>6, <1>7, <1>8, <1>9, <1>10, <1>11 DEF SessionsInv

(* Thread x finalizes what it took out.                                     *)
LEMMA FinishMap ==
    ASSUME Typed, SessionsInv, NEW x \in Threads, FinishRemoval(x)
    PROVE  SessionsInv'
<1>1. TypedMap /\ TypedRequests /\ TypedSessions /\ conf \in Confs
  BY DEF Typed
<1>2. removed' = [removed EXCEPT ![x] = Nothing] /\ UNCHANGED <<conf, sessions, main>>
      /\ done' = [s \in Requests |-> done[s] \/ s \in removed[x].ss]
  BY DEF FinishRemoval, Finalized
<1>3. \A y \in Threads : removed'[y].ss = IF y = x THEN {} ELSE removed[y].ss
  BY <1>1, <1>2 DEF TypedMap, Nothing
<1>4. \A r : HasSpipe(r)' = HasSpipe(r)
  BY <1>2 DEF HasSpipe
<1>5. \A r \in Requests : /\ r # x => pc'[r] = pc[r]
                          /\ pc'[r] = "idle" <=> pc[r] = "idle"
  <2>1. CASE x \in Others
    BY <2>1, Distinct DEF FinishRemoval
  <2>2. CASE x \in Requests /\ x \notin Others
    <3>1. PICK l \in {"posting", "releasing"} : pc' = [pc EXCEPT ![x] = l]
      BY <2>2 DEF FinishRemoval
    <3>2. \A r \in Requests : pc'[r] = IF r = x THEN l ELSE pc[r]
      BY <1>1, <2>2, <3>1 DEF TypedRequests
    <3>3. pc[x] # "idle"
      BY <2>2 DEF FinishRemoval, SessionsInv, RemovalsInv
    <3> QED
      BY <3>2, <3>3
  <2> QED
    BY <2>1, <2>2 DEF Threads
<1>6. \A c \in Conversations : sessions[c] \in Requests \cup {NoRequest}
  BY <1>1 DEF TypedMap
<1>7. \A c \in Conversations : sessions'[c] # NoRequest =>
         conf'.conv[sessions'[c]] = c /\ pc'[sessions'[c]] # "idle"
  BY <1>2, <1>5, <1>6 DEF SessionsInv
<1>8. \A y \in Threads : \A r \in removed'[y].ss : HasSpipe(r)'
  BY <1>3, <1>4 DEF SessionsInv
<1>9. RemovalsInv'
  BY <1>3, <1>5, Distinct DEF SessionsInv, RemovalsInv
<1>10. main' \in {"running", "returned"} => removed'["main"].ss = {}
  BY <1>2, <1>3, Distinct DEF SessionsInv, Others
<1>11. \A r \in Requests : done'[r] => HasSpipe(r)'
  BY <1>2, <1>4 DEF SessionsInv
<1>12. OneLiveSession'
  <2> SUFFICES ASSUME NEW r \in Requests, HasSpipe(r), pc'[r] # "idle", ~done'[r]
               PROVE  \/ sessions[conf.conv[r]] = r
                      \/ \E y \in Threads : r \in removed'[y].ss
    BY <1>2, <1>4 DEF OneLiveSession
  <2>1. pc[r] # "idle" /\ ~done[r] /\ r \notin removed[x].ss
    BY <1>2, <1>5
  <2>2. CASE \E y \in Threads : r \in removed[y].ss
    <3>1. PICK y \in Threads : r \in removed[y].ss
      BY <2>2
    <3> QED
      BY <1>3, <2>1, <3>1
  <2> QED
    BY <2>1, <2>2 DEF SessionsInv, OneLiveSession
<1> QED
  BY <1>7, <1>8, <1>9, <1>10, <1>11, <1>12 DEF SessionsInv

(* A request arrives: its session takes the place of another.               *)
LEMMA ArriveMap ==
    ASSUME Typed, SessionsInv, NEW r \in Requests, Arrive(r)
    PROVE  SessionsInv'
<1>1. TypedMap /\ TypedRequests /\ TypedSessions /\ conf \in Confs
  BY DEF Typed
<1>2. pc[r] = "idle" /\ UNCHANGED <<conf, done, main>>
  BY DEF Arrive, sessionVars
<1>3. PICK l \in {"posting", "replacing"} : pc' = [pc EXCEPT ![r] = l]
  BY Zenon DEF Arrive, Replace, Goto
<1>4. \A s \in Requests : pc'[s] = IF s = r THEN l ELSE pc[s]
  BY <1>1, <1>3 DEF TypedRequests
<1>5. \A s : HasSpipe(s)' = HasSpipe(s)
  BY <1>2 DEF HasSpipe
<1>6. removed[r].ss = {}
  BY <1>2 DEF SessionsInv, RemovalsInv
<1>7. \A c \in Conversations : sessions[c] # NoRequest =>
         /\ sessions[c] \in Requests /\ conf.conv[sessions[c]] = c /\ pc[sessions[c]] # "idle"
         /\ HasSpipe(sessions[c])
  BY <1>1, ResponseStreamAssumption DEF SessionsInv, TypedMap, HasSpipe
<1>8. CASE ~HasSpipe(r)
  <2>1. UNCHANGED mapVars
    BY <1>8 DEF Arrive
  <2>2. \A c \in Conversations : sessions'[c] # NoRequest =>
           conf'.conv[sessions'[c]] = c /\ pc'[sessions'[c]] # "idle"
    BY <1>2, <1>4, <1>7, <2>1 DEF mapVars
  <2>3. RemovalsInv'
    BY <1>4, <1>6, <2>1 DEF SessionsInv, RemovalsInv, mapVars
  <2>4. OneLiveSession'
    BY <1>2, <1>4, <1>5, <1>8, <2>1 DEF SessionsInv, OneLiveSession, mapVars
  <2> QED
    BY <1>2, <1>5, <2>1, <2>2, <2>3, <2>4 DEF SessionsInv, mapVars
<1>9. CASE HasSpipe(r)
  <2> DEFINE c == conf.conv[r]
             old == sessions[c]
  <2>1. c \in Conversations /\ Replace(r, c) /\ r # NoRequest
    BY <1>1, <1>9, ConfTyped, Distinct DEF HasSpipe, Arrive
  <2>2. sessions' = [sessions EXCEPT ![c] = r]
    BY <2>1 DEF Replace
  <2>3. \A d \in Conversations : sessions'[d] = IF d = c THEN r ELSE sessions[d]
    BY <1>1, <2>1, <2>2 DEF TypedMap
  <2>4. old = NoRequest => removed' = removed
    BY <2>1 DEF Replace
  <2>5. old # NoRequest => removed' = [removed EXCEPT ![r] = [ss |-> {old}, cancel |-> TRUE]]
                           /\ pc' = [pc EXCEPT ![r] = "replacing"]
    BY <2>1 DEF Replace, Goto
  <2>6. \A y \in Threads : /\ y # r => removed'[y] = removed[y]
                           /\ y = r => removed'[y].ss = IF old = NoRequest THEN {} ELSE {old}
    <3>1. CASE old = NoRequest
      BY <1>6, <2>4, <3>1
    <3>2. CASE old # NoRequest
      <4> DEFINE e == [ss |-> {old}, cancel |-> TRUE]
      <4>1. removed' = [removed EXCEPT ![r] = e] /\ e.ss = {old}
        BY <2>5, <3>2
      <4> HIDE DEF e, old
      <4>2. \A y \in Threads : removed'[y] = IF y = r THEN e ELSE removed[y]
        BY <1>1, <4>1 DEF TypedMap
      <4> QED
        BY <3>2, <4>1, <4>2
    <3> QED
      BY <3>1, <3>2
  <2>7. old # NoRequest => pc'[r] = "replacing"
    BY <1>1, <2>5 DEF TypedRequests
  <2>8. \A d \in Conversations : sessions'[d] # NoRequest =>
           conf'.conv[sessions'[d]] = d /\ pc'[sessions'[d]] # "idle"
    BY <1>2, <1>4, <1>7, <2>3
  <2>9. \A y \in Threads : \A s \in removed'[y].ss : HasSpipe(s)'
    BY <1>5, <1>7, <2>1, <2>6 DEF SessionsInv
  <2>10. RemovalsInv'
    BY <1>4, <2>6, <2>7, Distinct DEF SessionsInv, RemovalsInv
  <2>11. main' \in {"running", "returned"} => removed'["main"].ss = {}
    BY <1>2, <2>6, Distinct DEF SessionsInv, Others
  <2>12. OneLiveSession'
    <3> SUFFICES ASSUME NEW s \in Requests, HasSpipe(s), pc'[s] # "idle", ~done[s]
                 PROVE  \/ sessions'[conf.conv[s]] = s
                        \/ \E y \in Threads : s \in removed'[y].ss
      BY <1>2, <1>5 DEF OneLiveSession
    <3>1. CASE s = r
      BY <2>1, <2>3, <3>1
    <3>2. CASE s # r
      <4>1. pc[s] # "idle" /\ conf.conv[s] \in Conversations /\ s # NoRequest
        BY <1>1, <1>4, <3>2, ConfTyped, Distinct DEF HasSpipe
      <4>2. CASE sessions[conf.conv[s]] = s
        BY <2>3, <2>6, <4>1, <4>2, Distinct
      <4>3. CASE \E y \in Threads : s \in removed[y].ss
        <5>1. PICK y \in Threads : s \in removed[y].ss
          BY <4>3
        <5> QED
          BY <1>6, <2>6, <5>1
      <4> QED
        BY <4>1, <4>2, <4>3 DEF SessionsInv, OneLiveSession
    <3> QED
      BY <3>1, <3>2
  <2>13. \A s \in Requests : done'[s] => HasSpipe(s)'
    BY <1>2, <1>5 DEF SessionsInv
  <2> QED
    BY <2>8, <2>9, <2>10, <2>11, <2>12, <2>13 DEF SessionsInv
<1> QED
  BY <1>8, <1>9

LEMMA SessionsInvKept ==
    ASSUME Typed, SessionsInv, [Next]_vars
    PROVE  SessionsInv'
<1>1. TypedMap /\ TypedRequests /\ TypedSessions /\ conf \in Confs
  BY DEF Typed
<1>2. ASSUME UNCHANGED <<conf, pc, mapVars, done>>,
             main' \in {"running", "returned"} => main \in {"running", "returned"}
      PROVE  SessionsInv'
  BY <1>2, SessionsMove DEF mapVars
<1>3. ASSUME NEW r \in Requests, NEW l \in PcStates, l # "idle", pc[r] \notin {"idle", "replacing", "evicting"},
             Goto(r, l), UNCHANGED <<conf, mapVars, main>>,
             \A s \in Requests : (done[s] => done'[s]) /\ (done'[s] => done[s] \/ HasSpipe(s))
      PROVE  SessionsInv'
  <2>1. \A s \in Requests : pc'[s] = IF s = r THEN l ELSE pc[s]
    BY <1>1, <1>3 DEF Goto, TypedRequests
  <2> QED
    BY <1>3, <2>1, SessionsMove DEF mapVars
<1>4. \A r \in Requests : removed[r].ss # {} => pc[r] \in {"replacing", "evicting"}
  BY DEF SessionsInv, RemovalsInv
<1>5. ASSUME NEW r \in Requests, Request(r) PROVE SessionsInv'
  <2>1. CASE \/ Reject(r) \/ Register(r) \/ PostTasks(r) \/ GiveUp(r) \/ SeeStop(r) \/ FlushFirst(r)
             \/ SayDone(r) \/ AwaitNext(r) \/ Ping(r) \/ Release(r)
    <3>1. PICK l \in {"completing", "registered", "first", "releasing", "streaming", "receiving", "released"} :
             Goto(r, l)
      BY <2>1, Zenon DEF Reject, Register, PostTasks, GiveUp, SeeStop, FlushFirst, SayDone, AwaitNext,
                         Ping, Release, Yield
    <3>2. l \in PcStates /\ l # "idle"
      BY DEF PcStates
    <3>3. pc[r] \notin {"idle", "replacing", "evicting"} /\ UNCHANGED <<conf, mapVars, done, main>>
      BY <2>1 DEF Reject, Register, PostTasks, GiveUp, SeeStop, FlushFirst, SayDone, AwaitNext, Ping,
                  Release, streamVars, sessionVars
    <3> QED
      BY <1>3, <3>1, <3>2, <3>3
  <2>2. CASE TakeFirst(r) \/ TakeNext(r) \/ LoseClient(r)
    <3>1. \/ UNCHANGED pc
          \/ \E l \in {"completing", "releasing", "streaming"} : Goto(r, l)
      BY <2>2, Zenon DEF TakeFirst, TakeNext, LoseClient, Yield
    <3>2. \A l \in {"completing", "releasing", "streaming"} : l \in PcStates /\ l # "idle"
      BY DEF PcStates
    <3>3. pc[r] \notin {"idle", "replacing", "evicting"} /\ UNCHANGED <<conf, mapVars, done, main>>
      BY <2>2 DEF TakeFirst, TakeNext, LoseClient, streamVars, sessionVars
    <3> QED
      BY <1>2, <1>3, <3>1, <3>2, <3>3
  <2>3. CASE Complete(r)
    <3>1. pc[r] = "completing" /\ UNCHANGED <<conf, done, main>>
      BY <2>3 DEF Complete, sessionVars
    <3>2. CASE HasSpipe(r) /\ sessions[conf.conv[r]] # NoRequest
      <4>1. TakeOut(r, {conf.conv[r]}, FALSE) /\ pc' = [pc EXCEPT ![r] = "evicting"]
        BY <2>3, <3>2 DEF Complete, Goto
      <4>2. \A s \in Requests : pc'[s] = IF s = r THEN "evicting" ELSE pc[s]
        BY <1>1, <4>1 DEF TypedRequests
      <4>3. {conf.conv[r]} \in SUBSET Conversations /\ r \in Threads /\ r # "main" /\ removed[r].ss = {}
        BY <1>1, <1>4, <3>1, <3>2, ConfTyped, Distinct DEF HasSpipe, Others
      <4> QED
        BY <3>1, <4>1, <4>2, <4>3, TakeOutMap
    <3>3. CASE ~(HasSpipe(r) /\ sessions[conf.conv[r]] # NoRequest)
      <4>1. Goto(r, "releasing") /\ UNCHANGED mapVars /\ "releasing" \in PcStates
        BY <2>3, <3>3 DEF Complete, PcStates
      <4> QED
        BY <1>3, <3>1, <4>1
    <3> QED
      BY <3>2, <3>3
  <2>4. CASE FinishRemoval(r)
    BY <2>4, FinishMap, Distinct
  <2>5. CASE Destroy(r)
    <3>1. Goto(r, "gone") /\ pc[r] = "released" /\ UNCHANGED <<conf, mapVars, main>> /\ "gone" \in PcStates
      BY <2>5 DEF Destroy, PcStates
    <3>2. done' = [done EXCEPT ![r] = @ \/ HasSpipe(r)]
      BY <2>5 DEF Destroy
    <3>3. \A s \in Requests : (done[s] => done'[s]) /\ (done'[s] => done[s] \/ HasSpipe(s))
      BY <1>1, <3>2 DEF TypedSessions
    <3> QED
      BY <1>3, <3>1, <3>3
  <2> QED
    BY <1>5, <2>1, <2>2, <2>3, <2>4, <2>5 DEF Request
<1>6. ASSUME NEW t \in Tasks, Loop(t) \/ Fail(t) PROVE SessionsInv'
  BY <1>2, <1>6 DEF Loop, Generate, CancelTask, Fail, streamVars, sessionVars, requestVars
<1>7. ASSUME NEW r \in Requests, Leave(r) PROVE SessionsInv'
  BY <1>2, <1>7 DEF Leave, streamVars, sessionVars
<1>8. ASSUME NEW c \in Conversations, Delete(c) PROVE SessionsInv'
  <2>1. /\ TakeOut("DELETE", {c}, TRUE) /\ removed["DELETE"] = Nothing
        /\ UNCHANGED <<conf, requestVars, done, main>>
    BY <1>8 DEF Delete, sessionVars
  <2>2. "DELETE" \in Threads /\ "DELETE" \notin Requests /\ removed["DELETE"].ss = {}
    BY <2>1, Distinct DEF Others, Nothing
  <2> QED
    BY <2>1, <2>2, TakeOutMap DEF requestVars
<1>9. ASSUME NEW cs \in SUBSET Conversations, Expire(cs) PROVE SessionsInv'
  <2>1. /\ TakeOut("gc", cs, FALSE) /\ removed["gc"] = Nothing
        /\ UNCHANGED <<conf, requestVars, done, main>>
    BY <1>9 DEF Expire, sessionVars
  <2>2. "gc" \in Threads /\ "gc" \notin Requests /\ removed["gc"].ss = {}
    BY <2>1, Distinct DEF Others, Nothing
  <2> QED
    BY <2>1, <2>2, TakeOutMap DEF requestVars
<1>10. ASSUME NEW g \in Readers, Open(g) \/ Quit(g) \/ Reader(g) PROVE SessionsInv'
  BY <1>2, <1>10 DEF Open, Quit, Reader, CheckOffset, ReadBytes, ReadEnd, streamVars, sessionVars, requestVars
<1>11. CASE StopStreams
  <2>1. /\ TakeOut("main", Conversations, FALSE) /\ main = "returned" /\ main' = "cleaned"
        /\ UNCHANGED <<conf, requestVars, done>>
    BY <1>11 DEF StopStreams, sessionVars
  <2>2. "main" \in Threads /\ "main" \notin Requests /\ removed["main"].ss = {}
    BY <2>1, Distinct DEF Others, SessionsInv
  <2> QED
    BY <2>1, <2>2, TakeOutMap DEF requestVars
<1>12. ASSUME Terminate \/ StopServer \/ JoinWorkers PROVE SessionsInv'
  BY <1>2, <1>12 DEF Terminate, StopServer, JoinWorkers, streamVars, sessionVars, requestVars
<1>13. ASSUME UNCHANGED vars PROVE SessionsInv'
  BY <1>2, <1>13 DEF vars, streamVars, sessionVars, requestVars
<1>14. \A x \in {"DELETE", "gc", "main"} : x \in Threads
  BY DEF Threads, Others
<1> QED
  BY <1>5, <1>6, <1>7, <1>8, <1>9, <1>10, <1>11, <1>12, <1>13, <1>14, ArriveMap, FinishMap DEF Next, Main

----------------------------------------------------------------------------
(* The invariant, and what follows from it.                                 *)

StreamInv == Typed /\ TasksInv /\ SessionsInv /\ BuffersInv /\ ReadersInv

LEMMA StreamInit ==
    ASSUME Init
    PROVE  StreamInv
<1>1. TypedServer /\ TypedRequests
  BY DEF Init, TypedServer, TypedRequests, PcStates
<1>2. TypedMap
  BY DEF Init, TypedMap, Nothing
<1>3. conf \in Confs /\ main = "running" /\ main \in MainStates
  BY DEF Init, MainStates
<1>4. /\ buffer \in [Requests -> Seq(Nat)] /\ prefix_dropped \in [Requests -> Nat]
      /\ done \in [Requests -> BOOLEAN] /\ is_cancelled \in [Requests -> BOOLEAN]
      /\ \A r \in Requests : buffer[r] = <<>> /\ prefix_dropped[r] = 0 /\ out[r] = 0
  BY DEF Init
<1>5. Len(<<>>) = 0 /\ DOMAIN <<>> = {} /\ conf.cap \in Nat
  BY <1>3, ConfTyped
<1>6. TypedSessions
  <2>1. \A r \in Requests : Len(buffer[r]) <= conf.cap
    BY <1>4, <1>5
  <2> QED
    BY <1>4, <2>1 DEF TypedSessions
<1>7. BuffersInv
  <2>1. \A r \in Requests : LogicalEnd(r) = out[r]
    <3> SUFFICES ASSUME NEW r \in Requests PROVE LogicalEnd(r) = out[r]
      OBVIOUS
    <3>1. buffer[r] = <<>> /\ prefix_dropped[r] = 0 /\ out[r] = 0
      BY <1>4
    <3>2. LogicalEnd(r) = prefix_dropped[r] + Len(buffer[r])
      BY DEF LogicalEnd
    <3>3. Len(buffer[r]) = 0
      BY <1>5, <3>1
    <3> QED
      BY <3>1, <3>2, <3>3
  <2>2. \A r \in Requests : Counts(buffer[r], prefix_dropped[r])
    BY <1>4, <1>5 DEF Counts
  <2> QED
    BY <2>1, <2>2 DEF BuffersInv
<1>8. /\ TypedReaders /\ \A g \in Readers : rpc[g] = "idle" /\ got[g] = <<>>
  BY DEF Init, TypedReaders
<1>9. ReadersInv
  <2>1. \A g \in Readers : DOMAIN got[g] = {}
    BY <1>5, <1>8
  <2> QED
    BY <1>8, <2>1 DEF ReadersInv, ReadsExactly, ReplayExact, ReadsToEnd
<1>10. \A r \in Requests : pc[r] = "idle"
  BY DEF Init
<1>11. SessionsInv
  <2>1. \A x \in Threads : removed[x].ss = {}
    BY DEF Init, Nothing
  <2>2. "main" \in Threads /\ \A r \in Requests : r \in Threads
    BY Distinct DEF Others
  <2>3. (\A c \in Conversations : sessions[c] = NoRequest) /\ \A r \in Requests : done[r] = FALSE
    BY DEF Init
  <2> QED
    BY <1>10, <2>1, <2>2, <2>3 DEF SessionsInv, RemovalsInv, OneLiveSession
<1>12. TasksInv
  <2>1. \A r \in conf.asked : r \in Requests /\ TasksOf(r) \subseteq Tasks
    BY <1>3, TasksTyped
  <2>2. /\ \A t \in Tasks : gen[t] = "none" /\ n_sent[t] = 0
        /\ \A r \in Requests : id_tasks[r] = {} /\ received_count[r] = 0 /\ cancelled[r] = FALSE
    BY DEF Init
  <2>3. ASSUME NEW t \in Tasks, t[1] \in conf.asked, t \in TasksOf(t[1]) PROVE n_sent[t] < Len(Results(t))
    <3>1. Results(t) \in Seq(Nat) /\ Results(t) # <<>>
      BY <1>3, <2>3, TasksTyped
    <3>2. Len(Results(t)) > 0
      BY SMTT(60), <3>1
    <3> QED
      BY <2>2, <3>2
  <2> QED
    BY <1>10, <2>1, <2>2, <2>3 DEF TasksInv, Fresh
<1> QED
  BY <1>1, <1>2, <1>3, <1>6, <1>7, <1>8, <1>9, <1>11, <1>12 DEF StreamInv, Typed

LEMMA SameConf ==
    ASSUME [Next]_vars
    PROVE  UNCHANGED conf
<1>1. ASSUME NEW r \in Requests, Request(r) PROVE UNCHANGED conf
  BY <1>1 DEF Request, Reject, Register, PostTasks, TakeFirst, GiveUp, SeeStop, FlushFirst, SayDone,
              AwaitNext, TakeNext, Ping, LoseClient, Complete, FinishRemoval, Release, Destroy
<1> QED
  BY <1>1 DEF Next, Arrive, Leave, Loop, Generate, CancelTask, Fail, Delete, Expire, FinishRemoval,
              Open, Quit, Reader, CheckOffset, ReadBytes, ReadEnd, Terminate, Main, StopStreams,
              StopServer, JoinWorkers, vars

LEMMA StreamStep ==
    ASSUME StreamInv, [Next]_vars
    PROVE  StreamInv'
<1>1. conf' = conf
  BY SameConf
<1>2. main' \in MainStates
  <2>1. main \in MainStates
    BY DEF StreamInv, Typed
  <2>2. ASSUME NEW r \in Requests, Request(r) PROVE main' = main
    BY <2>2 DEF Request, Reject, Register, PostTasks, TakeFirst, GiveUp, SeeStop, FlushFirst, SayDone,
                AwaitNext, TakeNext, Ping, LoseClient, Complete, FinishRemoval, Release, Destroy
  <2>3. CASE Terminate \/ StopStreams \/ StopServer \/ JoinWorkers
    BY <2>3 DEF Terminate, StopStreams, StopServer, JoinWorkers, MainStates
  <2>4. CASE ~(Terminate \/ StopStreams \/ StopServer \/ JoinWorkers)
    <3>1. main' = main
      BY <2>2, <2>4 DEF Next, Arrive, Leave, Loop, Generate, CancelTask, Fail, Delete, Expire, FinishRemoval,
                  Open, Quit, Reader, CheckOffset, ReadBytes, ReadEnd, Main, vars
    <3> QED
      BY SMTT(60), <2>1, <3>1
  <2> QED
    BY <2>3, <2>4
<1>3. SessionsStep
  BY SessionsKept DEF StreamInv
<1>4. TypedServer' /\ TypedRequests' /\ TypedMap' /\ TypedSessions' /\ BuffersInv'
  BY <1>3, ServerTyped, RequestsTyped, MapTyped DEF StreamInv, SessionsStep
<1>5. TypedReaders' /\ ReadersInv'
  BY <1>3, ReadersKept DEF StreamInv
<1>6. TasksInv' /\ SessionsInv'
  BY TasksKept, SessionsInvKept DEF StreamInv, SessionsInv
<1> QED
  BY <1>1, <1>2, <1>4, <1>5, <1>6 DEF StreamInv, Typed

THEOREM StreamInvariant == Spec => []StreamInv
<1> QED
  BY StreamInit, StreamStep, PTL DEF Spec

(* Every variable always has its type, a buffer never exceeds its cap, and  *)
(* one conversation leads to at most one session that may grow: whatever    *)
(* replaced it, deleted it or collected it is about to finalize the others  *)
(* (create_or_replace, evict_and_cancel, evict, gc_loop, stop_gc).          *)
THEOREM SessionsWellFormed == Spec => []WellFormed
<1>1. ASSUME StreamInv PROVE WellFormed
  <2>1. Typed /\ SessionsInv
    BY <1>1 DEF StreamInv
  <2>2. \A i \in DOMAIN queue_results :
           queue_results[i] \in [id : Tasks, kind : {"partial", "final", "error"}, len : Nat]
    <3>1. queue_results \in Seq(ResultType)
      BY <2>1 DEF Typed, TypedServer
    <3>2. \A i \in DOMAIN queue_results : queue_results[i] \in ResultType
      BY <3>1
    <3> QED
      BY <3>2 DEF ResultType
  <2>3. TypeOK
    BY <2>1, <2>2 DEF TypeOK, SessionsInv, Typed, TypedServer, TypedRequests, TypedMap, TypedSessions,
                      TypedReaders, MainStates
  <2> QED
    BY <2>1, <2>3 DEF WellFormed, SessionsInv
<1> QED
  BY <1>1, StreamInvariant, PTL

(* A client that comes back is given exactly the bytes from its offset on,  *)
(* none twice and none left out, whatever the buffer dropped, whenever it   *)
(* was filled and replaced; one that stays and is not overtaken has all of  *)
(* them when its stream ends (append, read_from, finalize).                 *)
THEOREM StreamsReadExactly == Spec => []ReadsExactly
<1>1. ASSUME StreamInv PROVE ReadsExactly
  BY <1>1 DEF StreamInv, ReadersInv
<1> QED
  BY <1>1, StreamInvariant, PTL

----------------------------------------------------------------------------
(* What the queue holds of a task, and what its reader has counted.         *)

(* A task's last result is its final one or its error, and is sent once it  *)
(* has ended so.                                                            *)
QueueInv ==
    /\ \A i \in DOMAIN queue_results :
          /\ queue_results[i].kind = "final" => gen[queue_results[i].id] = "ended"
          /\ queue_results[i].kind = "error" => gen[queue_results[i].id] = "failed"
    /\ \A i, j \in DOMAIN queue_results :
          i < j /\ queue_results[i].id = queue_results[j].id => queue_results[i].kind = "partial"

(* F are the tasks of which request r has the final result.                 *)
Counted(r, F) ==
    /\ F \subseteq id_tasks[r] /\ Cardinality(F) = received_count[r]
    /\ \A t \in F : gen[t] = "ended" /\ \A i \in DOMAIN queue_results : queue_results[i].id # t

(* A reader counts tasks that have ended and of which nothing is queued     *)
(* any more; one that was cancelled waits for nothing.                      *)
CountInv ==
    /\ \A r \in Requests : \E F : Counted(r, F)
    /\ \A r \in Requests : cancelled[r] = TRUE => id_tasks[r] \cap waiting_task_ids = {}
    /\ ResultsOwned

LEMMA TasksFinite ==
    ASSUME Typed, TasksInv, NEW r \in Requests
    PROVE  IsFiniteSet(id_tasks[r]) /\ Cardinality(id_tasks[r]) \in Nat
<1>1. conf.out[r] \in Seq(Seq(Nat))
  BY ConfTyped DEF Typed
<1> DEFINE n == Len(conf.out[r])
           f == [i \in 1 .. n |-> <<r, i>>]
<1>2. n \in Nat /\ DOMAIN conf.out[r] = 1 .. n
  BY <1>1
<1>3. f \in Surjection(1 .. n, TasksOf(r))
  BY <1>2 DEF Surjection, TasksOf
<1>4. IsFiniteSet(1 .. n)
  <2>1. 1 \in Int /\ n \in Int
    BY <1>2
  <2> QED
    BY <2>1, FS_Interval
<1>5. IsFiniteSet(TasksOf(r))
  BY <1>3, <1>4, FS_Surjection
<1>6. id_tasks[r] \in SUBSET TasksOf(r)
  BY DEF TasksInv
<1> QED
  BY <1>5, <1>6, FS_Subset, FS_CardinalityType

(* The tasks of two requests are different ones.                            *)
LEMMA TasksOwn ==
    ASSUME Typed, TasksInv, NEW r \in Requests, NEW t \in id_tasks[r]
    PROVE  r \in conf.asked /\ t \in Tasks /\ t \in TasksOf(r) /\ t[1] = r
<1>1. t \in TasksOf(r) /\ pc[r] \notin Fresh
  BY DEF TasksInv
<1>2. r \in conf.asked
  BY <1>1 DEF TasksInv, Fresh
<1> QED
  BY <1>1, <1>2, TasksTyped DEF Typed

(* Once a reader expects nothing more, nothing is queued for it: stop need  *)
(* not look at the queue.                                                   *)
LEMMA NothingLeft ==
    ASSUME Typed, TasksInv, CountInv, NEW r \in Requests, ~HasNext(r)
    PROVE  \A i \in DOMAIN queue_results : queue_results[i].id \notin id_tasks[r]
<1>1. CASE cancelled[r]
  <2>1. cancelled[r] = TRUE
    BY <1>1 DEF Typed, TypedServer
  <2> QED
    BY <2>1 DEF CountInv, ResultsOwned
<1>2. CASE ~cancelled[r]
  <2>1. ~(received_count[r] < Cardinality(id_tasks[r]))
    BY <1>2 DEF HasNext
  <2>2. PICK F : Counted(r, F)
    BY DEF CountInv
  <2>3. IsFiniteSet(id_tasks[r]) /\ Cardinality(id_tasks[r]) \in Nat /\ F \in SUBSET id_tasks[r]
    BY <2>2, TasksFinite DEF Counted
  <2>4. Cardinality(F) <= Cardinality(id_tasks[r]) /\ (Cardinality(id_tasks[r]) = Cardinality(F) => id_tasks[r] = F)
    BY <2>3, FS_Subset
  <2>5. Cardinality(F) = received_count[r] /\ received_count[r] \in Nat
    BY <2>2 DEF Counted, Typed, TypedServer
  <2>6. Cardinality(id_tasks[r]) = Cardinality(F)
    BY <2>1, <2>3, <2>4, <2>5
  <2> QED
    BY <2>2, <2>4, <2>6 DEF Counted
<1> QED
  BY <1>1, <1>2

----------------------------------------------------------------------------
(* Results leave the queue.                                                 *)

(* What is left of a queue is as good as the queue.                         *)
LEMMA QueueShrinks ==
    ASSUME QueueInv, Within(queue_results', queue_results), UNCHANGED gen
    PROVE  QueueInv'
<1>1. ASSUME NEW a \in DOMAIN queue_results'
      PROVE  /\ queue_results'[a].kind = "final" => gen[queue_results'[a].id] = "ended"
             /\ queue_results'[a].kind = "error" => gen[queue_results'[a].id] = "failed"
  <2>1. PICK i \in DOMAIN queue_results : queue_results'[a] = queue_results[i]
    BY DEF Within
  <2> QED
    BY <2>1 DEF QueueInv
<1>2. ASSUME NEW a \in DOMAIN queue_results', NEW b \in DOMAIN queue_results',
             a < b, queue_results'[a].id = queue_results'[b].id
      PROVE  queue_results'[a].kind = "partial"
  <2>1. PICK i \in DOMAIN queue_results, j \in DOMAIN queue_results :
           i < j /\ queue_results'[a] = queue_results[i] /\ queue_results'[b] = queue_results[j]
    BY <1>2 DEF Within
  <2> QED
    BY <1>2, <2>1 DEF QueueInv
<1> QED
  BY <1>1, <1>2 DEF QueueInv

LEMMA CountedShrinks ==
    ASSUME NEW r \in Requests, NEW F, Counted(r, F), Within(queue_results', queue_results),
           UNCHANGED <<gen, id_tasks>>, received_count'[r] = received_count[r]
    PROVE  Counted(r, F)'
<1>1. ASSUME NEW t \in F, NEW a \in DOMAIN queue_results' PROVE queue_results'[a].id # t
  <2>1. PICK i \in DOMAIN queue_results : queue_results'[a] = queue_results[i]
    BY DEF Within
  <2> QED
    BY <2>1 DEF Counted
<1> QED
  BY <1>1 DEF Counted

(* stop, on a queue from which at most one result was taken.                *)
LEMMA StopReaderCounts ==
    ASSUME Typed, TasksInv, QueueInv, CountInv, NEW r \in Requests, NEW q \in Seq(ResultType),
           Within(q, queue_results), StopReader(r, q), UNCHANGED <<gen, id_tasks, received_count>>
    PROVE  QueueInv' /\ CountInv' /\ HasNext(r)' = FALSE
<1> DEFINE ids == id_tasks[r]
<1>1. TypedServer
  BY DEF Typed
<1>2. /\ queue_results' \in Seq(ResultType) /\ Within(queue_results', queue_results)
      /\ \A a \in DOMAIN queue_results' : queue_results'[a].id \notin ids
  <2>1. CASE HasNext(r)
    <3>1. queue_results' = Purge(q, ids)
      BY <2>1, Zenon DEF StopReader
    <3>2. /\ Purge(q, ids) \in Seq(ResultType) /\ Within(Purge(q, ids), q)
          /\ \A a \in DOMAIN Purge(q, ids) : Purge(q, ids)[a].id \notin ids
      BY PurgeWithin
    <3> QED
      BY <3>1, <3>2, WithinTransitive
  <2>2. CASE ~HasNext(r)
    <3>1. queue_results' = q
      BY <2>2, Zenon DEF StopReader
    <3>2. \A i \in DOMAIN queue_results : queue_results[i].id \notin ids
      BY <2>2, NothingLeft
    <3>3. \A a \in DOMAIN q : \E i \in DOMAIN queue_results : q[a] = queue_results[i]
      BY DEF Within
    <3> QED
      BY <3>1, <3>2, <3>3
  <2> QED
    BY <2>1, <2>2
<1>3. waiting_task_ids' = waiting_task_ids \ ids
  BY DEF StopReader
<1>4. \A s \in Requests \ {r} : cancelled'[s] = cancelled[s]
  BY <1>1, StopReaderOwn
<1>5. QueueInv'
  BY <1>2, QueueShrinks
<1>6. \A s \in Requests : \E F : Counted(s, F)'
  <2> SUFFICES ASSUME NEW s \in Requests PROVE \E F : Counted(s, F)'
    OBVIOUS
  <2>1. PICK F : Counted(s, F)
    BY DEF CountInv
  <2> QED
    BY <1>2, <2>1, CountedShrinks
<1>7. \A s \in Requests : cancelled'[s] = TRUE => id_tasks'[s] \cap waiting_task_ids' = {}
  BY <1>3, <1>4 DEF CountInv
<1>8. ResultsOwned'
  <2> SUFFICES ASSUME NEW a \in DOMAIN queue_results' PROVE queue_results'[a].id \in waiting_task_ids'
    BY DEF ResultsOwned
  <2>1. PICK i \in DOMAIN queue_results : queue_results'[a] = queue_results[i]
    BY <1>2 DEF Within
  <2> QED
    BY <1>2, <1>3, <2>1 DEF CountInv, ResultsOwned
<1>9. HasNext(r)' = FALSE
  <2>1. CASE HasNext(r)
    <3>1. cancelled'[r] = TRUE
      BY <1>1, <2>1 DEF StopReader, TypedServer
    <3> QED
      BY <3>1 DEF HasNext
  <2>2. CASE ~HasNext(r)
    <3>1. UNCHANGED cancelled
      BY <2>2, Zenon DEF StopReader
    <3> QED
      BY <2>2, <3>1 DEF HasNext
  <2> QED
    BY <2>1, <2>2
<1> QED
  BY <1>5, <1>6, <1>7, <1>8, <1>9 DEF CountInv

(* next: a final result is counted, and it was the last of its task.        *)
LEMMA TakeResultCounts ==
    ASSUME Typed, TasksInv, QueueInv, CountInv, NEW r \in Requests, NEW k \in NextResult(r),
           TakeResult(r, k), UNCHANGED <<gen, id_tasks>>
    PROVE  /\ QueueInv' /\ CountInv'
           /\ queue_results[k].kind = "error" =>
                 HasNext(r)' = FALSE /\ \E u \in TasksOf(r) : gen[u] = "failed"
<1> DEFINE q == RemoveAt(queue_results, k)
           t == queue_results[k].id
<1>1. /\ TypedServer /\ queue_results \in Seq(ResultType)
      /\ k \in DOMAIN queue_results /\ t \in id_tasks[r]
      /\ \A j \in 1 .. k - 1 : queue_results[j].id \notin id_tasks[r]
  BY DEF Typed, TypedServer, NextResult
<1>2. /\ q \in Seq(ResultType) /\ Within(q, queue_results)
      /\ \A a \in DOMAIN q : \E i \in DOMAIN queue_results \ {k} : q[a] = queue_results[i]
  BY <1>1, RemoveAtWithin
<1>3. CASE queue_results[k].kind = "error"
  <2>1. StopReader(r, q) /\ UNCHANGED received_count
    BY <1>3 DEF TakeResult
  <2>2. gen[t] = "failed" /\ t \in TasksOf(r)
    BY <1>1, <1>3, TasksOwn DEF QueueInv
  <2> HIDE DEF q
  <2> QED
    BY <1>2, <2>1, <2>2, StopReaderCounts
<1>4. CASE queue_results[k].kind # "error"
  <2>1. /\ queue_results' = q /\ UNCHANGED <<waiting_task_ids, cancelled>>
        /\ received_count' = [received_count EXCEPT ![r] =
                                 @ + IF queue_results[k].kind = "final" THEN 1 ELSE 0]
    BY <1>4, Zenon DEF TakeResult
  <2> HIDE DEF q, t
  <2>2. /\ received_count[r] \in Nat
        /\ received_count'[r] = received_count[r] + IF queue_results[k].kind = "final" THEN 1 ELSE 0
        /\ \A s \in Requests \ {r} : received_count'[s] = received_count[s]
    BY <1>1, <2>1 DEF TypedServer
  <2>3. QueueInv'
    BY <1>2, <2>1, QueueShrinks
  <2>4. ResultsOwned'
    BY <1>2, <2>1 DEF CountInv, ResultsOwned
  <2>5. ASSUME NEW s \in Requests PROVE \E F : Counted(s, F)'
    <3>1. PICK F : Counted(s, F)
      BY DEF CountInv
    <3>2. CASE received_count'[s] = received_count[s]
      BY <1>2, <2>1, <3>1, <3>2, CountedShrinks
    <3>3. CASE s = r /\ queue_results[k].kind = "final"
      <4>1. received_count'[r] = received_count[r] + 1
        BY <2>2, <3>3
      <4>2. gen[t] = "ended" /\ t \notin F
        BY <1>1, <3>1, <3>3 DEF QueueInv, Counted, t
      <4>3. ASSUME NEW a \in DOMAIN q PROVE q[a].id # t
        <5>1. PICK i \in DOMAIN queue_results \ {k} : q[a] = queue_results[i]
          BY <1>2
        <5>2. CASE i < k
          <6>1. i \in 1 .. k - 1
            BY <1>1, <5>2
          <6> QED
            BY <1>1, <5>1, <6>1
        <5>3. CASE ~(i < k)
          <6>1. k < i
            BY <1>1, <5>3
          <6> QED
            BY <1>1, <3>3, <5>1, <6>1 DEF QueueInv, t
        <5> QED
          BY <5>2, <5>3
      <4>4. IsFiniteSet(F)
        <5>1. IsFiniteSet(id_tasks[r]) /\ F \in SUBSET id_tasks[r]
          BY <3>1, <3>3, TasksFinite DEF Counted
        <5> QED
          BY <5>1, FS_Subset
      <4> DEFINE G == F \cup {t}
      <4>5. Cardinality(G) = received_count'[r]
        <5>1. Cardinality(G) = Cardinality(F) + 1
          BY <4>2, <4>4, FS_AddElement
        <5> QED
          BY <3>1, <3>3, <4>1, <5>1 DEF Counted
      <4>6. G \subseteq id_tasks'[r]
        BY <1>1, <3>1, <3>3 DEF Counted
      <4>7. ASSUME NEW u \in G PROVE gen'[u] = "ended" /\ \A a \in DOMAIN q : q[a].id # u
        <5>1. CASE u = t
          BY <4>2, <4>3, <5>1
        <5>2. CASE u \in F
          BY <1>2, <3>1, <5>2 DEF Counted
        <5> QED
          BY <5>1, <5>2
      <4> HIDE DEF G
      <4>8. PICK H : H = G
        OBVIOUS
      <4>9. Counted(r, H)'
        BY <2>1, <4>5, <4>6, <4>7, <4>8 DEF Counted
      <4> QED
        BY <3>3, <4>9
    <3>4. CASE received_count'[s] # received_count[s] /\ ~(s = r /\ queue_results[k].kind = "final")
      <4>1. s = r /\ queue_results[k].kind # "final"
        BY <2>2, <3>4
      <4>2. received_count'[r] = received_count[r]
        BY <2>2, <4>1
      <4> QED
        BY <3>4, <4>1, <4>2
    <3> QED
      BY <3>2, <3>3, <3>4
  <2> QED
    BY <1>4, <2>1, <2>3, <2>4, <2>5 DEF CountInv
<1> QED
  BY <1>3, <1>4

----------------------------------------------------------------------------
(* Results come into the queue.                                             *)

(* A result of a task that is still generating comes after others of its    *)
(* that are partial.                                                        *)
LEMMA SayCounts ==
    ASSUME Typed, QueueInv, CountInv, NEW t \in Tasks, gen[t] = "queued",
           NEW kind \in {"partial", "final", "error"}, NEW len \in Nat, Say(t, kind, len),
           UNCHANGED <<waiting_task_ids, id_tasks, received_count, cancelled>>,
           \A u \in Tasks \ {t} : gen'[u] = gen[u],
           kind = "final" => gen'[t] = "ended", kind = "error" => gen'[t] = "failed"
    PROVE  QueueInv' /\ CountInv'
<1> DEFINE e == [id |-> t, kind |-> kind, len |-> len]
           n == Len(queue_results)
<1>1. /\ queue_results \in Seq(ResultType) /\ n \in Nat
      /\ \A i \in DOMAIN queue_results : queue_results[i].id \in Tasks
  <2>1. queue_results \in Seq(ResultType)
    BY DEF Typed, TypedServer
  <2>2. \A i \in DOMAIN queue_results : queue_results[i] \in ResultType
    BY <2>1
  <2> QED
    BY <2>1, <2>2 DEF ResultType
<1>2. \A i \in DOMAIN queue_results : queue_results[i].id = t =>
         queue_results[i].kind # "final" /\ queue_results[i].kind # "error"
  BY DEF QueueInv
<1>3. \A i \in DOMAIN queue_results : queue_results[i].id = t => queue_results[i].kind = "partial"
  <2>1. \A i \in DOMAIN queue_results : queue_results[i].kind \in {"partial", "final", "error"}
    <3>1. \A i \in DOMAIN queue_results : queue_results[i] \in ResultType
      BY <1>1
    <3> QED
      BY <3>1 DEF ResultType
  <2> QED
    BY <1>2, <2>1
<1>4. e \in ResultType /\ e.id = t /\ e.kind = kind
  BY DEF ResultType
<1>5. queue_results' = IF t \in waiting_task_ids THEN Append(queue_results, e) ELSE queue_results
  BY DEF Say, Send
<1> HIDE DEF e
<1>6. t \in waiting_task_ids =>
         /\ DOMAIN queue_results' = 1 .. n + 1 /\ queue_results'[n + 1] = e
         /\ \A i \in 1 .. n : queue_results'[i] = queue_results[i]
  BY <1>1, <1>4, <1>5, AppendProperties
<1>7. DOMAIN queue_results = 1 .. n /\ n + 1 \notin 1 .. n /\ \A i \in 1 .. n + 1 : i = n + 1 \/ i \in 1 .. n
  BY <1>1
<1> HIDE DEF n
<1>8. \A a \in DOMAIN queue_results' :
         \/ a \in DOMAIN queue_results /\ queue_results'[a] = queue_results[a]
         \/ a = n + 1 /\ queue_results'[a] = e /\ t \in waiting_task_ids
  BY <1>5, <1>6, <1>7
<1>9. ASSUME NEW a \in DOMAIN queue_results'
      PROVE  /\ queue_results'[a].kind = "final" => gen'[queue_results'[a].id] = "ended"
             /\ queue_results'[a].kind = "error" => gen'[queue_results'[a].id] = "failed"
  <2>1. CASE a \in DOMAIN queue_results /\ queue_results'[a] = queue_results[a]
    BY <1>1, <1>2, <2>1 DEF QueueInv
  <2>2. CASE queue_results'[a] = e
    BY <1>4, <2>2
  <2> QED
    BY <1>8, <2>1, <2>2
<1>10. ASSUME NEW a \in DOMAIN queue_results', NEW b \in DOMAIN queue_results',
              a < b, queue_results'[a].id = queue_results'[b].id
       PROVE  queue_results'[a].kind = "partial"
  <2>1. a \in DOMAIN queue_results /\ queue_results'[a] = queue_results[a]
    <3> SUFFICES ASSUME a = n + 1, queue_results'[a] = e, t \in waiting_task_ids PROVE FALSE
      BY <1>8
    <3>1. b \in 1 .. n + 1 /\ n \in Nat
      BY <1>1, <1>6 DEF n
    <3> QED
      BY <1>10, <3>1
  <2>2. CASE b \in DOMAIN queue_results /\ queue_results'[b] = queue_results[b]
    BY <1>10, <2>1, <2>2 DEF QueueInv
  <2>3. CASE queue_results'[b] = e
    BY <1>3, <1>4, <1>10, <2>1, <2>3
  <2> QED
    BY <1>8, <2>2, <2>3
<1>11. ASSUME NEW s \in Requests PROVE \E F : Counted(s, F)'
  <2>1. PICK F : Counted(s, F)
    BY DEF CountInv
  <2>2. \A u \in F : u \in Tasks /\ u # t /\ gen[u] = "ended"
    BY <2>1 DEF Counted, Typed, TypedServer
  <2>3. ASSUME NEW u \in F, NEW a \in DOMAIN queue_results' PROVE queue_results'[a].id # u
    BY <1>4, <1>8, <2>1, <2>2 DEF Counted
  <2>4. Counted(s, F)'
    BY <2>1, <2>2, <2>3 DEF Counted
  <2> QED
    BY <2>4
<1>12. ResultsOwned'
  BY <1>4, <1>8 DEF CountInv, ResultsOwned
<1> QED
  BY <1>9, <1>10, <1>11, <1>12 DEF QueueInv, CountInv

LEMMA GenerateCounts ==
    ASSUME Typed, TasksInv, QueueInv, CountInv, NEW t \in Tasks, Generate(t)
    PROVE  QueueInv' /\ CountInv'
<1> DEFINE n == n_sent[t] + 1
           kind == IF n = Len(Results(t)) THEN "final" ELSE "partial"
<1>1. gen[t] = "queued" /\ n_sent[t] \in Nat /\ TypedServer /\ conf \in Confs
  BY DEF Generate, Typed, TypedServer
<1>2. t[1] \in conf.asked /\ t \in TasksOf(t[1]) /\ t[1] \in Requests /\ n_sent[t] < Len(Results(t))
  BY <1>1, ConfTyped DEF TasksInv, Tasks
<1>3. Results(t) \in Seq(Nat) /\ n \in 1 .. Len(Results(t))
  BY <1>1, <1>2, TasksTyped
<1>4. Results(t)[n] \in Nat
  BY <1>3, ElementOfSeq
<1>5. /\ Say(t, kind, Results(t)[n])
      /\ gen' = [gen EXCEPT ![t] = IF n = Len(Results(t)) THEN "ended" ELSE @]
      /\ UNCHANGED <<waiting_task_ids, id_tasks, received_count, cancelled>>
  BY DEF Generate, readerVars
<1> HIDE DEF n
<1>6. kind \in {"partial", "final", "error"} /\ (kind = "final" => n = Len(Results(t))) /\ kind # "error"
  OBVIOUS
<1>7. (n = Len(Results(t)) => gen'[t] = "ended") /\ \A u \in Tasks \ {t} : gen'[u] = gen[u]
  BY <1>1, <1>5 DEF TypedServer
<1> HIDE DEF kind
<1> QED
  BY <1>1, <1>4, <1>5, <1>6, <1>7, SayCounts

LEMMA FailCounts ==
    ASSUME Typed, TasksInv, QueueInv, CountInv, NEW t \in Tasks, Fail(t)
    PROVE  QueueInv' /\ CountInv'
<1>1. /\ gen[t] = "queued" /\ Say(t, "error", 1) /\ gen' = [gen EXCEPT ![t] = "failed"]
      /\ UNCHANGED <<waiting_task_ids, id_tasks, received_count, cancelled>>
  BY DEF Fail, readerVars
<1>2. gen'[t] = "failed" /\ \A u \in Tasks \ {t} : gen'[u] = gen[u]
  BY <1>1 DEF Typed, TypedServer
<1>3. "error" \in {"partial", "final", "error"} /\ 1 \in Nat /\ "error" # "final"
  OBVIOUS
<1> QED
  BY <1>1, <1>2, <1>3, SayCounts

(* Steps that leave the queue as it is and end no task.                     *)
LEMMA CountMove ==
    ASSUME Typed, QueueInv, CountInv,
           UNCHANGED <<waiting_task_ids, queue_results, id_tasks, received_count, cancelled>>,
           \A u \in Tasks : gen'[u] = gen[u] \/ gen[u] \in {"none", "queued"}
    PROVE  QueueInv' /\ CountInv'
<1>1. \A i \in DOMAIN queue_results : queue_results[i].id \in Tasks
  <2>1. \A i \in DOMAIN queue_results : queue_results[i] \in ResultType
    BY DEF Typed, TypedServer
  <2> QED
    BY <2>1 DEF ResultType
<1>2. QueueInv'
  BY <1>1 DEF QueueInv
<1>3. ASSUME NEW s \in Requests PROVE \E F : Counted(s, F)'
  <2>1. PICK F : Counted(s, F)
    BY DEF CountInv
  <2>2. \A u \in F : u \in Tasks /\ gen'[u] = "ended"
    BY <2>1 DEF Counted, Typed, TypedServer
  <2>3. Counted(s, F)'
    BY <2>1, <2>2 DEF Counted
  <2> QED
    BY <2>3
<1> QED
  BY <1>2, <1>3 DEF CountInv, ResultsOwned

LEMMA RegisterCounts ==
    ASSUME Typed, TasksInv, QueueInv, CountInv, NEW r \in Requests, Register(r)
    PROVE  QueueInv' /\ CountInv'
<1>1. /\ pc[r] = "posting" /\ id_tasks' = [id_tasks EXCEPT ![r] = TasksOf(r)]
      /\ waiting_task_ids' = waiting_task_ids \cup TasksOf(r)
      /\ UNCHANGED <<queue_results, gen, received_count, cancelled>>
  BY DEF Register, loopVars
<1>2. \A s \in Requests : id_tasks'[s] = IF s = r THEN TasksOf(r) ELSE id_tasks[s]
  BY <1>1 DEF Typed, TypedServer
<1>3. r \in conf.asked /\ received_count[r] = 0 /\ cancelled[r] = FALSE
  BY <1>1 DEF TasksInv, Fresh
<1>4. \A t \in TasksOf(r) : t[1] = r
  BY <1>3, TasksTyped DEF Typed
<1>5. QueueInv'
  BY <1>1 DEF QueueInv
<1>6. ASSUME NEW s \in Requests PROVE \E F : Counted(s, F)'
  <2>1. CASE s = r
    <3>1. Counted(r, {})'
      BY <1>1, <1>3, FS_EmptySet DEF Counted
    <3> QED
      BY <2>1, <3>1
  <2>2. CASE s # r
    <3>1. PICK F : Counted(s, F)
      BY DEF CountInv
    <3>2. Counted(s, F)'
      BY <1>1, <1>2, <2>2, <3>1 DEF Counted
    <3> QED
      BY <3>2
  <2> QED
    BY <2>1, <2>2
<1>7. ASSUME NEW s \in Requests, cancelled[s] = TRUE PROVE id_tasks'[s] \cap waiting_task_ids' = {}
  <2>1. s # r /\ id_tasks'[s] = id_tasks[s]
    BY <1>2, <1>3, <1>7
  <2>2. \A t \in id_tasks[s] : t \notin TasksOf(r)
    BY <1>4, <2>1, TasksOwn
  <2> QED
    BY <1>1, <1>7, <2>1, <2>2 DEF CountInv
<1>8. ResultsOwned'
  BY <1>1 DEF CountInv, ResultsOwned
<1> QED
  BY <1>1, <1>5, <1>6, <1>7, <1>8 DEF CountInv

LEMMA PostTasksCounts ==
    ASSUME Typed, TasksInv, QueueInv, CountInv, NEW r \in Requests, PostTasks(r)
    PROVE  QueueInv' /\ CountInv'
<1>1. /\ pc[r] = "registered" /\ gen' = [t \in Tasks |-> IF t \in id_tasks[r] THEN "queued" ELSE gen[t]]
      /\ UNCHANGED <<waiting_task_ids, queue_results, id_tasks, received_count, cancelled>>
  BY DEF PostTasks, responseVars, readerVars
<1>2. \A t \in id_tasks[r] : gen[t] = "none"
  BY <1>1, TasksOwn DEF TasksInv
<1> QED
  BY <1>1, <1>2, CountMove

LEMMA CountKept ==
    ASSUME StreamInv, QueueInv, CountInv, [Next]_vars
    PROVE  QueueInv' /\ CountInv'
<1>1. Typed /\ TypedServer /\ TasksInv
  BY DEF StreamInv, Typed
<1>2. ASSUME UNCHANGED serverVars PROVE QueueInv' /\ CountInv'
  BY <1>1, <1>2, CountMove DEF serverVars, responseVars, loopVars, readerVars
<1>3. ASSUME NEW r \in Requests, Request(r) PROVE QueueInv' /\ CountInv'
  <2>1. CASE TakeFirst(r)
    <3>1. PICK k \in NextResult(r) : TakeResult(r, k)
      BY <2>1 DEF TakeFirst
    <3>2. UNCHANGED <<gen, id_tasks>>
      BY <2>1 DEF TakeFirst
    <3> QED
      BY <1>1, <3>1, <3>2, TakeResultCounts
  <2>2. CASE TakeNext(r)
    <3>1. PICK k \in NextResult(r) : TakeResult(r, k)
      BY <2>2 DEF TakeNext
    <3>2. UNCHANGED <<gen, id_tasks>>
      BY <2>2 DEF TakeNext
    <3> QED
      BY <1>1, <3>1, <3>2, TakeResultCounts
  <2>3. CASE Release(r)
    <3>1. StopReader(r, queue_results) /\ UNCHANGED <<gen, id_tasks, received_count>>
      BY <2>3 DEF Release
    <3>2. queue_results \in Seq(ResultType) /\ Within(queue_results, queue_results)
      BY <1>1, WithinSelf DEF TypedServer
    <3> QED
      BY <1>1, <3>1, <3>2, StopReaderCounts
  <2>4. CASE \/ Reject(r) \/ GiveUp(r) \/ SeeStop(r) \/ FlushFirst(r) \/ SayDone(r) \/ AwaitNext(r)
             \/ Ping(r) \/ LoseClient(r) \/ Complete(r) \/ FinishRemoval(r) \/ Destroy(r)
    BY <1>2, <2>4 DEF Reject, GiveUp, SeeStop, FlushFirst, SayDone, AwaitNext, Ping, LoseClient,
                      Complete, FinishRemoval, Destroy
  <2> QED
    BY <1>1, <1>3, <2>1, <2>2, <2>3, <2>4, RegisterCounts, PostTasksCounts DEF Request
<1>4. ASSUME NEW t \in Tasks, Loop(t) \/ Fail(t) PROVE QueueInv' /\ CountInv'
  <2>1. CASE CancelTask(t)
    <3>1. /\ gen' = [gen EXCEPT ![t] = IF @ = "queued" THEN "cancelled" ELSE @]
          /\ UNCHANGED <<waiting_task_ids, queue_results, id_tasks, received_count, cancelled>>
      BY <2>1 DEF CancelTask, responseVars, readerVars
    <3>2. \A u \in Tasks : gen'[u] = gen[u] \/ gen[u] \in {"none", "queued"}
      BY <1>1, <3>1 DEF TypedServer
    <3> QED
      BY <1>1, <3>1, <3>2, CountMove
  <2> QED
    BY <1>1, <1>4, <2>1, GenerateCounts, FailCounts DEF Loop
<1>5. ASSUME NEW r \in Requests, Arrive(r) \/ Leave(r) PROVE QueueInv' /\ CountInv'
  BY <1>2, <1>5 DEF Arrive, Leave
<1>6. ASSUME \/ \E c \in Conversations : Delete(c)
             \/ \E cs \in SUBSET Conversations : Expire(cs)
             \/ \E x \in {"DELETE", "gc"} : FinishRemoval(x)
      PROVE  QueueInv' /\ CountInv'
  BY <1>2, <1>6 DEF Delete, Expire, FinishRemoval
<1>7. ASSUME NEW g \in Readers, Open(g) \/ Quit(g) \/ Reader(g) PROVE QueueInv' /\ CountInv'
  BY <1>2, <1>7 DEF Open, Quit, Reader, CheckOffset, ReadBytes, ReadEnd
<1>8. ASSUME Terminate \/ Main PROVE QueueInv' /\ CountInv'
  BY <1>2, <1>8 DEF Terminate, Main, StopStreams, FinishRemoval, StopServer, JoinWorkers
<1>9. ASSUME UNCHANGED vars PROVE QueueInv' /\ CountInv'
  BY <1>2, <1>9 DEF vars
<1> QED
  BY <1>3, <1>4, <1>5, <1>6, <1>7, <1>8, <1>9 DEF Next

(* No result stays in the queue for a reader that has gone, with tasks that *)
(* fail, are cancelled or end in any order: a reader that does not purge    *)
(* the queue when it stops has received everything of its own               *)
(* (server_response_reader::stop, next, remove_waiting_task_ids).           *)
THEOREM QueuedResultsOwned == Spec => []ResultsOwned
<1>1. ASSUME Init PROVE QueueInv /\ CountInv
  <2>1. DOMAIN queue_results = {} /\ \A r \in Requests : received_count[r] = 0 /\ cancelled[r] = FALSE
    BY <1>1 DEF Init
  <2>2. \A r \in Requests : Counted(r, {})
    BY <2>1, FS_EmptySet DEF Counted
  <2>3. \A r \in Requests : \E F : Counted(r, F)
    BY <2>2
  <2> QED
    BY <2>1, <2>3 DEF QueueInv, CountInv, ResultsOwned
<1>2. QueueInv /\ CountInv => ResultsOwned
  BY DEF CountInv
<1> QED
  BY <1>1, <1>2, CountKept, StreamInvariant, PTL DEF Spec

----------------------------------------------------------------------------
(* Who may stop a generation.                                               *)

Winding == {"completing", "evicting", "releasing"}
Over    == Winding \cup {"released", "gone"}

(* The stream was stopped, a task of the request failed, a client without a *)
(* stream left, or the server stops; or the client left before anything was *)
(* streamed.  Once so, it stays so.                                         *)
Stopped(r) ==
    \/ is_cancelled[r] = TRUE
    \/ \E u \in TasksOf(r) : gen[u] = "failed"
    \/ peer[r] = FALSE /\ ~HasSpipe(r)
    \/ main # "running"

GaveUp(r) == peer[r] = FALSE /\ out[r] = 0 /\ held[r] = 0 /\ pc[r] \in Over

Excused(r) == r \in conf.asked /\ (Stopped(r) \/ GaveUp(r))

(* Nothing is put out before a request streams; one that ends while results *)
(* are expected, and every task told to stop, has an excuse.                *)
CancelInv ==
    /\ \A r \in Requests : pc[r] \notin {"streaming", "receiving"} \cup Over => out[r] = 0 /\ held[r] = 0
    /\ \A r \in Requests : pc[r] \in Winding /\ HasNext(r) => Excused(r)
    /\ \A t \in Tasks : t \in cancels \/ gen[t] = "cancelled" => Excused(t[1])

LEMMA Apart ==
    /\ \A l \in Over : l \notin Fresh /\ l \notin {"registered", "first", "streaming", "receiving"} /\ l \in PcStates
    /\ Winding \subseteq Over /\ "released" \in Over /\ "gone" \in Over
    /\ "released" \notin Winding /\ "gone" \notin Winding
    /\ \A l \in Fresh \cup {"registered", "first", "streaming", "receiving"} : l \notin Over /\ l \notin Winding
BY DEF Over, Winding, Fresh, PcStates

(* An excuse remains one.                                                   *)
LEMMA ExcuseStays ==
    ASSUME Typed, UNCHANGED conf, NEW r \in Requests, Excused(r),
           is_cancelled[r] = TRUE => is_cancelled'[r] = TRUE,
           \A u \in Tasks : gen[u] = "failed" => gen'[u] = "failed",
           peer[r] = FALSE => peer'[r] = FALSE,
           main # "running" => main' # "running",
           pc[r] \in Over => pc'[r] \in Over /\ out'[r] = out[r] /\ held'[r] = held[r]
    PROVE  Excused(r)'
<1>1. HasSpipe(r)' = HasSpipe(r) /\ TasksOf(r)' = TasksOf(r)
  BY DEF HasSpipe, TasksOf
<1>2. TasksOf(r) \subseteq Tasks
  BY TasksTyped DEF Typed, Excused
<1>3. Stopped(r) => Stopped(r)'
  BY <1>1, <1>2 DEF Stopped
<1>4. GaveUp(r) => GaveUp(r)'
  BY DEF GaveUp
<1> QED
  BY <1>3, <1>4 DEF Excused

(* Steps of requests that neither receive results nor stop their reader:    *)
(* r, if it comes to its end, expects nothing or has an excuse.             *)
LEMMA CancelMove ==
    ASSUME Typed, CancelInv, UNCHANGED <<conf, cancels, id_tasks>>,
           \A s \in Requests : Excused(s) => Excused(s)',
           \A t \in Tasks : gen'[t] = "cancelled" => gen[t] = "cancelled" \/ t \in cancels,
           \A s \in Requests : pc'[s] \notin {"streaming", "receiving"} \cup Over =>
              pc[s] \notin {"streaming", "receiving"} \cup Over /\ out'[s] = out[s] /\ held'[s] = held[s],
           \A s \in Requests : pc'[s] \in Winding =>
              \/ Excused(s)'
              \/ HasNext(s)' = FALSE
              \/ pc[s] \in Winding /\ received_count'[s] = received_count[s] /\ cancelled'[s] = cancelled[s]
    PROVE  CancelInv'
<1>1. \A s \in Requests : pc'[s] \notin {"streaming", "receiving"} \cup Over => out'[s] = 0 /\ held'[s] = 0
  BY DEF CancelInv
<1>2. ASSUME NEW s \in Requests, pc'[s] \in Winding, HasNext(s)' PROVE Excused(s)'
  <2>1. CASE pc[s] \in Winding /\ received_count'[s] = received_count[s] /\ cancelled'[s] = cancelled[s]
    <3>1. HasNext(s)
      BY <1>2, <2>1 DEF HasNext
    <3> QED
      BY <2>1, <3>1 DEF CancelInv
  <2> QED
    BY <1>2, <2>1
<1>3. \A t \in Tasks : t \in cancels' \/ gen'[t] = "cancelled" => Excused(t[1])'
  <2>1. \A t \in Tasks : t[1] \in Requests
    BY DEF Tasks
  <2> QED
    BY <2>1 DEF CancelInv
<1> QED
  BY <1>1, <1>2, <1>3 DEF CancelInv

(* What a request with an excuse for ending may do: its reader stops.       *)
LEMMA CancelStop ==
    ASSUME Typed, TasksInv, CancelInv, UNCHANGED <<conf, id_tasks>>, NEW r \in Requests,
           Excused(r)',
           \A s \in Requests : Excused(s) => Excused(s)',
           \A t \in Tasks : t \in cancels' => t \in cancels \/ t \in id_tasks[r],
           \A t \in Tasks : gen'[t] = "cancelled" => gen[t] = "cancelled",
           \A s \in Requests \ {r} : /\ pc'[s] = pc[s] /\ out'[s] = out[s] /\ held'[s] = held[s]
                                     /\ received_count'[s] = received_count[s] /\ cancelled'[s] = cancelled[s],
           pc'[r] \in Over
    PROVE  CancelInv'
<1>1. \A s \in Requests : pc'[s] \notin {"streaming", "receiving"} \cup Over => out'[s] = 0 /\ held'[s] = 0
  BY DEF CancelInv
<1>2. ASSUME NEW s \in Requests, pc'[s] \in Winding, HasNext(s)' PROVE Excused(s)'
  <2>1. CASE s # r
    <3>1. pc[s] \in Winding /\ HasNext(s)
      BY <1>2, <2>1 DEF HasNext
    <3> QED
      BY <3>1 DEF CancelInv
  <2> QED
    BY <2>1
<1>3. ASSUME NEW t \in Tasks, t \in cancels' \/ gen'[t] = "cancelled" PROVE Excused(t[1])'
  <2>1. CASE t \in id_tasks[r]
    <3>1. t[1] = r
      BY <2>1, TasksOwn
    <3> QED
      BY <3>1
  <2>2. CASE t \in cancels \/ gen[t] = "cancelled"
    <3>1. t[1] \in Requests
      BY SMTT(60) DEF Tasks
    <3> QED
      BY <2>2, <3>1 DEF CancelInv
  <2> QED
    BY <1>3, <2>1, <2>2
<1> QED
  BY <1>1, <1>2, <1>3 DEF CancelInv

(* A task that failed stays so: nothing is posted twice.                    *)
LEMMA FailedStay ==
    ASSUME StreamInv, [Next]_vars
    PROVE  \A u \in Tasks : gen[u] = "failed" => gen'[u] = "failed"
<1>1. /\ Typed /\ TypedServer /\ TasksInv
  BY DEF StreamInv, Typed
<1>2. ASSUME UNCHANGED gen PROVE \A u \in Tasks : gen[u] = "failed" => gen'[u] = "failed"
  BY <1>2
<1>3. ASSUME NEW r \in Requests, PostTasks(r) PROVE \A u \in Tasks : gen[u] = "failed" => gen'[u] = "failed"
  <2>1. pc[r] = "registered" /\ gen' = [t \in Tasks |-> IF t \in id_tasks[r] THEN "queued" ELSE gen[t]]
    BY <1>3 DEF PostTasks
  <2>2. \A t \in id_tasks[r] : gen[t] = "none"
    BY <1>1, <2>1, TasksOwn DEF TasksInv
  <2> QED
    BY <2>1, <2>2
<1>4. ASSUME NEW t \in Tasks, Loop(t) \/ Fail(t) PROVE \A u \in Tasks : gen[u] = "failed" => gen'[u] = "failed"
  <2>1. \A u \in Tasks : u # t => gen'[u] = gen[u]
    BY <1>1, <1>4 DEF Loop, Generate, CancelTask, Fail, TypedServer
  <2>2. gen[t] = "failed" => gen'[t] = "failed"
    BY <1>1, <1>4 DEF Loop, Generate, CancelTask, Fail, TypedServer
  <2> QED
    BY <2>1, <2>2
<1>5. ASSUME NEW r \in Requests, Request(r), ~PostTasks(r) PROVE UNCHANGED gen
  BY <1>5 DEF Request, Reject, Register, TakeFirst, GiveUp, SeeStop, FlushFirst, SayDone, AwaitNext,
              TakeNext, Ping, LoseClient, Complete, FinishRemoval, Release, Destroy, serverVars, loopVars
<1> QED
  BY <1>2, <1>3, <1>4, <1>5
     DEF Next, Arrive, Leave, Delete, Expire, FinishRemoval, Open, Quit, Reader, CheckOffset, ReadBytes,
         ReadEnd, Terminate, Main, StopStreams, StopServer, JoinWorkers, vars, serverVars, loopVars

LEMMA ExcusesStay ==
    ASSUME StreamInv, [Next]_vars
    PROVE  \A r \in Requests : Excused(r) => Excused(r)'
<1>1. /\ Typed /\ TypedServer /\ TypedRequests /\ TypedMap /\ TypedSessions /\ TasksInv /\ SessionsInv
  BY SMTT(60) DEF StreamInv, Typed
<1> DEFINE Later(r) == /\ is_cancelled[r] = TRUE => is_cancelled'[r] = TRUE
                       /\ peer[r] = FALSE => peer'[r] = FALSE
           Stays(r) == pc[r] \in Over => pc'[r] \in Over /\ out'[r] = out[r] /\ held'[r] = held[r]
<1>2. UNCHANGED conf /\ (main # "running" => main' # "running")
  <2>1. ASSUME NEW r \in Requests, Request(r) PROVE UNCHANGED <<conf, main>>
    BY <2>1 DEF Request, Reject, Register, PostTasks, TakeFirst, GiveUp, SeeStop, FlushFirst, SayDone,
                AwaitNext, TakeNext, Ping, LoseClient, Complete, FinishRemoval, Release, Destroy
  <2> QED
    BY <2>1 DEF Next, Arrive, Leave, Loop, Generate, CancelTask, Fail, Delete, Expire, FinishRemoval,
                Open, Quit, Reader, CheckOffset, ReadBytes, ReadEnd, Terminate, Main, StopStreams,
                StopServer, JoinWorkers, vars
<1>3. \A u \in Tasks : gen[u] = "failed" => gen'[u] = "failed"
  BY FailedStay
<1>4. ASSUME UNCHANGED <<requestVars, is_cancelled>> PROVE \A r \in Requests : Later(r) /\ Stays(r)
  BY <1>4 DEF requestVars
<1>5. ASSUME NEW x \in Threads, FinishRemoval(x) PROVE \A r \in Requests : Later(r) /\ Stays(r)
  <2>1. /\ UNCHANGED clientVars /\ removed[x].ss # {}
        /\ is_cancelled' = [s \in Requests |-> is_cancelled[s] \/ (removed[x].cancel /\ s \in removed[x].ss)]
        /\ pc' = IF x \in Others THEN pc
                 ELSE [pc EXCEPT ![x] = IF @ = "replacing" THEN "posting" ELSE "releasing"]
    BY <1>5 DEF FinishRemoval
  <2>2. \A r \in Requests : is_cancelled[r] = TRUE => is_cancelled'[r] = TRUE
    BY <2>1
  <2>3. ASSUME NEW r \in Requests, pc[r] \in Over PROVE pc'[r] \in Over
    <3>1. CASE r = x
      <4>1. pc[r] # "replacing" /\ r \notin Others
        BY <2>3, Apart, Distinct DEF Fresh
      <4> QED
        BY <1>1, <2>1, <3>1, <4>1 DEF TypedRequests, Over, Winding
    <3>2. CASE r # x
      BY <1>1, <2>1, <2>3, <3>2, Distinct DEF TypedRequests, Threads
    <3> QED
      BY <3>1, <3>2
  <2> QED
    BY <2>1, <2>2, <2>3 DEF clientVars
<1>6. ASSUME NEW r \in Requests, NEW l, pc[r] \in Over => l \in Over, Goto(r, l),
             UNCHANGED <<clientVars, is_cancelled>>
      PROVE  \A s \in Requests : Later(s) /\ Stays(s)
  <2>1. \A s \in Requests : pc'[s] = IF s = r THEN l ELSE pc[s]
    BY <1>1, <1>6 DEF Goto, TypedRequests
  <2> QED
    BY <1>6, <2>1 DEF clientVars
<1>7. ASSUME NEW r \in Requests, pc[r] \notin Over, UNCHANGED <<peer, is_cancelled>>,
             \A s \in Requests \ {r} : pc'[s] = pc[s] /\ out'[s] = out[s] /\ held'[s] = held[s]
      PROVE  \A s \in Requests : Later(s) /\ Stays(s)
  BY <1>7
<1>8. ASSUME NEW r \in Requests, NEW n, NEW more, Yield(r, n, more)
      PROVE  \A s \in Requests \ {r} : pc'[s] = pc[s] /\ out'[s] = out[s]
  BY <1>1, <1>8 DEF Yield, Goto, TypedRequests
<1>9. ASSUME NEW r \in Requests, Request(r) PROVE \A s \in Requests : Later(s) /\ Stays(s)
  <2>1. CASE Reject(r) \/ Register(r) \/ PostTasks(r) \/ GiveUp(r) \/ SeeStop(r) \/ AwaitNext(r)
    <3>1. PICK l : Goto(r, l)
      BY <2>1, Zenon DEF Reject, Register, PostTasks, GiveUp, SeeStop, AwaitNext
    <3>2. pc[r] \notin Over /\ UNCHANGED <<clientVars, is_cancelled>>
      BY <2>1, Apart DEF Reject, Register, PostTasks, GiveUp, SeeStop, AwaitNext, streamVars, sessionVars, Fresh
    <3> QED
      BY <1>6, <3>1, <3>2
  <2>2. CASE Complete(r) \/ Release(r) \/ Destroy(r)
    <3>1. PICK l \in {"evicting", "releasing", "released", "gone"} : Goto(r, l)
      BY <2>2, Zenon DEF Complete, Release, Destroy
    <3>2. l \in Over
      BY DEF Over, Winding
    <3>3. UNCHANGED <<clientVars, is_cancelled>>
      BY <2>2 DEF Complete, Release, Destroy, streamVars, sessionVars
    <3> QED
      BY <1>6, <3>1, <3>2, <3>3
  <2>3. CASE TakeFirst(r)
    <3>1. pc[r] \notin Over /\ UNCHANGED <<peer, out, is_cancelled>>
      BY <2>3, Apart DEF TakeFirst, streamVars, sessionVars
    <3>2. PICK k \in NextResult(r) :
             \/ held' = [held EXCEPT ![r] = queue_results[k].len] /\ Goto(r, "streaming")
             \/ UNCHANGED held /\ (Goto(r, "completing") \/ UNCHANGED pc)
      BY <2>3 DEF TakeFirst
    <3>3. \A s \in Requests \ {r} : pc'[s] = pc[s] /\ held'[s] = held[s]
      BY <1>1, <3>2 DEF Goto, TypedRequests
    <3> QED
      BY <1>7, <3>1, <3>3
  <2>4. CASE FlushFirst(r)
    <3>1. pc[r] \notin Over /\ UNCHANGED <<peer, is_cancelled>> /\ held' = [held EXCEPT ![r] = 0]
          /\ Yield(r, held[r], TRUE)
      BY <2>4, Apart DEF FlushFirst
    <3>2. \A s \in Requests \ {r} : held'[s] = held[s]
      BY <1>1, <3>1 DEF TypedRequests
    <3> QED
      BY <1>7, <1>8, <3>1, <3>2
  <2>5. CASE SayDone(r) \/ TakeNext(r) \/ Ping(r)
    <3>1. pc[r] \notin Over /\ UNCHANGED <<peer, is_cancelled, held>>
      BY <2>5, Apart DEF SayDone, TakeNext, Ping
    <3>2. \E n, more : Yield(r, n, more)
      BY <2>5, Zenon DEF SayDone, TakeNext, Ping
    <3> QED
      BY <1>7, <1>8, <3>1, <3>2
  <2>6. CASE LoseClient(r)
    <3>1. pc[r] \notin Over /\ UNCHANGED <<peer, out, held, is_cancelled>> /\ (UNCHANGED pc \/ Goto(r, "releasing"))
      BY <2>6, Apart DEF LoseClient, streamVars, sessionVars
    <3>2. \A s \in Requests \ {r} : pc'[s] = pc[s]
      BY <1>1, <3>1 DEF Goto, TypedRequests
    <3> QED
      BY <1>7, <3>1, <3>2
  <2>7. CASE FinishRemoval(r)
    BY <1>5, <2>7, Distinct
  <2> QED
    BY <1>9, <2>1, <2>2, <2>3, <2>4, <2>5, <2>6, <2>7 DEF Request
<1>10. ASSUME NEW t \in Tasks, Loop(t) \/ Fail(t) PROVE \A s \in Requests : Later(s) /\ Stays(s)
  BY <1>4, <1>10 DEF Loop, Generate, CancelTask, Fail, streamVars, sessionVars
<1>11. ASSUME NEW r \in Requests, Arrive(r) PROVE \A s \in Requests : Later(s) /\ Stays(s)
  <2>1. PICK l : Goto(r, l)
    BY <1>11, Zenon DEF Arrive, Replace
  <2>2. pc[r] \notin Over /\ UNCHANGED <<clientVars, is_cancelled>>
    BY <1>11, Apart DEF Arrive, sessionVars, Fresh
  <2> QED
    BY <1>6, <2>1, <2>2
<1>12. ASSUME NEW r \in Requests, Leave(r) PROVE \A s \in Requests : Later(s) /\ Stays(s)
  <2>1. peer' = [peer EXCEPT ![r] = FALSE] /\ UNCHANGED <<pc, out, held, is_cancelled>>
    BY <1>12 DEF Leave, streamVars, sessionVars
  <2>2. \A s \in Requests : peer[s] = FALSE => peer'[s] = FALSE
    BY <1>1, <2>1 DEF TypedRequests
  <2> QED
    BY <2>1, <2>2
<1>13. ASSUME (\E c \in Conversations : Delete(c)) \/ (\E cs \in SUBSET Conversations : Expire(cs))
       PROVE  \A s \in Requests : Later(s) /\ Stays(s)
  BY <1>4, <1>13 DEF Delete, Expire, sessionVars
<1>14. ASSUME NEW g \in Readers, Open(g) \/ Quit(g) \/ Reader(g) PROVE \A s \in Requests : Later(s) /\ Stays(s)
  BY <1>4, <1>14 DEF Open, Quit, Reader, CheckOffset, ReadBytes, ReadEnd, streamVars, sessionVars
<1>15. ASSUME Terminate \/ StopStreams \/ StopServer \/ JoinWorkers \/ UNCHANGED vars
       PROVE  \A s \in Requests : Later(s) /\ Stays(s)
  BY <1>4, <1>15 DEF Terminate, StopStreams, StopServer, JoinWorkers, vars, streamVars, sessionVars
<1>16. \A x \in {"DELETE", "gc", "main"} : x \in Threads
  BY DEF Threads, Others
<1>17. \A r \in Requests : Later(r) /\ Stays(r)
  <2> HIDE DEF Later, Stays
  <2> QED
    BY <1>5, <1>9, <1>10, <1>11, <1>12, <1>13, <1>14, <1>15, <1>16 DEF Next, Main
<1> QED
  BY <1>1, <1>2, <1>3, <1>17, ExcuseStays

LEMMA CancelKept ==
    ASSUME StreamInv, QueueInv, CountInv, CancelInv, [Next]_vars
    PROVE  CancelInv'
<1>1. /\ Typed /\ TypedServer /\ TypedRequests /\ TypedMap /\ TypedSessions /\ TasksInv /\ SessionsInv
  BY DEF StreamInv, Typed
<1>2. \A r \in Requests : Excused(r) => Excused(r)'
  BY ExcusesStay
<1>3. ASSUME UNCHANGED <<conf, serverVars, requestVars>> PROVE CancelInv'
  BY <1>1, <1>2, <1>3, CancelMove DEF serverVars, loopVars, readerVars, requestVars
<1> DEFINE Quiet(r) == /\ UNCHANGED <<conf, cancels, id_tasks, received_count, cancelled>>
                       /\ \A t \in Tasks : gen'[t] = "cancelled" => gen[t] = "cancelled" \/ t \in cancels
                       /\ \A s \in Requests \ {r} : pc'[s] = pc[s] /\ out'[s] = out[s] /\ held'[s] = held[s]
<1>4. ASSUME NEW r \in Requests, Quiet(r),
             \/ pc'[r] \in {"streaming", "receiving", "released", "gone"}
             \/ pc'[r] \in Winding /\ (pc[r] \in Winding \/ ~HasNext(r) \/ Excused(r)')
             \/ /\ pc[r] \notin {"streaming", "receiving"} \cup Over /\ pc'[r] \notin Over
                /\ out'[r] = out[r] /\ held'[r] = held[r]
      PROVE  CancelInv'
  <2>1. \A s \in Requests : pc'[s] \notin {"streaming", "receiving"} \cup Over =>
              pc[s] \notin {"streaming", "receiving"} \cup Over /\ out'[s] = out[s] /\ held'[s] = held[s]
    BY <1>4, Apart
  <2>2. \A s \in Requests : pc'[s] \in Winding =>
              \/ Excused(s)'
              \/ HasNext(s)' = FALSE
              \/ pc[s] \in Winding /\ received_count'[s] = received_count[s] /\ cancelled'[s] = cancelled[s]
    <3>1. \A s \in Requests : HasNext(s)' = HasNext(s)
      BY <1>4 DEF HasNext
    <3>2. HasNext(r) \in BOOLEAN
      BY DEF HasNext
    <3> QED
      BY <1>4, <3>1, <3>2, Apart
  <2> QED
    BY <1>1, <1>2, <1>4, <2>1, <2>2, CancelMove
<1>5. ASSUME NEW r \in Requests, NEW l, Goto(r, l) PROVE pc'[r] = l /\ \A s \in Requests \ {r} : pc'[s] = pc[s]
  BY <1>1, <1>5 DEF Goto, TypedRequests
<1>6. ASSUME NEW r \in Requests, NEW n, NEW more, Yield(r, n, more)
      PROVE  /\ pc'[r] = IF more THEN "streaming" ELSE "releasing"
             /\ \A s \in Requests \ {r} : pc'[s] = pc[s] /\ out'[s] = out[s]
  BY <1>1, <1>6 DEF Yield, Goto, TypedRequests
<1>7. ASSUME NEW x \in Threads, FinishRemoval(x) PROVE CancelInv'
  <2>1. UNCHANGED <<conf, serverVars, clientVars>> /\ removed[x].ss # {}
    BY <1>7 DEF FinishRemoval
  <2>2. CASE x \in Others
    <3>1. UNCHANGED pc
      BY <1>7, <2>2 DEF FinishRemoval
    <3> QED
      BY <1>3, <2>1, <3>1 DEF clientVars, requestVars
  <2>3. CASE x \in Requests /\ x \notin Others
    <3>1. pc[x] \in {"replacing", "evicting"}
      <4>1. RemovalsInv
        BY <1>1 DEF SessionsInv
      <4> QED
        BY <2>1, <2>3, <4>1 DEF RemovalsInv
    <3>2. Goto(x, IF pc[x] = "replacing" THEN "posting" ELSE "releasing")
      BY <1>1, <1>7, <2>3 DEF FinishRemoval, Goto, TypedRequests
    <3>3. Quiet(x) /\ pc'[x] = (IF pc[x] = "replacing" THEN "posting" ELSE "releasing")
          /\ out'[x] = out[x] /\ held'[x] = held[x]
      BY <1>5, <2>1, <2>3, <3>2 DEF serverVars, loopVars, readerVars, clientVars
    <3> HIDE DEF Quiet
    <3>4. CASE pc[x] = "replacing"
      BY <1>4, <2>3, <3>3, <3>4, Apart DEF Fresh
    <3>5. CASE pc[x] = "evicting"
      <4>1. pc'[x] \in Winding /\ pc[x] \in Winding
        BY <3>3, <3>5 DEF Winding
      <4> QED
        BY <1>4, <2>3, <3>3, <4>1
    <3> QED
      BY <3>1, <3>4, <3>5
  <2> QED
    BY <2>2, <2>3 DEF Threads
<1>9. ASSUME NEW r \in Requests, Request(r) PROVE CancelInv'
  <2>1. r \in conf.asked /\ UNCHANGED conf /\ HasSpipe(r)' = HasSpipe(r) /\ TasksOf(r)' = TasksOf(r)
    <3>1. UNCHANGED conf
      BY <1>9 DEF Request, Reject, Register, PostTasks, TakeFirst, GiveUp, SeeStop, FlushFirst, SayDone,
                  AwaitNext, TakeNext, Ping, LoseClient, Complete, FinishRemoval, Release, Destroy
    <3>2. pc[r] # "idle"
      <4>1. CASE FinishRemoval(r)
        BY <4>1 DEF FinishRemoval, SessionsInv, RemovalsInv, StreamInv
      <4>2. CASE ~FinishRemoval(r)
        BY <1>9, <4>2 DEF Request, Reject, Register, PostTasks, TakeFirst, GiveUp, SeeStop, FlushFirst,
                  SayDone, AwaitNext, TakeNext, Ping, LoseClient, Complete, Release, Destroy
      <4> QED
        BY <4>1, <4>2
    <3> QED
      BY <1>1, <3>1, <3>2 DEF TasksInv, HasSpipe, TasksOf
  <2>3. CASE Reject(r)
    <3>1. pc[r] = "posting" /\ Goto(r, "completing") /\ UNCHANGED <<serverVars, clientVars>>
      BY <2>3 DEF Reject
    <3>2. Quiet(r) /\ pc'[r] = "completing"
      BY <1>5, <2>1, <3>1 DEF serverVars, loopVars, readerVars, clientVars
    <3>3. ~HasNext(r)
      <4>1. id_tasks[r] = {} /\ received_count[r] = 0
        BY <1>1, <3>1 DEF TasksInv, Fresh
      <4>2. Cardinality(id_tasks[r]) = 0
        BY <4>1, FS_EmptySet
      <4> QED
        BY <4>1, <4>2 DEF HasNext
    <3> HIDE DEF Quiet
    <3> QED
      BY <1>4, <3>2, <3>3 DEF Winding
  <2>4. CASE Register(r)
    <3>1. /\ pc[r] = "posting" /\ Goto(r, "registered") /\ UNCHANGED <<gen, cancels, clientVars>>
          /\ id_tasks' = [id_tasks EXCEPT ![r] = TasksOf(r)] /\ UNCHANGED <<received_count, cancelled>>
      BY <2>4 DEF Register, loopVars
    <3>2. pc'[r] = "registered" /\ \A s \in Requests \ {r} : pc'[s] = pc[s] /\ id_tasks'[s] = id_tasks[s]
      BY <1>1, <1>5, <3>1 DEF TypedServer
    <3>3. \A s \in Requests : pc'[s] \notin {"streaming", "receiving"} \cup Over => out'[s] = 0 /\ held'[s] = 0
      BY <3>1, <3>2, Apart DEF CancelInv, clientVars, Fresh
    <3>4. ASSUME NEW s \in Requests, pc'[s] \in Winding, HasNext(s)' PROVE Excused(s)'
      <4>1. s # r
        BY <3>2, <3>4, Apart
      <4>2. pc[s] \in Winding /\ HasNext(s)
        BY <3>1, <3>2, <3>4, <4>1 DEF HasNext
      <4> QED
        BY <1>2, <4>2 DEF CancelInv
    <3>5. \A t \in Tasks : t \in cancels' \/ gen'[t] = "cancelled" => Excused(t[1])'
      <4>1. \A t \in Tasks : t[1] \in Requests
        BY DEF Tasks
      <4> QED
        BY <1>2, <3>1, <4>1 DEF CancelInv
    <3> QED
      BY <3>3, <3>4, <3>5 DEF CancelInv
  <2>5. CASE PostTasks(r)
    <3>1. /\ pc[r] = "registered" /\ Goto(r, "first") /\ UNCHANGED <<cancels, readerVars, clientVars>>
          /\ gen' = [t \in Tasks |-> IF t \in id_tasks[r] THEN "queued" ELSE gen[t]]
      BY <2>5 DEF PostTasks
    <3>2. \A t \in Tasks : gen'[t] = "cancelled" => gen[t] = "cancelled"
      BY <3>1
    <3>3. Quiet(r) /\ pc'[r] = "first" /\ out'[r] = out[r] /\ held'[r] = held[r]
      BY <1>5, <2>1, <3>1, <3>2 DEF readerVars, clientVars
    <3> HIDE DEF Quiet
    <3> QED
      BY <1>4, <3>1, <3>3, Apart
  <2>6. CASE GiveUp(r)
    <3>1. pc[r] = "first" /\ ~peer[r] /\ Goto(r, "completing") /\ UNCHANGED <<serverVars, clientVars>>
      BY <2>6 DEF GiveUp
    <3>2. Quiet(r) /\ pc'[r] = "completing"
      BY <1>5, <2>1, <3>1 DEF serverVars, loopVars, readerVars, clientVars
    <3>3. out[r] = 0 /\ held[r] = 0 /\ peer[r] = FALSE
      BY <1>1, <3>1, Apart DEF CancelInv, TypedRequests
    <3>4. Excused(r)'
      BY <2>1, <3>1, <3>2, <3>3 DEF Excused, GaveUp, Over, Winding, clientVars
    <3> HIDE DEF Quiet
    <3> QED
      BY <1>4, <3>2, <3>4 DEF Winding
  <2>7. CASE SeeStop(r)
    <3>1. ShouldStop(r) /\ Goto(r, "releasing") /\ UNCHANGED <<serverVars, clientVars>>
      BY <2>7 DEF SeeStop
    <3>2. Quiet(r) /\ pc'[r] = "releasing"
      BY <1>5, <2>1, <3>1 DEF serverVars, loopVars, readerVars, clientVars
    <3>3. Excused(r)
      BY <1>1, <2>1, <3>1 DEF ShouldStop, Excused, Stopped, TypedRequests, TypedSessions
    <3> HIDE DEF Quiet
    <3> QED
      BY <1>2, <1>4, <3>2, <3>3 DEF Winding
  <2>8. CASE FlushFirst(r)
    <3>1. Yield(r, held[r], TRUE) /\ UNCHANGED serverVars /\ held' = [held EXCEPT ![r] = 0]
      BY <2>8 DEF FlushFirst
    <3>2. \A s \in Requests \ {r} : held'[s] = held[s]
      BY <1>1, <3>1 DEF TypedRequests
    <3>3. Quiet(r) /\ pc'[r] = "streaming"
      BY <1>6, <2>1, <3>1, <3>2 DEF serverVars, loopVars, readerVars
    <3> HIDE DEF Quiet
    <3> QED
      BY <1>4, <3>3
  <2>9. CASE SayDone(r)
    <3>1. Yield(r, 1, FALSE) /\ ~HasNext(r) /\ UNCHANGED <<serverVars, held>>
      BY <2>9 DEF SayDone
    <3>2. Quiet(r) /\ pc'[r] = "releasing"
      BY <1>6, <2>1, <3>1 DEF serverVars, loopVars, readerVars
    <3> HIDE DEF Quiet
    <3> QED
      BY <1>4, <3>1, <3>2 DEF Winding
  <2>10. CASE AwaitNext(r)
    <3>1. Goto(r, "receiving") /\ UNCHANGED <<serverVars, clientVars>>
      BY <2>10 DEF AwaitNext
    <3>2. Quiet(r) /\ pc'[r] = "receiving"
      BY <1>5, <2>1, <3>1 DEF serverVars, loopVars, readerVars, clientVars
    <3> HIDE DEF Quiet
    <3> QED
      BY <1>4, <3>2
  <2>11. CASE Ping(r)
    <3>1. Yield(r, 1, TRUE) /\ UNCHANGED <<serverVars, held>>
      BY <2>11 DEF Ping
    <3>2. Quiet(r) /\ pc'[r] = "streaming"
      BY <1>6, <2>1, <3>1 DEF serverVars, loopVars, readerVars
    <3> HIDE DEF Quiet
    <3> QED
      BY <1>4, <3>2
  <2>12. CASE LoseClient(r)
    <3>1. /\ pc[r] = "streaming" /\ (~peer[r] \/ main = "stopped") /\ UNCHANGED <<serverVars, held, out, main, peer>>
          /\ IF HasSpipe(r) THEN UNCHANGED pc ELSE Goto(r, "releasing")
      BY <2>12 DEF LoseClient
    <3>2. CASE HasSpipe(r)
      <4>1. Quiet(r) /\ pc'[r] = "streaming"
        BY <2>1, <3>1, <3>2 DEF serverVars, loopVars, readerVars
      <4> HIDE DEF Quiet
      <4> QED
        BY <1>4, <4>1
    <3>3. CASE ~HasSpipe(r)
      <4>1. Quiet(r) /\ pc'[r] = "releasing"
        BY <1>5, <2>1, <3>1, <3>3 DEF serverVars, loopVars, readerVars
      <4>2. Excused(r)
        BY <1>1, <2>1, <3>1, <3>3 DEF Excused, Stopped, TypedRequests
      <4> HIDE DEF Quiet
      <4> QED
        BY <1>2, <1>4, <4>1, <4>2 DEF Winding
    <3> QED
      BY <3>2, <3>3
  <2>13. CASE Complete(r)
    <3>1. pc[r] = "completing" /\ UNCHANGED <<serverVars, clientVars>>
      BY <2>13 DEF Complete
    <3>2. PICK l \in {"evicting", "releasing"} : Goto(r, l)
      BY <2>13, Zenon DEF Complete
    <3>3. Quiet(r) /\ pc'[r] = l
      BY <1>5, <2>1, <3>1, <3>2 DEF serverVars, loopVars, readerVars, clientVars
    <3>4. pc'[r] \in Winding /\ pc[r] \in Winding
      BY <3>1, <3>2, <3>3 DEF Winding
    <3> HIDE DEF Quiet
    <3> QED
      BY <1>4, <3>3, <3>4
  <2>14. CASE Destroy(r)
    <3>1. Goto(r, "gone") /\ UNCHANGED <<serverVars, clientVars>>
      BY <2>14 DEF Destroy
    <3>2. Quiet(r) /\ pc'[r] = "gone"
      BY <1>5, <2>1, <3>1 DEF serverVars, loopVars, readerVars, clientVars
    <3> HIDE DEF Quiet
    <3> QED
      BY <1>4, <3>2
  <2>15. CASE Release(r)
    <3>1. /\ pc[r] = "releasing" /\ StopReader(r, queue_results) /\ Goto(r, "released")
          /\ UNCHANGED <<gen, id_tasks, received_count, clientVars>>
      BY <2>15 DEF Release
    <3>2. \A s \in Requests \ {r} : /\ pc'[s] = pc[s] /\ out'[s] = out[s] /\ held'[s] = held[s]
                                    /\ received_count'[s] = received_count[s] /\ cancelled'[s] = cancelled[s]
      BY <1>1, <1>5, <3>1, StopReaderOwn DEF clientVars
    <3>3. pc'[r] = "released"
      BY <1>5, <3>1
    <3>4. CASE HasNext(r)
      <4>1. Excused(r)'
        BY <1>2, <3>1, <3>4 DEF CancelInv, Winding
      <4>2. cancels' = cancels \cup id_tasks[r]
        BY <3>1, <3>4, Zenon DEF StopReader
      <4> QED
        BY <1>1, <1>2, <2>1, <3>1, <3>2, <3>3, <4>1, <4>2, Apart, CancelStop
    <3>5. CASE ~HasNext(r)
      <4>1. UNCHANGED <<cancels, cancelled>>
        BY <3>1, <3>5, Zenon DEF StopReader
      <4>2. Quiet(r)
        BY <2>1, <3>1, <3>2, <4>1
      <4> HIDE DEF Quiet
      <4> QED
        BY <1>4, <3>3, <4>2
    <3> QED
      BY <3>4, <3>5
  <2>16. CASE TakeFirst(r)
    <3>1. PICK k \in NextResult(r) :
             /\ TakeResult(r, k)
             /\ \/ /\ queue_results[k].kind # "error"
                   /\ held' = [held EXCEPT ![r] = queue_results[k].len] /\ Goto(r, "streaming")
                \/ /\ IF queue_results[k].kind = "error" \/ AllFinal(r)
                      THEN Goto(r, "completing") ELSE UNCHANGED pc
                   /\ UNCHANGED held
      BY <2>16 DEF TakeFirst
    <3>2. pc[r] = "first" /\ UNCHANGED <<gen, id_tasks, out>>
      BY <2>16 DEF TakeFirst
    <3>3. \A s \in Requests \ {r} : /\ pc'[s] = pc[s] /\ out'[s] = out[s] /\ held'[s] = held[s]
                                    /\ received_count'[s] = received_count[s] /\ cancelled'[s] = cancelled[s]
      BY <1>1, <3>1, <3>2, TakeResultOwn DEF Goto, TypedRequests
    <3>4. \A t \in Tasks : gen'[t] = "cancelled" => gen[t] = "cancelled"
      BY <3>2
    <3>5. CASE queue_results[k].kind = "error"
      <4>1. Goto(r, "completing")
        BY <3>1, <3>5
      <4>2. pc'[r] \in Over
        BY <1>5, <4>1, Apart DEF Winding
      <4>3. \E u \in TasksOf(r) : gen[u] = "failed"
        BY <1>1, <3>1, <3>2, <3>5, TakeResultCounts
      <4>4. Excused(r)'
        BY <1>2, <2>1, <4>3 DEF Excused, Stopped
      <4>5. \A t \in Tasks : t \in cancels' => t \in cancels \/ t \in id_tasks[r]
        BY <3>1, <3>5 DEF TakeResult, StopReader
      <4> QED
        BY <1>1, <1>2, <2>1, <3>2, <3>3, <3>4, <4>2, <4>4, <4>5, CancelStop
    <3>6. CASE queue_results[k].kind # "error"
      <4>1. UNCHANGED <<cancels, cancelled>>
        BY <3>1, <3>6, Zenon DEF TakeResult
      <4>2. \/ pc'[r] = "streaming"
            \/ pc'[r] = "completing" /\ AllFinal(r)
            \/ pc'[r] = "first" /\ held' = held
        BY <1>5, <3>1, <3>2, <3>6
      <4>3. AllFinal(r) => HasNext(r)' = FALSE
        <5>1. IsFiniteSet(id_tasks[r]) /\ Cardinality(id_tasks[r]) \in Nat
          BY <1>1, TasksFinite
        <5> QED
          BY <3>2, <5>1 DEF AllFinal, HasNext
      <4>4. \A s \in Requests : pc'[s] \notin {"streaming", "receiving"} \cup Over =>
              pc[s] \notin {"streaming", "receiving"} \cup Over /\ out'[s] = out[s] /\ held'[s] = held[s]
        BY <3>2, <3>3, <4>2, Apart DEF Winding
      <4>5. \A s \in Requests : pc'[s] \in Winding =>
              \/ Excused(s)'
              \/ HasNext(s)' = FALSE
              \/ pc[s] \in Winding /\ received_count'[s] = received_count[s] /\ cancelled'[s] = cancelled[s]
        BY <3>3, <4>2, <4>3, Apart
      <4> QED
        BY <1>1, <1>2, <2>1, <3>2, <3>4, <4>1, <4>4, <4>5, CancelMove
    <3> QED
      BY <3>5, <3>6
  <2>17. CASE TakeNext(r)
    <3>1. PICK k \in NextResult(r) :
             TakeResult(r, k) /\ Yield(r, queue_results[k].len, queue_results[k].kind # "error")
      BY <2>17 DEF TakeNext
    <3>2. UNCHANGED <<gen, id_tasks, held>>
      BY <2>17 DEF TakeNext
    <3>3. \A s \in Requests \ {r} : /\ pc'[s] = pc[s] /\ out'[s] = out[s] /\ held'[s] = held[s]
                                    /\ received_count'[s] = received_count[s] /\ cancelled'[s] = cancelled[s]
      BY <1>1, <1>6, <3>1, <3>2, TakeResultOwn
    <3>4. \A t \in Tasks : gen'[t] = "cancelled" => gen[t] = "cancelled"
      BY <3>2
    <3>5. CASE queue_results[k].kind = "error"
      <4>1. pc'[r] \in Over
        BY <1>6, <3>1, <3>5, Apart DEF Winding
      <4>2. \E u \in TasksOf(r) : gen[u] = "failed"
        BY <1>1, <3>1, <3>2, <3>5, TakeResultCounts
      <4>3. Excused(r)'
        BY <1>2, <2>1, <4>2 DEF Excused, Stopped
      <4>4. \A t \in Tasks : t \in cancels' => t \in cancels \/ t \in id_tasks[r]
        BY <3>1, <3>5 DEF TakeResult, StopReader
      <4> QED
        BY <1>1, <1>2, <2>1, <3>2, <3>3, <3>4, <4>1, <4>3, <4>4, CancelStop
    <3>6. CASE queue_results[k].kind # "error"
      <4>1. UNCHANGED <<cancels, cancelled>>
        BY <3>1, <3>6, Zenon DEF TakeResult
      <4>2. pc'[r] = "streaming"
        BY <1>6, <3>1, <3>6
      <4>3. \A s \in Requests : pc'[s] \notin {"streaming", "receiving"} \cup Over =>
              pc[s] \notin {"streaming", "receiving"} \cup Over /\ out'[s] = out[s] /\ held'[s] = held[s]
        BY <3>3, <4>2
      <4>4. \A s \in Requests : pc'[s] \in Winding =>
              pc[s] \in Winding /\ received_count'[s] = received_count[s] /\ cancelled'[s] = cancelled[s]
        BY <3>3, <4>2, Apart
      <4> QED
        BY <1>1, <1>2, <2>1, <3>2, <3>4, <4>1, <4>3, <4>4, CancelMove
    <3> QED
      BY <3>5, <3>6
  <2>18. CASE FinishRemoval(r)
    BY <1>7, <2>18, Distinct
  <2> HIDE DEF Quiet
  <2> QED
    BY <1>9, <2>3, <2>4, <2>5, <2>6, <2>7, <2>8, <2>9, <2>10, <2>11, <2>12, <2>13, <2>14, <2>15, <2>16,
       <2>17, <2>18 DEF Request
<1>10. ASSUME NEW t \in Tasks, Loop(t) \/ Fail(t) PROVE CancelInv'
  <2>1. UNCHANGED <<conf, readerVars, requestVars>>
    BY <1>10 DEF Loop, Generate, CancelTask, Fail
  <2>2. \A u \in Tasks : gen'[u] = "cancelled" => gen[u] = "cancelled" \/ u \in cancels
    BY <1>1, <1>10 DEF Loop, Generate, CancelTask, Fail, TypedServer
  <2>3. cancels' \subseteq cancels
    BY <1>10 DEF Loop, Generate, CancelTask, Fail
  <2>4. \A s \in Requests : HasNext(s)' = HasNext(s)
    BY <2>1 DEF HasNext, readerVars
  <2>5. \A u \in Tasks : u[1] \in Requests
    BY DEF Tasks
  <2> QED
    BY <1>2, <2>1, <2>2, <2>3, <2>4, <2>5 DEF CancelInv, requestVars
<1>11. ASSUME NEW r \in Requests, Arrive(r) PROVE CancelInv'
  <2>1. PICK l \in {"posting", "replacing"} : Goto(r, l)
    BY <1>11, Zenon DEF Arrive, Replace
  <2>2. pc[r] = "idle" /\ UNCHANGED <<conf, serverVars, clientVars>>
    BY <1>11 DEF Arrive
  <2>3. Quiet(r) /\ pc'[r] = l /\ out'[r] = out[r] /\ held'[r] = held[r]
    BY <1>5, <2>1, <2>2 DEF serverVars, loopVars, readerVars, clientVars
  <2> HIDE DEF Quiet
  <2> QED
    BY <1>4, <2>1, <2>2, <2>3, Apart DEF Fresh
<1>12. ASSUME NEW r \in Requests, Leave(r) PROVE CancelInv'
  <2>1. UNCHANGED <<conf, serverVars, pc, held, out>>
    BY <1>12 DEF Leave
  <2> QED
    BY <1>1, <1>2, <2>1, CancelMove DEF serverVars, loopVars, readerVars
<1>13. ASSUME (\E c \in Conversations : Delete(c)) \/ (\E cs \in SUBSET Conversations : Expire(cs))
       PROVE  CancelInv'
  BY <1>3, <1>13 DEF Delete, Expire
<1>14. ASSUME NEW g \in Readers, Open(g) \/ Quit(g) \/ Reader(g) PROVE CancelInv'
  BY <1>3, <1>14 DEF Open, Quit, Reader, CheckOffset, ReadBytes, ReadEnd
<1>15. ASSUME Terminate \/ StopStreams \/ StopServer \/ JoinWorkers \/ UNCHANGED vars PROVE CancelInv'
  BY <1>3, <1>15 DEF Terminate, StopStreams, StopServer, JoinWorkers, vars
<1>16. \A x \in {"DELETE", "gc", "main"} : x \in Threads
  BY DEF Threads, Others
<1> QED
  BY <1>7, <1>9, <1>10, <1>11, <1>12, <1>13, <1>14, <1>15, <1>16 DEF Next, Main

(* A generation is cancelled only if its stream was stopped or replaced, a  *)
(* task of the same request failed, the server stops, or its client left    *)
(* and either has no stream or nothing was streamed yet: to lose the client *)
(* of a stream does not stop it, whenever it goes and whatever its tasks do *)
(* (should_stop, on_complete, server_response_reader::stop).                *)
THEOREM CancelledIfAsked == Spec => []OnlyAskedToStop
<1>1. ASSUME Init PROVE QueueInv /\ CountInv /\ CancelInv
  <2>1. /\ DOMAIN queue_results = {} /\ cancels = {}
        /\ \A r \in Requests : /\ received_count[r] = 0 /\ cancelled[r] = FALSE /\ pc[r] = "idle"
                               /\ out[r] = 0 /\ held[r] = 0
        /\ \A t \in Tasks : gen[t] = "none"
    BY <1>1 DEF Init
  <2>2. \A r \in Requests : Counted(r, {})
    BY <2>1, FS_EmptySet DEF Counted
  <2>3. \A r \in Requests : \E F : Counted(r, F)
    BY <2>2
  <2>4. CancelInv
    BY <2>1 DEF CancelInv, Winding
  <2> QED
    BY <2>1, <2>3, <2>4 DEF QueueInv, CountInv, ResultsOwned
<1>2. ASSUME StreamInv, CancelInv PROVE OnlyAskedToStop
  <2> SUFFICES ASSUME NEW t \in Tasks, t \in cancels \/ gen[t] = "cancelled"
               PROVE  LET r == t[1]
                      IN  \/ is_cancelled[r]
                          \/ \E u \in TasksOf(r) : gen[u] = "failed"
                          \/ ~peer[r] /\ (~HasSpipe(r) \/ (out[r] = 0 /\ held[r] = 0))
                          \/ main # "running"
    BY <1>2 DEF OnlyAskedToStop, StreamInv, Typed, TypedServer
  <2>1. Excused(t[1])
    BY <1>2 DEF CancelInv
  <2> QED
    BY <2>1 DEF Excused, Stopped, GaveUp
<1> QED
  BY <1>1, <1>2, CountKept, CancelKept, StreamInvariant, PTL DEF Spec

----------------------------------------------------------------------------
(* Sums.                                                                    *)

AddStep(c, a, b) == a + b
AnyValue(c, n, v) == TRUE

Sums == INSTANCE FoldProofs WITH Op <- AddStep, Good <- AnyValue

LEMMA AddedIsFold ==
    ASSUME NEW s
    PROVE  Added(s) = Sums!FoldOf(0, 0, s)
BY Zenon DEF Added, FoldLeft, MapThenFoldSet, Max,
       Sums!FoldOf, Sums!MapThenFoldSet, Sums!Greatest, AddStep

LEMMA SumsTrace ==
    ASSUME NEW c, NEW b, NEW q, Len(q) \in Nat, DOMAIN q = 1 .. Len(q)
    PROVE  \E f : /\ f[0] = b
                  /\ \A n \in 0 .. Len(q) - 1 : f[n + 1] = AddStep(c, f[n], q[n + 1])
                  /\ f[Len(q)] = Sums!FoldOf(c, b, q)
BY SMTT(60), Sums!FoldTrace

(* The sums of the first elements, one by one.                              *)
LEMMA AddedTrace ==
    ASSUME NEW s \in Seq(Nat)
    PROVE  \E f : /\ f[0] = 0 /\ f[Len(s)] = Added(s)
                  /\ \A n \in 0 .. Len(s) - 1 : f[n + 1] = f[n] + s[n + 1]
                  /\ \A n \in 0 .. Len(s) : f[n] \in Nat
<1>1. Len(s) \in Nat /\ DOMAIN s = 1 .. Len(s) /\ \A n \in 0 .. Len(s) - 1 : s[n + 1] \in Nat
  OBVIOUS
<1> PICK z : z = 0
  OBVIOUS
<1>2. PICK f : /\ f[0] = z
               /\ \A n \in 0 .. Len(s) - 1 : f[n + 1] = AddStep(z, f[n], s[n + 1])
               /\ f[Len(s)] = Sums!FoldOf(z, z, s)
  BY ONLY SMTT(60), <1>1, SumsTrace
<1>3. f[Len(s)] = Added(s)
  BY ONLY <1>2, z = 0, AddedIsFold
<1>4. \A n \in 0 .. Len(s) - 1 : f[n + 1] = f[n] + s[n + 1]
  BY ONLY <1>2 DEF AddStep
<1> DEFINE T == {n \in Nat : n <= Len(s) => f[n] \in Nat}
<1>5. 0 \in T
  BY <1>2
<1>6. ASSUME NEW n \in T PROVE n + 1 \in T
  <2> SUFFICES ASSUME n + 1 <= Len(s) PROVE f[n + 1] \in Nat
    OBVIOUS
  <2>1. n \in 0 .. Len(s) - 1 /\ f[n] \in Nat
    BY <1>1
  <2>2. f[n + 1] = f[n] + s[n + 1] /\ s[n + 1] \in Nat
    BY <1>1, <1>4, <2>1
  <2> QED
    BY <2>1, <2>2
<1>7. T = Nat
  <2>1. T \in SUBSET Nat
    OBVIOUS
  <2> HIDE DEF T
  <2> QED
    BY <1>5, <1>6, <2>1, NatSetInduction
<1>8. \A n \in 0 .. Len(s) : f[n] \in Nat
  BY <1>1, <1>7
<1> QED
  BY <1>2, <1>3, <1>4, <1>8

LEMMA AddedEmpty == Added(<<>>) = 0
BY AddedIsFold, Sums!FoldEmpty

LEMMA AddedTyped ==
    ASSUME NEW s \in Seq(Nat)
    PROVE  Added(s) \in Nat
<1>1. PICK f : f[Len(s)] = Added(s) /\ \A n \in 0 .. Len(s) : f[n] \in Nat
  BY AddedTrace
<1>2. Len(s) \in 0 .. Len(s)
  OBVIOUS
<1> QED
  BY <1>1, <1>2

LEMMA AddedAppend ==
    ASSUME NEW s \in Seq(Nat), NEW e \in Nat
    PROVE  Added(Append(s, e)) = Added(s) + e
<1>1. Sums!FoldOf(0, 0, Append(s, e)) = AddStep(0, Sums!FoldOf(0, 0, s), e)
  BY Sums!FoldAppend
<1> QED
  BY ONLY <1>1, AddedIsFold DEF AddStep

LEMMA AddedZeros ==
    ASSUME NEW s \in Seq(Nat), \A i \in DOMAIN s : s[i] = 0
    PROVE  Added(s) = 0
<1>1. PICK f : /\ f[0] = 0 /\ f[Len(s)] = Added(s)
               /\ \A n \in 0 .. Len(s) - 1 : f[n + 1] = f[n] + s[n + 1]
  BY AddedTrace
<1>2. Len(s) \in Nat /\ DOMAIN s = 1 .. Len(s)
  OBVIOUS
<1> DEFINE T == {n \in Nat : n <= Len(s) => f[n] = 0}
<1>3. 0 \in T
  BY <1>1
<1>4. ASSUME NEW n \in T PROVE n + 1 \in T
  <2> SUFFICES ASSUME n + 1 <= Len(s) PROVE f[n + 1] = 0
    OBVIOUS
  <2>1. n \in 0 .. Len(s) - 1 /\ n + 1 \in DOMAIN s /\ f[n] = 0
    BY <1>2
  <2> QED
    BY <1>1, <2>1
<1>5. T = Nat
  <2>1. T \in SUBSET Nat
    OBVIOUS
  <2> HIDE DEF T
  <2> QED
    BY <1>3, <1>4, <2>1, NatSetInduction
<1>6. f[Len(s)] = 0
  BY <1>2, <1>5
<1> QED
  BY <1>1, <1>6

(* One element changes.                                                     *)
LEMMA AddedChanged ==
    ASSUME NEW s \in Seq(Nat), NEW t \in Seq(Nat), Len(t) = Len(s), NEW i \in DOMAIN s, NEW d \in Nat,
           t[i] = s[i] + d, \A j \in DOMAIN s : j # i => t[j] = s[j]
    PROVE  Added(t) = Added(s) + d
<1>1. Len(s) \in Nat /\ DOMAIN s = 1 .. Len(s) /\ i \in 1 .. Len(s) /\ \A j \in 1 .. Len(s) : s[j] \in Nat
  BY SMTT(60)
<1>2. PICK f : /\ f[0] = 0 /\ f[Len(s)] = Added(s)
               /\ \A n \in 0 .. Len(s) - 1 : f[n + 1] = f[n] + s[n + 1]
               /\ \A n \in 0 .. Len(s) : f[n] \in Nat
  BY AddedTrace
<1>3. PICK g : /\ g[0] = 0 /\ g[Len(s)] = Added(t)
               /\ \A n \in 0 .. Len(s) - 1 : g[n + 1] = g[n] + t[n + 1]
               /\ \A n \in 0 .. Len(s) : g[n] \in Nat
  <2>1. \E g : /\ g[0] = 0 /\ g[Len(t)] = Added(t)
               /\ \A n \in 0 .. Len(t) - 1 : g[n + 1] = g[n] + t[n + 1]
               /\ \A n \in 0 .. Len(t) : g[n] \in Nat
    BY AddedTrace
  <2> QED
    BY <2>1, Len(t) = Len(s), Zenon
<1> DEFINE T == {n \in Nat : n <= Len(s) => g[n] = f[n] + IF n < i THEN 0 ELSE d}
<1>4. 0 \in T
  BY SMTT(60), <1>1, <1>2, <1>3
<1>5. ASSUME NEW n \in T PROVE n + 1 \in T
  <2> SUFFICES ASSUME n + 1 <= Len(s) PROVE g[n + 1] = f[n + 1] + IF n + 1 < i THEN 0 ELSE d
    OBVIOUS
  <2>1. n \in 0 .. Len(s) - 1 /\ n \in 0 .. Len(s) /\ n + 1 \in DOMAIN s /\ g[n] = f[n] + IF n < i THEN 0 ELSE d
    BY SMTT(60), <1>1
  <2>2. f[n + 1] = f[n] + s[n + 1] /\ g[n + 1] = g[n] + t[n + 1] /\ f[n] \in Nat /\ s[n + 1] \in Nat
    BY <1>1, <1>2, <1>3, <2>1
  <2>3. CASE n + 1 = i
    BY SMTT(60), <2>1, <2>2, <2>3
  <2>4. CASE n + 1 # i
    <3>1. t[n + 1] = s[n + 1]
      BY <2>1, <2>4
    <3>2. n < i <=> n + 1 < i
      BY SMTT(60), <1>1, <2>1, <2>4
    <3> QED
      BY SMTT(60), <2>1, <2>2, <3>1, <3>2
  <2> QED
    BY <2>3, <2>4
<1>6. T = Nat
  <2>1. T \in SUBSET Nat
    OBVIOUS
  <2> HIDE DEF T
  <2> QED
    BY <1>4, <1>5, <2>1, NatSetInduction
<1>7. g[Len(s)] = f[Len(s)] + d
  <2>1. Len(s) \in T /\ ~(Len(s) < i)
    BY SMTT(60), <1>1, <1>6
  <2> QED
    BY <2>1
<1> QED
  BY <1>2, <1>3, <1>7

(* One element is taken out.                                                *)
LEMMA AddedRemoved ==
    ASSUME NEW s \in Seq(Nat), NEW t \in Seq(Nat), NEW k \in DOMAIN s, Len(t) = Len(s) - 1,
           \A j \in 1 .. Len(s) - 1 : t[j] = IF j < k THEN s[j] ELSE s[j + 1]
    PROVE  Added(s) = Added(t) + s[k]
<1>1. Len(s) \in Nat /\ k \in 1 .. Len(s) /\ \A j \in 1 .. Len(s) : s[j] \in Nat
  OBVIOUS
<1>0. \A j \in 1 .. Len(s) - 1 : t[j] = IF j < k THEN s[j] ELSE s[j + 1]
  OBVIOUS
<1>2. PICK f : /\ f[0] = 0 /\ f[Len(s)] = Added(s)
               /\ \A n \in 0 .. Len(s) - 1 : f[n + 1] = f[n] + s[n + 1]
               /\ \A n \in 0 .. Len(s) : f[n] \in Nat
  BY AddedTrace
<1>3. PICK g : /\ g[0] = 0 /\ g[Len(t)] = Added(t)
               /\ \A n \in 0 .. Len(t) - 1 : g[n + 1] = g[n] + t[n + 1]
               /\ \A n \in 0 .. Len(t) : g[n] \in Nat
  BY AddedTrace
<1> DEFINE T == {n \in Nat : n <= Len(t) => IF n < k THEN g[n] = f[n] ELSE f[n + 1] = g[n] + s[k]}
<1>4. 0 \in T
  BY <1>1, <1>2, <1>3
<1>5. ASSUME NEW n \in T PROVE n + 1 \in T
  <2> SUFFICES ASSUME n + 1 <= Len(t)
               PROVE  IF n + 1 < k THEN g[n + 1] = f[n + 1] ELSE f[n + 1 + 1] = g[n + 1] + s[k]
    OBVIOUS
  <2>1. /\ n \in Nat /\ n \in 0 .. Len(t) - 1 /\ n \in 0 .. Len(t) /\ n + 1 \in 1 .. Len(s) - 1
        /\ n \in 0 .. Len(s) - 1 /\ n + 1 \in 0 .. Len(s) - 1 /\ n + 1 \in 1 .. Len(s) /\ n + 2 \in 1 .. Len(s)
        /\ n + 1 + 1 = n + 2 /\ n \in 0 .. Len(s)
    BY SMTT(60), <1>1
  <2>2. IF n < k THEN g[n] = f[n] ELSE f[n + 1] = g[n] + s[k]
    BY <2>1
  <2>3. g[n + 1] = g[n] + t[n + 1] /\ f[n + 1] = f[n] + s[n + 1] /\ f[n + 2] = f[n + 1] + s[n + 2]
    BY <1>2, <1>3, <2>1
  <2>4. g[n] \in Nat /\ f[n] \in Nat /\ s[n + 1] \in Nat /\ s[n + 2] \in Nat /\ s[k] \in Nat
    BY <1>1, <1>2, <1>3, <2>1
  <2>5. CASE n + 1 < k
    <3>1. t[n + 1] = s[n + 1]
      <4>1. t[n + 1] = IF n + 1 < k THEN s[n + 1] ELSE s[n + 1 + 1]
        BY ONLY <1>0, <2>1
      <4> QED
        BY ONLY <4>1, <2>5
    <3>2. n < k
      <4>1. k \in Nat /\ n \in Nat
        BY <1>1
      <4> QED
        BY ONLY <4>1, <2>5
    <3>3. g[n] = f[n]
      BY ONLY <2>2, <3>2
    <3>4. g[n + 1] = f[n + 1]
      BY ONLY <2>3, <3>1, <3>3
    <3> QED
      BY ONLY <2>5, <3>4
  <2>6. CASE ~(n + 1 < k)
    <3>1. t[n + 1] = s[n + 2]
      <4>1. t[n + 1] = IF n + 1 < k THEN s[n + 1] ELSE s[n + 1 + 1]
        BY ONLY <1>0, <2>1
      <4> QED
        BY ONLY <4>1, <2>1, <2>6
    <3>2. f[n + 1] = g[n] + s[k]
      <4>1. CASE n < k
        <5>1. k = n + 1
          <6>1. k \in Nat /\ n \in Nat
            BY <1>1
          <6> QED
            BY ONLY <2>6, <4>1, <6>1
        <5>2. g[n] = f[n]
          BY <2>2, <4>1
        <5>3. f[n + 1] = f[n] + s[n + 1]
          BY <2>3
        <5> QED
          BY ONLY <5>1, <5>2, <5>3, Zenon
      <4> QED
        BY <2>2, <4>1
    <3>3. f[n + 2] = g[n + 1] + s[k]
      <4>1. f[n + 2] = (g[n] + s[k]) + s[n + 2]
        BY <2>3, <3>2, Zenon
      <4>2. g[n + 1] = g[n] + s[n + 2]
        BY <2>3, <3>1, Zenon
      <4>3. (g[n] + s[k]) + s[n + 2] = (g[n] + s[n + 2]) + s[k]
        BY ONLY SMTT(60), <2>4
      <4> QED
        BY <4>1, <4>2, <4>3, Zenon
    <3>4. f[n + 1 + 1] = g[n + 1] + s[k]
      BY <2>1, <3>3, Zenon
    <3> QED
      BY <2>6, <3>4, Zenon
  <2> QED
    BY <2>5, <2>6
<1>6. T = Nat
  <2>1. T \in SUBSET Nat
    OBVIOUS
  <2> HIDE DEF T
  <2> QED
    BY <1>4, <1>5, <2>1, NatSetInduction
<1>7. IF Len(t) < k THEN g[Len(t)] = f[Len(t)] ELSE f[Len(t) + 1] = g[Len(t)] + s[k]
  <2>1. Len(t) \in Nat
    OBVIOUS
  <2>2. Len(t) \in T
    <3> HIDE DEF T
    <3> QED
      BY <1>6, <2>1
  <2> QED
    BY <2>2
<1>8. Len(t) = Len(s) - 1 /\ Len(t) + 1 = Len(s) /\ Len(t) \in 0 .. Len(s) - 1
  BY <1>1
<1>9. CASE Len(t) < k
  <2>1. k = Len(s)
    BY <1>1, <1>8, <1>9
  <2>2. f[Len(s)] = f[Len(t)] + s[Len(t) + 1]
    BY <1>2, <1>8
  <2> QED
    BY <1>2, <1>3, <1>7, <1>8, <1>9, <2>1, <2>2
<1> QED
  BY <1>2, <1>3, <1>7, <1>8, <1>9

----------------------------------------------------------------------------
(* The bytes of a request: generated, queued, held back and put out.        *)

(* What was sent of the results of a task and of all tasks of a request.    *)
SentOf(t) == Added(SubSeq(Results(t), 1, n_sent[t]))
Sent(r)   == Added([i \in DOMAIN conf.out[r] |-> SentOf(<<r, i>>)])

(* What a queue holds for a request.                                        *)
Weight(r, x) == IF x.id[1] = r THEN x.len ELSE 0
Queued(r, q) == Added([i \in DOMAIN q |-> Weight(r, q[i])])

LEMMA WeighedTyped ==
    ASSUME NEW r, NEW q \in Seq(ResultType)
    PROVE  /\ [i \in DOMAIN q |-> Weight(r, q[i])] \in Seq(Nat)
           /\ Len([i \in DOMAIN q |-> Weight(r, q[i])]) = Len(q)
           /\ \A i \in DOMAIN q : Weight(r, q[i]) \in Nat
<1>1. DOMAIN q = 1 .. Len(q) /\ Len(q) \in Nat /\ \A i \in 1 .. Len(q) : q[i] \in ResultType
  BY ElementOfSeq
<1>2. \A i \in DOMAIN q : Weight(r, q[i]) \in Nat
  BY <1>1 DEF Weight, ResultType
<1> QED
  BY <1>1, <1>2

LEMMA QueuedTyped ==
    ASSUME NEW r, NEW q \in Seq(ResultType)
    PROVE  Queued(r, q) \in Nat
BY WeighedTyped, AddedTyped DEF Queued

LEMMA QueuedAppend ==
    ASSUME NEW r, NEW q \in Seq(ResultType), NEW x \in ResultType
    PROVE  Queued(r, Append(q, x)) = Queued(r, q) + Weight(r, x)
<1> DEFINE w == [i \in DOMAIN q |-> Weight(r, q[i])]
           v == [i \in DOMAIN Append(q, x) |-> Weight(r, Append(q, x)[i])]
<1>1. w \in Seq(Nat) /\ Len(w) = Len(q)
  BY WeighedTyped
<1>2. Weight(r, x) \in Nat
  BY DEF Weight, ResultType
<1>3. /\ Len(q) \in Nat /\ DOMAIN q = 1 .. Len(q) /\ DOMAIN Append(q, x) = 1 .. Len(q) + 1
      /\ Append(q, x)[Len(q) + 1] = x /\ \A i \in 1 .. Len(q) : Append(q, x)[i] = q[i]
  BY AppendProperties
<1>4. v = Append(w, Weight(r, x))
  <2>1. DOMAIN Append(w, Weight(r, x)) = 1 .. Len(q) + 1 /\ DOMAIN v = 1 .. Len(q) + 1
    BY <1>1, <1>2, <1>3, AppendProperties
  <2>2. \A i \in 1 .. Len(q) : v[i] = Append(w, Weight(r, x))[i]
    <3>1. \A i \in 1 .. Len(q) : Append(w, Weight(r, x))[i] = w[i]
      BY <1>1, <1>2, AppendProperties
    <3>2. \A i \in 1 .. Len(q) : v[i] = w[i]
      BY <1>3
    <3> QED
      BY <3>1, <3>2, Zenon
  <2>3. v[Len(q) + 1] = Append(w, Weight(r, x))[Len(q) + 1]
    <3>1. v[Len(q) + 1] = Weight(r, x)
      BY <1>3
    <3>2. Append(w, Weight(r, x))[Len(w) + 1] = Weight(r, x)
      BY <1>1, <1>2, AppendProperties
    <3> QED
      BY <1>1, <3>1, <3>2, Zenon
  <2>4. \A i \in 1 .. Len(q) + 1 : i \in 1 .. Len(q) \/ i = Len(q) + 1
    BY <1>3
  <2>5. Append(w, Weight(r, x)) = [i \in 1 .. Len(q) + 1 |-> Append(w, Weight(r, x))[i]]
    BY <1>1, <1>2, <2>1, AppendProperties
  <2>6. v = [i \in 1 .. Len(q) + 1 |-> v[i]]
    BY <2>1
  <2>7. \A i \in 1 .. Len(q) + 1 : v[i] = Append(w, Weight(r, x))[i]
    BY <2>2, <2>3, <2>4, Zenon
  <2> HIDE DEF v, w
  <2> QED
    BY <2>5, <2>6, <2>7, Zenon
<1> HIDE DEF w
<1>5. Added(v) = Added(w) + Weight(r, x)
  BY <1>1, <1>2, <1>4, AddedAppend
<1> QED
  BY <1>5 DEF Queued, w

LEMMA QueuedRemoved ==
    ASSUME NEW r, NEW q \in Seq(ResultType), NEW k \in DOMAIN q
    PROVE  Queued(r, q) = Queued(r, RemoveAt(q, k)) + Weight(r, q[k])
<1> DEFINE p == RemoveAt(q, k)
           w == [i \in DOMAIN q |-> Weight(r, q[i])]
           v == [i \in DOMAIN p |-> Weight(r, p[i])]
<1>1. /\ p \in Seq(ResultType) /\ Len(p) = Len(q) - 1
      /\ \A j \in 1 .. (Len(q) - 1) : p[j] = IF j < k THEN q[j] ELSE q[j + 1]
  BY RemoveAtShifts
<1> HIDE DEF p
<1>2. w \in Seq(Nat) /\ Len(w) = Len(q) /\ v \in Seq(Nat) /\ Len(v) = Len(p)
  BY <1>1, WeighedTyped
<1>3. DOMAIN q = 1 .. Len(q) /\ Len(q) \in Nat /\ DOMAIN p = 1 .. Len(p) /\ DOMAIN w = 1 .. Len(q)
  BY <1>1
<1>4. \A j \in 1 .. Len(q) - 1 : v[j] = IF j < k THEN w[j] ELSE w[j + 1]
  BY <1>1, <1>3
<1>5. k \in DOMAIN w /\ w[k] = Weight(r, q[k])
  OBVIOUS
<1>6. Len(v) = Len(w) - 1
  BY <1>1, <1>2
<1> HIDE DEF w, v
<1>7. \A j \in 1 .. Len(w) - 1 : v[j] = IF j < k THEN w[j] ELSE w[j + 1]
  BY <1>2, <1>4
<1>8. Added(w) = Added(v) + w[k]
  BY <1>2, <1>5, <1>6, <1>7, AddedRemoved
<1> QED
  BY <1>5, <1>8 DEF Queued, w, v, p

(* What others' results weigh for a request: nothing.                       *)
LEMMA QueuedKept ==
    ASSUME NEW r, NEW q \in Seq(ResultType), NEW S,
           \A i \in DOMAIN q : q[i] \notin S => q[i].id[1] # r
    PROVE  Queued(r, Keep(q, S)) = Queued(r, q)
<1>1. Len(q) \in Nat /\ DOMAIN q = 1 .. Len(q) /\ \A i \in 1 .. Len(q) : q[i] \in ResultType
  BY ElementOfSeq
<1>2. PICK k : Filtering(k, q, S, Len(q)) /\ Keep(q, S) = k[Len(q)]
  BY <1>1, KeepIsFiltering
<1>3. /\ k[0] = <<>>
      /\ \A n \in 0 .. Len(q) - 1 : k[n + 1] = IF q[n + 1] \in S THEN Append(k[n], q[n + 1]) ELSE k[n]
  <2>1. k = [n \in 0 .. Len(q) |-> IF n = 0 THEN <<>>
                ELSE IF q[n] \in S THEN Append(k[n - 1], q[n]) ELSE k[n - 1]]
    BY <1>2, Zenon DEF Filtering
  <2>2. \A n \in 0 .. Len(q) : k[n] = IF n = 0 THEN <<>>
                ELSE IF q[n] \in S THEN Append(k[n - 1], q[n]) ELSE k[n - 1]
    BY <2>1, Zenon
  <2>3. 0 \in 0 .. Len(q)
    BY <1>1
  <2>4. ASSUME NEW n \in 0 .. Len(q) - 1
        PROVE  k[n + 1] = IF q[n + 1] \in S THEN Append(k[n], q[n + 1]) ELSE k[n]
    <3> PICK m : m = n + 1
      OBVIOUS
    <3>1. m \in 0 .. Len(q) /\ m # 0 /\ m - 1 = n
      BY <1>1
    <3>2. k[m] = IF q[m] \in S THEN Append(k[m - 1], q[m]) ELSE k[m - 1]
      BY <2>2, <3>1
    <3> QED
      BY <3>1, <3>2
  <2> QED
    BY <2>2, <2>3, <2>4
<1> DEFINE w == [i \in DOMAIN q |-> Weight(r, q[i])]
<1>4. w \in Seq(Nat) /\ Len(w) = Len(q) /\ \A i \in 1 .. Len(q) : w[i] = Weight(r, q[i])
  BY <1>1, WeighedTyped
<1> HIDE DEF w
<1>5. PICK f : /\ f[0] = 0 /\ f[Len(q)] = Added(w)
               /\ \A n \in 0 .. Len(q) - 1 : f[n + 1] = f[n] + w[n + 1]
               /\ \A n \in 0 .. Len(q) : f[n] \in Nat
  <2>1. \E f : /\ f[0] = 0 /\ f[Len(w)] = Added(w)
               /\ \A n \in 0 .. Len(w) - 1 : f[n + 1] = f[n] + w[n + 1]
               /\ \A n \in 0 .. Len(w) : f[n] \in Nat
    BY <1>4, AddedTrace
  <2> QED
    BY <1>4, <2>1, Zenon
<1> DEFINE T == {n \in Nat : n <= Len(q) => k[n] \in Seq(ResultType) /\ Queued(r, k[n]) = f[n]}
<1>6. 0 \in T
  <2>1. Queued(r, <<>>) = 0
    <3>1. [i \in DOMAIN <<>> |-> Weight(r, <<>>[i])] = <<>>
      OBVIOUS
    <3> QED
      BY <3>1, AddedEmpty DEF Queued
  <2>2. k[0] = <<>> /\ f[0] = 0 /\ <<>> \in Seq(ResultType)
    BY <1>3, <1>5, EmptySeq
  <2> QED
    BY <2>1, <2>2
<1>7. ASSUME NEW n \in T PROVE n + 1 \in T
  <2> SUFFICES ASSUME n + 1 <= Len(q) PROVE k[n + 1] \in Seq(ResultType) /\ Queued(r, k[n + 1]) = f[n + 1]
    OBVIOUS
  <2>1. /\ n \in 0 .. Len(q) - 1 /\ n + 1 \in 1 .. Len(q)
        /\ k[n] \in Seq(ResultType) /\ Queued(r, k[n]) = f[n] /\ f[n] \in Nat
    BY <1>1, <1>5
  <2> HIDE DEF T
  <2>2. q[n + 1] \in ResultType /\ w[n + 1] = Weight(r, q[n + 1])
    BY <1>1, <1>4, <2>1
  <2>3. f[n + 1] = f[n] + w[n + 1]
    BY <1>5, <2>1
  <2>4. k[n + 1] = IF q[n + 1] \in S THEN Append(k[n], q[n + 1]) ELSE k[n]
    BY <1>3, <2>1
  <2>5. CASE q[n + 1] \in S
    <3>1. k[n + 1] = Append(k[n], q[n + 1])
      BY <2>4, <2>5
    <3>2. Queued(r, Append(k[n], q[n + 1])) = Queued(r, k[n]) + Weight(r, q[n + 1])
      BY <2>1, <2>2, QueuedAppend
    <3>3. Append(k[n], q[n + 1]) \in Seq(ResultType)
      BY <2>1, <2>2, AppendProperties
    <3> QED
      BY <2>1, <2>2, <2>3, <3>1, <3>2, <3>3, Zenon
  <2>6. CASE q[n + 1] \notin S
    <3>1. q[n + 1].id[1] # r
      BY <1>1, <2>1, <2>6
    <3>2. w[n + 1] = 0
      BY <2>2, <3>1 DEF Weight
    <3> QED
      BY <2>1, <2>3, <2>4, <2>6, <3>2
  <2> QED
    BY <2>5, <2>6
<1>8. T = Nat
  <2>1. T \in SUBSET Nat
    OBVIOUS
  <2> HIDE DEF T
  <2> QED
    BY <1>6, <1>7, <2>1, NatSetInduction
<1>9. Queued(r, k[Len(q)]) = f[Len(q)]
  <2>1. Len(q) \in T
    <3> HIDE DEF T
    <3> QED
      BY <1>1, <1>8
  <2> QED
    BY <1>1, <2>1
<1> QED
  BY <1>2, <1>5, <1>9 DEF Queued, w

(* A queue without results of a request.                                    *)
LEMMA QueuedNone ==
    ASSUME NEW r, NEW q \in Seq(ResultType), \A i \in DOMAIN q : q[i].id[1] # r
    PROVE  Queued(r, q) = 0
<1> DEFINE w == [i \in DOMAIN q |-> Weight(r, q[i])]
<1>1. w \in Seq(Nat)
  BY WeighedTyped
<1>2. \A i \in DOMAIN w : w[i] = 0
  BY DEF Weight
<1> HIDE DEF w
<1>3. Added(w) = 0
  BY <1>1, <1>2, AddedZeros
<1> QED
  BY <1>3 DEF Queued, w

(* What is known of the tasks' numbers of results.                          *)
SentInv ==
    \A r \in conf.asked : \A t \in TasksOf(r) :
        /\ n_sent[t] <= Len(Results(t))
        /\ gen[t] = "ended" => n_sent[t] = Len(Results(t))

LEMMA OutTyped ==
    ASSUME conf \in Confs, NEW r \in conf.asked
    PROVE  /\ conf.out[r] \in Seq(Seq(Nat))
           /\ Len(conf.out[r]) \in Nat /\ DOMAIN conf.out[r] = 1 .. Len(conf.out[r])
           /\ \A i \in DOMAIN conf.out[r] :
                 /\ <<r, i>> \in TasksOf(r) /\ <<r, i>> \in Tasks
                 /\ Results(<<r, i>>) = conf.out[r][i] /\ Results(<<r, i>>) \in Seq(Nat)
<1>1. r \in Requests /\ conf.out[r] \in Seq(Seq(Nat))
  BY ConfTyped
<1>2. \A i \in DOMAIN conf.out[r] : <<r, i>> \in TasksOf(r) /\ Results(<<r, i>>) = conf.out[r][i]
  BY DEF TasksOf, Results
<1>3. \A i \in DOMAIN conf.out[r] : <<r, i>> \in Tasks /\ Results(<<r, i>>) \in Seq(Nat)
  BY <1>2, TasksTyped
<1> QED
  BY <1>1, <1>2, <1>3

(* A prefix of a sequence of numbers.                                       *)
LEMMA PrefixIs ==
    ASSUME NEW s \in Seq(Nat), NEW n \in Nat, n <= Len(s)
    PROVE  /\ SubSeq(s, 1, n) \in Seq(Nat)
           /\ n < Len(s) => SubSeq(s, 1, n + 1) = Append(SubSeq(s, 1, n), s[n + 1])
           /\ n = Len(s) => SubSeq(s, 1, n) = s
           /\ n = 0 => SubSeq(s, 1, n) = <<>>
<1>1. /\ Len(s) \in Nat /\ \A j \in 1 .. Len(s) : s[j] \in Nat
      /\ s = [j \in 1 .. Len(s) |-> s[j]]
  OBVIOUS
<1>2. \A j \in 1 .. n : s[j] \in Nat
  BY <1>1
<1>3. /\ SubSeq(s, 1, n) \in Seq(Nat) /\ Len(SubSeq(s, 1, n)) = n
      /\ \A j \in 1 .. n : SubSeq(s, 1, n)[j] = s[j]
  BY <1>2, SubSeqProperties
<1>4. ASSUME n < Len(s) PROVE SubSeq(s, 1, n + 1) = Append(SubSeq(s, 1, n), s[n + 1])
  <2> DEFINE a == SubSeq(s, 1, n + 1)
             b == SubSeq(s, 1, n)
             c == Append(b, s[n + 1])
  <2>1. n + 1 \in 1 .. Len(s) /\ s[n + 1] \in Nat /\ n + 1 \in Nat
    BY <1>1, <1>4
  <2>2. a \in Seq(Nat) /\ Len(a) = n + 1 /\ \A j \in 1 .. n + 1 : a[j] = s[j]
    <3>1. \A j \in 1 .. n + 1 : s[j] \in Nat
      BY <1>1, <2>1
    <3> QED
      BY <2>1, <3>1, SubSeqProperties
  <2>3. c \in Seq(Nat) /\ Len(c) = n + 1 /\ c[n + 1] = s[n + 1] /\ \A j \in 1 .. n : c[j] = b[j]
    BY <1>3, <2>1, AppendProperties
  <2>4. \A j \in 1 .. n + 1 : a[j] = c[j]
    BY <1>3, <2>1, <2>2, <2>3
  <2> HIDE DEF a, b, c
  <2>5. a = [j \in 1 .. n + 1 |-> a[j]] /\ c = [j \in 1 .. n + 1 |-> c[j]]
    BY <2>2, <2>3
  <2>6. a = c
    BY <2>4, <2>5, Zenon
  <2> QED
    BY <2>6 DEF a, b, c
<1>5. ASSUME n = Len(s) PROVE SubSeq(s, 1, n) = s
  <2>1. SubSeq(s, 1, n) = [j \in 1 .. n |-> SubSeq(s, 1, n)[j]]
    BY <1>3
  <2>2. \A j \in 1 .. n : SubSeq(s, 1, n)[j] = s[j]
    BY <1>3
  <2>3. s = [j \in 1 .. n |-> s[j]]
    BY <1>1, <1>5
  <2> QED
    BY <2>1, <2>2, <2>3, Zenon
<1>6. ASSUME n = 0 PROVE SubSeq(s, 1, n) = <<>>
  BY <1>3, <1>6
<1> QED
  BY <1>3, <1>4, <1>5, <1>6

LEMMA SentOfTyped ==
    ASSUME Typed, SentInv, NEW r \in conf.asked, NEW i \in DOMAIN conf.out[r]
    PROVE  SentOf(<<r, i>>) \in Nat /\ n_sent[<<r, i>>] \in Nat /\ n_sent[<<r, i>>] <= Len(Results(<<r, i>>))
<1>1. /\ <<r, i>> \in TasksOf(r) /\ <<r, i>> \in Tasks /\ Results(<<r, i>>) \in Seq(Nat)
  BY OutTyped DEF Typed
<1>2. n_sent[<<r, i>>] \in Nat /\ n_sent[<<r, i>>] <= Len(Results(<<r, i>>))
  BY <1>1 DEF Typed, TypedServer, SentInv
<1>3. SubSeq(Results(<<r, i>>), 1, n_sent[<<r, i>>]) \in Seq(Nat)
  BY <1>1, <1>2, PrefixIs
<1> QED
  BY <1>2, <1>3, AddedTyped DEF SentOf

LEMMA SentTyped ==
    ASSUME Typed, SentInv, NEW r \in conf.asked
    PROVE  /\ [i \in DOMAIN conf.out[r] |-> SentOf(<<r, i>>)] \in Seq(Nat)
           /\ Len([i \in DOMAIN conf.out[r] |-> SentOf(<<r, i>>)]) = Len(conf.out[r])
           /\ Sent(r) \in Nat
<1>1. Len(conf.out[r]) \in Nat /\ DOMAIN conf.out[r] = 1 .. Len(conf.out[r])
  BY OutTyped DEF Typed
<1>2. \A i \in DOMAIN conf.out[r] : SentOf(<<r, i>>) \in Nat
  BY SentOfTyped
<1>3. /\ [i \in DOMAIN conf.out[r] |-> SentOf(<<r, i>>)] \in Seq(Nat)
      /\ Len([i \in DOMAIN conf.out[r] |-> SentOf(<<r, i>>)]) = Len(conf.out[r])
  BY <1>1, <1>2
<1> QED
  BY <1>3, AddedTyped DEF Sent

LEMMA SentSame ==
    ASSUME Typed, UNCHANGED conf, NEW r \in conf.asked, \A t \in TasksOf(r) : n_sent'[t] = n_sent[t]
    PROVE  Sent(r)' = Sent(r) /\ Total(r)' = Total(r)
<1>1. ASSUME NEW i \in DOMAIN conf.out[r] PROVE SentOf(<<r, i>>)' = SentOf(<<r, i>>)
  <2>1. <<r, i>> \in TasksOf(r)
    BY DEF TasksOf
  <2>2. n_sent'[<<r, i>>] = n_sent[<<r, i>>]
    BY <2>1
  <2> QED
    BY <2>2 DEF SentOf, Results
<1> HIDE DEF SentOf
<1>2. [i \in DOMAIN conf.out[r] |-> SentOf(<<r, i>>)]' = [i \in DOMAIN conf.out[r] |-> SentOf(<<r, i>>)]
  BY <1>1, Zenon
<1>3. Sent(r)' = Sent(r)
  BY <1>2 DEF Sent
<1>4. Total(r)' = Total(r)
  BY DEF Total
<1> QED
  BY <1>3, <1>4

(* The next result of a task is sent.                                       *)
LEMMA SentOneMore ==
    ASSUME Typed, UNCHANGED conf, SentInv, SentInv', Typed', NEW r \in conf.asked, NEW i \in DOMAIN conf.out[r],
           n_sent' = [n_sent EXCEPT ![<<r, i>>] = @ + 1]
    PROVE  Sent(r)' = Sent(r) + Results(<<r, i>>)[n_sent[<<r, i>>] + 1]
<1> DEFINE t == <<r, i>>
           n == n_sent[t]
           w == [j \in DOMAIN conf.out[r] |-> SentOf(<<r, j>>)]
           v == [j \in DOMAIN conf.out[r] |-> SentOf(<<r, j>>)']
<1>1. /\ conf \in Confs /\ Len(conf.out[r]) \in Nat /\ DOMAIN conf.out[r] = 1 .. Len(conf.out[r])
      /\ t \in Tasks /\ Results(t) \in Seq(Nat) /\ Results(t)' = Results(t)
      /\ \A j \in DOMAIN conf.out[r] : <<r, j>> \in Tasks
  BY OutTyped DEF Typed, Results
<1>2. n \in Nat /\ n_sent'[t] = n + 1 /\ \A j \in DOMAIN conf.out[r] : j # i => n_sent'[<<r, j>>] = n_sent[<<r, j>>]
  <2>1. n_sent \in [Tasks -> Nat]
    BY DEF Typed, TypedServer
  <2>2. \A j \in DOMAIN conf.out[r] : j # i => <<r, j>> # t
    OBVIOUS
  <2> HIDE DEF t
  <2>3. n_sent' = [n_sent EXCEPT ![t] = @ + 1]
    BY DEF t
  <2> QED
    BY <1>1, <2>1, <2>2, <2>3
<1>3. n + 1 <= Len(Results(t))
  <2>1. SentOf(t)' \in Nat /\ n_sent'[t] <= Len(Results(t))'
    <3>1. Typed' /\ SentInv' /\ r \in conf'.asked /\ i \in DOMAIN conf'.out[r]
      OBVIOUS
    <3>2. t \in TasksOf(r)'
      BY <3>1 DEF TasksOf
    <3>3. n_sent'[t] <= Len(Results(t)')
      BY <3>1, <3>2 DEF SentInv
    <3>4. n_sent'[t] \in Nat
      BY <1>2
    <3>5. SubSeq(Results(t)', 1, n_sent'[t]) \in Seq(Nat)
      BY <1>1, <3>3, <3>4, PrefixIs
    <3> QED
      BY <3>3, <3>5, AddedTyped DEF SentOf
  <2> QED
    BY <1>1, <1>2, <2>1
<1>4. Results(t)[n + 1] \in Nat
  BY SMTT(60), <1>1, <1>2, <1>3, ElementOfSeq
<1>5. SentOf(t)' = SentOf(t) + Results(t)[n + 1]
  <2>1. n <= Len(Results(t)) /\ n < Len(Results(t))
    BY <1>1, <1>2, <1>3
  <2>2. /\ SubSeq(Results(t), 1, n) \in Seq(Nat)
        /\ SubSeq(Results(t), 1, n + 1) = Append(SubSeq(Results(t), 1, n), Results(t)[n + 1])
    BY <1>1, <1>2, <2>1, PrefixIs
  <2>3. Added(SubSeq(Results(t), 1, n + 1)) = Added(SubSeq(Results(t), 1, n)) + Results(t)[n + 1]
    BY <1>4, <2>2, AddedAppend
  <2>4. SentOf(t)' = Added(SubSeq(Results(t), 1, n + 1))
    BY <1>1, <1>2 DEF SentOf
  <2> QED
    BY <2>3, <2>4 DEF SentOf
<1>6. \A j \in DOMAIN conf.out[r] : j # i => SentOf(<<r, j>>)' = SentOf(<<r, j>>)
  BY <1>2 DEF SentOf, Results
<1>7. w \in Seq(Nat) /\ Len(w) = Len(conf.out[r])
  BY SentTyped
<1>8. v \in Seq(Nat) /\ Len(v) = Len(conf.out[r])
  <2>1. \A j \in DOMAIN conf.out[r] : SentOf(<<r, j>>) \in Nat
    BY SentOfTyped
  <2>2. \A j \in DOMAIN conf.out[r] : SentOf(<<r, j>>)' \in Nat
    BY <1>4, <1>5, <1>6, <2>1
  <2> HIDE DEF SentOf
  <2> QED
    BY <1>1, <2>2
<1>9. DOMAIN w = DOMAIN conf.out[r] /\ i \in DOMAIN w /\ v[i] = w[i] + Results(t)[n + 1]
      /\ \A j \in DOMAIN w : j # i => v[j] = w[j]
  BY <1>5, <1>6
<1> HIDE DEF v, w, t, n
<1>10. Added(v) = Added(w) + Results(t)[n + 1]
  BY <1>4, <1>7, <1>8, <1>9, AddedChanged
<1>11. Sent(r) = Added(w) /\ Sent(r)' = Added(v)
  BY DEF Sent, w, v
<1> QED
  BY <1>10, <1>11 DEF t, n

(* At first and in the end.                                                 *)
LEMMA SentNone ==
    ASSUME Typed, SentInv, NEW r \in conf.asked, \A t \in TasksOf(r) : n_sent[t] = 0
    PROVE  Sent(r) = 0
<1> DEFINE w == [i \in DOMAIN conf.out[r] |-> SentOf(<<r, i>>)]
<1>1. w \in Seq(Nat)
  BY SentTyped
<1>2. ASSUME NEW i \in DOMAIN w PROVE w[i] = 0
  <2>1. <<r, i>> \in TasksOf(r) /\ Results(<<r, i>>) \in Seq(Nat)
    BY OutTyped DEF Typed
  <2>2. n_sent[<<r, i>>] = 0 /\ 0 \in Nat /\ 0 <= Len(Results(<<r, i>>))
    BY <2>1
  <2>3. SubSeq(Results(<<r, i>>), 1, 0) = <<>>
    BY <2>1, <2>2, PrefixIs
  <2> QED
    BY <2>2, <2>3, AddedEmpty DEF SentOf
<1> HIDE DEF w
<1>3. Added(w) = 0
  BY <1>1, <1>2, AddedZeros
<1> QED
  BY <1>3 DEF Sent, w

LEMMA SentAll ==
    ASSUME Typed, NEW r \in conf.asked, \A t \in TasksOf(r) : n_sent[t] = Len(Results(t))
    PROVE  Sent(r) = Total(r)
<1>1. ASSUME NEW i \in DOMAIN conf.out[r] PROVE SentOf(<<r, i>>) = Added(conf.out[r][i])
  <2>1. <<r, i>> \in TasksOf(r) /\ Results(<<r, i>>) \in Seq(Nat) /\ Results(<<r, i>>) = conf.out[r][i]
    BY OutTyped DEF Typed
  <2>2. n_sent[<<r, i>>] = Len(Results(<<r, i>>)) /\ Len(Results(<<r, i>>)) \in Nat
    BY <2>1
  <2>3. SubSeq(Results(<<r, i>>), 1, Len(Results(<<r, i>>))) = Results(<<r, i>>)
    BY <2>1, <2>2, PrefixIs
  <2> QED
    BY <2>1, <2>2, <2>3 DEF SentOf
<1>2. [i \in DOMAIN conf.out[r] |-> SentOf(<<r, i>>)] = [i \in DOMAIN conf.out[r] |-> Added(conf.out[r][i])]
  BY <1>1, Zenon
<1> QED
  BY <1>2 DEF Sent, Total

LEMMA SentKept ==
    ASSUME StreamInv, SentInv, [Next]_vars
    PROVE  SentInv'
<1>1. Typed /\ TypedServer /\ TasksInv
  BY DEF StreamInv, Typed
<1> DEFINE Same == UNCHANGED conf /\ \A t \in Tasks : n_sent'[t] = n_sent[t] /\ (gen'[t] = "ended" => gen[t] = "ended")
<1>2. ASSUME Same PROVE SentInv'
  <2>1. \A r \in conf.asked : TasksOf(r)' = TasksOf(r) /\ \A t \in TasksOf(r) : t \in Tasks /\ Results(t)' = Results(t)
    BY <1>1, <1>2, TasksTyped DEF Typed, TasksOf, Results
  <2> QED
    BY <1>2, <2>1 DEF SentInv
<1>3. ASSUME UNCHANGED <<conf, gen, n_sent>> PROVE Same
  BY <1>3
<1>4. ASSUME NEW r \in Requests, Request(r) PROVE Same
  <2>1. CASE PostTasks(r)
    <3>1. gen' = [t \in Tasks |-> IF t \in id_tasks[r] THEN "queued" ELSE gen[t]] /\ UNCHANGED <<conf, n_sent>>
      BY <2>1 DEF PostTasks
    <3> QED
      BY <3>1
  <2>2. CASE ~PostTasks(r)
    <3>1. UNCHANGED <<conf, gen, n_sent>>
      BY <1>4, <2>2 DEF Request, Reject, Register, TakeFirst, GiveUp, SeeStop, FlushFirst, SayDone, AwaitNext,
                TakeNext, Ping, LoseClient, Complete, FinishRemoval, Release, Destroy, serverVars, loopVars
    <3> QED
      BY <3>1
  <2> QED
    BY <2>1, <2>2
<1>5. ASSUME NEW t \in Tasks, Generate(t) PROVE SentInv'
  <2> DEFINE n == n_sent[t] + 1
  <2>1. /\ gen[t] = "queued" /\ n_sent' = [n_sent EXCEPT ![t] = n] /\ UNCHANGED conf
        /\ gen' = [gen EXCEPT ![t] = IF n = Len(Results(t)) THEN "ended" ELSE @]
    BY <1>5 DEF Generate
  <2>2. t[1] \in conf.asked /\ t \in TasksOf(t[1]) /\ n_sent[t] < Len(Results(t)) /\ n_sent[t] \in Nat
    BY <1>1, <2>1, ConfTyped DEF TasksInv, Typed, Tasks, TypedServer
  <2>3. Len(Results(t)) \in Nat
    BY <1>1, <2>2, TasksTyped DEF Typed
  <2>4. \A r \in conf.asked : TasksOf(r)' = TasksOf(r) /\ \A u \in TasksOf(r) : u \in Tasks /\ Results(u)' = Results(u)
    BY <1>1, <2>1, TasksTyped DEF Typed, TasksOf, Results
  <2>5. n_sent'[t] = n /\ (gen'[t] = "ended" => n = Len(Results(t)))
    BY <1>1, <2>1 DEF TypedServer
  <2>6. \A u \in Tasks : u # t => n_sent'[u] = n_sent[u] /\ gen'[u] = gen[u]
    BY <1>1, <2>1 DEF TypedServer
  <2> SUFFICES ASSUME NEW r \in conf.asked, NEW u \in TasksOf(r)
               PROVE  n_sent'[u] <= Len(Results(u)) /\ (gen'[u] = "ended" => n_sent'[u] = Len(Results(u)))
    BY <2>1, <2>4 DEF SentInv
  <2>7. CASE u = t
    BY <2>2, <2>3, <2>5, <2>7
  <2>8. CASE u # t
    BY <2>4, <2>6, <2>8 DEF SentInv
  <2> QED
    BY <2>7, <2>8
<1>6. ASSUME NEW t \in Tasks, CancelTask(t) \/ Fail(t) PROVE Same
  <2>1. UNCHANGED <<conf, n_sent>>
    BY <1>6 DEF CancelTask, Fail
  <2>2. \A u \in Tasks : gen'[u] = "ended" => gen[u] = "ended"
    BY <1>1, <1>6 DEF CancelTask, Fail, TypedServer
  <2> QED
    BY <2>1, <2>2
<1>7. ASSUME NEW r \in Requests, Arrive(r) \/ Leave(r) PROVE UNCHANGED <<conf, gen, n_sent>>
  BY <1>7 DEF Arrive, Leave, serverVars, loopVars
<1>8. ASSUME \/ \E c \in Conversations : Delete(c)
             \/ \E cs \in SUBSET Conversations : Expire(cs)
             \/ \E x \in {"DELETE", "gc"} : FinishRemoval(x)
      PROVE  UNCHANGED <<conf, gen, n_sent>>
  BY <1>8 DEF Delete, Expire, FinishRemoval, serverVars, loopVars
<1>9. ASSUME NEW g \in Readers, Open(g) \/ Quit(g) \/ Reader(g) PROVE UNCHANGED <<conf, gen, n_sent>>
  BY <1>9 DEF Open, Quit, Reader, CheckOffset, ReadBytes, ReadEnd, serverVars, loopVars
<1>10. ASSUME Terminate \/ Main \/ UNCHANGED vars PROVE UNCHANGED <<conf, gen, n_sent>>
  BY <1>10 DEF Terminate, Main, StopStreams, FinishRemoval, StopServer, JoinWorkers, vars, serverVars, loopVars
<1> HIDE DEF Same
<1> QED
  BY <1>2, <1>3, <1>4, <1>5, <1>6, <1>7, <1>8, <1>9, <1>10 DEF Next, Loop

----------------------------------------------------------------------------
(* The account of a request.                                                *)

(* Nothing broke a request that streams into a session.                     *)
Unbroken(r) ==
    /\ HasSpipe(r) /\ conf.stream[r] = TRUE /\ is_cancelled[r] = FALSE
    /\ \A t \in TasksOf(r) : gen[t] # "failed"

Taking == {"registered", "first", "streaming", "receiving"}
Ending == {"releasing", "released", "gone"}

(* Nothing is put out before a request streams.  Unless it was broken, what *)
(* was sent of its results, and its pings, are queued, held back or out,    *)
(* and when it ends after it put anything out, all of them are out with the *)
(* closing [DONE].                                                          *)
Account(r) ==
    /\ pc[r] \notin {"streaming", "receiving"} \cup Ending => out[r] = 0 /\ held[r] = 0
    /\ out[r] > 0 \/ pc[r] \in {"streaming", "receiving"} => conf.stream[r] = TRUE
    /\ pc[r] \in Taking => id_tasks[r] = TasksOf(r)
    /\ Unbroken(r) =>
          /\ pc[r] \in Taking => cancelled[r] = FALSE /\ id_tasks[r] \subseteq waiting_task_ids
          /\ pc[r] \in Fresh \cup Taking =>
                out[r] + held[r] + Queued(r, queue_results) = Sent(r) + n_pings[r]
          /\ pc[r] \in Ending /\ out[r] > 0 => out[r] = Total(r) + 1 + n_pings[r]

AccountInv == \A r \in conf.asked : Account(r)

(* What is broken stays so.                                                 *)
LEMMA BrokenStays ==
    ASSUME StreamInv, [Next]_vars, UNCHANGED conf, NEW r \in conf.asked, Unbroken(r)'
    PROVE  Unbroken(r)
<1>1. Typed /\ TypedSessions /\ r \in Requests /\ TasksOf(r) \subseteq Tasks /\ TasksOf(r)' = TasksOf(r)
  BY ConfTyped, TasksTyped DEF StreamInv, Typed, TasksOf
<1>2. HasSpipe(r) /\ conf.stream[r] = TRUE
  BY DEF Unbroken, HasSpipe
<1>3. \A t \in TasksOf(r) : gen[t] # "failed"
  BY SMTT(60), <1>1, FailedStay DEF Unbroken
<1>4. is_cancelled[r] = TRUE => is_cancelled'[r] = TRUE
  <2>1. ASSUME NEW x, FinishRemoval(x) PROVE is_cancelled[r] = TRUE => is_cancelled'[r] = TRUE
    BY <1>1, <2>1 DEF FinishRemoval
  <2>2. ASSUME UNCHANGED is_cancelled PROVE is_cancelled[r] = TRUE => is_cancelled'[r] = TRUE
    BY <2>2
  <2>3. ASSUME NEW s \in Requests, Request(s), ~FinishRemoval(s) PROVE UNCHANGED is_cancelled
    BY <2>3 DEF Request, Reject, Register, PostTasks, TakeFirst, GiveUp, SeeStop, FlushFirst, SayDone, AwaitNext,
              TakeNext, Ping, LoseClient, Complete, Release, Destroy, streamVars, sessionVars
  <2>4. ASSUME Main, ~FinishRemoval("main") PROVE UNCHANGED is_cancelled
    BY <2>4 DEF Main, StopStreams, StopServer, JoinWorkers, streamVars, sessionVars
  <2> QED
    BY <2>1, <2>2, <2>3, <2>4
       DEF Next, Arrive, Leave, Loop, Generate, CancelTask, Fail, Delete, Expire, Open, Quit, Reader, CheckOffset,
           ReadBytes, ReadEnd, Terminate, vars, streamVars, sessionVars
<1>5. is_cancelled[r] \in BOOLEAN /\ is_cancelled'[r] = FALSE
  BY <1>1 DEF TypedSessions, Unbroken
<1> QED
  BY <1>2, <1>3, <1>4, <1>5 DEF Unbroken

(* What others do to a request.                                             *)
LEMMA AccountStays ==
    ASSUME Typed, UNCHANGED conf, NEW r \in conf.asked, Account(r), Unbroken(r)' => Unbroken(r),
           pc'[r] = pc[r], out'[r] = out[r], held'[r] = held[r], n_pings'[r] = n_pings[r],
           cancelled'[r] = cancelled[r], id_tasks'[r] = id_tasks[r],
           \A t \in TasksOf(r) : t \in waiting_task_ids => t \in waiting_task_ids',
           \A t \in TasksOf(r) : n_sent'[t] = n_sent[t],
           Queued(r, queue_results)' = Queued(r, queue_results)
    PROVE  Account(r)'
<1>1. Sent(r)' = Sent(r) /\ Total(r)' = Total(r) /\ TasksOf(r)' = TasksOf(r)
  BY SentSame DEF TasksOf
<1> HIDE DEF Sent, Total
<1>2. \A t \in id_tasks[r] : pc[r] \in Taking => t \in TasksOf(r)
  BY DEF Account
<1> QED
  BY <1>1, <1>2 DEF Account

(* What a request does with its stream, not with its reader.                *)
LEMMA AccountMoves ==
    ASSUME Typed, TasksInv, SentInv, UNCHANGED <<conf, serverVars>>, NEW r \in conf.asked, Account(r),
           Unbroken(r)' => Unbroken(r),
           pc'[r] \notin {"streaming", "receiving"} \cup Ending => out'[r] = 0 /\ held'[r] = 0,
           out'[r] > 0 \/ pc'[r] \in {"streaming", "receiving"} => conf.stream[r] = TRUE,
           pc'[r] \in Taking => pc[r] \in Taking,
           Unbroken(r)' =>
              /\ pc'[r] \in Fresh \cup Taking =>
                    pc[r] \in Fresh \cup Taking /\ out'[r] + held'[r] + n_pings[r] = out[r] + held[r] + n_pings'[r]
              /\ pc'[r] \in Ending /\ out'[r] > 0 => out'[r] = Total(r) + 1 + n_pings'[r],
           out'[r] \in Nat, held'[r] \in Nat, n_pings'[r] \in Nat
    PROVE  Account(r)'
<1>1. UNCHANGED <<waiting_task_ids, queue_results, n_sent, id_tasks, cancelled>>
  BY DEF serverVars, responseVars, loopVars, readerVars
<1>2. Sent(r)' = Sent(r) /\ Total(r)' = Total(r) /\ TasksOf(r)' = TasksOf(r) /\ Sent(r) \in Nat
  BY <1>1, SentSame, SentTyped DEF TasksOf
<1>3. Queued(r, queue_results)' = Queued(r, queue_results)
  BY <1>1
<1>4. Queued(r, queue_results) \in Nat
  BY QueuedTyped DEF Typed, TypedServer
<1>5. out[r] \in Nat /\ held[r] \in Nat /\ n_pings[r] \in Nat
  BY ConfTyped DEF Typed, TypedRequests
<1> HIDE DEF Sent, Total, Queued
<1>6. ASSUME Unbroken(r)', pc'[r] \in Fresh \cup Taking
      PROVE  out'[r] + held'[r] + Queued(r, queue_results) = Sent(r) + n_pings'[r]
  <2>1. out[r] + held[r] + Queued(r, queue_results) = Sent(r) + n_pings[r]
    BY <1>6 DEF Account
  <2>2. out'[r] + held'[r] + n_pings[r] = out[r] + held[r] + n_pings'[r]
    BY <1>6
  <2> QED
    BY <1>2, <1>4, <1>5, <2>1, <2>2
<1> QED
  BY <1>1, <1>2, <1>3, <1>6 DEF Account

(* A request's reader stops or takes a result: others notice nothing.       *)
LEMMA OthersQueued ==
    ASSUME Typed, TasksInv, NEW r \in Requests, NEW s \in conf.asked, s # r, NEW q \in Seq(ResultType),
           StopReader(r, q)
    PROVE  /\ Queued(s, queue_results)' = Queued(s, q)
           /\ \A t \in TasksOf(s) : t \in waiting_task_ids => t \in waiting_task_ids'
<1>1. \A t \in id_tasks[r] : t[1] = r
  BY TasksOwn
<1>2. \A t \in TasksOf(s) : t[1] = s
  BY DEF TasksOf
<1>3. waiting_task_ids' = waiting_task_ids \ id_tasks[r]
  BY DEF StopReader
<1>4. queue_results' = q \/ queue_results' = Purge(q, id_tasks[r])
  BY DEF StopReader
<1>5. Queued(s, Purge(q, id_tasks[r])) = Queued(s, q)
  <2> DEFINE S == {x \in ToSet(q) : x.id \notin id_tasks[r]}
  <2>1. \A i \in DOMAIN q : q[i] \in ToSet(q)
    BY DEF ToSet
  <2>2. \A i \in DOMAIN q : q[i] \notin S => q[i].id[1] # s
    BY <1>1, <2>1
  <2> HIDE DEF S
  <2>3. Queued(s, Keep(q, S)) = Queued(s, q)
    BY <2>2, QueuedKept
  <2> QED
    BY <2>3 DEF Purge, S
<1>6. Queued(s, queue_results)' = Queued(s, queue_results')
  OBVIOUS
<1> QED
  BY <1>1, <1>2, <1>3, <1>4, <1>5, <1>6

LEMMA OthersTake ==
    ASSUME Typed, TasksInv, NEW r \in Requests, NEW s \in conf.asked, s # r, NEW k \in NextResult(r),
           TakeResult(r, k)
    PROVE  /\ Queued(s, queue_results)' = Queued(s, queue_results)
           /\ \A t \in TasksOf(s) : t \in waiting_task_ids => t \in waiting_task_ids'
<1> DEFINE q == RemoveAt(queue_results, k)
<1>1. queue_results \in Seq(ResultType) /\ k \in DOMAIN queue_results /\ queue_results[k].id \in id_tasks[r]
  BY DEF Typed, TypedServer, NextResult
<1>2. q \in Seq(ResultType)
  BY <1>1, RemoveAtWithin
<1>3. Queued(s, queue_results) = Queued(s, q) + Weight(s, queue_results[k])
  BY <1>1, QueuedRemoved
<1>4. Weight(s, queue_results[k]) = 0
  BY <1>1, TasksOwn DEF Weight
<1>5. Queued(s, q) \in Nat
  BY <1>2, QueuedTyped
<1>6. Queued(s, q) = Queued(s, queue_results)
  BY <1>3, <1>4, <1>5
<1>7. CASE queue_results[k].kind = "error"
  <2>1. StopReader(r, q)
    BY <1>7 DEF TakeResult
  <2> HIDE DEF q
  <2> QED
    BY <1>2, <1>6, <2>1, OthersQueued
<1>8. CASE queue_results[k].kind # "error"
  <2>1. queue_results' = q /\ UNCHANGED waiting_task_ids
    BY <1>8, Zenon DEF TakeResult
  <2> HIDE DEF q
  <2>2. Queued(s, queue_results)' = Queued(s, queue_results')
    OBVIOUS
  <2> QED
    BY <1>6, <2>1, <2>2
<1> QED
  BY <1>7, <1>8

(* What the other requests keep when request r moves.                       *)
Aside(r) == \A s \in Requests \ {r} :
    pc'[s] = pc[s] /\ out'[s] = out[s] /\ held'[s] = held[s] /\ n_pings'[s] = n_pings[s]

LEMMA AccountAside ==
    ASSUME StreamInv, AccountInv, [Next]_vars, NEW r \in Requests, Aside(r),
           UNCHANGED n_sent, r \in conf.asked => Account(r)',
           \A s \in conf.asked \ {r} :
              /\ cancelled'[s] = cancelled[s] /\ id_tasks'[s] = id_tasks[s]
              /\ \A t \in TasksOf(s) : t \in waiting_task_ids => t \in waiting_task_ids'
              /\ Queued(s, queue_results)' = Queued(s, queue_results)
    PROVE  AccountInv'
<1>1. Typed /\ UNCHANGED conf
  BY SameConf DEF StreamInv
<1> SUFFICES ASSUME NEW s \in conf.asked, s # r PROVE Account(s)'
  BY <1>1 DEF AccountInv
<1>2. Unbroken(s)' => Unbroken(s)
  BY <1>1, BrokenStays
<1>3. s \in Requests /\ Account(s)
  BY <1>1, ConfTyped DEF Typed, AccountInv
<1>4. pc'[s] = pc[s] /\ out'[s] = out[s] /\ held'[s] = held[s] /\ n_pings'[s] = n_pings[s]
  BY <1>3 DEF Aside
<1>5. \A t \in TasksOf(s) : n_sent'[t] = n_sent[t]
  OBVIOUS
<1> QED
  BY <1>1, <1>2, <1>3, <1>4, <1>5, AccountStays

(* Request r moves from one place to another: it puts nothing out.          *)
LEMMA AccountGoes ==
    ASSUME StreamInv, SentInv, AccountInv, [Next]_vars, UNCHANGED serverVars, NEW r \in Requests, Aside(r),
           out'[r] = out[r], held'[r] = held[r], n_pings'[r] = n_pings[r],
           pc'[r] \in Taking => pc[r] \in Taking,
           pc'[r] \in Fresh => pc[r] \in Fresh,
           pc'[r] \in {"streaming", "receiving"} => pc[r] \in {"streaming", "receiving"},
           \/ pc'[r] \in {"streaming", "receiving"} \cup Ending
           \/ pc[r] \notin {"streaming", "receiving"} \cup Ending,
           pc'[r] \in Ending =>
              \/ pc[r] \in Ending
              \/ pc[r] \notin {"streaming", "receiving"}
              \/ ~Unbroken(r)
    PROVE  AccountInv'
<1>1. Typed /\ TypedRequests /\ TasksInv /\ UNCHANGED conf
  BY SameConf DEF StreamInv, Typed
<1>2. UNCHANGED <<n_sent, cancelled, id_tasks, waiting_task_ids, queue_results>>
  BY DEF serverVars, responseVars, loopVars, readerVars
<1>3. \A s \in conf.asked : Queued(s, queue_results)' = Queued(s, queue_results)
  BY <1>2
<1>4. ASSUME r \in conf.asked PROVE Account(r)'
  <2>1. Account(r) /\ (Unbroken(r)' => Unbroken(r))
    BY <1>1, <1>4, BrokenStays DEF AccountInv
  <2>2. out[r] \in Nat /\ held[r] \in Nat /\ n_pings[r] \in Nat
    BY <1>1 DEF TypedRequests
  <2>3. pc'[r] \notin {"streaming", "receiving"} \cup Ending => out'[r] = 0 /\ held'[r] = 0
    BY <2>1 DEF Account
  <2>4. out'[r] > 0 \/ pc'[r] \in {"streaming", "receiving"} => conf.stream[r] = TRUE
    BY <2>1 DEF Account
  <2>5. ASSUME Unbroken(r)', pc'[r] \in Fresh \cup Taking
        PROVE  pc[r] \in Fresh \cup Taking /\ out'[r] + held'[r] + n_pings[r] = out[r] + held[r] + n_pings'[r]
    BY <2>2, <2>5
  <2>6. ASSUME Unbroken(r)', pc'[r] \in Ending, out'[r] > 0
        PROVE  out'[r] = Total(r) + 1 + n_pings'[r]
    <3>1. CASE pc[r] \in Ending
      BY <2>1, <2>6, <3>1 DEF Account
    <3>2. CASE pc[r] \notin {"streaming", "receiving"} \cup Ending
      BY <2>1, <2>6, <3>2 DEF Account
    <3> QED
      BY <2>1, <2>6, <3>1, <3>2
  <2> HIDE DEF Account, Total
  <2> QED
    BY <1>1, <1>4, <2>1, <2>2, <2>3, <2>4, <2>5, <2>6, AccountMoves
<1> QED
  BY <1>2, <1>3, <1>4, AccountAside

LEMMA AccountSame ==
    ASSUME StreamInv, SentInv, AccountInv, [Next]_vars, UNCHANGED <<serverVars, pc, out, held, n_pings>>
    PROVE  AccountInv'
<1>1. Typed /\ UNCHANGED conf
  BY SameConf DEF StreamInv
<1>2. UNCHANGED <<n_sent, cancelled, id_tasks, waiting_task_ids, queue_results>>
  BY DEF serverVars, responseVars, loopVars, readerVars
<1> SUFFICES ASSUME NEW s \in conf.asked PROVE Account(s)'
  BY <1>1 DEF AccountInv
<1>3. Account(s) /\ (Unbroken(s)' => Unbroken(s))
  BY <1>1, BrokenStays DEF AccountInv
<1>4. Queued(s, queue_results)' = Queued(s, queue_results)
  BY <1>2
<1> QED
  BY <1>1, <1>2, <1>3, <1>4, AccountStays

(* Results are waited for by the request whose they are.                    *)
WaitedInv == \A t \in waiting_task_ids : t \in id_tasks[t[1]]

LEMMA WaitedKept ==
    ASSUME StreamInv, WaitedInv, [Next]_vars
    PROVE  WaitedInv'
<1>1. Typed /\ TypedServer /\ TasksInv
  BY DEF StreamInv, Typed
<1>2. ASSUME waiting_task_ids' \subseteq waiting_task_ids, UNCHANGED id_tasks PROVE WaitedInv'
  BY <1>2 DEF WaitedInv
<1>3. ASSUME NEW r \in Requests, Request(r) PROVE WaitedInv'
  <2>1. CASE Register(r)
    <3>1. /\ pc[r] = "posting" /\ id_tasks' = [id_tasks EXCEPT ![r] = TasksOf(r)]
          /\ waiting_task_ids' = waiting_task_ids \cup TasksOf(r)
      BY <2>1 DEF Register
    <3>2. id_tasks[r] = {} /\ r \in conf.asked
      BY <1>1, <3>1 DEF TasksInv, Fresh
    <3>3. \A t \in TasksOf(r) : t[1] = r
      BY DEF TasksOf
    <3>4. \A t \in waiting_task_ids : t[1] # r /\ t[1] \in Requests
      BY <1>1, <3>2 DEF WaitedInv, TypedServer, Tasks
    <3>5. \A s \in Requests : id_tasks'[s] = IF s = r THEN TasksOf(r) ELSE id_tasks[s]
      BY <1>1, <3>1 DEF TypedServer
    <3> QED
      BY <3>1, <3>3, <3>4, <3>5 DEF WaitedInv
  <2>2. CASE TakeFirst(r) \/ TakeNext(r)
    <3>1. PICK k : TakeResult(r, k)
      BY <2>2 DEF TakeFirst, TakeNext
    <3>2. waiting_task_ids' \subseteq waiting_task_ids
      BY <3>1, Zenon DEF TakeResult, StopReader
    <3> QED
      BY <1>2, <2>2, <3>2 DEF TakeFirst, TakeNext
  <2>3. CASE Release(r)
    <3>1. waiting_task_ids' \subseteq waiting_task_ids
      BY <2>3 DEF Release, StopReader
    <3> QED
      BY <1>2, <2>3, <3>1 DEF Release
  <2>4. CASE ~Register(r) /\ ~TakeFirst(r) /\ ~TakeNext(r) /\ ~Release(r)
    <3>1. UNCHANGED <<waiting_task_ids, id_tasks>>
      BY <1>3, <2>4 DEF Request, Reject, PostTasks, GiveUp, SeeStop, FlushFirst, SayDone, AwaitNext, Ping,
                LoseClient, Complete, FinishRemoval, Destroy, serverVars, responseVars, readerVars
    <3> QED
      BY <1>2, <3>1
  <2> QED
    BY <2>1, <2>2, <2>3, <2>4
<1>4. ASSUME ~(\E r \in Requests : Request(r)) PROVE UNCHANGED <<waiting_task_ids, id_tasks>>
  BY <1>4 DEF Next, Arrive, Leave, Loop, Generate, CancelTask, Fail, Delete, Expire, FinishRemoval,
              Open, Quit, Reader, CheckOffset, ReadBytes, ReadEnd, Terminate, Main, StopStreams,
              StopServer, JoinWorkers, vars, serverVars, responseVars, readerVars
<1> QED
  BY <1>2, <1>3, <1>4

(* Once a reader that was not cancelled expects nothing more, everything    *)
(* was sent and nothing is queued.                                          *)
LEMMA AllTaken ==
    ASSUME StreamInv, CountInv, SentInv, WaitedInv, NEW r \in conf.asked, ~HasNext(r), cancelled[r] = FALSE,
           id_tasks[r] = TasksOf(r)
    PROVE  Queued(r, queue_results) = 0 /\ Sent(r) = Total(r)
<1>1. Typed /\ TypedServer /\ TasksInv /\ r \in Requests
  BY ConfTyped DEF StreamInv, Typed
<1>2. \A i \in DOMAIN queue_results : queue_results[i].id[1] # r
  <2>1. \A i \in DOMAIN queue_results : queue_results[i].id \notin id_tasks[r]
    BY <1>1, NothingLeft
  <2>2. \A i \in DOMAIN queue_results : queue_results[i].id \in id_tasks[queue_results[i].id[1]]
    BY DEF CountInv, ResultsOwned, WaitedInv
  <2> QED
    BY <2>1, <2>2
<1>3. Queued(r, queue_results) = 0
  BY <1>1, <1>2, QueuedNone DEF TypedServer
<1>4. \A t \in TasksOf(r) : gen[t] = "ended"
  <2>1. PICK F : Counted(r, F)
    BY <1>1 DEF CountInv
  <2>2. IsFiniteSet(id_tasks[r]) /\ Cardinality(id_tasks[r]) \in Nat /\ F \in SUBSET id_tasks[r]
    BY <1>1, <2>1, TasksFinite DEF Counted
  <2>3. Cardinality(F) <= Cardinality(id_tasks[r]) /\ (Cardinality(id_tasks[r]) = Cardinality(F) => id_tasks[r] = F)
    BY <2>2, FS_Subset
  <2>4. Cardinality(F) = received_count[r] /\ received_count[r] \in Nat
    BY <1>1, <2>1 DEF Counted, TypedServer
  <2>5. ~(received_count[r] < Cardinality(id_tasks[r]))
    BY DEF HasNext
  <2>6. id_tasks[r] = F
    BY <2>2, <2>3, <2>4, <2>5
  <2> QED
    BY <2>1, <2>6 DEF Counted
<1>5. \A t \in TasksOf(r) : n_sent[t] = Len(Results(t))
  BY <1>4 DEF SentInv
<1>6. Sent(r) = Total(r)
  BY <1>1, <1>5, SentAll
<1> QED
  BY <1>3, <1>6

(* Request r streams: it puts out what it holds, a ping, or [DONE].         *)
LEMMA AccountFlows ==
    ASSUME StreamInv, SentInv, AccountInv, [Next]_vars, UNCHANGED serverVars, NEW r \in Requests, Aside(r),
           pc[r] \in {"streaming", "receiving"},
           \/ pc'[r] = "streaming" /\ out'[r] + held'[r] + n_pings[r] = out[r] + held[r] + n_pings'[r]
           \/ pc'[r] = "releasing" /\ (Unbroken(r) => out'[r] = Total(r) + 1 + n_pings'[r])
    PROVE  AccountInv'
<1>1. Typed /\ Typed' /\ TypedRequests /\ TypedRequests' /\ TasksInv /\ UNCHANGED conf
  BY SameConf, StreamStep DEF StreamInv, Typed
<1>2. UNCHANGED <<n_sent, cancelled, id_tasks, waiting_task_ids, queue_results>>
  BY DEF serverVars, responseVars, loopVars, readerVars
<1>3. \A s \in conf.asked : Queued(s, queue_results)' = Queued(s, queue_results)
  BY <1>2
<1>4. ASSUME r \in conf.asked PROVE Account(r)'
  <2>1. Account(r) /\ (Unbroken(r)' => Unbroken(r))
    BY <1>1, <1>4, BrokenStays DEF AccountInv
  <2>2. out'[r] \in Nat /\ held'[r] \in Nat /\ n_pings'[r] \in Nat
    BY <1>1 DEF TypedRequests
  <2>3. pc'[r] \in {"streaming", "receiving"} \cup Ending
    BY DEF Ending
  <2>4. conf.stream[r] = TRUE /\ pc[r] \in Taking
    BY <2>1 DEF Account, Taking
  <2>5. ASSUME pc'[r] \in Fresh \cup Taking
        PROVE  pc[r] \in Fresh \cup Taking /\ out'[r] + held'[r] + n_pings[r] = out[r] + held[r] + n_pings'[r]
    BY <2>4, <2>5 DEF Fresh, Taking
  <2>6. ASSUME Unbroken(r)', pc'[r] \in Ending
        PROVE  out'[r] = Total(r) + 1 + n_pings'[r]
    BY <2>1, <2>6 DEF Ending
  <2> HIDE DEF Account, Total
  <2> QED
    BY <1>1, <1>4, <2>1, <2>2, <2>3, <2>4, <2>5, <2>6, AccountMoves
<1> QED
  BY <1>2, <1>3, <1>4, AccountAside

(* A request goes somewhere, or something is put out.                       *)
LEMMA GoesAside ==
    ASSUME Typed, NEW r \in Requests, NEW l, Goto(r, l), UNCHANGED <<out, held, n_pings>>
    PROVE  Aside(r) /\ pc'[r] = l /\ out'[r] = out[r] /\ held'[r] = held[r] /\ n_pings'[r] = n_pings[r]
BY DEF Typed, TypedRequests, Goto, Aside

LEMMA YieldsAside ==
    ASSUME Typed, NEW r \in Requests, NEW n, NEW more, Yield(r, n, more)
    PROVE  /\ pc'[r] = IF more THEN "streaming" ELSE "releasing"
           /\ out'[r] = out[r] + n
           /\ \A s \in Requests \ {r} : pc'[s] = pc[s] /\ out'[s] = out[s]
BY DEF Typed, TypedRequests, Goto, Yield

(* What a request does by itself, its reader and its tasks apart.           *)
LEMMA AccountOwn ==
    ASSUME StreamInv, CountInv, SentInv, WaitedInv, AccountInv, [Next]_vars, NEW r \in Requests,
           \/ Arrive(r) \/ Leave(r) \/ Reject(r) \/ GiveUp(r) \/ SeeStop(r) \/ FlushFirst(r) \/ SayDone(r)
           \/ AwaitNext(r) \/ Ping(r) \/ LoseClient(r) \/ Complete(r) \/ Destroy(r)
    PROVE  AccountInv'
<1>1. Typed /\ TypedServer /\ TypedRequests /\ TypedSessions /\ TasksInv
  BY DEF StreamInv, Typed
<1>2. ASSUME NEW l, Goto(r, l), UNCHANGED serverVars, UNCHANGED <<out, held, n_pings>>,
             l \in Taking => pc[r] \in Taking, l \in Fresh => pc[r] \in Fresh,
             l \in {"streaming", "receiving"} => pc[r] \in {"streaming", "receiving"},
             \/ l \in {"streaming", "receiving"} \cup Ending
             \/ pc[r] \notin {"streaming", "receiving"} \cup Ending,
             l \in Ending => pc[r] \in Ending \/ pc[r] \notin {"streaming", "receiving"} \/ ~Unbroken(r)
      PROVE  AccountInv'
  <2>1. Aside(r) /\ pc'[r] = l /\ out'[r] = out[r] /\ held'[r] = held[r] /\ n_pings'[r] = n_pings[r]
    BY <1>1, <1>2, GoesAside
  <2> QED
    BY <1>2, <2>1, AccountGoes
<1>3. CASE Leave(r)
  BY <1>3, AccountSame DEF Leave
<1>4. CASE Arrive(r)
  <2>1. PICK l \in {"posting", "replacing"} : Goto(r, l)
    BY <1>4, Zenon DEF Arrive, Replace
  <2>2. pc[r] = "idle" /\ UNCHANGED <<serverVars, out, held, n_pings>>
    BY <1>4 DEF Arrive, clientVars
  <2> QED
    BY <1>2, <2>1, <2>2 DEF Taking, Fresh, Ending
<1>5. CASE Reject(r)
  <2>1. pc[r] = "posting" /\ Goto(r, "completing") /\ UNCHANGED <<serverVars, out, held, n_pings>>
    BY <1>5 DEF Reject, clientVars
  <2> QED
    BY <1>2, <2>1 DEF Taking, Fresh, Ending
<1>6. CASE GiveUp(r)
  <2>1. pc[r] = "first" /\ Goto(r, "completing") /\ UNCHANGED <<serverVars, out, held, n_pings>>
    BY <1>6 DEF GiveUp, clientVars
  <2> QED
    BY <1>2, <2>1 DEF Taking, Fresh, Ending
<1>7. CASE SeeStop(r)
  <2>1. /\ pc[r] \in {"streaming", "receiving"} /\ ShouldStop(r)
        /\ Goto(r, "releasing") /\ UNCHANGED <<serverVars, out, held, n_pings>>
    BY <1>7 DEF SeeStop, clientVars
  <2>2. ~Unbroken(r)
    BY <2>1 DEF Unbroken, ShouldStop
  <2> QED
    BY <1>2, <2>1, <2>2 DEF Taking, Fresh, Ending
<1>8. CASE FlushFirst(r)
  <2>1. /\ pc[r] = "streaming" /\ Yield(r, held[r], TRUE) /\ held' = [held EXCEPT ![r] = 0]
        /\ UNCHANGED <<serverVars, n_pings>>
    BY <1>8 DEF FlushFirst
  <2>2. pc'[r] = "streaming" /\ out'[r] = out[r] + held[r] /\ \A s \in Requests \ {r} : pc'[s] = pc[s] /\ out'[s] = out[s]
    BY <1>1, <2>1, YieldsAside
  <2>3. held'[r] = 0 /\ Aside(r) /\ n_pings'[r] = n_pings[r]
    BY <1>1, <2>1, <2>2 DEF TypedRequests, Aside
  <2>4. out'[r] + held'[r] + n_pings[r] = out[r] + held[r] + n_pings'[r]
    BY <1>1, <2>2, <2>3 DEF TypedRequests
  <2>5. UNCHANGED serverVars /\ pc[r] \in {"streaming", "receiving"}
    BY <2>1
  <2> QED
    BY <2>2, <2>3, <2>4, <2>5, AccountFlows
<1>9. CASE Ping(r)
  <2>1. /\ pc[r] = "receiving" /\ Yield(r, 1, TRUE) /\ n_pings' = [n_pings EXCEPT ![r] = @ + 1]
        /\ UNCHANGED <<serverVars, held>>
    BY <1>9 DEF Ping
  <2>2. pc'[r] = "streaming" /\ out'[r] = out[r] + 1 /\ \A s \in Requests \ {r} : pc'[s] = pc[s] /\ out'[s] = out[s]
    BY <1>1, <2>1, YieldsAside
  <2>3. n_pings'[r] = n_pings[r] + 1 /\ Aside(r) /\ held'[r] = held[r]
    BY <1>1, <2>1, <2>2 DEF TypedRequests, Aside
  <2>4. out'[r] + held'[r] + n_pings[r] = out[r] + held[r] + n_pings'[r]
    BY <1>1, <2>2, <2>3 DEF TypedRequests
  <2>5. UNCHANGED serverVars /\ pc[r] \in {"streaming", "receiving"}
    BY <2>1
  <2> QED
    BY <2>2, <2>3, <2>4, <2>5, AccountFlows
<1>10. CASE SayDone(r)
  <2>1. /\ pc[r] = "streaming" /\ held[r] = 0 /\ ~HasNext(r) /\ Yield(r, 1, FALSE)
        /\ UNCHANGED <<serverVars, held, n_pings>>
    BY <1>10 DEF SayDone
  <2>2. pc'[r] = "releasing" /\ out'[r] = out[r] + 1 /\ \A s \in Requests \ {r} : pc'[s] = pc[s] /\ out'[s] = out[s]
    BY <1>1, <2>1, YieldsAside
  <2>3. Aside(r) /\ n_pings'[r] = n_pings[r]
    BY <2>1, <2>2 DEF Aside
  <2>4. ASSUME Unbroken(r) PROVE out'[r] = Total(r) + 1 + n_pings'[r]
    <3>1. r \in conf.asked
      BY <1>1, <2>1 DEF TasksInv
    <3>2. Account(r) /\ pc[r] \in Taking
      BY <2>1, <3>1 DEF AccountInv, Taking
    <3>3. /\ cancelled[r] = FALSE /\ id_tasks[r] = TasksOf(r)
          /\ out[r] + held[r] + Queued(r, queue_results) = Sent(r) + n_pings[r]
      BY <2>4, <3>2 DEF Account
    <3>4. Queued(r, queue_results) = 0 /\ Sent(r) = Total(r)
      BY <2>1, <3>1, <3>3, AllTaken
    <3>5. out[r] \in Nat /\ n_pings[r] \in Nat /\ Sent(r) \in Nat
      BY <1>1, <3>1, SentTyped DEF TypedRequests
    <3> HIDE DEF Sent, Total, Queued
    <3>6. out[r] = Sent(r) + n_pings[r]
      BY <2>1, <3>3, <3>4, <3>5
    <3> QED
      BY <2>2, <2>3, <3>4, <3>5, <3>6
  <2> QED
    BY <2>1, <2>2, <2>3, <2>4, AccountFlows
<1>11. CASE AwaitNext(r)
  <2>1. pc[r] = "streaming" /\ Goto(r, "receiving") /\ UNCHANGED <<serverVars, out, held, n_pings>>
    BY <1>11 DEF AwaitNext, clientVars
  <2> QED
    BY <1>2, <2>1 DEF Taking, Fresh, Ending
<1>12. CASE LoseClient(r)
  <2>1. /\ pc[r] = "streaming" /\ UNCHANGED <<serverVars, out, held, n_pings>>
        /\ IF HasSpipe(r) THEN UNCHANGED pc ELSE Goto(r, "releasing")
    BY <1>12 DEF LoseClient
  <2>2. CASE HasSpipe(r)
    BY <2>1, <2>2, AccountSame
  <2>3. CASE ~HasSpipe(r)
    BY <1>2, <2>1, <2>3 DEF Unbroken, Taking, Fresh, Ending
  <2> QED
    BY <2>2, <2>3
<1>13. CASE Complete(r)
  <2>1. pc[r] = "completing" /\ UNCHANGED <<serverVars, out, held, n_pings>>
    BY <1>13 DEF Complete, clientVars
  <2>2. PICK l \in {"evicting", "releasing"} : Goto(r, l)
    BY <1>13, Zenon DEF Complete
  <2> QED
    BY <1>2, <2>1, <2>2 DEF Taking, Fresh, Ending
<1>14. CASE Destroy(r)
  <2>1. pc[r] = "released" /\ Goto(r, "gone") /\ UNCHANGED <<serverVars, out, held, n_pings>>
    BY <1>14 DEF Destroy, clientVars
  <2> QED
    BY <1>2, <2>1 DEF Taking, Fresh, Ending
<1> QED
  BY <1>3, <1>4, <1>5, <1>6, <1>7, <1>8, <1>9, <1>10, <1>11, <1>12, <1>13, <1>14

(* A thread has dealt with the sessions it took out of the map.             *)
LEMMA AccountRemoval ==
    ASSUME StreamInv, SentInv, AccountInv, [Next]_vars, NEW x \in Threads, FinishRemoval(x)
    PROVE  AccountInv'
<1>1. Typed /\ TypedRequests /\ SessionsInv
  BY DEF StreamInv, Typed
<1>2. UNCHANGED <<serverVars, out, held, n_pings>> /\ removed[x].ss # {}
  BY DEF FinishRemoval, clientVars
<1>3. CASE x \in Others
  <2>1. UNCHANGED pc
    BY <1>3 DEF FinishRemoval
  <2> QED
    BY <1>2, <2>1, AccountSame
<1>4. CASE x \in Requests /\ x \notin Others
  <2>1. pc[x] \in {"replacing", "evicting"}
    BY <1>1, <1>2, <1>4 DEF SessionsInv, RemovalsInv
  <2>2. Goto(x, IF pc[x] = "replacing" THEN "posting" ELSE "releasing")
    BY <1>1, <1>4 DEF FinishRemoval, Goto, TypedRequests
  <2>3. /\ Aside(x) /\ out'[x] = out[x] /\ held'[x] = held[x] /\ n_pings'[x] = n_pings[x]
        /\ pc'[x] = IF pc[x] = "replacing" THEN "posting" ELSE "releasing"
    BY <1>1, <1>2, <1>4, <2>2, GoesAside
  <2>4. CASE pc[x] = "replacing"
    BY <1>2, <1>4, <2>3, <2>4, AccountGoes DEF Taking, Fresh, Ending
  <2>5. CASE pc[x] = "evicting"
    BY <1>2, <1>4, <2>3, <2>5, AccountGoes DEF Taking, Fresh, Ending
  <2> QED
    BY <2>1, <2>4, <2>5
<1> QED
  BY <1>3, <1>4 DEF Threads

(* A request registers for its results and posts its tasks.                 *)
LEMMA AccountRegister ==
    ASSUME StreamInv, SentInv, AccountInv, [Next]_vars, NEW r \in Requests, Register(r)
    PROVE  AccountInv'
<1>1. Typed /\ TypedServer /\ TasksInv /\ UNCHANGED conf
  BY SameConf DEF StreamInv, Typed
<1>2. /\ pc[r] = "posting" /\ Goto(r, "registered") /\ UNCHANGED <<n_sent, queue_results, cancelled, out, held, n_pings>>
      /\ id_tasks' = [id_tasks EXCEPT ![r] = TasksOf(r)] /\ waiting_task_ids' = waiting_task_ids \cup TasksOf(r)
  BY DEF Register, loopVars, clientVars
<1>3. Aside(r) /\ pc'[r] = "registered" /\ out'[r] = out[r] /\ held'[r] = held[r] /\ n_pings'[r] = n_pings[r]
  BY <1>1, <1>2, GoesAside
<1>4. \A s \in Requests : id_tasks'[s] = IF s = r THEN TasksOf(r) ELSE id_tasks[s]
  BY <1>1, <1>2 DEF TypedServer
<1>5. r \in conf.asked /\ cancelled[r] = FALSE
  BY <1>1, <1>2 DEF TasksInv, Fresh
<1>6. Account(r)'
  <2>1. Account(r) /\ (Unbroken(r)' => Unbroken(r))
    BY <1>1, <1>5, BrokenStays DEF AccountInv
  <2>2. Sent(r)' = Sent(r) /\ Total(r)' = Total(r) /\ TasksOf(r)' = TasksOf(r)
    BY <1>1, <1>2, <1>5, SentSame DEF TasksOf
  <2>3. Queued(r, queue_results)' = Queued(r, queue_results)
    BY <1>2
  <2>4. /\ pc[r] \in Fresh /\ pc'[r] \in Taking /\ pc'[r] \notin Ending /\ pc'[r] \notin {"streaming", "receiving"}
        /\ pc[r] \notin {"streaming", "receiving"} \cup Ending
    BY <1>2, <1>3 DEF Fresh, Taking, Ending
  <2> HIDE DEF Sent, Total, Queued, Unbroken
  <2>5. out[r] = 0 /\ held[r] = 0 /\ out'[r] = 0 /\ held'[r] = 0
    BY <1>3, <2>1, <2>4 DEF Account
  <2>6. Unbroken(r) => out[r] + held[r] + Queued(r, queue_results) = Sent(r) + n_pings[r]
    BY <2>1, <2>4 DEF Account
  <2>7. id_tasks'[r] = TasksOf(r)' /\ id_tasks'[r] \subseteq waiting_task_ids' /\ cancelled'[r] = FALSE
    BY <1>2, <1>4, <1>5, <2>2
  <2>8. out'[r] + held'[r] + Queued(r, queue_results)' = out[r] + held[r] + Queued(r, queue_results)
    BY <1>3, <2>3
  <2> QED
    BY <1>3, <2>1, <2>2, <2>4, <2>5, <2>6, <2>7, <2>8 DEF Account
<1>7. ASSUME NEW s \in conf.asked \ {r}
      PROVE  /\ cancelled'[s] = cancelled[s] /\ id_tasks'[s] = id_tasks[s]
             /\ \A t \in TasksOf(s) : t \in waiting_task_ids => t \in waiting_task_ids'
             /\ Queued(s, queue_results)' = Queued(s, queue_results)
  <2>1. s \in Requests /\ s # r
    BY <1>1, ConfTyped DEF Typed
  <2> QED
    BY <1>2, <1>4, <2>1
<1> QED
  BY <1>2, <1>3, <1>6, <1>7, AccountAside

LEMMA AccountPost ==
    ASSUME StreamInv, SentInv, AccountInv, [Next]_vars, NEW r \in Requests, PostTasks(r)
    PROVE  AccountInv'
<1>1. Typed /\ TasksInv /\ UNCHANGED conf
  BY SameConf DEF StreamInv, Typed
<1>2. /\ pc[r] = "registered" /\ Goto(r, "first")
      /\ UNCHANGED <<n_sent, waiting_task_ids, queue_results, id_tasks, cancelled, out, held, n_pings>>
  BY DEF PostTasks, responseVars, readerVars, clientVars
<1>3. Aside(r) /\ pc'[r] = "first" /\ out'[r] = out[r] /\ held'[r] = held[r] /\ n_pings'[r] = n_pings[r]
  BY <1>1, <1>2, GoesAside
<1>4. r \in conf.asked
  BY <1>1, <1>2 DEF TasksInv
<1>5. Account(r)'
  <2>1. Account(r) /\ (Unbroken(r)' => Unbroken(r))
    BY <1>1, <1>4, BrokenStays DEF AccountInv
  <2>2. Sent(r)' = Sent(r) /\ Total(r)' = Total(r) /\ TasksOf(r)' = TasksOf(r)
    BY <1>1, <1>2, <1>4, SentSame DEF TasksOf
  <2>3. Queued(r, queue_results)' = Queued(r, queue_results)
    BY <1>2
  <2>4. /\ pc[r] \in Taking /\ pc'[r] \in Taking /\ pc'[r] \notin Ending /\ pc'[r] \notin {"streaming", "receiving"}
        /\ pc[r] \notin {"streaming", "receiving"} \cup Ending
    BY <1>2, <1>3 DEF Taking, Ending
  <2> HIDE DEF Sent, Total, Queued, Unbroken
  <2> QED
    BY <1>2, <1>3, <2>1, <2>2, <2>3, <2>4 DEF Account
<1> QED
  BY <1>2, <1>3, <1>5, AccountAside

(* The reader of a request stops as it is released.                         *)
LEMMA AccountRelease ==
    ASSUME StreamInv, SentInv, AccountInv, [Next]_vars, NEW r \in Requests, Release(r)
    PROVE  AccountInv'
<1>1. Typed /\ TypedServer /\ TasksInv /\ UNCHANGED conf
  BY SameConf DEF StreamInv, Typed
<1>2. /\ pc[r] = "releasing" /\ Goto(r, "released") /\ StopReader(r, queue_results)
      /\ UNCHANGED <<n_sent, id_tasks, out, held, n_pings>>
  BY DEF Release, clientVars
<1>3. Aside(r) /\ pc'[r] = "released" /\ out'[r] = out[r] /\ held'[r] = held[r] /\ n_pings'[r] = n_pings[r]
  BY <1>1, <1>2, GoesAside
<1>4. r \in conf.asked
  BY <1>1, <1>2 DEF TasksInv
<1>5. Account(r)'
  <2>1. Account(r) /\ (Unbroken(r)' => Unbroken(r))
    BY <1>1, <1>4, BrokenStays DEF AccountInv
  <2>2. Total(r)' = Total(r)
    BY <1>1, <1>2, <1>4, SentSame
  <2>3. /\ pc[r] \in Ending /\ pc'[r] \in Ending /\ pc'[r] \notin Fresh \cup Taking
        /\ pc'[r] \notin {"streaming", "receiving"}
    BY <1>2, <1>3 DEF Taking, Ending, Fresh
  <2> HIDE DEF Sent, Total, Queued, Unbroken
  <2> QED
    BY <1>1, <1>3, <2>1, <2>2, <2>3 DEF Account
<1>6. ASSUME NEW s \in conf.asked \ {r}
      PROVE  /\ cancelled'[s] = cancelled[s] /\ id_tasks'[s] = id_tasks[s]
             /\ \A t \in TasksOf(s) : t \in waiting_task_ids => t \in waiting_task_ids'
             /\ Queued(s, queue_results)' = Queued(s, queue_results)
  <2>1. s \in Requests /\ s # r /\ s \in conf.asked /\ queue_results \in Seq(ResultType)
    BY <1>1, ConfTyped DEF Typed, TypedServer
  <2>2. cancelled'[s] = cancelled[s]
    BY <1>1, <1>2, <2>1, StopReaderOwn
  <2>3. /\ Queued(s, queue_results)' = Queued(s, queue_results)
        /\ \A t \in TasksOf(s) : t \in waiting_task_ids => t \in waiting_task_ids'
    BY <1>1, <1>2, <2>1, OthersQueued
  <2> QED
    BY <1>2, <2>2, <2>3
<1> QED
  BY <1>2, <1>3, <1>5, <1>6, AccountAside

(* The loop is told to stop a task.                                         *)
LEMMA AccountCancel ==
    ASSUME StreamInv, SentInv, AccountInv, [Next]_vars, NEW t \in Tasks, CancelTask(t)
    PROVE  AccountInv'
<1>1. Typed /\ UNCHANGED conf
  BY SameConf DEF StreamInv
<1>2. UNCHANGED <<n_sent, waiting_task_ids, queue_results, id_tasks, cancelled, pc, out, held, n_pings>>
  BY DEF CancelTask, responseVars, readerVars, requestVars
<1> SUFFICES ASSUME NEW s \in conf.asked PROVE Account(s)'
  BY <1>1 DEF AccountInv
<1>3. Account(s) /\ (Unbroken(s)' => Unbroken(s))
  BY <1>1, BrokenStays DEF AccountInv
<1>4. Queued(s, queue_results)' = Queued(s, queue_results)
  BY <1>2
<1> QED
  BY <1>1, <1>2, <1>3, <1>4, AccountStays

(* A result is taken: it is no longer queued.                               *)
LEMMA TakenQueued ==
    ASSUME Typed, TasksInv, NEW r \in Requests, NEW k \in NextResult(r), TakeResult(r, k),
           queue_results[k].kind # "error"
    PROVE  /\ Queued(r, queue_results) = Queued(r, queue_results)' + queue_results[k].len
           /\ queue_results[k].len \in Nat /\ Queued(r, queue_results)' \in Nat
           /\ UNCHANGED <<waiting_task_ids, cancelled>>
<1> DEFINE q == RemoveAt(queue_results, k)
<1>1. queue_results \in Seq(ResultType) /\ k \in DOMAIN queue_results /\ queue_results[k].id \in id_tasks[r]
  BY DEF Typed, TypedServer, NextResult
<1>2. queue_results[k] \in ResultType
  BY <1>1, ElementOfSeq
<1>3. q \in Seq(ResultType)
  BY <1>1, RemoveAtWithin
<1>4. Queued(r, queue_results) = Queued(r, q) + Weight(r, queue_results[k])
  BY <1>1, QueuedRemoved
<1>5. Weight(r, queue_results[k]) = queue_results[k].len
  BY <1>1, TasksOwn DEF Weight
<1>6. queue_results' = q /\ UNCHANGED <<waiting_task_ids, cancelled>>
  BY Zenon DEF TakeResult
<1> HIDE DEF q
<1>7. Queued(r, queue_results)' = Queued(r, q)
  BY <1>6
<1>8. Queued(r, q) \in Nat
  BY <1>3, QueuedTyped
<1> QED
  BY <1>2, <1>4, <1>5, <1>6, <1>7, <1>8 DEF ResultType

LEMMA AccountTake ==
    ASSUME StreamInv, AccountInv, [Next]_vars, NEW r \in Requests, NEW k \in NextResult(r), TakeResult(r, k),
           UNCHANGED <<n_sent, id_tasks>>, Aside(r), r \in conf.asked => Account(r)'
    PROVE  AccountInv'
<1>1. Typed /\ TypedServer /\ TasksInv
  BY DEF StreamInv, Typed
<1>2. ASSUME NEW s \in conf.asked \ {r}
      PROVE  /\ cancelled'[s] = cancelled[s] /\ id_tasks'[s] = id_tasks[s]
             /\ \A t \in TasksOf(s) : t \in waiting_task_ids => t \in waiting_task_ids'
             /\ Queued(s, queue_results)' = Queued(s, queue_results)
  <2>1. s \in Requests /\ s # r /\ s \in conf.asked
    BY <1>1, ConfTyped DEF Typed
  <2>2. cancelled'[s] = cancelled[s]
    BY <1>1, <2>1, TakeResultOwn
  <2>3. /\ Queued(s, queue_results)' = Queued(s, queue_results)
        /\ \A t \in TasksOf(s) : t \in waiting_task_ids => t \in waiting_task_ids'
    BY <1>1, <2>1, OthersTake
  <2> QED
    BY <2>2, <2>3
<1> QED
  BY <1>2, AccountAside

(* The first result of a streamed request is held back.                     *)
LEMMA AccountFirst ==
    ASSUME StreamInv, SentInv, AccountInv, [Next]_vars, NEW r \in Requests, TakeFirst(r)
    PROVE  AccountInv'
<1>1. Typed /\ TypedServer /\ TypedRequests /\ TasksInv /\ UNCHANGED conf
  BY SameConf DEF StreamInv, Typed
<1>2. PICK k \in NextResult(r) :
         /\ TakeResult(r, k)
         /\ \/ /\ queue_results[k].kind # "error" /\ conf.stream[r]
               /\ held' = [held EXCEPT ![r] = queue_results[k].len] /\ Goto(r, "streaming")
            \/ /\ queue_results[k].kind = "error" \/ ~conf.stream[r]
               /\ IF queue_results[k].kind = "error" \/ AllFinal(r)
                  THEN Goto(r, "completing") ELSE UNCHANGED pc
               /\ UNCHANGED held
  BY DEF TakeFirst
<1>3. pc[r] = "first" /\ UNCHANGED <<n_sent, id_tasks, out, n_pings>>
  BY DEF TakeFirst
<1>4. Aside(r) /\ out'[r] = out[r] /\ n_pings'[r] = n_pings[r]
  BY <1>1, <1>2, <1>3 DEF Aside, Goto, TypedRequests
<1>5. ASSUME r \in conf.asked PROVE Account(r)'
  <2>1. Account(r) /\ (Unbroken(r)' => Unbroken(r))
    BY <1>1, <1>5, BrokenStays DEF AccountInv
  <2>2. Sent(r)' = Sent(r) /\ Total(r)' = Total(r) /\ TasksOf(r)' = TasksOf(r) /\ Sent(r) \in Nat
    BY <1>1, <1>3, <1>5, SentSame, SentTyped DEF TasksOf
  <2>3. pc[r] \notin {"streaming", "receiving"} \cup Ending /\ pc[r] \in Taking
    BY <1>3 DEF Ending, Taking
  <2>4. out[r] = 0 /\ held[r] = 0 /\ id_tasks[r] = TasksOf(r)
    BY <2>1, <2>3 DEF Account
  <2>5. n_pings[r] \in Nat
    BY <1>1 DEF TypedRequests
  <2>6. conf.stream[r] \in BOOLEAN
    BY <1>1 , ResponseStreamAssumption DEF Typed, ConfType
  <2>7. CASE Goto(r, "streaming") /\ queue_results[k].kind # "error" /\ conf.stream[r]
    <3>1. pc'[r] = "streaming" /\ conf.stream[r] = TRUE /\ held'[r] = queue_results[k].len
      BY <1>1, <1>2, <2>6, <2>7 DEF Goto, TypedRequests
    <3>2. /\ Queued(r, queue_results) = Queued(r, queue_results)' + queue_results[k].len
          /\ queue_results[k].len \in Nat /\ Queued(r, queue_results)' \in Nat
          /\ UNCHANGED <<waiting_task_ids, cancelled>>
      BY <1>1, <1>2, <2>7, TakenQueued
    <3>3. pc'[r] \in {"streaming", "receiving"} /\ pc'[r] \in Taking /\ pc'[r] \notin Ending
      BY <3>1 DEF Taking, Ending
    <3> HIDE DEF Sent, Total, Queued, Unbroken
    <3>4. ASSUME Unbroken(r) PROVE out'[r] + held'[r] + Queued(r, queue_results)' = Sent(r)' + n_pings'[r]
      <4>1. out[r] + held[r] + Queued(r, queue_results) = Sent(r) + n_pings[r]
        BY <2>1, <2>3, <3>4 DEF Account
      <4> QED
        BY <1>4, <2>2, <2>4, <2>5, <3>1, <3>2, <4>1
    <3>5. Unbroken(r) => cancelled[r] = FALSE /\ id_tasks[r] \subseteq waiting_task_ids
      BY <2>1, <2>3 DEF Account
    <3> QED
      BY <1>1, <1>3, <2>1, <2>2, <2>4, <3>1, <3>2, <3>3, <3>4, <3>5 DEF Account
  <2>8. CASE queue_results[k].kind = "error" /\ Goto(r, "completing") /\ UNCHANGED held
    <3>1. pc'[r] = "completing"
      BY <1>1, <2>8 DEF Goto, TypedRequests
    <3>2. pc'[r] \notin Fresh \cup Taking \cup Ending \cup {"streaming", "receiving"}
      BY <3>1 DEF Fresh, Taking, Ending
    <3> QED
      BY <1>4, <2>4, <2>8, <3>2 DEF Account
  <2>9. CASE queue_results[k].kind # "error" /\ ~conf.stream[r] /\ (Goto(r, "completing") \/ UNCHANGED pc) /\ UNCHANGED held
    <3>1. pc'[r] \in {"completing", "first"}
      BY <1>1, <1>3, <2>9 DEF Goto, TypedRequests
    <3>2. pc'[r] \notin Ending \cup {"streaming", "receiving"}
      BY <3>1 DEF Ending
    <3>3. ~Unbroken(r)
      BY <2>6, <2>9 DEF Unbroken
    <3> QED
      BY <1>3, <1>4, <2>1, <2>2, <2>4, <2>9, <3>2, <3>3 DEF Account
  <2> QED
    BY <1>2, <2>7, <2>8, <2>9
<1> QED
  BY <1>2, <1>3, <1>4, <1>5, AccountTake

(* The next ones are put out.                                               *)
LEMMA AccountNext ==
    ASSUME StreamInv, QueueInv, CountInv, SentInv, AccountInv, [Next]_vars, NEW r \in Requests, TakeNext(r)
    PROVE  AccountInv'
<1>1. Typed /\ TypedServer /\ TypedRequests /\ TasksInv /\ UNCHANGED conf
  BY SameConf DEF StreamInv, Typed
<1>2. PICK k \in NextResult(r) :
         TakeResult(r, k) /\ Yield(r, queue_results[k].len, queue_results[k].kind # "error")
  BY DEF TakeNext
<1>3. pc[r] = "receiving" /\ UNCHANGED <<gen, n_sent, id_tasks, held, n_pings>>
  BY DEF TakeNext
<1>4. /\ pc'[r] = IF queue_results[k].kind # "error" THEN "streaming" ELSE "releasing"
      /\ out'[r] = out[r] + queue_results[k].len
      /\ \A s \in Requests \ {r} : pc'[s] = pc[s] /\ out'[s] = out[s]
  BY <1>1, <1>2, YieldsAside
<1>5. Aside(r) /\ held'[r] = held[r] /\ n_pings'[r] = n_pings[r]
  BY <1>3, <1>4 DEF Aside
<1>6. ASSUME r \in conf.asked PROVE Account(r)'
  <2>1. Account(r) /\ (Unbroken(r)' => Unbroken(r))
    BY <1>1, <1>6, BrokenStays DEF AccountInv
  <2>2. Sent(r)' = Sent(r) /\ Total(r)' = Total(r) /\ TasksOf(r)' = TasksOf(r) /\ Sent(r) \in Nat
    BY <1>1, <1>3, <1>6, SentSame, SentTyped DEF TasksOf
  <2>3. pc[r] \in {"streaming", "receiving"} /\ pc[r] \in Taking
    BY <1>3 DEF Taking
  <2>4. conf.stream[r] = TRUE /\ id_tasks[r] = TasksOf(r)
    BY <2>1, <2>3 DEF Account
  <2>5. n_pings[r] \in Nat /\ out[r] \in Nat /\ held[r] \in Nat
    BY <1>1 DEF TypedRequests
  <2>6. CASE queue_results[k].kind # "error"
    <3>1. pc'[r] \in {"streaming", "receiving"} /\ pc'[r] \in Taking /\ pc'[r] \notin Ending
      BY <1>4, <2>6 DEF Taking, Ending
    <3>2. /\ Queued(r, queue_results) = Queued(r, queue_results)' + queue_results[k].len
          /\ queue_results[k].len \in Nat /\ Queued(r, queue_results)' \in Nat
          /\ UNCHANGED <<waiting_task_ids, cancelled>>
      BY <1>1, <1>2, <2>6, TakenQueued
    <3> HIDE DEF Sent, Total, Queued, Unbroken
    <3>3. ASSUME Unbroken(r) PROVE out'[r] + held'[r] + Queued(r, queue_results)' = Sent(r)' + n_pings'[r]
      <4>1. out[r] + held[r] + Queued(r, queue_results) = Sent(r) + n_pings[r]
        BY <2>1, <2>3, <3>3 DEF Account
      <4> QED
        BY <1>4, <1>5, <2>2, <2>5, <3>2, <4>1
    <3>4. Unbroken(r) => cancelled[r] = FALSE /\ id_tasks[r] \subseteq waiting_task_ids
      BY <2>1, <2>3 DEF Account
    <3> QED
      BY <1>1, <1>3, <2>1, <2>2, <2>4, <3>1, <3>2, <3>3, <3>4 DEF Account
  <2>7. CASE queue_results[k].kind = "error"
    <3>1. pc'[r] \in Ending /\ pc'[r] \notin Fresh \cup Taking /\ pc'[r] \notin {"streaming", "receiving"}
      BY <1>4, <2>7 DEF Taking, Ending, Fresh
    <3>2. ~Unbroken(r)
      BY <1>1, <1>2, <1>3, <2>7, TakeResultCounts DEF Unbroken
    <3> QED
      BY <1>1, <2>1, <2>4, <3>1, <3>2 DEF Account
  <2> QED
    BY <2>6, <2>7
<1> QED
  BY <1>2, <1>3, <1>5, <1>6, AccountTake

(* A result is sent: one more is queued if it is waited for.                *)
LEMMA SaidQueued ==
    ASSUME Typed, NEW t \in Tasks, NEW kind \in {"partial", "final", "error"}, NEW len \in Nat, Say(t, kind, len)
    PROVE  /\ \A s : s # t[1] => Queued(s, queue_results)' = Queued(s, queue_results)
           /\ t \in waiting_task_ids =>
                 Queued(t[1], queue_results)' = Queued(t[1], queue_results) + len
<1> DEFINE e == [id |-> t, kind |-> kind, len |-> len]
<1>1. e \in ResultType /\ queue_results \in Seq(ResultType)
  BY DEF ResultType, Typed, TypedServer
<1>2. queue_results' = IF t \in waiting_task_ids THEN Append(queue_results, e) ELSE queue_results
  BY DEF Say, Send
<1>3. \A s : Weight(s, e) = IF t[1] = s THEN len ELSE 0
  BY DEF Weight
<1> HIDE DEF e
<1>4. \A s : Queued(s, Append(queue_results, e)) = Queued(s, queue_results) + Weight(s, e)
  BY <1>1, QueuedAppend
<1>5. \A s : Queued(s, queue_results) \in Nat
  BY <1>1, QueuedTyped
<1>6. \A s : Queued(s, queue_results)' = Queued(s, queue_results')
  OBVIOUS
<1> HIDE DEF Queued
<1>7. ASSUME NEW s, s # t[1] PROVE Queued(s, queue_results)' = Queued(s, queue_results)
  <2>1. Queued(s, Append(queue_results, e)) = Queued(s, queue_results)
    BY <1>3, <1>4, <1>5, <1>7
  <2> QED
    BY <1>2, <1>6, <2>1
<1>8. t \in waiting_task_ids => Queued(t[1], queue_results)' = Queued(t[1], queue_results) + len
  BY <1>2, <1>3, <1>4, <1>6
<1> QED
  BY <1>7, <1>8

(* What the other requests see of a task that sends a result.               *)
LEMMA AccountSays ==
    ASSUME StreamInv, AccountInv, [Next]_vars, NEW t \in Tasks,
           NEW kind \in {"partial", "final", "error"}, NEW len \in Nat, Say(t, kind, len),
           UNCHANGED <<waiting_task_ids, readerVars, requestVars>>,
           \A u \in Tasks \ {t} : n_sent'[u] = n_sent[u],
           Account(t[1])'
    PROVE  AccountInv'
<1>1. Typed /\ UNCHANGED conf
  BY SameConf DEF StreamInv
<1> SUFFICES ASSUME NEW s \in conf.asked, s # t[1] PROVE Account(s)'
  BY <1>1 DEF AccountInv
<1>2. Account(s) /\ (Unbroken(s)' => Unbroken(s))
  BY <1>1, BrokenStays DEF AccountInv
<1>3. Queued(s, queue_results)' = Queued(s, queue_results)
  BY <1>1, SaidQueued
<1>4. UNCHANGED <<id_tasks, cancelled, pc, out, held, n_pings>>
  BY DEF readerVars, requestVars
<1>5. \A u \in TasksOf(s) : n_sent'[u] = n_sent[u]
  BY <1>1, TasksTyped DEF Typed, TasksOf
<1> QED
  BY <1>1, <1>2, <1>3, <1>4, <1>5, AccountStays

LEMMA AccountGenerate ==
    ASSUME StreamInv, SentInv, AccountInv, [Next]_vars, NEW t \in Tasks, Generate(t)
    PROVE  AccountInv'
<1> DEFINE n    == n_sent[t] + 1
           kind == IF n = Len(Results(t)) THEN "final" ELSE "partial"
           len  == Results(t)[n]
<1> PICK r : r = t[1]
  OBVIOUS
<1>1. Typed /\ Typed' /\ TypedServer /\ TypedRequests /\ TasksInv /\ SentInv' /\ UNCHANGED conf
  BY SameConf, StreamStep, SentKept DEF StreamInv, Typed
<1>2. gen[t] = "queued" /\ n_sent[t] \in Nat
  BY <1>1 DEF Generate, TypedServer
<1>3. r \in conf.asked /\ t \in TasksOf(r) /\ t \in id_tasks[r] /\ r \in Requests /\ n_sent[t] < Len(Results(t))
  BY <1>1, <1>2, ConfTyped DEF TasksInv, Tasks, Typed
<1>4. Results(t) \in Seq(Nat) /\ n \in 1 .. Len(Results(t))
  BY <1>1, <1>2, <1>3, TasksTyped DEF Typed
<1>5. len \in Nat
  BY <1>4, ElementOfSeq
<1>6. /\ Say(t, kind, len) /\ n_sent' = [n_sent EXCEPT ![t] = n]
      /\ UNCHANGED <<waiting_task_ids, readerVars, requestVars>>
  BY DEF Generate
<1>7. kind \in {"partial", "final", "error"}
  OBVIOUS
<1>8. \A u \in Tasks \ {t} : n_sent'[u] = n_sent[u]
  BY <1>1, <1>6 DEF TypedServer
<1>9. PICK i \in DOMAIN conf.out[r] : t = <<r, i>>
  BY <1>3 DEF TasksOf
<1>10. n_sent' = [n_sent EXCEPT ![<<r, i>>] = @ + 1]
  BY <1>6, <1>9
<1> HIDE DEF kind
<1>11. Sent(r)' = Sent(r) + Results(<<r, i>>)[n_sent[<<r, i>>] + 1]
  BY <1>1, <1>3, <1>10, SentOneMore
<1>12. Sent(r)' = Sent(r) + len
  BY <1>9, <1>11
<1> HIDE DEF len, n
<1>13. Account(r)'
  <2>1. Account(r) /\ (Unbroken(r)' => Unbroken(r))
    BY <1>1, <1>3, BrokenStays DEF AccountInv
  <2>2. Total(r)' = Total(r) /\ TasksOf(r)' = TasksOf(r) /\ Sent(r) \in Nat
    BY <1>1, <1>3, SentTyped DEF Total, TasksOf
  <2>3. UNCHANGED <<waiting_task_ids, id_tasks, cancelled, pc, out, held, n_pings>>
    BY <1>6 DEF readerVars, requestVars
  <2>4. pc[r] \notin Fresh
    BY <1>1, <1>3 DEF TasksInv
  <2>5. t \in waiting_task_ids => Queued(r, queue_results)' = Queued(r, queue_results) + len
    BY <1>1, <1>5, <1>6, <1>7, SaidQueued
  <2>6. Queued(r, queue_results) \in Nat
    BY <1>1, QueuedTyped DEF TypedServer
  <2>7. out[r] \in Nat /\ held[r] \in Nat /\ n_pings[r] \in Nat
    BY <1>1, <1>3 DEF TypedRequests
  <2> HIDE DEF Sent, Total, Queued, Unbroken
  <2>8. ASSUME Unbroken(r), pc[r] \in Taking
        PROVE  out[r] + held[r] + Queued(r, queue_results)' = Sent(r)' + n_pings[r]
    <3>1. t \in waiting_task_ids /\ out[r] + held[r] + Queued(r, queue_results) = Sent(r) + n_pings[r]
      BY <1>3, <2>1, <2>8 DEF Account
    <3> QED
      BY <1>5, <1>12, <2>2, <2>5, <2>6, <2>7, <3>1
  <2> QED
    BY <1>1, <2>1, <2>2, <2>3, <2>4, <2>8 DEF Account
<1> QED
  BY <1>5, <1>6, <1>7, <1>8, <1>13, AccountSays

LEMMA AccountFail ==
    ASSUME StreamInv, SentInv, AccountInv, [Next]_vars, NEW t \in Tasks, Fail(t)
    PROVE  AccountInv'
<1> PICK r : r = t[1]
  OBVIOUS
<1>1. Typed /\ TypedServer /\ TasksInv /\ UNCHANGED conf
  BY SameConf DEF StreamInv, Typed
<1>2. /\ gen[t] = "queued" /\ Say(t, "error", 1) /\ gen' = [gen EXCEPT ![t] = "failed"]
      /\ UNCHANGED <<waiting_task_ids, n_sent, readerVars, requestVars>>
  BY DEF Fail
<1>3. r \in conf.asked /\ t \in TasksOf(r)
  BY <1>1, <1>2 DEF TasksInv, Tasks
<1>4. Account(r)'
  <2>1. Account(r) /\ TasksOf(r)' = TasksOf(r)
    BY <1>1, <1>3 DEF AccountInv, TasksOf
  <2>2. UNCHANGED <<id_tasks, pc, out, held, n_pings>>
    BY <1>2 DEF readerVars, requestVars
  <2>3. ~Unbroken(r)'
    <3>1. gen'[t] = "failed"
      BY <1>1, <1>2 DEF TypedServer
    <3> QED
      BY <1>3, <2>1, <3>1 DEF Unbroken
  <2> HIDE DEF Unbroken
  <2> QED
    BY <1>1, <2>1, <2>2, <2>3 DEF Account
<1>5. "error" \in {"partial", "final", "error"} /\ 1 \in Nat
  OBVIOUS
<1>6. \A u \in Tasks \ {t} : n_sent'[u] = n_sent[u]
  BY <1>2
<1> QED
  BY <1>2, <1>4, <1>5, <1>6, AccountSays

LEMMA AccountKept ==
    ASSUME StreamInv, QueueInv, CountInv, SentInv, WaitedInv, AccountInv, [Next]_vars
    PROVE  AccountInv'
<1>1. ASSUME NEW r \in Requests, Request(r) PROVE AccountInv'
  <2>1. r \in Threads
    BY DEF Threads
  <2> QED
    BY <1>1, <2>1, AccountOwn, AccountRemoval, AccountRegister, AccountPost, AccountFirst, AccountNext,
       AccountRelease DEF Request
<1>2. ASSUME NEW t \in Tasks, Loop(t) \/ Fail(t) PROVE AccountInv'
  BY <1>2, AccountGenerate, AccountCancel, AccountFail DEF Loop
<1>3. ASSUME NEW r \in Requests, Arrive(r) \/ Leave(r) PROVE AccountInv'
  BY <1>3, AccountOwn
<1>4. ASSUME NEW x \in {"DELETE", "gc", "main"}, FinishRemoval(x) PROVE AccountInv'
  <2>1. x \in Threads
    BY DEF Threads, Others
  <2> QED
    BY <1>4, <2>1, AccountRemoval
<1>5. ASSUME (\E c \in Conversations : Delete(c)) \/ (\E cs \in SUBSET Conversations : Expire(cs))
      PROVE  AccountInv'
  BY <1>5, AccountSame DEF Delete, Expire, requestVars
<1>6. ASSUME NEW g \in Readers, Open(g) \/ Quit(g) \/ Reader(g) PROVE AccountInv'
  BY <1>6, AccountSame DEF Open, Quit, Reader, CheckOffset, ReadBytes, ReadEnd, requestVars
<1>7. ASSUME Terminate \/ StopStreams \/ StopServer \/ JoinWorkers \/ UNCHANGED vars PROVE AccountInv'
  BY <1>7, AccountSame DEF Terminate, StopStreams, StopServer, JoinWorkers, vars, requestVars
<1> QED
  BY <1>1, <1>2, <1>3, <1>4, <1>5, <1>6, <1>7 DEF Next, Main

(* A stream that nobody stopped, and no task of which failed, has put out   *)
(* every result of every task and the closing [DONE] by the time its        *)
(* request is gone, whenever its client went away and however the results   *)
(* of its tasks and of other requests were interleaved in the response      *)
(* queue (set_next, the drain of on_complete, recv_with_timeout).           *)
THEOREM StreamsDrained == Spec => []DrainedWhole
<1>1. ASSUME Init PROVE QueueInv /\ CountInv /\ SentInv /\ WaitedInv /\ AccountInv
  <2>1. /\ DOMAIN queue_results = {} /\ queue_results \in Seq(ResultType) /\ waiting_task_ids = {}
        /\ \A r \in Requests : /\ received_count[r] = 0 /\ cancelled[r] = FALSE /\ pc[r] = "idle"
                               /\ out[r] = 0 /\ held[r] = 0 /\ n_pings[r] = 0
        /\ \A t \in Tasks : gen[t] = "none" /\ n_sent[t] = 0
    BY <1>1 DEF Init
  <2>2. \A r \in Requests : Counted(r, {})
    BY <2>1, FS_EmptySet DEF Counted
  <2>3. Typed
    BY <1>1, StreamInit DEF StreamInv
  <2>4. SentInv
    <3> SUFFICES ASSUME NEW r \in conf.asked, NEW t \in TasksOf(r)
                 PROVE  n_sent[t] <= Len(Results(t)) /\ (gen[t] = "ended" => n_sent[t] = Len(Results(t)))
      BY DEF SentInv
    <3>1. t \in Tasks /\ Results(t) \in Seq(Nat)
      BY <2>3, TasksTyped DEF Typed
    <3>2. n_sent[t] = 0 /\ gen[t] # "ended" /\ Len(Results(t)) \in Nat
      BY <2>1, <3>1
    <3> QED
      BY <3>2
  <2>5. AccountInv
    <3> SUFFICES ASSUME NEW r \in conf.asked PROVE Account(r)
      BY DEF AccountInv
    <3>1. r \in Requests /\ \A t \in TasksOf(r) : t \in Tasks
      BY <2>3, TasksTyped DEF Typed
    <3>2. Queued(r, queue_results) = 0
      BY <2>1, QueuedNone
    <3>3. Sent(r) = 0
      BY <2>1, <2>3, <2>4, <3>1, SentNone
    <3> HIDE DEF Sent, Queued, Total, Unbroken
    <3> QED
      BY <2>1, <3>1, <3>2, <3>3 DEF Account, Taking, Ending, Fresh
  <2>6. WaitedInv /\ QueueInv /\ CountInv
    BY <2>1, <2>2 DEF WaitedInv, QueueInv, CountInv, ResultsOwned
  <2> QED
    BY <2>4, <2>5, <2>6
<1>2. ASSUME StreamInv, AccountInv PROVE DrainedWhole
  <2> SUFFICES ASSUME NEW r \in Requests, pc[r] = "gone", HasSpipe(r), out[r] > 0, ~is_cancelled[r],
                      \A t \in TasksOf(r) : gen[t] # "failed"
               PROVE  out[r] = Total(r) + 1 + n_pings[r]
    BY DEF DrainedWhole
  <2>1. r \in conf.asked
    BY <1>2 DEF StreamInv, TasksInv
  <2>2. is_cancelled[r] = FALSE
    BY <1>2 DEF StreamInv, Typed, TypedSessions
  <2>3. Account(r)
    BY <1>2, <2>1 DEF AccountInv
  <2>4. conf.stream[r] = TRUE
    BY <2>3 DEF Account
  <2>5. Unbroken(r)
    BY <2>2, <2>4 DEF Unbroken
  <2> HIDE DEF Total, Unbroken, Queued, Sent
  <2> QED
    BY <2>3, <2>5 DEF Account, Ending
<1> QED
  BY <1>1, <1>2, CountKept, SentKept, WaitedKept, AccountKept, StreamInvariant, PTL DEF Spec

=============================================================================
