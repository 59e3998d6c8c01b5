--------------------------- MODULE ResponseStream ---------------------------
(* How results reach the clients of one llama-server: the response queue    *)
(* and its readers, the HTTP worker that streams a completion, and the      *)
(* resumable streams that keep what it streams for clients that come back.  *)
(*                                                                          *)
(* Grain: one action per critical section, except that cancel and finalize  *)
(* of a session taken out of the map are one step (a reader could tell them *)
(* apart by one more wait of 200 ms), and so are the sections of            *)
(* server_response_reader::stop.  Every wait here is timed and polls.       *)
(*                                                                          *)
(* A byte is its number in the output of its request, so that the buffer    *)
(* shows which bytes a reader is given.  What a generation sends is given   *)
(* by a configuration; the loop is modelled as ServerQueue and SlotBatch    *)
(* describe it: it sends a task's results in order and the last one is      *)
(* final, or an error, and cancels tasks when told.                         *)
EXTENDS Integers, FiniteSets, Sequences, SequencesExt, Filters

CONSTANTS
    Requests,           \* POST requests for a completion
    Readers,            \* GET requests for a conversation's stream
    Conversations,
    NoConversation, NoRequest,
    MaxTasks,           \* how many tasks a request may have: choices or prompts
    Confs               \* the scenarios to check (ConfType)

(* Who else takes sessions out of the map: a DELETE, the collector, main.   *)
Others  == {"DELETE", "gc", "main"}
Threads == Requests \cup Others

(* asked, readers: the requests that come.  conv: the X-Conversation-Id.    *)
(* out: the lengths of the results of each task.  rconv, from: what a GET   *)
(* asks for.  cap: the size of a session's buffer.                          *)
ConfType == [asked : SUBSET Requests,
             conv : [Requests -> Conversations \cup {NoConversation}],
             stream : [Requests -> BOOLEAN], out : [Requests -> Seq(Seq(Nat))],
             readers : SUBSET Readers, rconv : [Readers -> Conversations],
             from : [Readers -> Nat], cap : Nat \ {0},
             pings : Nat, rejects : BOOLEAN, errors : BOOLEAN, leaves : BOOLEAN, deletes : BOOLEAN,
             expires : BOOLEAN, stops : BOOLEAN]

ASSUME ResponseStreamAssumption ==
    /\ Requests \cap Others = {} /\ NoRequest \notin Threads
    /\ NoConversation \notin Conversations
    /\ Confs \subseteq ConfType
    /\ MaxTasks \in Nat
    /\ \A c \in Confs : \A r \in c.asked :
          Len(c.out[r]) \in 1 .. MaxTasks /\ <<>> \notin ToSet(c.out[r])

VARIABLES
    conf,
    waiting_task_ids, queue_results,                    \* server_response
    gen, n_sent, cancels,                               \* the tasks in the loop
    id_tasks, received_count, cancelled,                \* the reader of a request
    pc, peer, held, detached, out, n_pings,             \* the request; held: the first chunk's length
    sessions, removed,
    buffer, prefix_dropped, done, is_cancelled,         \* the session a request made
    rpc, rpeer, source, got, lost,                      \* the GETs
    main

responseVars == <<waiting_task_ids, queue_results>>
loopVars     == <<gen, n_sent, cancels>>
readerVars   == <<id_tasks, received_count, cancelled>>
requestVars  == <<pc, peer, held, detached, out, n_pings>>
mapVars      == <<sessions, removed>>
sessionVars  == <<buffer, prefix_dropped, done, is_cancelled>>
getVars      == <<rpc, rpeer, source, got, lost>>
serverVars   == <<responseVars, loopVars, readerVars>>
clientVars   == <<peer, held, detached, out, n_pings>>
streamVars   == <<mapVars, sessionVars>>
vars == <<conf, serverVars, requestVars, streamVars, getVars, main>>

Tasks  == Requests \X (1 .. MaxTasks)
TasksOf(r)  == {<<r, i>> : i \in DOMAIN conf.out[r]}
Results(t)  == conf.out[t[1]][t[2]]
HasSpipe(r) == conf.conv[r] # NoConversation

Nothing == [ss |-> {}, cancel |-> FALSE]

Init ==
    /\ conf \in Confs
    /\ waiting_task_ids = {} /\ queue_results = <<>>
    /\ gen = [t \in Tasks |-> "none"] /\ n_sent = [t \in Tasks |-> 0] /\ cancels = {}
    /\ id_tasks = [r \in Requests |-> {}]
    /\ received_count = [r \in Requests |-> 0] /\ cancelled = [r \in Requests |-> FALSE]
    /\ pc = [r \in Requests |-> "idle"] /\ peer = [r \in Requests |-> TRUE]
    /\ held = [r \in Requests |-> 0] /\ detached = [r \in Requests |-> FALSE]
    /\ out = [r \in Requests |-> 0] /\ n_pings = [r \in Requests |-> 0]
    /\ sessions = [c \in Conversations |-> NoRequest]
    /\ removed = [x \in Threads |-> Nothing]
    /\ buffer = [r \in Requests |-> <<>>] /\ prefix_dropped = [r \in Requests |-> 0]
    /\ done = [r \in Requests |-> FALSE] /\ is_cancelled = [r \in Requests |-> FALSE]
    /\ rpc = [g \in Readers |-> "idle"] /\ rpeer = [g \in Readers |-> TRUE]
    /\ source = [g \in Readers |-> NoRequest] /\ got = [g \in Readers |-> <<>>]
    /\ lost = [g \in Readers |-> FALSE]
    /\ main = "running"

----------------------------------------------------------------------------
(* The response queue.                                                      *)

(* send: results nobody waits for are dropped.                              *)
Send(q, waiting, result) == IF result.id \in waiting THEN Append(q, result) ELSE q

(* recv_with_timeout: where the first result for request r is, if any.      *)
NextResult(r) ==
    {k \in DOMAIN queue_results :
        /\ queue_results[k].id \in id_tasks[r]
        /\ \A j \in 1 .. k - 1 : queue_results[j].id \notin id_tasks[r]}

(* Fault: one result more is expected.                                      *)
HasNextOneMore(r) == ~cancelled[r] /\ received_count[r] <= Cardinality(id_tasks[r])

HasNext(r) == ~cancelled[r] /\ received_count[r] < Cardinality(id_tasks[r])

(* Fault: the results already queued stay behind.                           *)
PurgeNothing(q, ids) == q

Purge(q, ids) == Keep(q, {x \in ToSet(q) : x.id \notin ids})

(* server_response_reader::stop, on the queue `q`.                          *)
StopReader(r, q) ==
    /\ waiting_task_ids' = waiting_task_ids \ id_tasks[r]
    /\ IF HasNext(r)
       THEN /\ cancelled' = [cancelled EXCEPT ![r] = TRUE]
            /\ queue_results' = Purge(q, id_tasks[r])
            /\ cancels' = cancels \cup id_tasks[r]
       ELSE queue_results' = q /\ UNCHANGED <<cancelled, cancels>>

----------------------------------------------------------------------------
(* Sessions.                                                                *)

(* Fault: a chunk larger than the buffer forgets what it pushed out.        *)
AppendedUncounted(b, d, chunk) ==
    LET cap == conf.cap
        n   == Len(b) + Len(chunk) - cap
    IN  IF Len(chunk) >= cap
        THEN [buffer |-> SubSeq(chunk, Len(chunk) - cap + 1, Len(chunk)), dropped |-> d + Len(chunk) - cap]
        ELSE [buffer |-> IF n > 0 THEN SubSeq(b, n + 1, Len(b)) \o chunk ELSE b \o chunk,
              dropped |-> IF n > 0 THEN d + n ELSE d]

(* The last cap bytes are kept, and how many were dropped.                  *)
Appended(b, d, chunk) ==
    LET cap == conf.cap
        n   == Len(b) + Len(chunk) - cap
    IN  IF Len(chunk) >= cap
        THEN [buffer |-> SubSeq(chunk, Len(chunk) - cap + 1, Len(chunk)),
              dropped |-> d + Len(b) + Len(chunk) - cap]
        ELSE [buffer |-> IF n > 0 THEN SubSeq(b, n + 1, Len(b)) \o chunk ELSE b \o chunk,
              dropped |-> IF n > 0 THEN d + n ELSE d]

LogicalEnd(s) == prefix_dropped[s] + Len(buffer[s])

(* stream_session::append, of the next n bytes request r puts out.          *)
Write(r, n) ==
    LET a == Appended(buffer[r], prefix_dropped[r], [i \in 1 .. n |-> out[r] + i - 1])
    IN  IF ~HasSpipe(r) \/ n = 0 \/ done[r] THEN UNCHANGED <<buffer, prefix_dropped>>
        ELSE /\ buffer' = [buffer EXCEPT ![r] = a.buffer]
             /\ prefix_dropped' = [prefix_dropped EXCEPT ![r] = a.dropped]

(* Fault: a replaced session is told to stop, its readers are not.          *)
FinalizedUnlessCancelled(x) == IF removed[x].cancel THEN {} ELSE removed[x].ss

Finalized(x) == removed[x].ss

(* Outside the map's lock, thread x cancels and finalizes what it removed;  *)
(* a request then goes on with what it was doing.                           *)
FinishRemoval(x) ==
    /\ removed[x].ss # {}
    /\ is_cancelled' = [s \in Requests |-> is_cancelled[s] \/ (removed[x].cancel /\ s \in removed[x].ss)]
    /\ done' = [s \in Requests |-> done[s] \/ s \in Finalized(x)]
    /\ removed' = [removed EXCEPT ![x] = Nothing]
    /\ pc' = IF x \in Others THEN pc
             ELSE [pc EXCEPT ![x] = IF @ = "replacing" THEN "posting" ELSE "releasing"]
    /\ UNCHANGED <<conf, serverVars, clientVars, sessions, buffer, prefix_dropped, getVars, main>>

(* Thread x takes the sessions ss of the conversations cs out of the map.   *)
TakeOut(x, cs, cancel) ==
    /\ removed' = [removed EXCEPT ![x] =
                      [ss |-> {sessions[c] : c \in cs} \ {NoRequest}, cancel |-> cancel]]
    /\ sessions' = [c \in Conversations |-> IF c \in cs THEN NoRequest ELSE sessions[c]]

(* DELETE: evict_and_cancel.                                                *)
Delete(c) ==
    /\ conf.deletes /\ removed["DELETE"] = Nothing /\ sessions[c] # NoRequest
    /\ TakeOut("DELETE", {c}, TRUE)
    /\ UNCHANGED <<conf, serverVars, requestVars, sessionVars, getVars, main>>

(* gc_loop, once some finished sessions have lived their time.              *)
Expire(cs) ==
    /\ conf.expires /\ main \in {"running", "returned"} /\ removed["gc"] = Nothing
    /\ cs # {} /\ \A c \in cs : sessions[c] # NoRequest /\ done[sessions[c]]
    /\ TakeOut("gc", cs, FALSE)
    /\ UNCHANGED <<conf, serverVars, requestVars, sessionVars, getVars, main>>

----------------------------------------------------------------------------
(* A completion request.                                                    *)

Goto(r, l) == pc' = [pc EXCEPT ![r] = l]

(* Fault: the request does not keep going for the sake of its stream.       *)
ShouldStopWithPeer(r) == ~peer[r] \/ is_cancelled[r]

(* server_res_spipe::should_stop: a request with a stream does not mind     *)
(* losing its client.                                                       *)
ShouldStop(r) == IF HasSpipe(r) THEN is_cancelled[r] ELSE ~peer[r]

(* The client goes away; only where the request looks is shown.             *)
Leave(r) ==
    /\ conf.leaves /\ peer[r] /\ pc[r] \in {"first", "streaming", "receiving"} /\ ~detached[r]
    /\ peer' = [peer EXCEPT ![r] = FALSE]
    /\ UNCHANGED <<conf, serverVars, pc, held, detached, out, n_pings, streamVars, getVars, main>>

(* create_or_replace, up to the map's lock being released.                  *)
Replace(r, c) ==
    /\ sessions' = [sessions EXCEPT ![c] = r]
    /\ IF sessions[c] = NoRequest
       THEN Goto(r, "posting") /\ UNCHANGED removed
       ELSE /\ Goto(r, "replacing")
            /\ removed' = [removed EXCEPT ![r] = [ss |-> {sessions[c]}, cancel |-> TRUE]]

(* handle_completions_impl begins: set_req.                                 *)
Arrive(r) ==
    /\ r \in conf.asked /\ pc[r] = "idle" /\ main \in {"running", "returned", "cleaned"}
    /\ IF HasSpipe(r) THEN Replace(r, conf.conv[r]) ELSE Goto(r, "posting") /\ UNCHANGED mapVars
    /\ UNCHANGED <<conf, serverVars, clientVars, sessionVars, getVars, main>>

(* The request is refused: its parameters are not valid.                    *)
Reject(r) ==
    /\ conf.rejects /\ pc[r] = "posting"
    /\ Goto(r, "completing")
    /\ UNCHANGED <<conf, serverVars, clientVars, streamVars, getVars, main>>

(* post_tasks: the results are waited for,                                  *)
Register(r) ==
    /\ pc[r] = "posting"
    /\ id_tasks' = [id_tasks EXCEPT ![r] = TasksOf(r)]
    /\ waiting_task_ids' = waiting_task_ids \cup TasksOf(r)
    /\ Goto(r, "registered")
    /\ UNCHANGED <<conf, queue_results, loopVars, received_count, cancelled, clientVars,
                   streamVars, getVars, main>>

(* and then the tasks are posted.                                           *)
PostTasks(r) ==
    /\ pc[r] = "registered"
    /\ gen' = [t \in Tasks |-> IF t \in id_tasks[r] THEN "queued" ELSE gen[t]]
    /\ Goto(r, "first")
    /\ UNCHANGED <<conf, responseVars, n_sent, cancels, readerVars, clientVars, streamVars,
                   getVars, main>>

(* next: request r takes the k-th result; an error makes its reader stop.   *)
TakeResult(r, k) ==
    LET kind == queue_results[k].kind
        q    == RemoveAt(queue_results, k)
    IN  IF kind = "error"
        THEN StopReader(r, q) /\ UNCHANGED received_count
        ELSE /\ queue_results' = q
             /\ received_count' = [received_count EXCEPT ![r] = @ + IF kind = "final" THEN 1 ELSE 0]
             /\ UNCHANGED <<waiting_task_ids, cancelled, cancels>>

AllFinal(r) == received_count'[r] = Cardinality(id_tasks[r])

(* The first result of a streamed request is held back: an error becomes a  *)
(* plain answer.  A request that is not streamed waits for all results.     *)
TakeFirst(r) ==
    /\ pc[r] = "first"
    /\ \E k \in NextResult(r) :
          LET result == queue_results[k]
          IN  /\ TakeResult(r, k)
              /\ \/ /\ result.kind # "error" /\ conf.stream[r]
                    /\ held' = [held EXCEPT ![r] = result.len] /\ Goto(r, "streaming")
                 \/ /\ result.kind = "error" \/ ~conf.stream[r]
                    /\ IF result.kind = "error" \/ AllFinal(r)
                       THEN Goto(r, "completing") ELSE UNCHANGED pc
                    /\ UNCHANGED held
    /\ UNCHANGED <<conf, gen, n_sent, id_tasks, peer, detached, out, n_pings, streamVars,
                   getVars, main>>

(* Nothing came for a while, and the client has gone.                       *)
GiveUp(r) ==
    /\ pc[r] = "first" /\ ~peer[r]
    /\ Goto(r, "completing")
    /\ UNCHANGED <<conf, serverVars, clientVars, streamVars, getVars, main>>

(* next, set by set_next: n bytes are given to the stream, then to the      *)
(* client; `more` is what next returns.                                     *)
Yield(r, n, more) ==
    /\ Write(r, n)
    /\ out' = [out EXCEPT ![r] = @ + n]
    /\ Goto(r, IF more THEN "streaming" ELSE "releasing")

(* The handler sees that it should stop, at once or when a wait times out.  *)
SeeStop(r) ==
    /\ pc[r] \in {"streaming", "receiving"} /\ ShouldStop(r)
    /\ Goto(r, "releasing")
    /\ UNCHANGED <<conf, serverVars, clientVars, streamVars, getVars, main>>

FlushFirst(r) ==
    /\ pc[r] = "streaming" /\ ~ShouldStop(r) /\ held[r] > 0
    /\ Yield(r, held[r], TRUE)
    /\ held' = [held EXCEPT ![r] = 0]
    /\ UNCHANGED <<conf, serverVars, peer, detached, n_pings, mapVars, done, is_cancelled,
                   getVars, main>>

(* All results were received: data: [DONE].                                 *)
SayDone(r) ==
    /\ pc[r] = "streaming" /\ ~ShouldStop(r) /\ held[r] = 0 /\ ~HasNext(r)
    /\ Yield(r, 1, FALSE)
    /\ UNCHANGED <<conf, serverVars, peer, held, detached, n_pings, mapVars, done,
                   is_cancelled, getVars, main>>

AwaitNext(r) ==
    /\ pc[r] = "streaming" /\ ~ShouldStop(r) /\ held[r] = 0 /\ HasNext(r)
    /\ Goto(r, "receiving")
    /\ UNCHANGED <<conf, serverVars, clientVars, streamVars, getVars, main>>

TakeNext(r) ==
    /\ pc[r] = "receiving"
    /\ \E k \in NextResult(r) :
          /\ TakeResult(r, k)
          /\ Yield(r, queue_results[k].len, queue_results[k].kind # "error")
    /\ UNCHANGED <<conf, gen, n_sent, id_tasks, peer, held, detached, n_pings, mapVars, done,
                   is_cancelled, getVars, main>>

(* Nothing came for sse_ping_interval.                                      *)
Ping(r) ==
    /\ pc[r] = "receiving" /\ n_pings[r] < conf.pings
    /\ Yield(r, 1, TRUE)
    /\ n_pings' = [n_pings EXCEPT ![r] = @ + 1]
    /\ UNCHANGED <<conf, serverVars, peer, held, detached, mapVars, done, is_cancelled,
                   getVars, main>>

(* Fault: the tail is not drained.                                          *)
LoseClientAbandoned(r) ==
    /\ pc[r] = "streaming" /\ ~detached[r] /\ (~peer[r] \/ main = "stopped")
    /\ Goto(r, "releasing") /\ UNCHANGED detached
    /\ UNCHANGED <<conf, serverVars, peer, held, out, n_pings, streamVars, getVars, main>>

(* The HTTP server cannot write to the client, or is told to stop.  A       *)
(* request with a stream goes on without it: on_complete drains.            *)
LoseClient(r) ==
    /\ pc[r] = "streaming" /\ ~detached[r] /\ (~peer[r] \/ main = "stopped")
    /\ IF HasSpipe(r)
       THEN detached' = [detached EXCEPT ![r] = TRUE] /\ UNCHANGED pc
       ELSE Goto(r, "releasing") /\ UNCHANGED detached
    /\ UNCHANGED <<conf, serverVars, peer, held, out, n_pings, streamVars, getVars, main>>

(* on_complete of a request that never streamed: evict.                     *)
Complete(r) ==
    /\ pc[r] = "completing"
    /\ LET c == conf.conv[r]
       IN  IF HasSpipe(r) /\ sessions[c] # NoRequest
           THEN TakeOut(r, {c}, FALSE) /\ Goto(r, "evicting")
           ELSE Goto(r, "releasing") /\ UNCHANGED mapVars
    /\ UNCHANGED <<conf, serverVars, clientVars, sessionVars, getVars, main>>

(* The response is destroyed: first its reader stops,                       *)
Release(r) ==
    /\ pc[r] = "releasing"
    /\ StopReader(r, queue_results)
    /\ Goto(r, "released")
    /\ UNCHANGED <<conf, gen, n_sent, id_tasks, received_count, clientVars, streamVars,
                   getVars, main>>

(* Fault: the producer leaves its session as it is.                         *)
DestroyOnly(r) ==
    /\ pc[r] = "released"
    /\ Goto(r, "gone")
    /\ UNCHANGED <<conf, serverVars, clientVars, streamVars, getVars, main>>

(* and then the producer finalizes the session.                             *)
Destroy(r) ==
    /\ pc[r] = "released"
    /\ done' = [done EXCEPT ![r] = @ \/ HasSpipe(r)]
    /\ Goto(r, "gone")
    /\ UNCHANGED <<conf, serverVars, clientVars, mapVars, buffer, prefix_dropped, is_cancelled,
                   getVars, main>>

Request(r) ==
    \/ Reject(r) \/ Register(r) \/ PostTasks(r)
    \/ TakeFirst(r) \/ GiveUp(r) \/ SeeStop(r) \/ FlushFirst(r) \/ SayDone(r)
    \/ AwaitNext(r) \/ TakeNext(r) \/ Ping(r) \/ LoseClient(r)
    \/ Complete(r) \/ FinishRemoval(r) \/ Release(r) \/ Destroy(r)

----------------------------------------------------------------------------
(* The loop and its slots.                                                  *)

Looping == main = "running"

Say(t, kind, len) ==
    queue_results' = Send(queue_results, waiting_task_ids, [id |-> t, kind |-> kind, len |-> len])

(* The next result of a task.                                               *)
Generate(t) ==
    /\ Looping /\ gen[t] = "queued"
    /\ LET n == n_sent[t] + 1
       IN  /\ Say(t, IF n = Len(Results(t)) THEN "final" ELSE "partial", Results(t)[n])
           /\ n_sent' = [n_sent EXCEPT ![t] = n]
           /\ gen' = [gen EXCEPT ![t] = IF n = Len(Results(t)) THEN "ended" ELSE @]
    /\ UNCHANGED <<conf, waiting_task_ids, cancels, readerVars, requestVars, streamVars,
                   getVars, main>>

Fail(t) ==
    /\ Looping /\ conf.errors /\ gen[t] = "queued"
    /\ Say(t, "error", 1)
    /\ gen' = [gen EXCEPT ![t] = "failed"]
    /\ UNCHANGED <<conf, waiting_task_ids, n_sent, cancels, readerVars, requestVars,
                   streamVars, getVars, main>>

CancelTask(t) ==
    /\ Looping /\ t \in cancels
    /\ cancels' = cancels \ {t}
    /\ gen' = [gen EXCEPT ![t] = IF @ = "queued" THEN "cancelled" ELSE @]
    /\ UNCHANGED <<conf, responseVars, n_sent, readerVars, requestVars, streamVars, getVars,
                   main>>

Loop(t) == Generate(t) \/ CancelTask(t)

----------------------------------------------------------------------------
(* GET: a client comes back for the stream of a conversation.               *)

Open(g) ==
    /\ g \in conf.readers /\ rpc[g] = "idle" /\ main \in {"running", "returned", "cleaned"}
    /\ LET s == sessions[conf.rconv[g]]
       IN  /\ source' = [source EXCEPT ![g] = s]
           /\ rpc' = [rpc EXCEPT ![g] = IF s = NoRequest THEN "refused" ELSE "checking"]
    /\ UNCHANGED <<conf, serverVars, requestVars, streamVars, rpeer, got, lost, main>>

CheckOffset(g) ==
    /\ rpc[g] = "checking"
    /\ rpc' = [rpc EXCEPT ![g] =
                  IF conf.from[g] < prefix_dropped[source[g]] THEN "refused" ELSE "reading"]
    /\ UNCHANGED <<conf, serverVars, requestVars, streamVars, rpeer, source, got, lost, main>>

Offset(g) == conf.from[g] + Len(got[g])

Quit(g) ==
    /\ conf.leaves /\ rpc[g] = "reading" /\ rpeer[g]
    /\ rpeer' = [rpeer EXCEPT ![g] = FALSE]
    /\ UNCHANGED <<conf, serverVars, requestVars, streamVars, rpc, source, got, lost, main>>

(* What read_from finds at an offset.                                       *)
Found(s, offset) ==
    CASE offset < prefix_dropped[s] -> "lost"
      [] prefix_dropped[s] <= offset /\ offset < LogicalEnd(s) -> "bytes"
      [] offset >= LogicalEnd(s) /\ done[s] -> "done"
      [] offset >= LogicalEnd(s) /\ ~done[s] -> "wait"

(* read_from: all there is from the offset on.                              *)
ReadBytes(g) ==
    /\ rpc[g] = "reading" /\ rpeer[g]
    /\ LET s == source[g]
       IN  /\ Found(s, Offset(g)) = "bytes"
           /\ got' = [got EXCEPT ![g] =
                         @ \o SubSeq(buffer[s], Offset(g) - prefix_dropped[s] + 1, Len(buffer[s]))]
    /\ UNCHANGED <<conf, serverVars, requestVars, streamVars, rpc, rpeer, source, lost, main>>

(* The stream of the reader ends: no bytes came with this call.             *)
ReadEnd(g) ==
    /\ rpc[g] = "reading"
    /\ LET f == Found(source[g], Offset(g))
       IN  /\ ~rpeer[g] \/ f \in {"lost", "done"}
           /\ lost' = [lost EXCEPT ![g] = f = "lost"]
    /\ rpc' = [rpc EXCEPT ![g] = "ended"]
    /\ UNCHANGED <<conf, serverVars, requestVars, streamVars, rpeer, source, got, main>>

Reader(g) == CheckOffset(g) \/ ReadBytes(g) \/ ReadEnd(g)

----------------------------------------------------------------------------
(* main: the loop is left, clean_up stops the streams and the HTTP server,  *)
(* join waits for its workers.                                              *)

Terminate ==
    /\ conf.stops /\ main = "running"
    /\ main' = "returned"
    /\ UNCHANGED <<conf, serverVars, requestVars, streamVars, getVars>>

(* stop_gc, once the collector has joined.                                  *)
StopStreams ==
    /\ main = "returned" /\ removed["gc"] = Nothing
    /\ main' = "cleaned"
    /\ TakeOut("main", Conversations, FALSE)
    /\ UNCHANGED <<conf, serverVars, requestVars, sessionVars, getVars>>

StopServer ==
    /\ main = "cleaned" /\ removed["main"] = Nothing
    /\ main' = "stopped"
    /\ UNCHANGED <<conf, serverVars, requestVars, streamVars, getVars>>

JoinWorkers ==
    /\ main = "stopped"
    /\ \A r \in Requests : pc[r] \in {"idle", "gone"}
    /\ \A g \in Readers : rpc[g] \in {"idle", "refused", "ended"}
    /\ main' = "exited"
    /\ UNCHANGED <<conf, serverVars, requestVars, streamVars, getVars>>

Main == StopStreams \/ FinishRemoval("main") \/ StopServer \/ JoinWorkers

Next ==
    \/ \E r \in Requests : Arrive(r) \/ Leave(r) \/ Request(r)
    \/ \E t \in Tasks : Loop(t) \/ Fail(t)
    \/ \E c \in Conversations : Delete(c)
    \/ \E cs \in SUBSET Conversations : Expire(cs)
    \/ \E x \in {"DELETE", "gc"} : FinishRemoval(x)
    \/ \E g \in Readers : Open(g) \/ Quit(g) \/ Reader(g)
    \/ Terminate \/ Main

Spec == Init /\ [][Next]_vars

(* The loop, the HTTP workers and main go on; clients do as they please.    *)
FairSpec ==
    /\ Spec
    /\ \A r \in Requests : WF_vars(Request(r))
    /\ \A t \in Tasks : WF_vars(Loop(t))
    /\ \A x \in Others : WF_vars(FinishRemoval(x))
    /\ \A g \in Readers : WF_vars(Reader(g))
    /\ WF_vars(Main)

----------------------------------------------------------------------------
(* Properties.                                                              *)

PcStates == {"idle", "replacing", "posting", "registered", "first", "streaming", "receiving",
             "completing", "evicting", "releasing", "released", "gone"}

(* Every variable has its type; a buffer never exceeds its cap and done     *)
(* sessions were made by requests with a conversation.                      *)
TypeOK ==
    /\ conf \in Confs
    /\ waiting_task_ids \subseteq Tasks /\ cancels \subseteq Tasks
    /\ \A i \in DOMAIN queue_results :
          queue_results[i] \in [id : Tasks, kind : {"partial", "final", "error"}, len : Nat]
    /\ gen \in [Tasks -> {"none", "queued", "ended", "failed", "cancelled"}]
    /\ n_sent \in [Tasks -> Nat]
    /\ id_tasks \in [Requests -> SUBSET Tasks] /\ received_count \in [Requests -> Nat]
    /\ cancelled \in [Requests -> BOOLEAN]
    /\ pc \in [Requests -> PcStates] /\ peer \in [Requests -> BOOLEAN]
    /\ held \in [Requests -> Nat] /\ detached \in [Requests -> BOOLEAN]
    /\ out \in [Requests -> Nat] /\ n_pings \in [Requests -> Nat]
    /\ sessions \in [Conversations -> Requests \cup {NoRequest}]
    /\ removed \in [Threads -> [ss : SUBSET Requests, cancel : BOOLEAN]]
    /\ \A r \in Requests : Len(buffer[r]) <= conf.cap /\ prefix_dropped[r] \in Nat
    /\ done \in [Requests -> BOOLEAN] /\ is_cancelled \in [Requests -> BOOLEAN]
    /\ \A r \in Requests : done[r] => HasSpipe(r)
    /\ rpc \in [Readers -> {"idle", "refused", "checking", "reading", "ended"}]
    /\ rpeer \in [Readers -> BOOLEAN] /\ source \in [Readers -> Requests \cup {NoRequest}]
    /\ lost \in [Readers -> BOOLEAN]
    /\ main \in {"running", "returned", "cleaned", "stopped", "exited"}

(* A client that comes back with from=N is given the bytes N, N+1, ... of   *)
(* the output, none twice and none left out, whatever the buffer dropped    *)
(* and whenever it was filled (append, read_from, set_next's tee).          *)
ReplayExact ==
    \A g \in Readers : \A i \in DOMAIN got[g] : got[g][i] = conf.from[g] + i - 1

(* A reader whose client stays and that is not overtaken by the buffer is   *)
(* given everything before its stream ends (read_from, finalize).           *)
ReadsToEnd ==
    \A g \in Readers :
        rpc[g] = "ended" /\ rpeer[g] /\ ~lost[g] =>
            /\ done[source[g]]
            /\ Offset(g) >= LogicalEnd(source[g])

(* A reader is given exactly the output from its offset on, and all of it.  *)
ReadsExactly == ReplayExact /\ ReadsToEnd

(* README-dev: one conv maps to at most one live session.  A session that   *)
(* may still grow is the one its conversation leads to, or a thread that    *)
(* took it out of the map is about to finalize it.                          *)
OneLiveSession ==
    \A r \in Requests :
        HasSpipe(r) /\ pc[r] # "idle" /\ ~done[r] =>
            \/ sessions[conf.conv[r]] = r
            \/ \E x \in Threads : r \in removed[x].ss

(* The sessions are well-formed: within their cap, and never two of a       *)
(* conversation that may both grow.                                         *)
WellFormed == TypeOK /\ OneLiveSession

(* No result is left in the queue for a reader that has gone: it would stay *)
(* there for good (server_response_reader::stop, remove_waiting_task_ids).  *)
ResultsOwned ==
    \A i \in DOMAIN queue_results : queue_results[i].id \in waiting_task_ids

(* A generation is cancelled only if its stream was stopped or replaced, a  *)
(* task of the same request failed, or its client left and either it has no *)
(* stream or nothing was streamed yet: losing the client of a stream does   *)
(* not stop it (should_stop, on_complete).                                  *)
OnlyAskedToStop ==
    \A t \in cancels \cup {t \in Tasks : gen[t] = "cancelled"} :
        LET r == t[1]
        IN  \/ is_cancelled[r]
            \/ \E u \in TasksOf(r) : gen[u] = "failed"
            \/ ~peer[r] /\ (~HasSpipe(r) \/ (out[r] = 0 /\ held[r] = 0))
            \/ main # "running"

(* The bytes of all results of all tasks of a request.                      *)
Added(s) == FoldLeft(LAMBDA a, b : a + b, 0, s)
Total(r) == Added([i \in DOMAIN conf.out[r] |-> Added(conf.out[r][i])])

(* A stream that nobody stopped has put out the whole generation and the    *)
(* closing [DONE] by the time its request is gone, with its client or       *)
(* without (on_complete's drain).                                           *)
DrainedWhole ==
    \A r \in Requests :
        /\ pc[r] = "gone" /\ HasSpipe(r) /\ out[r] > 0 /\ ~is_cancelled[r]
        /\ \A t \in TasksOf(r) : gen[t] # "failed"
        => out[r] = Total(r) + 1 + n_pings[r]

(* While the server runs, every request that was posted ends, whatever its  *)
(* client, its siblings and the streams do.                                 *)
RequestEnds ==
    \A r \in Requests : pc[r] = "registered" /\ ~conf.stops ~> pc[r] = "gone"

(* README-dev: a GET blocks for live bytes until the stream is finalized:   *)
(* it always is.                                                            *)
ReaderEnds ==
    \A g \in Readers : rpc[g] = "reading" /\ ~conf.stops ~> rpc[g] = "ended"

(* README-dev: the conversation id lets a client reattach to a generation   *)
(* after an HTTP disconnect, and DELETE stops it: a request that streams    *)
(* and was not stopped is the one its conversation leads to.                *)
SessionFindable ==
    \A r \in Requests :
        pc[r] \in {"streaming", "receiving"} /\ HasSpipe(r) /\ ~is_cancelled[r] /\ main = "running" =>
            \/ sessions[conf.conv[r]] = r
            \/ \E x \in Threads : r \in removed[x].ss /\ removed[x].cancel

=============================================================================
