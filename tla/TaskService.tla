---------------------------- MODULE TaskService ----------------------------
(* What the task queue, the slots and the response queue of llama-server    *)
(* together promise the HTTP threads, whatever the threads and the deques   *)
(* behind them: a request is served from the queue at most once, generates  *)
(* in one of NSlots slots, is answered at most once and only while somebody *)
(* waits for it; a generation is broken off only when nobody does.          *)
(* ServerQueue implements this (ServerQueue!Implements).                    *)
EXTENDS Naturals, FiniteSets

CONSTANTS NSlots

VARIABLES
    next,       \* next id
    reserved,   \* ids drawn for requests that are being prepared
    waiting,    \* ids of the posted requests somebody waits for
    queued,     \* requests that are to be served
    generating, \* ids that occupy a slot
    answers     \* answers not yet received

vars == <<next, reserved, waiting, queued, generating, answers>>

Request(kind, i)    == [kind |-> kind, id |-> i]
AnswerOf(i, error) == {a \in {[id |-> i, error |-> error]} : i \in waiting}

Init ==
    /\ next = 0 /\ reserved = {} /\ waiting = {}
    /\ queued = {} /\ generating = {} /\ answers = {}

(* A thread draws an id nobody had before.                                  *)
Reserve ==
    /\ next' = next + 1
    /\ reserved' = reserved \cup {next}
    /\ UNCHANGED <<waiting, queued, generating, answers>>

Submit(kind, i) ==
    /\ i \in reserved
    /\ reserved' = reserved \ {i}
    /\ waiting' = waiting \cup {i}
    /\ queued' = queued \cup {Request(kind, i)}
    /\ UNCHANGED <<next, generating, answers>>

(* An inference request takes a slot.                                       *)
Start(i) ==
    /\ Request("INFER", i) \in queued /\ Cardinality(generating) < NSlots
    /\ queued' = queued \ {Request("INFER", i)}
    /\ generating' = generating \cup {i}
    /\ UNCHANGED <<next, reserved, waiting, answers>>

(* A request is answered without a slot: it only reads, or it is refused.   *)
AnswerQueued(kind, i) ==
    /\ Request(kind, i) \in queued
    /\ queued' = queued \ {Request(kind, i)}
    /\ answers' = answers \cup AnswerOf(i, kind = "INFER")
    /\ UNCHANGED <<next, reserved, waiting, generating>>

(* A generation ends, well or not, and leaves its slot.                     *)
Finish(i, error) ==
    /\ i \in generating
    /\ generating' = generating \ {i}
    /\ answers' = answers \cup AnswerOf(i, error)
    /\ UNCHANGED <<next, reserved, waiting, queued>>

(* The answer is received, or not waited for any longer.  A request that    *)
(* was just picked up is still served, to no end.                           *)
Leave(i) ==
    /\ i \in waiting
    /\ waiting' = waiting \ {i}
    /\ answers' = {a \in answers : a.id # i}
    /\ queued' \in {queued, {q \in queued : q.id # i}}
    /\ UNCHANGED <<next, reserved, generating>>

(* A generation nobody waits for is broken off.                             *)
BreakOff(i) ==
    /\ i \in generating /\ i \notin waiting
    /\ generating' = generating \ {i}
    /\ UNCHANGED <<next, reserved, waiting, queued, answers>>

(* A read-only request may be lost: the worker's callback threw.            *)
Lose(i) ==
    /\ Request("METRICS", i) \in queued
    /\ queued' = queued \ {Request("METRICS", i)}
    /\ UNCHANGED <<next, reserved, waiting, generating, answers>>

Next ==
    \/ Reserve
    \/ \E i \in reserved, kind \in {"INFER", "METRICS"} : Submit(kind, i)
    \/ \E q \in queued : Start(q.id) \/ AnswerQueued(q.kind, q.id) \/ Lose(q.id)
    \/ \E i \in generating : BreakOff(i) \/ \E error \in BOOLEAN : Finish(i, error)
    \/ \E i \in waiting : Leave(i)

Spec == Init /\ [][Next]_vars

=============================================================================
