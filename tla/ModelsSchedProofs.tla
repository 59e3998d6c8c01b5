------------------------- MODULE ModelsSchedProofs -------------------------
(* Proofs about ModelsSched, for every finite set of models, every set of   *)
(* requests and every router.                                               *)
EXTENDS ModelsSched, FiltersProofs, FiniteSetTheorems

(* What limits the running instances, and who they are.                     *)
Registry == conf \in Confs /\ status \in [Models -> Statuses] /\ CapacityKept

(* The configuration's limit is a number, the wanted models are models.     *)
LEMMA ConfTyped ==
    ASSUME conf \in Confs
    PROVE  conf.max \in Nat /\ \A r \in Requests : Wanted(r) \in Models
BY ModelsSchedAssumption DEF ConfType, Wanted

(* The running instances are finitely many.                                 *)
LEMMA RunningFinite ==
    ASSUME NEW s
    PROVE  IsFiniteSet(Running(s)) /\ Cardinality(Running(s)) \in Nat
BY ModelsSchedAssumption, FS_Subset, FS_CardinalityType DEF Running

(* A step that starts no instance keeps the limit.                          *)
LEMMA NoneStarted ==
    ASSUME CapacityKept, conf \in Confs, conf' = conf,
           Running(status') \subseteq Running(status)
    PROVE  CapacityKept'
<1>1. Cardinality(Running(status')) <= Cardinality(Running(status))
  BY RunningFinite, FS_Subset
<1>2. Running(status)' = Running(status')
  BY DEF Running, IsRunning
<1> QED
  BY <1>1, <1>2, RunningFinite, ConfTyped DEF CapacityKept

(* Neither does one that leaves the registry alone, or changes the state of *)
(* an instance that runs already.                                           *)
LEMMA StatusKept ==
    ASSUME Registry, conf' = conf, status' = status
    PROVE  Registry'
BY NoneStarted DEF Registry

LEMMA StatusOfRunning ==
    ASSUME Registry, conf' = conf, NEW m \in Models, IsRunning(status, m),
           NEW s \in Statuses, status' = [status EXCEPT ![m] = s]
    PROVE  Registry'
<1>1. Running(status') \subseteq Running(status)
  BY DEF Registry, Running, IsRunning
<1> QED
  BY <1>1, NoneStarted DEF Registry

(* Only the spawn of a load starts an instance, and it looks at the limit   *)
(* under the same lock.                                                     *)
LEMMA SpawnKeeps ==
    ASSUME Registry, NEW r \in Requests, Spawn(r)
    PROVE  Registry'
<1> DEFINE w == Wanted(r)
<1>1. w \in Models /\ conf.max \in Nat /\ conf' = conf
  BY ConfTyped DEF Registry, Spawn, LoadFrame
<1>2. status[w] = "UNLOADED" /\ status' = [status EXCEPT ![w] = "LOADING"] /\ HasCapacity
  BY DEF Spawn, LimitsExceeded
<1>3. status' \in [Models -> Statuses]
  BY <1>1, <1>2 DEF Registry, Statuses
<1>4. Running(status)' = Running(status) \cup {w} /\ w \notin Running(status)
  BY <1>1, <1>2 DEF Registry, Running, IsRunning
<1>5. Cardinality(Running(status)') = Cardinality(Running(status)) + 1
  BY <1>4, RunningFinite, FS_AddElement
<1>6. conf.max > 0 => Cardinality(Running(status)) + 1 <= conf.max
  BY <1>1, <1>2, RunningFinite DEF HasCapacity
<1> QED
  BY <1>1, <1>3, <1>5, <1>6 DEF Registry, CapacityKept

(* The steps of the requests.                                               *)
LEMMA RequestsKeep ==
    ASSUME Registry, NEW r \in Requests, Arrive(r) \/ Cancelled(r) \/ Progress(r)
    PROVE  Registry'
<1>1. CASE Arrive(r) \/ CheckStop(r) \/ LookAgain(r)
  BY <1>1, StatusKept DEF Arrive, CheckStop, LookAgain, LookFrame, instVars
<1>2. CASE Cancelled(r) \/ SeeFailed(r)
  BY <1>2, StatusKept DEF Cancelled, SeeFailed, GiveUp, JoinFrame
<1>3. CASE Enqueue(r) \/ JoinStopping(r) \/ StopWaiting(r) \/ Claim(r)
  BY <1>3, StatusKept DEF Enqueue, JoinStopping, StopWaiting, Claim, JoinFrame
<1>4. CASE SeeLoading(r)
  BY <1>4, StatusKept DEF SeeLoading, instVars
<1>5. CASE StartLoad(r) \/ Measured(r) \/ MakeRoom(r) \/ VictimGone(r) \/ LoadRefused(r)
  BY <1>5, StatusKept DEF StartLoad, Measured, MakeRoom, VictimGone, LoadRefused, LoadFrame, instVars
<1>6. CASE EvictVictim(r) \/ Unload(r)
  BY <1>6, StatusKept DEF EvictVictim, Unload, LoadFrame
<1>7. CASE Spawn(r)
  BY <1>7, SpawnKeeps
<1>8. CASE AfterLoad(r)
  BY <1>8, StatusKept DEF AfterLoad
<1>9. CASE StartProxy(r) \/ EndProxy(r)
  BY <1>9, StatusKept DEF StartProxy, EndProxy
<1> QED
  BY <1>1, <1>2, <1>3, <1>4, <1>5, <1>6, <1>7, <1>8, <1>9 DEF Progress

(* The steps of the children.                                               *)
LEMMA ChildrenKeep ==
    ASSUME Registry, NEW m \in Models,
           ChildReady(m) \/ ChildSleeps(m) \/ ChildWakes(m) \/ ChildExits(m)
    PROVE  Registry'
<1>1. CASE ChildReady(m)
  BY <1>1, StatusOfRunning DEF ChildReady, NewStatus, MonitorFrame, IsRunning, Statuses
<1>2. CASE ChildSleeps(m)
  BY <1>2, StatusOfRunning DEF ChildSleeps, NewStatus, MonitorFrame, IsRunning, Statuses
<1>3. CASE ChildWakes(m)
  BY <1>3, StatusOfRunning DEF ChildWakes, NewStatus, MonitorFrame, IsRunning, Statuses
<1>4. CASE ChildExits(m)
  BY <1>4, StatusOfRunning DEF ChildExits, NewStatus, MonitorFrame, Statuses
<1> QED
  BY <1>1, <1>2, <1>3, <1>4

LEMMA RegistryInitially == ASSUME Init PROVE Registry
<1>1. conf \in Confs /\ status \in [Models -> Statuses]
  BY DEF Init, Statuses
<1>2. Running(status) = {}
  BY DEF Init, Running, IsRunning
<1> QED
  BY <1>1, <1>2, ConfTyped, FS_EmptySet DEF Registry, CapacityKept

LEMMA RegistryKept == ASSUME Registry, [Next]_vars PROVE Registry'
<1>1. ASSUME NEW r \in Requests, Arrive(r) \/ Cancelled(r) \/ Progress(r) PROVE Registry'
  BY <1>1, RequestsKeep
<1>2. ASSUME NEW m \in Models, ChildReady(m) \/ ChildSleeps(m) \/ ChildWakes(m) \/ ChildExits(m)
      PROVE  Registry'
  BY <1>2, ChildrenKeep
<1>3. CASE MeasureReports \/ MeasureExits
  BY <1>3, StatusKept DEF MeasureReports, MeasureExits, MonitorFrame
<1>4. CASE UnloadAll \/ AllUnloaded
  BY <1>4, StatusKept DEF UnloadAll, AllUnloaded, CloseFrame
<1>5. CASE UNCHANGED vars
  BY <1>5, StatusKept DEF vars, instVars
<1> QED
  BY <1>1, <1>2, <1>3, <1>4, <1>5 DEF Next

----------------------------------------------------------------------------
(* The queue, the request counts and the evictions.                         *)

Entry == [model : Models, n_waiters : Nat \ {0}, loading : BOOLEAN]

(* The requests of Q for one model.                                         *)
Of(Q, m) == {r \in Q : Wanted(r) = m}

(* The queue q is right for the requests Q that wait in it: one entry for   *)
(* each model they want, with the number of those that want it.             *)
Tally(q, Q) ==
    /\ q \in Seq(Entry)
    /\ \A i, j \in DOMAIN q : q[i].model = q[j].model => i = j
    /\ \A m \in Models : IsFiniteSet(Of(Q, m))
    /\ \A r \in Q : \E i \in DOMAIN q : q[i].model = Wanted(r)
    /\ \A i \in DOMAIN q : q[i].n_waiters = Cardinality(Of(Q, q[i].model))

----------------------------------------------------------------------------
(* The operators on the queue.                                              *)

LEMMA EntryOf ==
    ASSUME NEW q \in Seq(Entry), NEW i \in DOMAIN q
    PROVE  /\ q[i] \in Entry /\ q[i].model \in Models /\ q[i].n_waiters \in Nat \ {0}
           /\ q[i].loading \in BOOLEAN /\ i \in 1 .. Len(q)
<1>1. q[i] \in Entry /\ i \in 1 .. Len(q)
  BY ElementOfSeq, LenProperties
<1> QED
  BY <1>1 DEF Entry

(* An entry with another number of waiters, or another flag.                *)
LEMMA EntryWith ==
    ASSUME NEW e \in Entry, NEW n \in Nat \ {0}, NEW b \in BOOLEAN
    PROVE  /\ [e EXCEPT !.n_waiters = n] \in Entry
           /\ [e EXCEPT !.n_waiters = n].model = e.model
           /\ [e EXCEPT !.n_waiters = n].n_waiters = n
           /\ [e EXCEPT !.loading = b] \in Entry
           /\ [e EXCEPT !.loading = b].model = e.model
           /\ [e EXCEPT !.loading = b].n_waiters = e.n_waiters
BY DEF Entry

LEMMA AtFound ==
    ASSUME NEW q \in Seq(Entry), NEW m, Find(q, m) # {}
    PROVE  At(q, m) \in DOMAIN q /\ q[At(q, m)].model = m
BY DEF Find, At

(* Adding or removing a request changes the count of its own model only.    *)
LEMMA OfOthers ==
    ASSUME NEW Q, NEW r, NEW m, Wanted(r) # m
    PROVE  Of(Q \cup {r}, m) = Of(Q, m) /\ Of(Q \ {r}, m) = Of(Q, m)
BY DEF Of

LEMMA OfAdded ==
    ASSUME NEW Q, NEW r, r \notin Q, IsFiniteSet(Of(Q, Wanted(r)))
    PROVE  /\ IsFiniteSet(Of(Q \cup {r}, Wanted(r)))
           /\ Cardinality(Of(Q \cup {r}, Wanted(r))) = Cardinality(Of(Q, Wanted(r))) + 1
<1>1. Of(Q \cup {r}, Wanted(r)) = Of(Q, Wanted(r)) \cup {r} /\ r \notin Of(Q, Wanted(r))
  BY DEF Of
<1> QED
  BY <1>1, FS_AddElement

LEMMA OfRemoved ==
    ASSUME NEW Q, NEW r \in Q, IsFiniteSet(Of(Q, Wanted(r)))
    PROVE  /\ IsFiniteSet(Of(Q \ {r}, Wanted(r)))
           /\ Cardinality(Of(Q \ {r}, Wanted(r))) = Cardinality(Of(Q, Wanted(r))) - 1
<1>1. Of(Q \ {r}, Wanted(r)) = Of(Q, Wanted(r)) \ {r} /\ r \in Of(Q, Wanted(r))
  BY DEF Of
<1> QED
  BY <1>1, FS_RemoveElement

(* join                                                                     *)
LEMMA JoinTally ==
    ASSUME conf \in Confs, NEW q, NEW Q, NEW r \in Requests, r \notin Q, Tally(q, Q)
    PROVE  Tally(Join(q, Wanted(r)), Q \cup {r})
<1> DEFINE w == Wanted(r)
           p == Join(q, w)
           R == Q \cup {r}
<1>1. w \in Models /\ q \in Seq(Entry)
  BY ConfTyped DEF Tally
<1>2. \A m \in Models : IsFiniteSet(Of(R, m))
  BY <1>1, OfOthers, OfAdded DEF Tally
<1>3. \A m \in Models : Cardinality(Of(R, m)) = IF m = w THEN Cardinality(Of(Q, m)) + 1
                                                 ELSE Cardinality(Of(Q, m))
  BY <1>1, OfOthers, OfAdded DEF Tally
<1>4. CASE Find(q, w) # {}
  <2> DEFINE k == At(q, w)
             d == [q[k] EXCEPT !.n_waiters = q[k].n_waiters + 1]
  <2>1. k \in DOMAIN q /\ q[k].model = w
    BY <1>1, <1>4, AtFound
  <2>2. p = [q EXCEPT ![k] = d]
    BY <1>4 DEF Join
  <2> HIDE DEF k
  <2>3. d \in Entry /\ d.model = q[k].model /\ d.n_waiters = q[k].n_waiters + 1
    <3>1. q[k].n_waiters + 1 \in Nat \ {0} /\ q[k] \in Entry
      BY <1>1, <2>1, EntryOf
    <3> QED
      BY <3>1, EntryWith, Zenon
  <2> HIDE DEF d, p
  <2>4. p \in Seq(Entry) /\ DOMAIN p = DOMAIN q
    BY <1>1, <2>1, <2>2, <2>3, ExceptSeq
  <2>5. \A i \in DOMAIN q : p[i].model = q[i].model
    BY <1>1, <2>1, <2>2, <2>3
  <2>6. \A i \in DOMAIN q : p[i].n_waiters = IF q[i].model = w THEN q[i].n_waiters + 1 ELSE q[i].n_waiters
    <3>1. p[k].n_waiters = q[k].n_waiters + 1 /\ \A i \in DOMAIN q : i # k => p[i] = q[i]
      BY <1>1, <2>1, <2>2, <2>3
    <3>2. \A i \in DOMAIN q : q[i].model = w <=> i = k
      BY <2>1 DEF Tally
    <3> QED
      BY <3>1, <3>2
  <2>7. \A i \in DOMAIN p : p[i].n_waiters = Cardinality(Of(R, p[i].model))
    <3> SUFFICES ASSUME NEW i \in DOMAIN q PROVE p[i].n_waiters = Cardinality(Of(R, q[i].model))
      BY <2>4, <2>5
    <3>1. q[i].model \in Models /\ q[i].n_waiters = Cardinality(Of(Q, q[i].model))
      BY <1>1, EntryOf DEF Tally
    <3> QED
      BY <1>3, <2>6, <3>1
  <2>8. \A x \in R : \E i \in DOMAIN p : p[i].model = Wanted(x)
    BY <2>1, <2>4, <2>5 DEF Tally
  <2>9. \A i, j \in DOMAIN p : p[i].model = p[j].model => i = j
    BY <2>4, <2>5 DEF Tally
  <2> QED
    BY <1>2, <2>4, <2>7, <2>8, <2>9 DEF Tally, p
<1>5. CASE Find(q, w) = {}
  <2> DEFINE e == [model |-> w, n_waiters |-> 1, loading |-> FALSE]
  <2>1. p = Append(q, e) /\ e \in Entry
    BY <1>1, <1>5 DEF Join, Entry
  <2>2. p \in Seq(Entry) /\ DOMAIN p = 1 .. (Len(q) + 1) /\ Len(q) \in Nat /\ DOMAIN q = 1 .. Len(q)
    BY <1>1, <2>1, AppendProperties, LenProperties
  <2>3. p[Len(q) + 1] = e /\ \A i \in DOMAIN q : p[i] = q[i]
    BY <1>1, <2>1, <2>2, AppendProperties
  <2>4. \A i \in DOMAIN q : q[i].model # w
    BY <1>5 DEF Find
  <2>5. Of(Q, w) = {}
    BY <2>4 DEF Tally, Of
  <2>6. Cardinality(Of(R, w)) = 1
    <3>1. Cardinality(Of(R, w)) = Cardinality(Of(Q, w)) + 1
      BY <1>1, <1>3
    <3>2. Cardinality(Of(Q, w)) = 0
      BY <2>5, FS_EmptySet
    <3> QED
      BY <3>1, <3>2
  <2>7. \A i \in DOMAIN p : i = Len(q) + 1 \/ i \in DOMAIN q
    BY <2>2
  <2>8. \A i \in DOMAIN p : p[i].n_waiters = Cardinality(Of(R, p[i].model))
    <3>1. ASSUME NEW i \in DOMAIN q PROVE p[i].n_waiters = Cardinality(Of(R, p[i].model))
      <4>1. q[i].model \in Models /\ q[i].n_waiters = Cardinality(Of(Q, q[i].model))
        BY <1>1, EntryOf DEF Tally
      <4> QED
        BY <1>3, <2>3, <2>4, <4>1
    <3>2. p[Len(q) + 1].n_waiters = 1 /\ p[Len(q) + 1].model = w
      BY <2>3
    <3> HIDE DEF p, e, w
    <3> QED
      BY <2>6, <2>7, <3>1, <3>2
  <2>9. \A x \in R : \E i \in DOMAIN p : p[i].model = Wanted(x)
    BY <2>2, <2>3 DEF Tally
  <2>10. \A i, j \in DOMAIN p : p[i].model = p[j].model => i = j
    BY <2>3, <2>4, <2>7 DEF Tally
  <2> QED
    BY <1>2, <2>2, <2>8, <2>9, <2>10 DEF Tally
<1> QED
  BY <1>4, <1>5

(* It leaves the head of the queue and its flag alone.                      *)
LEMMA JoinHead ==
    ASSUME NEW q \in Seq(Entry), NEW w \in Models, q # <<>>
    PROVE  /\ Join(q, w) # <<>> /\ Join(q, w)[1].model = q[1].model
           /\ Join(q, w)[1].loading = q[1].loading
<1> DEFINE p == Join(q, w)
<1>1. 1 \in DOMAIN q /\ q[1] \in Entry
  BY EmptySeq, LenProperties, EntryOf
<1>2. CASE Find(q, w) # {}
  <2> DEFINE k == At(q, w)
  <2>1. p = [q EXCEPT ![k] = [q[k] EXCEPT !.n_waiters = q[k].n_waiters + 1]]
    BY <1>2 DEF Join
  <2>2. DOMAIN p = DOMAIN q
    BY <2>1
  <2>3. p[1] = q[1] \/ p[1] = [q[1] EXCEPT !.n_waiters = q[1].n_waiters + 1]
    BY <1>1, <2>1
  <2>4. p # <<>>
    BY <1>1, <2>2
  <2> QED
    BY <1>1, <2>3, <2>4 DEF Entry
<1>3. CASE Find(q, w) = {}
  <2> DEFINE e == [model |-> w, n_waiters |-> 1, loading |-> FALSE]
  <2>1. p = Append(q, e) /\ e \in Entry
    BY <1>3 DEF Join, Entry
  <2>2. p[1] = q[1] /\ Len(p) = Len(q) + 1 /\ Len(q) \in Nat
    BY <1>1, <2>1, AppendProperties, LenProperties
  <2> QED
    BY <2>2, EmptySeq
<1> QED
  BY <1>2, <1>3

(* RemoveAt shifts the entries behind the removed one.                      *)
LEMMA Removed ==
    ASSUME NEW R, NEW q \in Seq(R), NEW k \in DOMAIN q
    PROVE  /\ RemoveAt(q, k) \in Seq(R) /\ Len(RemoveAt(q, k)) = Len(q) - 1
           /\ \A j \in 1 .. (Len(q) - 1) : RemoveAt(q, k)[j] = IF j < k THEN q[j] ELSE q[j + 1]
<1> DEFINE a == SubSeq(q, 1, k - 1)
           b == SubSeq(q, k + 1, Len(q))
<1>1. RemoveAt(q, k) = a \o b
  BY DEF RemoveAt
<1>2. Len(q) \in Nat /\ k \in 1 .. Len(q) /\ \A j \in 1 .. Len(q) : q[j] \in R
  BY LenProperties, ElementOfSeq
<1>3. a \in Seq(R) /\ Len(a) = k - 1 /\ \A j \in 1 .. (k - 1) : a[j] = q[j]
  BY <1>2, SubSeqProperties
<1>4. b \in Seq(R) /\ Len(b) = Len(q) - k /\ \A j \in 1 .. (Len(q) - k) : b[j] = q[j + k]
  <2>1. \A j \in (k + 1) .. Len(q) : q[j] \in R
    BY <1>2
  <2> QED
    BY <1>2, <2>1, SubSeqProperties
<1> HIDE DEF a, b
<1>5. a \o b \in Seq(R) /\ Len(a \o b) = Len(q) - 1
  BY <1>2, <1>3, <1>4, ConcatProperties
<1>6. ASSUME NEW j \in 1 .. (Len(q) - 1) PROVE (a \o b)[j] = IF j < k THEN q[j] ELSE q[j + 1]
  <2>1. (a \o b)[j] = IF j <= Len(a) THEN a[j] ELSE b[j - Len(a)]
    <3>1. j \in 1 .. (Len(a) + Len(b))
      BY <1>2, <1>3, <1>4
    <3> QED
      BY <1>3, <1>4, <3>1, ConcatProperties
  <2>2. CASE j < k
    BY <1>2, <1>3, <2>1, <2>2
  <2>3. CASE ~ (j < k)
    <3>1. j - (k - 1) \in 1 .. (Len(q) - k) /\ (j - (k - 1)) + k = j + 1
      BY <1>2, <2>3
    <3>2. b[j - (k - 1)] = q[j + 1]
      BY <1>4, <3>1
    <3> QED
      BY <1>2, <1>3, <2>1, <2>3, <3>2
  <2> QED
    BY <2>2, <2>3
<1> QED
  BY <1>1, <1>5, <1>6

(* leave                                                                    *)
LEMMA LeaveTally ==
    ASSUME conf \in Confs, NEW q, NEW Q \in SUBSET Requests, NEW r \in Q, Tally(q, Q)
    PROVE  Tally(Leave(q, Wanted(r)), Q \ {r})
<1> DEFINE w == Wanted(r)
           p == Leave(q, w)
           R == Q \ {r}
           k == At(q, w)
<1>1. w \in Models /\ q \in Seq(Entry)
  BY ConfTyped DEF Tally
<1>2. k \in DOMAIN q /\ q[k].model = w /\ Find(q, w) # {}
  <2>1. Find(q, w) # {}
    BY DEF Tally, Find
  <2> QED
    BY <1>1, <2>1, AtFound
<1>3. \A m \in Models : IsFiniteSet(Of(R, m))
  BY <1>1, OfOthers, OfRemoved DEF Tally
<1>4. \A m \in Models : Cardinality(Of(R, m)) = IF m = w THEN Cardinality(Of(Q, m)) - 1
                                                 ELSE Cardinality(Of(Q, m))
  BY <1>1, OfOthers, OfRemoved DEF Tally
<1>5. q[k].n_waiters = Cardinality(Of(Q, w)) /\ q[k].n_waiters \in Nat \ {0} /\ q[k] \in Entry
  BY <1>1, <1>2, EntryOf DEF Tally
<1>6. \A i \in DOMAIN q : q[i].model = w <=> i = k
  BY <1>2 DEF Tally
<1>7. CASE q[k].n_waiters = 1
  <2>1. p = RemoveAt(q, k)
    BY <1>2, <1>7 DEF Leave
  <2> HIDE DEF p, k
  <2>2. Len(q) \in Nat /\ DOMAIN q = 1 .. Len(q) /\ k \in 1 .. Len(q)
    BY <1>1, <1>2, LenProperties
  <2>3. p \in Seq(Entry) /\ DOMAIN p = 1 .. (Len(q) - 1)
    BY <1>1, <1>2, <2>1, Removed, LenProperties
  <2>4. \A j \in DOMAIN p : p[j] = IF j < k THEN q[j] ELSE q[j + 1]
    BY <1>1, <1>2, <2>1, <2>3, Removed
  <2> DEFINE old(j) == IF j < k THEN j ELSE j + 1
  <2>5. \A j \in DOMAIN p : old(j) \in DOMAIN q /\ old(j) # k /\ p[j] = q[old(j)]
    BY <2>2, <2>3, <2>4
  <2>6. \A i \in DOMAIN q : i # k => \E j \in DOMAIN p : p[j] = q[i]
    <3> SUFFICES ASSUME NEW i \in DOMAIN q, i # k PROVE \E j \in DOMAIN p : p[j] = q[i]
      OBVIOUS
    <3>1. CASE i < k
      <4>1. i \in DOMAIN p /\ p[i] = q[i]
        BY <2>2, <2>3, <2>4, <3>1
      <4> QED
        BY <4>1
    <3>2. CASE i > k
      <4>1. i - 1 \in DOMAIN p /\ p[i - 1] = q[i]
        BY <2>2, <2>3, <2>4, <3>2
      <4> QED
        BY <4>1
    <3> QED
      BY <2>2, <3>1, <3>2
  <2>7. Of(R, w) = {}
    <3>1. Cardinality(Of(R, w)) = 0 /\ IsFiniteSet(Of(R, w))
      <4>1. Cardinality(Of(R, w)) = Cardinality(Of(Q, w)) - 1 /\ IsFiniteSet(Of(R, w))
        BY <1>1, <1>3, <1>4
      <4>2. Cardinality(Of(Q, w)) = 1
        BY <1>5, <1>7
      <4> QED
        BY <4>1, <4>2
    <3> QED
      BY <3>1, FS_EmptySet
  <2>8. \A i, j \in DOMAIN p : p[i].model = p[j].model => i = j
    <3> SUFFICES ASSUME NEW i \in DOMAIN p, NEW j \in DOMAIN p, p[i].model = p[j].model PROVE i = j
      OBVIOUS
    <3>1. old(i) = old(j)
      BY <2>5 DEF Tally
    <3> QED
      BY <2>2, <2>3, <3>1
  <2>9. \A x \in R : \E j \in DOMAIN p : p[j].model = Wanted(x)
    <3> SUFFICES ASSUME NEW x \in R PROVE \E j \in DOMAIN p : p[j].model = Wanted(x)
      OBVIOUS
    <3>1. Wanted(x) # w
      BY <2>7 DEF Of
    <3>2. PICK i \in DOMAIN q : q[i].model = Wanted(x)
      BY DEF Tally
    <3> QED
      BY <1>2, <2>6, <3>1, <3>2
  <2>10. \A j \in DOMAIN p : p[j].n_waiters = Cardinality(Of(R, p[j].model))
    <3> SUFFICES ASSUME NEW j \in DOMAIN p PROVE p[j].n_waiters = Cardinality(Of(R, p[j].model))
      OBVIOUS
    <3>1. PICK i \in DOMAIN q : i # k /\ p[j] = q[i]
      BY <2>5
    <3>2. q[i].model \in Models /\ q[i].model # w /\ q[i].n_waiters = Cardinality(Of(Q, q[i].model))
      BY <1>1, <1>6, <3>1, EntryOf DEF Tally
    <3> QED
      BY <1>4, <3>1, <3>2
  <2> QED
    BY <1>3, <2>3, <2>8, <2>9, <2>10 DEF Tally, p
<1>8. CASE q[k].n_waiters # 1
  <2> DEFINE d == [q[k] EXCEPT !.n_waiters = q[k].n_waiters - 1]
  <2>1. p = [q EXCEPT ![k] = d]
    BY <1>2, <1>8 DEF Leave
  <2>2. d \in Entry /\ d.model = q[k].model /\ d.n_waiters = q[k].n_waiters - 1
    <3>1. q[k].n_waiters - 1 \in Nat \ {0}
      BY <1>5, <1>8
    <3> QED
      BY <1>5, <3>1, EntryWith, Zenon
  <2> HIDE DEF d, p, k
  <2>3. p \in Seq(Entry) /\ DOMAIN p = DOMAIN q
    BY <1>1, <1>2, <2>1, <2>2, ExceptSeq, LenProperties
  <2>4. p[k] = d /\ \A i \in DOMAIN q : i # k => p[i] = q[i]
    BY <1>1, <1>2, <2>1
  <2>5. \A i \in DOMAIN q : p[i].model = q[i].model
    BY <2>2, <2>4
  <2>6. \A i, j \in DOMAIN p : p[i].model = p[j].model => i = j
    BY <2>3, <2>5 DEF Tally
  <2>7. \A x \in R : \E i \in DOMAIN p : p[i].model = Wanted(x)
    BY <2>3, <2>5 DEF Tally
  <2>8. \A i \in DOMAIN p : p[i].n_waiters = Cardinality(Of(R, p[i].model))
    <3> SUFFICES ASSUME NEW i \in DOMAIN q PROVE p[i].n_waiters = Cardinality(Of(R, q[i].model))
      BY <2>3, <2>5
    <3>1. q[i].model \in Models /\ q[i].n_waiters = Cardinality(Of(Q, q[i].model))
      BY <1>1, EntryOf DEF Tally
    <3> QED
      BY <1>1, <1>2, <1>4, <1>5, <1>6, <2>2, <2>4, <3>1
  <2> QED
    BY <1>3, <2>3, <2>6, <2>7, <2>8 DEF Tally, p
<1> QED
  BY <1>7, <1>8

(* While somebody who waits for the head of the queue stays, it stays.      *)
LEMMA LeaveHead ==
    ASSUME conf \in Confs, NEW q, NEW Q \in SUBSET Requests, NEW r \in Q, Tally(q, Q),
           NEW x \in Q, x # r, q # <<>>, q[1].model = Wanted(x)
    PROVE  /\ Leave(q, Wanted(r)) # <<>> /\ Leave(q, Wanted(r))[1].model = q[1].model
           /\ Leave(q, Wanted(r))[1].loading = q[1].loading
<1> DEFINE w == Wanted(r)
           k == At(q, w)
           p == Leave(q, w)
<1>1. w \in Models /\ Wanted(x) \in Models /\ q \in Seq(Entry)
  BY ConfTyped DEF Tally
<1>2. 1 \in DOMAIN q /\ Len(q) \in Nat /\ DOMAIN q = 1 .. Len(q)
  BY <1>1, EmptySeq, LenProperties
<1>3. k \in DOMAIN q /\ q[k].model = w /\ Find(q, w) # {}
  <2>1. Find(q, w) # {}
    BY DEF Tally, Find
  <2> QED
    BY <1>1, <2>1, AtFound
<1>4. q[k] \in Entry
  BY <1>1, <1>3, EntryOf
<1>5. CASE q[k].n_waiters = 1
  <2>1. p = RemoveAt(q, k)
    BY <1>3, <1>5 DEF Leave
  <2>2. k # 1
    <3> SUFFICES ASSUME k = 1 PROVE FALSE
      OBVIOUS
    <3>1. Wanted(x) = w
      BY <1>3
    <3>2. Cardinality(Of(Q, w)) = 1 /\ IsFiniteSet(Of(Q, w))
      BY <1>1, <1>3, <1>5 DEF Tally
    <3>3. IsFiniteSet(Of(Q \ {r}, w)) /\ Cardinality(Of(Q \ {r}, w)) = 0
      BY <3>2, OfRemoved
    <3>4. x \in Of(Q \ {r}, w)
      BY <3>1 DEF Of
    <3> QED
      BY <3>3, <3>4, FS_EmptySet
  <2> HIDE DEF k, p
  <2>3. 1 \in 1 .. (Len(q) - 1) /\ 1 < k
    BY <1>2, <1>3, <2>2
  <2>4. p \in Seq(Entry) /\ Len(p) = Len(q) - 1 /\ p[1] = q[1]
    BY <1>1, <1>3, <2>1, <2>3, Removed
  <2>5. p # <<>>
    BY <1>2, <2>3, <2>4, EmptySeq
  <2> QED
    BY <2>4, <2>5 DEF p
<1>6. CASE q[k].n_waiters # 1
  <2> DEFINE d == [q[k] EXCEPT !.n_waiters = q[k].n_waiters - 1]
  <2>1. p = [q EXCEPT ![k] = d]
    BY <1>3, <1>6 DEF Leave
  <2>2. d.model = q[k].model /\ d.loading = q[k].loading
    BY <1>4 DEF Entry
  <2> HIDE DEF d, k, p
  <2>3. p[1] = q[1] \/ (k = 1 /\ p[1] = d)
    BY <1>2, <1>3, <2>1
  <2>4. p # <<>>
    BY <1>2, <2>1
  <2> QED
    BY <2>2, <2>3, <2>4 DEF p
<1> QED
  BY <1>5, <1>6

(* The flag of an entry is no matter to the count.                          *)
LEMMA FlagTally ==
    ASSUME NEW q, NEW Q, Tally(q, Q), NEW k \in DOMAIN q, NEW b \in BOOLEAN
    PROVE  Tally([q EXCEPT ![k].loading = b], Q)
<1> DEFINE d == [q[k] EXCEPT !.loading = b]
           p == [q EXCEPT ![k] = d]
<1>1. q \in Seq(Entry) /\ q[k] \in Entry
  BY EntryOf DEF Tally
<1>2. d \in Entry /\ d.model = q[k].model /\ d.n_waiters = q[k].n_waiters
  BY <1>1, EntryWith, 1 \in Nat \ {0}
<1>3. [q EXCEPT ![k].loading = b] = p
  OBVIOUS
<1> HIDE DEF d
<1>4. p \in Seq(Entry) /\ DOMAIN p = DOMAIN q
  BY <1>1, <1>2, ExceptSeq, LenProperties
<1>5. \A i \in DOMAIN q : p[i].model = q[i].model /\ p[i].n_waiters = q[i].n_waiters
  BY <1>2
<1> HIDE DEF p
<1>6. Tally(p, Q)
  BY <1>4, <1>5 DEF Tally
<1> QED
  BY <1>3, <1>6

----------------------------------------------------------------------------
(* The invariant of the queue: it is right for those who wait in it, and    *)
(* there is at most one request on its way from a claim to the end of the   *)
(* load, whose entry is at the head and flagged.                            *)

InLoading == InLoad \cup {"loaded", "notLoaded"}
Queued    == {r \in Requests : queued[r]}
Loaders   == {r \in Requests : conf.kind[r] = "USE" /\ pc[r] \in InLoading}

(* Where a request of each kind may be, and where one may be queued.        *)
AtKind(l, kind) ==
    /\ l \in {"checkStop", "enqueue", "wait", "loaded", "notLoaded"} => kind = "USE"
    /\ l \in InLoad => kind \in {"USE", "LOAD"}

Placed ==
    /\ pc \in [Requests -> RequestAt] /\ queued \in [Requests -> BOOLEAN]
    /\ \A r \in Requests : AtKind(pc[r], conf.kind[r])
    /\ \A r \in Queued : conf.kind[r] = "USE" /\ pc[r] \in {"wait"} \cup InLoading

LoaderAtHead ==
    /\ \A r \in Loaders :
          /\ queued[r] /\ queue # <<>>
          /\ queue[1].model = Wanted(r) /\ queue[1].loading
    /\ \A r, x \in Loaders : r = x

QueueInv == conf \in Confs /\ Tally(queue, Queued) /\ Placed /\ LoaderAtHead

LEMMA TallyNext ==
    ASSUME conf' = conf, NEW q, NEW Q, queue' = q, Queued' = Q, Tally(q, Q)
    PROVE  Tally(queue, Queued)'
BY DEF Tally, Of, Wanted

(* A step that changes nothing of this.                                     *)
LEMMA QueueFrame ==
    ASSUME QueueInv, UNCHANGED <<conf, pc, queued, queue>>
    PROVE  QueueInv'
<1>1. Queued' = Queued /\ Loaders' = Loaders
  BY DEF Queued, Loaders
<1>2. Tally(queue, Queued)'
  BY <1>1, TallyNext DEF QueueInv
<1> QED
  BY <1>1, <1>2 DEF QueueInv, Placed, LoaderAtHead, Wanted

(* A request that goes on and leaves the queue alone.                       *)
LEMMA QueueMove ==
    ASSUME QueueInv, NEW r \in Requests, NEW l \in RequestAt, UNCHANGED <<conf, queued, queue>>,
           pc' = [pc EXCEPT ![r] = l], AtKind(l, conf.kind[r]),
           queued[r] => l \in {"wait"} \cup InLoading,
           l \in InLoading => r \in Loaders \/ conf.kind[r] # "USE"
    PROVE  QueueInv'
<1>1. Queued' = Queued /\ Loaders' \subseteq Loaders
  BY DEF Queued, Loaders, QueueInv, Placed
<1>2. Tally(queue, Queued)'
  BY <1>1, TallyNext DEF QueueInv
<1>3. Placed'
  BY <1>1 DEF QueueInv, Placed, Queued
<1>4. LoaderAtHead'
  BY <1>1 DEF QueueInv, LoaderAtHead, Wanted
<1> QED
  BY <1>2, <1>3, <1>4 DEF QueueInv

(* A request joins.                                                         *)
LEMMA QueueJoin ==
    ASSUME QueueInv, NEW r \in Requests, pc[r] \in {"enqueue", "wait"}, ~queued[r], conf' = conf,
           pc' = [pc EXCEPT ![r] = "wait"], JoinAndTick(r)
    PROVE  QueueInv'
<1> DEFINE w == Wanted(r)
<1>1. w \in Models /\ queue \in Seq(Entry) /\ conf \in Confs
  BY ConfTyped DEF QueueInv, Tally
<1>2. queue' = Join(queue, w) /\ queued' = [queued EXCEPT ![r] = TRUE]
  BY DEF JoinAndTick
<1>3. Queued' = Queued \cup {r} /\ r \notin Queued
  BY <1>2 DEF Queued, QueueInv, Placed
<1>4. Tally(queue, Queued)'
  <2>1. Tally(Join(queue, w), Queued \cup {r})
    BY <1>1, <1>3, JoinTally DEF QueueInv
  <2> QED
    BY <1>2, <1>3, <2>1, TallyNext
<1>5. Loaders' = Loaders /\ r \notin Loaders
  BY DEF Loaders, InLoading, InLoad, QueueInv, Placed
<1>6. Placed'
  BY <1>2, <1>3 DEF QueueInv, Placed, Queued, RequestAt, AtKind, InLoad
<1>7. LoaderAtHead'
  BY <1>1, <1>2, <1>5, JoinHead DEF QueueInv, LoaderAtHead, Wanted, Placed, Loaders
<1> QED
  BY <1>4, <1>6, <1>7 DEF QueueInv

(* A request leaves, queued or not, and waits no more.                      *)
LEMMA QueueLeave ==
    ASSUME QueueInv, NEW r \in Requests, pc[r] = "wait", conf' = conf,
           NEW l \in {"proxy", "done"}, pc' = [pc EXCEPT ![r] = l], LeaveQueue(r)
    PROVE  QueueInv'
<1> DEFINE w == Wanted(r)
<1>1. conf \in Confs /\ Queued \in SUBSET Requests
  BY DEF QueueInv, Queued
<1>2. queued' = [queued EXCEPT ![r] = FALSE] /\ queue' = IF r \in Queued THEN Leave(queue, w) ELSE queue
  BY DEF LeaveQueue, Queued
<1>3. Queued' = Queued \ {r}
  BY <1>2 DEF Queued, QueueInv, Placed
<1>4. Tally(queue, Queued)'
  <2>1. CASE r \in Queued
    <3>1. Tally(Leave(queue, w), Queued \ {r})
      BY <1>1, <2>1, LeaveTally DEF QueueInv
    <3> QED
      BY <1>2, <1>3, <2>1, <3>1, TallyNext
  <2>2. CASE r \notin Queued
    <3>1. Queued \ {r} = Queued
      BY <2>2
    <3> QED
      BY <1>2, <1>3, <2>2, <3>1, TallyNext DEF QueueInv
  <2> QED
    BY <2>1, <2>2
<1>5. Loaders' = Loaders /\ r \notin Loaders
  BY DEF Loaders, InLoading, InLoad, QueueInv, Placed
<1>6. Placed'
  BY <1>2, <1>3 DEF QueueInv, Placed, Queued, RequestAt, AtKind, InLoad
<1>7. LoaderAtHead'
  <2>1. ASSUME NEW x \in Loaders
        PROVE  queued'[x] /\ queue' # <<>> /\ queue'[1].model = Wanted(x) /\ queue'[1].loading
    <3>1. x \in Queued /\ queue # <<>> /\ queue[1].model = Wanted(x) /\ queue[1].loading /\ x # r
      BY <1>5 DEF QueueInv, LoaderAtHead, Queued, Loaders
    <3>2. queued'[x]
      BY <1>2, <3>1 DEF Queued, QueueInv, Placed
    <3>3. CASE r \in Queued
      BY <1>1, <1>2, <3>1, <3>2, <3>3, LeaveHead DEF QueueInv
    <3>4. CASE r \notin Queued
      BY <1>2, <3>1, <3>2, <3>4
    <3> QED
      BY <3>3, <3>4
  <2> QED
    BY <1>5, <2>1 DEF QueueInv, LoaderAtHead, Wanted
<1> QED
  BY <1>4, <1>6, <1>7 DEF QueueInv

(* A claim: nobody else is loading, for the head is not flagged.            *)
LEMMA QueueClaim ==
    ASSUME QueueInv, NEW r \in Requests, Claim(r)
    PROVE  QueueInv'
<1> DEFINE w == Wanted(r)
           k == At(queue, w)
<1>1. w \in Models /\ queue \in Seq(Entry) /\ conf \in Confs /\ conf' = conf
  BY ConfTyped DEF QueueInv, Tally, Claim, JoinFrame
<1>2. /\ queue # <<>> /\ queue[1].model = w /\ ~queue[1].loading
      /\ pc[r] = "wait" /\ queued[r] /\ queued' = queued /\ pc' = [pc EXCEPT ![r] = "load"]
      /\ queue' = [queue EXCEPT ![k].loading = TRUE]
  BY <1>1, HeadTailProperties DEF Claim, Claimable, Waiting, Goto
<1>3. 1 \in DOMAIN queue
  BY <1>1, <1>2, EmptySeq, LenProperties
<1>4. k = 1
  <2>1. Find(queue, w) # {}
    BY <1>2, <1>3 DEF Find
  <2> QED
    BY <1>1, <1>2, <1>3, <2>1, AtFound DEF QueueInv, Tally
<1>5. queue'[1].model = w /\ queue'[1].loading = TRUE /\ queue' # <<>>
  <2>1. queue[1] \in Entry /\ queue'[1] = [queue[1] EXCEPT !.loading = TRUE] /\ DOMAIN queue' = DOMAIN queue
    BY <1>1, <1>2, <1>3, <1>4, EntryOf
  <2>2. queue' # <<>>
    BY <1>3, <2>1
  <2> QED
    BY <1>2, <2>1, <2>2 DEF Entry
<1>6. Loaders = {}
  BY <1>2 DEF QueueInv, LoaderAtHead
<1>7. Loaders' \subseteq {r}
  BY <1>1, <1>2, <1>6 DEF Loaders, QueueInv, Placed
<1>8. Queued' = Queued
  BY <1>2 DEF Queued
<1>9. Tally(queue, Queued)'
  <2>1. Tally([queue EXCEPT ![k].loading = TRUE], Queued)
    BY <1>3, <1>4, FlagTally DEF QueueInv
  <2> QED
    BY <1>1, <1>2, <1>8, <2>1, TallyNext
<1>10. Placed'
  <2>1. AtKind("load", conf.kind[r]) /\ "load" \in RequestAt \cap InLoading
    BY <1>2 DEF AtKind, RequestAt, InLoading, InLoad, QueueInv, Placed
  <2> QED
    BY <1>1, <1>2, <1>8, <2>1 DEF QueueInv, Placed, Queued
<1>11. LoaderAtHead'
  BY <1>1, <1>2, <1>5, <1>7 DEF LoaderAtHead, Wanted
<1> QED
  BY <1>1, <1>9, <1>10, <1>11 DEF QueueInv

(* The end of a load: the flag goes only if it failed.                      *)
LEMMA QueueAfterLoad ==
    ASSUME QueueInv, NEW r \in Requests, AfterLoad(r)
    PROVE  QueueInv'
<1> DEFINE w == Wanted(r)
           ok == pc[r] = "loaded"
<1>1. /\ pc[r] \in {"loaded", "notLoaded"} /\ pc' = [pc EXCEPT ![r] = "wait"]
      /\ conf' = conf /\ queued' = queued /\ queue' = ClaimDone(queue, w, ok)
  BY DEF AfterLoad, Goto
<1>2. w \in Models /\ queue \in Seq(Entry) /\ conf \in Confs
  BY ConfTyped DEF QueueInv, Tally
<1>3. Queued' = Queued
  BY <1>1 DEF Queued
<1>4. r \in Loaders /\ conf.kind[r] = "USE"
  BY <1>1 DEF QueueInv, Placed, AtKind, Loaders, InLoading
<1>5. Loaders' = {}
  BY <1>1, <1>4 DEF QueueInv, LoaderAtHead, Loaders, Placed, InLoading, InLoad
<1>6. Tally(queue, Queued)'
  <2>1. Tally(ClaimDone(queue, w, ok), Queued)
    <3>1. CASE ok \/ Find(queue, w) = {}
      BY <3>1 DEF ClaimDone, QueueInv
    <3>2. CASE ~(ok \/ Find(queue, w) = {})
      BY <1>2, <3>2, AtFound, FlagTally DEF ClaimDone, QueueInv
    <3> QED
      BY <3>1, <3>2
  <2> QED
    BY <1>1, <1>3, <2>1, TallyNext
<1>7. Placed'
  <2>1. AtKind("wait", conf.kind[r]) /\ "wait" \in RequestAt
    BY <1>4 DEF AtKind, RequestAt, InLoad
  <2> QED
    BY <1>1, <1>3, <2>1 DEF QueueInv, Placed, Queued
<1>8. LoaderAtHead'
  BY <1>5 DEF LoaderAtHead
<1> QED
  BY <1>1, <1>2, <1>6, <1>7, <1>8 DEF QueueInv

(* Where the steps of a request lead.                                       *)
LEMMA QueueSteps ==
    ASSUME QueueInv, NEW r \in Requests, Arrive(r) \/ Cancelled(r) \/ Progress(r)
    PROVE  QueueInv'
<1> USE DEF Goto
<1>0. conf.kind[r] \in {"USE", "LOAD", "UNLOAD", "NONE"} /\ AtKind(pc[r], conf.kind[r])
      /\ (queued[r] => pc[r] \in {"wait"} \cup InLoading)
      /\ pc[r] \in RequestAt
  BY ModelsSchedAssumption DEF QueueInv, ConfType, Placed, Queued
<1> DEFINE Moves(l) == pc' = [pc EXCEPT ![r] = l]
<1>1. CASE Arrive(r)
  <2>1. UNCHANGED <<conf, queued, queue>> /\ pc[r] = "idle"
    BY <1>1 DEF Arrive, LookFrame
  <2>2. \E l \in {"checkStop", "enqueue", "done", "load", "unload"} :
           /\ Moves(l)
           /\ l \in {"checkStop", "enqueue"} => conf.kind[r] = "USE"
           /\ l = "load" => conf.kind[r] = "LOAD"
    BY <1>0, <1>1 DEF Arrive
  <2> QED
    BY <1>0, <2>1, <2>2, QueueMove DEF AtKind, InLoad, InLoading, RequestAt
<1>2. CASE CheckStop(r) \/ LookAgain(r) \/ StartProxy(r) \/ EndProxy(r) \/ Unload(r)
  <2>1. UNCHANGED <<conf, queued, queue>> /\ pc[r] \notin {"wait"} \cup InLoading
    BY <1>2 DEF CheckStop, LookAgain, StartProxy, EndProxy, Unload, LookFrame, LoadFrame, InLoading, InLoad
  <2>2. \E l \in {"enqueue", "proxy", "count", "done", "proxying"} :
           Moves(l) /\ (l = "enqueue" => pc[r] = "checkStop")
    BY <1>2 DEF CheckStop, LookAgain, StartProxy, EndProxy, Unload
  <2> QED
    BY <1>0, <2>1, <2>2, QueueMove DEF AtKind, InLoad, InLoading, RequestAt
<1>3. CASE StartLoad(r) \/ Measured(r) \/ MakeRoom(r) \/ EvictVictim(r) \/ VictimGone(r)
  <2>1. UNCHANGED <<conf, queued, queue>> /\ pc[r] \in InLoad
    BY <1>3 DEF StartLoad, Measured, MakeRoom, EvictVictim, VictimGone, LoadFrame, InLoad
  <2>2. \E l \in InLoad : Moves(l)
    BY <1>3 DEF StartLoad, Measured, MakeRoom, EvictVictim, VictimGone, InLoad
  <2>3. r \in Loaders \/ conf.kind[r] # "USE"
    BY <2>1 DEF Loaders, InLoading
  <2> QED
    BY <1>0, <2>1, <2>2, <2>3, QueueMove DEF AtKind, InLoad, InLoading, RequestAt
<1>4. CASE LoadRefused(r) \/ Spawn(r)
  <2>1. UNCHANGED <<conf, queued, queue>> /\ pc[r] = "spawn"
    BY <1>4 DEF LoadRefused, Spawn, LoadFrame
  <2>2. \E l \in {"done", "loaded", "notLoaded"} :
           Moves(l) /\ (l = "done" <=> conf.kind[r] = "LOAD")
    <3>1. PICK ok \in BOOLEAN : LoadReturns(r, ok)
      BY <1>4 DEF LoadRefused, Spawn
    <3> QED
      BY <3>1 DEF LoadReturns
  <2>3. r \in Loaders \/ conf.kind[r] # "USE"
    BY <2>1 DEF Loaders, InLoading, InLoad
  <2>4. queued[r] => conf.kind[r] = "USE"
    BY DEF QueueInv, Placed, Queued
  <2>5. PICK l \in {"done", "loaded", "notLoaded"} : Moves(l) /\ (l = "done" <=> conf.kind[r] = "LOAD")
    BY <2>2
  <2>6. l \in RequestAt /\ l \notin InLoad /\ (l # "done" => l \in InLoading)
    BY DEF InLoad, InLoading, RequestAt
  <2>7. AtKind(l, conf.kind[r])
    BY <1>0, <2>1, <2>5 DEF AtKind, InLoad
  <2>8. queued[r] => l \in {"wait"} \cup InLoading
    BY <2>4, <2>5, <2>6
  <2> QED
    BY <2>1, <2>3, <2>5, <2>6, <2>7, <2>8, QueueMove
<1>5. CASE Enqueue(r)
  <2>1. conf' = conf /\ pc[r] = "enqueue" /\ Moves("wait") /\ ~queued[r]
    BY <1>0, <1>5 DEF Enqueue, JoinFrame, InLoading, InLoad
  <2>2. CASE JoinAndTick(r)
    BY <2>1, <2>2, QueueJoin
  <2>3. CASE UNCHANGED <<queue, queued>>
    <3>1. PICK l \in RequestAt : l = "wait"
      BY DEF RequestAt
    <3>2. AtKind(l, conf.kind[r]) /\ l \notin InLoading /\ pc' = [pc EXCEPT ![r] = l]
      BY <1>0, <2>1, <3>1 DEF AtKind, InLoading, InLoad
    <3>3. l \in InLoad => l \in InLoading
      BY DEF InLoading
    <3> QED
      BY <2>1, <2>3, <3>2, QueueMove
  <2> QED
    BY <1>5, <2>2, <2>3 DEF Enqueue
<1>6. CASE JoinStopping(r)
  <2>1. conf' = conf /\ pc[r] = "wait" /\ pc' = pc /\ ~queued[r] /\ JoinAndTick(r)
    BY <1>6 DEF JoinStopping, JoinFrame
  <2>2. Moves("wait")
    BY <2>1 DEF QueueInv, Placed
  <2> QED
    BY <2>1, <2>2, QueueJoin
<1>7. CASE SeeLoading(r)
  BY <1>7, QueueFrame DEF SeeLoading
<1>8. CASE StopWaiting(r) \/ SeeFailed(r) \/ Cancelled(r)
  <2>1. conf' = conf /\ pc[r] = "wait" /\ LeaveQueue(r)
    BY <1>8 DEF StopWaiting, SeeFailed, Cancelled, GiveUp, Waiting, JoinFrame
  <2>2. \E l \in {"proxy", "done"} : Moves(l)
    BY <1>8 DEF StopWaiting, SeeFailed, Cancelled, GiveUp
  <2> QED
    BY <2>1, <2>2, QueueLeave
<1>9. CASE Claim(r)
  BY <1>9, QueueClaim
<1>10. CASE AfterLoad(r)
  BY <1>10, QueueAfterLoad
<1> QED
  BY <1>1, <1>2, <1>3, <1>4, <1>5, <1>6, <1>7, <1>8, <1>9, <1>10 DEF Progress

LEMMA QueueInitially == ASSUME Init PROVE QueueInv
<1>1. conf \in Confs /\ queue = <<>> /\ pc = [r \in Requests |-> "idle"] /\ Queued = {}
  BY DEF Init, Queued
<1>2. Placed
  BY <1>1 DEF Init, Placed, Queued, RequestAt, AtKind, InLoad
<1>3. Loaders = {}
  BY <1>1 DEF Loaders, InLoading, InLoad
<1>4. Tally(queue, Queued)
  <2>1. queue \in Seq(Entry) /\ DOMAIN queue = {}
    BY <1>1
  <2>2. \A m \in Models : Of(Queued, m) = {}
    BY <1>1 DEF Of
  <2> QED
    BY <1>1, <2>1, <2>2, FS_EmptySet DEF Tally
<1> QED
  BY <1>1, <1>2, <1>3, <1>4 DEF QueueInv, LoaderAtHead

LEMMA QueueKept == ASSUME QueueInv, [Next]_vars PROVE QueueInv'
<1>1. ASSUME NEW r \in Requests, Arrive(r) \/ Cancelled(r) \/ Progress(r) PROVE QueueInv'
  BY <1>1, QueueSteps
<1>2. ASSUME NEW m \in Models, ChildReady(m) \/ ChildSleeps(m) \/ ChildWakes(m) \/ ChildExits(m)
      PROVE  QueueInv'
  BY <1>2, QueueFrame DEF ChildReady, ChildSleeps, ChildWakes, ChildExits, MonitorFrame, reqVars
<1>3. CASE MeasureReports \/ MeasureExits
  BY <1>3, QueueFrame DEF MeasureReports, MeasureExits, MonitorFrame, reqVars
<1>4. CASE UnloadAll \/ AllUnloaded
  BY <1>4, QueueFrame DEF UnloadAll, AllUnloaded, CloseFrame, reqVars
<1>5. CASE UNCHANGED vars
  BY <1>5, QueueFrame DEF vars, reqVars
<1> QED
  BY <1>1, <1>2, <1>3, <1>4, <1>5 DEF Next

(* The queue of the scheduler holds one entry per model that requests wait  *)
(* for, with their number, whichever way they left it; join and leave       *)
(* (server-models-sched.cpp) are called from many HTTP threads.             *)
THEOREM QueueCorrect == Spec => []QueueExact
<1>1. QueueInv => QueueExact
  <2> SUFFICES ASSUME QueueInv, NEW m \in Models
               PROVE  LET n == Cardinality(Of(Queued, m))
                      IN  IF n = 0 THEN Find(queue, m) = {}
                          ELSE Cardinality(Find(queue, m)) = 1 /\ queue[At(queue, m)].n_waiters = n
    <3>1. \A k \in Models : {r \in Requests : queued[r] /\ Wanted(r) = k} = Of(Queued, k)
      BY DEF Of, Queued
    <3> QED
      BY <3>1 DEF QueueExact
  <2>1. IsFiniteSet(Of(Queued, m)) /\ queue \in Seq(Entry)
    BY DEF QueueInv, Tally
  <2>2. CASE Of(Queued, m) = {}
    <3>1. Find(queue, m) = {}
      <4> SUFFICES ASSUME NEW i \in DOMAIN queue, queue[i].model = m PROVE FALSE
        BY DEF Find
      <4>1. queue[i].n_waiters = Cardinality(Of(Queued, m)) /\ queue[i].n_waiters # 0
        BY <2>1, EntryOf DEF QueueInv, Tally
      <4> QED
        BY <2>2, <4>1, FS_EmptySet
    <3> QED
      BY <2>2, <3>1, FS_EmptySet
  <2>3. CASE Of(Queued, m) # {}
    <3>1. Cardinality(Of(Queued, m)) # 0
      BY <2>1, <2>3, FS_EmptySet
    <3>2. Find(queue, m) # {}
      BY <2>3 DEF QueueInv, Tally, Of, Find
    <3>3. At(queue, m) \in DOMAIN queue /\ queue[At(queue, m)].model = m
      BY <2>1, <3>2, AtFound
    <3>4. Find(queue, m) = {At(queue, m)}
      BY <3>3 DEF QueueInv, Tally, Find
    <3>5. queue[At(queue, m)].n_waiters = Cardinality(Of(Queued, m))
      BY <3>3 DEF QueueInv, Tally
    <3> QED
      BY <3>1, <3>4, <3>5, FS_Singleton
  <2> QED
    BY <2>2, <2>3
<1> QED
  BY <1>1, QueueInitially, QueueKept, PTL DEF Spec

(* Of the requests that wait, one at a time loads: no two waiters of a      *)
(* model claim its entry, nor are two loads for waiters under way at once.  *)
THEOREM OneLoads == Spec => []OneLoader
<1>1. QueueInv => OneLoader
  BY DEF QueueInv, LoaderAtHead, Loaders, OneLoader, InLoading
<1> QED
  BY <1>1, QueueInitially, QueueKept, PTL DEF Spec

----------------------------------------------------------------------------
(* The request counts.  An instance that is down works on no request; the   *)
(* count of one that no request outlived is exact.                          *)

CountOf(m) ==
    /\ IsFiniteSet(Proxied(m))
    /\ req_count[m] <= Cardinality(Proxied(m))
    /\ Outlived(m) = {} => req_count[m] = Cardinality(Proxied(m))
    /\ IsRunning(status, m) \/ Live(m) = {}

CountInv == req_count \in [Models -> Nat] /\ \A m \in Models : CountOf(m)

(* A step that changes neither counts nor what is proxied, and stops no     *)
(* instance.                                                                *)
LEMMA CountFrame ==
    ASSUME CountInv, UNCHANGED <<conf, req_count, orphans>>,
           \A r \in Requests : pc'[r] = "proxying" <=> pc[r] = "proxying",
           \A m \in Models : IsRunning(status, m) => IsRunning(status', m)
    PROVE  CountInv'
<1>1. \A m \in Models : /\ Proxied(m)' = Proxied(m) /\ Outlived(m)' = Outlived(m) /\ Live(m)' = Live(m)
                        /\ IsRunning(status, m)' = IsRunning(status', m)
  BY DEF Proxied, Outlived, Live, Wanted, IsRunning
<1> QED
  BY <1>1 DEF CountInv, CountOf

LEMMA CountMove ==
    ASSUME CountInv, Placed, NEW r \in Requests, NEW l, pc' = [pc EXCEPT ![r] = l],
           pc[r] # "proxying", l # "proxying", UNCHANGED <<conf, status, req_count, orphans>>
    PROVE  CountInv'
<1>1. \A x \in Requests : pc'[x] = "proxying" <=> pc[x] = "proxying"
  BY DEF Placed
<1> QED
  BY <1>1, CountFrame

(* The models a request does not want see nothing of it.                    *)
LEMMA CountOther ==
    ASSUME CountInv, NEW m \in Models, conf' = conf, req_count'[m] = req_count[m],
           IsRunning(status, m) => IsRunning(status', m),
           Proxied(m)' = Proxied(m), Outlived(m)' = Outlived(m), Live(m)' = Live(m)
    PROVE  CountOf(m)'
<1>1. IsRunning(status, m)' = IsRunning(status', m)
  BY DEF IsRunning
<1> QED
  BY <1>1 DEF CountInv, CountOf

LEMMA CountStart ==
    ASSUME CountInv, QueueInv, NEW r \in Requests, StartProxy(r)
    PROVE  CountInv'
<1> DEFINE w == Wanted(r)
<1>1. /\ w \in Models /\ conf' = conf /\ status' = status /\ pc[r] = "count"
      /\ pc' = [pc EXCEPT ![r] = "proxying"]
      /\ req_count' = [req_count EXCEPT ![w] = req_count[w] + 1]
      /\ orphans' = orphans \cup {x \in {r} : ~IsRunning(status, w)}
  BY ConfTyped DEF StartProxy, QueueInv, Goto
<1>2. req_count' \in [Models -> Nat]
  BY <1>1 DEF CountInv
<1>3. \A x \in Requests : pc'[x] = IF x = r THEN "proxying" ELSE pc[x]
  BY <1>1 DEF QueueInv, Placed
<1>4. ASSUME NEW m \in Models, m # w PROVE CountOf(m)'
  <2>1. Proxied(m)' = Proxied(m)
    BY <1>1, <1>3, <1>4 DEF Proxied, Wanted
  <2>2. Outlived(m)' = Outlived(m)
    BY <1>1, <1>4 DEF Outlived, Wanted
  <2>3. Live(m)' = Live(m)
    BY <1>1, <1>4, <2>1 DEF Live, Proxied
  <2> QED
    BY <1>1, <1>4, <2>1, <2>2, <2>3, CountOther DEF CountInv
<1>5. CountOf(w)'
  <2>1. Proxied(w)' = Proxied(w) \cup {r} /\ r \notin Proxied(w)
    BY <1>1, <1>3 DEF Proxied, Wanted
  <2>2. IsFiniteSet(Proxied(w)') /\ Cardinality(Proxied(w)') = Cardinality(Proxied(w)) + 1
    BY <1>1, <2>1, FS_AddElement DEF CountInv, CountOf
  <2>3. Cardinality(Proxied(w)) \in Nat /\ req_count[w] \in Nat /\ req_count'[w] = req_count[w] + 1
    BY <1>1, FS_CardinalityType DEF CountInv, CountOf
  <2>4. Outlived(w)' = {} => Outlived(w) = {}
    BY <1>1 DEF Outlived, Wanted
  <2>5. IsRunning(status, w)' \/ Live(w)' = {}
    <3>1. CASE IsRunning(status, w)
      BY <1>1, <3>1 DEF IsRunning, Wanted
    <3>2. CASE ~IsRunning(status, w)
      <4>1. Live(w) = {} /\ orphans' = orphans \cup {r}
        BY <1>1, <3>2 DEF CountInv, CountOf
      <4>2. Live(w)' = Proxied(w)' \ orphans'
        BY DEF Live
      <4> QED
        BY <2>1, <4>1, <4>2 DEF Live
    <3> QED
      BY <3>1, <3>2
  <2>6. w' = w
    BY <1>1 DEF Wanted
  <2> QED
    BY <1>1, <2>2, <2>3, <2>4, <2>5, <2>6 DEF CountInv, CountOf
<1>6. \A m \in Models : CountOf(m)'
  BY <1>4, <1>5, <1>1 DEF Wanted
<1> QED
  BY <1>2, <1>6 DEF CountInv

LEMMA CountEnd ==
    ASSUME CountInv, QueueInv, NEW r \in Requests, EndProxy(r)
    PROVE  CountInv'
<1> DEFINE w == Wanted(r)
           n == IF req_count[w] > 0 THEN req_count[w] - 1 ELSE 0
<1>1. /\ w \in Models /\ conf' = conf /\ status' = status /\ pc[r] = "proxying"
      /\ pc' = [pc EXCEPT ![r] = "done"]
      /\ req_count' = [req_count EXCEPT ![w] = n] /\ orphans' = orphans
  BY ConfTyped DEF EndProxy, QueueInv, Goto
<1>2. req_count' \in [Models -> Nat]
  BY <1>1 DEF CountInv
<1>3. \A x \in Requests : pc'[x] = IF x = r THEN "done" ELSE pc[x]
  BY <1>1 DEF QueueInv, Placed
<1>4. ASSUME NEW m \in Models, m # w PROVE CountOf(m)'
  <2>1. Proxied(m)' = Proxied(m)
    BY <1>1, <1>3, <1>4 DEF Proxied, Wanted
  <2>2. Outlived(m)' = Outlived(m)
    BY <1>1 DEF Outlived, Wanted
  <2>3. Live(m)' = Live(m)
    BY <1>1, <2>1 DEF Live
  <2> QED
    BY <1>1, <1>4, <2>1, <2>2, <2>3, CountOther DEF CountInv
<1>5. CountOf(w)'
  <2>1. Proxied(w)' = Proxied(w) \ {r} /\ r \in Proxied(w)
    BY <1>1, <1>3 DEF Proxied, Wanted
  <2>2. /\ IsFiniteSet(Proxied(w)') /\ Cardinality(Proxied(w)') = Cardinality(Proxied(w)) - 1
        /\ Cardinality(Proxied(w)) # 0
    BY <1>1, <2>1, FS_RemoveElement, FS_EmptySet DEF CountInv, CountOf
  <2>3. Cardinality(Proxied(w)) \in Nat /\ req_count[w] \in Nat /\ req_count'[w] = n
    BY <1>1, FS_CardinalityType DEF CountInv, CountOf
  <2>4. Outlived(w)' = Outlived(w)
    BY <1>1 DEF Outlived, Wanted
  <2>5. IsRunning(status, w)' \/ Live(w)' = {}
    BY <1>1, <2>1 DEF Live, CountInv, CountOf, IsRunning, Wanted
  <2>6. w' = w
    BY <1>1 DEF Wanted
  <2> QED
    BY <1>1, <2>2, <2>3, <2>4, <2>5, <2>6 DEF CountInv, CountOf
<1>6. \A m \in Models : CountOf(m)'
  BY <1>4, <1>5, <1>1 DEF Wanted
<1> QED
  BY <1>2, <1>6 DEF CountInv

(* A new instance starts at zero, which is right unless requests outlived   *)
(* the one before.                                                          *)
LEMMA CountSpawn ==
    ASSUME CountInv, QueueInv, Registry, NEW r \in Requests, Spawn(r)
    PROVE  CountInv'
<1> DEFINE w == Wanted(r)
<1>1. /\ w \in Models /\ conf' = conf /\ status[w] = "UNLOADED" /\ pc[r] = "spawn"
      /\ status' = [status EXCEPT ![w] = "LOADING"]
      /\ req_count' = [req_count EXCEPT ![w] = 0] /\ orphans' = orphans
  BY ConfTyped DEF Spawn, QueueInv, LoadFrame
<1>2. req_count' \in [Models -> Nat]
  BY <1>1 DEF CountInv
<1>3. \A x \in Requests : pc'[x] = "proxying" <=> pc[x] = "proxying"
  BY <1>1 DEF QueueInv, Placed, Spawn, LoadReturns, Goto
<1>4. \A m \in Models : /\ Proxied(m)' = Proxied(m) /\ Outlived(m)' = Outlived(m) /\ Live(m)' = Live(m)
                        /\ IsRunning(status, m) => IsRunning(status', m)
  BY <1>1, <1>3 DEF Proxied, Outlived, Live, Wanted, IsRunning, Registry
<1>5. ASSUME NEW m \in Models, m # w PROVE CountOf(m)'
  BY <1>1, <1>4, <1>5, CountOther DEF CountInv
<1>6. CountOf(w)'
  <2>1. Live(w) = {} /\ IsFiniteSet(Proxied(w))
    BY <1>1 DEF CountInv, CountOf, IsRunning
  <2>2. Outlived(w) = {} => Proxied(w) = {}
    BY <2>1 DEF Live, Proxied, Outlived
  <2>3. req_count'[w] = 0 /\ Cardinality(Proxied(w)) \in Nat
    BY <1>1, <2>1, FS_CardinalityType DEF CountInv
  <2>4. w' = w
    BY <1>1 DEF Wanted
  <2> QED
    BY <1>1, <1>4, <2>1, <2>2, <2>3, <2>4, FS_EmptySet DEF CountOf
<1>7. \A m \in Models : CountOf(m)'
  BY <1>5, <1>6, <1>1 DEF Wanted
<1> QED
  BY <1>2, <1>7 DEF CountInv

(* Whoever is proxied to an instance that goes down outlives it.            *)
LEMMA CountExit ==
    ASSUME CountInv, Registry, NEW m \in Models, ChildExits(m)
    PROVE  CountInv'
<1>1. /\ UNCHANGED <<conf, pc, req_count>> /\ orphans' = orphans \cup Live(m)
      /\ status' = [status EXCEPT ![m] = "UNLOADED"]
  BY DEF ChildExits, MonitorFrame, reqVars, NewStatus
<1>2. \A k \in Models : Proxied(k)' = Proxied(k)
  BY <1>1 DEF Proxied, Wanted
<1>3. ASSUME NEW k \in Models, k # m PROVE CountOf(k)'
  <2>1. Outlived(k)' = Outlived(k) /\ Live(k)' = Live(k)
    BY <1>1, <1>2, <1>3 DEF Outlived, Live, Proxied, Wanted
  <2>2. IsRunning(status, k) => IsRunning(status', k)
    BY <1>1, <1>3 DEF IsRunning, Registry
  <2> QED
    BY <1>1, <1>2, <2>1, <2>2, CountOther
<1>4. CountOf(m)'
  <2>1. Outlived(m)' = {} => Outlived(m) = {}
    BY <1>1 DEF Outlived, Wanted
  <2>2. Live(m)' = {}
    BY <1>1, <1>2 DEF Live
  <2> QED
    BY <1>1, <1>2, <2>1, <2>2 DEF CountInv, CountOf
<1> QED
  BY <1>1, <1>3, <1>4 DEF CountInv

LEMMA CountSteps ==
    ASSUME CountInv, QueueInv, Registry, NEW r \in Requests, Arrive(r) \/ Cancelled(r) \/ Progress(r)
    PROVE  CountInv'
<1> USE DEF Goto
<1>0. Placed
  BY DEF QueueInv
<1> DEFINE Still == /\ UNCHANGED <<conf, status, req_count, orphans>> /\ pc[r] # "proxying"
                    /\ \E l \in RequestAt \ {"proxying"} : pc' = [pc EXCEPT ![r] = l]
<1>1. Still => CountInv'
  BY <1>0, CountMove
<1>2. CASE Arrive(r) \/ CheckStop(r) \/ LookAgain(r)
  <2>1. UNCHANGED <<conf, status, req_count, orphans>> /\ pc[r] # "proxying"
    BY <1>2 DEF Arrive, CheckStop, LookAgain, LookFrame, instVars
  <2>2. conf.kind[r] \in {"USE", "LOAD", "UNLOAD", "NONE"}
    BY ModelsSchedAssumption DEF QueueInv, ConfType
  <2>3. \E l \in {"checkStop", "enqueue", "done", "load", "unload", "proxy", "count"} : pc' = [pc EXCEPT ![r] = l]
    BY <1>2, <2>2 DEF Arrive, CheckStop, LookAgain
  <2> QED
    BY <1>1, <2>1, <2>3 DEF RequestAt
<1>3. CASE Enqueue(r) \/ StopWaiting(r) \/ SeeFailed(r) \/ Cancelled(r) \/ Claim(r) \/ AfterLoad(r)
  <2>1. UNCHANGED <<conf, status, req_count, orphans>> /\ pc[r] # "proxying"
    BY <1>3 DEF Enqueue, StopWaiting, SeeFailed, Cancelled, GiveUp, Waiting, Claim, AfterLoad, JoinFrame
  <2>2. \E l \in {"wait", "proxy", "done", "load"} : pc' = [pc EXCEPT ![r] = l]
    BY <1>3 DEF Enqueue, StopWaiting, SeeFailed, Cancelled, GiveUp, Claim, AfterLoad
  <2> QED
    BY <1>1, <2>1, <2>2 DEF RequestAt
<1>4. CASE JoinStopping(r) \/ SeeLoading(r)
  BY <1>4, CountFrame DEF JoinStopping, SeeLoading, JoinFrame, instVars
<1>5. CASE StartLoad(r) \/ Measured(r) \/ MakeRoom(r) \/ EvictVictim(r) \/ VictimGone(r) \/ Unload(r)
  <2>1. UNCHANGED <<conf, status, req_count, orphans>> /\ pc[r] # "proxying"
    BY <1>5 DEF StartLoad, Measured, MakeRoom, EvictVictim, VictimGone, Unload, LoadFrame, instVars
  <2>2. \E l \in InLoad \cup {"done"} : pc' = [pc EXCEPT ![r] = l]
    BY <1>5 DEF StartLoad, Measured, MakeRoom, EvictVictim, VictimGone, Unload, InLoad
  <2> QED
    BY <1>1, <2>1, <2>2 DEF RequestAt, InLoad
<1>6. CASE LoadRefused(r)
  <2>1. UNCHANGED <<conf, status, req_count, orphans>> /\ pc[r] # "proxying"
    BY <1>6 DEF LoadRefused, LoadFrame, instVars
  <2>2. \E l \in {"done", "loaded", "notLoaded"} : pc' = [pc EXCEPT ![r] = l]
    BY <1>6 DEF LoadRefused, LoadReturns
  <2> QED
    BY <1>1, <2>1, <2>2 DEF RequestAt
<1>7. CASE Spawn(r)
  BY <1>7, CountSpawn
<1>8. CASE StartProxy(r)
  BY <1>8, CountStart
<1>9. CASE EndProxy(r)
  BY <1>9, CountEnd
<1> QED
  BY <1>2, <1>3, <1>4, <1>5, <1>6, <1>7, <1>8, <1>9 DEF Progress

LEMMA CountInitially == ASSUME Init PROVE CountInv
<1>1. \A m \in Models : req_count[m] = 0 /\ Proxied(m) = {} /\ Live(m) = {}
  BY DEF Init, Proxied, Live
<1>2. req_count \in [Models -> Nat]
  BY DEF Init
<1> QED
  BY <1>1, <1>2, FS_EmptySet DEF CountInv, CountOf

LEMMA CountKept == ASSUME CountInv, QueueInv, Registry, [Next]_vars PROVE CountInv'
<1>1. ASSUME NEW r \in Requests, Arrive(r) \/ Cancelled(r) \/ Progress(r) PROVE CountInv'
  BY <1>1, CountSteps
<1>2. ASSUME NEW m \in Models, ChildReady(m) \/ ChildSleeps(m) \/ ChildWakes(m) PROVE CountInv'
  <2>1. /\ UNCHANGED <<conf, pc, req_count, orphans>>
        /\ \E s \in {"LOADED", "SLEEPING", "LOADING"} : status' = [status EXCEPT ![m] = s]
    BY <1>2 DEF ChildReady, ChildSleeps, ChildWakes, MonitorFrame, reqVars, NewStatus
  <2> QED
    BY <2>1, CountFrame DEF IsRunning, Registry
<1>3. ASSUME NEW m \in Models, ChildExits(m) PROVE CountInv'
  BY <1>3, CountExit
<1>4. CASE MeasureReports \/ MeasureExits
  BY <1>4, CountFrame DEF MeasureReports, MeasureExits, MonitorFrame, reqVars
<1>5. CASE UnloadAll \/ AllUnloaded
  BY <1>5, CountFrame DEF UnloadAll, AllUnloaded, CloseFrame, reqVars
<1>6. CASE UNCHANGED vars
  BY <1>6, CountFrame DEF vars, instVars, reqVars
<1> QED
  BY <1>1, <1>2, <1>3, <1>4, <1>5, <1>6 DEF Next

(* req_count never exceeds the requests being proxied to a model, and is    *)
(* their number unless a request outlived its instance (proxy_request and   *)
(* its cleanup, server-models.cpp).                                         *)
THEOREM CountCorrect == Spec => []CountExact
<1> DEFINE Inv == Registry /\ QueueInv /\ CountInv
<1>1. Init => Inv
  BY RegistryInitially, QueueInitially, CountInitially
<1>2. Inv /\ [Next]_vars => Inv'
  BY RegistryKept, QueueKept, CountKept
<1>3. Inv => CountExact
  BY DEF CountInv, CountOf, CountExact, Outlived
<1> QED
  BY <1>1, <1>2, <1>3, PTL DEF Spec

----------------------------------------------------------------------------
(* Evictions.  When waiters alone load and memory is not watched, a claim   *)
(* keeps its place until the spawn, so that make_room has nothing to do.    *)

RoomInv ==
    OnlyUses /\ ~MemoryEnabled =>
        \A r \in Requests : /\ pc[r] \notin {"evict", "gone"}
                            /\ pc[r] \in InLoad => HasCapacity

LEMMA CapacityStays ==
    ASSUME conf \in Confs, HasCapacity, conf' = conf, Running(status') \subseteq Running(status)
    PROVE  HasCapacity'
<1>1. Cardinality(Running(status')) <= Cardinality(Running(status))
  BY RunningFinite, FS_Subset
<1>2. Running(status)' = Running(status')
  BY DEF Running, IsRunning
<1> QED
  BY <1>1, <1>2, RunningFinite, ConfTyped DEF HasCapacity

LEMMA RoomFrame ==
    ASSUME RoomInv, conf \in Confs, conf' = conf, Running(status') \subseteq Running(status),
           \A r \in Requests : pc'[r] \in InLoad => pc[r] \in InLoad /\ pc'[r] \notin {"evict", "gone"}
    PROVE  RoomInv'
<1>1. OnlyUses' = OnlyUses /\ MemoryEnabled' = MemoryEnabled
  BY DEF OnlyUses, MemoryEnabled
<1> QED
  BY <1>1, CapacityStays DEF RoomInv, InLoad

LEMMA RoomSteps ==
    ASSUME RoomInv, QueueInv, NEW r \in Requests, Arrive(r) \/ Cancelled(r) \/ Progress(r)
    PROVE  RoomInv'
<1> USE DEF Goto
<1>0. conf \in Confs /\ Placed
  BY DEF QueueInv
<1> SUFFICES ASSUME OnlyUses, ~MemoryEnabled PROVE RoomInv'
  <2>1. conf' = conf
    BY DEF Arrive, Cancelled, Progress, CheckStop, Enqueue, JoinStopping, SeeLoading, StopWaiting, SeeFailed,
           GiveUp, Claim, StartLoad, Measured, MakeRoom, EvictVictim, VictimGone, LoadRefused, Spawn, AfterLoad,
           Unload, LookAgain, StartProxy, EndProxy, LookFrame, JoinFrame, LoadFrame
  <2> QED
    BY <2>1 DEF RoomInv, OnlyUses, MemoryEnabled
<1> DEFINE Still == /\ conf' = conf /\ status' = status
                    /\ \E l \in RequestAt \ {"evict", "gone"} :
                          pc' = [pc EXCEPT ![r] = l] /\ (l \in InLoad => pc[r] \in InLoad)
<1>1. Still => RoomInv'
  BY <1>0, RoomFrame DEF Placed, RoomInv
<1> HIDE DEF Still
<1>2. pc[r] \notin {"evict", "gone"} /\ (pc[r] \in InLoad => HasCapacity)
  BY DEF RoomInv
<1>3. CASE Arrive(r)
  <2>1. conf' = conf /\ status' = status /\ conf.kind[r] \in {"USE", "NONE"}
    BY <1>3 DEF Arrive, LookFrame, instVars, OnlyUses
  <2>2. \E l \in {"checkStop", "enqueue"} : pc' = [pc EXCEPT ![r] = l]
    BY <1>3, <2>1 DEF Arrive
  <2> QED
    BY <1>1, <2>1, <2>2 DEF Still, RequestAt, InLoad
<1>4. CASE CheckStop(r) \/ LookAgain(r) \/ StartProxy(r) \/ EndProxy(r) \/ Unload(r)
  <2>1. conf' = conf /\ status' = status
    BY <1>4 DEF CheckStop, LookAgain, StartProxy, EndProxy, Unload, LookFrame, LoadFrame, instVars
  <2>2. \E l \in {"enqueue", "proxy", "count", "done", "proxying"} : pc' = [pc EXCEPT ![r] = l]
    BY <1>4 DEF CheckStop, LookAgain, StartProxy, EndProxy, Unload
  <2> QED
    BY <1>1, <2>1, <2>2 DEF Still, RequestAt, InLoad
<1>5. CASE Enqueue(r) \/ StopWaiting(r) \/ SeeFailed(r) \/ Cancelled(r) \/ AfterLoad(r)
  <2>1. conf' = conf /\ status' = status
    BY <1>5 DEF Enqueue, StopWaiting, SeeFailed, Cancelled, GiveUp, AfterLoad, JoinFrame
  <2>2. \E l \in {"wait", "proxy", "done"} : pc' = [pc EXCEPT ![r] = l]
    BY <1>5 DEF Enqueue, StopWaiting, SeeFailed, Cancelled, GiveUp, AfterLoad
  <2> QED
    BY <1>1, <2>1, <2>2 DEF Still, RequestAt, InLoad
<1>6. CASE JoinStopping(r) \/ SeeLoading(r)
  BY <1>0, <1>6, RoomFrame DEF JoinStopping, SeeLoading, JoinFrame, instVars, RoomInv
<1>7. CASE Claim(r)
  <2>1. conf' = conf /\ status' = status /\ pc' = [pc EXCEPT ![r] = "load"] /\ HasCapacity
    BY <1>7 DEF Claim, JoinFrame, Claimable
  <2>2. HasCapacity'
    BY <1>0, <2>1, CapacityStays
  <2> QED
    BY <1>0, <2>1, <2>2 DEF RoomInv, Placed
<1>8. CASE StartLoad(r) \/ Measured(r)
  <2>1. conf' = conf /\ status' = status /\ pc[r] \in InLoad
    BY <1>8 DEF StartLoad, Measured, LoadFrame, instVars, InLoad
  <2>2. \E l \in {"measure", "room"} : pc' = [pc EXCEPT ![r] = l]
    BY <1>8 DEF StartLoad, Measured
  <2> QED
    BY <1>1, <2>1, <2>2 DEF Still, RequestAt, InLoad
<1>9. CASE MakeRoom(r)
  <2>1. conf' = conf /\ status' = status /\ pc[r] \in InLoad /\ ~LimitsExceeded(Wanted(r))
    BY <1>2, <1>9 DEF MakeRoom, LoadFrame, instVars, InLoad, LimitsExceeded
  <2>2. pc' = [pc EXCEPT ![r] = "spawn"]
    BY <1>9, <2>1 DEF MakeRoom
  <2> QED
    BY <1>1, <2>1, <2>2 DEF Still, RequestAt
<1>10. CASE EvictVictim(r) \/ VictimGone(r)
  BY <1>2, <1>10 DEF EvictVictim, VictimGone
<1>11. CASE LoadRefused(r)
  <2>1. conf' = conf /\ status' = status
    BY <1>11 DEF LoadRefused, LoadFrame, instVars
  <2>2. \E l \in {"done", "loaded", "notLoaded"} : pc' = [pc EXCEPT ![r] = l]
    BY <1>11 DEF LoadRefused, LoadReturns
  <2> QED
    BY <1>1, <2>1, <2>2 DEF Still, RequestAt, InLoad
<1>12. CASE Spawn(r)
  <2>1. pc[r] = "spawn" /\ \E l \in {"done", "loaded", "notLoaded"} : pc' = [pc EXCEPT ![r] = l]
    BY <1>12 DEF Spawn, LoadReturns
  <2>2. \A x \in Requests : pc[x] \in InLoad => x = r
    <3> SUFFICES ASSUME NEW x \in Requests, pc[x] \in InLoad PROVE x = r
      OBVIOUS
    <3>1. conf.kind[x] = "USE" /\ conf.kind[r] = "USE"
      BY <1>0, <2>1 DEF OnlyUses, Placed, AtKind, InLoad
    <3>2. x \in Loaders /\ r \in Loaders
      BY <2>1, <3>1 DEF Loaders, InLoading, InLoad
    <3> QED
      BY <3>2 DEF QueueInv, LoaderAtHead
  <2>3. \A x \in Requests : pc'[x] \notin InLoad
    BY <1>0, <2>1, <2>2 DEF Placed, InLoad
  <2> QED
    BY <2>3 DEF RoomInv, InLoad
<1> QED
  BY <1>3, <1>4, <1>5, <1>6, <1>7, <1>8, <1>9, <1>10, <1>11, <1>12 DEF Progress

LEMMA RoomInitially == ASSUME Init PROVE RoomInv
BY DEF Init, RoomInv, InLoad

LEMMA RoomKept == ASSUME RoomInv, QueueInv, Registry, [Next]_vars PROVE RoomInv'
<1>0. conf \in Confs
  BY DEF QueueInv
<1>1. ASSUME NEW r \in Requests, Arrive(r) \/ Cancelled(r) \/ Progress(r) PROVE RoomInv'
  BY <1>1, RoomSteps
<1>2. ASSUME NEW m \in Models, ChildReady(m) \/ ChildSleeps(m) \/ ChildWakes(m) \/ ChildExits(m)
      PROVE  RoomInv'
  <2>1. /\ UNCHANGED <<conf, pc>> /\ IsRunning(status, m)
        /\ \E s \in Statuses : status' = [status EXCEPT ![m] = s]
    BY <1>2 DEF ChildReady, ChildSleeps, ChildWakes, ChildExits, MonitorFrame, reqVars, NewStatus, IsRunning,
                Statuses
  <2>2. Running(status') \subseteq Running(status)
    BY <2>1 DEF Running, IsRunning, Registry
  <2>3. RoomInv => \A r \in Requests : OnlyUses /\ ~MemoryEnabled => pc[r] \notin {"evict", "gone"}
    BY DEF RoomInv
  <2>4. CASE OnlyUses /\ ~MemoryEnabled
    BY <1>0, <2>1, <2>2, <2>3, <2>4, RoomFrame
  <2>5. CASE ~(OnlyUses /\ ~MemoryEnabled)
    BY <2>1, <2>5 DEF RoomInv, OnlyUses, MemoryEnabled
  <2> QED
    BY <2>4, <2>5
<1>3. CASE UNCHANGED <<conf, status, pc>>
  BY <1>3 DEF RoomInv, OnlyUses, MemoryEnabled, HasCapacity, Running, IsRunning
<1>4. CASE MeasureReports \/ MeasureExits \/ UnloadAll \/ AllUnloaded \/ UNCHANGED vars
  BY <1>3, <1>4 DEF MeasureReports, MeasureExits, UnloadAll, AllUnloaded, MonitorFrame, CloseFrame, vars,
                    instVars, reqVars
<1> QED
  BY <1>1, <1>2, <1>4 DEF Next

(* tick stops idle instances only.                                          *)
LEMMA TickIdle ==
    ASSUME NEW s, NEW count, NEW stop, NEW q, NEW m \in Tick(s, count, stop, q), m \notin stop
    PROVE  m \in Models /\ count[m] = 0 /\ s[m] \in Up
BY DEF Tick, Victims

(* Idle by the count is idle, unless a request outlived the instance.       *)
LEMMA SparesBusy ==
    ASSUME CountInv', NEW m \in Models, req_count'[m] = 0, Outlived(m)' = {}
    PROVE  Live(m)' = {}
<1>1. IsFiniteSet(Proxied(m)') /\ Cardinality(Proxied(m)') = 0
  BY DEF CountInv, CountOf
<1>2. Proxied(m)' = {}
  BY <1>1, FS_EmptySet
<1> QED
  BY <1>2 DEF Live

(* A tick inside a step that leaves the outlived requests as they are.      *)
LEMMA TickSpares ==
    ASSUME CountInv', conf' = conf, orphans' = orphans, NEW s, NEW q,
           Ticked(s, req_count', stopping_models, q), NEW m \in stopping_models' \ stopping_models, Outlived(m) = {}
    PROVE  Live(m)' = {}
<1>1. m \in Models /\ req_count'[m] = 0
  BY TickIdle DEF Ticked
<1>2. Outlived(m)' = {}
  BY DEF Outlived, Wanted
<1> QED
  BY <1>1, <1>2, SparesBusy

Evicts(m) == m \in stopping_models' \ stopping_models

LEMMA RequestEvicts ==
    ASSUME RoomInv, QueueInv, CountInv', NEW r \in Requests, Arrive(r) \/ Cancelled(r) \/ Progress(r),
           NEW m, Evicts(m), Outlived(m) = {}, ~StoppedByHand(m)
    PROVE  Live(m)' = {}
<1> USE DEF Evicts
<1>1. CASE JoinAndTick(r) /\ UNCHANGED <<conf, req_count, orphans>>
  BY <1>1, TickSpares DEF JoinAndTick
<1>2. CASE GiveUp(r)
  BY <1>2, TickSpares DEF GiveUp, JoinFrame
<1>3. CASE AfterLoad(r)
  BY <1>3, TickSpares DEF AfterLoad
<1>4. CASE EndProxy(r)
  <2> DEFINE n == IF req_count[Wanted(r)] > 0 THEN req_count[Wanted(r)] - 1 ELSE 0
             count == [req_count EXCEPT ![Wanted(r)] = n]
  <2>1. conf' = conf /\ orphans' = orphans /\ req_count' = count
    BY <1>4 DEF EndProxy
  <2>2. Ticked(status, count, stopping_models, queue)
    BY <1>4 DEF EndProxy
  <2> HIDE DEF count
  <2>3. Ticked(status, req_count', stopping_models, queue)
    BY <2>1, <2>2
  <2> QED
    BY <2>1, <2>3, TickSpares
<1>5. CASE Unload(r) \/ EvictVictim(r)
  <2>1. CASE Unload(r)
    BY <2>1 DEF Unload, Unloaded, StoppedByHand
  <2>2. CASE EvictVictim(r)
    <3>1. m = victim[r] /\ pc[r] = "evict"
      BY <2>2 DEF EvictVictim, Unloaded
    <3> QED
      BY <3>1 DEF StoppedByHand, RoomInv
  <2> QED
    BY <1>5, <2>1, <2>2
<1>6. CASE UNCHANGED stopping_models
  BY <1>6
<1>7. CASE Arrive(r) \/ CheckStop(r) \/ SeeLoading(r) \/ StopWaiting(r) \/ Claim(r) \/ StartLoad(r) \/ Measured(r)
           \/ MakeRoom(r) \/ VictimGone(r) \/ LoadRefused(r) \/ Spawn(r) \/ LookAgain(r) \/ StartProxy(r)
  BY <1>6, <1>7 DEF Arrive, CheckStop, SeeLoading, StopWaiting, Claim, StartLoad, Measured, MakeRoom, VictimGone,
                    LoadRefused, Spawn, LookAgain, StartProxy, LookFrame, instVars
<1>8. CASE Enqueue(r) \/ JoinStopping(r)
  BY <1>1, <1>6, <1>8 DEF Enqueue, JoinStopping, JoinFrame
<1>9. CASE SeeFailed(r) \/ Cancelled(r)
  BY <1>2, <1>9 DEF SeeFailed, Cancelled
<1> QED
  BY <1>3, <1>4, <1>5, <1>7, <1>8, <1>9 DEF Progress

LEMMA ChildEvicts ==
    ASSUME Registry, CountInv', NEW c \in Models,
           ChildReady(c) \/ ChildSleeps(c) \/ ChildWakes(c) \/ ChildExits(c),
           NEW m, Evicts(m), Outlived(m) = {}
    PROVE  Live(m)' = {}
<1> USE DEF Evicts
<1>1. conf' = conf /\ req_count' = req_count
  BY DEF ChildReady, ChildSleeps, ChildWakes, ChildExits, MonitorFrame
<1>2. PICK s \in Statuses : NewStatus(c, s) /\ (ChildExits(c) => s = "UNLOADED")
  BY DEF ChildReady, ChildSleeps, ChildWakes, ChildExits, Statuses, IsRunning
<1>3. m \in Models /\ req_count'[m] = 0 /\ status'[m] \in Up
  <2> DEFINE stop == stopping_models \ {x \in {c} : s = "UNLOADED"}
  <2>1. m \in Tick(status', req_count, stop, queue) /\ m \notin stop
    BY <1>2 DEF NewStatus, Ticked
  <2> HIDE DEF stop
  <2> QED
    BY <1>1, <2>1, TickIdle
<1>4. Outlived(m)' = {}
  <2>1. CASE orphans' = orphans
    BY <1>1, <2>1 DEF Outlived, Wanted
  <2>2. CASE ChildExits(c)
    <3>1. m # c
      BY <1>2, <1>3, <2>2 DEF NewStatus, Registry, Up
    <3> QED
      BY <1>1, <2>2, <3>1 DEF ChildExits, Outlived, Live, Proxied, Wanted
  <2> QED
    BY <2>1, <2>2 DEF ChildReady, ChildSleeps, ChildWakes
<1> QED
  BY <1>3, <1>4, SparesBusy

(* Making room for others never stops a model in the middle of a request,   *)
(* whatever joins, gives up, loads, exits or crashes at the same time,      *)
(* unless a request outlived an earlier instance: tick                      *)
(* (server-models-sched.cpp) stops idle instances, and make_room finds the  *)
(* place its claim saw.                                                     *)
THEOREM NobodyCutOff == Spec => NotCutOff
<1> DEFINE Inv == Registry /\ QueueInv /\ CountInv /\ RoomInv
           A   == \A m \in stopping_models' \ stopping_models :
                      Live(m)' = {} \/ Outlived(m) # {} \/ StoppedByHand(m)
<1>1. Init => Inv
  BY RegistryInitially, QueueInitially, CountInitially, RoomInitially
<1>2. Inv /\ [Next]_vars => Inv'
  BY RegistryKept, QueueKept, CountKept, RoomKept
<1>3. Inv /\ [Next]_vars => [A]_vars
  <2> SUFFICES ASSUME Inv, Next, NEW m, Evicts(m), Outlived(m) = {}, ~StoppedByHand(m) PROVE Live(m)' = {}
    BY DEF Evicts
  <2>1. CountInv'
    BY CountKept
  <2>2. ASSUME NEW r \in Requests, Arrive(r) \/ Cancelled(r) \/ Progress(r) PROVE Live(m)' = {}
    BY <2>1, <2>2, RequestEvicts
  <2>3. ASSUME NEW c \in Models, ChildReady(c) \/ ChildSleeps(c) \/ ChildWakes(c) \/ ChildExits(c)
        PROVE  Live(m)' = {}
    BY <2>1, <2>3, ChildEvicts
  <2>4. CASE MeasureReports \/ MeasureExits \/ AllUnloaded
    BY <2>4 DEF MeasureReports, MeasureExits, AllUnloaded, Evicts
  <2>5. CASE UnloadAll
    BY <2>5 DEF UnloadAll, StoppedByHand
  <2> QED
    BY <2>2, <2>3, <2>4, <2>5 DEF Next
<1>4. Spec => [][A]_vars
  BY <1>1, <1>2, <1>3, PTL DEF Spec
<1> QED
  BY <1>4 DEF NotCutOff

----------------------------------------------------------------------------
(* Sums over finite sets.                                                   *)

(* A set of naturals has a least member.                                    *)
LEMMA LeastOf ==
    ASSUME NEW S \in SUBSET Nat, S # {}
    PROVE  \E n \in S : \A k \in S : n <= k
<1>1. IsWellFoundedOn(OpToRel(<, Nat), Nat)
  BY NatLessThanWellFounded
<1>2. PICK x \in S : \A y \in S : <<y, x>> \notin OpToRel(<, Nat)
  <2> HIDE DEF IsWellFoundedOn
  <2> QED
    BY <1>1, WFMin, Zenon
<1>3. \A y \in S : ~(y < x)
  BY <1>2, Zenon DEF OpToRel
<1> QED
  BY <1>3

(* Induction over the subsets of a finite set: a set of them that holds     *)
(* each one all of whose smaller subsets it holds, holds them all.          *)
LEMMA SubsetInduction ==
    ASSUME NEW M, IsFiniteSet(M), NEW T \in SUBSET SUBSET M,
           \A s \in SUBSET M : (\A u \in SUBSET s : u # s => u \in T) => s \in T
    PROVE  T = SUBSET M
<1>1. SUFFICES ASSUME (SUBSET M) \ T # {} PROVE FALSE
  OBVIOUS
<1> DEFINE N == {Cardinality(s) : s \in (SUBSET M) \ T}
<1>2. \A s \in SUBSET M : IsFiniteSet(s) /\ Cardinality(s) \in Nat
  BY FS_Subset, FS_CardinalityType
<1>3. N \in SUBSET Nat /\ N # {}
  BY <1>1, <1>2
<1>4. PICK n \in N : \A k \in N : n <= k
  BY <1>3, LeastOf
<1>5. PICK s \in (SUBSET M) \ T : n = Cardinality(s)
  OBVIOUS
<1>6. PICK u \in SUBSET s : u # s /\ u \notin T
  <2>1. s \in SUBSET M /\ s \notin T
    BY <1>5
  <2> HIDE DEF N
  <2> QED
    BY <2>1
<1>7. u \in (SUBSET M) \ T
  BY <1>5, <1>6
<1>8. Cardinality(u) < Cardinality(s)
  BY <1>2, <1>5, <1>6, FS_Subset
<1>9. Cardinality(u) \in N
  BY <1>7
<1> HIDE DEF N
<1> QED
  BY <1>2, <1>3, <1>4, <1>5, <1>7, <1>8, <1>9

(* k is the table of the sums of f over the subsets of S, as the fold takes *)
(* them.                                                                    *)
Pick(s) == CHOOSE x \in s : TRUE

Summing(k, f, S) ==
    k = [s \in SUBSET S |-> IF s = {} THEN 0 ELSE f[Pick(s)] + k[s \ {Pick(s)}]]

LEMMA PickIn == ASSUME NEW s, s # {} PROVE Pick(s) \in s
BY DEF Pick

LEMMA SummingAt ==
    ASSUME NEW k, NEW f, NEW S, Summing(k, f, S), NEW s \in SUBSET S
    PROVE  k[s] = IF s = {} THEN 0 ELSE f[Pick(s)] + k[s \ {Pick(s)}]
BY Zenon DEF Summing

(* Two tables agree.                                                        *)
LEMMA SummingAgree ==
    ASSUME NEW S, NEW R, IsFiniteSet(S), NEW f, NEW k, NEW j, Summing(k, f, S), Summing(j, f, R),
           NEW s, s \subseteq S, s \subseteq R
    PROVE  k[s] = j[s]
<1> DEFINE T == {u \in SUBSET s : k[u] = j[u]}
<1>1. IsFiniteSet(s)
  BY FS_Subset
<1>2. ASSUME NEW u \in SUBSET s, \A v \in SUBSET u : v # u => v \in T PROVE u \in T
  <2>1. CASE u = {}
    BY <2>1, SummingAt
  <2>2. CASE u # {}
    <3>1. Pick(u) \in u
      BY <2>2, PickIn
    <3> DEFINE v == u \ {Pick(u)}
    <3>2. v \in SUBSET u /\ v # u
      BY <3>1
    <3>3. k[v] = j[v]
      BY <1>2, <3>2
    <3>4. k[u] = f[Pick(u)] + k[v] /\ j[u] = f[Pick(u)] + j[v]
      BY <2>2, SummingAt
    <3> QED
      BY <3>3, <3>4
  <2> QED
    BY <2>1, <2>2
<1> HIDE DEF T
<1>3. T \in SUBSET SUBSET s
  BY DEF T
<1>4. T = SUBSET s
  BY <1>1, <1>2, <1>3, SubsetInduction
<1> QED
  BY <1>4 DEF T

(* There is one.                                                            *)
LEMMA SummingExists ==
    ASSUME NEW S, IsFiniteSet(S), NEW f
    PROVE  \E k : Summing(k, f, S)
<1> DEFINE T == {u \in SUBSET S : \E k : Summing(k, f, u)}
<1>1. ASSUME NEW s \in SUBSET S, \A u \in SUBSET s : u # s => u \in T PROVE s \in T
  <2> DEFINE Tab(u) == CHOOSE k : Summing(k, f, u)
             last   == IF s = {} THEN 0 ELSE f[Pick(s)] + Tab(s \ {Pick(s)})[s \ {Pick(s)}]
             j      == [u \in SUBSET s |-> IF u = s THEN last ELSE Tab(u)[u]]
  <2>1. \A u \in SUBSET s : u # s => Summing(Tab(u), f, u) /\ IsFiniteSet(u)
    BY <1>1, FS_Subset
  <2> HIDE DEF Tab
  <2>2. \A u \in SUBSET s : j[u] = IF u = s THEN last ELSE Tab(u)[u]
    OBVIOUS
  <2>3. j = [u \in SUBSET s |-> j[u]]
    OBVIOUS
  <2> HIDE DEF j
  <2>4. ASSUME NEW u \in SUBSET s
        PROVE  j[u] = IF u = {} THEN 0 ELSE f[Pick(u)] + j[u \ {Pick(u)}]
    <3> DEFINE v == u \ {Pick(u)}
    <3>1. CASE u = {}
      <4>1. CASE u = s
        BY <2>2, <3>1, <4>1
      <4>2. CASE u # s
        BY <2>1, <2>2, <3>1, <4>2, SummingAt
      <4> QED
        BY <4>1, <4>2
    <3>2. CASE u # {}
      <4>1. Pick(u) \in u
        BY <3>2, PickIn
      <4>2. v \in SUBSET s /\ v # s /\ v \subseteq u /\ v # u
        BY <4>1
      <4>3. j[v] = Tab(v)[v]
        BY <2>2, <4>2
      <4>4. CASE u = s
        <5>1. j[u] = last
          BY <2>2, <4>4
        <5>2. last = f[Pick(u)] + Tab(v)[v]
          BY <3>2, <4>4
        <5> HIDE DEF last, v
        <5>3. j[u] = f[Pick(u)] + j[v]
          BY <4>3, <5>1, <5>2
        <5> QED
          BY <3>2, <5>3 DEF v
      <4>5. CASE u # s
        <5>1. j[u] = Tab(u)[u] /\ Summing(Tab(u), f, u) /\ Summing(Tab(v), f, v) /\ IsFiniteSet(u)
          BY <2>1, <2>2, <4>2, <4>5
        <5> HIDE DEF v
        <5>2. Tab(u)[v] = Tab(v)[v]
          BY <4>2, <5>1, SummingAgree
        <5>3. Tab(u)[u] = f[Pick(u)] + Tab(u)[v]
          BY <3>2, <5>1, SummingAt DEF v
        <5>4. j[u] = f[Pick(u)] + j[v]
          BY <4>3, <5>1, <5>2, <5>3
        <5> QED
          BY <3>2, <5>4 DEF v
      <4> QED
        BY <4>4, <4>5
    <3> QED
      BY <3>1, <3>2
  <2>5. Summing(j, f, s)
    BY <2>3, <2>4 DEF Summing
  <2> QED
    BY <2>5
<1> HIDE DEF T
<1>2. T \in SUBSET SUBSET S
  BY DEF T
<1>3. T = SUBSET S
  BY <1>1, <1>2, SubsetInduction
<1> QED
  BY <1>3 DEF T

(* The fold is that table's last entry.                                     *)
LEMMA SumIsFold ==
    ASSUME NEW S, IsFiniteSet(S), NEW f
    PROVE  \E k : Summing(k, f, S) /\ SumOver(f, S) = k[S]
<1> DEFINE k == CHOOSE k : Summing(k, f, S)
<1>1. Summing(k, f, S)
  BY SummingExists
<1>2. SumOver(f, S) = k[S]
  BY DEF SumOver, FoldFunctionOnSet, MapThenFoldSet, Summing, Pick
<1> QED
  BY <1>1, <1>2

(* The sum as the fold takes it.                                            *)
LEMMA SumStep ==
    ASSUME NEW S, IsFiniteSet(S), NEW f
    PROVE  SumOver(f, S) = IF S = {} THEN 0 ELSE f[Pick(S)] + SumOver(f, S \ {Pick(S)})
<1> DEFINE R == S \ {Pick(S)}
<1>1. IsFiniteSet(R) /\ R \subseteq S
  BY FS_Subset
<1>2. PICK k : Summing(k, f, S) /\ SumOver(f, S) = k[S]
  BY SumIsFold
<1>3. PICK j : Summing(j, f, R) /\ SumOver(f, R) = j[R]
  BY <1>1, SumIsFold
<1>4. k[R] = j[R]
  BY <1>1, <1>2, <1>3, SummingAgree
<1>5. k[S] = IF S = {} THEN 0 ELSE f[Pick(S)] + k[R]
  BY <1>2, SummingAt
<1> QED
  BY <1>2, <1>3, <1>4, <1>5

(* Sums of numbers are numbers.                                             *)
LEMMA SumType ==
    ASSUME NEW S, IsFiniteSet(S), NEW f, \A x \in S : f[x] \in Nat
    PROVE  SumOver(f, S) \in Nat
<1> DEFINE T == {s \in SUBSET S : SumOver(f, s) \in Nat}
<1>1. ASSUME NEW s \in SUBSET S, \A u \in SUBSET s : u # s => u \in T PROVE s \in T
  <2>1. IsFiniteSet(s)
    BY FS_Subset
  <2>2. CASE s = {}
    <3>1. SumOver(f, s) = 0
      BY <2>1, <2>2, SumStep, Zenon
    <3> QED
      BY <3>1
  <2>3. CASE s # {}
    <3>1. Pick(s) \in s
      BY <2>3, PickIn
    <3>2. s \ {Pick(s)} \in T
      BY <1>1, <3>1
    <3>3. SumOver(f, s) = f[Pick(s)] + SumOver(f, s \ {Pick(s)})
      BY <2>1, <2>3, SumStep
    <3> QED
      BY <3>1, <3>2, <3>3
  <2> QED
    BY <2>2, <2>3
<1> HIDE DEF T
<1>2. T \in SUBSET SUBSET S
  BY DEF T
<1>3. T = SUBSET S
  BY <1>1, <1>2, SubsetInduction
<1> QED
  BY <1>3 DEF T

(* Any member may be taken first.                                           *)
LEMMA SumWithout ==
    ASSUME NEW S, IsFiniteSet(S), NEW f, \A x \in S : f[x] \in Nat, NEW y \in S
    PROVE  SumOver(f, S) = f[y] + SumOver(f, S \ {y})
<1> DEFINE T == {s \in SUBSET S : \A x \in s : SumOver(f, s) = f[x] + SumOver(f, s \ {x})}
<1>1. ASSUME NEW s \in SUBSET S, \A u \in SUBSET s : u # s => u \in T PROVE s \in T
  <2> SUFFICES ASSUME NEW x \in s PROVE SumOver(f, s) = f[x] + SumOver(f, s \ {x})
    OBVIOUS
  <2> DEFINE c == Pick(s)
             v == s \ {x, c}
  <2>1. c \in s /\ IsFiniteSet(s)
    BY PickIn, FS_Subset
  <2>2. SumOver(f, s) = f[c] + SumOver(f, s \ {c})
    BY <2>1, SumStep
  <2>3. CASE x = c
    BY <2>2, <2>3
  <2>4. CASE x # c
    <3>1. s \ {c} \in T /\ s \ {x} \in T
      BY <1>1, <2>1
    <3>2. (s \ {c}) \ {x} = v /\ (s \ {x}) \ {c} = v
      OBVIOUS
    <3>3. SumOver(f, s \ {c}) = f[x] + SumOver(f, v)
      BY <2>4, <3>1, <3>2
    <3>4. SumOver(f, s \ {x}) = f[c] + SumOver(f, v)
      BY <2>1, <2>4, <3>1, <3>2
    <3>5. f[x] \in Nat /\ f[c] \in Nat /\ SumOver(f, v) \in Nat
      <4>1. IsFiniteSet(v) /\ v \subseteq S
        BY <2>1, FS_Subset
      <4> QED
        BY <2>1, <4>1, SumType
    <3> HIDE DEF c, v
    <3> QED
      BY <2>2, <3>3, <3>4, <3>5
  <2> QED
    BY <2>3, <2>4
<1> HIDE DEF T
<1>2. T \in SUBSET SUBSET S
  BY DEF T
<1>3. T = SUBSET S
  BY <1>1, <1>2, SubsetInduction
<1>4. S \in T
  BY <1>3
<1> QED
  BY <1>4 DEF T

(* Less of less is less.                                                    *)
LEMMA SumBelow ==
    ASSUME NEW S, IsFiniteSet(S), NEW R \in SUBSET S, NEW f, NEW g,
           \A x \in R : f[x] \in Nat, \A x \in S : g[x] \in Nat, \A x \in R : f[x] <= g[x]
    PROVE  SumOver(f, R) <= SumOver(g, S)
<1> DEFINE T == {s \in SUBSET S : SumOver(f, s \cap R) <= SumOver(g, s)}
<1>1. ASSUME NEW s \in SUBSET S, \A u \in SUBSET s : u # s => u \in T PROVE s \in T
  <2>1. IsFiniteSet(s) /\ IsFiniteSet(s \cap R)
    BY FS_Subset
  <2>2. CASE s = {}
    <3>1. s \cap R = {}
      BY <2>2
    <3>2. SumOver(g, s) = 0 /\ SumOver(f, s \cap R) = 0
      BY <2>1, <2>2, <3>1, SumStep, Zenon
    <3> QED
      BY <3>2
  <2>3. CASE s # {}
    <3>1. PICK x : x \in s
      BY <2>3
    <3> DEFINE u == s \ {x}
    <3>2. u \subseteq s /\ u # s /\ IsFiniteSet(u) /\ IsFiniteSet(u \cap R)
      BY <2>1, <3>1, FS_Subset
    <3>3. SumOver(f, u \cap R) <= SumOver(g, u)
      BY <1>1, <3>2
    <3>4. SumOver(g, s) = g[x] + SumOver(g, u)
      BY <2>1, <3>1, SumWithout
    <3>5. g[x] \in Nat /\ SumOver(g, u) \in Nat /\ SumOver(f, u \cap R) \in Nat
      BY <3>1, <3>2, SumType
    <3>6. CASE x \in R
      <4>1. (s \cap R) \ {x} = u \cap R /\ x \in s \cap R /\ \A y \in s \cap R : f[y] \in Nat
        BY <3>1, <3>6
      <4>2. SumOver(f, s \cap R) = f[x] + SumOver(f, u \cap R)
        BY <2>1, <4>1, SumWithout
      <4>3. f[x] \in Nat /\ f[x] <= g[x]
        BY <3>6
      <4> HIDE DEF u
      <4> QED
        BY <3>3, <3>4, <3>5, <4>2, <4>3
    <3>7. CASE x \notin R
      <4>1. s \cap R = u \cap R
        BY <3>7
      <4>2. SumOver(f, s \cap R) = SumOver(f, u \cap R)
        BY <4>1
      <4> HIDE DEF u
      <4> QED
        BY <3>3, <3>4, <3>5, <4>2
    <3> QED
      BY <3>6, <3>7
  <2> QED
    BY <2>2, <2>3
<1> HIDE DEF T
<1>2. T \in SUBSET SUBSET S
  BY DEF T
<1>3. T = SUBSET S
  BY <1>1, <1>2, SubsetInduction
<1>4. S \in T /\ S \cap R = R
  BY <1>3
<1> QED
  BY <1>4 DEF T

----------------------------------------------------------------------------
(* The order of use, and the models that are stopping.                      *)

LEMMA WithoutIs ==
    ASSUME NEW R, NEW q \in Seq(R), NEW m
    PROVE  /\ Without(q, m) \in Seq(R)
           /\ IsInjective(q) => /\ IsInjective(Without(q, m))
                                /\ ToSet(Without(q, m)) = ToSet(q) \ {m}
<1> DEFINE i == CHOOSE i \in DOMAIN q : q[i] = m
<1>1. DOMAIN q = 1 .. Len(q) /\ Len(q) \in Nat
  BY LenProperties
<1>2. CASE ~Contains(q, m)
  <2>1. Without(q, m) = q
    BY <1>2 DEF Without
  <2>2. m \notin ToSet(q)
    BY <1>1, <1>2 DEF Contains, ToSet
  <2> QED
    BY <2>1, <2>2
<1>3. CASE Contains(q, m)
  <2>1. i \in DOMAIN q /\ q[i] = m
    BY <1>1, <1>3 DEF Contains
  <2>2. Without(q, m) = RemoveAt(q, i)
    BY <1>3 DEF Without
  <2> HIDE DEF i
  <2> DEFINE w == RemoveAt(q, i)
  <2>3. /\ w \in Seq(R) /\ Len(w) = Len(q) - 1
        /\ \A j \in 1 .. (Len(q) - 1) : w[j] = IF j < i THEN q[j] ELSE q[j + 1]
    BY <2>1, Removed
  <2> HIDE DEF w
  <2>4. DOMAIN w = 1 .. (Len(q) - 1)
    BY <2>3, LenProperties
  <2>5. ASSUME IsInjective(q) PROVE IsInjective(w) /\ ToSet(w) = ToSet(q) \ {m}
    <3>1. \A a, b \in 1 .. Len(q) : q[a] = q[b] => a = b
      BY <1>1, <2>5 DEF IsInjective
    <3>2. ASSUME NEW a \in DOMAIN w, NEW b \in DOMAIN w, w[a] = w[b] PROVE a = b
      <4> DEFINE x == IF a < i THEN a ELSE a + 1
                 y == IF b < i THEN b ELSE b + 1
      <4>1. x \in 1 .. Len(q) /\ y \in 1 .. Len(q) /\ w[a] = q[x] /\ w[b] = q[y]
        BY <1>1, <2>1, <2>3, <2>4, <3>2
      <4>2. x = y
        BY <3>1, <3>2, <4>1
      <4> QED
        BY <1>1, <2>1, <2>4, <3>2, <4>2
    <3>3. ASSUME NEW a \in DOMAIN w PROVE w[a] \in ToSet(q) \ {m}
      <4> DEFINE x == IF a < i THEN a ELSE a + 1
      <4>1. x \in 1 .. Len(q) /\ x # i /\ w[a] = q[x]
        BY <1>1, <2>1, <2>3, <2>4, <3>3
      <4>2. q[x] # m
        BY <1>1, <2>1, <3>1, <4>1
      <4> QED
        BY <1>1, <4>1, <4>2 DEF ToSet
    <3>4. ASSUME NEW a \in DOMAIN q, q[a] # m PROVE q[a] \in ToSet(w)
      <4> DEFINE x == IF a < i THEN a ELSE a - 1
      <4>1. x \in 1 .. (Len(q) - 1) /\ w[x] = q[a]
        BY <1>1, <2>1, <2>3, <3>4
      <4> QED
        BY <2>4, <4>1 DEF ToSet
    <3>5. IsInjective(w)
      BY <3>2 DEF IsInjective
    <3>6. ToSet(w) = ToSet(q) \ {m}
      BY <3>3, <3>4 DEF ToSet
    <3> QED
      BY <3>5, <3>6
  <2> QED
    BY <2>2, <2>3, <2>5 DEF w
<1> QED
  BY <1>2, <1>3

OrderInv ==
    /\ conf \in Confs
    /\ last_used \in Seq(Models) /\ ToSet(last_used) = conf.models /\ IsInjective(last_used)

LEMMA WantedInMapping ==
    ASSUME conf \in Confs
    PROVE  conf.models \in SUBSET Models /\ \A r \in Requests : Wanted(r) \in conf.models
BY ModelsSchedAssumption DEF ConfType, Wanted

LEMMA TouchKeeps ==
    ASSUME OrderInv, NEW r \in Requests, conf' = conf, last_used' = Touch(Wanted(r))
    PROVE  OrderInv'
<1> DEFINE m == Wanted(r)
           w == Without(last_used, m)
<1>1. m \in conf.models /\ m \in Models
  BY WantedInMapping DEF OrderInv
<1>2. w \in Seq(Models) /\ IsInjective(w) /\ ToSet(w) = conf.models \ {m}
  BY WithoutIs DEF OrderInv
<1>3. last_used' = Append(w, m)
  BY DEF Touch
<1> HIDE DEF w, m
<1>4. /\ last_used' \in Seq(Models) /\ Len(last_used') = Len(w) + 1 /\ last_used'[Len(w) + 1] = m
      /\ \A i \in 1 .. Len(w) : last_used'[i] = w[i]
  BY <1>1, <1>2, <1>3, AppendProperties
<1>5. DOMAIN last_used' = 1 .. (Len(w) + 1) /\ DOMAIN w = 1 .. Len(w) /\ Len(w) \in Nat
  BY <1>2, <1>4, LenProperties
<1>6. \A i \in 1 .. Len(w) : w[i] # m
  BY <1>2, <1>5 DEF ToSet
<1>7. ToSet(last_used') = conf.models
  <2>1. ToSet(last_used') = ToSet(w) \cup {m}
    BY <1>4, <1>5 DEF ToSet
  <2> QED
    BY <1>1, <1>2, <2>1
<1>8. IsInjective(last_used')
  <2>1. \A a, b \in 1 .. Len(w) : w[a] = w[b] => a = b
    BY <1>2, <1>5 DEF IsInjective
  <2>2. ASSUME NEW a \in 1 .. (Len(w) + 1), NEW b \in 1 .. (Len(w) + 1), last_used'[a] = last_used'[b]
        PROVE  a = b
    <3>1. a \in 1 .. Len(w) \/ a = Len(w) + 1
      BY <1>5
    <3>2. b \in 1 .. Len(w) \/ b = Len(w) + 1
      BY <1>5
    <3> QED
      BY <1>4, <1>6, <2>1, <2>2, <3>1, <3>2
  <2> QED
    BY <1>5, <2>2 DEF IsInjective
<1> QED
  BY <1>4, <1>7, <1>8 DEF OrderInv, ToSet, IsInjective

LEMMA OrderInitially == ASSUME Init PROVE OrderInv
<1> DEFINE S == conf.models
           n == Cardinality(S)
<1>1. conf \in Confs /\ last_used = SetToSeq(S)
  BY DEF Init
<1>2. S \in SUBSET Models /\ IsFiniteSet(S)
  BY <1>1, WantedInMapping, ModelsSchedAssumption, FS_Subset
<1>3. n \in Nat /\ ExistsBijection(1 .. n, S)
  BY <1>2, FS_CardinalityType
<1> HIDE DEF n, S
<1>4. PICK g \in Bijection(1 .. n, S) : TRUE
  BY <1>3 DEF ExistsBijection
<1>5. g \in [1 .. n -> S] /\ IsInjective(g)
  BY <1>4 DEF Bijection, Injection
<1>6. last_used = CHOOSE f \in [1 .. n -> S] : IsInjective(f)
  BY <1>1 DEF SetToSeq, n, S
<1>7. last_used \in [1 .. n -> S] /\ IsInjective(last_used)
  BY <1>5, <1>6
<1>8. last_used \in Seq(Models)
  BY <1>2, <1>3, <1>7, IsASeq
<1>9. ToSet(last_used) = S
  <2>1. last_used \in Injection(1 .. n, S)
    BY <1>7 DEF Injection
  <2>2. IsFiniteSet(1 .. n) /\ Cardinality(1 .. n) = n
    BY <1>3, FS_Interval
  <2>3. last_used \in Surjection(1 .. n, S)
    BY <1>2, <2>1, <2>2, FS_Injection DEF n
  <2> QED
    BY <1>7, <2>3 DEF Surjection, ToSet
<1> QED
  BY <1>1, <1>7, <1>8, <1>9 DEF OrderInv, S

LEMMA OrderKept == ASSUME OrderInv, [Next]_vars PROVE OrderInv'
<1>1. CASE UNCHANGED <<conf, last_used>>
  BY <1>1 DEF OrderInv, ToSet, IsInjective
<1>2. ASSUME NEW r \in Requests, Arrive(r) \/ Cancelled(r) \/ Progress(r) PROVE OrderInv'
  <2>1. CASE Spawn(r) \/ StartProxy(r)
    BY <2>1, TouchKeeps DEF Spawn, StartProxy, LoadFrame
  <2>2. CASE Arrive(r) \/ CheckStop(r) \/ SeeLoading(r) \/ LookAgain(r)
    BY <1>1, <2>2 DEF Arrive, CheckStop, SeeLoading, LookAgain, LookFrame, instVars
  <2>3. CASE Cancelled(r) \/ Enqueue(r) \/ JoinStopping(r) \/ StopWaiting(r) \/ SeeFailed(r) \/ Claim(r)
    BY <1>1, <2>3 DEF Cancelled, Enqueue, JoinStopping, StopWaiting, SeeFailed, Claim, GiveUp, JoinFrame
  <2>4. CASE StartLoad(r) \/ Measured(r) \/ MakeRoom(r) \/ EvictVictim(r) \/ VictimGone(r) \/ LoadRefused(r)
    BY <1>1, <2>4 DEF StartLoad, Measured, MakeRoom, EvictVictim, VictimGone, LoadRefused, LoadFrame, instVars
  <2>5. CASE AfterLoad(r) \/ Unload(r) \/ EndProxy(r)
    BY <1>1, <2>5 DEF AfterLoad, Unload, EndProxy, LoadFrame
  <2> QED
    BY <1>2, <2>1, <2>2, <2>3, <2>4, <2>5 DEF Progress
<1>3. ASSUME NEW m \in Models, ChildReady(m) \/ ChildSleeps(m) \/ ChildWakes(m) \/ ChildExits(m)
      PROVE  OrderInv'
  BY <1>1, <1>3 DEF ChildReady, ChildSleeps, ChildWakes, ChildExits, MonitorFrame
<1>4. CASE MeasureReports \/ MeasureExits \/ UnloadAll \/ AllUnloaded \/ UNCHANGED vars
  BY <1>1, <1>4 DEF MeasureReports, MeasureExits, UnloadAll, AllUnloaded, MonitorFrame, CloseFrame, vars, instVars
<1> QED
  BY <1>2, <1>3, <1>4 DEF Next

(* The victim is the idle model that was used least recently, if any.       *)
LEMMA VictimIs ==
    ASSUME OrderInv, PickVictim # NoModel
    PROVE  PickVictim \in Victims(status, req_count, stopping_models, queue)
<1> DEFINE V == Victims(status, req_count, stopping_models, queue)
<1>1. V # {} /\ PickVictim = CHOOSE m \in V : Before(m, V) = {}
  BY DEF PickVictim
<1> SUFFICES \E m \in V : Before(m, V) = {}
  BY <1>1
<1> HIDE DEF V
<1>2. DOMAIN last_used = 1 .. Len(last_used) /\ Len(last_used) \in Nat
  BY LenProperties DEF OrderInv
<1> DEFINE P == {i \in DOMAIN last_used : last_used[i] \in V}
<1>3. CASE P = {}
  <2>1. \A m \in V : Before(m, V) = {}
    BY <1>3 DEF Before
  <2> QED
    BY <1>1, <2>1
<1>4. CASE P # {}
  <2>1. P \in SUBSET Nat
    BY <1>2
  <2> HIDE DEF P
  <2>2. PICK i \in P : \A k \in P : i <= k
    BY <1>4, <2>1, LeastOf
  <2>3. Before(last_used[i], V) = {}
    <3> SUFFICES ASSUME NEW x \in V, NEW a \in DOMAIN last_used, NEW b \in DOMAIN last_used,
                        a < b, last_used[a] = x, last_used[b] = last_used[i]
                 PROVE  FALSE
      BY DEF Before
    <3>1. b = i
      BY <2>2 DEF OrderInv, IsInjective, P
    <3>2. a \in P
      BY DEF P
    <3> QED
      BY <1>2, <2>1, <2>2, <3>1, <3>2
  <2> QED
    BY <2>2, <2>3 DEF P
<1> QED
  BY <1>3, <1>4

(* An instance make_room unloads is one of a model.                         *)
VictimInv ==
    /\ victim \in [Requests -> Models \cup {NoModel}]
    /\ \A r \in Requests : pc[r] \in {"evict", "gone"} => victim[r] \in Models

(* Only running instances are stopping.                                     *)
Stopping == stopping_models \subseteq Running(status)

LEMMA TickStops ==
    ASSUME NEW s, NEW count, NEW stop, NEW q, stop \subseteq Running(s), Ticked(s, count, stop, q)
    PROVE  stopping_models' \subseteq Running(s)
<1> SUFFICES ASSUME NEW m \in stopping_models', m \notin stop PROVE m \in Running(s)
  OBVIOUS
<1>1. m \in Models /\ s[m] \in Up
  BY TickIdle DEF Ticked
<1> QED
  BY <1>1 DEF Running, IsRunning, Up

LEMMA StoppingFrame ==
    ASSUME Stopping, UNCHANGED <<stopping_models, status>>
    PROVE  Stopping'
BY DEF Stopping, Running, IsRunning

LEMMA StoppingTicked ==
    ASSUME Stopping, status' = status, NEW count, NEW q, Ticked(status, count, stopping_models, q)
    PROVE  Stopping'
<1>1. stopping_models' \subseteq Running(status)
  BY TickStops DEF Stopping
<1> QED
  BY <1>1 DEF Stopping, Running, IsRunning

LEMMA StoppingSteps ==
    ASSUME Stopping, Registry, QueueInv, VictimInv, NEW r \in Requests, Arrive(r) \/ Cancelled(r) \/ Progress(r)
    PROVE  Stopping'
<1>1. CASE Arrive(r) \/ CheckStop(r) \/ SeeLoading(r) \/ LookAgain(r)
  BY <1>1, StoppingFrame DEF Arrive, CheckStop, SeeLoading, LookAgain, LookFrame, instVars
<1>2. CASE StartLoad(r) \/ Measured(r) \/ MakeRoom(r) \/ VictimGone(r) \/ LoadRefused(r)
  BY <1>2, StoppingFrame DEF StartLoad, Measured, MakeRoom, VictimGone, LoadRefused, LoadFrame, instVars
<1>3. CASE StopWaiting(r) \/ Claim(r) \/ StartProxy(r)
  BY <1>3, StoppingFrame DEF StopWaiting, Claim, StartProxy, JoinFrame
<1>4. CASE Enqueue(r) \/ JoinStopping(r)
  BY <1>4, StoppingFrame, StoppingTicked DEF Enqueue, JoinStopping, JoinAndTick, JoinFrame
<1>5. CASE SeeFailed(r) \/ Cancelled(r)
  BY <1>5, StoppingTicked DEF SeeFailed, Cancelled, GiveUp, JoinFrame
<1>6. CASE AfterLoad(r)
  BY <1>6, StoppingTicked DEF AfterLoad
<1>7. CASE EndProxy(r)
  <2>1. status' = status
    BY <1>7 DEF EndProxy
  <2>2. \/ UNCHANGED stopping_models
        \/ \E count : Ticked(status, count, stopping_models, queue)
    BY <1>7 DEF EndProxy
  <2> QED
    BY <2>1, <2>2, StoppingFrame, StoppingTicked
<1>8. CASE Unload(r) \/ EvictVictim(r)
  <2>1. PICK m \in Models : Unloaded(m)
    <3>1. CASE Unload(r)
      BY <3>1, ConfTyped DEF Unload, Registry
    <3>2. CASE EvictVictim(r)
      BY <3>2 DEF EvictVictim, VictimInv
    <3> QED
      BY <1>8, <3>1, <3>2
  <2>2. status' = status
    BY <1>8 DEF Unload, EvictVictim, LoadFrame
  <2> QED
    BY <2>1, <2>2 DEF Unloaded, Stopping, Running, IsRunning
<1>9. CASE Spawn(r)
  <2>1. /\ stopping_models' = stopping_models /\ status' = [status EXCEPT ![Wanted(r)] = "LOADING"]
    BY <1>9 DEF Spawn, LoadFrame
  <2>2. Running(status) \subseteq Running(status')
    BY <2>1 DEF Registry, Running, IsRunning
  <2> QED
    BY <2>1, <2>2 DEF Stopping, Running, IsRunning
<1> QED
  BY <1>1, <1>2, <1>3, <1>4, <1>5, <1>6, <1>7, <1>8, <1>9 DEF Progress

LEMMA StoppingKept ==
    ASSUME Stopping, Registry, QueueInv, VictimInv, [Next]_vars
    PROVE  Stopping'
<1>1. ASSUME NEW r \in Requests, Arrive(r) \/ Cancelled(r) \/ Progress(r) PROVE Stopping'
  BY <1>1, StoppingSteps
<1>2. ASSUME NEW m \in Models, ChildReady(m) \/ ChildSleeps(m) \/ ChildWakes(m) \/ ChildExits(m)
      PROVE  Stopping'
  <2>1. PICK s \in Statuses : NewStatus(m, s)
    BY <1>2 DEF ChildReady, ChildSleeps, ChildWakes, ChildExits, Statuses
  <2> DEFINE stop == stopping_models \ {x \in {m} : s = "UNLOADED"}
  <2>2. status' = [status EXCEPT ![m] = s] /\ Ticked(status', req_count, stop, queue)
    BY <2>1 DEF NewStatus
  <2>3. stop \subseteq Running(status')
    BY <2>2 DEF Stopping, Registry, Running, IsRunning
  <2> HIDE DEF stop
  <2>4. stopping_models' \subseteq Running(status')
    BY <2>2, <2>3, TickStops
  <2> QED
    BY <2>4 DEF Stopping, Running, IsRunning
<1>3. CASE MeasureReports \/ MeasureExits
  BY <1>3, StoppingFrame DEF MeasureReports, MeasureExits, MonitorFrame
<1>4. CASE UnloadAll
  BY <1>4 DEF UnloadAll, CloseFrame, Stopping, Running, IsRunning
<1>5. CASE AllUnloaded \/ UNCHANGED vars
  BY <1>5, StoppingFrame DEF AllUnloaded, CloseFrame, vars, instVars
<1> QED
  BY <1>1, <1>2, <1>3, <1>4, <1>5 DEF Next

----------------------------------------------------------------------------
LEMMA VictimFrame ==
    ASSUME VictimInv, victim' = victim,
           \A r \in Requests : pc'[r] \in {"evict", "gone"} => pc[r] \in {"evict", "gone"}
    PROVE  VictimInv'
BY DEF VictimInv

LEMMA VictimMove ==
    ASSUME VictimInv, Placed, NEW r \in Requests, NEW l, pc' = [pc EXCEPT ![r] = l], victim' = victim,
           l \in {"evict", "gone"} => pc[r] = "evict"
    PROVE  VictimInv'
<1>1. \A x \in Requests : pc'[x] \in {"evict", "gone"} => pc[x] \in {"evict", "gone"}
  BY DEF Placed
<1> QED
  BY <1>1, VictimFrame

LEMMA VictimSteps ==
    ASSUME VictimInv, OrderInv, QueueInv, NEW r \in Requests, Arrive(r) \/ Cancelled(r) \/ Progress(r)
    PROVE  VictimInv'
<1> USE DEF Goto
<1>0. Placed /\ conf.kind[r] \in {"USE", "LOAD", "UNLOAD", "NONE"}
  BY ModelsSchedAssumption DEF QueueInv, ConfType
<1> DEFINE Still == /\ victim' = victim
                    /\ \E l \in RequestAt \ {"evict", "gone"} : pc' = [pc EXCEPT ![r] = l]
<1>1. Still => VictimInv'
  BY <1>0, VictimMove
<1>2. CASE Arrive(r) \/ CheckStop(r) \/ LookAgain(r) \/ Enqueue(r) \/ Claim(r)
  <2>1. victim' = victim
    BY <1>2 DEF Arrive, CheckStop, LookAgain, Enqueue, Claim, LookFrame, JoinFrame
  <2>2. \E l \in {"checkStop", "enqueue", "done", "load", "unload", "proxy", "count", "wait"} :
           pc' = [pc EXCEPT ![r] = l]
    BY <1>0, <1>2 DEF Arrive, CheckStop, LookAgain, Enqueue, Claim
  <2> QED
    BY <1>1, <2>1, <2>2 DEF RequestAt
<1>3. CASE StopWaiting(r) \/ SeeFailed(r) \/ Cancelled(r) \/ StartProxy(r) \/ EndProxy(r) \/ AfterLoad(r) \/ Unload(r)
  <2>1. victim' = victim
    BY <1>3 DEF StopWaiting, SeeFailed, Cancelled, GiveUp, StartProxy, EndProxy, AfterLoad, Unload, JoinFrame
  <2>2. \E l \in {"done", "proxy", "proxying", "wait"} : pc' = [pc EXCEPT ![r] = l]
    BY <1>3 DEF StopWaiting, SeeFailed, Cancelled, GiveUp, StartProxy, EndProxy, AfterLoad, Unload
  <2> QED
    BY <1>1, <2>1, <2>2 DEF RequestAt
<1>4. CASE JoinStopping(r) \/ SeeLoading(r)
  BY <1>4, VictimFrame DEF JoinStopping, SeeLoading, JoinFrame
<1>5. CASE StartLoad(r) \/ Measured(r)
  <2>1. victim' = victim
    BY <1>5 DEF StartLoad, Measured
  <2>2. \E l \in {"measure", "room"} : pc' = [pc EXCEPT ![r] = l]
    BY <1>5 DEF StartLoad, Measured
  <2> QED
    BY <1>1, <2>1, <2>2 DEF RequestAt
<1>6. CASE LoadRefused(r) \/ Spawn(r)
  <2>1. victim' = victim
    BY <1>6 DEF LoadRefused, Spawn
  <2>2. \E l \in {"done", "loaded", "notLoaded"} : pc' = [pc EXCEPT ![r] = l]
    BY <1>6 DEF LoadRefused, Spawn, LoadReturns
  <2> QED
    BY <1>1, <2>1, <2>2 DEF RequestAt
<1>7. CASE EvictVictim(r)
  <2>1. victim' = victim /\ pc[r] = "evict" /\ pc' = [pc EXCEPT ![r] = "gone"]
    BY <1>7 DEF EvictVictim
  <2> QED
    BY <1>0, <2>1, VictimMove
<1>8. CASE VictimGone(r)
  BY <1>0, <1>8 DEF VictimGone, VictimInv, Placed
<1>9. CASE MakeRoom(r)
  <2> DEFINE v == IF LimitsExceeded(Wanted(r)) THEN PickVictim ELSE NoModel
  <2>1. v \in Models \cup {NoModel}
    BY VictimIs DEF Victims
  <2>2. victim' = [victim EXCEPT ![r] = v] /\ pc' = [pc EXCEPT ![r] = IF v = NoModel THEN "spawn" ELSE "evict"]
    BY <1>9 DEF MakeRoom
  <2> HIDE DEF v
  <2> QED
    BY <1>0, <2>1, <2>2 DEF VictimInv, Placed
<1> QED
  BY <1>2, <1>3, <1>4, <1>5, <1>6, <1>7, <1>8, <1>9 DEF Progress

LEMMA VictimKept == ASSUME VictimInv, OrderInv, QueueInv, [Next]_vars PROVE VictimInv'
<1>1. ASSUME NEW r \in Requests, Arrive(r) \/ Cancelled(r) \/ Progress(r) PROVE VictimInv'
  BY <1>1, VictimSteps
<1>2. ASSUME NEW m \in Models, ChildReady(m) \/ ChildSleeps(m) \/ ChildWakes(m) \/ ChildExits(m)
      PROVE  VictimInv'
  BY <1>2, VictimFrame DEF ChildReady, ChildSleeps, ChildWakes, ChildExits, MonitorFrame, reqVars
<1>3. CASE MeasureReports \/ MeasureExits \/ UnloadAll \/ AllUnloaded \/ UNCHANGED vars
  BY <1>3, VictimFrame DEF MeasureReports, MeasureExits, UnloadAll, AllUnloaded, MonitorFrame, CloseFrame, vars, reqVars
<1> QED
  BY <1>1, <1>2, <1>3 DEF Next

----------------------------------------------------------------------------
(* The measure children.  A model is measured a second time at most, after  *)
(* an instance of it came up although the first attempt failed.             *)

MeasureStates == {"UNMEASURED", "MEASURING", "MEASURED", "FAILED"}

(* What the state of a model's measurement says of its attempts.            *)
AttemptsOf(ms, n) ==
    /\ ms \in [Models -> MeasureStates] /\ n \in [Models -> 0 .. 2]
    /\ \A m \in Models : /\ ms[m] = "UNMEASURED" => n[m] <= 1
                         /\ n[m] = 0 => ms[m] = "UNMEASURED"

MeasureInv ==
    /\ AttemptsOf(measure, n_attempts)
    /\ measure_queue \in Seq(Models) /\ measuring \in Models \cup {NoModel}
    /\ known \in BOOLEAN
    /\ \A m \in Models : measure[m] = "MEASURED" => known

(* The first attempt is over.                                               *)
SettledOf(ms, n, m) ==
    \/ ms[m] \in {"MEASURED", "FAILED"}
    \/ ms[m] = "UNMEASURED" /\ n[m] = 1
    \/ ms[m] = "MEASURING" /\ n[m] = 2

(* A step of the measuring: what is settled stays so, and a model that is   *)
(* then measured at its first attempt was so before or was not settled.     *)
First(ms, n, m) == ms[m] = "MEASURED" /\ n[m] = 1

MeasureGoesOn ==
    \A m \in Models :
        SettledOf(measure, n_attempts, m) =>
            /\ SettledOf(measure', n_attempts', m)
            /\ First(measure', n_attempts', m) => First(measure, n_attempts, m)

LEMMA MeasureNextDoes ==
    ASSUME NEW q \in Seq(Models), NEW ms, NEW current \in Models \cup {NoModel}, AttemptsOf(ms, n_attempts),
           MeasureNext(q, ms, current)
    PROVE  /\ AttemptsOf(measure', n_attempts')
           /\ measure_queue' \in Seq(Models) /\ measuring' \in Models \cup {NoModel}
           /\ \A m \in Models : measure'[m] = "MEASURED" => ms[m] = "MEASURED"
           /\ \A m \in Models :
                 SettledOf(ms, n_attempts, m) =>
                     /\ SettledOf(measure', n_attempts', m)
                     /\ First(measure', n_attempts', m) => First(ms, n_attempts, m)
<1>1. DOMAIN q = 1 .. Len(q) /\ Len(q) \in Nat /\ \A i \in DOMAIN q : q[i] \in Models
  BY LenProperties, ElementOfSeq
<1>2. CASE current # NoModel \/ \A i \in DOMAIN q : ms[q[i]] # "UNMEASURED"
  <2>1. /\ measuring' = current /\ measure' = ms /\ n_attempts' = n_attempts
        /\ measure_queue' = IF current # NoModel THEN q ELSE <<>>
    BY <1>2 DEF MeasureNext
  <2>2. measure_queue' \in Seq(Models)
    BY <2>1, EmptySeq
  <2> QED
    BY <2>1, <2>2
<1>3. CASE ~(current # NoModel \/ \A i \in DOMAIN q : ms[q[i]] # "UNMEASURED")
  <2> DEFINE k == CHOOSE i \in DOMAIN q :
                     ms[q[i]] = "UNMEASURED" /\ \A j \in 1 .. (i - 1) : ms[q[j]] # "UNMEASURED"
  <2>1. /\ measuring' = q[k]
        /\ measure' = [ms EXCEPT ![q[k]] = "MEASURING"]
        /\ n_attempts' = [n_attempts EXCEPT ![q[k]] = @ + 1]
        /\ measure_queue' = SubSeq(q, k + 1, Len(q))
    BY <1>3 DEF MeasureNext
  <2>2. \E i \in DOMAIN q : ms[q[i]] = "UNMEASURED" /\ \A j \in 1 .. (i - 1) : ms[q[j]] # "UNMEASURED"
    <3> DEFINE P == {i \in DOMAIN q : ms[q[i]] = "UNMEASURED"}
    <3>1. P \in SUBSET Nat /\ P # {}
      BY <1>1, <1>3
    <3>2. PICK i \in P : \A j \in P : i <= j
      BY <3>1, LeastOf
    <3>3. \A j \in 1 .. (i - 1) : j \in DOMAIN q /\ ~(i <= j)
      BY <1>1, <3>1
    <3> QED
      BY <3>2, <3>3
  <2>3. k \in DOMAIN q /\ ms[q[k]] = "UNMEASURED"
    BY <2>2
  <2> HIDE DEF k
  <2>4. PICK x \in Models : x = q[k]
    BY <1>1, <2>3
  <2>5. ms[x] = "UNMEASURED" /\ n_attempts[x] \in 0 .. 1
    BY <2>3, <2>4 DEF AttemptsOf
  <2>6. /\ measure' = [ms EXCEPT ![x] = "MEASURING"] /\ measuring' = x
        /\ n_attempts' = [n_attempts EXCEPT ![x] = @ + 1]
    BY <2>1, <2>4
  <2>7. measure_queue' \in Seq(Models)
    <3>1. \A i \in (k + 1) .. Len(q) : q[i] \in Models
      BY <1>1, <2>3
    <3> QED
      BY <1>1, <2>1, <2>3, <3>1, SubSeqProperties
  <2>8. /\ measure'[x] = "MEASURING" /\ n_attempts'[x] = n_attempts[x] + 1
        /\ \A m \in Models : m # x => measure'[m] = ms[m] /\ n_attempts'[m] = n_attempts[m]
        /\ measure' \in [Models -> MeasureStates] /\ n_attempts' \in [Models -> 0 .. 2]
    BY <2>5, <2>6 DEF AttemptsOf, MeasureStates
  <2>9. AttemptsOf(measure', n_attempts')
    BY <2>5, <2>8 DEF AttemptsOf
  <2>10. ASSUME NEW m \in Models, SettledOf(ms, n_attempts, m)
         PROVE  /\ SettledOf(measure', n_attempts', m)
                /\ First(measure', n_attempts', m) => First(ms, n_attempts, m)
    BY <2>5, <2>8, <2>10 DEF SettledOf, First
  <2> QED
    BY <2>6, <2>7, <2>8, <2>9, <2>10
<1> QED
  BY <1>2, <1>3

LEMMA EnqueueMeasureDoes ==
    ASSUME NEW m \in Models, NEW front \in BOOLEAN, NEW ms, AttemptsOf(ms, n_attempts),
           measure_queue \in Seq(Models), measuring \in Models \cup {NoModel},
           EnqueueMeasure(m, front, ms)
    PROVE  /\ AttemptsOf(measure', n_attempts')
           /\ measure_queue' \in Seq(Models) /\ measuring' \in Models \cup {NoModel}
           /\ \A x \in Models : measure'[x] = "MEASURED" => ms[x] = "MEASURED"
           /\ \A x \in Models :
                 SettledOf(ms, n_attempts, x) =>
                     /\ SettledOf(measure', n_attempts', x)
                     /\ First(measure', n_attempts', x) => First(ms, n_attempts, x)
<1> DEFINE q == IF front THEN <<m>> \o Without(measure_queue, m) ELSE Append(measure_queue, m)
<1>1. q \in Seq(Models)
  <2>1. <<m>> \in Seq(Models) /\ Without(measure_queue, m) \in Seq(Models)
    BY WithoutIs
  <2> QED
    BY <2>1, ConcatProperties, AppendProperties
<1> HIDE DEF q
<1>2. CASE measure' = ms /\ UNCHANGED <<n_attempts, measure_queue, measuring>>
  BY <1>2
<1>3. CASE MeasureNext(q, ms, measuring)
  BY <1>1, <1>3, MeasureNextDoes
<1> QED
  BY <1>2, <1>3 DEF EnqueueMeasure, q

(* A step that leaves the measuring alone.                                  *)
LEMMA MeasureFrame ==
    ASSUME MeasureInv, UNCHANGED <<measureVars, known>>
    PROVE  MeasureInv' /\ MeasureGoesOn
BY DEF MeasureInv, MeasureGoesOn, measureVars, AttemptsOf, SettledOf, First

LEMMA MeasureReady ==
    ASSUME MeasureInv, NEW m \in Models, ChildReady(m)
    PROVE  MeasureInv' /\ MeasureGoesOn
<1>1. CASE UNCHANGED measureVars /\ known' \in BOOLEAN /\ (known => known')
  BY <1>1 DEF MeasureInv, MeasureGoesOn, measureVars, AttemptsOf, SettledOf, First
<1>2. CASE /\ known' = TRUE /\ measure[m] = "FAILED" /\ n_attempts[m] < 2
           /\ EnqueueMeasure(m, FALSE, [measure EXCEPT ![m] = "UNMEASURED"])
  <2> DEFINE ms == [measure EXCEPT ![m] = "UNMEASURED"]
  <2>1. n_attempts[m] = 1
    BY <1>2 DEF MeasureInv, AttemptsOf
  <2>2. AttemptsOf(ms, n_attempts)
    BY <2>1 DEF MeasureInv, AttemptsOf, MeasureStates
  <2>3. \A x \in Models : SettledOf(measure, n_attempts, x) =>
           SettledOf(ms, n_attempts, x) /\ (First(ms, n_attempts, x) => First(measure, n_attempts, x))
    BY <2>1 DEF SettledOf, First, MeasureInv, AttemptsOf
  <2>4. EnqueueMeasure(m, FALSE, ms)
    BY <1>2
  <2>5. measure_queue \in Seq(Models) /\ measuring \in Models \cup {NoModel}
    BY DEF MeasureInv
  <2> HIDE DEF ms
  <2>6. /\ AttemptsOf(measure', n_attempts')
        /\ measure_queue' \in Seq(Models) /\ measuring' \in Models \cup {NoModel}
        /\ \A x \in Models :
              SettledOf(ms, n_attempts, x) =>
                  /\ SettledOf(measure', n_attempts', x)
                  /\ First(measure', n_attempts', x) => First(ms, n_attempts, x)
    BY <2>2, <2>4, <2>5, EnqueueMeasureDoes
  <2> QED
    BY <1>2, <2>3, <2>6 DEF MeasureInv, MeasureGoesOn
<1> QED
  BY <1>1, <1>2 DEF ChildReady, memVars, MeasureInv

LEMMA MeasureSteps ==
    ASSUME MeasureInv, QueueInv, [Next]_vars
    PROVE  MeasureInv' /\ MeasureGoesOn
<1>1. ASSUME NEW r \in Requests, Arrive(r) \/ Cancelled(r) \/ Progress(r) PROVE MeasureInv' /\ MeasureGoesOn
  <2>1. CASE StartLoad(r)
    <3>1. known' = known /\ Wanted(r) \in Models
      BY <2>1, ConfTyped DEF StartLoad, memVars, QueueInv
    <3>2. CASE UNCHANGED measureVars
      BY <3>1, <3>2, MeasureFrame
    <3>3. CASE EnqueueMeasure(Wanted(r), TRUE, measure)
      <4>1. AttemptsOf(measure, n_attempts) /\ measure_queue \in Seq(Models) /\ measuring \in Models \cup {NoModel}
        BY DEF MeasureInv
      <4>2. /\ AttemptsOf(measure', n_attempts')
            /\ measure_queue' \in Seq(Models) /\ measuring' \in Models \cup {NoModel}
            /\ \A x \in Models : measure'[x] = "MEASURED" => measure[x] = "MEASURED"
            /\ MeasureGoesOn
        BY <3>1, <3>3, <4>1, EnqueueMeasureDoes DEF MeasureGoesOn
      <4> QED
        BY <3>1, <4>2 DEF MeasureInv
    <3> QED
      BY <2>1, <3>2, <3>3 DEF StartLoad
  <2>2. CASE Spawn(r)
    BY <2>2, MeasureFrame DEF Spawn
  <2>3. CASE Arrive(r) \/ CheckStop(r) \/ SeeLoading(r) \/ LookAgain(r)
    BY <2>3, MeasureFrame DEF Arrive, CheckStop, SeeLoading, LookAgain, LookFrame, memVars
  <2>4. CASE Cancelled(r) \/ Enqueue(r) \/ JoinStopping(r) \/ StopWaiting(r) \/ SeeFailed(r) \/ Claim(r)
    BY <2>4, MeasureFrame DEF Cancelled, Enqueue, JoinStopping, StopWaiting, SeeFailed, Claim, GiveUp, JoinFrame,
                              memVars
  <2>5. CASE Measured(r) \/ MakeRoom(r) \/ EvictVictim(r) \/ VictimGone(r) \/ LoadRefused(r)
    BY <2>5, MeasureFrame DEF Measured, MakeRoom, EvictVictim, VictimGone, LoadRefused, LoadFrame, memVars
  <2>6. CASE AfterLoad(r) \/ Unload(r) \/ StartProxy(r) \/ EndProxy(r)
    BY <2>6, MeasureFrame DEF AfterLoad, Unload, StartProxy, EndProxy, memVars
  <2> QED
    BY <1>1, <2>1, <2>2, <2>3, <2>4, <2>5, <2>6 DEF Progress
<1>2. ASSUME NEW m \in Models, ChildReady(m) PROVE MeasureInv' /\ MeasureGoesOn
  BY <1>2, MeasureReady
<1>3. ASSUME NEW m \in Models, ChildSleeps(m) \/ ChildWakes(m) \/ ChildExits(m)
      PROVE  MeasureInv' /\ MeasureGoesOn
  BY <1>3, MeasureFrame DEF ChildSleeps, ChildWakes, ChildExits, memVars
<1>4. CASE MeasureReports
  <2>1. PICK s \in {"MEASURED", "FAILED"} : measure' = [measure EXCEPT ![measuring] = s]
    BY <1>4 DEF MeasureReports
  <2>2. PICK x \in Models : x = measuring
    BY <1>4 DEF MeasureReports, MeasureInv
  <2>3. /\ measure[x] = "MEASURING" /\ measure' = [measure EXCEPT ![x] = s]
        /\ known' = (known \/ measure'[x] = "MEASURED")
        /\ UNCHANGED <<n_attempts, measure_queue, measuring>>
    BY <1>4, <2>1, <2>2 DEF MeasureReports
  <2>4. n_attempts[x] \in 1 .. 2
    BY <2>3 DEF MeasureInv, AttemptsOf
  <2>5. /\ measure'[x] = s /\ measure' \in [Models -> MeasureStates]
        /\ \A m \in Models : m # x => measure'[m] = measure[m]
    BY <2>3 DEF MeasureInv, AttemptsOf, MeasureStates
  <2>6. AttemptsOf(measure', n_attempts')
    BY <2>3, <2>4, <2>5 DEF MeasureInv, AttemptsOf
  <2>7. MeasureGoesOn
    BY <2>3, <2>4, <2>5 DEF MeasureGoesOn, SettledOf, First
  <2>8. known' \in BOOLEAN /\ \A m \in Models : measure'[m] = "MEASURED" => known'
    BY <2>3, <2>5 DEF MeasureInv
  <2> QED
    BY <2>3, <2>6, <2>7, <2>8 DEF MeasureInv
<1>5. CASE MeasureExits
  <2> DEFINE ms == [measure EXCEPT ![measuring] = IF @ = "MEASURING" THEN "FAILED" ELSE @]
  <2>1. measuring \in Models /\ measuring # NoModel /\ MeasureNext(measure_queue, ms, NoModel) /\ known' = known
    BY <1>5 DEF MeasureExits, MeasureInv, memVars
  <2>2. \A m \in Models : ms[m] = IF m = measuring /\ measure[m] = "MEASURING" THEN "FAILED" ELSE measure[m]
    BY <2>1 DEF MeasureInv, AttemptsOf
  <2>3. ms \in [Models -> MeasureStates]
    BY <2>1 DEF MeasureInv, AttemptsOf, MeasureStates
  <2> HIDE DEF ms
  <2>4. AttemptsOf(ms, n_attempts)
    BY <2>2, <2>3 DEF MeasureInv, AttemptsOf
  <2>5. \A x \in Models : SettledOf(measure, n_attempts, x) =>
           SettledOf(ms, n_attempts, x) /\ (First(ms, n_attempts, x) => First(measure, n_attempts, x))
    BY <2>2 DEF SettledOf, First
  <2>6. measure_queue \in Seq(Models)
    BY DEF MeasureInv
  <2>7. /\ AttemptsOf(measure', n_attempts')
        /\ measure_queue' \in Seq(Models) /\ measuring' \in Models \cup {NoModel}
        /\ \A m \in Models : measure'[m] = "MEASURED" => ms[m] = "MEASURED"
        /\ \A m \in Models :
              SettledOf(ms, n_attempts, m) =>
                  /\ SettledOf(measure', n_attempts', m)
                  /\ First(measure', n_attempts', m) => First(ms, n_attempts, m)
    BY <2>1, <2>4, <2>6, MeasureNextDoes
  <2>8. \A m \in Models : measure'[m] = "MEASURED" => known
    BY <2>2, <2>7 DEF MeasureInv
  <2> QED
    BY <2>1, <2>5, <2>7, <2>8 DEF MeasureInv, MeasureGoesOn
<1>6. CASE UnloadAll
  <2>1. UNCHANGED <<measure, n_attempts, measuring, known>> /\ measure_queue' = <<>>
    BY <1>6 DEF UnloadAll, CloseFrame, memVars
  <2> QED
    BY <2>1, EmptySeq DEF MeasureInv, MeasureGoesOn, AttemptsOf, SettledOf, First
<1>7. CASE AllUnloaded \/ UNCHANGED vars
  BY <1>7, MeasureFrame DEF AllUnloaded, CloseFrame, vars, memVars, measureVars
<1> QED
  BY <1>1, <1>2, <1>3, <1>4, <1>5, <1>6, <1>7 DEF Next

LEMMA MeasureInitially == ASSUME Init PROVE MeasureInv
<1> DEFINE first == IF MemoryEnabled /\ conf.models # {} THEN Head(last_used) ELSE NoModel
<1>1. /\ measuring = first /\ measure = [m \in Models |-> IF m = first THEN "MEASURING" ELSE "UNMEASURED"]
      /\ n_attempts = [m \in Models |-> IF m = first THEN 1 ELSE 0]
      /\ measure_queue = IF first # NoModel THEN Tail(last_used) ELSE <<>>
      /\ known = FALSE
  BY DEF Init
<1>2. last_used \in Seq(Models) /\ ToSet(last_used) = conf.models
  BY OrderInitially DEF OrderInv
<1>3. first \in Models \cup {NoModel} /\ (first # NoModel => Tail(last_used) \in Seq(Models))
  <2> SUFFICES ASSUME first # NoModel PROVE first \in Models /\ Tail(last_used) \in Seq(Models)
    OBVIOUS
  <2>1. last_used # <<>> /\ first = Head(last_used)
    BY <1>2 DEF ToSet
  <2> HIDE DEF first
  <2> QED
    BY <1>2, <2>1, HeadTailProperties
<1> HIDE DEF first
<1>4. measure_queue \in Seq(Models)
  BY <1>1, <1>3, EmptySeq
<1>5. /\ measure \in [Models -> MeasureStates] /\ n_attempts \in [Models -> 0 .. 2]
      /\ \A m \in Models : IF m = first THEN measure[m] = "MEASURING" /\ n_attempts[m] = 1
                           ELSE measure[m] = "UNMEASURED" /\ n_attempts[m] = 0
  BY <1>1 DEF MeasureStates
<1>6. AttemptsOf(measure, n_attempts)
  <2> SUFFICES ASSUME NEW m \in Models
               PROVE  /\ measure[m] = "UNMEASURED" => n_attempts[m] <= 1
                      /\ n_attempts[m] = 0 => measure[m] = "UNMEASURED"
    BY <1>5 DEF AttemptsOf
  <2> QED
    BY <1>5
<1>7. known = FALSE /\ measuring \in Models \cup {NoModel} /\ \A m \in Models : measure[m] # "MEASURED"
  BY <1>1, <1>3
<1> QED
  BY <1>4, <1>6, <1>7 DEF MeasureInv

----------------------------------------------------------------------------
(* The flags.                                                               *)
FlagInv ==
    /\ failed \in [Models -> BOOLEAN] /\ effective \in [Models -> BOOLEAN]
    /\ did_load \in [Requests -> BOOLEAN] /\ saw_loading \in [Requests -> BOOLEAN]
    /\ orphans \subseteq Requests /\ main \in {"serving", "closing", "closed"}

LEMMA FlagFrame ==
    ASSUME FlagInv, UNCHANGED <<failed, effective, did_load, saw_loading, orphans, main>>
    PROVE  FlagInv'
BY DEF FlagInv

LEMMA FlagInitially == ASSUME Init PROVE FlagInv
BY DEF Init, FlagInv

LEMMA FlagKept == ASSUME FlagInv, [Next]_vars PROVE FlagInv'
<1>1. ASSUME NEW r \in Requests, Arrive(r) \/ Cancelled(r) \/ Progress(r) PROVE FlagInv'
  <2>1. CASE Arrive(r) \/ CheckStop(r) \/ LookAgain(r)
    BY <2>1, FlagFrame DEF Arrive, CheckStop, LookAgain, LookFrame, instVars, memVars
  <2>2. CASE Cancelled(r) \/ Enqueue(r) \/ JoinStopping(r) \/ StopWaiting(r) \/ SeeFailed(r) \/ Claim(r)
    BY <2>2, FlagFrame DEF Cancelled, Enqueue, JoinStopping, StopWaiting, SeeFailed, Claim, GiveUp, JoinFrame,
                           memVars
  <2>3. CASE StartLoad(r) \/ Measured(r) \/ MakeRoom(r) \/ EvictVictim(r) \/ VictimGone(r) \/ LoadRefused(r)
    BY <2>3, FlagFrame DEF StartLoad, Measured, MakeRoom, EvictVictim, VictimGone, LoadRefused, LoadFrame,
                           instVars, memVars
  <2>4. CASE Spawn(r) \/ Unload(r) \/ EndProxy(r)
    BY <2>4, FlagFrame DEF Spawn, Unload, EndProxy, LoadFrame, memVars
  <2>5. CASE SeeLoading(r)
    BY <2>5 DEF SeeLoading, FlagInv, instVars, memVars
  <2>6. CASE AfterLoad(r)
    BY <2>6 DEF AfterLoad, FlagInv, memVars
  <2>7. CASE StartProxy(r)
    BY <2>7 DEF StartProxy, FlagInv, memVars
  <2> QED
    BY <1>1, <2>1, <2>2, <2>3, <2>4, <2>5, <2>6, <2>7 DEF Progress
<1>2. ASSUME NEW m \in Models, ChildReady(m) PROVE FlagInv'
  <2>1. UNCHANGED <<failed, did_load, saw_loading, orphans, main>>
    BY <1>2 DEF ChildReady, MonitorFrame, reqVars
  <2>2. effective' = effective \/ effective' = [effective EXCEPT ![m] = TRUE]
    BY <1>2 DEF ChildReady, memVars
  <2>3. effective' \in [Models -> BOOLEAN]
    BY <2>2 DEF FlagInv
  <2> QED
    BY <2>1, <2>3 DEF FlagInv
<1>3. ASSUME NEW m \in Models, ChildSleeps(m) \/ ChildWakes(m) PROVE FlagInv'
  BY <1>3, FlagFrame DEF ChildSleeps, ChildWakes, MonitorFrame, reqVars, memVars
<1>4. ASSUME NEW m \in Models, ChildExits(m) PROVE FlagInv'
  <2>1. UNCHANGED <<did_load, saw_loading, main>> /\ effective' = [effective EXCEPT ![m] = FALSE]
        /\ orphans' = orphans \cup Live(m)
    BY <1>4 DEF ChildExits, MonitorFrame, reqVars
  <2>2. failed' = failed \/ \E b \in BOOLEAN : failed' = [failed EXCEPT ![m] = b]
    BY <1>4 DEF ChildExits, FlagInv
  <2>3. failed' \in [Models -> BOOLEAN] /\ effective' \in [Models -> BOOLEAN] /\ Live(m) \subseteq Requests
    BY <2>1, <2>2 DEF FlagInv, Live, Proxied
  <2> QED
    BY <2>1, <2>3 DEF FlagInv
<1>5. CASE MeasureReports \/ MeasureExits
  BY <1>5, FlagFrame DEF MeasureReports, MeasureExits, MonitorFrame, reqVars, memVars
<1>6. CASE UnloadAll \/ AllUnloaded
  BY <1>6 DEF UnloadAll, AllUnloaded, CloseFrame, reqVars, memVars, FlagInv
<1>7. CASE UNCHANGED vars
  BY <1>7, FlagFrame DEF vars, instVars, memVars, reqVars
<1> QED
  BY <1>1, <1>2, <1>3, <1>4, <1>5, <1>6, <1>7 DEF Next

----------------------------------------------------------------------------
(* Memory.  A load waits for the measurement, so that what runs, and what   *)
(* is about to, has its first attempt behind it.                            *)

SettledInv ==
    MemoryEnabled =>
        /\ \A m \in Running(status) : SettledOf(measure, n_attempts, m)
        /\ \A r \in Requests :
              pc[r] \in {"room", "evict", "gone", "spawn"} => SettledOf(measure, n_attempts, Wanted(r))

LEMMA SettledFrame ==
    ASSUME SettledInv, MeasureGoesOn, conf \in Confs, conf' = conf,
           \A m \in Models : IsRunning(status', m) => IsRunning(status, m),
           \A r \in Requests : pc'[r] \in {"room", "evict", "gone", "spawn"} =>
                                   pc[r] \in {"room", "evict", "gone", "spawn"}
    PROVE  SettledInv'
<1>1. MemoryEnabled' = MemoryEnabled /\ \A r \in Requests : Wanted(r)' = Wanted(r) /\ Wanted(r) \in Models
  BY ConfTyped DEF MemoryEnabled, Wanted
<1>2. Running(status)' \subseteq Running(status) /\ Running(status) \subseteq Models
  BY DEF Running, IsRunning
<1> QED
  BY <1>1, <1>2 DEF SettledInv, MeasureGoesOn, SettledOf

(* A request that goes on.                                                  *)
LEMMA SettledMove ==
    ASSUME SettledInv, MeasureGoesOn, QueueInv, conf' = conf, status' = status, NEW r \in Requests, NEW l,
           pc' = [pc EXCEPT ![r] = l],
           l \in {"room", "evict", "gone", "spawn"} =>
               \/ ~MemoryEnabled \/ pc[r] \in {"room", "evict", "gone", "spawn"}
               \/ SettledOf(measure', n_attempts', Wanted(r))
    PROVE  SettledInv'
<1>1. MemoryEnabled' = MemoryEnabled /\ \A x \in Requests : Wanted(x)' = Wanted(x) /\ Wanted(x) \in Models
  BY ConfTyped DEF MemoryEnabled, Wanted, QueueInv
<1>2. Running(status)' = Running(status) /\ Running(status) \subseteq Models
  BY DEF Running, IsRunning
<1>3. pc \in [Requests -> RequestAt]
  BY DEF QueueInv, Placed
<1> SUFFICES ASSUME MemoryEnabled
             PROVE  /\ \A m \in Running(status) : SettledOf(measure', n_attempts', m)
                    /\ \A x \in Requests : pc'[x] \in {"room", "evict", "gone", "spawn"} =>
                                               SettledOf(measure', n_attempts', Wanted(x))
  BY <1>1, <1>2 DEF SettledInv, SettledOf
<1>4. \A m \in Running(status) : SettledOf(measure', n_attempts', m)
  BY <1>2 DEF SettledInv, MeasureGoesOn
<1>5. ASSUME NEW x \in Requests, pc'[x] \in {"room", "evict", "gone", "spawn"}
      PROVE  SettledOf(measure', n_attempts', Wanted(x))
  <2>1. pc[x] \in {"room", "evict", "gone", "spawn"} \/ x = r
    BY <1>3, <1>5
  <2>2. pc[x] \in {"room", "evict", "gone", "spawn"} => SettledOf(measure', n_attempts', Wanted(x))
    BY <1>1 DEF SettledInv, MeasureGoesOn
  <2> QED
    BY <1>3, <1>5, <2>1, <2>2
<1> QED
  BY <1>4, <1>5

LEMMA SettledSteps ==
    ASSUME SettledInv, MeasureInv, MeasureGoesOn, QueueInv, Registry, NEW r \in Requests,
           Arrive(r) \/ Cancelled(r) \/ Progress(r)
    PROVE  SettledInv'
<1> USE DEF Goto
<1>0. Placed /\ conf \in Confs /\ conf.kind[r] \in {"USE", "LOAD", "UNLOAD", "NONE"}
  BY ModelsSchedAssumption DEF QueueInv, ConfType
<1> DEFINE Still == /\ conf' = conf /\ status' = status
                    /\ \E l \in RequestAt \ {"room", "evict", "gone", "spawn"} : pc' = [pc EXCEPT ![r] = l]
<1>1. Still => SettledInv'
  BY SettledMove
<1>2. CASE Arrive(r) \/ CheckStop(r) \/ LookAgain(r) \/ Enqueue(r) \/ Claim(r)
  <2>1. conf' = conf /\ status' = status
    BY <1>2 DEF Arrive, CheckStop, LookAgain, Enqueue, Claim, LookFrame, JoinFrame, instVars
  <2>2. \E l \in {"checkStop", "enqueue", "done", "load", "unload", "proxy", "count", "wait"} :
           pc' = [pc EXCEPT ![r] = l]
    BY <1>0, <1>2 DEF Arrive, CheckStop, LookAgain, Enqueue, Claim
  <2> QED
    BY <1>1, <2>1, <2>2 DEF RequestAt
<1>3. CASE StopWaiting(r) \/ SeeFailed(r) \/ Cancelled(r) \/ StartProxy(r) \/ EndProxy(r) \/ AfterLoad(r) \/ Unload(r)
  <2>1. conf' = conf /\ status' = status
    BY <1>3 DEF StopWaiting, SeeFailed, Cancelled, GiveUp, StartProxy, EndProxy, AfterLoad, Unload, JoinFrame, LoadFrame
  <2>2. \E l \in {"done", "proxy", "proxying", "wait"} : pc' = [pc EXCEPT ![r] = l]
    BY <1>3 DEF StopWaiting, SeeFailed, Cancelled, GiveUp, StartProxy, EndProxy, AfterLoad, Unload
  <2> QED
    BY <1>1, <2>1, <2>2 DEF RequestAt
<1>4. CASE JoinStopping(r) \/ SeeLoading(r)
  BY <1>0, <1>4, SettledFrame DEF JoinStopping, SeeLoading, JoinFrame, instVars
<1>5. CASE StartLoad(r)
  <2>1. conf' = conf /\ status' = status
    BY <1>5 DEF StartLoad, LoadFrame, instVars
  <2>2. \E l \in {"measure", "room"} : pc' = [pc EXCEPT ![r] = l] /\ (l = "room" => ~MemoryEnabled)
    BY <1>5 DEF StartLoad
  <2> QED
    BY <2>1, <2>2, SettledMove
<1>6. CASE Measured(r)
  <2>1. conf' = conf /\ status' = status /\ pc' = [pc EXCEPT ![r] = "room"]
        /\ measure' = measure /\ n_attempts' = n_attempts /\ measure[Wanted(r)] \in {"MEASURED", "FAILED"}
    BY <1>6 DEF Measured, LoadFrame, instVars, measureVars
  <2>2. SettledOf(measure', n_attempts', Wanted(r))
    BY <2>1 DEF SettledOf
  <2> QED
    BY <2>1, <2>2, SettledMove
<1>7. CASE MakeRoom(r) \/ EvictVictim(r) \/ VictimGone(r)
  <2>1. conf' = conf /\ status' = status /\ pc[r] \in {"room", "evict", "gone"}
    BY <1>7 DEF MakeRoom, EvictVictim, VictimGone, LoadFrame, instVars
  <2>2. \E l : pc' = [pc EXCEPT ![r] = l]
    BY <1>7 DEF MakeRoom, EvictVictim, VictimGone
  <2> QED
    BY <2>1, <2>2, SettledMove
<1>8. CASE LoadRefused(r)
  <2>1. conf' = conf /\ status' = status
    BY <1>8 DEF LoadRefused, LoadFrame, instVars
  <2>2. \E l \in {"done", "loaded", "notLoaded"} : pc' = [pc EXCEPT ![r] = l]
    BY <1>8 DEF LoadRefused, LoadReturns
  <2> QED
    BY <1>1, <2>1, <2>2 DEF RequestAt
<1>9. CASE Spawn(r)
  <2>1. /\ conf' = conf /\ pc[r] = "spawn" /\ status' = [status EXCEPT ![Wanted(r)] = "LOADING"]
        /\ measure' = measure /\ n_attempts' = n_attempts
    BY <1>9 DEF Spawn, LoadFrame, measureVars
  <2>2. \E l \in {"done", "loaded", "notLoaded"} : pc' = [pc EXCEPT ![r] = l]
    BY <1>9 DEF Spawn, LoadReturns
  <2>3. \A x \in Requests : pc'[x] \in {"room", "evict", "gone", "spawn"} =>
                                pc[x] \in {"room", "evict", "gone", "spawn"}
    BY <1>0, <2>2 DEF Placed
  <2>4. Running(status)' \subseteq Running(status) \cup {Wanted(r)}
    BY <2>1 DEF Running, IsRunning, Registry
  <2>5. MemoryEnabled' = MemoryEnabled /\ \A x \in Requests : Wanted(x)' = Wanted(x)
    BY <2>1 DEF MemoryEnabled, Wanted
  <2> QED
    BY <2>1, <2>3, <2>4, <2>5, ZenonT(40) DEF SettledInv, SettledOf
<1> QED
  BY <1>2, <1>3, <1>4, <1>5, <1>6, <1>7, <1>8, <1>9 DEF Progress

LEMMA SettledKept ==
    ASSUME SettledInv, MeasureInv, QueueInv, Registry, [Next]_vars
    PROVE  SettledInv'
<1>0. MeasureGoesOn /\ conf \in Confs
  BY MeasureSteps DEF Registry
<1>1. ASSUME NEW r \in Requests, Arrive(r) \/ Cancelled(r) \/ Progress(r) PROVE SettledInv'
  BY <1>0, <1>1, SettledSteps
<1>2. ASSUME NEW m \in Models, ChildReady(m) \/ ChildSleeps(m) \/ ChildWakes(m) \/ ChildExits(m)
      PROVE  SettledInv'
  <2>1. conf' = conf /\ pc' = pc /\ IsRunning(status, m)
    BY <1>2 DEF ChildReady, ChildSleeps, ChildWakes, ChildExits, MonitorFrame, reqVars, IsRunning
  <2>2. \E s : status' = [status EXCEPT ![m] = s]
    BY <1>2 DEF ChildReady, ChildSleeps, ChildWakes, ChildExits, NewStatus
  <2>3. \A x \in Models : IsRunning(status', x) => IsRunning(status, x)
    BY <2>1, <2>2 DEF IsRunning, Registry
  <2> QED
    BY <1>0, <2>1, <2>3, SettledFrame
<1>3. CASE MeasureReports \/ MeasureExits
  BY <1>0, <1>3, SettledFrame DEF MeasureReports, MeasureExits, MonitorFrame, reqVars
<1>4. CASE UnloadAll \/ AllUnloaded
  BY <1>0, <1>4, SettledFrame DEF UnloadAll, AllUnloaded, CloseFrame, reqVars
<1>5. CASE UNCHANGED vars
  BY <1>0, <1>5, SettledFrame DEF vars, reqVars, instVars
<1> QED
  BY <1>1, <1>2, <1>3, <1>4, <1>5 DEF Next

LEMMA SettledInitially == ASSUME Init PROVE SettledInv
BY DEF Init, SettledInv, Running, IsRunning

----------------------------------------------------------------------------
(* The memory counted for an instance: none for one that is down, and what  *)
(* the model needs for one whose need was known before it came up.          *)

HeldInv ==
    /\ held \in [Models -> Nat]
    /\ MemoryEnabled =>
          \A m \in Models :
              /\ ~IsRunning(status, m) => held[m] = 0
              /\ m \in Counted /\ ~conf.sleeps => held[m] = conf.need[m]

LEMMA NeedTyped ==
    ASSUME conf \in Confs
    PROVE  conf.total \in Nat /\ conf.need \in [Models -> Nat \ {0}]
BY ModelsSchedAssumption DEF ConfType

LEMMA ReserveIs ==
    ASSUME conf \in Confs, NEW h \in [Models -> Nat], NEW eff, NEW m \in Models
    PROVE  /\ Reserve(h, eff, m) \in [Models -> Nat]
           /\ \A x \in Models : x # m => Reserve(h, eff, m)[x] = h[x]
           /\ h[m] # 0 => Reserve(h, eff, m)[m] = h[m]
           /\ h[m] = 0 /\ (eff[m] \/ measure[m] = "MEASURED") => Reserve(h, eff, m)[m] = conf.need[m]
BY NeedTyped DEF Reserve

(* Of the models that run already, none joins those counted.                *)
LEMMA CountedStays ==
    ASSUME SettledInv, MeasureGoesOn, MemoryEnabled, NEW m \in Models, IsRunning(status, m), m \in Counted'
    PROVE  m \in Counted
BY DEF SettledInv, MeasureGoesOn, Counted, First, Running

LEMMA HeldFrame ==
    ASSUME HeldInv, SettledInv, MeasureGoesOn, UNCHANGED <<conf, held>>,
           \A m \in Models : IsRunning(status', m) = IsRunning(status, m)
    PROVE  HeldInv'
<1>1. MemoryEnabled' = MemoryEnabled
  BY DEF MemoryEnabled
<1>2. \A m \in Models : IsRunning(status, m)' = IsRunning(status', m) /\ (m \in Counted' => IsRunning(status', m))
  BY DEF Counted, Running, IsRunning
<1> QED
  BY <1>1, <1>2, CountedStays DEF HeldInv

(* One instance changes.                                                    *)
LEMMA HeldOne ==
    ASSUME HeldInv, SettledInv, MeasureGoesOn, conf' = conf, NEW m \in Models, held' \in [Models -> Nat],
           \A x \in Models : x # m => held'[x] = held[x] /\ IsRunning(status', x) = IsRunning(status, x),
           MemoryEnabled => /\ ~IsRunning(status', m) => held'[m] = 0
                            /\ m \in Counted' /\ ~conf.sleeps => held'[m] = conf.need[m]
    PROVE  HeldInv'
<1>1. MemoryEnabled' = MemoryEnabled
  BY DEF MemoryEnabled
<1>2. \A x \in Models : IsRunning(status, x)' = IsRunning(status', x) /\ (x \in Counted' => IsRunning(status', x))
  BY DEF Counted, Running, IsRunning
<1> SUFFICES ASSUME MemoryEnabled, NEW x \in Models
             PROVE  /\ ~IsRunning(status', x) => held'[x] = 0
                    /\ x \in Counted' /\ ~conf.sleeps => held'[x] = conf.need[x]
  BY <1>1, <1>2 DEF HeldInv
<1>3. CASE x = m
  BY <1>3
<1>4. CASE x # m
  <2>1. x \in Counted' => x \in Counted
    BY <1>2, <1>4, CountedStays
  <2> QED
    BY <1>4, <2>1 DEF HeldInv
<1> QED
  BY <1>3, <1>4

LEMMA HeldSpawn ==
    ASSUME HeldInv, SettledInv, MeasureGoesOn, Registry, NEW r \in Requests, Spawn(r)
    PROVE  HeldInv'
<1> DEFINE w == Wanted(r)
<1>1. w \in Models /\ conf \in Confs
  BY ConfTyped DEF Registry
<1>2. /\ conf' = conf /\ status[w] = "UNLOADED" /\ status' = [status EXCEPT ![w] = "LOADING"]
      /\ held' = Reserve(held, effective, w) /\ measure' = measure
  BY DEF Spawn, LoadFrame, measureVars
<1> HIDE DEF w
<1>3. held \in [Models -> Nat] /\ (MemoryEnabled => held[w] = 0)
  BY <1>1, <1>2 DEF HeldInv, IsRunning
<1>4. /\ held' \in [Models -> Nat]
      /\ \A x \in Models : x # w => held'[x] = held[x]
      /\ held[w] = 0 /\ measure[w] = "MEASURED" => held'[w] = conf.need[w]
  BY <1>1, <1>2, <1>3, ReserveIs
<1>5. \A x \in Models : x # w => IsRunning(status', x) = IsRunning(status, x)
  BY <1>1, <1>2 DEF IsRunning, Registry
<1>6. IsRunning(status', w) /\ (w \in Counted' => measure[w] = "MEASURED")
  BY <1>1, <1>2 DEF IsRunning, Registry, Counted
<1> QED
  BY <1>1, <1>2, <1>3, <1>4, <1>5, <1>6, HeldOne

LEMMA HeldReady ==
    ASSUME HeldInv, SettledInv, MeasureGoesOn, Registry, FlagInv, NEW m \in Models, ChildReady(m)
    PROVE  HeldInv'
<1>1. conf \in Confs /\ conf' = conf /\ status[m] = "LOADING" /\ status' = [status EXCEPT ![m] = "LOADED"]
  BY DEF ChildReady, MonitorFrame, NewStatus, Registry
<1>2. \A x \in Models : IsRunning(status', x) = IsRunning(status, x)
  BY <1>1 DEF IsRunning, Registry
<1>3. IsRunning(status, m) /\ IsRunning(status', m) /\ held \in [Models -> Nat]
  BY <1>1, <1>2 DEF IsRunning, HeldInv
<1>4. CASE held' = held
  BY <1>1, <1>2, <1>4, HeldFrame
<1>5. CASE MemoryEnabled /\ effective[m] /\ held' = Reserve(held, effective, m)
  <2>1. /\ held' \in [Models -> Nat] /\ \A x \in Models : x # m => held'[x] = held[x]
        /\ held[m] # 0 => held'[m] = held[m]
        /\ held[m] = 0 => held'[m] = conf.need[m]
    BY <1>1, <1>3, <1>5, ReserveIs
  <2>2. m \in Counted' /\ ~conf.sleeps => held[m] = conf.need[m]
    BY <1>3, <1>5, CountedStays DEF HeldInv
  <2>3. m \in Counted' /\ ~conf.sleeps => held'[m] = conf.need[m]
    BY <2>1, <2>2
  <2> QED
    BY <1>1, <1>2, <1>3, <2>1, <2>3, HeldOne
<1>6. CASE /\ effective' = [effective EXCEPT ![m] = TRUE]
           /\ held' = Reserve([held EXCEPT ![m] = 0], effective', m)
  <2> DEFINE h == [held EXCEPT ![m] = 0]
  <2>1. h \in [Models -> Nat] /\ h[m] = 0 /\ \A x \in Models : x # m => h[x] = held[x]
    BY <1>3
  <2> HIDE DEF h
  <2>2. PICK eff : eff = effective'
    OBVIOUS
  <2>3. eff[m] /\ held' = Reserve(h, eff, m)
    BY <1>6, <2>2 DEF FlagInv, h
  <2>4. /\ Reserve(h, eff, m) \in [Models -> Nat]
        /\ \A x \in Models : x # m => Reserve(h, eff, m)[x] = h[x]
        /\ h[m] = 0 /\ (eff[m] \/ measure[m] = "MEASURED") => Reserve(h, eff, m)[m] = conf.need[m]
    BY <1>1, <2>1, ReserveIs
  <2>5. /\ held' \in [Models -> Nat] /\ \A x \in Models : x # m => held'[x] = held[x]
        /\ held'[m] = conf.need[m]
    BY <2>1, <2>3, <2>4
  <2> QED
    BY <1>1, <1>2, <1>3, <2>5, HeldOne
<1> QED
  BY <1>4, <1>5, <1>6 DEF ChildReady, memVars

LEMMA HeldKept ==
    ASSUME HeldInv, SettledInv, MeasureInv, Registry, FlagInv, QueueInv, [Next]_vars
    PROVE  HeldInv'
<1>0. MeasureGoesOn
  BY MeasureSteps
<1>1. CASE UNCHANGED <<conf, held, status>>
  BY <1>0, <1>1, HeldFrame DEF IsRunning
<1>2. ASSUME NEW r \in Requests, Arrive(r) \/ Cancelled(r) \/ Progress(r) PROVE HeldInv'
  <2>1. CASE Arrive(r) \/ CheckStop(r) \/ SeeLoading(r) \/ LookAgain(r)
    BY <1>1, <2>1 DEF Arrive, CheckStop, SeeLoading, LookAgain, LookFrame, instVars, memVars
  <2>2. CASE Cancelled(r) \/ Enqueue(r) \/ JoinStopping(r) \/ StopWaiting(r) \/ SeeFailed(r) \/ Claim(r)
    BY <1>1, <2>2 DEF Cancelled, Enqueue, JoinStopping, StopWaiting, SeeFailed, Claim, GiveUp, JoinFrame, memVars
  <2>3. CASE StartLoad(r) \/ Measured(r) \/ MakeRoom(r) \/ EvictVictim(r) \/ VictimGone(r) \/ LoadRefused(r)
    BY <1>1, <2>3 DEF StartLoad, Measured, MakeRoom, EvictVictim, VictimGone, LoadRefused, LoadFrame, instVars,
                      memVars
  <2>4. CASE AfterLoad(r) \/ Unload(r) \/ StartProxy(r) \/ EndProxy(r)
    BY <1>1, <2>4 DEF AfterLoad, Unload, StartProxy, EndProxy, LoadFrame, memVars
  <2>5. CASE Spawn(r)
    BY <1>0, <2>5, HeldSpawn
  <2> QED
    BY <1>2, <2>1, <2>2, <2>3, <2>4, <2>5 DEF Progress
<1>3. ASSUME NEW m \in Models, ChildReady(m) PROVE HeldInv'
  BY <1>0, <1>3, HeldReady
<1>4. ASSUME NEW m \in Models, ChildSleeps(m) PROVE HeldInv'
  <2>1. conf' = conf /\ conf.sleeps /\ held' = [held EXCEPT ![m] = 0]
        /\ status[m] = "LOADED" /\ status' = [status EXCEPT ![m] = "SLEEPING"]
    BY <1>4 DEF ChildSleeps, MonitorFrame, NewStatus
  <2>2. held' \in [Models -> Nat] /\ held'[m] = 0 /\ \A x \in Models : x # m => held'[x] = held[x]
    BY <2>1 DEF HeldInv
  <2>3. \A x \in Models : x # m => IsRunning(status', x) = IsRunning(status, x)
    BY <2>1 DEF IsRunning, Registry
  <2> QED
    BY <1>0, <2>1, <2>2, <2>3, HeldOne
<1>5. ASSUME NEW m \in Models, ChildWakes(m) PROVE HeldInv'
  <2>1. conf' = conf /\ held' = held /\ status[m] = "SLEEPING" /\ status' = [status EXCEPT ![m] = "LOADING"]
    BY <1>5 DEF ChildWakes, MonitorFrame, NewStatus, memVars
  <2>2. \A x \in Models : IsRunning(status', x) = IsRunning(status, x)
    BY <2>1 DEF IsRunning, Registry
  <2> QED
    BY <1>0, <2>1, <2>2, HeldFrame
<1>6. ASSUME NEW m \in Models, ChildExits(m) PROVE HeldInv'
  <2>1. conf' = conf /\ held' = [held EXCEPT ![m] = 0] /\ status' = [status EXCEPT ![m] = "UNLOADED"]
    BY <1>6 DEF ChildExits, MonitorFrame, NewStatus
  <2>2. held' \in [Models -> Nat] /\ held'[m] = 0 /\ \A x \in Models : x # m => held'[x] = held[x]
    BY <2>1 DEF HeldInv
  <2>3. ~IsRunning(status', m) /\ \A x \in Models : x # m => IsRunning(status', x) = IsRunning(status, x)
    BY <2>1 DEF IsRunning, Registry
  <2>4. m \notin Counted'
    BY <2>3 DEF Counted, Running, IsRunning
  <2> QED
    BY <1>0, <2>1, <2>2, <2>3, <2>4, HeldOne
<1>7. CASE MeasureReports \/ MeasureExits
  BY <1>1, <1>7 DEF MeasureReports, MeasureExits, MonitorFrame, memVars
<1>8. CASE UnloadAll \/ AllUnloaded
  BY <1>1, <1>8 DEF UnloadAll, AllUnloaded, CloseFrame, memVars
<1>9. CASE UNCHANGED vars
  BY <1>1, <1>9 DEF vars, instVars, memVars
<1> QED
  BY <1>2, <1>3, <1>4, <1>5, <1>6, <1>7, <1>8, <1>9 DEF Next

LEMMA HeldInitially == ASSUME Init PROVE HeldInv
BY DEF Init, HeldInv, Counted, Running, IsRunning

(* Fewer counted models need no more.                                       *)
LEMMA MemoryStays ==
    ASSUME MemoryKept, conf \in Confs, conf' = conf, Counted' \subseteq Counted
    PROVE  MemoryKept'
<1>1. IsFiniteSet(Counted) /\ Counted \subseteq Models
  BY ModelsSchedAssumption, FS_Subset DEF Counted, Running
<1>2. conf.total \in Nat /\ \A x \in Models : conf.need[x] \in Nat
  BY NeedTyped
<1>3. IsFiniteSet(Counted') /\ Cardinality(Counted') \in Nat /\ Cardinality(Counted) \in Nat
      /\ Cardinality(Counted') <= Cardinality(Counted)
  BY <1>1, FS_Subset, FS_CardinalityType
<1>4. SumOver(conf.need, Counted') <= SumOver(conf.need, Counted)
  <2>1. \A x \in Counted : conf.need[x] \in Nat /\ conf.need[x] <= conf.need[x]
    BY <1>1, <1>2
  <2> QED
    BY <1>1, <2>1, SumBelow
<1>5. SumOver(conf.need, Counted) \in Nat /\ SumOver(conf.need, Counted') \in Nat
  BY <1>1, <1>2, <1>3, SumType
<1> SUFFICES ASSUME MemoryEnabled, ~conf.sleeps, Cardinality(Counted') > 1
             PROVE  SumOver(conf.need, Counted') <= conf.total
  <2>1. SumOver(conf.need, Counted)' = SumOver(conf'.need, Counted')
    OBVIOUS
  <2> QED
    BY <2>1 DEF MemoryKept, MemoryEnabled
<1>6. Cardinality(Counted) > 1
  BY <1>3
<1>7. SumOver(conf.need, Counted) <= conf.total
  BY <1>6 DEF MemoryKept
<1> QED
  BY <1>2, <1>4, <1>5, <1>7

(* The spawn looks at what is counted for those that run.                   *)
LEMMA MemorySpawn ==
    ASSUME MemoryKept, HeldInv, MeasureInv, Registry, NEW r \in Requests, Spawn(r)
    PROVE  MemoryKept'
<1> DEFINE w == Wanted(r)
<1>1. w \in Models /\ conf \in Confs
  BY ConfTyped DEF Registry
<1>2. /\ conf' = conf /\ status[w] = "UNLOADED" /\ status' = [status EXCEPT ![w] = "LOADING"]
      /\ UNCHANGED <<measure, n_attempts>> /\ ~LimitsExceeded(w)
  BY DEF Spawn, LoadFrame, measureVars
<1> HIDE DEF w
<1>3. Counted' \subseteq Counted \cup {w} /\ (w \in Counted' => measure[w] = "MEASURED") /\ w \notin Counted
  BY <1>1, <1>2 DEF Counted, Running, IsRunning, Registry
<1>4. CASE w \notin Counted'
  <2>1. Counted' \subseteq Counted
    BY <1>3, <1>4
  <2> QED
    BY <1>1, <1>2, <2>1, MemoryStays
<1>5. CASE w \in Counted'
  <2> DEFINE C == Counted' \ {w}
  <2> SUFFICES ASSUME MemoryEnabled, ~conf.sleeps, Cardinality(Counted') > 1
               PROVE  SumOver(conf.need, Counted') <= conf.total
    <3>1. SumOver(conf.need, Counted)' = SumOver(conf'.need, Counted')
      OBVIOUS
    <3> QED
      BY <1>2, <3>1 DEF MemoryKept, MemoryEnabled
  <2>1. C \subseteq Counted /\ Counted \subseteq Running(status) /\ Running(status) \subseteq Models
    BY <1>3 DEF Counted, Running
  <2>2. IsFiniteSet(Models) /\ IsFiniteSet(Counted)
    BY <2>1, ModelsSchedAssumption, FS_Subset
  <2>3. IsFiniteSet(Counted')
    <3>1. IsFiniteSet(Counted \cup {w})
      BY <2>2, FS_AddElement
    <3> QED
      BY <1>3, <3>1, FS_Subset
  <2>4. C # {}
    <3>1. Cardinality({w}) = 1
      BY FS_Singleton
    <3>2. Counted' # {w}
      BY <3>1
    <3> QED
      BY <1>5, <3>2
  <2>5. ~Deficit(w)
    BY <1>2, <2>1, <2>4 DEF LimitsExceeded
  <2>6. conf.total \in Nat /\ (\A x \in Models : conf.need[x] \in Nat) /\ held \in [Models -> Nat]
    BY <1>1, NeedTyped DEF HeldInv
  <2>7. SumOver(held, Models) \in Nat
    BY <2>2, <2>6, SumType
  <2>8. conf.need[w] + SumOver(held, Models) <= conf.total
    <3>1. ~(conf.need[w] > conf.total - SumOver(held, Models))
      BY <1>1, <1>3, <1>5, <2>5 DEF Deficit, MeasureInv
    <3> QED
      BY <1>1, <2>6, <2>7, <3>1
  <2>9. SumOver(conf.need, C) <= SumOver(held, Models)
    <3>1. \A x \in C : x \in Models /\ held[x] = conf.need[x]
      BY <2>1 DEF HeldInv
    <3>2. \A x \in C : conf.need[x] \in Nat /\ conf.need[x] <= held[x]
      BY <2>6, <3>1
    <3>3. C \in SUBSET Models /\ \A x \in Models : held[x] \in Nat
      BY <2>1, <2>6
    <3> HIDE DEF C
    <3> QED
      BY <2>2, <3>2, <3>3, SumBelow
  <2>10. SumOver(conf.need, Counted') = conf.need[w] + SumOver(conf.need, C)
    <3>1. \A x \in Counted' : conf.need[x] \in Nat
      BY <1>1, <1>3, <2>1, <2>6
    <3> QED
      BY <1>5, <2>3, <3>1, SumWithout
  <2>11. SumOver(conf.need, C) \in Nat
    <3>1. IsFiniteSet(C) /\ \A x \in C : conf.need[x] \in Nat
      BY <2>1, <2>2, <2>6, FS_Subset
    <3> QED
      BY <3>1, SumType
  <2> HIDE DEF C
  <2> QED
    BY <1>1, <2>6, <2>7, <2>8, <2>9, <2>10, <2>11
<1> QED
  BY <1>4, <1>5

LEMMA MemoryStep ==
    ASSUME MemoryKept, HeldInv, SettledInv, MeasureInv, QueueInv, Registry, [Next]_vars
    PROVE  MemoryKept'
<1>0. MeasureGoesOn /\ conf \in Confs
  BY MeasureSteps DEF Registry
<1>1. ASSUME conf' = conf, \A m \in Models : IsRunning(status', m) => IsRunning(status, m)
      PROVE  MemoryKept'
  <2>1. CASE MemoryEnabled
    <3>1. Counted' \subseteq Counted
      <4> SUFFICES ASSUME NEW m \in Counted' PROVE m \in Counted
        OBVIOUS
      <4>1. m \in Models /\ IsRunning(status', m)
        BY DEF Counted, Running, IsRunning
      <4> QED
        BY <1>0, <1>1, <2>1, <4>1, CountedStays
    <3> QED
      BY <1>0, <1>1, <3>1, MemoryStays
  <2>2. CASE ~MemoryEnabled
    BY <1>1, <2>2 DEF MemoryKept, MemoryEnabled
  <2> QED
    BY <2>1, <2>2
<1>2. CASE UNCHANGED <<conf, status>>
  BY <1>1, <1>2
<1>3. ASSUME NEW r \in Requests, Arrive(r) \/ Cancelled(r) \/ Progress(r) PROVE MemoryKept'
  <2>1. CASE Arrive(r) \/ CheckStop(r) \/ SeeLoading(r) \/ LookAgain(r)
    BY <1>2, <2>1 DEF Arrive, CheckStop, SeeLoading, LookAgain, LookFrame, instVars
  <2>2. CASE Cancelled(r) \/ Enqueue(r) \/ JoinStopping(r) \/ StopWaiting(r) \/ SeeFailed(r) \/ Claim(r)
    BY <1>2, <2>2 DEF Cancelled, Enqueue, JoinStopping, StopWaiting, SeeFailed, Claim, GiveUp, JoinFrame
  <2>3. CASE StartLoad(r) \/ Measured(r) \/ MakeRoom(r) \/ EvictVictim(r) \/ VictimGone(r) \/ LoadRefused(r)
    BY <1>2, <2>3 DEF StartLoad, Measured, MakeRoom, EvictVictim, VictimGone, LoadRefused, LoadFrame, instVars
  <2>4. CASE AfterLoad(r) \/ Unload(r) \/ StartProxy(r) \/ EndProxy(r)
    BY <1>2, <2>4 DEF AfterLoad, Unload, StartProxy, EndProxy, LoadFrame
  <2>5. CASE Spawn(r)
    BY <2>5, MemorySpawn
  <2> QED
    BY <1>3, <2>1, <2>2, <2>3, <2>4, <2>5 DEF Progress
<1>4. ASSUME NEW m \in Models, ChildReady(m) \/ ChildSleeps(m) \/ ChildWakes(m) \/ ChildExits(m)
      PROVE  MemoryKept'
  <2>1. conf' = conf /\ IsRunning(status, m)
    BY <1>4 DEF ChildReady, ChildSleeps, ChildWakes, ChildExits, MonitorFrame, IsRunning
  <2>2. \E s : status' = [status EXCEPT ![m] = s]
    BY <1>4 DEF ChildReady, ChildSleeps, ChildWakes, ChildExits, NewStatus
  <2>3. \A x \in Models : IsRunning(status', x) => IsRunning(status, x)
    BY <2>1, <2>2 DEF IsRunning, Registry
  <2> QED
    BY <1>1, <2>1, <2>3
<1>5. CASE MeasureReports \/ MeasureExits \/ UnloadAll \/ AllUnloaded \/ UNCHANGED vars
  BY <1>2, <1>5 DEF MeasureReports, MeasureExits, UnloadAll, AllUnloaded, MonitorFrame, CloseFrame, vars, instVars
<1> QED
  BY <1>3, <1>4, <1>5 DEF Next

LEMMA MemoryInitially == ASSUME Init PROVE MemoryKept
<1>1. Counted = {}
  BY DEF Init, Counted, Running, IsRunning
<1> QED
  BY <1>1, FS_EmptySet DEF MemoryKept

----------------------------------------------------------------------------
(* Everything together.                                                     *)

Books ==
    /\ Registry /\ QueueInv /\ CountInv
    /\ OrderInv /\ VictimInv /\ Stopping /\ FlagInv
    /\ MeasureInv /\ SettledInv /\ HeldInv /\ MemoryKept

LEMMA BooksInitially == ASSUME Init PROVE Books
<1>1. VictimInv /\ Stopping
  BY DEF Init, VictimInv, Stopping
<1> QED
  BY <1>1, RegistryInitially, QueueInitially, CountInitially, OrderInitially, FlagInitially, MeasureInitially,
     SettledInitially, HeldInitially, MemoryInitially DEF Books

LEMMA BooksKept == ASSUME Books, [Next]_vars PROVE Books'
<1> USE DEF Books
<1>1. Registry' /\ QueueInv' /\ CountInv'
  BY RegistryKept, QueueKept, CountKept
<1>2. OrderInv' /\ VictimInv' /\ Stopping' /\ FlagInv'
  BY OrderKept, VictimKept, StoppingKept, FlagKept
<1>3. MeasureInv' /\ SettledInv' /\ HeldInv' /\ MemoryKept'
  BY MeasureSteps, SettledKept, HeldKept, MemoryStep
<1> QED
  BY <1>1, <1>2, <1>3

LEMMA BooksTyped == ASSUME Books PROVE TypeOK
<1> USE DEF Books
<1>1. conf \in Confs /\ status \in [Models -> Statuses]
  BY DEF Registry
<1>2. queue \in Seq([model : Models, n_waiters : Nat \ {0}, loading : BOOLEAN])
  BY DEF QueueInv, Tally, Entry
<1>3. pc \in [Requests -> RequestAt] /\ queued \in [Requests -> BOOLEAN]
  BY DEF QueueInv, Placed
<1>4. req_count \in [Models -> Nat] /\ held \in [Models -> Nat]
  BY DEF CountInv, HeldInv
<1>5. last_used \in Seq(Models) /\ ToSet(last_used) = conf.models /\ stopping_models \subseteq Running(status)
  BY DEF OrderInv, Stopping
<1>6. /\ failed \in [Models -> BOOLEAN] /\ effective \in [Models -> BOOLEAN]
      /\ did_load \in [Requests -> BOOLEAN] /\ saw_loading \in [Requests -> BOOLEAN]
      /\ orphans \subseteq Requests /\ main \in {"serving", "closing", "closed"}
  BY DEF FlagInv
<1>7. /\ measure \in [Models -> {"UNMEASURED", "MEASURING", "MEASURED", "FAILED"}]
      /\ n_attempts \in [Models -> 0 .. 2] /\ measure_queue \in Seq(Models)
      /\ measuring \in Models \cup {NoModel} /\ known \in BOOLEAN
  BY DEF MeasureInv, AttemptsOf, MeasureStates
<1>8. victim \in [Requests -> Models \cup {NoModel}]
  BY DEF VictimInv
<1> QED
  BY <1>1, <1>2, <1>3, <1>4, <1>5, <1>6, <1>7, <1>8 DEF TypeOK

(* The books of the router are right: every variable has its type, only     *)
(* running instances are stopping, the order of use names each model once,  *)
(* the queue, the one load for waiters and the request counts are exact,    *)
(* whatever joins, leaves, loads, fails, exits or shuts down in whichever   *)
(* order (server-models.cpp, server-models-sched.cpp).                      *)
THEOREM RouterWellFormed == Spec => []WellFormed
<1>1. Spec => []Books
  BY BooksInitially, BooksKept, PTL DEF Spec
<1>2. Books => TypeOK
  BY BooksTyped
<1> QED
  BY <1>1, <1>2, QueueCorrect, OneLoads, CountCorrect, PTL DEF WellFormed

(* Neither --models-max nor the device memory less --models-memory-margin   *)
(* is exceeded: make_room measures, looks and evicts without the lock that  *)
(* load() takes, but load() looks again (limits_exceeded), and what it adds *)
(* up is what the running models that were measured before need.            *)
THEOREM LimitsHold == Spec => []LimitsKept
<1>1. Books => LimitsKept
  BY DEF Books, Registry, LimitsKept
<1>2. Spec => []Books
  BY BooksInitially, BooksKept, PTL DEF Spec
<1> QED
  BY <1>1, <1>2, PTL

=============================================================================
