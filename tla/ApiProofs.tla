------------------------------ MODULE ApiProofs ------------------------------
(***************************************************************************)
(* Proofs about Api for any number of pods, tasks, connections and         *)
(* statements.  With the types, the conservation of the pool is inductive; *)
(* it speaks of each pod by itself, and a step touches one.                *)
(***************************************************************************)
EXTENDS Api, FiniteSetTheorems, TLAPS

-----------------------------------------------------------------------------
\* Queues

In(q, x) == \E i \in DOMAIN q : q[i] = x
Once(q) == \A i, j \in DOMAIN q : q[i] = q[j] => i = j

\* A task that joins a queue stands in it once.
LEMMA Appended ==
    ASSUME NEW S, NEW q \in Seq(S), NEW x \in S, Once(q), ~In(q, x)
    PROVE  /\ Append(q, x) \in Seq(S)
           /\ \A y : In(Append(q, x), y) <=> In(q, y) \/ y = x
           /\ Once(Append(q, x))
<1> DEFINE r == Append(q, x)
<1>1. /\ r \in Seq(S)
      /\ DOMAIN q = 1 .. Len(q) /\ Len(q) \in Nat
      /\ DOMAIN r = 1 .. Len(q) + 1
      /\ r[Len(q) + 1] = x
      /\ \A i \in 1 .. Len(q) : r[i] = q[i]
  OBVIOUS
<1> HIDE DEF r
<1>2. ASSUME NEW y PROVE In(r, y) <=> In(q, y) \/ y = x
  BY <1>1 DEF In
<1>3. Once(r)
  BY <1>1 DEF In, Once
<1> QED
  BY <1>1, <1>2, <1>3 DEF r

\* The one that leaves it is no longer in it.
LEMMA Dequeued ==
    ASSUME NEW S, NEW q \in Seq(S), q # <<>>, Once(q)
    PROVE  /\ Head(q) \in S /\ In(q, Head(q))
           /\ Tail(q) \in Seq(S)
           /\ \A y : In(Tail(q), y) <=> In(q, y) /\ y # Head(q)
           /\ Once(Tail(q))
<1> DEFINE r == Tail(q)
<1> DEFINE x == Head(q)
<1>1. /\ r \in Seq(S)
      /\ DOMAIN q = 1 .. Len(q) /\ Len(q) \in Nat /\ Len(q) > 0
      /\ DOMAIN r = 1 .. Len(q) - 1
      /\ x = q[1] /\ x \in S
      /\ \A i \in 1 .. Len(q) - 1 : r[i] = q[i + 1]
  OBVIOUS
<1> HIDE DEF r, x
<1>2. ASSUME NEW y PROVE In(r, y) <=> In(q, y) /\ y # x
  <2>1. ASSUME In(r, y) PROVE In(q, y) /\ y # x
    <3>1. PICK i \in 1 .. Len(q) - 1 : q[i + 1] = y
      BY <1>1, <2>1 DEF In
    <3>2. i + 1 \in DOMAIN q /\ 1 \in DOMAIN q /\ i + 1 # 1
      BY <1>1
    <3> QED
      BY <1>1, <3>1, <3>2 DEF In, Once
  <2>2. ASSUME In(q, y), y # x PROVE In(r, y)
    <3>1. PICK i \in 1 .. Len(q) : q[i] = y
      BY <1>1, <2>2 DEF In
    <3>2. i - 1 \in 1 .. Len(q) - 1 /\ (i - 1) + 1 = i
      BY <1>1, <2>2, <3>1
    <3>3. r[i - 1] = y
      BY <1>1, <3>1, <3>2
    <3> QED
      BY <1>1, <3>2, <3>3 DEF In
  <2> QED
    BY <2>1, <2>2
<1>3. Once(r)
  <2> SUFFICES ASSUME NEW i \in DOMAIN r, NEW j \in DOMAIN r, r[i] = r[j] PROVE i = j
    BY DEF Once
  <2>1. q[i + 1] = q[j + 1] /\ i + 1 \in DOMAIN q /\ j + 1 \in DOMAIN q
    BY <1>1
  <2> QED
    BY <1>1, <2>1 DEF Once
<1>4. In(q, x)
  BY <1>1 DEF In
<1> QED
  BY <1>1, <1>2, <1>3, <1>4 DEF r, x

-----------------------------------------------------------------------------
\* The invariant of one pod

Under(p, t) == task[t] # None /\ task[t].at = p
PodOK(p) ==
    /\ Cardinality(holds[p]) <= MaxSize
    /\ \A t \in Task : t \in holds[p] \/ In(queue[p], t) <=> Under(p, t)
    /\ \A t : In(queue[p], t) => t \notin holds[p]
    /\ Once(queue[p])
PodsOK == \A p \in Pod : PodOK(p)

LEMMA InvariantOfPods == PoolIsConserved <=> PodsOK
BY DEF PoolIsConserved, PodsOK, PodOK, In, Once, Under

LEMMA HoldsAreFinite ==
    ASSUME TypeOK, NEW p \in Pod
    PROVE  IsFiniteSet(holds[p]) /\ Cardinality(holds[p]) \in Nat
<1>1. IsFiniteSet(Task)
  BY FS_Interval, SizeAssumption DEF Task
<1>2. holds[p] \subseteq Task
  BY DEF TypeOK
<1>3. IsFiniteSet(holds[p])
  BY <1>1, <1>2, FS_Subset
<1> QED
  BY <1>3, FS_CardinalityType

LEMMA Untouched ==
    ASSUME NEW p \in Pod, PodOK(p), holds'[p] = holds[p], queue'[p] = queue[p],
           \A t \in Task : Under(p, t)' <=> Under(p, t)
    PROVE  PodOK(p)'
BY DEF PodOK

\* Nothing moves between queue, connections and tasks.
LEMMA PoolsUnchanged ==
    ASSUME PodsOK, UNCHANGED pool,
           \A p \in Pod, t \in Task : Under(p, t)' <=> Under(p, t)
    PROVE  PodsOK'
BY Untouched DEF PodsOK, pool

\* A task comes: it joins the queue of its pod.
LEMMA Entered ==
    ASSUME TypeOK, PodsOK, NEW t \in Task, NEW p \in Pod, NEW k \in Probe \cup {"request"},
           NEW n \in 1 .. MaxStatements, Enter(t, p, k, n)
    PROVE  /\ PodsOK'
           /\ queue' \in [Pod -> Seq(Task)] /\ holds' \in [Pod -> SUBSET Task]
           /\ task' \in [Task -> TaskRec \cup {None}]
<1> DEFINE new == [at |-> p, kind |-> k, rest |-> n, gone |-> FALSE]
<1>1. new \in TaskRec /\ new # None /\ new.at = p
  <2>1. new \in TaskRec
    BY DEF TaskRec
  <2> QED
    BY <2>1, NoneAssumption
<1> HIDE DEF new
<1>2. task[t] = None /\ task' = [task EXCEPT ![t] = new]
  BY DEF Enter, new
<1>3. holds' = holds /\ queue' = [queue EXCEPT ![p] = Append(@, t)]
  BY DEF Enter
<1>4. \A q \in Pod, r \in Task : Under(q, r)' <=> Under(q, r) \/ (q = p /\ r = t)
  BY <1>1, <1>2 DEF TypeOK, Under
<1>5. \A d \in Pod : d # p => PodOK(d)'
  BY <1>3, <1>4, Untouched DEF TypeOK, PodsOK
<1>6. PodOK(p) /\ queue[p] \in Seq(Task) /\ ~Under(p, t)
  BY <1>2 DEF TypeOK, PodsOK, Under
<1>7. ~In(queue[p], t) /\ Once(queue[p]) /\ t \notin holds[p]
  BY <1>6 DEF PodOK
<1>8. queue'[p] = Append(queue[p], t) /\ holds'[p] = holds[p]
  BY <1>3 DEF TypeOK
<1>9. /\ queue'[p] \in Seq(Task) /\ Once(queue'[p])
      /\ \A y : In(queue'[p], y) <=> In(queue[p], y) \/ y = t
  BY <1>6, <1>7, <1>8, Appended
<1>10. PodOK(p)'
  BY <1>4, <1>6, <1>7, <1>8, <1>9 DEF PodOK
<1> QED
  BY <1>1, <1>2, <1>3, <1>5, <1>6, <1>8, <1>9, <1>10 DEF PodsOK, TypeOK

\* acquire returns: a connection that was free goes to the first in the queue.
LEMMA Acquired ==
    ASSUME TypeOK, PodsOK, NEW p \in Pod, Acquire(p)
    PROVE  /\ PodsOK'
           /\ queue' \in [Pod -> Seq(Task)] /\ holds' \in [Pod -> SUBSET Task]
<1> DEFINE x == Head(queue[p])
<1>1. /\ queue[p] # <<>> /\ Cardinality(holds[p]) # MaxSize
      /\ holds' = [holds EXCEPT ![p] = @ \cup {x}]
      /\ queue' = [queue EXCEPT ![p] = Tail(@)]
  BY DEF Acquire, Full
<1>2. \A q \in Pod, r \in Task : Under(q, r)' <=> Under(q, r)
  BY DEF Acquire, Under
<1>3. \A d \in Pod : d # p => PodOK(d)'
  BY <1>1, <1>2, Untouched DEF TypeOK, PodsOK
<1>4. PodOK(p) /\ queue[p] \in Seq(Task) /\ Once(queue[p])
  BY DEF TypeOK, PodsOK, PodOK
<1>5. /\ x \in Task /\ In(queue[p], x) /\ Tail(queue[p]) \in Seq(Task)
      /\ \A y : In(Tail(queue[p]), y) <=> In(queue[p], y) /\ y # x
      /\ Once(Tail(queue[p]))
  BY <1>1, <1>4, Dequeued
<1> HIDE DEF x
<1>6. queue'[p] = Tail(queue[p]) /\ holds'[p] = holds[p] \cup {x}
  BY <1>1 DEF TypeOK
<1>7. x \notin holds[p]
  BY <1>4, <1>5 DEF PodOK
<1>8. Cardinality(holds'[p]) <= MaxSize
  <2>1. Cardinality(holds[p] \cup {x}) = Cardinality(holds[p]) + 1
    BY <1>7, HoldsAreFinite, FS_AddElement
  <2> DEFINE n == Cardinality(holds[p])
  <2>2. n \in Nat /\ n <= MaxSize /\ n # MaxSize
    BY <1>1, <1>4, HoldsAreFinite DEF PodOK
  <2>3. Cardinality(holds'[p]) = n + 1
    BY <1>6, <2>1
  <2> HIDE DEF n
  <2> QED
    BY <2>2, <2>3, SizeAssumption
<1>9. PodOK(p)'
  BY <1>2, <1>4, <1>5, <1>6, <1>7, <1>8 DEF PodOK
<1> QED
  BY <1>1, <1>3, <1>5, <1>9 DEF PodsOK, TypeOK

\* A connection given back leaves at most as many out.
LEMMA Fewer ==
    ASSUME TypeOK, NEW p \in Pod, NEW t, Cardinality(holds[p]) <= MaxSize
    PROVE  Cardinality(holds[p] \ {t}) <= MaxSize
<1>1. /\ IsFiniteSet(holds[p]) /\ Cardinality(holds[p]) \in Nat
      /\ holds[p] \ {t} \subseteq holds[p]
  BY HoldsAreFinite
<1>2. /\ IsFiniteSet(holds[p] \ {t})
      /\ Cardinality(holds[p] \ {t}) <= Cardinality(holds[p])
  BY <1>1, FS_Subset
<1>3. Cardinality(holds[p] \ {t}) \in Nat
  BY <1>2, FS_CardinalityType
<1> QED
  BY <1>1, <1>2, <1>3, SizeAssumption

\* A request gives its connection back and waits for its next one.
LEMMA Continued ==
    ASSUME TypeOK, PodsOK, NEW t \in Task, NextStatement(t)
    PROVE  /\ PodsOK'
           /\ queue' \in [Pod -> Seq(Task)] /\ holds' \in [Pod -> SUBSET Task]
           /\ task' \in [Task -> TaskRec \cup {None}]
<1>1. task[t] \in TaskRec /\ task[t] # None /\ task[t].rest > 1
  BY DEF TypeOK, NextStatement, Holds
<1>13. PICK p \in Pod : p = task[t].at
  BY <1>1 DEF TaskRec
<1> DEFINE new == [task[t] EXCEPT !.rest = @ - 1]
<1>2. new \in TaskRec /\ new.at = p /\ new # None
  <2>1. new \in TaskRec /\ new.at = p
    BY <1>1, <1>13, SizeAssumption DEF TaskRec
  <2> QED
    BY <2>1, NoneAssumption
<1>3. /\ t \in holds[p]
      /\ task' = [task EXCEPT ![t] = new]
      /\ holds' = [holds EXCEPT ![p] = @ \ {t}]
      /\ queue' = [queue EXCEPT ![p] = Append(@, t)]
  BY <1>13 DEF NextStatement, Holds
<1>4. Under(p, t)
  BY <1>1, <1>13 DEF Under
<1>5. \A q \in Pod, r \in Task : Under(q, r)' <=> Under(q, r)
  BY <1>1, <1>2, <1>3, <1>13 DEF TypeOK, Under
<1> HIDE DEF new
<1>6. \A d \in Pod : d # p => PodOK(d)'
  BY <1>3, <1>5, Untouched DEF TypeOK, PodsOK
<1>7. PodOK(p) /\ queue[p] \in Seq(Task)
  BY <1>2 DEF TypeOK, PodsOK
<1>8. ~In(queue[p], t) /\ Once(queue[p]) /\ Cardinality(holds[p]) <= MaxSize
  BY <1>3, <1>7 DEF PodOK
<1>9. queue'[p] = Append(queue[p], t) /\ holds'[p] = holds[p] \ {t}
  BY <1>2, <1>3 DEF TypeOK
<1>10. /\ queue'[p] \in Seq(Task) /\ Once(queue'[p])
       /\ \A y : In(queue'[p], y) <=> In(queue[p], y) \/ y = t
  BY <1>7, <1>8, <1>9, Appended
<1>11. Cardinality(holds'[p]) <= MaxSize
  BY <1>2, <1>8, <1>9, Fewer
<1>12. PodOK(p)'
  BY <1>3, <1>4, <1>5, <1>7, <1>9, <1>10, <1>11 DEF PodOK
<1> QED
  BY <1>2, <1>3, <1>6, <1>9, <1>10, <1>12 DEF PodsOK, TypeOK

\* A task ends and gives its connection back, whether its statement was done
\* or failed.
LEMMA Ended ==
    ASSUME TypeOK, PodsOK, NEW t \in Task, Holds(t), Release(t)
    PROVE  /\ PodsOK'
           /\ queue' \in [Pod -> Seq(Task)] /\ holds' \in [Pod -> SUBSET Task]
           /\ task' \in [Task -> TaskRec \cup {None}]
<1>9. task[t] \in TaskRec /\ task[t] # None
  BY DEF TypeOK, Holds
<1>10. PICK p \in Pod : p = task[t].at
  BY <1>9 DEF TaskRec
<1>1. t \in holds[p] /\ Under(p, t)
  BY <1>9, <1>10 DEF Holds, Under
<1>2. /\ holds' = [holds EXCEPT ![p] = @ \ {t}]
      /\ task' = [task EXCEPT ![t] = None]
      /\ queue' = queue
  BY <1>10 DEF Release
<1>3. \A q \in Pod, r \in Task : Under(q, r)' <=> Under(q, r) /\ ~ (q = p /\ r = t)
  BY <1>1, <1>2, <1>10 DEF TypeOK, Under
<1>4. \A d \in Pod : d # p => PodOK(d)'
  BY <1>2, <1>3, Untouched DEF TypeOK, PodsOK
<1>5. PodOK(p) /\ ~In(queue[p], t) /\ Cardinality(holds[p]) <= MaxSize
  BY <1>1 DEF PodsOK, PodOK
<1>6. holds'[p] = holds[p] \ {t} /\ queue'[p] = queue[p]
  BY <1>1, <1>2 DEF TypeOK
<1>7. Cardinality(holds'[p]) <= MaxSize
  BY <1>1, <1>5, <1>6, Fewer
<1>8. PodOK(p)'
  BY <1>1, <1>3, <1>5, <1>6, <1>7 DEF PodOK
<1> QED
  BY <1>1, <1>2, <1>4, <1>8 DEF PodsOK, TypeOK

\* A container that starts again starts with nothing.
LEMMA Killed ==
    ASSUME TypeOK, PodsOK, NEW p \in Pod, Kill(p)
    PROVE  /\ PodsOK'
           /\ queue' \in [Pod -> Seq(Task)] /\ holds' \in [Pod -> SUBSET Task]
           /\ task' \in [Task -> TaskRec \cup {None}]
<1>1. /\ queue' = [queue EXCEPT ![p] = <<>>] /\ holds' = [holds EXCEPT ![p] = {}]
      /\ task' = [t \in Task |->
            IF task[t] # None /\ task[t].at = p THEN None ELSE task[t]]
  BY DEF Kill
<1>2. \A q \in Pod, r \in Task : Under(q, r)' <=> Under(q, r) /\ q # p
  BY <1>1 DEF TypeOK, Under
<1>3. \A d \in Pod : d # p => PodOK(d)'
  BY <1>1, <1>2, Untouched DEF TypeOK, PodsOK
<1>4. queue'[p] = <<>> /\ holds'[p] = {}
  BY <1>1 DEF TypeOK
<1>5. \A y : ~In(queue'[p], y)
  BY <1>4 DEF In
<1>6. Once(queue'[p])
  BY <1>4 DEF Once
<1>7. PodOK(p)'
  BY <1>2, <1>4, <1>5, <1>6, FS_EmptySet, SizeAssumption DEF PodOK
<1> QED
  BY <1>1, <1>3, <1>7 DEF PodsOK, TypeOK

-----------------------------------------------------------------------------
\* The steps

\* The kubelet counts within the threshold.
LEMMA Counted ==
    ASSUME TypeOK, NEW p \in Pod, NEW k \in Probe, NEW status, Count(p, k, status)
    PROVE  /\ misses' \in [Pod -> [Probe -> 0 .. FailureThreshold]]
           /\ ready' \in [Pod -> BOOLEAN]
<1> DEFINE n == IF status = 200 THEN 0
                ELSE IF misses[p][k] < FailureThreshold THEN misses[p][k] + 1
                ELSE misses[p][k]
<1>1. n \in 0 .. FailureThreshold
  BY SizeAssumption DEF TypeOK
<1>2. misses' = [misses EXCEPT ![p][k] = n]
  BY DEF Count
<1>3. ready' = [ready EXCEPT ![p] =
                  IF k = "live" THEN @ ELSE n = 0 \/ (@ /\ n < FailureThreshold)]
  BY DEF Count
<1> HIDE DEF n
<1> QED
  BY <1>1, <1>2, <1>3 DEF TypeOK

LEMMA Steps ==
    ASSUME TypeOK, PodsOK, [Next]_vars
    PROVE  TypeOK' /\ PodsOK'
<1> USE DEF pool, kubelet
<1>1. ASSUME UNCHANGED <<pool, task>> PROVE PodsOK'
  BY <1>1, PoolsUnchanged DEF Under
<1>2. ASSUME NEW p \in Pod, Step(p) PROVE TypeOK' /\ PodsOK'
  <2>1. CASE OpenPool(p)
    BY <1>1, <2>1 DEF OpenPool, TypeOK
  <2>2. CASE InitSchema(p)
    BY <1>1, <2>2 DEF InitSchema, TypeOK
  <2>3. CASE Seed(p)
    BY <1>1, <2>3 DEF Seed, TypeOK
  <2>4. CASE StartFails(p)
    BY <1>1, <2>4 DEF StartFails, TypeOK
  <2>5. CASE Acquire(p)
    BY <2>5, Acquired DEF Acquire, TypeOK
  <2> QED
    BY <1>2, <2>1, <2>2, <2>3, <2>4, <2>5 DEF Step
<1>3. ASSUME NEW p \in Pod, NEW k \in Probe, SendProbe(p, k) PROVE TypeOK' /\ PodsOK'
  <2>1. PICK t \in Task : Enter(t, p, k, 1)
    BY <1>3 DEF SendProbe
  <2>2. 1 \in 1 .. MaxStatements
    BY SizeAssumption
  <2> QED
    BY <1>3, <2>1, <2>2, Entered DEF SendProbe, TypeOK
<1>4. ASSUME NEW p \in Pod, NEW k \in Probe, Refuse(p, k) PROVE TypeOK' /\ PodsOK'
  BY <1>1, <1>4, Counted DEF Refuse, TypeOK
<1>5. ASSUME NEW p \in Pod, Kill(p) PROVE TypeOK' /\ PodsOK'
  <2>1. NoMisses \in [Probe -> 0 .. FailureThreshold]
    BY SizeAssumption DEF NoMisses
  <2> QED
    BY <1>5, <2>1, Killed DEF Kill, TypeOK
<1>6. ASSUME NEW t \in Task, NEW p \in Pod, NEW n \in 1 .. MaxStatements, Request(t, p, n)
      PROVE  TypeOK' /\ PodsOK'
  <2>1. Enter(t, p, "request", n)
    BY <1>6 DEF Request
  <2>2. requests' \in 0 .. MaxRequests
    BY <1>6, SizeAssumption DEF Request, TypeOK
  <2> QED
    BY <1>6, <2>1, <2>2, Entered DEF Request, TypeOK
<1>7. ASSUME NEW t \in Task, NextStatement(t) PROVE TypeOK' /\ PodsOK'
  BY <1>7, Continued DEF NextStatement, TypeOK
<1>8. ASSUME NEW t \in Task, NEW done \in BOOLEAN, End(t, done) PROVE TypeOK' /\ PodsOK'
  <2>1. Holds(t) /\ Release(t)
    BY <1>8 DEF End
  <2>2. task[t].at \in Pod
    BY <2>1 DEF Holds, TypeOK, TaskRec
  <2>3. /\ misses' \in [Pod -> [Probe -> 0 .. FailureThreshold]]
        /\ ready' \in [Pod -> BOOLEAN]
    <3>1. CASE task[t].kind \in Probe /\ ~task[t].gone
      BY <1>8, <2>2, <3>1, Counted DEF End
    <3>2. CASE ~ (task[t].kind \in Probe /\ ~task[t].gone)
      BY <1>8, <3>2 DEF End, TypeOK
    <3> QED
      BY <3>1, <3>2
  <2> QED
    BY <1>8, <2>1, <2>3, Ended DEF End, TypeOK
<1>9. ASSUME NEW t \in Task, GiveUp(t) PROVE TypeOK' /\ PodsOK'
  <2> DEFINE new == [task[t] EXCEPT !.gone = TRUE]
  <2>1. task[t] \in TaskRec /\ task[t] # None /\ task[t].kind \in Probe
    BY <1>9 DEF GiveUp, TypeOK
  <2>2. new \in TaskRec /\ new # None /\ new.at = task[t].at /\ task[t].at \in Pod
    BY <2>1, NoneAssumption DEF TaskRec
  <2>3. task' = [task EXCEPT ![t] = new]
    BY <1>9 DEF GiveUp
  <2> HIDE DEF new
  <2>4. \A p \in Pod, r \in Task : Under(p, r)' <=> Under(p, r)
    BY <2>1, <2>2, <2>3 DEF TypeOK, Under
  <2>5. PodsOK'
    BY <1>9, <2>4, PoolsUnchanged DEF GiveUp
  <2>6. Count(task[t].at, task[t].kind, 0)
    BY <1>9 DEF GiveUp
  <2>7. /\ misses' \in [Pod -> [Probe -> 0 .. FailureThreshold]]
        /\ ready' \in [Pod -> BOOLEAN]
    BY <2>1, <2>2, <2>6, Counted
  <2> QED
    BY <1>9, <2>2, <2>3, <2>5, <2>7 DEF GiveUp, TypeOK
<1>10. CASE Migrate
  BY <1>1, <1>10 DEF Migrate, TypeOK
<1>11. CASE DbChanges
  BY <1>1, <1>11 DEF DbChanges, TypeOK
<1>12. CASE UNCHANGED vars
  BY <1>1, <1>12 DEF vars, TypeOK
<1> QED
  BY <1>2, <1>3, <1>4, <1>5, <1>6, <1>7, <1>8, <1>9, <1>10, <1>11, <1>12 DEF Next, Finish

LEMMA Initially == Init => TypeOK /\ PodsOK
<1> SUFFICES ASSUME Init PROVE TypeOK /\ PodsOK
  OBVIOUS
<1>1. TypeOK
  <2>1. NoMisses \in [Probe -> 0 .. FailureThreshold]
    BY SizeAssumption DEF NoMisses
  <2>2. <<>> \in Seq(Task)
    OBVIOUS
  <2> QED
    BY <2>1, <2>2, SizeAssumption DEF Init, TypeOK
<1>2. ASSUME NEW p \in Pod PROVE PodOK(p)
  <2>1. queue[p] = <<>> /\ holds[p] = {} /\ \A t \in Task : ~Under(p, t)
    BY DEF Init, Under
  <2>2. (\A y : ~In(queue[p], y)) /\ Once(queue[p])
    BY <2>1 DEF In, Once
  <2> QED
    BY <2>1, <2>2, FS_EmptySet, SizeAssumption DEF PodOK
<1> QED
  BY <1>1, <1>2 DEF PodsOK

-----------------------------------------------------------------------------
\* The theorems

\* Types and pool together are inductive.
LEMMA Invariance == Spec => [](TypeOK /\ PodsOK)
<1>1. Init => TypeOK /\ PodsOK
  BY Initially
<1>2. (TypeOK /\ PodsOK) /\ [Next]_vars => (TypeOK /\ PodsOK)'
  BY Steps
<1> QED
  BY <1>1, <1>2, PTL DEF Spec

\* Through outages, kills and probes given up, every count stays within its
\* threshold and every task within its statements.
THEOREM TypeCorrect == Spec => []TypeOK
BY Invariance, PTL

\* For any size of the pool and any number of pods and tasks, no connection is
\* lost or given away twice, and no task waits or holds but the pod's own.
THEOREM PoolConserved == Spec => []PoolIsConserved
BY Invariance, InvariantOfPods, PTL
=============================================================================
