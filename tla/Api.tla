--------------------------------- MODULE Api ---------------------------------
(***************************************************************************)
(* The pods of the API between their database and their kubelet:           *)
(* src/api/main.py with its lifespan, the connection pool of               *)
(* src/db/pool.py, which requests and probes share, the set-up of the      *)
(* schema, and the probes of deploy/base/api/deployment.yaml.              *)
(*                                                                         *)
(* A task is a request or a probe.  It acquires a connection, runs one     *)
(* statement and releases it, several times over; acquire waits without a  *)
(* timeout.  A definition D_X is D with the slip X in it, for the mutation *)
(* tests.                                                                  *)
(***************************************************************************)
EXTENDS Naturals, Sequences, FiniteSets

CONSTANTS
    None,
    Pod,
    MaxTasks,          \* bound on the tasks under way at once
    MaxSize,           \* max_size of the pool
    MaxStatements,     \* bound on the connections a request takes in turn
    FailureThreshold,  \* of both probes
    MaxRequests        \* bound on the requests sent

ASSUME SizeAssumption ==
    /\ MaxTasks \in Nat
    /\ MaxSize \in Nat \ {0}
    /\ MaxStatements \in Nat \ {0}
    /\ FailureThreshold \in Nat \ {0}
    /\ MaxRequests \in Nat

Task == 1 .. MaxTasks
Probe == {"live", "ready"}
TaskRec == [at : Pod, kind : Probe \cup {"request"}, rest : 1 .. MaxStatements,
            gone : BOOLEAN]

ASSUME NoneAssumption == None \notin TaskRec

VARIABLES
    db,        \* whether the database answers
    schema,    \* whether the tables exist
    phase,     \* pod -> how far lifespan is
    queue,     \* pod -> tasks that wait in acquire, the first first
    holds,     \* pod -> tasks that hold a connection
    task,      \* task -> what it is, None when it has ended
    ready,     \* pod -> whether the service sends it requests
    misses,    \* pod -> probe -> failures in a row
    requests

pool == <<queue, holds>>
kubelet == <<ready, misses>>
vars == <<db, schema, phase, queue, holds, task, ready, misses, requests>>

-----------------------------------------------------------------------------
Waits(t) == task[t] # None /\ t \notin holds[task[t].at]
Holds(t) == task[t] # None /\ t \in holds[task[t].at]
Full(p) == Cardinality(holds[p]) = MaxSize
Busy(p) == Full(p) /\ \A t \in holds[p] : task[t].kind = "request"
NoMisses == [k \in Probe |-> 0]

Init ==
    /\ db \in BOOLEAN
    /\ schema \in BOOLEAN
    /\ phase = [p \in Pod |-> "down"]
    /\ queue = [p \in Pod |-> <<>>]
    /\ holds = [p \in Pod |-> {}]
    /\ task = [t \in Task |-> None]
    /\ ready = [p \in Pod |-> FALSE]
    /\ misses = [p \in Pod |-> NoMisses]
    /\ requests = 0

-----------------------------------------------------------------------------
\* startup: get_pool opens the first connections; any exception ends the
\* process, and the kubelet starts the container again.
OpenPool(p) ==
    /\ phase[p] = "down"
    /\ db
    /\ phase' = [phase EXCEPT ![p] = IF schema THEN "checking" ELSE "creating"]
    /\ UNCHANGED <<db, schema, pool, task, kubelet, requests>>

\* init_schema: the script is one transaction of IF NOT EXISTS statements.  Of
\* two programs that create the tables at once the later one may fail.
InitSchema_Plain(p) ==  \* without IF NOT EXISTS
    /\ phase[p] = "creating"
    /\ db
    /\ ~schema
    /\ schema' = TRUE
    /\ phase' = [phase EXCEPT ![p] = "seeding"]
    /\ UNCHANGED <<db, pool, task, kubelet, requests>>
InitSchema(p) ==
    /\ phase[p] \in {"creating", "checking"}
    /\ db
    /\ schema' = TRUE
    /\ phase' = [phase EXCEPT ![p] = "seeding"]
    /\ UNCHANGED <<db, pool, task, kubelet, requests>>

\* migrate.py, run by hand, or another program that sets the schema up.
Migrate ==
    /\ db
    /\ schema' = TRUE
    /\ UNCHANGED <<db, phase, pool, task, kubelet, requests>>

\* ensure_seed, and the application serves.
Seed(p) ==
    /\ phase[p] = "seeding"
    /\ db
    /\ phase' = [phase EXCEPT ![p] = "up"]
    /\ UNCHANGED <<db, schema, pool, task, kubelet, requests>>

StartFails(p) ==
    /\ phase[p] \in {"creating", "checking", "seeding"}
    /\ ~db \/ (phase[p] = "creating" /\ schema)
    /\ phase' = [phase EXCEPT ![p] = "down"]
    /\ UNCHANGED <<db, schema, pool, task, kubelet, requests>>

-----------------------------------------------------------------------------
\* A task comes to a pod and calls acquire.
Enter(t, p, kind, rest) ==
    /\ task[t] = None
    /\ \A r \in 1 .. (t - 1) : task[r] # None
    /\ task' = [task EXCEPT ![t] =
          [at |-> p, kind |-> kind, rest |-> rest, gone |-> FALSE]]
    /\ queue' = [queue EXCEPT ![p] = Append(@, t)]
    /\ UNCHANGED holds

Request(t, p, n) ==
    /\ requests < MaxRequests
    /\ requests' = requests + 1
    /\ ready[p] /\ phase[p] = "up"
    /\ Enter(t, p, "request", n)
    /\ UNCHANGED <<db, schema, phase, kubelet>>

\* acquire returns.
Acquire(p) ==
    /\ queue[p] # <<>>
    /\ ~Full(p)
    /\ holds' = [holds EXCEPT ![p] = @ \cup {Head(queue[p])}]
    /\ queue' = [queue EXCEPT ![p] = Tail(@)]
    /\ UNCHANGED <<db, schema, phase, task, kubelet, requests>>

\* The statement is done, and the connection given back; a request goes on to
\* its next one, whose helper acquires again.
NextStatement_NoEnd(t) ==  \* does not see that it was the last one
    LET p == task[t].at IN
    /\ Holds(t)
    /\ db
    /\ task' = [task EXCEPT ![t].rest = @ - 1]
    /\ holds' = [holds EXCEPT ![p] = @ \ {t}]
    /\ queue' = [queue EXCEPT ![p] = Append(@, t)]
    /\ UNCHANGED <<db, schema, phase, kubelet, requests>>
NextStatement(t) ==
    LET p == task[t].at IN
    /\ Holds(t)
    /\ db
    /\ task[t].rest > 1
    /\ task' = [task EXCEPT ![t].rest = @ - 1]
    /\ holds' = [holds EXCEPT ![p] = @ \ {t}]
    /\ queue' = [queue EXCEPT ![p] = Append(@, t)]
    /\ UNCHANGED <<db, schema, phase, kubelet, requests>>

Release_OnSuccess(t) ==  \* no finally: an exception keeps the connection
    /\ holds' = [holds EXCEPT ![task[t].at] = IF db THEN @ \ {t} ELSE @]
    /\ task' = [task EXCEPT ![t] = None]
    /\ UNCHANGED queue
Release(t) ==
    /\ holds' = [holds EXCEPT ![task[t].at] = @ \ {t}]
    /\ task' = [task EXCEPT ![t] = None]
    /\ UNCHANGED queue

\* health: the status of a probe.
Health_Always200(done) == 200  \* the status is left as it is
Health(done) == IF done THEN 200 ELSE 503

\* The kubelet counts failures in a row; from the threshold on a pod is not
\* ready, and one success makes it ready again.
Count(p, k, status) ==
    LET n == IF status = 200 THEN 0
             ELSE IF misses[p][k] < FailureThreshold THEN misses[p][k] + 1
             ELSE misses[p][k]
    IN
    /\ misses' = [misses EXCEPT ![p][k] = n]
    /\ ready' = [ready EXCEPT ![p] =
          IF k = "live" THEN @ ELSE n = 0 \/ (@ /\ n < FailureThreshold)]

\* The last statement is done, or a statement has failed: when the database is
\* away, and a slow one of a request after command_timeout.
End(t, done) ==
    /\ Holds(t)
    /\ done => db /\ task[t].rest = 1
    /\ ~done => ~db \/ task[t].kind = "request"
    /\ Release(t)
    /\ IF task[t].kind \in Probe /\ ~task[t].gone
       THEN Count(task[t].at, task[t].kind, Health(done))
       ELSE UNCHANGED kubelet
    /\ UNCHANGED <<db, schema, phase, requests>>

-----------------------------------------------------------------------------
\* A probe is due, and the one before has been answered or given up.
Due(p, k) == \A t \in Task :
    ~ (task[t] # None /\ task[t].at = p /\ task[t].kind = k /\ ~task[t].gone)

SendProbe(p, k) ==
    /\ phase[p] = "up"
    /\ Due(p, k)
    /\ \E t \in Task : Enter(t, p, k, 1)
    /\ UNCHANGED <<db, schema, phase, kubelet, requests>>

\* Nothing listens before startup has ended.  With the database there, startup
\* is over before the liveness probe has failed three times (100 s).
Refuse(p, k) ==
    /\ phase[p] \in {"creating", "checking", "seeding"}
    /\ db => k = "ready"
    /\ Count(p, k, 0)
    /\ UNCHANGED <<db, schema, phase, pool, task, requests>>

\* The kubelet gives up after a second, the task goes on.  SELECT 1 is quick
\* when the database is there: only slow statements of requests, as many as the
\* pool has connections, make a probe wait that long.
GiveUp(t) ==
    /\ task[t] # None
    /\ task[t].kind \in Probe /\ ~task[t].gone
    /\ \/ ~db
       \/ Waits(t) /\ Busy(task[t].at)
    /\ task' = [task EXCEPT ![t].gone = TRUE]
    /\ Count(task[t].at, task[t].kind, 0)
    /\ UNCHANGED <<db, schema, phase, pool, requests>>

\* The liveness probe has failed: the container starts again.
Kill(p) ==
    /\ misses[p]["live"] = FailureThreshold
    /\ phase' = [phase EXCEPT ![p] = "down"]
    /\ queue' = [queue EXCEPT ![p] = <<>>]
    /\ holds' = [holds EXCEPT ![p] = {}]
    /\ task' = [t \in Task |->
          IF task[t] # None /\ task[t].at = p THEN None ELSE task[t]]
    /\ ready' = [ready EXCEPT ![p] = FALSE]
    /\ misses' = [misses EXCEPT ![p] = NoMisses]
    /\ UNCHANGED <<db, schema, requests>>

DbChanges ==
    /\ db' = ~db
    /\ UNCHANGED <<schema, phase, pool, task, kubelet, requests>>

-----------------------------------------------------------------------------
Step(p) == OpenPool(p) \/ InitSchema(p) \/ Seed(p) \/ StartFails(p) \/ Acquire(p)
Finish(t) == NextStatement(t) \/ \E done \in BOOLEAN : End(t, done)

Next ==
    \/ \E p \in Pod :
          \/ Step(p)
          \/ \E k \in Probe : SendProbe(p, k) \/ Refuse(p, k)
          \/ Kill(p)
    \/ \E t \in Task :
          \/ \E p \in Pod, n \in 1 .. MaxStatements : Request(t, p, n)
          \/ Finish(t)
          \/ GiveUp(t)
    \/ Migrate
    \/ DbChanges

Spec == Init /\ [][Next]_vars

\* The event loop runs, statements end (command_timeout), and the kubelet goes
\* on probing and kills what has failed; that the database comes back is not
\* assumed.
FairSpec ==
    /\ Spec
    /\ \A p \in Pod :
          /\ WF_vars(Step(p))
          /\ WF_vars(Kill(p))
          /\ \A k \in Probe : WF_vars(SendProbe(p, k))
    /\ \A t \in Task : WF_vars(Finish(t))

-----------------------------------------------------------------------------
\* Types of the state.
TypeOK ==
    /\ db \in BOOLEAN
    /\ schema \in BOOLEAN
    /\ phase \in [Pod -> {"down", "creating", "checking", "seeding", "up"}]
    /\ queue \in [Pod -> Seq(Task)]
    /\ holds \in [Pod -> SUBSET Task]
    /\ task \in [Task -> TaskRec \cup {None}]
    /\ ready \in [Pod -> BOOLEAN]
    /\ misses \in [Pod -> [Probe -> 0 .. FailureThreshold]]
    /\ requests \in 0 .. MaxRequests

\* The pool loses no connection and gives none away twice: at most max_size are
\* out, each to a task that is still under way in this pod, and every other
\* task of the pod waits in its queue, once.
PoolIsConserved ==
    \A p \in Pod :
        /\ Cardinality(holds[p]) <= MaxSize
        /\ \A t \in Task :
              (t \in holds[p] \/ \E i \in DOMAIN queue[p] : queue[p][i] = t)
                  <=> (task[t] # None /\ task[t].at = p)
        /\ \A i \in DOMAIN queue[p] : queue[p][i] \notin holds[p]
        /\ \A i, j \in DOMAIN queue[p] : queue[p][i] = queue[p][j] => i = j

\* "/healthz checks the connection to the database, so that readiness fails
\* when the database does" (prometheusrule.yaml:30, README.md:116): with the
\* database away for good, no pod stays ready, whether its probes are answered
\* 503, hang, or find no free connection.
OutageIsReported == <>[]~db => <>[](\A p \in Pod : ~ready[p])

\* When the database is back for good and no more requests come, every pod
\* comes to serve and stays ready, whatever was killed, hung or half started.
RecoversAfterOutage == <>[]db => <>[](\A p \in Pod : phase[p] = "up" /\ ready[p])
=============================================================================
