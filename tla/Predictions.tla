----------------------------- MODULE Predictions -----------------------------
(***************************************************************************)
(* Predictions: run_prediction of src/analysis/predict_service.py behind   *)
(* the cluster endpoint of src/api/routers/predictions.py.  Every request  *)
(* runs the prediction of all clusters, query by query, and stores an      *)
(* event for each urgent recommendation before it is answered.  Requests   *)
(* overlap, and samples arrive meanwhile.  The nodes of a cluster and the  *)
(* recommendations are taken in any order.  A definition D_X is D with the *)
(* slip X in it, for the mutation tests.                                   *)
(***************************************************************************)
EXTENDS MetricHistory

CONSTANTS
    Cluster,    \* what query_clusters returns
    ClusterOf,  \* Series -> Cluster
    Request,    \* requests for predictions
    MaxDay,     \* bound on the days
    MaxSamples  \* bound on the samples

ASSUME ClusterAssumption == ClusterOf \in [Series -> Cluster]
ASSUME BoundAssumption == MaxDay \in Nat /\ MaxSamples \in Nat

DB == INSTANCE Database

VARIABLES
    day,     \* number of today
    samples, \* samples so far
    events,  \* table events: the predictions among them
    run      \* request -> what its run_prediction has done

vars == <<averages, day, samples, events, run>>

\* `clusters` and `ask` are the rest of the loops, `preds` is node_predictions
\* with the metrics that were read, `unread` those whose query failed, `logged`
\* the recommendations with an event.
NewRun == [status |-> "new", clusters |-> Cluster, ask |-> {},
           preds |-> << >>, unread |-> {}, logged |-> {}]

Init ==
    /\ HistoryInit
    /\ day = 0
    /\ samples = 0
    /\ events = << >>
    /\ run = [q \in Request |-> NewRun]

DayPasses ==
    /\ day < MaxDay
    /\ day' = day + 1
    /\ NewDay
    /\ UNCHANGED <<samples, events, run>>

Sample(s, load) ==
    /\ samples < MaxSamples
    /\ samples' = samples + 1
    /\ Measure(s, load)
    /\ UNCHANGED <<day, events, run>>

-----------------------------------------------------------------------------
Urgent(q) == {s \in DOMAIN run[q].preds : Urgency(run[q].preds[s]) = "high"}

\* What a request does between two awaits
Running(q) == run[q].status = "running"
Reading(q) == Running(q) /\ run[q].ask # {}
Logging(q) == Running(q) /\ run[q].ask = {} /\ ~ Urgent(q) \subseteq run[q].logged
ClusterDone(q) == Running(q) /\ run[q].ask = {} /\ Urgent(q) \subseteq run[q].logged

Start(q) ==
    /\ run[q].status = "new"
    /\ run' = [run EXCEPT ![q].status = "running"]
    /\ UNCHANGED <<averages, day, samples, events>>

\* The nodes of the next cluster, and their metrics
NextCluster_FirstOnly(q, c) ==  \* the return inside the loop
    /\ ClusterDone(q)
    /\ c \in run[q].clusters
    /\ run' = [run EXCEPT ![q].clusters = {},
                          ![q].ask = {s \in Series : ClusterOf[s] = c}]
    /\ UNCHANGED <<averages, day, samples, events>>
NextCluster(q, c) ==
    /\ ClusterDone(q)
    /\ c \in run[q].clusters
    /\ run' = [run EXCEPT ![q].clusters = @ \ {c},
                          ![q].ask = {s \in Series : ClusterOf[s] = c}]
    /\ UNCHANGED <<averages, day, samples, events>>

Read(q, s) ==
    /\ Reading(q)
    /\ s \in run[q].ask
    /\ run' = [run EXCEPT ![q].ask = @ \ {s},
                          ![q].preds = [t \in DOMAIN @ \cup {s} |->
                              IF t = s THEN Prediction(s) ELSE @[t]]]
    /\ UNCHANGED <<averages, day, samples, events>>

\* The query of one metric raises: a warning, and the next one.
ReadFails(q, s) ==
    /\ Reading(q)
    /\ s \in run[q].ask
    /\ run' = [run EXCEPT ![q].ask = @ \ {s}, ![q].unread = @ \cup {s}]
    /\ UNCHANGED <<averages, day, samples, events>>

\* The event of a recommendation; its time column is the day, and the request
\* stands for the moment.
EventOf(q, s, d) ==
    [series |-> s, current |-> run[q].preds[s].current,
     days |-> run[q].preds[s].days_to_full, day |-> d, request |-> q]
WithEvent(q, s) == DB!InsertEvent(events, EventOf(q, s, day))

LogUrgent(q, s) ==
    /\ Logging(q)
    /\ s \in Urgent(q) \ run[q].logged
    /\ events' = WithEvent(q, s)
    /\ run' = [run EXCEPT ![q].logged = @ \cup {s}]
    /\ UNCHANGED <<averages, day, samples>>

\* insert_event raises, committed or not: the request ends with 500.
LogFails_TriedAgain(q, s) ==  \* the INSERT in a loop until it succeeds
    /\ Logging(q)
    /\ s \in Urgent(q) \ run[q].logged
    /\ events' \in {events, WithEvent(q, s)}
    /\ UNCHANGED <<averages, day, samples, run>>
LogFails(q, s) ==
    /\ Logging(q)
    /\ s \in Urgent(q) \ run[q].logged
    /\ events' \in {events, WithEvent(q, s)}
    /\ run' = [run EXCEPT ![q].status = "failed"]
    /\ UNCHANGED <<averages, day, samples>>

Answer_BeforeLogging(q) ==  \* the events in a task of their own
    /\ Running(q)
    /\ run[q].ask = {}
    /\ run[q].clusters = {}
    /\ run' = [run EXCEPT ![q].status = "ok"]
    /\ UNCHANGED <<averages, day, samples, events>>
Answer(q) ==
    /\ ClusterDone(q)
    /\ run[q].clusters = {}
    /\ run' = [run EXCEPT ![q].status = "ok"]
    /\ UNCHANGED <<averages, day, samples, events>>

\* A query of the clusters or nodes raises, or the pod dies.
End(q) ==
    /\ run[q].status \in {"new", "running"}
    /\ run' = [run EXCEPT ![q].status = "failed"]
    /\ UNCHANGED <<averages, day, samples, events>>

Next ==
    \/ DayPasses
    \/ \E s \in Series, load \in Load : Sample(s, load)
    \/ \E q \in Request : Start(q) \/ Answer(q) \/ End(q)
    \/ \E q \in Request, c \in Cluster : NextCluster(q, c)
    \/ \E q \in Request, s \in Series :
          Read(q, s) \/ ReadFails(q, s) \/ LogUrgent(q, s) \/ LogFails(q, s)

Spec == Init /\ [][Next]_vars

-----------------------------------------------------------------------------
Event == [series : Series, current : 0 .. Full, days : Nat, day : 0 .. MaxDay,
          request : Request]

\* The type of the events and of the runs.
TypeOK ==
    /\ HistoryTypeOK
    /\ day \in 0 .. MaxDay
    /\ samples \in 0 .. MaxSamples
    /\ events \in Seq(Event)
    /\ DOMAIN run = Request
    /\ \A q \in Request :
          /\ run[q].status \in {"new", "running", "ok", "failed"}
          /\ run[q].clusters \subseteq Cluster
          /\ run[q].ask \cup run[q].unread \cup run[q].logged \subseteq Series
          /\ DOMAIN run[q].preds \subseteq Series

\* predict_service.py:56-66 before the return: an urgent recommendation that an
\* answer shows is in the event log, though requests overlap, queries fail and
\* the data has moved on.
UrgentIsLoggedFirst ==
    \A q \in Request : run[q].status = "ok" =>
        \A s \in Urgent(q) :
            \E i \in DOMAIN events :
                /\ events[i].series = s
                /\ events[i].request = q
                /\ events[i].days = run[q].preds[s].days_to_full

\* A request logs no recommendation twice, and only what it has predicted as
\* full within seven days, whatever became of it afterwards.
EventsArePredicted ==
    /\ \A i \in DOMAIN events :
          LET q == events[i].request
              s == events[i].series
          IN /\ s \in Urgent(q)
             /\ events[i].days = run[q].preds[s].days_to_full
             /\ events[i].days <= 7
    /\ \A i, j \in DOMAIN events :
          /\ events[i].request = events[j].request
          /\ events[i].series = events[j].series
          => i = j

\* predict_service.py:43-50: a metric whose query fails costs no other metric
\* its prediction: an answer holds every metric of every cluster but those.
AnswersAreComplete ==
    \A q \in Request : run[q].status = "ok" =>
        DOMAIN run[q].preds = Series \ run[q].unread

-----------------------------------------------------------------------------
\* What relates the loops of a request to its answer and to the log: the rest of
\* the inductive invariant.
Prospects == {Predict(Buckets(a), 90) : a \in Averages}
Forecasts == UNION {[D -> Prospects] : D \in SUBSET Series}
Run == [status : {"new", "running", "ok", "failed"}, clusters : SUBSET Cluster,
        ask : SUBSET Series, preds : Forecasts,
        unread : SUBSET Series, logged : SUBSET Series]

Handled(q) == DOMAIN run[q].preds \cup run[q].unread
Later(q) == {s \in Series : ClusterOf[s] \in run[q].clusters}
Loggable == UNION {{EventOf(q, s, d) : s \in Urgent(q), d \in 0 .. MaxDay} : q \in Request}

\* Fields of the runs.
RunsAreTyped ==
    /\ HistoryTypeOK
    /\ day \in 0 .. MaxDay
    /\ run \in [Request -> Run]

\* A metric is ahead of a request, or read or not once: nothing is passed over
\* and nothing is read twice.
LoopsCoverSeries ==
    \A q \in Request : run[q].status # "failed" =>
        /\ Handled(q) \cup run[q].ask \cup Later(q) = Series
        /\ (run[q].ask \cup Later(q)) \cap Handled(q) = {}
        /\ run[q].ask \cap Later(q) = {}
        /\ DOMAIN run[q].preds \cap run[q].unread = {}

\* An answered request has nothing ahead and nothing to log.
AnswersAreFinal ==
    \A q \in Request : run[q].status = "ok" =>
        /\ run[q].ask = {}
        /\ run[q].clusters = {}
        /\ Urgent(q) \subseteq run[q].logged

\* What a request has logged is in the table.
LoggedIsStored ==
    \A q \in Request : \A s \in run[q].logged :
        /\ s \in Urgent(q)
        /\ \E i \in DOMAIN events : \E d \in 0 .. MaxDay : events[i] = EventOf(q, s, d)

\* The table holds recommendations of requests only, each once, and those of a
\* request that goes on are noted by it.
StoredIsLogged ==
    /\ events \in Seq(Loggable)
    /\ \A i \in DOMAIN events :
          LET q == events[i].request
          IN run[q].status # "failed" => events[i].series \in run[q].logged
    /\ \A i, j \in DOMAIN events :
          /\ events[i].request = events[j].request
          /\ events[i].series = events[j].series
          => i = j

IInv ==
    /\ RunsAreTyped
    /\ LoopsCoverSeries
    /\ AnswersAreFinal
    /\ LoggedIsStored
    /\ StoredIsLogged
=============================================================================
