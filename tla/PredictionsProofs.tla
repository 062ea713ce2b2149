-------------------------- MODULE PredictionsProofs --------------------------
(***************************************************************************)
(* Theorems about Predictions, for any clusters, metrics and requests.     *)
(* What a request has predicted it never predicts again, so that a stored  *)
(* event stays an event of its request, and the loops of a request leave   *)
(* no metric out.                                                          *)
(***************************************************************************)
EXTENDS Predictions, MetricHistoryProofs

-----------------------------------------------------------------------------
\* The fields of a run.
LEMMA RunParts ==
    ASSUME RunsAreTyped, NEW q \in Request
    PROVE  /\ run[q] \in Run
           /\ run[q].clusters \subseteq Cluster
           /\ run[q].ask \subseteq Series
           /\ run[q].unread \subseteq Series
           /\ run[q].logged \subseteq Series
           /\ DOMAIN run[q].preds \subseteq Series
           /\ run[q].preds \in Forecasts
<1>1. run[q] \in Run
  BY DEF RunsAreTyped
<1>2. run[q].preds \in Forecasts
  BY <1>1 DEF Run
<1>3. DOMAIN run[q].preds \subseteq Series
  BY <1>2 DEF Forecasts
<1> QED
  BY <1>1, <1>2, <1>3 DEF Run

\* One more prediction.
LEMMA OneMore ==
    ASSUME NEW p \in Forecasts,
           NEW s \in Series, NEW v \in Prospects
    PROVE  [t \in DOMAIN p \cup {s} |-> IF t = s THEN v ELSE p[t]]
              \in Forecasts
<1>1. PICK D \in SUBSET Series : p \in [D -> Prospects]
  BY DEF Forecasts
<1>2. [t \in DOMAIN p \cup {s} |-> IF t = s THEN v ELSE p[t]]
        \in [D \cup {s} -> Prospects]
  BY <1>1
<1>3. D \cup {s} \in SUBSET Series
  BY <1>1
<1> QED
  BY <1>2, <1>3 DEF Forecasts

LEMMA InitInv == Init => IInv
<1> SUFFICES ASSUME Init PROVE IInv
  OBVIOUS
<1>1. HistoryTypeOK
  BY DEF Init, HistoryInit, HistoryTypeOK, NoRows, Averages
<1>2. << >> \in Forecasts
  <2>1. << >> \in [{} -> Prospects]
    OBVIOUS
  <2> QED
    BY <2>1 DEF Forecasts
<1>3. NewRun \in Run
  BY <1>2 DEF NewRun, Run
<1>4. RunsAreTyped
  BY <1>1, <1>3, BoundAssumption DEF Init, RunsAreTyped
<1>5. \A q \in Request :
        /\ run[q].status = "new" /\ run[q].clusters = Cluster
        /\ run[q].ask = {} /\ run[q].unread = {} /\ run[q].logged = {}
        /\ DOMAIN run[q].preds = {}
  BY DEF Init, NewRun
<1>6. LoopsCoverSeries
  BY <1>5, ClusterAssumption DEF LoopsCoverSeries, Handled, Later
<1>7. AnswersAreFinal /\ LoggedIsStored
  BY <1>5 DEF AnswersAreFinal, LoggedIsStored
<1>8. StoredIsLogged
  BY DEF Init, StoredIsLogged
<1> QED
  BY <1>4, <1>6, <1>7, <1>8 DEF IInv

-----------------------------------------------------------------------------
\* A step that changes one request and keeps its predictions, or adds one that
\* it did not have, keeps the events it has stored, and those it may store.
Keeps(q) ==
    /\ DOMAIN run[q].preds \subseteq DOMAIN run'[q].preds
    /\ \A s \in DOMAIN run[q].preds : run'[q].preds[s] = run[q].preds[s]

LEMMA KeepsEvents ==
    ASSUME \A q \in Request : Keeps(q)
    PROVE  /\ \A q \in Request : Urgent(q) \subseteq Urgent(q)'
           /\ \A q \in Request : \A s \in Urgent(q) : \A d \in 0 .. MaxDay :
                 EventOf(q, s, d)' = EventOf(q, s, d)
           /\ Loggable \subseteq Loggable'
<1>1. \A q \in Request : \A s \in Urgent(q) :
        s \in Urgent(q)' /\ run'[q].preds[s] = run[q].preds[s]
  BY DEF Keeps, Urgent
<1>2. \A q \in Request : \A s \in Urgent(q) : \A d \in 0 .. MaxDay :
        EventOf(q, s, d)' = EventOf(q, s, d)
  BY <1>1 DEF EventOf
<1>3. Loggable \subseteq Loggable'
  BY <1>1, <1>2 DEF Loggable
<1> QED
  BY <1>1, <1>2, <1>3

LEMMA LoggableParts ==
    ASSUME StoredIsLogged, NEW i \in DOMAIN events
    PROVE  \E q \in Request : \E s \in Urgent(q) : \E d \in 0 .. MaxDay :
              /\ events[i] = EventOf(q, s, d)
              /\ events[i].request = q
              /\ events[i].series = s
<1>1. events[i] \in Loggable
  BY DEF StoredIsLogged
<1> QED
  BY <1>1 DEF Loggable, EventOf

\* No step takes a prediction away or changes one (predict_service.py:38-48).
LEMMA PredictionsStay ==
    ASSUME IInv, [Next]_vars
    PROVE  \A q \in Request : Keeps(q)
<1>0. RunsAreTyped /\ LoopsCoverSeries
  BY DEF IInv
<1>1. ASSUME NEW q \in Request, NEW s \in Series, Read(q, s)
      PROVE  \A r \in Request : Keeps(r)
  <2>1. s \notin DOMAIN run[q].preds
    BY <1>0, <1>1 DEF Read, Reading, Running, LoopsCoverSeries, Handled
  <2>2. run[q] \in Run
    BY <1>0, RunParts
  <2>3. run'[q].preds = [t \in DOMAIN run[q].preds \cup {s} |->
                           IF t = s THEN Prediction(s) ELSE run[q].preds[t]]
    BY <1>0, <1>1, <2>2 DEF Read, RunsAreTyped, Run
  <2>4. \A r \in Request \ {q} : run'[r] = run[r]
    BY <1>0, <1>1 DEF Read, RunsAreTyped
  <2> QED
    BY <2>1, <2>3, <2>4 DEF Keeps
<1>2. ASSUME UNCHANGED run PROVE \A r \in Request : Keeps(r)
  BY <1>2 DEF Keeps
<1>3. ASSUME NEW q \in Request,
             \A r \in Request \ {q} : run'[r] = run[r],
             run'[q].preds = run[q].preds
      PROVE  \A r \in Request : Keeps(r)
  BY <1>3 DEF Keeps
<1>4. ASSUME NEW q \in Request, Start(q) \/ Answer(q) \/ End(q)
      PROVE  \A r \in Request : Keeps(r)
  <2>1. run[q] \in Run
    BY <1>0, RunParts
  <2> QED
    BY <1>0, <1>3, <1>4, <2>1 DEF Start, Answer, End, RunsAreTyped, Run
<1>5. ASSUME NEW q \in Request, NEW c \in Cluster, NextCluster(q, c)
      PROVE  \A r \in Request : Keeps(r)
  <2>1. run[q] \in Run
    BY <1>0, RunParts
  <2> QED
    BY <1>0, <1>3, <1>5, <2>1 DEF NextCluster, RunsAreTyped, Run
<1>6. ASSUME NEW q \in Request, NEW s \in Series,
             ReadFails(q, s) \/ LogUrgent(q, s) \/ LogFails(q, s)
      PROVE  \A r \in Request : Keeps(r)
  <2>1. run[q] \in Run
    BY <1>0, RunParts
  <2> QED
    BY <1>0, <1>3, <1>6, <2>1 DEF ReadFails, LogUrgent, LogFails, RunsAreTyped, Run
<1> QED
  BY <1>1, <1>2, <1>4, <1>5, <1>6 DEF Next, DayPasses, Sample, vars

-----------------------------------------------------------------------------
\* The steps that change one request, each with the fields it changes.
Only(q) == \A r \in Request \ {q} : run'[r] = run[r]

LEMMA ReadChanges ==
    ASSUME RunsAreTyped, NEW q \in Request, NEW s \in Series, Read(q, s)
    PROVE  /\ Only(q)
           /\ run'[q].status = run[q].status
           /\ run'[q].clusters = run[q].clusters
           /\ run'[q].ask = run[q].ask \ {s}
           /\ run'[q].preds = [t \in DOMAIN run[q].preds \cup {s} |->
                                IF t = s THEN Prediction(s) ELSE run[q].preds[t]]
           /\ run'[q].unread = run[q].unread
           /\ run'[q].logged = run[q].logged
<1>1. run[q] \in Run
  BY RunParts
<1> QED
  BY <1>1 DEF Read, Only, RunsAreTyped, Run

LEMMA ReadFailsChanges ==
    ASSUME RunsAreTyped, NEW q \in Request, NEW s \in Series, ReadFails(q, s)
    PROVE  /\ Only(q)
           /\ run'[q].status = run[q].status
           /\ run'[q].clusters = run[q].clusters
           /\ run'[q].ask = run[q].ask \ {s}
           /\ run'[q].preds = run[q].preds
           /\ run'[q].unread = run[q].unread \cup {s}
           /\ run'[q].logged = run[q].logged
<1>1. run[q] \in Run
  BY RunParts
<1> QED
  BY <1>1 DEF ReadFails, Only, RunsAreTyped, Run

LEMMA NextClusterChanges ==
    ASSUME RunsAreTyped, NEW q \in Request, NEW c \in Cluster, NextCluster(q, c)
    PROVE  /\ Only(q)
           /\ run'[q].status = run[q].status
           /\ run'[q].clusters = run[q].clusters \ {c}
           /\ run'[q].ask = {s \in Series : ClusterOf[s] = c}
           /\ run'[q].preds = run[q].preds
           /\ run'[q].unread = run[q].unread
           /\ run'[q].logged = run[q].logged
<1>1. run[q] \in Run
  BY RunParts
<1> QED
  BY <1>1 DEF NextCluster, Only, RunsAreTyped, Run

LEMMA LogChanges ==
    ASSUME RunsAreTyped, NEW q \in Request, NEW s \in Series, LogUrgent(q, s)
    PROVE  /\ Only(q)
           /\ run'[q].status = run[q].status
           /\ run'[q].clusters = run[q].clusters
           /\ run'[q].ask = run[q].ask
           /\ run'[q].preds = run[q].preds
           /\ run'[q].unread = run[q].unread
           /\ run'[q].logged = run[q].logged \cup {s}
<1>1. run[q] \in Run
  BY RunParts
<1> QED
  BY <1>1 DEF LogUrgent, Only, RunsAreTyped, Run

\* Only the status of the request changes.
StatusChanges(q, status) ==
    /\ Only(q)
    /\ run'[q].status = status
    /\ run'[q].clusters = run[q].clusters
    /\ run'[q].ask = run[q].ask
    /\ run'[q].preds = run[q].preds
    /\ run'[q].unread = run[q].unread
    /\ run'[q].logged = run[q].logged

LEMMA StatusSteps ==
    ASSUME RunsAreTyped, NEW q \in Request
    PROVE  /\ Start(q) => StatusChanges(q, "running")
           /\ Answer(q) => StatusChanges(q, "ok")
           /\ End(q) => StatusChanges(q, "failed")
           /\ \A s \in Series : LogFails(q, s) => StatusChanges(q, "failed")
<1>1. run[q] \in Run
  BY RunParts
<1>2. ASSUME NEW status, run' = [run EXCEPT ![q].status = status]
      PROVE  StatusChanges(q, status)
  BY <1>1, <1>2 DEF StatusChanges, Only, RunsAreTyped, Run
<1> QED
  BY <1>2 DEF Start, Answer, End, LogFails

\* The steps of one request.
StepOf(q) ==
    \/ Start(q) \/ Answer(q) \/ End(q)
    \/ \E c \in Cluster : NextCluster(q, c)
    \/ \E s \in Series : Read(q, s) \/ ReadFails(q, s) \/ LogUrgent(q, s) \/ LogFails(q, s)

LEMMA OneStepsAlone ==
    ASSUME RunsAreTyped, [Next]_vars
    PROVE  \/ UNCHANGED <<events, run>>
           \/ \E q \in Request : StepOf(q) /\ Only(q)
<1>1. \A q \in Request : StepOf(q) => Only(q)
  BY ReadChanges, ReadFailsChanges, NextClusterChanges, LogChanges, StatusSteps
     DEF StepOf, StatusChanges
<1>2. UNCHANGED <<events, run>> \/ \E q \in Request : StepOf(q)
  BY DEF Next, vars, DayPasses, Sample, StepOf
<1> QED
  BY <1>1, <1>2

LEMMA TypedStep ==
    ASSUME IInv, [Next]_vars
    PROVE  RunsAreTyped'
<1>0. RunsAreTyped
  BY DEF IInv
<1>1. HistoryTypeOK'
  <2>1. CASE UNCHANGED averages
    BY <1>0, <2>1, HistoryStep DEF RunsAreTyped
  <2>2. CASE DayPasses
    BY <1>0, <2>2, HistoryStep DEF RunsAreTyped, DayPasses, HistoryNext
  <2>3. ASSUME NEW s \in Series, NEW load \in Load, Sample(s, load)
        PROVE  HistoryTypeOK'
    BY <1>0, <2>3, HistoryStep DEF RunsAreTyped, Sample, HistoryNext
  <2> QED
    BY <2>1, <2>2, <2>3
       DEF Next, vars, Start, Answer, End, NextCluster, Read, ReadFails, LogUrgent, LogFails
<1>2. day' \in 0 .. MaxDay
  <2>1. day \in 0 .. MaxDay
    BY <1>0 DEF RunsAreTyped
  <2>2. CASE DayPasses
    BY <2>1, <2>2, BoundAssumption DEF DayPasses
  <2>3. CASE UNCHANGED day
    BY <2>1, <2>3
  <2> QED
    BY <2>2, <2>3
       DEF Next, vars, Sample, Start, Answer, End, NextCluster, Read, ReadFails, LogUrgent, LogFails
<1>3. run' \in [Request -> Run]
  <2>1. CASE UNCHANGED run
    BY <1>0, <2>1 DEF RunsAreTyped
  <2>2. ASSUME NEW q \in Request, run'[q] \in Run, Only(q),
               run' \in [Request -> {run'[r] : r \in Request}]
        PROVE  run' \in [Request -> Run]
    BY <1>0, <2>2 DEF Only, RunsAreTyped
  <2>3. ASSUME NEW q \in Request, NEW s \in Series, Read(q, s)
        PROVE  run' \in [Request -> Run]
    <3>1. Prediction(s) \in Prospects
      BY <1>0 DEF Prediction, Timeseries, Prospects, RunsAreTyped, HistoryTypeOK
    <3>2. [t \in DOMAIN run[q].preds \cup {s} |->
             IF t = s THEN Prediction(s) ELSE run[q].preds[t]]
            \in Forecasts
      <4>1. run[q].preds \in Forecasts
        BY <1>0, RunParts
      <4> QED
        BY <3>1, <4>1, OneMore
    <3>3. [run[q] EXCEPT !.ask = @ \ {s},
                         !.preds = [t \in DOMAIN @ \cup {s} |->
                                      IF t = s THEN Prediction(s) ELSE @[t]]] \in Run
      BY <1>0, <3>2, RunParts DEF Run
    <3> QED
      BY <1>0, <2>3, <3>3 DEF Read, RunsAreTyped
  <2>4. ASSUME NEW q \in Request, NEW s \in Series, ReadFails(q, s)
        PROVE  run' \in [Request -> Run]
    <3>1. [run[q] EXCEPT !.ask = @ \ {s}, !.unread = @ \cup {s}] \in Run
      BY <1>0, RunParts DEF Run
    <3> QED
      BY <1>0, <2>4, <3>1 DEF ReadFails, RunsAreTyped
  <2>5. ASSUME NEW q \in Request, NEW c \in Cluster, NextCluster(q, c)
        PROVE  run' \in [Request -> Run]
    <3>1. [run[q] EXCEPT !.clusters = @ \ {c},
                         !.ask = {s \in Series : ClusterOf[s] = c}] \in Run
      BY <1>0, RunParts DEF Run
    <3> QED
      BY <1>0, <2>5, <3>1 DEF NextCluster, RunsAreTyped
  <2>6. ASSUME NEW q \in Request, Start(q) \/ Answer(q) \/ End(q)
        PROVE  run' \in [Request -> Run]
    <3>1. \A t \in {"running", "ok", "failed"} : [run[q] EXCEPT !.status = t] \in Run
      BY <1>0, RunParts DEF Run
    <3> QED
      BY <1>0, <2>6, <3>1 DEF Start, Answer, End, RunsAreTyped
  <2>7. ASSUME NEW q \in Request, NEW s \in Series, LogUrgent(q, s) \/ LogFails(q, s)
        PROVE  run' \in [Request -> Run]
    <3>1. /\ [run[q] EXCEPT !.logged = @ \cup {s}] \in Run
          /\ [run[q] EXCEPT !.status = "failed"] \in Run
      BY <1>0, RunParts DEF Run
    <3> QED
      BY <1>0, <2>7, <3>1 DEF LogUrgent, LogFails, RunsAreTyped
  <2> QED
    BY <2>1, <2>3, <2>4, <2>5, <2>6, <2>7 DEF Next, vars, DayPasses, Sample
<1> QED
  BY <1>1, <1>2, <1>3 DEF RunsAreTyped

-----------------------------------------------------------------------------
\* The loops pass over no metric and take none twice.
LEMMA LoopsStep ==
    ASSUME IInv, [Next]_vars
    PROVE  LoopsCoverSeries'
<1>0. RunsAreTyped /\ LoopsCoverSeries
  BY DEF IInv
<1> DEFINE Covers(q) ==
        run[q].status # "failed" =>
          /\ Handled(q) \cup run[q].ask \cup Later(q) = Series
          /\ (run[q].ask \cup Later(q)) \cap Handled(q) = {}
          /\ run[q].ask \cap Later(q) = {}
          /\ DOMAIN run[q].preds \cap run[q].unread = {}
<1> SUFFICES ASSUME NEW q \in Request PROVE Covers(q)'
  BY DEF LoopsCoverSeries
<1>1. Covers(q) /\ run[q] \in Run
  BY <1>0, RunParts DEF LoopsCoverSeries
<1>2. CASE run'[q] = run[q]
  BY <1>1, <1>2 DEF Handled, Later
<1>3. ASSUME NEW s \in Series, Read(q, s) PROVE Covers(q)'
  <2>1. run[q].status = "running" /\ s \in run[q].ask
    BY <1>3 DEF Read, Reading, Running
  <2>2. Handled(q)' = Handled(q) \cup {s}
    BY <1>0, <1>3, ReadChanges DEF Handled
  <2>3. /\ run'[q].ask = run[q].ask \ {s}
        /\ Later(q)' = Later(q)
        /\ DOMAIN run'[q].preds = DOMAIN run[q].preds \cup {s}
        /\ run'[q].unread = run[q].unread
    <3>1. /\ run'[q].ask = run[q].ask \ {s}
          /\ run'[q].clusters = run[q].clusters
          /\ run'[q].unread = run[q].unread
      BY <1>0, <1>3, ReadChanges
    <3>2. run'[q].preds = [t \in DOMAIN run[q].preds \cup {s} |->
                             IF t = s THEN Prediction(s) ELSE run[q].preds[t]]
      BY <1>0, <1>3, ReadChanges
    <3>3. DOMAIN run'[q].preds = DOMAIN run[q].preds \cup {s}
      BY <3>2
    <3>4. Later(q)' = Later(q)
      BY <3>1 DEF Later
    <3> QED
      BY <3>1, <3>3, <3>4
  <2>4. s \notin Handled(q) /\ s \notin Later(q)
    BY <1>1, <2>1
  <2> QED
    BY <1>1, <2>1, <2>2, <2>3, <2>4 DEF Handled
<1>4. ASSUME NEW s \in Series, ReadFails(q, s) PROVE Covers(q)'
  <2>1. run[q].status = "running" /\ s \in run[q].ask
    BY <1>4 DEF ReadFails, Reading, Running
  <2>2. Handled(q)' = Handled(q) \cup {s}
    BY <1>0, <1>4, ReadFailsChanges DEF Handled
  <2>3. /\ run'[q].ask = run[q].ask \ {s}
        /\ Later(q)' = Later(q)
        /\ run'[q].preds = run[q].preds
        /\ run'[q].unread = run[q].unread \cup {s}
    BY <1>0, <1>4, ReadFailsChanges DEF Later
  <2>4. s \notin Handled(q) /\ s \notin Later(q)
    BY <1>1, <2>1
  <2> QED
    BY <1>1, <2>1, <2>2, <2>3, <2>4 DEF Handled
<1>5. ASSUME NEW c \in Cluster, NextCluster(q, c) PROVE Covers(q)'
  <2>1. run[q].status = "running" /\ run[q].ask = {} /\ c \in run[q].clusters
    BY <1>5 DEF NextCluster, ClusterDone, Running
  <2>2. /\ run'[q].ask = {s \in Series : ClusterOf[s] = c}
        /\ run'[q].clusters = run[q].clusters \ {c}
        /\ run'[q].preds = run[q].preds
        /\ run'[q].unread = run[q].unread
    BY <1>0, <1>5, NextClusterChanges
  <2>3. Later(q)' \cup run'[q].ask = Later(q) /\ Later(q)' \cap run'[q].ask = {}
    BY <2>1, <2>2 DEF Later
  <2>4. Handled(q)' = Handled(q)
    BY <2>2 DEF Handled
  <2> QED
    BY <1>1, <2>1, <2>2, <2>3, <2>4
<1>6. ASSUME run'[q].ask = run[q].ask, run'[q].clusters = run[q].clusters,
             run'[q].preds = run[q].preds, run'[q].unread = run[q].unread,
             run[q].status # "failed"
      PROVE  Covers(q)'
  BY <1>1, <1>6 DEF Handled, Later
<1>7. CASE Start(q) \/ Answer(q)
  <2>1. run[q].status # "failed"
    BY <1>7 DEF Start, Answer, ClusterDone, Running
  <2> QED
    BY <1>0, <1>6, <1>7, <2>1, StatusSteps DEF StatusChanges
<1>8. ASSUME NEW s \in Series, LogUrgent(q, s) PROVE Covers(q)'
  <2>1. run[q].status # "failed"
    BY <1>8 DEF LogUrgent, Logging, Running
  <2> QED
    BY <1>0, <1>6, <1>8, <2>1, LogChanges
<1>9. CASE run'[q].status = "failed"
  BY <1>9
<1>10. End(q) \/ (\E s \in Series : LogFails(q, s)) => Covers(q)'
  BY <1>0, <1>9, StatusSteps DEF StatusChanges
<1>11. CASE StepOf(q)
  BY <1>3, <1>4, <1>5, <1>7, <1>8, <1>10, <1>11 DEF StepOf
<1>12. ASSUME NEW r \in Request, r # q, Only(r) PROVE Covers(q)'
  BY <1>2, <1>12 DEF Only
<1> QED
  BY <1>0, <1>2, <1>11, <1>12, OneStepsAlone

\* A request is answered when its loops have ended, and then does nothing.
LEMMA FinalStep ==
    ASSUME IInv, [Next]_vars
    PROVE  AnswersAreFinal'
<1>0. RunsAreTyped /\ AnswersAreFinal
  BY DEF IInv
<1> DEFINE Final(q) == run[q].status = "ok" =>
                          /\ run[q].ask = {}
                          /\ run[q].clusters = {}
                          /\ Urgent(q) \subseteq run[q].logged
<1> SUFFICES ASSUME NEW q \in Request PROVE Final(q)'
  BY DEF AnswersAreFinal
<1>1. Final(q)
  BY <1>0 DEF AnswersAreFinal
<1>2. CASE run'[q] = run[q]
  BY <1>1, <1>2 DEF Urgent
<1>3. CASE Answer(q)
  <2>1. /\ run[q].ask = {} /\ run[q].clusters = {}
        /\ Urgent(q) \subseteq run[q].logged
    BY <1>3 DEF Answer, ClusterDone
  <2> QED
    BY <1>0, <1>3, <2>1, StatusSteps DEF StatusChanges, Urgent
<1>4. CASE StepOf(q) /\ ~Answer(q)
  <2>1. run'[q].status # "ok"
    <3>1. \A s \in Series : Read(q, s) => run'[q].status = "running"
      BY <1>0, ReadChanges DEF Read, Reading, Running
    <3>2. \A s \in Series : ReadFails(q, s) => run'[q].status = "running"
      BY <1>0, ReadFailsChanges DEF ReadFails, Reading, Running
    <3>3. \A c \in Cluster : NextCluster(q, c) => run'[q].status = "running"
      BY <1>0, NextClusterChanges DEF NextCluster, ClusterDone, Running
    <3>4. \A s \in Series : LogUrgent(q, s) => run'[q].status = "running"
      BY <1>0, LogChanges DEF LogUrgent, Logging, Running
    <3> QED
      BY <1>0, <1>4, <3>1, <3>2, <3>3, <3>4, StatusSteps DEF StepOf, StatusChanges
  <2> QED
    BY <2>1
<1>5. ASSUME NEW r \in Request, r # q, Only(r) PROVE Final(q)'
  BY <1>2, <1>5 DEF Only
<1> QED
  BY <1>0, <1>2, <1>3, <1>4, <1>5, OneStepsAlone

-----------------------------------------------------------------------------
\* A step that stores nothing and notes nothing as stored.
LEMMA QuietSteps ==
    ASSUME IInv, [Next]_vars, UNCHANGED events,
           \A q \in Request :
              /\ run'[q].logged = run[q].logged
              /\ run[q].status = "failed" => run'[q].status = "failed"
    PROVE  LoggedIsStored' /\ StoredIsLogged'
<1>0. LoggedIsStored /\ StoredIsLogged
  BY DEF IInv
<1>1. /\ \A q \in Request : Urgent(q) \subseteq Urgent(q)'
      /\ \A q \in Request : \A s \in Urgent(q) : \A d \in 0 .. MaxDay :
            EventOf(q, s, d)' = EventOf(q, s, d)
      /\ Loggable \subseteq Loggable'
  BY PredictionsStay, KeepsEvents
<1>2. LoggedIsStored'
  <2> SUFFICES ASSUME NEW q \in Request, NEW s \in run'[q].logged
               PROVE  /\ s \in Urgent(q)'
                      /\ \E i \in DOMAIN events' : \E d \in 0 .. MaxDay :
                            events'[i] = EventOf(q, s, d)'
    BY DEF LoggedIsStored
  <2>1. s \in Urgent(q)
    BY <1>0 DEF LoggedIsStored
  <2>2. PICK i \in DOMAIN events, d \in 0 .. MaxDay : events[i] = EventOf(q, s, d)
    BY <1>0 DEF LoggedIsStored
  <2> QED
    BY <1>1, <2>1, <2>2
<1>3. StoredIsLogged'
  <2>1. events' \in Seq(Loggable')
    BY <1>0, <1>1 DEF StoredIsLogged
  <2>2. \A i \in DOMAIN events : events[i].request \in Request
    BY <1>0, LoggableParts
  <2> QED
    BY <1>0, <2>1, <2>2 DEF StoredIsLogged
<1> QED
  BY <1>2, <1>3

\* One more event, of a recommendation that its request has not noted yet.
LEMMA EventStep ==
    ASSUME IInv, [Next]_vars, NEW q \in Request, NEW s \in Series,
           LogUrgent(q, s) \/ LogFails(q, s), events' = WithEvent(q, s)
    PROVE  LoggedIsStored' /\ StoredIsLogged'
<1>0. RunsAreTyped /\ LoggedIsStored /\ StoredIsLogged
  BY DEF IInv
<1> DEFINE e == EventOf(q, s, day)
<1>1. /\ \A r \in Request : Urgent(r) \subseteq Urgent(r)'
      /\ \A r \in Request : \A t \in Urgent(r) : \A d \in 0 .. MaxDay :
            EventOf(r, t, d)' = EventOf(r, t, d)
      /\ Loggable \subseteq Loggable'
  BY PredictionsStay, KeepsEvents
<1>2. s \in Urgent(q) /\ s \notin run[q].logged /\ run[q].status # "failed"
  BY DEF LogUrgent, LogFails, Logging, Running
<1>3. day \in 0 .. MaxDay
  BY <1>0 DEF RunsAreTyped
<1>4. e \in Loggable /\ e.request = q /\ e.series = s
  BY <1>2, <1>3 DEF Loggable, EventOf
<1>5. events \in Seq(Loggable)
  BY <1>0 DEF StoredIsLogged
<1>6. events' = Append(events, e)
  BY DEF WithEvent, DB!InsertEvent
<1>7. \A i \in DOMAIN events : events[i].request \in Request
  BY <1>0, LoggableParts
<1> HIDE DEF e
<1>8. /\ events' \in Seq(Loggable)
      /\ DOMAIN events' = DOMAIN events \cup {Len(events) + 1}
      /\ Len(events) + 1 \notin DOMAIN events
      /\ \A i \in DOMAIN events : events'[i] = events[i]
      /\ events'[Len(events) + 1] = e
  BY <1>4, <1>5, <1>6
<1>9. \A i \in DOMAIN events : ~(events[i].request = q /\ events[i].series = s)
  BY <1>0, <1>2 DEF StoredIsLogged
<1>10. /\ Only(q)
       /\ \/ run'[q].logged = run[q].logged \cup {s}
          \/ run'[q].logged = run[q].logged /\ run'[q].status = "failed"
  BY <1>0, LogChanges, StatusSteps DEF StatusChanges
<1>11. LoggedIsStored'
  <2> SUFFICES ASSUME NEW r \in Request, NEW t \in run'[r].logged
               PROVE  /\ t \in Urgent(r)'
                      /\ \E i \in DOMAIN events' : \E d \in 0 .. MaxDay :
                            events'[i] = EventOf(r, t, d)'
    BY DEF LoggedIsStored
  <2>1. CASE t \in run[r].logged
    <3>1. t \in Urgent(r)
      BY <1>0, <2>1 DEF LoggedIsStored
    <3>2. PICK i \in DOMAIN events, d \in 0 .. MaxDay : events[i] = EventOf(r, t, d)
      BY <1>0, <2>1 DEF LoggedIsStored
    <3> QED
      BY <1>1, <1>8, <3>1, <3>2
  <2>2. CASE t \notin run[r].logged
    <3>1. r = q /\ t = s
      BY <1>10, <2>2 DEF Only
    <3>2. events'[Len(events) + 1] = EventOf(q, s, day)'
      <4>1. e = EventOf(q, s, day)
        BY DEF e
      <4>2. day' = day
        BY DEF LogUrgent, LogFails
      <4>3. \A d \in 0 .. MaxDay : EventOf(q, s, d)' = EventOf(q, s, d)
        BY <1>1, <1>2
      <4> QED
        BY <1>3, <1>8, <4>1, <4>2, <4>3 DEF EventOf
    <3>3. day' \in 0 .. MaxDay
      BY <1>3 DEF LogUrgent, LogFails
    <3> QED
      BY <1>1, <1>2, <1>3, <1>8, <3>1, <3>2, <3>3 DEF EventOf
  <2> QED
    BY <2>1, <2>2
<1>12. StoredIsLogged'
  <2>1. events' \in Seq(Loggable')
    BY <1>1, <1>8
  <2>2. \A i \in DOMAIN events' :
          run'[events'[i].request].status # "failed" =>
             events'[i].series \in run'[events'[i].request].logged
    <3>1. \A i \in DOMAIN events :
            run[events[i].request].status # "failed" =>
               events[i].series \in run[events[i].request].logged
      BY <1>0 DEF StoredIsLogged
    <3>2. ASSUME NEW i \in DOMAIN events, run'[events[i].request].status # "failed"
          PROVE  events[i].series \in run'[events[i].request].logged
      BY <1>2, <1>7, <1>10, <3>1, <3>2 DEF Only
    <3> QED
      BY <1>4, <1>8, <1>10, <3>2
  <2>3. \A i, j \in DOMAIN events' :
          events'[i].request = events'[j].request /\ events'[i].series = events'[j].series
             => i = j
    <3>1. \A i, j \in DOMAIN events :
            events[i].request = events[j].request /\ events[i].series = events[j].series
               => i = j
      BY <1>0 DEF StoredIsLogged
    <3> QED
      BY <1>4, <1>8, <1>9, <3>1
  <2> QED
    BY <2>1, <2>2, <2>3 DEF StoredIsLogged
<1> QED
  BY <1>11, <1>12

LEMMA LogStep ==
    ASSUME IInv, [Next]_vars
    PROVE  LoggedIsStored' /\ StoredIsLogged'
<1>0. RunsAreTyped
  BY DEF IInv
<1>1. CASE UNCHANGED <<events, run>>
  BY <1>1, QuietSteps
<1>2. ASSUME NEW q \in Request, Only(q), UNCHANGED events,
             run'[q].logged = run[q].logged,
             run[q].status = "failed" => run'[q].status = "failed"
      PROVE  LoggedIsStored' /\ StoredIsLogged'
  BY <1>2, QuietSteps DEF Only
<1>3. ASSUME NEW q \in Request, Start(q) \/ Answer(q) \/ End(q)
      PROVE  LoggedIsStored' /\ StoredIsLogged'
  <2>1. run[q].status # "failed" /\ UNCHANGED events
    BY <1>3 DEF Start, Answer, End, ClusterDone, Running
  <2> QED
    BY <1>0, <1>2, <1>3, <2>1, StatusSteps DEF StatusChanges
<1>4. ASSUME NEW q \in Request, NEW s \in Series, Read(q, s) \/ ReadFails(q, s)
      PROVE  LoggedIsStored' /\ StoredIsLogged'
  <2>1. run[q].status # "failed" /\ UNCHANGED events
    BY <1>4 DEF Read, ReadFails, Reading, Running
  <2> QED
    BY <1>0, <1>2, <1>4, <2>1, ReadChanges, ReadFailsChanges
<1>5. ASSUME NEW q \in Request, NEW c \in Cluster, NextCluster(q, c)
      PROVE  LoggedIsStored' /\ StoredIsLogged'
  <2>1. run[q].status # "failed" /\ UNCHANGED events
    BY <1>5 DEF NextCluster, ClusterDone, Running
  <2> QED
    BY <1>0, <1>2, <1>5, <2>1, NextClusterChanges
<1>6. ASSUME NEW q \in Request, NEW s \in Series, LogUrgent(q, s)
      PROVE  LoggedIsStored' /\ StoredIsLogged'
  BY <1>6, EventStep DEF LogUrgent
<1>7. ASSUME NEW q \in Request, NEW s \in Series, LogFails(q, s)
      PROVE  LoggedIsStored' /\ StoredIsLogged'
  <2>1. run[q].status # "failed" /\ events' \in {events, WithEvent(q, s)}
    BY <1>7 DEF LogFails, Logging, Running
  <2> QED
    BY <1>0, <1>2, <1>7, <2>1, EventStep, StatusSteps DEF StatusChanges
<1> QED
  BY <1>0, <1>1, <1>3, <1>4, <1>5, <1>6, <1>7, OneStepsAlone DEF StepOf

-----------------------------------------------------------------------------
\* The inductive invariant: loops pass over no metric, answers come last, and
\* the log and the notes of the requests agree (predict_service.py:12-76).
THEOREM Safety == Spec => []IInv
<1>1. IInv /\ [Next]_vars => IInv'
  BY TypedStep, LoopsStep, FinalStep, LogStep DEF IInv
<1> QED
  BY <1>1, InitInv, PTL DEF Spec

\* An urgent recommendation that is shown is in the event log
\* (predict_service.py:56-66).
THEOREM ShownIsLogged == Spec => []UrgentIsLoggedFirst
<1>1. IInv => UrgentIsLoggedFirst
  <2> SUFFICES ASSUME IInv, NEW q \in Request, run[q].status = "ok", NEW s \in Urgent(q)
               PROVE  \E i \in DOMAIN events :
                         /\ events[i].series = s
                         /\ events[i].request = q
                         /\ events[i].days = run[q].preds[s].days_to_full
    BY DEF UrgentIsLoggedFirst
  <2>1. s \in run[q].logged
    BY DEF IInv, AnswersAreFinal
  <2>2. PICK i \in DOMAIN events, d \in 0 .. MaxDay : events[i] = EventOf(q, s, d)
    BY <2>1 DEF IInv, LoggedIsStored
  <2> QED
    BY <2>2 DEF EventOf
<1> QED
  BY <1>1, Safety, PTL

\* The log holds what requests have predicted as full within seven days, each
\* once (predictor.py:94-97).
THEOREM LogIsPredicted == Spec => []EventsArePredicted
<1>1. IInv => EventsArePredicted
  <2> SUFFICES ASSUME IInv PROVE EventsArePredicted
    OBVIOUS
  <2>1. StoredIsLogged
    BY DEF IInv
  <2>2. ASSUME NEW i \in DOMAIN events
        PROVE  /\ events[i].series \in Urgent(events[i].request)
               /\ events[i].days = run[events[i].request].preds[events[i].series].days_to_full
               /\ events[i].days <= 7
    <3>1. PICK q \in Request :
            \E s \in Urgent(q) : \E d \in 0 .. MaxDay :
               /\ events[i] = EventOf(q, s, d)
               /\ events[i].request = q
               /\ events[i].series = s
      BY <2>1, LoggableParts
    <3>2. PICK s \in Urgent(q), d \in 0 .. MaxDay :
            /\ events[i] = EventOf(q, s, d)
            /\ events[i].request = q
            /\ events[i].series = s
      BY <3>1
    <3>3. events[i].days = run[q].preds[s].days_to_full
      BY <3>2 DEF EventOf
    <3>4. IsFullWithin(run[q].preds[s], 7)
      BY NoneAssumption DEF Urgent, Urgency
    <3> QED
      BY <3>2, <3>3, <3>4 DEF IsFullWithin
  <2> QED
    BY <2>1, <2>2 DEF EventsArePredicted, StoredIsLogged
<1> QED
  BY <1>1, Safety, PTL

\* An answer holds every metric of every cluster whose query did not fail
\* (predict_service.py:43-50).
THEOREM AnswersHoldAll == Spec => []AnswersAreComplete
<1>1. IInv => AnswersAreComplete
  <2> SUFFICES ASSUME IInv, NEW q \in Request, run[q].status = "ok"
               PROVE  DOMAIN run[q].preds = Series \ run[q].unread
    BY DEF AnswersAreComplete
  <2>1. run[q].ask = {} /\ run[q].clusters = {}
    BY DEF IInv, AnswersAreFinal
  <2>2. Later(q) = {}
    BY <2>1 DEF Later
  <2> QED
    BY <2>1, <2>2 DEF IInv, LoopsCoverSeries, Handled
<1> QED
  BY <1>1, Safety, PTL
-----------------------------------------------------------------------------
\* What is urgent was predicted from some window.
LEMMA UrgentIsProspect ==
    ASSUME RunsAreTyped, NEW q \in Request, NEW s \in Urgent(q)
    PROVE  \E a \in Averages : run[q].preds[s] = Predict(Buckets(a), 90)
<1>1. s \in DOMAIN run[q].preds
  BY DEF Urgent
<1>2. run[q].preds[s] \in Prospects
  BY <1>1, RunParts DEF Forecasts
<1> QED
  BY <1>2 DEF Prospects

\* An event is of a metric that rises: it has a number of days, whatever the
\* window was that the prediction was made from (predictor.py:48-50).
LEMMA LoggableIsEvent ==
    ASSUME RunsAreTyped
    PROVE  Loggable \subseteq Event
<1> SUFFICES ASSUME NEW q \in Request, NEW s \in Urgent(q), NEW d \in 0 .. MaxDay
             PROVE  EventOf(q, s, d) \in Event
  BY DEF Loggable
<1> DEFINE p == run[q].preds[s]
<1>1. s \in DOMAIN run[q].preds /\ Urgency(p) = "high"
  BY DEF Urgent
<1>2. s \in Series
  BY <1>1, RunParts
<1>3. PICK a \in Averages : p = Predict(Buckets(a), 90)
  BY UrgentIsProspect
<1> HIDE DEF p
<1>4. p.status = "ok" /\ IsFullWithin(p, 7)
  BY <1>1, NoneAssumption DEF Urgency
<1>5. /\ p.current \in 1 .. Full
      /\ p.slope.num \in Int
      /\ p.slope.den \in Nat \ {0}
      /\ p.days_to_full = DaysToFull(p.current, p.slope)
  BY <1>3, <1>4, PredictionParts
<1>6. p.current \in 0 .. Full /\ 7 \in Nat
  BY <1>5, FullRange
<1>7. p.days_to_full \in Nat
  BY <1>4, <1>5, <1>6, DaysToFullMeans DEF IsFullWithin
<1> QED
  BY <1>2, <1>6, <1>7 DEF EventOf, Event, p

\* Every event of the table has a metric, a percentage, a number of days and a
\* day, and the bookkeeping of a request is about clusters and metrics that exist
\* (predict_service.py:12-76).
THEOREM TypeCorrect == Spec => []TypeOK
<1> DEFINE Sampled == samples \in 0 .. MaxSamples
<1>1. Init => Sampled
  BY BoundAssumption DEF Init
<1>2. Sampled /\ [Next]_vars => Sampled'
  <2> SUFFICES ASSUME Sampled, [Next]_vars PROVE Sampled'
    OBVIOUS
  <2>1. ASSUME NEW s \in Series, NEW load \in Load, Sample(s, load) PROVE Sampled'
    BY <2>1, BoundAssumption DEF Sample
  <2>2. CASE UNCHANGED samples
    BY <2>2
  <2> QED
    BY <2>1, <2>2
       DEF Next, vars, DayPasses, Start, Answer, End, NextCluster, Read, ReadFails,
           LogUrgent, LogFails
<1>3. IInv /\ Sampled => TypeOK
  <2> SUFFICES ASSUME IInv, Sampled PROVE TypeOK
    OBVIOUS
  <2>1. RunsAreTyped /\ events \in Seq(Loggable)
    BY DEF IInv, StoredIsLogged
  <2>2. events \in Seq(Event)
    BY <2>1, LoggableIsEvent, SeqMonotonic
  <2>3. \A q \in Request :
           /\ run[q].status \in {"new", "running", "ok", "failed"}
           /\ run[q].clusters \subseteq Cluster
           /\ run[q].ask \cup run[q].unread \cup run[q].logged \subseteq Series
           /\ DOMAIN run[q].preds \subseteq Series
    BY <2>1, RunParts DEF Run
  <2> QED
    BY <2>1, <2>2, <2>3 DEF TypeOK, RunsAreTyped
<1> HIDE DEF Sampled
<1> QED
  BY <1>1, <1>2, <1>3, Safety, PTL DEF Spec
-----------------------------------------------------------------------------
\* Whatever the requests do, the data they read is that of MetricHistory, so that
\* what MetricHistoryProofs says of predictions holds of those an answer shows.
THEOREM HistoryGoesOn == Spec => HistorySpec
<1>1. Init => HistoryInit
  BY DEF Init
<1>2. [Next]_vars => [HistoryNext]_averages
  <2> SUFFICES ASSUME [Next]_vars, averages' # averages PROVE HistoryNext
    OBVIOUS
  <2>1. DayPasses \/ \E s \in Series, load \in Load : Sample(s, load)
    BY DEF Next, vars, Start, Answer, End, NextCluster, Read, ReadFails, LogUrgent,
           LogFails
  <2> QED
    BY <2>1 DEF DayPasses, Sample, HistoryNext
<1> QED
  BY <1>1, <1>2, PTL DEF Spec, HistorySpec

\* An event of the log stands for a line that passes 100 before eight days are
\* over, of a metric that is not full, as it was when its request read it: no
\* interleaving of requests, samples and days logs another one
\* (predictor.py:48-50 and 94-97, predict_service.py:56-66).
EventsAreTrends ==
    \A i \in DOMAIN events :
        LET p == run[events[i].request].preds[events[i].series]
        IN /\ events[i].current = p.current
           /\ p.current < Full
           /\ p.current * p.slope.den + 8 * p.slope.num > Full * p.slope.den

THEOREM LogIsOfTrends == Spec => []EventsAreTrends
<1>1. IInv => EventsAreTrends
  <2> SUFFICES ASSUME IInv, NEW i \in DOMAIN events
               PROVE  LET p == run[events[i].request].preds[events[i].series]
                      IN /\ events[i].current = p.current
                         /\ p.current < Full
                         /\ p.current * p.slope.den + 8 * p.slope.num > Full * p.slope.den
    BY DEF EventsAreTrends
  <2>1. StoredIsLogged /\ RunsAreTyped
    BY DEF IInv
  <2>2. PICK q \in Request :
          \E s \in Urgent(q) : \E d \in 0 .. MaxDay :
             /\ events[i] = EventOf(q, s, d)
             /\ events[i].request = q
             /\ events[i].series = s
    BY <2>1, LoggableParts
  <2>3. PICK s \in Urgent(q), d \in 0 .. MaxDay :
          /\ events[i] = EventOf(q, s, d)
          /\ events[i].request = q
          /\ events[i].series = s
    BY <2>2
  <2> DEFINE p == run[q].preds[s]
  <2>4. events[i].current = p.current
    BY <2>3 DEF EventOf
  <2>5. PICK a \in Averages : p = Predict(Buckets(a), 90)
    BY <2>1, UrgentIsProspect
  <2>6. p.status = "ok" /\ IsFullWithin(p, 7)
    BY NoneAssumption DEF Urgent, Urgency
  <2> HIDE DEF p
  <2>7. /\ p.current \in 1 .. Full
        /\ p.slope.num \in Int
        /\ p.slope.den \in Nat \ {0}
        /\ p.days_to_full = DaysToFull(p.current, p.slope)
    BY <2>5, <2>6, PredictionParts
  <2>8. p.current \in 0 .. Full /\ 7 \in Nat
    BY <2>7, FullRange
  <2>9. p.current < Full /\ p.current * p.slope.den + (7 + 1) * p.slope.num > Full * p.slope.den
    BY <2>6, <2>7, <2>8, DaysToFullMeans DEF IsFullWithin
  <2> QED
    BY <2>3, <2>4, <2>9 DEF p
<1> QED
  BY <1>1, Safety, PTL

\* The predictor writes the table as the collector does: one open event at a time,
\* at the end, and nothing else (queries.py:106-121, predict_service.py:56-66).
eventsSeen == [i \in DOMAIN events |-> [content |-> events[i], resolved_at |-> None]]
Log == INSTANCE EventLog WITH
    Content <- Event, Open <- None, Stamp <- {}, log <- eventsSeen

THEOREM PredictorOnlyAdds == Spec => Log!Spec
<1>1. Init => Log!Init
  BY DEF Init, Log!Init, eventsSeen
<1>2. TypeOK /\ TypeOK' /\ [Next]_vars => [Log!Next]_eventsSeen
  <2> SUFFICES ASSUME TypeOK, TypeOK', [Next]_vars, events' # events PROVE Log!Next
    BY DEF eventsSeen
  <2>1. PICK q \in Request, s \in Series : events' = WithEvent(q, s)
    BY DEF Next, vars, DayPasses, Sample, Start, Answer, End, NextCluster, Read,
           ReadFails, LogUrgent, LogFails
  <2> DEFINE e == EventOf(q, s, day)
             n == Len(events)
             seen(x) == [content |-> x, resolved_at |-> None]
  <2>2. events' = Append(events, e)
    BY <2>1 DEF WithEvent, DB!InsertEvent
  <2>3. events \in Seq(Event) /\ events' \in Seq(Event) /\ n \in Nat
    BY DEF TypeOK
  <2> HIDE DEF e
  <2>4. /\ DOMAIN events = 1 .. n /\ DOMAIN events' = 1 .. (n + 1)
        /\ \A i \in 1 .. n : events'[i] = events[i]
    BY <2>2, <2>3
  <2>5. \A i \in 1 .. (n + 1) : events'[i] \in Event
    BY <2>3, <2>4
  <2> HIDE DEF n
  <2>6. eventsSeen' = [i \in 1 .. (n + 1) |-> seen(events'[i])]
        /\ eventsSeen = [i \in 1 .. n |-> seen(events[i])]
    BY <2>4 DEF eventsSeen
  <2>7. eventsSeen' \in [1 .. (n + 1) -> Log!Entry]
    BY <2>5, <2>6 DEF Log!Entry
  <2>8. n \in Nat /\ n + 1 \in Nat
    BY <2>3
  <2>9. /\ eventsSeen' \in Seq(Log!Entry) /\ Len(eventsSeen') = n + 1
        /\ Len(eventsSeen) = n /\ DOMAIN eventsSeen = 1 .. n
    BY <2>6, <2>7, <2>8, LenProperties
  <2>10. /\ \A i \in 1 .. n : eventsSeen'[i] = eventsSeen[i]
         /\ eventsSeen'[n + 1].resolved_at = None
    BY <2>4, <2>6, <2>8
  <2> QED
    BY <2>9, <2>10 DEF Log!Next, Log!Add
<1> QED
  BY <1>1, <1>2, TypeCorrect, PTL DEF Spec, Log!Spec
=============================================================================
