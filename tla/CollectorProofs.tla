-------------------------- MODULE CollectorProofs --------------------------
(***************************************************************************)
(* Proofs about Collector for every set of nodes, every set of Prometheus  *)
(* answers and every bound.                                                *)
(***************************************************************************)
EXTENDS Collector, TLAPS

\* A load divided by a positive core count and rounded is a natural number.
LEMMA PerCoreType ==
    ASSUME NEW l \in Nat, NEW c \in Nat, c > 0
    PROVE  PerCore(l, c) \in Nat
<1>1. 2 * l + c \in Nat /\ 2 * c \in Nat /\ 2 * c > 0
  OBVIOUS
<1>2. \A a, b \in Nat : b > 0 => a \div b \in Nat
  OBVIOUS
<1> QED
  BY <1>1, <1>2 DEF PerCore

\* What collect_all makes of a usable answer is a complete reading.
LEMMA NodeMetricsType ==
    ASSUME NEW r \in Scrape
    PROVE  NodeMetrics(r) \in Reading
BY ScrapeAssumption DEF NodeMetrics, Reading, Safe, Ratio

\* Applying an SSH supplement keeps a reading a reading.
LEMMA SupplementedType ==
    ASSUME NEW r \in Reading, NEW s \in Supplement
    PROVE  Supplemented(r, s) \in Reading
<1>1. CASE s.cores # None /\ s.cores > 0
  <2>0. s \in [cores : CoreCount, os : OsName \cup {None}]
    BY <1>1 DEF Supplement, NoSupplement
  <2>1. s.cores \in Nat
    BY <2>0, ScrapeAssumption
  <2>2. r.load1 \in Nat
    BY DEF Reading
  <2>3. PerCore(r.load1, s.cores) \in Nat
    BY <1>1, <2>1, <2>2, PerCoreType
  <2> QED
    BY <1>1, <2>3 DEF Supplemented, Reading
<1>2. CASE ~(s.cores # None /\ s.cores > 0)
  BY <1>2 DEF Supplemented
<1> QED
  BY <1>1, <1>2

\* The upsert leaves cluster_nodes a table of rows, in which node n has one
\* and no row lost what it knew.
LEMMA UpsertEffect ==
    ASSUME NEW t \in [Node -> Row \cup {None}], NEW n \in Node,
           NEW c \in CoreCount \cup {None}, NEW o \in OsName \cup {None}
    PROVE  /\ Upsert(t, n, c, o) \in [Node -> Row \cup {None}]
           /\ Upsert(t, n, c, o)[n] # None
           /\ \A k \in Node : t[k] # None =>
                 /\ Upsert(t, n, c, o)[k] # None
                 /\ t[k].cores # None => Upsert(t, n, c, o)[k].cores # None
                 /\ t[k].os # None => Upsert(t, n, c, o)[k].os # None
BY NoneAssumption DEF Upsert, Coalesce, Row

\* The two columns of an SSH supplement.
LEMMA SupplementFields ==
    ASSUME NEW s \in Supplement
    PROVE  s.cores \in CoreCount \cup {None} /\ s.os \in OsName \cup {None}
BY DEF Supplement, NoSupplement

\* What the upsert of node n does, in the terms of the collector's state.
LEMMA RegisteredEffect ==
    ASSUME TypeOK, NEW n \in Node, sample[n] # None
    PROVE  /\ Registered(n) \in [Node -> Row \cup {None}]
           /\ Registered(n)[n] # None
           /\ \A k \in Node : clusterNodes[k] # None =>
                 /\ Registered(n)[k] # None
                 /\ clusterNodes[k].cores # None => Registered(n)[k].cores # None
                 /\ clusterNodes[k].os # None => Registered(n)[k].os # None
<1>1. sample[n] \in Reading /\ supplement[n] \in Supplement
  BY DEF TypeOK
<1>2. sample[n].os \in OsName \cup {None}
  BY <1>1 DEF Reading
<1>3. /\ supplement[n].cores \in CoreCount \cup {None}
      /\ supplement[n].os \in OsName \cup {None}
  BY <1>1, SupplementFields
<1>4. Coalesce(sample[n].os, supplement[n].os) \in OsName \cup {None}
  BY <1>2, <1>3 DEF Coalesce
<1>5. clusterNodes \in [Node -> Row \cup {None}]
  BY DEF TypeOK
<1> QED
  BY <1>3, <1>4, <1>5, UpsertEffect DEF Registered

\* The event of an alert still pending is a row of events.
LEMMA AlertType ==
    ASSUME TypeOK, pc = "alert", NEW m \in alerts, cur \in Node
    PROVE  Alert(m) \in Event
BY DEF TypeOK, Alert, Event, Severity

\* The rows of a COPY are those of the nodes in records.
LEMMA BatchEffect ==
    ASSUME TypeOK
    PROVE  /\ Batch \in BatchType
           /\ Batch.cycle = cycle
           /\ \A n \in Node : Batch.rows[n] # None => n \in records /\ Batch.rows[n] = sample[n]
BY DEF TypeOK, Batch, BatchType

-----------------------------------------------------------------------------
\* Every variable keeps its type, whatever Prometheus, SSH, the database and
\* the pod do; the loop variable is a node while alerts are being stored.
TypeInv == TypeOK /\ (pc = "alert" => cur \in Node)

THEOREM TypeInvInit == Init => TypeInv
BY CycleAssumption DEF Init, TypeInv, TypeOK, Supplement

LEMMA TypeInvStep == TypeInv /\ [Next]_vars => TypeInv'
<1> SUFFICES ASSUME TypeInv, [Next]_vars
             PROVE  TypeInv'
  OBVIOUS
<1> USE DEF TypeInv
<1> DEFINE Fresh ==
      /\ sample' \in [Node -> Reading \cup {None}]
      /\ supplement' \in [Node -> Supplement]
      /\ todo' \subseteq Node
      /\ cur' \in Node \cup {None}
      /\ alerts' \subseteq Metric
      /\ records' \subseteq Node
<1>0. Forget => Fresh
  BY DEF Forget, Supplement
<1>1. CASE Start
  BY <1>1 DEF Start, TypeOK, local, tables
<1>2. CASE Collect
  <2>1. sample' \in [Node -> Reading \cup {None}]
    <3>1. PICK answer \in [Node -> Scrape \cup {Unusable}] :
            sample' = [n \in Node |-> IF answer[n] = Unusable THEN None
                                      ELSE NodeMetrics(answer[n])]
      BY <1>2 DEF Collect
    <3>2. \A n \in Node : answer[n] # Unusable => NodeMetrics(answer[n]) \in Reading
      BY NodeMetricsType
    <3> QED
      BY <3>1, <3>2
  <2> QED
    BY <1>2, <2>1 DEF Collect, TypeOK, tables
<1>3. CASE Ssh
  BY <1>3 DEF Ssh, TypeOK, tables
<1>4. ASSUME NEW n \in Node, SkipFailed(n)
      PROVE  TypeInv'
  BY <1>4 DEF SkipFailed, TypeOK, tables
<1>5. ASSUME NEW n \in Node, Register(n)
      PROVE  TypeInv'
  <2> DEFINE reading == Supplemented(sample[n], supplement[n])
  <2>1. reading \in Reading
    BY <1>5, SupplementedType DEF Register, TypeOK
  <2>2. sample' = [sample EXCEPT ![n] = reading] /\ alerts' \subseteq Metric
    BY <1>5 DEF Register, CheckThresholds
  <2>3. clusterNodes' \in [Node -> Row \cup {None}]
    BY <1>5, RegisteredEffect DEF Register
  <2> HIDE DEF reading
  <2> QED
    BY <1>5, <2>1, <2>2, <2>3 DEF Register, TypeOK
<1>6. ASSUME NEW n \in Node, RegisterFails(n)
      PROVE  TypeInv'
  <2>1. clusterNodes' \in [Node -> Row \cup {None}]
    BY <1>6, RegisteredEffect DEF RegisterFails, TypeOK
  <2> QED
    BY <1>0, <1>6, <2>1 DEF RegisterFails, EndCycle, TypeOK
<1>7. ASSUME NEW m \in Metric, StoreAlert(m)
      PROVE  TypeInv'
  <2>1. Alert(m) \in Event
    BY <1>7, AlertType DEF StoreAlert, IsNextAlert
  <2>2. events' \in Seq(Event)
    BY <1>7, <2>1 DEF StoreAlert, InsertEvent, TypeOK
  <2> QED
    BY <1>7, <2>2 DEF StoreAlert, TypeOK
<1>8. ASSUME NEW m \in Metric, StoreAlertFails(m)
      PROVE  TypeInv'
  <2>1. Alert(m) \in Event
    BY <1>8, AlertType DEF StoreAlertFails, IsNextAlert
  <2>2. events' \in Seq(Event)
    BY <1>8, <2>1 DEF StoreAlertFails, InsertEvent, TypeOK
  <2> QED
    BY <1>0, <1>8, <2>2 DEF StoreAlertFails, EndCycle, TypeOK
<1>9. CASE NodeDone
  BY <1>9 DEF NodeDone, TypeOK, tables
<1>10. CASE Flush
  <2>1. metrics' \in Seq(BatchType)
    BY <1>10, BatchEffect DEF Flush, CopyMetrics, TypeOK
  <2> QED
    BY <1>0, <1>10, <2>1 DEF Flush, EndCycle, TypeOK
<1>11. CASE FlushFails
  <2>1. metrics' \in Seq(BatchType)
    <3>1. metrics' \in {metrics, CopyMetrics(metrics, Batch)}
      BY <1>11 DEF FlushFails
    <3>2. metrics \in Seq(BatchType) /\ Batch \in BatchType
      BY BatchEffect DEF TypeOK
    <3> QED
      BY <3>1, <3>2 DEF CopyMetrics
  <2> QED
    BY <1>0, <1>11, <2>1 DEF FlushFails, EndCycle, TypeOK
<1>12. CASE Sleep
  <2>1. (sshCycle + 1) % SshEvery \in 0 .. SshEvery - 1
    BY CycleAssumption DEF TypeOK
  <2> QED
    BY <1>12, <2>1 DEF Sleep, TypeOK, local, tables
<1>13. CASE Crash
  BY <1>0, <1>13, CycleAssumption DEF Crash, TypeOK, tables
<1>14. CASE DbFails \/ DbRecovers
  BY <1>14 DEF DbFails, DbRecovers, TypeOK, local, tables
<1>15. CASE UNCHANGED vars
  BY <1>15 DEF vars, TypeOK, local, tables
<1> QED
  BY <1>1, <1>2, <1>3, <1>4, <1>5, <1>6, <1>7, <1>8, <1>9, <1>10, <1>11,
     <1>12, <1>13, <1>14, <1>15 DEF Next, Loop

\* The tables and the locals of run_service stay well formed in every
\* behaviour of the collector (os_service.py:43-96).
THEOREM TypeCorrect == Spec => []TypeOK
<1>1. TypeInv => TypeOK
  BY DEF TypeInv
<1> QED
  BY TypeInvInit, TypeInvStep, <1>1, PTL DEF Spec

-----------------------------------------------------------------------------
(***************************************************************************)
(* The safety invariants.  Stored data say nothing of the locals of the    *)
(* cycle that wrote them, so IInv adds what the loop knows while it runs:  *)
(* the alerts still to come have no event (NothingEarly), records are the  *)
(* nodes passed (RecordsMatchLoop), and each of them is registered and     *)
(* has its events (RecordsAreCovered), which is what the COPY needs.       *)
(***************************************************************************)

\* The invariants of the tables alone.
TablesOK ==
    /\ StoredBreachHasItsEvent
    /\ OneAlertPerCycle
    /\ StoredNodesAreRegistered

\* What IInv says of the running cycle.
CycleOK == NothingEarly /\ RecordsMatchLoop /\ RecordsAreCovered

THEOREM IInvInit == Init => IInv
<1> SUFFICES ASSUME Init PROVE IInv
  OBVIOUS
<1>1. TypeOK
  BY TypeInvInit DEF TypeInv
<1>2. DOMAIN events = {} /\ DOMAIN metrics = {}
  BY DEF Init
<1> QED
  BY <1>1, <1>2 DEF Init, IInv, NothingEarly, RecordsMatchLoop, RecordsAreCovered,
       StoredBreachHasItsEvent, OneAlertPerCycle, StoredNodesAreRegistered

\* A step that writes no table disturbs no invariant of the tables.
LEMMA TablesUntouched ==
    ASSUME TablesOK, tables' = tables
    PROVE  TablesOK'
BY DEF TablesOK, tables, StoredBreachHasItsEvent, OneAlertPerCycle,
       StoredNodesAreRegistered

\* Nor does an upsert: no node loses its row.
LEMMA TablesAfterUpsert ==
    ASSUME TypeOK, TablesOK, NEW n \in Node, sample[n] # None,
           clusterNodes' \in {clusterNodes, Registered(n)},
           events' = events, metrics' = metrics
    PROVE  TablesOK'
<1>1. \A k \in Node : clusterNodes[k] # None => clusterNodes'[k] # None
  BY RegisteredEffect
<1>2. \A i \in DOMAIN events : events[i].node \in Node
  <2>1. \A i \in DOMAIN events : events[i] \in Event
    BY DEF TypeOK
  <2> QED
    BY <2>1 DEF Event
<1>3. StoredNodesAreRegistered'
  BY <1>1, <1>2 DEF TablesOK, StoredNodesAreRegistered, RowsOf
<1> QED
  BY <1>3 DEF TablesOK, StoredBreachHasItsEvent, OneAlertPerCycle

\* The inserted alert is a new one of a registered node, so the tables stay
\* sound; and it is only the current node's pending alert m that is recorded.
LEMMA TablesAfterAlert ==
    ASSUME IInv, pc = "alert", NEW m \in alerts,
           events' \in {events, InsertEvent(events, Alert(m))},
           clusterNodes' = clusterNodes, metrics' = metrics
    PROVE  TablesOK'
<1>1. CASE events' = events
  BY <1>1, TablesUntouched DEF IInv, TablesOK, tables
<1>2. CASE events' = InsertEvent(events, Alert(m))
  <2>1. /\ cur \in Node /\ cur \in todo /\ cur \in records
        /\ events \in Seq(Event) /\ Alert(m) \in Event
    BY AlertType DEF IInv, RecordsMatchLoop, TypeOK
  <2>2. /\ DOMAIN events = 1 .. Len(events)
        /\ DOMAIN events' = 1 .. Len(events) + 1
        /\ \A i \in DOMAIN events : events'[i] = events[i]
        /\ events'[Len(events) + 1] = Alert(m)
        /\ Len(events) \in Nat
    BY <1>2, <2>1 DEF InsertEvent
  <2>3. /\ Alert(m).cycle = cycle /\ Alert(m).node = cur /\ Alert(m).metric = m
    BY DEF Alert
  <2>4. \A i \in DOMAIN events :
          ~(/\ events[i].cycle = cycle
            /\ events[i].node = cur
            /\ events[i].metric = m)
    BY <2>1 DEF IInv, NothingEarly, StillToCome
  <2>5. OneAlertPerCycle'
    BY <2>2, <2>3, <2>4 DEF IInv, OneAlertPerCycle
  <2>6. StoredBreachHasItsEvent'
    BY <2>2 DEF IInv, StoredBreachHasItsEvent
  <2>7. StoredNodesAreRegistered'
    BY <2>1, <2>2, <2>3 DEF IInv, StoredNodesAreRegistered, RecordsAreCovered
  <2> QED
    BY <2>5, <2>6, <2>7 DEF TablesOK
<1> QED
  BY <1>1, <1>2

\* When the COPY runs, records are covered by events and registrations, so
\* the rows it adds are too.
LEMMA TablesAfterCopy ==
    ASSUME IInv, pc = "node",
           metrics' \in {metrics, CopyMetrics(metrics, Batch)},
           clusterNodes' = clusterNodes, events' = events
    PROVE  TablesOK'
<1>1. CASE metrics' = metrics
  BY <1>1, TablesUntouched DEF IInv, TablesOK, tables
<1>2. CASE metrics' = CopyMetrics(metrics, Batch)
  <2>1. /\ DOMAIN metrics = 1 .. Len(metrics)
        /\ DOMAIN metrics' = 1 .. Len(metrics) + 1
        /\ \A i \in DOMAIN metrics : metrics'[i] = metrics[i]
        /\ metrics'[Len(metrics) + 1] = Batch
        /\ Len(metrics) \in Nat
    BY <1>2, BatchEffect DEF IInv, TypeOK, CopyMetrics
  <2>2. /\ Batch.cycle = cycle
        /\ \A n \in RowsOf(Batch) : n \in records /\ Batch.rows[n] = sample[n]
    BY BatchEffect DEF IInv, RowsOf
  <2>3. \A n \in RowsOf(Batch) :
          /\ clusterNodes[n] # None
          /\ \A m \in CheckThresholds(Batch.rows[n]) :
                \E j \in DOMAIN events :
                    Reports(events[j], Batch.cycle, n, m, Batch.rows[n])
    BY <2>2 DEF IInv, RecordsAreCovered
  <2>4. StoredBreachHasItsEvent'
    <3> SUFFICES ASSUME NEW i \in DOMAIN metrics',
                        NEW n \in RowsOf(metrics'[i]),
                        NEW m \in CheckThresholds(metrics'[i].rows[n])
                 PROVE  \E j \in DOMAIN events :
                           Reports(events[j], metrics'[i].cycle, n, m,
                                   metrics'[i].rows[n])
      BY DEF StoredBreachHasItsEvent
    <3>1. CASE i \in DOMAIN metrics
      BY <2>1, <3>1 DEF IInv, StoredBreachHasItsEvent
    <3>2. CASE i = Len(metrics) + 1
      BY <2>1, <2>3, <3>2
    <3> QED
      BY <2>1, <3>1, <3>2
  <2>5. StoredNodesAreRegistered'
    <3> SUFFICES ASSUME NEW i \in DOMAIN metrics', NEW n \in RowsOf(metrics'[i])
                 PROVE  clusterNodes[n] # None
      BY DEF IInv, StoredNodesAreRegistered
    <3>1. CASE i \in DOMAIN metrics
      BY <2>1, <3>1 DEF IInv, StoredNodesAreRegistered
    <3>2. CASE i = Len(metrics) + 1
      BY <2>1, <2>3, <3>2
    <3> QED
      BY <2>1, <3>1, <3>2
  <2> QED
    BY <2>4, <2>5 DEF IInv, TablesOK, OneAlertPerCycle
<1> QED
  BY <1>1, <1>2

\* Outside of a cycle the locals are dead and only the times of rows matter.
LEMMA CycleOver ==
    ASSUME IInv, pc' \in {"sleep", "start"}, Forget, cycle' = cycle,
           \A i \in DOMAIN events' : events'[i].cycle <= cycle,
           \A i \in DOMAIN metrics' : metrics'[i].cycle <= cycle
    PROVE  CycleOK'
BY DEF Forget, CycleOK, NothingEarly, StillToCome, RecordsMatchLoop, RecordsAreCovered

\* The times of the rows after an insert or a COPY that may have failed.
LEMMA TimesAfterAlert ==
    ASSUME IInv, pc = "alert", NEW m \in alerts,
           events' \in {events, InsertEvent(events, Alert(m))}
    PROVE  \A i \in DOMAIN events' : events'[i].cycle <= cycle
<1>1. cur \in Node /\ Alert(m) \in Event /\ Alert(m).cycle = cycle /\ cycle \in Nat
  BY AlertType DEF IInv, RecordsMatchLoop, TypeOK, Alert
<1>2. events \in Seq(Event) /\ \A i \in DOMAIN events : events[i].cycle <= cycle
  BY DEF IInv, TypeOK, NothingEarly
<1> QED
  BY <1>1, <1>2 DEF InsertEvent

LEMMA TimesAfterCopy ==
    ASSUME IInv, metrics' \in {metrics, CopyMetrics(metrics, Batch)}
    PROVE  \A i \in DOMAIN metrics' : metrics'[i].cycle <= cycle
<1>1. Batch \in BatchType /\ Batch.cycle = cycle /\ cycle \in Nat
  BY BatchEffect DEF IInv, TypeOK
<1>2. metrics \in Seq(BatchType) /\ \A i \in DOMAIN metrics : metrics[i].cycle <= cycle
  BY DEF IInv, TypeOK, NothingEarly
<1> QED
  BY <1>1, <1>2 DEF CopyMetrics

LEMMA SafetyStep == IInv /\ [Next]_vars => TablesOK' /\ CycleOK'
<1> SUFFICES ASSUME IInv, [Next]_vars
             PROVE  TablesOK' /\ CycleOK'
  OBVIOUS
<1>a. TypeOK /\ TablesOK /\ CycleOK
  BY DEF IInv, TablesOK, CycleOK
<1>t. /\ \A i \in DOMAIN events : events[i].cycle <= cycle
      /\ \A i \in DOMAIN metrics : metrics[i].cycle <= cycle
  BY DEF IInv, NothingEarly
<1>1. CASE Start
  <2>1. pc = "start" /\ pc' = "collect" /\ UNCHANGED <<local, tables, cycle>>
    BY <1>1 DEF Start
  <2> QED
    BY <1>a, <2>1, TablesUntouched
      DEF CycleOK, NothingEarly, StillToCome, RecordsMatchLoop, RecordsAreCovered,
          local, tables
<1>2. CASE Collect
  <2>1. /\ pc = "collect" /\ pc' \in {"ssh", "node"} /\ cycle' = cycle + 1
        /\ todo' = Node /\ records' = records /\ tables' = tables /\ cycle \in Nat
    BY <1>2, <1>a DEF Collect, TypeOK
  <2>2. records = {}
    BY <1>a, <2>1 DEF CycleOK, RecordsMatchLoop
  <2>3. /\ events' = events /\ metrics' = metrics
        /\ \A i \in DOMAIN events : events[i].cycle \in Nat
        /\ \A i \in DOMAIN metrics : metrics[i].cycle \in Nat
    <3>1. /\ \A i \in DOMAIN events : events[i] \in Event
          /\ \A i \in DOMAIN metrics : metrics[i] \in BatchType
      BY <1>a DEF TypeOK
    <3> QED
      BY <2>1, <3>1 DEF tables, Event, BatchType
  <2>4. NothingEarly'
    BY <1>t, <2>1, <2>3 DEF NothingEarly
  <2>5. RecordsMatchLoop' /\ RecordsAreCovered'
    BY <2>1, <2>2 DEF RecordsMatchLoop, RecordsAreCovered
  <2> QED
    BY <1>a, <2>1, <2>4, <2>5, TablesUntouched DEF CycleOK
<1>3. CASE Ssh
  <2>1. /\ pc = "ssh" /\ pc' = "node" /\ tables' = tables
        /\ UNCHANGED <<sample, todo, cur, alerts, records, cycle>>
    BY <1>3 DEF Ssh
  <2> QED
    BY <1>a, <2>1, TablesUntouched
      DEF CycleOK, NothingEarly, StillToCome, RecordsMatchLoop, RecordsAreCovered, tables
<1>4. ASSUME NEW n \in Node, SkipFailed(n)
      PROVE  TablesOK' /\ CycleOK'
  <2>1. /\ pc = "node" /\ n \in todo /\ sample[n] = None /\ todo' = todo \ {n}
        /\ tables' = tables
        /\ UNCHANGED <<pc, sample, cur, alerts, records, cycle>>
    BY <1>4 DEF SkipFailed, IsNext
  <2> QED
    BY <1>a, <2>1, TablesUntouched
      DEF CycleOK, NothingEarly, StillToCome, RecordsMatchLoop, RecordsAreCovered, tables
<1>5. ASSUME NEW n \in Node, Register(n)
      PROVE  TablesOK' /\ CycleOK'
  <2> DEFINE reading == Supplemented(sample[n], supplement[n])
  <2>1. /\ pc = "node" /\ n \in todo /\ sample[n] # None
        /\ sample' = [sample EXCEPT ![n] = reading]
        /\ alerts' = CheckThresholds(reading)
        /\ records' = records \cup {n} /\ cur' = n /\ pc' = "alert"
        /\ clusterNodes' = Registered(n)
        /\ UNCHANGED <<todo, events, metrics, cycle>>
    BY <1>5 DEF Register, IsNext
  <2>2. TablesOK'
    BY <1>a, <2>1, TablesAfterUpsert
  <2>3. sample \in [Node -> Reading \cup {None}] /\ reading # None
    BY <1>a, <2>1, SupplementedType, NoneAssumption DEF TypeOK
  <2> HIDE DEF reading
  <2>4. sample'[n] = reading /\ \A k \in Node \ {n} : sample'[k] = sample[k]
    BY <2>1, <2>3
  <2>5. NothingEarly'
    BY <1>a, <2>1 DEF CycleOK, NothingEarly, StillToCome
  <2>6. records = {k \in Node \ todo : sample[k] # None} /\ n \notin records
    BY <1>a, <2>1 DEF CycleOK, RecordsMatchLoop
  <2>7. RecordsMatchLoop'
    BY <2>1, <2>3, <2>4, <2>6 DEF RecordsMatchLoop
  <2>8. RecordsAreCovered'
    <3>1. \A k \in Node : clusterNodes[k] # None => clusterNodes'[k] # None
      BY <1>a, <2>1, RegisteredEffect
    <3>2. clusterNodes'[n] # None
      BY <1>a, <2>1, RegisteredEffect
    <3>3. \A k \in records : sample'[k] = sample[k] /\ k \in Node
      BY <2>4, <2>6
    <3>4. \A k \in records :
            /\ clusterNodes[k] # None
            /\ \A m \in CheckThresholds(sample[k]) :
                  \E j \in DOMAIN events : Reports(events[j], cycle, k, m, sample[k])
      BY <1>a, <2>1 DEF CycleOK, RecordsAreCovered
    <3> QED
      BY <2>1, <2>4, <3>1, <3>2, <3>3, <3>4 DEF RecordsAreCovered
  <2> QED
    BY <2>2, <2>5, <2>7, <2>8 DEF CycleOK
<1>6. ASSUME NEW n \in Node, RegisterFails(n)
      PROVE  TablesOK' /\ CycleOK'
  <2>1. /\ sample[n] # None /\ clusterNodes' \in {clusterNodes, Registered(n)}
        /\ pc' = "sleep" /\ Forget
        /\ UNCHANGED <<events, metrics, cycle>>
    BY <1>6 DEF RegisterFails, EndCycle
  <2> QED
    BY <1>a, <1>t, <2>1, TablesAfterUpsert, CycleOver
<1>7. ASSUME NEW m \in Metric, StoreAlert(m)
      PROVE  TablesOK' /\ CycleOK'
  <2>1. /\ pc = "alert" /\ m \in alerts /\ alerts' = alerts \ {m}
        /\ events' = InsertEvent(events, Alert(m))
        /\ UNCHANGED <<pc, sample, todo, cur, records, clusterNodes, metrics, cycle>>
    BY <1>7 DEF StoreAlert, IsNextAlert
  <2>2. TablesOK'
    BY <2>1, TablesAfterAlert
  <2>3. cur \in Node /\ cur \in todo /\ Alert(m) \in Event /\ events \in Seq(Event)
    BY <1>a, <2>1, AlertType DEF TypeOK, CycleOK, RecordsMatchLoop
  <2>4. /\ DOMAIN events = 1 .. Len(events)
        /\ DOMAIN events' = 1 .. Len(events) + 1
        /\ \A i \in DOMAIN events : events'[i] = events[i]
        /\ events'[Len(events) + 1] = Alert(m)
        /\ Len(events) \in Nat
    BY <2>1, <2>3 DEF InsertEvent
  <2>5. /\ Alert(m).cycle = cycle /\ Alert(m).node = cur /\ Alert(m).metric = m
        /\ Reports(Alert(m), cycle, cur, m, sample[cur])
    BY DEF Alert, Reports
  <2>6. NothingEarly'
    <3>1. \A i \in DOMAIN events' : events'[i].cycle <= cycle'
      BY <2>1, TimesAfterAlert
    <3>2. (\A i \in DOMAIN events : events[i].cycle = cycle =>
             ~StillToCome(events[i].node, events[i].metric))'
      <4> SUFFICES ASSUME NEW i \in DOMAIN events', (events[i].cycle = cycle)'
                   PROVE  (~StillToCome(events[i].node, events[i].metric))'
        OBVIOUS
      <4>1. CASE i \in DOMAIN events
        BY <1>a, <2>1, <2>4, <4>1 DEF CycleOK, NothingEarly, StillToCome
      <4>2. CASE i = Len(events) + 1
        BY <2>1, <2>4, <2>5, <4>2 DEF StillToCome
      <4> QED
        BY <2>4, <4>1, <4>2
    <3> QED
      BY <1>t, <2>1, <3>1, <3>2 DEF NothingEarly
  <2>7. RecordsMatchLoop'
    BY <1>a, <2>1 DEF CycleOK, RecordsMatchLoop
  <2>8. RecordsAreCovered'
    BY <1>a, <2>1, <2>4, <2>5 DEF CycleOK, RecordsAreCovered
  <2> QED
    BY <2>2, <2>6, <2>7, <2>8 DEF CycleOK
<1>8. ASSUME NEW m \in Metric, StoreAlertFails(m)
      PROVE  TablesOK' /\ CycleOK'
  <2>1. /\ pc = "alert" /\ m \in alerts
        /\ events' \in {events, InsertEvent(events, Alert(m))}
        /\ pc' = "sleep" /\ Forget
        /\ UNCHANGED <<clusterNodes, metrics, cycle>>
    BY <1>8 DEF StoreAlertFails, IsNextAlert, EndCycle
  <2> QED
    BY <1>t, <2>1, TablesAfterAlert, TimesAfterAlert, CycleOver
<1>9. CASE NodeDone
  <2>1. /\ pc = "alert" /\ alerts = {} /\ todo' = todo \ {cur} /\ pc' = "node"
        /\ tables' = tables /\ UNCHANGED <<sample, alerts, records, cycle>>
    BY <1>9 DEF NodeDone
  <2> QED
    BY <1>a, <2>1, TablesUntouched
      DEF TypeOK, CycleOK, NothingEarly, StillToCome, RecordsMatchLoop,
          RecordsAreCovered, tables
<1>10. CASE Flush \/ FlushFails
  <2>1. /\ pc = "node" /\ metrics' \in {metrics, CopyMetrics(metrics, Batch)}
        /\ pc' = "sleep" /\ Forget
        /\ UNCHANGED <<clusterNodes, events, cycle>>
    BY <1>10 DEF Flush, FlushFails, EndCycle
  <2> QED
    BY <1>t, <2>1, TablesAfterCopy, TimesAfterCopy, CycleOver
<1>11. CASE Sleep
  <2>1. /\ pc = "sleep" /\ pc' = "collect" /\ UNCHANGED <<local, tables, cycle>>
    BY <1>11 DEF Sleep
  <2> QED
    BY <1>a, <2>1, TablesUntouched
      DEF CycleOK, NothingEarly, StillToCome, RecordsMatchLoop, RecordsAreCovered,
          local, tables
<1>12. CASE Crash
  <2>1. pc' = "start" /\ Forget /\ UNCHANGED <<tables, cycle>>
    BY <1>12 DEF Crash
  <2> QED
    BY <1>a, <1>t, <2>1, TablesUntouched, CycleOver DEF tables
<1>13. CASE DbFails \/ DbRecovers \/ UNCHANGED vars
  <2>1. UNCHANGED <<pc, local, tables, cycle>>
    BY <1>13 DEF DbFails, DbRecovers, vars
  <2> QED
    BY <1>a, <2>1, TablesUntouched
      DEF CycleOK, NothingEarly, StillToCome, RecordsMatchLoop, RecordsAreCovered,
          local, tables
<1> QED
  BY <1>1, <1>2, <1>3, <1>4, <1>5, <1>6, <1>7, <1>8, <1>9, <1>10, <1>11,
     <1>12, <1>13 DEF Next, Loop

-----------------------------------------------------------------------------
\* IInv is inductive.
THEOREM Safety == Spec => []IInv
<1>1. IInv /\ [Next]_vars => IInv'
  <2> SUFFICES ASSUME IInv, [Next]_vars
               PROVE  IInv'
    OBVIOUS
  <2>1. TypeInv
    BY DEF IInv, TypeInv, RecordsMatchLoop, TypeOK
  <2>2. TypeOK'
    BY <2>1, TypeInvStep DEF TypeInv
  <2> QED
    BY <2>2, SafetyStep DEF IInv, TablesOK, CycleOK
<1> QED
  BY IInvInit, <1>1, PTL DEF Spec

\* A stored metrics row over a threshold always has its event: the alerts are
\* committed before the COPY, and an exception keeps the COPY from running.
THEOREM StoredBreachesAreAlerted == Spec => []StoredBreachHasItsEvent
<1>1. IInv => StoredBreachHasItsEvent
  BY DEF IInv
<1> QED
  BY Safety, <1>1, PTL

\* No cycle raises an alert twice, whatever answers get lost.
THEOREM AlertsAreUnique == Spec => []OneAlertPerCycle
<1>1. IInv => OneAlertPerCycle
  BY DEF IInv
<1> QED
  BY Safety, <1>1, PTL

\* Nothing is stored about a node that cluster_nodes does not know.
THEOREM NodesAreRegistered == Spec => []StoredNodesAreRegistered
<1>1. IInv => StoredNodesAreRegistered
  BY DEF IInv
<1> QED
  BY Safety, <1>1, PTL

\* A COPY holds every node that was read in its cycle, and only those.
THEOREM BatchesAreWhole == Spec => BatchHoldsEveryNodeRead
<1>1. IInv /\ [Next]_vars =>
        [metrics' # metrics =>
           RowsOf(metrics'[Len(metrics')]) = {n \in Node : sample[n] # None}]_vars
  <2> SUFFICES ASSUME IInv, [Next]_vars, metrics' # metrics
               PROVE  RowsOf(metrics'[Len(metrics')]) = {n \in Node : sample[n] # None}
    OBVIOUS
  <2>1. pc = "node" /\ todo = {} /\ metrics' = CopyMetrics(metrics, Batch)
    BY DEF Next, Loop, Start, Collect, Ssh, SkipFailed, Register, RegisterFails,
           StoreAlert, StoreAlertFails, NodeDone, Flush, FlushFails, Sleep, Crash,
           DbFails, DbRecovers, vars, tables
  <2>2. records = {n \in Node : sample[n] # None}
    BY <2>1 DEF IInv, RecordsMatchLoop
  <2>3. metrics'[Len(metrics')] = Batch
    BY <2>1, BatchEffect DEF IInv, TypeOK, CopyMetrics
  <2>4. RowsOf(Batch) = records
    BY <2>2 DEF RowsOf, Batch
  <2> QED
    BY <2>2, <2>3, <2>4
<1> QED
  BY Safety, <1>1, PTL DEF Spec, BatchHoldsEveryNodeRead

\* What cluster_nodes once knew of a node stays known.
THEOREM InventoryStays == Spec => KnownInventoryStays
<1> DEFINE Kept ==
      \A n \in Node :
          clusterNodes[n] # None =>
             /\ clusterNodes'[n] # None
             /\ clusterNodes[n].cores # None => clusterNodes'[n].cores # None
             /\ clusterNodes[n].os # None => clusterNodes'[n].os # None
<1>1. IInv /\ [Next]_vars => Kept
  <2> SUFFICES ASSUME IInv, [Next]_vars
               PROVE  Kept
    OBVIOUS
  <2>1. CASE clusterNodes' = clusterNodes
    BY <2>1
  <2>2. ASSUME NEW n \in Node, sample[n] # None, clusterNodes' = Registered(n)
        PROVE  Kept
    BY <2>2, RegisteredEffect DEF IInv
  <2>3. \/ clusterNodes' = clusterNodes
        \/ \E n \in Node : sample[n] # None /\ clusterNodes' = Registered(n)
    BY DEF Next, Loop, Start, Collect, Ssh, SkipFailed, Register, RegisterFails,
           StoreAlert, StoreAlertFails, NodeDone, Flush, FlushFails, Sleep, Crash,
           DbFails, DbRecovers, vars, tables
  <2> QED
    BY <2>1, <2>2, <2>3
<1>2. IInv /\ [Next]_vars => [Kept]_vars
  BY <1>1
<1> QED
  BY Safety, <1>2, PTL DEF Spec, KnownInventoryStays

-----------------------------------------------------------------------------
\* Seen as the events table, every step of the collector adds one open event
\* or leaves the table alone: it implements EventLog (queries.py:106-121).
View(table) == [i \in DOMAIN table |-> [content |-> table[i], resolved_at |-> None]]
eventsSeen == View(events)

LEMMA ViewType ==
    ASSUME NEW table \in Seq(Event)
    PROVE  /\ View(table) \in Seq(Log!Entry)
           /\ Len(View(table)) = Len(table)
           /\ DOMAIN View(table) = DOMAIN table
<1>1. DOMAIN table = 1 .. Len(table) /\ Len(table) \in Nat
  OBVIOUS
<1>2. \A i \in 1 .. Len(table) : [content |-> table[i], resolved_at |-> None] \in Log!Entry
  BY DEF Log!Entry
<1>3. View(table) = [i \in 1 .. Len(table) |-> [content |-> table[i], resolved_at |-> None]]
  BY <1>1 DEF View
<1>4. View(table) \in [1 .. Len(table) -> Log!Entry]
  BY <1>2, <1>3
<1>5. ASSUME NEW n \in Nat, NEW f \in [1 .. n -> Log!Entry]
      PROVE  f \in Seq(Log!Entry) /\ Len(f) = n
  OBVIOUS
<1> QED
  BY <1>1, <1>4, <1>5

LEMMA InsertAdds ==
    ASSUME TypeOK, NEW e \in Event, events' = InsertEvent(events, e)
    PROVE  Log!Add
<1>1. /\ events \in Seq(Event) /\ events' \in Seq(Event)
      /\ Len(events') = Len(events) + 1 /\ Len(events) \in Nat
      /\ DOMAIN events = 1 .. Len(events)
      /\ \A i \in DOMAIN events : events'[i] = events[i]
  BY DEF TypeOK, InsertEvent
<1>2. /\ View(events') \in Seq(Log!Entry) /\ Len(View(events)) = Len(events)
      /\ Len(View(events')) = Len(events')
      /\ DOMAIN View(events) = DOMAIN events /\ DOMAIN events' = 1 .. Len(events')
  BY <1>1, ViewType
<1>3. \A i \in DOMAIN events : View(events')[i] = View(events)[i]
  BY <1>1, <1>2 DEF View
<1>4. View(events')[Len(events')].resolved_at = None
  BY <1>1, <1>2 DEF View
<1>5. Len(View(events')) = Len(View(events)) + 1
  BY <1>1, <1>2
<1>6. \A i \in DOMAIN View(events) : View(events')[i] = View(events)[i]
  BY <1>2, <1>3
<1>7. View(events')[Len(View(events'))].resolved_at = None
  BY <1>2, <1>4
<1> QED
  BY <1>2, <1>5, <1>6, <1>7 DEF Log!Add, View

THEOREM CollectorOnlyAdds == Spec => LogSpec
<1>1. Init => Log!Init
  BY DEF Init, Log!Init
<1>2. IInv /\ [Next]_vars => [Log!Next]_eventsSeen
  <2> SUFFICES ASSUME IInv, [Next]_vars, events' # events PROVE Log!Next
    BY DEF View, eventsSeen
  <2>1. PICK m \in alerts : pc = "alert" /\ events' = InsertEvent(events, Alert(m))
    BY DEF Next, Loop, Start, Collect, Ssh, SkipFailed, Register, RegisterFails,
           StoreAlert, StoreAlertFails, IsNextAlert, NodeDone, Flush, FlushFails,
           Sleep, Crash, DbFails, DbRecovers, vars, tables
  <2>2. Alert(m) \in Event
    BY <2>1, AlertType DEF IInv, RecordsMatchLoop, TypeOK
  <2> QED
    BY <2>1, <2>2, InsertAdds DEF IInv, Log!Next
<1> QED
  BY Safety, <1>1, <1>2, PTL DEF Spec, LogSpec, Log!Spec, View, eventsSeen
=============================================================================
