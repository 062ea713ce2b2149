----------------------------- MODULE Collector -----------------------------
(***************************************************************************)
(* The collector pod: run_service of src/collector/os_service.py with the  *)
(* Prometheus and SSH collectors it calls and the three tables it writes.  *)
(* One process walks the nodes of a cycle in NODE_MAP order; every await   *)
(* of a database helper is a step of its own, because the database may     *)
(* fail and the pod may die between any two of them.                       *)
(*                                                                         *)
(* A definition D_X is D with the slip X in it: the mutation tests put it  *)
(* in the place of D to see that a property notices.                       *)
(*                                                                         *)
(* Loads are in hundredths (the code rounds to two decimals), ratios in    *)
(* percent.  A value the Prometheus answer lacks is None.                  *)
(***************************************************************************)
EXTENDS Database

CONSTANTS
    Node,       \* monitored nodes, numbered by their place in NODE_MAP
    Scrape,     \* what Prometheus may answer for one node
    Unusable,   \* an answer collect_all cannot convert, as int(NaN)
    CoreCount,  \* core counts nproc may print
    OsName,     \* distribution names
    SshEvery,   \* cycles between two SSH supplements: 5 in the code
    MaxCycle    \* bound on the cycles a behaviour may start

Ratio == {"cpu_usage_ratio", "memory_usage_ratio", "disk_usage_ratio"}
Metric == Ratio \cup {"load_per_core"}

ASSUME NodeAssumption == Node \subseteq Nat /\ None \notin Node
ASSUME CycleAssumption == SshEvery \in Nat \ {0} /\ MaxCycle \in Nat
ASSUME ScrapeAssumption ==
    /\ CoreCount \subseteq Nat
    /\ None \notin OsName
    /\ Unusable \notin Scrape
    /\ \A r \in Scrape :
          /\ r.os \in OsName \cup {None}
          /\ r.load1 \in Nat \cup {None}
          /\ \A m \in Ratio : r[m] \in Nat \cup {None}

\* A node's record in the making, and a row of cluster_nodes.
Reading == [cpu_usage_ratio : Nat, memory_usage_ratio : Nat,
            disk_usage_ratio : Nat, load1 : Nat, load_per_core : Nat,
            os : OsName \cup {None}]
Row == [cores : CoreCount \cup {None}, os : OsName \cup {None}]

ASSUME NoneAssumption == None \notin Nat \cup Reading \cup Row

VARIABLES
    pc,            \* where run_service is
    sshCycle,      \* ssh_cycle % SshEvery
    sample,        \* data["node_metrics"]: None stands for a failed record
    supplement,    \* ssh_suppl
    todo,          \* nodes of the for loop still to come, the current included
    cur,           \* nm["node_name"] while its alerts are being stored
    alerts,        \* metrics of check_thresholds(nm) still to be stored
    records,       \* nodes whose records wait for the COPY at the end
    clusterNodes,  \* table cluster_nodes
    events,        \* table events
    metrics,       \* table os_metrics, as the sequence of its COPYs
    dbUp,          \* the database answers
    cycle          \* cycles started so far: stands for the time columns

local  == <<sample, supplement, todo, cur, alerts, records>>
tables == <<clusterNodes, events, metrics>>
vars == <<pc, sshCycle, local, tables, dbUp, cycle>>

-----------------------------------------------------------------------------
\* THRESHOLDS, in its order, and the severity check_thresholds gives a value.
Rank == [cpu_usage_ratio |-> 1, memory_usage_ratio |-> 2,
         disk_usage_ratio |-> 3, load_per_core |-> 4]
Warning == [cpu_usage_ratio |-> 80, memory_usage_ratio |-> 80,
            disk_usage_ratio |-> 75, load_per_core |-> 150]
Critical == [cpu_usage_ratio |-> 90, memory_usage_ratio |-> 90,
             disk_usage_ratio |-> 90, load_per_core |-> 200]

Severity(m, value) == IF value >= Critical[m] THEN "critical" ELSE "warning"

CheckThresholds(reading) == {m \in Metric : reading[m] >= Warning[m]}

\* _safe: a failed query or an absent instance counts as 0.0.
Safe_NoDefault(v) == v
Safe(v) == IF v = None THEN 0 ELSE v

\* The record collect_all builds; load_per_core starts as the raw load1.
NodeMetrics(r) ==
    [cpu_usage_ratio |-> Safe(r.cpu_usage_ratio),
     memory_usage_ratio |-> Safe(r.memory_usage_ratio),
     disk_usage_ratio |-> Safe(r.disk_usage_ratio),
     load1 |-> Safe(r.load1),
     load_per_core |-> Safe(r.load1),
     os |-> r.os]

\* round(load1 / cores, 2)
PerCore(load1, cores) == (2 * load1 + cores) \div (2 * cores)

\* supplement_node: {} when the connection fails, otherwise the core count
\* and the distribution name, which may be empty.
NoSupplement == [cores |-> None, os |-> None]
Supplement == {NoSupplement} \cup [cores : CoreCount, os : OsName \cup {None}]

\* The reading after the SSH supplement of its node was applied to it.
Supplemented(reading, supp) ==
    IF supp.cores # None /\ supp.cores > 0
    THEN [reading EXCEPT !.load_per_core = PerCore(reading.load1, supp.cores)]
    ELSE reading

-----------------------------------------------------------------------------
\* The locals of a cycle are dead outside of it.
Forget ==
    /\ sample' = [n \in Node |-> None]
    /\ supplement' = [n \in Node |-> NoSupplement]
    /\ todo' = {}
    /\ cur' = None
    /\ alerts' = {}
    /\ records' = {}

Init ==
    /\ pc = "start"
    /\ sshCycle = 0
    /\ sample = [n \in Node |-> None]
    /\ supplement = [n \in Node |-> NoSupplement]
    /\ todo = {}
    /\ cur = None
    /\ alerts = {}
    /\ records = {}
    /\ clusterNodes = [n \in Node |-> None]
    /\ events = << >>
    /\ metrics = << >>
    /\ dbUp = TRUE
    /\ cycle = 0

\* await get_pool(): without a database the process exits and is restarted.
Start ==
    /\ pc = "start"
    /\ dbUp
    /\ pc' = "collect"
    /\ UNCHANGED <<sshCycle, local, tables, dbUp, cycle>>

\* collect_all, and the test that decides on the SSH supplement.
Collect ==
    /\ pc = "collect"
    /\ cycle < MaxCycle
    /\ cycle' = cycle + 1
    /\ \E answer \in [Node -> Scrape \cup {Unusable}] :
          sample' = [n \in Node |-> IF answer[n] = Unusable THEN None
                                    ELSE NodeMetrics(answer[n])]
    /\ pc' = IF sshCycle = 0 THEN "ssh" ELSE "node"
    /\ todo' = Node
    /\ UNCHANGED <<sshCycle, supplement, cur, alerts, records, tables, dbUp>>

\* supplement_all
Ssh ==
    /\ pc = "ssh"
    /\ supplement' \in [Node -> Supplement]
    /\ pc' = "node"
    /\ UNCHANGED <<sshCycle, sample, todo, cur, alerts, records, tables, dbUp, cycle>>

\* The for loop takes the nodes in NODE_MAP order.
IsNext(n) == n \in todo /\ \A k \in todo : n <= k

\* if nm.get("collection_status") == "failed": continue
SkipFailed(n) ==
    /\ pc = "node"
    /\ IsNext(n)
    /\ sample[n] = None
    /\ todo' = todo \ {n}
    /\ UNCHANGED <<pc, sshCycle, sample, supplement, cur, alerts, records,
                   tables, dbUp, cycle>>

\* The end of a cycle, after its COPY or in its exception handler: what is in
\* memory is dropped, what was committed stays.
EndCycle ==
    /\ pc' = "sleep"
    /\ Forget

\* cluster_nodes after the upsert of node n: Prometheus' distribution name
\* comes before the one of SSH.
Registered(n) ==
    Upsert(clusterNodes, n, supplement[n].cores,
           Coalesce(sample[n].os, supplement[n].os))

\* One iteration up to and including await upsert_cluster_node.
Register(n) ==
    /\ pc = "node"
    /\ IsNext(n)
    /\ sample[n] # None
    /\ dbUp
    /\ LET reading == Supplemented(sample[n], supplement[n])
       IN /\ sample' = [sample EXCEPT ![n] = reading]
          /\ alerts' = CheckThresholds(reading)
    /\ records' = records \cup {n}
    /\ clusterNodes' = Registered(n)
    /\ cur' = n
    /\ pc' = "alert"
    /\ UNCHANGED <<sshCycle, supplement, todo, events, metrics, dbUp, cycle>>

RegisterFails_Ignored(n) ==  \* the upsert in a try of its own
    /\ pc = "node"
    /\ IsNext(n)
    /\ sample[n] # None
    /\ ~dbUp
    /\ clusterNodes' \in {clusterNodes, Registered(n)}
    /\ alerts' = CheckThresholds(sample[n])
    /\ records' = records \cup {n}
    /\ cur' = n
    /\ pc' = "alert"
    /\ UNCHANGED <<sshCycle, sample, supplement, todo, events, metrics, dbUp, cycle>>

RegisterFails_Skipped(n) ==  \* the upsert in a try of its own, then continue
    /\ pc = "node"
    /\ IsNext(n)
    /\ sample[n] # None
    /\ ~dbUp
    /\ clusterNodes' \in {clusterNodes, Registered(n)}
    /\ todo' = todo \ {n}
    /\ UNCHANGED <<pc, sshCycle, sample, supplement, cur, alerts, records,
                   events, metrics, dbUp, cycle>>

\* The same statement during an outage: it raises, committed or not.
RegisterFails(n) ==
    /\ pc = "node"
    /\ IsNext(n)
    /\ sample[n] # None
    /\ ~dbUp
    /\ clusterNodes' \in {clusterNodes, Registered(n)}
    /\ EndCycle
    /\ UNCHANGED <<sshCycle, events, metrics, dbUp, cycle>>

\* The alerts of a node are stored in the order of THRESHOLDS.
IsNextAlert(m) == m \in alerts /\ \A k \in alerts : Rank[m] <= Rank[k]

Alert(m) ==
    [cycle |-> cycle, node |-> cur, metric |-> m,
     severity |-> Severity(m, sample[cur][m])]

\* await insert_event
StoreAlert(m) ==
    /\ pc = "alert"
    /\ IsNextAlert(m)
    /\ dbUp
    /\ events' = InsertEvent(events, Alert(m))
    /\ alerts' = alerts \ {m}
    /\ UNCHANGED <<pc, sshCycle, sample, supplement, todo, cur, records,
                   clusterNodes, metrics, dbUp, cycle>>

StoreAlertFails_Ignored(m) ==  \* insert_event in a try of its own
    /\ pc = "alert"
    /\ IsNextAlert(m)
    /\ ~dbUp
    /\ events' \in {events, InsertEvent(events, Alert(m))}
    /\ alerts' = alerts \ {m}
    /\ UNCHANGED <<pc, sshCycle, sample, supplement, todo, cur, records,
                   clusterNodes, metrics, dbUp, cycle>>

StoreAlertFails_CleansUp(m) ==  \* the handler takes the cycle's events back
    /\ pc = "alert"
    /\ IsNextAlert(m)
    /\ ~dbUp
    /\ events' = SelectSeq(events, LAMBDA e : e.cycle # cycle)
    /\ EndCycle
    /\ UNCHANGED <<sshCycle, clusterNodes, metrics, dbUp, cycle>>

StoreAlertFails_Retried(m) ==  \* insert_event retried until it succeeds
    /\ pc = "alert"
    /\ IsNextAlert(m)
    /\ ~dbUp
    /\ events' \in {events, InsertEvent(events, Alert(m))}
    /\ Len(events) < 4  \* bound
    /\ UNCHANGED <<pc, sshCycle, local, clusterNodes, metrics, dbUp, cycle>>

StoreAlertFails(m) ==
    /\ pc = "alert"
    /\ IsNextAlert(m)
    /\ ~dbUp
    /\ events' \in {events, InsertEvent(events, Alert(m))}
    /\ EndCycle
    /\ UNCHANGED <<sshCycle, clusterNodes, metrics, dbUp, cycle>>

\* The end of the alert loop: on to the next node.
NodeDone ==
    /\ pc = "alert"
    /\ alerts = {}
    /\ todo' = todo \ {cur}
    /\ cur' = None
    /\ pc' = "node"
    /\ UNCHANGED <<sshCycle, sample, supplement, alerts, records, tables, dbUp, cycle>>

\* The rows of insert_os_metrics, None for a node without one.
Batch == [cycle |-> cycle,
          rows |-> [n \in Node |-> IF n \in records THEN sample[n] ELSE None]]
RowsOf(batch) == {n \in Node : batch.rows[n] # None}

\* if records: await insert_os_metrics
Flush ==
    /\ pc = "node"
    /\ todo = {}
    /\ records # {} => dbUp
    /\ metrics' = IF records = {} THEN metrics ELSE CopyMetrics(metrics, Batch)
    /\ EndCycle
    /\ UNCHANGED <<sshCycle, clusterNodes, events, dbUp, cycle>>

FlushFails ==
    /\ pc = "node"
    /\ todo = {}
    /\ records # {}
    /\ ~dbUp
    /\ metrics' \in {metrics, CopyMetrics(metrics, Batch)}
    /\ EndCycle
    /\ UNCHANGED <<sshCycle, clusterNodes, events, dbUp, cycle>>

\* ssh_cycle += 1; await asyncio.sleep(60)
Sleep ==
    /\ pc = "sleep"
    /\ sshCycle' = (sshCycle + 1) % SshEvery
    /\ pc' = "collect"
    /\ UNCHANGED <<local, tables, dbUp, cycle>>

\* The pod dies and its Deployment starts another one: the locals are lost.
Crash ==
    /\ pc # "start"
    /\ pc' = "start"
    /\ sshCycle' = 0
    /\ Forget
    /\ UNCHANGED <<tables, dbUp, cycle>>

DbFails ==
    /\ dbUp
    /\ dbUp' = FALSE
    /\ UNCHANGED <<pc, sshCycle, local, tables, cycle>>

DbRecovers ==
    /\ ~dbUp
    /\ dbUp' = TRUE
    /\ UNCHANGED <<pc, sshCycle, local, tables, cycle>>

Loop ==
    \/ Start
    \/ Collect
    \/ Ssh
    \/ \E n \in Node : SkipFailed(n) \/ Register(n) \/ RegisterFails(n)
    \/ \E m \in Metric : StoreAlert(m) \/ StoreAlertFails(m)
    \/ NodeDone
    \/ Flush
    \/ FlushFails
    \/ Sleep

Next == Loop \/ Crash \/ DbFails \/ DbRecovers

Spec == Init /\ [][Next]_vars

\* The event loop runs the coroutine; nothing promises that the database
\* recovers or that the pod survives.
FairSpec == Spec /\ WF_vars(Loop)

-----------------------------------------------------------------------------
Event == [cycle : Nat, node : Node, metric : Metric,
          severity : {"warning", "critical"}]
BatchType == [cycle : Nat, rows : [Node -> Reading \cup {None}]]


\* The type of every variable (state of run_service and of the three tables).
TypeOK ==
    /\ pc \in {"start", "collect", "ssh", "node", "alert", "sleep"}
    /\ sshCycle \in 0 .. SshEvery - 1
    /\ sample \in [Node -> Reading \cup {None}]
    /\ supplement \in [Node -> Supplement]
    /\ todo \subseteq Node
    /\ cur \in Node \cup {None}
    /\ alerts \subseteq Metric
    /\ records \subseteq Node
    /\ clusterNodes \in [Node -> Row \cup {None}]
    /\ events \in Seq(Event)
    /\ metrics \in Seq(BatchType)
    /\ dbUp \in BOOLEAN
    /\ cycle \in Nat

\* Event e reports the breach of metric m in reading r of node n, cycle c.
Reports(e, c, n, m, r) ==
    e = [cycle |-> c, node |-> n, metric |-> m, severity |-> Severity(m, r[m])]

\* Whoever finds a metrics row over a threshold also finds its event: alerts
\* are committed before the cycle's COPY, and a cycle that lost one of them to
\* an exception stores no metrics (os_service.py:78-93).
StoredBreachHasItsEvent ==
    \A i \in DOMAIN metrics :
        \A n \in RowsOf(metrics[i]) :
            \A m \in CheckThresholds(metrics[i].rows[n]) :
                \E j \in DOMAIN events :
                    Reports(events[j], metrics[i].cycle, n, m, metrics[i].rows[n])

\* A cycle never raises one alert twice, whatever fails or restarts: a
\* statement whose answer was lost is not sent again (os_service.py:78-86, 92).
OneAlertPerCycle ==
    \A i, j \in DOMAIN events :
        (/\ events[i].cycle = events[j].cycle
         /\ events[i].node = events[j].node
         /\ events[i].metric = events[j].metric) => i = j

\* Events and metrics only name nodes that query_clusters can count: the node
\* is registered before anything is stored about it (os_service.py:67-90).
StoredNodesAreRegistered ==
    /\ \A i \in DOMAIN events : clusterNodes[events[i].node] # None
    /\ \A i \in DOMAIN metrics :
          \A n \in RowsOf(metrics[i]) : clusterNodes[n] # None

\* A core count or a distribution name once known is never lost again to the
\* cycles without SSH or to a failed one (the COALESCEs, queries.py:41-43).
KnownInventoryStays ==
    [][\A n \in Node :
          clusterNodes[n] # None =>
             /\ clusterNodes'[n] # None
             /\ clusterNodes[n].cores # None => clusterNodes'[n].cores # None
             /\ clusterNodes[n].os # None => clusterNodes'[n].os # None]_vars

\* A node whose record failed costs no other node its row: a COPY holds every
\* node of the cycle that was read, and only those (os_service.py:55-57, 88-90).
BatchHoldsEveryNodeRead ==
    [][metrics' # metrics =>
          RowsOf(metrics'[Len(metrics')]) = {n \in Node : sample[n] # None}]_vars

\* The collector only ever adds open events to the table.
Log == INSTANCE EventLog WITH
    Content <- Event, Open <- None, Stamp <- {},
    log <- [i \in DOMAIN events |-> [content |-> events[i], resolved_at |-> None]]
LogSpec == Log!Spec


\* README.md:33 gives the HIGH_LOAD thresholds per core; this says that no node
\* whose core count is in cluster_nodes gets a HIGH_LOAD event for a load below
\* the threshold per core.
HighLoadIsPerCore ==
    [][\A n \in Node :
          (/\ Len(events') > Len(events)
           /\ events'[Len(events')].node = n
           /\ events'[Len(events')].metric = "load_per_core"
           /\ clusterNodes[n].cores # None)
          => PerCore(sample[n].load1, clusterNodes[n].cores)
                >= Warning["load_per_core"]]_vars

-----------------------------------------------------------------------------
\* What relates the locals of a cycle to the tables, the part of the inductive
\* invariant that no reader of the tables sees.

\* The alert of node n and metric m of this cycle may still be inserted.
StillToCome(n, m) ==
    \/ pc = "ssh"
    \/ pc = "node" /\ n \in todo
    \/ pc = "alert" /\ n \in todo /\ (n = cur => m \in alerts)

\* An alert still to come has no event yet, and no row is from the future
\* (the loop visits every node and every metric once per cycle).
NothingEarly ==
    /\ \A i \in DOMAIN events :
          /\ events[i].cycle <= cycle
          /\ events[i].cycle = cycle =>
                ~StillToCome(events[i].node, events[i].metric)
    /\ \A i \in DOMAIN metrics : metrics[i].cycle <= cycle

\* records holds exactly the nodes the loop has passed that could be read.
RecordsMatchLoop ==
    /\ pc \notin {"node", "alert"} => records = {}
    /\ pc = "ssh" => todo = Node
    /\ pc = "node" => records = {n \in Node \ todo : sample[n] # None}
    /\ pc = "alert" =>
          /\ cur \in todo
          /\ sample[cur] # None
          /\ alerts \subseteq CheckThresholds(sample[cur])
          /\ records = {n \in (Node \ todo) \cup {cur} : sample[n] # None}

\* A node in records is registered and its alerts are stored, those of the
\* current node as far as the alert loop has come.
RecordsAreCovered ==
    pc \in {"node", "alert"} =>
        \A n \in records :
            /\ clusterNodes[n] # None
            /\ \A m \in CheckThresholds(sample[n]) :
                  \/ pc = "alert" /\ n = cur /\ m \in alerts
                  \/ \E j \in DOMAIN events :
                        Reports(events[j], cycle, n, m, sample[n])

IInv ==
    /\ TypeOK
    /\ NothingEarly
    /\ RecordsMatchLoop
    /\ RecordsAreCovered
    /\ StoredBreachHasItsEvent
    /\ OneAlertPerCycle
    /\ StoredNodesAreRegistered
=============================================================================
