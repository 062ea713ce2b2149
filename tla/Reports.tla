------------------------------- MODULE Reports -------------------------------
(***************************************************************************)
(* Reports: src/reports/generator.py behind the generate endpoint, and the *)
(* list and download endpoints of src/api/routers/reports.py.  A           *)
(* generation writes a file per format on the disk of its pod and then a   *)
(* row per format into the table reports, each in a transaction of its     *)
(* own; any pod may serve a row.  What a report says is the version of the *)
(* monitored data it was made from.  A definition D_X is D with the slip X *)
(* in it, for the mutation tests.                                          *)
(***************************************************************************)
EXTENDS Naturals, Sequences

CONSTANTS
    None,      \* SQL NULL; no file
    Empty,     \* the empty string; a file cut short
    Pod,       \* API pods, each with its own /reports
    Request,   \* generations that may be under way at once
    Report,    \* report ids: type, first day and cluster
    Matches,   \* report id -> ids whose path holds it as a substring
    Format,    \* formats callers ask for
    Rendered,  \* formats _write_report knows: json and html
    MaxData,   \* bound on the versions of the data
    MaxGenerations  \* bound on the generations

ASSUME ReportAssumption ==
    /\ Matches \in [Report -> SUBSET Report]
    /\ \A r \in Report : r \in Matches[r]
ASSUME FormatAssumption == Rendered \subseteq Format
ASSUME BoundAssumption == MaxData \in Nat /\ MaxGenerations \in Nat
ASSUME NoneAssumption == None # Empty /\ None \notin Nat /\ Empty \notin Nat

VARIABLES
    data,      \* version of what the monitored tables hold
    disk,      \* pod -> report and format -> its file
    rows,      \* table reports
    request,   \* request -> generation under way
    started,   \* generations so far
    answered   \* history: generations answered with 200

vars == <<data, disk, rows, request, started, answered>>

Content == Nat \cup {None, Empty}
RowType == [report : Report, format : Format, content : Content, data : Nat]
Generation == [at : Pod, report : Report, formats : SUBSET Format,
               todo : SUBSET Format, data : Nat]

ASSUME GenerationAssumption == None \notin Generation

NoFiles == [file \in Report \X Format |-> None]

-----------------------------------------------------------------------------
\* _write_report: a format it does not know has the content "".
Render(f, version) == IF f \in Rendered THEN version ELSE Empty

\* _serve: the content of the row, or else the file of the pod that is asked;
\* None is its 404.
Serve_FileFirst(row, p) ==  \* the disk before the table
    LET file == disk[p][<<row.report, row.format>>]
    IN IF file # None THEN file ELSE row.content
Serve(row, p) ==
    IF row.content \notin {None, Empty}
    THEN row.content
    ELSE disk[p][<<row.report, row.format>>]

\* _fetch_report_row by name: file_path LIKE '%id%' ORDER BY created_at DESC.
Named(r) == {i \in DOMAIN rows : rows[i].report \in Matches[r]}
IsFound_Oldest(r, i) == i \in Named(r) /\ \A j \in Named(r) : i <= j  \* without DESC
IsFound(r, i) == i \in Named(r) /\ \A j \in Named(r) : j <= i

\* A table from before the column content was added may hold a report.
Init ==
    /\ data = 0
    /\ disk = [p \in Pod |-> NoFiles]
    /\ \/ rows = << >>
       \/ \E r \in Report, f \in Rendered :
             rows = <<[report |-> r, format |-> f, content |-> None, data |-> 0]>>
    /\ request = [q \in Request |-> None]
    /\ started = 0
    /\ answered = {}

NewData ==
    /\ data < MaxData
    /\ data' = data + 1
    /\ UNCHANGED <<disk, rows, request, started, answered>>

\* generate up to its INSERTs: the data is collected and every file written, or
\* not, or cut short.  (Without formats it ends in an error and no change.)
Generate(q, p, r, formats) ==
    /\ request[q] = None
    /\ formats # {}
    /\ started < MaxGenerations
    /\ started' = started + 1
    /\ request' = [request EXCEPT ![q] =
          [at |-> p, report |-> r, formats |-> formats, todo |-> formats, data |-> data]]
    /\ \E file \in [formats -> {"kept", "written", "cut"}] :
          disk' = [disk EXCEPT ![p] = [k \in Report \X Format |->
             IF k[1] # r \/ k[2] \notin formats \/ file[k[2]] = "kept" THEN @[k]
             ELSE IF file[k[2]] = "cut" THEN Empty
             ELSE Render(k[2], data)]]
    /\ UNCHANGED <<data, rows, answered>>

Answer(q) == request' = [request EXCEPT ![q] = None]
Done(q, f) == request' = [request EXCEPT ![q].todo = @ \ {f}]

\* insert_report_record: INSERT INTO reports, the row of one format.
StoredRow_Swapped(g, f) ==  \* file_path and content swapped
    [report |-> g.report, format |-> f, content |-> g.report, data |-> g.data]
StoredRow(g, f) ==
    [report |-> g.report, format |-> f, content |-> Render(f, g.data), data |-> g.data]
WithRow(g, f) == Append(rows, StoredRow(g, f))

MayStore(q, f) ==
    /\ request[q] # None
    /\ f \in request[q].todo

StoreRow(q, f) ==
    /\ MayStore(q, f)
    /\ rows' = WithRow(request[q], f)
    /\ Done(q, f)
    /\ UNCHANGED <<data, disk, started, answered>>

\* The INSERT raises, committed or not: 500.
StoreFails_NextFormat(q, f) ==  \* the INSERT in a try of its own
    /\ MayStore(q, f)
    /\ rows' \in {rows, WithRow(request[q], f)}
    /\ Done(q, f)
    /\ UNCHANGED <<data, disk, started, answered>>
StoreFails(q, f) ==
    /\ MayStore(q, f)
    /\ rows' \in {rows, WithRow(request[q], f)}
    /\ Answer(q)
    /\ UNCHANGED <<data, disk, started, answered>>

\* 200
Succeed(q) ==
    /\ request[q] # None
    /\ request[q].todo = {}
    /\ answered' = answered \cup {[report |-> request[q].report,
                                   formats |-> request[q].formats,
                                   data |-> request[q].data]}
    /\ Answer(q)
    /\ UNCHANGED <<data, disk, rows, started>>

\* A pod restarts, with its disk, or is replaced by one with an empty disk; its
\* generations are lost.
Drop(p) ==
    request' = [q \in Request |->
        IF request[q] # None /\ request[q].at = p THEN None ELSE request[q]]

Restart(p) ==
    /\ \E q \in Request : request[q] # None /\ request[q].at = p
    /\ Drop(p)
    /\ UNCHANGED <<data, disk, rows, started, answered>>

Replace(p) ==
    /\ disk' = [disk EXCEPT ![p] = NoFiles]
    /\ Drop(p)
    /\ UNCHANGED <<data, rows, started, answered>>

Next ==
    \/ NewData
    \/ \E q \in Request, p \in Pod, r \in Report, formats \in SUBSET Format :
          Generate(q, p, r, formats)
    \/ \E q \in Request, f \in Format : StoreRow(q, f) \/ StoreFails(q, f)
    \/ \E q \in Request : Succeed(q)
    \/ \E p \in Pod : Restart(p) \/ Replace(p)

Spec == Init /\ [][Next]_vars

-----------------------------------------------------------------------------
\* The type of the table, the disks and the generations.
TypeOK ==
    /\ data \in 0 .. MaxData
    /\ disk \in [Pod -> [Report \X Format -> Content]]
    /\ rows \in Seq(RowType)
    /\ request \in [Request -> Generation \cup {None}]
    /\ started \in 0 .. MaxGenerations
    /\ answered \subseteq [report : Report, formats : SUBSET Format, data : Nat]

\* README.md:11 and 245: every format of a report that was answered as generated
\* stays downloadable from every pod, with the data of that generation, whatever
\* is generated, restarted or replaced later.
AnsweredStaysDownloadable ==
    \A a \in answered : \A f \in a.formats :
        \E i \in DOMAIN rows :
            /\ rows[i].report = a.report
            /\ rows[i].format = f
            /\ \A p \in Pod : Serve(rows[i], p) = a.data

\* The report id that a 200 returns can be used in the paths: it leads every pod
\* to a row with a report in it, though rows of failed generations and rows from
\* before the column content lie in the same table (reports.py:56-66).
NameFindsContent ==
    \A a \in answered :
        \E i \in DOMAIN rows :
            /\ IsFound(a.report, i)
            /\ \A p \in Pod : Serve(rows[i], p) \notin {None, Empty}

\* A row made from some data never serves other data, whatever its pod has
\* written under the same name since (the rows of failed generations included).
RowsKeepTheirData ==
    \A i \in DOMAIN rows :
        rows[i].content # None =>
            \A p \in Pod : Serve(rows[i], p) = rows[i].data

-----------------------------------------------------------------------------
\* What generations under way and answered ones have in the table: the rest of
\* the inductive invariant.
HasRow(g, f) == \E i \in DOMAIN rows : rows[i] = StoredRow(g, f)

\* The formats a generation has done with are stored.
ProgressIsStored ==
    \A q \in Request : request[q] # None =>
        \A f \in request[q].formats \ request[q].todo : HasRow(request[q], f)

\* An answered generation has all its rows.
AnswersAreStored ==
    \A a \in answered : \A f \in a.formats : HasRow(a, f)

\* A row holds what its format makes of its data, or is an old one.
RowsAreRendered ==
    \A i \in DOMAIN rows :
        rows[i].content \in {None, Render(rows[i].format, rows[i].data)}

\* Nothing is older than the old row.
OldRowIsFirst == \A i \in DOMAIN rows : rows[i].content = None => i = 1

\* No generation is about nothing.
GenerationsHaveFormats ==
    /\ \A q \in Request : request[q] # None => request[q].formats # {}
    /\ \A a \in answered : a.formats # {}

IInv ==
    /\ TypeOK
    /\ ProgressIsStored
    /\ AnswersAreStored
    /\ RowsAreRendered
    /\ OldRowIsFirst
    /\ GenerationsHaveFormats
=============================================================================
