---------------------------- MODULE ReportsProofs ----------------------------
(***************************************************************************)
(* Theorems about Reports.  The table only grows, so what was stored stays *)
(* stored; the invariant follows a format from its INSERT to the answer of *)
(* its generation.                                                         *)
(***************************************************************************)
EXTENDS Reports, SequenceTheorems, WellFoundedInduction, TLAPS

-----------------------------------------------------------------------------
\* A row and a content have their types.
LEMMA StoredRowType ==
    ASSUME NEW g, g.report \in Report, g.data \in Nat, NEW f \in Format
    PROVE  StoredRow(g, f) \in RowType
BY DEF StoredRow, RowType, Render, Content

\* A table that gains at most the row of g and f keeps its type and its rows.
LEMMA Gained ==
    ASSUME rows \in Seq(RowType), NEW g, g.report \in Report, g.data \in Nat,
           NEW f \in Format, rows' \in {rows, WithRow(g, f)}
    PROVE  /\ rows' \in Seq(RowType)
           /\ \A i \in DOMAIN rows : i \in DOMAIN rows' /\ rows'[i] = rows[i]
           /\ \A i \in DOMAIN rows' : i \in DOMAIN rows \/ rows'[i] = StoredRow(g, f)
           /\ rows' = WithRow(g, f) =>
                 \E i \in DOMAIN rows' : rows'[i] = StoredRow(g, f)
<1> DEFINE row == StoredRow(g, f)
           T == RowType
<1>1. row \in T
  BY StoredRowType
<1>2. rows \in Seq(T)
  OBVIOUS
<1>3. rows' = rows \/ rows' = Append(rows, row)
  BY DEF WithRow
<1> HIDE DEF row, T
<1>4. rows' \in Seq(T)
  BY <1>1, <1>2, <1>3
<1>5. \A i \in DOMAIN rows : i \in DOMAIN rows' /\ rows'[i] = rows[i]
  BY <1>1, <1>2, <1>3
<1>6. \A i \in DOMAIN rows' : i \in DOMAIN rows \/ rows'[i] = row
  BY <1>1, <1>2, <1>3
<1>7. rows' = Append(rows, row) => \E i \in DOMAIN rows' : rows'[i] = row
  <2> SUFFICES ASSUME rows' = Append(rows, row)
               PROVE  Len(rows) + 1 \in DOMAIN rows' /\ rows'[Len(rows) + 1] = row
    OBVIOUS
  <2> QED
    BY <1>1, <1>2
<1> QED
  BY <1>4, <1>5, <1>6, <1>7 DEF row, T, WithRow

-----------------------------------------------------------------------------
\* The parts of a generation under way.
LEMMA GenerationParts ==
    ASSUME TypeOK, NEW q \in Request, request[q] # None
    PROVE  /\ request[q] \in Generation
           /\ request[q].report \in Report
           /\ request[q].data \in Nat
           /\ request[q].formats \subseteq Format
           /\ request[q].todo \subseteq Format
BY DEF TypeOK, Generation

LEMMA TypeInit == Init => TypeOK
<1> SUFFICES ASSUME Init PROVE TypeOK
  OBVIOUS
<1>1. rows \in Seq(RowType)
  <2>1. CASE rows = << >>
    BY <2>1
  <2>2. ASSUME NEW r \in Report, NEW f \in Rendered,
               rows = <<[report |-> r, format |-> f, content |-> None, data |-> 0]>>
        PROVE  rows \in Seq(RowType)
    <3>1. [report |-> r, format |-> f, content |-> None, data |-> 0] \in RowType
      BY FormatAssumption DEF RowType, Content
    <3> HIDE DEF RowType
    <3> QED
      BY <2>2, <3>1
  <2> QED
    BY <2>1, <2>2 DEF Init
<1>2. disk \in [Pod -> [Report \X Format -> Content]]
  BY DEF Init, NoFiles, Content
<1>3. request \in [Request -> Generation \cup {None}]
  BY DEF Init
<1>4. data \in 0 .. MaxData /\ started \in 0 .. MaxGenerations /\ answered = {}
  BY BoundAssumption DEF Init
<1> QED
  BY <1>1, <1>2, <1>3, <1>4 DEF TypeOK

LEMMA TypeStep == TypeOK /\ [Next]_vars => TypeOK'
<1> SUFFICES ASSUME TypeOK, [Next]_vars PROVE TypeOK'
  OBVIOUS
<1>0. /\ data \in Nat
      /\ disk \in [Pod -> [Report \X Format -> Content]]
      /\ rows \in Seq(RowType)
      /\ request \in [Request -> Generation \cup {None}]
  <2>1. \A n \in 0 .. MaxData : n \in Nat
    OBVIOUS
  <2> QED
    BY <2>1 DEF TypeOK
<1>1. CASE NewData
  <2>1. data' \in 0 .. MaxData
    <3>1. data \in 0 .. MaxData
      BY DEF TypeOK
    <3> QED
      BY <1>1, <3>1, BoundAssumption DEF NewData
  <2> QED
    BY <1>1, <2>1 DEF NewData, TypeOK
<1>2. ASSUME NEW q \in Request, NEW p \in Pod, NEW r \in Report,
             NEW formats \in SUBSET Format, Generate(q, p, r, formats)
      PROVE  TypeOK'
  <2>1. [at |-> p, report |-> r, formats |-> formats, todo |-> formats, data |-> data]
          \in Generation
    BY <1>0 DEF Generation
  <2>2. request' \in [Request -> Generation \cup {None}]
    BY <1>0, <1>2, <2>1 DEF Generate
  <2>3. disk' \in [Pod -> [Report \X Format -> Content]]
    <3>1. PICK file \in [formats -> {"kept", "written", "cut"}] :
            disk' = [disk EXCEPT ![p] = [k \in Report \X Format |->
               IF k[1] # r \/ k[2] \notin formats \/ file[k[2]] = "kept" THEN @[k]
               ELSE IF file[k[2]] = "cut" THEN Empty
               ELSE Render(k[2], data)]]
      BY <1>2 DEF Generate
    <3>2. \A k \in Report \X Format :
            (IF k[1] # r \/ k[2] \notin formats \/ file[k[2]] = "kept" THEN disk[p][k]
             ELSE IF file[k[2]] = "cut" THEN Empty
             ELSE Render(k[2], data)) \in Content
      BY <1>0 DEF Content, Render
    <3> QED
      BY <1>0, <3>1, <3>2
  <2>4. started' \in 0 .. MaxGenerations
    <3>1. started \in 0 .. MaxGenerations
      BY DEF TypeOK
    <3> QED
      BY <1>2, <3>1, BoundAssumption DEF Generate
  <2> QED
    BY <1>2, <2>2, <2>3, <2>4 DEF Generate, TypeOK
<1>3. ASSUME NEW q \in Request, NEW f \in Format, StoreRow(q, f) PROVE TypeOK'
  <2>1. request[q] # None
    BY <1>3 DEF StoreRow, MayStore
  <2>2. [request[q] EXCEPT !.todo = @ \ {f}] \in Generation
    BY <2>1, GenerationParts DEF Generation
  <2>3. request' \in [Request -> Generation \cup {None}]
    BY <1>0, <1>3, <2>2 DEF StoreRow, Done
  <2>4. rows' \in Seq(RowType)
    BY <1>0, <1>3, <2>1, GenerationParts, Gained DEF StoreRow
  <2> QED
    BY <1>3, <2>3, <2>4 DEF StoreRow, TypeOK
<1>4. ASSUME NEW q \in Request, NEW f \in Format, StoreFails(q, f) PROVE TypeOK'
  <2>1. request[q] # None
    BY <1>4 DEF StoreFails, MayStore
  <2>2. request' \in [Request -> Generation \cup {None}]
    BY <1>0, <1>4 DEF StoreFails, Answer
  <2>3. rows' \in Seq(RowType)
    BY <1>0, <1>4, <2>1, GenerationParts, Gained DEF StoreFails
  <2> QED
    BY <1>4, <2>2, <2>3 DEF StoreFails, TypeOK
<1>5. ASSUME NEW q \in Request, Succeed(q) PROVE TypeOK'
  <2>1. request' \in [Request -> Generation \cup {None}]
    BY <1>0, <1>5 DEF Succeed, Answer
  <2>2. [report |-> request[q].report, formats |-> request[q].formats,
         data |-> request[q].data]
          \in [report : Report, formats : SUBSET Format, data : Nat]
    BY <1>5, GenerationParts DEF Succeed
  <2> QED
    BY <1>5, <2>1, <2>2 DEF Succeed, TypeOK
<1>6. ASSUME NEW p \in Pod, Restart(p) \/ Replace(p) PROVE TypeOK'
  <2>1. request' \in [Request -> Generation \cup {None}]
    BY <1>0, <1>6 DEF Restart, Replace, Drop
  <2>2. disk' \in [Pod -> [Report \X Format -> Content]]
    <3>1. NoFiles \in [Report \X Format -> Content]
      BY DEF NoFiles, Content
    <3> QED
      BY <1>0, <1>6, <3>1 DEF Restart, Replace
  <2> QED
    BY <1>6, <2>1, <2>2 DEF Restart, Replace, TypeOK
<1>7. CASE UNCHANGED vars
  BY <1>7 DEF vars, TypeOK
<1> QED
  BY <1>1, <1>2, <1>3, <1>4, <1>5, <1>6, <1>7 DEF Next

\* The table, the disks and the generations keep their types, for any pods,
\* reports, formats and bounds (generator.py:25-70, queries.py:270-298).
THEOREM TypeCorrect == Spec => []TypeOK
BY TypeInit, TypeStep, PTL DEF Spec

-----------------------------------------------------------------------------
\* Storing the row of a generation under way, or failing to, keeps every row.
LEMMA StoreKeepsRows ==
    ASSUME TypeOK, NEW q \in Request, NEW f \in Format,
           StoreRow(q, f) \/ StoreFails(q, f)
    PROVE  /\ \A i \in DOMAIN rows : i \in DOMAIN rows' /\ rows'[i] = rows[i]
           /\ \A i \in DOMAIN rows' :
                 i \in DOMAIN rows \/ rows'[i] = StoredRow(request[q], f)
<1>1. request[q] # None
  BY DEF StoreRow, StoreFails, MayStore
<1>2. rows' \in {rows, WithRow(request[q], f)}
  BY DEF StoreRow, StoreFails
<1> QED
  BY <1>1, <1>2, GenerationParts, Gained DEF TypeOK

\* No step removes or changes a row (queries.py:282-297).
LEMMA RowsAreKept ==
    ASSUME TypeOK, [Next]_vars
    PROVE  \A i \in DOMAIN rows : i \in DOMAIN rows' /\ rows'[i] = rows[i]
<1>1. CASE \E q \in Request, f \in Format : StoreRow(q, f) \/ StoreFails(q, f)
  BY <1>1, StoreKeepsRows
<1>2. CASE UNCHANGED rows
  BY <1>2
<1> QED
  BY <1>1, <1>2 DEF Next, NewData, Generate, Succeed, Restart, Replace, vars

\* A generation under way in the next state was under way before, as it is or
\* with one format less, whose row is stored; or it has just been started.
LEMMA Progress ==
    ASSUME TypeOK, [Next]_vars, NEW q \in Request, request'[q] # None
    PROVE  \/ request'[q] = request[q]
           \/ request'[q].todo = request'[q].formats
           \/ /\ request[q] # None
              /\ \E f \in Format :
                    /\ request'[q] = [request[q] EXCEPT !.todo = @ \ {f}]
                    /\ \E i \in DOMAIN rows' : rows'[i] = StoredRow(request[q], f)
<1>0. request \in [Request -> Generation \cup {None}]
  BY DEF TypeOK
<1>1. ASSUME NEW k \in Request, NEW p \in Pod, NEW r \in Report,
             NEW formats \in SUBSET Format, Generate(k, p, r, formats)
      PROVE  request'[q] = request[q] \/ request'[q].todo = request'[q].formats
  BY <1>0, <1>1 DEF Generate
<1>2. ASSUME NEW k \in Request, NEW f \in Format, StoreRow(k, f)
      PROVE  \/ request'[q] = request[q]
             \/ /\ request[q] # None
                /\ request'[q] = [request[q] EXCEPT !.todo = @ \ {f}]
                /\ \E i \in DOMAIN rows' : rows'[i] = StoredRow(request[q], f)
  <2>1. CASE k = q
    <3>1. /\ request[q] # None
          /\ request' = [request EXCEPT ![q].todo = @ \ {f}]
          /\ rows' = WithRow(request[q], f)
      BY <1>2, <2>1 DEF StoreRow, MayStore, Done
    <3>2. /\ request[q].report \in Report
          /\ request[q].data \in Nat
      BY <3>1, GenerationParts
    <3>3. request'[q] = [request[q] EXCEPT !.todo = @ \ {f}]
      BY <1>0, <3>1
    <3>4. \E i \in DOMAIN rows' : rows'[i] = StoredRow(request[q], f)
      BY <3>1, <3>2, Gained DEF TypeOK
    <3> QED
      BY <3>1, <3>3, <3>4
  <2>2. CASE k # q
    BY <1>0, <1>2, <2>2 DEF StoreRow, Done
  <2> QED
    BY <2>1, <2>2
<1>3. ASSUME NEW k \in Request, \/ \E f \in Format : StoreFails(k, f)
                                \/ Succeed(k)
      PROVE  request'[q] = request[q]
  BY <1>0, <1>3 DEF StoreFails, Succeed, Answer
<1>4. ASSUME NEW p \in Pod, Restart(p) \/ Replace(p)
      PROVE  request'[q] = request[q]
  BY <1>0, <1>4 DEF Restart, Replace, Drop
<1>5. CASE NewData \/ UNCHANGED vars
  BY <1>5 DEF NewData, vars
<1> QED
  BY <1>1, <1>2, <1>3, <1>4, <1>5 DEF Next

-----------------------------------------------------------------------------
\* A set of naturals has a least element, and one with a bound a greatest.
LEMMA LeastNatural ==
    ASSUME NEW T \in SUBSET Nat, T # {}
    PROVE  \E x \in T : \A y \in T : x <= y
<1> DEFINE less == {ss \in Nat \X Nat : ss[1] < ss[2]}
<1>1. IsWellFoundedOn(less, Nat)
  BY NatLessThanWellFounded DEF OpToRel
<1> HIDE DEF less
<1>2. PICK x \in T : \A y \in T : ~ (<<y, x>> \in less)
  BY <1>1, WFMin
<1>3. \A y \in T : ~ (y < x)
  BY <1>2 DEF less
<1> QED
  BY <1>3

LEMMA GreatestIndex ==
    ASSUME NEW n \in Nat, NEW T \in SUBSET (1 .. n), T # {}
    PROVE  \E x \in T : \A y \in T : y <= x
<1> DEFINE bounds == {b \in Nat : \A y \in T : y <= b}
<1>1. n \in bounds
  OBVIOUS
<1>2. PICK b \in bounds : \A c \in bounds : b <= c
  <2> HIDE DEF bounds
  <2>1. bounds \in SUBSET Nat
    BY DEF bounds
  <2> QED
    BY <1>1, <2>1, LeastNatural
<1>3. b \in T
  <2> SUFFICES ASSUME \A y \in T : y # b PROVE FALSE
    OBVIOUS
  <2>1. b \in Nat /\ \A y \in T : y \in Nat /\ 1 <= y /\ y < b
    BY <1>2
  <2>2. b - 1 \in Nat
    <3>1. PICK y \in T : TRUE
      OBVIOUS
    <3> QED
      BY <2>1, <3>1
  <2>3. \A y \in T : y <= b - 1
    BY <2>1
  <2> QED
    BY <1>2, <2>1, <2>2, <2>3
<1> QED
  BY <1>2, <1>3

-----------------------------------------------------------------------------
LEMMA SafetyInit == Init => IInv
<1> SUFFICES ASSUME Init PROVE IInv
  OBVIOUS
<1>1. ProgressIsStored /\ AnswersAreStored
  BY DEF Init, ProgressIsStored, AnswersAreStored
<1>2. RowsAreRendered /\ OldRowIsFirst
  BY DEF Init, RowsAreRendered, OldRowIsFirst
<1>3. GenerationsHaveFormats
  BY DEF Init, GenerationsHaveFormats
<1> QED
  BY <1>1, <1>2, <1>3, TypeInit DEF IInv

LEMMA ProgressStep == IInv /\ [Next]_vars => ProgressIsStored'
<1> SUFFICES ASSUME IInv, [Next]_vars, NEW q \in Request, request'[q] # None,
                    NEW f \in request'[q].formats \ request'[q].todo
             PROVE  \E i \in DOMAIN rows' : rows'[i] = StoredRow(request'[q], f)
  BY DEF ProgressIsStored, HasRow, StoredRow, Render
<1>1. TypeOK /\ \A i \in DOMAIN rows : i \in DOMAIN rows' /\ rows'[i] = rows[i]
  BY RowsAreKept DEF IInv
<1>2. ASSUME request[q] # None, f \in request[q].formats \ request[q].todo
      PROVE  \E i \in DOMAIN rows' : rows'[i] = StoredRow(request[q], f)
  BY <1>1, <1>2 DEF IInv, ProgressIsStored, HasRow
<1>3. CASE request'[q] = request[q]
  BY <1>2, <1>3
<1>4. CASE request'[q].todo = request'[q].formats
  BY <1>4
<1>5. ASSUME NEW k \in Format, request[q] # None,
             request'[q] = [request[q] EXCEPT !.todo = @ \ {k}],
             \E i \in DOMAIN rows' : rows'[i] = StoredRow(request[q], k)
      PROVE  \E i \in DOMAIN rows' : rows'[i] = StoredRow(request'[q], f)
  <2>1. /\ request'[q].report = request[q].report
        /\ request'[q].data = request[q].data
        /\ request'[q].formats = request[q].formats
        /\ request'[q].todo = request[q].todo \ {k}
    BY <1>1, <1>5, GenerationParts DEF Generation
  <2>2. StoredRow(request'[q], f) = StoredRow(request[q], f)
    BY <2>1 DEF StoredRow
  <2>3. CASE f = k
    BY <1>5, <2>2, <2>3
  <2>4. CASE f # k
    BY <1>2, <1>5, <2>1, <2>2, <2>4
  <2> QED
    BY <2>3, <2>4
<1> QED
  BY <1>1, <1>3, <1>4, <1>5, Progress

LEMMA AnswersStep == IInv /\ [Next]_vars => AnswersAreStored'
<1> SUFFICES ASSUME IInv, [Next]_vars, NEW a \in answered', NEW f \in a.formats
             PROVE  \E i \in DOMAIN rows' : rows'[i] = StoredRow(a, f)
  BY DEF AnswersAreStored, HasRow, StoredRow, Render
<1>1. TypeOK /\ \A i \in DOMAIN rows : i \in DOMAIN rows' /\ rows'[i] = rows[i]
  BY RowsAreKept DEF IInv
<1>2. CASE a \in answered
  BY <1>1, <1>2 DEF IInv, AnswersAreStored, HasRow
<1>3. CASE a \notin answered
  <2>1. PICK q \in Request : Succeed(q)
    BY <1>3 DEF Next, NewData, Generate, StoreRow, StoreFails, Restart, Replace, vars
  <2>2. a = [report |-> request[q].report, formats |-> request[q].formats,
             data |-> request[q].data]
    BY <1>3, <2>1 DEF Succeed
  <2>3. request[q] # None /\ request[q].todo = {} /\ f \in request[q].formats
    BY <2>1, <2>2 DEF Succeed
  <2>4. \E i \in DOMAIN rows : rows[i] = StoredRow(request[q], f)
    BY <2>3 DEF IInv, ProgressIsStored, HasRow
  <2>5. StoredRow(a, f) = StoredRow(request[q], f)
    BY <2>2 DEF StoredRow
  <2> QED
    BY <1>1, <2>4, <2>5
<1> QED
  BY <1>2, <1>3

LEMMA RowsStep == IInv /\ [Next]_vars => RowsAreRendered'
<1> SUFFICES ASSUME IInv, [Next]_vars, NEW i \in DOMAIN rows'
             PROVE  rows'[i].content \in {None, Render(rows'[i].format, rows'[i].data)}
  BY DEF RowsAreRendered, Render
<1>1. TypeOK
  BY DEF IInv
<1>2. CASE i \in DOMAIN rows
  BY <1>1, <1>2, RowsAreKept DEF IInv, RowsAreRendered
<1>3. CASE i \notin DOMAIN rows
  <2>1. PICK q \in Request, f \in Format : StoreRow(q, f) \/ StoreFails(q, f)
    BY <1>3 DEF Next, NewData, Generate, Succeed, Restart, Replace, vars
  <2>2. rows'[i] = StoredRow(request[q], f)
    BY <1>1, <1>3, <2>1, StoreKeepsRows
  <2> QED
    BY <2>2 DEF StoredRow
<1> QED
  BY <1>2, <1>3

LEMMA OldRowStep == IInv /\ [Next]_vars => OldRowIsFirst'
<1> SUFFICES ASSUME IInv, [Next]_vars, NEW i \in DOMAIN rows',
                    rows'[i].content = None
             PROVE  i = 1
  BY DEF OldRowIsFirst
<1>1. TypeOK
  BY DEF IInv
<1>2. CASE i \in DOMAIN rows
  BY <1>1, <1>2, RowsAreKept DEF IInv, OldRowIsFirst
<1>3. CASE i \notin DOMAIN rows
  <2>1. PICK q \in Request, f \in Format : StoreRow(q, f) \/ StoreFails(q, f)
    BY <1>3 DEF Next, NewData, Generate, Succeed, Restart, Replace, vars
  <2>2. rows'[i] = StoredRow(request[q], f)
    BY <1>1, <1>3, <2>1, StoreKeepsRows
  <2>3. request[q].data \in Nat
    BY <1>1, <2>1, GenerationParts DEF StoreRow, StoreFails, MayStore
  <2> QED
    BY <2>2, <2>3, NoneAssumption DEF StoredRow, Render
<1> QED
  BY <1>2, <1>3

LEMMA FormatsStep == IInv /\ [Next]_vars => GenerationsHaveFormats'
<1> SUFFICES ASSUME IInv, [Next]_vars PROVE GenerationsHaveFormats'
  OBVIOUS
<1>0. TypeOK /\ request \in [Request -> Generation \cup {None}]
  BY DEF IInv, TypeOK
<1>1. ASSUME NEW q \in Request, request'[q] # None
      PROVE  request'[q].formats # {}
  <2>1. CASE request'[q] = request[q]
    BY <1>1, <2>1 DEF IInv, GenerationsHaveFormats
  <2>2. ASSUME NEW f \in Format, request[q] # None,
               request'[q] = [request[q] EXCEPT !.todo = @ \ {f}]
        PROVE  request'[q].formats # {}
    <3>1. request'[q].formats = request[q].formats
      BY <1>0, <2>2, GenerationParts DEF Generation
    <3> QED
      BY <2>2, <3>1 DEF IInv, GenerationsHaveFormats
  <2>3. ASSUME NEW k \in Request, NEW p \in Pod, NEW r \in Report,
               NEW formats \in SUBSET Format, Generate(k, p, r, formats)
        PROVE  request'[q] = request[q] \/ request'[q].formats # {}
    BY <1>0, <2>3 DEF Generate
  <2>4. CASE ~ \E k \in Request, p \in Pod, r \in Report, formats \in SUBSET Format :
                  Generate(k, p, r, formats)
    <3>1. \/ request'[q] = request[q]
          \/ /\ request[q] # None
             /\ \E f \in Format : request'[q] = [request[q] EXCEPT !.todo = @ \ {f}]
      BY <1>0, <1>1, <2>4
         DEF Next, NewData, StoreRow, MayStore, StoreFails, Succeed, Restart, Replace,
             Done, Answer, Drop, vars
    <3> QED
      BY <2>1, <2>2, <3>1
  <2> QED
    BY <2>1, <2>3, <2>4
<1>2. ASSUME NEW a \in answered', a \notin answered
      PROVE  a.formats # {}
  <2>1. PICK q \in Request : Succeed(q)
    BY <1>2 DEF Next, NewData, Generate, StoreRow, StoreFails, Restart, Replace, vars
  <2>2. request[q] # None /\ a.formats = request[q].formats
    BY <1>2, <2>1 DEF Succeed
  <2> QED
    BY <2>2 DEF IInv, GenerationsHaveFormats
<1> QED
  BY <1>1, <1>2 DEF IInv, GenerationsHaveFormats

\* Whatever fails, restarts or overlaps, the table holds what generations have
\* done with and what was answered (generator.py:52-70, queries.py:282-297).
THEOREM Safety == Spec => []IInv
<1>1. IInv /\ [Next]_vars => IInv'
  <2> SUFFICES ASSUME IInv, [Next]_vars PROVE IInv'
    OBVIOUS
  <2>1. TypeOK'
    BY TypeStep DEF IInv
  <2> QED
    BY <2>1, ProgressStep, AnswersStep, RowsStep, OldRowStep, FormatsStep DEF IInv
<1> QED
  BY SafetyInit, <1>1, PTL DEF Spec

\* An answered report stays downloadable in every format and from every pod, if
\* callers ask for html and json only (reports.py:69-82).
THEOREM AnswersStayDownloadable ==
    ASSUME Format = Rendered
    PROVE  Spec => []AnsweredStaysDownloadable
<1>1. IInv => AnsweredStaysDownloadable
  <2> SUFFICES ASSUME IInv, NEW a \in answered, NEW f \in a.formats
               PROVE  \E i \in DOMAIN rows :
                         /\ rows[i].report = a.report
                         /\ rows[i].format = f
                         /\ \A p \in Pod : Serve(rows[i], p) = a.data
    BY DEF AnsweredStaysDownloadable
  <2>1. a.data \in Nat /\ f \in Format
    BY DEF IInv, TypeOK
  <2>2. PICK i \in DOMAIN rows : rows[i] = StoredRow(a, f)
    BY DEF IInv, AnswersAreStored, HasRow
  <2>3. /\ rows[i].report = a.report
        /\ rows[i].format = f
        /\ rows[i].content = a.data
    BY <2>1, <2>2 DEF StoredRow, Render
  <2>4. \A p \in Pod : Serve(rows[i], p) = a.data
    BY <2>1, <2>3, NoneAssumption DEF Serve
  <2> QED
    BY <2>3, <2>4
<1> QED
  BY Safety, <1>1, PTL

\* A row of the current code serves the data it was made from and no other, if
\* callers ask for html and json only (reports.py:69-82).
THEOREM RowsServeTheirData ==
    ASSUME Format = Rendered
    PROVE  Spec => []RowsKeepTheirData
<1>1. IInv => RowsKeepTheirData
  <2> SUFFICES ASSUME IInv, NEW i \in DOMAIN rows, rows[i].content # None, NEW p \in Pod
               PROVE  Serve(rows[i], p) = rows[i].data
    BY DEF RowsKeepTheirData
  <2>1. rows[i] \in RowType
    <3> DEFINE T == RowType
    <3>1. rows \in Seq(T)
      BY DEF IInv, TypeOK
    <3> HIDE DEF T
    <3>2. rows[i] \in T
      BY <3>1
    <3> QED
      BY <3>2 DEF T
  <2>2. rows[i].format \in Rendered /\ rows[i].data \in Nat
    BY <2>1 DEF RowType
  <2>3. rows[i].content = rows[i].data
    BY <2>2 DEF IInv, RowsAreRendered, Render
  <2> QED
    BY <2>2, <2>3, NoneAssumption DEF Serve
<1> QED
  BY Safety, <1>1, PTL

\* The id of an answered report leads every pod to a row with a report in it, if
\* callers ask for html and json only: the newest row that the id matches is the
\* one of the answer or a younger one, and only an old row has no content
\* (reports.py:56-82).
THEOREM NamesFindContent ==
    ASSUME Format = Rendered
    PROVE  Spec => []NameFindsContent
<1>1. IInv => NameFindsContent
  <2> SUFFICES ASSUME IInv, NEW a \in answered
               PROVE  \E i \in DOMAIN rows :
                         /\ IsFound(a.report, i)
                         /\ \A p \in Pod : Serve(rows[i], p) \notin {None, Empty}
    BY DEF NameFindsContent
  <2>1. a.report \in Report /\ a.data \in Nat /\ a.formats \subseteq Format
    BY DEF IInv, TypeOK
  <2>2. PICK f \in a.formats : HasRow(a, f)
    BY DEF IInv, GenerationsHaveFormats, AnswersAreStored
  <2>3. PICK k \in DOMAIN rows : rows[k] = StoredRow(a, f)
    BY <2>2 DEF HasRow
  <2>4. k \in Named(a.report)
    BY <2>1, <2>3, ReportAssumption DEF Named, StoredRow
  <2>5. \A i \in DOMAIN rows : rows[i].format \in Format /\ rows[i].data \in Nat
    <3> DEFINE T == RowType
    <3>1. rows \in Seq(T)
      BY DEF IInv, TypeOK
    <3> HIDE DEF T
    <3>2. \A i \in DOMAIN rows : rows[i] \in T
      BY <3>1
    <3> QED
      BY <3>2 DEF T, RowType
  <2>6. Len(rows) \in Nat /\ DOMAIN rows = 1 .. Len(rows)
    <3> DEFINE T == RowType
    <3>1. rows \in Seq(T)
      BY DEF IInv, TypeOK
    <3> HIDE DEF T
    <3> QED
      BY <3>1
  <2>7. PICK i \in Named(a.report) : \A j \in Named(a.report) : j <= i
    <3>1. Named(a.report) \in SUBSET (1 .. Len(rows))
      BY <2>6 DEF Named
    <3> QED
      BY <2>4, <2>6, <3>1, GreatestIndex
  <2>8. i \in DOMAIN rows /\ IsFound(a.report, i)
    BY <2>7 DEF Named, IsFound
  <2>9. rows[i].content # None
    <3>1. CASE i = k
      BY <2>1, <2>3, <3>1, NoneAssumption DEF StoredRow, Render
    <3>2. CASE i # k
      <4>1. i # 1
        BY <2>4, <2>6, <2>7, <2>8, <3>2
      <4> QED
        BY <2>8, <4>1 DEF IInv, OldRowIsFirst
    <3> QED
      BY <3>1, <3>2
  <2>10. rows[i].content \in Nat
    BY <2>5, <2>8, <2>9 DEF IInv, RowsAreRendered, Render
  <2>11. \A p \in Pod : Serve(rows[i], p) \notin {None, Empty}
    BY <2>10, NoneAssumption DEF Serve
  <2> QED
    BY <2>8, <2>11
<1> QED
  BY Safety, <1>1, PTL
=============================================================================
