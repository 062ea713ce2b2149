------------------------------ MODULE Database ------------------------------
(***************************************************************************)
(* The TimescaleDB tables the programs share, as values, and the           *)
(* statements of src/db/queries.py as operators on those values.  Every    *)
(* statement is its own autocommitted transaction: each helper takes one   *)
(* connection out of the pool, runs one statement and gives it back.       *)
(***************************************************************************)
EXTENDS Naturals, Sequences

CONSTANT None  \* SQL NULL and Python None

\* COALESCE(EXCLUDED.c, cluster_nodes.c)
Coalesce_Excluded(new, old) == new  \* EXCLUDED.c without COALESCE
Coalesce(new, old) == IF new # None THEN new ELSE old

\* INSERT ... ON CONFLICT DO UPDATE of upsert_cluster_node.  A table maps a
\* node to its row, or to None when it has none.
Upsert(table, n, cores, os) ==
    [table EXCEPT ![n] =
        IF @ = None THEN [cores |-> cores, os |-> os]
        ELSE [cores |-> Coalesce(cores, @.cores), os |-> Coalesce(os, @.os)]]

\* INSERT INTO events: the serial id of a row is its position.
InsertEvent(events, e) == Append(events, e)

\* copy_records_to_table: the rows of one COPY arrive together.
CopyMetrics(metrics, batch) == Append(metrics, batch)
=============================================================================
