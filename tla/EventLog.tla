------------------------------ MODULE EventLog ------------------------------
(***************************************************************************)
(* What the events table promises to everyone who reads it: events are     *)
(* only ever added, open, at the end; an open event may be resolved once;  *)
(* nothing else of it changes and no event disappears.  The steps relate   *)
(* two states of the table, whoever takes them.                            *)
(***************************************************************************)
EXTENDS Naturals, Sequences

CONSTANTS
    Content,  \* what an event says: node, type, severity, message
    Open,     \* resolved_at of an open event
    Stamp     \* resolved_at of a resolved one

VARIABLE log  \* the events; the serial id of one is its position

Entry == [content : Content, resolved_at : Stamp \cup {Open}]

Init == log = << >>

Add ==
    /\ log' \in Seq(Entry)
    /\ Len(log') = Len(log) + 1
    /\ \A i \in DOMAIN log : log'[i] = log[i]
    /\ log'[Len(log')].resolved_at = Open

Resolve ==
    /\ log' \in Seq(Entry)
    /\ Len(log') = Len(log)
    /\ \E i \in DOMAIN log :
          /\ log[i].resolved_at = Open
          /\ log'[i].resolved_at \in Stamp
          /\ log'[i].content = log[i].content
          /\ \A j \in DOMAIN log \ {i} : log'[j] = log[j]

Next == Add \/ Resolve

Spec == Init /\ [][Next]_log
=============================================================================
