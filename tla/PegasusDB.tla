----------------------------- MODULE PegasusDB -----------------------------
(***************************************************************************)
(* The PegasusDB connector, pegasusdb.go: the statement time is bounded,   *)
(* the query is run and its rows read up to a number and a size, and the   *)
(* query is run again to count what it yields.  A row is [id]; the order   *)
(* of the rows and where the size runs out are the database's.             *)
(***************************************************************************)
EXTENDS Connector

CONSTANT MaxRows \* rows one answer may hold

ASSUME MaxRowsAssumption == MaxRows \in Nat

RowLimit(s) == IF s.limit > 0 /\ s.limit < MaxRows THEN s.limit ELSE MaxRows

PegasusBound ==
  /\ pc = "bound"
  /\ Continue(evidence, "scan")
  /\ UNCHANGED <<todo, token>>

\* scanRows to the end, to the row limit with a row to spare, or to the row
\* that uses up the size, which may be the last one.
ScanStops(P, capped) ==
  /\ P \subseteq rows
  /\ Cardinality(P) <= RowLimit(step)
  /\ IF capped THEN P # {} ELSE P = rows

PegasusScan ==
  /\ pc = "scan"
  /\ \E P \in SUBSET rows, capped \in BOOLEAN :
       /\ ScanStops(P, capped)
       /\ Continue([Page(P) EXCEPT !.truncated = capped], "count")
  /\ UNCHANGED <<todo, token>>

\* Mutant: only the count decides whether the answer is short.
PegasusCountAlone ==
  /\ pc = "count"
  /\ Answer(Judged(evidence, Cardinality(rows)))
  /\ UNCHANGED <<todo, token>>

PegasusCount ==
  /\ pc = "count"
  /\ LET e == Judged(evidence, Cardinality(rows))
         short == evidence.truncated \/ e.truncated
     IN  Answer([Noted(e, IF short THEN Entry("row_limit", RowLimit(step)) ELSE EmptyTable)
                   EXCEPT !.truncated = short])
  /\ UNCHANGED <<todo, token>>

PegasusStep == PegasusBound \/ PegasusScan \/ PegasusCount
============================================================================
