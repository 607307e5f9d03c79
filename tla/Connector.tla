----------------------------- MODULE Connector -----------------------------
(***************************************************************************)
(* What every connector of internal/connector works on: one step of a plan *)
(* at a time, answered by several requests to a source that goes on        *)
(* changing between them.                                                  *)
(*                                                                         *)
(* A row is a record with a field id; hosts and row ids are numbers in the *)
(* order of their names.  Steps carry `host`, 0 when they name none, and   *)
(* `window`, the instants a time bound selects, empty when there is none.  *)
(***************************************************************************)
EXTENDS Integers, FiniteSets, FiniteSetsExt, SequencesExt

CONSTANTS
  Scenarios,  \* site configurations, each with its source's rows and calls
  MaxDrift    \* changes of the source while one step is in flight

ASSUME MaxDriftAssumption == MaxDrift \in Nat

\* The steps a session asks for, and the rows its source may ever hold.
StepsOf(s) == {s.calls[i] : i \in DOMAIN s.calls}
History(s) == s.rows \cup UNION {c.in : c \in s.site.changes}

ASSUME ScenariosAssumption ==
  \A s \in Scenarios :
    /\ IsFiniteSet(s.rows) /\ \A c \in s.site.changes : IsFiniteSet(c.in)
    /\ s.calls \in Seq(StepsOf(s)) /\ s.calls # <<>>
    /\ \A c \in StepsOf(s) : c.limit \in Nat

VARIABLES
  site,     \* [registered, hosts, groups, queues, agents, changes]
  rows,     \* what the source of this scenario holds now
  calls,    \* steps the session has still to execute
  step,     \* the step being executed, or executed last
  pc,       \* the request that comes next, "idle" between steps
  todo,     \* keys (levels, queues, owners) still to be counted one by one
  evidence, \* the Evidence under construction, or the last outcome
  token,    \* wazuh: the cached token
  drift,    \* changes of the source since the step began
  always, ever \* rows held all through the step, and at any time in it

work == <<site, calls, step>>
held == <<rows, drift, always, ever>>
vars == <<site, rows, calls, step, pc, todo, evidence, token, drift, always, ever>>

-----------------------------------------------------------------------------
(* Evidence, types.go.  Tables are functions from their keys.  Entry and    *)
(* Over are :> and @@ of module TLC, written out for the provers.           *)

\* A field that is not there.
Absent == ""

EmptyTable == [k \in {} |-> 0]

Entry(key, n) == [k \in {key} |-> n]

\* The left side wins, as a later assignment does.
Over(new, old) ==
  [k \in DOMAIN new \cup DOMAIN old |-> IF k \in DOMAIN new THEN new[k] ELSE old[k]]

Blank == [error |-> "none", items |-> {}, total |-> 0, truncated |-> FALSE,
          summary |-> EmptyTable, breakdown |-> EmptyTable, warnings |-> {}]

\* Mutant: a failure with figures of its own.
FailedWithFigures(code) == [Blank EXCEPT !.error = code, !.total = -1]

Failed(code) == [Blank EXCEPT !.error = code]

Noted(e, table) == [e EXCEPT !.summary = Over(table, @)]

Warned(e, texts) == [e EXCEPT !.warnings = @ \cup texts]

\* The page and the count of everything that matched, as both are known.
Judged(e, total) ==
  [Noted(e, Entry("total_matching", total)) EXCEPT
     !.total = total, !.truncated = total > Cardinality(e.items)]

Page(items) == Noted([Blank EXCEPT !.items = items], Entry("returned", Cardinality(items)))

-----------------------------------------------------------------------------
(* Replies.                                                                 *)

\* External: the first n rows of R in an order, ties left to the source.
Top(R, n, Before(_, _)) ==
  {P \in kSubset(Min({n, Cardinality(R)}), R) :
     \A r \in R \ P, p \in P : ~Before(r, p)}

CountBy(R, keys, Key(_)) == [k \in keys |-> Cardinality({r \in R : Key(r) = k})]

HostOf(r) == r.host
HostsOf(R) == {r.host : r \in R}

InWindow(s, r) == s.window = {} \/ r.at \in s.window

-----------------------------------------------------------------------------
(* Steps of the machine.                                                    *)

\* The step goes on with request `next`, and with e so far.
Continue(e, next) ==
  /\ evidence' = e /\ pc' = next
  /\ UNCHANGED <<work, held>>

Answer(e) == Continue(e, "idle")

ConnectorInit ==
  /\ \E s \in Scenarios :
       /\ site = s.site /\ calls = s.calls
       /\ rows = s.rows /\ always = s.rows /\ ever = s.rows
       /\ step = s.calls[1]
  /\ pc = "idle" /\ todo = <<>> /\ evidence = [Blank EXCEPT !.error = "not asked"] /\ drift = 0

\* Any request may fail: no transport, a bad status, an error in the reply,
\* a reply too large or unreadable.  The step ends with an error, and what
\* had been gathered is dropped.
RequestFails ==
  /\ pc \notin {"idle", "token"}
  /\ Answer(Failed("request"))
  /\ todo' = <<>> /\ UNCHANGED token

\* External: the source changes while a step is in flight.
Drift ==
  /\ pc # "idle" /\ drift < MaxDrift
  /\ \E c \in site.changes :
       /\ c.out \subseteq rows
       /\ rows' = (rows \ c.out) \cup c.in
  /\ rows' # rows
  /\ drift' = drift + 1
  /\ always' = always \cap rows' /\ ever' = ever \cup rows'
  /\ UNCHANGED <<work, pc, todo, evidence, token>>
============================================================================
