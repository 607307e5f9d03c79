------------------------- MODULE EndpointConnector -------------------------
(***************************************************************************)
(* The connector of the endpoint agents, sroiaaa.go: one request to the    *)
(* agent of the step's host, counts of the list that came back, and the    *)
(* agent's own figure checked against them.  A row is an entry of the      *)
(* listing [id], or a byte of the file.                                    *)
(***************************************************************************)
EXTENDS Connector

EndpointRefusal(s) ==
  IF s.operation = Absent THEN "invalid_step"
  ELSE IF s.host \notin site.agents THEN "host_not_configured" ELSE "none"

\* What an operation is counted under, and the figure an agent adds of its own.
Figure == [operation \in {"filesystem.list", "process.list", "filesystem.read", "filesystem.tail"} |->
             CASE operation = "filesystem.list" -> "entries"
               [] operation = "process.list" -> "processes"
               [] OTHER -> "bytes"]

Listing(operation) == operation \in {"filesystem.list", "process.list"}
CrossChecked(operation) == operation \in DOMAIN Figure \ {"filesystem.list"}
SingleRecord == {"filesystem.stat", "host.info", "capabilities.describe"}

\* External: a reply about some of the rows, marked truncated when the agent
\* cut it.  sent is the list or the content, unless data has neither; the
\* agent's own figure may be one too many.
Replies ==
  [operation : {step.operation, "another"}, object : BOOLEAN, list : BOOLEAN,
   sent : SUBSET rows, truncated : BOOLEAN, surplus : 0..1]

\* Mutant: the agent's figure is taken without looking at what it sent.
UncheckedAgentData(r) ==
  IF r.object /\ step.operation \in DOMAIN Figure /\ r.list
  THEN [Blank EXCEPT !.items = r.sent,
          !.summary = Entry(Figure[step.operation], Cardinality(r.sent) + r.surplus)]
  ELSE Warned(Blank, {"no counts"})

\* What came back, under the count of what came back.
CountedData(r) ==
  [Blank EXCEPT !.items = r.sent, !.summary = Entry(Figure[step.operation], Cardinality(r.sent))]

\* A file without content is not warned about; a listing without its list is.
summarizeAgentData(r) ==
  CASE ~r.object -> Warned(Blank, {"no counts"})
    [] r.object /\ step.operation \in SingleRecord -> Blank
    [] r.object /\ step.operation \in DOMAIN Figure /\ ~r.list ->
         Warned(Blank, {w \in {"no counts"} : Listing(step.operation)})
    [] r.object /\ step.operation \in DOMAIN Figure /\ r.list ->
         Warned(CountedData(r), {w \in {"figures disagree"} : CrossChecked(step.operation) /\ r.surplus # 0})
    [] OTHER -> Warned(Blank, {"no counts"})

EndpointReply ==
  /\ pc = "reply"
  /\ \E r \in Replies :
       /\ r.truncated = (r.sent # rows)
       /\ IF r.operation # step.operation
          THEN Answer(Failed("response_mismatch"))
          ELSE Answer([Warned(summarizeAgentData(r), {w \in {"agent truncated"} : r.truncated})
                         EXCEPT !.truncated = r.truncated])
  /\ UNCHANGED <<todo, token>>
============================================================================
