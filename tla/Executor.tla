------------------------------ MODULE Executor ------------------------------
(***************************************************************************)
(* executor.go: each step of a session's plans is sent to the connector    *)
(* registered for its source, and to no other.  A plan of the broker holds *)
(* one step, so a plan is its step, and a session that goes on asking is a *)
(* sequence of them.  The connectors are composed here: one step is in     *)
(* flight at a time, on connectors that live as long as the session.       *)
(***************************************************************************)
EXTENDS Zabbix, Wazuh, RequestTracker, PegasusDB, EndpointConnector

\* Why a connector refuses a step before it asks anything.
Refusal(s) ==
  IF s.source \notin site.registered THEN "no_connector"
  ELSE CASE s.source = "zabbix-api" -> ZabbixRefusal(s)
         [] s.source = "wazuh-api" -> WazuhRefusal(s)
         [] s.source = "sroiaaa-agent" -> EndpointRefusal(s)
         [] OTHER -> "none"

\* The first thing a connector does with a step it takes.
FirstRequest ==
  [source \in {"zabbix-api", "wazuh-api", "rt-api", "pegasus-db", "sroiaaa-agent"} |->
     CASE source = "zabbix-api" -> "page"
       [] source = "wazuh-api" -> "token"
       [] source = "rt-api" -> "search"
       [] source = "pegasus-db" -> "bound"
       [] source = "sroiaaa-agent" -> "reply"]

Sources == DOMAIN FirstRequest

\* External: the severities Zabbix has, and the states Wazuh reports of an agent.
Levels == 0..5
AgentStates == {"active", "disconnected", "pending", "never_connected", Absent}

\* What a step may ask, and of what rows: the router plans steps of the sources
\* it knows, and an event or agent is as its source describes one.
ASSUME StepsAssumption ==
  \A s \in Scenarios : \A c \in StepsOf(s) :
    /\ c.source \in Sources
    /\ c.source = "zabbix-api" => \A r \in History(s) : r.level \in Levels
    /\ c.source = "wazuh-api" => \A a \in History(s) : a.state \in AgentStates

\* NewExecutor registers connectors under the source they declare.
ASSUME RegisteredAssumption == \A s \in Scenarios : s.site.registered \subseteq Sources

Init == ConnectorInit /\ token = NoToken

Execute ==
  /\ pc = "idle" /\ calls # <<>>
  /\ step' = Head(calls) /\ calls' = Tail(calls)
  /\ LET refused == Refusal(Head(calls))
     IN  IF refused = "none"
         THEN pc' = FirstRequest[Head(calls).source] /\ evidence' = Blank
         ELSE pc' = "idle" /\ evidence' = Failed(refused)
  /\ drift' = 0 /\ always' = rows /\ ever' = rows
  /\ UNCHANGED <<site, rows, todo, token>>

Finished == pc = "idle" /\ calls = <<>> /\ UNCHANGED vars

Working == ZabbixStep \/ WazuhStep \/ RTStep \/ PegasusStep \/ EndpointReply

Next == Execute \/ Working \/ RequestFails \/ Drift \/ TokenRevoked \/ Tick \/ Finished

Spec == Init /\ [][Next]_vars

\* The http clients and the statements run under timeouts, so a request comes
\* back in the end, with an answer or as a failure.
FairSpec == Spec /\ WF_vars(Execute) /\ WF_vars(Working \/ RequestFails)
=============================================================================
