---------------------------- MODULE MCExecutor ----------------------------
(***************************************************************************)
(* Small sites for ExecutorProperties: for each source a few rows, the     *)
(* changes they may go through, and the steps the broker plans for it.     *)
(***************************************************************************)
EXTENDS ExecutorProperties

Site == [registered |-> Sources, hosts |-> {1, 2, 3}, groups |-> TRUE, queues |-> <<>>,
         agents |-> {1}, changes |-> {}]

Of(source, action) ==
  [source |-> source, action |-> action, host |-> 0, window |-> {}, since |-> FALSE,
   floor |-> 0, state |-> Absent, limit |-> 2, operation |-> Absent]

Comes(R) == [out |-> {}, in |-> R]
Goes(R) == [out |-> R, in |-> {}]

\* Five problems on three hosts, the first two may clear and the last two may
\* come; Zabbix has no host 9, host 3 has a problem only once the fourth came.
Problem(id, host, level, state) ==
  [id |-> id, host |-> host, level |-> level, at |-> id, state |-> state]
P1 == Problem(1, 1, 5, "problem")
P2 == Problem(2, 1, 3, "problem")
P3 == Problem(3, 2, 3, "problem")
P4 == Problem(4, 3, 1, "problem")
P5 == Problem(5, 1, 5, "resolved")

Window == {[window |-> {}, since |-> FALSE], [window |-> {3, 4}, since |-> TRUE],
           [window |-> {1, 2}, since |-> FALSE]}

TriggerSteps ==
  {[Of("zabbix-api", "trigger.get") EXCEPT
      !.host = h, !.window = w.window, !.since = w.since, !.floor = f, !.limit = n] :
     h \in {0, 3, 9}, w \in Window, f \in {0, 3}, n \in 1..2}

EventSteps ==
  {[Of("zabbix-api", "event.get") EXCEPT
      !.host = h, !.window = w, !.since = TRUE, !.state = s, !.limit = n] :
     h \in {0, 9}, w \in {{3, 4, 5}, 1..5}, s \in {Absent, "resolved"}, n \in 1..2}

TriggerScenarios ==
  {[site |-> [Site EXCEPT !.changes = {Goes({P1}), Goes({P2}), Comes({P4})}], rows |-> R, calls |-> <<s>>] :
     R \in {{P1, P2, P3}, {P1, P2}}, s \in TriggerSteps}

\* The event log only grows.
EventScenarios ==
  {[site |-> [Site EXCEPT !.changes = {Comes({P4}), Comes({P5})}], rows |-> {P1, P2, P3},
    calls |-> <<s>>] : s \in EventSteps}

\* The manager and four agents, more than the list names; a fleet of one more
\* than a reply holds.
Agent(id, state, critical) == [id |-> id, host |-> id, state |-> state, critical |-> critical]
Manager == Agent(0, "active", FALSE)
A1 == Agent(1, "disconnected", FALSE)
A2 == Agent(2, "active", TRUE)
A3 == Agent(3, "disconnected", TRUE)
A4 == Agent(4, Absent, TRUE)
Lost2 == [out |-> {A2}, in |-> {[A2 EXCEPT !.state = "disconnected"]}]
Back3 == [out |-> {A3}, in |-> {[A3 EXCEPT !.state = "active"]}]

FleetStep == Of("wazuh-api", "agents.list")
StatusStep(h) == [Of("wazuh-api", "agents.status") EXCEPT !.host = h]

WazuhScenarios ==
  {[site |-> [Site EXCEPT !.changes = {Lost2, Back3}, !.groups = g], rows |-> R, calls |-> c] :
     g \in BOOLEAN, R \in {{Manager, A1, A2, A3}, {Manager, A1, A2, A3, A4}},
     c \in {<<FleetStep, FleetStep, FleetStep>>, <<StatusStep(3), StatusStep(0)>>}}

\* Seven tickets in three queues, one of them not configured, of three owners;
\* one came without an owner.  The last is filed for an owner who may be on the
\* page while another is not.
Ticket(id, queue, owner) ==
  [id |-> id, host |-> 1, at |-> id, queue |-> queue, owner |-> owner]
T1 == Ticket(1, "q1", "ann")
T2 == Ticket(2, "q2", "bob")
T3 == Ticket(3, "q1", "ann")
T4 == Ticket(4, "q2", "Nobody")
T5 == Ticket(5, "q3", "ann")
T6 == Ticket(6, "q1", Absent)
T7 == Ticket(7, "q1", "ann")

RTScenarios ==
  {[site |-> [Site EXCEPT !.changes = {Comes({T4}), Comes({T7}), Goes({T1})}, !.queues = q],
    rows |-> R, calls |-> <<[Of("rt-api", "tickets.search") EXCEPT !.window = w, !.limit = n]>>] :
     q \in {<<"q1", "q2">>, <<"q1", "q2", "q4">>}, R \in {{T1, T2, T3, T5}, {T2, T3}, {T1, T6}},
     w \in {{}, {3, 4}}, n \in 1..3}

Row(id) == [id |-> id]

PegasusScenarios ==
  {[site |-> [Site EXCEPT !.changes = {Comes({Row(3)}), Goes({Row(1)})}],
    rows |-> {Row(i) : i \in R},
    calls |-> <<[Of("pegasus-db", "query.execute") EXCEPT !.limit = n]>>] :
     R \in {{}, {1}, {1, 2}, {1, 2, 4}}, n \in {1, 500}}

EndpointScenarios ==
  {[site |-> [Site EXCEPT !.changes = {Comes({Row(3)})}], rows |-> {Row(1), Row(2)},
    calls |-> <<[Of("sroiaaa-agent", "operations.execute") EXCEPT !.host = h, !.operation = o]>>] :
     h \in {1, 2}, o \in DOMAIN Figure \cup {"host.info"}}

\* A session without a connector for what the plan names.
Unregistered ==
  {[site |-> [Site EXCEPT !.registered = {"zabbix-api"}], rows |-> {}, calls |-> <<FleetStep>>]}

MCScenarios ==
  TriggerScenarios \cup EventScenarios \cup WazuhScenarios \cup RTScenarios
    \cup PegasusScenarios \cup EndpointScenarios \cup Unregistered
===========================================================================
