----------------------------- MODULE MCPlanGate -----------------------------
(* A small instance of PlanGate: one live host and one that is not, two      *)
(* resources, three valid policies and an invalid one.  A second is two      *)
(* ticks, a day twelve, and a bound may reach three days back; the clock     *)
(* runs across a midnight.  A duration has seven bits, so that eleven days   *)
(* overflow it as 213,504 days overflow Go's sixty-four.                     *)
EXTENDS PlanGate

TailUpTo(n) == [operation |-> "filesystem.tail", path |-> "/var/log/messages",
                params |-> [NoParams EXCEPT !.maxBytes = n]]
Stat == [operation |-> "filesystem.stat", path |-> "/etc/motd",
         params |-> NoParams]

Resources(limit) ==
  [name \in {"messages", "motd"} |->
     IF name = "messages" THEN TailUpTo(limit) ELSE Stat]

PolicyOf(names, limit) ==
  [hosts |-> [host \in {"node01"} |-> names], resources |-> Resources(limit)]

MCPolicies ==
  {PolicyOf({"messages", "motd"}, 8192), PolicyOf({"motd"}, 8192),
   PolicyOf({"messages"}, 70000),
   [hosts |-> [host \in {} |-> {}], resources |-> Resources(8192)]}

Bounds ==
  {NoBound} \cup [form : {"today", "yesterday", "malformed"}, n : {0}]
    \cup [form : {"rfc3339"}, n : {61, 62, 71, 73}]
    \cup [form : {"date"}, n : {1, 5, 6, 7}]
    \cup [form : {"days"}, n : {0, 1, 4, 11}]
    \cup [form : {"window"}, n : {-1, 0, 1, 3}]

\* Every window on one ticket search.
Windows ==
  {[NoRequest EXCEPT !.intent = "tickets.open", !.since = s, !.until = u] :
     s \in Bounds, u \in Bounds}

\* The fields of a request, each in the company of those it is checked with.
Fields ==
  UNION {{[NoRequest EXCEPT !.intent = i, !.host = h, !.resource = r] :
            i \in AllIntents \cup {"fleet.delete"},
            h \in {"", "node01", "node02", "bad host"},
            r \in {"", "messages", "motd", "Bad"}},
         {[NoRequest EXCEPT !.intent = i, !.host = h, !.resource = r,
                            !.since = s, !.until = u] :
            i \in AllIntents, h \in {"", "node01"}, r \in {"", "motd"},
            s \in {NoBound, [form |-> "window", n |-> 3]},
            u \in {NoBound, [form |-> "today", n |-> 0]}},
         {[NoRequest EXCEPT !.intent = i, !.query = q] :
            i \in {"database.query", "tickets.open"},
            q \in {"select", " select ", "drop"}},
         {[NoRequest EXCEPT !.intent = i, !.match = m, !.severity = v,
                            !.state = t, !.limit = n,
                            !.since = [form |-> "window", n |-> 3]] :
            i \in Monitoring \cup {"tickets.open"},
            m \in {"", "agent", " padded "}, v \in {"", "HIGH", "worst"},
            t \in {"", "Resolved", "open"}, n \in {-1, 0, 200, 201}}}

MCRequests == Windows \cup Fields

\* Requests bounded by the end of today alone, asked hours before it.
UntilToday == {r \in Windows : r.since = NoBound /\ r.until.form = "today"}

\* One field of the first step replaced, a step added, or the intent swapped.
EditStep(step) ==
  {[step EXCEPT !.host = h] : h \in {"node01", "node02"}}
    \cup {[step EXCEPT !.path = "/etc/shadow"], [step EXCEPT !.limit = 5001],
          [step EXCEPT !.operation = "process.list"],
          [step EXCEPT !.query = "drop"], [step EXCEPT !.since = {1}],
          [step EXCEPT !.until = {95}],
          [step EXCEPT !.params.maxBytes = 65536],
          [step EXCEPT !.source = "sroiaaa-agent"]}

MCEdits(plan) ==
  {[plan EXCEPT !.steps = <<s>>] : s \in EditStep(plan.steps[1])}
    \cup {[plan EXCEPT !.steps = @ \o @], [plan EXCEPT !.steps = <<>>],
          [plan EXCEPT !.intent = "live.evidence"],
          [plan EXCEPT !.version = 2]}
=============================================================================
