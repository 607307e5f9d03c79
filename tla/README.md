# A verification of SROIAAA

SROIAAA answers operators' questions with evidence read from production
systems. A language model proposes what to look at; everything that decides
whether it may, what is actually asked, what the answer may claim and what is
recorded is ordinary Go and shell, and that is what is specified here.

Line numbers refer to the files under `src/`. `PROJECT.json` maps every
definition to the lines it stands for, lists the hazards the properties are
aimed at, and records where the code and its documentation disagree.

## The system

| part | state | operations | correct when |
|---|---|---|---|
| session (`orchestrator/session.go`) | message history, turn, forced tool, withheld flag, trace, audit event | `Ask`, `runOneCall`, `writeAudit` | the record tells what happened; a refusal is final; missing evidence is disclosed; every question ends |
| gateway client (`mindrouter.go`) | none | `Complete` | a reply or an error, within the deadline |
| audit file of the session (`audit.go`) | JSON lines | `Record` | one line per question, before the answer is printed |
| policy router (`broker/router.go`) | policy | `Plan`, `Verify` | only what policy allows becomes a plan, nothing a request narrowed is widened, and only plans the policy would produce are accepted |
| time bounds (`since.go`) | none | `ParseSince`, `ParseUntil` | a window is the one asked for, in the past, no longer than the maximum |
| validators (`sql.go`, `monitoring.go`, `policy.go`) | none | one per field | a field is carried or refused |
| `sroiaaa-broker-plan`, `sroiaaa-broker-exec` | the plan document, the policy file | plan, verify, execute | an edited or outlived document runs nothing the policy in force would not |
| endpoint agent (`internal/agent`) | audit file; the host's files | HTTP handlers over seven operations | bounded results from allowed roots, each audited before it is returned |
| connectors (`internal/connector`) | Wazuh's token cache | `Execute` per source | figures that describe the whole result, or say they do not |
| Zoom client, notifier (`internal/zoom`, `sroiaaa-notify`) | none | `Post`, `Probe`, `split` | nothing is lost without being said |
| digest and watchdog (`bin/`) | the receipt | one run a day each | a digest that did not go out is noticed |

How they interact. `sroiaaa-chat` builds a router, an executor over the
configured connectors and a session; `Ask` alternates between the gateway and
`Router.Plan` followed by `Executor.Execute`, and a deferred `writeAudit` runs
on every way out, before `main` prints. The two broker commands do the same
in two processes with a JSON document between them. A connector for endpoint
evidence posts to the agent on the host. The digest runs `sroiaaa-chat` per
section, pipes each answer to `sroiaaa-notify`, and leaves a receipt that the
watchdog reads later.

What is hard here: a conversation whose steps come in any order while a single
audit event is overwritten along the way; limits applied to one part of a
growing history; a plan that waits while the clock and the policy move;
arithmetic on windows at midnight, at the rounding of seconds and at the width
of a duration; in the agent, concurrent handlers over one audit file and files
that change while they are read; in the connectors, figures taken by several
requests to a system that changes in between; in the digest, delivery in parts
and a process killed before its receipt.

## Modules

    Session                 one question through Ask, to exit of the process
      SessionProperties     what it is promised
        MCSession           a small instance for TLC
        SessionProofs       type correctness, the lemmas about steps and traces
          SessionSafetyProofs   the safety properties
    Broker                  Plan and Verify as operators, with clocks and windows
      PlanGate              planner, waiting document, executor; properties
        MCPlanGate          a small instance for TLC
        BrokerProofs        lemmas about checks, bounds and reading back
          PlanGateProofs    the six properties
    AuditContract           what the endpoint agent promises of its audit file
    Agent                   the agent's handlers, file operations, audit file
      AgentProperties       what a caller is promised, the contract refined
        MCAgent             a small instance for TLC
        AgentProofs         audit before return, then results and fragments
    Connector               evidence, a step in flight, a source that changes
      Zabbix, Wazuh, RequestTracker, PegasusDB, EndpointConnector
                            one connector each
        Executor            the five composed, as one executor runs them
          ExecutorProperties    what evidence promises about its source
            MCExecutor      small sites and the steps asked of them
            ExecutorProofs  tokens sent in time, unmarked evidence whole
              EvidenceProofs    figures, hosts, owners, fleets, listings
    Zoom                    from a text to messages: notify's input, split
      Digest                the digest's runs, the channel, receipt and watchdog
        DigestProperties    what the three say of one another
          MCDigest          a small instance for TLC
          DigestProofs      a silent watchdog, an alarm of the same day, what split does

### Session

`pc` says where `Ask` is: `"complete"` at the top of the loop, `"executing"`
between `policy_allowed` and the connector's reply, `"returning"` when the
deferred `writeAudit` is due, then `"returned"`, `"exited"`, or `"killed"`.
One action per way a turn can go: `GatewayError`, `DescribesACall`,
`EmptyAnswer`, `Answers`, `UnknownTool`, `UndecodableIntent`, `PolicyDenies`,
`PolicyAllows` followed by `ExecutionFails`, `ResultTooLarge`, `ResultWithheld`
or `ResultCollected`; then `TurnLimit`, `writeAudit` and `Exit`. `Deadline`
and `Killed` may come between any two steps; after the deadline neither the
gateway nor a connector succeeds.

The gateway, the router and the connectors are the environment and reply in
any way the code handles. Text is reduced to what the loop tells apart (empty,
describing a call, prose; containing one of the disclosure phrases; really
saying that it is partial) and to its size in estimated tokens. The event keeps
the fields the record is judged by: decision, status, whether something was
proposed, the turn of the plan, the turns whose calls are listed, the error.
A result whose JSON encoding fails (session.go:438-440) is left out: evidence
is plain data and always encodes.

### Broker and PlanGate

`Broker` holds the pure part. A handler of `Router.Plan` is a sequence of
checks, each with the code it is denied with, and `FirstDenial` picks the first
that fails: the order of the code is the order of the sequence. A permitted
request becomes one step. `Verify` rebuilds the candidate requests from the
document and compares what they would produce with it.

Instants are integers on the local clock. A bound is a form (`today`, a date,
RFC 3339, days, a window) and a number; an open end is the empty set. The plan
carries instants rounded down to the second. Durations wrap at `DurationRange`,
the 2^64 of Go, which is where `parseDays` multiplies without looking. The
string validators are predicates over spellings that each stand for a class of
strings treated alike; hosts, names and paths that validate are constants.
Days all have one length: daylight saving is left out. `Plan` reads the clock
once here and twice in the code (router.go:51, 55).

`PlanGate` is the life of one document. `BrokerPlan` validates the policy and
plans; `Edit` replaces the document by anything someone might hand-write;
`BrokerVerify` is the executor up to its connectors; `BrokerExecute` is the
execution. `EditPolicy` and `Tick` move the policy file and the clock while the
document waits and between verification and execution. One edit stands for
any number, since an edit may produce any of the edited documents.

### Agent

Each handler is one goroutine serving one request; `pc[h]` says where it is.
Routing and everything decided without touching a file is one action
(`handleHealth`, `Unauthorized`, `MethodNotAllowed`, `handleCapabilities`,
`BadBody`, `OperationRefused`, `DescribeHost`). A file operation goes through
`resolveAllowedPath` and then the system calls of its function one at a time:
`filesystemStat`; `ReadDir` and `ListEntries`; `Open`, `TailSeek` for a tail,
`ReadChunk` as often as there is something to read below the limit, and
`ReadReturns` or `TailReturns`. Any of them may fail (`FileFails`). Between any
two the host may change the log: `Grow`, `CopyTruncate`, `Remove`, `Create`; the
last also stands for rotation by renaming, after which an open descriptor stays
with the old inode.

A file is its size, and the bytes returned are an interval of positions. `sizes`
and `present` are history: the sizes an open file has had, and the entries that
were in the directory throughout a listing.

`Auditor.Record` is `Lock`, then the write of a line in two parts, `WriteLine`
and `WriteNewline`, because a write may stop in between: `RecordFails` may come
before either, and turns the response into a 503. `Restart` ends the process at
any point, loses what is in flight and reopens the audit file. What is written
to a connection that is not audited (health, 401, 405) is `"replying"` at once.

`AuditContract` is the abstract promise: a set of callers recorded, a set of
callers that were handed their result, one `Record` or `Return` at a time, the
second only after the first. `AgentProperties` maps the agent to it: recorded
are those with line and newline next to each other in the file, returned those
answered with something other than a dismissal or a 503.

### Executor and the connectors

A connector answers one step of a plan by several requests, and the source goes
on changing between them. `Connector` holds what all five share: the step in
flight, the `Evidence` under construction, `pc` for the request that comes next,
`todo` for the keys still to be counted one by one, and the `rows` of the source.
`Drift` changes the rows while a step is in flight; `always` and `ever` remember
what was there all through the step and at any time in it, and the properties
are stated between the two. `RequestFails` may come at any request and drops
what had been gathered, as every `return Evidence{}, err` does.

Each connector is its requests in order, one action per request:
`ZabbixPage`, `ZabbixCensus` or, past its ceiling, `ZabbixLevel` six times,
`ZabbixHostExists`, `ZabbixBreakdown`, `ZabbixCompare`; `WazuhUseToken` or
`WazuhMustLogIn` and `WazuhLogIn`, then `WazuhAgents` or `WazuhRejected`;
`RTSearch`, `RTQueue` per queue, `RTOwner` per owner; `PegasusBound`,
`PegasusScan`, `PegasusCount`; `EndpointReply`. What is asked next (`AfterCensus`,
`AfterHost`, `AfterBreakdown`, `ToOwners`) is decided from the evidence so far, as
in the code. The token outlives a step: `Tick` ages it and `TokenRevoked` makes
the manager forget it. `age` is the connector's measure and `issued` the manager's.

`Executor` dispatches each step to the connector registered for its source. A
plan of the broker has one step, so the loop over steps is the sequence `calls`
of a session's plans, and the loop's partial result never arises.

Left out: the substring filter, which narrows rows as the host does; hosts and
severities a Zabbix row does not name; the zone of Request Tracker's time
literals; a lower time bound on Wazuh agents, which the router refuses; the mutex
of the token, as a session makes one call at a time. Time between the manager
issuing a token and the connector noting it is no time. Rows are records with an
id, hosts numbers in the order of their names.

### Zoom and Digest

`Zoom` has no state. A text is a sequence of lines, a line a sequence of
characters of one byte. `ReadInput` is the `LimitReader` of `sroiaaa-notify`,
`Message` its trimming and title, `split` the function of that name, line by
line with its `flush`; a line longer than the limit is cut. The counter `(i/n)`
before each part is not part of the text. Where `split` cuts a character of
several bytes in two, the model has only characters of one.

`Digest` is `zoom-digest.sh` and `zoom-watchdog.sh` on a clock of hours. A run
begins by cron (`CronRuns`) or by hand, dry or not, over any of the sections
(`RunByHand`: `ONLY` is a substring of titles); goes through its sections
(`SkipSection`, `AskSection`, then `PartPosted` per message or `PartFails`, which
ends the section and may still have delivered the message); and moves the
receipt into place (`WriteReceipt`). `Killed` may come at any point. The watchdog
is one action, `Check`: the age in full hours is, by the minutes, the hours
begun or one less (`FullHours`). `ReceiptLost` removes or spoils the receipt.
`silence`, `today` and `byHand` are history, which no script sees.

Runs do not overlap. A child that goes on posting after its script was killed
makes the real silence only shorter than the one measured.

## What is checked

`session` (60,532 states) takes three turns, the fewest in which a result can be
collected, a second one withheld and an answer still be given. Payloads of 3, 6
and 9 tokens lie on both sides of the size limit (6), and with 6 tokens of room
beyond the prompt they lie on both sides of the context limit in every turn. It checks:

- `DecisionMatchesTrace`: the audit record's one decision agrees with the whole
  trace, whatever order denials, permissions and failures came in;
- `AuditedCallsAreShownEvidence`: the calls recorded are exactly the evidence
  shown, and the plan is that of the last connector call;
- `WithheldEvidenceIsFlagged`: after a result was withheld for the context, an
  answer carries one of the phrases that mark it partial;
- `StatusMatchesOutcome`: recorded as answered exactly if answered;
- `HistoryOverrunBounded`: how far the history may pass the served context;
- `AnswerIsRecordedFirst`: nothing is printed before its record was attempted;
- `RefusalIsFinal` (a step property): after an authorization refusal no
  connector is called, no turn taken, nothing more shown to the model;
- `AskReturns` (liveness): every question ends.

Fairness. `FairSpec` adds weak fairness of `Step`, the disjunction of everything
the process itself does. The HTTP clients carry the context's deadline
(chat main.go:129, mindrouter.go:154), so a request that is not answered fails,
and the loop is sequential: unless the process is killed, it takes its next
step. Nothing is assumed of which reply comes.

`session_context` and `session_retry` find disagreements between the code and
what it says of itself: the history does pass the served context (even with
`WrapperTokens` at 0, so the excess is the unweighed messages alone), and six
denial codes that are mistakes in a field end the session like a refusal.

`plan_gate` (304,105 states) plans every request of a vocabulary in which each
field takes values on both sides of its check, at tick 71 of a clock with
twelve ticks to the day, and lets the clock run to 73, past midnight at 72.
A second has two ticks, so that rounding moves an instant. It checks:

- `OnlyAuthorizedTargetsRun`: whatever was done to the document and under
  whatever policy it was planned, the endpoint operation that runs is one the
  policy in force at verification gives an alias of that host;
- `RunsWithinBounds`: what runs reaches the one source of its intent, within
  that source's cap, in a window the broker would open at that moment;
- `NarrowingIsKept`: what narrows a request is carried into the plan or the
  request is denied;
- `OnlySoundRequestsAreRefused`: an authorization refusal is said only of a
  request with nothing else wrong;
- `SettledPlanVerifies`: an unedited plan still verifies later, while its policy
  stands and its window is wholly past, no older than the maximum and open.

Bounds: four policies (two of them differing in one host's aliases, one invalid,
one with no live host), thirteen edits of a plan, two resources, two valid hosts.
A single document is enough: the commands share nothing but the policy file.
`MaxTime` bounds the clock at two ticks after planning; the interesting instants
are the midnight and the second boundary inside that range. `DurationRange` is
2^7 so that eleven days overflow it, as 213,504 days overflow 2^64 nanoseconds.

`plan_verify` and `day_window` are disagreements again: a plan bounded by the end
of today alone and made well before it, at tick 65 with midnight at 72 and two
ticks of tolerance, is rejected by the verifier at once, and a day count that
overflows is granted as a window of minutes.

`agent` (259,842 states) gives the handlers one of twenty workloads: three
requests competing for the audit file, of which one takes each way through
routing; one file operation of each kind alone with a log that is changed three
times; or a `stat` of a changing log beside an audited request. It checks:

- `AuditBeforeReturn`: the agent implements `AuditContract`;
- `TornLineSpoilsOneRecord`: a returned record that cannot be read back follows
  directly on the fragment of a request that was withheld or lost;
- `UnmarkedResultIsWhole`: a listing or read not marked truncated left nothing
  out that was there throughout, or beyond the end at some moment;
- `MarkedTailIsTheEnd`: a tail marked truncated is the last bytes there were;
- `EvidenceIsPermitted`: file evidence is of an enabled operation, for a
  configured token, below an allowed root after links are followed;
- `RequestsAreAnswered` (liveness): no request waits for ever.

Bounds: a log of at most three bytes against a read limit of one and a tail limit
of two puts every limit below, at and above the size, and lets the log jump over
it between two steps. Three handlers are the fewest in which a torn record, the
one it spoils and one that is well are together in the file. File operations share
nothing with each other but the log they only read, so one at a time is enough.
Changes of the log that no handler can see any more are left out.

Fairness: weak fairness of each handler's own steps, which the Go scheduler gives
a goroutine that can run; the mutex is free for ever once the others are done.
Reads and writes of local files are taken to return.

`agent_torn_line` and `agent_tail` are disagreements: the record after a torn
line is not a line of the log though its result is returned, and a log that
outgrows the limit between the two calls of a tail is answered with its first
bytes, unmarked.

`evidence` (10,570 states) runs each connector over small sites: four problems on
three hosts with the census ceiling at 3, the host census at 2 and one host
named; a manager and four agents with a reply of 4 and a list of 2; tickets in
three queues of three owners, and one of nobody, with both censuses at 2, one more
ticket of an owner who may be on the page; up to three rows against a
row limit of 2. Each ceiling is thus below, at and above what matches. The
source changes twice while a step is in flight, which is enough for each of
three consecutive requests to see a different moment. It checks:

- `ProblemCountsAreOfTheStep`: every Zabbix figure, those of a census cut at its
  ceiling included, lies between what was there all through the step and what
  was ever there in it;
- `UnmarkedProblemsAreWhole`: problems not marked truncated lack no more of those
  that matched all through the step than they hold of others, and from a source at
  rest they are all of them;
- `UnwarnedHostsAreAll`: from a source at rest, hosts are all named and counted
  unless a warning says which they are not;
- `WindowHidesNoMoreThanCleared`: a time bound without a warning leaves out no more
  of the problems firing when it is compared than it selected and saw clear in the
  step, and none when none cleared;
- `NoProblemsSaysWhetherKnown`: no problems on a named host comes with
  `host_known`, never claiming a host Zabbix does not have (`host.get` has no filter
  on monitored hosts, so a disabled one is known: `site.hosts` is every host);
- `DownCriticalAgentsAreNamed`, `FleetIsCountedWhole`: the cut list of a fleet
  names the critical agents that are down before any other, and the counts are
  of the whole reply;
- `NoOldTokenIsSent` (a step property): no token goes out a lifetime after it was
  issued;
- `TicketCountsAreOfTheStep`: the tables per queue and per owner are of the step;
- `UnwarnedOwnersAreAll`: a table per owner that carries no warning leaves out no
  more of the tickets open all through the step than its owners had others come or
  go in it, and from a source at rest names every owner there is (a page whose
  tickets name no owner has no such table at all);
- `UnmarkedEvidenceIsWhole`: Wazuh, Request Tracker and PegasusDB evidence not
  marked truncated holds every row that was there throughout;
- `ListingIsCountedOrWarned`: an endpoint's listing has its count or a warning;
- `EveryCallEnds` (liveness): a refused token included, no call is retried for
  ever.

Fairness: weak fairness of `Execute`, and of the requests together with their
failure. Every HTTP client has a timeout and every statement a time limit
(zabbix.go, wazuh.go:111 and the like), so a request comes back one way or the
other; which way is not assumed. A source that keeps changing is bounded by
`MaxDrift`, but the liveness does not rest on it: a step makes a bounded number of
requests.

`host_known` is a disagreement: questions about a host's events never ask whether
Zabbix knows it, and an error in the reply of `host.get` reads as a host it does
not know.

What the properties do not promise, because the code does not, is what one count
can hide of another. A Zabbix problem that clears between page and census makes an
unmarked page miss a live one. A problem in the window that clears between the
census and `compareAgainstNoTimeBound` makes two totals equal that are not of the
same problems: zabbix.go:471 then warns of nothing, and a problem that began before
the window and fired throughout is left out in silence, the very reading of absence
as health that its comment (442-456) is about. A ticket filed between the page and
the owners' counts, for an owner on the page, makes their sum reach the total while
another owner is missing. TLC finds each of the three on this instance as soon as
the allowance for what moved is taken out of the property; with it, the properties
say that no more is hidden than moved. The summary of a Wazuh fleet larger than one
reply is of that reply, which is marked truncated. Elsewhere in these files,
sroiaaa.go:349 looks for a number where service.go:368 sends a list, so a tail's
lines are never counted, and zoom-digest.sh:52-60 says it lists every variable the
digest needs but not those of Request Tracker, on which its last section depends.

`digest` (577,473 states) has a day of five hours with the digest in the first, the
check in the fourth, a limit of six hours and a run of at most one: the smallest
clock with the coupling that zoom-watchdog.sh:61-72 asks for, `CouplingAssumption`,
met with equality as by the installed values (04:45, 08:00, 26 hours: with hours
24, 4, 8, 26 and runs within the hour, 24 + 8 - 5 - 1 = 26). Two sections are the
fewest of which one can be posted and the other fail. Messages hold three bytes
and input eleven, and the answers are nothing, one message, lines at, below and
above the limit with empty ones between, and more than is read. It checks:

- `PostedIsInTheChannel`: what the run counts as posted arrived whole, in order,
  nothing lost at a cut (input past the limit of `sroiaaa-notify` was never read,
  and is the text meant);
- `SilenceIsNoticed`: a silent watchdog means that something of a digest reached
  the channel within the limit and the length of a run, however runs were killed,
  dry, empty or failed;
- `AlarmTellsAboutToday`: while the receipt is there, whole and of a run of cron's,
  the watchdog alarms exactly when this morning's run did not end with a section
  posted. A run killed before its receipt did not end, so it is alarmed about
  though its digest went out; a lost receipt alarms on a good day too; and a run by
  hand that replaces the receipt speaks for the morning's;
- `SilenceIsHeard` (liveness): a channel that stays silent is alarmed about.

Fairness: weak fairness of a run's steps and of time, strong fairness of `Check`.
Each command of a run has a timeout (`sroiaaa-chat` 180 s, `sroiaaa-notify` 30 s,
four sections: well within `RunHours`). The watchdog may miss days, but cron
starts it again every day. No fairness of `CronRuns`: that it does not run is what
the watchdog is for.

Every property of a passing run is violated when the definition named in
`PROJECT.json` is replaced by its mutant (`DescribesACallOnAnyTurn`,
`VerifyWithoutEquality` and so on), which stands next to its original.

## What is proved

Every safety property the passing runs check is a theorem, for every value of the
constants. The assumptions are the named ones of the modules, which TLC evaluates
on every run:

| module | assumed |
|---|---|
| Session | `SizesAssumption`: sizes are numbers within the two maxima, the prompt fits the context, at least one turn |
| Broker | `ClockAssumption`; `NoEmptyName`: the empty string is no name that validates |
| PlanGate | `RequestsAssumption`: a bound is one of `Spellings`, a limit a number; `TimesAssumption` |
| Agent | `HandlersAssumption`, `OperationsAssumption`, `LimitsAssumption` (limits are positive, as config.go:115 sees to); `NamesAssumption`; `WorkloadsAssumption`: a request decodes, and a file operation is asked of the endpoint for operations |
| connectors | `ScenariosAssumption`: a source is finite and a session asks something; `StepsAssumption`: a Zabbix problem has one of the six levels, a Wazuh agent one of its states; `RegisteredAssumption`, `TTLAssumption`, and the caps are numbers (`CensusAssumption`, `FleetAssumption`, `MaxRowsAssumption`, `OwnerCensusAssumption`, `MaxDriftAssumption`) |
| Zoom, Digest | `SizesAssumption`, `HoursAssumption`, `CouplingAssumption`; `AnswersAssumption`: an answer is lines of characters |

*Session.* `TypeInv` is `TypeOK` with `CallInTurn`, that a call is in progress
only inside a turn: without it `turn` could pass the budget when a result comes
back. It is inductive on its own, and everything else is proved relative to it.

- `ReturnInv` ties `pc`, `outcome`, `refusal`, the event's status and `record`:
  inside the loop there is no outcome and no refusal, and the status is still
  "answered"; after `writeAudit` a written status agrees with the outcome. It
  gives `StatusCorrect`, `RecordedFirst` and `RefusalFinal`.
- `HistoryBounded` strengthens the bound by what holds inside a turn: while a
  call is in progress only the assistant's message has been added. The argument
  is the one in the property: a payload is admitted only if it fits, so a turn
  either ends within the context plus its wrapper or adds at most
  `MaxReply + MaxNote` to what was there.
- `WithheldFlagged` carries the trace and the flag `budgetReached` together:
  the stage is in the trace only if the flag is set, and the flag is never reset.
- `DecisionCorrect` is inductive relative to `ReturnInv`. The lemmas about
  traces say what appending one or two entries does to `Recorded`.
- `CallsCorrect` adds that inside a call the plan is that of the current turn and that
  no later turn has executed anything.

*Broker and PlanGate.* `BrokerProofs` is about operators. Handlers are sequences
of checks, so its lemmas say of such a sequence when it passes (`PassTogether`
and its instances, up to `Permitted`: what a permitted request satisfies) and
which code it reports (`FirstFails`, from the least index that fails, up to
`RefusalIsSound`). The others are about windows: what a bound may open to under
wrapping durations (`SpellingOpens`), that rounding to the second is steady
(`FormatSteady`), and from these `PlanReadsBack`: from the plan of a permitted
request the verifier rebuilds a candidate that produces this plan again.

`PlanGateProofs` has one inductive invariant, `GateInv`: an unedited document is
what `Plan` made of a request it permits, under the policy and clock remembered
in `planned`; a denial is the planner's word on a request it does not permit; and
what runs was decoded and accepted under those remembered in `verified`. The six
theorems follow from it and the lemmas: `WithinBounds` from what `Verify` checks,
whoever wrote the document; `NarrowingKept` from what a step carries;
`RefusedOnlySound` from the order of the checks; `SettledVerifies` from
`PlanReadsBack`; `AuthorizedOnly` because the candidates of a live-evidence plan
all name a host of the policy and one of its aliases; and the types (`GateTyped`).

*Agent.* `AuditedFirst` proves the refinement, `Spec => AuditBeforeReturn`. The
invariant has four parts: the ranges of the variables; that exactly the handler
inside `Record` holds the lock (`LockInv`); that while a handler is between line
and newline its line is the last chunk of the file (`LastInv`), which is where the
lock is needed; and that only a recorded handler is about to answer with a
result and only one past `Record` is recorded (`ReplyInv`). Two lemmas say what
appending a line and a newline does to the set of recorded callers.

The results are proved from `ServiceInv`: the host's variables and the handlers'
keep their ranges, and of each handler `HandlerInv` says what it knows at its
place in the code. Past `resolveAllowedPath` its path lies below a root
(`AccessInv`); an open file was seen at its present size (`FileInv`); a read that
is further than its file ends, and a tail whose file ends before what the seek
saw, saw the file emptied (`EmptiedInv`); a listing lacks none of the entries that
were there throughout, unless marked (`ListingInv`). What is then decided
(`ResultInv`) is not touched again up to the answer. One lemma per action says
that its handler keeps this, and `OthersKeep` that the other handlers do, whatever
was done to the log. From it `ResultsAreWhole`, `TailsEnd`, `OnlyPermitted`,
`AgentTyped`.

`OneFragmentOneRecord` adds `FragmentInv`: every newline in the audit file follows
its line, and every line is followed by its newline, or is the last chunk and being
written, or is of a request that was lost or answered 503.

*Executor.* `TokenIsSentInTime` needs `TokenInv`: the connector's measure of the
token's age is the manager's. `UnmarkedIsWhole` holds for any rows, caps, number
of calls and of changes. Its invariant has three parts besides the shape of the
evidence: the rows held all through the step are among those held now
(`RowsInv`); a request in progress is of the source that makes it (`PhaseInv`);
and evidence under construction either is already marked or holds every wanted
row that has been there since (`WholeInv`), which is what the page and the count
of one Request Tracker reply establish and the later requests keep, and what
PegasusDB establishes when the scan ran to its end. The lemmas say that noting,
warning and counting change neither rows nor mark (`NotedKeeps` and so on), and
that a page as large as the whole is the whole (`FullPageIsWhole`).

*Evidence.* `EvidenceProofs` holds the other properties of evidence. `TypedInv` adds
to these the types of the evidence and where its rows come from: `rows` between
`always` and `ever`, and `ever` a finite part of the scenario. Relative to it:

- `ListingIsCountedOrWarned`, `DownCriticalAgentsAreNamed` and
  `FleetIsCountedWhole` are inductive themselves: one request establishes each,
  and every later step either leaves step and evidence alone or starts anew.
  `DownNamed` is an argument about ranks: a list cut to its best holds an agent or
  is full of agents ranked no lower.
- `TicketsInv` says of the tables under construction that each figure lies between
  the tickets that were there throughout and those ever there; a count is taken of
  the moment's rows, which lie between, and later the bounds only widen.
- `OwnersInv` says that the total lies between likewise, and that a table without a
  warning accounts for the total. So the tickets its owners ever had are no fewer
  than those open throughout, and by `Unshared` what the second have alone is no
  more than what the first have alone. The sum over the table is `Accounted`, the cardinality of the
  pairs of a key and a number up to its count: `AccountedWithin` compares it with the
  tickets by an injection, where a fold would need induction.
- `ZabbixInv` says, request by request, what the evidence holds: the page
  (`PageHeld`), after `k` levels the figures of those `k` and their sum
  (`LevelsHeld`), then total and levels (`BaseHeld`), hosts (`HostsHeld`),
  whether the host is known (`KnownHeld`) and the answer (`DoneHeld`), in which
  `WindowHeld` says that without a warning what is selected with no bound at the
  last request is no more than ever matched in the window. `AfterCensus`,
  `AfterHost` and `AfterBreakdown` lead from each to one of the others, and the
  five theorems `ProblemsCounted`, `ProblemsWhole`, `HostsKnown`, `WindowWarned` and
  `AbsenceExplained` are what `DoneHeld` says, `ProblemsWhole` and `WindowWarned` by
  `Unshared` again.

*Digest.* The invariant of `SilentMeansPosted` and `AlarmIsOfToday` is `TypeOK` with
`SilenceIsBounded` (once a section of a run is posted the silence is no longer
than the run, and under a receipt that counts a section no longer than the
receipt's age and a run), `CronIsInTime` (a run of cron's began at `DigestAt` and
is as old as the hours since) and `ReceiptIsDated` (the age of a receipt cron's run
wrote lies where this morning's run puts it if `today` is posted, and a day back
otherwise). The alarm then follows from
`CouplingAssumption` by arithmetic, for any day, limit, sections and answers.

`PostedIsWhole` states `PostedIsInTheChannel`, for messages and input of any size.
Its protocol half is `PostIsOfTheAnswer`: while a section is posted, the messages
that arrived followed by those to send are what `split` made of an answer, in its
order. Its other half, `SplitKeeps`, says that `split` loses no letter of any text:
trimming takes away lines of nothing (`TrimmedKeeps`), the pieces a line is cut
into follow on one another up to its rest (`PiecesHold`), flushing moves letters
and changes none (`FlushKeeps`), so that a line added adds its letters
(`AddLineKeeps`). Both inductions, over pieces and over lines, look at a least
number for which the claim fails, which exists because the naturals are well
founded (`LeastExists`); the library's induction rules, whose parameter is an
operator, are out of the provers' reach. In the same way the lemmas `FlattenedIs`
and `CollectedIs` turn `FlattenSeq` and `FoldLeft`, which choose a recursive
function, into values step by step.

`MessagesAreWithinLimit` is no property of a run: what client.go:285 promises of
`split`, that no message is longer than the limit, as an invariant of the messages
to send and of those in the channel (`FitInv`). The counter that `Post` puts before
a part comes on top of it and is not in the model.

TLC checked every inductive invariant named here on the instance of its run
before it was proved. Where one was not inductive, something about the model was
learned: `OwnersInv` failed on a page whose tickets name no owner, which the
connector answers without a table and without a warning (rt.go:224), and such a
ticket joined the instance.

*Only model-checked:* `AskReturns`, `RequestsAreAnswered`, `EveryCallEnds` and
`SilenceIsHeard`, liveness under fairness, which is out of the prover's reach.

## Plan

In this order, most important first:

1. The endpoint connector composed with `Agent`: a client deadline racing a
   recorded answer.
2. The executor as a refinement of the session's view of a connector call.

## Not modelled

The prompt's text and the evaluation scripts, which hold no state of the system;
flag parsing, configuration loading and construction of the connectors; of the
Zoom client, signing and the signature probe, which construct a request and keep
nothing; the watchdog's own post of its alarm, which is best effort and read by
no one but people; TLS, HTTP and JSON below the level of
"a reply, or an error"; the wording of messages; daylight saving. Request
bodies with several tool calls (session.go:404 takes the first) are one call
here.
