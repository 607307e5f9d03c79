------------------------------ MODULE MCAgent ------------------------------
(* A small instance of Agent: a log, its directory with one other entry, a   *)
(* link that leads out of the allowed root, and up to three requests.         *)
EXTENDS AgentProperties, TLC

MCRoots == {<<"var">>}
MCLogPath == <<"var", "log">>
MCDirPath == <<"var">>
MCSiblings == <<"other">>

\* Those of the paths that exist when the log does.
MCPaths == {<<"var">>, <<"var", "log">>, <<"var", "link">>, <<"etc">>}

MCLinks == [p \in MCPaths |-> IF p = <<"var", "link">> THEN <<"etc">> ELSE p]

MCEnabled ==
  {"capabilities.describe", "host.info", "process.list", "filesystem.list",
   "filesystem.stat", "filesystem.read", "filesystem.tail"}

Post == [NoRequest EXCEPT !.token = "t", !.endpoint = "operations",
                          !.method = "POST", !.body = "good"]

File(operation, path) == [Post EXCEPT !.operation = operation, !.path = path]

\* One request for each way a handler may end before or without a file.
MCShortRequests ==
  {[NoRequest EXCEPT !.endpoint = "healthz"],
   [Post EXCEPT !.token = "other"],
   [Post EXCEPT !.method = "GET"],
   [Post EXCEPT !.body = "too large"],
   [Post EXCEPT !.operation = "shell"],
   [Post EXCEPT !.operation = "process.list"],
   [Post EXCEPT !.endpoint = "capabilities", !.method = "GET"]}

StatLog == File("filesystem.stat", <<"var", "log">>)
TailLog == File("filesystem.tail", <<"var", "log">>)

MCFileRequests ==
  {StatLog,
   File("filesystem.stat", <<"var", "link">>),
   File("filesystem.list", <<"var">>),
   [File("filesystem.list", <<"var">>) EXCEPT !.max = 1],
   [File("filesystem.read", <<"var", "log">>) EXCEPT !.offset = 1],
   File("filesystem.read", <<"var", "log">>),
   [File("filesystem.read", <<"var", "log">>) EXCEPT !.offset = -1],
   [TailLog EXCEPT !.max = 1],
   [TailLog EXCEPT !.absolute = FALSE],
   [TailLog EXCEPT !.body = "bad target"],
   [File("filesystem.list", <<"gone">>) EXCEPT !.body = "bad params"],
   TailLog}

CONSTANTS h1, h2, h3

HostInfo == [Post EXCEPT !.operation = "host.info"]

\* Three requests competing for the audit file, one about a changing log while
\* another is audited, or one alone.
MCWorkloads ==
  {h1 :> r @@ h2 :> HostInfo @@ h3 :> HostInfo : r \in MCShortRequests}
    \cup
  {h1 :> r @@ h2 :> NoRequest @@ h3 :> NoRequest : r \in MCFileRequests}
    \cup
  {h1 :> StatLog @@ h2 :> HostInfo @@ h3 :> NoRequest}

=============================================================================
