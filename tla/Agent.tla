------------------------------- MODULE Agent -------------------------------
(***************************************************************************)
(* sroiaaa-agent on an endpoint: concurrent HTTP handlers, the operations  *)
(* they run on files that grow and rotate meanwhile, and the one audit     *)
(* file they share.                                                        *)
(*                                                                         *)
(* A file is its size: a byte is its position.  A record in the audit file *)
(* is two chunks, all of it but the newline and the newline, because the   *)
(* write of a line may stop in between.  Paths are sequences of names,     *)
(* already cleaned.                                                        *)
(***************************************************************************)
EXTENDS Integers, Sequences

CONSTANTS
  Handlers,           \* requests in flight, one goroutine each
  Workloads,          \* what the callers of the handlers send
  AuthTokens,         \* configured bearer tokens
  EnabledOperations,  \* operations the configuration enables
  Roots,              \* allowed roots, links followed
  Links,              \* what each existing path resolves to
  LogPath, DirPath,   \* resolved paths of a log and of its directory
  Siblings,           \* other names in the directory, in order
  MaxReadBytes, MaxTailBytes, MaxListEntries,
  MaxSize,            \* bound on the log's size
  MaxInodes,          \* bound on rotations
  MaxChanges,         \* bound on what happens to the log
  MaxRestarts,        \* bound on restarts of the agent
  NoHandler

ASSUME HandlersAssumption == NoHandler \notin Handlers

VARIABLES
  pc,        \* where each handler is
  req,       \* the request its caller sends
  op,        \* progress of its file operation
  resp,      \* its response
  holder,    \* handler inside Auditor.Record
  audit,     \* the audit file
  link,      \* inode the log's name refers to, 0 when there is none
  size,      \* size of each inode
  changes,   \* times the log was changed
  restarts,  \* restarts so far
  sizes,     \* sizes its open file had, per handler
  present    \* directory entries there throughout its request

vars == <<pc, req, op, resp, holder, audit, link, size,
          changes, restarts, sizes, present>>
files == <<link, size, changes>>
ghosts == <<sizes, present>>

Inodes == 1 .. MaxInodes

-----------------------------------------------------------------------------
(* Requests and responses.                                                 *)

FileOperations ==
  {"filesystem.list", "filesystem.stat", "filesystem.read", "filesystem.tail"}

knownOperations ==
  FileOperations \cup {"capabilities.describe", "host.info", "process.list"}

ASSUME OperationsAssumption == EnabledOperations \subseteq knownOperations

\* A limit that is not positive is replaced by its default (envInt64); a log
\* has an inode to begin with.
ASSUME LimitsAssumption ==
  /\ MaxReadBytes \in Nat \ {0} /\ MaxTailBytes \in Nat \ {0}
  /\ MaxListEntries \in Nat \ {0}
  /\ MaxSize \in Nat /\ MaxChanges \in Nat /\ MaxRestarts \in Nat
  /\ MaxInodes \in Nat \ {0}

\* Paths and directories are sequences of names.
ASSUME NamesAssumption ==
  Roots \subseteq Seq(STRING) /\ Siblings \in Seq(STRING)

\* Offsets and maxima are whole numbers, of either sign; only the body of a
\* request to /v1/operations names a file operation.
ASSUME WorkloadsAssumption ==
  \A requests \in Workloads : \A h \in Handlers :
    /\ requests[h].offset \in Int /\ requests[h].max \in Int
    /\ requests[h].operation \in FileOperations =>
         requests[h].endpoint = "operations"

NoCode == ""

\* A response; data are the bytes or the names it carries.
NoResponse ==
  [status |-> 0, code |-> NoCode, start |-> 0, bytes |-> 0, names |-> {},
   truncated |-> FALSE]

Error(status, code) == [NoResponse EXCEPT !.status = status, !.code = code]

OK == [NoResponse EXCEPT !.status = 200]

NoOperation == [fd |-> 0, start |-> 0, got |-> 0, limit |-> 0, names |-> {}]

NoRequest ==
  [token |-> "", endpoint |-> "", method |-> "", body |-> "", operation |-> "",
   path |-> <<>>, absolute |-> TRUE, offset |-> 0, max |-> 0]

\* A configured maximum replaces one that is absent or larger.
Clamp(asked, configured) ==
  IF asked <= 0 \/ asked > configured THEN configured ELSE asked

\* Mutant: the path as the caller spelled it is compared with the roots.
WithinRootsUnresolved(path) ==
  \E root \in Roots :
    \/ path = root
    \/ root # <<>> /\ Len(path) > Len(root) /\ SubSeq(path, 1, Len(root)) = root

\* resolved == root or it starts with root and a separator.  For the root "/"
\* that prefix is "//", which nothing starts with.
WithinRoots(path) ==
  LET resolved == Links[path] IN
  \E root \in Roots :
    \/ resolved = root
    \/ /\ root # <<>>
       /\ Len(resolved) > Len(root)
       /\ SubSeq(resolved, 1, Len(root)) = root

Exists(path) ==
  /\ path \in DOMAIN Links
  /\ Links[path] = LogPath => link # 0

Check(fails, status, code) ==
  [fails |-> fails, response |-> Error(status, code)]

\* What a file operation looks at before it touches the file, in order.
PathChecks(r) ==
  <<Check(r.body = "bad target", 400, "invalid_target"),
    Check(r.body = "bad params" /\ r.operation # "filesystem.stat",
          400, "invalid_params"),
    Check(~r.absolute, 400, "invalid_target"),
    Check(~Exists(r.path), 404, "not_found"),
    Check(Exists(r.path) /\ ~WithinRoots(r.path), 403, "path_not_allowed"),
    Check(r.operation = "filesystem.read" /\ r.offset < 0,
          400, "invalid_params")>>

\* Names in the directory, as ReadDir sorts them; the log's comes first.
Listing == IF link = 0 THEN Siblings ELSE <<"log">> \o Siblings

Names(listing) == {listing[i] : i \in DOMAIN listing}

Init ==
  /\ pc = [h \in Handlers |-> "idle"]
  /\ req \in Workloads
  /\ op = [h \in Handlers |-> NoOperation]
  /\ resp = [h \in Handlers |-> NoResponse]
  /\ holder = NoHandler
  /\ audit = <<>>
  /\ link = 1
  /\ size = [i \in Inodes |-> 0]
  /\ changes = 0
  /\ restarts = 0
  /\ sizes = [h \in Handlers |-> {}]
  /\ present = [h \in Handlers |-> {}]

-----------------------------------------------------------------------------
(* A request arrives and is routed.                                        *)

Arrives(h) ==
  /\ pc[h] = "idle" /\ req[h] # NoRequest
  /\ UNCHANGED <<req, op, holder, audit, files, restarts, sizes>>

\* Response decided: it is written at once, or after its record.
Responds(h, response, next) ==
  /\ resp' = [resp EXCEPT ![h] = response]
  /\ pc' = [pc EXCEPT ![h] = next]

handleHealth(h) ==
  /\ Arrives(h) /\ req[h].endpoint = "healthz"
  /\ Responds(h, OK, "replying")
  /\ UNCHANGED present

Unauthorized(h) ==
  /\ Arrives(h) /\ req[h].endpoint # "healthz" /\ req[h].token \notin AuthTokens
  /\ Responds(h, Error(401, "unauthorized"), "replying")
  /\ UNCHANGED present

Authenticated(h) ==
  Arrives(h) /\ req[h].endpoint # "healthz" /\ req[h].token \in AuthTokens

Allowed(r) ==
  r.method = IF r.endpoint = "capabilities" THEN "GET" ELSE "POST"

MethodNotAllowed(h) ==
  /\ Authenticated(h) /\ ~Allowed(req[h])
  /\ Responds(h, Error(405, NoCode), "replying")
  /\ UNCHANGED present

handleCapabilities(h) ==
  /\ Authenticated(h) /\ Allowed(req[h]) /\ req[h].endpoint = "capabilities"
  /\ Responds(h, IF "capabilities.describe" \in EnabledOperations
                 THEN OK ELSE Error(403, "operation_disabled"), "auditing")
  /\ UNCHANGED present

handleOperations(h) ==
  Authenticated(h) /\ Allowed(req[h]) /\ req[h].endpoint = "operations"

BadBody(h) ==
  /\ handleOperations(h) /\ req[h].body \in {"too large", "not one value"}
  /\ Responds(h, IF req[h].body = "too large" THEN Error(413, "request_too_large")
                                         ELSE Error(400, "invalid_json"), "auditing")
  /\ UNCHANGED present

Decoded(h) ==
  handleOperations(h) /\ req[h].body \notin {"too large", "not one value"}

OperationRefused(h) ==
  /\ Decoded(h) /\ req[h].operation \notin EnabledOperations
  /\ Responds(h, IF req[h].operation \notin knownOperations
                 THEN Error(400, "unknown_operation")
                 ELSE Error(403, "operation_disabled"), "auditing")
  /\ UNCHANGED present

\* capabilities.describe, host.info and process.list; the last two may fail.
DescribeHost(h) ==
  /\ Decoded(h) /\ req[h].operation \in EnabledOperations \ FileOperations
  /\ \/ Responds(h, OK, "auditing")
     \/ /\ req[h].operation # "capabilities.describe"
        /\ Responds(h, Error(500, "failed"), "auditing")
     \/ /\ req[h].operation = "process.list"
        /\ Responds(h, [OK EXCEPT !.truncated = TRUE], "auditing")
  /\ UNCHANGED present

BeginFileOperation(h) ==
  /\ Decoded(h) /\ req[h].operation \in EnabledOperations \cap FileOperations
  /\ pc' = [pc EXCEPT ![h] = "resolving"]
  /\ present' = [present EXCEPT ![h] = Names(Listing)]
  /\ UNCHANGED resp

-----------------------------------------------------------------------------
(* File operations.                                                        *)

resolveAllowedPath(h) ==
  /\ pc[h] = "resolving"
  /\ LET checks == PathChecks(req[h])
         failing == {i \in DOMAIN checks : checks[i].fails}
     IN \/ /\ failing # {}
           /\ LET first == CHOOSE i \in failing : \A j \in failing : i <= j
              IN Responds(h, checks[first].response, "auditing")
        \/ /\ failing = {}
           /\ pc' = [pc EXCEPT ![h] = "opening"]
           /\ UNCHANGED resp
  /\ UNCHANGED <<req, op, holder, audit, files, restarts, ghosts>>

\* Resolving, opening, reading or stat-ing may fail at any point.
FileFails(h) ==
  /\ \/ /\ pc[h] = "resolving" /\ req[h].absolute /\ req[h].body = "good"
        /\ Responds(h, Error(400, "invalid_target"), "auditing")
     \/ /\ pc[h] \in {"opening", "sizing", "reading"}
        /\ Responds(h, Error(500, "failed"), "auditing")
     \/ /\ pc[h] = "opening" /\ req[h].operation # "filesystem.stat"
        /\ Responds(h, Error(403, "permission_denied"), "auditing")
  /\ UNCHANGED <<req, op, holder, audit, files, restarts, ghosts>>

filesystemStat(h) ==
  /\ pc[h] = "opening" /\ req[h].operation = "filesystem.stat"
  /\ Responds(h, IF Exists(req[h].path) THEN OK ELSE Error(404, "not_found"),
              "auditing")
  /\ UNCHANGED <<req, op, holder, audit, files, restarts, ghosts>>

\* ReadDir, cut at the maximum; the flag is set from the uncut length.
ReadDir(h) ==
  /\ pc[h] = "opening" /\ req[h].operation = "filesystem.list"
  /\ Links[req[h].path] = DirPath
  /\ LET max == Clamp(req[h].max, MaxListEntries)
     IN /\ op' = [op EXCEPT ![h].names =
                    {Listing[i] : i \in {j \in DOMAIN Listing : j <= max}}]
        /\ resp' = [resp EXCEPT ![h].truncated = Len(Listing) > max]
  /\ pc' = [pc EXCEPT ![h] = "listing"]
  /\ UNCHANGED <<req, holder, audit, files, restarts, ghosts>>

\* Entries whose Info fails are skipped.
ListEntries(h) ==
  /\ pc[h] = "listing"
  /\ Responds(h, [OK EXCEPT !.names = op[h].names \cap Names(Listing),
                            !.truncated = resp[h].truncated], "auditing")
  /\ UNCHANGED <<req, op, holder, audit, files, restarts, ghosts>>

\* os.Open; a read seeks to its offset, a tail has yet to learn the size.
Open(h) ==
  /\ pc[h] = "opening"
  /\ Links[req[h].path] = LogPath /\ link # 0
  /\ sizes' = [sizes EXCEPT ![h] = {size[link]}]
  /\ \/ /\ req[h].operation = "filesystem.read"
        /\ op' = [op EXCEPT ![h] =
                    [NoOperation EXCEPT
                       !.fd = link, !.start = req[h].offset,
                       !.limit = Clamp(req[h].max, MaxReadBytes) + 1]]
        /\ pc' = [pc EXCEPT ![h] = "reading"]
     \/ /\ req[h].operation = "filesystem.tail"
        /\ op' = [op EXCEPT ![h] =
                    [NoOperation EXCEPT
                       !.fd = link,
                       !.limit = Clamp(req[h].max, MaxTailBytes)]]
        /\ pc' = [pc EXCEPT ![h] = "sizing"]
  /\ UNCHANGED <<req, resp, holder, audit, files, restarts, present>>

\* Mutant: the configured maximum is taken off the size, the asked one read.
TailSeekConfigured(h) ==
  /\ pc[h] = "sizing"
  /\ LET offset == size[op[h].fd] - MaxTailBytes
     IN op' = [op EXCEPT ![h].start = IF offset < 0 THEN 0 ELSE offset]
  /\ pc' = [pc EXCEPT ![h] = "reading"]
  /\ UNCHANGED <<req, resp, holder, audit, files, restarts, ghosts>>

\* Stat, and the seek to where the last limit bytes begin.
TailSeek(h) ==
  /\ pc[h] = "sizing"
  /\ LET offset == size[op[h].fd] - op[h].limit
     IN op' = [op EXCEPT ![h].start = IF offset < 0 THEN 0 ELSE offset]
  /\ pc' = [pc EXCEPT ![h] = "reading"]
  /\ UNCHANGED <<req, resp, holder, audit, files, restarts, ghosts>>

\* Bytes there are to read beyond what was read.
Available(h) == size[op[h].fd] - op[h].start - op[h].got

\* ReadAll reads in pieces.
ReadChunk(h) ==
  /\ pc[h] = "reading"
  /\ \E n \in 1 .. Available(h) :
       /\ n <= op[h].limit - op[h].got
       /\ op' = [op EXCEPT ![h].got = @ + n]
  /\ UNCHANGED <<pc, req, resp, holder, audit, files, restarts, ghosts>>

ReadOver(h) ==
  /\ pc[h] = "reading"
  /\ Available(h) <= 0 \/ op[h].got = op[h].limit

\* Mutant: the limit is what may be returned, so it is never passed.
ReadReturnsAtLimit(h) ==
  /\ ReadOver(h) /\ req[h].operation = "filesystem.read"
  /\ Responds(h, [OK EXCEPT !.start = op[h].start,
                            !.bytes = IF op[h].got = op[h].limit
                                      THEN op[h].got - 1 ELSE op[h].got],
              "auditing")
  /\ UNCHANGED <<req, op, holder, audit, files, restarts, ghosts>>

\* One byte more than the maximum was asked for, and is dropped if it came.
ReadReturns(h) ==
  /\ ReadOver(h) /\ req[h].operation = "filesystem.read"
  /\ LET truncated == op[h].got = op[h].limit
     IN Responds(h, [OK EXCEPT !.start = op[h].start,
                               !.bytes = op[h].got - IF truncated THEN 1 ELSE 0,
                               !.truncated = truncated], "auditing")
  /\ UNCHANGED <<req, op, holder, audit, files, restarts, ghosts>>

TailReturns(h) ==
  /\ ReadOver(h) /\ req[h].operation = "filesystem.tail"
  /\ Responds(h, [OK EXCEPT !.start = op[h].start, !.bytes = op[h].got,
                            !.truncated = op[h].start > 0], "auditing")
  /\ UNCHANGED <<req, op, holder, audit, files, restarts, ghosts>>

-----------------------------------------------------------------------------
(* The audit record, and the reply.                                        *)

Chunk(h, part) == [by |-> h, part |-> part]

\* Mutant: the file is written without taking the lock.
LockIgnored(h) ==
  /\ pc[h] = "auditing"
  /\ holder' = h
  /\ pc' = [pc EXCEPT ![h] = "writing"]
  /\ UNCHANGED <<req, op, resp, audit, files, restarts, ghosts>>

Lock(h) ==
  /\ pc[h] = "auditing" /\ holder = NoHandler
  /\ holder' = h
  /\ pc' = [pc EXCEPT ![h] = "writing"]
  /\ UNCHANGED <<req, op, resp, audit, files, restarts, ghosts>>

\* The write of the line, up to where it may stop short.
WriteLine(h) ==
  /\ pc[h] = "writing"
  /\ audit' = Append(audit, Chunk(h, "line"))
  /\ pc' = [pc EXCEPT ![h] = "written"]
  /\ UNCHANGED <<req, op, resp, holder, files, restarts, ghosts>>

WriteNewline(h) ==
  /\ pc[h] = "written"
  /\ audit' = Append(audit, Chunk(h, "newline"))
  /\ holder' = NoHandler
  /\ pc' = [pc EXCEPT ![h] = "replying"]
  /\ UNCHANGED <<req, op, resp, files, restarts, ghosts>>

\* Mutant: the lock is released on the way out that succeeds only.
RecordFailsLocked(h) ==
  /\ pc[h] \in {"writing", "written"}
  /\ Responds(h, Error(503, "audit_unavailable"), "replying")
  /\ UNCHANGED <<req, op, holder, audit, files, restarts, ghosts>>

\* Mutant: a failed record is logged and the result returned.
RecordFailsQuietly(h) ==
  /\ pc[h] \in {"writing", "written"}
  /\ holder' = NoHandler
  /\ pc' = [pc EXCEPT ![h] = "replying"]
  /\ UNCHANGED <<req, op, resp, audit, files, restarts, ghosts>>

\* Record fails: nothing was written, or part of the line was.
RecordFails(h) ==
  /\ pc[h] \in {"writing", "written"}
  /\ holder' = NoHandler
  /\ Responds(h, Error(503, "audit_unavailable"), "replying")
  /\ UNCHANGED <<req, op, audit, files, restarts, ghosts>>

Reply(h) ==
  /\ pc[h] = "replying"
  /\ pc' = [pc EXCEPT ![h] = "answered"]
  /\ UNCHANGED <<req, op, resp, holder, audit, files, restarts, ghosts>>

\* The process ends; what was in flight is lost, the audit file is reopened
\* for appending.
Restart ==
  /\ restarts < MaxRestarts
  /\ restarts' = restarts + 1
  /\ pc' = [h \in Handlers |->
              IF pc[h] \in {"idle", "answered"} THEN pc[h] ELSE "lost"]
  /\ holder' = NoHandler
  /\ UNCHANGED <<req, op, resp, audit, files, ghosts>>

-----------------------------------------------------------------------------
(* The host: the log is appended to, emptied in place, removed, recreated  *)
(* or rotated while handlers are at work.                                  *)

\* Handlers that may yet look at files; changes no one sees are left out.
Looking ==
  {h \in Handlers :
     /\ req[h].operation \in FileOperations
     /\ pc[h] \in {"idle", "resolving", "opening", "listing", "sizing", "reading"}}

Changes ==
  /\ Looking # {}
  /\ changes < MaxChanges
  /\ changes' = changes + 1

Opened(h) == pc[h] \in {"sizing", "reading"}

Resized ==
  sizes' = [h \in Handlers |->
              IF Opened(h) THEN sizes[h] \cup {size'[op[h].fd]} ELSE sizes[h]]

Grow ==
  /\ Changes
  /\ link # 0
  /\ \E n \in size[link] + 1 .. MaxSize : size' = [size EXCEPT ![link] = n]
  /\ Resized
  /\ UNCHANGED <<pc, req, op, resp, holder, audit, link, restarts, present>>

CopyTruncate ==
  /\ Changes
  /\ link # 0 /\ size[link] > 0
  /\ size' = [size EXCEPT ![link] = 0]
  /\ Resized
  /\ UNCHANGED <<pc, req, op, resp, holder, audit, link, restarts, present>>

Remove ==
  /\ Changes
  /\ link # 0
  /\ link' = 0
  /\ present' = [h \in Handlers |-> present[h] \ {"log"}]
  /\ UNCHANGED <<pc, req, op, resp, holder, audit, size, restarts, sizes>>

\* The log's name refers to the next, empty inode: created anew, or rotated.
Create ==
  /\ Changes
  /\ \E i \in Inodes :
       /\ i > link /\ size[i] = 0
       /\ \A h \in Handlers : Opened(h) => op[h].fd < i
       /\ link' = i
  /\ UNCHANGED <<pc, req, op, resp, holder, audit, size, restarts, ghosts>>

-----------------------------------------------------------------------------

Serve(h) ==
  \/ resolveAllowedPath(h) \/ FileFails(h) \/ filesystemStat(h) \/ ReadDir(h)
  \/ ListEntries(h) \/ Open(h) \/ TailSeek(h) \/ ReadChunk(h) \/ ReadReturns(h)
  \/ TailReturns(h) \/ Lock(h) \/ WriteLine(h) \/ WriteNewline(h)
  \/ RecordFails(h) \/ Reply(h)

Arrive(h) ==
  \/ handleHealth(h) \/ Unauthorized(h) \/ MethodNotAllowed(h)
  \/ handleCapabilities(h) \/ BadBody(h) \/ OperationRefused(h)
  \/ DescribeHost(h) \/ BeginFileOperation(h)

Host == Grow \/ CopyTruncate \/ Remove \/ Create

\* No request is in flight.
Idle ==
  /\ \A h \in Handlers : pc[h] \in {"idle", "answered", "lost"}
  /\ UNCHANGED vars

Next ==
  \/ \E h \in Handlers : Arrive(h) \/ Serve(h)
  \/ Restart \/ Host \/ Idle

Spec == Init /\ [][Next]_vars

\* Goroutines are scheduled, and files on a local disk answer.
FairSpec == Spec /\ \A h \in Handlers : WF_vars(Serve(h))

=============================================================================
