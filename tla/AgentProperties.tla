-------------------------- MODULE AgentProperties --------------------------
(* What a caller of sroiaaa-agent is promised, stated over Agent.           *)
EXTENDS Agent

States ==
  {"idle", "resolving", "opening", "listing", "sizing", "reading", "auditing",
   "writing", "written", "replying", "answered", "lost"}

(* The handlers' variables stay in their ranges; a file is open on an inode *)
(* there is, and exactly the handler inside Record holds the lock.          *)
TypeOK ==
  /\ pc \in [Handlers -> States]
  /\ req \in Workloads
  /\ holder \in Handlers \cup {NoHandler}
  /\ audit \in Seq([by : Handlers, part : {"line", "newline"}])
  /\ link \in 0 .. MaxInodes
  /\ size \in [Inodes -> 0 .. MaxSize]
  /\ changes \in 0 .. MaxChanges
  /\ restarts \in 0 .. MaxRestarts
  /\ \A h \in Handlers :
       /\ Opened(h) => op[h].fd \in Inodes /\ op[h].got \in 0 .. op[h].limit
       /\ pc[h] \in {"writing", "written"} <=> holder = h

-----------------------------------------------------------------------------
(* The audit file.                                                          *)

\* Handlers whose record is in the file from its first byte to its newline.
Recorded ==
  {h \in Handlers : \E i \in 1 .. Len(audit) - 1 :
     audit[i] = Chunk(h, "line") /\ audit[i + 1] = Chunk(h, "newline")}

\* Authenticated callers that were handed the outcome of their request.
Returned ==
  {h \in Handlers : /\ pc[h] = "answered"
                    /\ req[h].endpoint # "healthz"
                    /\ resp[h].status \notin {401, 405, 503}}

(* Whatever handlers run at once, wherever a write stops short and whenever *)
(* the agent is restarted, a caller is handed a result only when the whole  *)
(* record of it is in the file, and no other handler's record broke into it *)
(* (handler.go:256-264, audit.go:51-67).                                    *)
Contract ==
  INSTANCE AuditContract
    WITH Callers <- Handlers, recorded <- Recorded, returned <- Returned

AuditBeforeReturn == Contract!Spec

\* Records that are a line of the file on their own.
Readable ==
  {h \in Handlers : \E i \in 1 .. Len(audit) - 1 :
     /\ audit[i] = Chunk(h, "line") /\ audit[i + 1] = Chunk(h, "newline")
     /\ i > 1 => audit[i - 1].part = "newline"}

(* A line that was cut short costs no more than the record after it: one    *)
(* that was returned and cannot be read back follows directly on the        *)
(* fragment of a request whose result was withheld or never sent            *)
(* (audit.go:63-69).                                                        *)
TornLineSpoilsOneRecord ==
  \A h \in Returned \ Readable :
    \E i \in 2 .. Len(audit) :
      /\ audit[i] = Chunk(h, "line")
      /\ audit[i - 1].part = "line"
      /\ LET torn == audit[i - 1].by
         IN pc[torn] = "lost" \/ resp[torn].status = 503

-----------------------------------------------------------------------------
(* Results.                                                                 *)

Evidence(h, operation) ==
  pc[h] = "answered" /\ resp[h].status = 200 /\ req[h].operation = operation

(* A listing or a read that is not marked truncated leaves nothing out: an  *)
(* entry that was there throughout the request is listed, and the bytes     *)
(* returned run from the offset to what was the end of the file at some     *)
(* moment of the request, however it grew or was emptied meanwhile          *)
(* (service.go:197-198, 295-304).                                           *)
UnmarkedResultIsWhole ==
  \A h \in Handlers :
    /\ Evidence(h, "filesystem.list") /\ ~resp[h].truncated =>
         present[h] \subseteq resp[h].names
    /\ Evidence(h, "filesystem.read") /\ ~resp[h].truncated =>
         \E end \in sizes[h] :
           \/ resp[h].start + resp[h].bytes = end
           \/ resp[h].bytes = 0 /\ end <= resp[h].start
           \/ end < resp[h].start + resp[h].bytes /\ 0 \in sizes[h]

(* A tail marked truncated is the last bytes there were, as many as the     *)
(* limit, at some moment of the request, unless the file was emptied while  *)
(* it was read (service.go:336-346).                                        *)
MarkedTailIsTheEnd ==
  \A h \in Handlers :
    Evidence(h, "filesystem.tail") /\ resp[h].truncated /\ 0 \notin sizes[h] =>
      /\ resp[h].start + resp[h].bytes \in sizes[h]
      /\ resp[h].bytes = Clamp(req[h].max, MaxTailBytes)

(* What a file operation found is handed only to a caller with a configured *)
(* token, of an operation that is enabled, about a path that lies below an  *)
(* allowed root once its links are followed (handler.go:41-59, service.go:  *)
(* 88-91, paths.go:17-32).                                                  *)
EvidenceIsPermitted ==
  \A h \in Handlers : \A operation \in FileOperations :
    Evidence(h, operation) =>
      /\ req[h].token \in AuthTokens
      /\ operation \in EnabledOperations
      /\ \E root \in Roots : SubSeq(Links[req[h].path], 1, Len(root)) = root

-----------------------------------------------------------------------------
(* Liveness.                                                                *)

(* Every request is answered, or lost with the process: no way out of       *)
(* Record leaves the lock taken (audit.go:51-52).                           *)
RequestsAreAnswered ==
  \A h \in Handlers : pc[h] # "idle" ~> pc[h] \in {"answered", "lost"}

-----------------------------------------------------------------------------
(* What the repository says and the code does not do.                       *)

(* README.md:39: "private structured JSON-line audit log"; README.md:248:   *)
(* "If an authenticated result cannot be audited, the agent withholds it".  *)
(* A result that is handed over has a record that is a line of the log.     *)
ReturnedRecordIsALine == Returned \subseteq Readable

(* catalog.go:19: "Return the trailing bytes from an allowlisted file."     *)
TailIsTheEnd ==
  \A h \in Handlers :
    Evidence(h, "filesystem.tail") /\ 0 \notin sizes[h] =>
      resp[h].start + resp[h].bytes \in sizes[h]

=============================================================================
