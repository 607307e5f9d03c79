---------------------------- MODULE AgentProofs ----------------------------
(***************************************************************************)
(* The agent, for any number of handlers, any requests, limits and roots:  *)
(* the audit contract, what a result is worth, who may have it, and what a *)
(* torn line in the audit file costs.                                      *)
(*                                                                         *)
(* AuditInv says who is inside Record (LockInv), that the last chunk of    *)
(* the file is the line of whoever is between line and newline (LastInv),  *)
(* and what being about to reply means (ReplyInv).  ServiceInv follows     *)
(* each file operation from the checks of its path (AccessInv) through     *)
(* what its open file was seen to be (FileInv, ReadInv, EmptiedInv) or its *)
(* directory held (ListingInv) to the response it decides (ResultInv).     *)
(* FragmentInv says what may follow a line in the audit file.              *)
(***************************************************************************)
EXTENDS AgentProperties, TLAPS

Chunks == [by : Handlers, part : {"line", "newline"}]

ShapeInv ==
  /\ pc \in [Handlers -> States]
  /\ resp = [h \in Handlers |-> resp[h]]
  /\ audit \in Seq(Chunks)
  /\ holder \in Handlers \cup {NoHandler}

LockInv == \A h \in Handlers : pc[h] \in {"writing", "written"} <=> holder = h

LastInv ==
  \A h \in Handlers : pc[h] = "written" =>
    Len(audit) > 0 /\ audit[Len(audit)] = Chunk(h, "line")

\* The response is one that is held back until it is recorded.
Audited(h) ==
  req[h].endpoint # "healthz" /\ resp[h].status \notin {401, 405, 503}

ReplyInv ==
  \A h \in Handlers :
    /\ h \in Recorded => pc[h] \in {"replying", "answered", "lost"}
    /\ pc[h] \in {"replying", "answered"} /\ Audited(h) => h \in Recorded

AuditInv == ShapeInv /\ LockInv /\ LastInv /\ ReplyInv

-----------------------------------------------------------------------------
(* What appending a chunk does to the records in the file.                  *)

LEMMA LineRecordsNothing ==
  ASSUME audit \in Seq(Chunks), NEW h \in Handlers,
         audit' = Append(audit, Chunk(h, "line"))
  PROVE  /\ Recorded' = Recorded
         /\ audit' \in Seq(Chunks)
         /\ Len(audit') > 0 /\ audit'[Len(audit')] = Chunk(h, "line")
<1>1. /\ Len(audit') = Len(audit) + 1 /\ Len(audit) \in Nat
      /\ audit'[Len(audit) + 1] = Chunk(h, "line")
      /\ \A i \in 1 .. Len(audit) : audit'[i] = audit[i]
      /\ audit' \in Seq(Chunks)
  BY DEF Chunks, Chunk
<1>2. ASSUME NEW g \in Handlers PROVE g \in Recorded' <=> g \in Recorded
  <2>1. \A i \in 1 .. Len(audit) - 1 :
          audit'[i] = audit[i] /\ audit'[i + 1] = audit[i + 1]
    BY <1>1
  <2>2. audit'[Len(audit) + 1] # Chunk(g, "newline")
    BY <1>1 DEF Chunk
  <2>3. QED
    BY <1>1, <2>1, <2>2 DEF Recorded, Chunk
<1>3. QED
  BY <1>1, <1>2 DEF Recorded

LEMMA NewlineRecords ==
  ASSUME audit \in Seq(Chunks), NEW h \in Handlers,
         Len(audit) > 0, audit[Len(audit)] = Chunk(h, "line"),
         audit' = Append(audit, Chunk(h, "newline"))
  PROVE  /\ Recorded' = Recorded \cup {h}
         /\ audit' \in Seq(Chunks)
<1>1. /\ Len(audit') = Len(audit) + 1 /\ Len(audit) \in Nat
      /\ audit'[Len(audit) + 1] = Chunk(h, "newline")
      /\ \A i \in 1 .. Len(audit) : audit'[i] = audit[i]
      /\ audit' \in Seq(Chunks)
  BY DEF Chunks, Chunk
<1>2. audit'[Len(audit)] = Chunk(h, "line")
  BY <1>1
<1>3. h \in Recorded'
  BY <1>1, <1>2 DEF Recorded, Chunk
<1>4. ASSUME NEW g \in Handlers, g # h PROVE g \in Recorded' <=> g \in Recorded
  <2>1. \A i \in 1 .. Len(audit) - 1 :
          audit'[i] = audit[i] /\ audit'[i + 1] = audit[i + 1]
    BY <1>1
  <2>2. audit'[Len(audit)] # Chunk(g, "line")
    BY <1>2, <1>4 DEF Chunk
  <2>3. QED
    BY <1>1, <2>1, <2>2 DEF Recorded, Chunk
<1>5. QED
  BY <1>1, <1>3, <1>4 DEF Recorded

-----------------------------------------------------------------------------
(* Steps before the record.                                                 *)

Early ==
  {"idle", "resolving", "opening", "listing", "sizing", "reading", "auditing"}

\* Handler h alone moves, from a state where its response is not decided or
\* not recorded yet, to one of those in To.
Moves(h, To) ==
  /\ pc[h] \in Early
  /\ \E s \in To : pc' = [pc EXCEPT ![h] = s]
  /\ \E v : resp' = [resp EXCEPT ![h] = v]
  /\ UNCHANGED <<req, holder, audit>>

LEMMA EarlySteps ==
  ASSUME ShapeInv, NEW h \in Handlers,
         \/ resolveAllowedPath(h) \/ FileFails(h) \/ filesystemStat(h)
         \/ ReadDir(h) \/ ListEntries(h) \/ Open(h) \/ TailSeek(h)
         \/ ReadChunk(h) \/ ReadReturns(h) \/ TailReturns(h)
  PROVE  Moves(h, Early)
<1> USE DEF Moves, Early, Responds
<1>1. resp = [resp EXCEPT ![h] = resp[h]]
  BY DEF ShapeInv
<1>2. pc = [pc EXCEPT ![h] = pc[h]]
  BY DEF ShapeInv
<1>3. CASE resolveAllowedPath(h)
  BY <1>1, <1>3 DEF resolveAllowedPath
<1>4. CASE FileFails(h)
  BY <1>4 DEF FileFails
<1>5. CASE filesystemStat(h)
  BY <1>5 DEF filesystemStat
<1>6. CASE ReadDir(h)
  BY <1>6 DEF ReadDir
<1>7. CASE ListEntries(h)
  BY <1>7 DEF ListEntries
<1>8. CASE Open(h)
  BY <1>1, <1>8 DEF Open
<1>9. CASE TailSeek(h)
  BY <1>1, <1>9 DEF TailSeek
<1>10. CASE ReadChunk(h)
  BY <1>1, <1>2, <1>10 DEF ReadChunk
<1>11. CASE ReadReturns(h)
  BY <1>11 DEF ReadReturns, ReadOver
<1>12. CASE TailReturns(h)
  BY <1>12 DEF TailReturns, ReadOver
<1>13. QED
  BY <1>3, <1>4, <1>5, <1>6, <1>7, <1>8, <1>9, <1>10, <1>11, <1>12

LEMMA ArrivalSteps ==
  ASSUME ShapeInv, NEW h \in Handlers,
         \/ handleCapabilities(h) \/ BadBody(h) \/ OperationRefused(h)
         \/ DescribeHost(h) \/ BeginFileOperation(h)
  PROVE  Moves(h, Early)
<1> USE DEF Moves, Early, Responds, Arrives, Authenticated, handleOperations,
            Decoded
<1>1. resp = [resp EXCEPT ![h] = resp[h]]
  BY DEF ShapeInv
<1>2. CASE handleCapabilities(h)
  BY <1>2 DEF handleCapabilities
<1>3. CASE BadBody(h)
  BY <1>3 DEF BadBody
<1>4. CASE OperationRefused(h)
  BY <1>4 DEF OperationRefused
<1>5. CASE DescribeHost(h)
  BY <1>5 DEF DescribeHost
<1>6. CASE BeginFileOperation(h)
  BY <1>1, <1>6 DEF BeginFileOperation
<1>7. QED
  BY <1>2, <1>3, <1>4, <1>5, <1>6

\* Replies that are not audited are those of no consequence.
LEMMA DismissalSteps ==
  ASSUME ShapeInv, NEW h \in Handlers,
         handleHealth(h) \/ Unauthorized(h) \/ MethodNotAllowed(h)
  PROVE  Moves(h, {"replying"}) /\ ~Audited(h)'
<1> USE DEF Moves, Early, Responds, Arrives, Authenticated, Audited, ShapeInv
<1>1. CASE handleHealth(h)
  BY <1>1 DEF handleHealth
<1>2. CASE Unauthorized(h)
  BY <1>2 DEF Unauthorized, Error, NoResponse
<1>3. CASE MethodNotAllowed(h)
  <2>1. resp' = [resp EXCEPT ![h] = Error(405, NoCode)]
    BY <1>3 DEF MethodNotAllowed
  <2>2. resp'[h].status = 405
    BY <2>1 DEF Error, NoResponse
  <2>3. Moves(h, {"replying"})
    BY <1>3, <2>1 DEF MethodNotAllowed
  <2>4. QED
    BY <2>2, <2>3
<1>4. QED
  BY <1>1, <1>2, <1>3

-----------------------------------------------------------------------------
(* Every step keeps the invariant and is a step of the contract.            *)

Stutter == Recorded' = Recorded /\ Returned' = Returned

LEMMA MovesKeeps ==
  ASSUME AuditInv, NEW h \in Handlers, NEW To,
         Moves(h, To),
         To = Early \/ (To = {"replying"} /\ ~Audited(h)')
  PROVE  AuditInv' /\ Stutter
<1> USE DEF AuditInv
<1>1. /\ pc' \in [Handlers -> States] /\ pc'[h] \in To
      /\ resp' = [g \in Handlers |-> resp'[g]]
      /\ \A g \in Handlers \ {h} : pc'[g] = pc[g] /\ resp'[g] = resp[g]
  BY DEF Moves, ShapeInv, States, Early
<1>2. UNCHANGED <<req, holder, audit>> /\ pc[h] \in Early
  BY DEF Moves
<1>3. Recorded' = Recorded
  BY <1>2 DEF Recorded
<1>4. pc'[h] \in Early \cup {"replying"} /\ holder # h /\ h \notin Recorded
  BY <1>1, <1>2 DEF LockInv, ReplyInv, Early
<1>5. Returned' = Returned
  BY <1>1, <1>2, <1>4 DEF Returned, Early
<1>6. ShapeInv'
  BY <1>1, <1>2 DEF ShapeInv
<1>7. LockInv'
  BY <1>1, <1>2, <1>4 DEF LockInv, Early
<1>8. LastInv'
  BY <1>1, <1>2, <1>4 DEF LastInv, Early
<1>9. ReplyInv'
  <2>1. ASSUME NEW g \in Handlers \ {h}
        PROVE  /\ g \in Recorded' => pc'[g] \in {"replying", "answered", "lost"}
               /\ pc'[g] \in {"replying", "answered"} /\ Audited(g)'
                    => g \in Recorded'
    BY <1>1, <1>2, <1>3 DEF ReplyInv, Audited
  <2>2. pc'[h] \in {"replying", "answered"} => ~Audited(h)'
    BY <1>1 DEF Early
  <2>3. QED
    BY <1>3, <1>4, <2>1, <2>2 DEF ReplyInv
<1>10. QED
  BY <1>3, <1>5, <1>6, <1>7, <1>8, <1>9 DEF Stutter

\* A handler that takes the lock.
LEMMA LockKeeps ==
  ASSUME AuditInv, NEW h \in Handlers, Lock(h)
  PROVE  AuditInv' /\ Stutter
<1> USE DEF AuditInv, Lock
<1>1. /\ pc' \in [Handlers -> States] /\ pc'[h] = "writing"
      /\ \A g \in Handlers \ {h} : pc'[g] = pc[g]
  BY DEF ShapeInv, States
<1>2. UNCHANGED <<req, resp, audit>>
  OBVIOUS
<1>3. Recorded' = Recorded
  BY <1>2 DEF Recorded
<1>4. Returned' = Returned
  BY <1>1, <1>2 DEF Returned
<1>5. ShapeInv'
  BY <1>1, <1>2 DEF ShapeInv
<1>6. LockInv'
  BY <1>1, HandlersAssumption DEF LockInv
<1>7. LastInv'
  BY <1>1, <1>2 DEF LastInv
<1>8. ReplyInv'
  BY <1>1, <1>2, <1>3 DEF ReplyInv, Audited
<1>9. QED
  BY <1>3, <1>4, <1>5, <1>6, <1>7, <1>8 DEF Stutter

LEMMA WriteLineKeeps ==
  ASSUME AuditInv, NEW h \in Handlers, WriteLine(h)
  PROVE  AuditInv' /\ Stutter
<1> USE DEF AuditInv, WriteLine
<1>1. /\ pc' \in [Handlers -> States] /\ pc'[h] = "written"
      /\ \A g \in Handlers \ {h} : pc'[g] = pc[g]
  BY DEF ShapeInv, States
<1>2. UNCHANGED <<req, resp, holder>>
  OBVIOUS
<1>3. /\ Recorded' = Recorded /\ audit' \in Seq(Chunks)
      /\ Len(audit') > 0 /\ audit'[Len(audit')] = Chunk(h, "line")
  BY LineRecordsNothing DEF ShapeInv
<1>4. Returned' = Returned
  BY <1>1, <1>2 DEF Returned
<1>5. ShapeInv'
  BY <1>1, <1>2, <1>3 DEF ShapeInv
<1>6. LockInv'
  BY <1>1, <1>2 DEF LockInv
<1>7. \A g \in Handlers \ {h} : pc'[g] # "written"
  BY <1>1 DEF LockInv
<1>8. LastInv'
  BY <1>3, <1>7 DEF LastInv
<1>9. ReplyInv'
  BY <1>1, <1>2, <1>3 DEF ReplyInv, Audited
<1>10. QED
  BY <1>3, <1>4, <1>5, <1>6, <1>8, <1>9 DEF Stutter

LEMMA WriteNewlineKeeps ==
  ASSUME AuditInv, NEW h \in Handlers, WriteNewline(h)
  PROVE  AuditInv' /\ Contract!Record(h)
<1> USE DEF AuditInv, WriteNewline
<1>1. /\ pc' \in [Handlers -> States] /\ pc'[h] = "replying"
      /\ \A g \in Handlers \ {h} : pc'[g] = pc[g]
  BY DEF ShapeInv, States
<1>2. UNCHANGED <<req, resp>>
  OBVIOUS
<1>3. Recorded' = Recorded \cup {h} /\ audit' \in Seq(Chunks)
  BY NewlineRecords DEF ShapeInv, LastInv
<1>4. Returned' = Returned
  BY <1>1, <1>2 DEF Returned
<1>5. h \notin Recorded
  BY DEF ReplyInv
<1>6. ShapeInv'
  BY <1>1, <1>2, <1>3 DEF ShapeInv
<1>7. holder = h
  BY DEF LockInv
<1>8. LockInv'
  BY <1>1, <1>7, HandlersAssumption DEF LockInv
<1>9. \A g \in Handlers : pc'[g] # "written"
  BY <1>1, <1>7 DEF LockInv
<1>10. LastInv'
  BY <1>9 DEF LastInv
<1>11. ReplyInv'
  BY <1>1, <1>2, <1>3 DEF ReplyInv, Audited
<1>12. QED
  BY <1>3, <1>4, <1>5, <1>6, <1>8, <1>10, <1>11 DEF Contract!Record

LEMMA RecordFailsKeeps ==
  ASSUME AuditInv, NEW h \in Handlers, RecordFails(h)
  PROVE  AuditInv' /\ Stutter
<1> USE DEF AuditInv, RecordFails, Responds
<1>1. /\ pc' \in [Handlers -> States] /\ pc'[h] = "replying"
      /\ resp' = [g \in Handlers |-> resp'[g]] /\ resp'[h].status = 503
      /\ \A g \in Handlers \ {h} : pc'[g] = pc[g] /\ resp'[g] = resp[g]
  BY DEF ShapeInv, States, Error, NoResponse
<1>2. UNCHANGED <<req, audit>>
  OBVIOUS
<1>3. Recorded' = Recorded
  BY <1>2 DEF Recorded
<1>4. Returned' = Returned
  BY <1>1, <1>2 DEF Returned
<1>5. ShapeInv'
  BY <1>1, <1>2 DEF ShapeInv
<1>6. holder = h /\ h \notin Recorded
  BY DEF LockInv, ReplyInv
<1>7. LockInv'
  BY <1>1, <1>6, HandlersAssumption DEF LockInv
<1>8. LastInv'
  BY <1>1, <1>2 DEF LastInv
<1>9. ReplyInv'
  BY <1>1, <1>2, <1>3, <1>6 DEF ReplyInv, Audited
<1>10. QED
  BY <1>3, <1>4, <1>5, <1>7, <1>8, <1>9 DEF Stutter

LEMMA ReplyKeeps ==
  ASSUME AuditInv, NEW h \in Handlers, Reply(h)
  PROVE  AuditInv' /\ (Stutter \/ Contract!Return(h))
<1> USE DEF AuditInv, Reply
<1>1. /\ pc' \in [Handlers -> States] /\ pc'[h] = "answered"
      /\ \A g \in Handlers \ {h} : pc'[g] = pc[g]
  BY DEF ShapeInv, States
<1>2. UNCHANGED <<req, resp, audit, holder>>
  OBVIOUS
<1>3. Recorded' = Recorded
  BY <1>2 DEF Recorded
<1>4. ShapeInv' /\ LockInv' /\ LastInv'
  BY <1>1, <1>2 DEF ShapeInv, LockInv, LastInv
<1>5. ReplyInv'
  BY <1>1, <1>2, <1>3 DEF ReplyInv, Audited
<1>6. h \notin Returned
  BY DEF Returned
<1>7. CASE Audited(h)
  <2>1. Returned' = Returned \cup {h}
    BY <1>1, <1>2, <1>7 DEF Returned, Audited
  <2>2. h \in Recorded
    BY <1>7 DEF ReplyInv
  <2>3. QED
    BY <1>3, <1>4, <1>5, <1>6, <2>1, <2>2 DEF Contract!Return
<1>8. CASE ~Audited(h)
  <2>1. Returned' = Returned
    BY <1>1, <1>2, <1>8 DEF Returned, Audited
  <2>2. QED
    BY <1>3, <1>4, <1>5, <2>1 DEF Stutter
<1>9. QED
  BY <1>7, <1>8

LEMMA RestartKeeps ==
  ASSUME AuditInv, Restart
  PROVE  AuditInv' /\ Stutter
<1> USE DEF AuditInv, Restart
<1>1. /\ pc' \in [Handlers -> States]
      /\ \A h \in Handlers : \/ pc'[h] = pc[h] /\ pc[h] \in {"idle", "answered"}
                             \/ pc'[h] = "lost"
                                /\ pc[h] \notin {"idle", "answered"}
  BY DEF ShapeInv, States
<1>2. UNCHANGED <<req, resp, audit>> /\ holder' = NoHandler
  OBVIOUS
<1>3. Recorded' = Recorded
  BY <1>2 DEF Recorded
<1>4. Returned' = Returned
  BY <1>1, <1>2 DEF Returned
<1>5. ShapeInv'
  BY <1>1, <1>2 DEF ShapeInv
<1>6. LockInv' /\ LastInv'
  BY <1>1, <1>2, HandlersAssumption DEF LockInv, LastInv
<1>7. ReplyInv'
  BY <1>1, <1>2, <1>3 DEF ReplyInv, Audited
<1>8. QED
  BY <1>3, <1>4, <1>5, <1>6, <1>7 DEF Stutter

LEMMA HostKeeps ==
  ASSUME AuditInv, Host \/ UNCHANGED vars
  PROVE  AuditInv' /\ Stutter
<1>1. UNCHANGED <<pc, req, resp, audit, holder>>
  BY DEF Host, Grow, CopyTruncate, Remove, Create, vars
<1>2. QED
  BY <1>1 DEF AuditInv, ShapeInv, LockInv, LastInv, ReplyInv, Audited, Stutter,
              Recorded, Returned

LEMMA StepKeeps ==
  ASSUME AuditInv, [Next]_vars
  PROVE  AuditInv' /\ [Contract!Next]_(Contract!vars)
<1> USE DEF Contract!Next, Contract!vars, Stutter
<1>1. ASSUME NEW h \in Handlers, Arrive(h)
      PROVE  AuditInv' /\ Stutter
  <2>1. CASE handleHealth(h) \/ Unauthorized(h) \/ MethodNotAllowed(h)
    BY <2>1, DismissalSteps, MovesKeeps DEF AuditInv
  <2>2. CASE \/ handleCapabilities(h) \/ BadBody(h) \/ OperationRefused(h)
             \/ DescribeHost(h) \/ BeginFileOperation(h)
    BY <2>2, ArrivalSteps, MovesKeeps DEF AuditInv
  <2>3. QED
    BY <1>1, <2>1, <2>2 DEF Arrive
<1>2. ASSUME NEW h \in Handlers, Serve(h)
      PROVE  AuditInv' /\ (Stutter \/ Contract!Record(h) \/ Contract!Return(h))
  <2>1. CASE Lock(h)
    BY <2>1, LockKeeps
  <2>2. CASE WriteLine(h)
    BY <2>2, WriteLineKeeps
  <2>3. CASE WriteNewline(h)
    BY <2>3, WriteNewlineKeeps
  <2>4. CASE RecordFails(h)
    BY <2>4, RecordFailsKeeps
  <2>5. CASE Reply(h)
    BY <2>5, ReplyKeeps
  <2>6. CASE \/ resolveAllowedPath(h) \/ FileFails(h) \/ filesystemStat(h)
             \/ ReadDir(h) \/ ListEntries(h) \/ Open(h) \/ TailSeek(h)
             \/ ReadChunk(h) \/ ReadReturns(h) \/ TailReturns(h)
    BY <2>6, EarlySteps, MovesKeeps DEF AuditInv
  <2>7. QED
    BY <1>2, <2>1, <2>2, <2>3, <2>4, <2>5, <2>6 DEF Serve
<1>3. CASE Restart
  BY <1>3, RestartKeeps
<1>4. CASE Host \/ Idle \/ UNCHANGED vars
  BY <1>4, HostKeeps DEF Idle
<1>5. QED
  BY <1>1, <1>2, <1>3, <1>4 DEF Next

LEMMA AuditStarts ==
  ASSUME Init
  PROVE  AuditInv /\ Contract!Init
<1>1. Recorded = {} /\ Returned = {}
  BY DEF Init, Recorded, Returned
<1>2. ShapeInv
  <2>1. pc \in [Handlers -> States] /\ holder \in Handlers \cup {NoHandler}
    BY DEF Init, States
  <2>2. resp = [h \in Handlers |-> resp[h]]
    BY DEF Init
  <2>3. audit \in Seq(Chunks)
    BY DEF Init
  <2>4. QED
    BY <2>1, <2>2, <2>3 DEF ShapeInv
<1>3. LockInv /\ LastInv
  BY HandlersAssumption DEF Init, LockInv, LastInv
<1>4. ReplyInv
  BY <1>1 DEF Init, ReplyInv
<1>5. QED
  BY <1>1, <1>2, <1>3, <1>4 DEF AuditInv, Contract!Init

LEMMA Audits == Spec => []AuditInv
BY AuditStarts, StepKeeps, PTL DEF Spec

(* For any number of handlers, any requests, short writes and restarts: no  *)
(* caller is handed a result whose record is not whole in the audit file    *)
(* (handler.go:256-264, audit.go:51-67).                                    *)
THEOREM AuditedFirst == Spec => AuditBeforeReturn
BY AuditStarts, StepKeeps, PTL DEF Spec, AuditBeforeReturn, Contract!Spec

-----------------------------------------------------------------------------
(* What the file operations find, and what it is worth.                     *)

\* Names that may be in the directory, and codes of errors.
Entries == {"log"} \cup Names(Siblings)

Codes ==
  {NoCode, "unauthorized", "operation_disabled", "request_too_large",
   "invalid_json", "unknown_operation", "failed", "invalid_target",
   "invalid_params", "not_found", "path_not_allowed", "permission_denied",
   "audit_unavailable"}

Progress ==
  [fd : Int, start : Int, got : Int, limit : Int, names : SUBSET Entries]

Responses ==
  [status : Nat, code : Codes, start : Int, bytes : Int,
   names : SUBSET Entries, truncated : BOOLEAN]

HostInv ==
  /\ link \in 0 .. MaxInodes
  /\ size \in [Inodes -> 0 .. MaxSize]
  /\ changes \in 0 .. MaxChanges
  /\ restarts \in 0 .. MaxRestarts

WorkInv ==
  /\ pc \in [Handlers -> States]
  /\ req \in Workloads
  /\ op \in [Handlers -> Progress]
  /\ resp \in [Handlers -> Responses]
  /\ sizes \in [Handlers -> SUBSET Int]
  /\ present \in [Handlers -> SUBSET Entries]
  /\ \A h \in Handlers : present[h] \subseteq Names(Listing)

Working == {"resolving", "opening", "listing", "sizing", "reading"}
Decided == {"auditing", "writing", "written", "replying", "answered"}

Authorized(h) ==
  req[h].token \in AuthTokens
    /\ req[h].operation \in EnabledOperations \cap FileOperations

BelowRoot(h) ==
  \E root \in Roots : SubSeq(Links[req[h].path], 1, Len(root)) = root

AccessInv(h) ==
  /\ pc[h] \in Working => Authorized(h)
  /\ pc[h] \in Working \ {"resolving"} =>
       BelowRoot(h)
         /\ (req[h].operation = "filesystem.read" => req[h].offset >= 0)

\* The open file: how far it was read, and what it was seen to be.
FileInv(h) ==
  Opened(h) =>
    /\ op[h].fd \in Inodes
    /\ op[h].start >= 0
    /\ op[h].got \in 0 .. op[h].limit
    /\ size[op[h].fd] \in sizes[h]

ReadInv(h) ==
  /\ Opened(h) => req[h].operation \in {"filesystem.read", "filesystem.tail"}
  /\ pc[h] = "sizing" => req[h].operation = "filesystem.tail" /\ op[h].got = 0
  /\ Opened(h) /\ req[h].operation = "filesystem.tail" =>
       op[h].limit = Clamp(req[h].max, MaxTailBytes)

\* A file that ends before what was read of it was emptied meanwhile.
EmptiedInv(h) ==
  pc[h] = "reading" =>
    IF req[h].operation = "filesystem.read"
    THEN op[h].got > 0 /\ size[op[h].fd] < op[h].start + op[h].got
           => 0 \in sizes[h]
    ELSE op[h].start > 0 =>
           /\ op[h].start + op[h].limit \in sizes[h]
           /\ size[op[h].fd] < op[h].start + op[h].limit => 0 \in sizes[h]

ListingInv(h) ==
  pc[h] = "listing" =>
    /\ req[h].operation = "filesystem.list"
    /\ ~resp[h].truncated => present[h] \subseteq op[h].names

Found(h, operation) == resp[h].status = 200 /\ req[h].operation = operation

WholeResult(h) ==
  /\ Found(h, "filesystem.list") /\ ~resp[h].truncated =>
       present[h] \subseteq resp[h].names
  /\ Found(h, "filesystem.read") /\ ~resp[h].truncated =>
       \E end \in sizes[h] :
         \/ resp[h].start + resp[h].bytes = end
         \/ resp[h].bytes = 0 /\ end <= resp[h].start
         \/ end < resp[h].start + resp[h].bytes /\ 0 \in sizes[h]

TailResult(h) ==
  Found(h, "filesystem.tail") /\ resp[h].truncated /\ 0 \notin sizes[h] =>
    /\ resp[h].start + resp[h].bytes \in sizes[h]
    /\ resp[h].bytes = Clamp(req[h].max, MaxTailBytes)

ResultInv(h) ==
  pc[h] \in Decided =>
    /\ resp[h].status = 200 /\ req[h].operation \in FileOperations =>
         Authorized(h) /\ BelowRoot(h)
    /\ WholeResult(h)
    /\ TailResult(h)

HandlerInv(h) ==
  /\ AccessInv(h) /\ FileInv(h) /\ ReadInv(h) /\ EmptiedInv(h)
  /\ ListingInv(h) /\ ResultInv(h)

ServiceInv == HostInv /\ WorkInv /\ \A h \in Handlers : HandlerInv(h)

-----------------------------------------------------------------------------
(* Fragments.                                                               *)

\* The record of g was cut short, and its result will never be sent.
Torn(g) ==
  pc[g] = "lost" \/ (pc[g] \in {"replying", "answered"} /\ resp[g].status = 503)

FragmentInv ==
  \A i \in 1 .. Len(audit) :
    /\ audit[i].part = "newline" =>
         i > 1 /\ audit[i - 1] = Chunk(audit[i].by, "line")
    /\ audit[i].part = "line" =>
         \/ i < Len(audit) /\ audit[i + 1] = Chunk(audit[i].by, "newline")
         \/ Torn(audit[i].by)
         \/ i = Len(audit) /\ pc[audit[i].by] = "written"

-----------------------------------------------------------------------------
(* A handler's step leaves the others alone.                                *)

LEMMA OthersKeep ==
  ASSUME NEW g, HandlerInv(g), UNCHANGED <<req, size>>,
         pc'[g] = pc[g], op'[g] = op[g], resp'[g] = resp[g],
         sizes'[g] = sizes[g], present'[g] = present[g]
  PROVE  HandlerInv(g)'
<1> USE DEF HandlerInv
<1>1. AccessInv(g)'
  BY DEF AccessInv, Authorized, BelowRoot
<1>2. FileInv(g)' /\ ReadInv(g)' /\ EmptiedInv(g)'
  BY DEF FileInv, ReadInv, EmptiedInv, Opened
<1>3. ListingInv(g)'
  BY DEF ListingInv
<1>4. ResultInv(g)'
  BY DEF ResultInv, WholeResult, TailResult, Found, Authorized, BelowRoot
<1>5. QED
  BY <1>1, <1>2, <1>3, <1>4

\* Handler h alone moves, and its variables stay in their ranges.
Turn(h) ==
  /\ UNCHANGED <<req, files, restarts>>
  /\ \A g \in Handlers \ {h} :
       /\ pc'[g] = pc[g] /\ op'[g] = op[g] /\ resp'[g] = resp[g]
       /\ sizes'[g] = sizes[g] /\ present'[g] = present[g]
  /\ WorkInv'

LEMMA TurnKeeps ==
  ASSUME ServiceInv, NEW h \in Handlers, Turn(h), HandlerInv(h)'
  PROVE  ServiceInv'
<1>1. HostInv' /\ WorkInv'
  BY DEF Turn, ServiceInv, HostInv, files
<1>2. ASSUME NEW g \in Handlers \ {h} PROVE HandlerInv(g)'
  BY <1>2, OthersKeep DEF Turn, ServiceInv, files
<1>3. QED
  BY <1>1, <1>2 DEF ServiceInv

LEMMA BlanksAre ==
  /\ NoOperation \in Progress /\ NoResponse \in Responses
  /\ OK \in Responses /\ OK.status = 200
<1>1. NoOperation \in Progress
  BY DEF NoOperation, Progress
<1>2. NoResponse \in Responses
  BY DEF NoResponse, Responses, Codes
<1>3. OK \in Responses /\ OK.status = 200
  BY <1>2 DEF OK, Responses
<1>4. QED
  BY <1>1, <1>2, <1>3

LEMMA ErrorIs ==
  ASSUME NEW status \in Nat, status # 200, NEW code \in Codes
  PROVE  Error(status, code) \in Responses /\ Error(status, code).status # 200
BY BlanksAre DEF Error, Responses

LEMMA SiblingsAre == Siblings \in Seq(Entries) /\ <<"log">> \in Seq(Entries)
<1>1. Siblings \in Seq(Entries)
  BY NamesAssumption DEF Entries, Names
<1>2. <<"log">> \in Seq(Entries)
  BY DEF Entries
<1>3. QED
  BY <1>1, <1>2

LEMMA LogFirst == Names(<<"log">> \o Siblings) = Names(Siblings) \cup {"log"}
<1> DEFINE both == <<"log">> \o Siblings
<1>1. /\ Len(both) = 1 + Len(Siblings) /\ both \in Seq(Entries)
      /\ Len(Siblings) \in Nat /\ both[1] = "log"
      /\ \A i \in 1 .. Len(Siblings) : both[i + 1] = Siblings[i]
      /\ \A i \in 2 .. Len(both) : both[i] = Siblings[i - 1]
  BY SiblingsAre
<1> HIDE DEF both
<1>2. DOMAIN both = 1 .. Len(both) /\ DOMAIN Siblings = 1 .. Len(Siblings)
  BY <1>1, SiblingsAre
<1>3. ASSUME NEW i \in DOMAIN both
      PROVE  both[i] \in {"log"} \cup Names(Siblings)
  <2>1. CASE i = 1
    BY <1>1, <2>1
  <2>2. CASE i # 1
    <3>1. i - 1 \in DOMAIN Siblings /\ both[i] = Siblings[i - 1]
      BY <1>1, <1>2, <2>2
    <3>2. QED
      BY <3>1 DEF Names
  <2>3. QED
    BY <2>1, <2>2
<1>4. ASSUME NEW i \in DOMAIN Siblings
      PROVE  i + 1 \in DOMAIN both /\ both[i + 1] = Siblings[i]
  BY <1>1, <1>2
<1>5. 1 \in DOMAIN both
  BY <1>1, <1>2
<1>6. {"log"} \cup Names(Siblings) \subseteq Names(both)
  BY <1>1, <1>4, <1>5 DEF Names
<1>7. Names(both) \subseteq {"log"} \cup Names(Siblings)
  BY <1>3 DEF Names
<1>8. QED
  BY <1>6, <1>7 DEF both

LEMMA ListingIs ==
  /\ Listing \in Seq(Entries)
  /\ Names(Listing) \in SUBSET Entries
<1>1. Listing \in Seq(Entries)
  BY SiblingsAre DEF Listing
<1>2. Names(Listing) \subseteq Names(Siblings) \cup {"log"}
  BY LogFirst DEF Listing
<1>3. QED
  BY <1>1, <1>2 DEF Entries

\* A decision that is not the outcome of a file operation says nothing.
LEMMA NoFinding ==
  ASSUME NEW h, pc'[h] \in Decided,
         resp'[h].status # 200 \/ req'[h].operation \notin FileOperations
  PROVE  HandlerInv(h)'
<1>1. AccessInv(h)' /\ ListingInv(h)'
  BY DEF AccessInv, ListingInv, Working, Decided
<1>2. FileInv(h)' /\ ReadInv(h)' /\ EmptiedInv(h)'
  BY DEF FileInv, ReadInv, EmptiedInv, Opened, Decided
<1>3. ResultInv(h)'
  BY DEF ResultInv, WholeResult, TailResult, Found, FileOperations
<1>4. QED
  BY <1>1, <1>2, <1>3 DEF HandlerInv

\* A finding stays what it is while it is recorded and sent.
LEMMA FindingStays ==
  ASSUME NEW h, HandlerInv(h), pc[h] \in Decided, pc'[h] \in Decided,
         UNCHANGED <<req, resp, sizes, present>>
  PROVE  HandlerInv(h)'
<1>1. AccessInv(h)' /\ ListingInv(h)'
  BY DEF AccessInv, ListingInv, Working, Decided
<1>2. FileInv(h)' /\ ReadInv(h)' /\ EmptiedInv(h)'
  BY DEF FileInv, ReadInv, EmptiedInv, Opened, Decided
<1>3. ResultInv(h)'
  BY DEF HandlerInv, ResultInv, WholeResult, TailResult, Found, Authorized,
         BelowRoot
<1>4. QED
  BY <1>1, <1>2, <1>3 DEF HandlerInv

-----------------------------------------------------------------------------
(* Requests that do not reach a file.                                       *)

LEMMA RespondsTurn ==
  ASSUME ServiceInv, NEW h \in Handlers, NEW r \in Responses,
         NEW s \in States, Responds(h, r, s),
         UNCHANGED <<req, op, files, restarts, ghosts>>
  PROVE  Turn(h) /\ pc'[h] = s /\ resp'[h] = r
<1> USE DEF Responds, ServiceInv, WorkInv, files, ghosts
<1>1. /\ pc' \in [Handlers -> States] /\ pc'[h] = s
      /\ resp' \in [Handlers -> Responses] /\ resp'[h] = r
      /\ \A g \in Handlers \ {h} : pc'[g] = pc[g] /\ resp'[g] = resp[g]
  OBVIOUS
<1>2. Listing' = Listing
  BY DEF Listing
<1>3. \A g \in Handlers : present'[g] \subseteq Names(Listing')
  BY <1>2
<1>4. WorkInv'
  BY <1>1, <1>3 DEF Names
<1>5. QED
  BY <1>1, <1>4 DEF Turn

LEMMA Dismissed ==
  ASSUME ServiceInv, NEW h \in Handlers, NEW r \in Responses,
         NEW s \in {"auditing", "replying"}, Responds(h, r, s),
         UNCHANGED <<req, op, files, restarts, ghosts>>,
         r.status # 200 \/ req[h].operation \notin FileOperations
  PROVE  ServiceInv'
<1>1. Turn(h) /\ pc'[h] = s /\ resp'[h] = r
  BY RespondsTurn DEF States
<1>2. HandlerInv(h)'
  BY <1>1, NoFinding DEF Decided
<1>3. QED
  BY <1>1, <1>2, TurnKeeps

LEMMA DismissalsServe ==
  ASSUME ServiceInv, NEW h \in Handlers,
         \/ handleHealth(h) \/ Unauthorized(h) \/ MethodNotAllowed(h)
         \/ handleCapabilities(h) \/ BadBody(h) \/ OperationRefused(h)
         \/ DescribeHost(h)
  PROVE  ServiceInv'
<1>1. UNCHANGED <<req, op, files, restarts, ghosts>>
  BY DEF handleHealth, Unauthorized, MethodNotAllowed, handleCapabilities,
         BadBody, OperationRefused, DescribeHost, Decoded, handleOperations,
         Authenticated, Arrives, ghosts
<1>2. req[h].endpoint # "operations" => req[h].operation \notin FileOperations
  BY WorkloadsAssumption DEF ServiceInv, WorkInv, FileOperations
<1>3. CASE handleHealth(h)
  BY <1>1, <1>2, <1>3, BlanksAre, Dismissed DEF handleHealth
<1>4. CASE Unauthorized(h)
  <2>1. Error(401, "unauthorized") \in Responses
          /\ Error(401, "unauthorized").status # 200
    BY ErrorIs, BlanksAre DEF Codes
  <2>2. Responds(h, Error(401, "unauthorized"), "replying")
    BY <1>4 DEF Unauthorized
  <2>3. QED
    BY <1>1, <2>1, <2>2, Dismissed
<1>5. CASE MethodNotAllowed(h)
  <2>1. Error(405, NoCode) \in Responses /\ Error(405, NoCode).status # 200
    BY ErrorIs, BlanksAre DEF Codes
  <2>2. Responds(h, Error(405, NoCode), "replying")
    BY <1>5 DEF MethodNotAllowed
  <2>3. QED
    BY <1>1, <2>1, <2>2, Dismissed
<1>6. CASE handleCapabilities(h)
  <2>1. req[h].operation \notin FileOperations
    BY <1>2, <1>6 DEF handleCapabilities
  <2>2. \/ Responds(h, OK, "auditing")
        \/ Responds(h, Error(403, "operation_disabled"), "auditing")
    BY <1>6 DEF handleCapabilities
  <2>3. OK \in Responses /\ Error(403, "operation_disabled") \in Responses
    BY ErrorIs, BlanksAre DEF Codes
  <2>4. QED
    BY <1>1, <2>1, <2>2, <2>3, Dismissed
<1>7. CASE BadBody(h)
  <2>1. \/ Responds(h, Error(413, "request_too_large"), "auditing")
        \/ Responds(h, Error(400, "invalid_json"), "auditing")
    BY <1>7 DEF BadBody
  <2>2. /\ Error(413, "request_too_large") \in Responses
        /\ Error(413, "request_too_large").status # 200
        /\ Error(400, "invalid_json") \in Responses
        /\ Error(400, "invalid_json").status # 200
    BY ErrorIs, BlanksAre DEF Codes
  <2>3. QED
    BY <1>1, <2>1, <2>2, Dismissed
<1>8. CASE OperationRefused(h)
  <2>1. \/ Responds(h, Error(400, "unknown_operation"), "auditing")
        \/ Responds(h, Error(403, "operation_disabled"), "auditing")
    BY <1>8 DEF OperationRefused
  <2>2. /\ Error(400, "unknown_operation") \in Responses
        /\ Error(400, "unknown_operation").status # 200
        /\ Error(403, "operation_disabled") \in Responses
        /\ Error(403, "operation_disabled").status # 200
    BY ErrorIs, BlanksAre DEF Codes
  <2>3. QED
    BY <1>1, <2>1, <2>2, Dismissed
<1>9. CASE DescribeHost(h)
  <2>1. req[h].operation \notin FileOperations
    BY <1>9 DEF DescribeHost
  <2>2. \/ Responds(h, OK, "auditing")
        \/ Responds(h, Error(500, "failed"), "auditing")
        \/ Responds(h, [OK EXCEPT !.truncated = TRUE], "auditing")
    BY <1>9 DEF DescribeHost
  <2>3. OK \in Responses /\ Error(500, "failed") \in Responses
    BY ErrorIs, BlanksAre DEF Codes
  <2>4. [OK EXCEPT !.truncated = TRUE] \in Responses
    <3>1. \A truncated \in BOOLEAN :
            [OK EXCEPT !.truncated = truncated] \in Responses
      BY BlanksAre DEF Responses
    <3>2. QED
      BY <3>1
  <2>5. QED
    BY <1>1, <2>1, <2>2, <2>3, <2>4, Dismissed
<1>10. QED
  BY <1>3, <1>4, <1>5, <1>6, <1>7, <1>8, <1>9

LEMMA BeginServes ==
  ASSUME ServiceInv, NEW h \in Handlers, BeginFileOperation(h)
  PROVE  ServiceInv'
<1> USE DEF ServiceInv, WorkInv
<1>1. /\ pc' \in [Handlers -> States] /\ pc'[h] = "resolving"
      /\ present' = [present EXCEPT ![h] = Names(Listing)]
      /\ \A g \in Handlers \ {h} : pc'[g] = pc[g] /\ present'[g] = present[g]
      /\ UNCHANGED <<req, op, resp, files, restarts, sizes>>
  BY DEF BeginFileOperation, Decoded, handleOperations, Authenticated, Arrives,
         States
<1>2. Names(Listing) \in SUBSET Entries /\ Listing' = Listing
  BY <1>1, ListingIs DEF Listing, files
<1>3. WorkInv'
  <2>1. /\ present' \in [Handlers -> SUBSET Entries]
        /\ \A g \in Handlers : present'[g] \subseteq Names(Listing)
    BY <1>1, <1>2
  <2>2. Names(Listing)' = Names(Listing)
    BY <1>2 DEF Names
  <2>3. QED
    BY <1>1, <2>1, <2>2
<1>4. Turn(h)
  BY <1>1, <1>3 DEF Turn
<1>5. Authorized(h)'
  BY <1>1 DEF BeginFileOperation, Decoded, handleOperations, Authenticated,
              Authorized
<1>6. HandlerInv(h)'
  BY <1>1, <1>5 DEF HandlerInv, AccessInv, FileInv, ReadInv, EmptiedInv,
                    ListingInv, ResultInv, Opened, Decided
<1>7. QED
  BY <1>4, <1>6, TurnKeeps

-----------------------------------------------------------------------------
(* From the path to the file.                                               *)

\* A path that passes every check exists below a root; every refusal is one.
LEMMA ChecksAre ==
  ASSUME NEW r
  PROVE  /\ DOMAIN PathChecks(r) = 1 .. 6
         /\ \A i \in 1 .. 6 :
              /\ PathChecks(r)[i].response \in Responses
              /\ PathChecks(r)[i].response.status # 200
<1>1. DOMAIN PathChecks(r) = 1 .. 6
  BY DEF PathChecks
<1> DEFINE R(i) == PathChecks(r)[i].response
<1>2. /\ R(1) = Error(400, "invalid_target")
      /\ R(2) = Error(400, "invalid_params")
      /\ R(3) = Error(400, "invalid_target")
      /\ R(4) = Error(404, "not_found")
      /\ R(5) = Error(403, "path_not_allowed")
      /\ R(6) = Error(400, "invalid_params")
  BY DEF PathChecks, Check
<1>3. \A i \in 1 .. 6 : R(i) \in Responses /\ R(i).status # 200
  <2>1. /\ Error(400, "invalid_target") \in Responses
        /\ Error(400, "invalid_target").status # 200
        /\ Error(400, "invalid_params") \in Responses
        /\ Error(400, "invalid_params").status # 200
    BY ErrorIs DEF Codes
  <2>2. /\ Error(404, "not_found") \in Responses
        /\ Error(404, "not_found").status # 200
        /\ Error(403, "path_not_allowed") \in Responses
        /\ Error(403, "path_not_allowed").status # 200
    BY ErrorIs DEF Codes
  <2> HIDE DEF R
  <2>3. QED
    BY <1>2, <2>1, <2>2
<1>4. QED
  BY <1>1, <1>3

LEMMA ChecksPassed ==
  ASSUME NEW r, \A i \in 1 .. 6 : ~PathChecks(r)[i].fails
  PROVE  /\ Exists(r.path) /\ WithinRoots(r.path)
         /\ ~(r.operation = "filesystem.read" /\ r.offset < 0)
<1> DEFINE F(i) == PathChecks(r)[i].fails
<1>1. ~F(4) /\ ~F(5) /\ ~F(6)
  OBVIOUS
<1>2. /\ F(4) = ~Exists(r.path)
      /\ F(5) = (Exists(r.path) /\ ~WithinRoots(r.path))
      /\ F(6) = (r.operation = "filesystem.read" /\ r.offset < 0)
  BY Zenon DEF PathChecks, Check
<1> HIDE DEF F
<1>3. QED
  BY <1>1, <1>2

LEMMA RootsHold ==
  ASSUME NEW path, WithinRoots(path)
  PROVE  \E root \in Roots : SubSeq(Links[path], 1, Len(root)) = root
<1>1. \A root \in Roots : SubSeq(root, 1, Len(root)) = root
  BY NamesAssumption
<1>2. QED
  BY <1>1 DEF WithinRoots

LEMMA ResolveServes ==
  ASSUME ServiceInv, NEW h \in Handlers, resolveAllowedPath(h)
  PROVE  ServiceInv'
<1> DEFINE failing == {i \in 1 .. 6 : PathChecks(req[h])[i].fails}
<1>1. UNCHANGED <<req, op, files, restarts, ghosts>> /\ pc[h] = "resolving"
  BY DEF resolveAllowedPath, ghosts
<1>2. CASE failing # {}
  <2>1. \E i \in 1 .. 6 :
          Responds(h, PathChecks(req[h])[i].response, "auditing")
    <3> DEFINE first == CHOOSE i \in failing : \A j \in failing : i <= j
    <3>1. Responds(h, PathChecks(req[h])[first].response, "auditing")
      BY <1>2, ChecksAre DEF resolveAllowedPath
    <3>2. \E i \in failing : \A j \in failing : i <= j
      <4>1. \A i \in failing : i \in {1, 2, 3, 4, 5, 6}
        OBVIOUS
      <4> HIDE DEF failing
      <4>2. QED
        BY <1>2, <4>1
    <3>3. first \in failing
      BY <3>2
    <3>4. QED
      BY <3>1, <3>3
  <2>2. QED
    BY <1>1, <2>1, ChecksAre, Dismissed
<1>3. CASE failing = {}
  <2>1. pc' = [pc EXCEPT ![h] = "opening"] /\ resp' = resp
    BY <1>3, ChecksAre DEF resolveAllowedPath
  <2>2. /\ pc' \in [Handlers -> States] /\ pc'[h] = "opening"
        /\ \A g \in Handlers \ {h} : pc'[g] = pc[g]
    BY <2>1 DEF ServiceInv, WorkInv, States
  <2>3. Turn(h)
    BY <1>1, <2>1, <2>2 DEF Turn, ServiceInv, WorkInv, ghosts, files, Listing,
                            Names
  <2>4. Authorized(h)
    BY <1>1 DEF ServiceInv, HandlerInv, AccessInv, Working
  <2>5. BelowRoot(h)
    BY <1>3, ChecksPassed, RootsHold DEF BelowRoot
  <2>6. req[h].operation = "filesystem.read" => req[h].offset >= 0
    <3>1. req[h].offset \in Int
      BY WorkloadsAssumption DEF ServiceInv, WorkInv
    <3>2. ~(req[h].operation = "filesystem.read" /\ req[h].offset < 0)
      BY <1>3, ChecksPassed, Zenon
    <3>3. QED
      BY <3>1, <3>2
  <2>7. HandlerInv(h)'
    <3>1. Authorized(h)' /\ BelowRoot(h)'
      BY <1>1, <2>4, <2>5 DEF Authorized, BelowRoot
    <3>2. AccessInv(h)'
      <4>1. (req[h].operation = "filesystem.read" => req[h].offset >= 0)'
        BY <1>1, <2>6
      <4>2. QED
        BY <3>1, <4>1, Zenon DEF AccessInv
    <3>3. QED
      BY <2>2, <3>2 DEF HandlerInv, FileInv, ReadInv, EmptiedInv, ListingInv,
                        ResultInv, Opened, Decided
  <2>8. QED
    BY <2>3, <2>7, TurnKeeps
<1>4. QED
  BY <1>2, <1>3

LEMMA FailsServe ==
  ASSUME ServiceInv, NEW h \in Handlers, FileFails(h)
  PROVE  ServiceInv'
<1>1. UNCHANGED <<req, op, files, restarts, ghosts>>
  BY DEF FileFails, ghosts
<1>2. \/ Responds(h, Error(400, "invalid_target"), "auditing")
      \/ Responds(h, Error(500, "failed"), "auditing")
      \/ Responds(h, Error(403, "permission_denied"), "auditing")
  BY DEF FileFails
<1>3. /\ Error(400, "invalid_target") \in Responses
      /\ Error(400, "invalid_target").status # 200
      /\ Error(500, "failed") \in Responses
      /\ Error(500, "failed").status # 200
      /\ Error(403, "permission_denied") \in Responses
      /\ Error(403, "permission_denied").status # 200
  BY ErrorIs DEF Codes
<1>4. QED
  BY <1>1, <1>2, <1>3, Dismissed

\* The outcome of a file operation that the checks let through.
LEMMA Finds ==
  ASSUME ServiceInv, NEW h \in Handlers, pc[h] \in Working \ {"resolving"},
         NEW r \in Responses, Responds(h, r, "auditing"),
         UNCHANGED <<req, op, files, restarts, ghosts>>,
         WholeResult(h)', TailResult(h)'
  PROVE  ServiceInv'
<1>1. Turn(h) /\ pc'[h] = "auditing" /\ resp'[h] = r
  BY RespondsTurn DEF States
<1>2. Authorized(h)' /\ BelowRoot(h)'
  BY DEF ServiceInv, HandlerInv, AccessInv, Authorized, BelowRoot
<1>3. ResultInv(h)'
  BY <1>2 DEF ResultInv
<1>4. HandlerInv(h)'
  BY <1>1, <1>3 DEF HandlerInv, AccessInv, FileInv, ReadInv, EmptiedInv,
                    ListingInv, Opened, Working
<1>5. QED
  BY <1>1, <1>4, TurnKeeps

LEMMA StatServes ==
  ASSUME ServiceInv, NEW h \in Handlers, filesystemStat(h)
  PROVE  ServiceInv'
<1>1. /\ UNCHANGED <<req, op, files, restarts, ghosts>>
      /\ pc[h] \in Working \ {"resolving"}
      /\ req[h].operation = "filesystem.stat"
  BY DEF filesystemStat, ghosts, Working
<1>2. WholeResult(h)' /\ TailResult(h)'
  BY <1>1 DEF WholeResult, TailResult, Found
<1>3. \/ Responds(h, OK, "auditing")
      \/ Responds(h, Error(404, "not_found"), "auditing")
  BY DEF filesystemStat
<1>4. OK \in Responses /\ Error(404, "not_found") \in Responses
  BY BlanksAre, ErrorIs DEF Codes
<1>5. QED
  BY <1>1, <1>2, <1>3, <1>4, Finds

-----------------------------------------------------------------------------
(* Listings.                                                                *)

LEMMA ReadDirServes ==
  ASSUME ServiceInv, NEW h \in Handlers, ReadDir(h)
  PROVE  ServiceInv'
<1> DEFINE max == Clamp(req[h].max, MaxListEntries)
           cut == {Listing[i] : i \in {j \in DOMAIN Listing : j <= max}}
<1>1. /\ UNCHANGED <<req, holder, audit, files, restarts, ghosts>>
      /\ pc[h] = "opening" /\ req[h].operation = "filesystem.list"
      /\ op' = [op EXCEPT ![h].names = cut]
      /\ resp' = [resp EXCEPT ![h].truncated = Len(Listing) > max]
      /\ pc' = [pc EXCEPT ![h] = "listing"]
  BY DEF ReadDir, ghosts
<1>2. cut \subseteq Entries /\ (Len(Listing) > max) \in BOOLEAN
  <2>1. \A i \in DOMAIN Listing : Listing[i] \in Entries
    BY ListingIs
  <2>2. QED
    BY <2>1
<1>3. ~(Len(Listing) > max) => cut = Names(Listing)
  <2>1. max \in Int
    BY WorkloadsAssumption, LimitsAssumption DEF ServiceInv, WorkInv, Clamp
  <2>2. DOMAIN Listing = 1 .. Len(Listing) /\ Len(Listing) \in Nat
    BY ListingIs
  <2> HIDE DEF max
  <2>3. ASSUME ~(Len(Listing) > max)
        PROVE  {j \in DOMAIN Listing : j <= max} = DOMAIN Listing
    BY <2>1, <2>2, <2>3
  <2>4. QED
    BY <2>3 DEF Names
<1> HIDE DEF cut
<1>4. \A truncated \in BOOLEAN :
      resp' = [resp EXCEPT ![h].truncated = truncated]
        => /\ resp' \in [Handlers -> Responses]
        /\ resp'[h].truncated = truncated
           /\ \A g \in Handlers \ {h} : resp'[g] = resp[g]
  BY DEF ServiceInv, WorkInv, Responses
<1>5. /\ resp' \in [Handlers -> Responses]
      /\ resp'[h].truncated = (Len(Listing) > max)
      /\ \A g \in Handlers \ {h} : resp'[g] = resp[g]
  BY <1>1, <1>2, <1>4
<1>6. /\ op' \in [Handlers -> Progress] /\ op'[h].names = cut
      /\ \A g \in Handlers \ {h} : op'[g] = op[g]
  BY <1>1, <1>2 DEF ServiceInv, WorkInv, Progress
<1>7. /\ pc' \in [Handlers -> States] /\ pc'[h] = "listing"
      /\ \A g \in Handlers \ {h} : pc'[g] = pc[g]
  BY <1>1 DEF ServiceInv, WorkInv, States
<1>8. Turn(h)
  BY <1>1, <1>5, <1>6, <1>7 DEF Turn, ServiceInv, WorkInv, ghosts, files,
                                Listing, Names
<1>9. AccessInv(h)'
  <2>1. Authorized(h)' /\ BelowRoot(h)'
    BY <1>1 DEF ServiceInv, HandlerInv, AccessInv, Working, Authorized,
                BelowRoot
  <2>2. (req[h].operation # "filesystem.read")'
    BY <1>1
  <2>3. QED
    BY <2>1, <2>2, Zenon DEF AccessInv
<1>10. ListingInv(h)'
  <2>1. present'[h] \subseteq Names(Listing)
    BY <1>1 DEF ServiceInv, WorkInv, ghosts
  <2>2. ~resp'[h].truncated => present'[h] \subseteq op'[h].names
    BY <1>3, <1>5, <1>6, <2>1
  <2>3. QED
    BY <1>1, <2>2 DEF ListingInv
<1>11. HandlerInv(h)'
  BY <1>7, <1>9, <1>10 DEF HandlerInv, FileInv, ReadInv, EmptiedInv, ResultInv,
                           Opened, Decided
<1>12. QED
  BY <1>8, <1>11, TurnKeeps

LEMMA ListServes ==
  ASSUME ServiceInv, NEW h \in Handlers, ListEntries(h)
  PROVE  ServiceInv'
<1>1. /\ UNCHANGED <<req, op, files, restarts, ghosts>>
      /\ UNCHANGED <<req, sizes, present>>
      /\ pc[h] = "listing"
  BY DEF ListEntries, ghosts
<1>2. /\ req[h].operation = "filesystem.list"
      /\ ~resp[h].truncated => present[h] \subseteq op[h].names
      /\ present[h] \subseteq Names(Listing)
      /\ op[h].names \subseteq Entries /\ resp[h].truncated \in BOOLEAN
  BY <1>1 DEF ServiceInv, HandlerInv, ListingInv, WorkInv, Progress, Responses
<1> DEFINE names == op[h].names \cap Names(Listing)
           made(listed, truncated) ==
             [OK EXCEPT !.names = listed, !.truncated = truncated]
<1>3. \A truncated \in BOOLEAN, listed \in SUBSET Entries :
        /\ made(listed, truncated) \in Responses
        /\ made(listed, truncated).names = listed
        /\ made(listed, truncated).truncated = truncated
  BY BlanksAre DEF Responses
<1>4. PICK r \in Responses :
        /\ Responds(h, r, "auditing")
        /\ r.names = names /\ r.truncated = resp[h].truncated
  <2>1. Responds(h, made(names, resp[h].truncated), "auditing")
    BY DEF ListEntries
  <2>2. names \in SUBSET Entries /\ resp[h].truncated \in BOOLEAN
    BY <1>2
  <2> HIDE DEF names, made
  <2>3. QED
    BY <1>3, <2>1, <2>2
<1>5. resp'[h] = r
  BY <1>4 DEF Responds, ServiceInv, WorkInv
<1>6. WholeResult(h)' /\ TailResult(h)'
  <2>1. ~resp'[h].truncated => present'[h] \subseteq resp'[h].names
    BY <1>1, <1>2, <1>4, <1>5
  <2>2. QED
    BY <1>1, <1>2, <2>1 DEF WholeResult, TailResult, Found
<1>7. QED
  BY <1>1, <1>4, <1>6, Finds DEF Working

-----------------------------------------------------------------------------
(* Reads and tails.                                                         *)

LEMMA ClampIs ==
  ASSUME NEW asked \in Int, NEW configured \in Nat \ {0}
  PROVE  Clamp(asked, configured) \in Nat \ {0}
BY DEF Clamp

OpenedFile(fd, start, limit) ==
  [NoOperation EXCEPT !.fd = fd, !.start = start, !.limit = limit]

LEMMA OpenedIs ==
  ASSUME NEW fd \in Int, NEW start \in Int, NEW limit \in Int
  PROVE  /\ OpenedFile(fd, start, limit) \in Progress
         /\ OpenedFile(fd, start, limit).fd = fd
         /\ OpenedFile(fd, start, limit).start = start
         /\ OpenedFile(fd, start, limit).limit = limit
         /\ OpenedFile(fd, start, limit).got = 0
<1>1. /\ OpenedFile(fd, start, limit) \in Progress
      /\ OpenedFile(fd, start, limit).fd = fd
      /\ OpenedFile(fd, start, limit).start = start
      /\ OpenedFile(fd, start, limit).limit = limit
  BY BlanksAre DEF OpenedFile, Progress
<1>2. OpenedFile(fd, start, limit).got = 0
  BY DEF OpenedFile, NoOperation
<1>3. QED
  BY <1>1, <1>2

TailedFile(fd, limit) == [NoOperation EXCEPT !.fd = fd, !.limit = limit]

LEMMA TailedIs ==
  ASSUME NEW fd \in Int, NEW limit \in Int
  PROVE  /\ TailedFile(fd, limit) \in Progress
         /\ TailedFile(fd, limit).fd = fd
         /\ TailedFile(fd, limit).limit = limit
         /\ TailedFile(fd, limit).start = 0 /\ TailedFile(fd, limit).got = 0
<1>1. /\ TailedFile(fd, limit) \in Progress
      /\ TailedFile(fd, limit).fd = fd
      /\ TailedFile(fd, limit).limit = limit
  BY BlanksAre DEF TailedFile, Progress
<1>2. TailedFile(fd, limit).start = 0 /\ TailedFile(fd, limit).got = 0
  BY DEF TailedFile, NoOperation
<1>3. QED
  BY <1>1, <1>2

LEMMA OpenServes ==
  ASSUME ServiceInv, NEW h \in Handlers, Open(h)
  PROVE  ServiceInv'
<1>1. /\ UNCHANGED <<req, resp, files, restarts, present>>
      /\ UNCHANGED <<req, size, link>>
      /\ pc[h] = "opening" /\ link # 0
      /\ sizes' = [sizes EXCEPT ![h] = {size[link]}]
  BY DEF Open, files
<1>2. link \in Inodes /\ size[link] \in 0 .. MaxSize /\ size[link] \in Int
  BY <1>1, LimitsAssumption DEF ServiceInv, HostInv, Inodes
<1>3. req[h].offset \in Int /\ req[h].max \in Int
  BY WorkloadsAssumption DEF ServiceInv, WorkInv
<1>4. /\ Clamp(req[h].max, MaxReadBytes) \in Nat \ {0}
      /\ Clamp(req[h].max, MaxTailBytes) \in Nat \ {0}
  BY <1>3, LimitsAssumption, ClampIs
<1>6. PICK o \in Progress, s \in {"reading", "sizing"} :
        /\ op' = [op EXCEPT ![h] = o] /\ pc' = [pc EXCEPT ![h] = s]
        /\ o.fd = link /\ o.got = 0 /\ o.limit \in Nat
        /\ \/ /\ s = "reading" /\ req[h].operation = "filesystem.read"
              /\ o.start = req[h].offset
           \/ /\ s = "sizing" /\ req[h].operation = "filesystem.tail"
              /\ o.start = 0 /\ o.limit = Clamp(req[h].max, MaxTailBytes)
  <2>1. CASE req[h].operation = "filesystem.read"
    <3> DEFINE limit == Clamp(req[h].max, MaxReadBytes) + 1
               o == OpenedFile(link, req[h].offset, limit)
    <3>1. op' = [op EXCEPT ![h] = o] /\ pc' = [pc EXCEPT ![h] = "reading"]
      BY <2>1 DEF Open, OpenedFile
    <3>2. link \in Int /\ limit \in Nat
      BY <1>2, <1>4 DEF Inodes
    <3> HIDE DEF limit
    <3>3. /\ o \in Progress /\ o.fd = link /\ o.start = req[h].offset
          /\ o.limit \in Nat /\ o.got = 0
      BY <1>3, <3>2, OpenedIs
    <3> HIDE DEF o
    <3>4. QED
      BY <2>1, <3>1, <3>3
  <2>2. CASE req[h].operation # "filesystem.read"
    <3> DEFINE limit == Clamp(req[h].max, MaxTailBytes)
               o == TailedFile(link, limit)
    <3>1. /\ op' = [op EXCEPT ![h] = o] /\ pc' = [pc EXCEPT ![h] = "sizing"]
          /\ req[h].operation = "filesystem.tail"
      BY <2>2 DEF Open, TailedFile
    <3>2. link \in Int /\ limit \in Nat
      BY <1>2, <1>4 DEF Inodes
    <3> HIDE DEF limit
    <3>3. /\ o \in Progress /\ o.fd = link /\ o.start = 0 /\ o.got = 0
          /\ o.limit = limit
      BY <3>2, TailedIs
    <3> HIDE DEF o
    <3>4. QED
      BY <2>2, <3>1, <3>2, <3>3 DEF limit
  <2>3. QED
    BY <2>1, <2>2
<1>7. /\ pc' \in [Handlers -> States] /\ pc'[h] = s
      /\ \A g \in Handlers \ {h} : pc'[g] = pc[g]
  BY <1>6 DEF ServiceInv, WorkInv, States
<1>8. /\ op' \in [Handlers -> Progress] /\ op'[h] = o
      /\ sizes' \in [Handlers -> SUBSET Int] /\ sizes'[h] = {size[link]}
      /\ \A g \in Handlers \ {h} : op'[g] = op[g] /\ sizes'[g] = sizes[g]
  BY <1>1, <1>2, <1>6 DEF ServiceInv, WorkInv
<1>9. Turn(h)
  BY <1>1, <1>7, <1>8 DEF Turn, ServiceInv, WorkInv, Listing, Names
<1>10. /\ BelowRoot(h) /\ Authorized(h)
       /\ req[h].operation = "filesystem.read" => req[h].offset >= 0
  BY <1>1 DEF ServiceInv, HandlerInv, AccessInv, Working
<1>11. AccessInv(h)'
  <2>1. Authorized(h)' /\ BelowRoot(h)'
    BY <1>1, <1>10 DEF Authorized, BelowRoot
  <2>2. (req[h].operation = "filesystem.read" => req[h].offset >= 0)'
    BY <1>1, <1>10
  <2>3. QED
    BY <2>1, <2>2, Zenon DEF AccessInv
<1>12. FileInv(h)' /\ ReadInv(h)'
  BY <1>1, <1>2, <1>6, <1>7, <1>8, <1>10 DEF FileInv, ReadInv
<1>13. EmptiedInv(h)'
  BY <1>1, <1>6, <1>7, <1>8 DEF EmptiedInv
<1>14. HandlerInv(h)'
  BY <1>6, <1>7, <1>11, <1>12, <1>13 DEF HandlerInv, ListingInv, ResultInv,
                                         Decided
<1>15. QED
  BY <1>9, <1>14, TurnKeeps

LEMMA SeekServes ==
  ASSUME ServiceInv, NEW h \in Handlers, TailSeek(h)
  PROVE  ServiceInv'
<1>1. /\ UNCHANGED <<req, resp, files, restarts, ghosts>>
      /\ UNCHANGED <<req, size, sizes, present>>
      /\ pc[h] = "sizing" /\ pc' = [pc EXCEPT ![h] = "reading"]
  BY DEF TailSeek, files, ghosts
<1>2. /\ op[h].fd \in Inodes /\ op[h].got \in 0 .. op[h].limit
      /\ op[h].got = 0 /\ size[op[h].fd] \in sizes[h]
      /\ req[h].operation = "filesystem.tail"
      /\ op[h].limit = Clamp(req[h].max, MaxTailBytes)
      /\ op[h] \in Progress /\ size[op[h].fd] \in Int
      /\ Authorized(h) /\ BelowRoot(h)
  BY <1>1, LimitsAssumption
     DEF ServiceInv, HandlerInv, FileInv, ReadInv, Opened, WorkInv, HostInv,
         AccessInv, Working
<1>3. op[h].limit \in Int /\ op[h].fd \in Int
  BY <1>2 DEF Progress
<1>4. PICK start \in Nat :
        /\ op' = [op EXCEPT ![h].start = start]
        /\ start > 0 => start + op[h].limit = size[op[h].fd]
  <2> DEFINE offset == size[op[h].fd] - op[h].limit
             start == IF offset < 0 THEN 0 ELSE offset
  <2>1. op' = [op EXCEPT ![h].start = start]
    BY DEF TailSeek
  <2>2. start \in Nat /\ (start > 0 => start + op[h].limit = size[op[h].fd])
    BY <1>2, <1>3
  <2> HIDE DEF start
  <2>3. QED
    BY <2>1, <2>2
<1>5. /\ op' \in [Handlers -> Progress] /\ op'[h].start = start
      /\ op'[h].fd = op[h].fd /\ op'[h].got = op[h].got
      /\ op'[h].limit = op[h].limit
      /\ \A g \in Handlers \ {h} : op'[g] = op[g]
  BY <1>4 DEF ServiceInv, WorkInv, Progress
<1>6. /\ pc' \in [Handlers -> States] /\ pc'[h] = "reading"
      /\ \A g \in Handlers \ {h} : pc'[g] = pc[g]
  BY <1>1 DEF ServiceInv, WorkInv, States
<1>7. Turn(h)
  BY <1>1, <1>5, <1>6 DEF Turn, ServiceInv, WorkInv, ghosts, files, Listing,
                          Names
<1>8. AccessInv(h)'
  <2>1. Authorized(h)' /\ BelowRoot(h)'
    BY <1>1, <1>2 DEF Authorized, BelowRoot
  <2>2. (req[h].operation # "filesystem.read")'
    BY <1>1, <1>2
  <2>3. QED
    BY <2>1, <2>2, Zenon DEF AccessInv
<1>9. FileInv(h)' /\ ReadInv(h)'
  BY <1>1, <1>2, <1>4, <1>5, <1>6 DEF FileInv, ReadInv
<1>10. EmptiedInv(h)'
  BY <1>1, <1>2, <1>3, <1>4, <1>5, <1>6 DEF EmptiedInv
<1>11. HandlerInv(h)'
  BY <1>6, <1>8, <1>9, <1>10 DEF HandlerInv, ListingInv, ResultInv, Decided
<1>12. QED
  BY <1>7, <1>11, TurnKeeps

\* What is known of a file that is being read.
LEMMA ReadingIs ==
  ASSUME ServiceInv, NEW h \in Handlers, pc[h] = "reading"
  PROVE  /\ op[h].fd \in Inodes /\ op[h].start \in Nat /\ op[h].limit \in Int
         /\ op[h].got \in 0 .. op[h].limit /\ op[h].got \in Nat
         /\ size[op[h].fd] \in sizes[h] /\ size[op[h].fd] \in Nat
         /\ req[h].operation \in {"filesystem.read", "filesystem.tail"}
         /\ req[h].operation = "filesystem.tail" =>
              op[h].limit = Clamp(req[h].max, MaxTailBytes)
         /\ AccessInv(h) /\ EmptiedInv(h)
<1>1. op[h] \in Progress
  BY DEF ServiceInv, WorkInv
<1>2. op[h].start \in Int /\ op[h].limit \in Int /\ op[h].got \in Int
  BY <1>1 DEF Progress
<1>3. /\ op[h].fd \in Inodes /\ op[h].start >= 0
      /\ op[h].got \in 0 .. op[h].limit /\ size[op[h].fd] \in sizes[h]
  BY DEF ServiceInv, HandlerInv, FileInv, Opened
<1>4. size[op[h].fd] \in Nat
  BY <1>3, LimitsAssumption DEF ServiceInv, HostInv
<1>5. QED
  BY <1>2, <1>3, <1>4 DEF ServiceInv, HandlerInv, ReadInv, Opened

LEMMA ChunkServes ==
  ASSUME ServiceInv, NEW h \in Handlers, ReadChunk(h)
  PROVE  ServiceInv'
<1>1. /\ UNCHANGED <<pc, req, resp, files, restarts, ghosts>>
      /\ UNCHANGED <<req, size, sizes, present>>
      /\ pc[h] = "reading"
  BY DEF ReadChunk, files, ghosts
<1>2. PICK n \in 1 .. Available(h) :
        n <= op[h].limit - op[h].got /\ op' = [op EXCEPT ![h].got = @ + n]
  BY DEF ReadChunk
<1>3. /\ n \in Nat \ {0} /\ op[h].got + n \in 0 .. op[h].limit
      /\ op[h].start + (op[h].got + n) <= size[op[h].fd]
  BY <1>1, <1>2, ReadingIs DEF Available
<1>4. /\ op' \in [Handlers -> Progress] /\ op'[h].got = op[h].got + n
      /\ op'[h].fd = op[h].fd /\ op'[h].start = op[h].start
      /\ op'[h].limit = op[h].limit
      /\ \A g \in Handlers \ {h} : op'[g] = op[g]
  BY <1>2, <1>3 DEF ServiceInv, WorkInv, Progress
<1>5. Turn(h)
  BY <1>1, <1>4 DEF Turn, ServiceInv, WorkInv, ghosts, files, Listing, Names
<1>6. AccessInv(h)'
  BY <1>1, ReadingIs DEF AccessInv, Authorized, BelowRoot
<1>7. FileInv(h)' /\ ReadInv(h)'
  BY <1>1, <1>3, <1>4, ReadingIs DEF FileInv, ReadInv
<1>8. EmptiedInv(h)'
  BY <1>1, <1>3, <1>4, ReadingIs DEF EmptiedInv
<1>9. HandlerInv(h)'
  BY <1>1, <1>6, <1>7, <1>8 DEF HandlerInv, ListingInv, ResultInv, Decided
<1>10. QED
  BY <1>5, <1>9, TurnKeeps

Bytes(start, bytes, truncated) ==
  [OK EXCEPT !.start = start, !.bytes = bytes, !.truncated = truncated]

LEMMA BytesAre ==
  ASSUME NEW start \in Int, NEW bytes \in Int, NEW truncated \in BOOLEAN
  PROVE  /\ Bytes(start, bytes, truncated) \in Responses
         /\ Bytes(start, bytes, truncated).start = start
         /\ Bytes(start, bytes, truncated).bytes = bytes
         /\ Bytes(start, bytes, truncated).truncated = truncated
BY BlanksAre DEF Bytes, Responses

LEMMA ReadServes ==
  ASSUME ServiceInv, NEW h \in Handlers, ReadReturns(h)
  PROVE  ServiceInv'
<1> DEFINE truncated == op[h].got = op[h].limit
           bytes == op[h].got - IF truncated THEN 1 ELSE 0
           r == Bytes(op[h].start, bytes, truncated)
<1>1. /\ UNCHANGED <<req, op, files, restarts, ghosts>>
      /\ UNCHANGED <<req, sizes>>
      /\ pc[h] = "reading" /\ req[h].operation = "filesystem.read"
      /\ Available(h) <= 0 \/ truncated
      /\ Responds(h, r, "auditing")
  BY DEF ReadReturns, ReadOver, Bytes, ghosts
<1>2. /\ op[h].start \in Nat /\ op[h].limit \in Int /\ op[h].got \in Nat
      /\ size[op[h].fd] \in sizes[h] /\ size[op[h].fd] \in Nat
      /\ op[h].got > 0 /\ size[op[h].fd] < op[h].start + op[h].got
           => 0 \in sizes[h]
  BY <1>1, ReadingIs DEF EmptiedInv
<1>3. bytes \in Int /\ truncated \in BOOLEAN
  BY <1>2
<1>4. /\ r \in Responses /\ r.start = op[h].start /\ r.bytes = bytes
      /\ r.truncated = truncated
  <2> HIDE DEF bytes, truncated
  <2>1. QED
    BY <1>2, <1>3, BytesAre
<1>5. ~truncated =>
        /\ bytes = op[h].got
        /\ \/ op[h].start + bytes = size[op[h].fd]
           \/ bytes = 0 /\ size[op[h].fd] <= op[h].start
           \/ size[op[h].fd] < op[h].start + bytes /\ 0 \in sizes[h]
  BY <1>1, <1>2 DEF Available
<1> HIDE DEF bytes, truncated, r
<1>6. resp'[h] = r
  BY <1>1 DEF Responds, ServiceInv, WorkInv
<1>7. WholeResult(h)' /\ TailResult(h)'
  <2>1. ~resp'[h].truncated =>
          \E end \in sizes'[h] :
            \/ resp'[h].start + resp'[h].bytes = end
            \/ resp'[h].bytes = 0 /\ end <= resp'[h].start
            \/ end < resp'[h].start + resp'[h].bytes /\ 0 \in sizes'[h]
    BY <1>1, <1>2, <1>4, <1>5, <1>6
  <2>2. req'[h].operation = "filesystem.read"
    BY <1>1
  <2>3. QED
    BY <2>1, <2>2 DEF WholeResult, TailResult, Found
<1>8. QED
  BY <1>1, <1>4, <1>7, Finds DEF Working

LEMMA TailServes ==
  ASSUME ServiceInv, NEW h \in Handlers, TailReturns(h)
  PROVE  ServiceInv'
<1> DEFINE truncated == op[h].start > 0
           r == Bytes(op[h].start, op[h].got, truncated)
<1>1. /\ UNCHANGED <<req, op, files, restarts, ghosts>>
      /\ UNCHANGED <<req, sizes>>
      /\ pc[h] = "reading" /\ req[h].operation = "filesystem.tail"
      /\ Available(h) <= 0 \/ op[h].got = op[h].limit
      /\ Responds(h, r, "auditing")
  BY DEF TailReturns, ReadOver, Bytes, ghosts
<1>2. /\ op[h].start \in Nat /\ op[h].limit \in Int
      /\ op[h].got \in 0 .. op[h].limit /\ op[h].got \in Nat
      /\ size[op[h].fd] \in Nat
      /\ op[h].limit = Clamp(req[h].max, MaxTailBytes)
      /\ op[h].start > 0 =>
           /\ op[h].start + op[h].limit \in sizes[h]
           /\ size[op[h].fd] < op[h].start + op[h].limit => 0 \in sizes[h]
  BY <1>1, ReadingIs DEF EmptiedInv
<1>3. truncated \in BOOLEAN
  BY <1>2
<1>4. /\ r \in Responses /\ r.start = op[h].start /\ r.bytes = op[h].got
      /\ r.truncated = truncated
  <2> HIDE DEF truncated
  <2>1. QED
    BY <1>2, <1>3, BytesAre
<1>5. truncated /\ 0 \notin sizes[h] =>
        /\ op[h].got = op[h].limit
        /\ op[h].start + op[h].got \in sizes[h]
  BY <1>1, <1>2 DEF Available
<1> HIDE DEF truncated, r
<1>6. resp'[h] = r
  BY <1>1 DEF Responds, ServiceInv, WorkInv
<1>7. WholeResult(h)' /\ TailResult(h)'
  <2>1. resp'[h].truncated /\ 0 \notin sizes'[h] =>
          /\ resp'[h].start + resp'[h].bytes \in sizes'[h]
          /\ resp'[h].bytes = Clamp(req'[h].max, MaxTailBytes)
    BY <1>1, <1>2, <1>4, <1>5, <1>6
  <2>2. req'[h].operation = "filesystem.tail"
    BY <1>1
  <2>3. QED
    BY <2>1, <2>2 DEF WholeResult, TailResult, Found
<1>8. QED
  BY <1>1, <1>4, <1>7, Finds DEF Working

-----------------------------------------------------------------------------
(* Recording, replying, restarting.                                         *)

LEMMA RecordingServes ==
  ASSUME ServiceInv, NEW h \in Handlers,
         \/ Lock(h) \/ WriteLine(h) \/ WriteNewline(h) \/ RecordFails(h)
         \/ Reply(h)
  PROVE  ServiceInv'
<1>1. CASE RecordFails(h)
  <2>1. /\ UNCHANGED <<req, op, files, restarts, ghosts>>
        /\ Responds(h, Error(503, "audit_unavailable"), "replying")
    BY <1>1 DEF RecordFails, ghosts
  <2>2. /\ Error(503, "audit_unavailable") \in Responses
        /\ Error(503, "audit_unavailable").status # 200
    BY ErrorIs DEF Codes
  <2>3. QED
    BY <2>1, <2>2, Dismissed
<1>2. CASE Lock(h) \/ WriteLine(h) \/ WriteNewline(h) \/ Reply(h)
  <2>1. PICK s \in {"writing", "written", "replying", "answered"} :
          pc' = [pc EXCEPT ![h] = s]
    BY <1>2 DEF Lock, WriteLine, WriteNewline, Reply
  <2>2. /\ UNCHANGED <<req, op, resp, files, restarts, ghosts>>
        /\ UNCHANGED <<req, resp, sizes, present>>
        /\ pc[h] \in Decided
    BY <1>2 DEF Lock, WriteLine, WriteNewline, Reply, ghosts, Decided
  <2>3. /\ pc' \in [Handlers -> States] /\ pc'[h] = s
        /\ \A g \in Handlers \ {h} : pc'[g] = pc[g]
    BY <2>1 DEF ServiceInv, WorkInv, States
  <2>4. Turn(h)
    BY <2>2, <2>3 DEF Turn, ServiceInv, WorkInv, ghosts, files, Listing, Names
  <2>5. HandlerInv(h)'
    BY <2>2, <2>3, FindingStays DEF Decided, ServiceInv
  <2>6. QED
    BY <2>4, <2>5, TurnKeeps
<1>3. QED
  BY <1>1, <1>2

LEMMA RestartServes ==
  ASSUME ServiceInv, Restart
  PROVE  ServiceInv'
<1>1. /\ UNCHANGED <<req, op, resp, files, ghosts>>
      /\ UNCHANGED <<req, resp, sizes, present>>
      /\ restarts < MaxRestarts /\ restarts' = restarts + 1
  BY DEF Restart, ghosts
<1>2. /\ pc' \in [Handlers -> States]
      /\ \A h \in Handlers :
           pc'[h] \in {"idle", "lost"} \/ (pc'[h] = pc[h] /\ pc[h] = "answered")
  BY DEF Restart, ServiceInv, WorkInv, States
<1>3. HostInv'
  BY <1>1, LimitsAssumption DEF ServiceInv, HostInv, files
<1>4. WorkInv'
  BY <1>1, <1>2 DEF ServiceInv, WorkInv, ghosts, files, Listing, Names
<1>5. ASSUME NEW h \in Handlers PROVE HandlerInv(h)'
  <2>1. CASE pc'[h] \in {"idle", "lost"}
    BY <2>1 DEF HandlerInv, AccessInv, FileInv, ReadInv, EmptiedInv,
                ListingInv, ResultInv, Opened, Working, Decided
  <2>2. CASE pc'[h] = pc[h] /\ pc[h] = "answered"
    BY <1>1, <2>2, FindingStays DEF ServiceInv, Decided
  <2>3. QED
    BY <1>2, <2>1, <2>2
<1>6. QED
  BY <1>3, <1>4, <1>5 DEF ServiceInv

-----------------------------------------------------------------------------
(* The host.                                                                *)

LEMMA ResizedServes ==
  ASSUME ServiceInv, NEW n \in 0 .. MaxSize,
         changes < MaxChanges, changes' = changes + 1, link # 0,
         n > size[link] \/ n = 0,
         size' = [size EXCEPT ![link] = n], Resized,
         UNCHANGED <<pc, req, op, resp, link, restarts, present>>
  PROVE  ServiceInv'
<1>1. /\ \A i \in Inodes : size'[i] >= size[i] \/ size'[i] = 0
      /\ size' \in [Inodes -> 0 .. MaxSize]
      /\ \A i \in Inodes : size[i] \in Int /\ size'[i] \in Int
  BY LimitsAssumption DEF ServiceInv, HostInv, Inodes
<1>2. HostInv'
  BY <1>1, LimitsAssumption DEF ServiceInv, HostInv
<1>3. ASSUME NEW h \in Handlers, Opened(h)
      PROVE  /\ op[h].fd \in Inodes
             /\ sizes'[h] = sizes[h] \cup {size'[op[h].fd]}
             /\ size'[op[h].fd] \in Int
  BY <1>1, <1>3 DEF Resized, ServiceInv, HandlerInv, FileInv
<1>4. \A h \in Handlers : ~Opened(h) => sizes'[h] = sizes[h]
  BY DEF Resized
<1>5. WorkInv'
  <2>1. \A h \in Handlers : sizes'[h] \in SUBSET Int
    BY <1>3, <1>4 DEF ServiceInv, WorkInv
  <2>2. sizes' = [h \in Handlers |-> sizes'[h]]
    BY DEF Resized
  <2>3. sizes' \in [Handlers -> SUBSET Int]
    BY <2>1, <2>2
  <2>4. QED
    BY <2>3 DEF ServiceInv, WorkInv, Listing, Names
<1>6. ASSUME NEW h \in Handlers PROVE HandlerInv(h)'
  <2>1. HandlerInv(h) /\ op[h] \in Progress
    BY DEF ServiceInv, WorkInv
  <2>2. /\ AccessInv(h)' /\ ReadInv(h)' /\ ListingInv(h)'
        /\ FileInv(h)' /\ EmptiedInv(h)'
    <3>1. AccessInv(h)'
      BY <2>1 DEF HandlerInv, AccessInv, Authorized, BelowRoot
    <3>2. ReadInv(h)' /\ ListingInv(h)'
      BY <2>1 DEF HandlerInv, ReadInv, ListingInv, Opened
    <3>3. FileInv(h)'
      BY <1>3, <2>1 DEF HandlerInv, FileInv, Opened
    <3>4. EmptiedInv(h)'
      <4>1. SUFFICES ASSUME pc[h] = "reading" PROVE EmptiedInv(h)'
        BY DEF EmptiedInv
      <4>2. /\ op[h].fd \in Inodes /\ sizes[h] \subseteq sizes'[h]
            /\ size'[op[h].fd] \in sizes'[h]
        BY <1>3, <4>1 DEF Opened
      <4>3. op[h].start \in Int /\ op[h].got \in Int /\ op[h].limit \in Int
        BY <2>1 DEF Progress
      <4>4. size'[op[h].fd] >= size[op[h].fd] \/ 0 \in sizes'[h]
        BY <1>1, <4>2
      <4>5. size'[op[h].fd] \in Int /\ size[op[h].fd] \in Int
        BY <1>1, <4>2
      <4>6. EmptiedInv(h)
        BY <2>1 DEF HandlerInv
      <4>7. CASE req[h].operation = "filesystem.read"
        BY <4>1, <4>2, <4>3, <4>4, <4>5, <4>6, <4>7 DEF EmptiedInv
      <4>8. CASE req[h].operation # "filesystem.read"
        BY <4>1, <4>2, <4>3, <4>4, <4>5, <4>6, <4>8 DEF EmptiedInv
      <4>9. QED
        BY <4>7, <4>8
    <3>5. QED
      BY <3>1, <3>2, <3>3, <3>4
  <2>3. ResultInv(h)'
    <3>1. pc[h] \in Decided => sizes'[h] = sizes[h]
      BY <1>4 DEF Decided, Opened
    <3>2. QED
      BY <2>1, <3>1 DEF HandlerInv, ResultInv, WholeResult, TailResult, Found,
                        Authorized, BelowRoot
  <2>4. QED
    BY <2>2, <2>3 DEF HandlerInv
<1>7. QED
  BY <1>2, <1>5, <1>6 DEF ServiceInv

\* The log is renamed or removed: what is open stays as it is.
LEMMA RelinkedServes ==
  ASSUME ServiceInv, NEW i \in 0 .. MaxInodes,
         changes < MaxChanges, changes' = changes + 1, link' = i,
         present' \in [Handlers -> SUBSET Entries],
         \A h \in Handlers : present'[h] \subseteq present[h],
         i = 0 => \A h \in Handlers : "log" \notin present'[h],
         UNCHANGED <<pc, req, op, resp, size, restarts, sizes>>
  PROVE  ServiceInv'
<1>1. HostInv'
  BY LimitsAssumption DEF ServiceInv, HostInv
<1>2. WorkInv'
  <2>1. \A h \in Handlers : present'[h] \subseteq Entries
    OBVIOUS
  <2>2. Names(Listing)' = Names(Siblings) \cup (IF i = 0 THEN {} ELSE {"log"})
    <3>1. Names(<<"log">> \o Siblings) = Names(Siblings) \cup {"log"}
      BY LogFirst
    <3>2. Listing' = IF i = 0 THEN Siblings ELSE <<"log">> \o Siblings
      BY DEF Listing
    <3>3. Names(Listing)' = Names(Listing')
      BY DEF Names
    <3>4. QED
      BY <3>1, <3>2, <3>3
  <2>3. \A h \in Handlers : present'[h] \subseteq Names(Listing)'
    BY <2>1, <2>2 DEF Entries
  <2>4. QED
    BY <2>3, Zenon DEF ServiceInv, WorkInv
<1>3. ASSUME NEW h \in Handlers PROVE HandlerInv(h)'
  <2>1. HandlerInv(h) /\ present'[h] \subseteq present[h]
    BY DEF ServiceInv
  <2>2. AccessInv(h)'
    BY <2>1 DEF HandlerInv, AccessInv, Authorized, BelowRoot
  <2>3. FileInv(h)' /\ ReadInv(h)' /\ EmptiedInv(h)'
    BY <2>1 DEF HandlerInv, FileInv, ReadInv, EmptiedInv, Opened
  <2>4. ListingInv(h)'
    BY <2>1 DEF HandlerInv, ListingInv
  <2>5. WholeResult(h) => WholeResult(h)'
    BY <2>1 DEF WholeResult, Found
  <2>6. ResultInv(h)'
    BY <2>1, <2>5 DEF HandlerInv, ResultInv, TailResult, Found, Authorized,
                      BelowRoot
  <2>7. QED
    BY <2>2, <2>3, <2>4, <2>6 DEF HandlerInv
<1>4. QED
  BY <1>1, <1>2, <1>3 DEF ServiceInv

LEMMA HostServes ==
  ASSUME ServiceInv, Host
  PROVE  ServiceInv'
<1>1. \A i \in Inodes : size[i] \in 0 .. MaxSize /\ size[i] \in Int
  BY LimitsAssumption DEF ServiceInv, HostInv
<1>2. CASE Grow
  <2>1. PICK n \in size[link] + 1 .. MaxSize : size' = [size EXCEPT ![link] = n]
    BY <1>2 DEF Grow
  <2>2. link \in Inodes
    BY <1>2, LimitsAssumption DEF Grow, ServiceInv, HostInv, Inodes
  <2>3. n \in 0 .. MaxSize /\ n > size[link]
    BY <1>1, <2>1, <2>2, LimitsAssumption
  <2>4. QED
    BY <1>2, <2>1, <2>3, ResizedServes DEF Grow, Changes
<1>3. CASE CopyTruncate
  <2>1. 0 \in 0 .. MaxSize
    BY LimitsAssumption
  <2>2. QED
    BY <1>3, <2>1, ResizedServes DEF CopyTruncate, Changes
<1>4. CASE Remove
  <2>1. /\ present' \in [Handlers -> SUBSET Entries]
        /\ \A h \in Handlers :
             present'[h] \subseteq present[h] /\ "log" \notin present'[h]
    BY <1>4 DEF Remove, ServiceInv, WorkInv
  <2>2. 0 \in 0 .. MaxInodes
    BY LimitsAssumption
  <2>3. QED
    BY <1>4, <2>1, <2>2, RelinkedServes DEF Remove, Changes
<1>5. CASE Create
  <2>1. PICK i \in Inodes : link' = i
    BY <1>5 DEF Create
  <2>2. i \in 0 .. MaxInodes /\ i # 0
    BY LimitsAssumption DEF Inodes
  <2>3. present' = present /\ sizes' = sizes
    BY <1>5 DEF Create, ghosts
  <2>4. present \in [Handlers -> SUBSET Entries]
    BY DEF ServiceInv, WorkInv
  <2>5. QED
    BY <1>5, <2>1, <2>2, <2>3, <2>4, RelinkedServes DEF Create, Changes
<1>6. QED
  BY <1>2, <1>3, <1>4, <1>5 DEF Host

LEMMA ServiceSteps ==
  ASSUME ServiceInv, [Next]_vars
  PROVE  ServiceInv'
<1>1. ASSUME NEW h \in Handlers, Arrive(h)
      PROVE  ServiceInv'
  BY <1>1, DismissalsServe, BeginServes DEF Arrive
<1>2. ASSUME NEW h \in Handlers, Serve(h)
      PROVE  ServiceInv'
  <2>1. CASE resolveAllowedPath(h) \/ FileFails(h) \/ filesystemStat(h)
    BY <2>1, ResolveServes, FailsServe, StatServes
  <2>2. CASE ReadDir(h) \/ ListEntries(h)
    BY <2>2, ReadDirServes, ListServes
  <2>3. CASE Open(h) \/ TailSeek(h) \/ ReadChunk(h)
    BY <2>3, OpenServes, SeekServes, ChunkServes
  <2>4. CASE ReadReturns(h) \/ TailReturns(h)
    BY <2>4, ReadServes, TailServes
  <2>5. CASE \/ Lock(h) \/ WriteLine(h) \/ WriteNewline(h) \/ RecordFails(h)
             \/ Reply(h)
    BY <2>5, RecordingServes
  <2>6. QED
    BY <1>2, <2>1, <2>2, <2>3, <2>4, <2>5 DEF Serve
<1>3. CASE Restart
  BY <1>3, RestartServes
<1>4. CASE Host
  BY <1>4, HostServes
<1>5. CASE UNCHANGED vars
  <2>1. \A h \in Handlers : HandlerInv(h)'
    BY <1>5, OthersKeep DEF vars, ServiceInv
  <2>2. QED
    BY <1>5, <2>1 DEF ServiceInv, HostInv, WorkInv, vars, Listing, Names
<1>6. QED
  BY <1>1, <1>2, <1>3, <1>4, <1>5 DEF Next, Idle

LEMMA ServiceStarts ==
  ASSUME Init
  PROVE  ServiceInv
<1>1. HostInv
  BY LimitsAssumption DEF Init, HostInv, Inodes
<1>2. WorkInv
  BY BlanksAre DEF Init, WorkInv, States
<1>3. \A h \in Handlers : HandlerInv(h)
  BY DEF Init, HandlerInv, AccessInv, FileInv, ReadInv, EmptiedInv, ListingInv,
         ResultInv, Opened, Working, Decided
<1>4. QED
  BY <1>1, <1>2, <1>3 DEF ServiceInv

LEMMA Served == Spec => []ServiceInv
BY ServiceStarts, ServiceSteps, PTL DEF Spec

(* Whatever the requests, the configured limits and the changes of the      *)
(* host: every variable stays in its range, a file is open on an inode      *)
(* there is, no more is read of it than was asked for, and exactly the      *)
(* handler inside Record holds the lock.                                    *)
THEOREM AgentTyped == Spec => []TypeOK
<1>1. ASSUME ServiceInv, AuditInv PROVE TypeOK
  BY <1>1 DEF ServiceInv, AuditInv, HostInv, WorkInv, HandlerInv, FileInv,
              ShapeInv, LockInv, Chunks, TypeOK
<1>2. QED
  BY <1>1, Served, Audits, PTL

(* A listing or a read that is not marked truncated leaves nothing out,     *)
(* wherever the configured maximum cuts, however the read is split into     *)
(* pieces and however the log grows, is emptied or rotated between any two  *)
(* of them (service.go:197-198, 295-304).                                   *)
THEOREM ResultsAreWhole == Spec => []UnmarkedResultIsWhole
<1>1. ASSUME ServiceInv PROVE UnmarkedResultIsWhole
  <2>1. \A h \in Handlers : pc[h] = "answered" => WholeResult(h)
    BY <1>1 DEF ServiceInv, HandlerInv, ResultInv, Decided
  <2>2. QED
    BY <2>1 DEF UnmarkedResultIsWhole, WholeResult, Found, Evidence
<1>2. QED
  BY <1>1, Served, PTL

(* A tail marked truncated is the last bytes the file had at some moment of *)
(* the request, as many as the limit, unless it was emptied meanwhile       *)
(* (service.go:336-346).                                                    *)
THEOREM TailsEnd == Spec => []MarkedTailIsTheEnd
<1>1. ASSUME ServiceInv PROVE MarkedTailIsTheEnd
  <2>1. \A h \in Handlers : pc[h] = "answered" => TailResult(h)
    BY <1>1 DEF ServiceInv, HandlerInv, ResultInv, Decided
  <2>2. QED
    BY <2>1 DEF MarkedTailIsTheEnd, TailResult, Found, Evidence
<1>2. QED
  BY <1>1, Served, PTL

(* For any tokens, operations, roots and links: what a file operation found *)
(* goes only to a caller with a configured token, for an enabled operation, *)
(* about a path that resolves below an allowed root (handler.go:41-59,      *)
(* service.go:88-91, paths.go:17-32).                                       *)
THEOREM OnlyPermitted == Spec => []EvidenceIsPermitted
<1>1. ASSUME ServiceInv PROVE EvidenceIsPermitted
  <2>1. ASSUME NEW h \in Handlers, NEW operation \in FileOperations,
               Evidence(h, operation)
        PROVE  Authorized(h) /\ BelowRoot(h) /\ req[h].operation = operation
    BY <1>1, <2>1 DEF ServiceInv, HandlerInv, ResultInv, Decided, Evidence
  <2>2. QED
    BY <2>1 DEF EvidenceIsPermitted, Authorized, BelowRoot
<1>2. QED
  BY <1>1, Served, PTL

-----------------------------------------------------------------------------
(* Fragments.                                                               *)

\* The record of g was cut short, after the step.
TornNext(g) ==
  \/ pc'[g] = "lost"
  \/ pc'[g] \in {"replying", "answered"} /\ resp'[g].status = 503

LEMMA WritersAre ==
  ASSUME ShapeInv
  PROVE  \A i \in 1 .. Len(audit) : audit[i].by \in Handlers
<1>1. \A i \in 1 .. Len(audit) : audit[i] \in Chunks
  BY DEF ShapeInv
<1>2. QED
  BY <1>1 DEF Chunks

LEMMA FragmentsStay ==
  ASSUME ShapeInv, FragmentInv, UNCHANGED audit,
         \A g \in Handlers : Torn(g) => TornNext(g),
         \A g \in Handlers : pc[g] = "written"
           => pc'[g] = "written" \/ TornNext(g)
  PROVE  FragmentInv'
BY WritersAre DEF FragmentInv, Chunk, Torn, TornNext

LEMMA LineFragments ==
  ASSUME AuditInv, FragmentInv, NEW h \in Handlers, WriteLine(h)
  PROVE  FragmentInv'
<1>1. /\ pc' \in [Handlers -> States] /\ pc'[h] = "written"
      /\ pc[h] = "writing" /\ resp' = resp
      /\ \A g \in Handlers \ {h} : pc'[g] = pc[g]
  BY DEF WriteLine, AuditInv, ShapeInv, States
<1>2. /\ Len(audit') = Len(audit) + 1 /\ Len(audit) \in Nat
      /\ audit'[Len(audit) + 1] = Chunk(h, "line")
      /\ \A i \in 1 .. Len(audit) : audit'[i] = audit[i]
      /\ \A i \in 1 .. Len(audit) : audit[i].by \in Handlers
  BY WritersAre DEF WriteLine, AuditInv, ShapeInv, Chunks, Chunk
<1>3. \A g \in Handlers : (Torn(g) => TornNext(g)) /\ pc[g] # "written"
  <2>1. \A g \in Handlers : pc[g] # "written"
    BY <1>1 DEF AuditInv, LockInv
  <2>2. \A g \in Handlers : Torn(g) => TornNext(g)
    BY <1>1 DEF Torn, TornNext
  <2>3. QED
    BY <2>1, <2>2
<1>4. ASSUME NEW i \in 1 .. Len(audit)
      PROVE  /\ audit'[i].part = "newline" =>
                  i > 1 /\ audit'[i - 1] = Chunk(audit'[i].by, "line")
             /\ audit'[i].part = "line" =>
                  \/ i < Len(audit')
                     /\ audit'[i + 1] = Chunk(audit'[i].by, "newline")
                  \/ TornNext(audit'[i].by)
  <2>1. audit'[i] = audit[i] /\ audit[i].by \in Handlers
    BY <1>2
  <2>2. i > 1 => audit'[i - 1] = audit[i - 1]
    BY <1>2
  <2>3. i < Len(audit) => audit'[i + 1] = audit[i + 1] /\ i < Len(audit')
    BY <1>2
  <2>4. Torn(audit[i].by) => TornNext(audit'[i].by)
    BY <1>3, <2>1
  <2>5. QED
    BY <1>3, <2>1, <2>2, <2>3, <2>4 DEF FragmentInv
<1>5. audit'[Len(audit')].part = "line" /\ audit'[Len(audit')].by = h
  BY <1>2 DEF Chunk
<1>6. ASSUME NEW i \in 1 .. Len(audit')
      PROVE  i \in 1 .. Len(audit) \/ i = Len(audit')
  BY <1>2
<1>7. QED
  BY <1>1, <1>4, <1>5, <1>6 DEF FragmentInv, Torn, TornNext

LEMMA NewlineFragments ==
  ASSUME AuditInv, FragmentInv, NEW h \in Handlers, WriteNewline(h)
  PROVE  FragmentInv'
<1>1. /\ pc[h] = "written" /\ resp' = resp
      /\ \A g \in Handlers \ {h} : pc'[g] = pc[g]
  BY DEF WriteNewline, AuditInv, ShapeInv
<1>2. /\ Len(audit') = Len(audit) + 1 /\ Len(audit) \in Nat
      /\ audit'[Len(audit) + 1] = Chunk(h, "newline")
      /\ \A i \in 1 .. Len(audit) : audit'[i] = audit[i]
      /\ \A i \in 1 .. Len(audit) : audit[i].by \in Handlers
  BY WritersAre DEF WriteNewline, AuditInv, ShapeInv, Chunks, Chunk
<1>3. Len(audit) > 0 /\ audit[Len(audit)] = Chunk(h, "line")
  BY <1>1 DEF AuditInv, LastInv
<1>4. \A g \in Handlers : Torn(g) => TornNext(g)
  BY <1>1 DEF Torn, TornNext
<1>5. ASSUME NEW i \in 1 .. Len(audit)
      PROVE  /\ audit'[i].part = "newline" =>
                  i > 1 /\ audit'[i - 1] = Chunk(audit'[i].by, "line")
             /\ audit'[i].part = "line" =>
                  \/ i < Len(audit')
                     /\ audit'[i + 1] = Chunk(audit'[i].by, "newline")
                  \/ TornNext(audit'[i].by)
  <2>1. audit'[i] = audit[i] /\ audit[i].by \in Handlers
    BY <1>2
  <2>2. i > 1 => audit'[i - 1] = audit[i - 1]
    BY <1>2
  <2>3. i < Len(audit) => audit'[i + 1] = audit[i + 1] /\ i < Len(audit')
    BY <1>2
  <2>4. Torn(audit[i].by) => TornNext(audit'[i].by)
    BY <1>4, <2>1
  <2>5. i = Len(audit) =>
          i < Len(audit') /\ audit'[i + 1] = Chunk(audit'[i].by, "newline")
    BY <1>2, <1>3, <2>1 DEF Chunk
  <2>6. QED
    BY <2>1, <2>2, <2>3, <2>4, <2>5 DEF FragmentInv
<1>6. LET n == Len(audit')
      IN /\ audit'[n].part = "newline" /\ n > 1
         /\ audit'[n - 1] = Chunk(audit'[n].by, "line")
  <2>1. Len(audit') - 1 = Len(audit) /\ Len(audit) \in 1 .. Len(audit)
    BY <1>2, <1>3
  <2>2. audit'[Len(audit)] = Chunk(h, "line")
    BY <1>2, <1>3, <2>1
  <2>3. QED
    BY <1>2, <1>3, <2>1, <2>2 DEF Chunk
<1>7. ASSUME NEW i \in 1 .. Len(audit')
      PROVE  i \in 1 .. Len(audit) \/ i = Len(audit')
  BY <1>2
<1>8. QED
  BY <1>5, <1>6, <1>7 DEF FragmentInv, Torn, TornNext

LEMMA FragmentSteps ==
  ASSUME AuditInv, FragmentInv, [Next]_vars
  PROVE  FragmentInv'
<1> USE DEF AuditInv
<1>1. ASSUME NEW h \in Handlers, NEW To, Moves(h, To)
      PROVE  FragmentInv'
  <2>1. /\ UNCHANGED audit /\ pc[h] \in Early
        /\ \A g \in Handlers \ {h} : pc'[g] = pc[g] /\ resp'[g] = resp[g]
    BY <1>1 DEF Moves, ShapeInv
  <2>2. \A g \in Handlers : Torn(g) => TornNext(g)
    BY <2>1 DEF Torn, TornNext, Early
  <2>3. \A g \in Handlers : pc[g] = "written" => pc'[g] = "written"
    BY <2>1 DEF Early
  <2>4. QED
    BY <2>1, <2>2, <2>3, FragmentsStay
<1>2. ASSUME NEW h \in Handlers, Arrive(h)
      PROVE  FragmentInv'
  BY <1>1, <1>2, DismissalSteps, ArrivalSteps DEF Arrive
<1>3. ASSUME NEW h \in Handlers, Lock(h) \/ Reply(h)
      PROVE  FragmentInv'
  <2>1. /\ UNCHANGED <<audit, resp>>
        /\ \A g \in Handlers \ {h} : pc'[g] = pc[g]
        /\ \/ pc[h] = "auditing" /\ pc'[h] = "writing"
           \/ pc[h] = "replying" /\ pc'[h] = "answered"
    BY <1>3 DEF Lock, Reply, ShapeInv
  <2>2. \A g \in Handlers : Torn(g) => TornNext(g)
    BY <2>1 DEF Torn, TornNext
  <2>3. \A g \in Handlers : pc[g] = "written" => pc'[g] = "written"
    BY <2>1
  <2>4. QED
    BY <2>1, <2>2, <2>3, FragmentsStay
<1>4. ASSUME NEW h \in Handlers, RecordFails(h)
      PROVE  FragmentInv'
  <2>1. /\ UNCHANGED audit /\ pc[h] \in {"writing", "written"}
        /\ pc'[h] = "replying" /\ resp'[h].status = 503
        /\ \A g \in Handlers \ {h} : pc'[g] = pc[g] /\ resp'[g] = resp[g]
    BY <1>4 DEF RecordFails, Responds, ShapeInv, Error, NoResponse
  <2>2. \A g \in Handlers : Torn(g) => TornNext(g)
    BY <2>1 DEF Torn, TornNext
  <2>3. \A g \in Handlers : pc[g] = "written"
          => pc'[g] = "written" \/ TornNext(g)
    BY <2>1 DEF Torn, TornNext
  <2>4. QED
    BY <2>1, <2>2, <2>3, FragmentsStay
<1>5. ASSUME NEW h \in Handlers, Serve(h)
      PROVE  FragmentInv'
  <2>1. CASE \/ resolveAllowedPath(h) \/ FileFails(h) \/ filesystemStat(h)
             \/ ReadDir(h) \/ ListEntries(h) \/ Open(h) \/ TailSeek(h)
             \/ ReadChunk(h) \/ ReadReturns(h) \/ TailReturns(h)
    BY <1>1, <2>1, EarlySteps
  <2>2. QED
    BY <1>3, <1>4, <1>5, <2>1, LineFragments, NewlineFragments DEF Serve
<1>6. CASE Restart
  <2>1. /\ UNCHANGED <<audit, resp>>
        /\ \A g \in Handlers : pc'[g] = IF pc[g] \in {"idle", "answered"}
                                        THEN pc[g] ELSE "lost"
    BY <1>6 DEF Restart
  <2>2. \A g \in Handlers : Torn(g) => TornNext(g)
    BY <2>1 DEF Torn, TornNext
  <2>3. \A g \in Handlers : pc[g] = "written" => TornNext(g)
    BY <2>1 DEF Torn, TornNext
  <2>4. QED
    BY <2>1, <2>2, <2>3, FragmentsStay
<1>7. CASE Host \/ Idle \/ UNCHANGED vars
  <2>1. UNCHANGED <<pc, resp, audit>>
    BY <1>7 DEF Host, Grow, CopyTruncate, Remove, Create, Idle, vars
  <2>2. \A g \in Handlers : Torn(g) => TornNext(g)
    BY <2>1 DEF Torn, TornNext
  <2>3. QED
    BY <2>1, <2>2, FragmentsStay
<1>8. QED
  BY <1>2, <1>5, <1>6, <1>7 DEF Next

(* For any number of handlers, short writes and restarts: a record that was *)
(* returned and cannot be read back on its own follows directly on the      *)
(* fragment of a request whose result was withheld or never sent            *)
(* (audit.go:63-69).                                                        *)
THEOREM OneFragmentOneRecord == Spec => []TornLineSpoilsOneRecord
<1>1. ASSUME AuditInv, FragmentInv PROVE TornLineSpoilsOneRecord
  <2> SUFFICES ASSUME NEW h \in Returned \ Readable
               PROVE  \E i \in 2 .. Len(audit) :
                        /\ audit[i] = Chunk(h, "line")
                        /\ audit[i - 1].part = "line"
                        /\ LET torn == audit[i - 1].by
                           IN pc[torn] = "lost" \/ resp[torn].status = 503
    BY DEF TornLineSpoilsOneRecord
  <2>1. h \in Handlers /\ h \in Recorded
    BY <1>1 DEF AuditInv, ReplyInv, Returned, Audited
  <2>2. PICK i \in 1 .. Len(audit) - 1 :
          audit[i] = Chunk(h, "line") /\ audit[i + 1] = Chunk(h, "newline")
    BY <2>1 DEF Recorded
  <2>3. i > 1 /\ audit[i - 1].part # "newline"
    BY <2>1, <2>2 DEF Readable
  <2>4. Len(audit) \in Nat /\ \A j \in 1 .. Len(audit) : audit[j] \in Chunks
    BY <1>1 DEF AuditInv, ShapeInv
  <2>5. i \in 2 .. Len(audit) /\ i - 1 \in 1 .. Len(audit) /\ i - 1 < Len(audit)
    BY <2>2, <2>3, <2>4
  <2>6. audit[i - 1].part = "line"
    BY <2>3, <2>4, <2>5 DEF Chunks
  <2>7. Torn(audit[i - 1].by)
    <3>1. audit[i - 1 + 1] # Chunk(audit[i - 1].by, "newline")
      BY <2>2, <2>5 DEF Chunk
    <3>2. QED
      BY <1>1, <2>5, <2>6, <3>1 DEF FragmentInv
  <2>8. QED
    BY <2>2, <2>5, <2>6, <2>7 DEF Torn
<1>2. Init => FragmentInv
  BY DEF Init, FragmentInv
<1>3. AuditInv /\ FragmentInv /\ [Next]_vars => FragmentInv'
  BY FragmentSteps
<1>4. QED
  BY <1>1, <1>2, <1>3, Audits, PTL DEF Spec

=============================================================================
