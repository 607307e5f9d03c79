--------------------------- MODULE AuditContract ---------------------------
(***************************************************************************)
(* What the endpoint agent promises of its audit file: a caller is handed  *)
(* a result only when the record of it is there, and what is recorded or   *)
(* handed over stays so.                                                   *)
(***************************************************************************)
CONSTANT Callers

VARIABLES
  recorded,  \* callers with a complete record
  returned   \* callers that were handed their result

vars == <<recorded, returned>>

Init == recorded = {} /\ returned = {}

Record(c) ==
  /\ c \in Callers \ recorded
  /\ recorded' = recorded \cup {c}
  /\ UNCHANGED returned

Return(c) ==
  /\ c \in recorded \ returned
  /\ returned' = returned \cup {c}
  /\ UNCHANGED recorded

Next == \E c \in Callers : Record(c) \/ Return(c)

Spec == Init /\ [][Next]_vars

=============================================================================
