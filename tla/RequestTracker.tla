--------------------------- MODULE RequestTracker ---------------------------
(***************************************************************************)
(* The Request Tracker connector, rt.go: a page of the newest open         *)
(* tickets with the count of all that match, one count per configured      *)
(* queue, one per owner met on the page.  A ticket is [id, host, at,       *)
(* queue, owner], ids in the order of creation; closing one removes it.    *)
(* Owner Absent is a ticket that came without one.                         *)
(***************************************************************************)
EXTENDS Connector

CONSTANTS
  QueueCensus, \* maxRTQueueCensus
  OwnerCensus  \* maxRTOwnerCensus

ASSUME OwnerCensusAssumption == OwnerCensus \in Nat \ {0}

OpenTickets(s, R) ==
  {t \in R : s.host \in {0, t.host} /\ InWindow(s, t) /\ t.queue \in {site.queues[i] : i \in DOMAIN site.queues}}

Newest(a, b) == a.id > b.id

Owners(page) == {t.owner : t \in page} \ {Absent}

\* The owner that is met on the page after i - 1 others.
Met(page, i) ==
  LET Latest(o) == Max({t.id : t \in {u \in page : u.owner = o}})
      Before(o) == {p \in Owners(page) : Latest(p) > Latest(o)}
  IN  CHOOSE o \in Owners(page) : Cardinality(Before(o)) = i - 1

ownersOnPage(page) == [i \in 1..Cardinality(Owners(page)) |-> Met(page, i)]

Asked(owners) == SubSeq(owners, 1, Min({Len(owners), OwnerCensus}))

Table(e, name) == IF name \in DOMAIN e.breakdown THEN e.breakdown[name] ELSE EmptyTable

\* Only a count above zero enters its table.
Counted(e, name, key, n) ==
  LET t == IF n > 0 THEN Over(Entry(key, n), Table(e, name)) ELSE Table(e, name)
  IN  [e EXCEPT !.breakdown = Over(Entry(name, t), @)]

\* The owners' counts come after the queues', when the page has owners.
ToOwners(e) ==
  LET owners == Asked(ownersOnPage(e.items))
  IN  /\ todo' = owners
      /\ Continue(e, IF owners = <<>> THEN "idle" ELSE "owner")

\* Mutant: owners beyond those counted are reported by the cap alone.
OwnerWarningsNoFloor(e) ==
  {w \in {"owners capped"} : Len(ownersOnPage(e.items)) > OwnerCensus}

\* The counts of a table added up: as many as there are pairs of a key and a
\* number within its count.
Accounted(table) == Cardinality(UNION {{k} \X (1..table[k]) : k \in DOMAIN table})

OwnerWarnings(e) ==
  LET accounted == Accounted(Table(e, "tickets_by_owner"))
  IN  IF Len(ownersOnPage(e.items)) > OwnerCensus THEN {"owners capped"}
      ELSE {w \in {"owners are a floor"} : accounted < e.total}

-----------------------------------------------------------------------------
\* search: one reply holds the page and the total.
RTSearch ==
  /\ pc = "search"
  /\ LET M == OpenTickets(step, rows)
     IN  \E page \in Top(M, step.limit, Newest) :
           LET e == Judged(Page(page), Cardinality(M))
           IN  IF Len(site.queues) > QueueCensus
               THEN ToOwners(Warned(e, {"queues not counted"}))
               ELSE todo' = site.queues /\ Continue(e, "queue")
  /\ UNCHANGED token

\* One round of queueCensus.
RTQueue ==
  /\ pc = "queue"
  /\ LET n == Cardinality({t \in OpenTickets(step, rows) : t.queue = Head(todo)})
         e == Counted(evidence, "tickets_by_queue", Head(todo), n)
     IN  IF Len(todo) = 1 THEN ToOwners(e) ELSE todo' = Tail(todo) /\ Continue(e, "queue")
  /\ UNCHANGED token

\* Mutant: an owner's tickets are counted in every queue, at any time.
RTOwnerEverywhere ==
  /\ pc = "owner"
  /\ LET n == Cardinality({t \in rows : t.owner = Head(todo)})
         e == Counted(evidence, "tickets_by_owner", Head(todo), n)
     IN  IF Len(todo) = 1 THEN Answer(Warned(e, OwnerWarnings(e))) ELSE Continue(e, "owner")
  /\ todo' = Tail(todo)
  /\ UNCHANGED token

\* One round of ownerCensus; after the last, the table is judged complete
\* when its counts add up to the total the page came with.
RTOwner ==
  /\ pc = "owner"
  /\ LET n == Cardinality({t \in OpenTickets(step, rows) : t.owner = Head(todo)})
         e == Counted(evidence, "tickets_by_owner", Head(todo), n)
     IN  IF Len(todo) = 1 THEN Answer(Warned(e, OwnerWarnings(e))) ELSE Continue(e, "owner")
  /\ todo' = Tail(todo)
  /\ UNCHANGED token

RTStep == RTSearch \/ RTQueue \/ RTOwner
=============================================================================
