---------------------------- MODULE DomainLedger ----------------------------
(***************************************************************************)
(* Two facades of the project database that write a document and an event  *)
(* in separate transactions: storage/domain_store.py (portfolio snapshots, *)
(* candidates, execution evidence) and storage/change_ledger.py (managed   *)
(* changes).  An event is inserted once by its id; the latest document is  *)
(* put with the version read before.  On PostgreSQL the put of a document  *)
(* that does not exist yet locks nothing between its SELECT and its upsert *)
(* (see VersionedDocument).  A process may die between two transactions.   *)
(***************************************************************************)
EXTENDS Integers, Sequences, FiniteSets, TLC

CONSTANTS Actors,     \* processes and threads that use the stores
          Backend,    \* "sqlite" or "postgresql"
          Seeded,     \* TRUE: the documents exist already
          Times,      \* captured_at_ms of snapshots and revisions of evidence
          Values,     \* contents
          Kinds,      \* operations of the instance
          MaxTries,   \* range(3) of the monotonic update
          MaxOps, MaxCrashes

VARIABLES doc,      \* the documents: version and content, version 0 when there is none
          events,   \* event id -> content
          op,       \* operation of each actor
          ops, crashes,
          log       \* ghost: operations that returned
vars == <<doc, events, op, ops, crashes, log>>

Statuses == {"planned", "applied", "verified", "failed", "rolled_back"}
Transitions == [s \in Statuses |->
    CASE s = "planned" -> {"applied", "failed", "rolled_back"}
      [] s = "applied" -> {"verified", "failed", "rolled_back"}
      [] s = "verified" -> {"rolled_back"}
      [] s = "failed" -> {"planned", "rolled_back"}
      [] OTHER -> {}]

Idle == [pc |-> "idle"]
None == [none |-> TRUE]
Docs == {"portfolio", "candidate", "change"}
First(d) == CASE d = "portfolio" -> [at |-> 2, value |-> 0] [] d = "change" -> "planned" [] OTHER -> 0
Init ==
    /\ doc = [d \in Docs |-> IF Seeded THEN [version |-> 1, value |-> First(d)] ELSE [version |-> 0, value |-> None]]
    /\ events = IF Seeded THEN [e \in {<<"portfolio", 2>>, <<"change", 1>>, <<"candidate", 1>>} |-> First(e[1])]
                ELSE [e \in {} |-> None]
    /\ op = [a \in Actors |-> Idle] /\ ops = 0 /\ crashes = 0 /\ log = {}

Goto(a, pc) == op' = [op EXCEPT ![a].pc = pc]
Start(a, kind, pc, arg) ==
    /\ kind \in Kinds /\ op[a] = Idle /\ ops < MaxOps
    /\ ops' = ops + 1
    /\ op' = [op EXCEPT ![a] = [kind |-> kind, pc |-> pc, arg |-> arg, base |-> 0, tries |-> 0, id |-> ops + 1]]
    /\ UNCHANGED <<doc, events, crashes, log>>

SaveSnapshot(a) == \E t \in Times, v \in Values : Start(a, "snapshot", "event", [at |-> t, value |-> v])
SaveCandidate(a) == \E v \in Values : Start(a, "candidate", "put", v)
SaveEvidence(a) == \E t \in Times, v \in Values : Start(a, "evidence", "event", [at |-> t, value |-> v])
CreateChange(a) == Start(a, "create", "put", "planned")
SetStatus(a) == \E s \in Statuses : Start(a, "status", "get", s)

End(a, ok) ==
    /\ op' = [op EXCEPT ![a] = Idle]
    /\ log' = IF ok THEN log \cup {[id |-> op[a].id, kind |-> op[a].kind, arg |-> op[a].arg]} ELSE log
DocOf(kind) == CASE kind = "snapshot" -> "portfolio" [] kind = "candidate" -> "candidate" [] OTHER -> "change"
-----------------------------------------------------------------------------
EventId(a) ==
    LET o == op[a] IN
    CASE o.kind = "snapshot" -> <<"portfolio", o.arg.at>>
      [] o.kind = "evidence" -> <<"execution", o.arg.at>>
      [] o.kind = "candidate" -> <<"candidate", o.base + 1>>
      [] OTHER -> <<"change", o.id, o.base + 1>>

\* _append_event_idempotent: a repeated event is accepted only with the same content.
AppendIdempotent(a) ==
    /\ op[a].pc = "event" /\ op[a].kind \in {"snapshot", "evidence"}
    /\ IF EventId(a) \in DOMAIN events /\ events[EventId(a)] # op[a].arg
       THEN End(a, FALSE) /\ UNCHANGED events
       ELSE /\ events' = events @@ (EventId(a) :> op[a].arg)
            /\ IF op[a].kind = "snapshot" THEN Goto(a, "get") /\ UNCHANGED log ELSE End(a, TRUE)
    /\ UNCHANGED <<doc, ops, crashes>>

\* append_event: a repeated id raises.
AppendEvent(a) ==
    /\ op[a].pc = "event" /\ op[a].kind \in {"candidate", "create", "status"}
    /\ IF EventId(a) \in DOMAIN events THEN End(a, FALSE) /\ UNCHANGED events
       ELSE events' = events @@ (EventId(a) :> op[a].arg) /\ End(a, TRUE)
    /\ UNCHANGED <<doc, ops, crashes>>

\* A snapshot replaces the latest only if it is strictly newer.
Newer(a) == doc["portfolio"].version = 0 \/ op[a].arg.at > doc["portfolio"].value.at
GetLatest(a) ==
    /\ op[a].pc = "get" /\ op[a].kind = "snapshot"
    /\ IF Newer(a) THEN /\ op' = [op EXCEPT ![a].pc = "put", ![a].base = doc["portfolio"].version]
                        /\ UNCHANGED log
       ELSE End(a, TRUE)
    /\ UNCHANGED <<doc, events, ops, crashes>>

Allowed(from, to) == from = to \/ to \in Transitions[from]
\* set_status reads the change and checks the transition.
GetChange(a) ==
    /\ op[a].pc = "get" /\ op[a].kind = "status"
    /\ IF doc["change"].version = 0 \/ ~Allowed(doc["change"].value, op[a].arg) THEN End(a, FALSE)
       ELSE op' = [op EXCEPT ![a].pc = "put", ![a].base = doc["change"].version] /\ UNCHANGED log
    /\ UNCHANGED <<doc, events, ops, crashes>>

\* expected_version: none for a candidate, 0 for a new change, else the version read.
Expected(a) == IF op[a].kind = "candidate" THEN doc[DocOf(op[a].kind)].version
               ELSE IF op[a].kind = "create" THEN 0 ELSE op[a].base
AfterPut(a, version) ==
    IF op[a].kind = "snapshot" THEN End(a, TRUE)
    ELSE op' = [op EXCEPT ![a].pc = "event", ![a].base = version - 1] /\ UNCHANGED log
\* A conflict is taken for a newer snapshot of another writer.
ConflictReturns(a) == End(a, op[a].kind = "snapshot")
Conflict(a) ==
    IF op[a].kind = "snapshot" /\ op[a].tries + 1 < MaxTries
    THEN op' = [op EXCEPT ![a].pc = "get", ![a].tries = @ + 1] /\ UNCHANGED log
    ELSE End(a, FALSE)

\* put_json: one transaction, except that on PostgreSQL the SELECT ... FOR UPDATE of a
\* missing row locks nothing and the upsert follows by itself.
Put(a) ==
    /\ op[a].pc = "put"
    /\ LET d == DocOf(op[a].kind) IN
       IF Expected(a) # doc[d].version THEN Conflict(a) /\ UNCHANGED doc
       ELSE IF Backend = "postgresql" /\ doc[d].version = 0 THEN Goto(a, "upsert") /\ UNCHANGED <<doc, log>>
       ELSE /\ doc' = [doc EXCEPT ![d] = [version |-> doc[d].version + 1, value |-> op[a].arg]]
            /\ AfterPut(a, doc[d].version + 1)
    /\ UNCHANGED <<events, ops, crashes>>
Upsert(a) ==
    /\ op[a].pc = "upsert"
    /\ doc' = [doc EXCEPT ![DocOf(op[a].kind)] = [version |-> 1, value |-> op[a].arg]]
    /\ AfterPut(a, 1)
    /\ UNCHANGED <<events, ops, crashes>>

Crash(a) ==
    /\ op[a] # Idle /\ crashes < MaxCrashes
    /\ crashes' = crashes + 1 /\ op' = [op EXCEPT ![a] = Idle]
    /\ UNCHANGED <<doc, events, ops, log>>

Next == \E a \in Actors :
    \/ SaveSnapshot(a) \/ SaveCandidate(a) \/ SaveEvidence(a) \/ CreateChange(a) \/ SetStatus(a)
    \/ AppendIdempotent(a) \/ AppendEvent(a) \/ GetLatest(a) \/ GetChange(a) \/ Put(a) \/ Upsert(a) \/ Crash(a)
Spec == Init /\ [][Next]_vars
-----------------------------------------------------------------------------
LatestStep ==
    doc["portfolio"].version > 0 => doc'["portfolio"].value.at >= doc["portfolio"].value.at

\* A snapshot that was saved is covered: the latest portfolio is as new, and the
\* snapshot's own event is stored with its content (domain_store.py:122-166).
SavedCovered ==
    \A r \in log : r.kind = "snapshot" =>
        /\ doc["portfolio"].version > 0 /\ doc["portfolio"].value.at >= r.arg.at
        /\ <<"portfolio", r.arg.at>> \in DOMAIN events /\ events[<<"portfolio", r.arg.at>>] = r.arg

\* The latest portfolio is always one whose evidence is stored, also after a death
\* between the two transactions (domain_store.py:137-145).
LatestEvidenced ==
    doc["portfolio"].version > 0 => /\ <<"portfolio", doc["portfolio"].value.at>> \in DOMAIN events
                                    /\ events[<<"portfolio", doc["portfolio"].value.at>>] = doc["portfolio"].value

\* An event is never rewritten, and execution evidence that was accepted is the one
\* stored ("event_id collision with different evidence", domain_store.py:229-265).
EvidenceStands ==
    [][\A e \in DOMAIN events : e \in DOMAIN events' /\ events'[e] = events[e]]_vars

\* A change moves through its life cycle along the declared transitions only, whatever
\* two actors read before they write (change_ledger.py:21-27, 106-134).
LegalLife ==
    [][doc["change"].version > 0 /\ doc'["change"] # doc["change"] =>
          /\ doc'["change"].version = doc["change"].version + 1
          /\ \/ doc'["change"].value = doc["change"].value
             \/ doc'["change"].value \in Transitions[doc["change"].value]]_vars

\* "Create a planned change and reject duplicate identifiers" (change_ledger.py:48).
DuplicatesRejected == Cardinality({r \in log : r.kind = "create"}) <= 1

\* Every state of a change is backed by its event: as many events as versions, but for
\* operations still under way (change_ledger.py:1, 157-165).
HistoryComplete ==
    Cardinality({e \in DOMAIN events : e[1] = "change"})
    + Cardinality({a \in Actors : op[a].pc = "event" /\ op[a].kind \in {"create", "status"}}) >= doc["change"].version
=============================================================================
