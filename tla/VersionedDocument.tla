-------------------------- MODULE VersionedDocument --------------------------
(***************************************************************************)
(* One document of storage/project_database.py under the update loop that  *)
(* the registry, the kill switch, the order store, the fill ledger and the *)
(* paper broker share: get_json, change, put_json with expected_version,   *)
(* and over again after a VersionConflict.                                 *)
(*                                                                         *)
(* put_json is one transaction: it selects the version, compares it with   *)
(* the expected one, and upserts.  On SQLite the transaction is opened     *)
(* with BEGIN IMMEDIATE and nobody else writes until it ends.  On          *)
(* PostgreSQL (READ COMMITTED) the select takes a row lock with FOR        *)
(* UPDATE; where there is no row yet it locks nothing.                     *)
(***************************************************************************)
EXTENDS Integers, FiniteSets

CONSTANTS Calls,            \* the calls of the loop, one per caller
          Backend,          \* "sqlite" or "postgresql"
          InitialVersion,   \* 0: there is no row yet
          MaxTries,         \* _update tries 5 times, trip 3 times
          NoCall            \* nobody holds the lock

ASSUME BackendIsKnown == Backend \in {"sqlite", "postgresql"}
ASSUME VersionsAreNatural == InitialVersion \in Nat /\ MaxTries \in Nat \ {0}
ASSUME NoCallIsNotACall == NoCall \notin Calls

VARIABLES version,   \* the row's version, 0 when there is none
          value,     \* the calls whose change the row carries
          lock,      \* the call that holds the row's lock, or NoCall
          pc,        \* where each call is
          base,      \* the version and value its last get_json returned
          tries      \* puts of each call that ended in a VersionConflict

vars == <<version, value, lock, pc, base, tries>>

Init ==
    /\ version = InitialVersion
    /\ value = {}
    /\ lock = NoCall
    /\ pc = [c \in Calls |-> "get"]
    /\ base = [c \in Calls |-> [version |-> 0, value |-> {}]]
    /\ tries = [c \in Calls |-> 0]

Goto(c, label) == pc' = [pc EXCEPT ![c] = label]

\* get_json, then the mutation, which may refuse the document and raise.
GetJson(c) ==
    /\ pc[c] = "get"
    /\ base' = [base EXCEPT ![c] = [version |-> version, value |-> value]]
    /\ \E label \in {"put", "raised"} : Goto(c, label)
    /\ UNCHANGED <<version, value, lock, tries>>

\* Mutant of Conflict: the limit is passed by one.
ConflictOnceMore(c) ==
    /\ tries' = [tries EXCEPT ![c] = @ + 1]
    /\ Goto(c, IF tries[c] < MaxTries THEN "get" ELSE "conflicted")
    /\ UNCHANGED <<version, value, lock, base>>

\* Mutant of Conflict: the first conflict ends the loop.
ConflictGivesUp(c) ==
    /\ tries' = [tries EXCEPT ![c] = @ + 1]
    /\ Goto(c, "conflicted")
    /\ UNCHANGED <<version, value, lock, base>>

\* The VersionConflict of a put: the loop starts over, or gives up.
Conflict(c) ==
    /\ tries' = [tries EXCEPT ![c] = @ + 1]
    /\ Goto(c, IF tries[c] + 1 < MaxTries THEN "get" ELSE "conflicted")
    /\ UNCHANGED <<version, value, lock, base>>

\* The upsert: the changed document at the next version.  (Whichever version
\* the row has by now: ON CONFLICT DO UPDATE does not compare it again.)
Write(c) ==
    /\ version' = base[c].version + 1
    /\ value' = base[c].value \cup {c}
    /\ Goto(c, "returned")
    /\ UNCHANGED <<base, tries>>

\* put_json inside BEGIN IMMEDIATE ... COMMIT.
PutSqlite(c) ==
    /\ Backend = "sqlite" /\ pc[c] = "put"
    /\ \/ base[c].version = version /\ Write(c) /\ UNCHANGED lock
       \/ base[c].version # version /\ Conflict(c)

\* FOR UPDATE locks the row that the select returned, if it returned one.
LockedBySelect(c) == IF version > 0 THEN c ELSE lock

\* Mutant of SelectForUpdate: the lock argument is left out.
SelectUnlocked(c) ==
    /\ Backend = "postgresql" /\ pc[c] = "put"
    /\ \/ base[c].version # version /\ Conflict(c)
       \/ /\ base[c].version = version
          /\ Goto(c, "upsert")
          /\ UNCHANGED <<version, value, lock, base, tries>>

\* SELECT version ... FOR UPDATE waits while another transaction holds the
\* row, then sees the last committed version.
SelectForUpdate(c) ==
    /\ Backend = "postgresql" /\ pc[c] = "put" /\ lock = NoCall
    /\ \/ base[c].version # version /\ Conflict(c)
       \/ /\ base[c].version = version
          /\ lock' = LockedBySelect(c)
          /\ Goto(c, "upsert")
          /\ UNCHANGED <<version, value, base, tries>>

\* The upsert and the commit that follows it at once.  An upsert that meets
\* a row inserted meanwhile waits for its commit and then overwrites it.
Upsert(c) ==
    /\ pc[c] = "upsert" /\ lock \in {c, NoCall}
    /\ Write(c)
    /\ lock' = NoCall

\* Mutant of Fail: the exception leaves the write behind.
FailKeepsWrite(c) ==
    /\ pc[c] \in {"get", "put", "upsert"}
    /\ Goto(c, "raised")
    /\ lock' = IF lock = c THEN NoCall ELSE lock
    /\ IF pc[c] = "upsert" /\ lock = c
       THEN version' = version + 1 /\ value' = base[c].value \cup {c}
       ELSE UNCHANGED <<version, value>>
    /\ UNCHANGED <<base, tries>>

\* The connection or the database fails: the transaction is rolled back and
\* the exception leaves the loop.
Fail(c) ==
    /\ pc[c] \in {"get", "put", "upsert"}
    /\ Goto(c, "raised")
    /\ lock' = IF lock = c THEN NoCall ELSE lock
    /\ UNCHANGED <<version, value, base, tries>>

Step(c) == \/ GetJson(c) \/ PutSqlite(c) \/ SelectForUpdate(c) \/ Upsert(c)
           \/ Fail(c)

Next == \E c \in Calls : Step(c)

Spec == Init /\ [][Next]_vars

TypeOK ==
    /\ version \in Nat
    /\ value \subseteq Calls
    /\ lock \in Calls \cup {NoCall}
    /\ pc \in [Calls -> {"get", "put", "upsert", "returned", "raised",
                         "conflicted"}]
    /\ base \in [Calls -> [version : Nat, value : SUBSET Calls]]
    /\ tries \in [Calls -> 0..MaxTries]

----------------------------------------------------------------------------
\* "Optimistic versions prevent concurrent lost updates": the change of a call
\* that returned is still in the document, whoever wrote after it.
NoLostUpdate == \A c \in Calls : pc[c] = "returned" => c \in value

\* The calls whose put was committed.
Returned == {c \in Calls : pc[c] = "returned"}

\* A call gives up for conflicts only when others got through: as many of
\* them returned as it tried.
ConflictMeansProgress ==
    \A c \in Calls :
        pc[c] = "conflicted" => Cardinality(Returned) >= MaxTries

\* The refinement mapping: what a caller sees of a call, and the document a
\* returned call's change was made from.
Outcome == [c \in Calls |-> CASE pc[c] = "returned" -> "returned"
                              [] pc[c] \in {"raised", "conflicted"} -> "raised"
                              [] OTHER -> "running"]

Basis == [c \in Calls |-> IF pc[c] = "returned" THEN base[c].value ELSE {}]

Atomic == INSTANCE AtomicDocument WITH outcome <- Outcome, basis <- Basis

\* The loop implements the atomic call: the document a returned call's change
\* was made from is the one it replaced, and a call that raised left no trace.
ImplementsAtomicDocument == Atomic!Spec

----------------------------------------------------------------------------
(* The inductive invariant of the proofs.                                  *)

\* The row can be locked whenever it is written: SQLite locks the database,
\* and a PostgreSQL row that exists has a lock of its own.
AlwaysLocked == Backend = "sqlite" \/ InitialVersion > 0

\* A call still in the loop has a try left.
TriesLeft ==
    \A c \in Calls :
        pc[c] \in {"get", "put", "upsert"} => tries[c] < MaxTries

\* Every version is one committed put.
VersionsCountPuts ==
    /\ IsFiniteSet(Returned)
    /\ version = InitialVersion + Cardinality(Returned)

\* What a call read, if the version is still the same, is what the row holds.
BaseIsVersioned ==
    \A c \in Calls :
        pc[c] \in {"put", "upsert"} =>
            /\ base[c].version <= version
            /\ base[c].version = version => base[c].value = value

\* A call past its check holds the lock, so its check still stands.
CheckStands ==
    \A c \in Calls :
        pc[c] = "upsert" =>
            /\ Backend = "postgresql" /\ lock = c
            /\ base[c].version = version

\* Every try that failed was overtaken by a put committed since it read.
TriesWereOvertaken ==
    \A c \in Calls :
        /\ pc[c] \in {"put", "upsert"} =>
              tries[c] <= base[c].version - InitialVersion
        /\ tries[c] <= version - InitialVersion
        /\ pc[c] = "conflicted" => tries[c] = MaxTries

LoopInv ==
    /\ VersionsCountPuts
    /\ BaseIsVersioned
    /\ CheckStands
    /\ TriesWereOvertaken
    /\ NoLostUpdate
=============================================================================
