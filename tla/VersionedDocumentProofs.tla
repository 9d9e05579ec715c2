----------------------- MODULE VersionedDocumentProofs -----------------------
(***************************************************************************)
(* The update loop implements the atomic call, for any number of callers   *)
(* and of tries, wherever the row can be locked.                           *)
(***************************************************************************)
EXTENDS VersionedDocument, FiniteSetTheorems, TLAPS

LEMMA TypeCorrectInit == Init => TypeOK /\ TriesLeft
    BY VersionsAreNatural DEF Init, TypeOK, TriesLeft

LEMMA TypeCorrectStep ==
    TypeOK /\ TriesLeft /\ [Next]_vars => TypeOK' /\ TriesLeft'
<1> SUFFICES ASSUME TypeOK, TriesLeft, [Next]_vars
             PROVE  TypeOK' /\ TriesLeft'
    OBVIOUS
<1> USE VersionsAreNatural DEF TypeOK, TriesLeft
<1>1. CASE UNCHANGED vars
    BY <1>1 DEF vars
<1>2. ASSUME NEW c \in Calls, Step(c) PROVE TypeOK' /\ TriesLeft'
    <2>1. CASE GetJson(c)
        BY <2>1 DEF GetJson, Goto
    <2>2. ASSUME pc[c] = "put", Conflict(c) PROVE TypeOK' /\ TriesLeft'
        BY <2>2 DEF Conflict, Goto
    <2>3. ASSUME Write(c), lock' \in {lock, NoCall}
          PROVE  TypeOK' /\ TriesLeft'
        BY <2>3 DEF Write, Goto
    <2>4. CASE PutSqlite(c)
        BY <2>4, <2>2, <2>3 DEF PutSqlite
    <2>5. CASE SelectForUpdate(c)
        <3>1. CASE Conflict(c)
            BY <2>5, <3>1, <2>2 DEF SelectForUpdate
        <3>2. CASE ~Conflict(c)
            BY <2>5, <3>2 DEF SelectForUpdate, LockedBySelect, Goto
        <3> QED
            BY <3>1, <3>2
    <2>6. CASE Upsert(c)
        BY <2>6, <2>3 DEF Upsert
    <2>7. CASE Fail(c)
        BY <2>7 DEF Fail, Goto
    <2> QED
        BY <1>2, <2>1, <2>4, <2>5, <2>6, <2>7 DEF Step
<1> QED
    BY <1>1, <1>2 DEF Next

\* Every reachable state of the loop is well typed and no call tries more often
\* than range(5) of _update lets it, on either backend and with or without a
\* row.
THEOREM DocumentTypeCorrect == Spec => []TypeOK
<1>1. TypeOK /\ TriesLeft /\ [Next]_vars => TypeOK' /\ TriesLeft'
    BY TypeCorrectStep
<1> QED
    BY <1>1, TypeCorrectInit, PTL DEF Spec

----------------------------------------------------------------------------
LEMMA LoopInit == Init => LoopInv
<1> SUFFICES ASSUME Init PROVE LoopInv
    OBVIOUS
<1>1. Returned = {}
    BY DEF Init, Returned
<1>2. VersionsCountPuts
    BY <1>1, FS_EmptySet, VersionsAreNatural DEF Init, VersionsCountPuts
<1> QED
    BY <1>2, VersionsAreNatural
    DEF Init, LoopInv, BaseIsVersioned, CheckStands, TriesWereOvertaken,
        NoLostUpdate

\* A call that stays out of "returned" leaves the count of puts alone.
LEMMA NoPut ==
    ASSUME TypeOK, VersionsCountPuts, NEW c \in Calls,
           pc[c] # "returned", NEW label, label # "returned",
           Goto(c, label), UNCHANGED version
    PROVE  VersionsCountPuts'
<1>1. Returned' = Returned
    BY DEF TypeOK, Returned, Goto
<1> QED
    BY <1>1 DEF VersionsCountPuts

\* A put whose check still stands when it writes.
LEMMA PutStep ==
    ASSUME TypeOK, TriesLeft, LoopInv, NEW c \in Calls,
           pc[c] \in {"put", "upsert"}, base[c].version = version,
           \A d \in Calls \ {c} : pc[d] # "upsert",
           Write(c), lock' \in {lock, NoCall}
    PROVE  LoopInv'
<1> USE VersionsAreNatural DEF TypeOK
<1>1. /\ version' = version + 1
      /\ value' = value \cup {c}
      /\ pc' = [pc EXCEPT ![c] = "returned"]
      /\ base' = base /\ tries' = tries
    BY DEF Write, Goto, LoopInv, BaseIsVersioned
<1>2. VersionsCountPuts'
    <2>1. Returned' = Returned \cup {c} /\ c \notin Returned
        BY <1>1 DEF Returned
    <2>2. /\ IsFiniteSet(Returned')
          /\ Cardinality(Returned') = Cardinality(Returned) + 1
        BY <2>1, FS_AddElement DEF LoopInv, VersionsCountPuts
    <2>3. Cardinality(Returned) \in Nat
        BY FS_CardinalityType DEF LoopInv, VersionsCountPuts
    <2> QED
        BY <1>1, <2>2, <2>3 DEF LoopInv, VersionsCountPuts
<1>3. BaseIsVersioned'
    BY <1>1 DEF LoopInv, BaseIsVersioned
<1>4. CheckStands'
    BY <1>1 DEF CheckStands
<1>5. TriesWereOvertaken'
    BY <1>1 DEF LoopInv, TriesWereOvertaken
<1>6. NoLostUpdate'
    BY <1>1 DEF LoopInv, NoLostUpdate
<1> QED
    BY <1>2, <1>3, <1>4, <1>5, <1>6 DEF LoopInv

\* Where the row can be locked, every step keeps the invariant.
LEMMA LoopStep ==
    ASSUME AlwaysLocked, TypeOK, TriesLeft, LoopInv, [Next]_vars
    PROVE  LoopInv'
<1> USE VersionsAreNatural DEF TypeOK
<1>0. Cardinality(Returned) \in Nat /\ version >= InitialVersion
    BY FS_CardinalityType DEF LoopInv, VersionsCountPuts
<1>1. CASE UNCHANGED vars
    BY <1>1 DEF vars, LoopInv, VersionsCountPuts, Returned, BaseIsVersioned,
                CheckStands, TriesWereOvertaken, NoLostUpdate
<1>2. ASSUME NEW c \in Calls, Step(c) PROVE LoopInv'
    <2>1. CASE GetJson(c)
        <3>1. PICK label \in {"put", "raised"} : Goto(c, label)
            BY <2>1 DEF GetJson
        <3>2. VersionsCountPuts'
            BY <2>1, <3>1, NoPut DEF GetJson, LoopInv
        <3> QED
            BY <2>1, <3>1, <3>2
            DEF GetJson, Goto, LoopInv, BaseIsVersioned, CheckStands,
                TriesWereOvertaken, NoLostUpdate
    <2>2. ASSUME pc[c] = "put", base[c].version # version, Conflict(c)
          PROVE  LoopInv'
        <3>1. PICK label \in {"get", "conflicted"} :
                  /\ Goto(c, label)
                  /\ label = "conflicted" => tries[c] + 1 = MaxTries
            BY <2>2 DEF Conflict, TriesLeft
        <3>2. VersionsCountPuts'
            BY <2>2, <3>1, NoPut DEF Conflict, LoopInv
        <3>3. tries[c] + 1 <= version - InitialVersion
            <4>1. /\ tries[c] \in Int /\ base[c].version \in Int
                  /\ version \in Int /\ InitialVersion \in Int
                OBVIOUS
            <4>2. /\ base[c].version <= version
                  /\ tries[c] <= base[c].version - InitialVersion
                BY <2>2 DEF LoopInv, BaseIsVersioned, TriesWereOvertaken
            <4> HIDE DEF TypeOK
            <4> QED
                BY <2>2, <4>1, <4>2
        <3>4. TriesWereOvertaken'
            BY <2>2, <3>1, <3>3 DEF Conflict, Goto, LoopInv, TriesWereOvertaken
        <3> QED
            BY <2>2, <3>1, <3>2, <3>4
            DEF Conflict, Goto, LoopInv, BaseIsVersioned, CheckStands,
                NoLostUpdate
    <2>3. CASE PutSqlite(c)
        <3>1. \A d \in Calls : pc[d] # "upsert"
            BY <2>3 DEF PutSqlite, LoopInv, CheckStands
        <3> QED
            BY <2>3, <2>2, <3>1, PutStep DEF PutSqlite
    <2>4. CASE SelectForUpdate(c)
        <3>1. CASE base[c].version # version
            BY <2>4, <2>2, <3>1 DEF SelectForUpdate
        <3>2. CASE base[c].version = version
            <4>1. /\ Backend = "postgresql" /\ pc[c] = "put" /\ lock = NoCall
                  /\ lock' = c /\ Goto(c, "upsert")
                  /\ UNCHANGED <<version, value, base, tries>>
                BY <2>4, <3>2, <1>0
                DEF SelectForUpdate, LockedBySelect, AlwaysLocked
            <4>2. VersionsCountPuts'
                BY <4>1, NoPut DEF LoopInv
            <4>3. CheckStands'
                BY <3>2, <4>1, NoCallIsNotACall DEF Goto, LoopInv, CheckStands
            <4> QED
                BY <4>1, <4>2, <4>3
                DEF Goto, LoopInv, BaseIsVersioned, TriesWereOvertaken,
                    NoLostUpdate
        <3> QED
            BY <3>1, <3>2
    <2>5. CASE Upsert(c)
        BY <2>5, PutStep DEF Upsert, LoopInv, CheckStands
    <2>6. CASE Fail(c)
        <3>1. VersionsCountPuts'
            BY <2>6, NoPut DEF Fail, LoopInv
        <3> QED
            BY <2>6, <3>1
            DEF Fail, Goto, LoopInv, BaseIsVersioned, CheckStands,
                TriesWereOvertaken, NoLostUpdate
    <2> QED
        BY <1>2, <2>1, <2>3, <2>4, <2>5, <2>6 DEF Step
<1> QED
    BY <1>1, <1>2 DEF Next

\* The loop's invariant in every behaviour, where the row can be locked.
THEOREM LoopInvariant ==
    ASSUME AlwaysLocked
    PROVE  Spec => [](TypeOK /\ TriesLeft /\ LoopInv)
<1>1. Init => TypeOK /\ TriesLeft /\ LoopInv
    BY TypeCorrectInit, LoopInit
<1>2. TypeOK /\ TriesLeft /\ LoopInv /\ [Next]_vars
          => (TypeOK /\ TriesLeft /\ LoopInv)'
    BY TypeCorrectStep, LoopStep
<1> QED
    BY <1>1, <1>2, PTL DEF Spec

\* A put that was committed under expected_version is never overwritten by a
\* put_json that did not read it, where the row can be locked.
THEOREM NoLostUpdateHolds ==
    ASSUME AlwaysLocked
    PROVE  Spec => []NoLostUpdate
<1>1. LoopInv => NoLostUpdate
    BY DEF LoopInv
<1> QED
    BY <1>1, LoopInvariant, PTL

\* _update raises "conflicted repeatedly" only if as many other calls as it
\* had tries were committed.
THEOREM ConflictMeansProgressHolds ==
    ASSUME AlwaysLocked
    PROVE  Spec => []ConflictMeansProgress
<1>1. TypeOK /\ LoopInv => ConflictMeansProgress
    BY FS_CardinalityType, VersionsAreNatural
    DEF TypeOK, LoopInv, VersionsCountPuts, TriesWereOvertaken,
        ConflictMeansProgress
<1> QED
    BY <1>1, LoopInvariant, PTL

----------------------------------------------------------------------------
LEMMA RefinesInit == Init => Atomic!Init
    BY DEF Init, Atomic!Init, Outcome, Basis

\* A step that leaves the document and what callers see of the calls alone.
LEMMA InternalStep ==
    ASSUME TypeOK, NEW c \in Calls, NEW label,
           pc[c] \in {"get", "put", "upsert"},
           label \in {"get", "put", "upsert"}, Goto(c, label),
           value' = value,
           \A d \in Calls : d # c => base'[d] = base[d]
    PROVE  UNCHANGED <<value, Outcome, Basis>>
<1>1. Outcome' = Outcome
    BY DEF TypeOK, Goto, Outcome
<1>2. Basis' = Basis
    BY DEF TypeOK, Goto, Basis
<1> QED
    BY <1>1, <1>2

\* The exception that ends a call.
LEMMA RaiseStep ==
    ASSUME TypeOK, NEW c \in Calls, NEW label,
           pc[c] \in {"get", "put", "upsert"},
           label \in {"raised", "conflicted"}, Goto(c, label),
           value' = value,
           \A d \in Calls : d # c => base'[d] = base[d]
    PROVE  Atomic!Raise(c)
<1>1. Outcome[c] = "running" /\ Outcome' = [Outcome EXCEPT ![c] = "raised"]
    BY DEF TypeOK, Goto, Outcome
<1>2. Basis' = Basis
    BY DEF TypeOK, Goto, Basis
<1> QED
    BY <1>1, <1>2 DEF Atomic!Raise

\* The put that ends a call, made from the document it replaces.
LEMMA ApplyStep ==
    ASSUME TypeOK, NEW c \in Calls, pc[c] \in {"put", "upsert"},
           base[c].value = value, Write(c)
    PROVE  Atomic!Apply(c)
<1>1. /\ Outcome[c] = "running"
      /\ Outcome' = [Outcome EXCEPT ![c] = "returned"]
    BY DEF TypeOK, Write, Goto, Outcome
<1>2. Basis' = [Basis EXCEPT ![c] = value]
    BY DEF TypeOK, Write, Goto, Basis
<1> QED
    BY <1>1, <1>2 DEF Atomic!Apply, Write

\* Every step of the loop is a step of the atomic call or none at all.
LEMMA RefinesStep ==
    ASSUME TypeOK, LoopInv, [Next]_vars
    PROVE  [Atomic!Next]_<<value, Outcome, Basis>>
<1>1. CASE UNCHANGED vars
    BY <1>1 DEF vars, Outcome, Basis
<1>2. ASSUME NEW c \in Calls, Step(c)
      PROVE  \/ Atomic!Apply(c) \/ Atomic!Raise(c)
             \/ UNCHANGED <<value, Outcome, Basis>>
    <2>1. CASE GetJson(c)
        <3>1. PICK label \in {"put", "raised"} : Goto(c, label)
            BY <2>1 DEF GetJson
        <3>2. \A d \in Calls : d # c => base'[d] = base[d]
            BY <2>1 DEF GetJson, TypeOK
        <3> QED
            BY <2>1, <3>1, <3>2, InternalStep, RaiseStep DEF GetJson
    <2>2. ASSUME pc[c] = "put", Conflict(c)
          PROVE  Atomic!Raise(c) \/ UNCHANGED <<value, Outcome, Basis>>
        <3>1. PICK label \in {"get", "conflicted"} : Goto(c, label)
            BY <2>2 DEF Conflict
        <3> QED
            BY <2>2, <3>1, InternalStep, RaiseStep DEF Conflict
    <2>3. CASE PutSqlite(c)
        BY <2>3, <2>2, ApplyStep DEF PutSqlite, LoopInv, BaseIsVersioned
    <2>4. CASE SelectForUpdate(c)
        BY <2>4, <2>2, InternalStep DEF SelectForUpdate
    <2>5. CASE Upsert(c)
        BY <2>5, ApplyStep DEF Upsert, LoopInv, BaseIsVersioned, CheckStands
    <2>6. CASE Fail(c)
        BY <2>6, RaiseStep DEF Fail
    <2> QED
        BY <1>2, <2>1, <2>3, <2>4, <2>5, <2>6 DEF Step
<1> QED
    BY <1>1, <1>2 DEF Next, Atomic!Next

\* The get_json / put_json loop implements one atomic call, where the row can
\* be locked: what ExecutionGateway takes for granted of every storage call.
THEOREM ImplementsAtomicDocumentHolds ==
    ASSUME AlwaysLocked
    PROVE  Spec => ImplementsAtomicDocument
<1>1. TypeOK /\ LoopInv /\ [Next]_vars
          => [Atomic!Next]_<<value, Outcome, Basis>>
    BY RefinesStep
<1> QED
    BY <1>1, RefinesInit, LoopInvariant, PTL
    DEF Spec, ImplementsAtomicDocument, Atomic!Spec
=============================================================================
