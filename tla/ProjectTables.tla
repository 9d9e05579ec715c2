---------------------------- MODULE ProjectTables ----------------------------
(***************************************************************************)
(* The tables of storage/project_database.py other than the versioned      *)
(* documents: schema migrations, bundles of immutable evidence, messages,  *)
(* repair fixes, decisions and their events.  Each call is one transaction *)
(* of INSERTs.  On SQLite one transaction writes at a time; on PostgreSQL  *)
(* an INSERT waits for another transaction that inserted the same key and  *)
(* has not ended.  A transaction's rows are seen by others at its commit.  *)
(***************************************************************************)
EXTENDS Integers, Sequences, SequencesExt, FiniteSets, FiniteSetsExt, TLC

CONSTANTS Clients,     \* processes, each with its own connection
          Backend,     \* "sqlite" or "postgresql"
          Keys,        \* keys of evidence, of messages and of the other tables
          Values,      \* contents
          Latest,      \* _SCHEMA_VERSION
          Kinds,       \* the calls of an instance
          MaxCalls     \* bound on the calls of all clients

VARIABLES rows,    \* committed rows, by table and key
          tx,      \* the transaction of each client: statements to do, rows written
          calls,   \* calls begun
          ended    \* ghost: the calls that returned or raised
vars == <<rows, tx, calls, ended>>

NoRow == [none |-> TRUE]
NoTx == [kind |-> "none"]
Nothing == [x \in {} |-> NoRow]

\* The migration that creates a table.
Since(t) == IF t \in {"project_kv", "project_messages"} THEN 1
            ELSE IF t = "schema_migrations" THEN 0 ELSE 2
Row(r, t, k) == IF <<t, k>> \in DOMAIN r THEN r[<<t, k>>] ELSE NoRow
Migrated(r) == {v \in 1..Latest : Row(r, "schema_migrations", v) # NoRow}
Exists(r, t) == Since(t) = 0 \/ Since(t) \in Migrated(r)

Init ==
    /\ rows = Nothing /\ tx = [c \in Clients |-> NoTx] /\ calls = 0 /\ ended = {}

Active(c) == tx[c] # NoTx
\* SQLite: BEGIN IMMEDIATE, or the first write, waits for the writer lock.
MayWrite(c) == Backend = "sqlite" => \A d \in Clients \ {c} : ~Active(d)
\* A statement: INSERT of a key, what a present row means, and the row it refers to.
Insert(t, k, v, clash, ref) == [table |-> t, key |-> k, value |-> v, clash |-> clash, ref |-> ref]
Begin(c, kind, statements) ==
    /\ kind \in Kinds /\ ~Active(c) /\ calls < MaxCalls /\ MayWrite(c)
    /\ calls' = calls + 1
    /\ tx' = [tx EXCEPT ![c] = [kind |-> kind, id |-> calls + 1, todo |-> statements, all |-> statements,
                                wrote |-> Nothing]]
    /\ UNCHANGED <<rows, ended>>

\* initialize: the migrations that are missing, in version order.
Initialize(c) ==
    Begin(c, "initialize",
          LET missing == SetToSortSeq((1..Latest) \ Migrated(rows), <)
          IN [i \in DOMAIN missing |-> Insert("schema_migrations", missing[i], 0, "raise", NoRow)])

\* put_immutable_json_batch inserts the members of a bundle in the order of their keys.
Sorted(entries) == SortSeq(entries, LAMBDA a, b : a[1] < b[1])
Bundles == {b \in UNION {[1..n -> Keys \X Values] : n \in 1..2} : \A i, j \in DOMAIN b : i # j => b[i][1] # b[j][1]}
PutImmutable(c, bundle) ==
    Begin(c, "batch", LET s == Sorted(bundle)
                      IN [i \in DOMAIN s |-> Insert("project_kv", s[i][1], s[i][2], "compare", NoRow)])

AppendMessage(c, k, v) == Begin(c, "message", <<Insert("project_messages", k, v, "ignore", NoRow)>>)
RecordFix(c, k, v) == Begin(c, "fix", <<Insert("agent_fixes", k, v, "raise", NoRow)>>)
\* A decision names a fix or none; its event names the decision.
RecordDecision(c, k, v, f) ==
    Begin(c, "decision", <<Insert("agent_decisions", k, v, "raise", IF f = 0 THEN NoRow ELSE <<"agent_fixes", f>>)>>)
AppendDecisionEvent(c, k, v, d) ==
    Begin(c, "event", <<Insert("agent_decision_events", k, v, "raise", <<"agent_decisions", d>>)>>)
-----------------------------------------------------------------------------
\* Rows a client sees: the committed ones and its own.
View(c) == [x \in DOMAIN rows \cup DOMAIN tx[c].wrote |-> IF x \in DOMAIN rows THEN rows[x] ELSE tx[c].wrote[x]]
Statement(c) == Head(tx[c].todo)
InsertedBy(d, s) == Active(d) /\ <<s.table, s.key>> \in DOMAIN tx[d].wrote
WaitsFor(c, d) == c # d /\ Active(c) /\ tx[c].todo # <<>> /\ InsertedBy(d, Statement(c))

References(c, s) == s.ref = NoRow \/ Row(View(c), s.ref[1], s.ref[2]) # NoRow
Same(c, s) == s.clash = "ignore" \/ (s.clash = "compare" /\ Row(View(c), s.table, s.key).value = s.value)
\* A statement raises on a missing table, a row it must not meet, or a broken reference.
Raises(c, s) ==
    \/ ~Exists(View(c), s.table)
    \/ Row(View(c), s.table, s.key) # NoRow /\ ~Same(c, s)
    \/ Row(View(c), s.table, s.key) = NoRow /\ ~References(c, s)

Execute(c) ==
    /\ Active(c) /\ tx[c].todo # <<>> /\ ~\E d \in Clients : WaitsFor(c, d)
    /\ LET s == Statement(c) IN
       /\ ~Raises(c, s)
       /\ tx' = [tx EXCEPT ![c].todo = Tail(@),
                           ![c].wrote = IF Row(View(c), s.table, s.key) # NoRow THEN @
                                        ELSE @ @@ (<<s.table, s.key>> :> [value |-> s.value, by |-> tx[c].id])]
    /\ UNCHANGED <<rows, calls, ended>>

Rollback(c) ==
    /\ tx' = [tx EXCEPT ![c] = NoTx]
    /\ ended' = ended \cup {[id |-> tx[c].id, kind |-> tx[c].kind, all |-> tx[c].all, ok |-> FALSE]}
    /\ UNCHANGED <<rows, calls>>
\* A statement that raises, or the connection, the disk or the lock's timeout: rollback.
Raise(c) ==
    /\ Active(c) /\ tx[c].todo # <<>> /\ ~\E d \in Clients : WaitsFor(c, d)
    /\ Raises(c, Statement(c))
    /\ Rollback(c)
Fault(c) == Active(c) /\ Rollback(c)

Commit(c) ==
    /\ Active(c) /\ tx[c].todo = <<>>
    /\ rows' = tx[c].wrote @@ rows
    /\ tx' = [tx EXCEPT ![c] = NoTx]
    /\ ended' = ended \cup {[id |-> tx[c].id, kind |-> tx[c].kind, all |-> tx[c].all, ok |-> TRUE]}
    /\ UNCHANGED calls

Call(c) ==
    \/ Initialize(c)
    \/ \E b \in Bundles : PutImmutable(c, b)
    \/ \E k \in Keys, v \in Values :
         \/ AppendMessage(c, k, v) \/ RecordFix(c, k, v)
         \/ \E f \in Keys \cup {0} : RecordDecision(c, k, v, f)
         \/ \E d \in Keys : AppendDecisionEvent(c, k, v, d)

Next == \E c \in Clients : Call(c) \/ Execute(c) \/ Raise(c) \/ Fault(c) \/ Commit(c)
Spec == Init /\ [][Next]_vars
-----------------------------------------------------------------------------
\* A bundle is all there or not at all, and a bundle that returned stands with the
\* contents it named, whatever other bundles, replays and failures did ("A collision
\* or failed insert rolls back every new member", project_database.py:325-364).
WholeBundles ==
    \A e \in ended : e.kind = "batch" =>
        IF e.ok THEN \A i \in DOMAIN e.all : Row(rows, "project_kv", e.all[i].key).value = e.all[i].value
        ELSE \A x \in DOMAIN rows : rows[x].by # e.id

\* "never overwrite existing facts": a committed row is never changed and never
\* disappears (project_database.py:325-364, 453-495).
RowsStand == [][\A x \in DOMAIN rows : x \in DOMAIN rows' /\ rows'[x] = rows[x]]_vars

\* Two bundles never wait for each other: "Stable ordering also avoids opposite-order
\* PostgreSQL inserts" (project_database.py:347-348).
NoWaitCycle == ~\E c, d \in Clients : WaitsFor(c, d) /\ WaitsFor(d, c)

\* A migration is recorded after the ones before it, and a table holds rows only in a
\* database that recorded the migration creating it ("atomically and in version order",
\* project_database.py:224-259).
SchemaInOrder ==
    /\ \A v \in Migrated(rows) : 1..v \subseteq Migrated(rows)
    /\ \A x \in DOMAIN rows : Exists(rows, x[1])

\* Every decision's fix and every event's decision are stored (project_database.py:214, 126, 139).
NoOrphans ==
    \A e \in ended : e.ok => \A i \in DOMAIN e.all :
        e.all[i].ref = NoRow \/ Row(rows, e.all[i].ref[1], e.all[i].ref[2]) # NoRow
=============================================================================
