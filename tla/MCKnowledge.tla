----------------------------- MODULE MCKnowledge -----------------------------
(* What the system remembers and learns: the memory layer, the learning      *)
(* supervisor, development learning, forecast evidence and its holdouts, and *)
(* the tables and ledgers of the project database under them. A behaviour is *)
(* about one of them, which part names; the others keep their initial state. *)
(* The learning components and HoldoutClaims have proofs and are extended;   *)
(* the others are instances. The alpha runners and the evaluations are two   *)
(* parts of HoldoutClaims.                                                   *)
EXTENDS LearningSupervisor, DevelopmentLearning, HoldoutClaims, Integers, Sequences,
        FiniteSets, TLC

CONSTANTS NoValue

VARIABLES part,  \* the component this behaviour is about
          mode, memoryLog, fact, memoryWorker, fails, open, dec, act, faults,
          tablesRows, tx, calls, ended,
          doc, domainEvents, op, domainOps, domainCrashes, domainLog,
          feClock, unseen, db, batch, queue, feWorker, cache, feEvents,
          counts, call, feRows, state, checks, requests, feCrashes

Shape(quote, delay, costed, fresh) == [quote |-> quote, delay |-> delay, costed |-> costed, fresh |-> fresh]
Good == Shape(0, 0, TRUE, TRUE)
ForecastPlan == [start |-> 1, calibration |-> 3, holdout |-> 3, end |-> 4]
EpochRow(build) == [id |-> build, ns |-> "epoch", key |-> build, start |-> 0, stored |-> 0, created |-> 0, seen |-> 0]
TradeRow(side, build, pnl) == [id |-> side, ns |-> "trade", d |-> 1, side |-> side, build |-> build, pnl |-> pnl, stored |-> 0, created |-> 0, seen |-> 0]
OutcomeRow == [id |-> "o", ns |-> "outcome", d |-> 1, pnl |-> 1, after |-> {}]
LinkRow(id, status, after) == [id |-> id, ns |-> "link", key |-> "p", status |-> status, members |-> {"b1", "b2"}, after |-> after]
FinalRanges == {<<1, 2>>, <<2, 3>>}
SomeWindows == {<<0, 3>>, <<0, 4>>, <<3, 5>>}
SealedRange == <<1, 2>>
OldClaim == [range |-> <<3, 4>>, status |-> "completed", by |-> <<"earlier", 0>>, at |-> 0, report |-> [none |-> TRUE]]
OldReceipts == [d1 |-> <<3, 4>> :> OldClaim, d2 |-> NoClaims]

Memory == INSTANCE MemoryLayer WITH
    NumLogs <- 2, Contents <- {"a", "b", "c", "x"}, Opposed <- {"a", "b"},
    Dangerous <- {"x"}, MaxFailures <- 2, MaxDecisions <- 1,
    Configured <- {"on"}, Limit <- 1, MaxFaults <- 0, None <- NoValue,
    log <- memoryLog, worker <- memoryWorker

MemoryFaults == INSTANCE MemoryLayer WITH
    NumLogs <- 2, Contents <- {"a", "b"}, Opposed <- {"a", "b"},
    Dangerous <- {}, MaxFailures <- 2, MaxDecisions <- 1,
    Configured <- {"on", "blocked", "off"}, Limit <- 2, MaxFaults <- 1,
    None <- NoValue, log <- memoryLog, worker <- memoryWorker

Tables == INSTANCE ProjectTables WITH
    Clients <- {"a", "b"}, Backend <- "postgresql", Keys <- {1, 2},
    Values <- {7, 8}, Latest <- 2, Kinds <- {"initialize", "batch"},
    MaxCalls <- 3, rows <- tablesRows

TablesLite == INSTANCE ProjectTables WITH
    Clients <- {"a", "b"}, Backend <- "sqlite", Keys <- {1, 2},
    Values <- {7, 8}, Latest <- 2, Kinds <- {"initialize", "batch"},
    MaxCalls <- 3, rows <- tablesRows

TablesAgents == INSTANCE ProjectTables WITH
    Clients <- {"a", "b"}, Backend <- "postgresql", Keys <- {1},
    Values <- {7}, Latest <- 2,
    Kinds <- {"initialize", "message", "fix", "decision", "event"},
    MaxCalls <- 4, rows <- tablesRows

Domain == INSTANCE DomainLedger WITH
    Actors <- {"a", "b"}, Backend <- "sqlite", Seeded <- FALSE,
    Times <- {1, 2}, Values <- {7, 8}, Kinds <- {"snapshot", "evidence"},
    MaxTries <- 3, MaxOps <- 3, MaxCrashes <- 1, events <- domainEvents,
    ops <- domainOps, crashes <- domainCrashes, log <- domainLog

DomainPg == INSTANCE DomainLedger WITH
    Actors <- {"a", "b"}, Backend <- "postgresql", Seeded <- TRUE,
    Times <- {1, 3, 4}, Values <- {7, 8}, Kinds <- {"snapshot"},
    MaxTries <- 3, MaxOps <- 3, MaxCrashes <- 1, events <- domainEvents,
    ops <- domainOps, crashes <- domainCrashes, log <- domainLog

DomainEvidence == INSTANCE DomainLedger WITH
    Actors <- {"a", "b"}, Backend <- "postgresql", Seeded <- FALSE,
    Times <- {1, 2}, Values <- {7, 8}, Kinds <- {"evidence", "candidate"},
    MaxTries <- 3, MaxOps <- 3, MaxCrashes <- 1, events <- domainEvents,
    ops <- domainOps, crashes <- domainCrashes, log <- domainLog

Change == INSTANCE DomainLedger WITH
    Actors <- {"a", "b"}, Backend <- "sqlite", Seeded <- FALSE,
    Times <- {1, 2, 3}, Values <- {7},
    Kinds <- {"create", "status", "candidate"}, MaxTries <- 3, MaxOps <- 4,
    MaxCrashes <- 0, events <- domainEvents, ops <- domainOps,
    crashes <- domainCrashes, log <- domainLog

Observer == INSTANCE ForecastEvidence WITH
    Uses <- {"observer"}, Builds <- {"b1"}, MaxTime <- 3, Horizon <- 2,
    Tolerance <- 1, QuoteAge <- 1,
    Templates <- {OutcomeRow, LinkRow("l", "verified", {}), LinkRow("r", "revoked", {"l"})},
    Registered <- {EpochRow("b1"), EpochRow("b2"), TradeRow("BUY", "b1", 0), TradeRow("SELL", "b2", 1)},
    Capacity <- 1, SourceLimit <- 9, MaxCaptures <- 2, MaxFaults <- 0,
    RowShapes <- {}, MaxRows <- 3, Plan <- ForecastPlan, Checkers <- {},
    Cooldown <- 1, BatchSize <- 1,
    Minimum <- [train |-> 1, calibration |-> 0, test |-> 0],
    ClaimedRanges <- {}, MaxCrashes <- 0, clock <- feClock,
    worker <- feWorker, events <- feEvents, rows <- feRows,
    crashes <- feCrashes

ObserverFaults == INSTANCE ForecastEvidence WITH
    Uses <- {"observer"}, Builds <- {"b1"}, MaxTime <- 3, Horizon <- 2,
    Tolerance <- 1, QuoteAge <- 1, Templates <- {OutcomeRow},
    Registered <- {EpochRow("b1")}, Capacity <- 1, SourceLimit <- 1,
    MaxCaptures <- 2, MaxFaults <- 1, RowShapes <- {}, MaxRows <- 3,
    Plan <- ForecastPlan, Checkers <- {}, Cooldown <- 1, BatchSize <- 1,
    Minimum <- [train |-> 1, calibration |-> 0, test |-> 0],
    ClaimedRanges <- {}, MaxCrashes <- 0, clock <- feClock,
    worker <- feWorker, events <- feEvents, rows <- feRows,
    crashes <- feCrashes

Labels == INSTANCE ForecastEvidence WITH
    Uses <- {"labels"}, Builds <- {"b1"}, MaxTime <- 1, Horizon <- 1,
    Tolerance <- 0, QuoteAge <- 1, Templates <- {}, Registered <- {},
    Capacity <- 1, SourceLimit <- 9, MaxCaptures <- 2, MaxFaults <- 0,
    RowShapes <- {Good, Shape(1, 0, TRUE, TRUE), Shape(-1, 0, TRUE, TRUE), Shape(0, 1, TRUE, FALSE), Shape(0, 0, FALSE, TRUE)},
    MaxRows <- 3, Plan <- ForecastPlan, Checkers <- {}, Cooldown <- 1,
    BatchSize <- 1, Minimum <- [train |-> 1, calibration |-> 0, test |-> 0],
    ClaimedRanges <- {}, MaxCrashes <- 0, clock <- feClock,
    worker <- feWorker, events <- feEvents, rows <- feRows,
    crashes <- feCrashes

Readiness == INSTANCE ForecastEvidence WITH
    Uses <- {"readiness"}, Builds <- {"b1"}, MaxTime <- 4, Horizon <- 1,
    Tolerance <- 0, QuoteAge <- 1, Templates <- {}, Registered <- {},
    Capacity <- 1, SourceLimit <- 9, MaxCaptures <- 2, MaxFaults <- 0,
    RowShapes <- {Good}, MaxRows <- 2, Plan <- ForecastPlan,
    Checkers <- {"c1", "c2"}, Cooldown <- 3, BatchSize <- 2,
    Minimum <- [train |-> 1, calibration |-> 0, test |-> 0],
    ClaimedRanges <- {}, MaxCrashes <- 0, clock <- feClock,
    worker <- feWorker, events <- feEvents, rows <- feRows,
    crashes <- feCrashes

ReadinessDies == INSTANCE ForecastEvidence WITH
    Uses <- {"readiness"}, Builds <- {"b1"}, MaxTime <- 5, Horizon <- 1,
    Tolerance <- 1, QuoteAge <- 1, Templates <- {}, Registered <- {},
    Capacity <- 1, SourceLimit <- 9, MaxCaptures <- 2, MaxFaults <- 0,
    RowShapes <- {Good, Shape(1, 0, TRUE, FALSE), Shape(0, 1, TRUE, TRUE)},
    MaxRows <- 3,
    Plan <- [ForecastPlan EXCEPT !.calibration = 4, !.holdout = 4, !.end = 5],
    Checkers <- {"c1"}, Cooldown <- 3, BatchSize <- 2,
    Minimum <- [train |-> 1, calibration |-> 0, test |-> 0],
    ClaimedRanges <- {<<1, 2>>}, MaxCrashes <- 1, clock <- feClock,
    worker <- feWorker, events <- feEvents, rows <- feRows,
    crashes <- feCrashes

memoryVars == <<mode, memoryLog, fact, memoryWorker, fails, open, dec, act,
                faults>>
tablesVars == <<tablesRows, tx, calls, ended>>
domainVars == <<doc, domainEvents, op, domainOps, domainCrashes, domainLog>>
feVars == <<feClock, unseen, db, batch, queue, feWorker, cache, feEvents,
            counts, call, feRows, state, checks, requests, feCrashes>>
vars == <<part,
          memoryVars, learningVars, developmentVars, tablesVars, domainVars,
          feVars, holdoutVars>>

Init ==
    /\ part \in {"memory", "memory_faults", "learning", "development",
                "tables", "tables_lite", "tables_agents", "domain",
                "domain_pg", "evidence", "change", "observer",
                "observer_faults", "labels", "readiness", "readiness_dies",
                "alpha", "holdout"}
    /\ IF part = "memory_faults" THEN MemoryFaults!Init
       ELSE Memory!Init
    /\ LearningInit
    /\ DevelopmentInit
    /\ IF part = "tables_lite" THEN TablesLite!Init
       ELSE IF part = "tables_agents" THEN TablesAgents!Init
       ELSE Tables!Init
    /\ IF part = "domain_pg" THEN DomainPg!Init
       ELSE IF part = "evidence" THEN DomainEvidence!Init
       ELSE IF part = "change" THEN Change!Init
       ELSE Domain!Init
    /\ IF part = "observer_faults" THEN ObserverFaults!Init
       ELSE IF part = "labels" THEN Labels!Init
       ELSE IF part = "readiness" THEN Readiness!Init
       ELSE IF part = "readiness_dies" THEN ReadinessDies!Init
       ELSE Observer!Init
    /\ HoldoutInit

Next ==
    \/ part = "memory" /\ Memory!Next
       /\ UNCHANGED <<part, learningVars, developmentVars, tablesVars,
                       domainVars, feVars, holdoutVars>>
    \/ part = "memory_faults" /\ MemoryFaults!Next
       /\ UNCHANGED <<part, learningVars, developmentVars, tablesVars,
                       domainVars, feVars, holdoutVars>>
    \/ part = "learning" /\ LearningNext
       /\ UNCHANGED <<part, memoryVars, developmentVars, tablesVars,
                       domainVars, feVars, holdoutVars>>
    \/ part = "development" /\ DevelopmentNext
       /\ UNCHANGED <<part, memoryVars, learningVars, tablesVars, domainVars,
                       feVars, holdoutVars>>
    \/ part = "tables" /\ Tables!Next
       /\ UNCHANGED <<part, memoryVars, learningVars, developmentVars,
                       domainVars, feVars, holdoutVars>>
    \/ part = "tables_lite" /\ TablesLite!Next
       /\ UNCHANGED <<part, memoryVars, learningVars, developmentVars,
                       domainVars, feVars, holdoutVars>>
    \/ part = "tables_agents" /\ TablesAgents!Next
       /\ UNCHANGED <<part, memoryVars, learningVars, developmentVars,
                       domainVars, feVars, holdoutVars>>
    \/ part = "domain" /\ Domain!Next
       /\ UNCHANGED <<part, memoryVars, learningVars, developmentVars,
                       tablesVars, feVars, holdoutVars>>
    \/ part = "domain_pg" /\ DomainPg!Next
       /\ UNCHANGED <<part, memoryVars, learningVars, developmentVars,
                       tablesVars, feVars, holdoutVars>>
    \/ part = "evidence" /\ DomainEvidence!Next
       /\ UNCHANGED <<part, memoryVars, learningVars, developmentVars,
                       tablesVars, feVars, holdoutVars>>
    \/ part = "change" /\ Change!Next
       /\ UNCHANGED <<part, memoryVars, learningVars, developmentVars,
                       tablesVars, feVars, holdoutVars>>
    \/ part = "observer" /\ Observer!Next
       /\ UNCHANGED <<part, memoryVars, learningVars, developmentVars,
                       tablesVars, domainVars, holdoutVars>>
    \/ part = "observer_faults" /\ ObserverFaults!Next
       /\ UNCHANGED <<part, memoryVars, learningVars, developmentVars,
                       tablesVars, domainVars, holdoutVars>>
    \/ part = "labels" /\ Labels!Next
       /\ UNCHANGED <<part, memoryVars, learningVars, developmentVars,
                       tablesVars, domainVars, holdoutVars>>
    \/ part = "readiness" /\ Readiness!Next
       /\ UNCHANGED <<part, memoryVars, learningVars, developmentVars,
                       tablesVars, domainVars, holdoutVars>>
    \/ part = "readiness_dies" /\ ReadinessDies!Next
       /\ UNCHANGED <<part, memoryVars, learningVars, developmentVars,
                       tablesVars, domainVars, holdoutVars>>
    \/ part = "alpha" /\ HoldoutNext
       /\ UNCHANGED <<clock, registry.scope>>
       /\ UNCHANGED <<part, memoryVars, learningVars, developmentVars,
                       tablesVars, domainVars, feVars>>
    \/ part = "holdout" /\ HoldoutNext
       /\ UNCHANGED manifest
       /\ \A r \in Runners : runs'[r].pc # "validate"
       /\ UNCHANGED <<part, memoryVars, learningVars, developmentVars,
                       tablesVars, domainVars, feVars>>

Spec == Init /\ [][Next]_vars

-----------------------------------------------------------------------------
\* Among as many facts as the service compares, no two that it takes for known
\* contradict each other; a memory is active only when approved, and one that
\* ended does not come back (memory_engine/).
MemoryIsSound ==
    /\ [](/\ part = "memory" =>
                 /\ Memory!TypeOK /\ Memory!KnownConsistent
                 /\ Memory!ActiveApproved
          /\ part = "memory_faults" =>
                 /\ MemoryFaults!TypeOK /\ MemoryFaults!KnownConsistent
                 /\ MemoryFaults!ActiveApproved)
    /\ [][part = "memory" => Memory!EndedStep]_vars

\* A bundle of rows is there whole or not at all, stored rows and evidence are
\* never rewritten, migrations run in order, no row refers to a missing one,
\* two transactions never wait for each other, the latest portfolio has its
\* evidence and never goes back, and a change lives a legal life with its
\* whole history (project_database.py, domain_store.py, change_ledger.py).
StorageStands ==
    /\ [](/\ part = "tables" =>
                 /\ Tables!WholeBundles /\ Tables!NoWaitCycle
                 /\ Tables!SchemaInOrder
          /\ part = "tables_lite" =>
                 /\ TablesLite!WholeBundles /\ TablesLite!SchemaInOrder
          /\ part = "tables_agents" =>
                 /\ TablesAgents!SchemaInOrder /\ TablesAgents!NoOrphans
          /\ part = "domain" => Domain!LatestEvidenced /\ Domain!SavedCovered
          /\ part = "domain_pg" =>
                 /\ DomainPg!LatestEvidenced /\ DomainPg!SavedCovered
          /\ part = "change" =>
                 /\ Change!DuplicatesRejected /\ Change!HistoryComplete)
    /\ Tables!RowsStand
    /\ Domain!EvidenceStands
    /\ [][part = "domain_pg" => DomainPg!LatestStep]_vars
    /\ Change!LegalLife

\* What a forecast rests on was known when it was decided: an opportunity is
\* assessed on what was stored before it, all of which it has but for what was
\* committed later than its stamp says, none is lost without a trace, no label
\* crosses into a later period, an event is counted once and what counts as
\* valid is observed in the evaluation it asks for, and a sample of it unless
\* another quote overtook its label (economic_observer.py,
\* opportunity_markouts.py, prospective_validation.py, forecast_readiness.py).
EvidenceIsHonest ==
    /\ part = "observer" =>
           /\ Observer!TypeOK /\ Observer!AssessedAsOf
           /\ Observer!NothingIsSilent
    /\ part = "observer_faults" =>
           /\ ObserverFaults!TypeOK /\ ObserverFaults!AssessedAsOf
           /\ ObserverFaults!NothingIsSilent
    /\ part = "labels" => Labels!TypeOK /\ Labels!SplitIsPurged
    /\ part = "readiness" =>
           /\ Readiness!TypeOK /\ Readiness!CountedOnce
           /\ Readiness!CountedIsObserved
    /\ part = "readiness_dies" =>
           /\ ReadinessDies!TypeOK /\ ReadinessDies!CountedOnce
           /\ ReadinessDies!CountedIsObserved
=============================================================================
