----------------------------- MODULE MCDocument -----------------------------
(* VersionedDocument for TLC on both backends: a behaviour is about one of   *)
(* them, which backend names.  The constants of the cfg are PostgreSQL's, on *)
(* a row that exists; SQLite starts from no row.                             *)
EXTENDS VersionedDocument

VARIABLE backend

Lite == INSTANCE VersionedDocument WITH Backend <- "sqlite",
                                        InitialVersion <- 0

MCInit == \/ backend = Backend /\ Init
          \/ backend = "sqlite" /\ Lite!Init

MCNext == /\ \/ backend = Backend /\ Next
             \/ backend = "sqlite" /\ Lite!Next
          /\ UNCHANGED backend

MCSpec == MCInit /\ [][MCNext]_<<vars, backend>>
=============================================================================
