-------------------------- MODULE DevelopmentLearning --------------------------
(***************************************************************************)
(* Learning from development fixes (learning_engine/                       *)
(* development_learning.py): outcomes appended to the decision ledger, the *)
(* projection that indexes the successful ones, few-shot packs built from  *)
(* both, and one process proposal a week.  Several callers share the       *)
(* ledger; nothing locks a check and the write after it.  On PostgreSQL    *)
(* put_json(expected_version=0) is no lock on a document that is not there *)
(* yet: a writer whose select saw no row replaces the row put meanwhile.   *)
(***************************************************************************)
EXTENDS Naturals, FiniteSets

CONSTANTS Fixes,       \* each with one decision
          Succeeded,   \* the fixes whose immutable record says success
          Verdicts,    \* contents an outcome can have
          Callers, MaxOps, Absent

VARIABLES ledger,      \* fix_outcome_recorded events [fix, verdict]
          projection,  \* [items, version]
          proposal,    \* the week's proposal: the outcomes it counts
          packs,       \* few-shot packs returned [used, known, items]
          tasks, ops

developmentVars == <<ledger, projection, proposal, packs, tasks, ops>>

Free == [pc |-> "free", then |-> Absent, cur |-> Absent, read |-> {}, at |-> 0,
         known |-> {}]

DevelopmentInit ==
    /\ ledger = {} /\ packs = {} /\ proposal = Absent
    /\ projection = [items |-> {}, version |-> 0]
    /\ tasks = [w \in Callers |-> Free]
    /\ ops = 0

CallerGoes(w, next) == tasks' = [tasks EXCEPT ![w] = next]

\* _outcome_records(success_only=True), by fix.
Successes == {e.fix : e \in {x \in ledger : x.fix \in Succeeded}}
Everything == {e.fix : e \in ledger}

Begin(w) ==
    /\ tasks[w] = Free /\ ops < MaxOps
    /\ ops' = ops + 1
    /\ \/ \E f \in Fixes, v \in Verdicts :
             CallerGoes(w, [Free EXCEPT !.pc = "check",
                                        !.cur = [fix |-> f, verdict |-> v]])
       \/ \E then \in {"pack", "review"} :
             CallerGoes(w, [Free EXCEPT !.pc = "records", !.then = then,
                                !.known = Successes])
    /\ UNCHANGED <<ledger, projection, proposal, packs>>

----------------------------------------------------------------------------
(* record_fix_outcome: the events of the decision are listed, then the new *)
(* one is appended under an id made of its contents.                       *)
----------------------------------------------------------------------------
Check(w) ==
    LET e == tasks[w].cur IN
    /\ tasks[w].pc = "check"
    /\ CallerGoes(w, IF \E x \in ledger : x.fix = e.fix THEN Free
                     ELSE [tasks[w] EXCEPT !.pc = "append"])
    /\ UNCHANGED <<ledger, projection, proposal, packs, ops>>

AppendOutcome(w) ==
    /\ tasks[w].pc = "append"
    /\ ledger' = ledger \union {tasks[w].cur}
    /\ CallerGoes(w, Free)
    /\ UNCHANGED <<projection, proposal, packs, ops>>

----------------------------------------------------------------------------
(* rebuild_memory_projection: the records first, then the projection and   *)
(* its version, then the write.                                            *)
----------------------------------------------------------------------------
\* A mutant of the next: failures are indexed as well.
ReadEverything(w) ==
    /\ tasks[w].pc = "records"
    /\ CallerGoes(w, [tasks[w] EXCEPT !.pc = "current", !.read = Everything])
    /\ UNCHANGED <<ledger, projection, proposal, packs, ops>>

ReadRecords(w) ==
    /\ tasks[w].pc = "records"
    /\ CallerGoes(w, [tasks[w] EXCEPT !.pc = "current", !.read = Successes])
    /\ UNCHANGED <<ledger, projection, proposal, packs, ops>>

ReadProjection(w) ==
    LET l == tasks[w] IN
    /\ l.pc = "current"
    /\ CallerGoes(w, IF projection.items = l.read /\ projection.version # 0
                     THEN [l EXCEPT !.pc = "use"]
                     ELSE [l EXCEPT !.pc = "write", !.at = projection.version])
    /\ UNCHANGED <<ledger, projection, proposal, packs, ops>>

\* put_json with the version read; a conflict raises to the caller, unless both
\* are first writers, whose inserts may meet.
WriteProjection(w) ==
    LET l == tasks[w] IN
    /\ l.pc = "write"
    /\ \/ /\ l.at \in {projection.version, 0}
          /\ projection' = [items |-> l.read, version |-> l.at + 1]
          /\ CallerGoes(w, [l EXCEPT !.pc = "use"])
       \/ /\ l.at # projection.version
          /\ CallerGoes(w, Free) /\ UNCHANGED projection
    /\ UNCHANGED <<ledger, proposal, packs, ops>>

\* build_few_shot_pack: candidates come from the projection as it is stored
\* now, and are kept if a record of theirs is found.
Pack(w) ==
    LET l == tasks[w] IN
    /\ l.pc = "use" /\ l.then = "pack"
    /\ packs' = packs \union {[used |-> projection.items \intersect Successes,
                               known |-> l.known, items |-> projection.items]}
    /\ CallerGoes(w, Free)
    /\ UNCHANGED <<ledger, projection, proposal, ops>>

----------------------------------------------------------------------------
(* run_weekly_process_review, after the rebuild: the stored proposal of    *)
(* the week is returned, else the outcomes are counted and it is written.  *)
----------------------------------------------------------------------------
Review(w) ==
    /\ tasks[w].pc = "use" /\ tasks[w].then = "review"
    /\ CallerGoes(w, IF proposal # Absent THEN Free
                     ELSE [tasks[w] EXCEPT !.pc = "propose", !.read = Everything])
    /\ UNCHANGED <<ledger, projection, proposal, packs, ops>>

\* put_json with version 0: over a proposal that another review wrote meanwhile
\* it raises, or replaces it where the two first writers meet.
Propose(w) ==
    /\ tasks[w].pc = "propose"
    /\ \/ proposal' = tasks[w].read
       \/ proposal # Absent /\ UNCHANGED proposal
    /\ CallerGoes(w, Free)
    /\ UNCHANGED <<ledger, projection, packs, ops>>

----------------------------------------------------------------------------
DevelopmentNext == \E w \in Callers :
    \/ Begin(w) \/ Check(w) \/ AppendOutcome(w)
    \/ ReadRecords(w) \/ ReadProjection(w) \/ WriteProjection(w)
    \/ Pack(w) \/ Review(w) \/ Propose(w)

DevelopmentSpec == DevelopmentInit /\ [][DevelopmentNext]_developmentVars
----------------------------------------------------------------------------
DevelopmentTypeOK ==
    /\ ledger \subseteq [fix : Fixes, verdict : Verdicts]
    /\ projection.items \subseteq Fixes /\ projection.version \in Nat
    /\ projection.version = 0 => projection.items = {}

\* An example is only ever a fix that succeeded and whose outcome is recorded,
\* whoever rebuilt the projection meanwhile.
ExamplesSucceeded ==
    /\ projection.items \subseteq Successes
    /\ \A p \in packs : p.used \subseteq Succeeded

\* The reviews that found the week without a proposal and have yet to write one.
Proposing == {w \in Callers : tasks[w].pc = "propose"}

\* A proposal, once there, turns later reviews away: only a review that had looked
\* before it was there may replace it, once.  It counts recorded outcomes.
ProposalIsFinal ==
    /\ proposal # Absent =>
         /\ Proposing' \subseteq Proposing
         /\ proposal' # proposal => Proposing' # Proposing
    /\ proposal' # Absent => proposal' \subseteq Everything

\* Few-shot examples are fixes that succeeded and whose outcome is recorded, and
\* the proposal of a week counts recorded outcomes and is replaced only by reviews
\* that overlapped its first writing (learning_engine/development_learning.py).
DevelopmentIsSound ==
    /\ [](DevelopmentTypeOK /\ ExamplesSucceeded)
    /\ [][ProposalIsFinal]_developmentVars

=============================================================================
