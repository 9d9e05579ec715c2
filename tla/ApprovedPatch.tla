----------------------------- MODULE ApprovedPatch -----------------------------
(***************************************************************************)
(* An owner-approved patch on its way into production.  The application    *)
(* (development_control/general_controller.py) leaves the patch and a      *)
(* manifest for the host; the host (deploy/vps/                            *)
(* self-healing-approved-patch.sh) claims the decision, applies the patch, *)
(* tests, commits, deploys, and records one outcome through the            *)
(* application's API (dashboard/internal_agent_decisions_api.py).  The     *)
(* host can die at any step, and the answer to a recorded outcome can be   *)
(* lost.                                                                   *)
(***************************************************************************)
EXTENDS Naturals, Sequences

CONSTANTS Proposals,   \* patches the agent may propose
          MaxCrashes,  \* deaths of the host's cycle
          MaxLost,     \* recorded outcomes whose answer is lost
          Unset        \* no decision, patch or outcome

VARIABLES db,            \* agent_decisions: [status, result, base] of a decision
          callback,      \* what is left to queue of an approved decision
          patches,       \* approved-<id>.patch files
          manifest,      \* approved_patch.json
          patchAction,   \* the action file says apply_approved_patch
          log,           \* the repository: [kind, id] per commit
          staged,        \* a patch in the worktree, not committed
          served,        \* commits in the running image
          patchHealthy,  \* the running image is healthy
          patchHost,     \* [pc, id, status]
          crashes, lost  \* deaths of the host, answers lost

patchFiles == <<callback, patches, manifest, patchAction>>
repo == <<log, staged>>
patchVars == <<db, callback, patches, manifest, patchAction, log, staged,
               served, patchHealthy, patchHost, crashes, lost>>

Idle == [pc |-> "idle", id |-> Unset, status |-> Unset]
At(pc) == patchHost' = [patchHost EXCEPT !.pc = pc]
Finish(pc, status) == patchHost' = [patchHost EXCEPT !.pc = pc, !.status = status]
Terminal == {"applied", "failed", "rejected"}
Outcomes == {"rejected", "failed_precommit", "applied", "reverted", "rollback_failed"}
DbStatus(outcome) == IF outcome \in {"rejected", "applied"} THEN outcome ELSE "failed"
Commits(kind, d) == {i \in 1 .. Len(log) : log[i] = [kind |-> kind, id |-> d]}
Stands(d) == Commits("fix", d) # {} /\ Commits("revert", d) = {}

PatchInit ==
    /\ db = [d \in Proposals |-> [status |-> "none", result |-> Unset, base |-> 0]]
    /\ callback = [d \in Proposals |-> "idle"] /\ patches = {} /\ manifest = Unset
    /\ patchAction = FALSE /\ log = <<>> /\ staged = Unset /\ served = 0
    /\ patchHealthy = TRUE /\ patchHost = Idle /\ crashes = 0 /\ lost = 0

----------------------------------------------------------------------------
(* The application: the owner's decision, then the files for the host.     *)
----------------------------------------------------------------------------
\* A proposal is bound to the commit it was made against.
Propose(d) ==
    /\ db[d].status = "none"
    /\ db' = [db EXCEPT ![d].status = "pending", ![d].base = Len(log)]
    /\ UNCHANGED <<patchFiles, repo, served, patchHealthy, patchHost, crashes,
                   lost>>

Approve(d) ==
    /\ db[d].status = "pending"
    /\ \/ /\ db' = [db EXCEPT ![d].status = "approved"]
          /\ callback' = [callback EXCEPT ![d] = "patch"]
       \/ db' = [db EXCEPT ![d].status = "rejected"] /\ UNCHANGED callback
    /\ UNCHANGED <<patches, manifest, patchAction, repo, served, patchHealthy,
                   patchHost, crashes, lost>>

QueuePatch(d) ==
    /\ callback[d] = "patch"
    /\ patches' = patches \union {d} /\ callback' = [callback EXCEPT ![d] = "manifest"]
    /\ UNCHANGED <<db, manifest, patchAction, repo, served, patchHealthy, patchHost,
                   crashes, lost>>

QueueManifest(d) ==
    /\ callback[d] = "manifest"
    /\ manifest' = d /\ callback' = [callback EXCEPT ![d] = "action"]
    /\ UNCHANGED <<db, patches, patchAction, repo, served, patchHealthy, patchHost,
                   crashes, lost>>

QueuePatchAction(d) ==
    /\ callback[d] = "action"
    /\ patchAction' = TRUE /\ callback' = [callback EXCEPT ![d] = "idle"]
    /\ UNCHANGED <<db, patches, manifest, repo, served, patchHealthy, patchHost,
                   crashes, lost>>

----------------------------------------------------------------------------
(* The host.                                                               *)
----------------------------------------------------------------------------

\* claim_approved_patch: the manifest's decision must be approved now.
ClaimPatch ==
    /\ patchHost = Idle /\ patchAction /\ manifest # Unset
    /\ db[manifest].status = "approved"
    /\ At("copy")
    /\ UNCHANGED <<db, patchFiles, repo, served, patchHealthy, crashes, lost>>

\* apply_approved_patch reads the manifest again.
Copy ==
    /\ patchHost.pc = "copy"
    /\ patchHost' = IF manifest = Unset THEN Idle
                    ELSE [pc |-> IF manifest \in patches THEN "check" ELSE "record",
                          id |-> manifest, status |-> "rejected"]
    /\ UNCHANGED <<db, patchFiles, repo, served, patchHealthy, crashes, lost>>

CheckIgnoresBase ==
    /\ patchHost.pc = "check"
    /\ \/ staged = Unset /\ At("apply")
       \/ Finish("record", "rejected")
    /\ UNCHANGED <<db, patchFiles, repo, served, patchHealthy, crashes, lost>>

\* Base commit, clean worktree, Security Guard and git apply --check.
Check ==
    /\ patchHost.pc = "check"
    /\ \/ db[patchHost.id].base = Len(log) /\ staged = Unset /\ At("apply")
       \/ Finish("record", "rejected")
    /\ UNCHANGED <<db, patchFiles, repo, served, patchHealthy, crashes, lost>>

Apply ==
    /\ patchHost.pc = "apply"
    /\ \/ staged' = patchHost.id /\ At("test")
       \/ staged' = Unset /\ Finish("record", "failed_precommit")
    /\ UNCHANGED <<db, patchFiles, log, served, patchHealthy, crashes, lost>>

\* Targeted and regression tests, then the commit; a failure rolls back.
TestAndCommit ==
    /\ patchHost.pc = "test"
    /\ staged' = Unset
    /\ \/ log' = Append(log, [kind |-> "fix", id |-> patchHost.id]) /\ At("deploy")
       \/ log' = log /\ Finish("record", "failed_precommit")
    /\ UNCHANGED <<db, patchFiles, served, patchHealthy, crashes, lost>>

\* The container is replaced; its callbacks are gone.
Deploy ==
    /\ patchHost.pc = "deploy"
    /\ \/ At("revert") /\ UNCHANGED <<callback, served, patchHealthy>>
       \/ /\ callback' = [d \in Proposals |-> "idle"] /\ served' = Len(log)
          /\ patchHealthy' \in BOOLEAN
          /\ IF patchHealthy' THEN Finish("cleanup", "applied") ELSE At("revert")
    /\ UNCHANGED <<db, patches, manifest, patchAction, repo, crashes, lost>>

\* cleanup_approved_patch_artifacts removes the manifest by its name: before
\* the outcome of a deploy is recorded, after any other outcome.
Cleanup ==
    /\ patchHost.pc = "cleanup"
    /\ manifest' = Unset /\ patches' = patches \ {patchHost.id}
    /\ At(IF patchHost.status = "applied" THEN "record" ELSE "clear")
    /\ UNCHANGED <<db, callback, patchAction, repo, served, patchHealthy, crashes,
                   lost>>

\* record_agent_decision_result: one terminal outcome per decision.
Recorded(d, status) ==
    IF db[d].status # "approved" THEN db
    ELSE [db EXCEPT ![d].status = DbStatus(status), ![d].result = status]

Accepted(d, status) ==
    \/ db[d].status = "approved"
    \/ db[d].status \in Terminal /\ db[d].result = status

AfterRecord(ok) ==
    patchHost' = IF ok THEN [patchHost EXCEPT !.pc = IF patchHost.status = "applied"
                                                     THEN "clear" ELSE "cleanup"]
                 ELSE IF patchHost.status = "applied"
                      THEN [patchHost EXCEPT !.pc = "revert"]
                 ELSE Idle

Record ==
    /\ patchHost.pc = "record"
    /\ db' = Recorded(patchHost.id, patchHost.status)
    /\ \/ AfterRecord(Accepted(patchHost.id, patchHost.status)) /\ UNCHANGED lost
       \/ lost < MaxLost /\ lost' = lost + 1 /\ AfterRecord(FALSE)
    /\ UNCHANGED <<patchFiles, repo, served, patchHealthy, crashes>>

\* revert_automatic_commit: a revert commit, then build, start and health.
Revert ==
    /\ patchHost.pc = "revert"
    /\ log' = Append(log, [kind |-> "revert", id |-> patchHost.id])
    /\ callback' = [d \in Proposals |-> "idle"]
    /\ \/ served' = Len(log') /\ patchHealthy' = TRUE /\ Finish("record", "reverted")
       \/ /\ UNCHANGED <<served, patchHealthy>>
          /\ Finish("rollback", "rollback_failed")
    /\ UNCHANGED <<db, patches, manifest, patchAction, staged, crashes, lost>>

RecordRollbackFailed ==
    /\ patchHost.pc = "rollback"
    /\ db' = Recorded(patchHost.id, "rollback_failed")
    /\ patchHost' = Idle
    /\ UNCHANGED <<patchFiles, repo, served, patchHealthy, crashes, lost>>

ClearPatchAction ==
    /\ patchHost.pc = "clear"
    /\ patchAction' = FALSE /\ patchHost' = Idle
    /\ UNCHANGED <<db, callback, patches, manifest, repo, served, patchHealthy,
                   crashes, lost>>

Crash ==
    /\ patchHost # Idle /\ crashes < MaxCrashes
    /\ crashes' = crashes + 1 /\ patchHost' = Idle
    /\ UNCHANGED <<db, patchFiles, repo, served, patchHealthy, lost>>

Queue(d) == QueuePatch(d) \/ QueueManifest(d) \/ QueuePatchAction(d)
Step == \/ ClaimPatch \/ Copy \/ Check \/ Apply \/ TestAndCommit \/ Deploy \/ Cleanup
        \/ Record \/ Revert \/ RecordRollbackFailed \/ ClearPatchAction

PatchNext == \/ \E d \in Proposals : Propose(d) \/ Approve(d) \/ Queue(d)
             \/ Step \/ Crash

PatchSpec == PatchInit /\ [][PatchNext]_patchVars

\* The timer starts the host's cycle again and again; a callback runs on.
PatchFairSpec ==
    PatchSpec /\ WF_patchVars(Step) /\ \A d \in Proposals : WF_patchVars(Queue(d))
----------------------------------------------------------------------------
PatchTypeOK ==
    /\ manifest \in {Unset} \union Proposals /\ staged \in {Unset} \union Proposals
    /\ patches \subseteq Proposals /\ served \in 0 .. Len(log)
    /\ \A d \in Proposals : db[d].status \in {"none", "pending", "approved"} \union Terminal

\* However often the host dies and finds the same manifest again, a decision
\* is committed once.
CommittedOnce ==
    \A d \in Proposals : \A i, j \in Commits("fix", d) : i = j

\* The commit that makes a patch stand is of a decision that is approved at that
\* moment: neither rejected, nor given an outcome before.
OnlyApprovedStep ==
    \A d \in Proposals : Stands(d)' /\ ~Stands(d) => db[d].status = "approved"

\* The repository holds only patches whose decision the owner approved.
OnlyApproved == [][OnlyApprovedStep]_patchVars

\* "approved patch applied and health verified": when the outcome is recorded
\* the running image holds the patch and is healthy.
AppliedWhenServedStep ==
    \A d \in Proposals :
        db'[d].status = "applied" /\ db[d].status # "applied" =>
            Stands(d) /\ patchHealthy /\ served = Len(log)

\* The ledger says applied only of what the image serves (record_agent_decision).
AppliedWhenServed == [][AppliedWhenServedStep]_patchVars

\* A failed patch is gone from the repository and from the worktree.
FailedLeavesNothing ==
    \A d \in Proposals :
        db[d].result \in {"failed_precommit", "reverted"} =>
            ~Stands(d) /\ (patchHost = Idle => staged # d)

\* What a patch promises on its way: committed at most once and only while it is
\* approved, gone when it failed, and in the running image when it is applied.
PatchIsExact ==
    /\ [](PatchTypeOK /\ CommittedOnce /\ FailedLeavesNothing)
    /\ OnlyApproved /\ AppliedWhenServed

=============================================================================
