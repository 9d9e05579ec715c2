----------------------------- MODULE HoldoutClaims -----------------------------
(***************************************************************************)
(* The registry of consumed holdouts (trading_core/alpha_consumption.py)   *)
(* and its two users: the preregistered alpha runner, which also exports   *)
(* its claim as a receipt beside the manifest                              *)
(* (tools/run_preregistered_alpha_experiment.py, alpha_final_oos.py,       *)
(* alpha_validation.py), and the evaluation of the paper forecasts         *)
(* (learning_engine/prospective_validation.py).  A claim is one locked     *)
(* transaction on the registry of a dataset; everything else a runner does *)
(* is a step of its own, and it may die between any two.                   *)
(***************************************************************************)
EXTENDS Integers

CONSTANTS Runners, MaxRuns,     \* processes, and how often each starts
          Ranges, Dirs,         \* final test ranges, manifests' directories
          Legacy,               \* the receipts a directory has at the start
          Windows, Sealed,      \* evaluated windows; the sealed range
          MaxTime, MaxCrashes

IsRange(k) == k \in Nat \X Nat /\ k[1] <= k[2]

ASSUME HoldoutAssumption ==
    /\ MaxRuns \in Nat /\ MaxTime \in Nat \ {0} /\ MaxCrashes \in Nat
    /\ \A k \in Ranges \union Windows \union {Sealed} : IsRange(k)
    /\ \A d \in Dirs : \A k \in DOMAIN Legacy[d] : Legacy[d][k].by[1] \notin Runners
    /\ "sealed" \notin Runners

VARIABLES clock,
          registry,   \* alpha_holdout_consumption: the claims of each dataset
          receipts,   \* .alpha_consumed of each directory
          manifest, reports,
          opened,     \* history: the ranges whose observations were read
          artifacts,  \* history: the forecast artifacts that were written
          runs,       \* where each runner is
          crashes

holdoutVars == <<clock, registry, receipts, manifest, reports, opened, artifacts,
                 runs, crashes>>

None == [none |-> TRUE]
NoClaims == [k \in {} |-> None]
Off(n) == [pc |-> "idle", n |-> n, range |-> <<0, 0>>, dir |-> "none", at |-> 0]

HoldoutInit ==
    /\ clock = 1
    /\ registry = [alpha |-> NoClaims, scope |-> NoClaims]
    /\ receipts = [d \in Dirs |-> Legacy[d]]
    /\ manifest = [d \in Dirs |-> "preregistered"]
    /\ reports = {} /\ opened = {} /\ artifacts = {}
    /\ runs = [r \in Runners |-> Off(0)] /\ crashes = 0

Tick == /\ clock < MaxTime /\ clock' = clock + 1
        /\ UNCHANGED <<registry, receipts, manifest, reports, opened, artifacts,
                       runs, crashes>>

----------------------------------------------------------------------------
(* The registry.                                                           *)
----------------------------------------------------------------------------
Overlap(a, b) == a[1] <= b[2] /\ a[2] >= b[1]

\* A mutant of the next: only the very same range counts as consumed.
ConsumedSame(range, claims) == range \in DOMAIN claims

Consumed(range, claims) == \E k \in DOMAIN claims : Overlap(range, k)

Claim(range, status, by, at) ==
    [range |-> range, status |-> status, by |-> by, at |-> at, report |-> None]

Completed(c, report) ==
    [range |-> c.range, status |-> "completed", by |-> c.by, at |-> c.at,
     report |-> report]

\* setdefault for every claim found.
Imported(claims, found) ==
    [k \in DOMAIN claims \union DOMAIN found |->
        IF k \in DOMAIN claims THEN claims[k] ELSE found[k]]

PutClaim(claims, range, c) ==
    [k \in DOMAIN claims \union {range} |-> IF k = range THEN c ELSE claims[k]]

\* _locked_claims: the claims after one transaction, with a claim of the
\* range unless it is consumed.
Claimed(range, by, claims) ==
    IF Consumed(range, claims) THEN claims
    ELSE PutClaim(claims, range, Claim(range, "started", by, clock))

----------------------------------------------------------------------------
(* The preregistered alpha runner.                                         *)
----------------------------------------------------------------------------
Me(r) == <<r, runs[r].n>>
Leave(r) == runs' = [runs EXCEPT ![r] = Off(runs[r].n)]
To(r, pc) == runs' = [runs EXCEPT ![r].pc = pc]

\* main: bindings checked and the manifest read from one directory.
Register(r) ==
    /\ runs[r].pc = "idle" /\ runs[r].n < MaxRuns
    /\ \E range \in Ranges, dir \in Dirs :
        /\ manifest[dir] = "preregistered"
        /\ runs' = [runs EXCEPT ![r] = [pc |-> "validate", n |-> runs[r].n + 1,
                                        range |-> range, dir |-> dir, at |-> 0]]
    /\ UNCHANGED <<clock, registry, receipts, manifest, reports, opened, artifacts,
                   crashes>>

\* prepare_preregistered_final_oos: the digest again, after the validation.
Validate(r) ==
    /\ runs[r].pc = "validate"
    /\ IF manifest[runs[r].dir] = "preregistered" THEN To(r, "claim") ELSE Leave(r)
    /\ UNCHANGED <<clock, registry, receipts, manifest, reports, opened, artifacts,
                   crashes>>

\* claim_final_oos: receipts found beside the manifest are imported even when
\* the claim is refused.
ClaimFinalOos(r) ==
    LET claims == Imported(registry.alpha, receipts[runs[r].dir]) IN
    /\ runs[r].pc = "claim"
    /\ registry' = [registry EXCEPT
                        !.alpha = Claimed(runs[r].range, Me(r), claims)]
    /\ IF Consumed(runs[r].range, claims) THEN Leave(r) ELSE To(r, "export")
    /\ UNCHANGED <<clock, receipts, manifest, reports, opened, artifacts, crashes>>

\* The receipt is created exclusively, after the claim is committed.
Export(r) ==
    LET dir == runs[r].dir
        range == runs[r].range IN
    /\ runs[r].pc = "export"
    /\ IF range \in DOMAIN receipts[dir] THEN Leave(r) /\ UNCHANGED receipts
       ELSE /\ receipts' = [receipts EXCEPT
                   ![dir] = PutClaim(@, range, registry.alpha[range])]
            /\ To(r, "open")
    /\ UNCHANGED <<clock, registry, manifest, reports, opened, artifacts, crashes>>

\* run_prepared_final_oos_validation: the manifest is checked before the events
\* are read and again before the verdict.
Open(r) ==
    /\ runs[r].pc = "open"
    /\ IF manifest[runs[r].dir] = "preregistered"
       THEN /\ opened' = opened \union
                   {[of |-> "alpha", range |-> runs[r].range, by |-> Me(r)]}
            /\ To(r, "judge")
       ELSE Leave(r) /\ UNCHANGED opened
    /\ UNCHANGED <<clock, registry, receipts, manifest, reports, artifacts, crashes>>

\* _verdict: too few trades, a failed gate, or acceptance.
Judge(r) ==
    /\ runs[r].pc = "judge"
    /\ IF manifest[runs[r].dir] = "preregistered"
       THEN /\ \E verdict \in {"accept", "reject", "insufficient"} :
                reports' = reports \union
                    {[by |-> Me(r), range |-> runs[r].range, verdict |-> verdict]}
            /\ To(r, "complete")
       ELSE Leave(r) /\ UNCHANGED reports
    /\ UNCHANGED <<clock, registry, receipts, manifest, opened, artifacts, crashes>>

ReportOf(r) == CHOOSE x \in reports : x.by = Me(r)

\* complete_final_oos: the receipt must be the registry's claim, and both still
\* started.
Complete(r) ==
    LET range == runs[r].range
        receipt == receipts[runs[r].dir][range]
        claims == Imported(registry.alpha, receipts[runs[r].dir]) IN
    /\ runs[r].pc = "complete"
    /\ IF /\ receipt.status = "started" /\ claims[range].status = "started"
          /\ claims[range].by = receipt.by
       THEN /\ registry' = [registry EXCEPT
                !.alpha = PutClaim(claims, range, Completed(receipt, ReportOf(r)))]
            /\ To(r, "receipt")
       ELSE Leave(r) /\ UNCHANGED registry
    /\ UNCHANGED <<clock, receipts, manifest, reports, opened, artifacts, crashes>>

\* The receipt is replaced by the completed claim.
Receipt(r) ==
    /\ runs[r].pc = "receipt"
    /\ receipts' = [receipts EXCEPT ![runs[r].dir] =
                        PutClaim(@, runs[r].range, registry.alpha[runs[r].range])]
    /\ Leave(r)
    /\ UNCHANGED <<clock, registry, manifest, reports, opened, artifacts, crashes>>

\* Someone replaces the manifest of a directory.
Replace ==
    /\ crashes < MaxCrashes /\ crashes' = crashes + 1
    /\ \E dir \in Dirs : /\ manifest[dir] = "preregistered"
                         /\ manifest' = [manifest EXCEPT ![dir] = "another"]
    /\ UNCHANGED <<clock, registry, receipts, reports, opened, artifacts, runs>>

----------------------------------------------------------------------------
(* The evaluation of the paper forecasts.                                  *)
----------------------------------------------------------------------------
\* The last fifth of a window.
HoldoutOf(w) == <<w[1] + (8 * (w[2] - w[1])) \div 10, w[2]>>

\* claim_holdout: the holdout is claimed in the registry of the scope, which
\* starts with the sealed range, before its labels are opened.
Evaluate(r) ==
    /\ runs[r].pc = "idle" /\ runs[r].n < MaxRuns
    /\ \E w \in Windows :
        LET range == HoldoutOf(w)
            sealed == Claim(Sealed, "completed", <<"sealed", 0>>, 0)
            claims == Imported(registry.scope, [k \in {Sealed} |-> sealed]) IN
        /\ registry' = [registry EXCEPT
                !.scope = Claimed(range, <<r, runs[r].n + 1>>, claims)]
        /\ IF Consumed(range, claims) THEN UNCHANGED runs
           ELSE runs' = [runs EXCEPT ![r] = [pc |-> "labels", n |-> runs[r].n + 1,
                                             range |-> range, dir |-> "none",
                                             at |-> clock]]
    /\ UNCHANGED <<clock, receipts, manifest, reports, opened, artifacts, crashes>>

\* dataset, fit and quantile: too little support raises, and the range stays
\* consumed.
OpenLabels(r) ==
    /\ runs[r].pc = "labels"
    /\ opened' = opened \union
           {[of |-> "scope", range |-> runs[r].range, by |-> Me(r)]}
    /\ To(r, "seal") \/ Leave(r)
    /\ UNCHANGED <<clock, registry, receipts, manifest, reports, artifacts, crashes>>

\* The report completes the claim that is still its own; the artifact carries
\* the claim it started with.
Seal(r) ==
    LET range == runs[r].range
        claim == registry.scope[range]
        report == [by |-> Me(r), range |-> range, verdict |-> "diagnostic"] IN
    /\ runs[r].pc = "seal"
    /\ IF clock >= range[2] /\ claim.by = Me(r) /\ claim.status = "started"
       THEN /\ registry' = [registry EXCEPT
                    !.scope = PutClaim(@, range, Completed(claim, report))]
            /\ artifacts' = artifacts \union
                   {[range |-> range, by |-> Me(r), report |-> report,
                     claimed |-> runs[r].at, evaluated |-> clock]}
       ELSE UNCHANGED <<registry, artifacts>>
    /\ Leave(r)
    /\ UNCHANGED <<clock, receipts, manifest, reports, opened, crashes>>

\* verified_holdout_receipt.
Verified(a) ==
    /\ a.range[2] <= a.claimed /\ a.claimed <= a.evaluated
    /\ a.range \in DOMAIN registry.scope
    /\ LET c == registry.scope[a.range] IN
       c.status = "completed" /\ c.by = a.by /\ c.report = a.report

\* A runner dies, or a step of it raises.
Die(r) ==
    /\ runs[r].pc # "idle" /\ crashes < MaxCrashes /\ crashes' = crashes + 1
    /\ Leave(r)
    /\ UNCHANGED <<clock, registry, receipts, manifest, reports, opened, artifacts>>

HoldoutNext ==
    \/ Tick \/ Replace
    \/ \E r \in Runners :
        \/ Register(r) \/ Validate(r) \/ ClaimFinalOos(r) \/ Export(r) \/ Open(r)
        \/ Judge(r) \/ Complete(r) \/ Receipt(r)
        \/ Evaluate(r) \/ OpenLabels(r) \/ Seal(r) \/ Die(r)

HoldoutSpec == HoldoutInit /\ [][HoldoutNext]_holdoutVars

----------------------------------------------------------------------------
HoldoutTypeOK ==
    /\ clock \in 1..MaxTime /\ crashes \in 0..MaxCrashes
    /\ \A r \in Runners :
        /\ runs[r].n \in 0..MaxRuns
        /\ runs[r].pc \in {"idle", "validate", "claim", "export", "open", "judge",
                           "complete", "receipt", "labels", "seal"}

\* "Consume a non-overlapping range before the runner opens its observations":
\* no two openings of a dataset overlap, none overlaps the sealed range, and each
\* was made by the run that holds the claim.
OpenedOnce ==
    /\ \A a, b \in opened : a.of = b.of /\ a # b => ~Overlap(a.range, b.range)
    /\ \A a \in opened : a.of = "scope" => ~Overlap(a.range, Sealed)
    /\ \A a \in opened : /\ a.range \in DOMAIN registry[a.of]
                         /\ registry[a.of][a.range].by = a.by

\* A completed claim carries the report of the run that holds it, of its own
\* range; an artifact that verifies is the one whose evaluation opened and
\* completed the range, and there is one (verified_holdout_receipt).
CompletedByItsOwner ==
    /\ \A k \in DOMAIN registry.alpha :
        LET c == registry.alpha[k] IN
        c.status = "completed" /\ c.by[1] \in Runners =>
            c.report \in reports /\ c.report.by = c.by /\ c.report.range = k
    /\ \A a \in artifacts : Verified(a) =>
        \E o \in opened : o.of = "scope" /\ o.range = a.range /\ o.by = a.by
    /\ \A a, b \in artifacts :
        Verified(a) /\ Verified(b) /\ a # b => ~Overlap(a.range, b.range)

\* Observations kept back for a final test are opened for one claim and overlap
\* no other opening, and a completed claim carries the report of the run that
\* holds it, whatever dies or is replaced in between.
HoldoutOpensOnce == HoldoutTypeOK /\ OpenedOnce /\ CompletedByItsOwner

=============================================================================
