---------------------------- MODULE KnowledgeProofs ----------------------------
(***************************************************************************)
(* What is learned and tested: HoldoutOpensOnce of HoldoutClaims,          *)
(* LearningIsSound of LearningSupervisor and DevelopmentIsSound of         *)
(* DevelopmentLearning, for any values of their constants.                 *)
(*                                                                         *)
(* Holdouts rest on who holds a claim.  The claims of runners in the       *)
(* registry of a dataset do not overlap, and whatever receipts a directory *)
(* has, a runner's claim among them is in the registry (AlphaInv); the     *)
(* scope starts with the sealed range (ScopeInv).  A runner past its claim *)
(* holds it, so that an opening has the claim of its run (OpenedInv).  A   *)
(* run is a number of its runner, and a report or an artifact is of a run  *)
(* that was there: a runner that is not yet at its verdict has none        *)
(* (ReportInv, ArtifactInv).                                               *)
(*                                                                         *)
(* Learning rests on what a pass knows at each of its steps (PassOk): an   *)
(* agent's document it read and that is still fresh lacks the outcome, so  *)
(* that writing it counts the outcome once more than before; and what it   *)
(* has yet to repair, with what is applied, is its whole summary.          *)
(* Development rests on a ledger that only grows: whatever a call read     *)
(* from it is still true when it writes (TaskOk).                          *)
(***************************************************************************)
EXTENDS HoldoutClaims, LearningSupervisor, DevelopmentLearning, TLAPS,
        FiniteSetTheorems

(* The registries of consumed holdouts.                                    *)

\* What a range, a run and a run's stamp are.
RangeSet == {k \in Nat \X Nat : k[1] <= k[2]}
AlphaRun == {"validate", "claim", "export", "open", "judge", "complete", "receipt"}
ScopeRun == {"labels", "seal"}
RunSet == [pc : {"idle"} \union AlphaRun \union ScopeRun, n : 0..MaxRuns,
           range : RangeSet, dir : Dirs \union {"none"}, at : Nat]
Stamps == Runners \X Nat

\* What the documents and the runners can be.
HTypes ==
    /\ clock \in 1..MaxTime /\ crashes \in 0..MaxCrashes
    /\ runs \in [Runners -> RunSet]
    /\ \A r \in Runners : runs[r].pc \in AlphaRun => runs[r].dir \in Dirs
    /\ registry = [alpha |-> registry.alpha, scope |-> registry.scope]
    /\ DOMAIN receipts = Dirs
    /\ \A x \in reports : x.by \in Stamps
    /\ opened \subseteq [of : {"alpha", "scope"}, range : RangeSet, by : Stamps]

\* Claims of runners, which are ranges that do not overlap.
ByRunner(c) == c.by[1] \in Runners
SoundClaims(claims) ==
    /\ \A k \in DOMAIN claims : ByRunner(claims[k]) => k \in RangeSet
    /\ \A j, k \in DOMAIN claims :
        ByRunner(claims[j]) /\ ByRunner(claims[k]) /\ j # k => ~Overlap(j, k)

\* The registry of the alpha runner, the receipts and the claims in hand.
AlphaInv ==
    /\ SoundClaims(registry.alpha)
    /\ \A d \in Dirs : \A k \in DOMAIN receipts[d] :
        ByRunner(receipts[d][k]) => k \in DOMAIN registry.alpha
    /\ \A r \in Runners :
        runs[r].pc \in {"export", "open", "judge", "complete", "receipt"} =>
            /\ runs[r].range \in DOMAIN registry.alpha
            /\ registry.alpha[runs[r].range].by = Me(r)

\* The registry of the forecast evaluation.
ScopeInv ==
    /\ DOMAIN registry.scope # {} =>
            Sealed \in DOMAIN registry.scope
              /\ registry.scope[Sealed].by = <<"sealed", 0>>
    /\ DOMAIN registry.scope \subseteq RangeSet
    /\ \A j, k \in DOMAIN registry.scope : j # k => ~Overlap(j, k)
    /\ \A r \in Runners : runs[r].pc \in ScopeRun =>
            /\ runs[r].range \in DOMAIN registry.scope
            /\ registry.scope[runs[r].range].by = Me(r)

\* An opening has its claim.
OpenedInv == \A a \in opened : /\ a.range \in DOMAIN registry[a.of]
                               /\ registry[a.of][a.range].by = a.by

\* Reports are of runs that got to their verdict, and complete their own claims.
ReportInv ==
    /\ \A x \in reports : x.by[2] <= runs[x.by[1]].n
    /\ \A r \in Runners :
        runs[r].pc \in {"validate", "claim", "export", "open", "judge"} =>
            \A x \in reports : x.by # Me(r)
    /\ \A r \in Runners : runs[r].pc = "complete" =>
        /\ \E x \in reports : x.by = Me(r)
        /\ \A x \in reports : x.by = Me(r) => x.range = runs[r].range
    /\ \A k \in DOMAIN registry.alpha : LET c == registry.alpha[k] IN
        c.status = "completed" /\ ByRunner(c) =>
            c.report \in reports /\ c.report.by = c.by /\ c.report.range = k

\* Artifacts are of evaluations that opened their labels, one of each run.
ArtifactInv ==
    /\ \A a \in artifacts : /\ a.by \in Stamps /\ a.by[2] <= runs[a.by[1]].n
                            /\ [of |-> "scope", range |-> a.range, by |-> a.by] \in opened
    /\ \A a, b \in artifacts : a.by = b.by => a = b
    /\ \A r \in Runners : runs[r].pc \in ScopeRun => \A a \in artifacts : a.by # Me(r)
    /\ \A r \in Runners : runs[r].pc = "seal" =>
        [of |-> "scope", range |-> runs[r].range, by |-> Me(r)] \in opened

HoldoutInv == HTypes /\ AlphaInv /\ ScopeInv /\ OpenedInv /\ ReportInv /\ ArtifactInv

\* No range is apart from itself.
LEMMA OverlapsItself == \A k \in RangeSet : Overlap(k, k)
  BY DEF RangeSet, Overlap

\* The ranges the constants give, and the last fifth of a window, are ranges.
LEMMA ConstantRanges ==
  /\ Ranges \subseteq RangeSet /\ Sealed \in RangeSet /\ <<0, 0>> \in RangeSet
  /\ \A w \in Windows : HoldoutOf(w) \in RangeSet
  <1>1. \A k \in Ranges \union Windows \union {Sealed} : k \in RangeSet
    BY HoldoutAssumption DEF IsRange, RangeSet
  <1>2. ASSUME NEW w \in Windows PROVE HoldoutOf(w) \in RangeSet
    <2> DEFINE a == w[1]
               b == w[2]
    <2>1. a \in Nat /\ b \in Nat /\ a <= b
      BY <1>1 DEF RangeSet
    <2>2. HoldoutOf(w) = <<a + (8 * (b - a)) \div 10, b>>
      BY DEF HoldoutOf
    <2> HIDE DEF a, b
    <2>3. (8 * (b - a)) \div 10 \in Nat /\ (8 * (b - a)) \div 10 <= b - a
      BY <2>1
    <2>4. QED
      BY <2>1, <2>2, <2>3 DEF RangeSet
  <1>3. <<0, 0>> \in RangeSet
    BY DEF RangeSet
  <1>4. QED
    BY <1>1, <1>2, <1>3

\* A range that is not consumed has no claim.
LEMMA NotIn ==
  \A k \in RangeSet : \A claims : ~Consumed(k, claims) => k \notin DOMAIN claims
  BY OverlapsItself DEF Consumed

----------------------------------------------------------------------------
(* What a step does to a runner, and the parts it leaves alone.            *)

\* How a step moves a runner: it begins its next run, goes on with the run it is in,
\* or ends it.
Begins(p) == /\ runs[p].pc = "idle" /\ runs'[p].pc \in {"validate", "labels"}
             /\ runs'[p].n = runs[p].n + 1
Follows == {<<"validate", "claim">>, <<"claim", "export">>, <<"export", "open">>,
            <<"open", "judge">>, <<"judge", "complete">>, <<"complete", "receipt">>,
            <<"labels", "seal">>}
GoesOn(p) == /\ runs'[p].n = runs[p].n /\ runs'[p].range = runs[p].range
             /\ runs'[p].pc = runs[p].pc \/ <<runs[p].pc, runs'[p].pc>> \in Follows
Ends(p) == runs'[p].n = runs[p].n /\ runs'[p].pc = "idle"
RunStep == \A p \in Runners : Begins(p) \/ GoesOn(p) \/ Ends(p)
Becomes(p, pc) == runs'[p].pc = pc /\ runs[p].pc # pc
\* Only one runner moves, and only to some places.
Only(e, pcs) ==
    \A p \in Runners : runs'[p].pc # runs[p].pc => p = e /\ runs'[p].pc \in pcs
AlphaDirs == \A p \in Runners : runs'[p].pc \in AlphaRun => runs'[p].dir \in Dirs

\* A step of a run moves its runner on, and no other.
LEMMA ToStep ==
  ASSUME HTypes, NEW e \in Runners, NEW pc, To(e, pc), <<runs[e].pc, pc>> \in Follows
  PROVE  /\ runs' \in [Runners -> RunSet] /\ RunStep /\ Only(e, {pc}) /\ AlphaDirs
         /\ runs'[e].pc = pc /\ Me(e)' = Me(e) /\ runs'[e].range = runs[e].range
         /\ runs[e].range \in RangeSet /\ Me(e) \in Stamps
  BY HoldoutAssumption DEF Only, AlphaDirs, Me, Stamps, HTypes, To, RunSet, AlphaRun,
     ScopeRun, RunStep, GoesOn, Follows

\* A run that ends makes its runner idle, and touches no other.
LEMMA LeaveStep ==
  ASSUME HTypes, NEW e \in Runners, Leave(e)
  PROVE  /\ runs' \in [Runners -> RunSet] /\ RunStep /\ Only(e, {"idle"}) /\ AlphaDirs
         /\ runs'[e].pc = "idle"
         /\ runs[e].range \in RangeSet /\ Me(e) \in Stamps
  BY ConstantRanges, HoldoutAssumption DEF Only, AlphaDirs, Me, Stamps, HTypes, Leave,
     Off, RunSet, AlphaRun, ScopeRun, RunStep, Ends, GoesOn

\* The number of a runner's run only grows.
LEMMA Counted ==
  ASSUME HTypes, RunStep
  PROVE  \A p \in Runners : runs[p].n \in Nat /\ runs'[p].n \in Nat
           /\ runs[p].n <= runs'[p].n
  <1> SUFFICES ASSUME NEW p \in Runners
               PROVE  runs[p].n \in Nat /\ runs'[p].n \in Nat /\ runs[p].n <= runs'[p].n
    OBVIOUS
  <1>1. runs[p].n \in Nat
    BY HoldoutAssumption DEF HTypes, RunSet
  <1>2. runs'[p].n = runs[p].n \/ runs'[p].n = runs[p].n + 1
    BY DEF RunStep, Begins, GoesOn, Ends
  <1>3. QED
    BY <1>1, <1>2

\* A claim that is there stays with its holder.
Held(old, new) ==
    \A k \in DOMAIN old : k \in DOMAIN new /\ new[k].by = old[k].by

\* AlphaInv holds after a step that keeps the claims, adds sound ones and lets a
\* runner past its claim only with one.
LEMMA AlphaGrows ==
  ASSUME HoldoutInv, RunStep, SoundClaims(registry'.alpha),
         Held(registry.alpha, registry'.alpha),
         \A d \in Dirs : \A k \in DOMAIN receipts'[d] :
            ByRunner(receipts'[d][k]) => k \in DOMAIN registry'.alpha,
         \A p \in Runners : Becomes(p, "export") =>
            runs'[p].range \in DOMAIN registry'.alpha
              /\ registry'.alpha[runs'[p].range].by = Me(p)'
  PROVE  AlphaInv'
  <1>1. ASSUME NEW p \in Runners,
               runs'[p].pc \in {"export", "open", "judge", "complete", "receipt"},
               ~Becomes(p, "export")
        PROVE  runs'[p].range \in DOMAIN registry'.alpha
                 /\ registry'.alpha[runs'[p].range].by = Me(p)'
    <2>1. GoesOn(p) /\ runs[p].pc \in {"export", "open", "judge", "complete", "receipt"}
      BY <1>1 DEF RunStep, Begins, GoesOn, Ends, Follows, Becomes
    <2>2. QED
      BY <2>1 DEF HoldoutInv, AlphaInv, GoesOn, Me, Held
  <1>2. QED
    BY <1>1 DEF AlphaInv, Becomes, SoundClaims, ByRunner, Me

\* AlphaInv holds after a step that leaves registry and receipts alone.
LEMMA AlphaKept ==
  ASSUME HoldoutInv, RunStep, UNCHANGED registry.alpha, UNCHANGED receipts,
         \A p \in Runners : ~Becomes(p, "export")
  PROVE  AlphaInv'
  <1>1. \A d \in Dirs : \A k \in DOMAIN receipts'[d] :
            ByRunner(receipts'[d][k]) => k \in DOMAIN registry'.alpha
    BY DEF HoldoutInv, AlphaInv
  <1>2. Held(registry.alpha, registry'.alpha) /\ SoundClaims(registry'.alpha)
    BY DEF Held, HoldoutInv, AlphaInv
  <1>3. QED
    BY <1>1, <1>2, AlphaGrows

\* Receipts that are imported bring no claim of a runner, and replace none.
LEMMA ImportFacts ==
  ASSUME HoldoutInv, NEW d \in Dirs
  PROVE  LET claims == Imported(registry.alpha, receipts[d]) IN
         /\ SoundClaims(claims) /\ DOMAIN registry.alpha \subseteq DOMAIN claims
         /\ \A k \in DOMAIN registry.alpha : claims[k] = registry.alpha[k]
         /\ \A k \in DOMAIN claims : ByRunner(claims[k]) => k \in DOMAIN registry.alpha
  BY DEF HoldoutInv, AlphaInv, SoundClaims, Imported, ByRunner

\* ScopeInv holds after a step that keeps the claims and adds one apart from them.
LEMMA ScopeGrows ==
  ASSUME HoldoutInv, RunStep, Held(registry.scope, registry'.scope),
         DOMAIN registry'.scope # {} =>
            Sealed \in DOMAIN registry'.scope
              /\ registry'.scope[Sealed].by = <<"sealed", 0>>,
         DOMAIN registry'.scope \subseteq RangeSet,
         \A j, k \in DOMAIN registry'.scope : j # k => ~Overlap(j, k),
         \A p \in Runners : Becomes(p, "labels") =>
            runs'[p].range \in DOMAIN registry'.scope
              /\ registry'.scope[runs'[p].range].by = Me(p)'
  PROVE  ScopeInv'
  <1>1. ASSUME NEW p \in Runners, runs'[p].pc \in ScopeRun, ~Becomes(p, "labels")
        PROVE  runs[p].pc \in ScopeRun /\ GoesOn(p)
    BY <1>1 DEF RunStep, Begins, GoesOn, Ends, Follows, Becomes, ScopeRun
  <1>2. \A p \in Runners : runs'[p].pc \in ScopeRun =>
           runs'[p].range \in DOMAIN registry'.scope
             /\ registry'.scope[runs'[p].range].by = Me(p)'
    BY <1>1 DEF HoldoutInv, ScopeInv, GoesOn, Me, Held
  <1>3. QED
    BY <1>2 DEF ScopeInv

\* ScopeInv holds after a step that leaves the scope's registry alone.
LEMMA ScopeKept ==
  ASSUME HoldoutInv, RunStep, UNCHANGED registry.scope,
         \A p \in Runners : ~Becomes(p, "labels")
  PROVE  ScopeInv'
  BY ScopeGrows DEF HoldoutInv, ScopeInv, Held

\* OpenedInv holds after a step that opens nothing and keeps the claims.
LEMMA OpenedKept ==
  ASSUME HoldoutInv, UNCHANGED opened,
         Held(registry.alpha, registry'.alpha), Held(registry.scope, registry'.scope)
  PROVE  OpenedInv'
  <1>1. \A a \in opened : a.of \in {"alpha", "scope"}
    BY DEF HoldoutInv, HTypes
  <1>2. QED
    BY <1>1 DEF HoldoutInv, OpenedInv, Held

\* ReportInv holds after a step that writes no report and completes claims rightly.
LEMMA ReportsKept ==
  ASSUME HoldoutInv, RunStep, UNCHANGED reports,
         \A p \in Runners : ~Becomes(p, "complete"),
         \A k \in DOMAIN registry'.alpha :
            \/ k \in DOMAIN registry.alpha /\ registry'.alpha[k] = registry.alpha[k]
            \/ ~ByRunner(registry'.alpha[k]) \/ registry'.alpha[k].status = "started"
            \/ LET c == registry'.alpha[k] IN
               c.report \in reports /\ c.report.by = c.by /\ c.report.range = k
  PROVE  ReportInv'
  <1>1. \A x \in reports : x.by \in Stamps
    BY DEF HoldoutInv, HTypes
  <1>2. \A r \in Runners : runs[r].n \in Nat /\ runs'[r].n \in Nat
          /\ runs[r].n <= runs'[r].n
    BY Counted DEF HoldoutInv
  <1>3. ASSUME NEW x \in reports PROVE x.by[2] <= runs'[x.by[1]].n
    <2>1. PICK p \in Runners, n \in Nat : x.by = <<p, n>>
      BY <1>1 DEF Stamps
    <2>2. n <= runs[p].n
      BY <2>1 DEF HoldoutInv, ReportInv
    <2>3. QED
      BY <1>2, <2>1, <2>2
  <1>4. ASSUME NEW r \in Runners, NEW x \in reports,
               runs'[r].pc \in {"validate", "claim", "export", "open", "judge"}
        PROVE  x.by # Me(r)'
    BY <1>1, <1>2, <1>4 DEF HoldoutInv, ReportInv, RunStep, Begins, GoesOn, Ends,
       Stamps, Me, Follows
  <1>5. ASSUME NEW r \in Runners, runs'[r].pc = "complete"
        PROVE  /\ \E x \in reports : x.by = Me(r)'
               /\ \A x \in reports : x.by = Me(r)' => x.range = runs'[r].range
    <2>1. runs[r].pc = "complete" /\ GoesOn(r)
      BY <1>5 DEF RunStep, Begins, Ends, Becomes
    <2>2. QED
      BY <2>1 DEF HoldoutInv, ReportInv, GoesOn, Me
  <1>6. \A k \in DOMAIN registry'.alpha : LET c == registry'.alpha[k] IN
        c.status = "completed" /\ ByRunner(c) =>
            c.report \in reports /\ c.report.by = c.by /\ c.report.range = k
    BY DEF HoldoutInv, ReportInv
  <1>7. QED
    BY <1>3, <1>4, <1>5, <1>6 DEF ReportInv, ByRunner

\* ArtifactInv holds after a step that writes no artifact and seals what was opened.
LEMMA ArtifactsKept ==
  ASSUME HoldoutInv, RunStep, UNCHANGED artifacts, opened \subseteq opened',
         \A p \in Runners : Becomes(p, "seal") =>
            [of |-> "scope", range |-> runs'[p].range, by |-> Me(p)'] \in opened'
  PROVE  ArtifactInv'
  <1>1. \A r \in Runners : runs[r].n \in Nat /\ runs'[r].n \in Nat
          /\ runs[r].n <= runs'[r].n
    BY Counted DEF HoldoutInv
  <1>2. ASSUME NEW a \in artifacts
        PROVE  a.by \in Stamps /\ a.by[2] <= runs'[a.by[1]].n
    <2>1. a.by \in Stamps /\ a.by[2] <= runs[a.by[1]].n
      BY DEF HoldoutInv, ArtifactInv
    <2>2. PICK p \in Runners, n \in Nat : a.by = <<p, n>>
      BY <2>1 DEF Stamps
    <2>3. QED
      BY <1>1, <2>1, <2>2
  <1>3. ASSUME NEW r \in Runners, NEW a \in artifacts, runs'[r].pc \in ScopeRun
        PROVE  a.by # Me(r)'
    <2>0. a.by \in Stamps /\ a.by[2] <= runs[a.by[1]].n
      BY DEF HoldoutInv, ArtifactInv
    <2>1. PICK p \in Runners, n \in Nat : a.by = <<p, n>> /\ n <= runs[p].n
      BY <2>0 DEF Stamps
    <2>2. CASE Begins(r)
      BY <1>1, <2>1, <2>2 DEF Begins, Me
    <2>3. CASE GoesOn(r)
      <3>1. runs[r].pc \in ScopeRun
        BY <1>3, <2>3 DEF GoesOn, Follows, ScopeRun
      <3>2. QED
        BY <2>3, <3>1 DEF HoldoutInv, ArtifactInv, GoesOn, Me
    <2>4. QED
      BY <1>3, <2>2, <2>3 DEF RunStep, Ends, ScopeRun
  <1>4. ASSUME NEW r \in Runners, runs'[r].pc = "seal"
        PROVE  [of |-> "scope", range |-> runs'[r].range, by |-> Me(r)'] \in opened'
    <2>1. CASE runs[r].pc = "seal"
      <3>1. GoesOn(r)
        BY <1>4, <2>1 DEF RunStep, Begins, Ends
      <3>2. QED
        BY <2>1, <3>1 DEF HoldoutInv, ArtifactInv, GoesOn, Me
    <2>2. QED
      BY <1>4, <2>1 DEF Becomes
  <1>5. QED
    BY <1>2, <1>3, <1>4 DEF HoldoutInv, ArtifactInv

----------------------------------------------------------------------------
(* The steps.                                                              *)

\* A run begins with a number of its own (Register).
LEMMA RegisterInv ==
  ASSUME HoldoutInv, NEW e \in Runners, Register(e)
  PROVE  HoldoutInv'
  <1>1. RunStep /\ Only(e, {"validate", "idle"}) /\ HTypes'
    BY HoldoutAssumption, ConstantRanges DEF HoldoutInv, HTypes, Register, AlphaRun,
       ScopeRun, RunSet, RunStep, Begins, GoesOn, Only
  <1>2. AlphaInv'
    BY <1>1, AlphaKept DEF Register, Becomes, Only
  <1>3. ScopeInv'
    BY <1>1, ScopeKept DEF Register, Becomes, Only
  <1>4. OpenedInv'
    BY <1>1, OpenedKept DEF Register, Held
  <1>5. ReportInv'
    BY <1>1, ReportsKept DEF Register, Becomes, Only
  <1>6. ArtifactInv'
    BY <1>1, ArtifactsKept DEF Register, Becomes, Only
  <1>7. QED
    BY <1>1, <1>2, <1>3, <1>4, <1>5, <1>6 DEF HoldoutInv

\* The check of the manifest changes no document (Validate).
LEMMA ValidateInv ==
  ASSUME HoldoutInv, NEW e \in Runners, Validate(e)
  PROVE  HoldoutInv'
  <1>1. RunStep /\ Only(e, {"claim", "idle"}) /\ HTypes'
    <2>1. /\ runs' \in [Runners -> RunSet] /\ RunStep
          /\ Only(e, {"claim", "idle"}) /\ AlphaDirs
          /\ runs[e].range \in RangeSet /\ Me(e) \in Stamps
      BY ToStep, LeaveStep DEF HoldoutInv, Validate, Follows, Only
    <2>2. QED
      BY <2>1 DEF HoldoutInv, HTypes, Validate, AlphaDirs
  <1>2. AlphaInv'
    BY <1>1, AlphaKept DEF Validate, Becomes, Only
  <1>3. ScopeInv'
    BY <1>1, ScopeKept DEF Validate, Becomes, Only
  <1>4. OpenedInv'
    BY <1>1, OpenedKept DEF Validate, Held
  <1>5. ReportInv'
    BY <1>1, ReportsKept DEF Validate, Becomes, Only
  <1>6. ArtifactInv'
    BY <1>1, ArtifactsKept DEF Validate, Becomes, Only
  <1>7. QED
    BY <1>1, <1>2, <1>3, <1>4, <1>5, <1>6 DEF HoldoutInv

\* Receipts are imported and a range is claimed that overlaps no claim
\* (ClaimFinalOos).
LEMMA ClaimFinalOosInv ==
  ASSUME HoldoutInv, NEW e \in Runners, ClaimFinalOos(e)
  PROVE  HoldoutInv'
  <1>1. RunStep /\ Only(e, {"export", "idle"}) /\ HTypes'
    <2>1. /\ runs' \in [Runners -> RunSet] /\ RunStep
          /\ Only(e, {"export", "idle"}) /\ AlphaDirs
          /\ runs[e].range \in RangeSet /\ Me(e) \in Stamps
      BY ToStep, LeaveStep DEF HoldoutInv, ClaimFinalOos, Follows, Only
    <2>2. QED
      BY <2>1 DEF HoldoutInv, HTypes, ClaimFinalOos, AlphaDirs
  <1> DEFINE claims == Imported(registry.alpha, receipts[runs[e].dir])
             new == Claimed(runs[e].range, Me(e), claims)
  <1>a. /\ registry'.alpha = new /\ registry'.scope = registry.scope
        /\ runs[e].range \in RangeSet /\ runs[e].dir \in Dirs
    BY DEF ClaimFinalOos, HoldoutInv, HTypes, RunSet, AlphaRun
  <1>b. /\ SoundClaims(claims) /\ DOMAIN registry.alpha \subseteq DOMAIN claims
        /\ \A k \in DOMAIN registry.alpha : claims[k] = registry.alpha[k]
        /\ \A k \in DOMAIN claims : ByRunner(claims[k]) => k \in DOMAIN registry.alpha
    BY <1>a, ImportFacts
  <1> HIDE DEF claims
  <1>c. /\ SoundClaims(new) /\ DOMAIN registry.alpha \subseteq DOMAIN new
        /\ \A k \in DOMAIN registry.alpha : new[k] = registry.alpha[k]
        /\ \A k \in DOMAIN new : ByRunner(new[k]) =>
               k \in DOMAIN registry.alpha \/ new[k].status = "started"
        /\ \A p \in Runners : Becomes(p, "export") =>
               runs'[p].range \in DOMAIN new /\ new[runs'[p].range].by = Me(p)'
    <2>1. CASE Consumed(runs[e].range, claims)
      <3>1. new = claims /\ Leave(e)
        BY <2>1 DEF Claimed, ClaimFinalOos, claims
      <3>2. \A p \in Runners : ~Becomes(p, "export")
        BY <3>1, LeaveStep DEF HoldoutInv, Only, Becomes
      <3>3. QED
        BY <3>1, <3>2, <1>b
    <2>2. CASE ~Consumed(runs[e].range, claims)
      <3>1. /\ DOMAIN new = DOMAIN claims \union {runs[e].range}
            /\ runs[e].range \notin DOMAIN claims
            /\ new[runs[e].range].by = Me(e) /\ new[runs[e].range].status = "started"
            /\ \A k \in DOMAIN claims :
                   new[k] = claims[k] /\ ~Overlap(k, runs[e].range)
                     /\ ~Overlap(runs[e].range, k)
        <4>1. new = Claimed(runs[e].range, Me(e), claims)
          OBVIOUS
        <4> HIDE DEF new
        <4>2. QED
          BY <1>a, <2>2, <4>1, NotIn DEF Claimed, PutClaim, Claim, Consumed, Overlap
      <3>2. To(e, "export") /\ runs[e].pc = "claim"
        BY <2>2 DEF ClaimFinalOos, claims
      <3>3. Only(e, {"export"}) /\ Me(e)' = Me(e) /\ runs'[e].range = runs[e].range
        BY <3>2, ToStep DEF HoldoutInv, Follows
      <3> HIDE DEF new
      <3>4. SoundClaims(new)
        BY <1>a, <1>b, <3>1 DEF SoundClaims
      <3>5. QED
        BY <1>b, <3>1, <3>3, <3>4 DEF Only, Becomes
    <2>3. QED
      BY <2>1, <2>2
  <1> HIDE DEF new
  <1>d. UNCHANGED <<receipts, reports, opened, artifacts>>
    BY DEF ClaimFinalOos
  <1>2. AlphaInv'
    <2>1. \A d \in Dirs : \A k \in DOMAIN receipts'[d] :
              ByRunner(receipts'[d][k]) => k \in DOMAIN registry'.alpha
      BY <1>a, <1>c, <1>d DEF HoldoutInv, AlphaInv
    <2>2. Held(registry.alpha, registry'.alpha)
      BY <1>a, <1>c DEF Held
    <2>3. QED
      BY <1>1, <1>a, <1>c, <2>1, <2>2, AlphaGrows
  <1>3. ScopeInv'
    BY <1>1, ScopeKept DEF ClaimFinalOos, Becomes, Only
  <1>4. OpenedInv'
    BY <1>a, <1>c, <1>d, OpenedKept DEF Held
  <1>5. ReportInv'
    BY <1>1, <1>a, <1>c, <1>d, ReportsKept DEF Becomes, Only
  <1>6. ArtifactInv'
    BY <1>1, ArtifactsKept DEF ClaimFinalOos, Becomes, Only
  <1>7. QED
    BY <1>1, <1>2, <1>3, <1>4, <1>5, <1>6 DEF HoldoutInv

\* A receipt is written of a claim that is in the registry (Export).
LEMMA ExportInv ==
  ASSUME HoldoutInv, NEW e \in Runners, Export(e)
  PROVE  HoldoutInv'
  <1>1. RunStep /\ Only(e, {"open", "idle"}) /\ HTypes'
    <2>1. /\ runs' \in [Runners -> RunSet] /\ RunStep
          /\ Only(e, {"open", "idle"}) /\ AlphaDirs
          /\ runs[e].range \in RangeSet /\ Me(e) \in Stamps
      BY ToStep, LeaveStep DEF HoldoutInv, Export, Follows, Only
    <2>2. QED
      BY <2>1 DEF HoldoutInv, HTypes, Export, AlphaDirs
  <1>2. AlphaInv'
    <2>1. registry.alpha = registry'.alpha /\ runs[e].range \in DOMAIN registry.alpha
      BY DEF Export, HoldoutInv, AlphaInv
    <2>2. \A d \in Dirs : \A k \in DOMAIN receipts'[d] :
              \/ k \in DOMAIN receipts[d] /\ receipts'[d][k] = receipts[d][k]
              \/ k = runs[e].range
      BY DEF Export, PutClaim, HoldoutInv, HTypes
    <2>3. \A d \in Dirs : \A k \in DOMAIN receipts'[d] :
              ByRunner(receipts'[d][k]) => k \in DOMAIN registry'.alpha
      BY <2>1, <2>2 DEF HoldoutInv, AlphaInv
    <2>4. SoundClaims(registry'.alpha) /\ Held(registry.alpha, registry'.alpha)
      BY <2>1 DEF HoldoutInv, AlphaInv, Held
    <2>5. QED
      BY <1>1, <2>3, <2>4, AlphaGrows DEF Only, Becomes
  <1>3. ScopeInv'
    BY <1>1, ScopeKept DEF Export, Becomes, Only
  <1>4. OpenedInv'
    BY <1>1, OpenedKept DEF Export, Held
  <1>5. ReportInv'
    BY <1>1, ReportsKept DEF Export, Becomes, Only
  <1>6. ArtifactInv'
    BY <1>1, ArtifactsKept DEF Export, Becomes, Only
  <1>7. QED
    BY <1>1, <1>2, <1>3, <1>4, <1>5, <1>6 DEF HoldoutInv

\* The events of a claimed range are read by the run that holds it (Open).
LEMMA OpenInv ==
  ASSUME HoldoutInv, NEW e \in Runners, Open(e)
  PROVE  HoldoutInv'
  <1>1. RunStep /\ Only(e, {"judge", "idle"}) /\ HTypes'
    <2>1. /\ runs' \in [Runners -> RunSet] /\ RunStep
          /\ Only(e, {"judge", "idle"}) /\ AlphaDirs
          /\ runs[e].range \in RangeSet /\ Me(e) \in Stamps
      BY ToStep, LeaveStep DEF HoldoutInv, Open, Follows, Only
    <2>2. QED
      BY <2>1 DEF HoldoutInv, HTypes, Open, AlphaDirs
  <1>2. AlphaInv'
    BY <1>1, AlphaKept DEF Open, Becomes, Only
  <1>3. ScopeInv'
    BY <1>1, ScopeKept DEF Open, Becomes, Only
  <1>4. OpenedInv'
    <2>1. /\ runs[e].range \in DOMAIN registry.alpha
          /\ registry.alpha[runs[e].range].by = Me(e)
      BY DEF Open, HoldoutInv, AlphaInv
    <2>2. QED
      BY <2>1 DEF Open, HoldoutInv, OpenedInv
  <1>5. ReportInv'
    BY <1>1, ReportsKept DEF Open, Becomes, Only
  <1>6. ArtifactInv'
    BY <1>1, ArtifactsKept DEF Open, Becomes, Only
  <1>7. QED
    BY <1>1, <1>2, <1>3, <1>4, <1>5, <1>6 DEF HoldoutInv

\* A run writes one report (Judge).
LEMMA JudgeInv ==
  ASSUME HoldoutInv, NEW e \in Runners, Judge(e)
  PROVE  HoldoutInv'
  <1>1. RunStep /\ Only(e, {"complete", "idle"}) /\ HTypes'
    <2>1. /\ runs' \in [Runners -> RunSet] /\ RunStep
          /\ Only(e, {"complete", "idle"}) /\ AlphaDirs
          /\ runs[e].range \in RangeSet /\ Me(e) \in Stamps
      BY ToStep, LeaveStep DEF HoldoutInv, Judge, Follows, Only
    <2>2. \A x \in reports' : x.by \in Stamps
      BY <2>1 DEF HoldoutInv, HTypes, Judge
    <2>3. QED
      BY <2>1, <2>2 DEF HoldoutInv, HTypes, Judge, AlphaDirs
  <1>2. AlphaInv'
    BY <1>1, AlphaKept DEF Judge, Becomes, Only
  <1>3. ScopeInv'
    BY <1>1, ScopeKept DEF Judge, Becomes, Only
  <1>4. OpenedInv'
    BY <1>1, OpenedKept DEF Judge, Held
  <1>5. ReportInv'
    <2>1. CASE manifest[runs[e].dir] = "preregistered"
      <3>1. PICK x : /\ reports' = reports \union {x} /\ x.by = Me(e)
                     /\ x.range = runs[e].range
        <4>1. PICK v \in {"accept", "reject", "insufficient"} :
                 reports' = reports \union
                     {[by |-> Me(e), range |-> runs[e].range, verdict |-> v]}
          BY <2>1 DEF Judge
        <4> DEFINE y == [by |-> Me(e), range |-> runs[e].range, verdict |-> v]
        <4>2. y.by = Me(e) /\ y.range = runs[e].range
          OBVIOUS
        <4>3. reports' = reports \union {y}
          BY <4>1
        <4> HIDE DEF y
        <4>4. QED
          BY <4>2, <4>3
      <3>2. /\ Me(e)' = Me(e) /\ runs'[e].range = runs[e].range
            /\ runs'[e].pc = "complete"
            /\ Me(e) \in Stamps /\ Me(e) = <<e, runs[e].n>> /\ runs'[e].n = runs[e].n
        BY <2>1, ToStep DEF Judge, HoldoutInv, Follows, Me
      <3>3. \A p \in Runners : runs'[p].n = runs[p].n /\ runs[p].n \in Nat
              /\ Me(p)' = Me(p)
        BY <1>1, <3>2, Counted DEF HoldoutInv, RunStep, Begins, GoesOn, Ends, Only, Me
      <3>4. \A y \in reports' : y.by[2] <= runs'[y.by[1]].n
        <4>1. \A y \in reports : y.by \in Stamps
          BY DEF HoldoutInv, HTypes
        <4>2. \A y \in reports : y.by[1] \in Runners
          BY <4>1 DEF Stamps
        <4>3. QED
          BY <3>1, <3>2, <3>3, <4>2 DEF HoldoutInv, ReportInv
      <3>5. ASSUME NEW p \in Runners,
                   runs'[p].pc \in {"validate", "claim", "export", "open", "judge"}
            PROVE  \A y \in reports' : y.by # Me(p)'
        <4>1. p # e /\ runs[p].pc = runs'[p].pc
          BY <1>1, <3>2, <3>5 DEF Only
        <4>2. QED
          BY <3>1, <3>3, <3>5, <4>1 DEF HoldoutInv, ReportInv, Me
      <3>6. ASSUME NEW p \in Runners, runs'[p].pc = "complete"
            PROVE  /\ \E y \in reports' : y.by = Me(p)'
                   /\ \A y \in reports' : y.by = Me(p)' => y.range = runs'[p].range
        <4>1. CASE p = e
          BY <3>1, <3>2, <4>1 DEF HoldoutInv, ReportInv, Judge
        <4>2. CASE p # e
          <5>1. runs[p].pc = "complete" /\ runs'[p].range = runs[p].range
            BY <1>1, <3>6, <4>2 DEF Only, RunStep, Begins, GoesOn, Ends
          <5>2. Me(p)' = Me(p) /\ x.by # Me(p)
            BY <3>1, <3>3, <4>2 DEF Me
          <5>3. QED
            BY <3>1, <5>1, <5>2 DEF HoldoutInv, ReportInv
        <4>3. QED
          BY <4>1, <4>2
      <3>7. registry' = registry
        BY DEF Judge
      <3>8. QED
        BY <3>1, <3>4, <3>5, <3>6, <3>7 DEF HoldoutInv, ReportInv, ByRunner
    <2>2. CASE manifest[runs[e].dir] # "preregistered"
      BY <1>1, <2>2, ReportsKept, LeaveStep DEF Judge, Becomes, Only, HoldoutInv
    <2>3. QED
      BY <2>1, <2>2
  <1>6. ArtifactInv'
    BY <1>1, ArtifactsKept DEF Judge, Becomes, Only
  <1>7. QED
    BY <1>1, <1>2, <1>3, <1>4, <1>5, <1>6 DEF HoldoutInv

\* A run completes the claim it holds with its own report (Complete).
LEMMA CompleteInv ==
  ASSUME HoldoutInv, NEW e \in Runners, Complete(e)
  PROVE  HoldoutInv'
  <1>1. RunStep /\ Only(e, {"receipt", "idle"}) /\ HTypes'
    <2>1. /\ runs' \in [Runners -> RunSet] /\ RunStep
          /\ Only(e, {"receipt", "idle"}) /\ AlphaDirs
          /\ runs[e].range \in RangeSet /\ Me(e) \in Stamps
      BY ToStep, LeaveStep DEF HoldoutInv, Complete, Follows, Only
    <2>2. QED
      BY <2>1 DEF HoldoutInv, HTypes, Complete, AlphaDirs
  <1> DEFINE range == runs[e].range
             claims == Imported(registry.alpha, receipts[runs[e].dir])
             done == Completed(receipts[runs[e].dir][range], ReportOf(e))
  <1>a. /\ range \in RangeSet /\ runs[e].dir \in Dirs /\ range \in DOMAIN registry.alpha
        /\ registry.alpha[range].by = Me(e)
    BY DEF Complete, HoldoutInv, HTypes, RunSet, AlphaRun, AlphaInv
  <1>b. /\ SoundClaims(claims) /\ DOMAIN registry.alpha \subseteq DOMAIN claims
        /\ \A k \in DOMAIN registry.alpha : claims[k] = registry.alpha[k]
        /\ \A k \in DOMAIN claims : ByRunner(claims[k]) => k \in DOMAIN registry.alpha
    BY <1>a, ImportFacts
  <1>c. registry'.scope = registry.scope
    BY DEF Complete, HoldoutInv, HTypes
  <1>d. \/ registry' = registry
        \/ registry'.alpha = PutClaim(claims, range, done) /\ claims[range].by = done.by
    BY DEF Complete, HoldoutInv, HTypes, Completed
  <1>e. ReportOf(e) \in reports /\ ReportOf(e).by = Me(e) /\ ReportOf(e).range = range
    BY DEF Complete, HoldoutInv, ReportInv, ReportOf
  <1>f. done.report = ReportOf(e)
    BY DEF Completed
  <1> HIDE DEF claims, done, range
  <1>g. /\ Held(registry.alpha, registry'.alpha) /\ SoundClaims(registry'.alpha)
        /\ \A k \in DOMAIN registry'.alpha :
              \/ k \in DOMAIN registry.alpha /\ registry'.alpha[k] = registry.alpha[k]
              \/ ~ByRunner(registry'.alpha[k])
              \/ LET c == registry'.alpha[k] IN
                 c.report \in reports /\ c.report.by = c.by /\ c.report.range = k
    <2>1. CASE registry' = registry
      BY <2>1 DEF HoldoutInv, AlphaInv, Held
    <2>2. CASE registry'.alpha = PutClaim(claims, range, done)
                 /\ claims[range].by = done.by
      <3>1. /\ DOMAIN registry'.alpha = DOMAIN claims
            /\ \A k \in DOMAIN claims : /\ registry'.alpha[k].by = claims[k].by
                                        /\ k # range => registry'.alpha[k] = claims[k]
            /\ registry'.alpha[range] = done /\ done.by = Me(e)
        BY <1>a, <1>b, <2>2 DEF PutClaim
      <3>2. QED
        BY <1>a, <1>b, <1>e, <1>f, <3>1 DEF Held, SoundClaims, ByRunner
    <2>3. QED
      BY <1>d, <2>1, <2>2
  <1>h. UNCHANGED <<receipts, reports, opened, artifacts>>
    BY DEF Complete
  <1>2. AlphaInv'
    <2>1. \A d \in Dirs : \A k \in DOMAIN receipts'[d] :
              ByRunner(receipts'[d][k]) => k \in DOMAIN registry'.alpha
      BY <1>g, <1>h DEF HoldoutInv, AlphaInv, Held
    <2>2. QED
      BY <1>1, <1>g, <2>1, AlphaGrows DEF Only, Becomes
  <1>3. ScopeInv'
    BY <1>1, <1>c, ScopeKept DEF Becomes, Only
  <1>4. OpenedInv'
    BY <1>c, <1>g, <1>h, OpenedKept DEF Held
  <1>5. ReportInv'
    BY <1>1, <1>g, <1>h, ReportsKept DEF Becomes, Only
  <1>6. ArtifactInv'
    BY <1>1, ArtifactsKept DEF Complete, Becomes, Only
  <1>7. QED
    BY <1>1, <1>2, <1>3, <1>4, <1>5, <1>6 DEF HoldoutInv

\* The receipt of a completed claim replaces its own (Receipt).
LEMMA ReceiptInv ==
  ASSUME HoldoutInv, NEW e \in Runners, Receipt(e)
  PROVE  HoldoutInv'
  <1>1. RunStep /\ Only(e, {"idle"}) /\ HTypes'
    <2>1. /\ runs' \in [Runners -> RunSet] /\ RunStep /\ Only(e, {"idle"}) /\ AlphaDirs
          /\ runs[e].range \in RangeSet /\ Me(e) \in Stamps
      BY LeaveStep DEF HoldoutInv, Receipt, Follows, Only
    <2>2. QED
      BY <2>1 DEF HoldoutInv, HTypes, Receipt, AlphaDirs
  <1>2. AlphaInv'
    <2>1. registry.alpha = registry'.alpha /\ runs[e].range \in DOMAIN registry.alpha
      BY DEF Receipt, HoldoutInv, AlphaInv
    <2>2. \A d \in Dirs : \A k \in DOMAIN receipts'[d] :
              \/ k \in DOMAIN receipts[d] /\ receipts'[d][k] = receipts[d][k]
              \/ k = runs[e].range
      BY DEF Receipt, PutClaim, HoldoutInv, HTypes
    <2>3. \A d \in Dirs : \A k \in DOMAIN receipts'[d] :
              ByRunner(receipts'[d][k]) => k \in DOMAIN registry'.alpha
      BY <2>1, <2>2 DEF HoldoutInv, AlphaInv
    <2>4. SoundClaims(registry'.alpha) /\ Held(registry.alpha, registry'.alpha)
      BY <2>1 DEF HoldoutInv, AlphaInv, Held
    <2>5. QED
      BY <1>1, <2>3, <2>4, AlphaGrows DEF Only, Becomes
  <1>3. ScopeInv'
    BY <1>1, ScopeKept DEF Receipt, Becomes, Only
  <1>4. OpenedInv'
    BY <1>1, OpenedKept DEF Receipt, Held
  <1>5. ReportInv'
    BY <1>1, ReportsKept DEF Receipt, Becomes, Only
  <1>6. ArtifactInv'
    BY <1>1, ArtifactsKept DEF Receipt, Becomes, Only
  <1>7. QED
    BY <1>1, <1>2, <1>3, <1>4, <1>5, <1>6 DEF HoldoutInv

\* A death leaves every document as it is (Die).
LEMMA DieInv ==
  ASSUME HoldoutInv, NEW e \in Runners, Die(e)
  PROVE  HoldoutInv'
  <1>1. RunStep /\ Only(e, {"idle"}) /\ HTypes'
    <2>1. /\ runs' \in [Runners -> RunSet] /\ RunStep /\ Only(e, {"idle"}) /\ AlphaDirs
          /\ runs[e].range \in RangeSet /\ Me(e) \in Stamps
      BY LeaveStep DEF HoldoutInv, Die, Follows, Only
    <2>2. QED
      BY <2>1, HoldoutAssumption DEF HoldoutInv, HTypes, Die, AlphaDirs
  <1>2. AlphaInv'
    BY <1>1, AlphaKept DEF Die, Becomes, Only
  <1>3. ScopeInv'
    BY <1>1, ScopeKept DEF Die, Becomes, Only
  <1>4. OpenedInv'
    BY <1>1, OpenedKept DEF Die, Held
  <1>5. ReportInv'
    BY <1>1, ReportsKept DEF Die, Becomes, Only
  <1>6. ArtifactInv'
    BY <1>1, ArtifactsKept DEF Die, Becomes, Only
  <1>7. QED
    BY <1>1, <1>2, <1>3, <1>4, <1>5, <1>6 DEF HoldoutInv

\* An evaluation claims a range apart from every claim and from the sealed one
\* (Evaluate).
LEMMA EvaluateInv ==
  ASSUME HoldoutInv, NEW e \in Runners, Evaluate(e)
  PROVE  HoldoutInv'
  <1>1. RunStep /\ Only(e, {"labels", "idle"}) /\ HTypes'
    BY HoldoutAssumption, ConstantRanges DEF HoldoutInv, HTypes, Evaluate, AlphaRun,
       ScopeRun, RunSet, RunStep, Begins, GoesOn, Only
  <1> DEFINE sealed == Claim(Sealed, "completed", <<"sealed", 0>>, 0)
             claims == Imported(registry.scope, [k \in {Sealed} |-> sealed])
  <1>a. PICK w \in Windows :
           LET range == HoldoutOf(w)
           IN  /\ registry' = [registry EXCEPT
                      !.scope = Claimed(range, <<e, runs[e].n + 1>>, claims)]
               /\ IF Consumed(range, claims) THEN UNCHANGED runs
                  ELSE runs' = [runs EXCEPT ![e] = [pc |-> "labels", n |-> runs[e].n + 1,
                                                    range |-> range, dir |-> "none",
                                                    at |-> clock]]
    BY DEF Evaluate
  <1> DEFINE range == HoldoutOf(w)
             by == <<e, runs[e].n + 1>>
             new == Claimed(range, by, claims)
  <1>b. /\ registry'.alpha = registry.alpha /\ registry'.scope = new
        /\ range \in RangeSet
    BY <1>a, ConstantRanges DEF HoldoutInv, HTypes
  <1>c. /\ Sealed \in DOMAIN claims /\ claims[Sealed].by = <<"sealed", 0>>
        /\ DOMAIN registry.scope \subseteq DOMAIN claims
        /\ DOMAIN claims \subseteq RangeSet
        /\ \A j \in DOMAIN registry.scope : claims[j] = registry.scope[j]
        /\ \A j, k \in DOMAIN claims : j # k => ~Overlap(j, k)
    BY ConstantRanges DEF HoldoutInv, ScopeInv, Imported, Claim
  <1>d. Consumed(range, claims) => new = claims /\ UNCHANGED runs
    BY <1>a DEF Claimed
  <1>e. ~Consumed(range, claims) =>
           \A p \in Runners : Becomes(p, "labels") =>
              runs'[p].range = range /\ Me(p)' = by
    BY <1>a DEF HoldoutInv, HTypes, Becomes, Me
  <1>f. new = Claimed(range, by, claims)
    OBVIOUS
  <1> HIDE DEF claims, new, range, by
  <1>g. /\ Sealed \in DOMAIN new /\ new[Sealed].by = <<"sealed", 0>>
        /\ DOMAIN registry.scope \subseteq DOMAIN new /\ DOMAIN new \subseteq RangeSet
        /\ \A j \in DOMAIN registry.scope : new[j] = registry.scope[j]
        /\ \A j, k \in DOMAIN new : j # k => ~Overlap(j, k)
        /\ \A p \in Runners : Becomes(p, "labels") =>
              runs'[p].range \in DOMAIN new /\ new[runs'[p].range].by = Me(p)'
    <2>1. CASE Consumed(range, claims)
      BY <1>c, <1>d, <2>1 DEF Becomes
    <2>2. CASE ~Consumed(range, claims)
      <3>1. /\ DOMAIN new = DOMAIN claims \union {range} /\ range \notin DOMAIN claims
            /\ new[range].by = by
            /\ \A k \in DOMAIN claims :
                   new[k] = claims[k] /\ ~Overlap(k, range) /\ ~Overlap(range, k)
        BY <1>b, <1>f, <2>2, NotIn DEF Claimed, PutClaim, Claim, Consumed, Overlap
      <3>2. QED
        BY <1>b, <1>c, <1>e, <2>2, <3>1
    <2>3. QED
      BY <2>1, <2>2
  <1>2. AlphaInv'
    BY <1>1, <1>b, AlphaKept DEF Evaluate, Becomes, Only
  <1>3. ScopeInv'
    BY <1>1, <1>b, <1>g, ScopeGrows DEF Held
  <1>4. OpenedInv'
    BY <1>b, <1>g, OpenedKept DEF Evaluate, Held
  <1>5. ReportInv'
    BY <1>1, ReportsKept DEF Evaluate, Becomes, Only
  <1>6. ArtifactInv'
    BY <1>1, ArtifactsKept DEF Evaluate, Becomes, Only
  <1>7. QED
    BY <1>1, <1>2, <1>3, <1>4, <1>5, <1>6 DEF HoldoutInv

\* Labels are opened by the evaluation that holds the range (OpenLabels).
LEMMA OpenLabelsInv ==
  ASSUME HoldoutInv, NEW e \in Runners, OpenLabels(e)
  PROVE  HoldoutInv'
  <1>1. RunStep /\ Only(e, {"seal", "idle"}) /\ HTypes'
    <2>1. /\ runs' \in [Runners -> RunSet] /\ RunStep
          /\ Only(e, {"seal", "idle"}) /\ AlphaDirs
          /\ runs[e].range \in RangeSet /\ Me(e) \in Stamps
      BY ToStep, LeaveStep DEF HoldoutInv, OpenLabels, Follows, Only
    <2>2. QED
      BY <2>1 DEF HoldoutInv, HTypes, OpenLabels, AlphaDirs
  <1>2. AlphaInv'
    BY <1>1, AlphaKept DEF OpenLabels, Becomes, Only
  <1>3. ScopeInv'
    BY <1>1, ScopeKept DEF OpenLabels, Becomes, Only
  <1>4. OpenedInv'
    <2>1. /\ runs[e].range \in DOMAIN registry.scope
          /\ registry.scope[runs[e].range].by = Me(e)
      BY DEF OpenLabels, HoldoutInv, ScopeInv, ScopeRun
    <2>2. QED
      BY <2>1 DEF OpenLabels, HoldoutInv, OpenedInv
  <1>5. ReportInv'
    BY <1>1, ReportsKept DEF OpenLabels, Becomes, Only
  <1>6. ArtifactInv'
    <2>1. /\ UNCHANGED artifacts /\ opened \subseteq opened'
          /\ [of |-> "scope", range |-> runs[e].range, by |-> Me(e)] \in opened'
      BY DEF OpenLabels
    <2>2. Becomes(e, "seal") => runs'[e].range = runs[e].range /\ Me(e)' = Me(e)
      BY ToStep, LeaveStep DEF OpenLabels, HoldoutInv, Follows, Becomes
    <2>3. QED
      BY <1>1, <2>1, <2>2, ArtifactsKept DEF Becomes, Only
  <1>7. QED
    BY <1>1, <1>2, <1>3, <1>4, <1>5, <1>6 DEF HoldoutInv

\* An evaluation writes one artifact, of the range it opened (Seal).
LEMMA SealInv ==
  ASSUME HoldoutInv, NEW e \in Runners, Seal(e)
  PROVE  HoldoutInv'
  <1>1. RunStep /\ Only(e, {"idle"}) /\ HTypes'
    <2>1. /\ runs' \in [Runners -> RunSet] /\ RunStep /\ Only(e, {"idle"}) /\ AlphaDirs
          /\ runs[e].range \in RangeSet /\ Me(e) \in Stamps
      BY LeaveStep DEF HoldoutInv, Seal, Follows, Only
    <2>2. QED
      BY <2>1 DEF HoldoutInv, HTypes, Seal, AlphaDirs
  <1> DEFINE range == runs[e].range
             done == Completed(registry.scope[range],
                               [by |-> Me(e), range |-> range, verdict |-> "diagnostic"])
  <1>a. /\ range \in DOMAIN registry.scope /\ registry.scope[range].by = Me(e)
        /\ [of |-> "scope", range |-> range, by |-> Me(e)] \in opened
        /\ Me(e) \in Stamps /\ Me(e) = <<e, runs[e].n>> /\ runs[e].n \in Nat
        /\ \A a \in artifacts : a.by # Me(e)
    BY LeaveStep DEF Seal, HoldoutInv, ScopeInv, ArtifactInv, ScopeRun, Me, Stamps
  <1>b. registry'.alpha = registry.alpha
    BY DEF Seal, HoldoutInv, HTypes
  <1>c. /\ DOMAIN registry'.scope = DOMAIN registry.scope
        /\ \A k \in DOMAIN registry.scope : registry'.scope[k].by = registry.scope[k].by
    <2>1. CASE registry' = registry
      BY <2>1
    <2>2. CASE registry'.scope = PutClaim(registry.scope, range, done)
      <3>1. done.by = registry.scope[range].by
        BY DEF Completed
      <3> HIDE DEF done, range
      <3>2. QED
        BY <1>a, <2>2, <3>1 DEF PutClaim
    <2>3. QED
      BY <2>1, <2>2 DEF Seal, HoldoutInv, HTypes
  <1>d. UNCHANGED <<receipts, reports, opened>>
    BY DEF Seal
  <1> HIDE DEF range, done
  <1>2. AlphaInv'
    BY <1>1, <1>b, <1>d, AlphaKept DEF Becomes, Only
  <1>3. ScopeInv'
    BY <1>1, <1>c, ScopeGrows DEF Becomes, Only, HoldoutInv, ScopeInv, Held
  <1>4. OpenedInv'
    BY <1>b, <1>c, <1>d, OpenedKept DEF Held
  <1>5. ReportInv'
    BY <1>1, <1>b, <1>d, ReportsKept DEF Becomes, Only
  <1>6. ArtifactInv'
    <2>1. \/ artifacts' = artifacts
          \/ \E x : /\ artifacts' = artifacts \union {x} /\ x.by = Me(e)
                    /\ x.range = range
      <3>1. CASE artifacts' = artifacts
        BY <3>1
      <3>2. CASE artifacts' # artifacts
        <4> DEFINE report == [by |-> Me(e), range |-> range, verdict |-> "diagnostic"]
                   y == [range |-> range, by |-> Me(e), report |-> report,
                         claimed |-> runs[e].at, evaluated |-> clock]
        <4>1. y.by = Me(e) /\ y.range = range
          OBVIOUS
        <4>2. artifacts' = artifacts \union {y}
          BY <3>2 DEF Seal, range
        <4> HIDE DEF y
        <4>3. QED
          BY <4>1, <4>2
      <3>3. QED
        BY <3>1, <3>2
    <2>2. CASE artifacts' = artifacts
      BY <1>1, <1>d, <2>2, ArtifactsKept DEF Becomes, Only
    <2>3. CASE artifacts' # artifacts
      <3>1. PICK x : /\ artifacts' = artifacts \union {x} /\ x.by = Me(e)
                     /\ x.range = range
        BY <2>1, <2>3
      <3>2. \A p \in Runners : runs'[p].n = runs[p].n
        BY <1>1 DEF RunStep, Begins, GoesOn, Ends, Only
      <3>3. ASSUME NEW p \in Runners, runs'[p].pc \in ScopeRun
            PROVE  p # e /\ GoesOn(p) /\ runs[p].pc = runs'[p].pc
        BY <1>1, <3>3, LeaveStep DEF Seal, HoldoutInv, RunStep, Begins, Ends, Only,
           ScopeRun
      <3>4. \A p \in Runners : runs'[p].pc \in ScopeRun =>
                /\ \A a \in artifacts' : a.by # Me(p)'
                /\ runs'[p].pc = "seal" => [of |-> "scope", range |-> runs'[p].range,
                                            by |-> Me(p)'] \in opened'
        <4>1. ASSUME NEW p \in Runners, runs'[p].pc \in ScopeRun
              PROVE  /\ Me(p)' = Me(p) /\ runs'[p].range = runs[p].range
                     /\ Me(p) # Me(e) /\ runs[p].pc = runs'[p].pc
          BY <3>3, <4>1 DEF GoesOn, Me
        <4>2. QED
          BY <1>d, <3>1, <4>1 DEF HoldoutInv, ArtifactInv
      <3>5. \A a \in artifacts' :
               /\ a.by \in Stamps /\ a.by[2] <= runs'[a.by[1]].n
               /\ [of |-> "scope", range |-> a.range, by |-> a.by] \in opened'
        <4>1. /\ x.by \in Stamps /\ x.by[2] <= runs'[x.by[1]].n
              /\ [of |-> "scope", range |-> x.range, by |-> x.by] \in opened'
          BY <1>a, <1>d, <3>1, <3>2
        <4>2. ASSUME NEW a \in artifacts
              PROVE  /\ a.by \in Stamps /\ a.by[2] <= runs'[a.by[1]].n
                     /\ [of |-> "scope", range |-> a.range, by |-> a.by] \in opened'
          <5>1. a.by \in Stamps /\ a.by[2] <= runs[a.by[1]].n
            BY DEF HoldoutInv, ArtifactInv
          <5>2. a.by[1] \in Runners
            BY <5>1 DEF Stamps
          <5>3. QED
            BY <1>d, <3>2, <5>1, <5>2 DEF HoldoutInv, ArtifactInv
        <4>3. QED
          BY <3>1, <4>1, <4>2
      <3>6. \A a, b \in artifacts' : a.by = b.by => a = b
        BY <1>a, <3>1 DEF HoldoutInv, ArtifactInv
      <3>7. QED
        BY <3>4, <3>5, <3>6 DEF ArtifactInv, ScopeRun
    <2>4. QED
      BY <2>2, <2>3
  <1>7. QED
    BY <1>1, <1>2, <1>3, <1>4, <1>5, <1>6 DEF HoldoutInv

\* Time and a replaced manifest leave the claims alone (Tick, Replace).
LEMMA TickInv ==
  ASSUME HoldoutInv, Tick \/ Replace
  PROVE  HoldoutInv'
  <1>1. /\ clock' \in 1..MaxTime /\ crashes' \in 0..MaxCrashes
        /\ UNCHANGED <<registry, receipts, reports, opened, artifacts, runs>>
    BY HoldoutAssumption DEF HoldoutInv, HTypes, Tick, Replace
  <1>2. HTypes'
    BY <1>1 DEF HoldoutInv, HTypes
  <1>3. AlphaInv' /\ ScopeInv' /\ OpenedInv' /\ ReportInv' /\ ArtifactInv'
    BY <1>1 DEF HoldoutInv, AlphaInv, ScopeInv, OpenedInv, ReportInv, ArtifactInv,
       Me, SoundClaims, ByRunner
  <1>4. QED
    BY <1>2, <1>3 DEF HoldoutInv

\* At the start only earlier receipts are there.
LEMMA InitInv == HoldoutInit => HoldoutInv
  <1> SUFFICES ASSUME HoldoutInit PROVE HoldoutInv
    OBVIOUS
  <1>1. HTypes
    BY HoldoutAssumption, ConstantRanges DEF HoldoutInit, HTypes, RunSet, AlphaRun, Off
  <1>2. AlphaInv
    BY HoldoutAssumption DEF HoldoutInit, AlphaInv, SoundClaims, NoClaims, ByRunner, Off
  <1>3. ScopeInv /\ OpenedInv /\ ReportInv /\ ArtifactInv
    BY DEF HoldoutInit, ScopeInv, OpenedInv, ReportInv, ArtifactInv, NoClaims, Off,
       ScopeRun
  <1>4. QED
    BY <1>1, <1>2, <1>3 DEF HoldoutInv

\* HoldoutInv is inductive.
LEMMA NextInv == HoldoutInv /\ [HoldoutNext]_holdoutVars => HoldoutInv'
  <1> SUFFICES ASSUME HoldoutInv, [HoldoutNext]_holdoutVars PROVE HoldoutInv'
    OBVIOUS
  <1>1. CASE Tick \/ Replace
    BY <1>1, TickInv
  <1>2. ASSUME NEW r \in Runners,
               \/ Register(r) \/ Validate(r) \/ ClaimFinalOos(r) \/ Export(r) \/ Open(r)
               \/ Judge(r) \/ Complete(r) \/ Receipt(r)
               \/ Evaluate(r) \/ OpenLabels(r) \/ Seal(r) \/ Die(r)
        PROVE  HoldoutInv'
    BY <1>2, RegisterInv, ValidateInv, ClaimFinalOosInv, ExportInv, OpenInv, JudgeInv,
       CompleteInv, ReceiptInv, EvaluateInv, OpenLabelsInv, SealInv, DieInv
  <1>3. CASE UNCHANGED holdoutVars
    BY <1>3 DEF holdoutVars, HoldoutInv, HTypes, AlphaInv, ScopeInv, OpenedInv,
       ReportInv, ArtifactInv, Me, SoundClaims, ByRunner
  <1>4. QED
    BY <1>1, <1>2, <1>3 DEF HoldoutNext

----------------------------------------------------------------------------
(* What the invariant promises.                                            *)

\* Openings do not overlap: they have claims, and the claims do not.
LEMMA OpeningsAreOnce == HoldoutInv => OpenedOnce
  <1> SUFFICES ASSUME HoldoutInv PROVE OpenedOnce
    OBVIOUS
  <1>1. \A a \in opened :
           /\ a = [of |-> a.of, range |-> a.range, by |-> a.by]
           /\ a.of \in {"alpha", "scope"} /\ a.by \in Stamps /\ a.by[1] \in Runners
           /\ a.range \in DOMAIN registry[a.of] /\ registry[a.of][a.range].by = a.by
    <2>1. ASSUME NEW a \in opened
          PROVE  /\ a = [of |-> a.of, range |-> a.range, by |-> a.by]
                 /\ a.of \in {"alpha", "scope"} /\ a.by \in Stamps
      BY DEF HoldoutInv, HTypes
    <2>2. \A s \in Stamps : s[1] \in Runners
      BY DEF Stamps
    <2>3. QED
      BY <2>1, <2>2 DEF HoldoutInv, OpenedInv
  <1>2. ASSUME NEW a \in opened, NEW b \in opened, a.of = b.of, a # b
        PROVE  ~Overlap(a.range, b.range)
    <2>1. a.range # b.range
      BY <1>1, <1>2
    <2>2. CASE a.of = "alpha"
      BY <1>1, <1>2, <2>1, <2>2 DEF HoldoutInv, AlphaInv, SoundClaims, ByRunner
    <2>3. CASE a.of = "scope"
      BY <1>1, <1>2, <2>1, <2>3 DEF HoldoutInv, ScopeInv
    <2>4. QED
      BY <1>1, <2>2, <2>3
  <1>3. ASSUME NEW a \in opened, a.of = "scope"
        PROVE  ~Overlap(a.range, Sealed)
    <2>1. /\ a.range \in DOMAIN registry.scope /\ registry.scope[a.range].by = a.by
          /\ a.by[1] \in Runners
      BY <1>1, <1>3
    <2>2. Sealed \in DOMAIN registry.scope
            /\ registry.scope[Sealed].by = <<"sealed", 0>>
      BY <2>1 DEF HoldoutInv, ScopeInv
    <2>3. a.range # Sealed
      BY <2>1, <2>2, HoldoutAssumption
    <2>4. QED
      BY <2>1, <2>2, <2>3 DEF HoldoutInv, ScopeInv
  <1>4. QED
    BY <1>1, <1>2, <1>3 DEF OpenedOnce

\* Reports and artifacts are those of the run that holds the claim.
LEMMA OwnersComplete == HoldoutInv => CompletedByItsOwner
  <1> SUFFICES ASSUME HoldoutInv PROVE CompletedByItsOwner
    OBVIOUS
  <1>1. \A k \in DOMAIN registry.alpha :
           LET c == registry.alpha[k] IN
           c.status = "completed" /\ c.by[1] \in Runners =>
               c.report \in reports /\ c.report.by = c.by /\ c.report.range = k
    BY DEF HoldoutInv, ReportInv, ByRunner
  <1>2. ASSUME NEW a \in artifacts
        PROVE  \E o \in opened : o.of = "scope" /\ o.range = a.range /\ o.by = a.by
    <2> DEFINE o == [of |-> "scope", range |-> a.range, by |-> a.by]
    <2>1. o \in opened
      BY DEF HoldoutInv, ArtifactInv
    <2>2. QED
      BY <2>1
  <1>3. ASSUME NEW a \in artifacts, NEW b \in artifacts, Verified(a), Verified(b), a # b
        PROVE  ~Overlap(a.range, b.range)
    <2>1. a.by # b.by
      BY <1>3 DEF HoldoutInv, ArtifactInv
    <2>2. /\ a.range \in DOMAIN registry.scope /\ registry.scope[a.range].by = a.by
          /\ b.range \in DOMAIN registry.scope /\ registry.scope[b.range].by = b.by
      BY <1>3 DEF Verified
    <2>3. QED
      BY <2>1, <2>2 DEF HoldoutInv, ScopeInv
  <1>4. QED
    BY <1>1, <1>2, <1>3 DEF CompletedByItsOwner

\* Observations kept back for a final test are opened for one claim and overlap no
\* other opening, and a completed claim carries the report of the run that holds it,
\* for any values of the constants (alpha_consumption.py, alpha_final_oos.py,
\* prospective_validation.py).
THEOREM HoldoutOpensOnceHolds == HoldoutSpec => []HoldoutOpensOnce
  <1>1. HoldoutInv => HoldoutOpensOnce
    <2> SUFFICES ASSUME HoldoutInv PROVE HoldoutOpensOnce
      OBVIOUS
    <2>1. HoldoutTypeOK
      BY DEF HoldoutInv, HTypes, RunSet, AlphaRun, ScopeRun, HoldoutTypeOK
    <2>2. QED
      BY <2>1, OpeningsAreOnce, OwnersComplete DEF HoldoutOpensOnce
  <1>2. QED
    BY InitInv, NextInv, <1>1, PTL DEF HoldoutSpec

----------------------------------------------------------------------------
(* The learning supervisor.                                                *)

LearningConstants == NoLabel \notin {1, 2, "accepted", "excluded"}

\* What a listed settlement, the score of a summary and a pass are.
Rows == [dec : Decisions, pnl : {1, 2}, ok : BOOLEAN]
Pairs == Decisions \X Agents
Summaries == [sum : SUBSET Decisions, scores : [Agents -> SUBSET Decisions]]
Passes == [pc : {"idle", "scan", "record", "repair", "summary", "challenge"},
           rows : SUBSET Rows, cur : {NoLabel} \union Rows, todo : SUBSET Pairs,
           seen : {NoLabel} \union Pairs \union Summaries, fresh : BOOLEAN,
           clean : BOOLEAN, sum : SUBSET Decisions]

\* What the documents and the passes can be.
LTypes ==
    /\ settle \in [Decisions -> {NoLabel} \union [pnl : {1, 2}, ok : BOOLEAN]]
    /\ quality \in [Decisions -> {NoLabel, "accepted", "excluded"}]
    /\ outcome \in [Decisions -> {NoLabel, 1, 2}]
    /\ metrics \in [Agents -> [applied : SUBSET Decisions, count : Nat]]
    /\ experiment \subseteq Summaries
    /\ work \in [Workers -> Passes]

\* What is applied was attributed, and is counted.
MetricsInv == \A a \in Agents :
    /\ metrics[a].applied \subseteq Attributed
    /\ IsFiniteSet(metrics[a].applied)
    /\ metrics[a].count = Cardinality(metrics[a].applied)

\* What a pass knows at each of its steps.
PassOk(l) ==
    /\ l.pc = "record" => l.cur \in Rows /\ quality[l.cur.dec] # NoLabel
    /\ l.sum \subseteq Attributed
    /\ \A t \in l.todo : t[1] \in Attributed
    /\ l.pc \in {"scan", "record"} => l.seen = NoLabel
    /\ l.pc \in {"repair", "summary"} /\ l.seen # NoLabel =>
        /\ l.seen \in l.todo
        /\ l.fresh => l.seen[1] \notin metrics[l.seen[2]].applied
    /\ l.pc = "summary" => \A d \in l.sum, a \in Agents :
        <<d, a>> \in l.todo \/ d \in metrics[a].applied
    /\ l.pc = "challenge" => l.seen \in experiment

LearningInv ==
    /\ LTypes /\ MetricsInv /\ LineageFirst /\ SummaryIsApplied
    /\ challenger \subseteq experiment
    /\ \A w \in Workers : PassOk(work[w])

\* A pass is the record of its fields.
LEMMA PassRecord ==
  ASSUME NEW l \in Passes
  PROVE  l = [pc |-> l.pc, rows |-> l.rows, cur |-> l.cur, todo |-> l.todo,
              seen |-> l.seen, fresh |-> l.fresh, clean |-> l.clean, sum |-> l.sum]
  BY DEF Passes

\* A pass knows as much after a step that adds to the documents and leaves the
\* metrics alone.
Adds ==
    /\ \A d \in Decisions : quality[d] # NoLabel => quality'[d] # NoLabel
    /\ \A d \in Decisions : outcome[d] # NoLabel => outcome'[d] # NoLabel
    /\ experiment \subseteq experiment'
    /\ UNCHANGED metrics
LEMMA StillKnows ==
  ASSUME Adds, NEW l \in Passes, PassOk(l)
  PROVE  PassOk(l)'
  BY DEF Adds, PassOk, Passes, Rows, Attributed

\* A step of one pass that adds to the documents keeps the invariant, when what it
\* adds and where it goes are sound.
LEMMA Proceeds ==
  ASSUME LearningInv, Adds, NEW w \in Workers, NEW next \in Passes, Go(w, next),
         LTypes' \/ UNCHANGED <<settle, quality, outcome, experiment>>,
         LineageFirst' \/ UNCHANGED <<quality, outcome>>,
         SummaryIsApplied' \/ UNCHANGED experiment,
         (challenger \subseteq experiment)' \/ UNCHANGED challenger,
         PassOk(next)'
  PROVE  LearningInv'
  <1>1. work' \in [Workers -> Passes] /\ \A v \in Workers : work'[v] =
            IF v = w THEN next ELSE work[v]
    BY DEF LearningInv, LTypes, Go
  <1>2. LTypes'
    BY <1>1 DEF LearningInv, LTypes, Adds
  <1>3. MetricsInv'
    BY DEF LearningInv, MetricsInv, Adds, Attributed
  <1>4. LineageFirst'
    BY DEF LearningInv, LineageFirst, Attributed
  <1>5. SummaryIsApplied'
    BY DEF LearningInv, SummaryIsApplied, Adds
  <1>6. (challenger \subseteq experiment)'
    BY DEF LearningInv, Adds
  <1>7. \A v \in Workers : PassOk(work[v])'
    BY <1>1, StillKnows DEF LearningInv, LTypes
  <1>8. QED
    BY <1>2, <1>3, <1>4, <1>5, <1>6, <1>7 DEF LearningInv

\* The idle pass knows nothing.
LEMMA IdlePass == Idle \in Passes /\ PassOk(Idle) /\ PassOk(Idle)'
  BY DEF Idle, Passes, PassOk

\* A settlement, or an edit of one, touches nothing that was learned.
LEMMA SettleInv ==
  ASSUME LearningInv, NEW d \in Decisions, Settle(d) \/ Edit(d)
  PROVE  LearningInv'
  <1>1. LTypes'
    <2>1. CASE Settle(d)
      BY <2>1 DEF LearningInv, LTypes, Settle
    <2>2. CASE Edit(d)
      BY <2>2 DEF LearningInv, LTypes, Edit
    <2>3. QED
      BY <2>1, <2>2
  <1>2. UNCHANGED <<quality, outcome, metrics, experiment, challenger, work>>
    BY DEF Settle, Edit
  <1>3. Adds
    BY <1>2 DEF Adds
  <1>4. \A v \in Workers : PassOk(work[v])'
    BY <1>2, <1>3, StillKnows DEF LearningInv, LTypes
  <1>5. QED
    BY <1>1, <1>2, <1>4 DEF LearningInv, MetricsInv, LineageFirst, SummaryIsApplied,
       Attributed

\* The settlements are listed (Snapshot).
LEMMA SnapshotInv ==
  ASSUME LearningInv, NEW w \in Workers, Snapshot(w)
  PROVE  LearningInv'
  <1>1. PICK rows : rows = {[dec |-> d, pnl |-> settle[d].pnl, ok |-> settle[d].ok] :
                              d \in {x \in Decisions : settle[x] # NoLabel}}
    OBVIOUS
  <1>2. rows \subseteq Rows
    BY <1>1 DEF LearningInv, LTypes, Rows
  <1>3. PICK next : next = [Idle EXCEPT !.pc = "scan", !.rows = rows]
    OBVIOUS
  <1>4. next = [pc |-> "scan", rows |-> rows, cur |-> NoLabel, todo |-> {},
                seen |-> NoLabel, fresh |-> FALSE, clean |-> TRUE, sum |-> {}]
    BY <1>3, Zenon DEF Idle
  <1>5. next \in Passes /\ PassOk(next)'
    BY <1>2, <1>4 DEF Idle, Passes, PassOk
  <1>6. Go(w, next) /\ Adds
    BY <1>1, <1>3 DEF Snapshot, Adds
  <1>7. QED
    BY <1>5, <1>6, Proceeds DEF Snapshot

\* A row is judged, and its lineage written before it is attributed (Scan).
LEMMA ScanInv ==
  ASSUME LearningInv, LearningConstants, NEW w \in Workers, Scan(w)
  PROVE  LearningInv'
  <1>0. PICK l : l = work[w]
    OBVIOUS
  <1>1. PICK r \in l.rows :
          LET on == [l EXCEPT !.rows = @ \ {r}]
              known == outcome[r.dec] # NoLabel
          IN IF ~r.ok \/ (known /\ outcome[r.dec] # r.pnl)
             THEN /\ Lineage(r.dec, "excluded")
                  /\ Go(w, [on EXCEPT !.clean = @ /\ ~known])
             ELSE /\ Lineage(r.dec, "accepted")
                  /\ Go(w, IF known THEN on
                           ELSE [on EXCEPT !.pc = "record", !.cur = r])
    BY <1>0 DEF Scan
  <1>2. l \in Passes /\ PassOk(l) /\ l.pc = "scan" /\ r \in Rows
    BY <1>0 DEF LearningInv, LTypes, Scan, Passes
  <1>3. PICK next \in Passes :
          /\ Go(w, next) /\ next.pc \in {"scan", "record"}
          /\ next.pc = "record" => next.cur = r
          /\ next.sum = l.sum /\ next.todo = l.todo /\ next.seen = l.seen
    <2>0. l = [pc |-> l.pc, rows |-> l.rows, cur |-> l.cur, todo |-> l.todo,
               seen |-> l.seen, fresh |-> l.fresh, clean |-> l.clean, sum |-> l.sum]
      BY <1>2, PassRecord
    <2>1. PICK on : on = [l EXCEPT !.rows = @ \ {r}]
      OBVIOUS
    <2>2. on = [pc |-> l.pc, rows |-> l.rows \ {r}, cur |-> l.cur, todo |-> l.todo,
                seen |-> l.seen, fresh |-> l.fresh, clean |-> l.clean, sum |-> l.sum]
      BY <2>0, <2>1, Zenon
    <2>3. PICK known \in BOOLEAN : known = (outcome[r.dec] # NoLabel)
      OBVIOUS
    <2>4. PICK out : out = [on EXCEPT !.clean = @ /\ ~known]
      OBVIOUS
    <2>5. out = [pc |-> l.pc, rows |-> l.rows \ {r}, cur |-> l.cur, todo |-> l.todo,
                 seen |-> l.seen, fresh |-> l.fresh, clean |-> l.clean /\ ~known,
                 sum |-> l.sum]
      BY <2>2, <2>4, Zenon
    <2>6. PICK in : in = [on EXCEPT !.pc = "record", !.cur = r]
      OBVIOUS
    <2>7. in = [pc |-> "record", rows |-> l.rows \ {r}, cur |-> r, todo |-> l.todo,
                seen |-> l.seen, fresh |-> l.fresh, clean |-> l.clean, sum |-> l.sum]
      BY <2>2, <2>6, Zenon
    <2>8. Go(w, out) \/ Go(w, on) \/ Go(w, in)
      BY <1>1, <2>1, <2>3, <2>4, <2>6
    <2>9. (l.clean /\ ~known) \in BOOLEAN
      OBVIOUS
    <2>10. on \in Passes /\ out \in Passes /\ in \in Passes
      BY <1>2, <2>2, <2>5, <2>7, <2>9 DEF Passes
    <2>11. QED
      BY <1>2, <2>2, <2>5, <2>7, <2>8, <2>10
  <1>4. quality' \in [Decisions -> {NoLabel, "accepted", "excluded"}]
          /\ quality'[r.dec] # NoLabel
          /\ \A d \in Decisions : d # r.dec => quality'[d] = quality[d]
    BY <1>1, <1>2 DEF Lineage, LearningInv, LTypes, LearningConstants, Rows
  <1>5. Adds /\ UNCHANGED <<outcome, experiment, challenger, settle>>
    BY <1>4 DEF Scan, Adds
  <1>6. LTypes' /\ LineageFirst'
    <2>1. work' \in [Workers -> Passes]
      BY <1>3 DEF Go, LearningInv, LTypes
    <2>2. QED
      BY <1>4, <1>5, <2>1 DEF LearningInv, LTypes, LineageFirst, Attributed, Adds
  <1>7. PassOk(next)'
    BY <1>2, <1>3, <1>4, <1>5 DEF PassOk, Attributed, Rows
  <1>8. QED
    BY <1>3, <1>5, <1>6, <1>7, Proceeds

\* An outcome is written once, and its metrics are repaired next (Record).
LEMMA RecordInv ==
  ASSUME LearningInv, LearningConstants, NEW w \in Workers, Record(w)
  PROVE  LearningInv'
  <1>0. PICK l : l = work[w]
    OBVIOUS
  <1>1. PICK d, n : d = l.cur.dec /\ n = l.cur.pnl
    OBVIOUS
  <1>2. /\ l \in Passes /\ PassOk(l) /\ l.pc = "record"
        /\ d \in Decisions /\ n \in {1, 2} /\ quality[d] # NoLabel
    BY <1>0, <1>1 DEF LearningInv, LTypes, Record, PassOk, Rows
  <1>3. l = [pc |-> l.pc, rows |-> l.rows, cur |-> l.cur, todo |-> l.todo,
             seen |-> l.seen, fresh |-> l.fresh, clean |-> l.clean, sum |-> l.sum]
    BY <1>2, PassRecord
  <1>4. PICK on : on = [l EXCEPT !.pc = "repair", !.todo = {d} \X Agents]
    OBVIOUS
  <1>5. on = [pc |-> "repair", rows |-> l.rows, cur |-> l.cur, todo |-> {d} \X Agents,
              seen |-> l.seen, fresh |-> l.fresh, clean |-> l.clean, sum |-> l.sum]
    BY <1>3, <1>4, Zenon
  <1>6. PICK off : off = [l EXCEPT !.pc = "scan", !.cur = NoLabel]
    OBVIOUS
  <1>7. off = [pc |-> "scan", rows |-> l.rows, cur |-> NoLabel, todo |-> l.todo,
               seen |-> l.seen, fresh |-> l.fresh, clean |-> l.clean, sum |-> l.sum]
    BY <1>3, <1>6, Zenon
  <1>8. {d} \X Agents \subseteq Pairs
    BY <1>2 DEF Pairs
  <1>9. on \in Passes /\ off \in Passes
    BY <1>2, <1>5, <1>7, <1>8 DEF Passes
  <1>10. CASE outcome[d] \in {NoLabel, n}
    <2>1. outcome' = [outcome EXCEPT ![d] = n] /\ Go(w, on)
            /\ UNCHANGED <<settle, quality, metrics, experiment, challenger>>
      BY <1>0, <1>1, <1>4, <1>10 DEF Record
    <2>2. outcome' \in [Decisions -> {NoLabel, 1, 2}] /\ outcome'[d] # NoLabel
            /\ \A x \in Decisions : x # d => outcome'[x] = outcome[x]
      BY <1>2, <2>1 DEF LearningInv, LTypes, LearningConstants
    <2>3. Adds
      BY <2>1, <2>2 DEF Adds
    <2>4. work' \in [Workers -> Passes]
      BY <1>9, <2>1 DEF Go, LearningInv, LTypes
    <2>5. LTypes'
      BY <2>1, <2>2, <2>4 DEF LearningInv, LTypes
    <2>6. LineageFirst'
      BY <1>2, <2>1, <2>2 DEF LearningInv, LineageFirst, Attributed
    <2>7. Attributed \subseteq Attributed' /\ d \in Attributed'
      BY <1>2, <2>2, <2>3 DEF Attributed, Adds
    <2>8. PassOk(on)'
      BY <1>2, <1>5, <2>7 DEF PassOk
    <2>9. QED
      BY <1>9, <2>1, <2>3, <2>5, <2>6, <2>8, Proceeds
  <1>11. CASE outcome[d] \notin {NoLabel, n}
    <2>1. Go(w, off)
            /\ UNCHANGED <<settle, outcome, quality, metrics, experiment, challenger>>
      BY <1>0, <1>1, <1>6, <1>11 DEF Record
    <2>2. Adds
      BY <2>1 DEF Adds
    <2>3. PassOk(off)
      BY <1>2, <1>7 DEF PassOk
    <2>4. QED
      BY <1>9, <2>1, <2>2, <2>3, StillKnows, Proceeds
  <1>12. QED
    BY <1>10, <1>11

\* An agent's document is read (ReadAgent).
LEMMA ReadAgentInv ==
  ASSUME LearningInv, NEW w \in Workers, ReadAgent(w)
  PROVE  LearningInv'
  <1>0. PICK l : l = work[w]
    OBVIOUS
  <1>1. PICK t \in l.todo :
          Go(w, IF t[1] \in metrics[t[2]].applied
                THEN [l EXCEPT !.todo = @ \ {t}]
                ELSE [l EXCEPT !.seen = t, !.fresh = TRUE])
    BY <1>0 DEF ReadAgent
  <1>2. /\ l \in Passes /\ PassOk(l) /\ l.pc \in {"repair", "summary"}
        /\ l.seen = NoLabel /\ t \in Pairs
    BY <1>0 DEF LearningInv, LTypes, ReadAgent, Passes
  <1>3. l = [pc |-> l.pc, rows |-> l.rows, cur |-> l.cur, todo |-> l.todo,
             seen |-> l.seen, fresh |-> l.fresh, clean |-> l.clean, sum |-> l.sum]
    BY <1>2, PassRecord
  <1>4. PICK on : on = [l EXCEPT !.todo = @ \ {t}]
    OBVIOUS
  <1>5. on = [pc |-> l.pc, rows |-> l.rows, cur |-> l.cur, todo |-> l.todo \ {t},
              seen |-> l.seen, fresh |-> l.fresh, clean |-> l.clean, sum |-> l.sum]
    BY <1>3, <1>4, Zenon
  <1>6. PICK off : off = [l EXCEPT !.seen = t, !.fresh = TRUE]
    OBVIOUS
  <1>7. off = [pc |-> l.pc, rows |-> l.rows, cur |-> l.cur, todo |-> l.todo,
               seen |-> t, fresh |-> TRUE, clean |-> l.clean, sum |-> l.sum]
    BY <1>3, <1>6, Zenon
  <1>8. on \in Passes /\ off \in Passes
    BY <1>2, <1>5, <1>7 DEF Passes
  <1>9. Adds /\ UNCHANGED <<settle, quality, outcome, experiment, challenger>>
    BY DEF Adds, ReadAgent
  <1>10. CASE t[1] \in metrics[t[2]].applied
    <2>1. Go(w, on)
      BY <1>1, <1>4, <1>10
    <2>2. PassOk(on)
      BY <1>2, <1>5, <1>10 DEF PassOk
    <2>3. QED
      BY <1>8, <1>9, <2>1, <2>2, StillKnows, Proceeds
  <1>11. CASE t[1] \notin metrics[t[2]].applied
    <2>1. Go(w, off)
      BY <1>1, <1>6, <1>11
    <2>2. PassOk(off)
      BY <1>2, <1>7, <1>11 DEF PassOk
    <2>3. QED
      BY <1>8, <1>9, <2>1, <2>2, StillKnows, Proceeds
  <1>12. QED
    BY <1>10, <1>11

\* An agent's document is written once for each reader that is still fresh: the other
\* readers of it are stale (WriteAgent).
LEMMA WriteAgentInv ==
  ASSUME LearningInv, NEW w \in Workers, WriteAgent(w)
  PROVE  LearningInv'
  <1>0. PICK l : l = work[w]
    OBVIOUS
  <1>1. PICK t : t = l.seen
    OBVIOUS
  <1>2. /\ l \in Passes /\ PassOk(l) /\ l.pc \in {"repair", "summary"}
        /\ t \in l.todo /\ t \in Pairs /\ t[1] \in Attributed
        /\ l.fresh => t[1] \notin metrics[t[2]].applied
    BY <1>0, <1>1 DEF LearningInv, LTypes, WriteAgent, PassOk, Passes
  <1>3. l = [pc |-> l.pc, rows |-> l.rows, cur |-> l.cur, todo |-> l.todo,
             seen |-> l.seen, fresh |-> l.fresh, clean |-> l.clean, sum |-> l.sum]
    BY <1>2, PassRecord
  <1>4. PICK on : on = [l EXCEPT !.seen = NoLabel, !.fresh = FALSE]
    OBVIOUS
  <1>5. on = [pc |-> l.pc, rows |-> l.rows, cur |-> l.cur, todo |-> l.todo,
              seen |-> NoLabel, fresh |-> FALSE, clean |-> l.clean, sum |-> l.sum]
    BY <1>3, <1>4, Zenon
  <1>6. PICK done : done = [on EXCEPT !.todo = @ \ {t}]
    OBVIOUS
  <1>7. done = [pc |-> l.pc, rows |-> l.rows, cur |-> l.cur, todo |-> l.todo \ {t},
                seen |-> NoLabel, fresh |-> FALSE, clean |-> l.clean, sum |-> l.sum]
    BY <1>5, <1>6, Zenon
  <1>8. on \in Passes /\ done \in Passes
    BY <1>2, <1>5, <1>7 DEF Passes
  <1>9. UNCHANGED <<settle, quality, outcome, experiment, challenger>>
    BY DEF WriteAgent
  <1>10. CASE l.fresh
    <2>1. PICK d, a : d = t[1] /\ a = t[2]
      OBVIOUS
    <2>2. d \in Decisions /\ a \in Agents /\ t = <<d, a>>
            /\ d \in Attributed /\ d \notin metrics[a].applied
      BY <1>2, <1>10, <2>1 DEF Pairs
    <2>3. /\ metrics' = [metrics EXCEPT ![a] = [applied |-> @.applied \union {d},
                                                count |-> @.count + 1]]
          /\ work' = [v \in Workers |-> IF v = w THEN done ELSE Stale(work[v], a)]
      BY <1>0, <1>1, <1>4, <1>6, <1>10, <2>1 DEF WriteAgent
    <2>4. /\ metrics' \in [Agents -> [applied : SUBSET Decisions, count : Nat]]
          /\ metrics'[a].applied = metrics[a].applied \union {d}
          /\ metrics'[a].count = metrics[a].count + 1
          /\ \A b \in Agents : b # a => metrics'[b] = metrics[b]
      BY <2>2, <2>3 DEF LearningInv, LTypes
    <2>5. MetricsInv'
      <3>1. IsFiniteSet(metrics[a].applied \union {d})
              /\ Cardinality(metrics[a].applied \union {d})
                    = Cardinality(metrics[a].applied) + 1
        BY <2>2, FS_AddElement DEF LearningInv, MetricsInv
      <3>2. UNCHANGED Attributed
        BY <1>9 DEF Attributed
      <3>3. QED
        BY <2>2, <2>4, <3>1, <3>2 DEF LearningInv, MetricsInv
    <2>6. ASSUME NEW v \in Workers
          PROVE  work'[v] \in Passes /\ PassOk(work[v])'
      <3>1. CASE v = w
        <4>1. PassOk(done)'
          BY <1>2, <1>7, <1>9, <2>2, <2>4 DEF PassOk, Attributed, Passes, Pairs
        <4>2. QED
          BY <1>8, <2>3, <3>1, <4>1
      <3>2. CASE v # w
        <4>0. PICK o : o = work[v]
          OBVIOUS
        <4>1. o \in Passes /\ PassOk(o) /\ work'[v] = Stale(o, a)
          BY <2>3, <3>2, <4>0 DEF LearningInv, LTypes
        <4>2. PICK p : p = [o EXCEPT !.fresh = FALSE]
          OBVIOUS
        <4>3. /\ p \in Passes /\ p.fresh = FALSE /\ p.pc = o.pc /\ p.cur = o.cur
              /\ p.sum = o.sum /\ p.todo = o.todo /\ p.seen = o.seen
          BY <4>1, <4>2 DEF Passes
        <4>4. ASSUME NEW q \in {o, p},
                     q.pc \in {"repair", "summary"} /\ q.seen # NoLabel
                        /\ q.seen[2] = a => ~q.fresh
              PROVE  PassOk(q)'
          BY <1>9, <2>2, <2>4, <4>1, <4>3, <4>4 DEF PassOk, Attributed, Passes, Pairs
        <4>5. QED
          BY <4>1, <4>2, <4>3, <4>4 DEF Stale
      <3>3. QED
        BY <3>1, <3>2
    <2>7. work' \in [Workers -> Passes]
      BY <2>3, <2>6
    <2>8. QED
      BY <1>9, <2>4, <2>5, <2>6, <2>7 DEF LearningInv, LTypes, LineageFirst,
         SummaryIsApplied, Attributed
  <1>11. CASE ~l.fresh
    <2>1. Go(w, on) /\ Adds
      BY <1>0, <1>4, <1>9, <1>11 DEF WriteAgent, Adds
    <2>2. PassOk(on)
      BY <1>2, <1>5 DEF PassOk
    <2>3. QED
      BY <1>8, <1>9, <2>1, <2>2, StillKnows, Proceeds
  <1>12. QED
    BY <1>10, <1>11

\* A repaired outcome hands back to the scan (Repaired), and a summary begins (Summary).
LEMMA BetweenInv ==
  ASSUME LearningInv, NEW w \in Workers, Repaired(w) \/ Summary(w)
  PROVE  LearningInv'
  <1>0. PICK l : l = work[w]
    OBVIOUS
  <1>1. l \in Passes /\ PassOk(l)
    BY <1>0 DEF LearningInv, LTypes
  <1>2. l = [pc |-> l.pc, rows |-> l.rows, cur |-> l.cur, todo |-> l.todo,
             seen |-> l.seen, fresh |-> l.fresh, clean |-> l.clean, sum |-> l.sum]
    BY <1>1, PassRecord
  <1>3. Adds /\ UNCHANGED <<settle, quality, outcome, experiment, challenger>>
    BY DEF Adds, Repaired, Summary
  <1>4. CASE Repaired(w)
    <2>1. PICK on : on = [l EXCEPT !.pc = "scan", !.cur = NoLabel]
      OBVIOUS
    <2>2. on = [pc |-> "scan", rows |-> l.rows, cur |-> NoLabel, todo |-> l.todo,
                seen |-> l.seen, fresh |-> l.fresh, clean |-> l.clean, sum |-> l.sum]
      BY <1>2, <2>1, Zenon
    <2>3. Go(w, on) /\ l.pc = "repair" /\ l.todo = {}
      BY <1>0, <1>4, <2>1 DEF Repaired
    <2>4. on \in Passes /\ PassOk(on)
      BY <1>1, <2>2, <2>3 DEF Passes, PassOk
    <2>5. QED
      BY <1>3, <2>3, <2>4, StillKnows, Proceeds
  <1>5. CASE Summary(w)
    <2>1. PICK all : all = Attributed
      OBVIOUS
    <2>2. PICK on : on = [l EXCEPT !.pc = "summary", !.sum = all,
                                   !.todo = all \X Agents]
      OBVIOUS
    <2>3. on = [pc |-> "summary", rows |-> l.rows, cur |-> l.cur,
                todo |-> all \X Agents, seen |-> l.seen, fresh |-> l.fresh,
                clean |-> l.clean, sum |-> all]
      BY <1>2, <2>2, Zenon
    <2>4. Go(w, on) /\ l.pc = "scan"
      BY <1>0, <1>5, <2>1, <2>2 DEF Summary
    <2>5. on \in Passes /\ PassOk(on)
      BY <1>1, <2>1, <2>3, <2>4 DEF Passes, PassOk, Attributed, Pairs
    <2>6. QED
      BY <1>3, <2>4, <2>5, StillKnows, Proceeds
  <1>6. QED
    BY <1>4, <1>5

\* An experiment is named by a summary that every agent was scored on (Create).
LEMMA CreateInv ==
  ASSUME LearningInv, NEW w \in Workers, Create(w)
  PROVE  LearningInv'
  <1>0. PICK l : l = work[w]
    OBVIOUS
  <1>1. l \in Passes /\ PassOk(l) /\ l.pc = "summary" /\ l.todo = {}
    BY <1>0 DEF LearningInv, LTypes, Create
  <1>2. PICK c : c = Named(l)
    OBVIOUS
  <1>3. c \in Summaries /\ \A a \in Agents : c.sum \subseteq c.scores[a]
    BY <1>1, <1>2 DEF Named, Summaries, Passes, PassOk, LearningInv, LTypes
  <1>4. UNCHANGED <<settle, quality, outcome, metrics, challenger>>
    BY DEF Create
  <1>5. CASE experiment' = experiment \union {c}
               /\ Go(w, [l EXCEPT !.pc = "challenge", !.seen = c])
    <2>1. l = [pc |-> l.pc, rows |-> l.rows, cur |-> l.cur, todo |-> l.todo,
               seen |-> l.seen, fresh |-> l.fresh, clean |-> l.clean, sum |-> l.sum]
      BY <1>1, PassRecord
    <2>2. PICK on : on = [l EXCEPT !.pc = "challenge", !.seen = c]
      OBVIOUS
    <2>3. on = [pc |-> "challenge", rows |-> l.rows, cur |-> l.cur, todo |-> l.todo,
                seen |-> c, fresh |-> l.fresh, clean |-> l.clean, sum |-> l.sum]
      BY <2>1, <2>2, Zenon
    <2>4. on \in Passes
      BY <1>1, <1>3, <2>3 DEF Passes
    <2>5. PassOk(on)'
      BY <1>1, <1>4, <1>5, <2>3 DEF PassOk, Attributed
    <2>6. Adds /\ Go(w, on)
      BY <1>4, <1>5, <2>2 DEF Adds
    <2>7. SummaryIsApplied'
      BY <1>3, <1>5 DEF LearningInv, SummaryIsApplied
    <2>8. work' \in [Workers -> Passes]
      BY <2>4, <2>6 DEF Go, LearningInv, LTypes
    <2>9. LTypes'
      BY <1>3, <1>4, <1>5, <2>8 DEF LearningInv, LTypes
    <2>10. QED
      BY <1>4, <2>4, <2>5, <2>6, <2>7, <2>9, Proceeds
  <1>6. CASE Go(w, Idle) /\ UNCHANGED experiment
    BY <1>4, <1>6, IdlePass, Proceeds DEF Adds
  <1>7. QED
    BY <1>0, <1>2, <1>5, <1>6 DEF Create

\* The challenger follows its experiment (Challenge); a pass that dies leaves what it
\* wrote (PassDies).
LEMMA EndInv ==
  ASSUME LearningInv, NEW w \in Workers, Challenge(w) \/ PassDies(w)
  PROVE  LearningInv'
  <1>1. Go(w, Idle) /\ UNCHANGED <<settle, quality, outcome, metrics, experiment>>
    BY DEF Challenge, PassDies
  <1>2. (challenger \subseteq experiment)'
    BY <1>1 DEF Challenge, PassDies, LearningInv, PassOk
  <1>3. QED
    BY <1>1, <1>2, IdlePass, Proceeds DEF Adds

\* The first state: nothing is settled or learned.
LEMMA LearningStart ==
  ASSUME LearningConstants, LearningInit
  PROVE  LearningInv
  <1>1. LTypes
    BY IdlePass DEF LearningInit, LTypes
  <1>2. MetricsInv
    BY FS_EmptySet DEF LearningInit, MetricsInv
  <1>3. LineageFirst /\ SummaryIsApplied /\ challenger \subseteq experiment
    BY DEF LearningInit, LineageFirst, SummaryIsApplied, Attributed
  <1>4. \A w \in Workers : PassOk(work[w])
    BY IdlePass DEF LearningInit
  <1>5. QED
    BY <1>1, <1>2, <1>3, <1>4 DEF LearningInv

\* Every step keeps the invariant.
LEMMA LearningStep ==
  ASSUME LearningConstants, LearningInv, [LearningNext]_learningVars
  PROVE  LearningInv'
  <1>1. CASE UNCHANGED learningVars
    BY <1>1 DEF learningVars, LearningInv, LTypes, MetricsInv, PassOk, LineageFirst,
       SummaryIsApplied, Attributed
  <1>2. ASSUME NEW d \in Decisions, Settle(d) \/ Edit(d) PROVE LearningInv'
    BY <1>2, SettleInv
  <1>3. ASSUME NEW w \in Workers, Pass(w) \/ PassDies(w) PROVE LearningInv'
    BY <1>3, SnapshotInv, ScanInv, RecordInv, ReadAgentInv, WriteAgentInv, BetweenInv,
       CreateInv, EndInv DEF Pass
  <1>4. QED
    BY <1>1, <1>2, <1>3 DEF LearningNext

\* Whoever learns beside whom and dies where: an outcome counts once for an agent, a
\* challenger is of outcomes that every agent was scored on, and lineage comes before
\* the outcome that rests on it.
THEOREM LearningIsSoundHolds ==
  ASSUME LearningConstants PROVE LearningSpec => []LearningIsSound
  <1>1. LearningInit => LearningInv
    BY LearningStart
  <1>2. LearningInv /\ [LearningNext]_learningVars => LearningInv'
    BY LearningStep
  <1>3. LearningInv => LearningIsSound
    BY DEF LearningInv, LTypes, MetricsInv, LearningIsSound, LearningTypeOK, CountedOnce
  <1>4. QED
    BY <1>1, <1>2, <1>3, PTL DEF LearningSpec

----------------------------------------------------------------------------
(* Learning from development.                                              *)

\* What an outcome and a call are.
Outcomes == [fix : Fixes, verdict : Verdicts]
Tasks == [pc : {"free", "check", "append", "records", "current", "write", "use",
                "propose"},
          then : {Absent, "pack", "review"}, cur : {Absent} \union Outcomes,
          read : SUBSET Fixes, at : Nat, known : SUBSET Fixes]

\* What the documents and the calls can be.
DTypes ==
    /\ ledger \subseteq Outcomes
    /\ projection \in [items : SUBSET Fixes, version : Nat]
    /\ tasks \in [Callers -> Tasks]

\* What a call read is still true, since the ledger only grows.
TaskOk(l) ==
    /\ l.pc \in {"check", "append"} => l.cur \in Outcomes
    /\ l.pc \in {"current", "write", "use"} => l.read \subseteq Successes
    /\ l.pc = "propose" => l.read \subseteq Everything

DevelopmentInv ==
    /\ DTypes /\ ExamplesSucceeded
    /\ projection.version = 0 => projection.items = {}
    /\ proposal # Absent => proposal \subseteq Everything
    /\ \A w \in Callers : TaskOk(tasks[w])

\* A call is the record of its fields.
LEMMA TaskRecord ==
  ASSUME NEW l \in Tasks
  PROVE  l = [pc |-> l.pc, then |-> l.then, cur |-> l.cur, read |-> l.read,
              at |-> l.at, known |-> l.known]
  BY DEF Tasks

\* A longer ledger has more successes and more outcomes, all of them of fixes.
LEMMA LedgerGrows ==
  ASSUME DTypes, ledger \subseteq ledger'
  PROVE  /\ Successes \subseteq Successes' /\ Everything \subseteq Everything'
         /\ Successes \subseteq Fixes \intersect Succeeded /\ Everything \subseteq Fixes
  BY DEF DTypes, Outcomes, Successes, Everything

\* A step of one call that only adds to the ledger keeps the invariant, when where the
\* call goes is sound.
LEMMA CallProceeds ==
  ASSUME DevelopmentInv, NEW w \in Callers, NEW next \in Tasks, CallerGoes(w, next),
         ledger \subseteq ledger', ledger' \subseteq Outcomes,
         TaskOk(next) \/ TaskOk(next)',
         \/ UNCHANGED projection
         \/ /\ projection' \in [items : SUBSET Fixes, version : Nat \ {0}]
            /\ projection'.items \subseteq Successes,
         UNCHANGED proposal \/ proposal' \subseteq Everything,
         \A p \in packs' : p \in packs \/ p.used \subseteq Succeeded
  PROVE  DevelopmentInv'
  <1>1. tasks' \in [Callers -> Tasks] /\ \A v \in Callers : tasks'[v] =
            IF v = w THEN next ELSE tasks[v]
    BY DEF DevelopmentInv, DTypes, CallerGoes
  <1>2. Successes \subseteq Successes' /\ Everything \subseteq Everything'
    BY LedgerGrows DEF DevelopmentInv
  <1>3. ASSUME NEW l \in Tasks, TaskOk(l) PROVE TaskOk(l)'
    BY <1>2, <1>3 DEF TaskOk
  <1>4. \A v \in Callers : TaskOk(tasks[v])'
    BY <1>1, <1>3 DEF DevelopmentInv, DTypes
  <1>5. DTypes'
    BY <1>1 DEF DevelopmentInv, DTypes
  <1>6. ExamplesSucceeded'
    BY <1>2 DEF DevelopmentInv, ExamplesSucceeded
  <1>7. (proposal # Absent => proposal \subseteq Everything)'
    BY <1>2 DEF DevelopmentInv
  <1>8. (projection.version = 0 => projection.items = {})'
    BY DEF DevelopmentInv
  <1>9. QED
    BY <1>4, <1>5, <1>6, <1>7, <1>8 DEF DevelopmentInv

\* The free caller knows nothing.
LEMMA FreeCaller == Free \in Tasks /\ TaskOk(Free)
  BY DEF Free, Tasks, TaskOk

\* A call begins (Begin).
LEMMA BeginInv ==
  ASSUME DevelopmentInv, NEW w \in Callers, Begin(w)
  PROVE  DevelopmentInv'
  <1>1. ASSUME NEW f \in Fixes, NEW v \in Verdicts,
               CallerGoes(w, [Free EXCEPT !.pc = "check",
                                          !.cur = [fix |-> f, verdict |-> v]])
        PROVE  DevelopmentInv'
    <2>1. PICK c : c = [fix |-> f, verdict |-> v]
      OBVIOUS
    <2>2. PICK next : next = [Free EXCEPT !.pc = "check", !.cur = c]
      OBVIOUS
    <2>3. next = [pc |-> "check", then |-> Absent, cur |-> c, read |-> {}, at |-> 0,
                  known |-> {}]
      BY <2>2, Zenon DEF Free
    <2>4. next \in Tasks /\ TaskOk(next)
      BY <2>1, <2>3 DEF Tasks, TaskOk, Outcomes
    <2>5. QED
      BY <1>1, <2>1, <2>2, <2>4, CallProceeds DEF Begin, DevelopmentInv, DTypes
  <1>2. ASSUME NEW then \in {"pack", "review"},
               CallerGoes(w, [Free EXCEPT !.pc = "records", !.then = then,
                                          !.known = Successes])
        PROVE  DevelopmentInv'
    <2>1. PICK k : k = Successes
      OBVIOUS
    <2>2. PICK next : next = [Free EXCEPT !.pc = "records", !.then = then, !.known = k]
      OBVIOUS
    <2>3. next = [pc |-> "records", then |-> then, cur |-> Absent, read |-> {}, at |-> 0,
                  known |-> k]
      BY <2>2, Zenon DEF Free
    <2>4. k \subseteq Fixes
      BY <2>1, LedgerGrows DEF DevelopmentInv, Begin
    <2>5. next \in Tasks /\ TaskOk(next)
      BY <2>3, <2>4 DEF Tasks, TaskOk
    <2>6. QED
      BY <1>2, <2>1, <2>2, <2>5, CallProceeds DEF Begin, DevelopmentInv, DTypes
  <1>3. QED
    BY <1>1, <1>2 DEF Begin

\* A call is checked, and its outcome appended (Check, AppendOutcome).
LEMMA OutcomeInv ==
  ASSUME DevelopmentInv, NEW w \in Callers, Check(w) \/ AppendOutcome(w)
  PROVE  DevelopmentInv'
  <1>0. PICK l : l = tasks[w]
    OBVIOUS
  <1>1. l \in Tasks /\ TaskOk(l)
    BY <1>0 DEF DevelopmentInv, DTypes
  <1>2. PICK on : on = [l EXCEPT !.pc = "append"]
    OBVIOUS
  <1>3. on \in Tasks /\ on.pc = "append" /\ on.cur = l.cur
    BY <1>1, <1>2 DEF Tasks
  <1>4. CASE Check(w)
    <2>1. l.pc = "check" /\ (CallerGoes(w, on) \/ CallerGoes(w, Free))
      BY <1>0, <1>2, <1>4 DEF Check
    <2>2. TaskOk(on)
      BY <1>1, <1>3, <2>1 DEF TaskOk
    <2>3. QED
      BY <1>3, <1>4, <2>1, <2>2, FreeCaller, CallProceeds DEF Check, DevelopmentInv, DTypes
  <1>5. CASE AppendOutcome(w)
    <2>1. CallerGoes(w, Free) /\ ledger' = ledger \union {l.cur} /\ l.cur \in Outcomes
            /\ UNCHANGED <<projection, proposal, packs>>
      BY <1>0, <1>1, <1>5 DEF AppendOutcome, TaskOk
    <2>2. QED
      BY <2>1, FreeCaller, CallProceeds DEF DevelopmentInv, DTypes
  <1>6. QED
    BY <1>4, <1>5

\* The records are read, and then the projection (ReadRecords, ReadProjection).
LEMMA ReadInv ==
  ASSUME DevelopmentInv, NEW w \in Callers, ReadRecords(w) \/ ReadProjection(w)
  PROVE  DevelopmentInv'
  <1>0. PICK l : l = tasks[w]
    OBVIOUS
  <1>1. /\ l \in Tasks /\ TaskOk(l)
        /\ UNCHANGED <<ledger, projection, proposal, packs>>
    BY <1>0 DEF DevelopmentInv, DTypes, ReadRecords, ReadProjection
  <1>2. l = [pc |-> l.pc, then |-> l.then, cur |-> l.cur, read |-> l.read,
             at |-> l.at, known |-> l.known]
    BY <1>1, TaskRecord
  <1>3. CASE ReadRecords(w)
    <2>1. PICK k : k = Successes
      OBVIOUS
    <2>2. PICK on : on = [l EXCEPT !.pc = "current", !.read = k]
      OBVIOUS
    <2>3. on = [pc |-> "current", then |-> l.then, cur |-> l.cur, read |-> k,
                at |-> l.at, known |-> l.known]
      BY <1>2, <2>2, Zenon
    <2>4. k \subseteq Fixes
      BY <1>1, <2>1, LedgerGrows DEF DevelopmentInv
    <2>5. on \in Tasks /\ TaskOk(on) /\ CallerGoes(w, on)
      BY <1>0, <1>1, <1>3, <2>1, <2>2, <2>3, <2>4 DEF Tasks, TaskOk, ReadRecords
    <2>6. QED
      BY <1>1, <2>5, CallProceeds DEF DevelopmentInv, DTypes
  <1>4. CASE ReadProjection(w)
    <2>1. PICK on : on = [l EXCEPT !.pc = "use"]
      OBVIOUS
    <2>2. PICK n : n = projection.version
      OBVIOUS
    <2>3. PICK off : off = [l EXCEPT !.pc = "write", !.at = n]
      OBVIOUS
    <2>4. off = [pc |-> "write", then |-> l.then, cur |-> l.cur, read |-> l.read,
                 at |-> n, known |-> l.known]
      BY <1>2, <2>3, Zenon
    <2>5. on = [pc |-> "use", then |-> l.then, cur |-> l.cur, read |-> l.read,
                at |-> l.at, known |-> l.known]
      BY <1>2, <2>1, Zenon
    <2>6. l.pc = "current" /\ (CallerGoes(w, on) \/ CallerGoes(w, off))
      BY <1>0, <1>4, <2>1, <2>2, <2>3 DEF ReadProjection
    <2>7. n \in Nat
      BY <2>2 DEF DevelopmentInv, DTypes
    <2>8. on \in Tasks /\ off \in Tasks /\ TaskOk(on) /\ TaskOk(off)
      BY <1>1, <2>4, <2>5, <2>6, <2>7 DEF Tasks, TaskOk
    <2>9. QED
      BY <1>1, <2>6, <2>8, CallProceeds DEF DevelopmentInv, DTypes
  <1>5. QED
    BY <1>3, <1>4

\* The projection is replaced by what was read, which has succeeded (WriteProjection).
LEMMA WriteInv ==
  ASSUME DevelopmentInv, NEW w \in Callers, WriteProjection(w)
  PROVE  DevelopmentInv'
  <1>0. PICK l : l = tasks[w]
    OBVIOUS
  <1>1. /\ l \in Tasks /\ TaskOk(l) /\ l.pc = "write" /\ l.read \subseteq Successes
        /\ UNCHANGED <<ledger, proposal, packs>>
    BY <1>0 DEF DevelopmentInv, DTypes, WriteProjection, TaskOk
  <1>2. PICK on : on = [l EXCEPT !.pc = "use"]
    OBVIOUS
  <1>3. /\ on \in Tasks /\ on.pc = "use" /\ on.read = l.read
    BY <1>1, <1>2 DEF Tasks
  <1>4. TaskOk(on)
    BY <1>1, <1>3 DEF TaskOk
  <1>5. \/ /\ projection' = [items |-> l.read, version |-> l.at + 1]
           /\ CallerGoes(w, on)
        \/ CallerGoes(w, Free) /\ UNCHANGED projection
    BY <1>0, <1>2 DEF WriteProjection
  <1>6. projection' = [items |-> l.read, version |-> l.at + 1] =>
          /\ projection' \in [items : SUBSET Fixes, version : Nat \ {0}]
          /\ projection'.items \subseteq Successes
    BY <1>1 DEF Tasks
  <1>7. QED
    BY <1>1, <1>3, <1>4, <1>5, <1>6, FreeCaller, CallProceeds DEF DevelopmentInv, DTypes

\* A pack uses what has succeeded (Pack).
LEMMA PackInv ==
  ASSUME DevelopmentInv, NEW w \in Callers, Pack(w)
  PROVE  DevelopmentInv'
  <1>1. Successes \subseteq Succeeded
    BY LedgerGrows DEF DevelopmentInv, Pack
  <1>2. CallerGoes(w, Free) /\ UNCHANGED <<ledger, projection, proposal>>
          /\ \A p \in packs' : p \in packs \/ p.used \subseteq Successes
    BY DEF Pack
  <1>3. QED
    BY <1>1, <1>2, FreeCaller, CallProceeds DEF DevelopmentInv, DTypes

\* The outcomes of the week are counted, and proposed if nothing was (Review, Propose).
LEMMA ReviewInv ==
  ASSUME DevelopmentInv, NEW w \in Callers, Review(w) \/ Propose(w)
  PROVE  DevelopmentInv'
  <1>0. PICK l : l = tasks[w]
    OBVIOUS
  <1>1. /\ l \in Tasks /\ TaskOk(l)
        /\ UNCHANGED <<ledger, projection, packs>>
    BY <1>0 DEF DevelopmentInv, DTypes, Review, Propose
  <1>2. l = [pc |-> l.pc, then |-> l.then, cur |-> l.cur, read |-> l.read,
             at |-> l.at, known |-> l.known]
    BY <1>1, TaskRecord
  <1>3. CASE Review(w)
    <2>1. PICK k : k = Everything
      OBVIOUS
    <2>2. PICK on : on = [l EXCEPT !.pc = "propose", !.read = k]
      OBVIOUS
    <2>3. on = [pc |-> "propose", then |-> l.then, cur |-> l.cur, read |-> k,
                at |-> l.at, known |-> l.known]
      BY <1>2, <2>2, Zenon
    <2>4. k \subseteq Fixes
      BY <1>1, <2>1, LedgerGrows DEF DevelopmentInv
    <2>5. on \in Tasks /\ TaskOk(on) /\ UNCHANGED proposal
            /\ (CallerGoes(w, on) \/ CallerGoes(w, Free))
      BY <1>0, <1>1, <1>3, <2>1, <2>2, <2>3, <2>4 DEF Tasks, TaskOk, Review
    <2>6. QED
      BY <1>1, <2>5, FreeCaller, CallProceeds DEF DevelopmentInv, DTypes
  <1>4. CASE Propose(w)
    <2>1. CallerGoes(w, Free)
            /\ (UNCHANGED proposal \/ proposal' \subseteq Everything)
      BY <1>0, <1>1, <1>4 DEF Propose, TaskOk
    <2>2. QED
      BY <1>1, <2>1, FreeCaller, CallProceeds DEF DevelopmentInv, DTypes
  <1>5. QED
    BY <1>3, <1>4

\* Where a caller goes leaves the others at their place.
LEMMA OneGoes ==
  ASSUME DTypes, NEW w \in Callers, NEW next, CallerGoes(w, next)
  PROVE  /\ next.pc # "propose" => Proposing' = Proposing \ {w}
         /\ Proposing' \subseteq Proposing \union {w}
  BY DEF DTypes, CallerGoes, Proposing

\* Once there is a proposal no review comes to propose, and one that replaces it is no
\* longer there to do it again.
LEMMA LateReviews ==
  ASSUME DTypes, DevelopmentNext, proposal # Absent
  PROVE  /\ Proposing' \subseteq Proposing
         /\ proposal' # proposal => Proposing' # Proposing
  <1>1. PICK w \in Callers :
          \/ Begin(w) \/ Check(w) \/ AppendOutcome(w)
          \/ ReadRecords(w) \/ ReadProjection(w) \/ WriteProjection(w)
          \/ Pack(w) \/ Review(w) \/ Propose(w)
    BY DEF DevelopmentNext
  <1>0. PICK l : l = tasks[w]
    OBVIOUS
  <1>2. l \in Tasks
    BY <1>0 DEF DTypes
  <1>3. Free.pc # "propose"
    BY DEF Free
  <1>4. CASE Propose(w)
    <2>1. CallerGoes(w, Free) /\ w \in Proposing
      BY <1>4 DEF Propose, Proposing
    <2>2. QED
      BY <2>1, <1>3, OneGoes
  <1>5. CASE Begin(w)
    <2>1. CASE \E f \in Fixes, v \in Verdicts :
                 CallerGoes(w, [Free EXCEPT !.pc = "check",
                                            !.cur = [fix |-> f, verdict |-> v]])
      <3>1. PICK f \in Fixes, v \in Verdicts :
                   CallerGoes(w, [Free EXCEPT !.pc = "check",
                                              !.cur = [fix |-> f, verdict |-> v]])
        BY <2>1
      <3>2. PICK next : next = [Free EXCEPT !.pc = "check",
                                            !.cur = [fix |-> f, verdict |-> v]]
        OBVIOUS
      <3>3. next.pc = "check"
        BY <3>2 DEF Free
      <3>4. QED
        BY <1>5, <3>1, <3>2, <3>3, OneGoes DEF Begin
    <2>2. CASE \E then \in {"pack", "review"} :
                 CallerGoes(w, [Free EXCEPT !.pc = "records", !.then = then,
                                            !.known = Successes])
      <3>1. PICK then \in {"pack", "review"} :
                   CallerGoes(w, [Free EXCEPT !.pc = "records", !.then = then,
                                              !.known = Successes])
        BY <2>2
      <3>2. PICK next : next = [Free EXCEPT !.pc = "records", !.then = then,
                                            !.known = Successes]
        OBVIOUS
      <3>3. next.pc = "records"
        BY <3>2 DEF Free
      <3>4. QED
        BY <1>5, <3>1, <3>2, <3>3, OneGoes DEF Begin
    <2>3. QED
      BY <1>5, <2>1, <2>2 DEF Begin
  <1>6. CASE Check(w) \/ AppendOutcome(w)
    <2>1. PICK next : CallerGoes(w, next) /\ next.pc # "propose"
      BY <1>0, <1>2, <1>3, <1>6 DEF Check, AppendOutcome, Tasks
    <2>2. QED
      BY <1>6, <2>1, OneGoes DEF Check, AppendOutcome
  <1>9. CASE ReadRecords(w)
    <2>1. PICK next : next = [l EXCEPT !.pc = "current", !.read = Successes]
      OBVIOUS
    <2>2. next.pc = "current"
      BY <1>2, <2>1 DEF Tasks
    <2>3. QED
      BY <1>0, <1>9, <2>1, <2>2, OneGoes DEF ReadRecords
  <1>10. CASE ReadProjection(w)
    <2>1. PICK on : on = [l EXCEPT !.pc = "use"]
      OBVIOUS
    <2>2. PICK off : off = [l EXCEPT !.pc = "write", !.at = projection.version]
      OBVIOUS
    <2>3. on.pc = "use" /\ off.pc = "write"
      BY <1>2, <2>1, <2>2 DEF Tasks
    <2>4. CallerGoes(w, on) \/ CallerGoes(w, off)
      BY <1>0, <1>10, <2>1, <2>2 DEF ReadProjection
    <2>5. QED
      BY <1>10, <2>3, <2>4, OneGoes DEF ReadProjection
  <1>7. CASE WriteProjection(w) \/ Pack(w) \/ Review(w)
    <2>1. PICK next : CallerGoes(w, next) /\ next.pc # "propose"
      BY <1>0, <1>2, <1>3, <1>7 DEF WriteProjection, Pack, Review, Tasks
    <2>2. QED
      BY <1>7, <2>1, OneGoes DEF WriteProjection, Pack, Review
  <1>8. QED
    BY <1>1, <1>4, <1>5, <1>6, <1>7, <1>9, <1>10

\* Every step keeps the invariant.
LEMMA DevelopmentStep ==
  ASSUME DevelopmentInv, [DevelopmentNext]_developmentVars
  PROVE  DevelopmentInv'
  <1>1. CASE UNCHANGED developmentVars
    BY <1>1 DEF developmentVars, DevelopmentInv, DTypes, ExamplesSucceeded, TaskOk,
       Successes, Everything
  <1>2. CASE DevelopmentNext
    BY <1>2, BeginInv, OutcomeInv, ReadInv, WriteInv, PackInv, ReviewInv
       DEF DevelopmentNext
  <1>3. QED
    BY <1>1, <1>2

\* Whoever records, rebuilds and reviews beside whom: examples have succeeded and are
\* recorded, and the proposal of a week counts recorded outcomes and is replaced only
\* by reviews that looked before it was there.
THEOREM DevelopmentIsSoundHolds == DevelopmentSpec => DevelopmentIsSound
  <1>1. DevelopmentInit => DevelopmentInv
    BY FreeCaller DEF DevelopmentInit, DevelopmentInv, DTypes, ExamplesSucceeded
  <1>2. DevelopmentInv /\ [DevelopmentNext]_developmentVars => DevelopmentInv'
    BY DevelopmentStep
  <1>3. DevelopmentInv => DevelopmentTypeOK /\ ExamplesSucceeded
    BY DEF DevelopmentInv, DTypes, DevelopmentTypeOK, Outcomes
  <1>4. DevelopmentInv /\ DevelopmentInv' /\ [DevelopmentNext]_developmentVars
          => [ProposalIsFinal]_developmentVars
    <2> SUFFICES ASSUME DevelopmentInv, DevelopmentNext PROVE ProposalIsFinal
      OBVIOUS
    <2>1. \A w \in Callers : tasks[w].pc = "propose" => tasks[w].read \subseteq Everything
      BY DEF DevelopmentInv, TaskOk
    <2>2. UNCHANGED proposal \/ \E w \in Callers : Propose(w)
      BY DEF DevelopmentNext, Begin, Check, AppendOutcome, ReadRecords, ReadProjection,
         WriteProjection, Pack, Review
    <2>3. proposal' # Absent => proposal' \subseteq Everything
      BY <2>1, <2>2 DEF DevelopmentInv, Propose
    <2>4. QED
      BY <2>3, LateReviews DEF DevelopmentInv, ProposalIsFinal
  <1>5. QED
    BY <1>1, <1>2, <1>3, <1>4, PTL DEF DevelopmentSpec, DevelopmentIsSound

=============================================================================
