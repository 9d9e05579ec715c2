--------------------------- MODULE OperationsProofs ---------------------------
(***************************************************************************)
(* What keeps the installation running and changing, for any values of the *)
(* constants.  A section for each component; the argument of each is:      *)
(*                                                                         *)
(* HealingIsAuthorized of SelfHealing.  A generation is run at most once   *)
(* because the authority to run it is in one place: its metadata, or the   *)
(* host that took it (OnceInv); results and claims only have to name       *)
(* generations that were published.  A decision is executed by the host    *)
(* that consumed its approval (OwnerInv), which no other step gives back.  *)
(*                                                                         *)
(* PatchIsExact of ApprovedPatch.  A proposal is bound to the length of    *)
(* the log, and every commit of it comes after (BaseInv), so the patch     *)
(* that passes the check is in no commit; no other step commits until the  *)
(* host is done with it (HostInv).  What a death leaves in the worktree    *)
(* keeps the next patch out of it (WorktreeInv), and the manifest never    *)
(* names a decision that was not approved (QueueInv).                      *)
(*                                                                         *)
(* RecoveryIsBounded of WorkerRecovery.  A monitor may write only over the *)
(* document it read (HeldInv), and every start, and every monitor on its   *)
(* way to one, has an attempt of its own in it (CountInv).                 *)
(*                                                                         *)
(* DeployIsConfirmed of DeployControl.  A token is a number given out      *)
(* once, and it is with the owner, with one handler, or in one request     *)
(* (TokenInv).  That bounds the requests by the tokens, so that the        *)
(* request the watcher deploys has a counter (WatcherInv).                 *)
(*                                                                         *)
(* UpdatesOnce of TelegramWebhook.  The three families of steps share no   *)
(* variable but the faults, so each has an invariant of its own: updates   *)
(* (UpdateInv), the bot's name (NameInv) and logins (LoginInv).            *)
(***************************************************************************)
EXTENDS SelfHealing, ApprovedPatch, WorkerRecovery, DeployControl, TelegramWebhook,
        FiniteSetTheorems, TLAPS

----------------------------------------------------------------------------
(* Self-healing.                                                           *)

HostRec(h) == h = [pc |-> h.pc, gen |-> h.gen, dec |-> h.dec, ok |-> h.ok]
AgentRec(a) == a = [pc |-> a.pc, verify |-> a.verify, dec |-> a.dec]
AppRec(a) == a = [pc |-> a.pc, dec |-> a.dec]

Published == 1 .. gens
Authorities == {None} \union {NonCrit(g) : g \in Published}
                      \union {Crit(d) : d \in Decisions}
Stages == {"none", "security_approved", "awaiting_owner", "approved", "rejected",
           "executing"}
\* The labels at which the host works on a generation.
Working == {"reject_take", "reject_untake", "reject_result", "take", "untake",
            "execute", "result"}

HealingTypes ==
    /\ gens \in Nat /\ gens <= MaxGens
    /\ action \in {"none", "restart", "restore"}
    /\ meta \in Authorities /\ claim \in Authorities
    /\ results \subseteq Published
    /\ runs \in [Gens -> Nat] /\ restores \in [Decisions -> Nat]
    /\ dec \in [Decisions -> Stages]
    /\ HostRec(host) /\ AgentRec(agent) /\ AppRec(app)
    /\ host.pc \in Working => host.gen \in Published
    /\ host.pc = "restore" => host.dec \in Decisions
    /\ IF agent.pc \in {"ask", "pend"} THEN agent.dec \in Decisions ELSE agent.dec = None
    /\ app.pc \in {"meta", "pointer"} => app.dec \in Decisions

\* A generation whose metadata is there, or that the host is about to take or to
\* run, has not been run; the host that took it left no metadata of it.
OnceInv ==
    /\ OneShot
    /\ \A g \in Gens : g > gens => runs[g] = 0
    /\ \A g \in Published : meta = NonCrit(g) => runs[g] = 0
    /\ host.pc \in {"take", "untake", "execute"} => runs[host.gen] = 0
    /\ host.pc \in {"untake", "execute"} => meta # NonCrit(host.gen)

\* A decision about to be executed has been consumed and not been executed.
OwnerInv ==
    /\ OwnerFirst
    /\ agent.pc = "ask" => dec[agent.dec] = "security_approved"
    /\ host.pc = "restore" => dec[host.dec] = "executing" /\ restores[host.dec] = 0

HealingInv == HealingTypes /\ OnceInv /\ OwnerInv

HealingConstants ==
    /\ MaxGens \in Nat
    /\ None \notin Decisions
    /\ \A g \in Gens : None # NonCrit(g)
    /\ \A d \in Decisions : None # Crit(d)
----------------------------------------------------------------------------
\* Nothing is published, asked for or executed before the first cycle.
LEMMA HealingInitInv == ASSUME HealingConstants, HealingInit PROVE HealingInv
  <1> USE DEF HealingConstants, HealingInit, NoHost, NoAgent, NoApp
  <1>1. HealingTypes
    BY DEF HealingTypes, Authorities, Published, Gens, Stages, HostRec, AgentRec, AppRec,
       Working
  <1>2. OnceInv
    BY DEF OnceInv, OneShot, Published, Gens
  <1>3. OwnerInv
    BY DEF OwnerInv, OwnerFirst
  <1>4. QED
    BY <1>1, <1>2, <1>3 DEF HealingInv

\* What an assignment to the host's locals makes of them.
LEMMA HostLocals ==
  ASSUME NEW h, HostRec(h), NEW pc, NEW x
  PROVE  /\ [h EXCEPT !.pc = pc] = [pc |-> pc, gen |-> h.gen, dec |-> h.dec, ok |-> h.ok]
         /\ [h EXCEPT !.pc = pc, !.gen = x] = [pc |-> pc, gen |-> x, dec |-> h.dec, ok |-> h.ok]
         /\ [h EXCEPT !.pc = pc, !.dec = x] = [pc |-> pc, gen |-> h.gen, dec |-> x, ok |-> h.ok]
         /\ [h EXCEPT !.pc = pc, !.ok = x] = [pc |-> pc, gen |-> h.gen, dec |-> h.dec, ok |-> x]
  <1>1. ASSUME NEW q, q = [h EXCEPT !.pc = pc]
        PROVE  q = [pc |-> pc, gen |-> h.gen, dec |-> h.dec, ok |-> h.ok]
    BY <1>1, Zenon DEF HostRec
  <1>2. ASSUME NEW q, q = [h EXCEPT !.pc = pc, !.gen = x]
        PROVE  q = [pc |-> pc, gen |-> x, dec |-> h.dec, ok |-> h.ok]
    BY <1>2, Zenon DEF HostRec
  <1>3. ASSUME NEW q, q = [h EXCEPT !.pc = pc, !.dec = x]
        PROVE  q = [pc |-> pc, gen |-> h.gen, dec |-> x, ok |-> h.ok]
    BY <1>3, Zenon DEF HostRec
  <1>4. ASSUME NEW q, q = [h EXCEPT !.pc = pc, !.ok = x]
        PROVE  q = [pc |-> pc, gen |-> h.gen, dec |-> h.dec, ok |-> x]
    BY <1>4, Zenon DEF HostRec
  <1>5. QED
    BY <1>1, <1>2, <1>3, <1>4, Zenon

\* The same of the agent's and the dashboard's locals.
LEMMA OtherLocals ==
  ASSUME NEW a, AgentRec(a), NEW b, AppRec(b), NEW pc, NEW x
  PROVE  /\ [a EXCEPT !.pc = pc] = [pc |-> pc, verify |-> a.verify, dec |-> a.dec]
         /\ [a EXCEPT !.pc = pc, !.dec = x] = [pc |-> pc, verify |-> a.verify, dec |-> x]
         /\ [a EXCEPT !.pc = pc, !.verify = x] = [pc |-> pc, verify |-> x, dec |-> a.dec]
         /\ [b EXCEPT !.pc = pc] = [pc |-> pc, dec |-> b.dec]
  <1>1. ASSUME NEW q, q = [a EXCEPT !.pc = pc]
        PROVE  q = [pc |-> pc, verify |-> a.verify, dec |-> a.dec]
    BY <1>1, Zenon DEF AgentRec
  <1>2. ASSUME NEW q, q = [a EXCEPT !.pc = pc, !.dec = x]
        PROVE  q = [pc |-> pc, verify |-> a.verify, dec |-> x]
    BY <1>2, Zenon DEF AgentRec
  <1>3. ASSUME NEW q, q = [a EXCEPT !.pc = pc, !.verify = x]
        PROVE  q = [pc |-> pc, verify |-> x, dec |-> a.dec]
    BY <1>3, Zenon DEF AgentRec
  <1>4. ASSUME NEW q, q = [b EXCEPT !.pc = pc]
        PROVE  q = [pc |-> pc, dec |-> b.dec]
    BY <1>4, Zenon DEF AppRec
  <1>5. QED
    BY <1>1, <1>2, <1>3, <1>4, Zenon

\* What the metadata or the claim names.
LEMMA Named ==
  ASSUME HealingConstants, HealingTypes, NEW m \in Authorities
  PROVE  /\ IsGen(m) => m.id \in Published /\ m = NonCrit(m.id)
         /\ m # None /\ ~IsGen(m) => m.id \in Decisions /\ m = Crit(m.id)
  BY DEF Authorities, IsGen, NonCrit, Crit

\* The actor whose locals change besides the host: it ends, or it begins anew.
Rests ==
    /\ \/ agent' = agent
       \/ AgentRec(agent') /\ agent'.pc \notin {"ask", "pend"} /\ agent'.dec = None
    /\ \/ app' = app
       \/ AppRec(app') /\ app'.pc \notin {"meta", "pointer"}

\* A step of the host that executes nothing keeps the invariant, when it goes on
\* with a generation that has not been run and whose metadata is gone.
LEMMA HostGoes ==
  ASSUME HealingConstants, HealingInv, NEW pc, NEW gen, NEW d, NEW ok,
         host' = [pc |-> pc, gen |-> gen, dec |-> d, ok |-> ok], Rests,
         action' \in {"none", "restart", "restore"},
         meta' \in {meta, None}, claim' \in {claim, meta, None},
         results' \subseteq Published,
         pc \in Working => gen \in Published,
         pc \in {"take", "untake", "execute"} => runs[gen] = 0,
         pc \in {"untake", "execute"} => meta' # NonCrit(gen),
         pc # "restore",
         UNCHANGED <<gens, dec, runs, restores>>
  PROVE  HealingInv'
  <1> USE DEF HealingInv, Published
  <1>1. HealingTypes'
    <2>1. meta' \in Authorities' /\ claim' \in Authorities'
      BY DEF HealingTypes, Authorities
    <2>2. HostRec(host)' /\ (host.pc \in Working => host.gen \in Published)'
          /\ host'.pc # "restore"
      BY DEF HostRec
    <2>3. /\ AgentRec(agent)' /\ AppRec(app)'
          /\ IF agent'.pc \in {"ask", "pend"} THEN agent'.dec \in Decisions
             ELSE agent'.dec = None
          /\ app'.pc \in {"meta", "pointer"} => app'.dec \in Decisions
      BY DEF Rests, HealingTypes, AgentRec, AppRec
    <2>4. QED
      BY <2>1, <2>2, <2>3 DEF HealingTypes
  <1>2. OnceInv'
    <2>1. \A g \in Published : meta' = NonCrit(g) => meta = NonCrit(g)
      BY DEF HealingConstants, Gens, HealingTypes
    <2>2. host'.pc = pc /\ host'.gen = gen
      OBVIOUS
    <2>3. QED
      BY <2>1, <2>2 DEF OnceInv, OneShot
  <1>3. OwnerInv'
    BY DEF OwnerInv, OwnerFirst, Rests
  <1>4. QED
    BY <1>1, <1>2, <1>3

\* Each step of the host that executes nothing and consumes no approval.
LEMMA HostStep ==
  ASSUME HealingConstants, HealingInv,
         \/ Cycle \/ RejectStale \/ Take \/ Untake \/ Terminalize \/ Revoke
         \/ StartAgent \/ ReadAction \/ Claim \/ ClearAction \/ EndCycle
  PROVE  HealingInv'
  <1> HealingTypes /\ OnceInv
    BY DEF HealingInv
  <1> DEFINE Goes(pc, gen, d, ok) ==
               host' = [pc |-> pc, gen |-> gen, dec |-> d, ok |-> ok]
  <1>0. /\ HostRec(host) /\ HostRec(NoHost)
        /\ NoHost = [pc |-> "idle", gen |-> None, dec |-> None, ok |-> FALSE]
        /\ meta \in Authorities /\ claim \in Authorities
    BY DEF HealingTypes, HostRec, NoHost
  <1>1. CASE Cycle
    <2>1. Goes("reject", None, None, FALSE)
      BY <1>0, <1>1, HostLocals, Zenon DEF Cycle, NoHost
    <2>2. QED
      BY <1>1, <2>1, HostGoes DEF Cycle, files, done, Rests, HealingTypes, Working
  <1>2. CASE RejectStale
    <2>1. /\ IsGen(claim) => claim.id \in Published
          /\ MayClaim => meta.id \in Published /\ meta = NonCrit(meta.id)
      BY <1>0, Named DEF MayClaim
    <2>2. \/ IsGen(claim) /\ Goes("reject_result", claim.id, host.dec, host.ok)
             /\ UNCHANGED <<action, meta>>
          \/ MayClaim /\ Goes("reject_take", meta.id, host.dec, host.ok)
             /\ UNCHANGED <<action, meta>>
          \/ Goes("start", host.gen, host.dec, host.ok)
             /\ ((action' = "none" /\ meta' = None) \/ UNCHANGED <<action, meta>>)
      <3>1. [host EXCEPT !.pc = "start"] =
                [pc |-> "start", gen |-> host.gen, dec |-> host.dec, ok |-> host.ok]
        BY <1>0, HostLocals
      <3>2. ASSUME NEW x, NEW q, q = [host EXCEPT !.pc = "reject_result", !.gen = x]
           PROVE  q = [pc |-> "reject_result", gen |-> x, dec |-> host.dec, ok |-> host.ok]
        BY <1>0, <3>2, Zenon DEF HostRec
      <3>3. ASSUME NEW x, NEW q, q = [host EXCEPT !.pc = "reject_take", !.gen = x]
           PROVE  q = [pc |-> "reject_take", gen |-> x, dec |-> host.dec, ok |-> host.ok]
        BY <1>0, <3>3, Zenon DEF HostRec
      <3>4. QED
        BY <1>2, <3>1, <3>2, <3>3, Zenon DEF RejectStale
    <2>3. /\ action' \in {"none", "restart", "restore"} /\ meta' \in {meta, None}
          /\ results' \subseteq Published /\ claim' = claim /\ Rests
          /\ UNCHANGED <<gens, dec, runs, restores>>
      BY <1>2, <2>2 DEF RejectStale, done, Rests, HealingTypes
    <2>4. CASE IsGen(claim) /\ Goes("reject_result", claim.id, host.dec, host.ok)
      BY <2>1, <2>3, <2>4, HostGoes
    <2>5. CASE MayClaim /\ Goes("reject_take", meta.id, host.dec, host.ok)
      BY <2>1, <2>3, <2>5, HostGoes
    <2>6. CASE Goes("start", host.gen, host.dec, host.ok)
      BY <2>3, <2>6, HostGoes DEF Working
    <2>7. QED
      BY <2>2, <2>4, <2>5, <2>6
  <1>3. CASE Take
    <2>1. \/ Goes("idle", None, None, FALSE) /\ UNCHANGED <<meta, claim>>
          \/ Goes("start", None, None, FALSE) /\ UNCHANGED <<meta, claim>>
          \/ /\ host.pc = "take" /\ Goes("untake", host.gen, host.dec, host.ok)
             /\ claim' = meta /\ meta' = None
          \/ /\ host.pc = "reject_take"
             /\ Goes("reject_untake", host.gen, host.dec, host.ok)
             /\ claim' = meta /\ meta' = None
      BY <1>0, <1>3, HostLocals, Zenon DEF Take, NoHost
    <2>2. /\ action' \in {"none", "restart", "restore"}
          /\ results' \subseteq Published /\ Rests
          /\ host.pc \in {"take", "reject_take"} => host.gen \in Published
          /\ host.pc = "take" => runs[host.gen] = 0
          /\ host.gen \in Published => None # NonCrit(host.gen)
          /\ UNCHANGED <<gens, dec, runs, restores>>
      BY <1>3 DEF Take, done, Rests, HealingTypes, Working, OnceInv, HealingConstants,
         Published, Gens
    <2>3. CASE Goes("idle", None, None, FALSE) /\ UNCHANGED <<meta, claim>>
      BY <2>2, <2>3, HostGoes DEF Working
    <2>4. CASE Goes("start", None, None, FALSE) /\ UNCHANGED <<meta, claim>>
      BY <2>2, <2>4, HostGoes DEF Working
    <2>5. CASE /\ host.pc = "take" /\ Goes("untake", host.gen, host.dec, host.ok)
               /\ claim' = meta /\ meta' = None
      BY <2>2, <2>5, HostGoes
    <2>6. CASE /\ host.pc = "reject_take"
               /\ Goes("reject_untake", host.gen, host.dec, host.ok)
               /\ claim' = meta /\ meta' = None
      BY <2>2, <2>6, HostGoes
    <2>7. QED
      BY <2>1, <2>3, <2>4, <2>5, <2>6
  <1>4. CASE Untake
    <2>1. \/ host.pc = "untake" /\ Goes("execute", host.gen, host.dec, host.ok)
          \/ host.pc = "reject_untake" /\ Goes("reject_result", host.gen, host.dec, host.ok)
      BY <1>0, <1>4, HostLocals, Zenon DEF Untake
    <2>2. /\ action' = "none" /\ results' \subseteq Published /\ Rests
          /\ host.pc \in {"untake", "reject_untake"} => host.gen \in Published
          /\ host.pc = "untake" => runs[host.gen] = 0 /\ meta # NonCrit(host.gen)
          /\ UNCHANGED <<meta, claim, gens, dec, runs, restores>>
      BY <1>4 DEF Untake, done, Rests, HealingTypes, Working, OnceInv
    <2>3. CASE host.pc = "untake" /\ Goes("execute", host.gen, host.dec, host.ok)
      BY <2>2, <2>3, HostGoes
    <2>4. CASE /\ host.pc = "reject_untake"
               /\ Goes("reject_result", host.gen, host.dec, host.ok)
      BY <2>2, <2>4, HostGoes
    <2>5. QED
      BY <2>1, <2>3, <2>4
  <1>5. CASE Terminalize
    <2>1. \/ Goes("revoke", host.gen, host.dec, host.ok)
          \/ Goes("reject_revoke", host.gen, host.dec, host.ok)
          \/ Goes("idle", None, None, FALSE)
          \/ Goes("start", None, None, FALSE)
      BY <1>0, <1>5, HostLocals, Zenon DEF Terminalize, NoHost
    <2>2. /\ results' \subseteq Published /\ Rests
          /\ action' \in {"none", "restart", "restore"}
          /\ UNCHANGED <<meta, claim, gens, dec, runs, restores>>
      BY <1>5 DEF Terminalize, files, done, Rests, HealingTypes, Working
    <2>3. ASSUME NEW pc \in {"revoke", "reject_revoke", "idle", "start"}, NEW gen,
                 NEW d, NEW ok, Goes(pc, gen, d, ok)
          PROVE  HealingInv'
      BY <2>2, <2>3, HostGoes DEF Working
    <2>4. QED
      BY <2>1, <2>3
  <1>6. CASE Revoke
    <2>1. \/ Goes("idle", None, None, FALSE)
          \/ Goes("verify", None, None, FALSE)
          \/ Goes("start", None, None, FALSE)
      BY <1>0, <1>6, HostLocals, Zenon DEF Revoke, NoHost
    <2>2. /\ results' \subseteq Published /\ Rests
          /\ action' = "none" /\ meta' = None /\ claim' = None
          /\ UNCHANGED <<gens, dec, runs, restores>>
      BY <1>6 DEF Revoke, done, Rests, HealingTypes
    <2>3. ASSUME NEW pc \in {"idle", "verify", "start"}, Goes(pc, None, None, FALSE)
          PROVE  HealingInv'
      BY <2>2, <2>3, HostGoes DEF Working
    <2>4. QED
      BY <2>1, <2>3
  <1>7. CASE StartAgent
    <2>1. \E pc \in {"await", "read", "verified", "end"} :
             Goes(pc, host.gen, host.dec, host.ok)
      <3>1. \E pc \in {"await", "read", "verified", "end"} :
               host' = [host EXCEPT !.pc = pc]
        BY <1>7 DEF StartAgent
      <3>2. QED
        BY <1>0, <3>1, HostLocals, Zenon
    <2>2. Rests
      <3>1. AgentRec(NoAgent) /\ NoAgent.dec = None /\ AppRec(NoApp)
        BY DEF NoAgent, AgentRec, NoApp, AppRec
      <3>2. \A v : [NoAgent EXCEPT !.pc = "check", !.verify = v]
                     = [pc |-> "check", verify |-> v, dec |-> None]
        <4>1. ASSUME NEW q, NEW v, q = [NoAgent EXCEPT !.pc = "check", !.verify = v]
              PROVE  q = [pc |-> "check", verify |-> v, dec |-> NoAgent.dec]
          BY <3>1, <4>1, Zenon DEF AgentRec
        <4>2. QED
          BY <3>1, <4>1, Zenon
      <3>3. \/ agent' = agent
            \/ \E v : agent' = [pc |-> "check", verify |-> v, dec |-> None]
        BY <1>7, <3>2, Zenon DEF StartAgent
      <3>4. QED
        BY <1>7, <3>3 DEF StartAgent, Rests, AgentRec
    <2>3. /\ results' \subseteq Published /\ action' \in {"none", "restart", "restore"}
          /\ UNCHANGED <<meta, claim, gens, dec, runs, restores>>
      BY <1>7 DEF StartAgent, files, done, HealingTypes
    <2>4. ASSUME NEW pc \in {"await", "read", "verified", "end"}, Goes(pc, host.gen, host.dec, host.ok)
          PROVE  HealingInv'
      BY <2>2, <2>3, <2>4, HostGoes DEF Working
    <2>5. QED
      BY <2>1, <2>4
  <1>8. CASE ReadAction
    <2>1. \/ Goes("idle", None, None, FALSE)
          \/ Goes("owner", host.gen, host.dec, host.ok)
          \/ Goes("claim", host.gen, host.dec, host.ok)
      <3>1. \/ host' = NoHost
            \/ host' = [host EXCEPT !.pc = "owner"]
            \/ host' = [host EXCEPT !.pc = "claim"]
        BY <1>8 DEF ReadAction, HealingTypes
      <3>2. QED
        BY <1>0, <3>1, HostLocals, Zenon
    <2>2. /\ results' \subseteq Published /\ action' \in {"none", "restart", "restore"}
          /\ Rests /\ UNCHANGED <<meta, claim, gens, dec, runs, restores>>
      BY <1>8 DEF ReadAction, files, done, HealingTypes, Rests
    <2>3. ASSUME NEW pc \in {"idle", "owner", "claim"}, NEW gen, NEW d, NEW ok,
                 Goes(pc, gen, d, ok)
          PROVE  HealingInv'
      BY <2>2, <2>3, HostGoes DEF Working
    <2>4. QED
      BY <2>1, <2>3
  <1>9. CASE Claim
    <2>1. \/ /\ MayClaim /\ Goes("take", meta.id, host.dec, host.ok)
             /\ UNCHANGED <<action, meta>>
          \/ /\ Goes("idle", None, None, FALSE)
             /\ (action' = "none" /\ meta' = None) \/ UNCHANGED <<action, meta>>
      <3>1. CASE MayClaim
        <4>1. host' = [host EXCEPT !.pc = "take", !.gen = meta.id] /\ UNCHANGED <<action, meta>>
          BY <1>9, <3>1 DEF Claim
        <4>2. ASSUME NEW q, NEW g, q = [host EXCEPT !.pc = "take", !.gen = g]
              PROVE  q = [pc |-> "take", gen |-> g, dec |-> host.dec, ok |-> host.ok]
          BY <1>0, <4>2, Zenon DEF HostRec
        <4>3. QED
          BY <3>1, <4>1, <4>2, Zenon
      <3>2. CASE ~MayClaim
        BY <1>0, <1>9, <3>2, SMT DEF Claim
      <3>3. QED
        BY <3>1, <3>2
    <2>2. MayClaim => meta.id \in Published /\ runs[meta.id] = 0
      BY <1>0, Named DEF MayClaim, OnceInv
    <2>3. /\ results' \subseteq Published /\ Rests /\ claim' = claim
          /\ action' \in {"none", "restart", "restore"}
          /\ UNCHANGED <<gens, dec, runs, restores>>
      BY <1>9, <2>1 DEF Claim, done, HealingTypes, Rests
    <2>4. CASE /\ MayClaim /\ Goes("take", meta.id, host.dec, host.ok)
               /\ UNCHANGED <<action, meta>>
      BY <2>2, <2>3, <2>4, HostGoes
    <2>5. CASE /\ Goes("idle", None, None, FALSE)
               /\ (action' = "none" /\ meta' = None) \/ UNCHANGED <<action, meta>>
      BY <2>3, <2>5, HostGoes DEF Working
    <2>6. QED
      BY <2>1, <2>4, <2>5
  <1>10. CASE ClearAction
    <2>1. Goes("verify", host.gen, host.dec, host.ok)
      BY <1>0, <1>10, HostLocals, Zenon DEF ClearAction
    <2>2. QED
      BY <1>10, <2>1, HostGoes DEF ClearAction, done, Rests, HealingTypes, Working
  <1>11. CASE EndCycle
    <2>1. Goes("idle", None, None, FALSE)
      BY <1>0, <1>11, Zenon DEF EndCycle
    <2>2. QED
      BY <1>11, <2>1, HostGoes DEF EndCycle, files, done, Rests, HealingTypes, Working
  <1>12. QED
    BY <1>1, <1>2, <1>3, <1>4, <1>5, <1>6, <1>7, <1>8, <1>9, <1>10, <1>11

\* Each step of the host that runs an action or consumes an approval.
LEMMA ActStep ==
  ASSUME HealingConstants, HealingInv, Execute \/ OwnerApproved \/ Restore
  PROVE  HealingInv'
  <1> HealingTypes /\ OnceInv /\ OwnerInv
    BY DEF HealingInv
  <1> DEFINE Goes(pc, gen, d, ok) ==
               host' = [pc |-> pc, gen |-> gen, dec |-> d, ok |-> ok]
  <1>0. /\ HostRec(host) /\ HostRec(NoHost)
        /\ NoHost = [pc |-> "idle", gen |-> None, dec |-> None, ok |-> FALSE]
        /\ meta \in Authorities /\ claim \in Authorities
        /\ AgentRec(NoAgent) /\ AppRec(NoApp) /\ NoAgent.dec = None
        /\ NoAgent.pc = "idle" /\ NoApp.pc = "idle"
    BY DEF HealingTypes, HostRec, NoHost, NoAgent, NoApp, AgentRec, AppRec
  <1>1. CASE Execute
    <2>1. Goes("result", host.gen, host.dec, healthy')
      BY <1>0, <1>1, HostLocals, Zenon DEF Execute
    <2>2. /\ host.pc = "execute" /\ host.gen \in Published /\ host.gen \in Gens
          /\ runs[host.gen] = 0 /\ meta # NonCrit(host.gen)
          /\ runs' = [runs EXCEPT ![host.gen] = @ + 1]
          /\ Processes
          /\ UNCHANGED <<action, meta, claim, results, gens, dec, restores>>
      BY <1>1 DEF Execute, files, HealingTypes, Working, OnceInv, Published, Gens,
         HealingConstants
    <2> USE <2>2, <2>1, <1>0 DEF HealingConstants, Published, Processes
    <2>3. HealingTypes'
      BY DEF HealingTypes, Authorities, HostRec, Working
    <2>4. /\ \A g \in Gens : runs'[g] = IF g = host.gen THEN 1 ELSE runs[g]
          /\ host'.pc = "result"
      BY DEF HealingTypes
    <2>5. \A g, h \in Published : NonCrit(g) = NonCrit(h) => g = h
      BY DEF NonCrit
    <2>6. OnceInv'
      BY <2>4, <2>5 DEF OnceInv, OneShot, Gens, HealingTypes
    <2>7. OwnerInv'
      BY <2>4 DEF OwnerInv, OwnerFirst
    <2>8. QED
      BY <2>3, <2>6, <2>7 DEF HealingInv
  <1>2. CASE OwnerApproved
    <2>1. CASE /\ meta # None /\ ~IsGen(meta) /\ dec[meta.id] = "approved"
               /\ dec' = [dec EXCEPT ![meta.id] = "executing"]
               /\ Goes("restore", host.gen, meta.id, host.ok)
      <3>1. meta.id \in Decisions /\ dec'[meta.id] = "executing" /\ host'.pc = "restore"
            /\ host'.dec = meta.id
        BY <1>0, <2>1, Named DEF HealingTypes
      <3>2. UNCHANGED <<action, meta, claim, results, gens, agent, app, runs, restores>>
        BY <1>2 DEF OwnerApproved, files, done
      <3> USE <2>1, <3>1, <3>2 DEF Published
      <3>3. HealingTypes'
        BY DEF HealingTypes, Authorities, HostRec, Working, Stages
      <3>4. OnceInv'
        BY DEF OnceInv, OneShot
      <3>5. restores[meta.id] = 0
        BY DEF OwnerInv, OwnerFirst, HealingTypes
      <3>6. OwnerInv'
        BY <3>5 DEF OwnerInv, OwnerFirst, HealingTypes
      <3>7. QED
        BY <3>3, <3>4, <3>6 DEF HealingInv
    <2>2. CASE Goes("idle", None, None, FALSE) /\ UNCHANGED dec
      BY <1>2, <2>2, HostGoes DEF OwnerApproved, files, done, Rests, HealingTypes, Working
    <2>3. QED
      <3>1. \/ /\ meta # None /\ ~IsGen(meta) /\ dec[meta.id] = "approved"
               /\ dec' = [dec EXCEPT ![meta.id] = "executing"]
               /\ host' = [host EXCEPT !.pc = "restore", !.dec = meta.id]
            \/ host' = NoHost /\ UNCHANGED dec
        BY <1>2 DEF OwnerApproved
      <3>2. [host EXCEPT !.pc = "restore", !.dec = meta.id]
              = [pc |-> "restore", gen |-> host.gen, dec |-> meta.id, ok |-> host.ok]
        BY <1>0, HostLocals, Zenon
      <3>3. QED
        BY <1>0, <2>1, <2>2, <3>1, <3>2, Zenon
  <1>3. CASE Restore
    <2>1. host'.pc \in {"clear", "idle"} /\ HostRec(host')
      <3>1. Goes("clear", None, None, FALSE) \/ Goes("idle", None, None, FALSE)
        BY <1>0, <1>3, HostLocals, Zenon DEF Restore
      <3>2. QED
        BY <3>1 DEF HostRec
    <2>2. /\ host.pc = "restore" /\ host.dec \in Decisions
          /\ dec[host.dec] = "executing" /\ restores[host.dec] = 0
          /\ restores' = [restores EXCEPT ![host.dec] = @ + 1]
          /\ Processes
          /\ UNCHANGED <<action, meta, claim, results, gens, dec, runs>>
      BY <1>3 DEF Restore, Processes, files, HealingTypes, OwnerInv
    <2> USE <1>0, <2>1, <2>2 DEF Published, Processes
    <2>3. HealingTypes'
      BY DEF HealingTypes, Authorities, Working
    <2>4. OnceInv'
      BY DEF OnceInv, OneShot
    <2>5. OwnerInv'
      BY DEF OwnerInv, OwnerFirst, HealingTypes
    <2>6. QED
      BY <2>3, <2>4, <2>5 DEF HealingInv
  <1>4. QED
    BY <1>1, <1>2, <1>3

\* A step of the agent that publishes nothing and answers for nobody.
LEMMA AgentGoes ==
  ASSUME HealingConstants, HealingInv, NEW pc, NEW v, NEW d,
         agent' = [pc |-> pc, verify |-> v, dec |-> d],
         IF pc \in {"ask", "pend"} THEN d \in Decisions ELSE d = None,
         pc # "ask",
         action' \in {"none", "restart", "restore"},
         UNCHANGED <<meta, claim, results, gens, dec, host, app, runs, restores>>
  PROVE  HealingInv'
  <1> USE DEF HealingInv
  <1>1. agent'.pc = pc /\ agent'.dec = d /\ AgentRec(agent')
    BY DEF AgentRec
  <1>2. HealingTypes'
    BY <1>1 DEF HealingTypes, Authorities, Published
  <1>3. OnceInv'
    BY DEF OnceInv, OneShot, Published
  <1>4. OwnerInv'
    BY <1>1 DEF OwnerInv, OwnerFirst
  <1>5. QED
    BY <1>2, <1>3, <1>4

\* Each step of the agent keeps the invariant.
LEMMA AgentStep == ASSUME HealingConstants, HealingInv, AgentNext PROVE HealingInv'
  <1> HealingTypes /\ OnceInv /\ OwnerInv
    BY DEF HealingInv
  <1> DEFINE Goes(pc, v, d) == agent' = [pc |-> pc, verify |-> v, dec |-> d]
  <1>0. /\ AgentRec(agent) /\ AgentRec(NoAgent) /\ AppRec(app)
        /\ NoAgent = [pc |-> "idle", verify |-> FALSE, dec |-> None]
        /\ action \in {"none", "restart", "restore"}
    BY DEF HealingTypes, AgentRec, NoAgent
  <1>1. CASE AgentChecks
    <2>1. agent.dec = None
      BY <1>1 DEF AgentChecks, HealingTypes
    <2>2. \/ Goes("idle", FALSE, None)
          \/ Goes("meta", agent.verify, None)
          \/ Goes("critical", agent.verify, None)
      <3>1. \/ agent' = NoAgent
            \/ agent' = [agent EXCEPT !.pc = "meta"]
            \/ agent' = [agent EXCEPT !.pc = "critical"]
        BY <1>1 DEF AgentChecks, Requests
      <3>2. QED
        BY <1>0, <2>1, <3>1, OtherLocals, Zenon
    <2>3. UNCHANGED <<action, meta, claim, results, gens, dec, host, app, runs, restores>>
      BY <1>1 DEF AgentChecks, files, done
    <2>4. ASSUME NEW pc \in {"idle", "meta", "critical"}, NEW v, Goes(pc, v, None)
          PROVE  HealingInv'
      BY <1>0, <2>3, <2>4, AgentGoes
    <2>5. QED
      BY <2>2, <2>4
  <1>2. CASE PersistMeta
    <2>1. /\ Goes("pointer", agent.verify, agent.dec) /\ agent.dec = None
          /\ gens < MaxGens /\ gens' = gens + 1 /\ meta' = NonCrit(gens + 1)
          /\ UNCHANGED <<action, claim, results, dec, host, app, runs, restores>>
      <3>1. Goes("pointer", agent.verify, agent.dec)
        BY <1>0, <1>2, OtherLocals, Zenon DEF PersistMeta
      <3>2. QED
        BY <1>2, <3>1 DEF PersistMeta, done, HealingTypes
    <2> USE <2>1 DEF HealingConstants, Published
    <2>2. HealingTypes'
      <3>1. \A g \in Published : g \in Published'
        BY DEF HealingTypes
      <3>2. meta' \in Authorities' /\ claim' \in Authorities'
        BY <3>1 DEF HealingTypes, Authorities
      <3>3. AgentRec(agent)'
        BY DEF AgentRec
      <3>4. QED
        BY <3>1, <3>2, <3>3 DEF HealingTypes
    <2>3. \A g, h \in Published' : NonCrit(g) = NonCrit(h) => g = h
      BY DEF NonCrit
    <2>4. OnceInv'
      BY <2>3 DEF OnceInv, OneShot, HealingTypes, Gens, Working
    <2>5. OwnerInv'
      BY DEF OwnerInv, OwnerFirst
    <2>6. QED
      BY <2>2, <2>4, <2>5 DEF HealingInv
  <1>3. CASE PersistAction
    <2>1. Goes("idle", FALSE, None)
      BY <1>0, <1>3, Zenon DEF PersistAction
    <2>2. QED
      BY <1>3, <2>1, AgentGoes DEF PersistAction, done
  <1>4. CASE CriticalSubmit
    <2>1. CASE agent' = NoAgent /\ UNCHANGED dec
      <3>1. Goes("idle", FALSE, None)
        BY <1>0, <2>1, Zenon
      <3>2. QED
        BY <1>0, <1>4, <2>1, <3>1, AgentGoes DEF CriticalSubmit, files, done
    <2>2. ASSUME NEW d \in Decisions, dec[d] = "none",
                 dec' = [dec EXCEPT ![d] = "security_approved"],
                 agent' = [agent EXCEPT !.pc = "ask", !.dec = d]
          PROVE  HealingInv'
      <3>1. Goes("ask", agent.verify, d)
        BY <1>0, <2>2, OtherLocals, Zenon
      <3>2. /\ agent'.pc = "ask" /\ agent'.dec = d /\ AgentRec(agent')
            /\ UNCHANGED <<action, meta, claim, results, gens, host, app, runs, restores>>
        BY <1>4, <3>1 DEF CriticalSubmit, files, done, AgentRec
      <3> USE <2>2, <3>2 DEF Published
      <3>3. HealingTypes'
        BY DEF HealingTypes, Authorities, Stages
      <3>4. OnceInv'
        BY DEF OnceInv, OneShot
      <3>5. OwnerInv'
        BY DEF OwnerInv, OwnerFirst, HealingTypes
      <3>6. QED
        BY <3>3, <3>4, <3>5 DEF HealingInv
    <2>3. QED
      BY <1>4, <2>1, <2>2 DEF CriticalSubmit
  <1>5. CASE CriticalAsk
    <2>1. CASE agent' = NoAgent /\ UNCHANGED dec
      <3>1. Goes("idle", FALSE, None)
        BY <1>0, <2>1, Zenon
      <3>2. QED
        BY <1>0, <1>5, <2>1, <3>1, AgentGoes DEF CriticalAsk, files, done
    <2>2. CASE /\ dec' = [dec EXCEPT ![agent.dec] = "awaiting_owner"]
               /\ agent' = [agent EXCEPT !.pc = "pend"]
      <3>1. Goes("pend", agent.verify, agent.dec)
        BY <1>0, <2>2, OtherLocals, Zenon
      <3>2. /\ agent'.pc = "pend" /\ agent'.dec = agent.dec /\ AgentRec(agent')
            /\ agent.dec \in Decisions /\ dec[agent.dec] = "security_approved"
            /\ UNCHANGED <<action, meta, claim, results, gens, host, app, runs, restores>>
        BY <1>5, <3>1 DEF CriticalAsk, files, done, AgentRec, HealingTypes, OwnerInv
      <3> USE <2>2, <3>2 DEF Published
      <3>3. HealingTypes'
        BY DEF HealingTypes, Authorities, Stages
      <3>4. OnceInv'
        BY DEF OnceInv, OneShot
      <3>5. OwnerInv'
        BY DEF OwnerInv, OwnerFirst, HealingTypes
      <3>6. QED
        BY <3>3, <3>4, <3>5 DEF HealingInv
    <2>3. QED
      BY <1>5, <2>1, <2>2 DEF CriticalAsk
  <1>6. CASE CriticalPending
    <2>1. Goes("idle", FALSE, None)
      BY <1>0, <1>6, Zenon DEF CriticalPending
    <2>2. QED
      BY <1>0, <1>6, <2>1, AgentGoes DEF CriticalPending, files, done
  <1>7. QED
    BY <1>1, <1>2, <1>3, <1>4, <1>5, <1>6 DEF AgentNext

\* Each step of the owner and of the dashboard keeps the invariant.
LEMMA AppStep ==
  ASSUME HealingConstants, HealingInv,
         AppNext \/ \E d \in Decisions, approve \in BOOLEAN : Decide(d, approve)
  PROVE  HealingInv'
  <1> HealingTypes /\ OnceInv /\ OwnerInv
    BY DEF HealingInv
  <1> USE DEF Published
  <1>0. /\ AppRec(app) /\ AgentRec(agent) /\ AppRec(NoApp) /\ NoApp.pc = "idle"
    BY DEF HealingTypes, AppRec, NoApp
  <1>1. ASSUME NEW d \in Decisions, NEW approve \in BOOLEAN, Decide(d, approve)
        PROVE  HealingInv'
    <2>1. /\ AppRec(app') /\ (app'.pc \in {"meta", "pointer"} => app'.dec \in Decisions)
      BY <1>0, <1>1 DEF Decide, AppRec
    <2>2. \E st \in {"approved", "rejected"} : dec' = [dec EXCEPT ![d] = st]
      BY <1>1 DEF Decide
    <2>3. /\ dec[d] = "awaiting_owner"
          /\ UNCHANGED <<action, meta, claim, results, gens, agent, host, runs, restores>>
      BY <1>1 DEF Decide, files, done
    <2> USE <2>1, <2>2, <2>3
    <2>4. HealingTypes'
      BY DEF HealingTypes, Authorities, Stages
    <2>5. OnceInv'
      BY DEF OnceInv, OneShot
    <2>6. OwnerInv'
      BY DEF OwnerInv, OwnerFirst, HealingTypes
    <2>7. QED
      BY <2>4, <2>5, <2>6 DEF HealingInv
  <1>2. CASE QueueMeta
    <2>1. app' = [pc |-> "pointer", dec |-> app.dec]
      BY <1>0, <1>2, OtherLocals, Zenon DEF QueueMeta
    <2>2. /\ AppRec(app') /\ app.dec \in Decisions /\ app'.dec = app.dec
          /\ meta' = Crit(app.dec)
          /\ UNCHANGED <<action, claim, results, gens, dec, agent, host, runs, restores>>
      BY <1>2, <2>1 DEF QueueMeta, done, AppRec, HealingTypes
    <2> USE <2>2
    <2>3. HealingTypes'
      BY DEF HealingTypes, Authorities
    <2>4. \A g : meta' # NonCrit(g)
      BY DEF Crit, NonCrit
    <2>5. OnceInv'
      BY <2>4 DEF OnceInv, OneShot
    <2>6. OwnerInv'
      BY DEF OwnerInv, OwnerFirst
    <2>7. QED
      BY <2>3, <2>5, <2>6 DEF HealingInv
  <1>3. CASE QueueAction
    <2>1. /\ action' = "restore" /\ app' = NoApp
          /\ UNCHANGED <<meta, claim, results, gens, dec, agent, host, runs, restores>>
      BY <1>3 DEF QueueAction, done
    <2> USE <1>0, <2>1
    <2>2. HealingTypes'
      BY DEF HealingTypes, Authorities
    <2>3. OnceInv' /\ OwnerInv'
      BY DEF OnceInv, OneShot, OwnerInv, OwnerFirst
    <2>4. QED
      BY <2>2, <2>3 DEF HealingInv
  <1>4. QED
    BY <1>1, <1>2, <1>3 DEF AppNext

\* What goes wrong takes no authority and gives none.
LEMMA FaultStep == ASSUME HealingConstants, HealingInv, Fault PROVE HealingInv'
  <1> HealingTypes
    BY DEF HealingInv
  <1>0. UNCHANGED <<action, meta, claim, results, gens, dec, runs, restores>>
    BY DEF Fault, files, done
  <1>1. /\ HostRec(NoHost) /\ NoHost.pc = "idle" /\ AgentRec(NoAgent)
        /\ NoAgent.pc = "idle" /\ NoAgent.dec = None /\ AppRec(NoApp) /\ NoApp.pc = "idle"
    BY DEF NoHost, NoAgent, NoApp, HostRec, AgentRec, AppRec
  <1>2. /\ host' \in {host, NoHost} /\ agent' \in {agent, NoAgent} /\ app' \in {app, NoApp}
    BY DEF Fault
  <1> USE <1>0, <1>1, <1>2 DEF Published
  <1>3. HealingTypes'
    BY DEF HealingTypes, Authorities, Working
  <1>4. OnceInv' /\ OwnerInv'
    BY DEF HealingInv, OnceInv, OneShot, OwnerInv, OwnerFirst
  <1>5. QED
    BY <1>3, <1>4 DEF HealingInv

\* For any generations, decisions and faults: wherever the wrapper dies and
\* whatever agent of a dead wrapper still publishes, a generation is run at most
\* once, and a database is restored only on a decision whose owner's approval
\* that very restore consumed (deploy/vps/self-healing-run.sh,
\* tools/self_healing_agent.py and development_control/general_controller.py).
THEOREM HealingIsAuthorizedHolds ==
  ASSUME HealingConstants
  PROVE  HealingSpec => []HealingIsAuthorized
  <1>1. HealingInit => HealingInv
    BY HealingInitInv
  <1>2. HealingInv /\ [HealingNext]_healingVars => HealingInv'
    <2> SUFFICES ASSUME HealingInv, [HealingNext]_healingVars PROVE HealingInv'
      OBVIOUS
    <2>1. CASE UNCHANGED healingVars
      BY <2>1 DEF healingVars, HealingInv, HealingTypes, OnceInv, OwnerInv, OneShot, OwnerFirst,
                  Published, Authorities
    <2>2. QED
      BY <2>1, FaultStep, AgentStep, AppStep, HostStep, ActStep DEF HealingNext, HostNext
  <1>3. HealingInv => HealingIsAuthorized
    <2>1. HealingTypes => HealingTypeOK
      BY DEF HealingTypes, HealingTypeOK, HealingConstants, Authorities, Published, Gens,
         NonCrit, Crit
    <2>2. QED
      BY <2>1 DEF HealingInv, OnceInv, OwnerInv, HealingIsAuthorized
  <1>4. QED
    BY <1>1, <1>2, <1>3, PTL DEF HealingSpec

----------------------------------------------------------------------------
(* Approved patches.                                                       *)
\* The values that stand for no decision and for no outcome are neither.
PatchConstants == Unset \notin Proposals \union Outcomes

PatchLabels == {"idle", "copy", "check", "apply", "test", "deploy", "cleanup",
                "record", "revert", "rollback", "clear"}
DbStatuses == {"none", "pending", "approved"} \union Terminal
\* The host has taken up a decision.
Busy == patchHost.pc \notin {"idle", "copy"}
Uncommitted(kind, d) == Commits(kind, d) = {}

\* The rows of agent_decisions.
Rows == [status : DbStatuses, result : Outcomes \union {Unset}, base : Nat]

PatchTypes ==
    /\ db \in [Proposals -> Rows]
    /\ callback \in [Proposals -> {"idle", "patch", "manifest", "action"}]
    /\ patches \subseteq Proposals
    /\ manifest \in Proposals \union {Unset} /\ staged \in Proposals \union {Unset}
    /\ log \in Seq([kind : {"fix", "revert"}, id : Proposals])
    /\ served \in 0 .. Len(log)
    /\ patchHost \in [pc : PatchLabels, id : Proposals \union {Unset},
                      status : Outcomes \union {Unset}]
    /\ Busy => patchHost.id \in Proposals

\* A proposal is made against the log as it is, before any commit of it.
BaseInv ==
    \A d \in Proposals :
        /\ db[d].base <= Len(log)
        /\ \A kind \in {"fix", "revert"} : \A i \in Commits(kind, d) : db[d].base < i
        /\ db[d].status \in {"none", "pending"} => Uncommitted("fix", d)
                                                   /\ Uncommitted("revert", d)

\* What was not approved has no files, and what is being queued was approved and
\* has not come to the host.
QueueInv ==
    \A d \in Proposals :
        /\ db[d].status \in {"none", "pending", "approved"} => db[d].result = Unset
        /\ db[d].status \in {"none", "pending"} => callback[d] = "idle"
        /\ callback[d] \in {"patch", "manifest"} => db[d].status = "approved"
        /\ db[d].status \in {"none", "pending"} \/ callback[d] \in {"patch", "manifest"} =>
               manifest # d /\ (Busy => patchHost.id # d)

\* What the host is doing, by its label.
HostInv ==
    LET d == patchHost.id IN
    /\ patchHost.pc = "copy" => manifest # Unset /\ db[manifest].status = "approved"
    /\ patchHost.pc \in {"check", "apply", "test"} => db[d].status = "approved"
    /\ patchHost.pc \in {"apply", "test"} =>
           Uncommitted("fix", d) /\ Uncommitted("revert", d)
    /\ patchHost.pc = "deploy" => Stands(d)
    /\ patchHost.pc \in {"cleanup", "record"} /\ patchHost.status = "applied" =>
           Stands(d) /\ patchHealthy /\ served = Len(log)
    /\ patchHost.pc = "record" /\ patchHost.status = "failed_precommit" =>
           Uncommitted("fix", d)
    /\ patchHost.pc = "record" /\ patchHost.status = "reverted" => ~Uncommitted("revert", d)

\* A patch left in the worktree by a death keeps everything else out of it.
WorktreeInv ==
    /\ patchHost.pc \in {"apply", "deploy", "revert", "rollback"} => staged = Unset
    /\ patchHost.pc \in {"record", "cleanup", "clear"} /\ patchHost.status # "rejected"
           => staged = Unset
    /\ patchHost.pc \in {"copy", "check"} => patchHost.status \in {Unset, "rejected"}
    /\ staged # Unset => db[staged].result \notin {"failed_precommit", "reverted"}

FailedInv ==
    \A d \in Proposals : db[d].result \in {"failed_precommit", "reverted"} => ~Stands(d)

PatchInv ==
    /\ PatchTypes /\ BaseInv /\ QueueInv /\ HostInv /\ WorktreeInv
    /\ FailedInv /\ CommittedOnce
----------------------------------------------------------------------------
\* A commit is added at the end of the log.
LEMMA Committing ==
  ASSUME PatchTypes, NEW k \in {"fix", "revert"}, NEW e \in Proposals,
         log' = Append(log, [kind |-> k, id |-> e])
  PROVE  /\ log' \in Seq([kind : {"fix", "revert"}, id : Proposals])
         /\ Len(log') = Len(log) + 1
         /\ Commits(k, e)' = Commits(k, e) \union {Len(log) + 1}
         /\ \A kind, d : kind # k \/ d # e => Commits(kind, d)' = Commits(kind, d)
  <1> DEFINE C == [kind : {"fix", "revert"}, id : Proposals]
             c == [kind |-> k, id |-> e]
  <1>1. log \in Seq(C) /\ c \in C
    BY DEF PatchTypes
  <1>2. \A kind, d : c = [kind |-> kind, id |-> d] <=> kind = k /\ d = e
    OBVIOUS
  <1>3. log' = Append(log, c)
    OBVIOUS
  <1> HIDE DEF C, c
  <1>4. /\ log' \in Seq(C) /\ Len(log') = Len(log) + 1 /\ Len(log) \in Nat
        /\ \A i \in 1 .. Len(log) : log'[i] = log[i]
        /\ log'[Len(log) + 1] = c
    BY <1>1, <1>3
  <1>5. Commits(k, e)' = Commits(k, e) \union {Len(log) + 1}
    BY <1>2, <1>4 DEF Commits
  <1>6. ASSUME NEW kind, NEW d, kind # k \/ d # e
        PROVE  Commits(kind, d)' = Commits(kind, d)
    BY <1>2, <1>4, <1>6 DEF Commits
  <1>7. QED
    BY <1>4, <1>5, <1>6 DEF C

\* A step that commits nothing.
LEMMA NotCommitting ==
  ASSUME log' = log
  PROVE  /\ \A kind, d : Commits(kind, d)' = Commits(kind, d)
         /\ \A d : /\ Stands(d)' = Stands(d)
                   /\ \A kind : Uncommitted(kind, d)' = Uncommitted(kind, d)
  <1>1. \A kind, d : Commits(kind, d)' = Commits(kind, d)
    BY DEF Commits
  <1>2. QED
    BY <1>1 DEF Stands, Uncommitted

\* Nothing is proposed, queued or committed at first.
LEMMA PatchInitInv ==
  ASSUME PatchConstants, PatchInit
  PROVE  PatchInv
  <1>1. \A i : i \notin 1 .. Len(log)
    BY DEF PatchInit
  <1>2. \A kind, d : Commits(kind, d) = {}
    BY <1>1 DEF Commits
  <1>3. QED
    BY <1>2 DEF PatchInit, PatchConstants, PatchInv, PatchTypes, Rows, BaseInv, QueueInv,
       HostInv,
       WorktreeInv, FailedInv, CommittedOnce, Idle, DbStatuses, PatchLabels, Busy,
       Uncommitted, Outcomes, Stands

\* A proposal is bound to the end of the log.
LEMMA ProposeInv ==
  ASSUME PatchConstants, PatchInv, NEW e \in Proposals, Propose(e)
  PROVE  PatchInv'
  <1>1. log' = log
    BY DEF Propose, repo
  <1>2. /\ \A kind, d : Commits(kind, d)' = Commits(kind, d)
        /\ \A d : /\ Stands(d)' = Stands(d)
                  /\ \A kind : Uncommitted(kind, d)' = Uncommitted(kind, d)
    BY <1>1, NotCommitting
  <1>3. PatchTypes'
    <2>1. /\ db \in [Proposals -> Rows] /\ Len(log) \in Nat /\ UNCHANGED log
          /\ db' = [db EXCEPT ![e].status = "pending", ![e].base = Len(log)]
      BY DEF PatchInv, PatchTypes, Propose, Rows, repo
    <2>2. db' \in [Proposals -> Rows]
      BY <2>1 DEF Rows, DbStatuses
    <2>3. QED
      BY <2>1, <2>2 DEF PatchInv, PatchTypes, Propose, Rows, repo, patchFiles, Busy
  <1>4. BaseInv'
    BY <1>1, <1>2 DEF PatchInv, BaseInv, PatchTypes, Rows, HostInv, Propose, patchFiles,
       repo
  <1>5. QueueInv'
    BY <1>1, <1>2 DEF PatchInv, QueueInv, PatchTypes, Rows, HostInv, Busy, Propose,
       patchFiles, repo
  <1>6. HostInv'
    BY <1>1, <1>2 DEF PatchInv, PatchTypes, Rows, BaseInv, QueueInv, HostInv,
       WorktreeInv, FailedInv, PatchConstants, DbStatuses, Terminal, Outcomes, Busy,
       PatchLabels, Propose, patchFiles, repo
  <1>7. WorktreeInv'
    BY <1>1, <1>2 DEF PatchInv, WorktreeInv, PatchTypes, Rows, HostInv, Propose,
       patchFiles, repo
  <1>8. FailedInv'
    BY <1>1, <1>2 DEF PatchInv, FailedInv, PatchTypes, Rows, HostInv, Propose,
       patchFiles, repo
  <1>9. CommittedOnce'
    BY <1>2 DEF PatchInv, CommittedOnce
  <1>10. QED
    BY <1>3, <1>4, <1>5, <1>6, <1>7, <1>8, <1>9 DEF PatchInv

\* The decision of the owner.
LEMMA ApproveInv ==
  ASSUME PatchConstants, PatchInv, NEW e \in Proposals, Approve(e)
  PROVE  PatchInv'
  <1>1. log' = log
    BY DEF Approve, repo
  <1>2. /\ \A kind, d : Commits(kind, d)' = Commits(kind, d)
        /\ \A d : /\ Stands(d)' = Stands(d)
                  /\ \A kind : Uncommitted(kind, d)' = Uncommitted(kind, d)
    BY <1>1, NotCommitting
  <1>3. PatchTypes'
    <2>1. /\ db \in [Proposals -> Rows]
          /\ callback \in [Proposals -> {"idle", "patch", "manifest", "action"}]
          /\ \/ /\ db' = [db EXCEPT ![e].status = "approved"]
                /\ callback' = [callback EXCEPT ![e] = "patch"]
             \/ db' = [db EXCEPT ![e].status = "rejected"] /\ callback' = callback
      BY DEF PatchInv, PatchTypes, Approve, Rows
    <2>2. db' \in [Proposals -> Rows]
      BY <2>1 DEF Rows, DbStatuses, Terminal
    <2>3. callback' \in [Proposals -> {"idle", "patch", "manifest", "action"}]
      BY <2>1
    <2>4. QED
      BY <2>2, <2>3 DEF PatchInv, PatchTypes, Approve, Rows, repo, patchFiles, Busy
  <1>4. BaseInv'
    BY <1>1, <1>2 DEF PatchInv, PatchTypes, Rows, BaseInv, QueueInv, HostInv,
       WorktreeInv, FailedInv, PatchConstants, DbStatuses, Terminal, Outcomes, Busy,
       PatchLabels, Approve, repo
  <1>5. QueueInv'
    BY <1>1, <1>2 DEF PatchInv, QueueInv, PatchTypes, Rows, HostInv, Busy, Approve, repo
  <1>6. HostInv'
    BY <1>1, <1>2 DEF PatchInv, PatchTypes, Rows, BaseInv, QueueInv, HostInv,
       WorktreeInv, FailedInv, PatchConstants, DbStatuses, Terminal, Outcomes, Busy,
       PatchLabels, Approve, repo
  <1>7. WorktreeInv'
    BY <1>1, <1>2 DEF PatchInv, PatchTypes, Rows, BaseInv, QueueInv, HostInv,
       WorktreeInv, FailedInv, PatchConstants, DbStatuses, Terminal, Outcomes, Busy,
       PatchLabels, Approve, repo
  <1>8. FailedInv'
    BY <1>1, <1>2 DEF PatchInv, PatchTypes, Rows, BaseInv, QueueInv, HostInv,
       WorktreeInv, FailedInv, PatchConstants, DbStatuses, Terminal, Outcomes, Busy,
       PatchLabels, Approve, repo
  <1>9. CommittedOnce'
    BY <1>2 DEF PatchInv, CommittedOnce
  <1>10. QED
    BY <1>3, <1>4, <1>5, <1>6, <1>7, <1>8, <1>9 DEF PatchInv

\* The three steps of the callback.
LEMMA QueuePatchInv ==
  ASSUME PatchConstants, PatchInv, NEW e \in Proposals, QueuePatch(e)
  PROVE  PatchInv'
  <1>1. log' = log
    BY DEF QueuePatch, repo
  <1>2. /\ \A kind, d : Commits(kind, d)' = Commits(kind, d)
        /\ \A d : /\ Stands(d)' = Stands(d)
                  /\ \A kind : Uncommitted(kind, d)' = Uncommitted(kind, d)
    BY <1>1, NotCommitting
  <1>3. PatchTypes'
    BY <1>1, <1>2 DEF PatchInv, PatchTypes, Busy, PatchLabels, QueuePatch, repo
  <1>4. BaseInv'
    BY <1>1, <1>2 DEF PatchInv, BaseInv, QueuePatch, repo
  <1>5. QueueInv'
    BY <1>1, <1>2 DEF PatchInv, QueueInv, Busy, QueuePatch, repo
  <1>6. HostInv'
    BY <1>1, <1>2 DEF PatchInv, HostInv, QueuePatch, repo
  <1>7. WorktreeInv'
    BY <1>1, <1>2 DEF PatchInv, WorktreeInv, QueuePatch, repo
  <1>8. FailedInv'
    BY <1>1, <1>2 DEF PatchInv, FailedInv, QueuePatch, repo
  <1>9. CommittedOnce'
    BY <1>2 DEF PatchInv, CommittedOnce
  <1>10. QED
    BY <1>3, <1>4, <1>5, <1>6, <1>7, <1>8, <1>9 DEF PatchInv

LEMMA QueueManifestInv ==
  ASSUME PatchConstants, PatchInv, NEW e \in Proposals, QueueManifest(e)
  PROVE  PatchInv'
  <1>1. log' = log
    BY DEF QueueManifest, repo
  <1>2. /\ \A kind, d : Commits(kind, d)' = Commits(kind, d)
        /\ \A d : /\ Stands(d)' = Stands(d)
                  /\ \A kind : Uncommitted(kind, d)' = Uncommitted(kind, d)
    BY <1>1, NotCommitting
  <1>3. PatchTypes'
    BY <1>1, <1>2 DEF PatchInv, PatchTypes, Busy, PatchLabels, QueueManifest, repo
  <1>4. BaseInv'
    BY <1>1, <1>2 DEF PatchInv, BaseInv, QueueManifest, repo
  <1>5. QueueInv'
    BY <1>1, <1>2 DEF PatchInv, QueueInv, PatchTypes, Rows, HostInv, Busy,
       QueueManifest, repo
  <1>6. HostInv'
    BY <1>1, <1>2 DEF PatchInv, PatchTypes, Rows, BaseInv, QueueInv, HostInv,
       WorktreeInv, FailedInv, PatchConstants, DbStatuses, Terminal, Outcomes, Busy,
       PatchLabels, QueueManifest, repo
  <1>7. WorktreeInv'
    BY <1>1, <1>2 DEF PatchInv, WorktreeInv, QueueManifest, repo
  <1>8. FailedInv'
    BY <1>1, <1>2 DEF PatchInv, FailedInv, QueueManifest, repo
  <1>9. CommittedOnce'
    BY <1>2 DEF PatchInv, CommittedOnce
  <1>10. QED
    BY <1>3, <1>4, <1>5, <1>6, <1>7, <1>8, <1>9 DEF PatchInv

LEMMA QueuePatchActionInv ==
  ASSUME PatchConstants, PatchInv, NEW e \in Proposals, QueuePatchAction(e)
  PROVE  PatchInv'
  <1>1. log' = log
    BY DEF QueuePatchAction, repo
  <1>2. /\ \A kind, d : Commits(kind, d)' = Commits(kind, d)
        /\ \A d : /\ Stands(d)' = Stands(d)
                  /\ \A kind : Uncommitted(kind, d)' = Uncommitted(kind, d)
    BY <1>1, NotCommitting
  <1>3. PatchTypes'
    BY <1>1, <1>2 DEF PatchInv, PatchTypes, Busy, PatchLabels, QueuePatchAction, repo
  <1>4. BaseInv'
    BY <1>1, <1>2 DEF PatchInv, BaseInv, QueuePatchAction, repo
  <1>5. QueueInv'
    BY <1>1, <1>2 DEF PatchInv, QueueInv, Busy, QueuePatchAction, repo
  <1>6. HostInv'
    BY <1>1, <1>2 DEF PatchInv, HostInv, QueuePatchAction, repo
  <1>7. WorktreeInv'
    BY <1>1, <1>2 DEF PatchInv, WorktreeInv, QueuePatchAction, repo
  <1>8. FailedInv'
    BY <1>1, <1>2 DEF PatchInv, FailedInv, QueuePatchAction, repo
  <1>9. CommittedOnce'
    BY <1>2 DEF PatchInv, CommittedOnce
  <1>10. QED
    BY <1>3, <1>4, <1>5, <1>6, <1>7, <1>8, <1>9 DEF PatchInv

\* The steps of the host that commit nothing.
LEMMA ClaimPatchInv ==
  ASSUME PatchConstants, PatchInv, ClaimPatch
  PROVE  PatchInv'
  <1>1. log' = log
    BY DEF ClaimPatch, repo
  <1>2. /\ \A kind, d : Commits(kind, d)' = Commits(kind, d)
        /\ \A d : /\ Stands(d)' = Stands(d)
                  /\ \A kind : Uncommitted(kind, d)' = Uncommitted(kind, d)
    BY <1>1, NotCommitting
  <1>3. PatchTypes'
    BY <1>1, <1>2 DEF PatchInv, PatchTypes, Busy, PatchLabels, ClaimPatch, At, Idle,
       patchFiles, repo
  <1>4. BaseInv'
    BY <1>1, <1>2 DEF PatchInv, BaseInv, ClaimPatch, At, Idle, patchFiles, repo
  <1>5. QueueInv'
    BY <1>1, <1>2 DEF PatchInv, QueueInv, Busy, ClaimPatch, At, Idle, patchFiles, repo
  <1>6. HostInv'
    BY <1>1, <1>2 DEF PatchInv, HostInv, ClaimPatch, At, Idle, patchFiles, repo
  <1>7. WorktreeInv'
    BY <1>1, <1>2 DEF PatchInv, WorktreeInv, ClaimPatch, At, Idle, patchFiles, repo
  <1>8. FailedInv'
    BY <1>1, <1>2 DEF PatchInv, FailedInv, ClaimPatch, At, Idle, patchFiles, repo
  <1>9. CommittedOnce'
    BY <1>2 DEF PatchInv, CommittedOnce
  <1>10. QED
    BY <1>3, <1>4, <1>5, <1>6, <1>7, <1>8, <1>9 DEF PatchInv

LEMMA CopyInv ==
  ASSUME PatchConstants, PatchInv, Copy
  PROVE  PatchInv'
  <1>1. log' = log
    BY DEF Copy, repo
  <1>2. /\ \A kind, d : Commits(kind, d)' = Commits(kind, d)
        /\ \A d : /\ Stands(d)' = Stands(d)
                  /\ \A kind : Uncommitted(kind, d)' = Uncommitted(kind, d)
    BY <1>1, NotCommitting
  <1>3. PatchTypes'
    BY <1>1, <1>2 DEF PatchInv, PatchTypes, Rows, BaseInv, QueueInv, HostInv,
       WorktreeInv, FailedInv, PatchConstants, DbStatuses, Terminal, Outcomes, Busy,
       PatchLabels, Copy, Idle, patchFiles, repo
  <1>4. BaseInv'
    BY <1>1, <1>2 DEF PatchInv, BaseInv, Copy, Idle, patchFiles, repo
  <1>5. QueueInv'
    BY <1>1, <1>2 DEF PatchInv, QueueInv, Busy, Copy, Idle, patchFiles, repo
  <1>6. HostInv'
    BY <1>1, <1>2 DEF PatchInv, HostInv, Copy, Idle, patchFiles, repo
  <1>7. WorktreeInv'
    BY <1>1, <1>2 DEF PatchInv, WorktreeInv, Copy, Idle, patchFiles, repo
  <1>8. FailedInv'
    BY <1>1, <1>2 DEF PatchInv, FailedInv, Copy, Idle, patchFiles, repo
  <1>9. CommittedOnce'
    BY <1>2 DEF PatchInv, CommittedOnce
  <1>10. QED
    BY <1>3, <1>4, <1>5, <1>6, <1>7, <1>8, <1>9 DEF PatchInv

\* What passes the check has been committed by nobody since it was proposed.
LEMMA CheckInv ==
  ASSUME PatchConstants, PatchInv, Check
  PROVE  PatchInv'
  <1>1. log' = log
    BY DEF Check, repo
  <1>2. /\ \A kind, d : Commits(kind, d)' = Commits(kind, d)
        /\ \A d : /\ Stands(d)' = Stands(d)
                  /\ \A kind : Uncommitted(kind, d)' = Uncommitted(kind, d)
    BY <1>1, NotCommitting
  <1>3. HostInv' /\ WorktreeInv'
    <2> DEFINE d == patchHost.id
    <2>1. /\ UNCHANGED <<log, db, manifest, served, patchHealthy, staged>>
          /\ patchHost.pc = "check" /\ d \in Proposals /\ db[d].status = "approved"
          /\ patchHost.status \in {Unset, "rejected"}
      BY DEF Check, PatchInv, HostInv, PatchTypes, Busy, WorktreeInv, repo, patchFiles
    <2>2. CASE Finish("record", "rejected")
      <3>1. patchHost' = [pc |-> "record", id |-> d, status |-> "rejected"]
        BY <2>2 DEF Finish, PatchInv, PatchTypes
      <3>2. QED
        BY <3>1, <2>1, <1>2 DEF HostInv, WorktreeInv, PatchInv
    <2>3. CASE db[d].base = Len(log) /\ staged = Unset /\ At("apply")
      <3>1. patchHost' = [pc |-> "apply", id |-> d, status |-> patchHost.status]
        BY <2>3 DEF At, PatchInv, PatchTypes
      <3>2. \A kind \in {"fix", "revert"} : Uncommitted(kind, d)
        <4>1. Len(log) \in Nat
          BY DEF PatchInv, PatchTypes
        <4>2. \A kind \in {"fix", "revert"} : \A i \in Commits(kind, d) : Len(log) < i
          BY <2>1, <2>3 DEF PatchInv, BaseInv
        <4>3. \A kind : \A i \in Commits(kind, d) : i \in 1 .. Len(log)
          BY DEF Commits
        <4>4. QED
          BY <4>1, <4>2, <4>3 DEF Uncommitted
      <3>3. QED
        BY <3>1, <3>2, <2>1, <1>2, <2>3 DEF HostInv, WorktreeInv, PatchInv
    <2>4. QED
      BY <2>2, <2>3 DEF Check
  <1>4. PatchTypes'
    BY <1>1, <1>2 DEF PatchInv, PatchTypes, Rows, BaseInv, QueueInv, HostInv,
       WorktreeInv, FailedInv, PatchConstants, DbStatuses, Terminal, Outcomes, Busy,
       PatchLabels, Check, At, Finish, patchFiles, repo
  <1>5. BaseInv'
    BY <1>1, <1>2 DEF PatchInv, BaseInv, Check, At, Finish, patchFiles, repo
  <1>6. QueueInv'
    BY <1>1, <1>2 DEF PatchInv, QueueInv, PatchTypes, Rows, HostInv, Busy, Check, At,
       Finish, patchFiles, repo
  <1>7. FailedInv'
    BY <1>1, <1>2 DEF PatchInv, FailedInv, Check, At, Finish, patchFiles, repo
  <1>8. CommittedOnce'
    BY <1>2 DEF PatchInv, CommittedOnce
  <1>9. QED
    BY <1>3, <1>4, <1>5, <1>6, <1>7, <1>8 DEF PatchInv

LEMMA ApplyInv ==
  ASSUME PatchConstants, PatchInv, Apply
  PROVE  PatchInv'
  <1>1. log' = log
    BY DEF Apply
  <1>2. /\ \A kind, d : Commits(kind, d)' = Commits(kind, d)
        /\ \A d : /\ Stands(d)' = Stands(d)
                  /\ \A kind : Uncommitted(kind, d)' = Uncommitted(kind, d)
    BY <1>1, NotCommitting
  <1>3. HostInv' /\ WorktreeInv'
    <2> DEFINE d == patchHost.id
    <2>1. /\ UNCHANGED <<log, db, manifest, served, patchHealthy>>
          /\ patchHost.pc = "apply" /\ d \in Proposals /\ db[d].status = "approved"
          /\ db[d].result = Unset /\ d # Unset
          /\ Uncommitted("fix", d) /\ Uncommitted("revert", d)
      BY DEF Apply, PatchInv, HostInv, PatchTypes, Busy, QueueInv, repo, patchFiles,
         PatchConstants
    <2>2. CASE staged' = d /\ At("test")
      <3>1. patchHost' = [pc |-> "test", id |-> d, status |-> patchHost.status]
        BY <2>2 DEF At, PatchInv, PatchTypes
      <3>2. QED
        BY <3>1, <2>1, <1>2, <2>2 DEF HostInv, WorktreeInv, PatchInv, PatchConstants,
           Outcomes
    <2>3. CASE staged' = Unset /\ Finish("record", "failed_precommit")
      <3>1. patchHost' = [pc |-> "record", id |-> d, status |-> "failed_precommit"]
        BY <2>3 DEF Finish, PatchInv, PatchTypes
      <3>2. QED
        BY <3>1, <2>1, <1>2, <2>3 DEF HostInv, WorktreeInv, PatchInv
    <2>4. QED
      BY <2>2, <2>3 DEF Apply
  <1>4. PatchTypes'
    BY <1>1, <1>2 DEF PatchInv, PatchTypes, Rows, BaseInv, QueueInv, HostInv,
       WorktreeInv, FailedInv, PatchConstants, DbStatuses, Terminal, Outcomes, Busy,
       PatchLabels, Apply, At, Finish, patchFiles
  <1>5. BaseInv'
    BY <1>1, <1>2 DEF PatchInv, BaseInv, Apply, At, Finish, patchFiles
  <1>6. QueueInv'
    BY <1>1, <1>2 DEF PatchInv, QueueInv, PatchTypes, Rows, HostInv, Busy, Apply, At,
       Finish, patchFiles
  <1>7. FailedInv'
    BY <1>1, <1>2 DEF PatchInv, FailedInv, Apply, At, Finish, patchFiles
  <1>8. CommittedOnce'
    BY <1>2 DEF PatchInv, CommittedOnce
  <1>9. QED
    BY <1>3, <1>4, <1>5, <1>6, <1>7, <1>8 DEF PatchInv

LEMMA CleanupInv ==
  ASSUME PatchConstants, PatchInv, Cleanup
  PROVE  PatchInv'
  <1>1. log' = log
    BY DEF Cleanup, repo
  <1>2. /\ \A kind, d : Commits(kind, d)' = Commits(kind, d)
        /\ \A d : /\ Stands(d)' = Stands(d)
                  /\ \A kind : Uncommitted(kind, d)' = Uncommitted(kind, d)
    BY <1>1, NotCommitting
  <1>3. PatchTypes'
    BY <1>1, <1>2 DEF PatchInv, PatchTypes, Busy, PatchLabels, Cleanup, At, repo
  <1>4. BaseInv'
    BY <1>1, <1>2 DEF PatchInv, BaseInv, Cleanup, At, repo
  <1>5. QueueInv'
    BY <1>1, <1>2 DEF PatchInv, PatchTypes, Rows, BaseInv, QueueInv, HostInv,
       WorktreeInv, FailedInv, PatchConstants, DbStatuses, Terminal, Outcomes, Busy,
       PatchLabels, Cleanup, At, repo
  <1>6. HostInv'
    BY <1>1, <1>2 DEF PatchInv, HostInv, Cleanup, At, repo
  <1>7. WorktreeInv'
    BY <1>1, <1>2 DEF PatchInv, WorktreeInv, Cleanup, At, repo
  <1>8. FailedInv'
    BY <1>1, <1>2 DEF PatchInv, FailedInv, Cleanup, At, repo
  <1>9. CommittedOnce'
    BY <1>2 DEF PatchInv, CommittedOnce
  <1>10. QED
    BY <1>3, <1>4, <1>5, <1>6, <1>7, <1>8, <1>9 DEF PatchInv

\* An outcome is recorded once, and it is what the host has just seen.
LEMMA RecordInv ==
  ASSUME PatchConstants, PatchInv, Record
  PROVE  PatchInv'
  <1>1. log' = log
    BY DEF Record, repo
  <1>2. /\ \A kind, d : Commits(kind, d)' = Commits(kind, d)
        /\ \A d : /\ Stands(d)' = Stands(d)
                  /\ \A kind : Uncommitted(kind, d)' = Uncommitted(kind, d)
    BY <1>1, NotCommitting
  <1>3. PatchTypes' /\ FailedInv'
    <2> DEFINE d == patchHost.id
               o == patchHost.status
    <2>1. /\ UNCHANGED <<log, callback, patches, manifest, patchAction, staged, served,
                       patchHealthy>>
          /\ patchHost.pc = "record" /\ d \in Proposals /\ o \in Outcomes \union {Unset}
          /\ db \in [Proposals -> Rows]
      BY DEF Record, PatchInv, PatchTypes, Busy, Rows, repo, patchFiles
    <2>2. db' = db \/ db' = [db EXCEPT ![d].status = DbStatus(o), ![d].result = o]
      BY DEF Record, Recorded
    <2>3. DbStatus(o) \in DbStatuses
      BY DEF DbStatus, DbStatuses, Terminal
    <2>4. db' \in [Proposals -> Rows]
      <3>1. CASE db' = [db EXCEPT ![d].status = DbStatus(o), ![d].result = o]
        BY <2>1, <2>3, <3>1 DEF Rows
      <3>2. QED
        BY <2>1, <2>2, <3>1
    <2>5. ASSUME NEW p \in Proposals
          PROVE  db'[p].result = db[p].result \/ (p = d /\ db'[p].result = o)
      <3>1. CASE db' = db
        BY <3>1
      <3>2. CASE db' = [db EXCEPT ![d].status = DbStatus(o), ![d].result = o] /\ p # d
        BY <2>1, <3>2
      <3>3. CASE db' = [db EXCEPT ![d].status = DbStatus(o), ![d].result = o] /\ p = d
        <4>1. db[d] \in Rows
          BY <2>1
        <4>2. db'[d] = [db[d] EXCEPT !.status = DbStatus(o), !.result = o]
          BY <2>1, <3>3
        <4>3. QED
          BY <4>1, <4>2, <3>3 DEF Rows
      <3>4. QED
        BY <2>2, <3>1, <3>2, <3>3
    <2>6. PatchTypes'
      <3>1. patchHost = [pc |-> patchHost.pc, id |-> d, status |-> o]
        BY DEF PatchInv, PatchTypes
      <3>2. \/ patchHost' = Idle
            \/ \E l \in {"clear", "cleanup", "revert"} :
                   patchHost' = [patchHost EXCEPT !.pc = l]
        BY DEF Record, AfterRecord
      <3>3. \/ patchHost' = Idle
            \/ \E l \in {"clear", "cleanup", "revert"} :
                   patchHost' = [pc |-> l, id |-> d, status |-> o]
        BY <3>1, <3>2
      <3>4. /\ patchHost' \in [pc : PatchLabels, id : Proposals \union {Unset},
                               status : Outcomes \union {Unset}]
            /\ Busy' => patchHost'.id \in Proposals
        BY <3>3, <2>1 DEF Idle, Busy, PatchLabels
      <3>5. QED
        BY <3>4, <2>1, <2>4 DEF PatchTypes, PatchInv, Rows
    <2>7. FailedInv'
      BY <2>1, <1>2, <2>5 DEF FailedInv, PatchInv, HostInv, Uncommitted, Stands
    <2>8. QED
      BY <2>6, <2>7
  <1>4. BaseInv'
    BY <1>1, <1>2 DEF PatchInv, BaseInv, PatchTypes, Rows, HostInv, Record, Idle,
       Terminal, patchFiles, repo, Recorded, DbStatus, AfterRecord, Accepted
  <1>5. QueueInv'
    BY <1>1, <1>2 DEF PatchInv, QueueInv, PatchTypes, Rows, HostInv, Busy, Record, Idle,
       Terminal, patchFiles, repo, Recorded, DbStatus, AfterRecord, Accepted
  <1>6. HostInv'
    BY <1>1, <1>2 DEF PatchInv, HostInv, PatchTypes, Rows, Record, Idle, Terminal,
       patchFiles, repo, Recorded, DbStatus, AfterRecord, Accepted
  <1>7. WorktreeInv'
    BY <1>1, <1>2 DEF PatchInv, WorktreeInv, PatchTypes, Rows, HostInv, Record, Idle,
       Terminal, patchFiles, repo, Recorded, DbStatus, AfterRecord, Accepted
  <1>8. CommittedOnce'
    BY <1>2 DEF PatchInv, CommittedOnce
  <1>9. QED
    BY <1>3, <1>4, <1>5, <1>6, <1>7, <1>8 DEF PatchInv

LEMMA RecordRollbackFailedInv ==
  ASSUME PatchConstants, PatchInv, RecordRollbackFailed
  PROVE  PatchInv'
  <1>1. log' = log
    BY DEF RecordRollbackFailed, repo
  <1>2. /\ \A kind, d : Commits(kind, d)' = Commits(kind, d)
        /\ \A d : /\ Stands(d)' = Stands(d)
                  /\ \A kind : Uncommitted(kind, d)' = Uncommitted(kind, d)
    BY <1>1, NotCommitting
  <1>3. PatchTypes'
    BY <1>1, <1>2 DEF PatchInv, PatchTypes, Rows, BaseInv, QueueInv, HostInv,
       WorktreeInv, FailedInv, PatchConstants, DbStatuses, Terminal, Outcomes, Busy,
       PatchLabels, RecordRollbackFailed, Idle, patchFiles, repo, Recorded, DbStatus
  <1>4. BaseInv'
    BY <1>1, <1>2 DEF PatchInv, BaseInv, PatchTypes, Rows, HostInv,
       RecordRollbackFailed, Idle, patchFiles, repo, Recorded, DbStatus
  <1>5. QueueInv'
    BY <1>1, <1>2 DEF PatchInv, QueueInv, PatchTypes, Rows, HostInv, Busy,
       RecordRollbackFailed, Idle, patchFiles, repo, Recorded, DbStatus
  <1>6. HostInv'
    BY <1>1, <1>2 DEF PatchInv, HostInv, RecordRollbackFailed, Idle, patchFiles, repo,
       Recorded, DbStatus
  <1>7. WorktreeInv'
    BY <1>1, <1>2 DEF PatchInv, WorktreeInv, RecordRollbackFailed, Idle, patchFiles,
       repo, Recorded, DbStatus
  <1>8. FailedInv'
    BY <1>1, <1>2 DEF PatchInv, FailedInv, PatchTypes, Rows, HostInv,
       RecordRollbackFailed, Idle, patchFiles, repo, Recorded, DbStatus
  <1>9. CommittedOnce'
    BY <1>2 DEF PatchInv, CommittedOnce
  <1>10. QED
    BY <1>3, <1>4, <1>5, <1>6, <1>7, <1>8, <1>9 DEF PatchInv

LEMMA ClearPatchActionInv ==
  ASSUME PatchConstants, PatchInv, ClearPatchAction
  PROVE  PatchInv'
  <1>1. log' = log
    BY DEF ClearPatchAction, repo
  <1>2. /\ \A kind, d : Commits(kind, d)' = Commits(kind, d)
        /\ \A d : /\ Stands(d)' = Stands(d)
                  /\ \A kind : Uncommitted(kind, d)' = Uncommitted(kind, d)
    BY <1>1, NotCommitting
  <1>3. PatchTypes'
    BY <1>1, <1>2 DEF PatchInv, PatchTypes, Busy, PatchLabels, ClearPatchAction, Idle,
       repo
  <1>4. BaseInv'
    BY <1>1, <1>2 DEF PatchInv, BaseInv, ClearPatchAction, Idle, repo
  <1>5. QueueInv'
    BY <1>1, <1>2 DEF PatchInv, QueueInv, Busy, ClearPatchAction, Idle, repo
  <1>6. HostInv'
    BY <1>1, <1>2 DEF PatchInv, HostInv, ClearPatchAction, Idle, repo
  <1>7. WorktreeInv'
    BY <1>1, <1>2 DEF PatchInv, WorktreeInv, ClearPatchAction, Idle, repo
  <1>8. FailedInv'
    BY <1>1, <1>2 DEF PatchInv, FailedInv, ClearPatchAction, Idle, repo
  <1>9. CommittedOnce'
    BY <1>2 DEF PatchInv, CommittedOnce
  <1>10. QED
    BY <1>3, <1>4, <1>5, <1>6, <1>7, <1>8, <1>9 DEF PatchInv

LEMMA CrashInv ==
  ASSUME PatchConstants, PatchInv, Crash
  PROVE  PatchInv'
  <1>1. log' = log
    BY DEF Crash, repo
  <1>2. /\ \A kind, d : Commits(kind, d)' = Commits(kind, d)
        /\ \A d : /\ Stands(d)' = Stands(d)
                  /\ \A kind : Uncommitted(kind, d)' = Uncommitted(kind, d)
    BY <1>1, NotCommitting
  <1>3. PatchTypes'
    BY <1>1, <1>2 DEF PatchInv, PatchTypes, Busy, PatchLabels, Crash, Idle, patchFiles,
       repo
  <1>4. BaseInv'
    BY <1>1, <1>2 DEF PatchInv, BaseInv, Crash, Idle, patchFiles, repo
  <1>5. QueueInv'
    BY <1>1, <1>2 DEF PatchInv, QueueInv, Busy, Crash, Idle, patchFiles, repo
  <1>6. HostInv'
    BY <1>1, <1>2 DEF PatchInv, HostInv, Crash, Idle, patchFiles, repo
  <1>7. WorktreeInv'
    BY <1>1, <1>2 DEF PatchInv, WorktreeInv, Crash, Idle, patchFiles, repo
  <1>8. FailedInv'
    BY <1>1, <1>2 DEF PatchInv, FailedInv, Crash, Idle, patchFiles, repo
  <1>9. CommittedOnce'
    BY <1>2 DEF PatchInv, CommittedOnce
  <1>10. QED
    BY <1>3, <1>4, <1>5, <1>6, <1>7, <1>8, <1>9 DEF PatchInv

\* The commit of a decision that was in no commit before.
LEMMA TestAndCommitInv ==
  ASSUME PatchConstants, PatchInv, TestAndCommit
  PROVE  PatchInv'
  <1>0. PICK d \in Proposals : d = patchHost.id
    BY DEF TestAndCommit, PatchInv, PatchTypes, Busy
  <1>1. /\ UNCHANGED <<db, callback, patches, manifest, served, patchHealthy>>
        /\ staged' = Unset
        /\ patchHost.pc = "test" /\ db[d].status = "approved"
        /\ db[d].result = Unset
        /\ Commits("fix", d) = {} /\ Commits("revert", d) = {}
        /\ Len(log) \in Nat
        /\ patchHost = [pc |-> "test", id |-> d, status |-> patchHost.status]
    BY <1>0 DEF TestAndCommit, PatchInv, HostInv, PatchTypes, Busy, QueueInv, Uncommitted,
       patchFiles
  <1>2. CASE log' = log /\ Finish("record", "failed_precommit")
    <2>1. patchHost' = [pc |-> "record", id |-> d, status |-> "failed_precommit"]
      BY <1>0, <1>1, <1>2 DEF Finish
    <2>2. /\ \A kind, p : Commits(kind, p)' = Commits(kind, p)
          /\ \A p : /\ Stands(p)' = Stands(p)
                   /\ \A kind : Uncommitted(kind, p)' = Uncommitted(kind, p)
      BY <1>2, NotCommitting
    <2>3. PatchTypes' /\ QueueInv'
      BY <1>1, <1>2, <2>1 DEF PatchInv, PatchTypes, QueueInv, Busy, PatchLabels, Outcomes
    <2>4. BaseInv' /\ FailedInv' /\ CommittedOnce'
      BY <1>1, <1>2, <2>2 DEF PatchInv, BaseInv, FailedInv, CommittedOnce
    <2>5. HostInv' /\ WorktreeInv'
      BY <1>1, <2>1, <2>2 DEF HostInv, WorktreeInv, Uncommitted
    <2>6. QED
      BY <2>3, <2>4, <2>5 DEF PatchInv
  <1>3. CASE log' = Append(log, [kind |-> "fix", id |-> d]) /\ At("deploy")
    <2>1. patchHost' = [pc |-> "deploy", id |-> d, status |-> patchHost.status]
      BY <1>1, <1>3 DEF At
    <2>2. /\ log' \in Seq([kind : {"fix", "revert"}, id : Proposals])
          /\ Len(log') = Len(log) + 1
          /\ Commits("fix", d)' = {Len(log) + 1} /\ Commits("revert", d)' = {}
          /\ \A kind, p : p # d => Commits(kind, p)' = Commits(kind, p)
      <3>1. /\ log' \in Seq([kind : {"fix", "revert"}, id : Proposals])
            /\ Len(log') = Len(log) + 1
            /\ Commits("fix", d)' = Commits("fix", d) \union {Len(log) + 1}
            /\ \A kind, p : kind # "fix" \/ p # d => Commits(kind, p)' = Commits(kind, p)
        BY <1>1, <1>3, Committing DEF PatchInv
      <3>2. QED
        BY <1>1, <3>1
    <2>3. PatchTypes'
      BY <1>1, <2>1, <2>2 DEF PatchInv, PatchTypes, Busy, PatchLabels
    <2>4. BaseInv'
      <3>1. ASSUME NEW p \in Proposals, p # d
            PROVE  /\ db[p]'.base <= Len(log)'
                   /\ \A kind \in {"fix", "revert"} :
                          \A i \in Commits(kind, p)' : db[p]'.base < i
                   /\ db[p]'.status \in {"none", "pending"} => Uncommitted("fix", p)'
                                                               /\ Uncommitted("revert", p)'
        BY <1>1, <2>2, <3>1 DEF PatchInv, PatchTypes, Rows, BaseInv, Uncommitted
      <3>2. db[d].base <= Len(log) /\ db[d].base \in Nat
        BY <1>1 DEF PatchInv, BaseInv, PatchTypes, Rows
      <3>3. /\ db[d]'.base <= Len(log)'
            /\ \A kind \in {"fix", "revert"} : \A i \in Commits(kind, d)' : db[d]'.base < i
            /\ db[d]'.status \notin {"none", "pending"}
        <4>1. Len(log)' = Len(log) + 1
          BY <2>2
        <4>2. ASSUME NEW kind \in {"fix", "revert"}, NEW i \in Commits(kind, d)'
              PROVE  db[d]'.base < i
          <5>1. i = Len(log) + 1
            BY <2>2, <4>2
          <5>2. QED
            BY <1>1, <3>2, <5>1
        <4>3. QED
          BY <1>1, <3>2, <4>1, <4>2
      <3>4. ASSUME NEW p \in Proposals
            PROVE  /\ db[p]'.base <= Len(log)'
                   /\ \A kind \in {"fix", "revert"} :
                          \A i \in Commits(kind, p)' : db[p]'.base < i
                   /\ db[p]'.status \in {"none", "pending"} => Uncommitted("fix", p)'
                                                               /\ Uncommitted("revert", p)'
        BY <3>1, <3>3
      <3>5. QED
        BY <3>4 DEF BaseInv
    <2>5. QueueInv'
      BY <1>1, <2>1 DEF PatchInv, QueueInv, Busy
    <2>6. HostInv' /\ WorktreeInv'
      BY <1>1, <2>1, <2>2 DEF HostInv, WorktreeInv, Stands
    <2>7. FailedInv'
      <3>1. ASSUME NEW p \in Proposals, db[p]'.result \in {"failed_precommit", "reverted"}
            PROVE  ~Stands(p)'
        <4>1. p # d
          BY <1>1, <3>1 DEF PatchConstants, Outcomes
        <4>2. Stands(p)' = Stands(p)
          BY <2>2, <4>1 DEF Stands
        <4>3. QED
          BY <1>1, <3>1, <4>2 DEF PatchInv, FailedInv
      <3>2. QED
        BY <3>1 DEF FailedInv
    <2>8. CommittedOnce'
      <3>1. ASSUME NEW p \in Proposals, p # d
            PROVE  \A i, j \in Commits("fix", p)' : i = j
        BY <2>2, <3>1 DEF PatchInv, CommittedOnce
      <3>2. \A i, j \in Commits("fix", d)' : i = j
        BY <2>2
      <3>3. QED
        BY <3>1, <3>2 DEF CommittedOnce
    <2>9. QED
      BY <2>3, <2>4, <2>5, <2>6, <2>7, <2>8 DEF PatchInv
  <1>4. QED
    BY <1>0, <1>2, <1>3 DEF TestAndCommit

\* A deployed image is the end of the log.
LEMMA DeployInv ==
  ASSUME PatchConstants, PatchInv, Deploy
  PROVE  PatchInv'
  <1> DEFINE d == patchHost.id
  <1>1. /\ UNCHANGED <<db, patches, manifest, log, staged>>
        /\ patchHost.pc = "deploy" /\ d \in Proposals /\ staged = Unset
        /\ Stands(d) /\ Len(log) \in Nat
        /\ patchHost = [pc |-> "deploy", id |-> d, status |-> patchHost.status]
        /\ patchHost.status \in Outcomes \union {Unset}
        /\ (callback' = callback \/ callback' = [p \in Proposals |-> "idle"])
        /\ (served' = served \/ served' = Len(log))
    BY DEF Deploy, PatchInv, HostInv, PatchTypes, Busy, WorktreeInv, repo
  <1>2. /\ \A kind, p : Commits(kind, p)' = Commits(kind, p)
        /\ \A p : /\ Stands(p)' = Stands(p)
                 /\ \A kind : Uncommitted(kind, p)' = Uncommitted(kind, p)
    BY <1>1, NotCommitting
  <1>3. \/ patchHost' = [pc |-> "revert", id |-> d, status |-> patchHost.status]
        \/ /\ patchHost' = [pc |-> "cleanup", id |-> d, status |-> "applied"]
           /\ patchHealthy' /\ served' = Len(log)
    BY <1>1 DEF Deploy, At, Finish
  <1>4. PatchTypes' /\ QueueInv'
    BY <1>1, <1>3 DEF PatchInv, PatchTypes, QueueInv, Busy, PatchLabels, Outcomes
  <1>5. BaseInv' /\ FailedInv' /\ CommittedOnce'
    BY <1>1, <1>2 DEF PatchInv, BaseInv, FailedInv, CommittedOnce
  <1>6. HostInv' /\ WorktreeInv'
    BY <1>1, <1>2, <1>3 DEF HostInv, WorktreeInv, PatchInv
  <1>7. QED
    BY <1>4, <1>5, <1>6 DEF PatchInv

\* A revert commit ends what stood, and starts nothing.
LEMMA RevertInv ==
  ASSUME PatchConstants, PatchInv, Revert
  PROVE  PatchInv'
  <1>0. PICK d \in Proposals : d = patchHost.id
    BY DEF Revert, PatchInv, PatchTypes, Busy
  <1>1. /\ UNCHANGED <<db, patches, manifest, staged>>
        /\ patchHost.pc = "revert" /\ staged = Unset
        /\ db[d].status \notin {"none", "pending"}
        /\ Len(log) \in Nat /\ log' = Append(log, [kind |-> "revert", id |-> d])
        /\ callback' = [p \in Proposals |-> "idle"]
        /\ (served' = served \/ served' = Len(log'))
        /\ patchHost = [pc |-> "revert", id |-> d, status |-> patchHost.status]
    BY <1>0 DEF Revert, PatchInv, HostInv, PatchTypes, Busy, WorktreeInv, QueueInv
  <1>2. \/ patchHost' = [pc |-> "record", id |-> d, status |-> "reverted"]
        \/ patchHost' = [pc |-> "rollback", id |-> d, status |-> "rollback_failed"]
    BY <1>0, <1>1 DEF Revert, Finish
  <1>3. /\ log' \in Seq([kind : {"fix", "revert"}, id : Proposals])
        /\ Len(log') = Len(log) + 1
        /\ Commits("revert", d)' = Commits("revert", d) \union {Len(log) + 1}
        /\ \A kind, p : kind # "revert" \/ p # d => Commits(kind, p)' = Commits(kind, p)
    <2>1. log' = Append(log, [kind |-> "revert", id |-> d])
      BY <1>1
    <2>2. QED
      BY <1>1, <2>1, Committing DEF PatchInv
  <1>4. /\ Commits("revert", d)' # {}
        /\ \A p : Commits("fix", p)' = Commits("fix", p)
        /\ \A p : Stands(p)' => Stands(p)
    <2>1. Commits("revert", d)' # {} /\ ~Stands(d)'
      BY <1>3 DEF Stands
    <2>2. \A p : Commits("fix", p)' = Commits("fix", p)
      BY <1>3
    <2>3. ASSUME NEW p, p # d
          PROVE  Stands(p)' => Stands(p)
      <3>1. /\ Commits("revert", p)' = Commits("revert", p)
            /\ Commits("fix", p)' = Commits("fix", p)
        BY <1>3, <2>3
      <3>2. QED
        BY <3>1 DEF Stands
    <2>4. \A p : Stands(p)' => Stands(p)
      BY <2>1, <2>3
    <2>5. QED
      BY <2>1, <2>2, <2>4
  <1>5. PatchTypes'
    BY <1>1, <1>2, <1>3 DEF PatchInv, PatchTypes, Busy, PatchLabels, Outcomes
  <1>6. BaseInv'
    <2>1. ASSUME NEW p \in Proposals
          PROVE  /\ db[p]'.base <= Len(log)'
                 /\ \A i \in Commits("fix", p)' : db[p]'.base < i
                 /\ \A i \in Commits("revert", p)' : db[p]'.base < i
                 /\ db[p]'.status \in {"none", "pending"} => Uncommitted("fix", p)'
                                                             /\ Uncommitted("revert", p)'
      <3>1. /\ db[p].base \in Nat /\ db[p].base <= Len(log)
            /\ \A i \in Commits("fix", p) : db[p].base < i
            /\ \A i \in Commits("revert", p) : db[p].base < i
        BY <1>1 DEF PatchInv, PatchTypes, Rows, BaseInv
      <3>2. db[p]' = db[p] /\ Len(log)' = Len(log) + 1
        BY <1>1, <1>3
      <3>3. ASSUME NEW i \in Commits("revert", p)'
            PROVE  db[p].base < i
        <4>1. i \in Commits("revert", p) \/ i = Len(log) + 1
          BY <1>3, <3>3
        <4>2. QED
          BY <1>1, <3>1, <4>1
      <3>4. db[p].status \in {"none", "pending"} =>
                Uncommitted("fix", p)' /\ Uncommitted("revert", p)'
        <4>1. CASE db[p].status \in {"none", "pending"}
          <5>1. p # d
            BY <1>1, <4>1
          <5>2. /\ Commits("fix", p)' = Commits("fix", p)
                /\ Commits("revert", p)' = Commits("revert", p)
            BY <1>3, <5>1
          <5>3. QED
            BY <4>1, <5>2 DEF PatchInv, BaseInv, Uncommitted
        <4>2. QED
          BY <4>1
      <3>5. QED
        BY <3>1, <3>2, <3>3, <3>4, <1>1, <1>4
    <2>2. QED
      BY <2>1 DEF BaseInv
  <1>7. QueueInv'
    BY <1>1, <1>2 DEF PatchInv, QueueInv, Busy
  <1>8. HostInv' /\ WorktreeInv'
    BY <1>1, <1>2, <1>4 DEF HostInv, WorktreeInv, Uncommitted
  <1>9. FailedInv' /\ CommittedOnce'
    BY <1>1, <1>4 DEF PatchInv, FailedInv, CommittedOnce
  <1>10. QED
    BY <1>5, <1>6, <1>7, <1>8, <1>9 DEF PatchInv
----------------------------------------------------------------------------
\* Only TestAndCommit makes a patch stand, of the decision the host holds.
LEMMA StandingStep ==
  ASSUME PatchConstants, PatchInv, PatchNext
  PROVE  OnlyApprovedStep
  <1>1. CASE log' = log
    BY <1>1, NotCommitting DEF OnlyApprovedStep
  <1>2. CASE TestAndCommit /\ log' # log
    <2>1. PICK d \in Proposals : d = patchHost.id
      BY <1>2 DEF TestAndCommit, PatchInv, PatchTypes, Busy
    <2>2. /\ db[d].status = "approved"
          /\ log' = Append(log, [kind |-> "fix", id |-> d])
      BY <1>2, <2>1 DEF TestAndCommit, PatchInv, HostInv
    <2>3. \A kind, p : p # d => Commits(kind, p)' = Commits(kind, p)
      BY <2>2, Committing DEF PatchInv
    <2>4. QED
      BY <2>2, <2>3 DEF OnlyApprovedStep, Stands
  <1>3. CASE Revert
    <2>1. PICK d \in Proposals : d = patchHost.id
      BY <1>3 DEF Revert, PatchInv, PatchTypes, Busy
    <2>2. log' = Append(log, [kind |-> "revert", id |-> d])
      BY <1>3, <2>1 DEF Revert
    <2>3. /\ Commits("revert", d)' = Commits("revert", d) \union {Len(log) + 1}
          /\ \A kind, p : kind # "revert" \/ p # d => Commits(kind, p)' = Commits(kind, p)
      BY <2>2, Committing DEF PatchInv
    <2>4. ASSUME NEW p \in Proposals, Stands(p)'
          PROVE  Stands(p)
      <3>1. p # d
        BY <2>3, <2>4 DEF Stands
      <3>2. QED
        BY <2>3, <2>4, <3>1 DEF Stands
    <2>5. QED
      BY <2>4 DEF OnlyApprovedStep
  <1>4. log' = log \/ TestAndCommit \/ Revert
    BY DEF PatchNext, Step, Queue, Propose, Approve, QueuePatch, QueueManifest,
       QueuePatchAction, ClaimPatch, Copy, Check, Apply, Deploy, Cleanup, Record,
       RecordRollbackFailed, ClearPatchAction, Crash, repo
  <1>5. QED
    BY <1>1, <1>2, <1>3, <1>4

\* Only Record applies a decision, and the host holds the outcome of its deploy.
LEMMA ApplyingStep ==
  ASSUME PatchConstants, PatchInv, PatchNext
  PROVE  AppliedWhenServedStep
  <1>1. SUFFICES ASSUME NEW p \in Proposals, db'[p].status = "applied",
                        db[p].status # "applied"
                 PROVE  Stands(p) /\ patchHealthy /\ served = Len(log)
    BY DEF AppliedWhenServedStep
  <1>2. db \in [Proposals -> Rows]
    BY DEF PatchInv, PatchTypes
  <1>3. ASSUME NEW e \in Proposals, Propose(e) \/ Approve(e)
        PROVE  FALSE
    BY <1>1, <1>2, <1>3 DEF Propose, Approve, Rows
  <1>4. CASE RecordRollbackFailed
    BY <1>1, <1>2, <1>4 DEF RecordRollbackFailed, Recorded, DbStatus, Rows
  <1>5. CASE Record
    <2>1. PICK d \in Proposals : d = patchHost.id
      BY <1>5 DEF Record, PatchInv, PatchTypes, Busy
    <2>2. /\ patchHost.pc = "record"
          /\ db' = [db EXCEPT ![d].status = DbStatus(patchHost.status),
                              ![d].result = patchHost.status]
      BY <1>1, <1>5, <2>1 DEF Record, Recorded
    <2>3. p = d
      BY <1>1, <1>2, <2>2
    <2>4. db'[d].status = DbStatus(patchHost.status)
      BY <1>2, <2>2 DEF Rows
    <2>5. patchHost.status = "applied"
      BY <1>1, <2>3, <2>4 DEF DbStatus
    <2>6. QED
      BY <2>1, <2>2, <2>3, <2>5 DEF PatchInv, HostInv
  <1>6. db' = db \/ Record \/ RecordRollbackFailed
            \/ \E e \in Proposals : Propose(e) \/ Approve(e)
    BY DEF PatchNext, Step, Queue, QueuePatch, QueueManifest, QueuePatchAction, ClaimPatch,
       Copy, Check, Apply, TestAndCommit, Deploy, Cleanup, Revert, ClearPatchAction, Crash
  <1>7. QED
    BY <1>1, <1>3, <1>4, <1>5, <1>6

\* A patch is committed once and only while it is approved, is gone when it failed,
\* and is in the healthy running image when it is recorded as applied
\* (PatchIsExact), whatever the host's deaths and the answers that are lost.
THEOREM PatchIsExactHolds ==
  ASSUME PatchConstants
  PROVE  PatchSpec => PatchIsExact
  <1>1. PatchInit => PatchInv
    BY PatchInitInv
  <1>2. PatchInv /\ [PatchNext]_patchVars => PatchInv'
    <2> SUFFICES ASSUME PatchInv, [PatchNext]_patchVars PROVE PatchInv'
      OBVIOUS
    <2>1. CASE UNCHANGED patchVars
      <3>1. /\ \A kind, d : Commits(kind, d)' = Commits(kind, d)
            /\ \A d : /\ Stands(d)' = Stands(d)
                      /\ \A kind : Uncommitted(kind, d)' = Uncommitted(kind, d)
        BY <2>1, NotCommitting DEF patchVars
      <3>2. QED
        BY <2>1, <3>1 DEF patchVars, PatchInv, PatchTypes, BaseInv, QueueInv, HostInv,
           WorktreeInv, FailedInv, CommittedOnce, Busy
    <2>2. QED
      BY <2>1, ProposeInv, ApproveInv, QueuePatchInv, QueueManifestInv, QueuePatchActionInv,
         ClaimPatchInv, CopyInv, CheckInv, ApplyInv, TestAndCommitInv, DeployInv,
         CleanupInv, RecordInv, RevertInv, RecordRollbackFailedInv, ClearPatchActionInv, CrashInv
      DEF PatchNext, Step, Queue
  <1>3. PatchInv => PatchTypeOK /\ CommittedOnce /\ FailedLeavesNothing
    BY DEF PatchInv, PatchTypes, Rows, DbStatuses, FailedInv, WorktreeInv, PatchTypeOK,
       FailedLeavesNothing, PatchConstants
  <1>4. PatchInv /\ [PatchNext]_patchVars =>
            [OnlyApprovedStep]_patchVars /\ [AppliedWhenServedStep]_patchVars
    BY StandingStep, ApplyingStep
  <1>5. QED
    BY <1>1, <1>2, <1>3, <1>4, PTL DEF PatchSpec, PatchIsExact, OnlyApproved,
       AppliedWhenServed

----------------------------------------------------------------------------
(* Worker recovery.                                                        *)
\* Backoffs and bounds are numbers; the clock starts at 1.
RecoveryConstants ==
    /\ MaxTime \in Nat \ {0} /\ MaxFaults \in Nat
    /\ Backoff1 \in Nat /\ Backoff2 \in Nat /\ Backoff3 \in Nat

RepairStatuses == {"none", "claimed", "skipped", "failed", "verified",
             "started_pending_verification"}
Repairs == [attempts : 0 .. MAX_ATTEMPTS, status : RepairStatuses, last : Nat, next : Nat,
            ver : Nat]
Observations == [status : {"none", "healthy", "degraded"}, valid : Nat, checked : Nat]
WorkerStates == [up : BOOLEAN, thread : {"none", "alive", "dead"}, stop : BOOLEAN,
                 result : Nat]
MonRec(m) == m = [pc |-> m.pc, view |-> m.view, seen |-> m.seen]
\* The labels at which a monitor holds the document it read or wrote.
Holding == {"verify", "claim", "recheck", "start", "record"}
\* The monitors whose claim has not been followed by a start.
Starting == {p \in Procs : mon[p].pc \in {"recheck", "start"}}

RecoveryTypes ==
    /\ now \in 1 .. MaxTime /\ faults \in 0 .. MaxFaults
    /\ proc \in [Procs -> WorkerStates]
    /\ mon = [p \in Procs |-> mon[p]]
    /\ \A p \in Procs : MonRec(mon[p])
    /\ repair \in Repairs /\ organ \in Observations
    /\ starts \in Nat /\ worked \in 0 .. now /\ replaced \in BOOLEAN

\* A process that is down has no worker and no monitor.
UpInv ==
    \A p \in Procs : ~proc[p].up => proc[p] = Down /\ mon[p].pc = "idle"

\* Nothing that is observed is newer than the last result of any worker.
ObservedInv ==
    /\ organ.valid <= worked
    /\ \A p \in Procs : proc[p].result <= worked
    /\ \A p \in Procs : mon[p].pc = "publish" =>
           mon[p].view \in Observations /\ mon[p].view.valid <= worked

\* What a monitor holds is the document as long as its version is the same.
HeldInv ==
    \A p \in Procs : mon[p].pc \in Holding =>
        /\ mon[p].seen \in Repairs /\ mon[p].seen.last <= now
        /\ ~replaced =>
               /\ mon[p].seen.ver <= repair.ver
               /\ mon[p].seen.ver = repair.ver => mon[p].seen = repair

\* What a monitor found when it decided for its next step.
DecidedInv ==
    \A p \in Procs :
        /\ mon[p].pc = "verify" => mon[p].seen.last < worked
        /\ mon[p].pc = "claim" =>
               /\ mon[p].view \in Nat /\ mon[p].view <= now
               /\ mon[p].seen.attempts < MAX_ATTEMPTS /\ mon[p].seen.next <= mon[p].view
        /\ mon[p].pc = "record" =>
               mon[p].view \in {"skipped", "failed", "started_pending_verification"}

\* Every start, and every monitor on its way to one, has an attempt of its own.
CountInv ==
    ~replaced => IsFiniteSet(Starting) /\ Cardinality(Starting) + starts <= repair.attempts

RecoveryInv ==
    /\ RecoveryTypes /\ UpInv /\ ObservedInv /\ HeldInv /\ DecidedInv /\ CountInv
    /\ repair.last <= now /\ VerifiedWorked

----------------------------------------------------------------------------

\* Fewer monitors on their way to a start need fewer attempts.
LEMMA Shrinks ==
  ASSUME RecoveryInv, Starting' \subseteq Starting, starts' = starts, replaced' = replaced,
         ~replaced => repair'.attempts = repair.attempts
  PROVE  CountInv'
  <1> SUFFICES ASSUME ~replaced PROVE CountInv'
    BY DEF CountInv
  <1>1. IsFiniteSet(Starting) /\ Cardinality(Starting) + starts <= repair.attempts
    BY DEF RecoveryInv, CountInv
  <1>2. IsFiniteSet(Starting') /\ Cardinality(Starting') <= Cardinality(Starting)
    BY <1>1, FS_Subset
  <1>3. Cardinality(Starting) \in Nat /\ Cardinality(Starting') \in Nat /\ starts \in Nat
        /\ repair.attempts \in Nat
    BY <1>1, <1>2, FS_CardinalityType DEF RecoveryInv, RecoveryTypes, Repairs, MAX_ATTEMPTS
  <1>4. QED
    BY <1>1, <1>2, <1>3 DEF CountInv

\* What PutStatus does to the document, given what the monitor holds.
LEMMA PutStatusFacts ==
  ASSUME RecoveryInv, NEW e \in Procs, mon[e].pc \in Holding, NEW s \in RepairStatuses,
         PutStatus(mon[e].seen, s)
  PROVE  /\ repair' \in Repairs /\ repair'.last <= now
         /\ ~replaced => /\ repair'.attempts = repair.attempts
                         /\ repair'.next = repair.next
                         /\ repair.ver <= repair'.ver
                         /\ repair'.ver = repair.ver => repair' = repair
         /\ repair' = repair \/ (repair'.status = s /\ repair'.last = mon[e].seen.last)
  <1>1. repair \in Repairs /\ repair.last <= now
    BY DEF RecoveryInv, RecoveryTypes
  <1>2. repair.ver \in Nat
    BY <1>1 DEF Repairs
  <1>3. CASE repair' = repair
    BY <1>1, <1>2, <1>3
  <1>4. CASE /\ repair' = [mon[e].seen EXCEPT !.status = s, !.ver = @ + 1]
             /\ repair.ver = mon[e].seen.ver
    <2>1. PICK c \in Repairs : c = mon[e].seen /\ c.last <= now
      BY DEF RecoveryInv, HeldInv
    <2>2. repair' = [attempts |-> c.attempts, status |-> s, last |-> c.last,
                     next |-> c.next, ver |-> c.ver + 1]
      BY <1>4, <2>1 DEF Repairs
    <2>3. repair' \in Repairs
      BY <2>1, <2>2 DEF Repairs
    <2>4. /\ repair'.attempts = c.attempts /\ repair'.last = c.last
          /\ repair'.next = c.next /\ repair'.status = s
          /\ repair'.ver = repair.ver + 1
      BY <1>4, <2>1, <2>2
    <2>5. ~replaced => c = repair
      BY <1>4, <2>1 DEF RecoveryInv, HeldInv
    <2>6. QED
      BY <1>2, <2>1, <2>3, <2>4, <2>5
  <1>5. QED
    BY <1>3, <1>4 DEF PutStatus

\* A monitor whose step is over holds nothing, and the document keeps its attempts.
LEMMA GoesQuiet ==
  ASSUME RecoveryInv, NEW e \in Procs, mon' = [mon EXCEPT ![e] = Quiet],
         UNCHANGED <<now, faults, proc, organ, starts, worked, replaced>>,
         repair' \in Repairs,
         ~replaced => /\ repair'.attempts = repair.attempts
                      /\ repair.ver <= repair'.ver
                      /\ repair'.ver = repair.ver => repair' = repair
  PROVE  /\ RecoveryTypes' /\ UpInv' /\ ObservedInv' /\ HeldInv' /\ DecidedInv' /\ CountInv'
  <1>1. /\ mon' = [p \in Procs |-> mon'[p]] /\ mon'[e] = Quiet
        /\ \A p \in Procs : p # e => mon'[p] = mon[p]
    BY DEF RecoveryInv, RecoveryTypes
  <1>2. Quiet.pc = "idle" /\ MonRec(Quiet)
    BY DEF Quiet, MonRec
  <1>3. RecoveryTypes'
    BY <1>1, <1>2 DEF RecoveryInv, RecoveryTypes, MonRec
  <1>4. UpInv' /\ ObservedInv'
    BY <1>1, <1>2 DEF RecoveryInv, UpInv, ObservedInv
  <1>5. HeldInv'
    <2>1. ASSUME NEW p \in Procs, p # e, mon[p].pc \in Holding, ~replaced
          PROVE  /\ mon[p].seen \in Repairs /\ mon[p].seen.ver <= repair'.ver
                 /\ mon[p].seen.ver = repair'.ver => mon[p].seen = repair'
      <3>1. /\ mon[p].seen \in Repairs /\ mon[p].seen.ver <= repair.ver
            /\ mon[p].seen.ver = repair.ver => mon[p].seen = repair
        BY <2>1 DEF RecoveryInv, HeldInv
      <3>2. mon[p].seen.ver \in Nat /\ repair.ver \in Nat /\ repair'.ver \in Nat
        BY <3>1 DEF RecoveryInv, RecoveryTypes, Repairs
      <3>3. QED
        BY <2>1, <3>1, <3>2
    <2>2. QED
      BY <1>1, <1>2, <2>1 DEF RecoveryInv, HeldInv, Holding
  <1>6. DecidedInv'
    BY <1>1, <1>2 DEF RecoveryInv, DecidedInv
  <1>7. CountInv'
    <2>1. Starting' \subseteq Starting
      BY <1>1, <1>2 DEF Starting
    <2>2. QED
      BY <2>1, Shrinks
  <1>8. QED
    BY <1>3, <1>4, <1>5, <1>6, <1>7

\* The worker and its process.
LEMMA BootInv ==
  ASSUME RecoveryConstants, RecoveryInv, NEW e \in Procs, Boot(e)
  PROVE  RecoveryInv'
  <1>1. RecoveryTypes'
    BY DEF RecoveryInv, RecoveryTypes, WorkerStates, Repairs, Observations, RepairStatuses,
       MonRec, Boot, Down
  <1>2. UpInv'
    BY DEF RecoveryInv, UpInv, Boot, Down
  <1>3. ObservedInv'
    BY DEF RecoveryInv, ObservedInv, RecoveryTypes, WorkerStates, Repairs, Observations,
       RepairStatuses, MonRec, Boot, Down
  <1>4. HeldInv'
    BY DEF RecoveryInv, HeldInv, Holding, Boot, Down
  <1>5. DecidedInv'
    BY DEF RecoveryInv, DecidedInv, Boot, Down
  <1>6. (repair.last <= now)' /\ VerifiedWorked'
    BY DEF RecoveryInv, VerifiedWorked, Boot, Down
  <1>7. Starting' \subseteq Starting
    BY DEF RecoveryInv, RecoveryTypes, Starting, Boot
  <1>8. CountInv'
    BY <1>7, Shrinks DEF Boot
  <1>9. QED
    BY <1>1, <1>2, <1>3, <1>4, <1>5, <1>6, <1>8 DEF RecoveryInv

\* A monitor that dies with its process holds nothing.
LEMMA ProcessDiesInv ==
  ASSUME RecoveryConstants, RecoveryInv, NEW e \in Procs, ProcessDies(e)
  PROVE  RecoveryInv'
  <1>1. RecoveryTypes'
    <2>1. Down \in WorkerStates /\ MonRec(Quiet)
      BY DEF Down, WorkerStates, Quiet, MonRec
    <2>2. proc' \in [Procs -> WorkerStates] /\ mon' = [p \in Procs |-> mon'[p]]
          /\ \A p \in Procs : mon'[p] = Quiet \/ mon'[p] = mon[p]
      BY <2>1 DEF ProcessDies, RecoveryInv, RecoveryTypes
    <2>3. faults' \in 0 .. MaxFaults
      BY DEF ProcessDies, RecoveryInv, RecoveryTypes, RecoveryConstants
    <2>4. \A p \in Procs : MonRec(mon'[p])
      BY <2>1, <2>2 DEF RecoveryInv, RecoveryTypes
    <2>5. QED
      BY <2>2, <2>3, <2>4 DEF ProcessDies, RecoveryInv, RecoveryTypes, MonRec
  <1>2. UpInv'
    BY DEF RecoveryInv, UpInv, RecoveryTypes, WorkerStates, Repairs, Observations,
       RepairStatuses,
       MonRec, ProcessDies, Down, Quiet
  <1>3. ObservedInv'
    BY DEF RecoveryInv, ObservedInv, RecoveryTypes, WorkerStates, Repairs, Observations,
       RepairStatuses, MonRec, ProcessDies, Down, Quiet
  <1>4. HeldInv'
    BY DEF RecoveryInv, HeldInv, Holding, ProcessDies, Down, Quiet
  <1>5. DecidedInv'
    BY DEF RecoveryInv, DecidedInv, ProcessDies, Down, Quiet
  <1>6. (repair.last <= now)' /\ VerifiedWorked'
    BY DEF RecoveryInv, VerifiedWorked, ProcessDies, Down, Quiet
  <1>7. Starting' \subseteq Starting
    BY DEF RecoveryInv, RecoveryTypes, Starting, ProcessDies, Quiet
  <1>8. CountInv'
    BY <1>7, Shrinks DEF ProcessDies
  <1>9. QED
    BY <1>1, <1>2, <1>3, <1>4, <1>5, <1>6, <1>8 DEF RecoveryInv

LEMMA ThreadEndsInv ==
  ASSUME RecoveryConstants, RecoveryInv, NEW e \in Procs, ThreadEnds(e)
  PROVE  RecoveryInv'
  <1>1. RecoveryTypes'
    BY DEF RecoveryInv, RecoveryTypes, WorkerStates, Repairs, Observations, RepairStatuses,
       MonRec, UpInv, ObservedInv, HeldInv, DecidedInv, Holding, RecoveryConstants,
       Down, Quiet, ThreadEnds
  <1>2. UpInv'
    <2>1. /\ proc \in [Procs -> WorkerStates] /\ proc[e].thread = "alive"
          /\ proc' = [proc EXCEPT ![e].thread = "dead"] /\ mon' = mon
      BY DEF ThreadEnds, RecoveryInv, RecoveryTypes
    <2>2. /\ proc'[e].up = proc[e].up
          /\ \A p \in Procs : p # e => proc'[p] = proc[p]
      BY <2>1 DEF WorkerStates
    <2>3. proc[e].up
      BY <2>1 DEF RecoveryInv, UpInv, Down
    <2>4. QED
      BY <2>1, <2>2, <2>3 DEF RecoveryInv, UpInv
  <1>3. ObservedInv'
    BY DEF RecoveryInv, ObservedInv, Observations, ThreadEnds
  <1>4. HeldInv'
    BY DEF RecoveryInv, HeldInv, Holding, ThreadEnds
  <1>5. DecidedInv'
    BY DEF RecoveryInv, DecidedInv, ThreadEnds
  <1>6. (repair.last <= now)' /\ VerifiedWorked'
    BY DEF RecoveryInv, VerifiedWorked, ThreadEnds
  <1>7. Starting' \subseteq Starting
    BY DEF RecoveryInv, RecoveryTypes, Starting, ThreadEnds
  <1>8. CountInv'
    BY <1>7, Shrinks DEF ThreadEnds
  <1>9. QED
    BY <1>1, <1>2, <1>3, <1>4, <1>5, <1>6, <1>8 DEF RecoveryInv

LEMMA StopWorkerInv ==
  ASSUME RecoveryConstants, RecoveryInv, NEW e \in Procs, StopWorker(e)
  PROVE  RecoveryInv'
  <1>1. RecoveryTypes'
    <2>1. proc \in [Procs -> WorkerStates] /\ proc' = [proc EXCEPT ![e].stop = TRUE]
      BY DEF StopWorker, RecoveryInv, RecoveryTypes
    <2>2. proc' \in [Procs -> WorkerStates]
      BY <2>1 DEF WorkerStates
    <2>3. faults' \in 0 .. MaxFaults
      BY DEF StopWorker, RecoveryInv, RecoveryTypes, RecoveryConstants
    <2>4. QED
      BY <2>2, <2>3 DEF StopWorker, RecoveryInv, RecoveryTypes, MonRec
  <1>2. UpInv'
    BY DEF RecoveryInv, UpInv, StopWorker
  <1>3. ObservedInv'
    BY DEF RecoveryInv, ObservedInv, Observations, StopWorker
  <1>4. HeldInv'
    BY DEF RecoveryInv, HeldInv, Holding, StopWorker
  <1>5. DecidedInv'
    BY DEF RecoveryInv, DecidedInv, StopWorker
  <1>6. (repair.last <= now)' /\ VerifiedWorked'
    BY DEF RecoveryInv, VerifiedWorked, StopWorker
  <1>7. Starting' \subseteq Starting
    BY DEF RecoveryInv, RecoveryTypes, Starting, StopWorker
  <1>8. CountInv'
    BY <1>7, Shrinks DEF StopWorker
  <1>9. QED
    BY <1>1, <1>2, <1>3, <1>4, <1>5, <1>6, <1>8 DEF RecoveryInv

LEMMA WorkerResultInv ==
  ASSUME RecoveryConstants, RecoveryInv, NEW e \in Procs, WorkerResult(e)
  PROVE  RecoveryInv'
  <1>1. RecoveryTypes'
    BY DEF RecoveryInv, RecoveryTypes, WorkerStates, Repairs, Observations, RepairStatuses,
       MonRec, WorkerResult
  <1>2. UpInv'
    <2>1. /\ proc \in [Procs -> WorkerStates] /\ proc[e].thread = "alive"
          /\ proc' = [proc EXCEPT ![e].result = now] /\ mon' = mon
      BY DEF WorkerResult, RecoveryInv, RecoveryTypes
    <2>2. /\ proc'[e].up = proc[e].up
          /\ \A p \in Procs : p # e => proc'[p] = proc[p]
      BY <2>1 DEF WorkerStates
    <2>3. proc[e].up
      BY <2>1 DEF RecoveryInv, UpInv, Down
    <2>4. QED
      BY <2>1, <2>2, <2>3 DEF RecoveryInv, UpInv
  <1>3. ObservedInv'
    BY DEF RecoveryInv, ObservedInv, RecoveryTypes, WorkerStates, Repairs, Observations,
       RepairStatuses, MonRec, WorkerResult
  <1>4. HeldInv'
    BY DEF RecoveryInv, HeldInv, Holding, WorkerResult
  <1>5. DecidedInv'
    BY DEF RecoveryInv, RecoveryTypes, WorkerStates, Repairs, Observations, RepairStatuses,
       MonRec, UpInv, ObservedInv, HeldInv, DecidedInv, Holding, RecoveryConstants,
       Down, Quiet, WorkerResult
  <1>6. (repair.last <= now)' /\ VerifiedWorked'
    BY DEF RecoveryInv, VerifiedWorked, RecoveryTypes, WorkerStates, Repairs, Observations,
       RepairStatuses, MonRec, WorkerResult
  <1>7. Starting' \subseteq Starting
    BY DEF RecoveryInv, RecoveryTypes, Starting, WorkerResult
  <1>8. CountInv'
    BY <1>7, Shrinks DEF WorkerResult
  <1>9. QED
    BY <1>1, <1>2, <1>3, <1>4, <1>5, <1>6, <1>8 DEF RecoveryInv

\* What is published was a result of the worker that was looked at.
LEMMA EvaluateInv ==
  ASSUME RecoveryConstants, RecoveryInv, NEW e \in Procs, Evaluate(e)
  PROVE  RecoveryInv'
  <1>1. RecoveryTypes'
    BY DEF RecoveryInv, RecoveryTypes, WorkerStates, Repairs, Observations, RepairStatuses,
       MonRec, Evaluate, Fresh
  <1>2. UpInv'
    BY DEF RecoveryInv, UpInv, Evaluate, Fresh
  <1>3. ObservedInv'
    BY DEF RecoveryInv, ObservedInv, RecoveryTypes, WorkerStates, Repairs, Observations,
       RepairStatuses, MonRec, Evaluate, Fresh
  <1>4. HeldInv'
    BY DEF RecoveryInv, HeldInv, Holding, Evaluate, Fresh
  <1>5. DecidedInv'
    BY DEF RecoveryInv, DecidedInv, Evaluate, Fresh
  <1>6. (repair.last <= now)' /\ VerifiedWorked'
    BY DEF RecoveryInv, VerifiedWorked, Evaluate, Fresh
  <1>7. Starting' \subseteq Starting
    BY DEF RecoveryInv, RecoveryTypes, Starting, Evaluate
  <1>8. CountInv'
    BY <1>7, Shrinks DEF Evaluate
  <1>9. QED
    BY <1>1, <1>2, <1>3, <1>4, <1>5, <1>6, <1>8 DEF RecoveryInv

LEMMA PublishInv ==
  ASSUME RecoveryConstants, RecoveryInv, NEW e \in Procs, Publish(e)
  PROVE  RecoveryInv'
  <1>1. RecoveryTypes'
    BY DEF RecoveryInv, RecoveryTypes, WorkerStates, Repairs, Observations, RepairStatuses,
       MonRec, UpInv, ObservedInv, HeldInv, DecidedInv, Holding, RecoveryConstants,
       Down, Quiet, Publish
  <1>2. UpInv'
    BY DEF RecoveryInv, UpInv, Publish, Quiet
  <1>3. ObservedInv'
    BY DEF RecoveryInv, ObservedInv, Observations, Publish, Quiet
  <1>4. HeldInv'
    BY DEF RecoveryInv, HeldInv, Holding, Publish, Quiet
  <1>5. DecidedInv'
    BY DEF RecoveryInv, DecidedInv, Publish, Quiet
  <1>6. (repair.last <= now)' /\ VerifiedWorked'
    BY DEF RecoveryInv, VerifiedWorked, Publish, Quiet
  <1>7. Starting' \subseteq Starting
    BY DEF RecoveryInv, RecoveryTypes, Starting, Publish, Quiet
  <1>8. CountInv'
    BY <1>7, Shrinks DEF Publish
  <1>9. QED
    BY <1>1, <1>2, <1>3, <1>4, <1>5, <1>6, <1>8 DEF RecoveryInv

\* The monitor decides on the document it reads.
LEMMA ObserveInv ==
  ASSUME RecoveryConstants, RecoveryInv, NEW e \in Procs, Observe(e)
  PROVE  RecoveryInv'
  <1>1. RecoveryTypes'
    BY DEF RecoveryInv, RecoveryTypes, WorkerStates, Repairs, Observations, RepairStatuses,
       MonRec, Observe, Quiet, Verifies, MayAttempt, MAX_ATTEMPTS
  <1>2. UpInv'
    BY DEF RecoveryInv, UpInv, Observe, Quiet, Verifies, MayAttempt, MAX_ATTEMPTS
  <1>3. ObservedInv'
    BY DEF RecoveryInv, ObservedInv, Observations, Observe, Quiet, Verifies, MayAttempt,
       MAX_ATTEMPTS
  <1>4. HeldInv'
    BY DEF RecoveryInv, HeldInv, RecoveryTypes, WorkerStates, Repairs, Observations,
       RepairStatuses, MonRec, Holding, Observe, Quiet, Verifies, MayAttempt, MAX_ATTEMPTS
  <1>5. DecidedInv'
    <2>1. /\ UNCHANGED <<now, worked, repair>>
          /\ \A p \in Procs : p # e => mon'[p] = mon[p]
          /\ \/ mon'[e] = Quiet
             \/ /\ Verifies(repair)
                /\ mon'[e] = [Quiet EXCEPT !.pc = "verify", !.seen = repair]
             \/ /\ MayAttempt(repair)
                /\ mon'[e] = [pc |-> "claim", seen |-> repair, view |-> now]
      BY DEF Observe, RecoveryInv, RecoveryTypes
    <2>2. CASE mon'[e] = Quiet
      BY <2>1, <2>2 DEF RecoveryInv, DecidedInv, Quiet
    <2>3. CASE Verifies(repair) /\ mon'[e] = [Quiet EXCEPT !.pc = "verify", !.seen = repair]
      <3>1. mon'[e] = [pc |-> "verify", view |-> <<>>, seen |-> repair]
        BY <2>3 DEF Quiet
      <3>2. repair.last < worked
        BY <2>3 DEF Verifies, RecoveryInv, RecoveryTypes, ObservedInv, Observations, Repairs
      <3>3. QED
        BY <2>1, <3>1, <3>2 DEF RecoveryInv, DecidedInv
    <2>4. CASE MayAttempt(repair)
               /\ mon'[e] = [pc |-> "claim", seen |-> repair, view |-> now]
      <3>1. /\ now \in Nat /\ repair.attempts < MAX_ATTEMPTS /\ repair.next <= now
        BY <2>4 DEF MayAttempt, RecoveryInv, RecoveryTypes, RecoveryConstants, Repairs
      <3>2. QED
        BY <2>1, <2>4, <3>1 DEF RecoveryInv, DecidedInv
    <2>5. QED
      BY <2>1, <2>2, <2>3, <2>4
  <1>6. (repair.last <= now)' /\ VerifiedWorked'
    BY DEF RecoveryInv, VerifiedWorked, Observe, Quiet, Verifies, MayAttempt,
       MAX_ATTEMPTS
  <1>7. Starting' \subseteq Starting
    BY DEF RecoveryInv, RecoveryTypes, Starting, Observe, Quiet
  <1>8. CountInv'
    BY <1>7, Shrinks DEF Observe
  <1>9. QED
    BY <1>1, <1>2, <1>3, <1>4, <1>5, <1>6, <1>8 DEF RecoveryInv

LEMMA ResourceGuardInv ==
  ASSUME RecoveryConstants, RecoveryInv, NEW e \in Procs, ResourceGuard(e)
  PROVE  RecoveryInv'
  <1>1. RecoveryTypes'
    BY DEF RecoveryInv, RecoveryTypes, WorkerStates, Repairs, Observations, RepairStatuses,
       MonRec, ResourceGuard, Quiet
  <1>2. UpInv'
    BY DEF RecoveryInv, UpInv, ResourceGuard, Quiet
  <1>3. ObservedInv'
    BY DEF RecoveryInv, ObservedInv, Observations, ResourceGuard, Quiet
  <1>4. HeldInv'
    BY DEF RecoveryInv, HeldInv, Holding, ResourceGuard, Quiet
  <1>5. DecidedInv'
    BY DEF RecoveryInv, DecidedInv, ResourceGuard, Quiet
  <1>6. (repair.last <= now)' /\ VerifiedWorked'
    BY DEF RecoveryInv, VerifiedWorked, ResourceGuard, Quiet
  <1>7. Starting' \subseteq Starting
    BY DEF RecoveryInv, RecoveryTypes, Starting, ResourceGuard, Quiet
  <1>8. CountInv'
    BY <1>7, Shrinks DEF ResourceGuard
  <1>9. QED
    BY <1>1, <1>2, <1>3, <1>4, <1>5, <1>6, <1>8 DEF RecoveryInv

LEMMA RecheckInv ==
  ASSUME RecoveryConstants, RecoveryInv, NEW e \in Procs, Recheck(e)
  PROVE  RecoveryInv'
  <1>1. RecoveryTypes'
    BY DEF RecoveryInv, RecoveryTypes, WorkerStates, Repairs, Observations, RepairStatuses,
       MonRec, Recheck
  <1>2. UpInv'
    BY DEF RecoveryInv, UpInv, Recheck
  <1>3. ObservedInv'
    BY DEF RecoveryInv, ObservedInv, Observations, Recheck
  <1>4. HeldInv'
    BY DEF RecoveryInv, HeldInv, Holding, Recheck
  <1>5. DecidedInv'
    BY DEF RecoveryInv, DecidedInv, Recheck
  <1>6. (repair.last <= now)' /\ VerifiedWorked'
    BY DEF RecoveryInv, VerifiedWorked, Recheck
  <1>7. Starting' \subseteq Starting
    BY DEF RecoveryInv, RecoveryTypes, Starting, Recheck
  <1>8. CountInv'
    BY <1>7, Shrinks DEF Recheck
  <1>9. QED
    BY <1>1, <1>2, <1>3, <1>4, <1>5, <1>6, <1>8 DEF RecoveryInv

\* The claim that is stored is of the document that was read: one attempt more.
LEMMA ClaimAttemptInv ==
  ASSUME RecoveryConstants, RecoveryInv, NEW e \in Procs, ClaimAttempt(e)
  PROVE  RecoveryInv' /\ ClaimsBackOffStep
  <1>1. /\ UNCHANGED <<now, faults, proc, organ, starts, worked>> /\ mon[e].pc = "claim"
        /\ repair \in Repairs /\ repair.ver \in Nat /\ repair.attempts \in 0 .. 3
        /\ now \in Nat
    BY DEF ClaimAttempt, RecoveryInv, RecoveryTypes, RecoveryConstants, Repairs,
       MAX_ATTEMPTS
  <1>2. CASE UNCHANGED <<repair, replaced>> /\ mon' = [mon EXCEPT ![e] = Quiet]
    <2>1. /\ repair' = repair /\ repair' \in Repairs /\ repair'.attempts = repair.attempts
          /\ repair.ver <= repair'.ver
      BY <1>1, <1>2
    <2>2. RecoveryTypes' /\ UpInv' /\ ObservedInv' /\ HeldInv' /\ DecidedInv' /\ CountInv'
      BY <1>1, <1>2, <2>1, GoesQuiet
    <2>3. QED
      BY <1>1, <1>2, <2>2 DEF RecoveryInv, VerifiedWorked, ClaimsBackOffStep
  <1>3. CASE /\ repair.ver = mon[e].seen.ver \/ FirstWritersMeet(mon[e].seen)
             /\ repair' = ClaimOf(mon[e].seen, mon[e].view)
             /\ replaced' = (replaced \/ FirstWritersMeet(mon[e].seen))
             /\ mon' = [mon EXCEPT ![e] = [Quiet EXCEPT !.pc = "recheck", !.seen = repair']]
    <2>1. PICK c \in Repairs :
              /\ c = mon[e].seen /\ c.last <= now /\ mon[e].view \in Nat
              /\ mon[e].view <= now /\ c.attempts < 3 /\ c.next <= mon[e].view
      BY <1>1 DEF RecoveryInv, HeldInv, DecidedInv, Holding, MAX_ATTEMPTS
    <2> c.attempts \in 0 .. 3 /\ c.ver \in Nat /\ c.next \in Nat
      BY DEF Repairs, MAX_ATTEMPTS
    <2>2. PICK n \in 1 .. 3 : n = c.attempts + 1
      BY <1>1, <2>1
    <2>3. BACKOFF[n] \in Nat
      BY DEF BACKOFF, RecoveryConstants
    <2>4. /\ repair' \in Repairs /\ repair'.attempts = c.attempts + 1
          /\ repair'.status = "claimed" /\ repair'.last = mon[e].view
          /\ repair'.ver = c.ver + 1 /\ c.next <= repair'.next
      BY <1>1, <1>3, <2>1, <2>2, <2>3 DEF ClaimOf, Repairs, RepairStatuses, MAX_ATTEMPTS
    <2>a. ~replaced' => ~replaced /\ ~FirstWritersMeet(mon[e].seen)
      BY <1>3, Zenon
    <2>b. replaced' \in BOOLEAN
      BY <1>3, Zenon DEF RecoveryInv, RecoveryTypes
    <2>c. ~replaced' => ~replaced /\ c = repair
      BY <1>1, <1>3, <2>1, <2>a DEF RecoveryInv, HeldInv, Holding
    <2>5. /\ mon'[e] = [pc |-> "recheck", view |-> <<>>, seen |-> repair']
          /\ mon' = [p \in Procs |-> mon'[p]]
          /\ \A p \in Procs : p # e => mon'[p] = mon[p]
      BY <1>3 DEF RecoveryInv, RecoveryTypes, Quiet
    <2>6. RecoveryTypes'
      BY <1>1, <2>4, <2>5, <2>b DEF RecoveryInv, RecoveryTypes, MonRec
    <2>7. UpInv' /\ ObservedInv'
      BY <1>1, <2>5 DEF RecoveryInv, UpInv, ObservedInv, Down
    <2>8. HeldInv'
      <3>1. ASSUME NEW p \in Procs, p # e, mon[p].pc \in Holding
            PROVE  /\ mon[p].seen \in Repairs /\ mon[p].seen.last <= now
                   /\ ~replaced' => mon[p].seen.ver < repair'.ver
        <4>1. /\ mon[p].seen \in Repairs /\ mon[p].seen.last <= now
              /\ ~replaced => mon[p].seen.ver <= repair.ver
          BY <3>1 DEF RecoveryInv, HeldInv
        <4>2. mon[p].seen.ver \in Nat
          BY <4>1 DEF Repairs
        <4>3. QED
          BY <1>1, <2>4, <2>c, <4>1, <4>2
      <3>2. ASSUME NEW p \in Procs, p # e, mon[p].pc \in Holding, ~replaced'
            PROVE  mon[p].seen.ver <= repair'.ver /\ mon[p].seen.ver # repair'.ver
        BY <3>1, <3>2, <2>4 DEF Repairs
      <3>3. repair'.ver <= repair'.ver /\ repair'.last <= now
        BY <2>1, <2>4
      <3>4. QED
        BY <1>1, <2>4, <2>5, <3>1, <3>2, <3>3 DEF HeldInv
    <2>9. DecidedInv'
      BY <1>1, <2>5 DEF RecoveryInv, DecidedInv
    <2>10. CountInv'
      <3> SUFFICES ASSUME ~replaced' PROVE CountInv'
        BY DEF CountInv
      <3>1. Starting' \subseteq Starting \union {e}
        BY <2>5 DEF Starting
      <3>2. IsFiniteSet(Starting) /\ Cardinality(Starting) + starts <= repair.attempts
        BY <2>c DEF RecoveryInv, CountInv
      <3>3. IsFiniteSet(Starting \union {e})
            /\ Cardinality(Starting \union {e}) <= Cardinality(Starting) + 1
        <4>1. Cardinality(Starting) \in Nat
          BY <3>2, FS_CardinalityType
        <4>2. IsFiniteSet(Starting \union {e})
              /\ Cardinality(Starting \union {e}) =
                     IF e \in Starting THEN Cardinality(Starting)
                                        ELSE Cardinality(Starting) + 1
          BY <3>2, FS_AddElement
        <4>3. QED
          BY <4>1, <4>2
      <3>4. IsFiniteSet(Starting')
            /\ Cardinality(Starting') <= Cardinality(Starting \union {e})
        BY <3>1, <3>3, FS_Subset
      <3>5. /\ Cardinality(Starting) \in Nat /\ Cardinality(Starting \union {e}) \in Nat
            /\ Cardinality(Starting') \in Nat /\ starts \in Nat
        BY <3>2, <3>3, <3>4, FS_CardinalityType DEF RecoveryInv, RecoveryTypes
      <3>6. QED
        BY <1>1, <2>4, <2>c, <3>2, <3>3, <3>4, <3>5 DEF CountInv
    <2>11. (repair.last <= now)' /\ VerifiedWorked' /\ ClaimsBackOffStep
      <3>1. (repair.last <= now)' /\ VerifiedWorked'
        BY <1>1, <2>1, <2>4 DEF VerifiedWorked
      <3>2. ClaimsBackOffStep
        BY <1>1, <2>1, <2>4, <2>c DEF ClaimsBackOffStep
      <3>3. QED
        BY <3>1, <3>2
    <2>12. QED
      BY <2>6, <2>7, <2>8, <2>9, <2>10, <2>11 DEF RecoveryInv
  <1>4. QED
    BY <1>2, <1>3 DEF ClaimAttempt

\* A start uses up the attempt of its monitor.
LEMMA StartInv ==
  ASSUME RecoveryConstants, RecoveryInv, NEW e \in Procs, Start(e)
  PROVE  RecoveryInv'
  <1>1. /\ UNCHANGED <<now, faults, repair, organ, worked, replaced>> /\ mon[e].pc = "start"
        /\ starts' = starts + 1
        /\ proc' = proc \/ proc' = [proc EXCEPT ![e].thread = "alive", ![e].stop = FALSE]
        /\ mon[e] = [pc |-> "start", view |-> mon[e].view, seen |-> mon[e].seen]
    BY DEF Start, RecoveryInv, RecoveryTypes, MonRec
  <1>2. PICK v \in {"failed", "started_pending_verification"} :
            mon' = [mon EXCEPT ![e] = [mon[e] EXCEPT !.pc = "record", !.view = v]]
    BY DEF Start
  <1>3. /\ mon'[e] = [pc |-> "record", view |-> v, seen |-> mon[e].seen]
        /\ mon' = [p \in Procs |-> mon'[p]]
        /\ \A p \in Procs : p # e => mon'[p] = mon[p]
    BY <1>1, <1>2 DEF RecoveryInv, RecoveryTypes
  <1>4. /\ proc' \in [Procs -> WorkerStates]
        /\ \A p \in Procs : proc'[p].up = proc[p].up /\ proc'[p].result = proc[p].result
        /\ \A p \in Procs : p # e => proc'[p] = proc[p]
    <2>1. proc \in [Procs -> WorkerStates]
      BY DEF RecoveryInv, RecoveryTypes
    <2>2. CASE proc' = proc
      BY <2>1, <2>2
    <2>3. CASE proc' = [proc EXCEPT ![e].thread = "alive", ![e].stop = FALSE]
      <3>1. proc'[e] = [up |-> proc[e].up, thread |-> "alive", stop |-> FALSE,
                        result |-> proc[e].result]
        BY <2>1, <2>3 DEF WorkerStates
      <3>2. \A p \in Procs : p # e => proc'[p] = proc[p]
        BY <2>1, <2>3
      <3>3. proc' = [p \in Procs |-> proc'[p]]
        BY <2>1, <2>3
      <3>4. \A p \in Procs : proc'[p] \in WorkerStates
        <4>1. \A p \in Procs : proc[p] \in WorkerStates
          BY <2>1
        <4>2. proc'[e] \in WorkerStates
          BY <3>1, <4>1 DEF WorkerStates
        <4>3. QED
          BY <3>2, <4>1, <4>2
      <3>5. QED
        BY <3>1, <3>2, <3>3, <3>4
    <2>4. QED
      BY <1>1, <2>2, <2>3
  <1>5. RecoveryTypes'
    BY <1>1, <1>3, <1>4 DEF RecoveryInv, RecoveryTypes, MonRec
  <1>6. UpInv' /\ ObservedInv'
    <2>1. proc[e].up
      BY <1>1 DEF RecoveryInv, UpInv
    <2>2. QED
      BY <1>1, <1>3, <1>4, <2>1 DEF RecoveryInv, UpInv, ObservedInv
  <1>7. HeldInv' /\ DecidedInv'
    BY <1>1, <1>3 DEF RecoveryInv, HeldInv, DecidedInv, Holding
  <1>8. CountInv'
    <2> SUFFICES ASSUME ~replaced PROVE CountInv'
      BY <1>1 DEF CountInv
    <2>1. Starting' = Starting \ {e} /\ e \in Starting
      BY <1>1, <1>3 DEF Starting
    <2>2. IsFiniteSet(Starting) /\ Cardinality(Starting) + starts <= repair.attempts
      BY DEF RecoveryInv, CountInv
    <2>3. IsFiniteSet(Starting') /\ Cardinality(Starting') = Cardinality(Starting) - 1
      BY <2>1, <2>2, FS_RemoveElement
    <2>4. Cardinality(Starting) \in Nat /\ starts \in Nat /\ repair.attempts \in Nat
      BY <2>2, FS_CardinalityType DEF RecoveryInv, RecoveryTypes, Repairs, MAX_ATTEMPTS
    <2>5. QED
      BY <1>1, <2>2, <2>3, <2>4 DEF CountInv
  <1>9. (repair.last <= now)' /\ VerifiedWorked'
    BY <1>1 DEF RecoveryInv, VerifiedWorked
  <1>10. QED
    BY <1>5, <1>6, <1>7, <1>8, <1>9 DEF RecoveryInv

\* The two puts of a new status.
LEMMA VerifyInv ==
  ASSUME RecoveryConstants, RecoveryInv, NEW e \in Procs, Verify(e)
  PROVE  RecoveryInv' /\ (~replaced' => repair'.attempts = repair.attempts)
  <1>1. /\ mon[e].pc = "verify" /\ mon' = [mon EXCEPT ![e] = Quiet]
        /\ UNCHANGED <<now, faults, proc, organ, starts, worked, replaced>>
        /\ mon[e].pc \in Holding /\ "verified" \in RepairStatuses
        /\ PutStatus(mon[e].seen, "verified")
    BY DEF Verify, Holding, RepairStatuses
  <1>2. /\ repair' \in Repairs /\ repair'.last <= now
        /\ ~replaced => /\ repair'.attempts = repair.attempts
                        /\ repair.ver <= repair'.ver
                        /\ repair'.ver = repair.ver => repair' = repair
        /\ repair' = repair \/ repair'.last = mon[e].seen.last
    BY <1>1, PutStatusFacts
  <1>3. RecoveryTypes' /\ UpInv' /\ ObservedInv' /\ HeldInv' /\ DecidedInv' /\ CountInv'
    BY <1>1, <1>2, GoesQuiet
  <1>4. (repair.last <= now)' /\ VerifiedWorked'
    BY <1>1, <1>2 DEF RecoveryInv, DecidedInv, VerifiedWorked
  <1>5. QED
    BY <1>1, <1>2, <1>3, <1>4 DEF RecoveryInv

LEMMA RecordStartInv ==
  ASSUME RecoveryConstants, RecoveryInv, NEW e \in Procs, RecordStart(e)
  PROVE  RecoveryInv' /\ (~replaced' => repair'.attempts = repair.attempts)
  <1>1. /\ mon[e].pc = "record" /\ mon' = [mon EXCEPT ![e] = Quiet]
        /\ UNCHANGED <<now, faults, proc, organ, starts, worked, replaced>>
        /\ PutStatus(mon[e].seen, mon[e].view)
    BY DEF RecordStart
  <1>2. /\ mon[e].pc \in Holding
        /\ mon[e].view \in RepairStatuses /\ mon[e].view # "verified"
    BY <1>1 DEF RecoveryInv, DecidedInv, Holding, RepairStatuses
  <1>3. /\ repair' \in Repairs /\ repair'.last <= now
        /\ ~replaced => /\ repair'.attempts = repair.attempts
                        /\ repair.ver <= repair'.ver
                        /\ repair'.ver = repair.ver => repair' = repair
        /\ repair' = repair \/ repair'.status = mon[e].view
    BY <1>1, <1>2, PutStatusFacts
  <1>4. RecoveryTypes' /\ UpInv' /\ ObservedInv' /\ HeldInv' /\ DecidedInv' /\ CountInv'
    BY <1>1, <1>3, GoesQuiet
  <1>5. (repair.last <= now)' /\ VerifiedWorked'
    BY <1>1, <1>2, <1>3 DEF RecoveryInv, VerifiedWorked
  <1>6. QED
    BY <1>1, <1>3, <1>4, <1>5 DEF RecoveryInv

\* Time passes.
LEMMA TickInv ==
  ASSUME RecoveryConstants, RecoveryInv, Tick
  PROVE  RecoveryInv'
  <1>1. RecoveryTypes' /\ UpInv'
    BY DEF RecoveryInv, RecoveryTypes, RecoveryConstants, UpInv, MonRec, Tick
  <1>2. ObservedInv'
    BY DEF RecoveryInv, ObservedInv, Tick
  <1>3. DecidedInv'
    BY DEF RecoveryInv, RecoveryTypes, RecoveryConstants, DecidedInv, Tick
  <1>4. (repair.last <= now)' /\ VerifiedWorked'
    BY DEF RecoveryInv, RecoveryTypes, RecoveryConstants, Repairs, VerifiedWorked, Tick
  <1>5. CountInv'
    BY Shrinks DEF Tick, Starting
  <1>6. HeldInv'
    <2>1. now \in Nat /\ now' = now + 1 /\ UNCHANGED <<mon, repair, replaced>>
      BY DEF RecoveryInv, RecoveryTypes, RecoveryConstants, Tick
    <2>2. ASSUME NEW p \in Procs, mon[p].pc \in Holding PROVE mon[p].seen.last <= now'
      <3>1. mon[p].seen \in Repairs /\ mon[p].seen.last <= now
        BY <2>2 DEF RecoveryInv, HeldInv
      <3>2. mon[p].seen.last \in Nat
        BY <3>1 DEF Repairs
      <3>3. QED
        BY <2>1, <3>1, <3>2
    <2>3. QED
      BY <2>1, <2>2 DEF RecoveryInv, HeldInv
  <1>7. QED
    BY <1>1, <1>2, <1>3, <1>4, <1>5, <1>6 DEF RecoveryInv

\* Nobody has claimed anything at first.
LEMMA RecoveryInitInv ==
  ASSUME RecoveryConstants, RecoveryInit
  PROVE  RecoveryInv
  <1>a. replaced \in BOOLEAN
    BY Zenon DEF RecoveryInit
  <1>1. RecoveryTypes
    BY <1>a DEF RecoveryInit, RecoveryConstants, RecoveryTypes, WorkerStates, Down, Quiet,
       MonRec,
       Repairs, RepairStatuses, Observations, MAX_ATTEMPTS
  <1>2. UpInv /\ ObservedInv /\ HeldInv /\ DecidedInv
    BY DEF RecoveryInit, UpInv, ObservedInv, HeldInv, DecidedInv, Holding, Down, Quiet
  <1>3. Starting = {}
    BY DEF RecoveryInit, Starting, Quiet
  <1>4. CountInv
    BY <1>3, FS_EmptySet DEF CountInv, RecoveryInit
  <1>5. QED
    BY <1>1, <1>2, <1>4 DEF RecoveryInv, RecoveryInit, VerifiedWorked

\* However many processes watch a worker and however they die, a verified attempt
\* has had a result since; and unless two first claims met, the worker is started
\* three times at most, each after the backoff of the claim before
\* (RecoveryIsBounded).
THEOREM RecoveryIsBoundedHolds ==
  ASSUME RecoveryConstants
  PROVE  RecoverySpec => RecoveryIsBounded
  <1>1. RecoveryInit => RecoveryInv
    BY RecoveryInitInv
  <1>2. RecoveryInv /\ [RecoveryNext]_recoveryVars => RecoveryInv'
    <2> SUFFICES ASSUME RecoveryInv, [RecoveryNext]_recoveryVars PROVE RecoveryInv'
      OBVIOUS
    <2>1. CASE UNCHANGED recoveryVars
      BY <2>1 DEF recoveryVars, RecoveryInv, RecoveryTypes, UpInv, ObservedInv, HeldInv,
         DecidedInv, CountInv, Starting, VerifiedWorked, MonRec
    <2>2. QED
      BY <2>1, TickInv, BootInv, ProcessDiesInv, ThreadEndsInv, StopWorkerInv,
         WorkerResultInv, EvaluateInv, PublishInv, ObserveInv, ResourceGuardInv, VerifyInv,
         ClaimAttemptInv, RecheckInv, StartInv, RecordStartInv DEF RecoveryNext
  <1>3. RecoveryInv => RecoveryTypeOK /\ StartsBounded /\ VerifiedWorked
    <2> SUFFICES ASSUME RecoveryInv PROVE RecoveryTypeOK /\ StartsBounded
      BY DEF RecoveryInv
    <2>1. RecoveryTypeOK
      BY DEF RecoveryInv, RecoveryTypes, UpInv, WorkerStates, Repairs, RepairStatuses,
         RecoveryTypeOK
    <2>2. ~replaced => Cardinality(Starting) \in Nat
      BY FS_CardinalityType DEF RecoveryInv, CountInv
    <2>3. StartsBounded
      BY <2>2 DEF RecoveryInv, CountInv, RecoveryTypes, Repairs, MAX_ATTEMPTS, StartsBounded
    <2>4. QED
      BY <2>1, <2>3
  <1>4. RecoveryInv /\ [RecoveryNext]_recoveryVars => [ClaimsBackOffStep]_recoveryVars
    <2> SUFFICES ASSUME RecoveryInv, RecoveryNext PROVE ClaimsBackOffStep
      OBVIOUS
    <2>1. ASSUME NEW e \in Procs, Verify(e) \/ RecordStart(e)
          PROVE  ClaimsBackOffStep
      BY <2>1, VerifyInv, RecordStartInv DEF ClaimsBackOffStep
    <2>2. CASE repair' = repair
      BY <2>2 DEF ClaimsBackOffStep
    <2>3. repair' = repair
              \/ \E e \in Procs : Verify(e) \/ RecordStart(e) \/ ClaimAttempt(e)
      BY DEF RecoveryNext, Tick, Boot, ProcessDies, ThreadEnds, StopWorker, WorkerResult,
         Evaluate, Publish, Observe, ResourceGuard, Recheck, Start
    <2>4. QED
      BY <2>1, <2>2, <2>3, ClaimAttemptInv
  <1>5. QED
    BY <1>1, <1>2, <1>3, <1>4, PTL DEF RecoverySpec, RecoveryIsBounded, ClaimsBackOff

----------------------------------------------------------------------------
(* Deployment from Telegram.                                               *)
Given == {Nothing} \union (1 .. tokens)
Written == {Nothing} \union (1 .. Len(requests))

DeployTypes ==
    /\ tokens \in Nat /\ tokens <= MaxRequests
    /\ requests \in Seq(1 .. tokens)
    /\ token \in Given /\ pendingRequest \in Written
    /\ status = [state |-> status.state, id |-> status.id, fresh |-> status.fresh]
    /\ status.id \in Written
    /\ watcher = [pc |-> watcher.pc, id |-> watcher.id]
    /\ thread \in [Threads ->
           [pc : {"free", "status", "close", "match", "unlink", "exists", "write",
                  "queued"},
            op : {Nothing, "prepare", "status", "confirm"}, id : Written, tok : Given]]
    /\ deployed \in [Ids -> Nat]

\* A handler has a token it has not used.
Holds(t) == thread[t].tok # Nothing /\ thread[t].pc # "queued"

\* The requests that were written with a token.
Used(n) == \E i \in 1 .. Len(requests) : requests[i] = n

TokenInv ==
    /\ TokenOnce
    /\ token # Nothing => ~Used(token)
    /\ \A t \in Threads :
           /\ thread[t].op = "confirm" => thread[t].tok # Nothing
           /\ thread[t].pc \in {"exists", "write"} => thread[t].op = "confirm"
           /\ Holds(t) => thread[t].tok # token /\ ~Used(thread[t].tok)
    /\ \A s, t \in Threads :
           Holds(s) /\ Holds(t) /\ thread[s].tok = thread[t].tok => s = t

WatcherInv ==
    /\ watcher.pc \in {"validate", "deploy", "remove"} => watcher.id \in 1 .. Len(requests)
    /\ SuccessIsTrue

DeployConstants == MaxRequests \in Nat /\ Nothing \notin Nat \union {"confirm"}

ControlInv == DeployTypes /\ TokenInv /\ WatcherInv
----------------------------------------------------------------------------
\* Before the first update nothing is given out, written or deployed.
LEMMA ControlInitInv == ASSUME DeployConstants, DeployInit PROVE ControlInv
  <1> USE DEF DeployConstants, DeployInit, NoStatus, Free, Resting
  <1>1. DeployTypes
    BY DEF DeployTypes, Given, Written
  <1>2. TokenInv
    BY DEF TokenInv, TokenOnce, Holds, Used
  <1>3. WatcherInv
    BY DEF WatcherInv, SuccessIsTrue
  <1>4. QED
    BY <1>1, <1>2, <1>3 DEF ControlInv

\* What a handler's step makes of its locals, with the others' unchanged.
Moves(t, pc, op, id, tok) ==
    thread' = [thread EXCEPT ![t] = [pc |-> pc, op |-> op, id |-> id, tok |-> tok]]

\* A handler that goes on without using a token keeps the tokens apart.
LEMMA GoesOn ==
  ASSUME DeployConstants, ControlInv, NEW t \in Threads,
         NEW pc \in {"free", "status", "close", "match", "unlink", "exists", "write"},
         NEW op \in {Nothing, "prepare", "status", "confirm"},
         NEW id \in Written, NEW tok \in {Nothing, thread[t].tok},
         Moves(t, pc, op, id, tok),
         thread[t].pc # "queued" \/ tok = Nothing,
         op = "confirm" => tok # Nothing,
         pc \in {"exists", "write"} => op = "confirm",
         pendingRequest' \in Written,
         UNCHANGED <<token, tokens, requests, deployed, status, watcher>>
  PROVE  ControlInv'
  <1> USE DEF DeployConstants, ControlInv, Moves
  <1>1. DeployTypes'
    BY DEF DeployTypes, Given, Written
  <1>2. TokenInv'
    BY DEF DeployTypes, TokenInv, Holds, Used, TokenOnce
  <1>3. WatcherInv'
    BY DEF WatcherInv, SuccessIsTrue
  <1>4. QED
    BY <1>1, <1>2, <1>3

\* A step that writes the status changes nothing else the invariant is about.
LEMMA StatusKeeps ==
  ASSUME DeployConstants, ControlInv, NEW state, NEW id \in Written,
         status' = [state |-> state, id |-> id, fresh |-> TRUE],
         state = "success" => id \in Ids /\ deployed'[id] > 0,
         deployed' \in [Ids -> Nat],
         pendingRequest' \in Written,
         watcher' = [pc |-> watcher'.pc, id |-> watcher'.id],
         watcher'.pc \in {"validate", "deploy", "remove"} => watcher'.id \in 1 .. Len(requests),
         UNCHANGED <<token, tokens, requests, thread>>
  PROVE  ControlInv'
  <1> USE DEF DeployConstants, ControlInv
  <1>1. DeployTypes'
    BY DEF DeployTypes, Given, Written
  <1>2. TokenInv'
    BY DEF TokenInv, Holds, Used, TokenOnce
  <1>3. WatcherInv'
    BY DEF WatcherInv, SuccessIsTrue
  <1>4. QED
    BY <1>1, <1>2, <1>3

\* Every request has a token of its own, so there are no more of them.
LEMMA RequestsBounded ==
  ASSUME DeployConstants, DeployTypes, TokenOnce
  PROVE  Len(requests) \in Nat /\ Len(requests) <= tokens
  <1> DEFINE S == 1 .. Len(requests)
             T == 1 .. tokens
  <1>1. Len(requests) \in Nat /\ tokens \in Nat /\ requests \in [S -> T]
    BY DEF DeployTypes
  <1>2. requests \in Injection(S, T)
    BY <1>1 DEF TokenOnce, Injection, IsInjective
  <1>3. IsFiniteSet(T) /\ Cardinality(T) = tokens
    BY <1>1, FS_Interval
  <1>4. Cardinality(S) = Len(requests)
    BY <1>1, FS_Interval
  <1>5. Cardinality(S) <= Cardinality(T)
    BY <1>2, <1>3, FS_Injection
  <1>6. QED
    BY <1>1, <1>3, <1>4, <1>5

\* A handler's locals with another label, or with another label and request.
LEMMA Locals ==
  ASSUME DeployTypes, NEW t \in Threads, NEW pc, NEW id
  PROVE  /\ [thread[t] EXCEPT !.pc = pc, !.id = id]
              = [pc |-> pc, op |-> thread[t].op, id |-> id, tok |-> thread[t].tok]
         /\ [thread[t] EXCEPT !.pc = pc]
              = [pc |-> pc, op |-> thread[t].op, id |-> thread[t].id,
                 tok |-> thread[t].tok]
  <1>1. ASSUME NEW r, NEW q, q = [r EXCEPT !.pc = pc, !.id = id],
               r = [pc |-> r.pc, op |-> r.op, id |-> r.id, tok |-> r.tok]
        PROVE  q = [pc |-> pc, op |-> r.op, id |-> id, tok |-> r.tok]
    BY <1>1, Zenon
  <1>2. ASSUME NEW r, NEW q, q = [r EXCEPT !.pc = pc],
               r = [pc |-> r.pc, op |-> r.op, id |-> r.id, tok |-> r.tok]
        PROVE  q = [pc |-> pc, op |-> r.op, id |-> r.id, tok |-> r.tok]
    BY <1>2, Zenon
  <1>3. thread[t] = [pc |-> thread[t].pc, op |-> thread[t].op, id |-> thread[t].id,
                     tok |-> thread[t].tok]
    BY DEF DeployTypes
  <1>4. QED
    BY <1>1, <1>2, <1>3, Zenon

\* Each step of a handler keeps the invariant.
LEMMA HandlerStep ==
  ASSUME DeployConstants, ControlInv, NEW t \in Threads, Handler(t)
  PROVE  ControlInv'
  <1> DeployTypes /\ TokenInv
    BY DEF ControlInv
  <1> DEFINE op == thread[t].op
             id == thread[t].id
             tok == thread[t].tok
  <1>0. /\ op \in {Nothing, "prepare", "status", "confirm"} /\ id \in Written
        /\ op = "confirm" => tok # Nothing
        /\ thread[t].pc \in {"exists", "write"} => op = "confirm"
        /\ Nothing \in Written /\ status.id \in Written /\ pendingRequest \in Written
    BY DEF DeployTypes, TokenInv, Written
  <1>1. CASE ReadStatus(t)
    <2>1. \/ Moves(t, "close", op, status.id, tok)
          \/ op = "confirm" /\ Moves(t, "exists", op, id, tok)
          \/ Moves(t, "free", Nothing, Nothing, Nothing)
      <3>1. \/ Go(t, [thread[t] EXCEPT !.pc = "close", !.id = status.id])
            \/ op = "confirm" /\ Go(t, [thread[t] EXCEPT !.pc = "exists"])
            \/ Go(t, Free)
        BY <1>1 DEF ReadStatus
      <3>2. /\ [thread[t] EXCEPT !.pc = "close", !.id = status.id]
                 = [pc |-> "close", op |-> op, id |-> status.id, tok |-> tok]
            /\ [thread[t] EXCEPT !.pc = "exists"]
                 = [pc |-> "exists", op |-> op, id |-> id, tok |-> tok]
        BY Locals, Zenon
      <3>3. QED
        BY <3>1, <3>2, Zenon DEF Go, Free, Moves
    <2>2. /\ thread[t].pc = "status" /\ pendingRequest' \in Written
          /\ UNCHANGED <<token, tokens, requests, deployed, status, watcher>>
      BY <1>0, <1>1 DEF ReadStatus
    <2>3. CASE Moves(t, "close", op, status.id, tok)
      BY <1>0, <2>2, <2>3, GoesOn
    <2>4. CASE op = "confirm" /\ Moves(t, "exists", op, id, tok)
      BY <1>0, <2>2, <2>4, GoesOn
    <2>5. CASE Moves(t, "free", Nothing, Nothing, Nothing)
      BY <1>0, <2>2, <2>5, GoesOn DEF DeployConstants
    <2>6. QED
      BY <2>1, <2>3, <2>4, <2>5
  <1>2. CASE MatchPending(t)
    <2>1. \/ Moves(t, "unlink", op, id, tok)
          \/ op = "confirm" /\ Moves(t, "exists", op, Nothing, tok)
          \/ Moves(t, "free", Nothing, Nothing, Nothing)
      <3>1. \/ Go(t, [thread[t] EXCEPT !.pc = "unlink"])
            \/ op = "confirm" /\ Go(t, [thread[t] EXCEPT !.pc = "exists", !.id = Nothing])
            \/ Go(t, Free)
        BY <1>2 DEF MatchPending
      <3>2. /\ [thread[t] EXCEPT !.pc = "unlink"]
                 = [pc |-> "unlink", op |-> op, id |-> id, tok |-> tok]
            /\ [thread[t] EXCEPT !.pc = "exists", !.id = Nothing]
                 = [pc |-> "exists", op |-> op, id |-> Nothing, tok |-> tok]
        BY Locals, Zenon
      <3>3. QED
        BY <3>1, <3>2, Zenon DEF Go, Free, Moves
    <2>2. /\ thread[t].pc = "match" /\ pendingRequest' \in Written
          /\ UNCHANGED <<token, tokens, requests, deployed, status, watcher>>
      BY <1>0, <1>2 DEF MatchPending
    <2>3. CASE Moves(t, "unlink", op, id, tok)
      BY <1>0, <2>2, <2>3, GoesOn
    <2>4. CASE op = "confirm" /\ Moves(t, "exists", op, Nothing, tok)
      BY <1>0, <2>2, <2>4, GoesOn
    <2>5. CASE Moves(t, "free", Nothing, Nothing, Nothing)
      BY <1>0, <2>2, <2>5, GoesOn DEF DeployConstants
    <2>6. QED
      BY <2>1, <2>3, <2>4, <2>5
  <1>3. CASE UnlinkPending(t)
    <2>1. \/ op = "confirm" /\ Moves(t, "exists", op, Nothing, tok)
          \/ Moves(t, "free", Nothing, Nothing, Nothing)
      <3>1. \/ op = "confirm" /\ Go(t, [thread[t] EXCEPT !.pc = "exists", !.id = Nothing])
            \/ Go(t, Free)
        BY <1>3 DEF UnlinkPending
      <3>2. [thread[t] EXCEPT !.pc = "exists", !.id = Nothing]
              = [pc |-> "exists", op |-> op, id |-> Nothing, tok |-> tok]
        BY Locals, Zenon
      <3>3. QED
        BY <3>1, <3>2, Zenon DEF Go, Free, Moves
    <2>2. /\ thread[t].pc = "unlink" /\ pendingRequest' \in Written
          /\ UNCHANGED <<token, tokens, requests, deployed, status, watcher>>
      BY <1>0, <1>3 DEF UnlinkPending
    <2>3. CASE op = "confirm" /\ Moves(t, "exists", op, Nothing, tok)
      BY <1>0, <2>2, <2>3, GoesOn
    <2>4. CASE Moves(t, "free", Nothing, Nothing, Nothing)
      BY <1>0, <2>2, <2>4, GoesOn DEF DeployConstants
    <2>5. QED
      BY <2>1, <2>3, <2>4
  <1>4. CASE CheckPending(t)
    <2>1. \/ Moves(t, "write", op, id, tok)
          \/ Moves(t, "free", Nothing, Nothing, Nothing)
      BY <1>4, Locals, Zenon DEF CheckPending, Go, Free, Moves
    <2>2. /\ thread[t].pc = "exists" /\ pendingRequest' \in Written
          /\ UNCHANGED <<token, tokens, requests, deployed, status, watcher>>
      BY <1>0, <1>4 DEF CheckPending
    <2>3. CASE Moves(t, "write", op, id, tok)
      BY <1>0, <2>2, <2>3, GoesOn
    <2>4. CASE Moves(t, "free", Nothing, Nothing, Nothing)
      BY <1>0, <2>2, <2>4, GoesOn DEF DeployConstants
    <2>5. QED
      BY <2>1, <2>3, <2>4
  <1>5. CASE CloseStatus(t)
    <2>1. Moves(t, "match", op, id, tok)
      BY <1>5, Locals, Zenon DEF CloseStatus, Go, Moves
    <2>2. /\ thread[t].pc = "close"
          /\ status' = [state |-> "timeout", id |-> id, fresh |-> TRUE]
          /\ UNCHANGED <<token, tokens, requests, deployed, pendingRequest, watcher>>
      BY <1>5 DEF CloseStatus
    <2> USE <1>0, <2>1, <2>2 DEF DeployConstants, ControlInv, Moves
    <2>3. DeployTypes'
      BY DEF DeployTypes, Given, Written
    <2>4. TokenInv'
      BY DEF DeployTypes, TokenInv, Holds, Used, TokenOnce
    <2>5. WatcherInv'
      BY DEF WatcherInv, SuccessIsTrue
    <2>6. QED
      BY <2>3, <2>4, <2>5
  <1>6. CASE WriteRequest(t)
    <2>1. Moves(t, "queued", op, Len(requests'), tok)
      <3>1. Go(t, [thread[t] EXCEPT !.pc = "queued", !.id = Len(requests')])
        BY <1>6 DEF WriteRequest
      <3>2. QED
        BY <3>1, Locals, Zenon DEF Go, Moves
    <2>2. /\ thread[t].pc = "write" /\ tok \in 1 .. tokens
          /\ requests' = Append(requests, tok) /\ pendingRequest' = Len(requests')
          /\ UNCHANGED <<token, tokens, deployed, status, watcher>>
      BY <1>0, <1>6 DEF WriteRequest, DeployTypes, Given
    <2>3. /\ requests' \in Seq(1 .. tokens) /\ Len(requests) \in Nat
          /\ Len(requests') = Len(requests) + 1
          /\ \A i \in 1 .. Len(requests) : requests'[i] = requests[i]
          /\ requests'[Len(requests')] = tok
      BY <2>2 DEF DeployTypes
    <2>4. Holds(t)
      BY <1>0, <2>2 DEF Holds
    <2> USE <1>0, <2>1, <2>2, <2>3, <2>4 DEF DeployConstants, ControlInv, Moves
    <2>5. DeployTypes'
      BY DEF DeployTypes, Given, Written
    <2>6. TokenOnce'
      BY DEF TokenInv, Used, TokenOnce
    <2>7. \A n : Used(n)' => Used(n) \/ n = tok
      BY DEF Used
    <2>8. TokenInv'
      BY <2>6, <2>7 DEF DeployTypes, TokenInv, Holds
    <2>9. WatcherInv'
      BY DEF WatcherInv, SuccessIsTrue
    <2>10. QED
      BY <2>5, <2>8, <2>9
  <1>7. CASE WriteQueued(t)
    <2>1. Moves(t, "free", Nothing, Nothing, Nothing)
      BY <1>7 DEF WriteQueued, Go, Free, Moves
    <2>2. /\ thread[t].pc = "queued"
          /\ status' = [state |-> "queued", id |-> id, fresh |-> TRUE]
          /\ UNCHANGED <<token, tokens, requests, deployed, pendingRequest, watcher>>
      BY <1>7 DEF WriteQueued
    <2> USE <1>0, <2>1, <2>2 DEF DeployConstants, ControlInv, Moves
    <2>3. DeployTypes'
      BY DEF DeployTypes, Given, Written
    <2>4. TokenInv'
      BY DEF DeployTypes, TokenInv, Holds, Used, TokenOnce
    <2>5. WatcherInv'
      BY DEF WatcherInv, SuccessIsTrue
    <2>6. QED
      BY <2>3, <2>4, <2>5
  <1>8. QED
    BY <1>1, <1>2, <1>3, <1>4, <1>5, <1>6, <1>7 DEF Handler

\* What a handler that begins has in its locals.
LEMMA Begins ==
  ASSUME NEW op, NEW tok
  PROVE  /\ [Free EXCEPT !.pc = "status", !.op = op]
              = [pc |-> "status", op |-> op, id |-> Nothing, tok |-> Nothing]
         /\ [Free EXCEPT !.pc = "status", !.op = op, !.tok = tok]
              = [pc |-> "status", op |-> op, id |-> Nothing, tok |-> tok]
  <1>1. ASSUME NEW r, NEW q, q = [r EXCEPT !.pc = "status", !.op = op],
               r = [pc |-> r.pc, op |-> r.op, id |-> r.id, tok |-> r.tok]
        PROVE  q = [pc |-> "status", op |-> op, id |-> r.id, tok |-> r.tok]
    BY <1>1, Zenon
  <1>2. ASSUME NEW r, NEW q, q = [r EXCEPT !.pc = "status", !.op = op, !.tok = tok],
               r = [pc |-> r.pc, op |-> r.op, id |-> r.id, tok |-> r.tok]
        PROVE  q = [pc |-> "status", op |-> op, id |-> r.id, tok |-> tok]
    BY <1>2, Zenon
  <1>3. /\ Free = [pc |-> Free.pc, op |-> Free.op, id |-> Free.id, tok |-> Free.tok]
        /\ Free.id = Nothing /\ Free.tok = Nothing
    BY DEF Free
  <1>4. [Free EXCEPT !.pc = "status", !.op = op]
          = [pc |-> "status", op |-> op, id |-> Nothing, tok |-> Nothing]
    BY <1>1, <1>3, Zenon
  <1>5. [Free EXCEPT !.pc = "status", !.op = op, !.tok = tok]
          = [pc |-> "status", op |-> op, id |-> Nothing, tok |-> tok]
    BY <1>2, <1>3, Zenon
  <1>6. QED
    BY <1>4, <1>5

\* Each step of the owner keeps the invariant.
LEMMA OwnerStep ==
  ASSUME DeployConstants, ControlInv, NEW t \in Threads,
         Prepare(t) \/ Confirm(t) \/ Status(t)
  PROVE  ControlInv'
  <1> DeployTypes /\ TokenInv
    BY DEF ControlInv
  <1>1. CASE Status(t)
    <2>1. Moves(t, "status", "status", Nothing, Nothing)
      BY <1>1, Begins, Zenon DEF Status, Go, Moves
    <2>2. pendingRequest' \in Written /\ "status" # "confirm"
          /\ UNCHANGED <<token, tokens, requests, deployed, status, watcher>>
      BY <1>1 DEF Status, DeployTypes
    <2>3. Nothing \in Written
      BY DEF Written
    <2>4. QED
      BY <2>1, <2>2, <2>3, GoesOn
  <1>2. CASE Prepare(t)
    <2>1. /\ Moves(t, "status", "prepare", Nothing, Nothing)
          /\ tokens < MaxRequests /\ tokens' = tokens + 1 /\ token' = tokens + 1
          /\ UNCHANGED <<pendingRequest, status, watcher, requests, deployed>>
      BY <1>2, Begins, Zenon DEF Prepare, Go, Moves
    <2> USE <2>1 DEF DeployConstants, ControlInv, Moves
    <2>2. requests' \in Seq(1 .. tokens') /\ \A n \in Given : n # tokens + 1
      BY DEF DeployTypes, Given
    <2>3. DeployTypes'
      BY <2>2 DEF DeployTypes, Given, Written
    <2>4. ~Used(tokens + 1)
      BY DEF DeployTypes, Used
    <2>5. TokenInv'
      BY <2>2, <2>4 DEF DeployTypes, TokenInv, Holds, Used, TokenOnce
    <2>6. WatcherInv'
      BY DEF WatcherInv, SuccessIsTrue
    <2>7. QED
      BY <2>3, <2>5, <2>6
  <1>3. CASE Confirm(t)
    <2>1. /\ Moves(t, "status", "confirm", Nothing, token)
          /\ thread[t] = Free /\ token # Nothing /\ token' = Nothing
          /\ UNCHANGED <<tokens, pendingRequest, status, watcher, requests, deployed>>
      BY <1>3, Begins, Zenon DEF Confirm, Go, Moves
    <2> USE <2>1 DEF DeployConstants, ControlInv, Moves
    <2>2. DeployTypes'
      BY DEF DeployTypes, Given, Written
    <2>3. TokenInv'
      BY DEF DeployTypes, TokenInv, Holds, Used, TokenOnce
    <2>4. WatcherInv'
      BY DEF WatcherInv, SuccessIsTrue
    <2>5. QED
      BY <2>2, <2>3, <2>4
  <1>4. QED
    BY <1>1, <1>2, <1>3

\* A token that is cancelled is gone.
LEMMA CancelKeeps ==
  ASSUME DeployConstants, ControlInv, Cancel
  PROVE  ControlInv'
  <1>1. /\ token' = Nothing
        /\ UNCHANGED <<tokens, pendingRequest, status, thread, watcher, requests, deployed>>
    BY DEF Cancel
  <1> USE <1>1 DEF DeployConstants, ControlInv
  <1>2. DeployTypes'
    BY DEF DeployTypes, Given, Written
  <1>3. TokenInv'
    BY DEF DeployTypes, TokenInv, Holds, Used, TokenOnce
  <1>4. WatcherInv'
    BY DEF WatcherInv, SuccessIsTrue
  <1>5. QED
    BY <1>2, <1>3, <1>4

\* A step of the watcher that writes no status.
LEMMA WatcherKeeps ==
  ASSUME DeployConstants, ControlInv, NEW pc, NEW id,
         watcher' = [pc |-> pc, id |-> id],
         pc \in {"validate", "deploy", "remove"} => id \in 1 .. Len(requests),
         pendingRequest' \in Written,
         UNCHANGED <<token, tokens, requests, status, thread, deployed>>
  PROVE  ControlInv'
  <1> USE DEF DeployConstants, ControlInv
  <1>1. DeployTypes'
    BY DEF DeployTypes, Given, Written
  <1>2. TokenInv'
    BY DEF TokenInv, Holds, Used, TokenOnce
  <1>3. WatcherInv'
    BY DEF WatcherInv, SuccessIsTrue
  <1>4. QED
    BY <1>1, <1>2, <1>3

\* Each step of the watcher keeps the invariant.
LEMMA WatchStep ==
  ASSUME DeployConstants, ControlInv,
         Watch \/ Replace \/ Heartbeat \/ Silence \/ WatcherDies
  PROVE  ControlInv'
  <1> DeployTypes /\ WatcherInv /\ TokenOnce
    BY DEF ControlInv, TokenInv
  <1>0. /\ watcher = [pc |-> watcher.pc, id |-> watcher.id]
        /\ watcher.pc \in {"validate", "deploy", "remove"}
             => watcher.id \in 1 .. Len(requests) /\ watcher.id \in Written
        /\ pendingRequest \in Written /\ Nothing \in Written
        /\ watcher.pc = "deploy" => watcher.id \in Ids
    BY RequestsBounded DEF DeployTypes, WatcherInv, Written, Ids, DeployConstants
  <1>1. CASE ReadRequest
    <2>1. pendingRequest \in 1 .. Len(requests)
      BY <1>1 DEF ReadRequest, DeployTypes, Written
    <2>2. QED
      BY <1>0, <1>1, <2>1, WatcherKeeps DEF ReadRequest
  <1>2. ASSUME NEW pc \in {"remove", "deploy", "rest"}, NEW state \in {"failed", "running"},
               Put(state, watcher.id), watcher.pc \in {"validate", "deploy", "remove"},
               watcher' = [pc |-> pc, id |-> IF pc = "rest" THEN Nothing ELSE watcher.id],
               UNCHANGED <<token, tokens, requests, pendingRequest, thread, deployed>>
        PROVE  ControlInv'
    <2>1. CASE up
      <3>1. deployed' \in [Ids -> Nat]
        BY <1>2 DEF DeployTypes
      <3>2. QED
        BY <1>0, <1>2, <2>1, <3>1, StatusKeeps DEF Put
    <2>2. CASE ~up
      BY <1>0, <1>2, <2>2, WatcherKeeps DEF Put
    <2>3. QED
      BY <2>1, <2>2
  <1>3. ASSUME NEW pc PROVE [watcher EXCEPT !.pc = pc] = [pc |-> pc, id |-> watcher.id]
    <2>1. ASSUME NEW w, NEW v, w = [pc |-> w.pc, id |-> w.id], v = [w EXCEPT !.pc = pc]
          PROVE  v = [pc |-> pc, id |-> w.id]
      BY <2>1, Zenon
    <2>2. QED
      BY <1>0, <2>1, Zenon
  <1>4. CASE Validate
    <2>1. /\ watcher.pc = "validate"
          /\ UNCHANGED <<token, tokens, requests, pendingRequest, thread, deployed>>
      BY <1>4 DEF Validate
    <2>2. \/ Put("failed", watcher.id) /\ watcher' = [pc |-> "remove", id |-> watcher.id]
          \/ Put("running", watcher.id) /\ watcher' = [pc |-> "deploy", id |-> watcher.id]
          \/ Put("running", watcher.id) /\ watcher' = [pc |-> "rest", id |-> Nothing]
      BY <1>3, <1>4, Zenon DEF Validate, Resting
    <2>3. QED
      BY <1>2, <2>1, <2>2
  <1>5. CASE Heartbeat
    BY <1>0, <1>2, <1>5 DEF Heartbeat
  <1>6. CASE DeployEnds
    <2>1. /\ watcher.pc = "deploy"
          /\ watcher' = [pc |-> "remove", id |-> watcher.id]
          /\ UNCHANGED <<token, tokens, requests, pendingRequest, thread>>
      BY <1>3, <1>6, Zenon DEF DeployEnds
    <2>2. CASE up /\ Put("failed", watcher.id) /\ UNCHANGED <<deployed, deployFaults>>
      BY <1>2, <2>1, <2>2
    <2>3. CASE /\ up /\ Put("success", watcher.id)
               /\ deployed' = [deployed EXCEPT ![watcher.id] = @ + 1]
      <3>1. deployed' \in [Ids -> Nat] /\ deployed'[watcher.id] > 0
        BY <1>0, <2>1, <2>3 DEF DeployTypes
      <3>2. QED
        BY <1>0, <2>1, <2>3, <3>1, StatusKeeps DEF Put
    <2>4. CASE UNCHANGED <<status, deployed>>
      BY <1>0, <2>1, <2>4, WatcherKeeps
    <2>5. QED
      BY <1>6, <2>2, <2>3, <2>4 DEF DeployEnds
  <1>7. CASE RemoveRequest
    BY <1>0, <1>7, WatcherKeeps DEF RemoveRequest, Resting
  <1>8. CASE WatcherDies
    BY <1>0, <1>8, WatcherKeeps DEF WatcherDies, Resting
  <1>9. CASE Started
    BY <1>0, <1>9, WatcherKeeps DEF Started
  <1>10. CASE Replace
    <2>1. /\ token' = Nothing /\ thread' = [t \in Threads |-> Free]
          /\ UNCHANGED <<tokens, pendingRequest, status, watcher, requests, deployed>>
      BY <1>10 DEF Replace
    <2> USE <2>1 DEF DeployConstants, ControlInv, Free
    <2>2. DeployTypes'
      BY DEF DeployTypes, Given, Written
    <2>3. TokenInv'
      BY DEF TokenInv, Holds, Used, TokenOnce
    <2>4. WatcherInv'
      BY DEF WatcherInv, SuccessIsTrue
    <2>5. QED
      BY <2>2, <2>3, <2>4
  <1>11. CASE Silence
    <2>1. /\ status' = [state |-> status.state, id |-> status.id, fresh |-> FALSE]
          /\ UNCHANGED <<token, tokens, pendingRequest, thread, watcher, requests, deployed>>
      BY <1>11, Zenon DEF Silence, DeployTypes
    <2> USE <2>1 DEF DeployConstants, ControlInv
    <2>2. DeployTypes'
      BY DEF DeployTypes, Given, Written
    <2>3. TokenInv'
      BY DEF TokenInv, Holds, Used, TokenOnce
    <2>4. WatcherInv'
      BY DEF WatcherInv, SuccessIsTrue
    <2>5. QED
      BY <2>2, <2>3, <2>4
  <1>12. QED
    BY <1>1, <1>4, <1>5, <1>6, <1>7, <1>8, <1>9, <1>10, <1>11 DEF Watch

\* For any handlers, confirmations, deaths and containers that do not come up: a
\* confirmation starts one request, however often its button is pressed, and
\* "success" is reported of a request whose deploy succeeded
\* (telegram_deploy_control.py and deploy/vps/sharipovai-deploy-watcher).
THEOREM DeployIsConfirmedHolds ==
  ASSUME DeployConstants
  PROVE  DeploySpec => []DeployIsConfirmed
  <1>1. DeployInit => ControlInv
    BY ControlInitInv
  <1>2. ControlInv /\ [DeployNext]_deployVars => ControlInv'
    <2> SUFFICES ASSUME ControlInv, [DeployNext]_deployVars PROVE ControlInv'
      OBVIOUS
    <2>1. CASE UNCHANGED deployVars
      BY <2>1 DEF deployVars, ControlInv, DeployTypes, TokenInv, WatcherInv, TokenOnce,
         SuccessIsTrue, Given, Written, Holds, Used
    <2>2. QED
      BY <2>1, OwnerStep, CancelKeeps, HandlerStep, WatchStep DEF DeployNext
  <1>3. ControlInv => DeployIsConfirmed
    BY DEF ControlInv, DeployTypes, TokenInv, WatcherInv, DeployIsConfirmed,
       DeployTypeOK, Written
  <1>4. QED
    BY <1>1, <1>2, <1>3, PTL DEF DeploySpec
-----------------------------------------------------------------------------
(* The webhook of the same bot.                                            *)
(*                                                                         *)
(* Nothing is assumed of the updates, workers, identities and chats.       *)
(* The three families of steps share no variable but faults and the reset  *)
(* of a restart, so the inductive invariant has one part for each: what an *)
(* update has used up (UpdateInv), what a getMe call presupposes (NameInv) *)
(* and what a session and a login in progress rest on (LoginInv).          *)
WorkerType == [pc : {"free", "name", "getMe", "claim", "route"},
               update : Updates \union {Nobody}]

\* The claim of an update is spent once: on one worker that routes it, or on
\* one place in the queue, or on having been handled.
UpdateInv ==
    /\ claimed \subseteq Updates /\ acked \subseteq Updates
    /\ queue \subseteq Updates
    /\ handled \in [Updates -> Nat]
    /\ worker \in [Workers -> WorkerType]
    /\ \A w \in Workers : worker[w].pc # "free" => worker[w].update \in Updates
    /\ \A u \in Updates : u \notin claimed => u \notin queue /\ handled[u] = 0
    /\ \A w \in Workers : worker[w].pc = "route" =>
           /\ worker[w].update \in claimed
           /\ worker[w].update \notin queue
           /\ handled[worker[w].update] = 0
    /\ \A v, w \in Workers :
           /\ worker[v].pc = "route" /\ worker[w].pc = "route"
           /\ worker[v].update = worker[w].update
           => v = w
    /\ \A u \in queue : handled[u] = 0
    /\ HandledOnce

\* A call was made in this cooldown only.
NameInv ==
    /\ name = [known |-> name.known, cooling |-> name.cooling, holder |-> name.holder]
    /\ name.holder \in {Nobody} \union Workers
    /\ calls \in {0, 1}
    /\ calls = 1 => name.cooling

\* A session has an account; a login that is going to bind one has one too.
LoginInv ==
    /\ bound \in [Subjects -> Users \union {Nobody}]
    /\ session \subseteq [t : Subjects, user : Users]
    /\ login \in [Logins -> {"idle", "bind", "put", "reread", "done"}]
    /\ \A r \in Logins : login[r] \in {"bind", "put", "reread"} => r.user # Nobody
    /\ \A s \in session : s.user # Nobody
    /\ SessionBound
    /\ owner \in {Nobody} \union Chats

UpdatesIInv == UpdateInv /\ NameInv /\ LoginInv
----------------------------------------------------------------------------
\* The initial state satisfies all three parts.
LEMMA UpdatesInit == WebhookInit => UpdatesIInv
  BY DEF WebhookInit, UpdatesIInv, UpdateInv, NameInv, LoginInv, WorkerType, FreeWorker,
     NoName, HandledOnce, SessionBound

\* No step of a worker, of the queue or of a restart spends a claim twice.
LEMMA UpdateStep == UpdateInv /\ [WebhookNext]_(webhookVars) => UpdateInv'
  <1> SUFFICES ASSUME UpdateInv, [WebhookNext]_(webhookVars) PROVE UpdateInv'
    OBVIOUS
  <1> USE DEF UpdateInv, HandledOnce, WorkerType, FreeWorker
  <1>1. ASSUME NEW w \in Workers, NEW u \in Updates, Deliver(w, u) PROVE UpdateInv'
    BY <1>1 DEF Deliver
  <1>2. ASSUME NEW w \in Workers, Ask(w) PROVE UpdateInv'
    BY <1>2 DEF Ask, WorkerGoes, Answer, username
  <1>3. ASSUME NEW w \in Workers, GetMe(w) PROVE UpdateInv'
    BY <1>3 DEF GetMe, WorkerGoes, Answer
  <1>4. ASSUME NEW w \in Workers, ClaimUpdate(w) PROVE UpdateInv'
    BY <1>4 DEF ClaimUpdate, WorkerGoes, Answer, Fails
  <1>5. ASSUME NEW w \in Workers, Route(w) PROVE UpdateInv'
    <2> DEFINE u == worker[w].update
    <2>1. /\ worker[w].pc = "route" /\ u \in Updates /\ u \in claimed /\ u \notin queue
          /\ handled[u] = 0 /\ UNCHANGED claimed
          /\ \A v \in Workers : worker[v].pc = "route" /\ worker[v].update = u => v = w
      BY <1>5 DEF Route
    <2>2. /\ worker' \in [Workers -> WorkerType] /\ worker'[w].pc = "free"
          /\ \A v \in Workers : v # w => worker'[v] = worker[v]
          /\ acked' \subseteq Updates
      BY <1>5, <2>1 DEF Route, Answer
    <2>3. \/ UNCHANGED <<queue, handled>>
          \/ queue' = queue \union {u} /\ UNCHANGED handled
          \/ handled' = [handled EXCEPT ![u] = 1] /\ UNCHANGED queue
      BY <1>5, <2>1 DEF Route
    <2>4. ASSUME NEW v \in Workers, worker'[v].pc = "route"
          PROVE  v # w /\ worker'[v] = worker[v]
      <3>1. v # w
        BY <2>2, <2>4
      <3>2. QED
        BY <2>2, <3>1
    <2> HIDE DEF u
    <2>5. CASE UNCHANGED <<queue, handled>>
      BY <2>1, <2>2, <2>4, <2>5
    <2>6. CASE queue' = queue \union {u} /\ UNCHANGED handled
      BY <2>1, <2>2, <2>4, <2>6
    <2>7. CASE handled' = [handled EXCEPT ![u] = 1] /\ UNCHANGED queue
      BY <2>1, <2>2, <2>4, <2>7
    <2>8. QED
      BY <2>3, <2>5, <2>6, <2>7
  <1>6. ASSUME NEW u \in Updates, Process(u) PROVE UpdateInv'
    BY <1>6 DEF Process
  <1>7. CASE Restart
    BY <1>7 DEF Restart
  <1>8. ASSUME UNCHANGED updates PROVE UpdateInv'
    BY <1>8 DEF updates
  <1>9. QED
    BY <1>1, <1>2, <1>3, <1>4, <1>5, <1>6, <1>7, <1>8
       DEF WebhookNext, webhookVars, updates, CooldownEnds, ClaimOwner,
           Authenticate, BindRead, BindPut, BindReread

\* Only the worker that starts a cooldown calls, and the count ends with it.
LEMMA NameStep == NameInv /\ [WebhookNext]_(webhookVars) => NameInv'
  <1> SUFFICES ASSUME NameInv, [WebhookNext]_(webhookVars) PROVE NameInv'
    OBVIOUS
  <1> USE DEF NameInv
  <1>1. ASSUME NEW w \in Workers, Ask(w) PROVE NameInv'
    <2>1. CASE UNCHANGED username
      BY <2>1 DEF username
    <2>2. CASE /\ ~name.cooling
               /\ name' = [name EXCEPT !.holder = w, !.cooling = TRUE]
               /\ calls' = calls + 1
      <3>1. name' = [known |-> name.known, cooling |-> TRUE, holder |-> w]
        BY <2>2, Zenon
      <3>2. calls = 0
        BY <2>2
      <3>3. /\ name'.cooling /\ name'.holder = w
            /\ name' = [known |-> name'.known, cooling |-> name'.cooling,
                        holder |-> name'.holder]
        BY <3>1, Zenon
      <3>4. calls' = 1
        BY <2>2, <3>2
      <3>5. QED
        BY <3>3, <3>4, Zenon
    <2>3. QED
      BY <1>1, <2>1, <2>2 DEF Ask
  <1>2. ASSUME NEW w \in Workers, GetMe(w) PROVE NameInv'
    BY <1>2 DEF GetMe
  <1>3. CASE CooldownEnds
    <2>1. name' = [known |-> name.known, cooling |-> FALSE, holder |-> name.holder]
      BY <1>3, Zenon DEF CooldownEnds
    <2>2. /\ name'.holder = name.holder
          /\ name' = [known |-> name'.known, cooling |-> name'.cooling,
                      holder |-> name'.holder]
      BY <2>1, Zenon
    <2>3. calls' = 0
      BY <1>3 DEF CooldownEnds
    <2>4. QED
      BY <2>2, <2>3
  <1>4. CASE Restart
    BY <1>4 DEF Restart, NoName
  <1>5. ASSUME UNCHANGED username PROVE NameInv'
    BY <1>5 DEF username
  <1>6. QED
    BY <1>1, <1>2, <1>3, <1>4, <1>5
       DEF WebhookNext, webhookVars, username, Deliver, ClaimUpdate, Route,
           Process, ClaimOwner, Authenticate, BindRead, BindPut,
           BindReread

\* What issuing a session for an account that is bound by now preserves.
LEMMA IssueKeeps ==
  ASSUME LoginInv, NEW r \in Logins, NEW user \in Users, user # Nobody,
         bound' \in [Subjects -> Users \union {Nobody}], bound'[r.t] = user,
         rebound \subseteq rebound',
         \A s \in session : s.t \in rebound' \/ bound'[s.t] = s.user,
         Issue(r, user), owner' = owner
  PROVE  LoginInv'
  <1> USE DEF LoginInv
  <1>1. r.t \in Subjects
    BY DEF Logins
  <1>2. session' = session \union {[t |-> r.t, user |-> user]}
    BY DEF Issue
  <1>3. session' \subseteq [t : Subjects, user : Users]
    BY <1>1, <1>2
  <1>4. \A s \in session' : s.user # Nobody /\ (s.t \in rebound' \/ bound'[s.t] = s.user)
    BY <1>2
  <1>5. login' \in [Logins -> {"idle", "bind", "put", "reread", "done"}]
    BY DEF Issue, LogIn
  <1>6. \A q \in Logins : login'[q] \in {"bind", "put", "reread"} => q.user # Nobody
    BY DEF Issue, LogIn
  <1>7. QED
    BY <1>3, <1>4, <1>5, <1>6 DEF SessionBound

\* What a step of a login that issues nothing preserves.
LEMMA LogInKeeps ==
  ASSUME LoginInv, NEW r \in Logins,
         NEW pc \in {"idle", "bind", "put", "reread", "done"}, pc = "done" \/ r.user # Nobody,
         LogIn(r, pc), UNCHANGED <<owner, bound, session, rebound>>
  PROVE  LoginInv'
  BY DEF LoginInv, LogIn, SessionBound

\* A binding is written where there is none, and a session for what is bound.
LEMMA LoginStep == LoginInv /\ [WebhookNext]_(webhookVars) => LoginInv'
  <1> SUFFICES ASSUME LoginInv, [WebhookNext]_(webhookVars) PROVE LoginInv'
    OBVIOUS
  <1> USE DEF LoginInv, SessionBound, Logins
  <1>1. ASSUME NEW r \in Logins, Authenticate(r) PROVE LoginInv'
    BY <1>1, IssueKeeps, LogInKeeps DEF Authenticate, owning
  <1>2. ASSUME NEW r \in Logins, BindRead(r) PROVE LoginInv'
    BY <1>2, IssueKeeps, LogInKeeps DEF BindRead, owning
  <1>3. ASSUME NEW r \in Logins, BindPut(r) PROVE LoginInv'
    <2>1. CASE /\ bound' = [bound EXCEPT ![r.t] = r.user] /\ Issue(r, r.user)
               /\ rebound' = IF bound[r.t] \in {Nobody, r.user} THEN rebound
                             ELSE rebound \union {r.t}
      <3>1. r.user # Nobody /\ owner' = owner
        BY <1>3 DEF BindPut, owning
      <3>2. \A s \in session : s.t \in rebound' \/ bound'[s.t] = s.user
        BY <2>1
      <3>3. /\ r.user \in Users /\ rebound \subseteq rebound'
            /\ bound' \in [Subjects -> Users \union {Nobody}] /\ bound'[r.t] = r.user
        BY <2>1, <3>1
      <3>4. QED
        BY <2>1, <3>1, <3>2, <3>3, IssueKeeps
    <2>2. CASE LogIn(r, "reread") /\ UNCHANGED <<bound, session, rebound>>
      BY <1>3, <2>2, LogInKeeps DEF BindPut, owning
    <2>3. QED
      BY <1>3, <2>1, <2>2 DEF BindPut
  <1>4. ASSUME NEW r \in Logins, BindReread(r) PROVE LoginInv'
    BY <1>4, IssueKeeps, LogInKeeps DEF BindReread, owning
  <1>5. ASSUME NEW c \in Chats, ClaimOwner(c) PROVE LoginInv'
    BY <1>5 DEF ClaimOwner, identity
  <1>6. CASE Restart
    BY <1>6 DEF Restart
  <1>7. ASSUME UNCHANGED <<owner, identity>> PROVE LoginInv'
    BY <1>7 DEF identity
  <1>8. QED
    BY <1>1, <1>2, <1>3, <1>4, <1>5, <1>6, <1>7
       DEF WebhookNext, webhookVars, owning, identity, Deliver, Ask,
           GetMe, ClaimUpdate, Route, Process, CooldownEnds

\* Whatever Telegram delivers again and whenever the application restarts, an
\* update is handled at most once, getMe is called once per cooldown, and a
\* session is one of the account its subject is bound to, for good unless two first
\* bindings of the subject met.
THEOREM UpdatesOnceHolds == WebhookSpec => []UpdatesOnce
  <1>1. UpdatesIInv /\ [WebhookNext]_(webhookVars) => UpdatesIInv'
    BY UpdateStep, NameStep, LoginStep DEF UpdatesIInv
  <1>2. UpdatesIInv => UpdatesOnce
    BY DEF UpdatesIInv, UpdateInv, NameInv, LoginInv, UpdatesOnce, WebhookTypeOK,
       HandledOnce, AskedOnce, SessionBound
  <1>3. QED
    BY UpdatesInit, <1>1, <1>2, PTL DEF WebhookSpec
=============================================================================
