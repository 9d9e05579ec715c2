------------------------------ MODULE SelfHealing ------------------------------
(***************************************************************************)
(* The self-healing cycle.  The host wrapper (deploy/vps/                  *)
(* self-healing-run.sh) revokes stale authority, runs the agent in the     *)
(* container (tools/self_healing_agent.py), then claims and executes what  *)
(* the agent or an approved decision (development_control/                 *)
(* general_controller.py) left in the action files.  The dashboard queues  *)
(* approved decisions whenever the owner answers; the wrapper can die at   *)
(* any step and leave its agent running.  "restart" stands for every       *)
(* non-critical action, "restore" for the owner-gated ones.                *)
(***************************************************************************)
EXTENDS Naturals, FiniteSets

CONSTANTS MaxGens,           \* generations the agent may publish
          Decisions,         \* owner decisions that may be asked for
          MaxHealingFaults,  \* crashes, corruptions, deaths of the wrapper
          None               \* no action, decision or generation

VARIABLES action, meta,   \* the published action: its pointer and metadata
          claim,          \* action.claimed.json
          results,        \* generations with a terminal result
          gens,           \* generations published so far
          pending,        \* critical_action_request.json
          dec,            \* agent_decisions: status of every decision
          host, agent, app,
          healthy, corrupt, healingFaults,
          runs, restores  \* how often the host did what

files == <<action, meta, claim>>
world == <<healthy, corrupt, healingFaults>>
done == <<runs, restores>>
healingVars == <<action, meta, claim, results, gens, pending, dec, host,
                 agent, app, healthy, corrupt, healingFaults, runs, restores>>

Gens == 1 .. MaxGens
NonCrit(g) == [kind |-> "gen", id |-> g]
Crit(d) == [kind |-> "dec", id |-> d]
IsGen(m) == m # None /\ m.kind = "gen"

NoHost == [pc |-> "idle", gen |-> None, dec |-> None, ok |-> FALSE]
NoAgent == [pc |-> "idle", verify |-> FALSE, dec |-> None]
NoApp == [pc |-> "idle", dec |-> None]

HealingInit ==
    /\ action = "none" /\ meta = None /\ claim = None
    /\ results = {} /\ gens = 0 /\ pending = None
    /\ dec = [d \in Decisions |-> "none"]
    /\ host = NoHost /\ agent = NoAgent /\ app = NoApp
    /\ healthy = TRUE /\ corrupt = FALSE /\ healingFaults = 0
    /\ runs = [g \in Gens |-> 0] /\ restores = [d \in Decisions |-> 0]

----------------------------------------------------------------------------
(* What goes wrong around the cycle.                                       *)
----------------------------------------------------------------------------
Fault ==
    /\ healingFaults < MaxHealingFaults
    /\ healingFaults' = healingFaults + 1
    /\ \/ healthy /\ healthy' = FALSE /\ UNCHANGED <<corrupt, host, agent, app>>
       \/ ~corrupt /\ corrupt' = TRUE /\ UNCHANGED <<healthy, host, agent, app>>
       \/ host # NoHost /\ host' = NoHost /\ UNCHANGED <<healthy, corrupt, agent, app>>
       \/ agent # NoAgent /\ agent' = NoAgent /\ UNCHANGED <<healthy, corrupt, host, app>>
       \/ app # NoApp /\ app' = NoApp /\ UNCHANGED <<healthy, corrupt, host, agent>>
    /\ UNCHANGED <<files, results, gens, pending, dec, done>>

----------------------------------------------------------------------------
(* The agent: checks, then ActionRequest.persist.                          *)
----------------------------------------------------------------------------
\* A verifying run asks for no restore, and no run does whose candidate could
\* not be prepared; what else it found is asked for then, in both modes.
Requests(verify) ==
    {"none"} \union {a \in {"restart"} : ~healthy /\ gens < MaxGens}
             \union {a \in {"restore"} : corrupt /\ ~verify}

AgentChecks ==
    /\ agent.pc = "check"
    /\ \E a \in Requests(agent.verify) :
        agent' = CASE a = "none" -> NoAgent
                   [] a = "restart" -> [agent EXCEPT !.pc = "meta"]
                   [] a = "restore" -> [agent EXCEPT !.pc = "critical"]
    /\ UNCHANGED <<files, results, gens, pending, dec, host, app, world, done>>

PersistMeta ==
    /\ agent.pc = "meta"
    /\ gens < MaxGens
    /\ gens' = gens + 1
    /\ meta' = NonCrit(gens + 1)
    /\ agent' = [agent EXCEPT !.pc = "pointer"]
    /\ UNCHANGED <<action, claim, results, pending, dec, host, app, world,
                   done>>

\* The action pointer is written last: the ready signal.
PersistAction ==
    /\ agent.pc = "pointer"
    /\ action' = "restart"
    /\ agent' = NoAgent
    /\ UNCHANGED <<meta, claim, results, gens, pending, dec, host, app, world,
                   done>>

\* A pending request is not repeated; else submit and review a decision.
CriticalSubmit ==
    /\ agent.pc = "critical"
    /\ \/ /\ \/ pending # None
             \/ \A d \in Decisions : dec[d] # "none"
          /\ agent' = NoAgent /\ UNCHANGED dec
       \/ /\ pending = None
          /\ \E d \in Decisions :
              /\ dec[d] = "none"
              /\ dec' = [dec EXCEPT ![d] = "security_approved"]
              /\ agent' = [agent EXCEPT !.pc = "ask", !.dec = d]
    /\ UNCHANGED <<files, results, gens, pending, host, app, world, done>>

\* request_owner_approval: the message may fail; the decision awaits the owner
\* after it was sent.
CriticalAsk ==
    /\ agent.pc = "ask"
    /\ \/ agent' = NoAgent /\ UNCHANGED dec
       \/ /\ dec' = [dec EXCEPT ![agent.dec] = "awaiting_owner"]
          /\ agent' = [agent EXCEPT !.pc = "pend"]
    /\ UNCHANGED <<files, results, gens, pending, host, app, world, done>>

CriticalPending ==
    /\ agent.pc = "pend"
    /\ pending' = agent.dec
    /\ agent' = NoAgent
    /\ UNCHANGED <<files, results, gens, dec, host, app, world, done>>

----------------------------------------------------------------------------
(* The dashboard: the owner's answer, then _queue_critical_action.         *)
----------------------------------------------------------------------------
Decide(d, approve) ==
    /\ app = NoApp /\ dec[d] = "awaiting_owner"
    /\ dec' = [dec EXCEPT ![d] = IF approve THEN "approved" ELSE "rejected"]
    /\ app' = IF approve THEN [pc |-> "meta", dec |-> d] ELSE NoApp
    /\ UNCHANGED <<files, results, gens, pending, host, agent, world, done>>

QueueMeta ==
    /\ app.pc = "meta"
    /\ meta' = Crit(app.dec)
    /\ app' = [app EXCEPT !.pc = "pointer"]
    /\ UNCHANGED <<action, claim, results, gens, pending, dec, host, agent,
                   world, done>>

QueueAction ==
    /\ app.pc = "pointer"
    /\ action' = "restore"
    /\ app' = NoApp
    /\ UNCHANGED <<meta, claim, results, gens, pending, dec, host, agent, world,
                   done>>

----------------------------------------------------------------------------
(* The host's cycle.                                                       *)
----------------------------------------------------------------------------
Cycle ==
    /\ host = NoHost
    /\ host' = [NoHost EXCEPT !.pc = "reject"]
    /\ UNCHANGED <<files, results, gens, pending, dec, agent, app, world, done>>

\* claim_noncritical_action up to the rename.
MayClaim == action = "restart" /\ IsGen(meta) /\ meta.id \notin results /\ claim = None

\* reject_stale_noncritical_authority: an abandoned claim is terminalized; an
\* unclaimed action of an earlier cycle is claimed and terminalized.
RejectStale ==
    /\ host.pc = "reject"
    /\ \/ /\ IsGen(claim)
          /\ host' = [host EXCEPT !.pc = "reject_result", !.gen = claim.id]
          /\ UNCHANGED <<action, meta>>
       \/ /\ ~IsGen(claim) /\ MayClaim
          /\ host' = [host EXCEPT !.pc = "reject_take", !.gen = meta.id]
          /\ UNCHANGED <<action, meta>>
       \/ /\ ~IsGen(claim) /\ action = "restart"
          /\ IsGen(meta) /\ meta.id \in results
          /\ action' = "none" /\ meta' = None
          /\ host' = [host EXCEPT !.pc = "start"]
       \/ \* metadata without a generation: a legacy artifact
          /\ ~IsGen(claim) /\ action = "restart" /\ ~IsGen(meta)
          /\ action' = "none" /\ meta' = None
          /\ host' = [host EXCEPT !.pc = "start"]
       \/ /\ ~IsGen(claim)
          /\ action # "restart" \/ (IsGen(meta) /\ meta.id \notin results
                                      /\ claim # None)
          /\ host' = [host EXCEPT !.pc = "start"]
          /\ UNCHANGED <<action, meta>>
    /\ UNCHANGED <<claim, results, gens, pending, dec, agent, app, world, done>>

\* os.replace(action.json, action.claimed.json): whatever is there now.
Take ==
    /\ host.pc \in {"reject_take", "take"}
    /\ IF meta = None
       THEN /\ host' = IF host.pc = "take" THEN NoHost
                       ELSE [NoHost EXCEPT !.pc = "start"]
            /\ UNCHANGED <<meta, claim>>
       ELSE /\ claim' = meta /\ meta' = None
            /\ host' = [host EXCEPT !.pc = IF @ = "take" THEN "untake"
                                           ELSE "reject_untake"]
    /\ UNCHANGED <<action, results, gens, pending, dec, agent, app, world,
                   done>>

Untake ==
    /\ host.pc \in {"reject_untake", "untake"}
    /\ action' = "none"
    /\ host' = [host EXCEPT !.pc = IF @ = "untake" THEN "execute"
                                   ELSE "reject_result"]
    /\ UNCHANGED <<meta, claim, results, gens, pending, dec, agent, app, world,
                   done>>

\* terminalize_noncritical_action: the result first.
Terminalize ==
    /\ host.pc \in {"reject_result", "result"}
    /\ IF claim = NonCrit(host.gen)
       THEN /\ results' = results \union {host.gen}
            /\ host' = [host EXCEPT !.pc = IF @ = "result" THEN "revoke"
                                           ELSE "reject_revoke"]
       ELSE /\ host' = IF host.pc = "result" THEN NoHost
                       ELSE [NoHost EXCEPT !.pc = "start"]
            /\ UNCHANGED results
    /\ UNCHANGED <<files, gens, pending, dec, agent, app, world, done>>

RevokeNothing ==
    /\ host.pc \in {"reject_revoke", "revoke"}
    /\ action' = "none" /\ meta' = None
    /\ host' = IF host.pc = "revoke" /\ ~host.ok THEN NoHost
               ELSE [NoHost EXCEPT !.pc = IF host.pc = "revoke" THEN "verify"
                                          ELSE "start"]
    /\ UNCHANGED <<claim, results, gens, pending, dec, agent, app, world, done>>

\* Then the claim and _clear_action_authority.
Revoke ==
    /\ host.pc \in {"reject_revoke", "revoke"}
    /\ action' = "none" /\ meta' = None /\ claim' = None
    /\ host' = IF host.pc = "revoke" /\ ~host.ok THEN NoHost
               ELSE [NoHost EXCEPT !.pc = IF host.pc = "revoke" THEN "verify"
                                          ELSE "start"]
    /\ UNCHANGED <<results, gens, pending, dec, agent, app, world, done>>

\* run_agent, and the verifying run after an action.  While an earlier agent
\* holds the lock the new one gives up at once: the host has none to wait for.
StartAgent ==
    /\ \/ /\ host.pc = "start"
          /\ host' = [host EXCEPT !.pc = IF agent = NoAgent THEN "await" ELSE "read"]
       \/ /\ host.pc = "verify"
          /\ host' = [host EXCEPT !.pc = IF agent = NoAgent THEN "verified" ELSE "end"]
    /\ agent' = IF agent = NoAgent
                THEN [NoAgent EXCEPT !.pc = "check", !.verify = (host.pc = "verify")]
                ELSE agent
    /\ UNCHANGED <<files, results, gens, pending, dec, app, world, done>>

EndCycle ==
    /\ host.pc = "end" \/ (host.pc = "verified" /\ agent = NoAgent)
    /\ host' = NoHost
    /\ UNCHANGED <<files, results, gens, pending, dec, agent, app, world, done>>

\* The action is read when the host's own agent has ended, whatever an agent of
\* a dead wrapper still publishes.
ReadAction ==
    /\ host.pc = "read" \/ (host.pc = "await" /\ agent = NoAgent)
    /\ host' = CASE action = "none" -> NoHost
                 [] action = "restore" -> [host EXCEPT !.pc = "owner"]
                 [] action = "restart" -> [host EXCEPT !.pc = "claim"]
    /\ UNCHANGED <<files, results, gens, pending, dec, agent, app, world, done>>

Claim ==
    /\ host.pc = "claim"
    /\ IF MayClaim
       THEN /\ host' = [host EXCEPT !.pc = "take", !.gen = meta.id]
            /\ UNCHANGED <<action, meta>>
       ELSE /\ host' = NoHost
            /\ IF action = "restart" /\ IsGen(meta) /\ meta.id \in results
               THEN action' = "none" /\ meta' = None
               ELSE UNCHANGED <<action, meta>>
    /\ UNCHANGED <<claim, results, gens, pending, dec, agent, app, world, done>>

\* restart_sharipovai ends every process in the container; compose_up,
\* restart_caddy and the prune leave them running.
Processes ==
    \/ UNCHANGED <<agent, app>>
    \/ agent' = NoAgent /\ app' = NoApp

ExecuteRetries ==
    /\ host.pc = "execute"
    /\ runs' = [runs EXCEPT ![host.gen] = @ + 1]
    /\ Processes
    /\ \/ healthy' = TRUE /\ host' = [host EXCEPT !.pc = "result", !.ok = TRUE]
       \/ UNCHANGED <<healthy, host>>
    /\ UNCHANGED <<files, results, gens, pending, dec, corrupt, healingFaults,
                   restores>>

Execute ==
    /\ host.pc = "execute"
    /\ runs' = [runs EXCEPT ![host.gen] = @ + 1]
    /\ Processes
    /\ healthy' \in {healthy, TRUE}
    /\ host' = [host EXCEPT !.pc = "result", !.ok = healthy']
    /\ UNCHANGED <<files, results, gens, pending, dec, corrupt, healingFaults,
                   restores>>

\* critical_action_is_owner_approved: claim_critical_action consumes the
\* approval the metadata names.
OwnerApproved ==
    /\ host.pc = "owner"
    /\ IF meta # None /\ ~IsGen(meta) /\ dec[meta.id] = "approved"
       THEN /\ dec' = [dec EXCEPT ![meta.id] = "executing"]
            /\ host' = [host EXCEPT !.pc = "restore", !.dec = meta.id]
       ELSE host' = NoHost /\ UNCHANGED dec
    /\ UNCHANGED <<files, results, gens, pending, agent, app, world, done>>

\* restore_database stops the application, when it can; success clears the
\* action files and the pending request, failure leaves them.
Restore ==
    /\ host.pc = "restore"
    /\ restores' = [restores EXCEPT ![host.dec] = @ + 1]
    /\ \/ /\ corrupt' = FALSE /\ host' = [NoHost EXCEPT !.pc = "clear"]
          /\ agent' = NoAgent /\ app' = NoApp
       \/ host' = NoHost /\ UNCHANGED corrupt /\ Processes
    /\ UNCHANGED <<files, results, gens, pending, dec, healthy, healingFaults,
                   runs>>

ClearAction ==
    /\ host.pc = "clear"
    /\ action' = "none" /\ meta' = None /\ pending' = None
    /\ host' = [host EXCEPT !.pc = "verify"]
    /\ UNCHANGED <<claim, results, gens, dec, agent, app, world, done>>

----------------------------------------------------------------------------
AgentNext == \/ AgentChecks \/ PersistMeta \/ PersistAction
             \/ CriticalSubmit \/ CriticalAsk \/ CriticalPending
AppNext == QueueMeta \/ QueueAction
HostNext ==
    \/ Cycle \/ RejectStale \/ Take \/ Untake \/ Terminalize \/ Revoke
    \/ StartAgent \/ ReadAction \/ Claim \/ Execute \/ OwnerApproved
    \/ Restore \/ ClearAction \/ EndCycle

HealingNext ==
    \/ Fault \/ AgentNext \/ AppNext \/ HostNext
    \/ \E d \in Decisions, approve \in BOOLEAN : Decide(d, approve)

HealingSpec == HealingInit /\ [][HealingNext]_healingVars

\* systemd's timer starts cycle after cycle, and a started agent or callback
\* goes on by itself.
HealingFairSpec ==
    /\ HealingSpec /\ WF_healingVars(AgentNext)
    /\ WF_healingVars(AppNext) /\ WF_healingVars(HostNext)
----------------------------------------------------------------------------
HealingTypeOK ==
    /\ action \in {"none", "restart", "restore"}
    /\ meta \in {None} \union [kind : {"gen"}, id : Gens]
                       \union [kind : {"dec"}, id : Decisions]
    /\ results \subseteq 1 .. gens
    /\ agent.pc # "idle" => (agent.dec # None <=> agent.pc \in {"ask", "pend"})

\* "A terminal generation or an existing claim can never be returned for
\* execution a second time", wherever the wrapper died and whatever agent of a
\* dead wrapper still publishes.
OneShot == \A g \in Gens : runs[g] <= 1

\* A destructive action runs only on a decision whose owner's approval it
\* consumed, and once.
OwnerFirst ==
    \A d \in Decisions :
        restores[d] <= (IF dec[d] = "executing" THEN 1 ELSE 0)

\* What the owner is promised of the cycle.
HealingIsAuthorized == HealingTypeOK /\ OneShot /\ OwnerFirst

\* Without owner decisions in play every claim is terminalized in the end,
\* also when the wrapper that made it is gone.
ClaimEnds == claim # None ~> claim = None

=============================================================================
