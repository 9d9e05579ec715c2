----------------------------- MODULE MCProgress -----------------------------
(* What must eventually happen: a dropped stream reconnects, a log entry     *)
(* leaves the memory queue, a deployment request is answered, a claimed      *)
(* repair ends, the windows of a walk-forward run out. A behaviour is about  *)
(* one component, which part names; the others keep their initial state.     *)
EXTENDS Integers, Sequences, FiniteSets

CONSTANTS NoValue

VARIABLES part,  \* the component this behaviour is about
          clock, streamFaults, exch, link, wire, streamWorker, ret, snap,
          control, mem, health, orders, ledger, conflicts, heard, reused,
          mode, log, fact, memoryWorker, fails, open, memoryDec, act,
          memoryFaults,
          token, tokens, pendingRequest, status, thread, watcher, up,
          requests, deployed, deployFaults,
          action, meta, claim, results, gens, pending, healDec, host, agent,
          app, healthy, corrupt, healingFaults, runs, restores,
          ts, par, start, windows, pc

Stream == INSTANCE PrivateStream WITH
    FullQty <- 1, MaxClock <- 1, MaxAge <- 0, MaxLag <- 0, MaxFaults <- 1,
    faults <- streamFaults, worker <- streamWorker

Memory == INSTANCE MemoryLayer WITH
    NumLogs <- 2, Contents <- {"a"}, Opposed <- {}, Dangerous <- {},
    MaxFailures <- 1, MaxDecisions <- 2, Configured <- {"on"}, Limit <- 1,
    MaxFaults <- 2, None <- NoValue, worker <- memoryWorker, dec <- memoryDec,
    faults <- memoryFaults

Deploy == INSTANCE DeployControl WITH
    Threads <- {"t1"}, MaxRequests <- 2, MaxDeployFaults <- 2,
    Nothing <- NoValue

Healing == INSTANCE SelfHealing WITH
    MaxGens <- 3, Decisions <- {}, MaxHealingFaults <- 5, None <- NoValue,
    dec <- healDec

Walk == INSTANCE WalkForward WITH
    MaxRows <- 5, MaxTrain <- 2, MaxTest <- 1, MaxStep <- 2, MaxEmbargo <- 1,
    MinWindows <- 2, InitialCash <- 5, MaxMove <- 0

streamVars == <<clock, streamFaults, exch, link, wire, streamWorker, ret,
                snap, control, mem, health, orders, ledger, conflicts, heard,
                reused>>
memoryVars == <<mode, log, fact, memoryWorker, fails, open, memoryDec, act,
                memoryFaults>>
deployVars == <<token, tokens, pendingRequest, status, thread, watcher, up,
                requests, deployed, deployFaults>>
healVars == <<action, meta, claim, results, gens, pending, healDec, host,
              agent, app, healthy, corrupt, healingFaults, runs, restores>>
walkVars == <<ts, par, start, windows, pc>>
vars == <<part, streamVars, memoryVars, deployVars, healVars, walkVars>>

Init ==
    /\ part \in {"stream", "memory", "deploy", "healing", "walk_forward"}
    /\ Stream!Init
    /\ Memory!Init
    /\ Deploy!DeployInit
    /\ Healing!HealingInit
    /\ Walk!Init

Next ==
    \/ part = "stream" /\ Stream!Next
       /\ UNCHANGED <<part, memoryVars, deployVars, healVars, walkVars>>
    \/ part = "memory" /\ Memory!Next
       /\ UNCHANGED <<part, streamVars, deployVars, healVars, walkVars>>
    \/ part = "deploy" /\ Deploy!DeployNext
       /\ UNCHANGED <<part, streamVars, memoryVars, healVars, walkVars>>
    \/ part = "healing" /\ Healing!HealingNext
       /\ UNCHANGED <<part, streamVars, memoryVars, deployVars, walkVars>>
    \/ part = "walk_forward" /\ Walk!Next
       /\ UNCHANGED <<part, streamVars, memoryVars, deployVars, healVars>>

\* The threads that run on their own keep running: the stream's worker, the
\* memory worker and its circuit, the deployment watcher, the deployment it
\* waits for and the restart of a container it left down, the agent, the
\* application and the host of self-healing, and the loop over windows.
\* Messages, the owner's decisions and faults are not fair.
Spec ==
    /\ Init /\ [][Next]_vars
    /\ WF_streamVars(part = "stream" /\ Stream!Boot)
    /\ WF_streamVars(part = "stream" /\ Stream!Start)
    /\ WF_streamVars(part = "stream" /\ Stream!WorkerStep)
    /\ WF_memoryVars(part = "memory" /\ Memory!Work)
    /\ WF_memoryVars(part = "memory" /\ Memory!CircuitResets)
    /\ WF_deployVars(part = "deploy" /\ Deploy!Watch)
    /\ SF_deployVars(part = "deploy" /\ Deploy!DeployEnds)
    /\ WF_healVars(part = "healing" /\ Healing!AgentNext)
    /\ WF_healVars(part = "healing" /\ Healing!AppNext)
    /\ WF_healVars(part = "healing" /\ Healing!HostNext)
    /\ WF_walkVars(part = "walk_forward" /\ Walk!Next)

-----------------------------------------------------------------------------
\* What must eventually happen does: a dropped stream reconnects, a log entry
\* leaves the memory queue where extraction is on, a deployment request is
\* answered, a claimed repair ends, and the windows of a walk-forward run out.
Progress ==
    /\ part = "stream" => Stream!Reconnects
    /\ part = "memory" => Memory!LogEnds
    /\ part = "deploy" => Deploy!RequestLeaves
    /\ part = "healing" => Healing!ClaimEnds
    /\ part = "walk_forward" => Walk!Ends
=============================================================================
