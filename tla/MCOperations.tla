---------------------------- MODULE MCOperations ----------------------------
(* The components that keep the installation running and changing: the self- *)
(* healing agent, deployment from Telegram, approved patches, the webhook,   *)
(* worker recovery and the watchdog. They share no document, so a behaviour  *)
(* is about one of them: part says which, and the others keep their initial  *)
(* state. The components with proofs are extended, the others are instances. *)
(* The webhook has two parts, its updates and its logins, and worker recovery *)
(* two, faults and the whole budget, which restrict the one component. The   *)
(* watchdog has two: two threads tick over one component, and one thread over *)
(* a component of each kind.                                                 *)
EXTENDS SelfHealing, ApprovedPatch, WorkerRecovery, DeployControl, TelegramWebhook,
        Integers, Sequences, FiniteSets

CONSTANTS NoValue

VARIABLES part,  \* the component this behaviour is about
          watchNow, ticks, attempts, lastAttempt, lastStatus, safe, at, ran,
          met

Watchdog == INSTANCE SystemWatchdog WITH
    Threads <- {"loop", "route"}, Recoverable <- {"market"}, Forbidden <- {},
    Other <- {}, MaxAttempts <- 2, Window <- 1, Cooldown <- 1, MaxTime <- 3,
    MaxTicks <- 3, now <- watchNow

WatchdogKinds == INSTANCE SystemWatchdog WITH
    Threads <- {"loop"}, Recoverable <- {"market"}, Forbidden <- {"security"},
    Other <- {"disk"}, MaxAttempts <- 2, Window <- 1, Cooldown <- 1,
    MaxTime <- 2, MaxTicks <- 3, now <- watchNow

watchVars == <<watchNow, ticks, attempts, lastAttempt, lastStatus, safe, at,
               ran, met>>
vars == <<part,
          healingVars, deployVars, patchVars, webhookVars, recoveryVars,
          watchVars>>

Init ==
    /\ part \in {"healing", "deploy", "patch", "webhook", "login", "recovery",
                "recovery_budget", "watchdog", "watchdog_kinds"}
    /\ HealingInit
    /\ DeployInit
    /\ PatchInit
    /\ WebhookInit
    /\ RecoveryInit
    /\ IF part = "watchdog_kinds" THEN WatchdogKinds!Init
       ELSE Watchdog!Init

Next ==
    \/ part = "healing" /\ HealingNext
       /\ UNCHANGED <<part, deployVars, patchVars, webhookVars, recoveryVars,
                       watchVars>>
    \/ part = "deploy" /\ DeployNext
       /\ UNCHANGED <<part, healingVars, patchVars, webhookVars, recoveryVars,
                       watchVars>>
    \/ part = "patch" /\ PatchNext
       /\ UNCHANGED <<part, healingVars, deployVars, webhookVars,
                       recoveryVars, watchVars>>
    \/ part = "webhook" /\ WebhookNext
       /\ UNCHANGED <<owning, identity>>
       /\ \A w \in Workers : worker'[w].update \notin Plain
       /\ UNCHANGED <<part, healingVars, deployVars, patchVars, recoveryVars,
                       watchVars>>
    \/ part = "login" /\ WebhookNext
       /\ UNCHANGED worker["w2"]
       /\ \A w \in Workers : worker'[w].update \in Plain \union {Nobody}
       /\ UNCHANGED <<part, healingVars, deployVars, patchVars, recoveryVars,
                       watchVars>>
    \/ part = "recovery" /\ RecoveryNext
       /\ now' <= 2
       /\ UNCHANGED <<part, healingVars, deployVars, patchVars, webhookVars,
                       watchVars>>
    \/ part = "recovery_budget" /\ RecoveryNext
       /\ faults' <= 1
       /\ UNCHANGED <<part, healingVars, deployVars, patchVars, webhookVars,
                       watchVars>>
    \/ part = "watchdog" /\ Watchdog!Next
       /\ UNCHANGED <<part, healingVars, deployVars, patchVars, webhookVars,
                       recoveryVars>>
    \/ part = "watchdog_kinds" /\ WatchdogKinds!Next
       /\ UNCHANGED <<part, healingVars, deployVars, patchVars, webhookVars,
                       recoveryVars>>

Spec == Init /\ [][Next]_vars

-----------------------------------------------------------------------------
\* Unless two ticks handled it at once, a component is restarted within the
\* budget of a window and its safe mode is explained by the last look at it
\* (system_watchdog.py).
WatchdogIsBounded ==
    /\ part = "watchdog" =>
           /\ Watchdog!TypeOK /\ Watchdog!AttemptsBounded
           /\ Watchdog!SafeModeIsCurrent
    /\ part = "watchdog_kinds" =>
           /\ WatchdogKinds!TypeOK /\ WatchdogKinds!AttemptsBounded
           /\ WatchdogKinds!SafeModeIsCurrent
=============================================================================
