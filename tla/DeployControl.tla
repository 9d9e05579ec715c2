----------------------------- MODULE DeployControl -----------------------------
(***************************************************************************)
(* Deployments requested from Telegram (telegram_deploy_control.py) and    *)
(* run by the host's watcher (deploy/vps/sharipovai-deploy-watcher).  The  *)
(* two share pending.json and status.json.  The bot's updates are handled  *)
(* by threads of the application, which is down while a deploy replaces    *)
(* its container; the watcher can die and is restarted.                    *)
(***************************************************************************)
EXTENDS Naturals, Sequences

CONSTANTS Threads,          \* updates being handled at the same time
          MaxRequests,      \* confirmations the owner asks for
          MaxDeployFaults,  \* watcher deaths and unusable containers, together
          Nothing           \* no token, request or id

VARIABLES token,           \* _CONFIRMATIONS[owner]
          tokens,          \* confirmations prepared so far
          pendingRequest,  \* pending.json
          status,          \* status.json: [state, id, fresh]
          thread,          \* [pc, op, id]: a handler in the application
          watcher,         \* [pc, id]
          up,              \* the application's container runs
          requests,        \* requests written: token of each
          deployed,        \* how often a request's deploy ended well
          deployFaults

deployVars == <<token, tokens, pendingRequest, status, thread, watcher, up,
                requests, deployed, deployFaults>>

Ids == 1 .. MaxRequests
NoStatus == [state |-> "none", id |-> Nothing, fresh |-> TRUE]
Free == [pc |-> "free", op |-> Nothing, id |-> Nothing, tok |-> Nothing]
Resting == [pc |-> "rest", id |-> Nothing]

DeployInit ==
    /\ token = Nothing /\ tokens = 0 /\ pendingRequest = Nothing /\ status = NoStatus
    /\ thread = [t \in Threads |-> Free] /\ watcher = Resting
    /\ up = TRUE /\ requests = <<>> /\ deployed = [r \in Ids |-> 0]
    /\ deployFaults = 0

Go(t, next) == thread' = [thread EXCEPT ![t] = next]
Active(s) == s.state \in {"queued", "running"}

----------------------------------------------------------------------------
(* The owner's updates.                                                    *)
----------------------------------------------------------------------------
\* prepare_confirmation: a new token replaces the old one, then read_status.
Prepare(t) ==
    /\ up /\ thread[t] = Free /\ tokens < MaxRequests
    /\ tokens' = tokens + 1 /\ token' = tokens + 1
    /\ Go(t, [Free EXCEPT !.pc = "status", !.op = "prepare"])
    /\ UNCHANGED <<pendingRequest, status, watcher, up, requests, deployed,
                   deployFaults>>

Status(t) ==
    /\ up /\ thread[t] = Free
    /\ Go(t, [Free EXCEPT !.pc = "status", !.op = "status"])
    /\ UNCHANGED <<token, tokens, pendingRequest, status, watcher, up, requests,
                   deployed, deployFaults>>

ConfirmKeepsToken(t) ==
    /\ up /\ thread[t] = Free /\ token # Nothing
    /\ Go(t, [Free EXCEPT !.pc = "status", !.op = "confirm", !.tok = token])
    /\ UNCHANGED <<token, tokens, pendingRequest, status, watcher, up, requests,
                   deployed, deployFaults>>

\* confirm_deployment: the token is popped, used or not.
Confirm(t) ==
    /\ up /\ thread[t] = Free /\ token # Nothing
    /\ token' = Nothing
    /\ Go(t, [Free EXCEPT !.pc = "status", !.op = "confirm", !.tok = token])
    /\ UNCHANGED <<tokens, pendingRequest, status, watcher, up, requests,
                   deployed, deployFaults>>

\* cancel_confirmation, or a confirmation with an old or expired token.
Cancel ==
    /\ up /\ token # Nothing
    /\ token' = Nothing
    /\ UNCHANGED <<tokens, pendingRequest, status, thread, watcher, up,
                   requests, deployed, deployFaults>>

\* read_status: an active status without a fresh heartbeat is terminalized.
ReadStatus(t) ==
    /\ thread[t].pc = "status"
    /\ Go(t, IF Active(status) /\ ~status.fresh
             THEN [thread[t] EXCEPT !.pc = "close", !.id = status.id]
             ELSE IF thread[t].op = "confirm" /\ ~Active(status)
             THEN [thread[t] EXCEPT !.pc = "exists"]
             ELSE Free)
    /\ UNCHANGED <<token, tokens, pendingRequest, status, watcher, up, requests,
                   deployed, deployFaults>>

CloseStatus(t) ==
    /\ thread[t].pc = "close"
    /\ status' = [state |-> "timeout", id |-> thread[t].id, fresh |-> TRUE]
    /\ Go(t, [thread[t] EXCEPT !.pc = "match"])
    /\ UNCHANGED <<token, tokens, pendingRequest, watcher, up, requests,
                   deployed, deployFaults>>

MatchPending(t) ==
    LET on == IF thread[t].op = "confirm"
              THEN [thread[t] EXCEPT !.pc = "exists", !.id = Nothing] ELSE Free IN
    /\ thread[t].pc = "match"
    /\ Go(t, IF pendingRequest = thread[t].id THEN [thread[t] EXCEPT !.pc = "unlink"]
             ELSE on)
    /\ UNCHANGED <<token, tokens, pendingRequest, status, watcher, up, requests,
                   deployed, deployFaults>>

UnlinkPending(t) ==
    /\ thread[t].pc = "unlink"
    /\ pendingRequest' = Nothing
    /\ Go(t, IF thread[t].op = "confirm"
             THEN [thread[t] EXCEPT !.pc = "exists", !.id = Nothing] ELSE Free)
    /\ UNCHANGED <<token, tokens, status, watcher, up, requests, deployed,
                   deployFaults>>

\* A request is written when none was seen, then its status.
CheckPending(t) ==
    /\ thread[t].pc = "exists"
    /\ Go(t, IF pendingRequest # Nothing THEN Free ELSE [thread[t] EXCEPT !.pc = "write"])
    /\ UNCHANGED <<token, tokens, pendingRequest, status, watcher, up, requests,
                   deployed, deployFaults>>

WriteRequest(t) ==
    /\ thread[t].pc = "write"
    /\ requests' = Append(requests, thread[t].tok)
    /\ pendingRequest' = Len(requests')
    /\ Go(t, [thread[t] EXCEPT !.pc = "queued", !.id = Len(requests')])
    /\ UNCHANGED <<token, tokens, status, watcher, up, deployed, deployFaults>>

WriteQueued(t) ==
    /\ thread[t].pc = "queued"
    /\ status' = [state |-> "queued", id |-> thread[t].id, fresh |-> TRUE]
    /\ Go(t, Free)
    /\ UNCHANGED <<token, tokens, pendingRequest, watcher, up, requests,
                   deployed, deployFaults>>

----------------------------------------------------------------------------
(* The watcher: one request at a time.                                     *)
----------------------------------------------------------------------------
Put(state, id) ==
    status' = IF up THEN [state |-> state, id |-> id, fresh |-> TRUE] ELSE status

ReadRequest ==
    /\ up /\ watcher = Resting /\ pendingRequest # Nothing
    /\ watcher' = [pc |-> "validate", id |-> pendingRequest]
    /\ UNCHANGED <<token, tokens, pendingRequest, status, thread, up, requests,
                   deployed, deployFaults>>

\* process_request: a request that waited too long is refused.
Validate ==
    /\ watcher.pc = "validate"
    /\ \/ Put("failed", watcher.id) /\ watcher' = [watcher EXCEPT !.pc = "remove"]
       \/ /\ IF up THEN watcher' = [watcher EXCEPT !.pc = "deploy"]
             ELSE watcher' = Resting
          /\ Put("running", watcher.id)
    /\ UNCHANGED <<token, tokens, pendingRequest, thread, up, requests,
                   deployed, deployFaults>>

\* The deploy replaces the container: the handlers in it are gone.
Replace ==
    /\ watcher.pc = "deploy" /\ up
    /\ up' = FALSE /\ token' = Nothing
    /\ thread' = [t \in Threads |-> Free]
    /\ UNCHANGED <<tokens, pendingRequest, status, watcher, requests, deployed,
                   deployFaults>>

\* The deploy or its rollback starts the container; one it leaves stopped is
\* started by the restart policy or by hand.
Started ==
    /\ ~up
    /\ up' = TRUE
    /\ UNCHANGED <<token, tokens, pendingRequest, status, thread, watcher,
                   requests, deployed, deployFaults>>

Heartbeat ==
    /\ watcher.pc = "deploy" /\ up /\ ~status.fresh
    /\ Put("running", watcher.id)
    /\ UNCHANGED <<token, tokens, pendingRequest, thread, watcher, up, requests,
                   deployed, deployFaults>>

\* No heartbeat can be written while the container is down, or by a dead watcher.
Silence ==
    /\ Active(status) /\ status.fresh
    /\ ~up \/ watcher = Resting
    /\ status' = [status EXCEPT !.fresh = FALSE]
    /\ UNCHANGED <<token, tokens, pendingRequest, thread, watcher, up, requests,
                   deployed, deployFaults>>

\* A deploy that leaves the container down cannot say so, nor remove its
\* request: the watcher takes it up again, which a request's age bounds.
DeployEnds ==
    /\ watcher.pc = "deploy"
    /\ \/ /\ up /\ Put("failed", watcher.id)
          /\ UNCHANGED <<deployed, deployFaults>>
       \/ /\ up /\ Put("success", watcher.id)
          /\ deployed' = [deployed EXCEPT ![watcher.id] = @ + 1]
          /\ UNCHANGED deployFaults
       \/ /\ ~up /\ deployFaults < MaxDeployFaults
          /\ deployFaults' = deployFaults + 1
          /\ UNCHANGED <<status, deployed>>
    /\ watcher' = [watcher EXCEPT !.pc = "remove"]
    /\ UNCHANGED <<token, tokens, pendingRequest, thread, up, requests>>

\* remove_request deletes pending.json whatever it holds.
RemoveRequest ==
    /\ watcher.pc = "remove"
    /\ pendingRequest' = IF up THEN Nothing ELSE pendingRequest
    /\ watcher' = Resting
    /\ UNCHANGED <<token, tokens, status, thread, up, requests, deployed,
                   deployFaults>>

\* The watcher dies with its deploy.
WatcherDies ==
    /\ deployFaults < MaxDeployFaults /\ watcher # Resting
    /\ deployFaults' = deployFaults + 1
    /\ watcher' = Resting
    /\ UNCHANGED <<token, tokens, pendingRequest, status, thread, up, requests,
                   deployed>>

----------------------------------------------------------------------------
Handler(t) == \/ ReadStatus(t) \/ CloseStatus(t) \/ MatchPending(t)
              \/ UnlinkPending(t) \/ CheckPending(t) \/ WriteRequest(t)
              \/ WriteQueued(t)

Watch == \/ ReadRequest \/ Validate \/ Started \/ DeployEnds \/ RemoveRequest

DeployNext ==
    \/ \E t \in Threads : Prepare(t) \/ Confirm(t) \/ Status(t) \/ Handler(t)
    \/ Cancel \/ Watch \/ Replace \/ Heartbeat \/ Silence \/ WatcherDies

DeploySpec == DeployInit /\ [][DeployNext]_deployVars

\* The watcher polls for ever, the deploy is bounded by a timeout and ends.
DeployFairSpec == DeploySpec /\ WF_deployVars(Watch) /\ SF_deployVars(DeployEnds)
----------------------------------------------------------------------------
DeployTypeOK ==
    /\ pendingRequest \in {Nothing} \union (1 .. Len(requests))
    /\ status.id \in {Nothing} \union (1 .. Len(requests))
    /\ tokens <= MaxRequests

\* A confirmation starts one request, however often its button is pressed.
TokenOnce ==
    \A i, j \in 1 .. Len(requests) : requests[i] = requests[j] => i = j

\* The owner is told "success" for a request only after its deploy succeeded.
SuccessIsTrue ==
    status.state = "success" => deployed[status.id] > 0

\* What the owner is promised of a deployment.
DeployIsConfirmed == DeployTypeOK /\ TokenOnce /\ SuccessIsTrue

\* A request does not stay in the queue.
RequestLeaves == \A r \in Ids : pendingRequest = r ~> pendingRequest # r

=============================================================================
