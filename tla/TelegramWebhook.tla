---------------------------- MODULE TelegramWebhook ----------------------------
(***************************************************************************)
(* The Telegram webhook (dashboard/telegram_webhook_api.py), its claim of  *)
(* update ids (dashboard/telegram_update_idempotency.py), the binding of a *)
(* Telegram identity to an account (dashboard/telegram_identity.py) and    *)
(* the first claim of the owner's phone (telegram_deploy_control.py).      *)
(* Telegram delivers an update until it is answered; the application may   *)
(* restart, and the database may fail before or after a commit.            *)
(*                                                                         *)
(* A first binding has no row to lock: on PostgreSQL another first writer, *)
(* which looked before the row was there, may replace it under version 1   *)
(* (storage/project_database.py:295-317).  rebound holds the identities it *)
(* happened to; on SQLite there are none.                                  *)
(***************************************************************************)
EXTENDS Naturals, FiniteSets

CONSTANTS Plain, Qualified, Dev,  \* messages, /command@bot, devfix callbacks
          Workers,                \* requests handled at the same time
          Subjects, Users,        \* Telegram identities and website accounts
          Chats,                  \* chats the expected owner may claim from
          MaxWebhookFaults,       \* restarts, database and Telegram failures
          Nobody                  \* no update, user or holder

VARIABLES claimed,                \* update ids in the event store
          acked,                  \* updates Telegram will not deliver again
          dup,                    \* updates answered as duplicates
          handled,                \* how often an update was processed
          queue,                  \* background tasks of the running process
          worker,                 \* [pc, update]
          name,                   \* [known, cooling, holder]: the bot's username cache
          calls,                  \* getMe calls in the current cooldown
          owner, code, claimer,   \* owner.json, claim.json, claims under way
          bound, session, login,  \* identities, sessions issued, logins
          rebound,                \* history: identities whose binding was replaced
          webhookFaults

updates == <<claimed, acked, dup, handled, queue, worker>>
username == <<name, calls>>
owning == <<owner, code, claimer>>
identity == <<bound, session, login, rebound>>
webhookVars == <<claimed, acked, dup, handled, queue, worker, name, calls,
                 owner, code, claimer, bound, session, login, rebound, webhookFaults>>

Updates == Plain \union Qualified \union Dev
FreeWorker == [pc |-> "free", update |-> Nobody]
NoName == [known |-> FALSE, cooling |-> FALSE, holder |-> Nobody]
Logins == [t : Subjects, user : Users \union {Nobody}]  \* Mini App logins

WebhookInit ==
    /\ claimed = {} /\ acked = {} /\ dup = {} /\ handled = [u \in Updates |-> 0]
    /\ queue = {} /\ worker = [w \in Workers |-> FreeWorker] /\ name = NoName /\ calls = 0
    /\ owner = Nobody /\ code = TRUE /\ claimer = [c \in Chats |-> "idle"]
    /\ bound = [t \in Subjects |-> Nobody] /\ session = {}
    /\ login = [r \in Logins |-> "idle"] /\ rebound = {} /\ webhookFaults = 0

WorkerGoes(w, pc) == worker' = [worker EXCEPT ![w].pc = pc]
Answer(w) == worker' = [worker EXCEPT ![w] = FreeWorker]
             /\ acked' = acked \union {worker[w].update}
Fails == webhookFaults < MaxWebhookFaults /\ webhookFaults' = webhookFaults + 1

----------------------------------------------------------------------------
(* An update.                                                              *)
----------------------------------------------------------------------------
Deliver(w, u) ==
    /\ worker[w] = FreeWorker /\ u \notin acked
    /\ worker' = [worker EXCEPT ![w] = [pc |-> IF u \in Qualified THEN "name" ELSE "claim",
                                        update |-> u]]
    /\ UNCHANGED <<claimed, acked, dup, handled, queue, username, owning,
                   identity, webhookFaults>>

Ask(w) ==
    /\ worker[w].pc = "name"
    /\ \/ name.known /\ WorkerGoes(w, "claim") /\ UNCHANGED <<acked, username>>
       \/ ~name.known /\ name.holder = Nobody /\ name.cooling /\ Answer(w)
          /\ UNCHANGED username
       \/ ~name.known /\ name.holder # Nobody /\ Answer(w)   \* lock wait timed out
          /\ UNCHANGED username
       \/ /\ ~name.known /\ name.holder = Nobody /\ ~name.cooling
          /\ name' = [name EXCEPT !.holder = w, !.cooling = TRUE]
          /\ calls' = calls + 1
          /\ WorkerGoes(w, "getMe") /\ UNCHANGED acked
    /\ UNCHANGED <<claimed, dup, handled, queue, owning, identity,
                   webhookFaults>>

GetMe(w) ==
    /\ worker[w].pc = "getMe"
    /\ \/ /\ name' = [name EXCEPT !.known = TRUE, !.holder = Nobody]
          /\ WorkerGoes(w, "claim") /\ UNCHANGED <<acked, webhookFaults>>
       \/ Fails /\ name' = [name EXCEPT !.holder = Nobody] /\ Answer(w)
    /\ UNCHANGED <<claimed, dup, handled, queue, calls, owning, identity>>

\* The cooldown is longer than a call's timeouts.
CooldownEnds ==
    /\ name.cooling /\ name.holder = Nobody
    /\ name' = [name EXCEPT !.cooling = FALSE] /\ calls' = 0
    /\ UNCHANGED <<updates, owning, identity, webhookFaults>>

ClaimAnyway(w) ==
    /\ worker[w].pc = "claim"
    /\ claimed' = claimed \union {worker[w].update}
    /\ WorkerGoes(w, "route") /\ UNCHANGED <<acked, dup, webhookFaults>>
    /\ UNCHANGED <<handled, queue, username, owning, identity>>

\* claim_telegram_update: the event id is unique; an exception is a duplicate
\* when the event is found, otherwise the request fails and is delivered again.
ClaimUpdate(w) ==
    LET u == worker[w].update IN
    /\ worker[w].pc = "claim"
    /\ \/ /\ u \notin claimed
          /\ claimed' = claimed \union {u}
          /\ \/ WorkerGoes(w, "route") /\ UNCHANGED <<acked, dup, webhookFaults>>
             \/ Fails /\ Answer(w) /\ dup' = dup \union {u}
       \/ /\ u \in claimed
          /\ Answer(w) /\ dup' = dup \union {u} /\ UNCHANGED <<claimed, webhookFaults>>
       \/ /\ Fails
          /\ worker' = [worker EXCEPT ![w] = FreeWorker]
          /\ UNCHANGED <<claimed, acked, dup>>
    /\ UNCHANGED <<handled, queue, username, owning, identity>>

\* An unapproved sender is ignored; a devfix callback is handled before the
\* answer, everything else after it.
Route(w) ==
    LET u == worker[w].update IN
    /\ worker[w].pc = "route"
    /\ \/ Answer(w) /\ UNCHANGED <<queue, handled, webhookFaults>>
       \/ u \notin Dev /\ Answer(w) /\ queue' = queue \union {u}
          /\ UNCHANGED <<handled, webhookFaults>>
       \/ u \in Dev /\ Answer(w) /\ handled' = [handled EXCEPT ![u] = @ + 1]
          /\ UNCHANGED <<queue, webhookFaults>>
       \/ /\ u \in Dev /\ Fails
          /\ worker' = [worker EXCEPT ![w] = FreeWorker]
          /\ UNCHANGED <<acked, queue, handled>>
    /\ UNCHANGED <<claimed, dup, username, owning, identity>>

\* _process_update_safely: an error is printed, the update is not kept.
Process(u) ==
    /\ u \in queue
    /\ queue' = queue \ {u} /\ handled' = [handled EXCEPT ![u] = @ + 1]
    /\ UNCHANGED <<claimed, acked, dup, worker, username, owning, identity,
                   webhookFaults>>

Restart ==
    /\ Fails
    /\ worker' = [w \in Workers |-> FreeWorker] /\ queue' = {} /\ name' = NoName
    /\ calls' = 0
    /\ claimer' = [c \in Chats |-> "idle"] /\ login' = [r \in Logins |-> "idle"]
    /\ UNCHANGED <<claimed, acked, dup, handled, owner, code, bound, session, rebound>>

----------------------------------------------------------------------------
(* The owner's phone: owner.json is looked for, then claim.json is read,   *)
(* then owner.json is written and claim.json removed.                      *)
----------------------------------------------------------------------------
ClaimOwner(c) ==
    /\ \/ claimer[c] = "idle" /\ owner = Nobody
          /\ claimer' = [claimer EXCEPT ![c] = "code"] /\ UNCHANGED <<owner, code>>
       \/ claimer[c] = "code"
          /\ claimer' = [claimer EXCEPT ![c] = IF code THEN "write" ELSE "idle"]
          /\ UNCHANGED <<owner, code>>
       \/ claimer[c] = "write" /\ owner' = c
          /\ claimer' = [claimer EXCEPT ![c] = "unlink"] /\ UNCHANGED code
       \/ claimer[c] = "unlink" /\ code' = FALSE
          /\ claimer' = [claimer EXCEPT ![c] = "idle"] /\ UNCHANGED owner
    /\ UNCHANGED <<updates, username, identity, webhookFaults>>

----------------------------------------------------------------------------
(* A Mini App login r: Telegram subject r.t, website user r.user or None.  *)
----------------------------------------------------------------------------
LogIn(r, pc) == login' = [login EXCEPT ![r] = pc]
Issue(r, user) == session' = session \union {[t |-> r.t, user |-> user]}
                  /\ LogIn(r, "done")

Authenticate(r) ==
    /\ login[r] = "idle"
    /\ IF bound[r.t] = Nobody
       THEN LogIn(r, IF r.user = Nobody THEN "done" ELSE "bind") /\ UNCHANGED session
       ELSE IF r.user \in {Nobody, bound[r.t]} THEN Issue(r, bound[r.t])
       ELSE LogIn(r, "done") /\ UNCHANGED session
    /\ UNCHANGED <<updates, username, owning, bound, rebound, webhookFaults>>

BindRead(r) ==
    /\ login[r] = "bind"
    /\ IF bound[r.t] = Nobody THEN LogIn(r, "put") /\ UNCHANGED session
       ELSE IF bound[r.t] = r.user THEN Issue(r, r.user)
       ELSE LogIn(r, "done") /\ UNCHANGED session
    /\ UNCHANGED <<updates, username, owning, bound, rebound, webhookFaults>>

\* The put finds no row, or on PostgreSQL found none when it looked.
BindPut(r) ==
    /\ login[r] = "put"
    /\ \/ /\ bound' = [bound EXCEPT ![r.t] = r.user] /\ Issue(r, r.user)
          /\ rebound' = IF bound[r.t] \in {Nobody, r.user} THEN rebound
                        ELSE rebound \union {r.t}
       \/ /\ bound[r.t] # Nobody
          /\ UNCHANGED <<bound, session, rebound>> /\ LogIn(r, "reread")
    /\ UNCHANGED <<updates, username, owning, webhookFaults>>

BindReread(r) ==
    /\ login[r] = "reread"
    /\ IF bound[r.t] = r.user THEN Issue(r, r.user)
       ELSE LogIn(r, "done") /\ UNCHANGED session
    /\ UNCHANGED <<updates, username, owning, bound, rebound, webhookFaults>>

----------------------------------------------------------------------------
WebhookNext ==
    \/ \E w \in Workers : \/ \E u \in Updates : Deliver(w, u)
                          \/ Ask(w) \/ GetMe(w) \/ ClaimUpdate(w) \/ Route(w)
    \/ \E u \in Updates : Process(u)
    \/ \E c \in Chats : ClaimOwner(c)
    \/ \E r \in Logins : Authenticate(r) \/ BindRead(r) \/ BindPut(r) \/ BindReread(r)
    \/ CooldownEnds \/ Restart

WebhookSpec == WebhookInit /\ [][WebhookNext]_webhookVars
----------------------------------------------------------------------------
WebhookTypeOK ==
    /\ claimed \subseteq Updates /\ acked \subseteq Updates /\ queue \subseteq Updates
    /\ name.holder \in {Nobody} \union Workers
    /\ bound \in [Subjects -> Users \union {Nobody}]
    /\ owner \in {Nobody} \union Chats

\* Whatever Telegram delivers again and whenever the application restarts, an
\* update is processed at most once.
HandledOnce == \A u \in Updates : handled[u] <= 1

\* "Set before I/O so exceptions also remain bounded": one getMe per cooldown.
AskedOnce == calls <= 1

\* A session for a Telegram subject is a session of the account it is bound to,
\* and stays one: a binding is never moved to another account, except by a first
\* writer that met another on PostgreSQL.
SessionBound == \A s \in session : s.t \in rebound \/ bound[s.t] = s.user

\* What the webhook promises: updates, getMe calls and sessions, each once.
UpdatesOnce == WebhookTypeOK /\ HandledOnce /\ AskedOnce /\ SessionBound
=============================================================================
