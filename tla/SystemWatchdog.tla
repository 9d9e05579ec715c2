---------------------------- MODULE SystemWatchdog ----------------------------
(***************************************************************************)
(* The health watchdog (dashboard/system_watchdog.py): each tick goes      *)
(* through the components of a health snapshot and runs a registered       *)
(* callback for an unhealthy one, a bounded number of times in a sliding   *)
(* window; then the circuit opens and the component is in safe mode.       *)
(* Ticks come from the watchdog's thread and from the HTTP route and take  *)
(* no lock; a route resets a component.                                    *)
(***************************************************************************)
EXTENDS Integers, Sequences, FiniteSets

CONSTANTS Threads,                 \* where ticks run
          Recoverable,             \* components with a safe action
          Forbidden, Other,        \* never recovered; without a safe action
          MaxAttempts, Window, Cooldown,
          MaxTime, MaxTicks

Components == Recoverable \union Forbidden \union Other
Statuses == {"healthy", "degraded", "blocked"}

VARIABLES now, ticks,
          attempts,   \* times of the callbacks in the window, oldest first
          lastAttempt, lastStatus, safe,
          at,         \* where each tick is, and what is left of its snapshot
          ran,        \* history: the callbacks decided since the last reset
          met         \* history: components that two ticks handled at once

vars == <<now, ticks, attempts, lastAttempt, lastStatus, safe, at, ran, met>>

\* A tick holds the deque it checked until a reset drops that deque.
Idle == [pc |-> "idle", left |-> {}, c |-> "none", status |-> "none",
         previous |-> "none", time |-> 0, dropped |-> FALSE]
Between(left) == [Idle EXCEPT !.pc = "next", !.left = left]
Handles(t, c) == at[t].pc \in {"seen", "attempt", "run", "ran"} /\ at[t].c = c

Init ==
    /\ now = 0 /\ ticks = 0
    /\ attempts = [c \in Components |-> <<>>]
    /\ lastAttempt = [c \in Components |-> -1]
    /\ lastStatus = [c \in Components |-> "none"]
    /\ safe = {}
    /\ at = [t \in Threads |-> Idle]
    /\ ran = [c \in Components |-> <<>>]
    /\ met = {}

Clock == /\ now < MaxTime /\ now' = now + 1
         /\ UNCHANGED <<ticks, attempts, lastAttempt, lastStatus, safe, at, ran,
                        met>>

\* tick: the snapshot of the health center. It may say anything of each
\* component; which, is chosen where the tick comes to that component.
Snapshot(t) ==
    /\ at[t].pc = "idle" /\ ticks < MaxTicks /\ ticks' = ticks + 1
    /\ at' = [at EXCEPT ![t] = Between(Components)]
    /\ UNCHANGED <<now, attempts, lastAttempt, lastStatus, safe, ran, met>>

CooldownElapsed(c) ==
    lastAttempt[c] = -1 \/ now - lastAttempt[c] >= Cooldown

\* One component of the snapshot: its status is compared with the last one.
Look(t) ==
    /\ at[t].pc = "next"
    /\ \E c \in at[t].left, s \in Statuses :
        /\ lastStatus' = [lastStatus EXCEPT ![c] = s]
        /\ at' = [at EXCEPT ![t] =
                  [@ EXCEPT !.left = @ \ {c}, !.c = c, !.pc = "seen",
                            !.status = s, !.previous = lastStatus[c]]]
        /\ met' = IF \E u \in Threads : Handles(u, c) THEN met \union {c} ELSE met
    /\ UNCHANGED <<now, ticks, attempts, lastAttempt, safe, ran>>

Wanted(t, c, s) ==
    /\ s # "healthy" /\ c \notin Forbidden
    /\ s # at[t].previous \/ CooldownElapsed(c)

\* A healthy one leaves safe mode, a forbidden one is only advised about, an
\* unchanged one waits for its cooldown.
Consider(t) ==
    LET c == at[t].c
        s == at[t].status IN
    /\ at[t].pc = "seen"
    /\ safe' = IF s = "healthy" THEN safe \ {c}
               ELSE IF s = "blocked" /\ c \in Forbidden
               THEN safe \union {c} ELSE safe
    /\ at' = [at EXCEPT ![t] = IF Wanted(t, c, s)
                               THEN [@ EXCEPT !.pc = "attempt"]
                               ELSE Between(@.left)]
    /\ UNCHANGED <<now, ticks, attempts, lastAttempt, lastStatus, ran, met>>

\* Old attempts leave the deque from its front.
Pruned(s) ==
    LET young == {i \in DOMAIN s : now - s[i] <= Window} IN
    IF young = {} THEN <<>>
    ELSE SubSeq(s, CHOOSE i \in young : \A j \in young : i <= j, Len(s))

\* Without a safe action there is nothing to attempt.
NoAction(t) ==
    /\ at[t].pc = "attempt" /\ at[t].c \in Other
    /\ at' = [at EXCEPT ![t] = Between(@.left)]
    /\ UNCHANGED <<now, ticks, attempts, lastAttempt, lastStatus, safe, ran,
                   met>>

CheckOneMore(t) ==
    LET c == at[t].c
        open == Len(Pruned(attempts[c])) > MaxAttempts IN
    /\ at[t].pc = "attempt" /\ c \in Recoverable
    /\ attempts' = [attempts EXCEPT ![c] = Pruned(@)]
    /\ safe' = IF open THEN safe \union {c} ELSE safe
    /\ \E registered \in BOOLEAN :
           at' = [at EXCEPT ![t] = IF open \/ ~registered THEN Between(@.left)
                                   ELSE [@ EXCEPT !.pc = "run", !.time = now]]
    /\ UNCHANGED <<now, ticks, lastAttempt, lastStatus, ran, met>>

\* _attempt_component: old attempts leave the window; with the window full
\* the circuit opens; without a registered callback nothing is attempted.
Check(t) ==
    LET c == at[t].c
        open == Len(Pruned(attempts[c])) >= MaxAttempts IN
    /\ at[t].pc = "attempt" /\ c \in Recoverable
    /\ attempts' = [attempts EXCEPT ![c] = Pruned(@)]
    /\ safe' = IF open THEN safe \union {c} ELSE safe
    /\ \E registered \in BOOLEAN :
           at' = [at EXCEPT ![t] = IF open \/ ~registered THEN Between(@.left)
                                   ELSE [@ EXCEPT !.pc = "run", !.time = now]]
    /\ UNCHANGED <<now, ticks, lastAttempt, lastStatus, ran, met>>

\* The attempt is counted in the deque that was checked, and the callback
\* runs.
Run(t) ==
    LET c == at[t].c
        more(s) == IF at[t].dropped THEN s ELSE Append(s, at[t].time) IN
    /\ at[t].pc = "run"
    /\ attempts' = [attempts EXCEPT ![c] = more(@)]
    /\ ran' = [ran EXCEPT ![c] = more(@)]
    /\ lastAttempt' = [lastAttempt EXCEPT ![c] = at[t].time]
    /\ at' = [at EXCEPT ![t].pc = "ran"]
    /\ UNCHANGED <<now, ticks, lastStatus, safe, met>>

\* A failure that fills the window opens the circuit; whether the deque that a
\* reset has dropped meanwhile is full is left open.
CallbackEnds(t) ==
    LET c == at[t].c IN
    /\ at[t].pc = "ran"
    /\ \/ UNCHANGED safe
       \/ /\ Len(attempts[c]) >= MaxAttempts \/ at[t].dropped
          /\ safe' = safe \union {c}
    /\ at' = [at EXCEPT ![t] = Between(@.left)]
    /\ UNCHANGED <<now, ticks, attempts, lastAttempt, lastStatus, ran, met>>

TickEnds(t) ==
    /\ at[t].pc = "next" /\ at[t].left = {}
    /\ at' = [at EXCEPT ![t] = Idle]
    /\ UNCHANGED <<now, ticks, attempts, lastAttempt, lastStatus, safe, ran,
                   met>>

\* reset_component.
Reset(c) ==
    /\ attempts[c] # <<>> \/ c \in safe
    /\ at' = [t \in Threads |->
               [at[t] EXCEPT !.dropped = @ \/ (at[t].pc \in {"run", "ran"}
                                                /\ at[t].c = c)]]
    /\ attempts' = [attempts EXCEPT ![c] = <<>>]
    /\ lastAttempt' = [lastAttempt EXCEPT ![c] = -1]
    /\ safe' = safe \ {c}
    /\ ran' = [ran EXCEPT ![c] = <<>>]
    /\ UNCHANGED <<now, ticks, lastStatus, met>>

Next ==
    \/ Clock
    \/ \E c \in Components : Reset(c)
    \/ \E t \in Threads : \/ Snapshot(t) \/ Look(t) \/ Consider(t)
                          \/ NoAction(t) \/ Check(t)
                          \/ Run(t) \/ CallbackEnds(t) \/ TickEnds(t)

Spec == Init /\ [][Next]_vars
----------------------------------------------------------------------------
TypeOK ==
    /\ safe \subseteq Components
    /\ \A c \in Components : /\ attempts[c] \in Seq(0..MaxTime)
                             /\ lastAttempt[c] \in -1..MaxTime
                             /\ lastStatus[c] \in Statuses \union {"none"}
    /\ \A c \in Forbidden \union Other : ran[c] = <<>>

\* "Apply bounded safe callbacks": since the last reset of a component, no
\* window holds more than MaxAttempts of its callbacks, whichever ticks ran
\* them, unless two ticks handled that component at once.
AttemptsBounded ==
    \A c \in Components \ met : \A i \in DOMAIN ran[c] :
        Cardinality({j \in DOMAIN ran[c] :
                        ran[c][j] \in ran[c][i]..(ran[c][i] + Window)})
            <= MaxAttempts

\* Safe mode is explained by what the watchdog last saw: a component that was
\* healthy when it was last looked at is not in it, but for the tick that has
\* just seen it so, and unless two ticks handled it at once.
SafeModeIsCurrent ==
    \A c \in safe \ met :
        lastStatus[c] # "healthy"
            \/ \E t \in Threads : at[t].pc = "seen" /\ at[t].c = c
=============================================================================
