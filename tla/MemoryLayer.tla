------------------------------ MODULE MemoryLayer ------------------------------
(***************************************************************************)
(* The memory layer: raw logs (L0), the worker that extracts facts (L1)    *)
(* from them and verifies each against what is known, the owner-approved   *)
(* activation of a fact, and the circuit breaker around all of it          *)
(* (memory_engine/service.py, repository.py, verification.py, runtime.py   *)
(* and dashboard/memory_api.py).  What the language model extracts from a  *)
(* log is a choice and may differ when a log is read again after a crash.  *)
(***************************************************************************)
EXTENDS Naturals, Sequences, FiniteSets

CONSTANTS NumLogs,     \* raw logs, in the order they were recorded
          Contents,    \* what facts can say
          Opposed,     \* contents that contradict each other
          Dangerous,   \* contents that would weaken the financial controls
          MaxFailures, \* settings.max_consecutive_failures
          MaxDecisions,  \* activations the owner decides on
          Configured,  \* the modes the first process may find
          Limit,       \* settings.search_candidate_limit
          MaxFaults,   \* crashes and failures, together
          None

VARIABLES mode,     \* of the process: extraction on, refused by the provider policy, or off
          log,      \* status of each raw log
          fact,     \* status of each fact <<log, content>>
          worker,   \* [pc, batch, todo, cur, verdict]
          fails, open,   \* the circuit breaker
          dec,      \* owner decisions memory_fact_activation
          act,      \* activations under way: fact -> status read
          faults

breaker == <<fails, open>>
vars == <<mode, log, fact, worker, fails, open, dec, act, faults>>

Logs == 1 .. NumLogs
Facts == Logs \X Contents
Known == {"VERIFIED", "ACTIVE"}
Ended == {"REVOKED", "SUPERSEDED"}
Modes == {"on", "blocked", "off"}
Rest == [pc |-> "rest", batch |-> <<>>, todo |-> {}, cur |-> None, verdict |-> None]

\* _ALLOWED_TRANSITIONS
Allowed(from, to) ==
    \/ from = "EXTRACTED" /\ to \in {"VERIFIED"} \union Ended
    \/ from = "VERIFIED" /\ to \in {"ACTIVE"} \union Ended
    \/ from = "ACTIVE" /\ to \in Ended

Init ==
    /\ mode \in Configured
    /\ log = [l \in Logs |-> "none"] /\ fact = [f \in Facts |-> "none"]
    /\ worker = Rest /\ fails = 0 /\ open = FALSE
    /\ dec = [f \in Facts |-> "none"] /\ act = [f \in Facts |-> None] /\ faults = 0

Succeed == fails' = 0 /\ UNCHANGED open
Fail == fails' = (IF fails < MaxFailures THEN fails + 1 ELSE fails)
        /\ open' = (open \/ fails + 1 >= MaxFailures)
Fault == faults < MaxFaults /\ faults' = faults + 1

----------------------------------------------------------------------------
(* record_dialog                                                           *)
----------------------------------------------------------------------------

Record(l) ==
    /\ log[l] = "none" /\ ~open /\ \A k \in 1 .. l - 1 : log[k] # "none"
    /\ \/ log' = [log EXCEPT ![l] = "PENDING"] /\ Succeed /\ UNCHANGED faults
       \/ Fault /\ Fail /\ UNCHANGED log
    /\ UNCHANGED <<mode, fact, worker, dec, act>>

----------------------------------------------------------------------------
(* extract_pending, by the one worker thread                               *)
----------------------------------------------------------------------------
Pending == {l \in Logs : log[l] = "PENDING"}
Oldest == CHOOSE s \in [1 .. Cardinality(Pending) -> Pending] :
              \A i, j \in DOMAIN s : i < j => s[i] < s[j]

List ==
    /\ worker = Rest /\ ~open /\ mode # "off" /\ Pending # {}
    /\ worker' = [Rest EXCEPT !.pc = "extract", !.batch = Oldest]
    /\ UNCHANGED <<mode, log, fact, breaker, dec, act, faults>>

Raw == Head(worker.batch)
NextLog == IF Len(worker.batch) = 1 THEN Rest
           ELSE [Rest EXCEPT !.pc = "extract", !.batch = Tail(worker.batch)]

\* The model's answer: no facts, or some.  A refusal by the provider policy, at
\* every cycle of the process, leaves this and every remaining log pending.
Extract ==
    /\ worker.pc = "extract"
    /\ \/ mode = "blocked" /\ worker' = Rest /\ UNCHANGED log
       \/ /\ mode = "on" /\ log' = [log EXCEPT ![Raw] = "SKIPPED"]
          /\ worker' = NextLog
       \/ /\ mode = "on"
          /\ \E found \in (SUBSET Contents) \ {{}} :
                worker' = [worker EXCEPT !.pc = "save", !.todo = found]
          /\ UNCHANGED log
    /\ UNCHANGED <<mode, fact, breaker, dec, act, faults>>

Cur == <<Raw, worker.cur>>
AfterFact == IF worker.todo = {} THEN [worker EXCEPT !.pc = "mark", !.cur = None, !.verdict = None]
             ELSE [worker EXCEPT !.pc = "save", !.cur = None, !.verdict = None]

\* save_fact: a fact that is stored already keeps its status.
SaveFact ==
    /\ worker.pc = "save"
    /\ \E c \in worker.todo :
           LET f == <<Raw, c>>
               w == [worker EXCEPT !.todo = @ \ {c}, !.cur = c] IN
           /\ fact' = [fact EXCEPT ![f] = IF @ = "none" THEN "EXTRACTED" ELSE @]
           /\ worker' = IF fact'[f] = "EXTRACTED" THEN [w EXCEPT !.pc = "verify"]
                        ELSE [w EXCEPT !.pc = IF w.todo = {} THEN "mark" ELSE "save",
                                       !.cur = None]
    /\ UNCHANGED <<mode, log, breaker, dec, act, faults>>

\* get_facts_by_agent: the limit cuts by a priority that the model gave.
Existing(f) ==
    LET known == {g \in Facts \ {f} : fact[g] \in Known} IN
    {s \in SUBSET known : Cardinality(s) = IF Cardinality(known) < Limit
                                          THEN Cardinality(known) ELSE Limit}

VerdictOfVerified(f, existing) ==
    LET c == f[2]
        known == {g[2] : g \in {h \in existing : fact[h] = "VERIFIED"}} IN
    IF c \in Dangerous THEN "REVOKED"
    ELSE IF c \in known THEN "SUPERSEDED"
    ELSE IF c \in Opposed /\ known \cap (Opposed \ {c}) # {} THEN "REVOKED"
    ELSE "VERIFIED"

\* FactVerifier.verify
Verdict(f, existing) ==
    LET c == f[2]
        known == {g[2] : g \in existing} IN
    IF c \in Dangerous THEN "REVOKED"
    ELSE IF c \in known THEN "SUPERSEDED"
    ELSE IF c \in Opposed /\ known \cap (Opposed \ {c}) # {} THEN "REVOKED"
    ELSE "VERIFIED"

Verify ==
    /\ worker.pc = "verify"
    /\ \E existing \in Existing(Cur) :
           worker' = [worker EXCEPT !.pc = "update", !.verdict = Verdict(Cur, existing)]
    /\ UNCHANGED <<mode, log, fact, breaker, dec, act, faults>>

\* update_fact_status: compare and set on the status that was read.
Updated(f, read, to) ==
    IF fact[f] = read /\ Allowed(read, to) THEN [fact EXCEPT ![f] = to] ELSE fact

Update ==
    /\ worker.pc = "update"
    /\ fact' = Updated(Cur, "EXTRACTED", worker.verdict)
    /\ worker' = AfterFact
    /\ UNCHANGED <<mode, log, breaker, dec, act, faults>>

Mark ==
    /\ worker.pc = "mark"
    /\ log' = [log EXCEPT ![Raw] = "PROCESSED"]
    /\ worker' = NextLog /\ Succeed
    /\ UNCHANGED <<mode, fact, dec, act, faults>>

\* Any exception marks the log as an error, if it can still be marked, and
\* counts for the breaker; an open breaker ends the cycle.
WorkerFails ==
    /\ worker # Rest /\ Fault
    /\ \/ log' = [log EXCEPT ![Raw] = "ERROR"] \/ UNCHANGED log
    /\ Fail
    /\ worker' = IF open' THEN Rest ELSE NextLog
    /\ UNCHANGED <<mode, fact, dec, act>>

CircuitResets ==
    /\ open /\ open' = FALSE
    /\ UNCHANGED <<mode, log, fact, worker, fails, dec, act, faults>>

----------------------------------------------------------------------------
(* Activation of a fact: the decision is read, then the fact, then it is   *)
(* updated.                                                                *)
----------------------------------------------------------------------------
Decide(f) ==
    /\ dec[f] = "none" /\ fact[f] # "none"
    /\ Cardinality({g \in Facts : dec[g] # "none"}) < MaxDecisions
    /\ dec' \in {[dec EXCEPT ![f] = "approved"], [dec EXCEPT ![f] = "rejected"]}
    /\ UNCHANGED <<mode, log, fact, worker, breaker, act, faults>>

Activate(f) ==
    /\ act[f] = None /\ ~open /\ dec[f] = "approved" /\ fact[f] = "VERIFIED"
    /\ act' = [act EXCEPT ![f] = fact[f]]
    /\ UNCHANGED <<mode, log, fact, worker, breaker, dec, faults>>

ActivateUpdate(f) ==
    /\ act[f] # None
    /\ fact' = Updated(f, act[f], "ACTIVE")
    /\ act' = [act EXCEPT ![f] = None]
    /\ UNCHANGED <<mode, log, worker, breaker, dec, faults>>

\* A restart may find another configuration.
Crash ==
    /\ Fault
    /\ mode' \in Modes
    /\ worker' = Rest /\ fails' = 0 /\ open' = FALSE
    /\ act' = [f \in Facts |-> None]
    /\ UNCHANGED <<log, fact, dec>>

Work == List \/ Extract \/ SaveFact \/ Verify \/ Update \/ Mark

Next == \/ \E l \in Logs : Record(l)
        \/ Work \/ WorkerFails \/ CircuitResets \/ Crash
        \/ \E f \in Facts : Decide(f) \/ Activate(f) \/ ActivateUpdate(f)

Spec == Init /\ [][Next]_vars

\* The worker polls for ever, and an open circuit closes after its time.
FairSpec == Spec /\ WF_vars(Work) /\ WF_vars(CircuitResets)
----------------------------------------------------------------------------
TypeOK ==
    /\ log \in [Logs -> {"none", "PENDING", "PROCESSED", "SKIPPED", "ERROR"}]
    /\ fact \in [Facts -> {"none", "EXTRACTED"} \union Known \union Ended]
    /\ fails \in 0 .. MaxFailures

\* What is known never says a thing twice or contradicts itself, as long as a
\* comparison covers it, also after a log was extracted again with other facts;
\* and it never weakens the financial controls.
KnownConsistent ==
    LET known == {f \in Facts : fact[f] \in Known} IN
    /\ Cardinality(known) <= Limit + 1 =>
          \A f, g \in known : f # g => f[2] # g[2] /\ ~{f[2], g[2]} \subseteq Opposed
    /\ \A f \in known : f[2] \notin Dangerous

\* A fact is active only when the owner approved it.
ActiveApproved == \A f \in Facts : fact[f] = "ACTIVE" => dec[f] = "approved"

\* A fact that was revoked or superseded stays so, also when the same log is
\* extracted again.
EndedStep == \A f \in Facts : fact[f] \in Ended => fact'[f] = fact[f]

\* A recorded log is extracted, skipped or marked as an error in the end, once
\* extraction is on and allowed for good; while it is not, the log stays pending.
LogEnds ==
    <>[](mode = "on") => \A l \in Logs : log[l] = "PENDING" ~> log[l] # "PENDING"
=============================================================================
