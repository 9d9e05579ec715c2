------------------------------ MODULE CouncilLoop ------------------------------
(***************************************************************************)
(* The council-authorized paper loop (autonomous_trading/council_loop.py   *)
(* on loop.py) with the decision runtime it asks (canonical_runtime.py),   *)
(* for one symbol.  A tick recovers what is pending, takes a protective    *)
(* exit or acts on a proposal: the exact fill is staged in the account     *)
(* document, the authorization is consumed, the fill is applied and the    *)
(* staging is removed, each by database calls of its own.                  *)
(*                                                                         *)
(* mem is a process's copy of the account document, written back with the  *)
(* version it was read at; fresh says that this still is the document's    *)
(* version.  A database call can fail, and can fail after it was carried   *)
(* out; a process can die between any two calls.  A fill is known by its   *)
(* price.                                                                  *)
(***************************************************************************)
EXTENDS Integers, FiniteSets

CONSTANTS Procs, Decisions, Prices,
          MaxFaults,   \* database calls that fail
          MaxCrashes,  \* process deaths
          NoDecision         \* no decision

VARIABLES doc,       \* the account document
          consumed,  \* paper_authorization_consumption
          settled,   \* paper_decision_settlements: the price settled at
          history,   \* the immutable copy of every trade
          used,      \* decisions the council has made
          proc,      \* each process: mem and where it is
          faults, crashes

councilVars == <<doc, consumed, settled, history, used, proc, faults, crashes>>

Flat == [pos |-> NoDecision,   \* the decision that opened the position
         trades |-> {},  \* [id, dec, price, settle]
         pend |-> {},    \* staged authorized fills [dec, side, price]
         prot |-> {}]    \* the staged protective close [dec, price]

Down == [pc |-> "down", mem |-> Flat, fresh |-> FALSE, todo |-> {},
         cur |-> NoDecision, mode |-> "tick", stage |-> "none",
         before |-> [st |-> Flat, fresh |-> FALSE]]

CouncilInit ==
    /\ doc = Flat
    /\ consumed = {} /\ used = {} /\ history = {}
    /\ settled = [d \in Decisions |-> NoDecision]
    /\ proc = [p \in Procs |-> Down]
    /\ faults = 0 /\ crashes = 0

BuyId(d) == <<"buy", d>>
SellId(d) == <<"sell", d>>
ProtId(d) == <<"protect", d>>
IdOf(i) == IF i.side = "buy" THEN BuyId(i.dec)
           ELSE IF i.side = "sell" THEN SellId(i.dec) ELSE ProtId(i.dec)

Fault == faults < MaxFaults /\ faults' = faults + 1
NoFault == UNCHANGED faults
Set(p, new) == proc' = [proc EXCEPT ![p] = new]
Persisting(l, stage) == [l EXCEPT !.pc = "save", !.stage = stage]
Idle(l) == [Down EXCEPT !.pc = "idle", !.mem = l.mem, !.fresh = l.fresh]
Before(l) == [l EXCEPT !.before = [st |-> l.mem, fresh |-> l.fresh]]

\* A write by p gives the document a new version: whatever was read before
\* is stale.
Written(p, new) ==
    proc' = [q \in Procs |->
        IF q = p THEN [new EXCEPT !.before.fresh = FALSE]
        ELSE [proc[q] EXCEPT !.fresh = FALSE, !.before.fresh = FALSE]]

\* What an exception does: recovery notes it and goes on, a protective exit
\* records a block, anything else ends the tick with an error event.
Raised(l) ==
    CASE l.mode \in {"boot", "recover"} ->
             [l EXCEPT !.pc = "recover", !.cur = NoDecision]
      [] l.mode = "protect" -> Persisting([l EXCEPT !.cur = NoDecision], "block")
      [] OTHER -> Persisting([l EXCEPT !.cur = NoDecision], "error")

----------------------------------------------------------------------------
(* Start of a process.                                                     *)
----------------------------------------------------------------------------
\* _load: the document is read and its trades are put into the immutable
\* history; one that is there with other contents raises.
Load(p) ==
    /\ proc[p].pc = "down"
    /\ IF \E t \in doc.trades, h \in history : t.id = h.id /\ t # h
       THEN Set(p, [Down EXCEPT !.pc = "refused"]) /\ UNCHANGED history
       ELSE /\ history' = history \union doc.trades
            /\ Set(p, [Down EXCEPT !.pc = "boot", !.mem = doc,
                                   !.fresh = TRUE])
    /\ UNCHANGED <<doc, consumed, settled, used, faults, crashes>>

\* settle_exit: an existing settlement is returned unchanged.
SettledAt(d, price) == IF settled[d] = NoDecision THEN price ELSE settled[d]

\* _recover_pending_settlements: marked trades are settled now, in memory.
RecoverSettlements(p) ==
    LET l == proc[p]
        marked == {t \in l.mem.trades : t.settle = "pending"}
        now == {[t EXCEPT !.settle = "yes"] : t \in marked}
        on == [l EXCEPT !.pc = "recover", !.mode = "boot",
                        !.todo = {i.dec : i \in l.mem.pend}] IN
    /\ l.pc = "boot"
    /\ \/ /\ NoFault
          /\ settled' = [d \in Decisions |->
                 IF \E t \in marked : t.dec = d
                 THEN SettledAt(d, (CHOOSE t \in marked : t.dec = d).price)
                 ELSE settled[d]]
          /\ Set(p, [on EXCEPT !.mem.trades = (@ \ marked) \union now])
       \/ Fault /\ marked # {} /\ UNCHANGED settled /\ Set(p, on)
    /\ UNCHANGED <<doc, consumed, history, used, crashes>>

Crash(p) ==
    /\ proc[p].pc \notin {"down", "refused"}
    /\ crashes < MaxCrashes /\ crashes' = crashes + 1
    /\ Set(p, Down)
    /\ UNCHANGED <<doc, consumed, settled, history, used, faults>>

----------------------------------------------------------------------------
(* Persisting: the document, then the immutable history.                   *)
----------------------------------------------------------------------------
\* Where a persisted stage leads.
Persisted(l) ==
    CASE l.stage = "fill" -> [l EXCEPT !.pc = "complete"]
      [] l.stage = "complete" ->
             IF l.mode \in {"boot", "recover"}
             THEN [l EXCEPT !.pc = "recover", !.cur = NoDecision]
             ELSE Persisting([l EXCEPT !.cur = NoDecision, !.mode = "tick"], "mark")
      [] l.stage = "stage" -> [l EXCEPT !.pc = "consume"]
      [] l.stage = "protect" -> [l EXCEPT !.pc = "apply"]
      [] l.stage = "block" ->
             IF l.mem.pos = NoDecision THEN Persisting([l EXCEPT !.mode = "tick"], "mark")
             ELSE [l EXCEPT !.pc = "propose", !.mode = "tick"]
      [] OTHER -> Idle(l)

\* Where a failure to persist leads: a fill is undone by reloading, the
\* handler of the error event gives up.
NotPersisted(l) ==
    CASE \/ l.stage \in {"fill", "protect"}
         \/ l.mode = "protect" /\ l.stage = "complete"
             -> [l EXCEPT !.pc = "reload"]
      [] l.stage = "error" -> Idle(l)
      [] l.stage \in {"block", "mark"} -> Raised([l EXCEPT !.mode = "tick"])
      [] OTHER -> Raised(l)

SaveAfterHistory(p) ==
    LET l == proc[p]
        new == {t \in l.mem.trades : \A h \in history : h.id # t.id} IN
    /\ l.pc = "save" /\ history' = history \union new
    /\ \/ /\ l.fresh /\ NoFault /\ doc' = l.mem
          /\ Written(p, [l EXCEPT !.pc = "sync"])
       \/ /\ ~l.fresh /\ NoFault /\ UNCHANGED doc
          /\ Set(p, NotPersisted(l))
       \/ Fault /\ UNCHANGED doc /\ Set(p, NotPersisted(l))
    /\ UNCHANGED <<consumed, settled, used, crashes>>

SaveBlindly(p) ==
    LET l == proc[p] IN
    /\ l.pc = "save"
    /\ \/ NoFault /\ doc' = l.mem /\ Written(p, [l EXCEPT !.pc = "sync"])
       \/ Fault /\ UNCHANGED doc /\ Set(p, NotPersisted(l))
    /\ UNCHANGED <<consumed, settled, history, used, crashes>>

\* _save_database_state: written with the expected version; it fails on a
\* conflict, on a fault, or although it was written.
Save(p) ==
    LET l == proc[p] IN
    /\ l.pc = "save"
    /\ \/ /\ l.fresh /\ NoFault /\ doc' = l.mem
          /\ Written(p, [l EXCEPT !.pc = "sync"])
       \/ ~l.fresh /\ NoFault /\ UNCHANGED doc /\ Set(p, NotPersisted(l))
       \/ Fault /\ UNCHANGED doc /\ Set(p, NotPersisted(l))
       \/ /\ Fault /\ l.fresh /\ doc' = l.mem
          /\ Written(p, NotPersisted([l EXCEPT !.fresh = FALSE]))
    /\ UNCHANGED <<consumed, settled, history, used, crashes>>

\* _sync_immutable_history puts what is not there yet.
Sync(p) ==
    LET l == proc[p]
        new == {t \in l.mem.trades : \A h \in history : h.id # t.id} IN
    /\ l.pc = "sync"
    /\ \/ NoFault /\ history' = history \union new /\ Set(p, Persisted(l))
       \/ Fault /\ new # {} /\ UNCHANGED history /\ Set(p, NotPersisted(l))
    /\ UNCHANGED <<doc, consumed, settled, used, crashes>>

\* _reload_canonical_state, or the state from before the fill when that
\* fails too.
Reload(p) ==
    LET l == proc[p] IN
    /\ l.pc = "reload"
    /\ \/ NoFault /\ Set(p, Raised([l EXCEPT !.mem = doc, !.fresh = TRUE]))
       \/ Fault /\ Set(p, Raised([l EXCEPT !.mem = l.before.st,
                                           !.fresh = l.before.fresh]))
    /\ UNCHANGED <<doc, consumed, settled, history, used, crashes>>

----------------------------------------------------------------------------
(* Recovery, at the start of every tick.                                   *)
----------------------------------------------------------------------------
TickBegins(p) ==
    /\ proc[p].pc = "idle"
    /\ Set(p, [proc[p] EXCEPT !.pc = "recover", !.mode = "recover",
                              !.todo = {i.dec : i \in proc[p].mem.pend}])
    /\ UNCHANGED <<doc, consumed, settled, history, used, faults, crashes>>

\* _recover_pending_authorized_executions: what was not consumed is consumed
\* now, on the durable decision; a failure leaves it for the next tick, and
\* one to read the consumption ends the tick, or the start.
RecoverAuthorized(p) ==
    LET l == proc[p] IN
    /\ l.pc = "recover"
    /\ \E i \in l.mem.pend :
        /\ i.dec \in l.todo
        /\ LET on == [l EXCEPT !.todo = @ \ {i.dec}, !.cur = i, !.pc = "apply"]
           IN \/ NoFault /\ consumed' = consumed \union {i.dec} /\ Set(p, on)
              \/ /\ Fault /\ i.dec \notin consumed /\ UNCHANGED consumed
                 /\ Set(p, Raised(on))
              \/ /\ Fault /\ UNCHANGED consumed
                 /\ Set(p, IF l.mode = "boot" THEN Down
                           ELSE Raised([on EXCEPT !.mode = "tick"]))
    /\ UNCHANGED <<doc, settled, history, used, crashes>>

\* Then the protective one.
RecoverProtective(p) ==
    LET l == proc[p]
        asked == {i.dec : i \in l.mem.pend} \intersect l.todo IN
    /\ l.pc = "recover" /\ asked = {}
    /\ IF l.mem.prot # {} /\ "prot" \notin l.todo
       THEN \E i \in l.mem.prot :
               Set(p, [l EXCEPT !.todo = {"prot"}, !.pc = "apply",
                                !.cur = [dec |-> i.dec, side |-> "protect",
                                         price |-> i.price]])
       ELSE Set(p, IF l.mode = "boot" THEN Idle(l)
                   ELSE [l EXCEPT !.pc = "act", !.mode = "tick", !.todo = {}])
    /\ UNCHANGED <<doc, consumed, settled, history, used, faults, crashes>>

----------------------------------------------------------------------------
(* The staged fill is applied.                                             *)
----------------------------------------------------------------------------

\* _open and _close on the memory copy.
Filled(st, i, settle) ==
    LET entry == IF i.side = "buy" THEN i.dec ELSE st.pos
        trade == [id |-> IdOf(i), dec |-> entry, price |-> i.price,
                  settle |-> settle]
    IN [st EXCEPT !.pos = IF i.side = "buy" THEN i.dec ELSE NoDecision,
                  !.trades = @ \union {trade}]

\* A fill that is already among the trades is only completed; one that does
\* not fit the position is refused; a close is settled before it is saved,
\* or marked when settling fails.  The consumption is read first.
Apply(p) ==
    LET l == proc[p]
        i == l.cur
        fits == (i.side = "buy") <=> (l.mem.pos = NoDecision)
        try == IF l.mode = "protect" THEN l ELSE Before(l)
        fill(s) == Persisting([try EXCEPT !.mem = Filled(l.mem, i, s)], "fill")
    IN
    /\ l.pc = "apply"
    /\ IF \E t \in l.mem.trades : t.id = IdOf(i)
       THEN Set(p, [l EXCEPT !.pc = "complete"]) /\ NoFault /\ UNCHANGED settled
       ELSE \/ i.side # "protect" /\ Fault /\ UNCHANGED settled /\ Set(p, Raised(l))
            \/ /\ ~fits /\ NoFault /\ UNCHANGED settled
               /\ Set(p, [try EXCEPT !.pc = "reload"])
            \/ /\ fits /\ i.side = "buy" /\ NoFault /\ UNCHANGED settled
               /\ Set(p, fill("open"))
            \/ /\ fits /\ i.side # "buy" /\ NoFault /\ Set(p, fill("yes"))
               /\ settled' = [settled EXCEPT ![l.mem.pos] =
                                  SettledAt(l.mem.pos, i.price)]
            \/ /\ fits /\ i.side # "buy" /\ Fault /\ Set(p, fill("pending"))
               /\ UNCHANGED settled
    /\ UNCHANGED <<doc, consumed, history, used, crashes>>

\* _complete_*_execution.
Complete(p) ==
    LET l == proc[p] IN
    /\ l.pc = "complete"
    /\ Set(p, Persisting([l EXCEPT
           !.mem.pend = IF l.cur.side = "protect" THEN @
                        ELSE {i \in @ : i.dec # l.cur.dec},
           !.mem.prot = IF l.cur.side = "protect" THEN {} ELSE @], "complete"))
    /\ UNCHANGED <<doc, consumed, settled, history, used, faults, crashes>>

----------------------------------------------------------------------------
(* The market side of a tick.                                              *)
----------------------------------------------------------------------------

\* A protective exit is staged, replacing what is staged for the position.
Protect(p) ==
    LET l == proc[p] IN
    /\ l.pc = "act" /\ l.mem.pos # NoDecision
    /\ \E price \in Prices :
        LET i == [dec |-> l.mem.pos, side |-> "protect", price |-> price]
            on == [Before(l) EXCEPT !.cur = i, !.mode = "protect"]
        IN IF \E j \in l.mem.prot : j.dec # i.dec
           THEN Set(p, [on EXCEPT !.pc = "reload"])
           ELSE Set(p, Persisting([on EXCEPT
                    !.mem.prot = {[dec |-> i.dec, price |-> price]}], "protect"))
    /\ UNCHANGED <<doc, consumed, settled, history, used, faults, crashes>>

\* Nothing to protect from.
Hold(p) ==
    /\ proc[p].pc = "act"
    /\ Set(p, [proc[p] EXCEPT !.pc = "propose"])
    /\ UNCHANGED <<doc, consumed, settled, history, used, faults, crashes>>

\* An authorized proposal is staged, unless another one is unresolved.
Stage(p) ==
    LET l == proc[p] IN
    /\ l.pc = "propose"
    /\ \E d \in Decisions \ used, price \in Prices :
        LET i == [dec |-> d, price |-> price,
                  side |-> IF l.mem.pos = NoDecision THEN "buy" ELSE "sell"]
            on == [l EXCEPT !.cur = i]
        IN /\ used' = used \union {d}
           /\ Set(p, IF l.mem.pend # {} THEN Raised(on)
                     ELSE Persisting([on EXCEPT !.mem.pend = {i}], "stage"))
    /\ UNCHANGED <<doc, consumed, settled, history, faults, crashes>>

\* No proposal, no authorization, or a gate that waits or blocks: the books
\* are marked to the market and saved.
Wait(p) ==
    /\ proc[p].pc = "propose"
    /\ Set(p, Persisting(proc[p], "mark"))
    /\ UNCHANGED <<doc, consumed, settled, history, used, faults, crashes>>

\* consume_authorization: once; a failure blocks and leaves the fill staged.
Consume(p) ==
    LET l == proc[p]
        blocked == Persisting([l EXCEPT !.cur = NoDecision], "mark") IN
    /\ l.pc = "consume"
    /\ \/ /\ NoFault /\ consumed' = consumed \union {l.cur.dec}
          /\ Set(p, IF l.cur.dec \in consumed THEN blocked
                    ELSE [l EXCEPT !.pc = "apply"])
       \/ Fault /\ UNCHANGED consumed /\ Set(p, blocked)
       \/ Fault /\ consumed' = consumed \union {l.cur.dec} /\ Set(p, blocked)
    /\ UNCHANGED <<doc, settled, history, used, crashes>>

----------------------------------------------------------------------------
Step(p) ==
    \/ Load(p) \/ RecoverSettlements(p)
    \/ Save(p) \/ Sync(p) \/ Reload(p)
    \/ TickBegins(p) \/ RecoverAuthorized(p) \/ RecoverProtective(p)
    \/ Apply(p) \/ Complete(p)
    \/ Protect(p) \/ Hold(p) \/ Stage(p) \/ Wait(p) \/ Consume(p)

CouncilNext == \E p \in Procs : Step(p) \/ Crash(p)

CouncilSpec == CouncilInit /\ [][CouncilNext]_councilVars

\* The loop's thread and the supervisor that restarts the process keep going.
CouncilFairSpec == CouncilSpec /\ \A p \in Procs : WF_councilVars(Step(p))
----------------------------------------------------------------------------
CouncilTypeOK ==
    /\ doc.pos \in Decisions \union {NoDecision}
    /\ consumed \subseteq used
    /\ Cardinality(doc.pend) <= 1 /\ Cardinality(doc.prot) <= 1
    /\ \A p \in Procs : proc[p].fresh /\ proc[p].pc \in {"idle", "sync"}
                           => proc[p].mem.pos = doc.pos

Bought(st, d) == \E t \in st.trades : t.id = BuyId(d)
Closed(st, d) == \E t \in st.trades : t.dec = d /\ t.id # BuyId(d)

\* "Durably stage an exact fill before consuming its single-use authority":
\* a consumed authorization is never lost: its fill is staged or among the
\* trades, whatever failed or died in between.
ConsumedIsKept ==
    \A d \in consumed : \/ \E i \in doc.pend : i.dec = d
                        \/ \E t \in doc.trades : t.id \in {BuyId(d), SellId(d)}

\* No authorized trade is stored, and none has reached the immutable history,
\* without the consumption of its authorization.
TradeIsConsumed ==
    \A t \in doc.trades \union history :
        t.id \in {BuyId(d) : d \in Decisions \ consumed}
                 \union {SellId(d) : d \in Decisions \ consumed} => FALSE

\* The stored position is the one its trades leave open: every close belongs
\* to one entry, no entry is closed twice or left behind.
PositionMatchesTrades ==
    /\ \A d \in Decisions :
           (doc.pos = d) <=> (Bought(doc, d) /\ ~Closed(doc, d))
    /\ \A t, u \in doc.trades :
           t.dec = u.dec /\ t.id # BuyId(t.dec) /\ u.id # BuyId(u.dec) => t = u

\* The immutable history holds no trade the account does not.
HistoryIsBacked ==
    \A h \in history : \E t \in doc.trades : t.id = h.id

\* A settled trade was settled at its own price.
SettledAsTraded ==
    \A t \in doc.trades : t.settle = "yes" => settled[t.dec] = t.price

\* What the council's books promise.  A process alone also keeps what it consumed
\* and settles as it trades, wherever it dies, as long as no database call has
\* failed; a lost acknowledgement is enough to break either.
CouncilIsSound ==
    /\ CouncilTypeOK /\ TradeIsConsumed /\ PositionMatchesTrades /\ HistoryIsBacked
    /\ faults = 0 /\ (\A p, q \in Procs : p = q) =>
           ConsumedIsKept /\ SettledAsTraded

=============================================================================
