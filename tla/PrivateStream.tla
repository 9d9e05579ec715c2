---------------------------- MODULE PrivateStream ----------------------------
(***************************************************************************)
(* The private WebSocket worker (bybit_private_order_ws.py), the health    *)
(* document and gate behind it (private_ws_gate.py), the order store       *)
(* (bybit_order_state.py) and the fill ledger (bybit_execution_state.py),  *)
(* for one order of the exchange.                                          *)
(*                                                                         *)
(* The exchange executes the order lot by lot and sends each change twice, *)
(* on the topics order and execution.  What it sends while nobody is       *)
(* subscribed is lost: the code never asks for it again.                   *)
(***************************************************************************)
EXTENDS PrivateOrderState, Sequences, FiniteSets, SequencesExt

CONSTANTS FullQty,     \* lots of the order; execution n is lot n
          MaxClock,    \* last instant
          MaxAge,      \* maximum_heartbeat_age_seconds of the gate
          MaxLag,      \* max_message_lag_ms of the stores
          MaxFaults    \* crashes, lost connections, failed saves, reissues

Lots == 1..FullQty

VARIABLES clock, faults,
          exch,      \* the order at the exchange
          link,      \* the exchange has a subscribed connection
          wire,      \* messages on it
          worker,    \* the worker thread: see Labels
          ret,       \* where a publication of the worker continues
          snap,      \* the status a publication has read
          control,   \* "idle", "joining", "marked": how far stop() is
          mem,       \* the worker's fields behind _lock
          health,    \* the health document
          orders,    \* the order store's state of the order
          ledger,    \* the message that brought each lot, 0 for none
          conflicts, \* conflicting_duplicate_count as stored
          heard,     \* when a message last came in over a connection
          reused     \* a conflicting execId has been received

stores == <<health, orders, ledger, conflicts>>
history == <<heard, reused>>
vars == <<clock, faults, exch, link, wire, worker, ret, snap, control, mem,
          stores, history>>

Labels == {"off", "none", "connect", "auth", "subscribe", "loop", "publish",
           "record", "ended"}

Down == [connected |-> FALSE, authenticated |-> FALSE, subscribed |-> FALSE,
         heartbeat |-> 0]

\* status(): the fields and whether the thread is alive.
Status(m, alive) ==
    [connected |-> m.connected, authenticated |-> m.authenticated,
     subscribed |-> m.subscribed, heartbeat |-> m.heartbeat,
     running |-> alive]

Alive == worker \notin {"off", "none", "ended"}

Init ==
    /\ clock = 1 /\ faults = 0
    /\ exch = NoEvidence
    /\ link = FALSE /\ wire = <<>>
    /\ worker = "off" /\ ret = "loop" /\ control = "idle"
    /\ mem = Down
    /\ health = Status(Down, FALSE) /\ snap = health
    /\ orders = NoEvidence
    /\ ledger = [n \in Lots |-> 0]
    /\ conflicts = 0 /\ heard = 0 /\ reused = FALSE

Fault == faults < MaxFaults /\ faults' = faults + 1

\* PrivateStreamHealthRepository.record: the save may raise, and
\* _publish_health swallows that.
Publish(status) ==
    \/ health' = status /\ UNCHANGED faults
    \/ UNCHANGED health /\ Fault

----------------------------------------------------------------------------
(* The exchange and the network.                                           *)

Tick == /\ clock < MaxClock /\ clock' = clock + 1
        /\ UNCHANGED <<faults, exch, link, wire, worker, ret, snap, control,
                       mem, stores, history>>

\* Both topics report a change; which comes first is not fixed.
Messages(state, lot) ==
    LET o == [topic |-> "order", state |-> state, lot |-> 0, id |-> 1,
              time |-> clock]
        e == [topic |-> "execution", state |-> state, lot |-> lot, id |-> 1,
              time |-> clock]
    IN  IF lot = 0 THEN {<<o>>} ELSE {<<o, e>>, <<e, o>>}

\* The order is taken, a lot of it executes, or its rest is cancelled.
ExchangeAdvances ==
    /\ exch.status \in {"None", "New", "PartiallyFilled"}
    /\ \E status \in {"New", "PartiallyFilled", "Filled", "Cancelled",
                      "PartiallyFilledCanceled"} :
         LET lot == IF status \in {"PartiallyFilled", "Filled"}
                      THEN exch.cum + 1 ELSE 0
             state == [status |-> status, upd |-> clock,
                       cum |-> IF lot = 0 THEN exch.cum ELSE lot]
         IN  /\ status = "Filled" <=> lot = FullQty
             /\ status = "New" <=> exch.status = "None"
             /\ status = "Cancelled" => exch.cum = 0
             /\ status = "PartiallyFilledCanceled" => exch.cum > 0
             /\ exch' = state
             /\ \E ms \in Messages(state, lot) :
                  wire' = IF link THEN wire \o ms ELSE wire
    /\ UNCHANGED <<clock, faults, link, worker, ret, snap, control, mem,
                   stores, history>>

\* The exchange repeats an execution: the same message again, or the same
\* execution in another message.
Repeat(n, id) ==
    /\ link /\ n <= exch.cum /\ Fault
    /\ wire' = Append(wire, [topic |-> "execution", state |-> exch, lot |-> n,
                             id |-> id, time |-> clock])
    /\ UNCHANGED <<clock, exch, link, worker, ret, snap, control, mem, stores,
                   history>>

LoseConnection ==
    /\ link /\ Fault
    /\ link' = FALSE /\ wire' = <<>>
    /\ UNCHANGED <<clock, exch, worker, ret, snap, control, mem, stores,
                   history>>

----------------------------------------------------------------------------
(* The process: constructor, start, stop, death.                           *)

\* __init__ publishes the health of a worker that does not run yet.
Boot ==
    /\ worker = "off"
    /\ worker' = "none" /\ control' = "idle" /\ mem' = Down
    /\ Publish(Status(Down, FALSE))
    /\ UNCHANGED <<clock, exch, link, wire, ret, snap, orders, ledger,
                   conflicts, history>>

Start ==
    /\ worker = "none" /\ control = "idle"
    /\ worker' = "connect"
    /\ Publish(Status(mem, TRUE))
    /\ UNCHANGED <<clock, exch, link, wire, ret, snap, control, mem, orders,
                   ledger, conflicts, history>>

\* stop() sets the event and joins for three seconds at most.
Stop ==
    /\ worker # "off" /\ control = "idle"
    /\ control' = "joining"
    /\ UNCHANGED <<clock, faults, exch, link, wire, worker, ret, snap, mem,
                   stores, history>>

\* Joined or not, stop() marks the stream disconnected.
StopMarks ==
    /\ control = "joining"
    /\ control' = "marked"
    /\ mem' = [Down EXCEPT !.heartbeat = mem.heartbeat]
    /\ Publish(Status(mem', Alive))
    /\ UNCHANGED <<clock, exch, link, wire, worker, ret, snap, orders, ledger,
                   conflicts, history>>

Crash ==
    /\ worker # "off" /\ Fault
    /\ worker' = "off" /\ control' = "idle" /\ mem' = Down
    /\ link' = FALSE /\ wire' = <<>>
    /\ UNCHANGED <<clock, exch, ret, snap, stores, history>>

----------------------------------------------------------------------------
(* The worker thread.                                                      *)

Stopping == control # "idle"

\* An exception in run_cycle: disconnected, published, and another cycle
\* after the back-off unless stop() was called.
Raises ==
    /\ mem' = [Down EXCEPT !.heartbeat = mem.heartbeat]
    /\ link' = FALSE /\ wire' = <<>>
    /\ ret' = "connect" /\ worker' = "publish"

Connect ==
    /\ worker = "connect"
    /\ worker' = IF Stopping THEN "ended" ELSE "auth"
    /\ UNCHANGED <<clock, faults, exch, link, wire, ret, snap, control, mem,
                   stores, history>>

Authenticate ==
    /\ worker = "auth"
    /\ mem' = [mem EXCEPT !.authenticated = TRUE]
    /\ worker' = "subscribe"
    /\ UNCHANGED <<clock, faults, exch, link, wire, ret, snap, control,
                   stores, history>>

\* The acknowledged subscription makes the stream ready.
Subscribe ==
    /\ worker = "subscribe"
    /\ mem' = [mem EXCEPT !.connected = TRUE, !.subscribed = TRUE,
                          !.heartbeat = clock]
    /\ heard' = clock
    /\ link' = TRUE
    /\ ret' = "loop" /\ worker' = "publish"
    /\ UNCHANGED <<clock, faults, exch, wire, snap, control, stores, reused>>

\* Connecting, the handshake or recv fails: refused, timed out, closed.
ConnectionFails ==
    /\ \/ worker \in {"connect", "auth", "subscribe"} /\ Fault
       \/ worker = "loop" /\ ~link /\ ~Stopping /\ UNCHANGED faults
    /\ Raises
    /\ UNCHANGED <<clock, exch, snap, control, stores, history>>

\* _merge raises: time or quantity goes back, a final state changes, or the
\* same instant has two states.
OrderConflicts(old, new) ==
    LET same == new.status = old.status /\ new.cum = old.cum
    IN  /\ old.status # "None"
        /\ \/ new.upd < old.upd
           \/ new.upd = old.upd /\ ~same
           \/ old.status \in PrivateTerminal /\ ~same
           \/ new.cum < old.cum
           \/ new.status \notin PrivateTransitions(old.status)

\* The ledger compares the whole fill, the message's id and time included.
ExecutionConflicts(m) == ledger[m.lot] \notin {0, m.id}

\* _merge, once it does not raise: a final state stays as it is.
MergeOrder(old, new) == IF old.status \in PrivateTerminal THEN old ELSE new

\* A message that its store takes, with everything published after it.  The
\* stores reckon with messages that overtake each other.
Receive(i) ==
    LET m == wire[i]
    IN  /\ worker = "loop" /\ ~Stopping
        /\ clock - m.time <= MaxLag
        /\ IF m.topic = "order"
             THEN /\ ~OrderConflicts(orders, m.state)
                  /\ orders' = MergeOrder(orders, m.state)
                  /\ UNCHANGED ledger
             ELSE /\ ~ExecutionConflicts(m)
                  /\ ledger' = [ledger EXCEPT ![m.lot] = m.id]
                  /\ UNCHANGED orders
        /\ wire' = RemoveAt(wire, i)
        /\ mem' = [mem EXCEPT !.heartbeat = clock]
        /\ heard' = clock
        /\ ret' = "loop" /\ worker' = "publish"
        /\ UNCHANGED <<clock, faults, exch, link, snap, control, health,
                       conflicts, reused>>

\* A message that its store refuses: too old, or in conflict.  The exception
\* ends the connection before anything of the document is saved, the count of
\* conflicts included.
Refuse(i) ==
    LET m == wire[i]
        tooOld == clock - m.time > MaxLag
    IN  /\ worker = "loop" /\ ~Stopping
        /\ \/ tooOld
           \/ m.topic = "order" /\ OrderConflicts(orders, m.state)
           \/ m.topic = "execution" /\ ExecutionConflicts(m)
        /\ reused' = (reused \/ (~tooOld /\ m.topic = "execution"))
        /\ heard' = clock
        /\ Raises
        /\ UNCHANGED <<clock, faults, exch, snap, control, stores>>

\* ping or pong
Heartbeat ==
    /\ worker = "loop" /\ link /\ ~Stopping
    /\ mem' = [mem EXCEPT !.heartbeat = clock]
    /\ heard' = clock
    /\ ret' = "loop" /\ worker' = "publish"
    /\ UNCHANGED <<clock, faults, exch, link, wire, snap, control, stores,
                   reused>>

\* The loop sees the event: the thread ends and marks nothing.
LoopEnds ==
    /\ worker = "loop" /\ Stopping
    /\ worker' = "ended" /\ link' = FALSE /\ wire' = <<>>
    /\ UNCHANGED <<clock, faults, exch, ret, snap, control, mem, stores,
                   history>>

\* Mutant of ReadStatus: every publication counts as a heartbeat.
ReadStatusNow ==
    /\ worker = "publish"
    /\ snap' = [Status(mem, TRUE) EXCEPT !.heartbeat = clock]
    /\ worker' = "record"
    /\ UNCHANGED <<clock, faults, exch, link, wire, ret, control, mem, stores,
                   history>>

\* _publish_health of the worker: status() first, the save after it.
ReadStatus ==
    /\ worker = "publish"
    /\ snap' = Status(mem, TRUE)
    /\ worker' = "record"
    /\ UNCHANGED <<clock, faults, exch, link, wire, ret, control, mem, stores,
                   history>>

RecordStatus ==
    /\ worker = "record"
    /\ Publish(snap)
    /\ worker' = ret
    /\ UNCHANGED <<clock, exch, link, wire, ret, snap, control, mem, orders,
                   ledger, conflicts, history>>

WorkerStep == \/ Connect \/ Authenticate \/ Subscribe \/ ConnectionFails
              \/ (\E i \in DOMAIN wire : Receive(i) \/ Refuse(i)) \/ Heartbeat \/ LoopEnds \/ ReadStatus
              \/ RecordStatus

Next == \/ Tick \/ ExchangeAdvances \/ LoseConnection
        \/ \E n \in Lots, id \in {1, 2} : Repeat(n, id)
        \/ Boot \/ Start \/ Stop \/ StopMarks \/ Crash
        \/ WorkerStep

Spec == Init /\ [][Next]_vars

\* The thread runs, and the process comes up and starts it.
FairSpec == Spec /\ WF_vars(Boot) /\ WF_vars(Start) /\ WF_vars(WorkerStep)

TypeOK ==
    /\ clock \in 1..MaxClock /\ faults \in 0..MaxFaults
    /\ exch.status \in PrivateStatuses \cup {"None"} /\ exch.cum \in 0..FullQty
    /\ worker \in Labels /\ ret \in Labels
    /\ control \in {"idle", "joining", "marked"}
    /\ mem.heartbeat \in 0..MaxClock /\ health.heartbeat \in 0..MaxClock
    /\ ledger \in [Lots -> 0..2] /\ conflicts \in Nat

----------------------------------------------------------------------------
\* PrivateStreamHealthRepository.evaluate, with the stream required.
GateReady ==
    /\ health.running /\ health.connected
    /\ health.authenticated /\ health.subscribed
    /\ health.heartbeat > 0 /\ clock - health.heartbeat <= MaxAge

Filled == {n \in Lots : ledger[n] # 0}

\* BybitExecutionStateStore.reconcile against the order store's snapshot.
ExecutionsReconcile ==
    /\ Filled # {} => orders.status # "None"
    /\ orders.cum > 0 => Filled # {}
    /\ Filled # {} => Cardinality(Filled) = orders.cum

\* "stale streams and missing heartbeats block startup and execution": whoever
\* published last, and whatever was lost, a ready gate means that a message
\* came in over a connection within the maximum age.
ReadyMeansHeard == GateReady => clock - heard <= MaxAge

\* Lost connections, repeated and refused messages leave holes in both stores.
\* A reconciliation that passes on a final order has none: the ledger holds
\* every lot that the exchange executed.
ReconciledIsComplete ==
    ExecutionsReconcile /\ orders.status \in PrivateTerminal =>
        Filled = 1..exch.cum

\* "execId is write-once": a later message never replaces a stored fill.
FillsAreWriteOnce ==
    [][\A n \in Lots : ledger[n] # 0 => ledger'[n] = ledger[n]]_vars

\* Evidence of an order never goes back, by whatever order the messages and
\* the reconnections came in.
EvidenceIsMonotone ==
    [][/\ orders'.upd >= orders.upd /\ orders'.cum >= orders.cum
       /\ orders.status \in PrivateTerminal => orders' = orders]_vars

\* The worker reconnects: unless it is stopped it gets back to its loop.
Reconnects == worker = "connect" ~> (worker = "loop" \/ Stopping)

=============================================================================
