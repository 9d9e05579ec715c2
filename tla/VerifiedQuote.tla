---------------------------- MODULE VerifiedQuote ----------------------------
(***************************************************************************)
(* The quote a trading decision is made on: the public ticker worker and   *)
(* its state (exchange_connector/bybit_websocket_worker.py and             *)
(* bybit_websocket_state.py) fed by the exchange, and the threads that     *)
(* bind a ticker, a fresh REST bid and ask and the multi-exchange          *)
(* consensus into one verified quote (autonomous_trading/                  *)
(* shared_market_stream.py), keep it in a cache and save a sample of it.   *)
(* One symbol; the clock is in units of which MaxAge, MaxAlign, MaxLag and *)
(* SampleEvery are multiples.                                              *)
(***************************************************************************)
EXTENDS Integers, Sequences, SequencesExt, FiniteSets, TLC

CONSTANTS Callers, Prices, MaxAge, MaxAlign, MaxLag, MaxDeviation, SampleEvery,
          Horizon,    \* last instant
          MaxTicks,   \* tickers the exchange publishes
          MaxCalls,   \* calls of quote() per thread
          MaxFaults   \* stops, failed connections, bad messages, failed fetches and saves

NoTick == [seq |-> 0, price |-> 0, at |-> 0]
NoQuote == [tick |-> NoTick, cross |-> 0, bbo |-> 0]
Idle == [pc |-> "idle", sampling |-> TRUE, tick |-> NoTick, cross |-> 0, bbo |-> 0, saved |-> 0]

VARIABLES clock,
          published,  \* tickers of the exchange: sequence number -> price and exchange time
          worker,     \* pc of the worker thread and the stop event
          state,      \* BybitWebSocketState: connected and the latest quote
          heard,      \* every ticker the state has taken, with its receipt time
          cache,      \* _cache: the verified quote bound last
          samples,    \* exchange times of the saved operational samples
          lastSample, \* _last_persisted_exchange_ms, 0 for none
          call,       \* what each caller is doing
          got,        \* the quote each caller was given last and when it had passed its sample
          calls, faults
vars == <<clock, published, worker, state, heard, cache, samples, lastSample, call, got, calls, faults>>
callerVars == <<cache, samples, lastSample, call, got, calls>>
feedVars == <<clock, published, worker, state, heard>>

Init ==
    /\ clock = 1 /\ published = <<>>
    /\ worker = [pc |-> "off", stop |-> FALSE]
    /\ state = [connected |-> FALSE, quote |-> NoTick]
    /\ heard = {} /\ cache = NoQuote /\ samples = <<>> /\ lastSample = 0
    /\ call = [c \in Callers |-> Idle]
    /\ got = [c \in Callers |-> [quote |-> NoQuote, saved |-> 0]]
    /\ calls = [c \in Callers |-> 0] /\ faults = 0

-----------------------------------------------------------------------------
\* The exchange and the clock (environment).
Tick == /\ clock < Horizon /\ clock' = clock + 1
        /\ UNCHANGED <<published, worker, state, heard, callerVars, faults>>
Publish(p) ==
    /\ Len(published) < MaxTicks
    /\ published' = Append(published, [price |-> p, ts |-> clock])
    /\ UNCHANGED <<clock, worker, state, heard, callerVars, faults>>

\* The worker thread.
Start ==
    /\ worker.pc = "off"
    /\ worker' = [worker EXCEPT !.pc = "connect", !.stop = FALSE]
    /\ UNCHANGED <<clock, published, state, heard, callerVars, faults>>
\* stop() sets the event and gives the thread three seconds; whether it ended
\* or not, the state is then marked disconnected.
Stop ==
    /\ worker.pc # "off" /\ ~worker.stop /\ faults < MaxFaults /\ faults' = faults + 1
    /\ worker' = [worker EXCEPT !.stop = TRUE]
    /\ state' = [state EXCEPT !.connected = FALSE]
    /\ UNCHANGED <<clock, published, heard, callerVars>>
\* The socket opens and the subscription is sent.
Connect ==
    /\ worker.pc = "connect"
    /\ worker' = [worker EXCEPT !.pc = IF worker.stop THEN "off" ELSE "ack"]
    /\ UNCHANGED <<clock, published, state, heard, callerVars, faults>>
\* A valid acknowledgement makes the stream usable.
Acknowledged ==
    /\ worker.pc = "ack"
    /\ state' = [state EXCEPT !.connected = TRUE]
    /\ worker' = [worker EXCEPT !.pc = "consume"]
    /\ UNCHANGED <<clock, published, heard, callerVars, faults>>
\* The end of the loop over messages once the stop event is set.
Finish ==
    /\ worker.pc = "consume" /\ worker.stop
    /\ worker' = [worker EXCEPT !.pc = "off"]
    /\ UNCHANGED <<clock, published, state, heard, callerVars, faults>>

Ingest(n) ==
    /\ worker.pc = "consume" /\ n \in 1..Len(published)
    /\ clock - published[n].ts <= MaxLag /\ n >= state.quote.seq
    /\ state' = [state EXCEPT !.quote = [seq |-> n, price |-> published[n].price, at |-> clock]]
    /\ heard' = heard \cup {state'.quote}
    /\ UNCHANGED <<clock, published, worker, callerVars, faults>>
\* An exception ends the connection: no socket, a refused or foreign
\* acknowledgement, a receive timeout, a message that is no ticker or comes too
\* late, or one whose sequence moved backwards.
Broken ==
    /\ worker.pc \in {"connect", "ack", "consume"}
    /\ \/ faults < MaxFaults /\ faults' = faults + 1
       \/ /\ worker.pc = "consume" /\ UNCHANGED faults
          /\ \E n \in 1..Len(published) : clock - published[n].ts > MaxLag \/ n < state.quote.seq
    /\ state' = [state EXCEPT !.connected = FALSE]
    /\ worker' = [worker EXCEPT !.pc = "wait"]
    /\ UNCHANGED <<clock, published, heard, callerVars>>
\* The wait of the reconnect policy, cut short by the stop event.
Reconnect ==
    /\ worker.pc = "wait"
    /\ worker' = [worker EXCEPT !.pc = IF worker.stop THEN "off" ELSE "connect"]
    /\ UNCHANGED <<clock, published, state, heard, callerVars, faults>>

-----------------------------------------------------------------------------
\* current_quote: what the worker serves now.
Served == state.connected /\ state.quote # NoTick /\ clock - state.quote.at <= MaxAge

Distance(x, y) == IF x > y THEN x - y ELSE y - x
Go(c, pc) == call' = [call EXCEPT ![c].pc = pc]
Give(c, quote, saved) ==
    /\ got' = [got EXCEPT ![c] = [quote |-> quote, saved |-> saved]]
    /\ call' = [call EXCEPT ![c] = Idle]
Raise(c) == call' = [call EXCEPT ![c] = Idle]

\* quote(): the first read of the worker; the cached quote answers if it was
\* bound to this very ticker.
Call(c) ==
    /\ call[c].pc = "idle" /\ calls[c] < MaxCalls /\ Served
    /\ calls' = [calls EXCEPT ![c] = @ + 1]
    /\ IF cache.tick = state.quote THEN Give(c, cache, 0)
       ELSE Go(c, "consensus") /\ UNCHANGED got
    /\ UNCHANGED <<feedVars, cache, samples, lastSample, faults>>

\* The consensus of three exchanges or more (module MarketConsensus).
Consensus(c) ==
    /\ call[c].pc = "consensus"
    /\ \E p \in Prices : call' = [call EXCEPT ![c].pc = "rest", ![c].cross = p]
    /\ UNCHANGED <<feedVars, cache, samples, lastSample, got, calls, faults>>
\* A fresh bid and ask of the exchange itself, fetched after the consensus.
Rest(c) ==
    /\ call[c].pc = "rest"
    /\ call' = [call EXCEPT ![c].pc = "bind", ![c].bbo = clock]
    /\ UNCHANGED <<feedVars, cache, samples, lastSample, got, calls, faults>>

Aligned(bbo, tick) == Distance(bbo, tick.at) <= MaxAlign
Agrees(cross, tick) == Distance(tick.price, cross) * 100 <= MaxDeviation * cross
\* The ticker is read again after both fetches and everything is bound to it.
Bind(c) ==
    /\ call[c].pc = "bind" /\ Served
    /\ Aligned(call[c].bbo, state.quote) /\ Agrees(call[c].cross, state.quote)
    /\ call' = [call EXCEPT ![c].pc = IF call[c].sampling THEN "sample" ELSE "store", ![c].tick = state.quote]
    /\ UNCHANGED <<feedVars, cache, samples, lastSample, got, calls, faults>>

SampleDue(ts) == lastSample = 0 \/ ts - lastSample >= SampleEvery
\* _persist_operational_quote, under its lock; a caller may have waited for it.
Sample(c) ==
    /\ call[c].pc = "sample"
    /\ LET ts == published[call[c].tick.seq].ts
       IN  IF SampleDue(ts) THEN samples' = Append(samples, ts) /\ lastSample' = ts
           ELSE UNCHANGED <<samples, lastSample>>
    /\ call' = [call EXCEPT ![c].pc = "check", ![c].saved = clock]
    /\ UNCHANGED <<feedVars, cache, got, calls, faults>>

\* The new receipt time is put on the old price.
CheckRelabels(c) ==
    /\ call[c].pc = "check" /\ Served
    /\ call' = [call EXCEPT ![c].pc = "store", ![c].tick.at = state.quote.at]
    /\ UNCHANGED <<feedVars, cache, samples, lastSample, got, calls, faults>>
\* If the worker has moved on during the save, a whole second pass without the
\* cache and without a sample.
Check(c) ==
    /\ call[c].pc = "check" /\ Served
    /\ IF state.quote = call[c].tick THEN Go(c, "store")
       ELSE call' = [call EXCEPT ![c].pc = "consensus", ![c].sampling = FALSE, ![c].tick = NoTick, ![c].cross = 0, ![c].bbo = 0]
    /\ UNCHANGED <<feedVars, cache, samples, lastSample, got, calls, faults>>

Bound(c) == [tick |-> call[c].tick, cross |-> call[c].cross, bbo |-> call[c].bbo]
Store(c) ==
    /\ call[c].pc = "store"
    /\ cache' = Bound(c) /\ Give(c, Bound(c), call[c].saved)
    /\ UNCHANGED <<feedVars, samples, lastSample, calls, faults>>

\* Any other outcome raises: no quote served, no consensus, no usable bid and
\* ask, the two not aligned in time or too far apart, a failed save.
Fail(c) ==
    /\ call[c].pc \in {"consensus", "rest", "bind", "sample", "check"}
    /\ \/ call[c].pc \in {"bind", "check"} /\ ~Served /\ UNCHANGED faults
       \/ /\ call[c].pc = "bind" /\ UNCHANGED faults
          /\ ~(Aligned(call[c].bbo, state.quote) /\ Agrees(call[c].cross, state.quote))
       \/ call[c].pc \in {"consensus", "rest", "sample"} /\ faults < MaxFaults /\ faults' = faults + 1
    /\ Raise(c)
    /\ UNCHANGED <<feedVars, cache, samples, lastSample, got, calls>>

WorkerStep == Connect \/ Acknowledged \/ Finish \/ Broken \/ Reconnect \/ \E n \in 1..MaxTicks : Ingest(n)
CallerStep(c) == Call(c) \/ Consensus(c) \/ Rest(c) \/ Bind(c) \/ Sample(c) \/ Check(c) \/ Store(c) \/ Fail(c)
Next ==
    \/ Tick \/ Start \/ Stop \/ WorkerStep
    \/ \E p \in Prices : Publish(p)
    \/ \E c \in Callers : CallerStep(c)
Spec == Init /\ [][Next]_vars

-----------------------------------------------------------------------------
Given == {c \in Callers : got[c].quote # NoQuote}

\* A caller that waited behind the save of a sample is not given a quote that
\* went stale meanwhile: when the save was over the ticker was at most MaxAge
\* old, whether it was bound before the save or in the second pass.
FreshAfterSample == \A c \in Given : got[c].saved - got[c].quote.tick.at <= MaxAge

\* Price, sequence and receipt time of a quote are those of one ticker that was
\* really received: a new time is never put on an old price.
NeverRelabelled == \A c \in Given : got[c].quote.tick \in heard

\* What is given was aligned with the bid and ask it carries and close to the
\* consensus price it carries, also when it comes from the cache another
\* thread filled.
Coherent == \A c \in Given : LET q == got[c].quote IN Aligned(q.bbo, q.tick) /\ Agrees(q.cross, q.tick)

\* Operational samples are in the order of the exchange's time and at least
\* SampleEvery apart, whatever order the callers reach the lock in.
SamplesSpaced == \A i \in 1..Len(samples) - 1 : samples[i + 1] - samples[i] >= SampleEvery

NoneGoesBackStep ==
    \A c \in Callers : got'[c] # got[c] => got'[c].quote.tick.seq >= got[c].quote.tick.seq
=============================================================================
