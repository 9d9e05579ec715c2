------------------------------ MODULE PaperProofs ------------------------------
(***************************************************************************)
(* What the paper account promises.                                        *)
(*                                                                         *)
(* CouncilIsSound of CouncilLoop, for any processes, decisions and prices  *)
(* and any number of failing database calls and deaths.  CouncilInv is     *)
(* about every copy of the account document: in the database, in a process *)
(* and set aside by one.  Each is sound by itself (Sound); a copy that is  *)
(* written back (fresh) holds every trade of the document it replaces      *)
(* (Base).  AloneInv is about one process as long as no call has failed:   *)
(* what it is doing with a staged fill follows from its label (Doing), and *)
(* whatever is staged still fits the books (Rest).                         *)
(*                                                                         *)
(* BooksAreExact of PaperBroker, for any threads, fill ids and prices, is  *)
(* in the second part, and PromotionIsEarned of Experiments in the third.  *)
(* A document there is WellEarned by itself; an operation that is fresh    *)
(* knows the document it writes over (WorkOk), and a run knows at each     *)
(* step which results are stored and recorded (RunKnows).                  *)
(***************************************************************************)
EXTENDS CouncilLoop, PaperBroker, Experiments, Sequences, FiniteSetTheorems,
        TLAPS

StateRec(st) == st = [pos |-> st.pos, trades |-> st.trades, pend |-> st.pend,
                      prot |-> st.prot]
TradeRec(t) == t = [id |-> t.id, dec |-> t.dec, price |-> t.price,
                    settle |-> t.settle]
Loc(pc, mem, fresh, todo, cur, mode, stage, before) ==
    [pc |-> pc, mem |-> mem, fresh |-> fresh, todo |-> todo, cur |-> cur,
     mode |-> mode, stage |-> stage, before |-> before]
LocRec(l) ==
    /\ l = Loc(l.pc, l.mem, l.fresh, l.todo, l.cur, l.mode, l.stage, l.before)
    /\ l.before = [st |-> l.before.st, fresh |-> l.before.fresh]

TradeIds(st) == {t.id : t \in st.trades}
Closes(t) == t.id # BuyId(t.dec)

\* The trades of a copy: one entry and at most one close for each position, and
\* the position is the entry that is not closed.
Books(st) ==
    /\ st.pos \in Decisions \union {NoDecision}
    /\ \A t \in st.trades :
           /\ TradeRec(t) /\ t.dec \in Decisions
           /\ Closes(t) => \A d \in Decisions : t.id # BuyId(d)
    /\ \A d \in Decisions :
           /\ st.pos = d <=> Bought(st, d) /\ ~Closed(st, d)
           /\ Closed(st, d) => Bought(st, d)
    /\ \A t, u \in st.trades : t.dec = u.dec /\ Closes(t) /\ Closes(u) => t = u

Earned(st, con) ==
    \A t \in st.trades, d \in Decisions : t.id \in {BuyId(d), SellId(d)} => d \in con

Staging(st, us) ==
    /\ \A i, j \in st.pend : i = j
    /\ \A i \in st.pend : i.dec \in us /\ i.side \in {"buy", "sell"}
    /\ \A i, j \in st.prot : i = j
    /\ \A i \in st.prot : i.dec \in Decisions

Sound(st, con, us) == StateRec(st) /\ Books(st) /\ Earned(st, con) /\ Staging(st, us)

\* A copy that may replace document d has all its trades.
Covers(st, d) == TradeIds(d) \subseteq TradeIds(st)

\* What holds of a process wherever it is.
Base(l, d, con, us) ==
    /\ LocRec(l)
    /\ Sound(l.mem, con, us) /\ Sound(l.before.st, con, us)
    /\ l.fresh => Covers(l.mem, d)
    /\ l.before.fresh => Covers(l.before.st, d) /\ l.before.st.pos = d.pos

Agrees(l, d) == l.fresh => l.mem.pos = d.pos
Filling(l) == l.pc = "reload" \/ (l.pc = "save" /\ l.stage = "fill")
Writing(l) == l.pc \in {"save", "sync"}

Local(l, d, con, us) ==
    /\ Base(l, d, con, us)
    /\ ~Filling(l) => Agrees(l, d)
    /\ l.pc = "sync" => TradeIds(l.mem) \subseteq TradeIds(d)
    /\ (Writing(l) /\ l.stage = "stage") \/ l.pc = "consume" =>
           l.cur.dec \in us /\ l.cur.side \in {"buy", "sell"}
    /\ Writing(l) /\ l.stage = "protect" =>
           l.cur.dec \in Decisions /\ l.cur.side = "protect"
    /\ l.pc = "apply" =>
           /\ l.cur.dec \in Decisions /\ l.cur.side \in {"buy", "sell", "protect"}
           /\ l.cur.side # "protect" => l.cur.dec \in con

CouncilInv ==
    /\ Sound(doc, consumed, used) /\ HistoryIsBacked
    /\ consumed \subseteq used /\ used \subseteq Decisions
    /\ proc = [p \in Procs |-> proc[p]]
    /\ \A p \in Procs : Local(proc[p], doc, consumed, used)
----------------------------------------------------------------------------
Alone == \A p, q \in Procs : p = q

\* A copy between two ticks: consumed authority is kept, closes are settled at
\* their price, and what is staged was filled or fits the position; a position
\* that was settled already is the one the staged close is for.
Rest(st, con, set) ==
    /\ \A d \in con : \/ \E i \in st.pend : i.dec = d
                      \/ {BuyId(d), SellId(d)} \intersect TradeIds(st) # {}
    /\ \A t \in st.trades : /\ t.settle \in {"open", "yes"}
                            /\ t.settle = "yes" => set[t.dec] = t.price /\ Closes(t)
                            /\ t.id = ProtId(t.id[2]) => t.id[2] = t.dec
    /\ st.pend = {} \/ st.prot = {}
    /\ \A i \in st.pend :
           IF IdOf(i) \in TradeIds(st) THEN i.side = "sell" => st.pos = NoDecision
           ELSE i.side = "buy" <=> st.pos = NoDecision
    /\ \A j \in st.prot :
           st.pos = (IF ProtId(j.dec) \in TradeIds(st) THEN NoDecision ELSE j.dec)
    /\ \A d \in Decisions : set[d] # NoDecision =>
           /\ Bought(st, d)
           /\ st.pos = d => \/ \E i \in st.pend : i.side = "sell" /\ i.price = set[d]
                            \/ \E j \in st.prot : j.price = set[d]

Staged(i, st) ==
    \/ i.side # "protect" /\ i \in st.pend
    \/ i.side = "protect" /\ \E j \in st.prot : j.dec = i.dec /\ j.price = i.price

Nothing(st) == st.pend = {} /\ st.prot = {}

Doing(l) ==
    CASE l.pc = "recover" -> /\ \A i \in l.mem.pend : i.dec \in l.todo
                             /\ "prot" \in l.todo => l.mem.prot = {}
      [] l.pc \in {"act", "propose"} -> Nothing(l.mem)
      [] l.pc \in {"apply", "consume"} -> Staged(l.cur, l.mem)
      [] l.pc = "complete" -> Staged(l.cur, l.mem) /\ IdOf(l.cur) \in TradeIds(l.mem)
      [] Writing(l) ->
             CASE l.stage = "fill" ->
                      Staged(l.cur, l.mem) /\ IdOf(l.cur) \in TradeIds(l.mem)
               [] l.stage \in {"stage", "protect"} -> Staged(l.cur, l.mem)
               [] l.stage = "complete" -> Nothing(l.mem)
               [] OTHER -> l.stage = "mark"
      [] OTHER -> l.pc \in {"down", "refused", "boot", "idle"}

AloneInv ==
    /\ faults = 0 /\ settled = [d \in Decisions |-> settled[d]]
    /\ Rest(doc, consumed, settled)
    /\ \A p \in Procs : LET l == proc[p] IN
           /\ Doing(l)
           /\ l.pc \notin {"down", "refused"} =>
                  /\ l.fresh /\ Rest(l.mem, consumed, settled)
                  /\ l.pc # "save" => l.mem = doc

Inv == CouncilInv /\ faults \in Nat /\ (Alone /\ faults = 0 => AloneInv)

Constants == NoDecision \notin Decisions /\ "prot" \notin Decisions
----------------------------------------------------------------------------
(* Writing one field of a process's local state.                            *)
WithPc(l, x) == [l EXCEPT !.pc = x]
WithMem(l, x) == [l EXCEPT !.mem = x]
WithFresh(l, x) == [l EXCEPT !.fresh = x]
WithTodo(l, x) == [l EXCEPT !.todo = x]
WithCur(l, x) == [l EXCEPT !.cur = x]
WithMode(l, x) == [l EXCEPT !.mode = x]
WithStage(l, x) == [l EXCEPT !.stage = x]
WithBefore(l, x) == [l EXCEPT !.before = x]

\* The pc written by the steps of the loop is read back, nothing else changes.
LEMMA SetPc ==
    ASSUME NEW l, LocRec(l), NEW x
    PROVE  LET n == WithPc(l, x) IN
           /\ LocRec(n) /\ n.pc = x
           /\ n.mem = l.mem /\ n.fresh = l.fresh /\ n.todo = l.todo /\ n.cur = l.cur
           /\ n.mode = l.mode /\ n.stage = l.stage /\ n.before = l.before
  BY DEF LocRec, Loc, WithPc

\* The mem written by the steps of the loop is read back, nothing else changes.
LEMMA SetMem ==
    ASSUME NEW l, LocRec(l), NEW x
    PROVE  LET n == WithMem(l, x) IN
           /\ LocRec(n) /\ n.mem = x
           /\ n.pc = l.pc /\ n.fresh = l.fresh /\ n.todo = l.todo /\ n.cur = l.cur
           /\ n.mode = l.mode /\ n.stage = l.stage /\ n.before = l.before
  BY DEF LocRec, Loc, WithMem

\* The fresh written by the steps of the loop is read back, nothing else changes.
LEMMA SetFresh ==
    ASSUME NEW l, LocRec(l), NEW x
    PROVE  LET n == WithFresh(l, x) IN
           /\ LocRec(n) /\ n.fresh = x
           /\ n.pc = l.pc /\ n.mem = l.mem /\ n.todo = l.todo /\ n.cur = l.cur
           /\ n.mode = l.mode /\ n.stage = l.stage /\ n.before = l.before
  BY DEF LocRec, Loc, WithFresh

\* The todo written by the steps of the loop is read back, nothing else changes.
LEMMA SetTodo ==
    ASSUME NEW l, LocRec(l), NEW x
    PROVE  LET n == WithTodo(l, x) IN
           /\ LocRec(n) /\ n.todo = x
           /\ n.pc = l.pc /\ n.mem = l.mem /\ n.fresh = l.fresh /\ n.cur = l.cur
           /\ n.mode = l.mode /\ n.stage = l.stage /\ n.before = l.before
  BY DEF LocRec, Loc, WithTodo

\* The cur written by the steps of the loop is read back, nothing else changes.
LEMMA SetCur ==
    ASSUME NEW l, LocRec(l), NEW x
    PROVE  LET n == WithCur(l, x) IN
           /\ LocRec(n) /\ n.cur = x
           /\ n.pc = l.pc /\ n.mem = l.mem /\ n.fresh = l.fresh /\ n.todo = l.todo
           /\ n.mode = l.mode /\ n.stage = l.stage /\ n.before = l.before
  BY DEF LocRec, Loc, WithCur

\* The mode written by the steps of the loop is read back, nothing else changes.
LEMMA SetMode ==
    ASSUME NEW l, LocRec(l), NEW x
    PROVE  LET n == WithMode(l, x) IN
           /\ LocRec(n) /\ n.mode = x
           /\ n.pc = l.pc /\ n.mem = l.mem /\ n.fresh = l.fresh /\ n.todo = l.todo
           /\ n.cur = l.cur /\ n.stage = l.stage /\ n.before = l.before
  BY DEF LocRec, Loc, WithMode

\* The stage written by the steps of the loop is read back, nothing else changes.
LEMMA SetStage ==
    ASSUME NEW l, LocRec(l), NEW x
    PROVE  LET n == WithStage(l, x) IN
           /\ LocRec(n) /\ n.stage = x
           /\ n.pc = l.pc /\ n.mem = l.mem /\ n.fresh = l.fresh /\ n.todo = l.todo
           /\ n.cur = l.cur /\ n.mode = l.mode /\ n.before = l.before
  BY DEF LocRec, Loc, WithStage

\* The before written by the steps of the loop is read back, nothing else changes.
LEMMA SetBefore ==
    ASSUME NEW l, LocRec(l), NEW x, x = [st |-> x.st, fresh |-> x.fresh]
    PROVE  LET n == WithBefore(l, x) IN
           /\ LocRec(n) /\ n.before = x
           /\ n.pc = l.pc /\ n.mem = l.mem /\ n.fresh = l.fresh /\ n.todo = l.todo
           /\ n.cur = l.cur /\ n.mode = l.mode /\ n.stage = l.stage
  BY DEF LocRec, Loc, WithBefore

----------------------------------------------------------------------------
(* What the loop's own operators do to a process.                          *)
Same(l, n) == LocRec(n) /\ n.mem = l.mem /\ n.fresh = l.fresh /\ n.before = l.before

\* Persist moves a process to its save and changes nothing else.
LEMMA Persists ==
    ASSUME NEW l, LocRec(l), NEW s
    PROVE  LET n == Persisting(l, s) IN
           /\ Same(l, n) /\ n.pc = "save" /\ n.stage = s
           /\ n.todo = l.todo /\ n.cur = l.cur /\ n.mode = l.mode
<1>1. Persisting(l, s) = WithStage(WithPc(l, "save"), s)
  BY DEF Persisting, WithPc, WithStage
<1> QED BY <1>1, SetPc, SetStage DEF Same

\* An exception ends in the recovery or in a save that records it.
LEMMA RaisedStep ==
    ASSUME NEW l, LocRec(l)
    PROVE  LET n == Raised(l) IN
           /\ Same(l, n)
           /\ n.pc = "recover" \/ (n.pc = "save" /\ n.stage \in {"block", "error"})
<1> DEFINE m == WithCur(l, NoDecision)
<1>1. Same(l, m)
  BY SetCur DEF Same
<1>2. CASE l.mode \in {"boot", "recover"}
  <2>1. Raised(l) = WithCur(WithPc(l, "recover"), NoDecision)
    BY <1>2 DEF Raised, WithPc, WithCur
  <2> DEFINE k == WithPc(l, "recover")
  <2>2. Same(l, k) /\ k.pc = "recover"
    BY SetPc DEF Same
  <2>3. Same(k, WithCur(k, NoDecision)) /\ WithCur(k, NoDecision).pc = k.pc
    BY <2>2, SetCur DEF Same
  <2> QED BY <2>1, <2>2, <2>3 DEF Same
<1>3. CASE l.mode = "protect"
  <2>1. Raised(l) = Persisting(m, "block")
    BY <1>3 DEF Raised, WithCur
  <2> QED BY <2>1, <1>1, Persists DEF Same
<1>4. CASE l.mode \notin {"boot", "recover", "protect"}
  <2>1. Raised(l) = Persisting(m, "error")
    BY <1>4 DEF Raised, WithCur
  <2> QED BY <2>1, <1>1, Persists DEF Same
<1> QED BY <1>2, <1>3, <1>4

\* The end of a tick keeps the copy and forgets the rest.
LEMMA Idles ==
    ASSUME NEW l, LocRec(l)
    PROVE  LET n == Idle(l) IN
           /\ LocRec(n) /\ n.pc = "idle" /\ n.mem = l.mem /\ n.fresh = l.fresh
           /\ n.before = Down.before
<1>1. LocRec(Down)
  BY DEF LocRec, Loc, Down
<1>2. Idle(l) = WithFresh(WithMem(WithPc(Down, "idle"), l.mem), l.fresh)
  BY DEF Idle, WithPc, WithMem, WithFresh
<1> QED BY <1>1, <1>2, SetPc, SetMem, SetFresh

----------------------------------------------------------------------------
(* What a step of one process does to the others.                          *)
\* Consuming an authorization and deciding do not disturb a copy.
LEMMA SoundGrows ==
    ASSUME NEW st, NEW con, NEW us, NEW con2, NEW us2,
           con \subseteq con2, us \subseteq us2, Sound(st, con, us)
    PROVE  Sound(st, con2, us2)
  BY DEF Sound, Earned, Staging

\* Nor a process.
LEMMA LocalGrows ==
    ASSUME NEW l, NEW d, NEW con, NEW us, NEW con2, NEW us2,
           con \subseteq con2, us \subseteq us2, Local(l, d, con, us)
    PROVE  Local(l, d, con2, us2)
<1>1. Base(l, d, con2, us2)
  BY SoundGrows DEF Local, Base
<1> QED BY <1>1 DEF Local

\* A copy set aside that another write made stale.
LEMMA Stales ==
    ASSUME NEW l, LocRec(l)
    PROVE  LET n == [l EXCEPT !.before.fresh = FALSE] IN
           /\ LocRec(n) /\ n.before.st = l.before.st /\ n.before.fresh = FALSE
           /\ n.pc = l.pc /\ n.mem = l.mem /\ n.fresh = l.fresh /\ n.todo = l.todo
           /\ n.cur = l.cur /\ n.mode = l.mode /\ n.stage = l.stage
<1> DEFINE b == [l.before EXCEPT !.fresh = FALSE]
<1>1. l.before = [st |-> l.before.st, fresh |-> l.before.fresh]
  BY DEF LocRec
<1>2. b.st = l.before.st /\ b.fresh = FALSE /\ b = [st |-> b.st, fresh |-> b.fresh]
  <2>1. ASSUME NEW x, x = [st |-> x.st, fresh |-> x.fresh],
               NEW c, c = [x EXCEPT !.fresh = FALSE]
        PROVE  c.st = x.st /\ c.fresh = FALSE /\ c = [st |-> c.st, fresh |-> c.fresh]
    BY <2>1
  <2> QED BY <1>1, <2>1
<1>3. [l EXCEPT !.before.fresh = FALSE] = WithBefore(l, b)
  BY DEF WithBefore
<1> HIDE DEF b
<1> DEFINE n == WithBefore(l, b)
<1>4. /\ LocRec(n) /\ n.before = b
      /\ n.pc = l.pc /\ n.mem = l.mem /\ n.fresh = l.fresh /\ n.todo = l.todo
      /\ n.cur = l.cur /\ n.mode = l.mode /\ n.stage = l.stage
  BY <1>2, SetBefore
<1> HIDE DEF n
<1> QED BY <1>2, <1>3, <1>4 DEF n

\* A copy that became stale.
LEMMA Falls ==
    ASSUME NEW l, LocRec(l)
    PROVE  LET n == WithFresh(l, FALSE) IN
           /\ LocRec(n) /\ n.fresh = FALSE /\ n.pc = l.pc /\ n.mem = l.mem
           /\ n.before = l.before /\ n.todo = l.todo
           /\ n.cur = l.cur /\ n.mode = l.mode /\ n.stage = l.stage
<1> DEFINE n == WithFresh(l, FALSE)
<1>1. n.fresh = FALSE
  BY DEF WithFresh, LocRec, Loc
<1>2. /\ LocRec(n) /\ n.pc = l.pc /\ n.mem = l.mem
      /\ n.before = l.before /\ n.todo = l.todo
      /\ n.cur = l.cur /\ n.mode = l.mode /\ n.stage = l.stage
  BY SetFresh
<1> QED BY <1>1, <1>2

\* A copy that was just read.
LEMMA Fetches ==
    ASSUME NEW l, LocRec(l)
    PROVE  LET n == [l EXCEPT !.fresh = TRUE] IN
           /\ LocRec(n) /\ n.fresh = TRUE /\ n.pc = l.pc /\ n.mem = l.mem
           /\ n.before = l.before /\ n.todo = l.todo
           /\ n.cur = l.cur /\ n.mode = l.mode /\ n.stage = l.stage
<1> DEFINE n == WithFresh(l, TRUE)
<1>1. n.fresh = TRUE
  BY DEF WithFresh, LocRec, Loc
<1>2. /\ LocRec(n) /\ n.pc = l.pc /\ n.mem = l.mem
      /\ n.before = l.before /\ n.todo = l.todo
      /\ n.cur = l.cur /\ n.mode = l.mode /\ n.stage = l.stage
  BY SetFresh
<1>3. n = [l EXCEPT !.fresh = TRUE]
  BY DEF WithFresh
<1> HIDE DEF n
<1> QED BY <1>1, <1>2, <1>3

Overtook(l) == [l EXCEPT !.fresh = FALSE, !.before.fresh = FALSE]

\* A process that lost the race: its copies are stale, and it goes on where it
\* was, whatever the new document, as long as that has the trades of the old.
LEMMA Overtaken ==
    ASSUME NEW l, NEW d, NEW e, NEW con, NEW us, Local(l, d, con, us),
           TradeIds(d) \subseteq TradeIds(e)
    PROVE  Local(Overtook(l), e, con, us)
<1> DEFINE k == WithFresh(l, FALSE)
<1>1. LocRec(l)
  BY DEF Local, Base
<1>2. /\ LocRec(k) /\ k.fresh = FALSE /\ k.pc = l.pc /\ k.mem = l.mem
      /\ k.before = l.before /\ k.cur = l.cur /\ k.stage = l.stage
  BY <1>1, Falls DEF Same
<1> HIDE DEF k
<1> DEFINE n == [k EXCEPT !.before.fresh = FALSE]
<1>3. /\ LocRec(n) /\ n.before.st = k.before.st /\ n.before.fresh = FALSE
      /\ n.pc = k.pc /\ n.mem = k.mem /\ n.fresh = k.fresh
      /\ n.cur = k.cur /\ n.stage = k.stage
  BY <1>2, Stales
<1>4. n = Overtook(l)
  BY DEF k, WithFresh, Overtook
<1> HIDE DEF n
<1>5. Base(n, e, con, us)
  BY <1>2, <1>3 DEF Local, Base
<1>6. Local(n, e, con, us)
  BY <1>2, <1>3, <1>5 DEF Local, Agrees, Filling, Writing
<1> QED BY <1>4, <1>6

\* The same of the process that wrote, once it is known to be stale itself.
LEMMA Outdated ==
    ASSUME NEW l, NEW d, NEW e, NEW con, NEW us, Local(l, d, con, us),
           l.fresh = FALSE, l.pc # "sync"
    PROVE  LET n == [l EXCEPT !.before.fresh = FALSE] IN
           Local(n, e, con, us)
<1> DEFINE n == [l EXCEPT !.before.fresh = FALSE]
<1>1. LocRec(l)
  BY DEF Local, Base
<1>2. /\ LocRec(n) /\ n.before.st = l.before.st /\ n.before.fresh = FALSE
      /\ n.pc = l.pc /\ n.mem = l.mem /\ n.fresh = l.fresh
      /\ n.cur = l.cur /\ n.stage = l.stage
  BY <1>1, Stales
<1> HIDE DEF n
<1>3. Base(n, e, con, us)
  BY <1>2 DEF Local, Base
<1>4. Local(n, e, con, us)
  BY <1>2, <1>3 DEF Local, Agrees, Filling, Writing
<1> QED BY <1>4 DEF n

\* A step that leaves the document alone.
LEMMA SetKeeps ==
    ASSUME CouncilInv, NEW p \in Procs, NEW n, Set(p, n), doc' = doc,
           HistoryIsBacked', consumed \subseteq consumed', used \subseteq used',
           consumed' \subseteq used', used' \subseteq Decisions,
           Local(n, doc, consumed', used')
    PROVE  CouncilInv'
<1>1. Sound(doc', consumed', used')
  BY SoundGrows DEF CouncilInv
<1>2. ASSUME NEW q \in Procs PROVE Local(proc'[q], doc', consumed', used')
  <2>1. Local(proc[q], doc, consumed', used')
    BY LocalGrows DEF CouncilInv
  <2>2. proc'[q] = IF q = p THEN n ELSE proc[q]
    BY DEF CouncilInv, Set
  <2> QED BY <2>1, <2>2
<1>3. proc' = [q \in Procs |-> proc'[q]]
  BY DEF CouncilInv, Set
<1> QED BY <1>1, <1>2, <1>3 DEF CouncilInv

\* A step that writes the document.
LEMMA WrittenKeeps ==
    ASSUME CouncilInv, NEW p \in Procs, NEW n, Written(p, n),
           UNCHANGED <<consumed, used, history>>,
           Sound(doc', consumed, used), TradeIds(doc) \subseteq TradeIds(doc'),
           Local([n EXCEPT !.before.fresh = FALSE], doc', consumed, used)
    PROVE  CouncilInv'
<1>1. HistoryIsBacked'
  <2> SUFFICES ASSUME NEW h \in history
               PROVE  \E t \in doc'.trades : t.id = h.id
    BY DEF HistoryIsBacked
  <2>1. h.id \in TradeIds(doc)
    BY DEF CouncilInv, HistoryIsBacked, TradeIds
  <2> QED BY <2>1 DEF TradeIds
<1>2. ASSUME NEW q \in Procs PROVE Local(proc'[q], doc', consumed, used)
  <2>1. CASE q = p
    <3>1. proc'[q] = [n EXCEPT !.before.fresh = FALSE]
      BY <2>1 DEF Written
    <3> QED BY <3>1
  <2>2. CASE q # p
    <3>1. proc'[q] = Overtook(proc[q])
      BY <2>2 DEF Written, Overtook
    <3>2. Local(proc[q], doc, consumed, used)
      BY DEF CouncilInv
    <3> QED BY <3>1, <3>2, Overtaken
  <2> QED BY <2>1, <2>2
<1>3. proc' = [q \in Procs |-> proc'[q]]
  BY DEF Written
<1> QED BY <1>1, <1>2, <1>3 DEF CouncilInv

----------------------------------------------------------------------------
(* Where the loop's own operators lead.                                    *)
\* The empty books are sound.
LEMMA FlatIsSound ==
    ASSUME Constants, NEW con, NEW us
    PROVE  Sound(Flat, con, us)
<1>1. /\ Flat.pos = NoDecision /\ Flat.trades = {} /\ Flat.pend = {} /\ Flat.prot = {}
      /\ StateRec(Flat)
  BY DEF Flat, StateRec
<1>2. Books(Flat)
  BY <1>1 DEF Books, Constants, Bought, Closed
<1> QED BY <1>1, <1>2 DEF Sound, Earned, Staging

\* So is a process that is not running, whatever the document.
LEMMA DownIsLocal ==
    ASSUME Constants, NEW d, NEW con, NEW us
    PROVE  Local(Down, d, con, us) /\ Down.pc = "down"
<1>1. /\ LocRec(Down) /\ Down.pc = "down" /\ Down.mem = Flat /\ Down.fresh = FALSE
      /\ Down.before.st = Flat /\ Down.before.fresh = FALSE
  BY DEF LocRec, Loc, Down
<1>2. Base(Down, d, con, us)
  BY <1>1, FlatIsSound DEF Base
<1> QED BY <1>1, <1>2 DEF Local, Agrees, Filling, Writing

\* Moving on leaves the copies as they were.
LEMMA SameIsBase ==
    ASSUME NEW l, NEW n, NEW d, NEW con, NEW us, Base(l, d, con, us), Same(l, n)
    PROVE  Base(n, d, con, us) /\ (Agrees(l, d) => Agrees(n, d))
  BY DEF Base, Same, Agrees

\* A process whose copy has the document's position may persist it.
LEMMA PersistingIsLocal ==
    ASSUME NEW l, NEW s, NEW d, NEW con, NEW us, Base(l, d, con, us),
           s # "fill" => Agrees(l, d),
           s = "stage" => l.cur.dec \in us /\ l.cur.side \in {"buy", "sell"},
           s = "protect" => l.cur.dec \in Decisions /\ l.cur.side = "protect"
    PROVE  Local(Persisting(l, s), d, con, us)
<1> DEFINE n == Persisting(l, s)
<1>1. Same(l, n) /\ n.pc = "save" /\ n.stage = s /\ n.cur = l.cur
  BY Persists DEF Base
<1>2. Base(n, d, con, us) /\ (Agrees(l, d) => Agrees(n, d))
  BY <1>1, SameIsBase
<1> HIDE DEF n
<1>3. Local(n, d, con, us)
  BY <1>1, <1>2 DEF Local, Filling, Writing
<1> QED BY <1>3 DEF n

\* It may also raise,
LEMMA RaisedIsLocal ==
    ASSUME NEW l, NEW d, NEW con, NEW us, Base(l, d, con, us), Agrees(l, d)
    PROVE  /\ Local(Raised(l), d, con, us) /\ Raised(l).pc \in {"recover", "save"}
           /\ Raised(l).fresh = l.fresh
<1> DEFINE n == Raised(l)
<1>1. /\ Same(l, n)
      /\ n.pc = "recover" \/ (n.pc = "save" /\ n.stage \in {"block", "error"})
  BY RaisedStep DEF Base
<1>2. Base(n, d, con, us) /\ Agrees(n, d)
  BY <1>1, SameIsBase
<1> HIDE DEF n
<1>3. Local(n, d, con, us) /\ n.pc \in {"recover", "save"}
  BY <1>1, <1>2 DEF Local, Filling, Writing
<1>4. n.fresh = l.fresh
  BY <1>1 DEF Same
<1> QED BY <1>3, <1>4 DEF n

\* and end its tick.
LEMMA IdleIsLocal ==
    ASSUME Constants, NEW l, NEW d, NEW con, NEW us, Base(l, d, con, us), Agrees(l, d)
    PROVE  /\ Local(Idle(l), d, con, us) /\ Idle(l).pc = "idle"
           /\ Idle(l).fresh = l.fresh
<1> DEFINE n == Idle(l)
<1>1. /\ LocRec(n) /\ n.pc = "idle" /\ n.mem = l.mem /\ n.fresh = l.fresh
      /\ n.before = Down.before
  BY Idles DEF Base
<1>2. Down.before.st = Flat /\ Down.before.fresh = FALSE
  BY DEF Down
<1>3. Base(n, d, con, us) /\ Agrees(n, d)
  BY <1>1, <1>2, FlatIsSound DEF Base, Agrees
<1> HIDE DEF n
<1>4. Local(n, d, con, us)
  BY <1>1, <1>3 DEF Local, Filling, Writing
<1> QED BY <1>1, <1>4 DEF n

\* Copies are judged by the label alone where nothing is staged, applied or
\* synced.
LEMMA MovedIsLocal ==
    ASSUME NEW l, NEW n, NEW d, NEW con, NEW us, Base(l, d, con, us),
           Agrees(l, d) \/ n.pc = "reload", Same(l, n),
           n.pc \notin {"save", "sync", "consume", "apply"}
    PROVE  Local(n, d, con, us)
<1>1. Base(n, d, con, us) /\ (Agrees(l, d) => Agrees(n, d))
  BY SameIsBase
<1> QED BY <1>1 DEF Local, Filling, Writing

\* Where a persisted stage leads, and with which label.
LEMMA PersistedTo ==
    ASSUME NEW l, LocRec(l)
    PROVE  LET n == Persisted(l) IN
           /\ l.stage \in {"fill", "complete", "stage", "protect", "block"} => Same(l, n)
           /\ l.stage = "fill" => n.pc = "complete" /\ n.cur = l.cur
           /\ l.stage = "complete" => n.pc = "recover" \/ (n.pc = "save" /\ n.stage = "mark")
           /\ l.stage = "complete" /\ n.pc = "recover" => n.todo = l.todo
           /\ l.stage = "stage" => n.pc = "consume" /\ n.cur = l.cur
           /\ l.stage = "protect" => n.pc = "apply" /\ n.cur = l.cur
           /\ l.stage = "block" => n.pc = "propose" \/ (n.pc = "save" /\ n.stage = "mark")
           /\ l.stage \notin {"fill", "complete", "stage", "protect", "block"} => n = Idle(l)
<1>1. CASE l.stage = "fill"
  <2>1. Persisted(l) = WithPc(l, "complete")
    BY <1>1 DEF Persisted, WithPc
  <2> QED BY <1>1, <2>1, SetPc DEF Same
<1>2. CASE l.stage = "complete"
  <2>1. CASE l.mode \in {"boot", "recover"}
    <3> DEFINE k == WithPc(l, "recover")
    <3>1. Persisted(l) = WithCur(k, NoDecision)
      BY <1>2, <2>1 DEF Persisted, WithPc, WithCur
    <3>2. Same(l, k) /\ k.pc = "recover" /\ k.todo = l.todo
      BY SetPc DEF Same
    <3> HIDE DEF k
    <3>3. /\ Same(k, WithCur(k, NoDecision)) /\ WithCur(k, NoDecision).pc = k.pc
          /\ WithCur(k, NoDecision).todo = k.todo
      BY <3>2, SetCur DEF Same
    <3> QED BY <1>2, <3>1, <3>2, <3>3 DEF Same
  <2>2. CASE l.mode \notin {"boot", "recover"}
    <3> DEFINE k == WithCur(l, NoDecision)
               m == WithMode(k, "tick")
    <3>1. Persisted(l) = Persisting(m, "mark")
      BY <1>2, <2>2 DEF Persisted, WithCur, WithMode
    <3>2. Same(l, k)
      BY SetCur DEF Same
    <3>3. Same(k, m)
      BY <3>2, SetMode DEF Same
    <3> HIDE DEF k, m
    <3>4. LET n == Persisting(m, "mark") IN Same(m, n) /\ n.pc = "save" /\ n.stage = "mark"
      BY <3>3, Persists DEF Same
    <3> QED BY <1>2, <3>1, <3>2, <3>3, <3>4 DEF Same
  <2> QED BY <2>1, <2>2
<1>3. CASE l.stage = "stage"
  <2>1. Persisted(l) = WithPc(l, "consume")
    BY <1>3 DEF Persisted, WithPc
  <2> QED BY <1>3, <2>1, SetPc DEF Same
<1>4. CASE l.stage = "protect"
  <2>1. Persisted(l) = WithPc(l, "apply")
    BY <1>4 DEF Persisted, WithPc
  <2> QED BY <1>4, <2>1, SetPc DEF Same
<1>5. CASE l.stage = "block"
  <2>1. CASE l.mem.pos = NoDecision
    <3> DEFINE k == WithMode(l, "tick")
    <3>1. Persisted(l) = Persisting(k, "mark")
      BY <1>5, <2>1 DEF Persisted, WithMode
    <3>2. Same(l, k)
      BY SetMode DEF Same
    <3> HIDE DEF k
    <3>3. LET n == Persisting(k, "mark") IN Same(k, n) /\ n.pc = "save" /\ n.stage = "mark"
      BY <3>2, Persists DEF Same
    <3> QED BY <1>5, <3>1, <3>2, <3>3 DEF Same
  <2>2. CASE l.mem.pos # NoDecision
    <3> DEFINE k == WithPc(l, "propose")
    <3>1. Persisted(l) = WithMode(k, "tick")
      BY <1>5, <2>2 DEF Persisted, WithPc, WithMode
    <3>2. Same(l, k) /\ k.pc = "propose"
      BY SetPc DEF Same
    <3> HIDE DEF k
    <3>3. Same(k, WithMode(k, "tick")) /\ WithMode(k, "tick").pc = k.pc
      BY <3>2, SetMode DEF Same
    <3> QED BY <1>5, <3>1, <3>2, <3>3 DEF Same
  <2> QED BY <2>1, <2>2
<1>6. CASE l.stage \notin {"fill", "complete", "stage", "protect", "block"}
  <2>1. Persisted(l) = Idle(l)
    BY <1>6 DEF Persisted
  <2> QED BY <1>6, <2>1
<1> QED BY <1>1, <1>2, <1>3, <1>4, <1>5, <1>6

\* A process whose write was stored goes on soundly,
LEMMA PersistedIsLocal ==
    ASSUME Constants, NEW l, NEW d, NEW con, NEW us, Local(l, d, con, us),
           us \subseteq Decisions, l.pc = "sync"
    PROVE  Local(Persisted(l), d, con, us)
<1> DEFINE n == Persisted(l)
<1>1. Base(l, d, con, us) /\ Agrees(l, d) /\ LocRec(l)
  BY DEF Local, Base, Filling
<1>2. CASE l.stage = "protect"
  <2>1. Same(l, n) /\ n.pc = "apply" /\ n.cur = l.cur
    BY <1>1, <1>2, PersistedTo
  <2>2. Base(n, d, con, us) /\ Agrees(n, d)
    BY <1>1, <2>1, SameIsBase
  <2>3. l.cur.dec \in Decisions /\ l.cur.side = "protect"
    BY <1>2 DEF Local, Writing
  <2> HIDE DEF n
  <2>4. Local(n, d, con, us)
    BY <2>1, <2>2, <2>3 DEF Local, Filling, Writing
  <2> QED BY <2>4 DEF n
<1>3. CASE l.stage = "stage"
  <2>1. Same(l, n) /\ n.pc = "consume" /\ n.cur = l.cur
    BY <1>1, <1>3, PersistedTo
  <2>2. Base(n, d, con, us) /\ Agrees(n, d)
    BY <1>1, <2>1, SameIsBase
  <2>3. l.cur.dec \in us /\ l.cur.side \in {"buy", "sell"}
    BY <1>3 DEF Local, Writing
  <2> HIDE DEF n
  <2>4. Local(n, d, con, us)
    BY <2>1, <2>2, <2>3 DEF Local, Filling, Writing
  <2> QED BY <2>4 DEF n
<1>4. CASE l.stage \in {"fill", "complete", "block"}
  <2>1. /\ Same(l, n)
        /\ n.pc \in {"complete", "recover", "propose"} \/ (n.pc = "save" /\ n.stage = "mark")
    BY <1>1, <1>4, PersistedTo
  <2>2. Base(n, d, con, us) /\ Agrees(n, d)
    BY <1>1, <2>1, SameIsBase
  <2> HIDE DEF n
  <2>3. Local(n, d, con, us)
    BY <2>1, <2>2 DEF Local, Filling, Writing
  <2> QED BY <2>3 DEF n
<1>5. CASE l.stage \notin {"fill", "complete", "stage", "protect", "block"}
  BY <1>1, <1>5, PersistedTo, IdleIsLocal
<1> QED BY <1>2, <1>3, <1>4, <1>5

\* and so does one whose write failed.
LEMMA NotPersistedIsLocal ==
    ASSUME Constants, NEW l, NEW d, NEW con, NEW us, Base(l, d, con, us),
           l.stage \notin {"fill", "protect"} => Agrees(l, d)
    PROVE  /\ Local(NotPersisted(l), d, con, us)
           /\ NotPersisted(l).pc # "sync" /\ NotPersisted(l).fresh = l.fresh
<1>1. LocRec(l)
  BY DEF Base
<1>2. CASE l.stage \in {"fill", "protect"} \/ (l.mode = "protect" /\ l.stage = "complete")
  <2>1. NotPersisted(l) = WithPc(l, "reload")
    BY <1>2 DEF NotPersisted, WithPc
  <2>2. Same(l, WithPc(l, "reload")) /\ WithPc(l, "reload").pc = "reload"
    BY <1>1, SetPc DEF Same
  <2>3. Local(WithPc(l, "reload"), d, con, us)
    BY <2>2, MovedIsLocal
  <2>4. WithPc(l, "reload").fresh = l.fresh
    BY <2>2 DEF Same
  <2> QED BY <2>1, <2>2, <2>3, <2>4
<1>3. CASE ~(l.stage \in {"fill", "protect"} \/ (l.mode = "protect" /\ l.stage = "complete"))
  <2>1. CASE l.stage = "error"
    <3>1. NotPersisted(l) = Idle(l)
      BY <1>3, <2>1 DEF NotPersisted
    <3> QED BY <1>3, <3>1, IdleIsLocal
  <2>2. CASE l.stage \in {"block", "mark"}
    <3> DEFINE k == WithMode(l, "tick")
    <3>1. NotPersisted(l) = Raised(k)
      BY <1>3, <2>2 DEF NotPersisted, WithMode
    <3>2. Same(l, k)
      BY <1>1, SetMode DEF Same
    <3> HIDE DEF k
    <3>3. Base(k, d, con, us) /\ Agrees(k, d)
      BY <1>3, <3>2, SameIsBase
    <3>4. k.fresh = l.fresh
      BY <3>2 DEF Same
    <3> QED BY <3>1, <3>3, <3>4, RaisedIsLocal
  <2>3. CASE l.stage \notin {"block", "mark", "error"}
    <3>1. NotPersisted(l) = Raised(l)
      BY <1>3, <2>3 DEF NotPersisted
    <3> QED BY <1>3, <3>1, RaisedIsLocal
  <2> QED BY <2>1, <2>2, <2>3
<1> QED BY <1>2, <1>3

----------------------------------------------------------------------------
(* Applying a fill.                                                        *)
\* Order ids tell the side and the decision.
LEMMA Ids ==
    /\ \A d, e : BuyId(d) = BuyId(e) => d = e
    /\ \A d, e : SellId(d) = SellId(e) => d = e
    /\ \A d, e : ProtId(d) = ProtId(e) => d = e
    /\ \A d, e : /\ BuyId(d) # SellId(e) /\ BuyId(d) # ProtId(e)
                 /\ SellId(d) # ProtId(e) /\ ProtId(d)[2] = d
                 /\ BuyId(d)[2] = d /\ SellId(d)[2] = d
  BY DEF BuyId, SellId, ProtId

Entry(st, i) == IF i.side = "buy" THEN i.dec ELSE st.pos
Trade(st, i, s) == [id |-> IdOf(i), dec |-> Entry(st, i), price |-> i.price, settle |-> s]

\* _open and _close add one trade and move the position.
LEMMA FilledIs ==
    ASSUME NEW st, StateRec(st), NEW i, NEW s
    PROVE  LET f == Filled(st, i, s) t == Trade(st, i, s) IN
           /\ StateRec(f) /\ f.pend = st.pend /\ f.prot = st.prot
           /\ f.pos = (IF i.side = "buy" THEN i.dec ELSE NoDecision)
           /\ f.trades = st.trades \union {t}
           /\ TradeRec(t) /\ t.id = IdOf(i) /\ t.dec = Entry(st, i)
           /\ t.price = i.price /\ t.settle = s
<1> DEFINE t == Trade(st, i, s)
           pos == IF i.side = "buy" THEN i.dec ELSE NoDecision
           g == [st EXCEPT !.pos = pos]
<1>1. TradeRec(t) /\ t.id = IdOf(i) /\ t.dec = Entry(st, i) /\ t.price = i.price /\ t.settle = s
  BY DEF TradeRec, Trade
<1> HIDE DEF pos
<1>2. StateRec(g) /\ g.pos = pos /\ g.trades = st.trades /\ g.pend = st.pend /\ g.prot = st.prot
  BY DEF StateRec
<1>3. Filled(st, i, s) = [g EXCEPT !.trades = g.trades \union {t}]
  BY DEF Filled, Trade, Entry, pos
<1> HIDE DEF g, t
<1>4. ASSUME NEW x, NEW f, f = [g EXCEPT !.trades = x]
      PROVE  /\ StateRec(f) /\ f.pend = g.pend /\ f.prot = g.prot
             /\ f.pos = g.pos /\ f.trades = x
  BY <1>2, <1>4 DEF StateRec
<1>5. LET f == Filled(st, i, s) IN
      /\ StateRec(f) /\ f.pend = st.pend /\ f.prot = st.prot
      /\ f.pos = pos /\ f.trades = st.trades \union {t}
  BY <1>2, <1>3, <1>4
<1> QED BY <1>1, <1>5 DEF t, pos

\* The books stay right when a fill that fits the position and is not there
\* yet is applied.
LEMMA FilledKeepsBooks ==
    ASSUME Constants, NEW st, StateRec(st), Books(st), NEW i, NEW s,
           i.dec \in Decisions, i.side \in {"buy", "sell", "protect"},
           (i.side = "buy") <=> (st.pos = NoDecision),
           \A t \in st.trades : t.id # IdOf(i)
    PROVE  Books(Filled(st, i, s))
<1> DEFINE f == Filled(st, i, s)
           t == Trade(st, i, s)
           e == Entry(st, i)
<1>1. /\ f.pos = (IF i.side = "buy" THEN i.dec ELSE NoDecision)
      /\ f.trades = st.trades \union {t}
      /\ TradeRec(t) /\ t.id = IdOf(i) /\ t.dec = e
  BY FilledIs
<1> HIDE DEF f, t
<1>2. /\ e \in Decisions
      /\ i.side = "buy" => e = i.dec
      /\ i.side # "buy" => e = st.pos
  BY DEF Books, Entry
<1> HIDE DEF e
<1>3. CASE i.side = "buy"
  <2>1. t.id = BuyId(e) /\ st.pos = NoDecision /\ f.pos = e /\ e # NoDecision
    BY <1>1, <1>2, <1>3 DEF IdOf, Constants
  <2>2. ~Bought(st, e) /\ ~Closed(st, e)
    BY <1>1, <1>2, <2>1 DEF Books, Bought
  <2>3. \A d \in Decisions : d # e => ~(Bought(st, d) /\ ~Closed(st, d))
    BY <2>1 DEF Books, Constants
  <2>4. \A d \in Decisions : /\ Bought(f, d) <=> Bought(st, d) \/ d = e
                             /\ Closed(f, d) <=> Closed(st, d)
    BY <1>1, <2>1, Ids DEF Bought, Closed
  <2>5. \A d \in Decisions : f.pos = d <=> Bought(f, d) /\ ~Closed(f, d)
    BY <2>1, <2>2, <2>3, <2>4
  <2>6. \A d \in Decisions : Closed(f, d) => Bought(f, d)
    BY <2>4 DEF Books
  <2>7. \A u, v \in f.trades : u.dec = v.dec /\ Closes(u) /\ Closes(v) => u = v
    BY <1>1, <2>1 DEF Books, Closes
  <2>8. \A u \in f.trades : /\ TradeRec(u) /\ u.dec \in Decisions
                            /\ Closes(u) => \A d \in Decisions : u.id # BuyId(d)
    BY <1>1, <1>2, <2>1 DEF Books, Closes
  <2> QED BY <1>2, <2>1, <2>5, <2>6, <2>7, <2>8 DEF f, Books
<1>4. CASE i.side # "buy"
  <2>1. /\ \A d : t.id # BuyId(d)
        /\ st.pos = e /\ f.pos = NoDecision /\ e # NoDecision
    BY <1>1, <1>2, <1>4, Ids DEF IdOf, Constants
  <2>2. Bought(st, e) /\ ~Closed(st, e)
    BY <1>2, <2>1 DEF Books
  <2>3. \A d \in Decisions : d # e => ~(Bought(st, d) /\ ~Closed(st, d))
    BY <2>1 DEF Books
  <2>4. \A d \in Decisions : /\ Bought(f, d) <=> Bought(st, d)
                             /\ Closed(f, d) <=> Closed(st, d) \/ d = e
    BY <1>1, <2>1 DEF Bought, Closed
  <2>5. \A d \in Decisions : f.pos = d <=> Bought(f, d) /\ ~Closed(f, d)
    BY <2>1, <2>2, <2>3, <2>4 DEF Constants
  <2>6. \A d \in Decisions : Closed(f, d) => Bought(f, d)
    BY <2>2, <2>4 DEF Books
  <2>7. \A u, v \in f.trades : u.dec = v.dec /\ Closes(u) /\ Closes(v) => u = v
    <3>1. \A u \in st.trades : Closes(u) => u.dec # e
      BY <2>2 DEF Closed, Closes
    <3> QED BY <1>1, <3>1 DEF Books
  <2>8. \A u \in f.trades : /\ TradeRec(u) /\ u.dec \in Decisions
                            /\ Closes(u) => \A d \in Decisions : u.id # BuyId(d)
    BY <1>1, <1>2, <2>1 DEF Books, Closes
  <2> QED BY <2>1, <2>5, <2>6, <2>7, <2>8 DEF f, Books
<1> QED BY <1>3, <1>4

\* The copy stays sound and still has every trade it had.
LEMMA FilledIsSound ==
    ASSUME Constants, NEW st, NEW con, NEW us, Sound(st, con, us), NEW i, NEW s,
           i.dec \in Decisions, i.side \in {"buy", "sell", "protect"},
           i.side # "protect" => i.dec \in con,
           (i.side = "buy") <=> (st.pos = NoDecision),
           \A t \in st.trades : t.id # IdOf(i)
    PROVE  LET f == Filled(st, i, s) IN
           /\ Sound(f, con, us) /\ f.pend = st.pend /\ f.prot = st.prot
           /\ f.pos = (IF i.side = "buy" THEN i.dec ELSE NoDecision)
           /\ TradeIds(f) = TradeIds(st) \union {IdOf(i)}
<1> DEFINE f == Filled(st, i, s)
           t == Trade(st, i, s)
<1>1. /\ StateRec(f) /\ f.pend = st.pend /\ f.prot = st.prot
      /\ f.pos = (IF i.side = "buy" THEN i.dec ELSE NoDecision)
      /\ f.trades = st.trades \union {t} /\ t.id = IdOf(i)
  BY FilledIs DEF Sound
<1>2. Books(f)
  BY FilledKeepsBooks DEF Sound
<1> HIDE DEF f, t
<1>3. Earned(f, con)
  <2>1. \A d : IdOf(i) \in {BuyId(d), SellId(d)} => d = i.dec /\ i.side # "protect"
    BY Ids DEF IdOf
  <2> QED BY <1>1, <2>1 DEF Sound, Earned
<1>4. Staging(f, us)
  BY <1>1 DEF Sound, Staging
<1>5. TradeIds(f) = TradeIds(st) \union {IdOf(i)}
  BY <1>1 DEF TradeIds
<1> QED BY <1>1, <1>2, <1>3, <1>4, <1>5 DEF f, Sound

----------------------------------------------------------------------------
(* CouncilInv is kept by every step.                                       *)
\* Before anything has run.
LEMMA InitCouncil == ASSUME Constants, CouncilInit PROVE CouncilInv
<1>1. doc = Flat /\ consumed = {} /\ used = {} /\ history = {} /\ proc = [p \in Procs |-> Down]
  BY DEF CouncilInit
<1>2. Sound(doc, consumed, used)
  BY <1>1, FlatIsSound
<1>3. \A p \in Procs : Local(proc[p], doc, consumed, used)
  BY <1>1, DownIsLocal
<1> QED BY <1>1, <1>2, <1>3 DEF CouncilInv, HistoryIsBacked

\* What the invariant says of the process that takes a step.
LEMMA Here ==
    ASSUME CouncilInv, NEW p \in Procs
    PROVE  /\ Local(proc[p], doc, consumed, used)
           /\ Base(proc[p], doc, consumed, used) /\ LocRec(proc[p])
           /\ ~Filling(proc[p]) => Agrees(proc[p], doc)
           /\ consumed \subseteq used /\ used \subseteq Decisions
           /\ Sound(doc, consumed, used)
  BY DEF CouncilInv, Local, Base

\* A step that moves one process and writes nothing else.
LEMMA MoveKeeps ==
    ASSUME CouncilInv, NEW p \in Procs, NEW n, Set(p, n),
           UNCHANGED <<doc, consumed, history, used>>, Local(n, doc, consumed, used)
    PROVE  CouncilInv'
<1>1. HistoryIsBacked' /\ consumed \subseteq used /\ used \subseteq Decisions
  BY DEF CouncilInv, HistoryIsBacked
<1> QED BY <1>1, SetKeeps

\* _load backs the history with the document it reads.
LEMMA LoadKeeps ==
    ASSUME Constants, CouncilInv, NEW p \in Procs, Load(p) PROVE CouncilInv'
<1>1. CASE \E t \in doc.trades, h \in history : t.id = h.id /\ t # h
  <2> DEFINE n == WithPc(Down, "refused")
  <2>1. Set(p, n) /\ UNCHANGED <<doc, consumed, history, used>>
    BY <1>1 DEF Load, WithPc
  <2>2. Base(Down, doc, consumed, used) /\ Agrees(Down, doc) /\ LocRec(Down)
    BY DownIsLocal DEF Local, Filling, Base
  <2>3. Same(Down, n) /\ n.pc = "refused"
    BY <2>2, SetPc DEF Same
  <2>4. Local(n, doc, consumed, used)
    BY <2>2, <2>3, MovedIsLocal
  <2> QED BY <2>1, <2>4, MoveKeeps
<1>2. CASE ~\E t \in doc.trades, h \in history : t.id = h.id /\ t # h
  <2> DEFINE k == WithMem(WithPc(Down, "boot"), doc)
             n == [k EXCEPT !.fresh = TRUE]
  <2>1. /\ Set(p, n) /\ UNCHANGED <<doc, consumed, used>>
        /\ history' = history \union doc.trades
    BY <1>2 DEF Load, WithPc, WithMem
  <2>2. LocRec(Down) /\ Down.before.st = Flat /\ Down.before.fresh = FALSE
    BY DEF LocRec, Loc, Down
  <2>3. /\ LocRec(k) /\ k.pc = "boot" /\ k.mem = doc /\ k.before = Down.before
    BY <2>2, SetPc, SetMem
  <2> HIDE DEF k
  <2>4. LocRec(n) /\ n.pc = "boot" /\ n.mem = doc /\ n.before = Down.before
    BY <2>3, Fetches
  <2> HIDE DEF n
  <2>5. Sound(doc, consumed, used)
    BY Here
  <2>6. Base(n, doc, consumed, used) /\ Agrees(n, doc)
    BY <2>2, <2>4, <2>5, FlatIsSound DEF Base, Agrees, Covers
  <2>7. Local(n, doc, consumed, used)
    BY <2>4, <2>6 DEF Local, Filling, Writing
  <2>8. HistoryIsBacked'
    BY <2>1 DEF CouncilInv, HistoryIsBacked
  <2> QED BY <2>1, <2>7, <2>8, SetKeeps DEF CouncilInv
<1> QED BY <1>1, <1>2

\* Dying loses the copy.
LEMMA CrashKeeps ==
    ASSUME Constants, CouncilInv, NEW p \in Procs, Crash(p) PROVE CouncilInv'
<1>1. Set(p, Down) /\ UNCHANGED <<doc, consumed, history, used>>
  BY DEF Crash
<1> QED BY <1>1, DownIsLocal, MoveKeeps

\* _save_database_state: whoever was not the writer is overtaken, and a writer
\* that was not told is outdated.
LEMMA SaveKeeps ==
    ASSUME Constants, CouncilInv, NEW p \in Procs, Save(p) PROVE CouncilInv'
<1> DEFINE l == proc[p]
<1>0. /\ Local(l, doc, consumed, used) /\ Base(l, doc, consumed, used) /\ LocRec(l)
      /\ Sound(l.mem, consumed, used) /\ UNCHANGED <<consumed, used, history>>
      /\ l.pc = "save"
      /\ l.stage \notin {"fill", "protect"} => Agrees(l, doc)
  BY Here DEF Base, Save, Filling
<1>1. ASSUME l.fresh, doc' = l.mem
      PROVE  Sound(doc', consumed, used) /\ TradeIds(doc) \subseteq TradeIds(doc')
  BY <1>0, <1>1 DEF Base, Covers
<1>2. CASE l.fresh /\ doc' = l.mem /\ Written(p, WithPc(l, "sync"))
  <2> DEFINE k == WithPc(l, "sync")
             n == [k EXCEPT !.before.fresh = FALSE]
  <2>1. Same(l, k) /\ k.pc = "sync" /\ k.cur = l.cur /\ k.stage = l.stage
    BY <1>0, SetPc DEF Same
  <2> HIDE DEF k
  <2>2. /\ LocRec(n) /\ n.before.st = k.before.st /\ n.before.fresh = FALSE
        /\ n.pc = k.pc /\ n.mem = k.mem /\ n.cur = k.cur /\ n.stage = k.stage
    BY <2>1, Stales DEF Same
  <2> HIDE DEF n
  <2>3. Base(n, l.mem, consumed, used) /\ Agrees(n, l.mem)
    BY <1>0, <2>1, <2>2 DEF Base, Same, Covers, Agrees
  <2>4. Local(n, l.mem, consumed, used)
    BY <1>0, <2>1, <2>2, <2>3 DEF Local, Filling, Writing, Same
  <2> QED BY <1>0, <1>1, <1>2, <2>4, WrittenKeeps DEF n, k
<1>3. CASE UNCHANGED doc /\ Set(p, NotPersisted(l))
  <2>1. Local(NotPersisted(l), doc, consumed, used)
    BY <1>0, NotPersistedIsLocal
  <2> QED BY <1>0, <1>3, <2>1, MoveKeeps
<1>4. CASE l.fresh /\ doc' = l.mem /\ Written(p, NotPersisted(WithFresh(l, FALSE)))
  <2> DEFINE k == WithFresh(l, FALSE)
             n == NotPersisted(k)
  <2>1. LocRec(k) /\ k.fresh = FALSE /\ k.mem = l.mem /\ k.before = l.before
    BY <1>0, Falls
  <2> HIDE DEF k
  <2>2. Base(k, doc, consumed, used) /\ Agrees(k, doc)
    BY <1>0, <2>1 DEF Base, Agrees
  <2>3. Local(n, doc, consumed, used) /\ n.pc # "sync" /\ n.fresh = FALSE
    BY <2>1, <2>2, NotPersistedIsLocal
  <2> HIDE DEF n
  <2>4. Local([n EXCEPT !.before.fresh = FALSE], doc', consumed, used)
    BY <2>3, Outdated
  <2> QED BY <1>0, <1>1, <1>4, <2>4, WrittenKeeps DEF n, k
<1> QED BY <1>2, <1>3, <1>4 DEF Save, WithPc, WithFresh

\* _sync_immutable_history: what is put there is in the document.
LEMMA SyncKeeps ==
    ASSUME Constants, CouncilInv, NEW p \in Procs, Sync(p) PROVE CouncilInv'
<1> DEFINE l == proc[p]
           new == {t \in l.mem.trades : \A h \in history : h.id # t.id}
<1>0. /\ Local(l, doc, consumed, used) /\ Base(l, doc, consumed, used)
      /\ Agrees(l, doc) /\ used \subseteq Decisions
      /\ UNCHANGED <<doc, consumed, used>> /\ l.pc = "sync"
      /\ TradeIds(l.mem) \subseteq TradeIds(doc)
  BY Here DEF Sync, Filling, Local
<1>1. CASE history' = history \union new /\ Set(p, Persisted(l))
  <2>1. HistoryIsBacked'
    <3> SUFFICES ASSUME NEW h \in history'
                 PROVE  \E t \in doc.trades : t.id = h.id
      BY <1>0 DEF HistoryIsBacked
    <3>1. CASE h \in history
      BY <3>1 DEF CouncilInv, HistoryIsBacked
    <3>2. CASE h \in l.mem.trades
      BY <1>0, <3>2 DEF TradeIds
    <3> QED BY <1>1, <3>1, <3>2
  <2>2. Local(Persisted(l), doc, consumed, used)
    BY <1>0, PersistedIsLocal
  <2> QED BY <1>0, <1>1, <2>1, <2>2, SetKeeps DEF CouncilInv
<1>2. CASE UNCHANGED history /\ Set(p, NotPersisted(l))
  <2>1. Local(NotPersisted(l), doc, consumed, used)
    BY <1>0, NotPersistedIsLocal
  <2> QED BY <1>0, <1>2, <2>1, MoveKeeps
<1> QED BY <1>1, <1>2 DEF Sync

\* _reload_canonical_state, or what was set aside.
LEMMA ReloadKeeps ==
    ASSUME Constants, CouncilInv, NEW p \in Procs, Reload(p) PROVE CouncilInv'
<1> DEFINE l == proc[p]
<1>0. /\ Base(l, doc, consumed, used) /\ LocRec(l)
      /\ UNCHANGED <<doc, consumed, used, history>> /\ Sound(doc, consumed, used)
  BY Here DEF Reload
<1>1. CASE Set(p, Raised([l EXCEPT !.mem = doc, !.fresh = TRUE]))
  <2> DEFINE k == WithMem(l, doc)
             n == [k EXCEPT !.fresh = TRUE]
  <2>1. Set(p, Raised(n))
    BY <1>1 DEF WithMem
  <2>2. LocRec(k) /\ k.mem = doc /\ k.before = l.before
    BY <1>0, SetMem
  <2> HIDE DEF k
  <2>3. LocRec(n) /\ n.mem = doc /\ n.before = l.before
    BY <2>2, Fetches
  <2> HIDE DEF n
  <2>4. Base(n, doc, consumed, used) /\ Agrees(n, doc)
    BY <1>0, <2>3 DEF Base, Agrees, Covers
  <2> QED BY <1>0, <2>1, <2>4, RaisedIsLocal, MoveKeeps
<1>2. CASE Set(p, Raised([l EXCEPT !.mem = l.before.st, !.fresh = l.before.fresh]))
  <2> DEFINE k == WithMem(l, l.before.st)
             n == WithFresh(k, l.before.fresh)
  <2>1. Set(p, Raised(n))
    BY <1>2 DEF WithMem, WithFresh
  <2>2. LocRec(k) /\ k.mem = l.before.st /\ k.before = l.before
    BY <1>0, SetMem
  <2> HIDE DEF k
  <2>3. /\ LocRec(n) /\ n.mem = l.before.st /\ n.before = l.before
        /\ n.fresh = l.before.fresh
    BY <2>2, SetFresh
  <2> HIDE DEF n
  <2>4. Base(n, doc, consumed, used) /\ Agrees(n, doc)
    BY <1>0, <2>3 DEF Base, Agrees
  <2> QED BY <1>0, <2>1, <2>4, RaisedIsLocal, MoveKeeps
<1> QED BY <1>1, <1>2 DEF Reload

\* A tick starts with a recovery.
LEMMA TickBeginsKeeps ==
    ASSUME Constants, CouncilInv, NEW p \in Procs, TickBegins(p) PROVE CouncilInv'
<1> DEFINE l == proc[p]
           k == WithPc(l, "recover")
           m == WithMode(k, "recover")
           n == WithTodo(m, {i.dec : i \in l.mem.pend})
<1>1. /\ Set(p, n) /\ UNCHANGED <<doc, consumed, used, history>>
      /\ Base(l, doc, consumed, used) /\ Agrees(l, doc) /\ LocRec(l)
  BY Here DEF TickBegins, WithPc, WithMode, WithTodo, Filling
<1>2. Same(l, k) /\ k.pc = "recover"
  BY <1>1, SetPc DEF Same
<1> HIDE DEF k
<1>3. Same(k, m) /\ m.pc = k.pc
  BY <1>2, SetMode DEF Same
<1> HIDE DEF m
<1>4. Same(m, n) /\ n.pc = m.pc
  BY <1>3, SetTodo DEF Same
<1> HIDE DEF n
<1>5. Same(l, n)
  BY <1>2, <1>3, <1>4 DEF Same
<1>6. Local(n, doc, consumed, used)
  BY <1>1, <1>2, <1>3, <1>4, <1>5, MovedIsLocal
<1> QED BY <1>1, <1>6, MoveKeeps

Taking(l, i, x) == [l EXCEPT !.todo = x, !.cur = i, !.pc = "apply"]

\* The staged fill a recovery takes up.
LEMMA TakesUp ==
    ASSUME NEW l, LocRec(l), NEW i, NEW x
    PROVE  LET n == Taking(l, i, x) IN
           Same(l, n) /\ n.pc = "apply" /\ n.cur = i /\ n.todo = x /\ n.mode = l.mode
<1> DEFINE k == WithTodo(l, x)
           m == WithCur(k, i)
           n == WithPc(m, "apply")
<1>1. Same(l, k) /\ k.todo = x /\ k.mode = l.mode
  BY SetTodo DEF Same
<1>2. Taking(l, i, x) = n
  BY DEF Taking, WithTodo, WithCur, WithPc
<1> HIDE DEF k
<1>3. Same(k, m) /\ m.cur = i /\ m.todo = k.todo /\ m.mode = k.mode
  BY <1>1, SetCur DEF Same
<1> HIDE DEF m
<1>4. Same(m, n) /\ n.pc = "apply" /\ n.cur = m.cur /\ n.todo = m.todo /\ n.mode = m.mode
  BY <1>3, SetPc DEF Same
<1> HIDE DEF n
<1> QED BY <1>1, <1>2, <1>3, <1>4 DEF Same

\* It was decided, so it can be consumed; a failure leaves it staged.
LEMMA RecoverAuthorizedKeeps ==
    ASSUME Constants, CouncilInv, NEW p \in Procs, RecoverAuthorized(p)
    PROVE  CouncilInv'
<1> DEFINE l == proc[p]
           On(i) == Taking(l, i, l.todo \ {i.dec})
<1>1. /\ UNCHANGED <<doc, used, history>> /\ consumed \subseteq used
      /\ Base(l, doc, consumed, used) /\ Agrees(l, doc) /\ LocRec(l)
      /\ used \subseteq Decisions
  BY Here DEF RecoverAuthorized, Filling
<1>2. PICK i \in l.mem.pend :
        \/ consumed' = consumed \union {i.dec} /\ Set(p, On(i))
        \/ UNCHANGED consumed /\ Set(p, Raised(On(i)))
        \/ /\ UNCHANGED consumed
           /\ Set(p, IF l.mode = "boot" THEN Down
                     ELSE Raised([On(i) EXCEPT !.mode = "tick"]))
  BY DEF RecoverAuthorized, Taking
<1> DEFINE n == On(i)
<1>3. i.dec \in used /\ i.side \in {"buy", "sell"}
  BY <1>1 DEF Base, Sound, Staging
<1>4. Same(l, n) /\ n.pc = "apply" /\ n.cur = i
  BY <1>1, TakesUp
<1> HIDE DEF n
<1>5. Base(n, doc, consumed, used) /\ Agrees(n, doc)
  BY <1>1, <1>4, SameIsBase
<1>6. CASE consumed' = consumed \union {i.dec} /\ Set(p, n)
  <2>1. Base(n, doc, consumed', used)
    BY <1>5, <1>6, SoundGrows DEF Base
  <2>2. Local(n, doc, consumed', used)
    BY <1>1, <1>3, <1>4, <1>5, <1>6, <2>1 DEF Local, Filling, Writing
  <2>3. HistoryIsBacked'
    BY <1>1 DEF CouncilInv, HistoryIsBacked
  <2> QED BY <1>1, <1>3, <1>6, <2>2, <2>3, SetKeeps
<1>7. CASE UNCHANGED consumed /\ Set(p, Raised(n))
  <2>1. Local(Raised(n), doc, consumed, used)
    BY <1>5, RaisedIsLocal
  <2> QED BY <1>1, <1>7, <2>1, MoveKeeps
<1>8. CASE UNCHANGED consumed /\ Set(p, Down)
  BY <1>1, <1>8, DownIsLocal, MoveKeeps
<1>9. CASE UNCHANGED consumed /\ Set(p, Raised(WithMode(n, "tick")))
  <2> DEFINE m == WithMode(n, "tick")
  <2>1. Same(n, m)
    BY <1>4, SetMode DEF Same
  <2> HIDE DEF m
  <2>2. Local(Raised(m), doc, consumed, used)
    BY <1>5, <2>1, SameIsBase, RaisedIsLocal
  <2> QED BY <1>1, <1>9, <2>2, MoveKeeps DEF m
<1> QED BY <1>2, <1>6, <1>7, <1>8, <1>9 DEF n, WithMode

\* The staged protective close needs no authorization.
LEMMA RecoverProtectiveKeeps ==
    ASSUME Constants, CouncilInv, NEW p \in Procs, RecoverProtective(p)
    PROVE  CouncilInv'
<1> DEFINE l == proc[p]
           C(i) == [dec |-> i.dec, side |-> "protect", price |-> i.price]
<1>1. /\ UNCHANGED <<doc, consumed, used, history>>
      /\ Base(l, doc, consumed, used) /\ Agrees(l, doc) /\ LocRec(l)
  BY Here DEF RecoverProtective, Filling
<1>2. \/ \E i \in l.mem.prot :
            Set(p, [l EXCEPT !.todo = {"prot"}, !.pc = "apply", !.cur = C(i)])
      \/ Set(p, Idle(l))
      \/ Set(p, [l EXCEPT !.pc = "act", !.mode = "tick", !.todo = {}])
  BY DEF RecoverProtective
<1>3. CASE \E i \in l.mem.prot :
              Set(p, [l EXCEPT !.todo = {"prot"}, !.pc = "apply", !.cur = C(i)])
  <2>1. PICK i \in l.mem.prot :
              Set(p, [l EXCEPT !.todo = {"prot"}, !.pc = "apply", !.cur = C(i)])
    BY <1>3
  <2> DEFINE c == C(i)
             k == WithTodo(l, {"prot"})
             m == WithPc(k, "apply")
             n == WithCur(m, c)
  <2>2. Set(p, n)
    BY <2>1 DEF WithTodo, WithPc, WithCur
  <2>3. c.dec \in Decisions /\ c.side = "protect"
    BY <1>1 DEF Base, Sound, Staging
  <2> HIDE DEF c
  <2>4. Same(l, k)
    BY <1>1, SetTodo DEF Same
  <2> HIDE DEF k
  <2>5. Same(k, m) /\ m.pc = "apply"
    BY <2>4, SetPc DEF Same
  <2> HIDE DEF m
  <2>6. Same(m, n) /\ n.pc = m.pc /\ n.cur = c
    BY <2>5, SetCur DEF Same
  <2> HIDE DEF n
  <2>7. Same(l, n)
    BY <2>4, <2>5, <2>6 DEF Same
  <2>8. Base(n, doc, consumed, used) /\ Agrees(n, doc)
    BY <1>1, <2>7, SameIsBase
  <2>9. Local(n, doc, consumed, used)
    BY <2>3, <2>5, <2>6, <2>8 DEF Local, Filling, Writing
  <2> QED BY <1>1, <2>2, <2>9, MoveKeeps
<1>4. CASE Set(p, Idle(l))
  <2>1. Local(Idle(l), doc, consumed, used)
    BY <1>1, IdleIsLocal
  <2> QED BY <1>1, <1>4, <2>1, MoveKeeps
<1>5. CASE Set(p, [l EXCEPT !.pc = "act", !.mode = "tick", !.todo = {}])
  <2> DEFINE k == WithPc(l, "act")
             m == WithMode(k, "tick")
             n == WithTodo(m, {})
  <2>1. Set(p, n)
    BY <1>5 DEF WithTodo, WithPc, WithMode
  <2>2. Same(l, k) /\ k.pc = "act"
    BY <1>1, SetPc DEF Same
  <2> HIDE DEF k
  <2>3. Same(k, m) /\ m.pc = k.pc
    BY <2>2, SetMode DEF Same
  <2> HIDE DEF m
  <2>4. Same(m, n) /\ n.pc = m.pc
    BY <2>3, SetTodo DEF Same
  <2> HIDE DEF n
  <2>5. Same(l, n)
    BY <2>2, <2>3, <2>4 DEF Same
  <2>6. Local(n, doc, consumed, used)
    BY <1>1, <2>2, <2>3, <2>4, <2>5, MovedIsLocal
  <2> QED BY <1>1, <2>1, <2>6, MoveKeeps
<1> QED BY <1>2, <1>3, <1>4, <1>5

\* Restaging changes what is staged and nothing else.
LEMMA RestagedIsSound ==
    ASSUME NEW st, NEW f, NEW con, NEW us, Sound(st, con, us), StateRec(f),
           f.pos = st.pos, f.trades = st.trades, Staging(f, us)
    PROVE  Sound(f, con, us) /\ TradeIds(f) = TradeIds(st)
  BY DEF Sound, Books, Earned, TradeIds, Bought, Closed

\* A copy that got no fewer trades is still one that may be written back.
LEMMA AddedIsBase ==
    ASSUME NEW l, NEW n, NEW d, NEW con, NEW us, Base(l, d, con, us), LocRec(n),
           Sound(n.mem, con, us), TradeIds(l.mem) \subseteq TradeIds(n.mem),
           n.fresh = l.fresh, n.before = l.before
    PROVE  /\ Base(n, d, con, us)
           /\ Agrees(l, d) /\ n.mem.pos = l.mem.pos => Agrees(n, d)
  BY DEF Base, Agrees, Covers

Pending(l, x) == [l EXCEPT !.mem.pend = x]
Protecting(l, x) == [l EXCEPT !.mem.prot = x]

\* Writing the staged fill in a copy,
LEMMA SetPend ==
    ASSUME NEW l, LocRec(l), StateRec(l.mem), NEW x
    PROVE  LET n == Pending(l, x) IN
           /\ LocRec(n) /\ n.fresh = l.fresh /\ n.before = l.before
           /\ n.pc = l.pc /\ n.cur = l.cur /\ n.mode = l.mode /\ n.todo = l.todo
           /\ StateRec(n.mem) /\ n.mem.pend = x /\ n.mem.pos = l.mem.pos
           /\ n.mem.trades = l.mem.trades /\ n.mem.prot = l.mem.prot
<1> DEFINE s == [l.mem EXCEPT !.pend = x]
           n == WithMem(l, s)
<1>1. n = Pending(l, x)
  BY DEF WithMem, Pending
<1>2. ASSUME NEW h, StateRec(h), NEW f, f = [h EXCEPT !.pend = x]
      PROVE  /\ StateRec(f) /\ f.pend = x /\ f.pos = h.pos
             /\ f.trades = h.trades /\ f.prot = h.prot
  BY <1>2 DEF StateRec
<1>3. /\ StateRec(s) /\ s.pend = x /\ s.pos = l.mem.pos
      /\ s.trades = l.mem.trades /\ s.prot = l.mem.prot
  BY <1>2
<1> HIDE DEF s
<1>4. /\ LocRec(n) /\ n.mem = s /\ n.fresh = l.fresh /\ n.before = l.before
      /\ n.pc = l.pc /\ n.cur = l.cur /\ n.mode = l.mode /\ n.todo = l.todo
  BY SetMem
<1> HIDE DEF n
<1> QED BY <1>1, <1>3, <1>4

\* and the protective one.
LEMMA SetProt ==
    ASSUME NEW l, LocRec(l), StateRec(l.mem), NEW x
    PROVE  LET n == Protecting(l, x) IN
           /\ LocRec(n) /\ n.fresh = l.fresh /\ n.before = l.before
           /\ n.pc = l.pc /\ n.cur = l.cur /\ n.mode = l.mode /\ n.todo = l.todo
           /\ StateRec(n.mem) /\ n.mem.prot = x /\ n.mem.pos = l.mem.pos
           /\ n.mem.trades = l.mem.trades /\ n.mem.pend = l.mem.pend
<1> DEFINE s == [l.mem EXCEPT !.prot = x]
           n == WithMem(l, s)
<1>1. n = Protecting(l, x)
  BY DEF WithMem, Protecting
<1>2. ASSUME NEW h, StateRec(h), NEW f, f = [h EXCEPT !.prot = x]
      PROVE  /\ StateRec(f) /\ f.prot = x /\ f.pos = h.pos
             /\ f.trades = h.trades /\ f.pend = h.pend
  BY <1>2 DEF StateRec
<1>3. /\ StateRec(s) /\ s.prot = x /\ s.pos = l.mem.pos
      /\ s.trades = l.mem.trades /\ s.pend = l.mem.pend
  BY <1>2
<1> HIDE DEF s
<1>4. /\ LocRec(n) /\ n.mem = s /\ n.fresh = l.fresh /\ n.before = l.before
      /\ n.pc = l.pc /\ n.cur = l.cur /\ n.mode = l.mode /\ n.todo = l.todo
  BY SetMem
<1> HIDE DEF n
<1> QED BY <1>1, <1>3, <1>4

LeftPend(l) == IF l.cur.side = "protect" THEN l.mem.pend
               ELSE {i \in l.mem.pend : i.dec # l.cur.dec}
LeftProt(l) == IF l.cur.side = "protect" THEN {} ELSE l.mem.prot
Completing(l) == Protecting(Pending(l, LeftPend(l)), LeftProt(l))

\* What completing a fill leaves.
LEMMA CompletingIs ==
    ASSUME NEW l, LocRec(l), StateRec(l.mem)
    PROVE  LET n == Completing(l) IN
           /\ LocRec(n) /\ n.fresh = l.fresh /\ n.before = l.before
           /\ n.mode = l.mode /\ n.todo = l.todo
           /\ StateRec(n.mem) /\ n.mem.pos = l.mem.pos /\ n.mem.trades = l.mem.trades
           /\ n.mem.pend = LeftPend(l) /\ n.mem.prot = LeftProt(l)
<1> DEFINE k == Pending(l, LeftPend(l))
           n == Protecting(k, LeftProt(l))
<1>1. /\ LocRec(k) /\ k.fresh = l.fresh /\ k.before = l.before
      /\ k.mode = l.mode /\ k.todo = l.todo
      /\ StateRec(k.mem) /\ k.mem.pend = LeftPend(l) /\ k.mem.pos = l.mem.pos
      /\ k.mem.trades = l.mem.trades
  BY SetPend
<1> HIDE DEF k
<1>2. /\ LocRec(n) /\ n.fresh = k.fresh /\ n.before = k.before
      /\ n.mode = k.mode /\ n.todo = k.todo
      /\ StateRec(n.mem) /\ n.mem.prot = LeftProt(l) /\ n.mem.pos = k.mem.pos
      /\ n.mem.trades = k.mem.trades /\ n.mem.pend = k.mem.pend
  BY <1>1, SetProt
<1> HIDE DEF n
<1>3. n = Completing(l)
  BY DEF n, k, Completing
<1> QED BY <1>1, <1>2, <1>3

\* _complete_*_execution removes what is staged.
LEMMA CompleteKeeps ==
    ASSUME Constants, CouncilInv, NEW p \in Procs, Complete(p) PROVE CouncilInv'
<1> DEFINE l == proc[p]
           n == Completing(l)
<1>1. /\ UNCHANGED <<doc, consumed, used, history>>
      /\ Base(l, doc, consumed, used) /\ Agrees(l, doc) /\ LocRec(l)
      /\ Sound(l.mem, consumed, used) /\ StateRec(l.mem)
  BY Here DEF Complete, Filling, Base, Sound
<1>2. Set(p, Persisting(n, "complete"))
  BY DEF Complete, Completing, Pending, Protecting, LeftPend, LeftProt
<1>3. /\ LocRec(n) /\ n.fresh = l.fresh /\ n.before = l.before
      /\ StateRec(n.mem) /\ n.mem.pos = l.mem.pos /\ n.mem.trades = l.mem.trades
      /\ n.mem.pend = LeftPend(l) /\ n.mem.prot = LeftProt(l)
  BY <1>1, CompletingIs
<1> HIDE DEF n
<1>4. Staging(n.mem, used)
  BY <1>1, <1>3 DEF Sound, Staging, LeftPend, LeftProt
<1>5. Sound(n.mem, consumed, used) /\ TradeIds(n.mem) = TradeIds(l.mem)
  BY <1>1, <1>3, <1>4, RestagedIsSound
<1>6. Base(n, doc, consumed, used) /\ Agrees(n, doc)
  BY <1>1, <1>3, <1>5, AddedIsBase
<1>7. Local(Persisting(n, "complete"), doc, consumed, used)
  BY <1>6, PersistingIsLocal
<1> QED BY <1>1, <1>2, <1>7, MoveKeeps

\* Setting the copy aside before a fill.
LEMMA BeforeIs ==
    ASSUME NEW l, LocRec(l)
    PROVE  LET n == Before(l) IN
           /\ LocRec(n) /\ n.mem = l.mem /\ n.fresh = l.fresh
           /\ n.before.st = l.mem /\ n.before.fresh = l.fresh
           /\ n.pc = l.pc /\ n.cur = l.cur /\ n.mode = l.mode /\ n.todo = l.todo
<1> DEFINE b == [st |-> l.mem, fresh |-> l.fresh]
           n == WithBefore(l, b)
<1>1. b.st = l.mem /\ b.fresh = l.fresh /\ b = [st |-> b.st, fresh |-> b.fresh]
  OBVIOUS
<1>2. n = Before(l)
  BY DEF WithBefore, Before
<1> HIDE DEF b
<1>3. /\ LocRec(n) /\ n.before = b /\ n.mem = l.mem /\ n.fresh = l.fresh
      /\ n.pc = l.pc /\ n.cur = l.cur /\ n.mode = l.mode /\ n.todo = l.todo
  BY <1>1, SetBefore
<1> HIDE DEF n
<1> QED BY <1>1, <1>2, <1>3

\* What is set aside is as good as the copy.
LEMMA BeforeIsBase ==
    ASSUME NEW l, NEW d, NEW con, NEW us, Base(l, d, con, us), Agrees(l, d)
    PROVE  Base(Before(l), d, con, us) /\ Agrees(Before(l), d)
<1> DEFINE n == Before(l)
<1>1. /\ LocRec(n) /\ n.mem = l.mem /\ n.fresh = l.fresh
      /\ n.before.st = l.mem /\ n.before.fresh = l.fresh
  BY BeforeIs DEF Base
<1> HIDE DEF n
<1>2. Base(n, d, con, us) /\ Agrees(n, d)
  BY <1>1 DEF Base, Agrees
<1> QED BY <1>2 DEF n

Exiting(l, i) == [Before(l) EXCEPT !.cur = i, !.mode = "protect"]
Exit(l, price) == [dec |-> l.mem.pos, side |-> "protect", price |-> price]

\* The copy of a process that wants out.
LEMMA ExitingIs ==
    ASSUME NEW l, LocRec(l), NEW i
    PROVE  LET n == Exiting(l, i) IN
           Same(Before(l), n) /\ n.cur = i /\ n.mode = "protect" /\ n.pc = l.pc
<1> DEFINE b == Before(l)
           k == WithCur(b, i)
           n == WithMode(k, "protect")
<1>1. LocRec(b) /\ b.pc = l.pc
  BY BeforeIs
<1>2. n = Exiting(l, i)
  BY DEF WithCur, WithMode, Exiting
<1> HIDE DEF b
<1>3. Same(b, k) /\ k.cur = i /\ k.pc = b.pc
  BY <1>1, SetCur DEF Same
<1> HIDE DEF k
<1>4. Same(k, n) /\ n.cur = k.cur /\ n.mode = "protect" /\ n.pc = k.pc
  BY <1>3, SetMode DEF Same
<1> HIDE DEF n
<1>5. Same(b, n) /\ n.cur = i /\ n.mode = "protect" /\ n.pc = l.pc
  BY <1>1, <1>3, <1>4 DEF Same
<1> QED BY <1>2, <1>5 DEF b

\* A protective exit is staged for the position, or refused.
LEMMA ProtectKeeps ==
    ASSUME Constants, CouncilInv, NEW p \in Procs, Protect(p) PROVE CouncilInv'
<1> DEFINE l == proc[p]
<1>1. /\ UNCHANGED <<doc, consumed, used, history>>
      /\ Base(l, doc, consumed, used) /\ Agrees(l, doc) /\ LocRec(l)
      /\ Sound(l.mem, consumed, used) /\ StateRec(l.mem) /\ l.mem.pos # NoDecision
  BY Here DEF Protect, Filling, Base, Sound
<1>2. PICK price \in Prices :
        LET i == Exit(l, price) IN
        \/ Set(p, WithPc(Exiting(l, i), "reload"))
        \/ Set(p, Persisting(Protecting(Exiting(l, i), {[dec |-> i.dec, price |-> price]}),
                             "protect"))
  BY DEF Protect, Exit, Exiting, Protecting, WithPc
<1> DEFINE i == Exit(l, price)
           on == Exiting(l, i)
           x == {[dec |-> i.dec, price |-> price]}
           n == Protecting(on, x)
<1>3. i.dec \in Decisions /\ i.side = "protect" /\ i.dec = l.mem.pos
  BY <1>1 DEF Exit, Sound, Books
<1>4. Same(Before(l), on) /\ on.cur = i
  BY <1>1, ExitingIs
<1>5. /\ Base(Before(l), doc, consumed, used) /\ Agrees(Before(l), doc)
      /\ Before(l).mem = l.mem
  BY <1>1, BeforeIsBase, BeforeIs
<1>6. Base(on, doc, consumed, used) /\ Agrees(on, doc) /\ on.mem = l.mem /\ LocRec(on)
  BY <1>4, <1>5, SameIsBase DEF Same
<1> HIDE DEF on
<1>7. CASE Set(p, WithPc(on, "reload"))
  <2>1. Same(on, WithPc(on, "reload")) /\ WithPc(on, "reload").pc = "reload"
    BY <1>6, SetPc DEF Same
  <2>2. Local(WithPc(on, "reload"), doc, consumed, used)
    BY <1>6, <2>1, MovedIsLocal
  <2> QED BY <1>1, <1>7, <2>2, MoveKeeps
<1>8. CASE Set(p, Persisting(n, "protect"))
  <2>1. \A j, k \in x : j = k /\ j.dec \in Decisions
    BY <1>3
  <2> HIDE DEF x
  <2>2. /\ LocRec(n) /\ n.fresh = on.fresh /\ n.before = on.before /\ n.cur = on.cur
        /\ StateRec(n.mem) /\ n.mem.prot = x /\ n.mem.pos = on.mem.pos
        /\ n.mem.trades = on.mem.trades /\ n.mem.pend = on.mem.pend
    BY <1>1, <1>6, SetProt
  <2> HIDE DEF n, i
  <2>3. Staging(n.mem, used)
    BY <1>1, <1>6, <2>1, <2>2 DEF Sound, Staging
  <2>4. Sound(n.mem, consumed, used) /\ TradeIds(n.mem) = TradeIds(on.mem)
    BY <1>1, <1>6, <2>2, <2>3, RestagedIsSound
  <2>5. Base(n, doc, consumed, used) /\ Agrees(n, doc)
    BY <1>6, <2>2, <2>4, AddedIsBase
  <2>6. Local(Persisting(n, "protect"), doc, consumed, used)
    BY <1>3, <1>4, <2>2, <2>5, PersistingIsLocal
  <2> QED BY <1>1, <1>8, <2>6, MoveKeeps
<1> QED BY <1>2, <1>7, <1>8 DEF on

\* Nothing to protect from.
LEMMA HoldKeeps ==
    ASSUME Constants, CouncilInv, NEW p \in Procs, Hold(p) PROVE CouncilInv'
<1> DEFINE l == proc[p]
           n == WithPc(l, "propose")
<1>1. /\ Set(p, n) /\ UNCHANGED <<doc, consumed, used, history>>
      /\ Base(l, doc, consumed, used) /\ Agrees(l, doc) /\ LocRec(l)
  BY Here DEF Hold, WithPc, Filling
<1>2. Same(l, n) /\ n.pc = "propose"
  BY <1>1, SetPc DEF Same
<1>3. Local(n, doc, consumed, used)
  BY <1>1, <1>2, MovedIsLocal
<1> QED BY <1>1, <1>3, MoveKeeps

\* No proposal.
LEMMA WaitKeeps ==
    ASSUME Constants, CouncilInv, NEW p \in Procs, Wait(p) PROVE CouncilInv'
<1> DEFINE l == proc[p]
<1>1. /\ Set(p, Persisting(l, "mark")) /\ UNCHANGED <<doc, consumed, used, history>>
      /\ Base(l, doc, consumed, used) /\ Agrees(l, doc)
  BY Here DEF Wait, Filling
<1>2. Local(Persisting(l, "mark"), doc, consumed, used)
  BY <1>1, PersistingIsLocal
<1> QED BY <1>1, <1>2, MoveKeeps

Proposal(l, d, price) == [dec |-> d, price |-> price,
                          side |-> IF l.mem.pos = NoDecision THEN "buy" ELSE "sell"]

\* A proposal is decided and staged.
LEMMA StageKeeps ==
    ASSUME Constants, CouncilInv, NEW p \in Procs, Stage(p) PROVE CouncilInv'
<1> DEFINE l == proc[p]
<1>1. /\ UNCHANGED <<doc, consumed, history>> /\ consumed \subseteq used
      /\ Base(l, doc, consumed, used) /\ Agrees(l, doc) /\ LocRec(l)
      /\ used \subseteq Decisions
  BY Here DEF Stage, Filling
<1>2. PICK d \in Decisions \ used, price \in Prices :
        LET on == WithCur(l, Proposal(l, d, price)) IN
        /\ used' = used \union {d}
        /\ \/ Set(p, Raised(on))
           \/ Set(p, Persisting(Pending(on, {Proposal(l, d, price)}), "stage"))
  BY DEF Stage, WithCur, Pending, Proposal
<1> DEFINE i == Proposal(l, d, price)
           on == WithCur(l, i)
           x == {i}
           n == Pending(on, x)
<1>3. i.dec = d /\ i.side \in {"buy", "sell"} /\ used' = used \union {d}
  BY <1>2 DEF Proposal
<1>4. /\ Base(l, doc, consumed, used') /\ used \subseteq used'
      /\ consumed \subseteq used' /\ used' \subseteq Decisions /\ HistoryIsBacked'
  BY <1>1, <1>3, SoundGrows DEF Base, CouncilInv, HistoryIsBacked
<1> HIDE DEF i
<1>5. Same(l, on) /\ on.cur = i
  BY <1>1, SetCur DEF Same
<1> HIDE DEF on
<1>6. Base(on, doc, consumed, used') /\ Agrees(on, doc)
  BY <1>1, <1>4, <1>5, SameIsBase
<1>7. LocRec(on) /\ Sound(on.mem, consumed, used') /\ StateRec(on.mem)
  BY <1>6 DEF Base, Sound
<1>8. CASE Set(p, Raised(on))
  <2>1. Local(Raised(on), doc, consumed, used')
    BY <1>6, RaisedIsLocal
  <2> QED BY <1>1, <1>4, <1>8, <2>1, SetKeeps
<1>9. CASE Set(p, Persisting(n, "stage"))
  <2>1. /\ LocRec(n) /\ n.fresh = on.fresh /\ n.before = on.before /\ n.cur = on.cur
        /\ StateRec(n.mem) /\ n.mem.pend = x /\ n.mem.pos = on.mem.pos
        /\ n.mem.trades = on.mem.trades /\ n.mem.prot = on.mem.prot
    BY <1>7, SetPend
  <2> HIDE DEF n
  <2>2. Staging(n.mem, used')
    BY <1>3, <1>7, <2>1 DEF Sound, Staging
  <2>3. Sound(n.mem, consumed, used') /\ TradeIds(n.mem) = TradeIds(on.mem)
    BY <1>7, <2>1, <2>2, RestagedIsSound
  <2>4. Base(n, doc, consumed, used') /\ Agrees(n, doc)
    BY <1>6, <2>1, <2>3, AddedIsBase
  <2>5. Local(Persisting(n, "stage"), doc, consumed, used')
    BY <1>3, <1>5, <2>1, <2>4, PersistingIsLocal
  <2> QED BY <1>1, <1>4, <1>9, <2>5, SetKeeps
<1> QED BY <1>2, <1>8, <1>9 DEF i, on

\* Consuming leads to the fill or blocks it.
LEMMA ConsumeKeeps ==
    ASSUME Constants, CouncilInv, NEW p \in Procs, Consume(p) PROVE CouncilInv'
<1> DEFINE l == proc[p]
           k == WithCur(l, NoDecision)
           n == WithPc(l, "apply")
           c == consumed \union {l.cur.dec}
<1>1. /\ UNCHANGED <<doc, used, history>> /\ consumed \subseteq used
      /\ Base(l, doc, consumed, used) /\ Agrees(l, doc) /\ LocRec(l)
      /\ used \subseteq Decisions
      /\ l.cur.dec \in used /\ l.cur.side \in {"buy", "sell"}
  BY Here DEF Consume, Filling, Local
<1>2. \/ consumed' = c /\ Set(p, n)
      \/ consumed' \in {c, consumed} /\ Set(p, Persisting(k, "mark"))
  BY DEF Consume, WithPc, WithCur
<1>3. /\ consumed \subseteq consumed' /\ consumed' \subseteq used
      /\ HistoryIsBacked'
  BY <1>1, <1>2 DEF CouncilInv, HistoryIsBacked
<1>4. Base(l, doc, consumed', used)
  BY <1>1, <1>3, SoundGrows DEF Base
<1>5. CASE consumed' = c /\ Set(p, n)
  <2>1. Same(l, n) /\ n.pc = "apply" /\ n.cur = l.cur
    BY <1>1, SetPc DEF Same
  <2> HIDE DEF n
  <2>2. Base(n, doc, consumed', used) /\ Agrees(n, doc)
    BY <1>1, <1>4, <2>1, SameIsBase
  <2>3. Local(n, doc, consumed', used)
    BY <1>1, <1>5, <2>1, <2>2 DEF Local, Filling, Writing
  <2> QED BY <1>1, <1>3, <1>5, <2>3, SetKeeps
<1>6. CASE Set(p, Persisting(k, "mark"))
  <2>1. Same(l, k)
    BY <1>1, SetCur DEF Same
  <2> HIDE DEF k
  <2>2. Base(k, doc, consumed', used) /\ Agrees(k, doc)
    BY <1>1, <1>4, <2>1, SameIsBase
  <2>3. Local(Persisting(k, "mark"), doc, consumed', used)
    BY <2>2, PersistingIsLocal
  <2> QED BY <1>1, <1>3, <1>6, <2>3, SetKeeps
<1> QED BY <1>2, <1>5, <1>6

Trying(l) == IF l.mode = "protect" THEN l ELSE Before(l)
FillFor(l, s) == Persisting(WithMem(Trying(l), Filled(l.mem, l.cur, s)), "fill")
Fits(l) == (l.cur.side = "buy") <=> (l.mem.pos = NoDecision)
IsThere(l) == \E t \in l.mem.trades : t.id = IdOf(l.cur)

\* What applying a staged fill does to the process.
LEMMA ApplyDoes ==
    ASSUME NEW p \in Procs, Apply(p)
    PROVE  LET l == proc[p] IN
           /\ UNCHANGED <<doc, consumed, history, used>> /\ l.pc = "apply"
           /\ \/ IsThere(l) /\ Set(p, WithPc(l, "complete"))
              \/ ~IsThere(l) /\ faults' = faults + 1 /\ Set(p, Raised(l))
              \/ ~IsThere(l) /\ ~Fits(l) /\ Set(p, WithPc(Trying(l), "reload"))
              \/ \E s : ~IsThere(l) /\ Fits(l) /\ Set(p, FillFor(l, s))
<1> DEFINE l == proc[p]
           i == l.cur
           try == IF l.mode = "protect" THEN l ELSE Before(l)
           fill(s) == Persisting([try EXCEPT !.mem = Filled(l.mem, i, s)], "fill")
<1>1. \A s : fill(s) = FillFor(l, s)
  BY DEF FillFor, WithMem, Trying
<1>2. UNCHANGED <<doc, consumed, history, used>> /\ l.pc = "apply"
  BY DEF Apply
<1>3. \/ IsThere(l) /\ Set(p, [l EXCEPT !.pc = "complete"])
      \/ ~IsThere(l) /\ faults' = faults + 1 /\ Set(p, Raised(l))
      \/ ~IsThere(l) /\ ~Fits(l) /\ Set(p, [try EXCEPT !.pc = "reload"])
      \/ ~IsThere(l) /\ Fits(l) /\ Set(p, fill("open"))
      \/ ~IsThere(l) /\ Fits(l) /\ Set(p, fill("yes"))
      \/ ~IsThere(l) /\ Fits(l) /\ Set(p, fill("pending"))
  BY DEF Apply, IsThere, Fits, Fault
<1> HIDE DEF fill
<1> QED BY <1>1, <1>2, <1>3 DEF WithPc, Trying

\* A process about to fill is as sound as it was.
LEMMA TryingIsBase ==
    ASSUME NEW l, NEW d, NEW con, NEW us, Base(l, d, con, us), Agrees(l, d)
    PROVE  LET n == Trying(l) IN
           /\ Base(n, d, con, us) /\ Agrees(n, d) /\ LocRec(n) /\ n.mem = l.mem
           /\ n.fresh = l.fresh /\ n.cur = l.cur
<1>1. CASE l.mode = "protect"
  BY <1>1 DEF Trying, Base
<1>2. CASE l.mode # "protect"
  <2>1. Trying(l) = Before(l)
    BY <1>2 DEF Trying
  <2>2. LocRec(l)
    BY DEF Base
  <2> QED BY <2>1, <2>2, BeforeIs, BeforeIsBase
<1> QED BY <1>1, <1>2

\* The staged fill is applied to the copy, found there, or refused.
LEMMA ApplyKeeps ==
    ASSUME Constants, CouncilInv, NEW p \in Procs, Apply(p) PROVE CouncilInv'
<1> DEFINE l == proc[p]
           try == Trying(l)
<1>1. /\ UNCHANGED <<doc, consumed, used, history>>
      /\ Base(l, doc, consumed, used) /\ Agrees(l, doc) /\ LocRec(l)
      /\ Sound(l.mem, consumed, used)
      /\ l.cur.dec \in Decisions /\ l.cur.side \in {"buy", "sell", "protect"}
      /\ l.cur.side # "protect" => l.cur.dec \in consumed
  BY Here, ApplyDoes DEF Filling, Local, Base
<1>2. /\ Base(try, doc, consumed, used) /\ Agrees(try, doc) /\ LocRec(try)
      /\ try.mem = l.mem
  BY <1>1, TryingIsBase
<1>3. CASE Set(p, WithPc(l, "complete"))
  <2>1. Same(l, WithPc(l, "complete")) /\ WithPc(l, "complete").pc = "complete"
    BY <1>1, SetPc DEF Same
  <2>2. Local(WithPc(l, "complete"), doc, consumed, used)
    BY <1>1, <2>1, MovedIsLocal
  <2> QED BY <1>1, <1>3, <2>2, MoveKeeps
<1>4. CASE Set(p, Raised(l))
  <2>1. Local(Raised(l), doc, consumed, used)
    BY <1>1, RaisedIsLocal
  <2> QED BY <1>1, <1>4, <2>1, MoveKeeps
<1>5. CASE Set(p, WithPc(try, "reload"))
  <2> HIDE DEF try
  <2>1. Same(try, WithPc(try, "reload")) /\ WithPc(try, "reload").pc = "reload"
    BY <1>2, SetPc DEF Same
  <2>2. Local(WithPc(try, "reload"), doc, consumed, used)
    BY <1>2, <2>1, MovedIsLocal
  <2> QED BY <1>1, <1>5, <2>2, MoveKeeps
<1>6. ASSUME NEW s, ~IsThere(l), Fits(l), Set(p, FillFor(l, s))
      PROVE  CouncilInv'
  <2> DEFINE f == Filled(l.mem, l.cur, s)
             n == WithMem(try, f)
  <2>1. Sound(f, consumed, used) /\ TradeIds(f) = TradeIds(l.mem) \union {IdOf(l.cur)}
    BY <1>1, <1>6, FilledIsSound DEF IsThere, Fits
  <2> HIDE DEF f, try
  <2>2. LocRec(n) /\ n.mem = f /\ n.fresh = try.fresh /\ n.before = try.before
    BY <1>2, SetMem
  <2> HIDE DEF n
  <2>3. Base(n, doc, consumed, used)
    BY <1>2, <2>1, <2>2, AddedIsBase
  <2>4. Local(Persisting(n, "fill"), doc, consumed, used)
    BY <2>3, PersistingIsLocal
  <2>5. Set(p, Persisting(n, "fill"))
    BY <1>6 DEF FillFor, n, f, try
  <2> QED BY <1>1, <2>4, <2>5, MoveKeeps
<1> QED BY <1>3, <1>4, <1>5, <1>6, ApplyDoes

Marked(st) == {t \in st.trades : t.settle = "pending"}
Now(st) == {[t EXCEPT !.settle = "yes"] : t \in Marked(st)}
Resettled(st) == (st.trades \ Marked(st)) \union Now(st)
Recovering(l) == [l EXCEPT !.pc = "recover", !.mode = "boot",
                           !.todo = {i.dec : i \in l.mem.pend}]

\* Settling marked trades changes nothing else in the books.
LEMMA ResettledIsSound ==
    ASSUME NEW st, NEW f, NEW con, NEW us, Sound(st, con, us), StateRec(f),
           f.pos = st.pos, f.pend = st.pend, f.prot = st.prot,
           f.trades = Resettled(st)
    PROVE  Sound(f, con, us) /\ TradeIds(f) = TradeIds(st)
<1> DEFINE Paid(t) == [t EXCEPT !.settle = "yes"]
           To(t) == IF t \in Marked(st) THEN Paid(t) ELSE t
<1>1. \A t \in st.trades : TradeRec(t)
  BY DEF Sound, Books
<1>2. \A t : TradeRec(t) => /\ TradeRec(Paid(t)) /\ Paid(t).id = t.id /\ Paid(t).dec = t.dec
                            /\ Paid(t).price = t.price
  <2>1. ASSUME NEW t, TradeRec(t), NEW u, u = Paid(t)
        PROVE  TradeRec(u) /\ u.id = t.id /\ u.dec = t.dec /\ u.price = t.price
    BY <2>1 DEF TradeRec
  <2> QED BY <2>1
<1>3. \A u \in f.trades : \E t \in st.trades : u = To(t)
  BY DEF Resettled, Now, Marked
<1>4. \A t \in st.trades : To(t) \in f.trades
  BY DEF Resettled, Now
<1> HIDE DEF Paid
<1>5. \A t \in st.trades : TradeRec(To(t)) /\ To(t).id = t.id /\ To(t).dec = t.dec
  BY <1>1, <1>2
<1> HIDE DEF To
<1>6. /\ \A u \in f.trades : TradeRec(u)
      /\ \A u \in f.trades : \E t \in st.trades : u = To(t) /\ u.id = t.id /\ u.dec = t.dec
      /\ \A t \in st.trades : \E u \in f.trades : u.id = t.id /\ u.dec = t.dec
  BY <1>3, <1>4, <1>5
<1>7. \A d : (Bought(f, d) <=> Bought(st, d)) /\ (Closed(f, d) <=> Closed(st, d))
  BY <1>6 DEF Bought, Closed
<1>8. \A u \in f.trades : /\ TradeRec(u) /\ u.dec \in Decisions
                          /\ Closes(u) => \A d \in Decisions : u.id # BuyId(d)
  BY <1>6 DEF Sound, Books, Closes
<1>9. \A u, v \in f.trades : u.dec = v.dec /\ Closes(u) /\ Closes(v) => u = v
  <2> SUFFICES ASSUME NEW u \in f.trades, NEW v \in f.trades,
                      u.dec = v.dec, Closes(u), Closes(v)
               PROVE  u = v
    OBVIOUS
  <2>1. PICK t \in st.trades : u = To(t) /\ u.id = t.id /\ u.dec = t.dec
    BY <1>6
  <2>2. PICK w \in st.trades : v = To(w) /\ v.id = w.id /\ v.dec = w.dec
    BY <1>6
  <2>3. t = w
    BY <2>1, <2>2 DEF Sound, Books, Closes
  <2> QED BY <2>1, <2>2, <2>3
<1>10. Books(f)
  BY <1>7, <1>8, <1>9 DEF Sound, Books
<1>11. Earned(f, con)
  BY <1>6 DEF Sound, Earned
<1>12. TradeIds(f) = TradeIds(st)
  BY <1>6 DEF TradeIds
<1> QED BY <1>10, <1>11, <1>12 DEF Sound, Staging

\* The recovery that follows.
LEMMA RecoveringIs ==
    ASSUME NEW l, LocRec(l)
    PROVE  LET n == Recovering(l) IN
           /\ Same(l, n) /\ n.pc = "recover"
           /\ n.todo = {i.dec : i \in l.mem.pend}
<1> DEFINE x == {i.dec : i \in l.mem.pend}
           k == WithPc(l, "recover")
           m == WithMode(k, "boot")
           n == WithTodo(m, x)
<1>1. n = Recovering(l)
  BY DEF Recovering, WithPc, WithMode, WithTodo
<1>2. Same(l, k) /\ k.pc = "recover"
  BY SetPc DEF Same
<1> HIDE DEF k, x
<1>3. Same(k, m) /\ m.pc = k.pc
  BY <1>2, SetMode DEF Same
<1> HIDE DEF m
<1>4. Same(m, n) /\ n.pc = m.pc /\ n.todo = x
  BY <1>3, SetTodo DEF Same
<1> HIDE DEF n
<1> QED BY <1>1, <1>2, <1>3, <1>4 DEF Same, x

\* _recover_pending_settlements.
LEMMA RecoverSettlementsKeeps ==
    ASSUME Constants, CouncilInv, NEW p \in Procs, RecoverSettlements(p)
    PROVE  CouncilInv'
<1> DEFINE l == proc[p]
           n == Recovering(l)
           x == Resettled(l.mem)
           s == [n.mem EXCEPT !.trades = x]
           m == WithMem(n, s)
<1>1. /\ UNCHANGED <<doc, consumed, used, history>>
      /\ Base(l, doc, consumed, used) /\ Agrees(l, doc) /\ LocRec(l)
      /\ Sound(l.mem, consumed, used) /\ StateRec(l.mem)
  BY Here DEF RecoverSettlements, Filling, Base, Sound
<1>2. Set(p, n) \/ Set(p, m)
  <2> DEFINE marked == {t \in l.mem.trades : t.settle = "pending"}
             now == {[t EXCEPT !.settle = "yes"] : t \in marked}
  <2>1. \/ Set(p, n)
        \/ Set(p, [n EXCEPT !.mem.trades = (n.mem.trades \ marked) \union now])
    BY DEF RecoverSettlements, Recovering
  <2>2. n.mem = l.mem
    BY <1>1, RecoveringIs DEF Same
  <2>3. (n.mem.trades \ marked) \union now = x
    BY <2>2 DEF Resettled, Now, Marked
  <2> HIDE DEF marked, now, x
  <2>4. [n EXCEPT !.mem.trades = x] = m
    BY DEF WithMem
  <2> QED BY <2>1, <2>3, <2>4
<1>3. Same(l, n) /\ n.pc = "recover"
  BY <1>1, RecoveringIs
<1> HIDE DEF n
<1>4. CASE Set(p, n)
  <2>1. Local(n, doc, consumed, used)
    BY <1>1, <1>3, MovedIsLocal
  <2> QED BY <1>1, <1>4, <2>1, MoveKeeps
<1>5. CASE Set(p, m)
  <2>1. n.mem = l.mem /\ LocRec(n) /\ n.fresh = l.fresh /\ n.before = l.before
    BY <1>3 DEF Same
  <2>2. ASSUME NEW h, StateRec(h), NEW f, f = [h EXCEPT !.trades = x]
        PROVE  /\ StateRec(f) /\ f.trades = x /\ f.pos = h.pos
               /\ f.pend = h.pend /\ f.prot = h.prot
    BY <2>2 DEF StateRec
  <2> HIDE DEF x
  <2>3. /\ StateRec(s) /\ s.trades = x /\ s.pos = l.mem.pos
        /\ s.pend = l.mem.pend /\ s.prot = l.mem.prot
    BY <1>1, <2>1, <2>2
  <2> HIDE DEF s
  <2>4. LocRec(m) /\ m.mem = s /\ m.fresh = n.fresh /\ m.before = n.before /\ m.pc = n.pc
    BY <2>1, SetMem
  <2> HIDE DEF m
  <2>5. Sound(s, consumed, used) /\ TradeIds(s) = TradeIds(l.mem)
    BY <1>1, <2>3, ResettledIsSound DEF x
  <2>6. Base(m, doc, consumed, used) /\ Agrees(m, doc)
    BY <1>1, <2>1, <2>3, <2>4, <2>5, AddedIsBase
  <2>7. Local(m, doc, consumed, used)
    BY <1>3, <2>4, <2>6 DEF Local, Filling, Writing
  <2> QED BY <1>1, <1>5, <2>7, MoveKeeps
<1> QED BY <1>2, <1>4, <1>5

\* Every step keeps CouncilInv,
LEMMA NextCouncil == ASSUME Constants, CouncilInv, [CouncilNext]_councilVars PROVE CouncilInv'
<1>1. ASSUME NEW p \in Procs, Step(p) \/ Crash(p) PROVE CouncilInv'
  <2>1. CASE Load(p)
    BY <2>1, LoadKeeps
  <2>2. CASE RecoverSettlements(p)
    BY <2>2, RecoverSettlementsKeeps
  <2>3. CASE Save(p)
    BY <2>3, SaveKeeps
  <2>4. CASE Sync(p)
    BY <2>4, SyncKeeps
  <2>5. CASE Reload(p)
    BY <2>5, ReloadKeeps
  <2>6. CASE TickBegins(p)
    BY <2>6, TickBeginsKeeps
  <2>7. CASE RecoverAuthorized(p)
    BY <2>7, RecoverAuthorizedKeeps
  <2>8. CASE RecoverProtective(p)
    BY <2>8, RecoverProtectiveKeeps
  <2>9. CASE Apply(p)
    BY <2>9, ApplyKeeps
  <2>10. CASE Complete(p)
    BY <2>10, CompleteKeeps
  <2>11. CASE Protect(p)
    BY <2>11, ProtectKeeps
  <2>12. CASE Hold(p)
    BY <2>12, HoldKeeps
  <2>13. CASE Stage(p)
    BY <2>13, StageKeeps
  <2>14. CASE Wait(p)
    BY <2>14, WaitKeeps
  <2>15. CASE Consume(p)
    BY <2>15, ConsumeKeeps
  <2>16. CASE Crash(p)
    BY <2>16, CrashKeeps
  <2> QED BY <1>1, <2>1, <2>2, <2>3, <2>4, <2>5, <2>6, <2>7, <2>8, <2>9, <2>10,
             <2>11, <2>12, <2>13, <2>14, <2>15, <2>16 DEF Step
<1>2. CASE UNCHANGED councilVars
  BY <1>2 DEF councilVars, CouncilInv, HistoryIsBacked
<1> QED BY <1>1, <1>2 DEF CouncilNext

\* which says what the books promise whatever fails.
LEMMA CouncilBooks ==
    ASSUME Constants, CouncilInv
    PROVE  CouncilTypeOK /\ TradeIsConsumed /\ PositionMatchesTrades /\ HistoryIsBacked
<1>1. Sound(doc, consumed, used) /\ consumed \subseteq used
  BY DEF CouncilInv
<1>2. ASSUME NEW S, \A i, j \in S : i = j
      PROVE  Cardinality(S) <= 1
  <2>1. CASE S = {}
    BY <2>1, FS_EmptySet
  <2>2. CASE S # {}
    <3>1. PICK x \in S : TRUE
      BY <2>2
    <3>2. S = {x}
      BY <1>2, <3>1
    <3>3. Cardinality({x}) = 1
      BY FS_Singleton
    <3> QED BY <3>2, <3>3
  <2> QED BY <2>1, <2>2
<1>3. Cardinality(doc.pend) <= 1 /\ Cardinality(doc.prot) <= 1
  BY <1>1, <1>2 DEF Sound, Staging
<1>4. ASSUME NEW p \in Procs, proc[p].fresh, proc[p].pc \in {"idle", "sync"}
      PROVE  proc[p].mem.pos = doc.pos
  BY <1>4, Here DEF Filling, Agrees
<1>5. CouncilTypeOK
  BY <1>1, <1>3, <1>4 DEF CouncilTypeOK, Sound, Books
<1>6. TradeIsConsumed
  <2> SUFFICES ASSUME NEW t \in doc.trades \union history, NEW d \in Decisions \ consumed,
                      t.id = BuyId(d) \/ t.id = SellId(d)
               PROVE  FALSE
    BY DEF TradeIsConsumed
  <2>1. PICK u \in doc.trades : u.id = t.id
    BY DEF CouncilInv, HistoryIsBacked
  <2> QED BY <1>1, <2>1 DEF Sound, Earned
<1>7. PositionMatchesTrades
  <2>1. \A d \in Decisions : (doc.pos = d) <=> (Bought(doc, d) /\ ~Closed(doc, d))
    BY <1>1 DEF Sound, Books
  <2>2. \A t, u \in doc.trades :
           t.dec = u.dec /\ t.id # BuyId(t.dec) /\ u.id # BuyId(u.dec) => t = u
    BY <1>1 DEF Sound, Books, Closes
  <2> QED BY <2>1, <2>2 DEF PositionMatchesTrades
<1> QED BY <1>5, <1>6, <1>7 DEF CouncilInv

----------------------------------------------------------------------------
(* AloneInv is kept by every step of a process alone.                      *)
Running(l) == l.pc \notin {"down", "refused"}

\* What the invariant says of the process.
LEMMA AloneHere ==
    ASSUME AloneInv, NEW p \in Procs
    PROVE  LET l == proc[p] IN
           /\ Doing(l) /\ Rest(doc, consumed, settled) /\ faults = 0
           /\ settled = [d \in Decisions |-> settled[d]]
           /\ Running(l) => l.fresh /\ Rest(l.mem, consumed, settled)
           /\ Running(l) /\ l.pc # "save" => l.mem = doc
  BY DEF AloneInv, Running

\* A step after which no call has failed is not one that fails.
LEMMA NoFaults == ASSUME AloneInv, faults' = 0 PROVE ~Fault
  BY DEF AloneInv, Fault

\* What is left to show of a step.
LEMMA AloneStep ==
    ASSUME Alone, NEW p \in Procs, NEW n, proc'[p] = n, AloneInv,
           UNCHANGED faults, settled' = [d \in Decisions |-> settled'[d]],
           Rest(doc', consumed', settled'), Doing(n),
           Running(n) => /\ n.fresh /\ Rest(n.mem, consumed', settled')
                         /\ n.pc # "save" => n.mem = doc'
    PROVE  AloneInv'
<1>1. \A q \in Procs : q = p
  BY DEF Alone
<1>2. faults' = 0
  BY DEF AloneInv
<1>3. \A q \in Procs : proc'[q] = n
  BY <1>1
<1> QED BY <1>2, <1>3 DEF AloneInv, Running

\* A step that moves the process and writes nothing.
LEMMA AloneMoves ==
    ASSUME Alone, CouncilInv, AloneInv, NEW p \in Procs, NEW n, Set(p, n),
           UNCHANGED <<doc, consumed, settled, faults>>, Doing(n),
           Running(n) => /\ n.fresh /\ Rest(n.mem, consumed, settled)
                         /\ n.pc # "save" => n.mem = doc
    PROVE  AloneInv'
<1>1. proc'[p] = n
  BY DEF CouncilInv, Set
<1>2. Rest(doc, consumed, settled) /\ settled = [d \in Decisions |-> settled[d]]
  BY DEF AloneInv
<1> QED BY <1>1, <1>2, AloneStep

\* One that also keeps the copy.
LEMMA AloneSame ==
    ASSUME Alone, CouncilInv, AloneInv, NEW p \in Procs, NEW n, Set(p, n),
           UNCHANGED <<doc, consumed, settled, faults>>, Doing(n),
           Running(proc[p]), proc[p].pc # "save",
           n.fresh = proc[p].fresh, n.mem = proc[p].mem
    PROVE  AloneInv'
  BY AloneHere, AloneMoves

\* Before anything has run.
LEMMA InitAlone == ASSUME Constants, Alone, CouncilInit PROVE AloneInv
<1>1. /\ doc = Flat /\ consumed = {} /\ proc = [p \in Procs |-> Down]
      /\ settled = [d \in Decisions |-> NoDecision] /\ faults = 0
  BY DEF CouncilInit
<1>2. Rest(Flat, consumed, settled)
  BY <1>1 DEF Rest, Flat
<1>3. Doing(Down) /\ Down.pc = "down"
  BY DEF Doing, Down, Writing
<1> QED BY <1>1, <1>2, <1>3 DEF AloneInv

\* The process starts with the stored copy.
LEMMA LoadAlone ==
    ASSUME Constants, Alone, CouncilInv, AloneInv, NEW p \in Procs, Load(p)
    PROVE  AloneInv'
<1>1. CASE \E t \in doc.trades, h \in history : t.id = h.id /\ t # h
  <2> DEFINE n == WithPc(Down, "refused")
  <2>1. Set(p, n) /\ UNCHANGED <<doc, consumed, settled, faults>>
    BY <1>1 DEF Load, WithPc
  <2>2. n.pc = "refused"
    BY DEF WithPc, Down
  <2> HIDE DEF n
  <2>3. Doing(n)
    BY <2>2 DEF Doing, Writing
  <2> QED BY <2>1, <2>2, <2>3, AloneMoves DEF Running
<1>2. CASE ~\E t \in doc.trades, h \in history : t.id = h.id /\ t # h
  <2> DEFINE k == WithMem(WithPc(Down, "boot"), doc)
             n == [k EXCEPT !.fresh = TRUE]
  <2>1. Set(p, n) /\ UNCHANGED <<doc, consumed, settled, faults>>
    BY <1>2 DEF Load, WithPc, WithMem
  <2>2. LocRec(Down)
    BY DEF LocRec, Loc, Down
  <2>3. LocRec(k) /\ k.pc = "boot" /\ k.mem = doc
    BY <2>2, SetPc, SetMem
  <2> HIDE DEF k
  <2>4. n.pc = "boot" /\ n.mem = doc /\ n.fresh = TRUE
    BY <2>3, Fetches
  <2> HIDE DEF n
  <2>5. Doing(n)
    BY <2>4 DEF Doing, Writing
  <2> QED BY <2>1, <2>4, <2>5, AloneHere, AloneMoves
<1> QED BY <1>1, <1>2

\* Dying loses the copy.
LEMMA CrashAlone ==
    ASSUME Constants, Alone, CouncilInv, AloneInv, NEW p \in Procs, Crash(p)
    PROVE  AloneInv'
<1>1. Set(p, Down) /\ UNCHANGED <<doc, consumed, settled, faults>>
  BY DEF Crash
<1>2. Down.pc = "down"
  BY DEF Down
<1>3. Doing(Down)
  BY <1>2 DEF Doing, Writing
<1> QED BY <1>1, <1>2, <1>3, AloneMoves DEF Running

\* The write succeeds: the copy is the document.
LEMMA SaveAlone ==
    ASSUME Constants, Alone, CouncilInv, AloneInv, NEW p \in Procs, faults' = 0, Save(p)
    PROVE  AloneInv'
<1> DEFINE l == proc[p]
           k == WithPc(l, "sync")
           n == [k EXCEPT !.before.fresh = FALSE]
<1>1. /\ l.pc = "save" /\ l.fresh /\ Rest(l.mem, consumed, settled) /\ Doing(l)
      /\ settled = [d \in Decisions |-> settled[d]]
  BY AloneHere DEF Save, Running
<1>2. /\ doc' = l.mem /\ Written(p, k)
      /\ UNCHANGED <<consumed, settled, faults>>
  BY <1>1, NoFaults DEF Save, WithPc, NoFault
<1>3. proc'[p] = n
  BY <1>2 DEF Written
<1>4. /\ LocRec(k) /\ k.pc = "sync" /\ k.mem = l.mem /\ k.fresh = l.fresh
      /\ k.stage = l.stage /\ k.cur = l.cur
  <2>1. LocRec(l)
    BY Here
  <2> QED BY <2>1, SetPc
<1> HIDE DEF k
<1>5. n.pc = "sync" /\ n.mem = l.mem /\ n.fresh = l.fresh /\ n.stage = l.stage /\ n.cur = l.cur
  BY <1>4, Stales
<1> HIDE DEF n
<1>6. Doing(n)
  BY <1>1, <1>5 DEF Doing, Writing
<1> QED BY <1>1, <1>2, <1>3, <1>5, <1>6, AloneStep

\* A label says what a copy is about to become, never the mode it is in.
LEMMA SyncAlone ==
    ASSUME Constants, Alone, CouncilInv, AloneInv, NEW p \in Procs, faults' = 0, Sync(p)
    PROVE  AloneInv'
<1> DEFINE l == proc[p]
           n == Persisted(l)
<1>1. l.pc = "sync" /\ Doing(l) /\ l.fresh
  BY AloneHere DEF Sync, Running
<1>2. Set(p, n) /\ UNCHANGED <<doc, consumed, settled, faults>>
  BY NoFaults DEF Sync, NoFault
<1>3. LocRec(l)
  BY Here
<1>4. \/ l.stage = "fill" /\ Staged(l.cur, l.mem) /\ IdOf(l.cur) \in TradeIds(l.mem)
      \/ l.stage \in {"stage", "protect"} /\ Staged(l.cur, l.mem)
      \/ l.stage = "complete" /\ Nothing(l.mem)
      \/ l.stage = "mark"
  BY <1>1 DEF Doing, Writing
<1>5. CASE l.stage = "mark"
  <2>1. n = Idle(l)
    BY <1>3, <1>5, PersistedTo
  <2>2. n.pc = "idle" /\ n.mem = l.mem /\ n.fresh = l.fresh
    BY <1>3, <2>1, Idles
  <2> HIDE DEF n
  <2>3. Doing(n)
    BY <2>2 DEF Doing, Writing
  <2> QED BY <1>1, <1>2, <2>2, <2>3, AloneSame DEF Running
<1>6. CASE l.stage # "mark"
  <2>1. Same(l, n)
    BY <1>3, <1>4, <1>6, PersistedTo
  <2>2. Doing(n)
    <3>1. CASE l.stage = "fill"
      <4>1. n.pc = "complete" /\ n.cur = l.cur
        BY <1>3, <3>1, PersistedTo
      <4> HIDE DEF n
      <4> QED BY <1>4, <2>1, <3>1, <4>1 DEF Doing, Writing, Same
    <3>2. CASE l.stage = "stage"
      <4>1. n.pc = "consume" /\ n.cur = l.cur
        BY <1>3, <3>2, PersistedTo
      <4> HIDE DEF n
      <4> QED BY <1>4, <2>1, <3>2, <4>1 DEF Doing, Writing, Same
    <3>3. CASE l.stage = "protect"
      <4>1. n.pc = "apply" /\ n.cur = l.cur
        BY <1>3, <3>3, PersistedTo
      <4> HIDE DEF n
      <4> QED BY <1>4, <2>1, <3>3, <4>1 DEF Doing, Writing, Same
    <3>4. CASE l.stage = "complete"
      <4>1. n.pc = "recover" \/ (n.pc = "save" /\ n.stage = "mark")
        BY <1>3, <3>4, PersistedTo
      <4> HIDE DEF n
      <4> QED BY <1>4, <2>1, <3>4, <4>1 DEF Doing, Writing, Same, Nothing
    <3> QED BY <1>4, <1>6, <3>1, <3>2, <3>3, <3>4
  <2>3. n.mem = l.mem /\ n.fresh = l.fresh
    BY <2>1 DEF Same
  <2> HIDE DEF n
  <2> QED BY <1>1, <1>2, <2>2, <2>3, AloneSame DEF Running
<1> QED BY <1>5, <1>6

\* Nothing has to be reloaded.
LEMMA ReloadAlone ==
    ASSUME AloneInv, NEW p \in Procs, Reload(p)
    PROVE  FALSE
  BY AloneHere DEF Reload, Doing, Writing

\* A recovery takes up everything that is staged.
LEMMA TickBeginsAlone ==
    ASSUME Constants, Alone, CouncilInv, AloneInv, NEW p \in Procs, TickBegins(p)
    PROVE  AloneInv'
<1> DEFINE l == proc[p]
           x == {i.dec : i \in l.mem.pend}
           k == WithPc(l, "recover")
           m == WithMode(k, "recover")
           n == WithTodo(m, x)
<1>1. /\ Set(p, n) /\ UNCHANGED <<doc, consumed, settled, faults>> /\ l.pc = "idle"
  BY DEF TickBegins, WithPc, WithMode, WithTodo
<1>2. LocRec(l) /\ Sound(l.mem, consumed, used) /\ used \subseteq Decisions
  BY Here DEF Base
<1>3. Same(l, k) /\ k.pc = "recover"
  BY <1>2, SetPc DEF Same
<1> HIDE DEF k
<1>4. Same(k, m) /\ m.pc = k.pc
  BY <1>3, SetMode DEF Same
<1> HIDE DEF m, x
<1>5. Same(m, n) /\ n.pc = m.pc /\ n.todo = x
  BY <1>4, SetTodo DEF Same
<1> HIDE DEF n
<1>6. n.mem = l.mem /\ n.fresh = l.fresh /\ n.pc = "recover"
  BY <1>3, <1>4, <1>5 DEF Same
<1>7. Doing(n)
  <2>1. "prot" \notin x /\ \A i \in l.mem.pend : i.dec \in x
    BY <1>2 DEF x, Sound, Staging, Constants
  <2> QED BY <1>5, <1>6, <2>1 DEF Doing, Writing
<1> QED BY <1>1, <1>6, <1>7, AloneSame DEF Running

\* There is nothing marked to settle.
LEMMA RecoverSettlementsAlone ==
    ASSUME Constants, Alone, CouncilInv, AloneInv, NEW p \in Procs, faults' = 0,
           RecoverSettlements(p)
    PROVE  AloneInv'
<1> DEFINE l == proc[p]
           n == Recovering(l)
           s == [n.mem EXCEPT !.trades = l.mem.trades]
           m == WithMem(n, s)
<1>1. /\ l.pc = "boot" /\ l.fresh /\ l.mem = doc /\ Rest(l.mem, consumed, settled)
      /\ settled = [d \in Decisions |-> settled[d]]
      /\ UNCHANGED <<doc, consumed>>
  BY AloneHere DEF RecoverSettlements, Running
<1>2. Marked(l.mem) = {}
  BY <1>1 DEF Rest, Marked
<1>3. LocRec(l) /\ Sound(l.mem, consumed, used) /\ used \subseteq Decisions
  BY Here DEF Base
<1>4. Same(l, n) /\ n.pc = "recover" /\ n.todo = {i.dec : i \in l.mem.pend}
  BY <1>3, RecoveringIs
<1>5. UNCHANGED faults /\ settled' = settled /\ Set(p, m)
  <2> DEFINE marked == {t \in l.mem.trades : t.settle = "pending"}
             now == {[t EXCEPT !.settle = "yes"] : t \in marked}
  <2>1. marked = {} /\ now = {}
    BY <1>2 DEF Marked
  <2>2. /\ UNCHANGED faults
        /\ settled' = [d \in Decisions |->
               IF \E t \in marked : t.dec = d
               THEN SettledAt(d, (CHOOSE t \in marked : t.dec = d).price)
               ELSE settled[d]]
        /\ Set(p, [n EXCEPT !.mem.trades = (n.mem.trades \ marked) \union now])
    BY NoFaults DEF RecoverSettlements, Recovering, NoFault
  <2>3. settled' = [d \in Decisions |-> settled[d]]
    BY <2>1, <2>2
  <2>4. (n.mem.trades \ marked) \union now = l.mem.trades
    BY <1>4, <2>1 DEF Same
  <2> HIDE DEF marked, now, n
  <2>5. Set(p, [n EXCEPT !.mem.trades = l.mem.trades])
    BY <2>2, <2>4
  <2>6. [n EXCEPT !.mem.trades = l.mem.trades] = m
    BY DEF WithMem
  <2> QED BY <1>1, <2>2, <2>3, <2>5, <2>6
<1> HIDE DEF n
<1>6. s = l.mem
  <2>1. n.mem = l.mem /\ StateRec(l.mem)
    BY <1>3, <1>4 DEF Same, Sound
  <2>2. ASSUME NEW h, StateRec(h), NEW f, f = [h EXCEPT !.trades = h.trades]
        PROVE  f = h
    BY <2>2 DEF StateRec
  <2> QED BY <2>1, <2>2
<1> HIDE DEF s
<1>7. m.mem = l.mem /\ m.fresh = l.fresh /\ m.pc = "recover" /\ m.todo = n.todo
  BY <1>4, <1>6, SetMem DEF Same
<1> HIDE DEF m
<1>8. Doing(m)
  <2>1. "prot" \notin n.todo /\ \A i \in l.mem.pend : i.dec \in n.todo
    BY <1>3, <1>4 DEF Sound, Staging, Constants
  <2> QED BY <1>7, <2>1 DEF Doing, Writing
<1> QED BY <1>1, <1>5, <1>7, <1>8, AloneSame DEF Running

\* Consuming what is staged keeps a copy at rest.
LEMMA RestConsumed ==
    ASSUME NEW st, NEW con, NEW set, Rest(st, con, set), NEW i \in st.pend
    PROVE  Rest(st, con \union {i.dec}, set)
  BY DEF Rest

\* The staged fill is consumed and taken up.
LEMMA RecoverAuthorizedAlone ==
    ASSUME Constants, Alone, CouncilInv, AloneInv, NEW p \in Procs, faults' = 0,
           RecoverAuthorized(p)
    PROVE  AloneInv'
<1> DEFINE l == proc[p]
           On(i) == Taking(l, i, l.todo \ {i.dec})
<1>1. /\ l.pc = "recover" /\ l.fresh /\ l.mem = doc /\ Rest(l.mem, consumed, settled)
      /\ settled = [d \in Decisions |-> settled[d]]
  BY AloneHere DEF RecoverAuthorized, Running
<1>2. PICK i \in l.mem.pend :
        /\ consumed' = consumed \union {i.dec} /\ Set(p, On(i))
        /\ UNCHANGED <<doc, settled, faults>>
  BY NoFaults DEF RecoverAuthorized, NoFault, Taking
<1>3. LocRec(l) /\ Sound(l.mem, consumed, used)
  BY Here DEF Base
<1> DEFINE n == On(i)
<1>4. n.pc = "apply" /\ n.cur = i /\ n.mem = l.mem /\ n.fresh = l.fresh
  BY <1>3, TakesUp DEF Same
<1> HIDE DEF n
<1>5. i.side \in {"buy", "sell"}
  BY <1>3 DEF Sound, Staging
<1>6. Doing(n)
  BY <1>4, <1>5 DEF Doing, Writing, Staged
<1>7. Rest(l.mem, consumed', settled)
  BY <1>1, <1>2, RestConsumed
<1>8. proc'[p] = n
  BY <1>2 DEF CouncilInv, Set, n
<1> QED BY <1>1, <1>2, <1>4, <1>6, <1>7, <1>8, AloneStep

\* So is the protective one; with nothing staged the tick may act.
LEMMA RecoverProtectiveAlone ==
    ASSUME Constants, Alone, CouncilInv, AloneInv, NEW p \in Procs,
           RecoverProtective(p)
    PROVE  AloneInv'
<1> DEFINE l == proc[p]
           C(i) == [dec |-> i.dec, side |-> "protect", price |-> i.price]
           asked == {i.dec : i \in l.mem.pend} \intersect l.todo
<1>1. /\ l.pc = "recover" /\ Doing(l)
      /\ UNCHANGED <<doc, consumed, settled, faults>> /\ asked = {}
  BY AloneHere DEF RecoverProtective, Running
<1>2. /\ \A i \in l.mem.pend : i.dec \in l.todo
      /\ "prot" \in l.todo => l.mem.prot = {}
  BY <1>1 DEF Doing, Writing
<1>3. l.mem.pend = {}
  BY <1>1, <1>2
<1>4. \/ \E i \in l.mem.prot :
            Set(p, [l EXCEPT !.todo = {"prot"}, !.pc = "apply", !.cur = C(i)])
      \/ Set(p, Idle(l))
      \/ /\ l.mem.prot = {}
         /\ Set(p, [l EXCEPT !.pc = "act", !.mode = "tick", !.todo = {}])
  BY <1>2 DEF RecoverProtective
<1>5. LocRec(l)
  BY Here
<1>6. CASE \E i \in l.mem.prot :
            Set(p, [l EXCEPT !.todo = {"prot"}, !.pc = "apply", !.cur = C(i)])
  <2>1. PICK i \in l.mem.prot :
              Set(p, [l EXCEPT !.todo = {"prot"}, !.pc = "apply", !.cur = C(i)])
    BY <1>6
  <2> DEFINE c == C(i)
             k == WithTodo(l, {"prot"})
             m == WithPc(k, "apply")
             n == WithCur(m, c)
  <2>2. Set(p, n)
    BY <2>1 DEF WithTodo, WithPc, WithCur
  <2>3. c.dec = i.dec /\ c.side = "protect" /\ c.price = i.price
    OBVIOUS
  <2> HIDE DEF c
  <2>4. Same(l, k)
    BY <1>5, SetTodo DEF Same
  <2> HIDE DEF k
  <2>5. Same(k, m) /\ m.pc = "apply"
    BY <2>4, SetPc DEF Same
  <2> HIDE DEF m
  <2>6. Same(m, n) /\ n.pc = m.pc /\ n.cur = c
    BY <2>5, SetCur DEF Same
  <2> HIDE DEF n
  <2>7. n.mem = l.mem /\ n.fresh = l.fresh
    BY <2>4, <2>5, <2>6 DEF Same
  <2>8. Doing(n)
    BY <2>3, <2>5, <2>6, <2>7 DEF Doing, Writing, Staged
  <2> QED BY <1>1, <2>2, <2>7, <2>8, AloneSame DEF Running
<1>7. CASE Set(p, Idle(l))
  <2> DEFINE n == Idle(l)
  <2>1. n.pc = "idle" /\ n.mem = l.mem /\ n.fresh = l.fresh
    BY <1>5, Idles
  <2> HIDE DEF n
  <2>2. Doing(n)
    BY <2>1 DEF Doing, Writing
  <2>3. Set(p, n)
    BY <1>7 DEF n
  <2> QED BY <1>1, <2>1, <2>2, <2>3, AloneSame DEF Running
<1>8. CASE /\ l.mem.prot = {}
           /\ Set(p, [l EXCEPT !.pc = "act", !.mode = "tick", !.todo = {}])
  <2> DEFINE k == WithPc(l, "act")
             m == WithMode(k, "tick")
             n == WithTodo(m, {})
  <2>1. Set(p, n)
    BY <1>8 DEF WithTodo, WithPc, WithMode
  <2>2. Same(l, k) /\ k.pc = "act"
    BY <1>5, SetPc DEF Same
  <2> HIDE DEF k
  <2>3. Same(k, m) /\ m.pc = k.pc
    BY <2>2, SetMode DEF Same
  <2> HIDE DEF m
  <2>4. Same(m, n) /\ n.pc = m.pc
    BY <2>3, SetTodo DEF Same
  <2> HIDE DEF n
  <2>5. n.mem = l.mem /\ n.fresh = l.fresh /\ n.pc = "act"
    BY <2>2, <2>3, <2>4 DEF Same
  <2>6. Doing(n)
    BY <1>3, <1>8, <2>5 DEF Doing, Writing, Nothing
  <2> QED BY <1>1, <2>1, <2>5, <2>6, AloneSame DEF Running
<1> QED BY <1>4, <1>6, <1>7, <1>8

\* A completed fill is staged no longer.
LEMMA CompleteAlone ==
    ASSUME Constants, Alone, CouncilInv, AloneInv, NEW p \in Procs, Complete(p)
    PROVE  AloneInv'
<1> DEFINE l == proc[p]
           k == Completing(l)
           n == Persisting(k, "complete")
           st == l.mem
           f == k.mem
<1>1. /\ l.pc = "complete" /\ l.fresh /\ Rest(st, consumed, settled)
      /\ Doing(l) /\ UNCHANGED <<doc, consumed, settled, faults>>
  BY AloneHere DEF Complete, Running
<1>2. Set(p, n)
  BY DEF Complete, Completing, Pending, Protecting, LeftPend, LeftProt
<1>3. LocRec(l) /\ Sound(st, consumed, used) /\ StateRec(st)
  BY Here DEF Base, Sound
<1>4. /\ LocRec(k) /\ k.fresh = l.fresh
      /\ f.pos = st.pos /\ f.trades = st.trades
      /\ f.pend = LeftPend(l) /\ f.prot = LeftProt(l)
  BY <1>3, CompletingIs
<1>5. Staged(l.cur, st) /\ IdOf(l.cur) \in TradeIds(st)
  BY <1>1 DEF Doing, Writing
<1> HIDE DEF k
<1>6. Same(k, n) /\ n.pc = "save" /\ n.stage = "complete"
  BY <1>4, Persists
<1> HIDE DEF n
<1>7. f.pend = {} /\ f.prot = {}
  <2>1. /\ \A i, j \in st.pend : i = j
        /\ \A i, j \in st.prot : i = j
        /\ st.pend = {} \/ st.prot = {}
    BY <1>1, <1>3 DEF Sound, Staging, Rest
  <2> QED BY <1>4, <1>5, <2>1 DEF Staged, LeftPend, LeftProt
<1>8. Rest(f, consumed, settled)
  <2>1. TradeIds(f) = TradeIds(st) /\ \A d : Bought(f, d) <=> Bought(st, d)
    BY <1>4 DEF TradeIds, Bought
  <2>2. \A d \in consumed : {BuyId(d), SellId(d)} \intersect TradeIds(f) # {}
    <3> SUFFICES ASSUME NEW d \in consumed
                 PROVE  {BuyId(d), SellId(d)} \intersect TradeIds(st) # {}
      BY <2>1
    <3>1. CASE \E i \in st.pend : i.dec = d
      <4>1. l.cur \in st.pend /\ l.cur.dec = d /\ l.cur.side \in {"buy", "sell"}
        BY <1>1, <1>3, <1>5, <3>1 DEF Staged, Sound, Staging, Rest
      <4>2. IdOf(l.cur) \in {BuyId(d), SellId(d)}
        BY <4>1 DEF IdOf
      <4> QED BY <1>5, <4>2
    <3> QED BY <1>1, <3>1 DEF Rest
  <2>3. \A d \in Decisions : settled[d] # NoDecision => st.pos # d
    <3> SUFFICES ASSUME NEW d \in Decisions, settled[d] # NoDecision, st.pos = d
                 PROVE  FALSE
      OBVIOUS
    <3>0. d # NoDecision
      BY DEF Constants
    <3>1. CASE \E i \in st.pend : i.side = "sell"
      <4>1. PICK i \in st.pend : i.side = "sell"
        BY <3>1
      <4>2. l.cur = i
        BY <1>1, <1>3, <1>5, <4>1 DEF Staged, Sound, Staging, Rest
      <4> QED BY <1>1, <1>5, <3>0, <4>1, <4>2 DEF Rest
    <3>2. CASE st.prot # {}
      <4>1. PICK j \in st.prot : l.cur.side = "protect" /\ j.dec = l.cur.dec
        BY <1>1, <1>5, <3>2 DEF Staged, Rest
      <4>2. IdOf(l.cur) = ProtId(j.dec)
        BY <4>1 DEF IdOf
      <4> QED BY <1>1, <1>5, <3>0, <4>1, <4>2 DEF Rest
    <3> QED BY <1>1, <3>1, <3>2 DEF Rest
  <2> HIDE DEF st, f
  <2> QED BY <1>1, <1>4, <1>7, <2>1, <2>2, <2>3 DEF Rest
<1>9. n.mem = f /\ n.fresh = l.fresh
  BY <1>4, <1>6 DEF Same
<1>10. Doing(n)
  BY <1>6, <1>7, <1>9 DEF Doing, Writing, Nothing
<1> QED BY <1>1, <1>2, <1>6, <1>8, <1>9, <1>10, AloneMoves

\* Nothing to protect from.
LEMMA HoldAlone ==
    ASSUME Constants, Alone, CouncilInv, AloneInv, NEW p \in Procs, Hold(p)
    PROVE  AloneInv'
<1> DEFINE l == proc[p]
           n == WithPc(l, "propose")
<1>1. l.pc = "act" /\ Doing(l) /\ Set(p, n) /\ UNCHANGED <<doc, consumed, settled, faults>>
  BY AloneHere DEF Hold, WithPc
<1>2. LocRec(l)
  BY Here
<1>3. n.pc = "propose" /\ n.mem = l.mem /\ n.fresh = l.fresh
  BY <1>2, SetPc
<1> HIDE DEF n
<1>4. Doing(n)
  BY <1>1, <1>3 DEF Doing, Writing
<1> QED BY <1>1, <1>3, <1>4, AloneSame DEF Running

\* No proposal.
LEMMA WaitAlone ==
    ASSUME Constants, Alone, CouncilInv, AloneInv, NEW p \in Procs, Wait(p)
    PROVE  AloneInv'
<1> DEFINE l == proc[p]
           n == Persisting(l, "mark")
<1>1. l.pc = "propose" /\ Set(p, n) /\ UNCHANGED <<doc, consumed, settled, faults>>
  BY DEF Wait
<1>2. LocRec(l)
  BY Here
<1>3. n.pc = "save" /\ n.stage = "mark" /\ n.mem = l.mem /\ n.fresh = l.fresh
  BY <1>2, Persists DEF Same
<1> HIDE DEF n
<1>4. Doing(n)
  BY <1>3 DEF Doing, Writing
<1> QED BY <1>1, <1>3, <1>4, AloneSame DEF Running

\* What is consumed is staged.
LEMMA ConsumeAlone ==
    ASSUME Constants, Alone, CouncilInv, AloneInv, NEW p \in Procs, faults' = 0, Consume(p)
    PROVE  AloneInv'
<1> DEFINE l == proc[p]
           k == WithCur(l, NoDecision)
           m == Persisting(k, "mark")
           n == WithPc(l, "apply")
<1>1. /\ l.pc = "consume" /\ l.fresh /\ l.mem = doc /\ Rest(l.mem, consumed, settled)
      /\ Doing(l) /\ settled = [d \in Decisions |-> settled[d]]
      /\ UNCHANGED <<doc, settled>>
  BY AloneHere DEF Consume, Running
<1>2. /\ UNCHANGED faults /\ consumed' = consumed \union {l.cur.dec}
      /\ Set(p, n) \/ Set(p, m)
  BY NoFaults DEF Consume, NoFault, WithPc, WithCur
<1>3. LocRec(l) /\ l.cur.side \in {"buy", "sell"}
  BY <1>1, Here DEF Local
<1>4. Staged(l.cur, l.mem) /\ l.cur \in l.mem.pend
  BY <1>1, <1>3 DEF Doing, Writing, Staged
<1>5. Rest(l.mem, consumed', settled)
  BY <1>1, <1>2, <1>4, RestConsumed
<1>6. n.pc = "apply" /\ n.mem = l.mem /\ n.fresh = l.fresh /\ n.cur = l.cur
  BY <1>3, SetPc
<1>7. Same(l, k)
  BY <1>3, SetCur DEF Same
<1> HIDE DEF k
<1>8. m.pc = "save" /\ m.stage = "mark" /\ m.mem = l.mem /\ m.fresh = l.fresh
  BY <1>7, Persists DEF Same
<1>9. (Set(p, n) => proc'[p] = n) /\ (Set(p, m) => proc'[p] = m)
  BY DEF CouncilInv, Set
<1> HIDE DEF n, m
<1>10. Doing(n) /\ Doing(m)
  BY <1>4, <1>6, <1>8 DEF Doing, Writing
<1>11. CASE Set(p, n)
  BY <1>1, <1>2, <1>5, <1>6, <1>9, <1>10, <1>11, AloneStep
<1>12. CASE Set(p, m)
  BY <1>1, <1>2, <1>5, <1>8, <1>9, <1>10, <1>12, AloneStep
<1> QED BY <1>2, <1>11, <1>12

\* A protective exit is staged for the position that is open.
LEMMA ProtectAlone ==
    ASSUME Constants, Alone, CouncilInv, AloneInv, NEW p \in Procs, Protect(p)
    PROVE  AloneInv'
<1> DEFINE l == proc[p]
           st == l.mem
<1>1. /\ l.pc = "act" /\ l.fresh /\ st = doc /\ Rest(st, consumed, settled)
      /\ Doing(l) /\ UNCHANGED <<doc, consumed, settled, faults>> /\ st.pos # NoDecision
  BY AloneHere DEF Protect, Running
<1>2. LocRec(l) /\ Sound(st, consumed, used) /\ StateRec(st) /\ Books(st)
  BY Here DEF Base, Sound
<1>3. st.pend = {} /\ st.prot = {}
  BY <1>1 DEF Doing, Writing, Nothing
<1>4. PICK price \in Prices : LET i == Exit(l, price) IN
        Set(p, Persisting(Protecting(Exiting(l, i), {[dec |-> i.dec, price |-> price]}),
                          "protect"))
  BY <1>3 DEF Protect, Exit, Exiting, Protecting
<1> DEFINE i == Exit(l, price)
           on == Exiting(l, i)
           x == {[dec |-> i.dec, price |-> price]}
           k == Protecting(on, x)
           n == Persisting(k, "protect")
           f == k.mem
<1>5. i.dec = st.pos /\ i.side = "protect" /\ i.price = price
  BY DEF Exit
<1>6. Same(Before(l), on) /\ on.cur = i
  BY <1>2, ExitingIs
<1>7. Before(l).mem = st /\ Before(l).fresh = l.fresh
  BY <1>2, BeforeIs
<1> HIDE DEF on
<1>8. LocRec(on) /\ on.mem = st /\ on.fresh = l.fresh
  BY <1>6, <1>7 DEF Same
<1>9. \A j : j \in x <=> j = [dec |-> i.dec, price |-> price]
  OBVIOUS
<1>10. \E j \in x : j.dec = i.dec /\ j.price = i.price
  BY <1>5, <1>9
<1>11. \A j \in x : j.dec = st.pos
  BY <1>5, <1>9
<1> HIDE DEF x, i
<1>12. /\ LocRec(k) /\ k.fresh = l.fresh /\ k.cur = i
       /\ f.prot = x /\ f.pos = st.pos /\ f.trades = st.trades /\ f.pend = {}
  BY <1>2, <1>3, <1>6, <1>8, SetProt
<1> HIDE DEF k
<1>13. n.pc = "save" /\ n.stage = "protect" /\ n.mem = f /\ n.fresh = l.fresh /\ n.cur = i
  BY <1>12, Persists DEF Same
<1>14. Doing(n)
  BY <1>5, <1>10, <1>12, <1>13 DEF Doing, Writing, Staged
<1>15. Rest(f, consumed, settled)
  <2>1. TradeIds(f) = TradeIds(st) /\ \A d : Bought(f, d) <=> Bought(st, d)
    BY <1>12 DEF TradeIds, Bought
  <2>2. ProtId(st.pos) \notin TradeIds(st)
    <3> SUFFICES ASSUME NEW t \in st.trades, t.id = ProtId(st.pos)
                 PROVE  FALSE
      BY DEF TradeIds
    <3>1. t.dec = st.pos
      BY <1>1, Ids DEF Rest
    <3>2. t.id # BuyId(st.pos) /\ st.pos \in Decisions
      BY <1>1, <1>2, Ids DEF Books
    <3> QED BY <1>2, <3>1, <3>2 DEF Books, Closed
  <2>3. \A j \in f.prot : f.pos = (IF ProtId(j.dec) \in TradeIds(f) THEN NoDecision ELSE j.dec)
    BY <1>11, <1>12, <2>1, <2>2
  <2>4. \A d \in Decisions : settled[d] # NoDecision => st.pos # d
    BY <1>1, <1>3 DEF Rest
  <2> HIDE DEF st, f
  <2>5. \A d \in consumed : {BuyId(d), SellId(d)} \intersect TradeIds(f) # {}
    BY <1>1, <1>3, <2>1 DEF Rest
  <2>6. \A d \in Decisions : settled[d] # NoDecision => Bought(f, d) /\ f.pos # d
    BY <1>1, <1>12, <2>1, <2>4 DEF Rest
  <2>7. \A t \in f.trades : /\ t.settle \in {"open", "yes"}
                            /\ t.settle = "yes" => settled[t.dec] = t.price /\ Closes(t)
                            /\ t.id = ProtId(t.id[2]) => t.id[2] = t.dec
    BY <1>1, <1>12 DEF Rest
  <2> QED BY <1>12, <2>3, <2>5, <2>6, <2>7 DEF Rest
<1>16. Set(p, n)
  BY <1>4 DEF n, k, x, on, i
<1> QED BY <1>1, <1>13, <1>14, <1>15, <1>16, AloneMoves

\* A proposal is staged over nothing.
LEMMA StageAlone ==
    ASSUME Constants, Alone, CouncilInv, AloneInv, NEW p \in Procs, Stage(p)
    PROVE  AloneInv'
<1> DEFINE l == proc[p]
           st == l.mem
<1>1. /\ l.pc = "propose" /\ l.fresh /\ st = doc /\ Rest(st, consumed, settled)
      /\ Doing(l) /\ UNCHANGED <<doc, consumed, settled, faults>>
  BY AloneHere DEF Stage, Running
<1>2. /\ LocRec(l) /\ Sound(st, consumed, used) /\ StateRec(st) /\ Earned(st, consumed)
      /\ consumed \subseteq used
  BY Here DEF Base, Sound
<1>3. st.pend = {} /\ st.prot = {}
  BY <1>1 DEF Doing, Writing, Nothing
<1>4. PICK d \in Decisions \ used, price \in Prices :
        LET on == WithCur(l, Proposal(l, d, price)) IN
        Set(p, Persisting(Pending(on, {Proposal(l, d, price)}), "stage"))
  BY <1>3 DEF Stage, WithCur, Pending, Proposal
<1> DEFINE i == Proposal(l, d, price)
           on == WithCur(l, i)
           x == {i}
           k == Pending(on, x)
           n == Persisting(k, "stage")
           f == k.mem
<1>5. i.dec = d /\ i.side = (IF st.pos = NoDecision THEN "buy" ELSE "sell")
  BY DEF Proposal
<1> HIDE DEF i
<1>6. Same(l, on) /\ on.cur = i
  BY <1>2, SetCur DEF Same
<1> HIDE DEF on
<1>7. LocRec(on) /\ on.mem = st /\ on.fresh = l.fresh
  BY <1>6 DEF Same
<1>8. /\ LocRec(k) /\ k.fresh = l.fresh /\ k.cur = i
      /\ f.pend = x /\ f.pos = st.pos /\ f.trades = st.trades /\ f.prot = {}
  BY <1>2, <1>3, <1>6, <1>7, SetPend
<1> HIDE DEF k
<1>9. n.pc = "save" /\ n.stage = "stage" /\ n.mem = f /\ n.fresh = l.fresh /\ n.cur = i
  BY <1>8, Persists DEF Same
<1>10. Doing(n)
  BY <1>5, <1>8, <1>9 DEF Doing, Writing, Staged
<1>11. Rest(f, consumed, settled)
  <2>1. TradeIds(f) = TradeIds(st) /\ \A e : Bought(f, e) <=> Bought(st, e)
    BY <1>8 DEF TradeIds, Bought
  <2>2. IdOf(i) \notin TradeIds(st)
    <3>1. IdOf(i) \in {BuyId(d), SellId(d)}
      BY <1>5 DEF IdOf
    <3> QED BY <1>2, <3>1 DEF Earned, TradeIds
  <2>3. \A e \in Decisions : settled[e] # NoDecision => st.pos # e
    BY <1>1, <1>3 DEF Rest
  <2> HIDE DEF st, f
  <2>4. \A e \in consumed : {BuyId(e), SellId(e)} \intersect TradeIds(f) # {}
    BY <1>1, <1>3, <2>1 DEF Rest
  <2>5. \A e \in Decisions : settled[e] # NoDecision => Bought(f, e) /\ f.pos # e
    BY <1>1, <1>8, <2>1, <2>3 DEF Rest
  <2>6. \A t \in f.trades : /\ t.settle \in {"open", "yes"}
                            /\ t.settle = "yes" => settled[t.dec] = t.price /\ Closes(t)
                            /\ t.id = ProtId(t.id[2]) => t.id[2] = t.dec
    BY <1>1, <1>8 DEF Rest
  <2>7. \A j \in f.pend : IdOf(j) \notin TradeIds(f) /\ (j.side = "buy" <=> f.pos = NoDecision)
    BY <1>5, <1>8, <2>1, <2>2
  <2> QED BY <1>8, <2>4, <2>5, <2>6, <2>7 DEF Rest
<1>12. Set(p, n)
  BY <1>4 DEF n, k, x, on, i
<1> QED BY <1>1, <1>9, <1>10, <1>11, <1>12, AloneMoves

\* The staged fill is the one the copy knows of.
LEMMA StagedOnly ==
    ASSUME NEW st, NEW con, NEW us, NEW set, NEW i, Sound(st, con, us),
           Rest(st, con, set), Staged(i, st)
    PROVE  /\ i.side # "protect" => st.pend = {i} /\ st.prot = {}
           /\ i.side = "protect" => /\ st.pend = {}
                                    /\ \A j \in st.prot : j.dec = i.dec /\ j.price = i.price
                                    /\ st.prot # {}
  BY DEF Sound, Staging, Rest, Staged

\* A close settles the open position and nothing else.
LEMMA RestSettled ==
    ASSUME Constants, NEW st, NEW con, NEW us, NEW set, NEW new, NEW i,
           Sound(st, con, us), Rest(st, con, set), Staged(i, st),
           IdOf(i) \notin TradeIds(st), i.side \in {"buy", "sell", "protect"},
           set = [d \in Decisions |-> set[d]],
           (i.side = "buy") <=> (st.pos = NoDecision),
           IF i.side = "buy" THEN new = set
           ELSE new = [set EXCEPT ![st.pos] = IF set[st.pos] = NoDecision THEN i.price
                                              ELSE set[st.pos]]
    PROVE  /\ Rest(st, con, new) /\ new = [d \in Decisions |-> new[d]]
           /\ i.side # "buy" => new[st.pos] = i.price
<1>1. CASE i.side = "buy"
  BY <1>1
<1>2. CASE i.side # "buy"
  <2>1. /\ st.pos \in Decisions /\ st.pos # NoDecision /\ Bought(st, st.pos)
        /\ \A t \in st.trades : Closes(t) => t.dec # st.pos
    BY <1>2 DEF Sound, Books, Closed, Closes
  <2>2. /\ i.side = "sell" => st.pend = {i} /\ st.prot = {}
        /\ i.side = "protect" => /\ st.pend = {} /\ st.prot # {}
                                 /\ \A j \in st.prot : j.dec = i.dec /\ j.price = i.price
    BY <1>2, StagedOnly
  <2>3. set[st.pos] = NoDecision \/ set[st.pos] = i.price
    BY <1>2, <2>1, <2>2 DEF Rest
  <2>4. /\ new = [d \in Decisions |-> new[d]]
        /\ \A d \in Decisions : new[d] = (IF d = st.pos THEN i.price ELSE set[d])
    BY <1>2, <2>1, <2>3
  <2>5. \A t \in st.trades : t.dec \in Decisions
    BY DEF Sound, Books
  <2>6. \A t \in st.trades : /\ t.settle \in {"open", "yes"}
                             /\ t.settle = "yes" => new[t.dec] = t.price /\ Closes(t)
                             /\ t.id = ProtId(t.id[2]) => t.id[2] = t.dec
    BY <2>1, <2>4, <2>5 DEF Rest
  <2>7. ASSUME NEW d \in Decisions, new[d] # NoDecision
        PROVE  /\ Bought(st, d)
               /\ st.pos = d => \/ \E j \in st.pend : j.side = "sell" /\ j.price = new[d]
                                \/ \E j \in st.prot : j.price = new[d]
    <3>1. CASE d = st.pos
      BY <1>2, <2>1, <2>2, <2>4, <3>1
    <3>2. CASE d # st.pos
      BY <2>4, <2>7, <3>2 DEF Rest
    <3> QED BY <3>1, <3>2
  <2>8. Rest(st, con, new)
    BY <2>6, <2>7 DEF Rest
  <2> QED BY <2>1, <2>4, <2>8
<1> QED BY <1>1, <1>2

\* Applying the fill is what the staging is for.
LEMMA RestFilled ==
    ASSUME Constants, NEW st, NEW con, NEW us, NEW set, NEW i, NEW s,
           Sound(st, con, us), Rest(st, con, set), Staged(i, st),
           IdOf(i) \notin TradeIds(st), i.side \in {"buy", "sell", "protect"},
           i.dec \in Decisions, (i.side = "buy") <=> (st.pos = NoDecision),
           s = (IF i.side = "buy" THEN "open" ELSE "yes"),
           i.side # "buy" => set[st.pos] = i.price
    PROVE  Rest(Filled(st, i, s), con, set)
<1> DEFINE f == Filled(st, i, s)
           t == Trade(st, i, s)
<1>1. StateRec(st)
  BY DEF Sound
<1>2. /\ f.pend = st.pend /\ f.prot = st.prot
      /\ f.pos = (IF i.side = "buy" THEN i.dec ELSE NoDecision)
      /\ f.trades = st.trades \union {t}
      /\ t.id = IdOf(i) /\ t.dec = Entry(st, i)
      /\ t.price = i.price /\ t.settle = s
  BY <1>1, FilledIs
<1> HIDE DEF f, t
<1>3. TradeIds(f) = TradeIds(st) \union {IdOf(i)}
  BY <1>2 DEF TradeIds
<1>4. /\ i.side # "protect" => st.pend = {i} /\ st.prot = {}
      /\ i.side = "protect" => /\ st.pend = {}
                               /\ \A j \in st.prot : j.dec = i.dec /\ j.price = i.price
                               /\ st.prot # {}
  BY StagedOnly
<1>5. /\ \A d \in con : \/ \E j \in f.pend : j.dec = d
                        \/ {BuyId(d), SellId(d)} \intersect TradeIds(f) # {}
      /\ f.pend = {} \/ f.prot = {}
  BY <1>2, <1>3 DEF Rest
<1>6. \A u \in f.trades : /\ u.settle \in {"open", "yes"}
                          /\ u.settle = "yes" => set[u.dec] = u.price /\ Closes(u)
                          /\ u.id = ProtId(u.id[2]) => u.id[2] = u.dec
  <2>1. t.settle \in {"open", "yes"}
    BY <1>2
  <2>2. t.settle = "yes" => set[t.dec] = t.price /\ Closes(t)
    BY <1>2, Ids DEF Entry, Closes, IdOf
  <2>3. ASSUME t.id = ProtId(t.id[2]) PROVE t.id[2] = t.dec
    <3>1. i.side = "protect"
      BY <1>2, <2>3, Ids DEF IdOf
    <3>2. t.id[2] = i.dec /\ t.dec = st.pos
      BY <1>2, <3>1, Ids DEF IdOf, Entry
    <3>3. PICK j \in st.prot : j.dec = i.dec
      BY <1>4, <3>1
    <3>4. ProtId(j.dec) \notin TradeIds(st)
      BY <3>1, <3>3 DEF IdOf
    <3> QED BY <3>2, <3>3, <3>4 DEF Rest
  <2> QED BY <1>2, <2>1, <2>2, <2>3 DEF Rest
<1>7. \A j \in f.pend : IF IdOf(j) \in TradeIds(f) THEN j.side = "sell" => f.pos = NoDecision
                        ELSE j.side = "buy" <=> f.pos = NoDecision
  BY <1>2, <1>3, <1>4
<1>8. \A j \in f.prot : f.pos = (IF ProtId(j.dec) \in TradeIds(f) THEN NoDecision ELSE j.dec)
  <2>1. i.side = "protect" => IdOf(i) = ProtId(i.dec)
    BY DEF IdOf
  <2> QED BY <1>2, <1>3, <1>4, <2>1
<1>9. ASSUME NEW d \in Decisions, set[d] # NoDecision
      PROVE  /\ Bought(f, d)
             /\ f.pos # d
  <2>1. Bought(st, d)
    BY <1>9 DEF Rest
  <2>2. Bought(f, d)
    BY <1>2, <2>1 DEF Bought
  <2>3. ASSUME f.pos = d PROVE FALSE
    <3>1. i.side = "buy" /\ i.dec = d
      BY <1>2, <2>3 DEF Constants
    <3>2. BuyId(d) \in TradeIds(st)
      BY <2>1 DEF Bought, TradeIds
    <3> QED BY <3>1, <3>2 DEF IdOf
  <2> QED BY <2>2, <2>3
<1>10. Rest(f, con, set)
  BY <1>5, <1>6, <1>7, <1>8, <1>9 DEF Rest
<1> QED BY <1>10 DEF f

\* The staged fill fits, and a close is settled as it is traded.
LEMMA ApplyAlone ==
    ASSUME Constants, Alone, CouncilInv, AloneInv, NEW p \in Procs, faults' = 0, Apply(p)
    PROVE  AloneInv'
<1> DEFINE l == proc[p]
           st == l.mem
           i == l.cur
           try == Trying(l)
           s == IF i.side = "buy" THEN "open" ELSE "yes"
<1>1. /\ l.pc = "apply" /\ l.fresh /\ st = doc /\ Rest(st, consumed, settled)
      /\ Staged(i, st) /\ settled = [d \in Decisions |-> settled[d]]
  BY AloneHere DEF Apply, Running, Doing, Writing
<1>2. /\ LocRec(l) /\ Sound(st, consumed, used) /\ Base(l, doc, consumed, used)
      /\ Agrees(l, doc) /\ i.dec \in Decisions /\ i.side \in {"buy", "sell", "protect"}
      /\ i.side # "protect" => i.dec \in consumed
  BY <1>1, Here DEF Base, Local, Filling
<1>3. UNCHANGED <<doc, consumed, faults>>
  BY NoFaults DEF Apply, NoFault
<1>4. ~IsThere(l) => Fits(l)
  <2> SUFFICES ASSUME ~IsThere(l) PROVE (i.side = "buy") <=> (st.pos = NoDecision)
    BY DEF Fits
  <2>1. IdOf(i) \notin TradeIds(st)
    BY DEF IsThere, TradeIds
  <2>2. /\ i.side # "protect" => st.pend = {i} /\ st.prot = {}
        /\ i.side = "protect" => /\ st.pend = {}
                                 /\ \A j \in st.prot : j.dec = i.dec /\ j.price = i.price
                                 /\ st.prot # {}
    BY <1>1, <1>2, StagedOnly
  <2>3. CASE i.side # "protect"
    BY <1>1, <2>1, <2>2, <2>3 DEF Rest
  <2>4. CASE i.side = "protect"
    <3>1. PICK j \in st.prot : j.dec = i.dec
      BY <2>2, <2>4
    <3>2. ProtId(j.dec) \notin TradeIds(st)
      BY <2>1, <2>4, <3>1 DEF IdOf
    <3>3. st.pos = i.dec
      BY <1>1, <3>1, <3>2 DEF Rest
    <3> QED BY <1>2, <2>4, <3>3 DEF Constants
  <2> QED BY <2>3, <2>4
<1>5. \/ IsThere(l) /\ Set(p, WithPc(l, "complete")) /\ settled' = settled
      \/ /\ ~IsThere(l) /\ Set(p, FillFor(l, s))
         /\ IF i.side = "buy" THEN settled' = settled
            ELSE settled' = [settled EXCEPT ![st.pos] = IF settled[st.pos] = NoDecision
                                 THEN i.price ELSE settled[st.pos]]
  <2> DEFINE t2 == IF l.mode = "protect" THEN l ELSE Before(l)
             fill(z) == Persisting([t2 EXCEPT !.mem = Filled(l.mem, i, z)], "fill")
  <2>1. \A z : fill(z) = FillFor(l, z)
    BY DEF FillFor, WithMem, Trying
  <2>2. \/ IsThere(l) /\ Set(p, [l EXCEPT !.pc = "complete"]) /\ settled' = settled
        \/ ~IsThere(l) /\ i.side = "buy" /\ Set(p, fill("open")) /\ settled' = settled
        \/ /\ ~IsThere(l) /\ i.side # "buy" /\ Set(p, fill("yes"))
           /\ settled' = [settled EXCEPT ![l.mem.pos] = SettledAt(l.mem.pos, i.price)]
    BY <1>4, NoFaults DEF Apply, IsThere, Fits
  <2> HIDE DEF fill
  <2> QED BY <2>1, <2>2 DEF WithPc, SettledAt
<1>6. CASE IsThere(l) /\ Set(p, WithPc(l, "complete")) /\ settled' = settled
  <2> DEFINE n == WithPc(l, "complete")
  <2>1. n.pc = "complete" /\ n.mem = l.mem /\ n.fresh = l.fresh /\ n.cur = l.cur
    BY <1>2, SetPc
  <2>2. Set(p, n)
    BY <1>6
  <2>3. IdOf(i) \in TradeIds(st)
    BY <1>6 DEF IsThere, TradeIds
  <2> HIDE DEF n
  <2>4. Doing(n)
    BY <1>1, <2>1, <2>3 DEF Doing, Writing
  <2> QED BY <1>1, <1>3, <1>6, <2>1, <2>2, <2>4, AloneSame DEF Running
<1>7. CASE /\ ~IsThere(l) /\ Set(p, FillFor(l, s))
           /\ IF i.side = "buy" THEN settled' = settled
              ELSE settled' = [settled EXCEPT ![st.pos] = IF settled[st.pos] = NoDecision
                                 THEN i.price ELSE settled[st.pos]]
  <2> DEFINE f == Filled(st, i, s)
             k == WithMem(try, f)
             n == Persisting(k, "fill")
  <2>1. /\ IdOf(i) \notin TradeIds(st) /\ \A t \in st.trades : t.id # IdOf(i)
        /\ (i.side = "buy") <=> (st.pos = NoDecision)
    BY <1>4, <1>7 DEF IsThere, TradeIds, Fits
  <2>2. /\ Rest(st, consumed, settled') /\ settled' = [d \in Decisions |-> settled'[d]]
        /\ i.side # "buy" => settled'[st.pos] = i.price
    BY <1>1, <1>2, <1>7, <2>1, RestSettled
  <2>3. Rest(f, consumed, settled')
    BY <1>1, <1>2, <2>1, <2>2, RestFilled
  <2>4. f.pend = st.pend /\ f.prot = st.prot /\ IdOf(i) \in TradeIds(f)
    BY <1>2, <2>1, FilledIsSound
  <2>5. LocRec(try) /\ try.fresh = l.fresh /\ try.cur = i
    BY <1>2, TryingIsBase
  <2>6. Set(p, n)
    BY <1>7 DEF FillFor
  <2> HIDE DEF f, try
  <2>7. LocRec(k) /\ k.mem = f /\ k.fresh = l.fresh /\ k.cur = i
    BY <2>5, SetMem
  <2> HIDE DEF k
  <2>8. n.pc = "save" /\ n.stage = "fill" /\ n.mem = f /\ n.fresh = l.fresh /\ n.cur = i
    BY <2>7, Persists DEF Same
  <2> HIDE DEF n
  <2>9. Doing(n)
    BY <1>1, <2>4, <2>8 DEF Doing, Writing, Staged
  <2>10. proc'[p] = n
    BY <2>6 DEF CouncilInv, Set
  <2> QED BY <1>1, <1>3, <2>2, <2>3, <2>8, <2>9, <2>10, AloneStep
<1> QED BY <1>5, <1>6, <1>7

\* Every step of a process alone after which no call has failed keeps AloneInv,
LEMMA NextAlone ==
    ASSUME Constants, Alone, CouncilInv, AloneInv, faults' = 0, [CouncilNext]_councilVars
    PROVE  AloneInv'
<1>1. ASSUME NEW p \in Procs, Step(p) \/ Crash(p) PROVE AloneInv'
  <2>1. CASE Load(p)
    BY <2>1, LoadAlone
  <2>2. CASE RecoverSettlements(p)
    BY <2>2, RecoverSettlementsAlone
  <2>3. CASE Save(p)
    BY <2>3, SaveAlone
  <2>4. CASE Sync(p)
    BY <2>4, SyncAlone
  <2>5. CASE Reload(p)
    BY <2>5, ReloadAlone
  <2>6. CASE TickBegins(p)
    BY <2>6, TickBeginsAlone
  <2>7. CASE RecoverAuthorized(p)
    BY <2>7, RecoverAuthorizedAlone
  <2>8. CASE RecoverProtective(p)
    BY <2>8, RecoverProtectiveAlone
  <2>9. CASE Apply(p)
    BY <2>9, ApplyAlone
  <2>10. CASE Complete(p)
    BY <2>10, CompleteAlone
  <2>11. CASE Protect(p)
    BY <2>11, ProtectAlone
  <2>12. CASE Hold(p)
    BY <2>12, HoldAlone
  <2>13. CASE Stage(p)
    BY <2>13, StageAlone
  <2>14. CASE Wait(p)
    BY <2>14, WaitAlone
  <2>15. CASE Consume(p)
    BY <2>15, ConsumeAlone
  <2>16. CASE Crash(p)
    BY <2>16, CrashAlone
  <2> QED BY <1>1, <2>1, <2>2, <2>3, <2>4, <2>5, <2>6, <2>7, <2>8, <2>9, <2>10,
             <2>11, <2>12, <2>13, <2>14, <2>15, <2>16 DEF Step
<1>2. CASE UNCHANGED councilVars
  BY <1>2 DEF councilVars, AloneInv
<1> QED BY <1>1, <1>2 DEF CouncilNext

\* which keeps what it consumed and settles as it trades.
LEMMA AloneBooks ==
    ASSUME CouncilInv, AloneInv
    PROVE  ConsumedIsKept /\ SettledAsTraded
<1>1. Rest(doc, consumed, settled)
  BY DEF AloneInv
<1>2. ConsumedIsKept
  BY <1>1 DEF ConsumedIsKept, Rest, TradeIds
<1>3. SettledAsTraded
  BY <1>1 DEF SettledAsTraded, Rest
<1> QED BY <1>2, <1>3

\* Calls that have failed are counted.
LEMMA FaultsAreCounted ==
    ASSUME faults \in Nat, [CouncilNext]_councilVars
    PROVE  faults' \in Nat /\ (faults' = 0 => faults = 0)
<1>1. Fault \/ UNCHANGED faults => faults' \in Nat /\ (faults' = 0 => faults = 0)
  BY DEF Fault
<1>2. ASSUME NEW p \in Procs, Step(p) \/ Crash(p) PROVE Fault \/ UNCHANGED faults
  <2>1. Load(p) \/ TickBegins(p) \/ Crash(p) => UNCHANGED faults
    BY DEF Load, TickBegins, Crash
  <2>2. Protect(p) \/ Hold(p) \/ Stage(p) \/ Wait(p) \/ Complete(p)
        \/ RecoverProtective(p) => UNCHANGED faults
    BY DEF Protect, Hold, Stage, Wait, Complete, RecoverProtective
  <2>3. RecoverSettlements(p) \/ RecoverAuthorized(p) => Fault \/ UNCHANGED faults
    BY DEF RecoverSettlements, RecoverAuthorized, NoFault
  <2>4. Save(p) \/ Sync(p) \/ Reload(p) => Fault \/ UNCHANGED faults
    BY DEF Save, Sync, Reload, NoFault
  <2>5. Apply(p) \/ Consume(p) => Fault \/ UNCHANGED faults
    BY DEF Apply, Consume, NoFault
  <2> QED BY <1>2, <2>1, <2>2, <2>3, <2>4, <2>5 DEF Step
<1>3. CASE UNCHANGED councilVars
  BY <1>1, <1>3 DEF councilVars
<1> QED BY <1>1, <1>2, <1>3 DEF CouncilNext

\* Whatever database calls fail and wherever processes die, the books of the
\* council's paper loop are sound: no authorized trade without its consumption,
\* the position the trades leave open, a history the account backs; and a
\* process alone, as long as its calls have succeeded, loses no consumed
\* authority and settles every close at its price (council_loop.py _tick,
\* _persist, recovery).
THEOREM CouncilIsSoundHolds == ASSUME Constants PROVE CouncilSpec => []CouncilIsSound
<1>1. CouncilInit => Inv
  BY InitCouncil, InitAlone DEF Inv, CouncilInit
<1>2. Inv /\ [CouncilNext]_councilVars => Inv'
  BY NextCouncil, NextAlone, FaultsAreCounted DEF Inv, Alone
<1>3. Inv => CouncilIsSound
  BY CouncilBooks, AloneBooks DEF Inv, CouncilIsSound, Alone
<1> QED BY <1>1, <1>2, <1>3, PTL DEF CouncilSpec

-------------------------------------------------------------------------------
(* The broker of the same paper account: BooksAreExact of PaperBroker.      *)
(*                                                                         *)
(* BooksAreExact holds for any threads, fill ids, prices and bounds: the   *)
(* inductive invariant says of the account, and of the copy a thread works *)
(* on, that its books balance, and that the copy is the account as long as *)
(* no put came between.                                                    *)
BrokerConstants ==
    /\ InitialCash \in Int /\ Mids \subseteq Nat /\ UnitFee \in Nat /\ Slip \in Nat
    /\ Rates \subseteq Int /\ RateUnit \in Nat \ {0} /\ MaxQuantity \in Nat
    /\ MaximumFills \in Nat \ {0} /\ Retries \in Nat \ {0} /\ MaxTime \in Nat
    /\ "none" \notin FillIds

Fills == [id : FillIds, side : {"buy", "sell"}, qty : Nat, price : Int]

PosRec(q) == q = [qty |-> q.qty, cost |-> q.cost, fees |-> q.fees,
                  funding |-> q.funding, funded |-> q.funded]
AccountRec(a) == a = [cash |-> a.cash, realized |-> a.realized, pos |-> a.pos,
                      fills |-> a.fills, ver |-> a.ver]
LocalRec(l) == l = [pc |-> l.pc, call |-> l.call, fill |-> l.fill, side |-> l.side,
                    qty |-> l.qty, event |-> l.event, seen |-> l.seen,
                    tries |-> l.tries]

\* A position with its types, and an account whose books balance.
GoodPos(q) == /\ PosRec(q) /\ q.qty \in Nat /\ q.cost \in Nat /\ q.fees \in Nat
              /\ q.funding \in Int /\ q.funded \in Nat
BrokerBooks(a) ==
    /\ AccountRec(a) /\ GoodPos(a.pos) /\ a.cash \in Int /\ a.realized \in Int
    /\ a.cash + a.pos.cost + a.pos.fees + a.pos.funding = InitialCash + a.realized
Good(a) == BrokerBooks(a) /\ a.ver \in Nat \ {0} /\ a.fills \in Seq(Fills)
           /\ Len(a.fills) <= MaximumFills

\* What a thread between its calls and in them knows.
GoodLocal(l, a) ==
    /\ LocalRec(l) /\ l.tries \in Nat /\ l.tries < Retries
    /\ l.pc \in {"idle", "read", "put"}
    /\ l.pc # "idle" =>
           /\ l.event \in Events
           /\ \/ l.call = "mark" /\ l.fill = "none"
              \/ /\ l.call = "execute" /\ l.fill \in FillIds /\ l.side \in {"buy", "sell"}
                 /\ l.qty \in Nat \ {0}
    /\ l.pc = "put" =>
           /\ Good(l.seen) /\ l.seen.ver <= a.ver
           /\ l.seen.ver = a.ver => l.seen = a
           /\ Stored(l.seen.fills, l.fill) = {}

\* While nothing was forgotten, every id has one fill, and that is the answer.
Remembered ==
    Len(account.fills) < MaximumFills =>
        \A f \in FillIds :
            /\ \A x, y \in Stored(account.fills, f) : x = y
            /\ answers[f] \subseteq Stored(account.fills, f)
            /\ applied[f] = (IF Stored(account.fills, f) = {} THEN 0 ELSE 1)

BooksInv ==
    /\ Good(account)
    /\ at = [t \in Threads |-> at[t]]
    /\ \A t \in Threads : GoodLocal(at[t], account)
    /\ applied = [f \in FillIds |-> applied[f]] /\ answers = [f \in FillIds |-> answers[f]]
    /\ Remembered
----------------------------------------------------------------------------
\* A share of a whole is what is left when all is sold, and no more than it.
LEMMA Whole == ASSUME NEW x \in Int, NEW q \in Nat \ {0} PROVE (x * q) \div q = x
  OBVIOUS

\* A share is an integer,
LEMMA IntShare ==
    ASSUME NEW x \in Int, NEW q \in Nat, NEW n \in Nat \ {0}
    PROVE  (x * q) \div n \in Int
<1>1. x * q \in Int
  OBVIOUS
<1> QED BY <1>1

\* and never more than the whole.
LEMMA Share ==
    ASSUME NEW x \in Nat, NEW q \in Nat, NEW n \in Nat \ {0}, q <= n
    PROVE  (x * q) \div n \in Nat /\ (x * q) \div n <= x
<1>1. x * q \in Nat /\ x * q <= x * n
  OBVIOUS
<1>2. /\ (x * q) \div n \in Int /\ ((x * q) \div n) * n <= x * q
      /\ x * q < ((x * q) \div n) * n + n
  BY <1>1
<1>3. ASSUME NEW d \in Int, d * n <= x * n PROVE d <= x
  BY <1>3
<1>4. ASSUME NEW d \in Int, 0 < d * n + n PROVE d >= 0
  BY <1>4
<1> QED BY <1>1, <1>2, <1>3, <1>4

\* Writing a position and an account field by field.
LEMMA WritePos ==
    ASSUME NEW q, PosRec(q), NEW x, NEW n
    PROVE  /\ n = [q EXCEPT !.qty = x] => PosRec(n) /\ n.qty = x /\ n.cost = q.cost
                  /\ n.fees = q.fees /\ n.funding = q.funding /\ n.funded = q.funded
           /\ n = [q EXCEPT !.cost = x] => PosRec(n) /\ n.qty = q.qty /\ n.cost = x
                  /\ n.fees = q.fees /\ n.funding = q.funding /\ n.funded = q.funded
           /\ n = [q EXCEPT !.fees = x] => PosRec(n) /\ n.qty = q.qty /\ n.cost = q.cost
                  /\ n.fees = x /\ n.funding = q.funding /\ n.funded = q.funded
           /\ n = [q EXCEPT !.funding = x] => PosRec(n) /\ n.qty = q.qty /\ n.cost = q.cost
                  /\ n.fees = q.fees /\ n.funding = x /\ n.funded = q.funded
           /\ n = [q EXCEPT !.funded = x] => PosRec(n) /\ n.qty = q.qty /\ n.cost = q.cost
                  /\ n.fees = q.fees /\ n.funding = q.funding /\ n.funded = x
  BY DEF PosRec

\* An account field.
LEMMA WriteAccount ==
    ASSUME NEW a, AccountRec(a), NEW x, NEW n
    PROVE  /\ n = [a EXCEPT !.cash = x] => AccountRec(n) /\ n.cash = x
                  /\ n.realized = a.realized /\ n.pos = a.pos /\ n.fills = a.fills /\ n.ver = a.ver
           /\ n = [a EXCEPT !.realized = x] => AccountRec(n) /\ n.cash = a.cash
                  /\ n.realized = x /\ n.pos = a.pos /\ n.fills = a.fills /\ n.ver = a.ver
           /\ n = [a EXCEPT !.pos = x] => AccountRec(n) /\ n.cash = a.cash
                  /\ n.realized = a.realized /\ n.pos = x /\ n.fills = a.fills /\ n.ver = a.ver
           /\ n = [a EXCEPT !.fills = x] => AccountRec(n) /\ n.cash = a.cash
                  /\ n.realized = a.realized /\ n.pos = a.pos /\ n.fills = x /\ n.ver = a.ver
           /\ n = [a EXCEPT !.ver = x] => AccountRec(n) /\ n.cash = a.cash
                  /\ n.realized = a.realized /\ n.pos = a.pos /\ n.fills = a.fills /\ n.ver = x
  BY DEF AccountRec

\* The fields a purchase writes, those a sale writes, and what a partial sale leaves.
BrokerBought(a, x1, x2, x3, x4, x5) ==
    [a EXCEPT !.cash = x1, !.pos.qty = x2, !.pos.cost = x3, !.pos.fees = x4, !.pos.funded = x5]
Sold(a, x1, x2, x3) == [a EXCEPT !.cash = x1, !.realized = x2, !.pos = x3]
BrokerRest(q, x1, x2, x3, x4) == [q EXCEPT !.qty = x1, !.cost = x2, !.fees = x3, !.funding = x4]

\* They change these fields, and no other.
LEMMA WriteBuy ==
    ASSUME NEW a, AccountRec(a), PosRec(a.pos), NEW x1, NEW x2, NEW x3, NEW x4, NEW x5, NEW n,
           n = BrokerBought(a, x1, x2, x3, x4, x5)
    PROVE  /\ AccountRec(n) /\ n.cash = x1 /\ n.realized = a.realized
           /\ n.fills = a.fills /\ n.ver = a.ver
           /\ PosRec(n.pos) /\ n.pos.qty = x2 /\ n.pos.cost = x3 /\ n.pos.fees = x4
           /\ n.pos.funding = a.pos.funding /\ n.pos.funded = x5
  BY DEF AccountRec, PosRec, BrokerBought

\* The same of a sale,
LEMMA WriteSell ==
    ASSUME NEW a, AccountRec(a), NEW x1, NEW x2, NEW x3, NEW n, n = Sold(a, x1, x2, x3)
    PROVE  /\ AccountRec(n) /\ n.cash = x1 /\ n.realized = x2 /\ n.pos = x3
           /\ n.fills = a.fills /\ n.ver = a.ver
  BY DEF AccountRec, Sold

\* and of the rest of a position.
LEMMA WriteRest ==
    ASSUME NEW q, PosRec(q), NEW x1, NEW x2, NEW x3, NEW x4, NEW n, n = BrokerRest(q, x1, x2, x3, x4)
    PROVE  PosRec(n) /\ n.qty = x1 /\ n.cost = x2 /\ n.fees = x3 /\ n.funding = x4
           /\ n.funded = q.funded
  BY DEF PosRec, BrokerRest

\* Funding moves money from the cash to what the position has paid.
LEMMA FundingKeepsBooks ==
    ASSUME BrokerConstants, NEW a, BrokerBooks(a), NEW e \in Events
    PROVE  LET n == Funding(a, e) IN
           BrokerBooks(n) /\ n.fills = a.fills /\ n.ver = a.ver /\ n.pos.qty = a.pos.qty
<1> DEFINE amount == IF a.pos.qty = 0 \/ e.time <= a.pos.funded THEN 0
                     ELSE (a.pos.qty * e.mid * e.rate * (e.time - a.pos.funded))
                          \div RateUnit
           b == [a EXCEPT !.cash = a.cash - amount]
           q == [b.pos EXCEPT !.funding = b.pos.funding + amount]
           c == [b EXCEPT !.pos = q]
           until == IF a.pos.qty > 0 /\ e.time > c.pos.funded THEN e.time ELSE c.pos.funded
           r == [c.pos EXCEPT !.funded = until]
           n == [c EXCEPT !.pos = r]
<1>0. /\ e.time \in 1..MaxTime /\ e.mid \in Mids /\ e.rate \in Rates
  BY DEF Events
<1>1. /\ e.time \in Nat /\ e.mid \in Nat /\ e.rate \in Int /\ RateUnit \in Nat \ {0}
      /\ AccountRec(a) /\ GoodPos(a.pos) /\ PosRec(a.pos) /\ a.pos.qty \in Nat
      /\ a.pos.funded \in Nat /\ a.cash \in Int
  <2>0. /\ Mids \subseteq Nat /\ Rates \subseteq Int /\ RateUnit \in Nat \ {0} /\ MaxTime \in Nat
    BY DEF BrokerConstants
  <2>1. e.time \in Nat /\ e.mid \in Nat /\ e.rate \in Int /\ RateUnit \in Nat \ {0}
    <3>1. e.time \in Nat
      BY <1>0, <2>0
    <3>2. e.mid \in Nat
      BY <1>0, <2>0
    <3>3. e.rate \in Int
      BY <1>0, <2>0
    <3> QED BY <2>0, <3>1, <3>2, <3>3
  <2>2. AccountRec(a) /\ GoodPos(a.pos) /\ a.cash \in Int
    BY DEF BrokerBooks
  <2> QED BY <2>1, <2>2 DEF GoodPos
<1>2. amount \in Int
  <2>1. a.pos.qty * e.mid * e.rate * (e.time - a.pos.funded) \in Int
    BY <1>1
  <2> QED BY <1>1, <2>1
<1>3. Funding(a, e) = n
  BY DEF Funding
<1> HIDE DEF amount
<1>4. /\ AccountRec(b) /\ b.cash = a.cash - amount /\ b.realized = a.realized
      /\ b.pos = a.pos /\ b.fills = a.fills /\ b.ver = a.ver
  BY <1>1, WriteAccount
<1> HIDE DEF b
<1>5. /\ PosRec(q) /\ q.qty = a.pos.qty /\ q.cost = a.pos.cost /\ q.fees = a.pos.fees
      /\ q.funding = a.pos.funding + amount /\ q.funded = a.pos.funded
  <2>1. PICK z : z = b.pos
    OBVIOUS
  <2>2. PosRec(z) /\ z.qty = a.pos.qty /\ z.cost = a.pos.cost /\ z.fees = a.pos.fees
        /\ z.funding = a.pos.funding /\ z.funded = a.pos.funded
    BY <1>1, <1>4, <2>1
  <2>3. PICK y : y = [z EXCEPT !.funding = z.funding + amount]
    OBVIOUS
  <2>4. q = y
    BY <2>1, <2>3
  <2> HIDE DEF q
  <2>5. /\ PosRec(y) /\ y.qty = z.qty /\ y.cost = z.cost /\ y.fees = z.fees
        /\ y.funding = z.funding + amount /\ y.funded = z.funded
    BY <2>2, <2>3, WritePos
  <2> QED BY <2>2, <2>4, <2>5
<1> HIDE DEF q
<1>6. /\ AccountRec(c) /\ c.cash = b.cash /\ c.realized = b.realized
      /\ c.pos = q /\ c.fills = b.fills /\ c.ver = b.ver
  BY <1>4, WriteAccount
<1>7. until \in Nat
  BY <1>1, <1>5, <1>6
<1> HIDE DEF c, until
<1>8. /\ PosRec(r) /\ r.qty = q.qty /\ r.cost = q.cost /\ r.fees = q.fees
      /\ r.funding = q.funding /\ r.funded = until
  BY <1>5, <1>6, WritePos
<1> HIDE DEF r
<1>9. /\ AccountRec(n) /\ n.cash = c.cash /\ n.realized = c.realized
      /\ n.pos = r /\ n.fills = c.fills /\ n.ver = c.ver
  BY <1>6, WriteAccount
<1> HIDE DEF n
<1>10. GoodPos(n.pos)
  BY <1>1, <1>2, <1>5, <1>7, <1>8, <1>9 DEF GoodPos
<1>11. /\ n.cash = a.cash - amount /\ n.pos.funding = a.pos.funding + amount
       /\ n.pos.cost = a.pos.cost /\ n.pos.fees = a.pos.fees /\ n.realized = a.realized
  BY <1>4, <1>5, <1>6, <1>8, <1>9
<1>12. BrokerBooks(n)
  BY <1>1, <1>2, <1>9, <1>10, <1>11 DEF BrokerBooks, GoodPos, BrokerConstants
<1> QED BY <1>3, <1>4, <1>5, <1>6, <1>8, <1>9, <1>12

\* A purchase turns cash into entry cost and entry fees.
LEMMA BuyKeepsBooks ==
    ASSUME BrokerConstants, NEW a, BrokerBooks(a), NEW l, l.event \in Events, l.qty \in Nat \ {0}
    PROVE  LET n == Buy(a, l) IN BrokerBooks(n) /\ n.fills = a.fills /\ n.ver = a.ver
<1> DEFINE paid == l.qty * Price(l.event, "buy")
           fee == l.qty * UnitFee
           cash == a.cash - paid - fee
           qty == a.pos.qty + l.qty
           cost == a.pos.cost + paid
           fees == a.pos.fees + fee
           since == IF a.pos.qty = 0 THEN l.event.time ELSE a.pos.funded
           n == BrokerBought(a, cash, qty, cost, fees, since)
<1>1. /\ l.event.time \in 1..MaxTime /\ l.event.mid \in Mids
  BY DEF Events
<1>2. l.event.time \in Nat /\ l.event.mid \in Nat /\ UnitFee \in Nat /\ Slip \in Nat /\ l.qty \in Nat
  <2>1. /\ Mids \subseteq Nat /\ UnitFee \in Nat /\ Slip \in Nat /\ MaxTime \in Nat
    BY DEF BrokerConstants
  <2>2. l.event.time \in Nat
    BY <1>1, <2>1
  <2>3. l.event.mid \in Nat
    BY <1>1, <2>1
  <2> QED BY <2>1, <2>2, <2>3
<1>3. paid \in Nat /\ fee \in Nat
  <2>1. Price(l.event, "buy") \in Nat
    BY <1>2 DEF Price
  <2> QED BY <1>2, <2>1
<1>4. AccountRec(a) /\ GoodPos(a.pos) /\ a.cash \in Int /\ a.realized \in Int
  BY DEF BrokerBooks
<1>5. /\ PosRec(a.pos) /\ a.pos.qty \in Nat /\ a.pos.cost \in Nat /\ a.pos.fees \in Nat
      /\ a.pos.funding \in Int /\ a.pos.funded \in Nat
  BY <1>4 DEF GoodPos
<1>6. Buy(a, l) = n
  BY DEF Buy, BrokerBought
<1> HIDE DEF paid, fee
<1>14. since \in Nat
  BY <1>2, <1>5
<1> HIDE DEF cash, qty, cost, fees, since
<1>15. /\ AccountRec(n) /\ n.cash = cash /\ n.realized = a.realized
       /\ n.fills = a.fills /\ n.ver = a.ver
       /\ PosRec(n.pos) /\ n.pos.qty = qty /\ n.pos.cost = cost /\ n.pos.fees = fees
       /\ n.pos.funding = a.pos.funding /\ n.pos.funded = since
  BY <1>4, <1>5, WriteBuy
<1> HIDE DEF n
<1>16. AccountRec(n)
  BY <1>15
<1>17. /\ n.pos.qty = a.pos.qty + l.qty /\ n.pos.cost = a.pos.cost + paid
       /\ n.pos.fees = a.pos.fees + fee /\ n.pos.funding = a.pos.funding
       /\ n.pos.funded = since /\ PosRec(n.pos)
  BY <1>15 DEF qty, cost, fees
<1>18. /\ n.cash = a.cash - paid - fee /\ n.realized = a.realized
       /\ n.fills = a.fills /\ n.ver = a.ver
  BY <1>15 DEF cash
<1>19. GoodPos(n.pos)
  BY <1>2, <1>3, <1>5, <1>14, <1>17 DEF GoodPos
<1>20. InitialCash \in Int
         /\ a.cash + a.pos.cost + a.pos.fees + a.pos.funding = InitialCash + a.realized
  BY DEF BrokerConstants, BrokerBooks
<1>21. n.cash + n.pos.cost + n.pos.fees + n.pos.funding = InitialCash + n.realized
  BY <1>3, <1>4, <1>5, <1>17, <1>18, <1>20
<1>22. n.cash \in Int /\ n.realized \in Int
  BY <1>3, <1>4, <1>18
<1>23. BrokerBooks(n)
  BY <1>16, <1>19, <1>21, <1>22 DEF BrokerBooks
<1> QED BY <1>6, <1>18, <1>23

\* A sale releases its shares of cost, fees and funding into the realized result;
\* the sale of the whole position releases all of them.
LEMMA SellKeepsBooks ==
    ASSUME BrokerConstants, NEW a, BrokerBooks(a), NEW l, l.event \in Events, l.qty \in Nat \ {0},
           l.qty <= a.pos.qty
    PROVE  LET n == Sell(a, l) IN BrokerBooks(n) /\ n.fills = a.fills /\ n.ver = a.ver
<1> DEFINE part(x) == (x * l.qty) \div a.pos.qty
           cost == part(a.pos.cost)
           fees == part(a.pos.fees)
           funding == part(a.pos.funding)
           proceeds == l.qty * (Price(l.event, "sell") - UnitFee)
           cash == a.cash + proceeds
           gain == a.realized + proceeds - cost - fees - funding
           x1 == a.pos.qty - l.qty
           x2 == a.pos.cost - cost
           x3 == a.pos.fees - fees
           x4 == a.pos.funding - funding
           rest == BrokerRest(a.pos, x1, x2, x3, x4)
           q == IF l.qty = a.pos.qty THEN NoPosition ELSE rest
           n == Sold(a, cash, gain, q)
<1>1. l.event.mid \in Mids
  BY DEF Events
<1>2. l.event.mid \in Nat /\ UnitFee \in Nat /\ Slip \in Nat /\ l.qty \in Nat \ {0}
  <2>1. /\ Mids \subseteq Nat /\ UnitFee \in Nat /\ Slip \in Nat
    BY DEF BrokerConstants
  <2> QED BY <1>1, <2>1
<1>3. proceeds \in Int
  <2>1. Price(l.event, "sell") \in Int
    BY <1>2 DEF Price
  <2> QED BY <1>2, <2>1
<1>4. AccountRec(a) /\ GoodPos(a.pos) /\ a.cash \in Int /\ a.realized \in Int
  BY DEF BrokerBooks
<1>5. /\ PosRec(a.pos) /\ a.pos.qty \in Nat \ {0} /\ a.pos.cost \in Nat /\ a.pos.fees \in Nat
      /\ a.pos.funding \in Int /\ a.pos.funded \in Nat
  BY <1>2, <1>4 DEF GoodPos
<1>6. Sell(a, l) = n
  BY DEF Sell, Sold, BrokerRest
<1>7. /\ cost \in Nat /\ cost <= a.pos.cost
      /\ fees \in Nat /\ fees <= a.pos.fees /\ funding \in Int
  BY <1>2, <1>5, Share, IntShare
<1>8. l.qty = a.pos.qty => cost = a.pos.cost /\ fees = a.pos.fees /\ funding = a.pos.funding
  BY <1>5, Whole
<1> HIDE DEF part, cost, fees, funding, proceeds, cash, gain
<1>9. /\ PosRec(rest) /\ rest.qty = x1 /\ rest.cost = x2 /\ rest.fees = x3 /\ rest.funding = x4
      /\ rest.funded = a.pos.funded
  <2> HIDE DEF x1, x2, x3, x4
  <2> QED BY <1>5, WriteRest
<1> HIDE DEF rest
<1>17. GoodPos(q) /\ q.cost + q.fees + q.funding
         = a.pos.cost + a.pos.fees + a.pos.funding - cost - fees - funding
  <2>1. CASE l.qty = a.pos.qty
    <3>1. q = NoPosition
      BY <2>1
    <3>2. GoodPos(NoPosition) /\ NoPosition.cost = 0 /\ NoPosition.fees = 0 /\ NoPosition.funding = 0
      BY DEF NoPosition, GoodPos, PosRec
    <3> HIDE DEF q
    <3> QED BY <1>5, <1>8, <2>1, <3>1, <3>2
  <2>2. CASE l.qty # a.pos.qty
    <3>1. q = rest
      BY <2>2
    <3> HIDE DEF q
    <3>3. GoodPos(rest)
      BY <1>2, <1>5, <1>7, <1>9 DEF GoodPos
    <3> QED BY <1>5, <1>7, <1>9, <3>1, <3>3
  <2> QED BY <2>1, <2>2
<1> HIDE DEF q
<1>16. /\ AccountRec(n) /\ n.cash = cash /\ n.realized = gain
       /\ n.pos = q /\ n.fills = a.fills /\ n.ver = a.ver
  BY <1>4, WriteSell
<1> HIDE DEF n
<1>18. /\ n.cash = a.cash + proceeds /\ n.pos = q
       /\ n.realized = a.realized + proceeds - cost - fees - funding
       /\ n.fills = a.fills /\ n.ver = a.ver
  BY <1>16 DEF cash, gain
<1>19. InitialCash \in Int
         /\ a.cash + a.pos.cost + a.pos.fees + a.pos.funding = InitialCash + a.realized
  BY DEF BrokerConstants, BrokerBooks
<1>20. q.cost \in Int /\ q.fees \in Int /\ q.funding \in Int
  BY <1>17 DEF GoodPos
<1>21. n.cash + n.pos.cost + n.pos.fees + n.pos.funding = InitialCash + n.realized
  <2>2. /\ a.cash \in Int /\ proceeds \in Int /\ cost \in Int /\ fees \in Int /\ funding \in Int
        /\ a.realized \in Int
    BY <1>3, <1>4, <1>7
  <2>3. a.pos.cost \in Int /\ a.pos.fees \in Int /\ a.pos.funding \in Int
    BY <1>5
  <2>4. q.cost + q.fees + q.funding
            = a.pos.cost + a.pos.fees + a.pos.funding - cost - fees - funding
    BY <1>17
  <2>5. (a.cash + proceeds) + q.cost + q.fees + q.funding
            = InitialCash + (a.realized + proceeds - cost - fees - funding)
    <3>1. (a.cash + proceeds) + q.cost + q.fees + q.funding
              = (a.cash + proceeds) + (q.cost + q.fees + q.funding)
      BY <1>20, <2>2
    <3>2. (a.cash + proceeds)
              + (a.pos.cost + a.pos.fees + a.pos.funding - cost - fees - funding)
              = (a.cash + a.pos.cost + a.pos.fees + a.pos.funding)
                    + (proceeds - cost - fees - funding)
      BY <2>2, <2>3
    <3>3. (InitialCash + a.realized) + (proceeds - cost - fees - funding)
              = InitialCash + (a.realized + proceeds - cost - fees - funding)
      BY <1>19, <2>2
    <3> QED BY <1>19, <2>4, <3>1, <3>2, <3>3
  <2> QED BY <1>18, <2>5
<1>22. n.cash \in Int /\ n.realized \in Int
  BY <1>3, <1>4, <1>7, <1>18
<1>23. BrokerBooks(n)
  BY <1>16, <1>17, <1>18, <1>21, <1>22 DEF BrokerBooks
<1> QED BY <1>6, <1>18, <1>23

\* One more fill: kept as long as there is room, and otherwise the oldest goes.
LEMMA KeptFills ==
    ASSUME BrokerConstants, NEW fills \in Seq(Fills), Len(fills) <= MaximumFills, NEW F \in Fills
    PROVE  /\ Kept(Append(fills, F)) \in Seq(Fills)
           /\ Len(Kept(Append(fills, F))) <= MaximumFills
           /\ Len(Kept(Append(fills, F))) < MaximumFills =>
                  Kept(Append(fills, F)) = Append(fills, F) /\ Len(fills) < MaximumFills
<1> DEFINE more == Append(fills, F)
<1>1. MaximumFills \in Nat \ {0}
  BY DEF BrokerConstants
<1>2. more \in Seq(Fills) /\ Len(more) = Len(fills) + 1 /\ Len(fills) \in Nat
  OBVIOUS
<1> HIDE DEF more
<1>3. CASE Len(more) > MaximumFills
  <2>1. Kept(more) = SubSeq(more, Len(more) - MaximumFills + 1, Len(more))
    BY <1>3 DEF Kept
  <2>2. Len(more) = MaximumFills + 1
    BY <1>1, <1>2, <1>3
  <2>3. Kept(more) = SubSeq(more, 2, Len(more)) /\ Len(more) >= 2
    BY <1>1, <2>1, <2>2
  <2>4. Kept(more) \in Seq(Fills) /\ Len(Kept(more)) = MaximumFills
    BY <1>1, <1>2, <2>2, <2>3
  <2> QED BY <1>1, <2>4 DEF more
<1>4. CASE ~(Len(more) > MaximumFills)
  <2>1. Kept(more) = SubSeq(more, 1, Len(more))
    BY <1>4 DEF Kept
  <2>2. Kept(more) = more
    BY <1>2, <2>1
  <2> QED BY <1>1, <1>2, <1>4, <2>2 DEF more
<1> QED BY <1>3, <1>4

\* What is stored for an id after one more fill.
LEMMA StoredAppend ==
    ASSUME NEW fills \in Seq(Fills), NEW F \in Fills, NEW id
    PROVE  Stored(Append(fills, F), id)
               = Stored(fills, id) \union (IF F.id = id THEN {F} ELSE {})
<1>1. ToSet(Append(fills, F)) = ToSet(fills) \union {F}
  <2>1. /\ DOMAIN Append(fills, F) = 1..(Len(fills) + 1) /\ DOMAIN fills = 1..Len(fills)
        /\ Append(fills, F)[Len(fills) + 1] = F
        /\ \A i \in 1..Len(fills) : Append(fills, F)[i] = fills[i]
        /\ Len(fills) \in Nat
    OBVIOUS
  <2>2. 1..(Len(fills) + 1) = (1..Len(fills)) \union {Len(fills) + 1}
    BY <2>1
  <2> HIDE DEF Fills
  <2>3. ASSUME NEW x \in ToSet(Append(fills, F)) PROVE x \in ToSet(fills) \union {F}
    <3>1. PICK i \in DOMAIN Append(fills, F) : x = Append(fills, F)[i]
      BY <2>3 DEF ToSet
    <3>2. CASE i = Len(fills) + 1
      BY <2>1, <3>1, <3>2
    <3>3. CASE i \in 1..Len(fills)
      BY <2>1, <3>1, <3>3 DEF ToSet
    <3> QED BY <2>1, <2>2, <3>1, <3>2, <3>3
  <2>4. ASSUME NEW x \in ToSet(fills) PROVE x \in ToSet(Append(fills, F))
    <3>1. PICK i \in 1..Len(fills) : x = fills[i]
      BY <2>1, <2>4 DEF ToSet
    <3>2. i \in 1..(Len(fills) + 1) /\ Append(fills, F)[i] = x
      BY <2>1, <2>2, <3>1
    <3> QED BY <2>1, <3>2 DEF ToSet
  <2>5. F \in ToSet(Append(fills, F))
    <3>1. Len(fills) + 1 \in 1..(Len(fills) + 1)
      BY <2>1
    <3> QED BY <2>1, <3>1 DEF ToSet
  <2> QED BY <2>3, <2>4, <2>5
<1> QED BY <1>1 DEF Stored

\* What a call makes of a good account it read is a good account, with its fill.
LEMMA ResultIsGood ==
    ASSUME BrokerConstants, NEW l, NEW a, GoodLocal(l, a), l.pc = "put", ~Raises(l)
    PROVE  /\ BrokerBooks(Result(l)) /\ Result(l).ver = l.seen.ver
           /\ l.call = "mark" => Result(l).fills = l.seen.fills
           /\ l.call = "execute" =>
                  /\ FillOf(l) \in Fills /\ FillOf(l).id = l.fill
                  /\ Result(l).fills = Kept(Append(l.seen.fills, FillOf(l)))
<1>1. /\ l.event \in Events /\ BrokerBooks(l.seen)
      /\ \/ l.call = "mark" /\ l.fill = "none"
         \/ /\ l.call = "execute" /\ l.fill \in FillIds /\ l.side \in {"buy", "sell"}
            /\ l.qty \in Nat \ {0}
  BY DEF GoodLocal, Good
<1> DEFINE f == Funded(l)
<1>2. BrokerBooks(f) /\ f.fills = l.seen.fills /\ f.ver = l.seen.ver
  BY <1>1, FundingKeepsBooks DEF Funded
<1> HIDE DEF f
<1>3. CASE l.call = "mark"
  <2>1. Result(l) = f
    BY <1>3 DEF Result, f
  <2> QED BY <1>2, <1>3, <2>1
<1>4. CASE l.call = "execute"
  <2> DEFINE b == IF l.side = "buy" THEN Buy(f, l) ELSE Sell(f, l)
             n == [b EXCEPT !.fills = Kept(Append(b.fills, FillOf(l)))]
  <2>1. Result(l) = n
    BY <1>4 DEF Result, f
  <2>2. Accepts(f, l)
    BY <1>4 DEF Raises, f
  <2>3. BrokerBooks(b) /\ b.fills = l.seen.fills /\ b.ver = l.seen.ver
    <3>1. CASE l.side = "buy"
      BY <1>1, <1>2, <1>4, <3>1, BuyKeepsBooks
    <3>2. CASE l.side # "buy"
      <4>1. l.qty <= f.pos.qty
        BY <2>2, <3>2 DEF Accepts
      <4> QED BY <1>1, <1>2, <1>4, <3>2, <4>1, SellKeepsBooks
    <3> QED BY <3>1, <3>2
  <2> HIDE DEF b
  <2>4. /\ AccountRec(n) /\ n.cash = b.cash /\ n.realized = b.realized /\ n.pos = b.pos
        /\ n.fills = Kept(Append(b.fills, FillOf(l))) /\ n.ver = b.ver
    <3>1. AccountRec(b)
      BY <2>3 DEF BrokerBooks
    <3> QED BY <3>1, WriteAccount
  <2> HIDE DEF n
  <2>5. BrokerBooks(n)
    BY <2>3, <2>4 DEF BrokerBooks
  <2>6. FillOf(l) \in Fills /\ FillOf(l).id = l.fill
    <3>1. l.event.mid \in Mids
      BY <1>1 DEF Events
    <3>2. Mids \subseteq Nat /\ Slip \in Nat
      BY DEF BrokerConstants
    <3>3. l.event.mid \in Nat
      BY <3>1, <3>2
    <3>4. Price(l.event, l.side) \in Int
      BY <3>2, <3>3 DEF Price
    <3> QED BY <1>1, <1>4, <3>4 DEF FillOf, Fills
  <2> QED BY <1>4, <2>1, <2>3, <2>4, <2>5, <2>6
<1> QED BY <1>1, <1>3, <1>4
----------------------------------------------------------------------------
\* A thread that is idle knows nothing.
LEMMA IdleIsGood == ASSUME BrokerConstants, NEW a PROVE GoodLocal(IdleThread, a)
<1>1. LocalRec(IdleThread) /\ IdleThread.pc = "idle" /\ IdleThread.tries = 0
  BY DEF IdleThread, LocalRec
<1> QED BY <1>1 DEF GoodLocal, BrokerConstants

\* A later version of the account leaves the others with what they read.
LEMMA LocalLater ==
    ASSUME NEW l, NEW a, NEW b, GoodLocal(l, a), a.ver \in Nat, b.ver = a.ver + 1
    PROVE  GoodLocal(l, b)
<1>1. l.pc = "put" => l.seen.ver <= b.ver /\ l.seen.ver # b.ver
  BY DEF GoodLocal, Good
<1> QED BY <1>1 DEF GoodLocal

\* One thread writes its locals.
LEMMA AtStep ==
    ASSUME at = [u \in Threads |-> at[u]], NEW t \in Threads, NEW x,
           at' = [at EXCEPT ![t] = x], GoodLocal(x, account'),
           \A u \in Threads : GoodLocal(at[u], account')
    PROVE  /\ at' = [u \in Threads |-> at'[u]]
           /\ \A u \in Threads : GoodLocal(at'[u], account')
  OBVIOUS

\* A step that leaves the account and the histories alone.
LEMMA SameBooks ==
    ASSUME BooksInv, UNCHANGED <<account, applied, answers>>
    PROVE  /\ Good(account)' /\ Remembered'
           /\ \A u \in Threads : GoodLocal(at[u], account')
           /\ (applied = [f \in FillIds |-> applied[f]])'
           /\ (answers = [f \in FillIds |-> answers[f]])'
  BY DEF BooksInv, Remembered

----------------------------------------------------------------------------
\* What a thread writes after a read, and after a conflict.
Taken(l, a) == [l EXCEPT !.pc = "put", !.seen = a]
Again(l) == [l EXCEPT !.pc = "read", !.seen = <<>>, !.tries = l.tries + 1]
Execution(l, f, s, q, e) == [l EXCEPT !.pc = "read", !.call = "execute", !.fill = f,
                                      !.side = s, !.qty = q, !.event = e]
Marking(l, e) == [l EXCEPT !.pc = "read", !.call = "mark", !.event = e]

\* A call writes its arguments,
LEMMA WriteExecution ==
    ASSUME NEW l, LocalRec(l), NEW f, NEW s, NEW q, NEW e, NEW n, n = Execution(l, f, s, q, e)
    PROVE  /\ LocalRec(n) /\ n.pc = "read" /\ n.call = "execute" /\ n.fill = f
           /\ n.side = s /\ n.qty = q /\ n.event = e /\ n.tries = l.tries
  BY DEF LocalRec, Execution

\* a mark its event,
LEMMA WriteMarking ==
    ASSUME NEW l, LocalRec(l), NEW e, NEW n, n = Marking(l, e)
    PROVE  /\ LocalRec(n) /\ n.pc = "read" /\ n.call = "mark" /\ n.fill = l.fill
           /\ n.event = e /\ n.tries = l.tries
  BY DEF LocalRec, Marking

\* The read changes where the thread is and the copy it works on,
LEMMA WriteTaken ==
    ASSUME NEW l, LocalRec(l), NEW a, NEW n, n = Taken(l, a)
    PROVE  /\ LocalRec(n) /\ n.pc = "put" /\ n.call = l.call /\ n.fill = l.fill
           /\ n.side = l.side /\ n.qty = l.qty /\ n.event = l.event /\ n.seen = a
           /\ n.tries = l.tries
  BY DEF LocalRec, Taken

\* the conflict gives the copy up and counts.
LEMMA WriteAgain ==
    ASSUME NEW l, LocalRec(l), NEW n, n = Again(l)
    PROVE  /\ LocalRec(n) /\ n.pc = "read" /\ n.call = l.call /\ n.fill = l.fill
           /\ n.side = l.side /\ n.qty = l.qty /\ n.event = l.event
           /\ n.tries = l.tries + 1
  BY DEF LocalRec, Again

\* A call begins: its arguments are in the thread's locals, and nothing is read.
LEMMA BeginIsGood ==
    ASSUME BrokerConstants, NEW a, NEW l, LocalRec(l), l.pc = "read", l.tries = 0, l.event \in Events,
           \/ l.call = "mark" /\ l.fill = "none"
           \/ /\ l.call = "execute" /\ l.fill \in FillIds /\ l.side \in {"buy", "sell"}
              /\ l.qty \in Nat \ {0}
    PROVE  GoodLocal(l, a)
<1>1. 0 < Retries /\ l.tries \in Nat
  BY DEF BrokerConstants
<1> QED BY <1>1 DEF GoodLocal

\* execute takes a fill id, a side and a quantity,
LEMMA ExecuteBeginsKeeps ==
    ASSUME BrokerConstants, BooksInv, NEW t \in Threads, ExecuteBegins(t)
    PROVE  BooksInv'
<1>1. PICK f \in FillIds, s \in {"buy", "sell"}, q \in 1..MaxQuantity, e \in Events :
          at' = [at EXCEPT ![t] = [IdleThread EXCEPT !.pc = "read", !.call = "execute", !.fill = f,
                                               !.side = s, !.qty = q, !.event = e]]
  BY DEF ExecuteBegins
<1> DEFINE x == Execution(IdleThread, f, s, q, e)
<1>2. /\ LocalRec(x) /\ x.pc = "read" /\ x.call = "execute" /\ x.fill = f /\ x.side = s
      /\ x.qty = q /\ x.event = e /\ x.tries = 0
  <2>1. LocalRec(IdleThread) /\ IdleThread.tries = 0
    BY DEF IdleThread, LocalRec
  <2> QED BY <2>1, WriteExecution
<1>3. at' = [at EXCEPT ![t] = x]
  BY <1>1 DEF Execution
<1> HIDE DEF x
<1>4. q \in Nat \ {0}
  BY DEF BrokerConstants
<1>5. GoodLocal(x, account')
  BY <1>2, <1>4, BeginIsGood
<1>6. UNCHANGED <<account, applied, answers>>
  BY DEF ExecuteBegins
<1> QED BY <1>3, <1>5, <1>6, SameBooks, AtStep DEF BooksInv

\* mark only a market event.
LEMMA MarkBeginsKeeps ==
    ASSUME BrokerConstants, BooksInv, NEW t \in Threads, MarkBegins(t)
    PROVE  BooksInv'
<1>1. PICK e \in Events :
          at' = [at EXCEPT ![t] = [IdleThread EXCEPT !.pc = "read", !.call = "mark", !.event = e]]
  BY DEF MarkBegins
<1> DEFINE x == Marking(IdleThread, e)
<1>2. /\ LocalRec(x) /\ x.pc = "read" /\ x.call = "mark" /\ x.fill = "none"
      /\ x.event = e /\ x.tries = 0
  <2>1. LocalRec(IdleThread) /\ IdleThread.tries = 0 /\ IdleThread.fill = "none"
    BY DEF IdleThread, LocalRec
  <2> QED BY <2>1, WriteMarking
<1>3. at' = [at EXCEPT ![t] = x]
  BY <1>1 DEF Marking
<1> HIDE DEF x
<1>4. GoodLocal(x, account')
  BY <1>2, BeginIsGood
<1>5. UNCHANGED <<account, applied, answers>>
  BY DEF MarkBegins
<1> QED BY <1>3, <1>4, <1>5, SameBooks, AtStep DEF BooksInv

\* A stored fill is the answer; otherwise the thread works on what it read.
LEMMA ReadKeeps ==
    ASSUME BrokerConstants, BooksInv, NEW t \in Threads, Read(t)
    PROVE  BooksInv'
<1> DEFINE l == at[t]
           stored == Stored(account.fills, l.fill)
<1>1. GoodLocal(l, account) /\ l.pc = "read"
  BY DEF BooksInv, Read
<1>2. UNCHANGED <<account, applied>>
  BY DEF Read
<1>3. CASE Readable(account) /\ stored # {}
  <2>1. answers' = [answers EXCEPT ![l.fill] = answers[l.fill] \union stored]
        /\ at' = [at EXCEPT ![t] = IdleThread]
    BY <1>3 DEF Read
  <2>2. GoodLocal(IdleThread, account')
    BY IdleIsGood
  <2>3. /\ at' = [u \in Threads |-> at'[u]]
        /\ \A u \in Threads : GoodLocal(at'[u], account')
    BY <1>2, <2>1, <2>2, AtStep DEF BooksInv
  <2>4. (answers = [f \in FillIds |-> answers[f]])'
    BY <2>1 DEF BooksInv
  <2>5. Remembered'
    <3> SUFFICES ASSUME Len(account.fills) < MaximumFills, NEW f \in FillIds
                 PROVE  answers'[f] \subseteq Stored(account.fills, f)
      BY <1>2 DEF Remembered, BooksInv
    <3>1. answers[f] \subseteq Stored(account.fills, f)
      BY DEF BooksInv, Remembered
    <3>2. answers'[f] = IF f = l.fill THEN answers[f] \union stored ELSE answers[f]
      BY <2>1 DEF BooksInv
    <3> QED BY <3>1, <3>2
  <2> QED BY <1>2, <2>3, <2>4, <2>5 DEF BooksInv
<1>4. CASE ~(Readable(account) /\ stored # {})
  <2> DEFINE n == Taken(l, account)
             x == IF Readable(account) THEN n ELSE IdleThread
  <2>1. at' = [at EXCEPT ![t] = x] /\ UNCHANGED answers
    BY <1>4 DEF Read, Taken
  <2>2. GoodLocal(x, account)
    <3>1. CASE ~Readable(account)
      BY <3>1, IdleIsGood
    <3>2. CASE Readable(account)
      <4>1. /\ LocalRec(n) /\ n.pc = "put" /\ n.call = l.call /\ n.fill = l.fill
            /\ n.side = l.side /\ n.qty = l.qty /\ n.event = l.event /\ n.seen = account
            /\ n.tries = l.tries
        <5>1. LocalRec(l)
          BY <1>1 DEF GoodLocal
        <5> HIDE DEF l
        <5> QED BY <5>1, WriteTaken
      <4>2. stored = {}
        BY <1>4, <3>2
      <4> HIDE DEF n, l
      <4>3. Good(account) /\ account.ver \in Nat
        BY DEF BooksInv, Good
      <4>4. GoodLocal(n, account)
        BY <1>1, <4>1, <4>2, <4>3 DEF GoodLocal
      <4> QED BY <3>2, <4>4
    <3> QED BY <3>1, <3>2
  <2> HIDE DEF x
  <2> QED BY <1>2, <2>1, <2>2, SameBooks, AtStep DEF BooksInv
<1> QED BY <1>3, <1>4

\* A call that gives up or is refused forgets what it read.
LEMMA EndKeeps ==
    ASSUME BrokerConstants, BooksInv, NEW t \in Threads, at' = [at EXCEPT ![t] = IdleThread],
           UNCHANGED <<account, applied, answers>>
    PROVE  BooksInv'
<1>1. GoodLocal(IdleThread, account')
  BY IdleIsGood
<1> QED BY <1>1, SameBooks, AtStep DEF BooksInv

\* After a conflict the account is read again, or the call gives up.
LEMMA PutConflictsKeeps ==
    ASSUME BrokerConstants, BooksInv, NEW t \in Threads, PutConflicts(t)
    PROVE  BooksInv'
<1> DEFINE l == at[t]
           n == Again(l)
<1>1. GoodLocal(l, account) /\ l.pc = "put" /\ UNCHANGED <<account, applied, answers>>
  BY DEF BooksInv, PutConflicts
<1>2. CASE l.tries + 1 < Retries
  <2>1. at' = [at EXCEPT ![t] = n]
    BY <1>2 DEF PutConflicts, Again
  <2>2. /\ LocalRec(n) /\ n.pc = "read" /\ n.call = l.call /\ n.fill = l.fill
        /\ n.side = l.side /\ n.qty = l.qty /\ n.event = l.event
        /\ n.tries = l.tries + 1
    <3>1. LocalRec(l)
      BY <1>1 DEF GoodLocal
    <3> HIDE DEF l
    <3> QED BY <3>1, WriteAgain
  <2> HIDE DEF n, l
  <2>3. l.tries + 1 \in Nat
    BY <1>1 DEF GoodLocal
  <2>4. GoodLocal(n, account)
    BY <1>1, <1>2, <2>2, <2>3 DEF GoodLocal
  <2> QED BY <1>1, <2>1, <2>4, SameBooks, AtStep DEF BooksInv
<1>3. CASE ~(l.tries + 1 < Retries)
  <2>1. at' = [at EXCEPT ![t] = IdleThread]
    BY <1>3 DEF PutConflicts
  <2> QED BY <1>1, <2>1, EndKeeps
<1> QED BY <1>2, <1>3

\* The put: the account is the one that was read, so its fill is new.
LEMMA PutKeeps ==
    ASSUME BrokerConstants, BooksInv, NEW t \in Threads, Put(t)
    PROVE  BooksInv'
<1> DEFINE l == at[t]
           r == Result(l)
           F == FillOf(l)
<1>1. /\ GoodLocal(l, account) /\ l.pc = "put" /\ ~Raises(l) /\ account.ver = l.seen.ver
      /\ account' = [r EXCEPT !.ver = r.ver + 1] /\ at' = [at EXCEPT ![t] = IdleThread]
  BY DEF BooksInv, Put
<1>2. /\ l.seen = account /\ Stored(account.fills, l.fill) = {}
      /\ Good(account) /\ account.ver \in Nat
      /\ \/ l.call = "mark"
         \/ l.call = "execute" /\ l.fill \in FillIds
  BY <1>1 DEF GoodLocal, Good
<1>3. /\ BrokerBooks(r) /\ r.ver = account.ver
      /\ l.call = "mark" => r.fills = account.fills
      /\ l.call = "execute" => /\ F \in Fills /\ F.id = l.fill
                               /\ r.fills = Kept(Append(account.fills, F))
  BY <1>1, <1>2, ResultIsGood
<1>4. IF l.call = "execute"
      THEN /\ applied' = [applied EXCEPT ![l.fill] = applied[l.fill] + 1]
           /\ answers' = [answers EXCEPT ![l.fill] = answers[l.fill] \union {F}]
      ELSE UNCHANGED <<applied, answers>>
  BY DEF Put
<1>5. \A u \in Threads : GoodLocal(at[u], account)
  BY DEF BooksInv
<1> HIDE DEF l, r, F
<1>6. /\ AccountRec(account') /\ account'.cash = r.cash /\ account'.realized = r.realized
      /\ account'.pos = r.pos /\ account'.fills = r.fills /\ account'.ver = account.ver + 1
  <2>1. AccountRec(r)
    BY <1>3 DEF BrokerBooks
  <2> QED BY <1>1, <1>3, <2>1, WriteAccount
<1>7. r.fills \in Seq(Fills) /\ Len(r.fills) <= MaximumFills
  BY <1>2, <1>3, KeptFills DEF Good
<1>8. Good(account)'
  <2>1. BrokerBooks(account')
    BY <1>3, <1>6 DEF BrokerBooks
  <2> QED BY <1>2, <1>6, <1>7, <2>1 DEF Good
<1>9. \A u \in Threads : GoodLocal(at[u], account')
  BY <1>2, <1>5, <1>6, LocalLater
<1>10. /\ at' = [u \in Threads |-> at'[u]]
       /\ \A u \in Threads : GoodLocal(at'[u], account')
  BY <1>1, <1>9, IdleIsGood, AtStep DEF BooksInv
<1>11. /\ (applied = [f \in FillIds |-> applied[f]])'
       /\ (answers = [f \in FillIds |-> answers[f]])'
  BY <1>4 DEF BooksInv
<1>12. Remembered'
  <2>1. CASE l.call = "mark"
    BY <1>3, <1>4, <1>6, <2>1 DEF BooksInv, Remembered
  <2>2. CASE l.call = "execute"
    <3> SUFFICES ASSUME Len(account'.fills) < MaximumFills, NEW f \in FillIds
                 PROVE  /\ \A x, y \in Stored(account'.fills, f) : x = y
                        /\ answers'[f] \subseteq Stored(account'.fills, f)
                        /\ applied'[f] = (IF Stored(account'.fills, f) = {} THEN 0 ELSE 1)
      BY DEF Remembered
    <3>1. account'.fills = Append(account.fills, F) /\ Len(account.fills) < MaximumFills
      BY <1>2, <1>3, <1>6, <2>2, KeptFills DEF Good
    <3>2. Stored(account'.fills, f)
              = Stored(account.fills, f) \union (IF l.fill = f THEN {F} ELSE {})
      BY <1>2, <1>3, <2>2, <3>1, StoredAppend DEF Good
    <3>3. /\ \A x, y \in Stored(account.fills, f) : x = y
          /\ answers[f] \subseteq Stored(account.fills, f)
          /\ applied[f] = (IF Stored(account.fills, f) = {} THEN 0 ELSE 1)
      BY <3>1 DEF BooksInv, Remembered
    <3>4. /\ applied'[f] = IF f = l.fill THEN applied[f] + 1 ELSE applied[f]
          /\ answers'[f] = IF f = l.fill THEN answers[f] \union {F} ELSE answers[f]
      BY <1>4, <2>2 DEF BooksInv
    <3>5. CASE f = l.fill
      BY <1>2, <3>2, <3>3, <3>4, <3>5
    <3>6. CASE f # l.fill
      BY <3>2, <3>3, <3>4, <3>6
    <3> QED BY <3>5, <3>6
  <2> QED BY <1>2, <2>1, <2>2
<1> QED BY <1>8, <1>10, <1>11, <1>12 DEF BooksInv
----------------------------------------------------------------------------
\* The account starts with its cash, and every thread is idle.
LEMMA BooksStart == ASSUME BrokerConstants, BrokerInit PROVE BooksInv
<1>1. /\ account = [cash |-> InitialCash, realized |-> 0, pos |-> NoPosition, fills |-> <<>>, ver |-> 1]
      /\ at = [t \in Threads |-> IdleThread]
      /\ applied = [f \in FillIds |-> 0] /\ answers = [f \in FillIds |-> {}]
  BY DEF BrokerInit
<1>2. GoodPos(NoPosition) /\ NoPosition.cost = 0 /\ NoPosition.fees = 0 /\ NoPosition.funding = 0
  BY DEF NoPosition, GoodPos, PosRec
<1>3. /\ AccountRec(account) /\ account.cash = InitialCash /\ account.realized = 0
      /\ account.pos = NoPosition /\ account.fills = <<>> /\ account.ver = 1
  BY <1>1 DEF AccountRec
<1>4. InitialCash \in Int /\ MaximumFills \in Nat
  BY DEF BrokerConstants
<1>5. BrokerBooks(account)
  BY <1>2, <1>3, <1>4 DEF BrokerBooks
<1>6. Good(account)
  BY <1>3, <1>4, <1>5 DEF Good
<1>7. \A f : Stored(account.fills, f) = {}
  BY <1>3 DEF Stored, ToSet
<1>8. Remembered
  BY <1>1, <1>7 DEF Remembered
<1>9. \A t \in Threads : GoodLocal(at[t], account)
  BY <1>1, IdleIsGood
<1> QED BY <1>1, <1>6, <1>8, <1>9 DEF BooksInv

\* A set whose members are all equal has at most one.
LEMMA OneAnswer ==
    ASSUME NEW S, \A x, y \in S : x = y
    PROVE  Cardinality(S) <= 1
<1>1. CASE S = {}
  BY <1>1, FS_EmptySet
<1>2. CASE S # {}
  <2>1. PICK x : x \in S
    BY <1>2
  <2>2. S = {x}
    BY <2>1
  <2> QED BY <2>2, FS_Singleton
<1> QED BY <1>1, <1>2

\* The inductive invariant says what the broker promises.
LEMMA BooksInvIsExact == ASSUME BrokerConstants, BooksInv PROVE BooksAreExact
<1>1. Good(account) /\ BrokerBooks(account) /\ GoodPos(account.pos)
  BY DEF BooksInv, Good, BrokerBooks
<1>2. \A t \in Threads : at[t].tries < Retries
  BY DEF BooksInv, GoodLocal
<1>3. BrokerTypeOK
  BY <1>1, <1>2 DEF BrokerTypeOK, Good, BrokerBooks, GoodPos
<1>4. BooksBalance
  BY <1>1 DEF BooksBalance, BrokerBooks
<1>5. ASSUME Len(account.fills) < MaximumFills PROVE AppliedOnce
  BY <1>5 DEF BooksInv, Remembered, AppliedOnce
<1>6. ASSUME Len(account.fills) < MaximumFills PROVE AnswersAgree
  <2> SUFFICES ASSUME NEW f \in FillIds PROVE Cardinality(answers[f]) <= 1
    <3>1. \A S : Cardinality(S) = Cardinality(S)
      BY DEF Cardinality, Cardinality
    <3> QED BY <3>1 DEF AnswersAgree
  <2>1. \A x, y \in answers[f] : x = y
    BY <1>6 DEF BooksInv, Remembered
  <2> QED BY <2>1, OneAnswer
<1> QED BY <1>3, <1>4, <1>5, <1>6 DEF BooksAreExact

\* The books of the paper broker balance, a fill id is applied once and answered
\* with one fill as long as its fill is in the history, for any threads and prices.
THEOREM BooksAreExactHolds == ASSUME BrokerConstants PROVE BrokerSpec => []BooksAreExact
<1>1. BrokerInit => BooksInv
  BY BooksStart
<1>2. BooksInv /\ [BrokerNext]_(brokerVars) => BooksInv'
  <2> SUFFICES ASSUME BooksInv, [BrokerNext]_(brokerVars) PROVE BooksInv'
    OBVIOUS
  <2>1. CASE UNCHANGED brokerVars
    BY <2>1 DEF brokerVars, BooksInv, Remembered
  <2>2. CASE BrokerNext
    <3>1. PICK t \in Threads :
              \/ ExecuteBegins(t) \/ MarkBegins(t) \/ Read(t)
              \/ Put(t) \/ PutConflicts(t) \/ Refuses(t)
      BY <2>2 DEF BrokerNext
    <3>2. CASE Refuses(t)
      BY <3>2, EndKeeps DEF Refuses
    <3> QED BY <3>1, <3>2, ExecuteBeginsKeeps, MarkBeginsKeeps, ReadKeeps, PutKeeps,
       PutConflictsKeeps
  <2> QED BY <2>1, <2>2
<1>3. BooksInv => BooksAreExact
  BY BooksInvIsExact
<1> QED BY <1>1, <1>2, <1>3, PTL DEF BrokerSpec

(* Experiments, their promotion and the champion of a scope.               *)

\* What an experiment, the leadership document and an operation can be.
Reports == [basis : SUBSET (1 .. Results), eligible : BOOLEAN]
Documents ==
    [status : Completed \union {"none", "created", "running", "failed"},
     res : SUBSET (0 .. Results), report : Reports \union {Missing},
     approved : BOOLEAN]
Leaderships ==
    [champion : Experiments \union {Missing},
     entry : [Experiments -> {"none", "active", "champion", "retired"}]]
Works == [kind : OnExperiment \union Leading \union {"free"},
          e : Experiments \union {Missing}, step : Nat, fresh : BOOLEAN,
          seen : Documents \union Leaderships \union {Missing}]

\* What a document says is true: its results are stored; it is completed with
\* all of them, and judged once it is; an eligible report is about the results
\* it still has.
WellEarned(e, d, stored) ==
    /\ \A n \in d.res \ {0} : <<e, n>> \in stored
    /\ d.status \in Completed => 1 .. Results \subseteq d.res
    /\ d.report # Missing => d.status \in Completed
    /\ d.report # Missing /\ d.report.eligible => d.report.basis = d.res \ {0}
    /\ d.status = "promoted" =>
           d.approved /\ d.report # Missing /\ d.report.eligible
    /\ d.approved => d.status = "promoted"

\* What the runner knows of its experiment at each step: result n is stored
\* after step 2n and recorded after step 2n + 1.
RunKnows(o, docs, stored) ==
    /\ o.step <= 2 * Results + 2
    /\ \A n \in 1 .. Results : o.step = 2 * n + 1 => <<o.e, n>> \in stored
    /\ o.fresh /\ o.step >= 2 =>
           /\ docs[o.e].status \in {"created", "running"}
           /\ \A n \in 1 .. Results : 2 * n + 2 <= o.step => n \in docs[o.e].res

\* What is read and still fresh is what is written over.
WorkOk(o, docs, stored, l) ==
    /\ o.kind # "free" => o.e \in Experiments
    /\ o.kind \in OnExperiment /\ o.step = 1 /\ o.fresh => o.seen = docs[o.e]
    /\ o.kind = "run" => RunKnows(o, docs, stored)
    /\ o.kind \in Leading /\ o.step = 2 /\ o.fresh => o.seen = l

\* The invariant.
ExperimentInv ==
    /\ exp \in [Experiments -> Documents]
    /\ immut \subseteq Experiments \X (1 .. Results)
    /\ lead \in Leaderships
    /\ op \in [Workers -> Works]
    /\ \A e \in Experiments : WellEarned(e, exp[e], immut)
    /\ \A w \in Workers : WorkOk(op[w], exp, immut, lead)
    /\ OneChampion

ExperimentConstants ==
    /\ Missing \notin Experiments /\ Missing \notin Reports
    /\ Results \in Nat
    /\ Prepared \subseteq Experiments

\* Who is free promises nothing.
LEMMA FreeWorks ==
  Free \in Works /\ \A docs, stored, l : WorkOk(Free, docs, stored, l)
  BY DEF Free, Works, WorkOk, OnExperiment, Leading

\* An operation is the record of its fields.
LEMMA WorkRecord ==
  \A o \in Works : o = [kind |-> o.kind, e |-> o.e, step |-> o.step,
                        fresh |-> o.fresh, seen |-> o.seen]
  BY DEF Works

\* A document is the record of its fields.
LEMMA DocumentRecord ==
  \A d \in Documents : d = [status |-> d.status, res |-> d.res,
                            report |-> d.report, approved |-> d.approved]
  BY DEF Documents

\* What is stored stays stored, so that everything else keeps what it knows.
LEMMA StoredMore ==
  ASSUME NEW docs, NEW stored, NEW more, stored \subseteq more
  PROVE  /\ \A e, d : WellEarned(e, d, stored) => WellEarned(e, d, more)
         /\ \A o, l : WorkOk(o, docs, stored, l) => WorkOk(o, docs, more, l)
  <1>1. \A e, d : WellEarned(e, d, stored) => WellEarned(e, d, more)
    BY DEF WellEarned
  <1>2. \A o : RunKnows(o, docs, stored) => RunKnows(o, docs, more)
    BY DEF RunKnows
  <1>3. QED
    BY <1>1, <1>2 DEF WorkOk

\* A step that writes no document.
LEMMA WorkMoves ==
  ASSUME ExperimentInv, NEW w \in Workers, NEW next \in Works, OpGoes(w, next),
         UNCHANGED <<exp, lead>>, immut \subseteq immut',
         immut' \subseteq Experiments \X (1 .. Results),
         WorkOk(next, exp, immut', lead)
  PROVE  ExperimentInv' /\ SuccessionStep
  <1>1. op' \in [Workers -> Works]
        /\ \A v \in Workers : op'[v] = IF v = w THEN next ELSE op[v]
    BY DEF ExperimentInv, OpGoes
  <1>2. \A e \in Experiments : WellEarned(e, exp'[e], immut')
    BY StoredMore DEF ExperimentInv
  <1>3. \A v \in Workers : WorkOk(op'[v], exp', immut', lead')
    BY <1>1, StoredMore DEF ExperimentInv
  <1>4. OneChampion'
    BY DEF ExperimentInv, OneChampion
  <1>5. SuccessionStep
    BY DEF SuccessionStep
  <1>6. QED
    BY <1>1, <1>2, <1>3, <1>4, <1>5 DEF ExperimentInv

\* A stale operation is what it was, but not fresh; the others of an experiment
\* have nothing to do with it.
LEMMA StaleKnows ==
  ASSUME NEW docs, NEW stored, NEW l, NEW e \in Experiments, NEW d,
         NEW o \in Works, WorkOk(o, docs, stored, l), DOMAIN docs = Experiments
  PROVE  /\ Stale(o, e) \in Works
         /\ WorkOk(Stale(o, e), [docs EXCEPT ![e] = d], stored, l)
  <1>1. CASE o.kind \in OnExperiment /\ o.e = e
    <2>1. PICK s : s = Stale(o, e)
      OBVIOUS
    <2>0. o = [kind |-> o.kind, e |-> o.e, step |-> o.step, fresh |-> o.fresh,
               seen |-> o.seen]
      BY WorkRecord
    <2>2. s = [kind |-> o.kind, e |-> o.e, step |-> o.step, fresh |-> FALSE,
               seen |-> o.seen]
      BY <1>1, <2>0, <2>1, Zenon DEF Stale
    <2>3. s \in Works
      BY <2>2 DEF Works
    <2>4. WorkOk(s, [docs EXCEPT ![e] = d], stored, l)
      BY <1>1, <2>2 DEF WorkOk, RunKnows, OnExperiment, Leading
    <2>5. QED
      BY <2>1, <2>3, <2>4
  <1>2. CASE ~(o.kind \in OnExperiment /\ o.e = e)
    <2>1. Stale(o, e) = o
      BY <1>2 DEF Stale
    <2>2. o.kind \in OnExperiment => [docs EXCEPT ![e] = d][o.e] = docs[o.e]
      BY <1>2 DEF WorkOk, OnExperiment
    <2>3. WorkOk(o, [docs EXCEPT ![e] = d], stored, l)
      BY <2>2 DEF WorkOk, RunKnows, OnExperiment, Leading
    <2>4. QED
      BY <2>1, <2>3
  <1>3. QED
    BY <1>1, <1>2

\* A step that writes the document of an experiment.
LEMMA DocumentMoves ==
  ASSUME ExperimentInv, NEW w \in Workers, NEW e \in Experiments,
         NEW d \in Documents, NEW next \in Works, PutExperiment(w, e, d, next),
         UNCHANGED <<immut, lead>>, WellEarned(e, d, immut),
         WorkOk(next, [exp EXCEPT ![e] = d], immut, lead)
  PROVE  ExperimentInv' /\ SuccessionStep
  <1>1. exp' = [exp EXCEPT ![e] = d] /\ exp' \in [Experiments -> Documents]
    BY DEF ExperimentInv, PutExperiment
  <1>2. \A v \in Workers : op'[v] = IF v = w THEN next ELSE Stale(op[v], e)
    BY DEF PutExperiment
  <1>3. \A v \in Workers : /\ Stale(op[v], e) \in Works
                           /\ WorkOk(Stale(op[v], e), exp', immut, lead)
    BY <1>1, StaleKnows DEF ExperimentInv
  <1>4. op' \in [Workers -> Works]
    BY <1>2, <1>3 DEF PutExperiment
  <1>5. \A f \in Experiments : WellEarned(f, exp'[f], immut')
    BY <1>1 DEF ExperimentInv
  <1>6. \A v \in Workers : WorkOk(op'[v], exp', immut', lead')
    BY <1>1, <1>2, <1>3
  <1>7. OneChampion'
    BY DEF ExperimentInv, OneChampion
  <1>8. SuccessionStep
    BY DEF SuccessionStep
  <1>9. QED
    BY <1>1, <1>4, <1>5, <1>6, <1>7, <1>8 DEF ExperimentInv

\* A step that writes the leadership document.
LEMMA LeadMoves ==
  ASSUME ExperimentInv, NEW w \in Workers, NEW l \in Leaderships, PutLead(w, l),
         UNCHANGED <<exp, immut>>, OneChampion'
  PROVE  ExperimentInv'
  <1>1. ASSUME NEW v \in Workers
        PROVE  op'[v] \in Works /\ WorkOk(op'[v], exp', immut', lead')
    <2>1. op'[v] = IF v = w THEN Free
                   ELSE IF op[v].kind \in Leading
                        THEN [op[v] EXCEPT !.fresh = FALSE] ELSE op[v]
      BY DEF PutLead
    <2>2. op[v] \in Works /\ WorkOk(op[v], exp, immut, lead)
      BY DEF ExperimentInv
    <2>3. CASE v = w
      BY <2>1, <2>3, FreeWorks
    <2>4. CASE v # w /\ op[v].kind \in Leading
      <3>1. PICK o : o = op[v]
        OBVIOUS
      <3>2. PICK s : s = [o EXCEPT !.fresh = FALSE]
        OBVIOUS
      <3>0. o = [kind |-> o.kind, e |-> o.e, step |-> o.step,
                 fresh |-> o.fresh, seen |-> o.seen]
        BY <2>2, <3>1, WorkRecord
      <3>3. s = [kind |-> o.kind, e |-> o.e, step |-> o.step, fresh |-> FALSE,
                 seen |-> o.seen]
        BY <3>0, <3>2, Zenon
      <3>4. s \in Works /\ WorkOk(s, exp', immut', lead')
        BY <2>2, <2>4, <3>1, <3>3 DEF Works, WorkOk, OnExperiment, Leading
      <3>5. QED
        BY <2>1, <2>4, <3>1, <3>2, <3>4
    <2>5. CASE v # w /\ op[v].kind \notin Leading
      BY <2>1, <2>2, <2>5 DEF WorkOk
    <2>6. QED
      BY <2>3, <2>4, <2>5
  <1>2. op' \in [Workers -> Works]
    BY <1>1 DEF PutLead
  <1>3. QED
    BY <1>1, <1>2 DEF ExperimentInv, PutLead

\* An operation that starts has read its experiment; one that dies is free.
LEMMA BeginDieInv ==
  ASSUME ExperimentInv, ExperimentConstants, NEW w \in Workers, Begin(w) \/ Die(w)
  PROVE  ExperimentInv' /\ SuccessionStep
  <1>0. UNCHANGED <<exp, immut, lead>> /\ immut \subseteq Experiments \X (1 .. Results)
    BY DEF Begin, Die, ExperimentInv
  <1>1. CASE Begin(w)
    <2>1. PICK kind \in OnExperiment \union Leading, e \in Experiments :
              OpGoes(w, [kind |-> kind, e |-> e, step |-> 1, fresh |-> TRUE,
                         seen |-> exp[e]])
      BY <1>1 DEF Begin
    <2>2. PICK d : d = exp[e]
      OBVIOUS
    <2>3. PICK o : o = [kind |-> kind, e |-> e, step |-> 1, fresh |-> TRUE,
                        seen |-> d]
      OBVIOUS
    <2>4. o \in Works
      BY <2>2, <2>3 DEF Works, ExperimentInv
    <2>5. WorkOk(o, exp, immut, lead)
      BY <2>2, <2>3 DEF WorkOk, RunKnows, ExperimentConstants, OnExperiment, Leading
    <2>6. QED
      BY <1>0, <2>1, <2>2, <2>3, <2>4, <2>5, WorkMoves
  <1>2. CASE Die(w)
    BY <1>0, <1>2, FreeWorks, WorkMoves DEF Die
  <1>3. QED
    BY <1>1, <1>2

\* What is known of a worker that is doing something.
LEMMA WorkIsOk ==
  ASSUME ExperimentInv, NEW w \in Workers
  PROVE  op[w] \in Works /\ WorkOk(op[w], exp, immut, lead)
  BY DEF ExperimentInv

\* An operation that ends and writes nothing.
LEMMA WorkEnds ==
  ASSUME ExperimentInv, NEW w \in Workers, OpGoes(w, Free),
         UNCHANGED <<exp, immut, lead>>
  PROVE  ExperimentInv' /\ SuccessionStep
  BY FreeWorks, WorkMoves DEF ExperimentInv

\* A run that raises goes on to mark its experiment failed.
LEMMA RunEnds ==
  ASSUME ExperimentInv, ExperimentConstants, NEW w \in Workers, op[w].kind = "run",
         OpGoes(w, RunRaises(op[w])), UNCHANGED <<exp, immut, lead>>
  PROVE  ExperimentInv' /\ SuccessionStep
  <1>1. PICK o : o = op[w]
    OBVIOUS
  <1>2. PICK next : next = [o EXCEPT !.step = 0]
    OBVIOUS
  <1>3. o \in Works /\ WorkOk(o, exp, immut, lead) /\ o.kind = "run"
    BY <1>1, WorkIsOk
  <1>4. o = [kind |-> o.kind, e |-> o.e, step |-> o.step, fresh |-> o.fresh,
             seen |-> o.seen]
    BY <1>3, WorkRecord
  <1>5. next = [kind |-> o.kind, e |-> o.e, step |-> 0, fresh |-> o.fresh,
                seen |-> o.seen]
    BY <1>2, <1>4, Zenon
  <1>6. next \in Works /\ WorkOk(next, exp, immut', lead)
    BY <1>3, <1>5
       DEF Works, WorkOk, RunKnows, OnExperiment, Leading, ExperimentConstants
  <1>7. OpGoes(w, next)
    BY <1>1, <1>2 DEF RunRaises
  <1>8. QED
    BY <1>6, <1>7, WorkMoves DEF ExperimentInv

\* A new experiment has no results.
LEMMA CreateInv ==
  ASSUME ExperimentInv, ExperimentConstants, NEW w \in Workers, Create(w)
  PROVE  ExperimentInv' /\ SuccessionStep
  <1>1. PICK o : o = op[w]
    OBVIOUS
  <1>2. o \in Works /\ WorkOk(o, exp, immut, lead) /\ o.kind = "run" /\ o.step = 1
    BY <1>1, WorkIsOk DEF Create, At
  <1>3. CASE o.fresh
    <2>1. PICK d : d = [Absent EXCEPT !.status = "created"]
      OBVIOUS
    <2>2. d = [status |-> "created", res |-> {}, report |-> Missing,
               approved |-> FALSE]
      BY <2>1 DEF Absent
    <2>3. PICK next : next = [o EXCEPT !.step = 2]
      OBVIOUS
    <2>4. o = [kind |-> o.kind, e |-> o.e, step |-> o.step, fresh |-> o.fresh,
               seen |-> o.seen]
      BY <1>2, WorkRecord
    <2>5. next = [kind |-> o.kind, e |-> o.e, step |-> 2, fresh |-> o.fresh,
                  seen |-> o.seen]
      BY <2>3, <2>4, Zenon
    <2>6. PutExperiment(w, o.e, d, next) /\ UNCHANGED <<immut, lead>>
      BY <1>1, <1>3, <2>1, <2>3 DEF Create
    <2>7. o.e \in Experiments /\ d \in Documents /\ next \in Works
      BY <1>2, <2>2, <2>5 DEF WorkOk, Documents, Works
    <2>8. WellEarned(o.e, d, immut)
      BY <2>2 DEF WellEarned, Completed
    <2>9. WorkOk(next, [exp EXCEPT ![o.e] = d], immut, lead)
      <3>1. [exp EXCEPT ![o.e] = d][o.e] = d
        BY <2>7 DEF ExperimentInv
      <3>2. RunKnows(next, [exp EXCEPT ![o.e] = d], immut)
        BY <2>2, <2>5, <3>1 DEF RunKnows, ExperimentConstants
      <3>3. QED
        BY <1>2, <2>5, <2>7, <3>2 DEF WorkOk, OnExperiment, Leading
    <2>10. QED
      BY <2>6, <2>7, <2>8, <2>9, DocumentMoves
  <1>4. CASE ~o.fresh
    BY <1>1, <1>4, WorkEnds DEF Create
  <1>5. QED
    BY <1>3, <1>4

\* Half of an even or odd number.
LEMMA Halves ==
  \A s \in Nat : /\ s \div 2 \in Nat
                 /\ s % 2 = 0 => s = 2 * (s \div 2)
                 /\ s % 2 = 1 => s = 2 * (s \div 2) + 1
  OBVIOUS

\* A result is stored before it is recorded.
LEMMA SaveResultInv ==
  ASSUME ExperimentInv, ExperimentConstants, NEW w \in Workers, SaveResult(w)
  PROVE  ExperimentInv' /\ SuccessionStep
  <1>1. PICK o : o = op[w]
    OBVIOUS
  <1>2. PICK n : n = o.step \div 2
    OBVIOUS
  <1>3. o \in Works /\ WorkOk(o, exp, immut, lead) /\ o.kind = "run"
    BY <1>1, WorkIsOk DEF SaveResult
  <1>4. o.step \in Nat /\ o.e \in Experiments
    BY <1>3 DEF Works, WorkOk
  <1>5. o.step # 0 /\ o.step % 2 = 0 /\ n <= Results
    BY <1>1, <1>2 DEF SaveResult
  <1>6. n \in 1 .. Results /\ o.step = 2 * n
    BY <1>2, <1>4, <1>5, Halves DEF ExperimentConstants
  <1>7. CASE OpGoes(w, RunRaises(o)) /\ UNCHANGED immut
    BY <1>1, <1>3, <1>7, RunEnds DEF SaveResult
  <1>8. CASE /\ immut' = immut \union {<<o.e, n>>}
             /\ OpGoes(w, [o EXCEPT !.step = @ + 1])
    <2>1. PICK s : s = o.step + 1
      OBVIOUS
    <2>2. PICK next : next = [o EXCEPT !.step = s]
      OBVIOUS
    <2>3. o = [kind |-> o.kind, e |-> o.e, step |-> o.step, fresh |-> o.fresh,
               seen |-> o.seen]
      BY <1>3, WorkRecord
    <2>4. next = [kind |-> o.kind, e |-> o.e, step |-> s, fresh |-> o.fresh,
                  seen |-> o.seen]
      BY <2>2, <2>3, Zenon
    <2>5. OpGoes(w, next) /\ next \in Works
      BY <1>3, <1>4, <1>8, <2>1, <2>2, <2>4 DEF Works
    <2>6. immut' \subseteq Experiments \X (1 .. Results)
      BY <1>4, <1>6, <1>8 DEF ExperimentInv
    <2>7. RunKnows(next, exp, immut')
      <3>1. s = 2 * n + 1 /\ s <= 2 * Results + 2
        BY <1>6, <2>1 DEF ExperimentConstants
      <3>2. \A m \in 1 .. Results : s = 2 * m + 1 => m = n
        BY <1>6, <3>1
      <3>3. \A m \in 1 .. Results : 2 * m + 2 <= s => 2 * m + 2 <= o.step
        BY <1>6, <3>1
      <3>4. o.step >= 2
        BY <1>6
      <3>5. RunKnows(o, exp, immut)
        BY <1>3 DEF WorkOk
      <3>6. QED
        BY <1>8, <2>4, <3>1, <3>2, <3>3, <3>4, <3>5 DEF RunKnows
    <2>8. WorkOk(next, exp, immut', lead)
      <3>1. next.step # 1 /\ next.kind = "run" /\ next.e \in Experiments
        BY <1>3, <1>4, <1>6, <2>1, <2>4
      <3>2. QED
        BY <2>7, <3>1 DEF WorkOk, OnExperiment, Leading
    <2>9. QED
      BY <1>8, <2>5, <2>6, <2>8, WorkMoves DEF SaveResult
  <1>9. QED
    BY <1>1, <1>2, <1>7, <1>8 DEF SaveResult

\* A recorded result was stored, and its experiment is still running.
LEMMA RecordResultInv ==
  ASSUME ExperimentInv, ExperimentConstants, NEW w \in Workers, RecordResult(w)
  PROVE  ExperimentInv' /\ SuccessionStep
  <1>1. PICK o : o = op[w]
    OBVIOUS
  <1>2. PICK n : n = o.step \div 2
    OBVIOUS
  <1>3. o \in Works /\ WorkOk(o, exp, immut, lead) /\ o.kind = "run"
    BY <1>1, WorkIsOk DEF RecordResult
  <1>4. o.step \in Nat /\ o.e \in Experiments /\ RunKnows(o, exp, immut)
    BY <1>3 DEF Works, WorkOk
  <1>5. o.step # 1 /\ o.step % 2 = 1
    BY <1>1 DEF RecordResult
  <1>6. n \in 1 .. Results /\ o.step = 2 * n + 1
    BY <1>2, <1>4, <1>5, Halves DEF ExperimentConstants, RunKnows
  <1>7. CASE ~o.fresh
    BY <1>1, <1>3, <1>7, RunEnds DEF RecordResult
  <1>8. CASE o.fresh
    <2>0. PICK old : old = exp[o.e]
      OBVIOUS
    <2>1. PICK d : d = Recorded(old, n)
      OBVIOUS
    <2>2. old \in Documents /\ WellEarned(o.e, old, immut)
      BY <1>4, <2>0 DEF ExperimentInv
    <2>3. old.status \in {"created", "running"} /\ <<o.e, n>> \in immut
          /\ \A m \in 1 .. Results : 2 * m + 2 <= o.step => m \in old.res
      BY <1>4, <1>6, <1>8, <2>0 DEF RunKnows
    <2>4. d = [status |-> "running", res |-> old.res \union {n},
               report |-> old.report, approved |-> old.approved]
      BY <2>1, <2>2, <2>3 DEF Recorded, Documents
    <2>5. PICK s : s = o.step + 1
      OBVIOUS
    <2>6. PICK next : next = [o EXCEPT !.step = s]
      OBVIOUS
    <2>7. o = [kind |-> o.kind, e |-> o.e, step |-> o.step, fresh |-> o.fresh,
               seen |-> o.seen]
      BY <1>3, WorkRecord
    <2>8. next = [kind |-> o.kind, e |-> o.e, step |-> s, fresh |-> o.fresh,
                  seen |-> o.seen]
      BY <2>6, <2>7, Zenon
    <2>9. PutExperiment(w, o.e, d, next) /\ UNCHANGED <<immut, lead>>
      BY <1>1, <1>2, <1>8, <2>0, <2>1, <2>5, <2>6 DEF RecordResult
    <2>10. d \in Documents /\ next \in Works
      BY <1>3, <1>4, <1>6, <2>2, <2>4, <2>5, <2>8
         DEF Documents, Works, ExperimentConstants
    <2>11. WellEarned(o.e, d, immut)
      BY <2>2, <2>3, <2>4 DEF WellEarned, Completed
    <2>12. RunKnows(next, [exp EXCEPT ![o.e] = d], immut)
      <3>1. [exp EXCEPT ![o.e] = d][o.e] = d
        BY <1>4 DEF ExperimentInv
      <3>2. s = 2 * n + 2 /\ s <= 2 * Results + 2
            /\ \A m \in 1 .. Results : s # 2 * m + 1
        BY <1>6, <2>5 DEF ExperimentConstants
      <3>3. \A m \in 1 .. Results : 2 * m + 2 <= s => m = n \/ 2 * m + 2 <= o.step
        BY <1>6, <3>2
      <3>4. QED
        BY <2>3, <2>4, <2>8, <3>1, <3>2, <3>3 DEF RunKnows
    <2>13. WorkOk(next, [exp EXCEPT ![o.e] = d], immut, lead)
      <3>1. next.step # 1 /\ next.kind = "run" /\ next.e \in Experiments
        BY <1>3, <1>4, <1>6, <2>5, <2>8
      <3>2. QED
        BY <2>12, <3>1 DEF WorkOk, OnExperiment, Leading
    <2>14. QED
      BY <1>4, <2>9, <2>10, <2>11, <2>13, DocumentMoves
  <1>9. QED
    BY <1>7, <1>8

\* A run completes with every result.
LEMMA CompleteInv ==
  ASSUME ExperimentInv, ExperimentConstants, NEW w \in Workers, CompleteRun(w)
  PROVE  ExperimentInv' /\ SuccessionStep
  <1>1. PICK o : o = op[w]
    OBVIOUS
  <1>2. o \in Works /\ WorkOk(o, exp, immut, lead) /\ o.kind = "run"
        /\ o.step = 2 * Results + 2
    BY <1>1, WorkIsOk DEF CompleteRun, At
  <1>3. CASE ~o.fresh
    BY <1>1, <1>2, <1>3, RunEnds DEF CompleteRun
  <1>4. CASE o.fresh
    <2>1. PICK old : old = exp[o.e]
      OBVIOUS
    <2>2. PICK d : d = [old EXCEPT !.status = "completed"]
      OBVIOUS
    <2>3. o.e \in Experiments /\ old \in Documents /\ WellEarned(o.e, old, immut)
      BY <1>2, <2>1 DEF WorkOk, ExperimentInv
    <2>4. old.status \in {"created", "running"} /\ 1 .. Results \subseteq old.res
      <3>1. 2 * Results + 2 >= 2
            /\ \A n \in 1 .. Results : 2 * n + 2 <= 2 * Results + 2
        BY DEF ExperimentConstants
      <3>2. QED
        BY <1>2, <1>4, <2>1, <3>1 DEF WorkOk, RunKnows
    <2>5. d = [status |-> "completed", res |-> old.res, report |-> old.report,
               approved |-> old.approved]
      BY <2>2, <2>3, DocumentRecord
    <2>6. d \in Documents /\ WellEarned(o.e, d, immut)
      BY <2>3, <2>4, <2>5 DEF Documents, WellEarned, Completed
    <2>7. PutExperiment(w, o.e, d, Free) /\ UNCHANGED <<immut, lead>>
      BY <1>1, <1>4, <2>1, <2>2 DEF CompleteRun
    <2>8. QED
      BY <2>3, <2>6, <2>7, FreeWorks, DocumentMoves
  <1>5. QED
    BY <1>3, <1>4

\* A failed run leaves what was stored; its experiment was never judged.
LEMMA RunFailsInv ==
  ASSUME ExperimentInv, NEW w \in Workers, RunFails(w)
  PROVE  ExperimentInv' /\ SuccessionStep
  <1>1. PICK o : o = op[w]
    OBVIOUS
  <1>2. o \in Works /\ WorkOk(o, exp, immut, lead) /\ o.kind = "run"
    BY <1>1, WorkIsOk DEF RunFails, At
  <1>3. CASE OpGoes(w, Free) /\ UNCHANGED exp
    BY <1>3, WorkEnds DEF RunFails
  <1>4. CASE /\ exp[o.e].status \in {"created", "running"}
             /\ PutExperiment(w, o.e, [exp[o.e] EXCEPT !.status = "failed"], Free)
    <2>1. PICK old : old = exp[o.e]
      OBVIOUS
    <2>2. PICK d : d = [old EXCEPT !.status = "failed"]
      OBVIOUS
    <2>3. o.e \in Experiments /\ old \in Documents /\ WellEarned(o.e, old, immut)
      BY <1>2, <2>1 DEF WorkOk, ExperimentInv
    <2>4. d = [status |-> "failed", res |-> old.res, report |-> old.report,
               approved |-> old.approved]
      BY <2>2, <2>3, DocumentRecord
    <2>5. d \in Documents /\ WellEarned(o.e, d, immut)
      BY <1>4, <2>1, <2>3, <2>4 DEF Documents, WellEarned, Completed
    <2>6. PutExperiment(w, o.e, d, Free) /\ UNCHANGED <<immut, lead>>
      BY <1>4, <2>1, <2>2 DEF RunFails
    <2>7. QED
      BY <2>3, <2>5, <2>6, FreeWorks, DocumentMoves
  <1>5. QED
    BY <1>1, <1>3, <1>4 DEF RunFails

\* A validation is attached to what is not promoted, and no gate counts it.
LEMMA AttachInv ==
  ASSUME ExperimentInv, ExperimentConstants, NEW w \in Workers, Attach(w)
  PROVE  ExperimentInv' /\ SuccessionStep
  <1>1. PICK o : o = op[w]
    OBVIOUS
  <1>2. o \in Works /\ WorkOk(o, exp, immut, lead) /\ o.kind = "attach"
    BY <1>1, WorkIsOk DEF Attach, At
  <1>3. CASE OpGoes(w, Free) /\ UNCHANGED exp
    BY <1>3, WorkEnds DEF Attach
  <1>4. CASE /\ o.fresh /\ exp[o.e].status # "promoted"
             /\ PutExperiment(w, o.e, Recorded(exp[o.e], 0), Free)
    <2>1. PICK old : old = exp[o.e]
      OBVIOUS
    <2>2. PICK d : d = Recorded(old, 0)
      OBVIOUS
    <2>3. o.e \in Experiments /\ old \in Documents /\ WellEarned(o.e, old, immut)
      BY <1>2, <2>1 DEF WorkOk, ExperimentInv
    <2>4. PICK x : x = IF old.status = "created" THEN "running" ELSE old.status
      OBVIOUS
    <2>5. d = [status |-> x, res |-> old.res \union {0}, report |-> old.report,
               approved |-> old.approved]
      BY <2>2, <2>3, <2>4 DEF Recorded, Documents
    <2>6. d \in Documents
      BY <2>3, <2>4, <2>5 DEF Documents, ExperimentConstants
    <2>7. d.res \ {0} = old.res \ {0}
      BY <2>5
    <2>8. WellEarned(o.e, d, immut)
      BY <1>4, <2>1, <2>3, <2>4, <2>5, <2>7 DEF WellEarned, Completed
    <2>9. PutExperiment(w, o.e, d, Free) /\ UNCHANGED <<immut, lead>>
      BY <1>4, <2>1, <2>2 DEF Attach
    <2>10. QED
      BY <2>3, <2>6, <2>8, <2>9, FreeWorks, DocumentMoves
  <1>5. QED
    BY <1>1, <1>3, <1>4 DEF Attach

\* A report is about the results that are there when it is written.
LEMMA SaveReportInv ==
  ASSUME ExperimentInv, ExperimentConstants, NEW w \in Workers, SaveReport(w)
  PROVE  ExperimentInv' /\ SuccessionStep
  <1>1. PICK o : o = op[w]
    OBVIOUS
  <1>2. o \in Works /\ WorkOk(o, exp, immut, lead) /\ o.kind = "report"
        /\ o.step = 1
    BY <1>1, WorkIsOk DEF SaveReport, At
  <1>3. CASE OpGoes(w, Free) /\ UNCHANGED exp
    BY <1>3, WorkEnds DEF SaveReport
  <1>4. ASSUME NEW eligible \in {FALSE, Eligible(o.seen)}, o.fresh,
               o.seen.status \in {"completed", "rejected", "promotion_pending"},
               PutExperiment(w, o.e, [o.seen EXCEPT
                   !.status = IF eligible THEN "promotion_pending"
                              ELSE "completed",
                   !.report = Report(o.seen.res \ {0}, eligible),
                   !.approved = FALSE], Free)
        PROVE  ExperimentInv' /\ SuccessionStep
    <2>1. PICK old : old = exp[o.e]
      OBVIOUS
    <2>2. PICK x : x = IF eligible THEN "promotion_pending" ELSE "completed"
      OBVIOUS
    <2>3. PICK r : r = Report(old.res \ {0}, eligible)
      OBVIOUS
    <2>4. PICK d : d = [old EXCEPT !.status = x, !.report = r, !.approved = FALSE]
      OBVIOUS
    <2>5. o.e \in Experiments /\ old \in Documents /\ WellEarned(o.e, old, immut)
      BY <1>2, <2>1 DEF WorkOk, ExperimentInv
    <2>6. o.seen = old
      BY <1>2, <1>4, <2>1 DEF WorkOk, OnExperiment
    <2>7. old = [status |-> old.status, res |-> old.res, report |-> old.report,
                 approved |-> old.approved]
      BY <2>5, DocumentRecord
    <2>8. d = [status |-> x, res |-> old.res, report |-> r, approved |-> FALSE]
      BY <2>4, <2>7, Zenon
    <2>9. r \in Reports
      <3>1. eligible \in BOOLEAN
        BY <1>4 DEF Eligible
      <3>2. old.res \ {0} \subseteq 1 .. Results
        BY <2>5 DEF Documents, ExperimentConstants
      <3>3. QED
        BY <2>3, <3>1, <3>2 DEF Report, Reports
    <2>10. d \in Documents
      BY <2>2, <2>5, <2>8, <2>9 DEF Documents, Completed
    <2>11. WellEarned(o.e, d, immut)
      BY <1>4, <2>2, <2>3, <2>5, <2>6, <2>8 DEF WellEarned, Completed, Report
    <2>12. PutExperiment(w, o.e, d, Free) /\ UNCHANGED <<immut, lead>>
      BY <1>4, <2>2, <2>3, <2>4, <2>6 DEF SaveReport
    <2>13. QED
      BY <2>5, <2>10, <2>11, <2>12, FreeWorks, DocumentMoves
  <1>5. QED
    BY <1>1, <1>3, <1>4 DEF SaveReport

\* Who approves has a report that is eligible; the status follows the decision.
LEMMA DecideInv ==
  ASSUME ExperimentInv, ExperimentConstants, NEW w \in Workers, Decide(w)
  PROVE  ExperimentInv' /\ SuccessionStep
  <1>1. PICK o : o = op[w]
    OBVIOUS
  <1>2. o \in Works /\ WorkOk(o, exp, immut, lead)
        /\ o.kind \in {"approve", "reject"}
    BY <1>1, WorkIsOk DEF Decide
  <1>3. CASE OpGoes(w, Free) /\ UNCHANGED exp
    BY <1>3, WorkEnds DEF Decide
  <1>4. CASE ~(OpGoes(w, Free) /\ UNCHANGED exp)
    <2>0. PICK old : old = exp[o.e]
      OBVIOUS
    <2>1. PICK yes \in BOOLEAN : yes <=> o.kind = "approve"
      OBVIOUS
    <2>2. PICK x : x = IF yes THEN "promoted" ELSE "rejected"
      OBVIOUS
    <2>3. PICK d : d = [old EXCEPT !.status = x, !.approved = yes]
      OBVIOUS
    <2>4. PICK after : after = [o EXCEPT !.step = 2]
      OBVIOUS
    <2>5. PICK next : next = IF yes THEN after ELSE Free
      OBVIOUS
    <2>6. o.e \in Experiments /\ old \in Documents /\ WellEarned(o.e, old, immut)
      BY <1>2, <2>0 DEF WorkOk, ExperimentInv
    <2>7. yes = (o.kind = "approve")
      BY <2>1
    <2>8. old.report # Missing /\ (yes => old.report.eligible)
          /\ PutExperiment(w, o.e, d, next) /\ UNCHANGED <<immut, lead>>
      BY <1>1, <1>4, <2>0, <2>2, <2>3, <2>4, <2>5, <2>7 DEF Decide
    <2>9. old = [status |-> old.status, res |-> old.res, report |-> old.report,
                 approved |-> old.approved]
      BY <2>6, DocumentRecord
    <2>10. d = [status |-> x, res |-> old.res, report |-> old.report,
                approved |-> yes]
      BY <2>3, <2>9, Zenon
    <2>11. d \in Documents /\ WellEarned(o.e, d, immut)
      BY <2>2, <2>6, <2>8, <2>10 DEF Documents, WellEarned, Completed
    <2>12. o = [kind |-> o.kind, e |-> o.e, step |-> o.step, fresh |-> o.fresh,
                seen |-> o.seen]
      BY <1>2, WorkRecord
    <2>13. after = [kind |-> o.kind, e |-> o.e, step |-> 2, fresh |-> o.fresh,
                    seen |-> o.seen]
      BY <2>4, <2>12, Zenon
    <2>14. after \in Works /\ WorkOk(after, [exp EXCEPT ![o.e] = d], immut, lead)
      BY <1>2, <2>6, <2>13 DEF Works, WorkOk, OnExperiment, Leading
    <2>15. next \in Works /\ WorkOk(next, [exp EXCEPT ![o.e] = d], immut, lead)
      BY <2>5, <2>14, FreeWorks
    <2>16. QED
      BY <2>6, <2>8, <2>11, <2>15, DocumentMoves
  <1>5. QED
    BY <1>3, <1>4

\* The event of a decision is a write beside the documents.
LEMMA DecisionEventInv ==
  ASSUME ExperimentInv, NEW w \in Workers, DecisionEvent(w)
  PROVE  ExperimentInv' /\ SuccessionStep
  BY WorkEnds DEF DecisionEvent

\* Who may lead reads the leadership document before it writes it.
LEMMA ReadLeadInv ==
  ASSUME ExperimentInv, NEW w \in Workers, ReadLead(w)
  PROVE  ExperimentInv' /\ SuccessionStep
  <1>1. PICK o : o = op[w]
    OBVIOUS
  <1>2. o \in Works /\ WorkOk(o, exp, immut, lead) /\ o.kind \in Leading
    BY <1>1, WorkIsOk DEF ReadLead
  <1>3. CASE OpGoes(w, Free)
    BY <1>3, WorkEnds DEF ReadLead
  <1>4. CASE OpGoes(w, [o EXCEPT !.step = 2, !.fresh = TRUE, !.seen = lead])
    <2>1. PICK l : l = lead
      OBVIOUS
    <2>2. PICK next : next = [o EXCEPT !.step = 2, !.fresh = TRUE, !.seen = l]
      OBVIOUS
    <2>3. o = [kind |-> o.kind, e |-> o.e, step |-> o.step, fresh |-> o.fresh,
               seen |-> o.seen]
      BY <1>2, WorkRecord
    <2>4. next = [kind |-> o.kind, e |-> o.e, step |-> 2, fresh |-> TRUE,
                  seen |-> l]
      BY <2>2, <2>3, Zenon
    <2>5. next \in Works /\ WorkOk(next, exp, immut', lead)
      BY <1>2, <2>1, <2>4 DEF ExperimentInv, Works, WorkOk, OnExperiment, Leading
    <2>6. OpGoes(w, next)
      BY <1>4, <2>1, <2>2
    <2>7. QED
      BY <2>5, <2>6, WorkMoves DEF ExperimentInv, ReadLead
  <1>5. QED
    BY <1>1, <1>3, <1>4 DEF ReadLead

\* A challenger is entered once, and is not the champion.
LEMMA RegisterInv ==
  ASSUME ExperimentInv, NEW w \in Workers, Register(w)
  PROVE  ExperimentInv' /\ SuccessionStep
  <1>1. PICK o : o = op[w]
    OBVIOUS
  <1>2. o \in Works /\ WorkOk(o, exp, immut, lead) /\ o.kind = "register"
        /\ o.step = 2
    BY <1>1, WorkIsOk DEF Register, At
  <1>3. CASE OpGoes(w, Free) /\ UNCHANGED lead
    BY <1>3, WorkEnds DEF Register
  <1>4. CASE /\ o.fresh /\ o.seen.entry[o.e] = "none"
             /\ PutLead(w, [o.seen EXCEPT !.entry[o.e] = "active"])
    <2>1. PICK old : old = lead
      OBVIOUS
    <2>2. PICK l : l = [old EXCEPT !.entry[o.e] = "active"]
      OBVIOUS
    <2>3. o.seen = old /\ o.e \in Experiments /\ old \in Leaderships
      BY <1>2, <1>4, <2>1 DEF WorkOk, ExperimentInv, Leading
    <2>4. old = [champion |-> old.champion, entry |-> old.entry]
      BY <2>3 DEF Leaderships
    <2>5. l = [champion |-> old.champion,
               entry |-> [old.entry EXCEPT ![o.e] = "active"]]
      BY <2>2, <2>4, Zenon
    <2>6. PutLead(w, l) /\ lead' = l
      BY <1>4, <2>2, <2>3 DEF PutLead
    <2>7. l \in Leaderships
      BY <2>3, <2>5 DEF Leaderships
    <2>8. \A e \in Experiments :
              l.entry[e] = IF e = o.e THEN "active" ELSE old.entry[e]
      BY <2>3, <2>5 DEF Leaderships
    <2>9. \A e \in Experiments :
              l.entry[e] = "champion" <=> old.entry[e] = "champion"
      BY <1>4, <2>3, <2>8
    <2>10. OneChampion'
      <3>1. OneChampion
        BY DEF ExperimentInv
      <3>2. {e \in Experiments : l.entry[e] = "champion"}
                = {e \in Experiments : old.entry[e] = "champion"}
        BY <2>9
      <3>3. l.champion = old.champion
        BY <2>5
      <3>4. QED
        BY <2>1, <2>6, <3>1, <3>2, <3>3 DEF OneChampion
    <2>11. SuccessionStep
      <3>1. \A e \in Experiments :
                old.entry[e] = "retired" => l.entry[e] = "retired"
        BY <1>4, <2>3, <2>8
      <3>2. QED
        BY <2>1, <2>5, <2>6, <3>1 DEF SuccessionStep
    <2>12. QED
      BY <2>6, <2>7, <2>10, <2>11, LeadMoves DEF Register
  <1>5. QED
    BY <1>1, <1>3, <1>4 DEF Register

\* The champion is replaced by one challenger, and retires.
LEMMA PromoteInv ==
  ASSUME ExperimentInv, ExperimentConstants, NEW w \in Workers, Promote(w)
  PROVE  ExperimentInv' /\ SuccessionStep
  <1>1. PICK o : o = op[w]
    OBVIOUS
  <1>2. o \in Works /\ WorkOk(o, exp, immut, lead) /\ o.kind = "promote"
        /\ o.step = 2
    BY <1>1, WorkIsOk DEF Promote, At
  <1>3. CASE OpGoes(w, Free) /\ UNCHANGED lead
    BY <1>3, WorkEnds DEF Promote
  <1>4. CASE /\ o.fresh /\ o.seen.entry[o.e] = "active"
             /\ PutLead(w, Crowned(o.seen, o.e))
    <2>1. PICK old : old = lead
      OBVIOUS
    <2>2. PICK l : l = Crowned(old, o.e)
      OBVIOUS
    <2>3. o.seen = old /\ o.e \in Experiments /\ old \in Leaderships
      BY <1>2, <1>4, <2>1 DEF WorkOk, ExperimentInv, Leading
    <2>4. PutLead(w, l) /\ lead' = l
      BY <1>4, <2>2, <2>3 DEF PutLead
    <2>5. /\ l.champion = o.e
          /\ \A e \in Experiments :
                 l.entry[e] = IF e = o.e THEN "champion"
                              ELSE IF e = old.champion THEN "retired"
                              ELSE old.entry[e]
      BY <2>2 DEF Crowned
    <2>6. l \in Leaderships
      BY <2>2, <2>3 DEF Crowned, Leaderships
    <2>7. \A e \in Experiments : old.entry[e] = "champion" => e = old.champion
      BY <2>1, <2>3 DEF ExperimentInv, OneChampion
    <2>8. OneChampion'
      <3>1. \A e \in Experiments : l.entry[e] = "champion" <=> e = o.e
        BY <2>5, <2>7
      <3>2. {e \in Experiments : l.entry[e] = "champion"} = {o.e}
        BY <2>3, <3>1
      <3>3. o.e # Missing
        BY <2>3 DEF ExperimentConstants
      <3>4. QED
        BY <2>4, <2>5, <3>2, <3>3 DEF OneChampion
    <2>9. SuccessionStep
      <3>1. \A e \in Experiments :
                old.entry[e] = "retired" => l.entry[e] = "retired"
        BY <1>4, <2>3, <2>5
      <3>2. old.champion # Missing /\ old.champion # l.champion
                => l.champion # Missing /\ l.entry[old.champion] = "retired"
        BY <2>3, <2>5 DEF Leaderships, ExperimentConstants
      <3>3. QED
        BY <2>1, <2>4, <3>1, <3>2 DEF SuccessionStep
    <2>10. QED
      BY <2>4, <2>6, <2>8, <2>9, LeadMoves DEF Promote
  <1>5. QED
    BY <1>1, <1>3, <1>4 DEF Promote

\* Every step keeps the invariant, and is one of an orderly succession.
LEMMA ExperimentStep ==
  ASSUME ExperimentInv, ExperimentConstants, [ExperimentNext]_experimentVars
  PROVE  ExperimentInv' /\ SuccessionStep
  <1>1. CASE UNCHANGED experimentVars
    BY <1>1 DEF experimentVars, ExperimentInv, OneChampion, SuccessionStep
  <1>2. CASE ExperimentNext
    BY <1>2, BeginDieInv, CreateInv, SaveResultInv, RecordResultInv, CompleteInv,
       RunFailsInv, AttachInv, SaveReportInv, DecideInv, DecisionEventInv,
       ReadLeadInv, RegisterInv, PromoteInv DEF ExperimentNext
  <1>3. QED
    BY <1>1, <1>2

\* What is promoted before the model starts was earned.
LEMMA ExperimentStart ==
  ASSUME ExperimentConstants, ExperimentInit
  PROVE  ExperimentInv
  <1>1. Absent \in Documents /\ \A e, s : WellEarned(e, Absent, s)
    BY DEF Absent, Documents, WellEarned, Completed
  <1>2. Report(1 .. Results, TRUE) \in Reports
    BY DEF Report, Reports
  <1>3. Promoted \in Documents
    <2>1. 1 .. Results \in SUBSET (0 .. Results)
      BY DEF ExperimentConstants
    <2>2. QED
      BY <1>2, <2>1 DEF Promoted, Documents, Completed
  <1>4. \A e \in Prepared : WellEarned(e, Promoted, immut)
    <2>1. Report(1 .. Results, TRUE) # Missing
      BY <1>2 DEF ExperimentConstants
    <2>2. (1 .. Results) \ {0} = 1 .. Results
      BY DEF ExperimentConstants
    <2>3. QED
      BY <2>1, <2>2 DEF ExperimentInit, Promoted, WellEarned, Completed, Report
  <1>5. exp \in [Experiments -> Documents]
        /\ \A e \in Experiments : WellEarned(e, exp[e], immut)
    BY <1>1, <1>3, <1>4 DEF ExperimentInit
  <1>6. lead \in Leaderships /\ OneChampion
    BY DEF ExperimentInit, Leaderships, OneChampion
  <1>7. QED
    BY <1>5, <1>6, FreeWorks DEF ExperimentInit, ExperimentInv, ExperimentConstants

\* What the invariant says of the documents.
LEMMA ExperimentInvEarns ==
  ASSUME ExperimentInv, ExperimentConstants
  PROVE  ExperimentTypeOK /\ CompletedIsBacked /\ PromotedAsJudged /\ OneChampion
  <1>1. \A e \in Experiments : exp[e] \in Documents /\ WellEarned(e, exp[e], immut)
    BY DEF ExperimentInv
  <1>2. ExperimentTypeOK
    BY <1>1 DEF ExperimentInv, ExperimentTypeOK, Documents, WellEarned, Leaderships
  <1>3. CompletedIsBacked
    BY <1>1 DEF CompletedIsBacked, WellEarned
  <1>4. PromotedAsJudged
    BY <1>1 DEF PromotedAsJudged, WellEarned
  <1>5. QED
    BY <1>2, <1>3, <1>4 DEF ExperimentInv

\* A completed experiment has its results stored, a promotion is the one its
\* report judged, and a champion is succeeded in order, for any experiments,
\* workers and results, and any number of operations and deaths.
THEOREM PromotionIsEarnedHolds ==
  ASSUME ExperimentConstants
  PROVE  ExperimentSpec => PromotionIsEarned
  <1>1. ExperimentInit => ExperimentInv
    BY ExperimentStart
  <1>2. ExperimentInv /\ [ExperimentNext]_experimentVars
            => ExperimentInv' /\ SuccessionStep
    BY ExperimentStep
  <1>3. ExperimentInv => ExperimentTypeOK /\ CompletedIsBacked
                         /\ PromotedAsJudged /\ OneChampion
    BY ExperimentInvEarns
  <1>4. QED
    BY <1>1, <1>2, <1>3, PTL DEF ExperimentSpec, PromotionIsEarned
===============================================================================
