------------------------------ MODULE DataTape ------------------------------
(***************************************************************************)
(* What the market-data client makes of its two event streams and of        *)
(* history (data.py): book messages assembled into batches, one-sided       *)
(* quotes merged, live bars admitted past what was delivered before, a gap  *)
(* in either stream resynced under one lock, and bar requests that wait out *)
(* a denial.                                                                *)
(*                                                                          *)
(* The client runs on one event loop: a poller handles the events of a      *)
(* batch without a pause, and gives way only at an await. Bars are counted  *)
(* by their close; a bar lasts one tick.                                    *)
(***************************************************************************)
EXTENDS Naturals, Sequences, FiniteSets, SequencesExt

CONSTANTS MaxQueue,    \* events a stream holds for a slow reader
          MaxInputs,   \* bound: ticker events, bars closed and requests together
          MaxBars,     \* bound: bars closed
          Requests,    \* bar requests
          Limit        \* request.limit; 0 when there is none

ASSUME DataTapeAssumption ==
  /\ {MaxQueue, MaxInputs, MaxBars, Limit} \subseteq Nat /\ MaxQueue > 0
  /\ IsFiniteSet(Requests)

VARIABLES sent,      \* inputs so far
          updates, open,  \* venue: book updates begun, one is unfinished
          closed,    \* venue: bars closed so far; the next one is forming
          onClose,   \* bars_timestamp_on_close
          queue,     \* per stream: events not yet taken
          batch,     \* per stream: events taken and not yet handled
          pc,        \* per stream: its poller, "poll" "run" "lock" "replay" "nap"
          since,     \* per stream: start_gen of a resync that waits for the lock
          gen,       \* _resync_generation
          pending,   \* BookAssembler._pending: the update each part is of
          bbo,       \* _bbo_state: per side, the ticker gaps before it; 0 when unknown
          gaps,      \* ticker gaps handled, plus 1
          said,      \* the last book batch or quote published: "whole" "mixed"; "skipped" or
                     \* "unread" when it is mixed for the reason `stale` or `torn` records
          stale,     \* history: a ticker resync was skipped and nothing cleared since
          torn,      \* history: the begin of an update could not be read, and the parts of
                     \* an earlier one are still pending
          last,      \* BarSequenceGuard._last
          live,      \* the last live bar published (its close), 0 before
          seen,      \* bars published, live or as history: [close, final]
          req        \* per request: [pc, end, rows]

vars == <<sent, updates, open, closed, onClose, queue, batch, pc, since, gen, pending, bbo,
          gaps, said, stale, torn, last, live, seen, req>>
venueVars == <<sent, updates, open, closed, onClose>>
pollVars  == <<batch, pc, since, gen>>
bookVars  == <<pending, bbo, gaps, said, stale, torn>>
barVars   == <<last, live, seen>>

Streams == {"ticker", "history"}
Sides   == {"bid", "ask"}
Gap     == [k |-> "gap", u |-> 0]
Ev(k, u) == [k |-> k, u |-> u]
NoSides == [s \in Sides |-> 0]
Unasked == [pc |-> "idle", end |-> 0, rows |-> {}]
Answered == [Unasked EXCEPT !.pc = "done"]

Init == /\ sent = 0 /\ updates = 0 /\ open = FALSE /\ closed = 0 /\ onClose \in BOOLEAN
        /\ queue = [s \in Streams |-> <<>>] /\ batch = [s \in Streams |-> <<>>]
        /\ pc = [s \in Streams |-> "poll"] /\ since = [s \in Streams |-> 0] /\ gen = 0
        /\ pending = <<>> /\ bbo = NoSides /\ gaps = 1 /\ said = "whole" /\ stale = FALSE
        /\ torn = FALSE /\ last = 0 /\ live = 0 /\ seen = {} /\ req = [r \in Requests |-> Unasked]

\* No batch is being handled: the loop is free, and the venue may as well wait.
LoopFree == \A s \in Streams : pc[s] # "run"

-----------------------------------------------------------------------------
\* The venue and the streams (external)

\* A full queue drops its oldest event; a gap, in front, stands for what was dropped.
Push(q, e) ==
  LET events == IF q # <<>> /\ Head(q) = Gap THEN Tail(q) ELSE q
  IN IF Len(events) < MaxQueue THEN Append(q, e)
     ELSE <<Gap>> \o Append(Tail(events), e)

Input == sent < MaxInputs /\ sent' = sent + 1

\* An image is a snapshot, or a clear or no_book message.
BookKinds == IF open THEN {"middle", "end", "image"} ELSE {"begin", "solo", "image"}
VenueTicks ==
  /\ LoopFree /\ Input
  /\ \/ \E k \in BookKinds :
          LET u == IF k \in {"middle", "end"} THEN updates ELSE updates + 1
          IN /\ updates' = u /\ open' = (k \in {"begin", "middle"})
             /\ queue' = [queue EXCEPT !["ticker"] = Push(@, Ev(k, u))]
     \/ \E s \in Sides : /\ queue' = [queue EXCEPT !["ticker"] = Push(@, Ev(s, 0))]
                         /\ UNCHANGED <<updates, open>>
  /\ UNCHANGED <<closed, onClose, pollVars, bookVars, barVars, req>>

BarCloses == /\ LoopFree /\ closed < MaxBars /\ closed' = closed + 1 /\ Input
             /\ queue' = [queue EXCEPT !["history"] = Push(@, Ev("bar", closed'))]
             /\ UNCHANGED <<updates, open, onClose, pollVars, bookVars, barVars, req>>

-----------------------------------------------------------------------------
\* BookAssembler, the quote merge and BarSequenceGuard

Says(parts, otherwise) == said' = IF \A i, j \in DOMAIN parts : parts[i] = parts[j]
                                  THEN "whole" ELSE IF stale THEN "skipped" ELSE otherwise

\* An image is a batch of its own; the parts of an update are one batch at its end.
fields_to_order_book_deltas(u) == Says(<<u>>, "mixed")
_closed_batch(parts) == Says(parts, IF torn THEN "unread" ELSE "mixed")
feed(e) ==
  /\ CASE e.k = "image"  -> pending' = <<>> /\ fields_to_order_book_deltas(e.u)
       [] e.k = "begin"  -> pending' = <<e.u>> /\ UNCHANGED said
       [] e.k = "middle" -> pending' = Append(pending, e.u) /\ UNCHANGED said
       [] e.k = "end"    -> pending' = <<>> /\ _closed_batch(Append(pending, e.u))
       [] e.k = "solo"   -> _closed_batch(<<e.u>>) /\ UNCHANGED pending
  /\ torn' = (torn /\ e.k \in {"middle", "solo"})

\* A one-sided quote updates its side; a quote is published once both are known.
bbo_to_fields(side) ==
  /\ bbo' = [bbo EXCEPT ![side] = gaps]
  /\ IF \A s \in Sides : bbo'[s] # 0 THEN Says(<<bbo'["bid"], bbo'["ask"]>>, "mixed")
                                     ELSE UNCHANGED said

\* A message that cannot be read, or not be converted, is counted and passed over. What the
\* assembler holds stays, but for an image that fails behind its pop; the side of a quote
\* may be merged by then (also that of a side without size, which is not published).
Unreadable(e) ==
  \/ /\ e.k \in Sides /\ bbo' \in {bbo, [bbo EXCEPT ![e.k] = gaps]}
     /\ UNCHANGED <<pending, said, torn>>
  \/ /\ e.k \notin Sides
     /\ torn' = (torn \/ (e.k = "begin" /\ pending # <<>>))
     /\ UNCHANGED <<pending, bbo, said>>
  \/ e.k = "image" /\ pending' = <<>> /\ torn' = FALSE /\ UNCHANGED <<bbo, said>>

\* fields_to_bar: the stamp of the bar that closes at c.
Stamp(c) == IF onClose THEN c ELSE c - 1

admit(c) == Stamp(c) + 1 > last         \* _last is -1 when unset: last is one more
Noted(c) == Stamp(c) + 1

DispatchTick(e) ==
  /\ \/ e.k \in Sides /\ bbo_to_fields(e.k) /\ UNCHANGED <<pending, torn>>
     \/ e.k \notin Sides /\ feed(e) /\ UNCHANGED bbo
     \/ Unreadable(e)
  /\ UNCHANGED <<gaps, stale, barVars>>
\* A bar that cannot be read, or that no type is subscribed to, is passed over as well.
DispatchBar(e) ==
  /\ \/ /\ admit(e.u) /\ last' = Noted(e.u) /\ live' = e.u
        /\ seen' = seen \cup {[close |-> e.u, final |-> TRUE]}
     \/ UNCHANGED <<last, live, seen>>
  /\ UNCHANGED bookVars

-----------------------------------------------------------------------------
\* The pollers: _poll_channel_loop

Take(s) == /\ LoopFree /\ pc[s] = "poll" /\ queue[s] # <<>>
           /\ batch' = [batch EXCEPT ![s] = queue[s]] /\ queue' = [queue EXCEPT ![s] = <<>>]
           /\ pc' = [pc EXCEPT ![s] = "run"]
           /\ UNCHANGED <<venueVars, since, gen, bookVars, barVars, req>>

After(s) == IF Tail(batch[s]) = <<>> THEN "poll" ELSE "run"

_dispatch_event(s) ==
  /\ pc[s] = "run" /\ Head(batch[s]) # Gap
  /\ IF s = "ticker" THEN DispatchTick(Head(batch[s])) ELSE DispatchBar(Head(batch[s]))
  /\ batch' = [batch EXCEPT ![s] = Tail(@)] /\ pc' = [pc EXCEPT ![s] = After(s)]
  /\ UNCHANGED <<venueVars, queue, since, gen, req>>

\* Mutant: the half-received book update stays.
ForgetQuotes == bbo' = NoSides /\ stale' = FALSE /\ UNCHANGED <<pending, torn>>
\* BookAssembler.reset and _bbo_state.clear
Forget == pending' = <<>> /\ bbo' = NoSides /\ stale' = FALSE /\ torn' = FALSE

Locked == \E s \in Streams : pc[s] = "replay"

\* _resync_ticker_subscription. Whoever gets the lock clears and replays; who had to wait
\* does nothing when a resync has succeeded meanwhile.
Resync(s) == /\ pc' = [pc EXCEPT ![s] = "replay"] /\ Forget
SeeGap(s) ==
  /\ pc[s] = "run" /\ Head(batch[s]) = Gap
  /\ since' = [since EXCEPT ![s] = IF Locked THEN gen ELSE 0]
  /\ gaps' = IF s = "ticker" THEN gaps + 1 ELSE gaps
  /\ IF Locked THEN pc' = [pc EXCEPT ![s] = "lock"] /\ UNCHANGED <<pending, bbo, stale, torn>>
               ELSE Resync(s)
  /\ UNCHANGED <<venueVars, queue, batch, gen, said, barVars, req>>
LockObtained(s) ==
  /\ LoopFree /\ pc[s] = "lock" /\ ~Locked /\ since' = [since EXCEPT ![s] = 0]
  /\ IF gen = since[s]
     THEN Resync(s)
     ELSE /\ pc' = [pc EXCEPT ![s] = "nap"] /\ stale' = (stale \/ s = "ticker")
          /\ UNCHANGED <<pending, bbo, torn>>
  /\ UNCHANGED <<venueVars, queue, batch, gen, gaps, said, barVars, req>>
\* The replay of the intents succeeds (the venue may send its last bar again) or fails;
\* a failure is not tried again. Either way the poller sleeps and goes on.
ReplayEnds(s) ==
  /\ LoopFree /\ pc[s] = "replay" /\ pc' = [pc EXCEPT ![s] = "nap"]
  /\ \/ gen' = gen + 1
        /\ \/ UNCHANGED queue
           \/ closed > 0 /\ queue' = [queue EXCEPT !["history"] = Push(@, Ev("bar", closed))]
     \/ UNCHANGED <<gen, queue>>
  /\ UNCHANGED <<venueVars, batch, since, bookVars, barVars, req>>
Wake(s) == /\ LoopFree /\ pc[s] = "nap"
           /\ batch' = [batch EXCEPT ![s] = Tail(@)] /\ pc' = [pc EXCEPT ![s] = After(s)]
           /\ UNCHANGED <<venueVars, queue, since, gen, bookVars, barVars, req>>

_reconcile_md_after_resumed ==
  /\ LoopFree /\ Forget
  /\ UNCHANGED <<venueVars, queue, pollVars, gaps, said, barVars, req>>

-----------------------------------------------------------------------------
\* Bar requests: _request_bars

Becomes(r, changes) == req' = [req EXCEPT ![r] = changes]
RequestFrame == UNCHANGED <<venueVars, queue, pollVars, bookVars>>

\* The node asks for nothing past the present. A request without a route or without a
\* window is answered at once with nothing.
_request_bars(r) ==
  /\ LoopFree /\ req[r].pc = "idle" /\ Input
  /\ \/ \E e \in 0..closed : Becomes(r, [Unasked EXCEPT !.pc = "load", !.end = e])
     \/ Becomes(r, Answered)
  /\ UNCHANGED <<updates, open, closed, onClose, queue, pollVars, bookVars, barVars>>

\* load_time_bars: the venue also serves the bar that `end` falls into. It is final when
\* it has closed by now.
History(end) == {[close |-> c, final |-> c <= closed] : c \in 1..(end + 1)}
Loads(r) == /\ req[r].pc = "load"
            /\ Becomes(r, [req[r] EXCEPT !.pc = "rows", !.rows = History(req[r].end)])
            /\ RequestFrame /\ UNCHANGED barVars

\* Mutant: no deadline.
DeniedForever(r, late) == [req[r] EXCEPT !.pc = "sleep"]
\* Denied while live intents are held: retry until the deadline.
Denied(r, late) == IF late THEN Answered
                           ELSE [req[r] EXCEPT !.pc = "sleep"]
LoadDenied(r) == /\ LoopFree /\ req[r].pc \in {"load", "lastload"}
                 /\ Becomes(r, Denied(r, req[r].pc = "lastload"))
                 /\ RequestFrame /\ UNCHANGED barVars
LoadFails(r) == /\ LoopFree /\ req[r].pc \in {"load", "lastload"}
                /\ Becomes(r, Answered)
                /\ RequestFrame /\ UNCHANGED barVars
LastLoads(r) == /\ req[r].pc = "lastload"
                /\ Becomes(r, [req[r] EXCEPT !.pc = "rows", !.rows = History(req[r].end)])
                /\ RequestFrame /\ UNCHANGED barVars
\* The sleep of one retry ends, before the deadline or (in the end) past it.
Retry(r) == /\ req[r].pc = "sleep" /\ Becomes(r, [req[r] EXCEPT !.pc = "load"])
            /\ RequestFrame /\ UNCHANGED barVars
DeadlinePasses(r) ==
  /\ req[r].pc \in {"load", "sleep"} /\ Becomes(r, [req[r] EXCEPT !.pc = "lastload"])
  /\ RequestFrame /\ UNCHANGED barVars

\* Mutant: a bar stamped with its open counts as closed.
closed_bars_by_stamp(rows, end) == {b \in rows : Stamp(b.close) <= end}
closed_bars(rows, end) ==
  {b \in rows : IF onClose THEN Stamp(b.close) <= end ELSE Stamp(b.close) + 1 <= end}

\* The newest `Limit` bars.
Limited(rows) ==
  {b \in rows : Limit = 0 \/ Cardinality({c \in rows : c.close >= b.close}) <= Limit}
\* Mutant: history is not noted.
NoteNothing(rows) == UNCHANGED last
note(rows) == LET marks == {last} \cup {Noted(b.close) : b \in rows} IN last' = Max(marks)

\* The rows become bars: one that cannot be read is passed over, and one of another
\* contract or bar type (_validate_history_identity) makes the whole answer empty.
payloads_to_bars(rows, unreadable) == rows \ unreadable
_validate_history_identity(foreign) == ~foreign
_handle_bars(r, unreadable, foreign) ==
  /\ LoopFree /\ req[r].pc = "rows"
  /\ Becomes(r, Answered)
  /\ IF _validate_history_identity(foreign)
     THEN LET bars == Limited(closed_bars(payloads_to_bars(req[r].rows, unreadable),
                                          req[r].end))
          IN note(bars) /\ seen' = seen \cup bars /\ UNCHANGED live
     ELSE UNCHANGED barVars
  /\ RequestFrame

\* _request_trade_ticks: the same without retry, closed bars and the guard. Its load, or
\* a request that cannot be made, is answered once.
_request_trade_ticks(r) ==
  /\ LoopFree /\ req[r].pc = "idle" /\ Input
  /\ \/ Becomes(r, [Unasked EXCEPT !.pc = "ticks"])
     \/ Becomes(r, Answered)
  /\ UNCHANGED <<updates, open, closed, onClose, queue, pollVars, bookVars, barVars>>
_handle_trade_ticks(r) ==
  /\ LoopFree /\ req[r].pc = "ticks" /\ Becomes(r, Answered)
  /\ RequestFrame /\ UNCHANGED barVars

-----------------------------------------------------------------------------
Poller(s) == \/ Take(s) \/ _dispatch_event(s) \/ SeeGap(s) \/ LockObtained(s)
             \/ ReplayEnds(s) \/ Wake(s)
BarsAnswered(r) == \E unreadable \in SUBSET req[r].rows, foreign \in BOOLEAN :
                     _handle_bars(r, unreadable, foreign)
Request(r) == \/ _request_bars(r) \/ Loads(r) \/ LastLoads(r) \/ LoadDenied(r) \/ LoadFails(r)
              \/ Retry(r) \/ DeadlinePasses(r) \/ BarsAnswered(r)
              \/ _request_trade_ticks(r) \/ _handle_trade_ticks(r)

Next == \/ VenueTicks \/ BarCloses \/ _reconcile_md_after_resumed
        \/ \E s \in Streams : Poller(s)
        \/ \E r \in Requests : Request(r)

\* The loop runs what is ready, a load in its thread ends, and time passes.
Fairness == /\ \A s \in Streams : WF_vars(Poller(s))
            /\ \A r \in Requests :
                 /\ WF_vars(Loads(r) \/ LastLoads(r) \/ LoadDenied(r) \/ LoadFails(r))
                 /\ WF_vars(BarsAnswered(r) \/ _handle_trade_ticks(r))
                 /\ WF_vars(DeadlinePasses(r))

Spec == Init /\ [][Next]_vars /\ Fairness

-----------------------------------------------------------------------------
\* Properties

\* A published batch is of one venue update, and both sides of a published quote are from
\* the same side of every gap: what was half received before events were lost is not
\* completed with what came after them, whatever messages could not be read. Excepted are a
\* resync that was skipped because another one succeeded meanwhile, and an update whose
\* begin could not be read while parts of an earlier one, the end of which could not be
\* read either, were kept: any other single unreadable message mixes nothing.
NothingMixed == said # "mixed"

\* The second exception is a defect (README, section 6), against BookAssembler's "emitted
\* together when the end arrives, so a multi-message update is one batch" (data.py:471):
\* not true of this code.
UpdateIsOneBatch == said \notin {"mixed", "unread"}

\* Nothing that is published, live or from history, is a bar that was still forming.
OnlyClosedBars == \A b \in seen : b.final

\* A live bar comes after every bar published before it: it repeats neither a live bar nor
\* one of a lookback, and never goes back.
LiveMovesOn == [][live' # live => \A b \in seen : b.close < live']_vars

\* Every request is answered: denials end at the deadline.
RequestsEnd == \A r \in Requests : (req[r].pc # "idle") ~> (req[r].pc = "done")
=============================================================================
