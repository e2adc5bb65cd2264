---------------------------- MODULE ClientProofs ----------------------------
(***************************************************************************)
(* Proofs for the Python clients, for any number of inputs, requests,       *)
(* contracts, commands and connects and every bound of a queue: the tape    *)
(* of bars, books and quotes (DataTape), exposure and inventory (Exposure), *)
(* and the subscriptions and their replay (DataIntents).                    *)
(*                                                                          *)
(* Each rests on one relation that no step breaks: between what was half    *)
(* received and what the tape continues (BookFits); between the rows that   *)
(* are on their way or recorded and the venue's net (StreamInv); between    *)
(* what the client takes itself to be subscribed to, the calls under way    *)
(* and the feeds joined at the venue (IntentsInv, GhostInv).                *)
(*                                                                          *)
(* The loops of the inventory are recursive functions: a closed form of     *)
(* each satisfies its recursion, and no other function does                 *)
(* (StepwiseEqual), by a least counterexample (LeastNat).                   *)
(***************************************************************************)
EXTENDS DataTape, Exposure, DataIntents, SequenceTheorems, FiniteSetTheorems,
        FunctionTheorems, NaturalsInduction, WellFoundedInduction, TLAPS

-----------------------------------------------------------------------------
\* DataTape: bars, books and quotes

-----------------------------------------------------------------------------
\* The tape: types

BookEvents == {"begin", "middle", "end", "solo", "image"}
Opening    == {"begin", "middle"}
Parts      == {"middle", "end"}
TickEvents == {Gap} \cup [k : BookEvents \cup Sides, u : Nat]
BarEvents  == {Gap} \cup [k : {"bar"}, u : Nat \ {0}]
Bars       == [close : Nat \ {0}, final : BOOLEAN]
ReqStates  == {"idle", "load", "lastload", "sleep", "rows", "ticks", "done"}

Events(q) == /\ q \in [Streams -> Seq(TickEvents \cup BarEvents)]
             /\ q["ticker"] \in Seq(TickEvents) /\ q["history"] \in Seq(BarEvents)

TapeTypes ==
  /\ updates \in Nat /\ closed \in Nat
  /\ Events(queue) /\ Events(batch)
  /\ pc \in [Streams -> {"poll", "run", "lock", "replay", "nap"}]
  /\ pending \in Seq(Nat) /\ bbo \in [Sides -> Nat] /\ gaps \in Nat \ {0}
  /\ last \in Nat /\ seen \subseteq Bars
  /\ req \in [Requests -> [pc : ReqStates, end : Nat, rows : SUBSET Bars]]

\* A poller that is not polling has events in hand; one that resyncs has a gap first.
Handling == \A s \in Streams : /\ pc[s] # "poll" => batch[s] # <<>>
                               /\ pc[s] = "poll" => batch[s] = <<>>
                               /\ pc[s] \in {"lock", "replay", "nap"} => Head(batch[s]) = Gap

\* Bars: what a request was given is final as far as it asks, and _last covers what was
\* published.
RowsFinal == \A r \in Requests : /\ req[r].end <= closed
                                 /\ \A b \in req[r].rows : /\ b.close <= req[r].end + 1
                                                           /\ b.close <= req[r].end => b.final
SeenNoted == \A b \in seen : b.final /\ Noted(b.close) <= last
BarInv == TapeTypes /\ RowsFinal /\ SeenNoted

-----------------------------------------------------------------------------
\* The ticker's events on their way, and what they continue

Tape == batch["ticker"] \o queue["ticker"]

\* Nothing but quotes between two positions.
Between(q, i, j) == \A k \in (i + 1)..(j - 1) : q[k].k \in Sides

\* A part of an update follows an earlier part of it, but for what a gap swallowed.
Linked(q) ==
  \A i, j \in 1..Len(q) :
    i < j /\ Between(q, i, j) /\ q[j].k \in Parts /\ q[i].k \in BookEvents =>
      q[i].k \in Opening /\ q[i].u = q[j].u

\* The parts that come first continue the update v.
FirstPart(q, v) == \A i \in 1..Len(q) : Between(q, 0, i) /\ q[i].k \in Parts => q[i].u = v

\* The book event that comes last is a part of the update v, which is not finished.
LastOpen(q, v) ==
  \A i \in 1..Len(q) : Between(q, i, Len(q) + 1) /\ q[i].k \in BookEvents =>
                         q[i].k \in Opening /\ q[i].u = v
AllQuotes(q) == Between(q, 0, Len(q) + 1)

TapeLinked == Linked(Tape) /\ (open => LastOpen(Tape, updates))

\* What was half received is what the tape continues, unless a resync was skipped or the
\* begin of an update was lost behind the parts of an earlier one.
PendingFits ==
  ~stale /\ ~torn =>
    \A p \in DOMAIN pending : /\ FirstPart(Tape, pending[p])
                              /\ open /\ AllQuotes(Tape) => pending[p] = updates
\* Past a gap nothing is half received.
GapForgets == pc["ticker"] \in {"replay", "nap"} /\ ~stale => pending = <<>>
\* Both sides of the quote are from after the last gap, or unknown.
QuoteFits == ~stale /\ pc["ticker"] # "lock" => \A s \in Sides : bbo[s] \in {0, gaps}

-----------------------------------------------------------------------------
\* Types

(* What is pushed on a queue keeps its events' type; a full queue is not empty. *)
LEMMA PushType ==
  ASSUME NEW S, Gap \in S, NEW q \in Seq(S), NEW e \in S
  PROVE  Push(q, e) \in Seq(S)
  <1> DEFINE events == IF q # <<>> /\ Head(q) = Gap THEN Tail(q) ELSE q
  <1>1. events \in Seq(S)
    OBVIOUS
  <1> HIDE DEF events
  <1>2. Append(q, e) \in Seq(S)
    OBVIOUS
  <1>3. CASE Len(events) < MaxQueue
    BY <1>2, <1>3 DEF Push, events
  <1>4. CASE ~(Len(events) < MaxQueue)
    <2>1. Len(events) \in Nat /\ Len(events) > 0
      BY <1>1, <1>4, DataTapeAssumption
    <2>2. Tail(events) \in Seq(S)
      BY <1>1, <2>1
    <2>3. Append(Tail(events), e) \in Seq(S)
      BY <2>2
    <2>4. <<Gap>> \o Append(Tail(events), e) \in Seq(S)
      BY <2>3
    <2> QED BY <1>4, <2>4 DEF Push, events
  <1> QED BY <1>3, <1>4

(* In the initial states no queue holds anything. *)
LEMMA TapeTypesInit ==
  ASSUME Init
  PROVE  TapeTypes /\ Handling
  <1>1. \A S : <<>> \in Seq(S)
    OBVIOUS
  <1>2. Unasked \in [pc : ReqStates, end : Nat, rows : SUBSET Bars]
    BY DEF Unasked, ReqStates
  <1>3. Events(queue) /\ Events(batch)
    BY <1>1 DEF Init, Events, Streams
  <1>4. pending \in Seq(Nat) /\ bbo \in [Sides -> Nat] /\ gaps \in Nat \ {0}
    BY DEF Init, NoSides
  <1>5. pc \in [Streams -> {"poll", "run", "lock", "replay", "nap"}]
    BY DEF Init
  <1>6. req \in [Requests -> [pc : ReqStates, end : Nat, rows : SUBSET Bars]]
    BY <1>2 DEF Init
  <1>7. TapeTypes
    BY <1>3, <1>4, <1>5, <1>6 DEF Init, TapeTypes
  <1> QED BY <1>7 DEF Init, Handling, Streams

(* A request's steps touch none of the pollers, the queues and the book. *)
LEMMA RequestFrames ==
  ASSUME NEW r \in Requests, Request(r)
  PROVE  UNCHANGED <<updates, open, closed, onClose, queue, pollVars, bookVars>>
  BY DEF Request, _request_bars, Loads, LastLoads, LoadDenied, LoadFails, Retry,
         DeadlinePasses, BarsAnswered, _handle_bars, _request_trade_ticks,
         _handle_trade_ticks, RequestFrame, venueVars

Types(s) == IF s = "ticker" THEN TickEvents ELSE BarEvents

(* A push on either stream, of an event of that stream. *)
LEMMA PushKeepsEvents ==
  ASSUME TapeTypes, NEW s \in Streams, NEW e \in Types(s),
         queue' = [queue EXCEPT ![s] = Push(@, e)]
  PROVE  Events(queue')
  <1>1. queue[s] \in Seq(Types(s)) /\ Gap \in Types(s) /\ Types(s) \subseteq TickEvents \cup BarEvents
    BY DEF TapeTypes, Events, Types, TickEvents, BarEvents, Streams
  <1> DEFINE p == Push(queue[s], e)
  <1>2. p \in Seq(Types(s))
    BY <1>1, PushType
  <1>3. p \in Seq(TickEvents \cup BarEvents)
    BY <1>1, <1>2, SeqMonotonic
  <1>4. queue' = [queue EXCEPT ![s] = p]
    OBVIOUS
  <1> HIDE DEF p
  <1> QED BY <1>2, <1>3, <1>4 DEF TapeTypes, Events, Types, Streams

(* The rest of a batch, and a queue that was taken, are events of their stream. *)
LEMMA BatchTypes ==
  ASSUME TapeTypes, NEW s \in Streams
  PROVE  /\ batch[s] # <<>> => Events([batch EXCEPT ![s] = Tail(@)])
         /\ Events([batch EXCEPT ![s] = queue[s]]) /\ Events([queue EXCEPT ![s] = <<>>])
         /\ batch[s] # <<>> => Head(batch[s]) \in Types(s)
  <1>1. /\ batch[s] \in Seq(Types(s)) /\ queue[s] \in Seq(Types(s))
        /\ batch[s] \in Seq(TickEvents \cup BarEvents)
        /\ queue[s] \in Seq(TickEvents \cup BarEvents)
    BY DEF TapeTypes, Events, Types, Streams
  <1>2. ASSUME batch[s] # <<>>
        PROVE  /\ Tail(batch[s]) \in Seq(Types(s)) /\ Head(batch[s]) \in Types(s)
               /\ Tail(batch[s]) \in Seq(TickEvents \cup BarEvents)
    BY <1>1, <1>2
  <1>3. <<>> \in Seq(Types(s)) /\ <<>> \in Seq(TickEvents \cup BarEvents)
    OBVIOUS
  <1>4. ASSUME batch[s] # <<>> PROVE Events([batch EXCEPT ![s] = Tail(@)])
    BY <1>2, <1>4 DEF TapeTypes, Events, Types, Streams
  <1>5. Events([batch EXCEPT ![s] = queue[s]])
    BY <1>1 DEF TapeTypes, Events, Types, Streams
  <1>6. Events([queue EXCEPT ![s] = <<>>])
    BY <1>1, <1>3 DEF TapeTypes, Events, Types, Streams
  <1> QED BY <1>2, <1>4, <1>5, <1>6

(* Types: what the venue does. *)
LEMMA VenueTypes ==
  ASSUME TapeTypes, Handling, VenueTicks \/ BarCloses \/ _reconcile_md_after_resumed
  PROVE  TapeTypes' /\ Handling'
  <1>1. CASE VenueTicks
    <2>1. ASSUME NEW k \in BookKinds, NEW u, u = IF k \in {"middle", "end"} THEN updates ELSE updates + 1,
                 updates' = u, open' = (k \in {"begin", "middle"}),
                 queue' = [queue EXCEPT !["ticker"] = Push(@, Ev(k, u))]
          PROVE  updates' \in Nat /\ Events(queue')
      <3>1. u \in Nat /\ k \in BookEvents
        BY <2>1 DEF TapeTypes, BookKinds, BookEvents
      <3>2. Ev(k, u) \in Types("ticker") /\ "ticker" \in Streams
        BY <3>1 DEF Ev, Types, TickEvents, Streams
      <3> QED BY <2>1, <3>1, <3>2, PushKeepsEvents
    <2>2. ASSUME NEW s \in Sides, queue' = [queue EXCEPT !["ticker"] = Push(@, Ev(s, 0))]
          PROVE  Events(queue')
      <3>2. Ev(s, 0) \in Types("ticker") /\ "ticker" \in Streams
        BY DEF Ev, Types, TickEvents, Streams
      <3> QED BY <2>2, <3>2, PushKeepsEvents
    <2>3. updates' \in Nat /\ Events(queue')
      BY <1>1, <2>1, <2>2 DEF VenueTicks, TapeTypes
    <2> QED BY <1>1, <2>3 DEF VenueTicks, TapeTypes, Handling, pollVars, bookVars, barVars
  <1>2. CASE BarCloses
    <2>1. closed' \in Nat \ {0}
      BY <1>2 DEF BarCloses, TapeTypes
    <2>2. Ev("bar", closed') \in Types("history") /\ "history" \in Streams
      BY <2>1 DEF Ev, Types, BarEvents, Streams
    <2>3. Events(queue')
      BY <1>2, <2>2, PushKeepsEvents DEF BarCloses
    <2> QED BY <1>2, <2>1, <2>3 DEF BarCloses, TapeTypes, Handling, pollVars, bookVars, barVars
  <1>3. CASE _reconcile_md_after_resumed
    <2>1. pending' \in Seq(Nat) /\ bbo' \in [Sides -> Nat]
      BY <1>3 DEF _reconcile_md_after_resumed, Forget, NoSides
    <2> QED BY <1>3, <2>1 DEF _reconcile_md_after_resumed, TapeTypes, Handling, pollVars,
                              venueVars, barVars
  <1> QED BY <1>1, <1>2, <1>3

Clears == pending' = <<>> /\ bbo' = NoSides /\ ~stale' /\ ~torn'
Keeps  == pending' = pending /\ bbo' = bbo /\ torn' = torn

(* Who meets a gap waits for the lock or clears. *)
LEMMA GapEffect ==
  ASSUME NEW s \in Streams, SeeGap(s)
  PROVE  /\ \/ pc' = [pc EXCEPT ![s] = "lock"] /\ Keeps /\ stale' = stale
            \/ pc' = [pc EXCEPT ![s] = "replay"] /\ Clears
         /\ gaps' = IF s = "ticker" THEN gaps + 1 ELSE gaps
  BY Zenon DEF SeeGap, Resync, Forget, Clears, Keeps

(* Who gets the lock clears or, when another resync succeeded meanwhile, skips. *)
LEMMA LockEffect ==
  ASSUME NEW s \in Streams, LockObtained(s)
  PROVE  \/ pc' = [pc EXCEPT ![s] = "replay"] /\ Clears
         \/ /\ pc' = [pc EXCEPT ![s] = "nap"] /\ Keeps /\ stale' = (stale \/ s = "ticker")
  BY Zenon DEF LockObtained, Resync, Forget, Clears, Keeps

(* What is cleared has its type. *)
LEMMA ClearsTypes ==
  ASSUME TapeTypes, Clears \/ Keeps
  PROVE  pending' \in Seq(Nat) /\ bbo' \in [Sides -> Nat]
  <1>1. <<>> \in Seq(Nat) /\ NoSides \in [Sides -> Nat]
    BY DEF NoSides
  <1>2. CASE Clears
    BY <1>1, <1>2 DEF Clears
  <1>3. CASE Keeps
    BY <1>3 DEF Keeps, TapeTypes
  <1> QED BY <1>2, <1>3

(* Types: a poller takes, goes on past a gap, or waits for the resync of another. *)
LEMMA PollerTypes ==
  ASSUME TapeTypes, Handling, NEW s \in Streams,
         Take(s) \/ SeeGap(s) \/ LockObtained(s) \/ ReplayEnds(s) \/ Wake(s)
  PROVE  TapeTypes' /\ Handling'
  <1>1. CASE Take(s)
    <2>1. Events(batch') /\ Events(queue')
      BY <1>1, BatchTypes DEF Take
    <2>2. Handling'
      BY <1>1 DEF Take, Handling, TapeTypes, Events
    <2> QED BY <1>1, <2>1, <2>2 DEF Take, TapeTypes, bookVars, barVars, venueVars
  <1>2. CASE SeeGap(s)
    <2>1. pending' \in Seq(Nat) /\ bbo' \in [Sides -> Nat]
      BY <1>2, GapEffect, ClearsTypes
    <2>2. gaps' \in Nat \ {0} /\ pc' \in [Streams -> {"poll", "run", "lock", "replay", "nap"}]
      BY <1>2, GapEffect DEF TapeTypes
    <2>3. Handling'
      BY <1>2 DEF SeeGap, Resync, Handling, TapeTypes
    <2> QED BY <1>2, <2>1, <2>2, <2>3 DEF SeeGap, TapeTypes, venueVars, barVars
  <1>3. CASE LockObtained(s)
    <2>1. pending' \in Seq(Nat) /\ bbo' \in [Sides -> Nat]
      BY <1>3, LockEffect, ClearsTypes
    <2>2. pc' \in [Streams -> {"poll", "run", "lock", "replay", "nap"}]
      BY <1>3, LockEffect DEF TapeTypes
    <2>3. Handling'
      BY <1>3 DEF LockObtained, Resync, Handling, TapeTypes
    <2> QED BY <1>3, <2>1, <2>2, <2>3 DEF LockObtained, TapeTypes, venueVars, barVars
  <1>4. CASE ReplayEnds(s)
    <2>1. ASSUME closed > 0 PROVE Ev("bar", closed) \in Types("history")
      BY <2>1 DEF Ev, Types, BarEvents, TapeTypes
    <2>2. Events(queue')
      <3>1. CASE queue' = queue
        BY <3>1 DEF TapeTypes
      <3>2. CASE closed > 0 /\ queue' = [queue EXCEPT !["history"] = Push(@, Ev("bar", closed))]
        BY <3>2, <2>1, PushKeepsEvents DEF Streams
      <3> QED BY <1>4, <3>1, <3>2 DEF ReplayEnds
    <2>3. Handling'
      BY <1>4 DEF ReplayEnds, Handling, TapeTypes
    <2> QED BY <1>4, <2>2, <2>3 DEF ReplayEnds, TapeTypes, venueVars, barVars, bookVars
  <1>5. CASE Wake(s)
    <2>1. batch[s] # <<>>
      BY <1>5 DEF Wake, Handling
    <2>2. Events(batch')
      BY <1>5, <2>1, BatchTypes DEF Wake
    <2>3. Handling'
      BY <1>5 DEF Wake, Handling, TapeTypes, After, Events
    <2> QED BY <1>5, <2>2, <2>3 DEF Wake, TapeTypes, After, venueVars, barVars, bookVars
  <1> QED BY <1>1, <1>2, <1>3, <1>4, <1>5

-----------------------------------------------------------------------------
\* Numbers

(* A set of naturals that is not empty has a least element. *)
LEMMA LeastNat ==
  ASSUME NEW T \in SUBSET Nat, T # {}
  PROVE  \E x \in T : \A y \in T : x <= y
  <1> DEFINE R == OpToRel(<, Nat)
  <1>1. IsWellFoundedOn(R, Nat)
    BY NatLessThanWellFounded
  <1>2. \A x, y \in Nat : <<x, y>> \in R <=> x < y
    BY DEF OpToRel
  <1> HIDE DEF R
  <1>3. PICK x \in T : \A y \in T : ~ (<<y, x>> \in R)
    BY <1>1, WFMin
  <1>4. ASSUME NEW y \in T PROVE x <= y
    <2>1. x \in Nat /\ y \in Nat /\ ~ (<<y, x>> \in R)
      BY <1>3
    <2> QED BY <1>2, <2>1
  <1> QED BY <1>4

(* A bounded one has a greatest element, which is its Max. *)
LEMMA MaxNat ==
  ASSUME NEW T \in SUBSET Nat, T # {}, NEW n \in Nat, \A y \in T : y <= n
  PROVE  Max(T) \in T /\ \A y \in T : y <= Max(T)
  <1> DEFINE U == {m \in Nat : \A y \in T : y <= m}
  <1>1. PICK x \in U : \A m \in U : x <= m
    <2>1. U \in SUBSET Nat /\ n \in U
      OBVIOUS
    <2> HIDE DEF U
    <2> QED BY <2>1, LeastNat
  <1>2. x \in T
    <2> SUFFICES ASSUME x \notin T PROVE FALSE
      OBVIOUS
    <2>1. PICK z \in T : TRUE
      OBVIOUS
    <2>2. \A y \in T : y < x
      OBVIOUS
    <2>3. x - 1 \in U
      BY <2>1, <2>2
    <2> QED BY <1>1, <2>3
  <1>3. \E m \in T : \A y \in T : m >= y
    BY <1>1, <1>2
  <1>4. Max(T) \in T /\ \A y \in T : Max(T) >= y
    BY <1>3 DEF Max
  <1> QED BY <1>4

-----------------------------------------------------------------------------
\* Bars

(* A live bar is final, and the guard covers it from then on. *)
LEMMA LiveBarKeeps ==
  ASSUME BarInv, NEW e \in [k : {"bar"}, u : Nat \ {0}], DispatchBar(e),
         UNCHANGED <<req, closed, onClose>>
  PROVE  /\ RowsFinal' /\ SeenNoted' /\ last' \in Nat /\ seen' \subseteq Bars
         /\ live' # live => \A b \in seen : b.close < live'
  <1>1. CASE /\ admit(e.u) /\ last' = Noted(e.u) /\ live' = e.u
             /\ seen' = seen \cup {[close |-> e.u, final |-> TRUE]}
    <2>1. /\ last' = Noted(e.u) /\ live' = e.u
          /\ seen' = seen \cup {[close |-> e.u, final |-> TRUE]}
      BY <1>1
    <2>2. e.u \in Nat \ {0} /\ last \in Nat
      BY DEF BarInv, TapeTypes
    <2>3. \A b \in seen : b.final /\ b.close \in Nat \ {0} /\ Noted(b.close) <= last
      BY DEF BarInv, TapeTypes, SeenNoted, Bars
    <2>4. Noted(e.u) > last /\ Noted(e.u) \in Nat
      BY <1>1, <2>2 DEF admit, Noted, Stamp
    <2>5. \A b \in seen : b.close < e.u
      BY <2>2, <2>3, <2>4 DEF Noted, Stamp
    <2>6. SeenNoted'
      <3>2. ASSUME NEW b \in seen' PROVE b.final /\ (Noted(b.close))' <= last'
        <4>1. CASE b \in seen
          BY <2>1, <2>2, <2>3, <2>4, <4>1 DEF Noted, Stamp
        <4>2. CASE b = [close |-> e.u, final |-> TRUE]
          BY <2>1, <2>2, <4>2 DEF Noted, Stamp
        <4> QED BY <2>1, <4>1, <4>2
      <3> QED BY <3>2 DEF SeenNoted
    <2>7. RowsFinal'
      BY DEF BarInv, RowsFinal
    <2>8. seen' \subseteq Bars
      <3>1. [close |-> e.u, final |-> TRUE] \in Bars
        BY <2>2 DEF Bars
      <3> QED BY <2>1, <3>1 DEF BarInv, TapeTypes
    <2> QED BY <2>1, <2>4, <2>5, <2>6, <2>7, <2>8
  <1>2. CASE UNCHANGED <<last, live, seen>>
    BY <1>2 DEF BarInv, TapeTypes, RowsFinal, SeenNoted, Noted, Stamp
  <1> QED BY <1>1, <1>2 DEF DispatchBar

(* A request's states are typed, and what it was given is final as far as it asks. *)
LEMMA RequestRows ==
  ASSUME BarInv, NEW r \in Requests, Request(r)
  PROVE  /\ req' \in [Requests -> [pc : ReqStates, end : Nat, rows : SUBSET Bars]]
         /\ RowsFinal'
  <1> DEFINE Good(x) == /\ x \in [pc : ReqStates, end : Nat, rows : SUBSET Bars]
                        /\ x.end <= closed
                        /\ \A b \in x.rows : /\ b.close <= x.end + 1
                                             /\ b.close <= x.end => b.final
  <1>1. \A q \in Requests : Good(req[q])
    BY DEF BarInv, TapeTypes, RowsFinal
  <1>2. Good(Unasked) /\ Good(Answered) /\ Good([Unasked EXCEPT !.pc = "ticks"])
    BY DEF Unasked, Answered, ReqStates, BarInv, TapeTypes
  <1>3. \A e \in 0..closed : Good([Unasked EXCEPT !.pc = "load", !.end = e])
    <2> SUFFICES ASSUME NEW e \in 0..closed
                 PROVE  Good([Unasked EXCEPT !.pc = "load", !.end = e])
      OBVIOUS
    <2>1. e \in Nat /\ e <= closed
      BY DEF BarInv, TapeTypes
    <2>2. [Unasked EXCEPT !.pc = "load", !.end = e]
            \in [pc : ReqStates, end : Nat, rows : SUBSET Bars]
      BY <2>1 DEF Unasked, ReqStates
    <2>3. /\ [Unasked EXCEPT !.pc = "load", !.end = e].end = e
          /\ [Unasked EXCEPT !.pc = "load", !.end = e].rows = {}
      BY DEF Unasked
    <2> QED BY <2>1, <2>2, <2>3
  <1>4. \A p \in ReqStates : Good([req[r] EXCEPT !.pc = p])
    BY <1>1
  <1>5. Good([req[r] EXCEPT !.pc = "rows", !.rows = History(req[r].end)])
    <2>1. req[r].end \in Nat /\ closed \in Nat /\ req[r].end <= closed
      BY <1>1 DEF BarInv, TapeTypes
    <2>2. ASSUME NEW b \in History(req[r].end)
          PROVE  b \in Bars /\ b.close <= req[r].end + 1 /\ (b.close <= req[r].end => b.final)
      <3>1. PICK c \in 1..(req[r].end + 1) : b = [close |-> c, final |-> c <= closed]
        BY <2>2 DEF History
      <3>2. c \in Nat \ {0} /\ c <= req[r].end + 1 /\ (c <= req[r].end => c <= closed)
        BY <2>1
      <3>3. (c <= closed) \in BOOLEAN
        BY <2>1, <3>2
      <3>4. b \in Bars
        BY <3>1, <3>2, <3>3, Zenon DEF Bars
      <3>5. b.close = c /\ b.final = (c <= closed)
        BY <3>1, Zenon
      <3> QED BY <3>2, <3>4, <3>5
    <2>3. History(req[r].end) \in SUBSET Bars
      BY <2>2
    <2> QED BY <1>1, <2>1, <2>2, <2>3 DEF ReqStates
  <1>6. PICK x : Good(x) /\ Becomes(r, x)
    <2>1. CASE \/ _request_bars(r) \/ _request_trade_ticks(r) \/ _handle_trade_ticks(r)
               \/ BarsAnswered(r) \/ LoadFails(r)
      BY <2>1, <1>2, <1>3 DEF _request_bars, _request_trade_ticks, _handle_trade_ticks,
                              BarsAnswered, _handle_bars, LoadFails
    <2>2. CASE Loads(r) \/ LastLoads(r)
      BY <2>2, <1>5 DEF Loads, LastLoads
    <2>3. CASE LoadDenied(r) \/ Retry(r) \/ DeadlinePasses(r)
      BY <2>3, <1>2, <1>4 DEF LoadDenied, Denied, Retry, DeadlinePasses, ReqStates
    <2> QED BY <2>1, <2>2, <2>3 DEF Request
  <1>7. \A q \in Requests : Good(req'[q])
    BY <1>1, <1>6 DEF Becomes, BarInv, TapeTypes
  <1>8. req' = [q \in Requests |-> req'[q]]
    BY <1>6 DEF Becomes, BarInv, TapeTypes
  <1>9. closed' = closed
    BY RequestFrames
  <1> QED BY <1>7, <1>8, <1>9 DEF RowsFinal

(* The bars of an answer are closed, so final, and the guard covers them from then on. *)
LEMMA AnswerKeeps ==
  ASSUME BarInv, NEW r \in Requests, BarsAnswered(r)
  PROVE  SeenNoted' /\ last' \in Nat /\ seen' \subseteq Bars /\ live' = live
  <1>0. PICK unreadable \in SUBSET req[r].rows, foreign \in BOOLEAN :
          _handle_bars(r, unreadable, foreign)
    BY DEF BarsAnswered
  <1> DEFINE bars == Limited(closed_bars(payloads_to_bars(req[r].rows, unreadable),
                                         req[r].end))
  <1>1. onClose' = onClose
    BY <1>0 DEF _handle_bars, RequestFrame, venueVars
  <1>2. CASE ~_validate_history_identity(foreign)
    BY <1>0, <1>1, <1>2 DEF _handle_bars, barVars, BarInv, TapeTypes, SeenNoted, Noted, Stamp
  <1>3. CASE _validate_history_identity(foreign)
    <2>1. note(bars) /\ seen' = seen \cup bars /\ live' = live
      BY <1>0, <1>3 DEF _handle_bars
    <2>2. /\ last \in Nat /\ req[r].end \in Nat
          /\ \A b \in req[r].rows : b \in Bars /\ b.close <= req[r].end + 1
          /\ \A b \in req[r].rows : b.close <= req[r].end => b.final
      BY DEF BarInv, TapeTypes, RowsFinal
    <2>3. bars \subseteq req[r].rows
      BY DEF Limited, closed_bars, payloads_to_bars
    <2>4. \A b \in bars : b.close <= req[r].end
      <3>1. \A b \in bars : IF onClose THEN Stamp(b.close) <= req[r].end
                                       ELSE Stamp(b.close) + 1 <= req[r].end
        BY DEF Limited, closed_bars
      <3>2. \A b \in bars : b.close \in Nat \ {0}
        BY <2>2, <2>3 DEF Bars
      <3> HIDE DEF bars
      <3> QED BY <2>2, <3>1, <3>2 DEF Stamp
    <2> DEFINE marks == {last} \cup {Noted(b.close) : b \in bars}
    <2>5. last' = Max(marks)
      BY <2>1 DEF note
    <2> HIDE DEF bars
    <2>6. \A b \in bars : Noted(b.close) \in Nat /\ Noted(b.close) <= req[r].end + 2
      BY <2>2, <2>3 DEF Bars, Noted, Stamp
    <2>7. marks \in SUBSET Nat /\ last \in marks
      BY <2>2, <2>6
    <2>8. \A y \in marks : y <= last + req[r].end + 2
      BY <2>2, <2>6
    <2>9. \A b \in bars : Noted(b.close) \in marks
      OBVIOUS
    <2> HIDE DEF marks
    <2>10. Max(marks) \in marks /\ \A y \in marks : y <= Max(marks)
      <3>1. last + req[r].end + 2 \in Nat
        BY <2>2
      <3> QED BY <2>7, <2>8, <3>1, MaxNat
    <2>11. last' \in Nat /\ last <= last' /\ \A b \in bars : Noted(b.close) <= last'
      BY <2>5, <2>7, <2>9, <2>10
    <2>12. \A b \in seen : b.final /\ Noted(b.close) <= last /\ b \in Bars
      BY DEF BarInv, SeenNoted, TapeTypes
    <2>13. ASSUME NEW b \in seen' PROVE b \in Bars /\ b.final /\ Noted(b.close) <= last'
      <3>1. CASE b \in seen
        <4>1. Noted(b.close) \in Int
          BY <2>12, <3>1 DEF Bars, Noted, Stamp
        <4> QED BY <2>2, <2>11, <2>12, <3>1, <4>1
      <3>2. CASE b \in bars
        BY <2>2, <2>3, <2>4, <2>11, <3>2
      <3> QED BY <2>1, <2>13, <3>1, <3>2
    <2>14. SeenNoted'
      BY <1>1, <2>13 DEF SeenNoted, Noted, Stamp
    <2> QED BY <2>1, <2>11, <2>13, <2>14
  <1> QED BY <1>2, <1>3

-----------------------------------------------------------------------------
\* An event is handled

TickEvent == [k : BookEvents \cup Sides, u : Nat]

(* What BookAssembler.feed does with each kind of message. *)
LEMMA FeedEffect ==
  ASSUME NEW e \in TickEvent, e.k \in BookEvents, feed(e)
  PROVE  LET otherwise == IF torn THEN "unread" ELSE "mixed"
         IN \/ e.k = "image" /\ pending' = <<>> /\ Says(<<e.u>>, "mixed")
            \/ e.k = "begin" /\ pending' = <<e.u>> /\ said' = said
            \/ e.k = "middle" /\ pending' = Append(pending, e.u) /\ said' = said /\ (torn => torn')
            \/ e.k = "end" /\ pending' = <<>> /\ Says(Append(pending, e.u), otherwise)
            \/ e.k = "solo" /\ pending' = pending /\ Says(<<e.u>>, otherwise) /\ (torn => torn')
  <1>0. e.k \in {"middle", "solo"} => (torn => torn')
    BY DEF feed
  <1>1. CASE e.k = "image"
    BY <1>1 DEF feed, fields_to_order_book_deltas
  <1>2. CASE e.k = "begin"
    BY <1>2 DEF feed
  <1>3. CASE e.k = "middle"
    BY <1>0, <1>3 DEF feed
  <1>4. CASE e.k = "end"
    BY <1>4 DEF feed, _closed_batch
  <1>5. CASE e.k = "solo"
    BY <1>0, <1>5 DEF feed, _closed_batch
  <1> QED BY <1>1, <1>2, <1>3, <1>4, <1>5 DEF BookEvents

(* A message that could not be read leaves the book as it was, or without parts; what was
   half received is torn once the begin of another update is lost. *)
LEMMA UnreadableEffect ==
  ASSUME NEW e, Unreadable(e)
  PROVE  /\ said' = said
         /\ e.k \in Sides => /\ pending' = pending /\ torn' = torn
                             /\ bbo' \in {bbo, [bbo EXCEPT ![e.k] = gaps]}
         /\ e.k \notin Sides =>
              /\ bbo' = bbo
              /\ \/ pending' = <<>>
                 \/ /\ pending' = pending
                    /\ torn \/ (e.k = "begin" /\ pending # <<>>) => torn'
  BY DEF Unreadable, Sides

(* A handled event is one of its stream, and it leaves the batch. *)
LEMMA DispatchShape ==
  ASSUME TapeTypes, Handling, NEW s \in Streams, _dispatch_event(s)
  PROVE  /\ batch[s] # <<>> /\ Events(batch')
         /\ batch' = [batch EXCEPT ![s] = Tail(@)]
         /\ UNCHANGED <<updates, open, closed, onClose, queue, req>>
         /\ pc' = [pc EXCEPT ![s] = IF Tail(batch[s]) = <<>> THEN "poll" ELSE "run"]
         /\ s = "ticker" => Head(batch[s]) \in TickEvent /\ DispatchTick(Head(batch[s]))
         /\ s = "history" => /\ Head(batch[s]) \in [k : {"bar"}, u : Nat \ {0}]
                             /\ DispatchBar(Head(batch[s]))
  <1>1. batch[s] # <<>>
    BY DEF _dispatch_event, Handling
  <1>2. Events(batch') /\ Head(batch[s]) \in Types(s)
    BY <1>1, BatchTypes DEF _dispatch_event
  <1>3. Head(batch[s]) # Gap
    BY DEF _dispatch_event
  <1>4. /\ s = "ticker" => Head(batch[s]) \in TickEvent
        /\ s = "history" => Head(batch[s]) \in [k : {"bar"}, u : Nat \ {0}]
    BY <1>2, <1>3 DEF Types, TickEvents, TickEvent, BarEvents
  <1> QED BY <1>1, <1>2, <1>4 DEF _dispatch_event, After, venueVars

(* Types: an event is handled. *)
LEMMA DispatchTypes ==
  ASSUME TapeTypes, Handling, NEW s \in Streams, _dispatch_event(s),
         last' \in Nat, seen' \subseteq Bars
  PROVE  TapeTypes' /\ Handling'
  <1>1. pending' \in Seq(Nat) /\ bbo' \in [Sides -> Nat] /\ gaps' = gaps
    <2>1. CASE s = "ticker"
      <3> DEFINE e == Head(batch[s])
      <3>1. e \in TickEvent /\ DispatchTick(e)
        BY <2>1, DispatchShape
      <3> HIDE DEF e
      <3>1a. gaps' = gaps /\ pending \in Seq(Nat) /\ bbo \in [Sides -> Nat] /\ gaps \in Nat
        BY <3>1 DEF DispatchTick, TapeTypes
      <3>2. CASE e.k \in Sides /\ bbo_to_fields(e.k) /\ UNCHANGED <<pending, torn>>
        BY <3>1a, <3>2 DEF bbo_to_fields
      <3>3. CASE e.k \notin Sides /\ feed(e) /\ UNCHANGED bbo
        <4>1. e.k \in BookEvents
          BY <3>1, <3>3 DEF TickEvent
        <4>2. <<>> \in Seq(Nat) /\ <<e.u>> \in Seq(Nat) /\ Append(pending, e.u) \in Seq(Nat)
          BY <3>1, <3>1a DEF TickEvent
        <4>3. pending' \in {<<>>, <<e.u>>, Append(pending, e.u), pending}
          BY <3>1, <3>3, <4>1, FeedEffect
        <4> QED BY <3>1a, <3>3, <4>2, <4>3
      <3>4. CASE Unreadable(e)
        <4>1. pending' \in {<<>>, pending} /\ bbo' \in {bbo, [bbo EXCEPT ![e.k] = gaps]}
          BY <3>4 DEF Unreadable
        <4>2. <<>> \in Seq(Nat)
          OBVIOUS
        <4> QED BY <3>1a, <4>1, <4>2
      <3> QED BY <3>1, <3>2, <3>3, <3>4 DEF DispatchTick
    <2>2. CASE s = "history"
      BY <2>2, DispatchShape DEF DispatchBar, bookVars, TapeTypes
    <2> QED BY <2>1, <2>2 DEF Streams
  <1>2. Handling'
    <2>1. /\ batch' = [batch EXCEPT ![s] = Tail(@)]
          /\ pc' = [pc EXCEPT ![s] = IF Tail(batch[s]) = <<>> THEN "poll" ELSE "run"]
      BY DispatchShape
    <2>2. pc \in [Streams -> {"poll", "run", "lock", "replay", "nap"}] /\ DOMAIN batch = Streams
      BY DEF TapeTypes, Events
    <2> QED BY <2>1, <2>2 DEF Handling
  <1>3. pc' \in [Streams -> {"poll", "run", "lock", "replay", "nap"}]
    BY DispatchShape DEF TapeTypes
  <1> QED BY <1>1, <1>2, <1>3, DispatchShape DEF TapeTypes

-----------------------------------------------------------------------------
\* OnlyClosedBars and LiveMovesOn

(* Every step keeps the types and the invariant of the bars, and a bar that it publishes
   live comes after every bar published before. *)
LEMMA BarStep ==
  ASSUME BarInv, Handling, [Next]_vars
  PROVE  /\ BarInv' /\ Handling'
         /\ live' # live => \A b \in seen : b.close < live'
  <1>0. TapeTypes /\ RowsFinal /\ SeenNoted
    BY DEF BarInv
  <1> DEFINE Same == UNCHANGED <<last, live, seen, req, onClose>> /\ closed' \in Nat /\ closed' >= closed
  <1>1. ASSUME Same, TapeTypes' PROVE BarInv' /\ live' = live
    <2>1. RowsFinal'
      BY <1>0, <1>1 DEF RowsFinal, TapeTypes
    <2>2. SeenNoted'
      BY <1>0, <1>1 DEF SeenNoted, Noted, Stamp
    <2> QED BY <1>1, <2>1, <2>2 DEF BarInv
  <1>2. CASE VenueTicks \/ BarCloses \/ _reconcile_md_after_resumed
    <2>1. TapeTypes' /\ Handling'
      BY <1>0, <1>2, VenueTypes
    <2>2. Same
      BY <1>0, <1>2 DEF VenueTicks, BarCloses, _reconcile_md_after_resumed, venueVars, barVars,
                        TapeTypes
    <2> QED BY <1>1, <2>1, <2>2
  <1>3. ASSUME NEW s \in Streams,
               Take(s) \/ SeeGap(s) \/ LockObtained(s) \/ ReplayEnds(s) \/ Wake(s)
        PROVE  BarInv' /\ Handling' /\ live' = live
    <2>1. TapeTypes' /\ Handling'
      BY <1>0, <1>3, PollerTypes
    <2>2. Same
      BY <1>0, <1>3 DEF Take, SeeGap, LockObtained, ReplayEnds, Wake, venueVars, barVars,
                        TapeTypes
    <2> QED BY <1>1, <2>1, <2>2
  <1>4. ASSUME NEW s \in Streams, _dispatch_event(s)
        PROVE  /\ BarInv' /\ Handling'
               /\ live' # live => \A b \in seen : b.close < live'
    <2>1. CASE s = "ticker"
      <3>1. Same
        BY <1>0, <1>4, <2>1, DispatchShape DEF DispatchTick, barVars, TapeTypes
      <3>2. TapeTypes' /\ Handling'
        BY <1>0, <1>4, <3>1, DispatchTypes DEF TapeTypes
      <3> QED BY <1>1, <3>1, <3>2
    <2>2. CASE s = "history"
      <3>1. UNCHANGED <<req, closed, onClose>> /\ Head(batch[s]) \in [k : {"bar"}, u : Nat \ {0}]
            /\ DispatchBar(Head(batch[s]))
        BY <1>0, <1>4, <2>2, DispatchShape
      <3>2. /\ RowsFinal' /\ SeenNoted' /\ last' \in Nat /\ seen' \subseteq Bars
            /\ live' # live => \A b \in seen : b.close < live'
        BY <3>1, LiveBarKeeps
      <3>3. TapeTypes' /\ Handling'
        BY <1>0, <1>4, <3>2, DispatchTypes
      <3> QED BY <3>2, <3>3 DEF BarInv
    <2> QED BY <2>1, <2>2 DEF Streams
  <1>5. ASSUME NEW r \in Requests, Request(r)
        PROVE  BarInv' /\ Handling' /\ live' = live
    <2>1. UNCHANGED <<updates, open, closed, onClose, queue, pollVars, bookVars>>
      BY <1>5, RequestFrames
    <2>2. /\ req' \in [Requests -> [pc : ReqStates, end : Nat, rows : SUBSET Bars]]
          /\ RowsFinal'
      BY <1>5, RequestRows
    <2>3. SeenNoted' /\ last' \in Nat /\ seen' \subseteq Bars /\ live' = live
      <3>1. CASE BarsAnswered(r)
        BY <3>1, AnswerKeeps
      <3>2. CASE UNCHANGED barVars
        BY <1>0, <2>1, <3>2 DEF barVars, SeenNoted, Noted, Stamp, TapeTypes
      <3> QED BY <1>5, <3>1, <3>2 DEF Request, _request_bars, Loads, LastLoads, LoadDenied,
                LoadFails, Retry, DeadlinePasses, _request_trade_ticks, _handle_trade_ticks
    <2>4. Handling'
      BY <2>1 DEF Handling, pollVars
    <2>5. TapeTypes'
      BY <1>0, <2>1, <2>2, <2>3 DEF TapeTypes, pollVars, bookVars
    <2> QED BY <2>2, <2>3, <2>4, <2>5 DEF BarInv
  <1>6. CASE UNCHANGED vars
    BY <1>6 DEF BarInv, TapeTypes, Handling, RowsFinal, SeenNoted, Noted, Stamp, vars
  <1> QED BY <1>2, <1>3, <1>4, <1>5, <1>6 DEF Next, Poller

(* Initially nothing is published and nothing asked. *)
LEMMA BarInit == Init => BarInv /\ Handling
  <1> SUFFICES ASSUME Init PROVE BarInv /\ Handling
    OBVIOUS
  <1>1. \A r \in Requests : req[r].end = 0 /\ req[r].rows = {}
    BY DEF Init, Unasked
  <1>2. closed = 0 /\ seen = {}
    BY DEF Init
  <1>3. RowsFinal /\ SeenNoted
    BY <1>1, <1>2 DEF RowsFinal, SeenNoted
  <1> QED BY <1>3, TapeTypesInit DEF BarInv

(* Whatever is published was closed: the bars of a request are cut at its end, which is not
   in the future, and what the venue serves up to there has closed by then. *)
THEOREM OnlyClosedBarsArePublished == Spec => []OnlyClosedBars
  <1>1. Init => BarInv /\ Handling
    BY BarInit
  <1>2. BarInv /\ Handling /\ [Next]_vars => (BarInv /\ Handling)'
    BY BarStep
  <1>3. BarInv => OnlyClosedBars
    BY DEF BarInv, SeenNoted, OnlyClosedBars
  <1> QED BY <1>1, <1>2, <1>3, PTL DEF Spec

(* A live bar comes after every bar published before it: _last covers them all, under
   either stamp. *)
THEOREM LiveBarsMoveOn == Spec => LiveMovesOn
  <1>1. Init => BarInv /\ Handling
    BY BarInit
  <1>2. BarInv /\ Handling /\ [Next]_vars => (BarInv /\ Handling)'
    BY BarStep
  <1>3. BarInv /\ Handling /\ [Next]_vars => [live' # live => \A b \in seen : b.close < live']_vars
    BY BarStep
  <1> QED BY <1>1, <1>2, <1>3, PTL DEF Spec, LiveMovesOn

-----------------------------------------------------------------------------
\* Links of a tape that loses its first event, grows, or loses events in the middle

Rest(q, t) == /\ q \in Seq(TickEvents) /\ t \in Seq(TickEvents) /\ Len(q) = Len(t) + 1
              /\ \A i \in 1..Len(t) : t[i] = q[i + 1]

(* What lies between two positions of the rest lies between the next ones of the tape. *)
LEMMA RestBetween ==
  ASSUME NEW q, NEW t, Rest(q, t), NEW i \in 0..Len(t), NEW j \in 1..(Len(t) + 1),
         Between(t, i, j)
  PROVE  Between(q, i + 1, j + 1)
  <1>1. Len(t) \in Nat
    BY DEF Rest
  <1> SUFFICES ASSUME NEW k \in (i + 2)..j PROVE q[k].k \in Sides
    BY DEF Between
  <1>2. k - 1 \in (i + 1)..(j - 1) /\ k - 1 \in 1..Len(t)
    BY <1>1
  <1>3. t[k - 1].k \in Sides
    BY <1>2 DEF Between
  <1>4. t[k - 1] = q[(k - 1) + 1] /\ (k - 1) + 1 = k
    BY <1>2 DEF Rest
  <1> QED BY <1>3, <1>4

(* The rest of a linked tape. *)
LEMMA RestLinks ==
  ASSUME NEW q, NEW t, Rest(q, t), Linked(q)
  PROVE  /\ Linked(t)
         /\ q[1].k \in BookEvents =>
              \A j \in 1..Len(t) : Between(t, 0, j) /\ t[j].k \in Parts =>
                                     q[1].k \in Opening /\ q[1].u = t[j].u
  <1>1. Len(t) \in Nat /\ Len(q) = Len(t) + 1
    BY DEF Rest
  <1>2. ASSUME NEW i \in 0..Len(t), NEW j \in 1..Len(t), i < j, Between(t, i, j),
               t[j].k \in Parts, q[i + 1].k \in BookEvents
        PROVE  q[i + 1].k \in Opening /\ q[i + 1].u = t[j].u
    <2>1. Between(q, i + 1, j + 1)
      BY <1>1, <1>2, RestBetween
    <2>2. i + 1 \in 1..Len(q) /\ j + 1 \in 1..Len(q) /\ i + 1 < j + 1 /\ q[j + 1] = t[j]
      BY <1>1, <1>2 DEF Rest
    <2> QED BY <1>2, <2>1, <2>2 DEF Linked
  <1>3. ASSUME NEW i \in 1..Len(t), NEW j \in 1..Len(t), i < j, Between(t, i, j),
               t[j].k \in Parts, t[i].k \in BookEvents
        PROVE  t[i].k \in Opening /\ t[i].u = t[j].u
    <2>1. t[i] = q[i + 1] /\ i \in 0..Len(t)
      BY <1>1, <1>3 DEF Rest
    <2> QED BY <1>2, <1>3, <2>1
  <1>4. Linked(t)
    BY <1>3 DEF Linked
  <1>5. ASSUME NEW j \in 1..Len(t), Between(t, 0, j), t[j].k \in Parts, q[1].k \in BookEvents
        PROVE  q[1].k \in Opening /\ q[1].u = t[j].u
    <2>1. 0 \in 0..Len(t) /\ 0 < j /\ 0 + 1 = 1
      BY <1>1
    <2> QED BY <1>2, <1>5, <2>1
  <1> QED BY <1>4, <1>5

(* The end of the rest is the end of the tape. *)
LEMMA RestEnds ==
  ASSUME NEW q, NEW t, Rest(q, t), NEW v, LastOpen(q, v)
  PROVE  /\ LastOpen(t, v)
         /\ q[1].k \in BookEvents /\ AllQuotes(t) => q[1].k \in Opening /\ q[1].u = v
  <1>1. Len(t) \in Nat /\ Len(q) = Len(t) + 1
    BY DEF Rest
  <1>2. ASSUME NEW i \in 0..Len(t), Between(t, i, Len(t) + 1), q[i + 1].k \in BookEvents
        PROVE  q[i + 1].k \in Opening /\ q[i + 1].u = v
    <2>1. Len(t) + 1 \in 1..(Len(t) + 1)
      BY <1>1
    <2>2. Between(q, i + 1, (Len(t) + 1) + 1)
      BY <1>2, <2>1, RestBetween
    <2>3. i + 1 \in 1..Len(q) /\ (Len(t) + 1) + 1 = Len(q) + 1
      BY <1>1
    <2> QED BY <1>2, <2>2, <2>3 DEF LastOpen
  <1>3. ASSUME NEW i \in 1..Len(t), Between(t, i, Len(t) + 1), t[i].k \in BookEvents
        PROVE  t[i].k \in Opening /\ t[i].u = v
    <2>1. t[i] = q[i + 1] /\ i \in 0..Len(t)
      BY <1>1 DEF Rest
    <2> QED BY <1>2, <1>3, <2>1
  <1>4. 0 \in 0..Len(t) /\ 0 + 1 = 1
    BY <1>1
  <1> QED BY <1>2, <1>3, <1>4 DEF LastOpen, AllQuotes

(* Behind a quote the first part is the same, and so is a tape of quotes only. *)
LEMMA RestOfQuote ==
  ASSUME NEW q, NEW t, Rest(q, t), q[1].k \in Sides
  PROVE  /\ \A v : FirstPart(q, v) => FirstPart(t, v)
         /\ AllQuotes(t) => AllQuotes(q)
  <1>1. Len(t) \in Nat /\ Len(q) = Len(t) + 1
    BY DEF Rest
  <1>2. ASSUME NEW j \in 1..(Len(t) + 1), Between(t, 0, j) PROVE Between(q, 0, j + 1)
    <2>1. Between(q, 0 + 1, j + 1)
      BY <1>1, <1>2, RestBetween
    <2> SUFFICES ASSUME NEW k \in 1..j PROVE q[k].k \in Sides
      BY DEF Between
    <2>2. CASE k = 1
      BY <2>2
    <2>3. CASE k # 1
      BY <2>1, <2>3 DEF Between
    <2> QED BY <2>2, <2>3
  <1>3. ASSUME NEW v, FirstPart(q, v), NEW i \in 1..Len(t), Between(t, 0, i), t[i].k \in Parts
        PROVE  t[i].u = v
    <2>1. i + 1 \in 1..Len(q) /\ t[i] = q[i + 1] /\ Between(q, 0, i + 1)
      BY <1>1, <1>2, <1>3 DEF Rest
    <2> QED BY <1>3, <2>1 DEF FirstPart
  <1>4. ASSUME AllQuotes(t) PROVE AllQuotes(q)
    <2>1. Len(t) + 1 \in 1..(Len(t) + 1)
      BY <1>1
    <2> QED BY <1>1, <1>2, <1>4, <2>1 DEF AllQuotes
  <1> QED BY <1>3, <1>4 DEF FirstPart

Grown(q, t, e) == /\ q \in Seq(TickEvents) /\ t \in Seq(TickEvents) /\ Len(t) = Len(q) + 1
                  /\ \A i \in 1..Len(q) : t[i] = q[i]
                  /\ t[Len(t)] = e

\* After n events a gap stands for what was lost; d says whether there was one before.
Cut(q, t, e, n, d) ==
  /\ q \in Seq(TickEvents) /\ t \in Seq(TickEvents) /\ n \in Nat /\ d \in {0, 1}
  /\ Len(t) = (Len(q) + 1) - d /\ n + 1 < Len(t)
  /\ \A i \in 1..n : t[i] = q[i]
  /\ t[n + 1] = Gap
  /\ \A i \in (n + 2)..(Len(t) - 1) : t[i] = q[i + d]
  /\ t[Len(t)] = e

\* What a push does to the links of the tape q, whichever way it becomes the tape t.
PushLinks(q, t, e) ==
  /\ Linked(q) /\ (e.k \in Parts => LastOpen(q, e.u)) => Linked(t)
  /\ \A v : FirstPart(q, v) /\ (e.k \in Parts /\ AllQuotes(q) => v = e.u) => FirstPart(t, v)
  /\ \A v : e.k \in Sides /\ LastOpen(q, v) => LastOpen(t, v)
  /\ e.k \in Opening => LastOpen(t, e.u)
  /\ AllQuotes(t) => AllQuotes(q) /\ e.k \in Sides

(* The kinds of events are distinct. *)
LEMMA Kinds3 ==
  /\ BookEvents \cap Sides = {} /\ Parts \subseteq BookEvents /\ Opening \subseteq BookEvents
  /\ Gap.k \notin BookEvents \cup Sides
  BY DEF BookEvents, Sides, Parts, Opening, Gap

(* The tape grows. *)
LEMMA GrownLinks ==
  ASSUME NEW e \in TickEvent, NEW q, NEW t, Grown(q, t, e)
  PROVE  PushLinks(q, t, e)
  <1>1. Len(q) \in Nat /\ Len(t) = Len(q) + 1 /\ t[Len(q) + 1] = e
        /\ \A i \in 1..Len(q) : t[i] = q[i]
    BY DEF Grown
  <1> DEFINE n == Len(q)
  <1>2. ASSUME NEW i \in 0..n, NEW j \in 1..(n + 1), Between(t, i, j) PROVE Between(q, i, j)
    BY <1>1, <1>2 DEF Between
  <1>3. ASSUME NEW i \in 0..n, Between(t, i, n + 2) PROVE Between(q, i, n + 1) /\ e.k \in Sides
    <2>1. n + 1 \in (i + 1)..((n + 2) - 1) /\ n + 1 = Len(t)
      BY <1>1
    <2>2. e.k \in Sides
      BY <1>1, <1>3, <2>1 DEF Between
    <2>3. Between(q, i, n + 1)
      BY <1>1, <1>3 DEF Between
    <2> QED BY <2>2, <2>3
  <1>4. ASSUME Linked(q), e.k \in Parts => LastOpen(q, e.u),
               NEW i \in 1..Len(t), NEW j \in 1..Len(t), i < j, Between(t, i, j),
               t[j].k \in Parts, t[i].k \in BookEvents
        PROVE  t[i].k \in Opening /\ t[i].u = t[j].u
    <2>1. i \in 1..n /\ i \in 0..n /\ t[i] = q[i] /\ Between(q, i, j)
      BY <1>1, <1>2, <1>4
    <2>2. CASE j \in 1..n
      BY <1>1, <1>4, <2>1, <2>2 DEF Linked
    <2>3. CASE j = n + 1
      BY <1>1, <1>4, <2>1, <2>3 DEF LastOpen
    <2> QED BY <1>1, <2>2, <2>3
  <1>5. ASSUME NEW v, FirstPart(q, v), e.k \in Parts /\ AllQuotes(q) => v = e.u,
               NEW i \in 1..Len(t), Between(t, 0, i), t[i].k \in Parts
        PROVE  t[i].u = v
    <2>1. Between(q, 0, i)
      BY <1>1, <1>2, <1>5
    <2>2. CASE i \in 1..n
      BY <1>1, <1>5, <2>1, <2>2 DEF FirstPart
    <2>3. CASE i = n + 1
      BY <1>1, <1>5, <2>1, <2>3 DEF AllQuotes
    <2> QED BY <1>1, <2>2, <2>3
  <1>6. ASSUME NEW v, e.k \in Sides, LastOpen(q, v),
               NEW i \in 1..Len(t), Between(t, i, Len(t) + 1), t[i].k \in BookEvents
        PROVE  t[i].k \in Opening /\ t[i].u = v
    <2>1. i # n + 1
      BY <1>1, <1>6, Kinds3
    <2>2. i \in 1..n /\ i \in 0..n /\ Len(t) + 1 = n + 2
      BY <1>1, <2>1
    <2>3. Between(q, i, n + 1) /\ t[i] = q[i]
      BY <1>1, <1>3, <1>6, <2>2
    <2> QED BY <1>6, <2>2, <2>3 DEF LastOpen
  <1>7. ASSUME e.k \in Opening, NEW i \in 1..Len(t), Between(t, i, Len(t) + 1), t[i].k \in BookEvents
        PROVE  t[i].k \in Opening /\ t[i].u = e.u
    <2>1. CASE i = n + 1
      BY <1>1, <1>7, <2>1
    <2>2. CASE i # n + 1
      <3>1. i \in 0..n /\ Len(t) + 1 = n + 2
        BY <1>1, <2>2
      <3>2. e.k \in Sides
        BY <1>3, <1>7, <3>1
      <3> QED BY <1>7, <3>2, Kinds3
    <2> QED BY <2>1, <2>2
  <1>8. ASSUME AllQuotes(t) PROVE AllQuotes(q) /\ e.k \in Sides
    <2>1. 0 \in 0..n /\ Len(t) + 1 = n + 2
      BY <1>1
    <2> QED BY <1>3, <1>8, <2>1 DEF AllQuotes
  <1> QED BY <1>4, <1>5, <1>6, <1>7, <1>8 DEF PushLinks, Linked, FirstPart, LastOpen

(* Events are lost: what a part could follow lies behind the gap, on the old tape too. *)
LEMMA CutLinks ==
  ASSUME NEW e \in TickEvent, NEW q, NEW t, NEW n, NEW d, Cut(q, t, e, n, d)
  PROVE  PushLinks(q, t, e)
  <1>1. /\ n \in Nat /\ d \in {0, 1} /\ Len(q) \in Nat /\ Len(t) \in Nat
        /\ Len(t) = (Len(q) + 1) - d /\ n + 1 < Len(t)
        /\ \A i \in 1..n : t[i] = q[i]
        /\ t[n + 1].k \notin BookEvents \cup Sides
        /\ \A i \in (n + 2)..(Len(t) - 1) : t[i] = q[i + d]
        /\ t[Len(t)] = e
    BY Kinds3 DEF Cut
  <1> DEFINE m == Len(t)
             l == Len(q)
  <1>a. /\ m \in Nat /\ l \in Nat /\ n \in Nat /\ d \in Nat /\ d <= 1
        /\ m = (l + 1) - d /\ n + 1 < m /\ n < l
    BY <1>1
  <1>b. /\ \A i \in 1..n : t[i] = q[i]
        /\ \A i \in (n + 2)..(m - 1) : t[i] = q[i + d]
        /\ t[m] = e /\ t[n + 1].k \notin BookEvents \cup Sides
    BY <1>1
  <1>c. /\ Len(t) = m /\ Len(q) = l
    OBVIOUS
  <1> HIDE DEF m, l
  \* Nothing reaches across the gap.
  <1>2. ASSUME NEW i \in 0..m, NEW j \in 1..(m + 1), i < n + 1, n + 1 < j, Between(t, i, j)
        PROVE  FALSE
    <2>1. n + 1 \in (i + 1)..(j - 1)
      BY <1>a, <1>b, <1>2
    <2> QED BY <1>a, <1>b, <1>2, <2>1 DEF Between
  <1>3. ASSUME NEW i \in (n + 2)..(m - 1), NEW j \in (n + 2)..m, Between(t, i, j)
        PROVE  Between(q, i + d, j + d)
    <2> SUFFICES ASSUME NEW k \in ((i + d) + 1)..((j + d) - 1) PROVE q[k].k \in Sides
      BY DEF Between
    <2>1. k - d \in (i + 1)..(j - 1) /\ k - d \in (n + 2)..(m - 1) /\ (k - d) + d = k
      BY <1>a, <1>b, <1>3
    <2> QED BY <1>a, <1>b, <1>3, <2>1 DEF Between
  <1>4. ASSUME Linked(q), e.k \in Parts => LastOpen(q, e.u),
               NEW i \in 1..m, NEW j \in 1..m, i < j, Between(t, i, j),
               t[j].k \in Parts, t[i].k \in BookEvents
        PROVE  t[i].k \in Opening /\ t[i].u = t[j].u
    <2>0. i # n + 1 /\ j # n + 1
      BY <1>a, <1>b, <1>4, Kinds3
    <2>1. CASE j \in 1..n
      <3>1. i \in 1..n /\ t[i] = q[i] /\ t[j] = q[j] /\ i \in 1..l /\ j \in 1..l
        BY <1>a, <1>b, <1>4, <2>1
      <3>2. Between(q, i, j)
        BY <1>a, <1>b, <1>4, <2>1 DEF Between
      <3> QED BY <1>c, <1>4, <3>1, <3>2 DEF Linked
    <2>2. CASE j \in (n + 2)..m
      <3>1. i \in (n + 2)..(m - 1) /\ t[i] = q[i + d] /\ i + d \in 1..l
        <4>1. i \in 0..m /\ j \in 1..(m + 1) /\ n + 1 < j
          BY <1>a, <1>b, <2>2
        <4>2. ~(i < n + 1)
          BY <1>2, <1>4, <4>1
        <4>3. i \in (n + 2)..(m - 1)
          BY <1>a, <1>b, <1>4, <2>0, <4>2
        <4> QED BY <1>a, <1>b, <4>3
      <3>2. Between(q, i + d, j + d)
        BY <1>3, <1>4, <2>2, <3>1
      <3>3. CASE j = m
        <4>1. j + d = l + 1
          BY <1>a, <1>b, <3>3
        <4> QED BY <1>c, <1>a, <1>b, <1>4, <3>1, <3>2, <3>3, <4>1 DEF LastOpen
      <3>4. CASE j # m
        <4>1. j \in (n + 2)..(m - 1) /\ t[j] = q[j + d] /\ j + d \in 1..l /\ i + d < j + d
          BY <1>a, <1>b, <1>4, <2>2, <3>1, <3>4
        <4> QED BY <1>c, <1>4, <3>1, <3>2, <4>1 DEF Linked
      <3> QED BY <3>3, <3>4
    <2> QED BY <1>a, <1>b, <2>0, <2>1, <2>2
  <1>5. ASSUME NEW v, FirstPart(q, v), NEW i \in 1..m, Between(t, 0, i), t[i].k \in Parts
        PROVE  t[i].u = v
    <2>1. i # n + 1
      BY <1>a, <1>b, <1>5, Kinds3
    <2>2. ~(n + 1 < i)
      <3>1. 0 \in 0..m /\ i \in 1..(m + 1) /\ 0 < n + 1
        BY <1>a, <1>b
      <3> QED BY <1>2, <1>5, <3>1
    <2>3. i \in 1..n /\ i \in 1..l
      BY <1>a, <1>b, <2>1, <2>2
    <2>4. Between(q, 0, i) /\ t[i] = q[i]
      BY <1>a, <1>b, <1>5, <2>3 DEF Between
    <2> QED BY <1>c, <1>5, <2>3, <2>4 DEF FirstPart
  <1>6. ASSUME NEW i \in 1..m, Between(t, i, m + 1), t[i].k \in BookEvents, i # m
        PROVE  /\ i \in (n + 2)..(m - 1) /\ e.k \in Sides
               /\ t[i] = q[i + d] /\ i + d \in 1..l /\ Between(q, i + d, l + 1)
    <2>1. i \in (n + 2)..(m - 1)
      <3>1. i \in 0..m /\ m + 1 \in 1..(m + 1) /\ n + 1 < m + 1
        BY <1>a, <1>b
      <3>2. ~(i < n + 1)
        BY <1>2, <1>6, <3>1
      <3>3. i # n + 1
        BY <1>a, <1>b, <1>6
      <3> QED BY <1>a, <1>b, <1>6, <3>2, <3>3
    <2>2. m \in (i + 1)..((m + 1) - 1)
      BY <1>a, <1>b, <2>1
    <2>3. e.k \in Sides
      BY <1>a, <1>b, <1>6, <2>2 DEF Between
    <2>4. Between(t, i, m) /\ m \in (n + 2)..m
      BY <1>a, <1>b, <1>6, <2>1 DEF Between
    <2>5. Between(q, i + d, m + d) /\ m + d = l + 1
      BY <1>a, <1>b, <1>3, <2>1, <2>4
    <2> QED BY <1>a, <1>b, <2>1, <2>3, <2>5
  <1>7. ASSUME NEW v, e.k \in Sides, LastOpen(q, v),
               NEW i \in 1..m, Between(t, i, m + 1), t[i].k \in BookEvents
        PROVE  t[i].k \in Opening /\ t[i].u = v
    <2>1. i # m
      BY <1>a, <1>b, <1>7, Kinds3
    <2> QED BY <1>c, <1>6, <1>7, <2>1 DEF LastOpen
  <1>8. ASSUME e.k \in Opening, NEW i \in 1..m, Between(t, i, m + 1), t[i].k \in BookEvents
        PROVE  t[i].k \in Opening /\ t[i].u = e.u
    BY <1>a, <1>b, <1>6, <1>8, Kinds3
  <1>9. ~AllQuotes(t)
    <2>1. 0 \in 0..m /\ m + 1 \in 1..(m + 1) /\ 0 < n + 1 /\ n + 1 < m + 1
      BY <1>a, <1>b
    <2> QED BY <1>c, <1>2, <2>1 DEF AllQuotes
  <1> QED BY <1>c, <1>4, <1>5, <1>7, <1>8, <1>9 DEF PushLinks, Linked, FirstPart, LastOpen

-----------------------------------------------------------------------------
\* What the steps do to the tape

(* A push appends, or drops the oldest event and leaves a gap in front. *)
LEMMA PushShape ==
  ASSUME NEW z \in Seq(TickEvents), NEW e \in TickEvents
  PROVE  \/ Push(z, e) = Append(z, e)
         \/ \E d \in {0, 1} :
              LET p == Push(z, e) IN
              /\ p \in Seq(TickEvents) /\ Len(p) = (Len(z) + 1) - d /\ Len(p) > 1 /\ p[1] = Gap
              /\ \A i \in 2..(Len(p) - 1) : p[i] = z[i + d]
              /\ p[Len(p)] = e
  <1> DEFINE drop == IF z # <<>> /\ Head(z) = Gap THEN 1 ELSE 0
             events == IF z # <<>> /\ Head(z) = Gap THEN Tail(z) ELSE z
  <1>1. /\ events \in Seq(TickEvents) /\ Len(events) = Len(z) - drop
        /\ \A i \in 1..Len(events) : events[i] = z[i + drop]
    <2>1. CASE z # <<>> /\ Head(z) = Gap
      BY <2>1
    <2>2. CASE ~(z # <<>> /\ Head(z) = Gap)
      BY <2>2
    <2> QED BY <2>1, <2>2
  <1>2. drop \in {0, 1}
    OBVIOUS
  <1>3. CASE Len(events) < MaxQueue
    BY <1>3 DEF Push
  <1>4. CASE ~(Len(events) < MaxQueue)
    <2>1. Push(z, e) = <<Gap>> \o Append(Tail(events), e)
      BY <1>4 DEF Push
    <2> HIDE DEF events, drop
    <2>2. Len(events) \in Nat /\ Len(events) > 0
      BY <1>1, <1>4, DataTapeAssumption
    <2> DEFINE r == Tail(events)
               a == Append(r, e)
               p == <<Gap>> \o a
    <2>3. /\ r \in Seq(TickEvents) /\ Len(r) = Len(events) - 1
          /\ \A i \in 1..Len(r) : r[i] = events[i + 1]
      BY <1>1, <2>2
    <2> HIDE DEF r
    <2>4. /\ a \in Seq(TickEvents) /\ Len(a) = Len(events) /\ a[Len(events)] = e
          /\ \A i \in 1..(Len(events) - 1) : a[i] = events[i + 1]
      BY <2>2, <2>3
    <2> HIDE DEF a
    <2>5. <<Gap>> \in Seq(TickEvents) /\ Len(<<Gap>>) = 1
      BY DEF TickEvents
    <2>6. /\ p \in Seq(TickEvents) /\ Len(p) = Len(events) + 1 /\ p[1] = Gap
          /\ \A i \in 2..Len(p) : p[i] = a[i - 1]
      BY <2>2, <2>4, <2>5
    <2> HIDE DEF p
    <2>7. ASSUME NEW i \in 2..(Len(p) - 1) PROVE p[i] = z[i + drop]
      <3>1. i \in 2..Len(p) /\ i - 1 \in 1..(Len(events) - 1) /\ (i - 1) + 1 = i
            /\ i \in 1..Len(events)
        BY <2>2, <2>6
      <3> QED BY <1>1, <2>4, <2>6, <3>1
    <2>8. p[Len(p)] = e
      <3>1. Len(p) \in 2..Len(p) /\ Len(p) - 1 = Len(events)
        BY <2>2, <2>6
      <3> QED BY <2>4, <2>6, <3>1
    <2>9. Len(p) = (Len(z) + 1) - drop /\ Len(p) > 1
      BY <1>1, <1>2, <2>2, <2>6
    <2>10. Push(z, e) = p
      BY <2>1 DEF p, a, r
    <2> QED BY <1>2, <2>6, <2>7, <2>8, <2>9, <2>10
  <1> QED BY <1>3, <1>4

(* The positions of the tape. *)
LEMMA TapeShape ==
  ASSUME NEW b \in Seq(TickEvents), NEW z \in Seq(TickEvents)
  PROVE  /\ b \o z \in Seq(TickEvents) /\ Len(b \o z) = Len(b) + Len(z)
         /\ \A i \in 1..Len(b) : (b \o z)[i] = b[i]
         /\ \A i \in 1..Len(z) : (b \o z)[Len(b) + i] = z[i]
  OBVIOUS

(* A push on the ticker's queue, on the tape. *)
LEMMA TapePushed ==
  ASSUME TapeTypes, NEW e \in TickEvent, batch' = batch,
         queue' = [queue EXCEPT !["ticker"] = Push(@, e)]
  PROVE  PushLinks(Tape, Tape', e)
  <1> DEFINE b == batch["ticker"]
             z == queue["ticker"]
             p == Push(z, e)
  <1>1. b \in Seq(TickEvents) /\ z \in Seq(TickEvents) /\ e \in TickEvents
    BY DEF TapeTypes, Events, TickEvents, TickEvent
  <1>2. Tape = b \o z /\ Tape' = b \o p
    BY DEF Tape, TapeTypes, Events, Streams
  <1>3. p \in Seq(TickEvents)
    BY <1>1, PushType DEF TickEvents
  <1>4. \/ p = Append(z, e)
        \/ \E d \in {0, 1} :
              /\ Len(p) = (Len(z) + 1) - d /\ Len(p) > 1 /\ p[1] = Gap
              /\ \A i \in 2..(Len(p) - 1) : p[i] = z[i + d]
              /\ p[Len(p)] = e
    BY <1>1, PushShape
  <1> HIDE DEF b, z, p
  <1> DEFINE q == b \o z
             t == b \o p
  <1>5. /\ q \in Seq(TickEvents) /\ Len(q) = Len(b) + Len(z)
        /\ \A i \in 1..Len(b) : q[i] = b[i]
        /\ \A i \in 1..Len(z) : q[Len(b) + i] = z[i]
    BY <1>1, TapeShape
  <1>6. /\ t \in Seq(TickEvents) /\ Len(t) = Len(b) + Len(p)
        /\ \A i \in 1..Len(b) : t[i] = b[i]
        /\ \A i \in 1..Len(p) : t[Len(b) + i] = p[i]
    BY <1>1, <1>3, TapeShape
  <1>7. Len(b) \in Nat /\ Len(z) \in Nat /\ Len(p) \in Nat
    BY <1>1, <1>3
  <1> HIDE DEF q, t
  <1>8. CASE p = Append(z, e)
    <2>1. Len(p) = Len(z) + 1 /\ p[Len(z) + 1] = e /\ \A i \in 1..Len(z) : p[i] = z[i]
      BY <1>1, <1>8
    <2>2. ASSUME NEW i \in 1..Len(q) PROVE t[i] = q[i]
      <3>1. CASE i \in 1..Len(b)
        BY <1>5, <1>6, <3>1
      <3>2. CASE i \notin 1..Len(b)
        <4>1. i - Len(b) \in 1..Len(z) /\ i - Len(b) \in 1..Len(p) /\ Len(b) + (i - Len(b)) = i
          BY <1>5, <1>7, <2>1, <3>2
        <4> QED BY <1>5, <1>6, <2>1, <4>1
      <3> QED BY <3>1, <3>2
    <2>3. Len(t) = Len(q) + 1 /\ t[Len(t)] = e
      <3>1. Len(p) \in 1..Len(p) /\ Len(t) = Len(b) + Len(p)
        BY <1>6, <1>7, <2>1
      <3> QED BY <1>5, <1>6, <1>7, <2>1, <3>1
    <2>4. Grown(q, t, e)
      BY <1>5, <1>6, <2>2, <2>3 DEF Grown
    <2> QED BY <1>2, <2>4, GrownLinks DEF q, t
  <1>9. ASSUME NEW d \in {0, 1}, Len(p) = (Len(z) + 1) - d, Len(p) > 1, p[1] = Gap,
               \A i \in 2..(Len(p) - 1) : p[i] = z[i + d], p[Len(p)] = e
        PROVE  PushLinks(Tape, Tape', e)
    <2> DEFINE n == Len(b)
    <2>0. d \in Nat /\ d <= 1
      BY <1>9
    <2>1. Len(t) = (Len(q) + 1) - d /\ n + 1 < Len(t) /\ n \in Nat
      BY <1>5, <1>6, <1>7, <1>9, <2>0
    <2>2. \A i \in 1..n : t[i] = q[i]
      BY <1>5, <1>6
    <2>3. t[n + 1] = Gap
      <3>1. 1 \in 1..Len(p)
        BY <1>7, <1>9
      <3> QED BY <1>6, <1>9, <3>1
    <2>4. ASSUME NEW i \in (n + 2)..(Len(t) - 1) PROVE t[i] = q[i + d]
      <3>1. /\ i - n \in 2..(Len(p) - 1) /\ i - n \in 1..Len(p) /\ n + (i - n) = i
            /\ (i - n) + d \in 1..Len(z) /\ n + ((i - n) + d) = i + d
        BY <1>6, <1>7, <1>9, <2>0
      <3>2. t[i] = p[i - n]
        BY <1>6, <3>1
      <3>3. p[i - n] = z[(i - n) + d]
        BY <1>9, <3>1
      <3>4. q[i + d] = z[(i - n) + d]
        BY <1>5, <3>1
      <3> QED BY <3>2, <3>3, <3>4
    <2>5. t[Len(t)] = e
      BY <1>6, <1>7, <1>9
    <2>6. Cut(q, t, e, n, d)
      BY <1>5, <1>6, <2>1, <2>2, <2>3, <2>4, <2>5 DEF Cut
    <2> QED BY <1>2, <2>6, CutLinks DEF q, t
  <1> QED BY <1>4, <1>8, <1>9

(* An event that is handled, or a gap that is left behind, is the first on the tape. *)
LEMMA TapeRests ==
  ASSUME TapeTypes, batch["ticker"] # <<>>, queue' = queue,
         batch' = [batch EXCEPT !["ticker"] = Tail(@)]
  PROVE  Rest(Tape, Tape') /\ Tape[1] = Head(batch["ticker"])
  <1> DEFINE b == batch["ticker"]
             z == queue["ticker"]
             c == Tail(b)
  <1>1. b \in Seq(TickEvents) /\ z \in Seq(TickEvents) /\ b # <<>>
    BY DEF TapeTypes, Events
  <1>2. Tape = b \o z /\ Tape' = c \o z
    BY DEF Tape, TapeTypes, Events, Streams
  <1> HIDE DEF b, z
  <1>3. /\ c \in Seq(TickEvents) /\ Len(b) = Len(c) + 1 /\ Len(c) \in Nat /\ Len(z) \in Nat
        /\ \A i \in 1..Len(c) : c[i] = b[i + 1]
    BY <1>1
  <1> HIDE DEF c
  <1>4. /\ b \o z \in Seq(TickEvents) /\ Len(b \o z) = Len(b) + Len(z)
        /\ \A i \in 1..Len(b) : (b \o z)[i] = b[i]
        /\ \A i \in 1..Len(z) : (b \o z)[Len(b) + i] = z[i]
    BY <1>1, TapeShape
  <1>5. /\ c \o z \in Seq(TickEvents) /\ Len(c \o z) = Len(c) + Len(z)
        /\ \A i \in 1..Len(c) : (c \o z)[i] = c[i]
        /\ \A i \in 1..Len(z) : (c \o z)[Len(c) + i] = z[i]
    BY <1>1, <1>3, TapeShape
  <1>6. ASSUME NEW i \in 1..Len(c \o z) PROVE (c \o z)[i] = (b \o z)[i + 1]
    <2>1. CASE i \in 1..Len(c)
      <3>1. i + 1 \in 1..Len(b)
        BY <1>3, <2>1
      <3> QED BY <1>3, <1>4, <1>5, <2>1, <3>1
    <2>2. CASE i \notin 1..Len(c)
      <3>1. /\ i - Len(c) \in 1..Len(z) /\ Len(c) + (i - Len(c)) = i
            /\ Len(b) + (i - Len(c)) = i + 1
        BY <1>3, <1>5, <2>2
      <3>2. (c \o z)[i] = z[i - Len(c)]
        BY <1>5, <3>1
      <3>3. (b \o z)[i + 1] = z[i - Len(c)]
        BY <1>4, <3>1
      <3> QED BY <3>2, <3>3
    <2> QED BY <2>1, <2>2
  <1>7. (b \o z)[1] = Head(b)
    BY <1>1, <1>3, <1>4
  <1>8. Len(b \o z) = Len(c \o z) + 1
    BY <1>3, <1>4, <1>5
  <1>9. Rest(b \o z, c \o z)
    BY <1>4, <1>5, <1>6, <1>8, Zenon DEF Rest
  <1> QED BY <1>2, <1>7, <1>9, Zenon DEF b

-----------------------------------------------------------------------------
\* NothingMixed

BookFits == TapeLinked /\ PendingFits /\ GapForgets /\ QuoteFits

(* Nothing of the book changes but, perhaps, what the pollers do about a gap. *)
LEMMA BookStays ==
  ASSUME BookFits, Tape' = Tape, UNCHANGED <<updates, open>>,
         \/ Clears
         \/ Keeps /\ stale'
         \/ /\ Keeps /\ stale' = stale
            /\ \/ pc'["ticker"] = pc["ticker"] /\ gaps' = gaps
               \/ pc'["ticker"] = "lock"
               \/ pc'["ticker"] = "run" /\ pc["ticker"] # "lock" /\ gaps' = gaps
               \/ pc'["ticker"] = "nap" /\ pc["ticker"] = "replay" /\ gaps' = gaps
  PROVE  BookFits'
  <1>1. TapeLinked'
    BY DEF BookFits, TapeLinked
  <1>2. CASE Clears
    <2>1. pending' = <<>> /\ bbo' = NoSides /\ DOMAIN pending' = {}
      BY <1>2 DEF Clears
    <2>2. \A s \in Sides : bbo'[s] = 0
      BY <2>1 DEF NoSides
    <2> QED BY <1>1, <2>1, <2>2 DEF BookFits, PendingFits, GapForgets, QuoteFits
  <1>3. CASE Keeps /\ stale'
    BY <1>1, <1>3 DEF BookFits, PendingFits, GapForgets, QuoteFits
  <1>4. CASE Keeps /\ stale' = stale
    <2>1. PendingFits'
      BY <1>4 DEF BookFits, PendingFits, Keeps
    <2>2. CASE pc'["ticker"] = pc["ticker"] /\ gaps' = gaps
      BY <1>1, <1>4, <2>1, <2>2 DEF BookFits, GapForgets, QuoteFits, Keeps
    <2>3. CASE pc'["ticker"] = "lock"
      BY <1>1, <1>4, <2>1, <2>3 DEF BookFits, GapForgets, QuoteFits, Keeps
    <2>4. CASE pc'["ticker"] = "run" /\ pc["ticker"] # "lock" /\ gaps' = gaps
      BY <1>1, <1>4, <2>1, <2>4 DEF BookFits, GapForgets, QuoteFits, Keeps
    <2>5. CASE pc'["ticker"] = "nap" /\ pc["ticker"] = "replay" /\ gaps' = gaps
      BY <1>1, <1>4, <2>1, <2>5 DEF BookFits, GapForgets, QuoteFits, Keeps
    <2> QED BY <1>2, <1>3, <1>4, <2>2, <2>3, <2>4, <2>5
  <1> QED BY <1>2, <1>3, <1>4

(* The venue sends a book message or a quote. *)
LEMMA VenueTicksFits ==
  ASSUME TapeTypes, BookFits, VenueTicks
  PROVE  BookFits'
  <1>0. batch' = batch /\ pc' = pc /\ UNCHANGED bookVars
    BY DEF VenueTicks, pollVars
  <1>1. GapForgets' /\ QuoteFits'
    BY <1>0 DEF bookVars, BookFits, GapForgets, QuoteFits
  <1>2. ASSUME NEW k \in BookKinds, NEW u,
               u = IF k \in {"middle", "end"} THEN updates ELSE updates + 1,
               updates' = u, open' = (k \in {"begin", "middle"}),
               queue' = [queue EXCEPT !["ticker"] = Push(@, Ev(k, u))]
        PROVE  TapeLinked' /\ PendingFits'
    <2> DEFINE e == Ev(k, u)
    <2>1. u \in Nat /\ k \in BookEvents
      BY <1>2 DEF TapeTypes, BookKinds, BookEvents
    <2>2. e \in TickEvent /\ e.k = k /\ e.u = u
      BY <2>1 DEF Ev, TickEvent
    <2>3. PushLinks(Tape, Tape', e)
      BY <1>0, <1>2, <2>2, TapePushed
    <2>4. k \in Parts => open /\ u = updates
      BY <1>2 DEF Parts, BookKinds
    <2>5. open' <=> k \in Opening
      BY <1>2 DEF Opening
    <2> HIDE DEF e
    <2>6. Linked(Tape')
      BY <2>2, <2>3, <2>4 DEF BookFits, TapeLinked, PushLinks
    <2>7. open' => LastOpen(Tape', updates')
      BY <1>2, <2>2, <2>3, <2>5 DEF PushLinks
    <2>8. ~AllQuotes(Tape')
      BY <2>1, <2>2, <2>3, Kinds3 DEF PushLinks
    <2>9. ASSUME ~stale, ~torn, NEW p \in DOMAIN pending PROVE FirstPart(Tape', pending[p])
      <3>1. FirstPart(Tape, pending[p]) /\ (open /\ AllQuotes(Tape) => pending[p] = updates)
        BY <2>9 DEF BookFits, PendingFits
      <3>2. e.k \in Parts /\ AllQuotes(Tape) => pending[p] = e.u
        BY <2>2, <2>4, <3>1
      <3> QED BY <2>3, <3>1, <3>2 DEF PushLinks
    <2>10. PendingFits'
      BY <1>0, <2>8, <2>9 DEF PendingFits, bookVars
    <2> QED BY <2>6, <2>7, <2>10 DEF TapeLinked
  <1>3. ASSUME NEW s \in Sides, queue' = [queue EXCEPT !["ticker"] = Push(@, Ev(s, 0))],
               UNCHANGED <<updates, open>>
        PROVE  TapeLinked' /\ PendingFits'
    <2> DEFINE e == Ev(s, 0)
    <2>2. e \in TickEvent /\ e.k \in Sides
      BY DEF Ev, TickEvent
    <2>3. PushLinks(Tape, Tape', e)
      BY <1>0, <1>3, <2>2, TapePushed
    <2> HIDE DEF e
    <2>4. e.k \notin Parts
      BY <2>2, Kinds3
    <2>6. TapeLinked'
      BY <1>3, <2>2, <2>3, <2>4 DEF BookFits, TapeLinked, PushLinks
    <2>9. ASSUME ~stale, ~torn, NEW p \in DOMAIN pending
          PROVE  /\ FirstPart(Tape', pending[p])
                 /\ open /\ AllQuotes(Tape') => pending[p] = updates
      BY <2>3, <2>4, <2>9 DEF PushLinks, BookFits, PendingFits
    <2>10. PendingFits'
      BY <1>0, <1>3, <2>9 DEF PendingFits, bookVars
    <2> QED BY <2>6, <2>10
  <1>4. TapeLinked' /\ PendingFits'
    BY <1>2, <1>3 DEF VenueTicks
  <1> QED BY <1>1, <1>4 DEF BookFits

(* A poller waits, resyncs, sleeps: the tape stays, and past a gap nothing is half
   received, unless the resync was skipped. *)
LEMMA PollerFits ==
  ASSUME TapeTypes, Handling, BookFits, NEW s \in Streams,
         Take(s) \/ SeeGap(s) \/ LockObtained(s) \/ ReplayEnds(s)
  PROVE  BookFits'
  <1>0. pc \in [Streams -> {"poll", "run", "lock", "replay", "nap"}] /\ "ticker" \in Streams
    BY DEF TapeTypes, Streams
  <1>1. CASE Take(s)
    <2>1. Tape' = Tape
      <3>1. CASE s = "ticker"
        <4>1. batch["ticker"] = <<>> /\ batch'["ticker"] = queue["ticker"] /\ queue'["ticker"] = <<>>
          BY <1>1, <3>1 DEF Take, Handling, TapeTypes, Events
        <4>2. queue["ticker"] \in Seq(TickEvents)
          BY DEF TapeTypes, Events
        <4> QED BY <4>1, <4>2 DEF Tape
      <3>2. CASE s # "ticker"
        BY <1>1, <3>2 DEF Take, Tape, TapeTypes, Events, Streams
      <3> QED BY <3>1, <3>2
    <2>2. Keeps /\ stale' = stale /\ gaps' = gaps /\ UNCHANGED <<updates, open>>
      BY <1>1 DEF Take, Keeps, bookVars, venueVars
    <2>3. \/ pc'["ticker"] = pc["ticker"]
          \/ pc'["ticker"] = "run" /\ pc["ticker"] # "lock"
      BY <1>0, <1>1 DEF Take
    <2> QED BY <2>1, <2>2, <2>3, BookStays
  <1>2. CASE SeeGap(s)
    <2>1. Tape' = Tape /\ UNCHANGED <<updates, open>>
      BY <1>2 DEF SeeGap, Tape, venueVars
    <2>2. CASE pc' = [pc EXCEPT ![s] = "lock"] /\ Keeps /\ stale' = stale
      <3>1. \/ pc'["ticker"] = pc["ticker"] /\ gaps' = gaps
            \/ pc'["ticker"] = "lock"
        BY <1>0, <1>2, <2>2, GapEffect
      <3> QED BY <2>1, <2>2, <3>1, BookStays
    <2>3. CASE Clears
      BY <2>1, <2>3, BookStays
    <2> QED BY <1>2, <2>2, <2>3, GapEffect
  <1>3. CASE LockObtained(s)
    <2>1. Tape' = Tape /\ UNCHANGED <<updates, open>> /\ gaps' = gaps
      BY <1>3 DEF LockObtained, Tape, venueVars
    <2>2. CASE pc' = [pc EXCEPT ![s] = "nap"] /\ Keeps /\ stale' = (stale \/ s = "ticker")
      <3>1. CASE s = "ticker"
        BY <2>1, <2>2, <3>1, BookStays
      <3>2. CASE s # "ticker"
        <4>1. pc'["ticker"] = pc["ticker"]
          BY <1>0, <2>2, <3>2
        <4>2. CASE stale
          BY <2>1, <2>2, <4>2, BookStays
        <4>3. CASE ~stale
          <5>1. ~stale' /\ Keeps
            BY <2>2, <3>2, <4>3
          <5>2. TapeLinked' /\ PendingFits' /\ GapForgets' /\ QuoteFits'
            BY <2>1, <4>1, <4>3, <5>1 DEF BookFits, TapeLinked, PendingFits, GapForgets,
                                          QuoteFits, Keeps
          <5> QED BY <5>2 DEF BookFits
        <4> QED BY <4>2, <4>3
      <3> QED BY <3>1, <3>2
    <2>3. CASE Clears
      BY <2>1, <2>3, BookStays
    <2> QED BY <1>3, <2>2, <2>3, LockEffect
  <1>4. CASE ReplayEnds(s)
    <2>1. Tape' = Tape /\ UNCHANGED <<updates, open>> /\ gaps' = gaps /\ Keeps /\ stale' = stale
      BY <1>4 DEF ReplayEnds, Tape, venueVars, bookVars, Keeps, TapeTypes, Events, Streams
    <2>2. \/ pc'["ticker"] = pc["ticker"]
          \/ pc'["ticker"] = "nap" /\ pc["ticker"] = "replay"
      BY <1>0, <1>4 DEF ReplayEnds
    <2> QED BY <2>1, <2>2, BookStays
  <1> QED BY <1>1, <1>2, <1>3, <1>4

(* The poller goes on past a gap: nothing is half received, unless the resync was skipped. *)
LEMMA WakeFits ==
  ASSUME TapeTypes, Handling, BookFits, NEW s \in Streams, Wake(s)
  PROVE  BookFits'
  <1>0. pc \in [Streams -> {"poll", "run", "lock", "replay", "nap"}] /\ "ticker" \in Streams
    BY DEF TapeTypes, Streams
  <1>1. UNCHANGED <<updates, open, gaps>> /\ Keeps /\ stale' = stale /\ queue' = queue
    BY DEF Wake, venueVars, bookVars, Keeps
  <1>2. CASE s = "ticker"
    <2>1. batch["ticker"] # <<>> /\ pc["ticker"] = "nap"
      BY <1>2 DEF Wake, Handling, Streams
    <2>2. pc'["ticker"] \in {"poll", "run"}
      BY <1>0, <1>2 DEF Wake, After
    <2>3. Rest(Tape, Tape')
      BY <1>1, <1>2, <2>1, TapeRests DEF Wake
    <2>4. TapeLinked'
      BY <1>1, <2>3, RestLinks, RestEnds DEF BookFits, TapeLinked
    <2>5. ~stale => pending = <<>>
      BY <2>1 DEF BookFits, GapForgets
    <2>6. PendingFits'
      BY <1>1, <2>5 DEF PendingFits, Keeps
    <2> QED BY <1>1, <2>1, <2>2, <2>4, <2>6 DEF BookFits, GapForgets, QuoteFits, Keeps
  <1>3. CASE s # "ticker"
    <2>1. Tape' = Tape /\ pc'["ticker"] = pc["ticker"]
      BY <1>0, <1>3 DEF Wake, Tape, TapeTypes, Events
    <2> QED BY <1>1, <2>1, BookStays
  <1> QED BY <1>2, <1>3

(* A quote is published only when both of its sides are of the same side of every gap. *)
LEMMA QuoteHandled ==
  ASSUME TapeTypes, BookFits, pc["ticker"] = "run", NEW e \in TickEvent, e.k \in Sides,
         DispatchTick(e), NothingMixed
  PROVE  /\ pending' = pending /\ torn' = torn /\ gaps' = gaps /\ stale' = stale
         /\ NothingMixed'
         /\ ~stale => \A s \in Sides : bbo'[s] \in {0, gaps}
  <1>1. gaps' = gaps /\ stale' = stale
    BY DEF DispatchTick
  <1>2. /\ pending' = pending /\ torn' = torn
        /\ bbo' \in {bbo, [bbo EXCEPT ![e.k] = gaps]}
        /\ \/ said' = said
           \/ (\A s \in Sides : bbo'[s] # 0) /\ Says(<<bbo'["bid"], bbo'["ask"]>>, "mixed")
    <2>1. CASE bbo_to_fields(e.k) /\ UNCHANGED <<pending, torn>>
      BY <2>1 DEF bbo_to_fields
    <2>2. CASE Unreadable(e)
      BY <2>2, UnreadableEffect
    <2> QED BY <2>1, <2>2 DEF DispatchTick
  <1>3. ~stale => \A s \in Sides : bbo'[s] \in {0, gaps}
    BY <1>2 DEF BookFits, QuoteFits, TapeTypes
  <1>4. NothingMixed'
    <2>1. CASE said' = said
      BY <2>1 DEF NothingMixed
    <2>2. CASE (\A s \in Sides : bbo'[s] # 0) /\ Says(<<bbo'["bid"], bbo'["ask"]>>, "mixed")
      <3> DEFINE parts == <<bbo'["bid"], bbo'["ask"]>>
      <3>1. CASE stale
        BY <2>2, <3>1 DEF Says, NothingMixed
      <3>2. CASE ~stale
        <4>1. bbo'["bid"] = gaps /\ bbo'["ask"] = gaps
          BY <1>3, <2>2, <3>2 DEF Sides
        <4>2. \A i, j \in DOMAIN parts : parts[i] = parts[j]
          BY <4>1
        <4> QED BY <2>2, <4>2 DEF Says, NothingMixed
      <3> QED BY <3>1, <3>2
    <2> QED BY <1>2, <2>1, <2>2
  <1> QED BY <1>1, <1>2, <1>3, <1>4

(* A book message: what is published at an update's end is of that update alone, and what
   stays half received is what the tape continues, also when the message is not read. *)
LEMMA BookHandled ==
  ASSUME TapeTypes, BookFits, NEW e \in TickEvent, e.k \in BookEvents, DispatchTick(e),
         NEW t, Rest(Tape, t), Tape[1] = e, NothingMixed
  PROVE  /\ bbo' = bbo /\ gaps' = gaps /\ stale' = stale
         /\ NothingMixed'
         /\ ~stale /\ ~torn' => \A p \in DOMAIN pending' :
              FirstPart(t, pending'[p]) /\ (open /\ AllQuotes(t) => pending'[p] = updates)
  <1>0. e.k \notin Sides
    BY Kinds3
  <1>1. /\ feed(e) \/ Unreadable(e)
        /\ bbo' = bbo /\ gaps' = gaps /\ stale' = stale
    BY <1>0, UnreadableEffect DEF DispatchTick
  <1>2. \A p \in DOMAIN pending : ~stale /\ ~torn => FirstPart(Tape, pending[p])
    BY DEF BookFits, PendingFits
  <1>3. Len(Tape) \in Nat /\ Len(Tape) > 0
    BY DEF Rest
  <1>4. ~stale /\ ~torn /\ e.k \in Parts => \A p \in DOMAIN pending : pending[p] = e.u
    <2>1. 1 \in 1..Len(Tape) /\ Between(Tape, 0, 1)
      BY <1>3 DEF Between
    <2> QED BY <1>2, <2>1 DEF FirstPart
  \* What follows is of the same update, or does not continue one.
  <1>5. \A j \in 1..Len(t) : Between(t, 0, j) /\ t[j].k \in Parts => e.k \in Opening /\ e.u = t[j].u
    BY RestLinks DEF BookFits, TapeLinked
  <1>6. open /\ AllQuotes(t) => e.k \in Opening /\ e.u = updates
    BY RestEnds DEF BookFits, TapeLinked
  <1>7. e.k \in Opening => FirstPart(t, e.u)
    BY <1>5 DEF FirstPart
  <1>8. e.k \notin Opening => (\A v : FirstPart(t, v)) /\ ~(open /\ AllQuotes(t))
    BY <1>5, <1>6 DEF FirstPart
  <1>9. ASSUME NEW u, NEW otherwise, Says(<<u>>, otherwise) PROVE NothingMixed'
    <2>1. \A i, j \in DOMAIN <<u>> : <<u>>[i] = <<u>>[j]
      OBVIOUS
    <2> QED BY <1>9, <2>1 DEF Says, NothingMixed
  <1>11. pending \in Seq(Nat) /\ e.u \in Nat
    BY DEF TapeTypes, TickEvent
  <1> DEFINE otherwise == IF torn THEN "unread" ELSE "mixed"
  <1>12. CASE e.k = "image" /\ pending' = <<>> /\ Says(<<e.u>>, "mixed")
    BY <1>1, <1>9, <1>12
  <1>13. CASE e.k = "begin" /\ pending' = <<e.u>> /\ said' = said
    <2>1. \A p \in DOMAIN pending' : pending'[p] = e.u
      BY <1>13
    <2>2. e.k \in Opening
      BY <1>13 DEF Opening
    <2> QED BY <1>1, <1>6, <1>7, <1>13, <2>1, <2>2 DEF NothingMixed
  <1>14. CASE /\ e.k = "middle" /\ pending' = Append(pending, e.u) /\ said' = said
              /\ torn => torn'
    <2>1. e.k \in Opening /\ e.k \in Parts
      BY <1>14 DEF Opening, Parts
    <2>2. ASSUME ~stale, ~torn', NEW p \in DOMAIN pending' PROVE pending'[p] = e.u
      BY <1>4, <1>11, <1>14, <2>1, <2>2
    <2> QED BY <1>1, <1>6, <1>7, <1>14, <2>1, <2>2 DEF NothingMixed
  <1>15. CASE e.k = "end" /\ pending' = <<>> /\ Says(Append(pending, e.u), otherwise)
    <2> DEFINE parts == Append(pending, e.u)
    <2>1. NothingMixed'
      <3>1. CASE stale \/ torn
        BY <1>15, <3>1 DEF Says, NothingMixed
      <3>2. CASE ~stale /\ ~torn
        <4>1. \A p \in DOMAIN pending : pending[p] = e.u
          BY <1>4, <1>15, <3>2 DEF Parts
        <4>2. \A i \in DOMAIN parts : parts[i] = e.u
          BY <1>11, <4>1
        <4> HIDE DEF parts
        <4>3. \A i, j \in DOMAIN parts : parts[i] = parts[j]
          BY <4>2
        <4>4. Says(parts, otherwise)
          BY <1>15 DEF parts
        <4> QED BY <4>3, <4>4 DEF Says, NothingMixed
      <3> QED BY <3>1, <3>2
    <2> QED BY <1>1, <1>15, <2>1
  <1>16. CASE /\ e.k = "solo" /\ pending' = pending /\ Says(<<e.u>>, otherwise)
              /\ torn => torn'
    <2>1. e.k \notin Opening
      BY <1>16 DEF Opening
    <2> QED BY <1>1, <1>8, <1>9, <1>16, <2>1
  <1>17. CASE feed(e)
    BY <1>12, <1>13, <1>14, <1>15, <1>16, <1>17, FeedEffect
  <1>18. CASE Unreadable(e)
    <2>1. said' = said
      BY <1>18, UnreadableEffect
    <2>2. CASE pending' = <<>>
      BY <1>1, <2>1, <2>2 DEF NothingMixed
    <2>3. CASE /\ pending' = pending
               /\ torn \/ (e.k = "begin" /\ pending # <<>>) => torn'
      <3>1. CASE e.k \notin Opening
        BY <1>1, <1>8, <2>1, <2>3, <3>1 DEF NothingMixed
      <3>2. CASE e.k = "begin"
        BY <1>1, <2>1, <2>3, <3>2 DEF NothingMixed
      \* The parts that stay are of the update whose middle was not read.
      <3>3. CASE e.k = "middle"
        <4>1. e.k \in Opening /\ e.k \in Parts
          BY <3>3 DEF Opening, Parts
        <4>2. ASSUME ~stale, ~torn', NEW p \in DOMAIN pending' PROVE pending'[p] = e.u
          BY <1>4, <2>3, <4>1, <4>2
        <4>3. NothingMixed'
          BY <2>1 DEF NothingMixed
        <4>4. FirstPart(t, e.u) /\ (open /\ AllQuotes(t) => e.u = updates)
          BY <1>6, <1>7, <4>1
        <4> QED BY <1>1, <4>2, <4>3, <4>4
      <3> QED BY <3>1, <3>2, <3>3 DEF Opening
    <2> QED BY <1>0, <1>18, <2>2, <2>3, UnreadableEffect
  <1> QED BY <1>1, <1>17, <1>18

(* An event of either stream is handled. *)
LEMMA DispatchFits ==
  ASSUME TapeTypes, Handling, BookFits, NothingMixed, NEW s \in Streams, _dispatch_event(s)
  PROVE  BookFits' /\ NothingMixed'
  <1>0. pc \in [Streams -> {"poll", "run", "lock", "replay", "nap"}] /\ "ticker" \in Streams
    BY DEF TapeTypes, Streams
  <1>1. /\ batch[s] # <<>> /\ batch' = [batch EXCEPT ![s] = Tail(@)]
        /\ UNCHANGED <<updates, open, queue>>
        /\ pc' = [pc EXCEPT ![s] = IF Tail(batch[s]) = <<>> THEN "poll" ELSE "run"]
        /\ pc[s] = "run"
    BY DispatchShape DEF _dispatch_event
  <1>2. CASE s = "ticker"
    <2> DEFINE e == Head(batch[s])
    <2>1. e \in TickEvent /\ DispatchTick(e)
      BY <1>2, DispatchShape
    <2>2. Rest(Tape, Tape') /\ Tape[1] = e
      BY <1>1, <1>2, TapeRests
    <2> HIDE DEF e
    <2>3. TapeLinked'
      BY <1>1, <2>2, RestLinks, RestEnds DEF BookFits, TapeLinked
    <2>4. pc["ticker"] = "run" /\ pc'["ticker"] \in {"poll", "run"}
      BY <1>0, <1>1, <1>2
    <2>5. CASE e.k \in Sides
      <3>1. /\ pending' = pending /\ torn' = torn /\ gaps' = gaps /\ stale' = stale
            /\ NothingMixed'
            /\ ~stale => \A x \in Sides : bbo'[x] \in {0, gaps}
        BY <2>1, <2>4, <2>5, QuoteHandled
      <3>2. /\ \A v : FirstPart(Tape, v) => FirstPart(Tape', v)
            /\ AllQuotes(Tape') => AllQuotes(Tape)
        BY <2>2, <2>5, RestOfQuote
      <3>3. PendingFits'
        BY <1>1, <3>1, <3>2 DEF BookFits, PendingFits
      <3> QED BY <2>3, <2>4, <3>1, <3>3 DEF BookFits, GapForgets, QuoteFits
    <2>6. CASE e.k \in BookEvents
      <3>1. /\ bbo' = bbo /\ gaps' = gaps /\ stale' = stale
            /\ NothingMixed'
            /\ ~stale /\ ~torn' => \A p \in DOMAIN pending' :
                 /\ FirstPart(Tape', pending'[p])
                 /\ open /\ AllQuotes(Tape') => pending'[p] = updates
        BY <2>1, <2>2, <2>6, BookHandled
      <3>2. PendingFits'
        BY <1>1, <3>1 DEF PendingFits
      <3> QED BY <2>3, <2>4, <3>1, <3>2 DEF BookFits, GapForgets, QuoteFits
    <2> QED BY <2>1, <2>5, <2>6 DEF TickEvent
  <1>3. CASE s # "ticker"
    <2>1. s = "history"
      BY <1>3 DEF Streams
    <2>2. UNCHANGED bookVars
      BY <2>1, DispatchShape DEF DispatchBar
    <2>3. Tape' = Tape /\ pc'["ticker"] = pc["ticker"]
      BY <1>0, <1>1, <1>3 DEF Tape, TapeTypes, Events
    <2>4. Keeps /\ stale' = stale /\ gaps' = gaps /\ said' = said
      BY <2>2 DEF bookVars, Keeps
    <2> QED BY <1>1, <2>3, <2>4, BookStays DEF NothingMixed
  <1> QED BY <1>2, <1>3

(* Every step keeps what is half received in step with what the tape continues. *)
LEMMA BookStep ==
  ASSUME TapeTypes, Handling, BookFits, NothingMixed, [Next]_vars
  PROVE  BookFits' /\ NothingMixed'
  <1>1. CASE VenueTicks
    BY <1>1, VenueTicksFits DEF VenueTicks, bookVars, NothingMixed
  <1>2. CASE BarCloses
    <2>1. Tape' = Tape /\ pc' = pc /\ UNCHANGED <<updates, open>>
      BY <1>2 DEF BarCloses, Tape, pollVars, TapeTypes, Events, Streams
    <2>2. Keeps /\ stale' = stale /\ gaps' = gaps /\ said' = said
      BY <1>2 DEF BarCloses, bookVars, Keeps
    <2> QED BY <2>1, <2>2, BookStays DEF NothingMixed
  <1>3. CASE _reconcile_md_after_resumed
    <2>1. Tape' = Tape /\ UNCHANGED <<updates, open>> /\ said' = said
      BY <1>3 DEF _reconcile_md_after_resumed, Tape, pollVars, venueVars
    <2>2. Clears
      BY <1>3, Zenon DEF _reconcile_md_after_resumed, Forget, Clears
    <2> QED BY <2>1, <2>2, BookStays DEF NothingMixed
  <1>4. ASSUME NEW s \in Streams, Poller(s) PROVE BookFits' /\ NothingMixed'
    <2>1. CASE _dispatch_event(s)
      BY <2>1, DispatchFits
    <2>2. CASE Take(s) \/ SeeGap(s) \/ LockObtained(s) \/ ReplayEnds(s)
      <3>1. said' = said
        BY <2>2 DEF Take, SeeGap, LockObtained, ReplayEnds, bookVars
      <3> QED BY <2>2, <3>1, PollerFits DEF NothingMixed
    <2>3. CASE Wake(s)
      <3>1. said' = said
        BY <2>3 DEF Wake, bookVars
      <3> QED BY <2>3, <3>1, WakeFits DEF NothingMixed
    <2> QED BY <1>4, <2>1, <2>2, <2>3 DEF Poller
  <1>5. ASSUME NEW r \in Requests, Request(r) PROVE BookFits' /\ NothingMixed'
    <2>1. UNCHANGED <<updates, open, closed, onClose, queue, pollVars, bookVars>>
      BY <1>5, RequestFrames
    <2>2. Tape' = Tape /\ pc' = pc /\ Keeps /\ stale' = stale /\ gaps' = gaps /\ said' = said
      BY <2>1 DEF Tape, pollVars, bookVars, Keeps
    <2> QED BY <2>1, <2>2, BookStays DEF NothingMixed
  <1>6. CASE UNCHANGED vars
    <2>1. Tape' = Tape /\ pc' = pc /\ Keeps /\ stale' = stale /\ gaps' = gaps /\ said' = said
          /\ UNCHANGED <<updates, open>>
      BY <1>6 DEF vars, Tape, Keeps
    <2> QED BY <2>1, BookStays DEF NothingMixed
  <1> QED BY <1>1, <1>2, <1>3, <1>4, <1>5, <1>6 DEF Next

(* Nothing is published that was half received before events were lost and completed with
   what came after them, whichever messages could not be read: neither a book batch nor a
   quote. Excepted are a resync that was skipped and an update whose begin could not be
   read while the parts of an earlier update were still held. *)
THEOREM NothingIsMixed == Spec => []NothingMixed
  <1>1. Init => BarInv /\ Handling /\ BookFits /\ NothingMixed
    <2> SUFFICES ASSUME Init PROVE BookFits /\ NothingMixed
      BY BarInit
    <2>1. Tape = <<>> /\ pending = <<>> /\ open = FALSE /\ pc["ticker"] = "poll"
      BY DEF Init, Tape, Streams
    <2>2. Len(Tape) = 0 /\ DOMAIN pending = {}
      BY <2>1
    <2>3. \A x \in Sides : bbo[x] = 0
      BY DEF Init, NoSides
    <2>4. TapeLinked
      BY <2>1, <2>2 DEF TapeLinked, Linked
    <2>5. PendingFits /\ GapForgets /\ QuoteFits
      BY <2>1, <2>2, <2>3 DEF PendingFits, GapForgets, QuoteFits
    <2> QED BY <2>4, <2>5 DEF BookFits, NothingMixed, Init
  <1>2. BarInv /\ Handling /\ BookFits /\ NothingMixed /\ [Next]_vars
          => (BarInv /\ Handling /\ BookFits /\ NothingMixed)'
    BY BarStep, BookStep DEF BarInv
  <1> QED BY <1>1, <1>2, PTL DEF Spec

-----------------------------------------------------------------------------
\* Exposure: positions, orders and the inventory

-----------------------------------------------------------------------------
Symbols == Contracts \cup {AnySymbol}
States  == {"none", "working", "partial", "filled", "canceled"}
PnlRows == [c : Symbols, q : Nat, burst : BOOLEAN]

ExposureTypes ==
  /\ now \in Nat /\ net \in [Contracts -> Nat] /\ order \in [Contracts -> States]
  /\ wire \in Seq(PnlRows) /\ liveSince \in Nat \cup {None}
  /\ rows \in [Contracts -> Nat \cup {None}] /\ seenAt \in [Contracts -> Nat \cup {None}]
  /\ missed \subseteq Contracts /\ skipped \subseteq Contracts

\* Rows are pending on a served stream only. What a contract was last seen at is past; on a
\* stream that is not yet observed, it is before now, so that no row counts as its own.
Clocks == /\ wire # <<>> => on
          /\ liveSince # None => liveSince <= now
          /\ \A c \in Contracts : /\ seenAt[c] <= now
                                  /\ liveSince = None => seenAt[c] < now

\* The last row of a contract on the wire has its net.
LastRowIsNet ==
  \A i \in 1..Len(wire) :
    wire[i].c \in Contracts /\ (\A j \in (i + 1)..Len(wire) : wire[j].c # wire[i].c) =>
      wire[i].q = net[wire[i].c]

\* A burst is over when the window is.
BurstInWindow == BurstPending /\ liveSince # None => now - liveSince < Settle

\* A contract without a row on its way, lost, discarded or unreadable: the row of this
\* stream has its net, and without one it is flat.
Fresh(c) == liveSince # None /\ rows[c] # None /\ seenAt[c] >= liveSince
Settled(c) == /\ on \/ liveSince # None
              /\ c \notin Pending /\ c \notin missed /\ c \notin skipped
              /\ c \notin unread /\ AnySymbol \notin unread
RowsAreTrue == \A c \in Contracts : Settled(c) => IF Fresh(c) THEN rows[c] = net[c] ELSE net[c] = 0

DrainIsTrue == asked.pc = "drained" => asked.open \in {None, asked.work}


-----------------------------------------------------------------------------
\* Bursts

(* SetToSeq lists a finite set without repetition and without omission. *)
LEMMA SetListed ==
  ASSUME NEW S, IsFiniteSet(S)
  PROVE  /\ Cardinality(S) \in Nat
         /\ SetToSeq(S) \in [1..Cardinality(S) -> S]
         /\ \A i, j \in 1..Cardinality(S) : SetToSeq(S)[i] = SetToSeq(S)[j] => i = j
         /\ \A x \in S : \E i \in 1..Cardinality(S) : SetToSeq(S)[i] = x
  <1> DEFINE n == Cardinality(S)
             f == SetToSeq(S)
  <1>1. n \in Nat /\ ExistsBijection(1..n, S)
    BY FS_CardinalityType
  <1>2. PICK g : g \in Bijection(1..n, S)
    BY <1>1 DEF ExistsBijection
  <1>3. g \in [1..n -> S] /\ IsInjective(g)
    BY <1>2 DEF Bijection, Injection, IsInjective
  <1>4. f \in [1..n -> S] /\ IsInjective(f)
    BY <1>3 DEF SetToSeq
  <1> HIDE DEF f, n
  <1>5. f \in Injection(1..n, S)
    BY <1>4 DEF Injection, IsInjective
  <1>6. IsFiniteSet(1..n) /\ Cardinality(1..n) = n
    BY <1>1, FS_Interval
  <1>7. f \in Surjection(1..n, S)
    BY <1>5, <1>6, FS_Injection DEF n
  <1>8. \A i, j \in 1..n : f[i] = f[j] => i = j
    BY <1>4 DEF IsInjective
  <1>9. \A x \in S : \E i \in 1..n : f[i] = x
    BY <1>7 DEF Surjection
  <1> QED BY <1>1, <1>4, <1>8, <1>9 DEF f, n

\* The contracts a burst is about.
Open == {d \in Contracts : net[d] # 0}

(* A burst is an account row and then one row of each contract that is not flat. *)
LEMMA BurstRows ==
  ASSUME net \in [Contracts -> Nat]
  PROVE  /\ Burst \in Seq(PnlRows) /\ Len(Burst) > 0
         /\ Burst[1].c = AnySymbol
         /\ \A i \in 2..Len(Burst) : /\ Burst[i].c \in Contracts
                                     /\ Burst[i] = Row(Burst[i].c, net[Burst[i].c], TRUE)
         /\ \A i, j \in 2..Len(Burst) : Burst[i].c = Burst[j].c => i = j
         /\ \A c \in Open : \E i \in 2..Len(Burst) : Burst[i].c = c
  <1> DEFINE S == {Row(c, net[c], TRUE) : c \in Open}
             f == [c \in Open |-> Row(c, net[c], TRUE)]
             first == <<Row(AnySymbol, 0, FALSE)>>
             rest == SetToSeq(S)
             n == Cardinality(S)
  <1>1. IsFiniteSet(Open)
    BY ExposureAssumption, FS_Subset DEF Open
  <1>2. f \in Surjection(Open, S)
    BY DEF Surjection
  <1>3. IsFiniteSet(S)
    <2> HIDE DEF S, f
    <2> QED BY <1>1, <1>2, FS_Surjection
  <1>4. Burst = first \o rest
    BY Zenon DEF Burst, Open
  <1>5. \A r \in S : r.c \in Open /\ r = Row(r.c, net[r.c], TRUE) /\ r \in PnlRows
    <2> SUFFICES ASSUME NEW c \in Open, NEW r, r = Row(c, net[c], TRUE)
                 PROVE  r.c \in Open /\ r = Row(r.c, net[r.c], TRUE) /\ r \in PnlRows
      OBVIOUS
    <2>1. r.c = c /\ net[c] \in Nat /\ c \in Symbols
      BY DEF Row, Open, Symbols
    <2> QED BY <2>1 DEF Row, PnlRows
  <1>6. \A c \in Open : \E r \in S : r.c = c
    <2> SUFFICES ASSUME NEW c \in Open PROVE \E r \in S : r.c = c
      OBVIOUS
    <2>1. Row(c, net[c], TRUE) \in S /\ Row(c, net[c], TRUE).c = c
      BY DEF Row
    <2> QED BY <2>1
  <1>7. first \in Seq(PnlRows) /\ Len(first) = 1 /\ first[1].c = AnySymbol
    BY DEF Row, PnlRows, Symbols
  <1> HIDE DEF S, first
  <1>8. /\ n \in Nat /\ rest \in [1..n -> S]
        /\ \A i, j \in 1..n : rest[i] = rest[j] => i = j
        /\ \A x \in S : \E i \in 1..n : rest[i] = x
    BY <1>3, SetListed
  <1> HIDE DEF rest, n
  <1>9. rest \in Seq(PnlRows) /\ Len(rest) = n
    <2>1. rest \in [1..n -> PnlRows]
      BY <1>5, <1>8
    <2> QED BY <1>8, <2>1
  <1>10. /\ Burst \in Seq(PnlRows) /\ Len(Burst) = n + 1 /\ Burst[1] = first[1]
         /\ \A i \in 2..(n + 1) : Burst[i] = rest[i - 1] /\ i - 1 \in 1..n
    <2>1. /\ first \o rest \in Seq(PnlRows)
          /\ Len(first \o rest) = Len(first) + Len(rest)
          /\ \A i \in 1..(Len(first) + Len(rest)) :
               (first \o rest)[i] = IF i <= Len(first) THEN first[i] ELSE rest[i - Len(first)]
      BY <1>7, <1>9, ConcatProperties, Zenon
    <2>2. /\ Burst \in Seq(PnlRows) /\ Len(Burst) = 1 + n
          /\ \A i \in 1..(1 + n) : Burst[i] = IF i <= 1 THEN first[i] ELSE rest[i - 1]
      BY <1>4, <1>7, <1>9, <2>1, Zenon
    <2>3. 1 \in 1..(1 + n) /\ 1 + n = n + 1
      BY <1>8
    <2>4. ASSUME NEW i \in 2..(n + 1)
          PROVE  i \in 1..(1 + n) /\ ~ (i <= 1) /\ i - 1 \in 1..n
      BY <1>8, <2>4
    <2>5. Burst[1] = first[1]
      BY <2>2, <2>3
    <2> QED BY <2>2, <2>3, <2>4, <2>5
  <1>11. \A i \in 2..(n + 1) : Burst[i] \in S
    BY <1>8, <1>10
  <1>12. ASSUME NEW i \in 2..(n + 1), NEW j \in 2..(n + 1), Burst[i].c = Burst[j].c
         PROVE  i = j
    <2>1. Burst[i] = Burst[j]
      BY <1>5, <1>11, <1>12
    <2>2. rest[i - 1] = rest[j - 1] /\ i - 1 \in 1..n /\ j - 1 \in 1..n
      BY <1>10, <2>1
    <2> QED BY <1>8, <2>2
  <1>13. ASSUME NEW c \in Open PROVE \E i \in 2..(n + 1) : Burst[i].c = c
    <2>1. PICK r \in S : r.c = c
      BY <1>6
    <2>2. PICK i \in 1..n : rest[i] = r
      BY <1>8
    <2>3. i + 1 \in 2..(n + 1) /\ Burst[i + 1] = rest[(i + 1) - 1] /\ (i + 1) - 1 = i
      BY <1>10, <1>8
    <2> QED BY <2>1, <2>2, <2>3
  <1>14. \A i \in 2..(n + 1) : /\ Burst[i].c \in Contracts
                               /\ Burst[i] = Row(Burst[i].c, net[Burst[i].c], TRUE)
    BY <1>5, <1>11 DEF Open
  <1>15. Len(Burst) = n + 1 /\ n + 1 > 0
    BY <1>8, <1>10
  <1>16. Burst \in Seq(PnlRows) /\ Burst[1].c = AnySymbol
    BY <1>7, <1>10
  <1> HIDE DEF Open
  <1> QED BY <1>12, <1>13, <1>14, <1>15, <1>16

-----------------------------------------------------------------------------
\* The rows on the wire

(* A row is handled: the others keep their order, and the one in hand has the net of its
   contract if it was the last one. *)
LEMMA HandledWire ==
  ASSUME ExposureTypes, LastRowIsNet, Handled
  PROVE  /\ wire' \in Seq(PnlRows) /\ Head(wire) \in PnlRows
         /\ Pending = Pending' \cup {Head(wire).c}
         /\ BurstPending' => BurstPending
         /\ LastRowIsNet'
         /\ Head(wire).c \in Contracts \ Pending' => Head(wire).q = net[Head(wire).c]
  <1>1. wire \in Seq(PnlRows) /\ wire # <<>> /\ wire' = Tail(wire) /\ net' = net
    BY DEF Handled, ExposureTypes, venueSide
  <1> DEFINE m == Len(wire)
             w == wire'
  <1>2. /\ m \in Nat /\ m > 0 /\ w \in Seq(PnlRows) /\ Len(w) = m - 1
        /\ \A i \in 1..(m - 1) : w[i] = wire[i + 1]
        /\ Head(wire) = wire[1] /\ wire[1] \in PnlRows
        /\ DOMAIN wire = 1..m /\ DOMAIN w = 1..(m - 1)
    BY <1>1
  <1> HIDE DEF m, w
  <1>3. \A i \in 2..m : i - 1 \in 1..(m - 1) /\ w[i - 1] = wire[i]
    <2> SUFFICES ASSUME NEW i \in 2..m PROVE i - 1 \in 1..(m - 1) /\ w[i - 1] = wire[i]
      OBVIOUS
    <2>1. i - 1 \in 1..(m - 1) /\ (i - 1) + 1 = i
      BY <1>2
    <2> QED BY <1>2, <2>1
  <1>4. Pending = {wire[i].c : i \in 1..m} /\ Pending' = {w[i].c : i \in 1..(m - 1)}
    BY <1>2 DEF Pending, w
  <1>5. Pending = Pending' \cup {Head(wire).c}
    <2>1. ASSUME NEW i \in 1..m PROVE wire[i].c \in {w[j].c : j \in 1..(m - 1)} \cup {wire[1].c}
      <3>1. CASE i = 1
        BY <3>1
      <3>2. CASE i # 1
        <4>1. i \in 2..m
          BY <1>2, <3>2
        <4> QED BY <1>3, <4>1
      <3> QED BY <3>1, <3>2
    <2>2. ASSUME NEW i \in 1..(m - 1) PROVE w[i].c \in {wire[j].c : j \in 1..m}
      BY <1>2
    <2>3. 1 \in 1..m
      BY <1>2
    <2> QED BY <1>2, <1>4, <2>1, <2>2, <2>3
  <1>6. BurstPending' => BurstPending
    <2> SUFFICES ASSUME NEW i \in 1..(m - 1), w[i].burst PROVE BurstPending
      BY <1>2 DEF BurstPending, w
    <2>1. i + 1 \in 1..m /\ w[i] = wire[i + 1]
      BY <1>2
    <2>2. wire[i + 1].burst
      BY <2>1, Zenon
    <2> QED BY <1>2, <2>1, <2>2, Zenon DEF BurstPending
  <1>7. LastRowIsNet'
    <2> SUFFICES ASSUME NEW i \in 1..(m - 1), w[i].c \in Contracts,
                        \A j \in (i + 1)..(m - 1) : w[j].c # w[i].c
                 PROVE  w[i].q = net[w[i].c]
      BY <1>1, <1>2 DEF LastRowIsNet, w
    <2>1. i + 1 \in 1..m /\ w[i] = wire[i + 1]
      BY <1>2
    <2>2. ASSUME NEW j \in ((i + 1) + 1)..m PROVE wire[j].c # wire[i + 1].c
      <3>1. j \in 2..m /\ j - 1 \in (i + 1)..(m - 1)
        BY <1>2
      <3> QED BY <1>3, <2>1, <3>1
    <2> QED BY <2>1, <2>2 DEF LastRowIsNet, m
  <1>8. ASSUME Head(wire).c \in Contracts \ Pending' PROVE Head(wire).q = net[Head(wire).c]
    <2>1. 1 \in 1..m /\ wire[1].c \in Contracts
      BY <1>2, <1>8
    <2>2. ASSUME NEW j \in (1 + 1)..m PROVE wire[j].c # wire[1].c
      <3>1. j \in 2..m
        OBVIOUS
      <3> QED BY <1>2, <1>3, <1>4, <1>8, <3>1
    <2> QED BY <1>2, <2>1, <2>2 DEF LastRowIsNet, m
  <1> QED BY <1>2, <1>5, <1>6, <1>7, <1>8 DEF w

(* A row of a contract is added, with the contract's new net. *)
LEMMA AddedRow ==
  ASSUME ExposureTypes, LastRowIsNet, NEW d \in Contracts, NEW q \in Nat,
         net' = [net EXCEPT ![d] = q], wire' = Append(wire, Row(d, q, FALSE))
  PROVE  /\ wire' \in Seq(PnlRows) /\ Pending' = Pending \cup {d}
         /\ BurstPending' => BurstPending
         /\ LastRowIsNet'
  <1> DEFINE m == Len(wire)
             w == wire'
             r == Row(d, q, FALSE)
  <1>1. r \in PnlRows /\ r.c = d /\ r.q = q /\ ~ r.burst
    BY DEF Row, PnlRows, Symbols
  <1>2. wire \in Seq(PnlRows) /\ net \in [Contracts -> Nat]
    BY DEF ExposureTypes
  <1> HIDE DEF r
  <1>3. /\ m \in Nat /\ w \in Seq(PnlRows) /\ Len(w) = m + 1
        /\ \A i \in 1..m : w[i] = wire[i]
        /\ w[m + 1] = r
        /\ DOMAIN wire = 1..m /\ DOMAIN w = 1..(m + 1)
    <2>1. w = Append(wire, r)
      BY DEF r
    <2> HIDE DEF w
    <2> QED BY <1>1, <1>2, <2>1
  <1> HIDE DEF m, w
  <1>4. \A i \in 1..(m + 1) : i \in 1..m \/ i = m + 1
    BY <1>3
  <1>5. 1..m \subseteq 1..(m + 1) /\ m + 1 \in 1..(m + 1)
    BY <1>3
  <1>6. Pending = {wire[i].c : i \in 1..m} /\ Pending' = {w[i].c : i \in 1..(m + 1)}
    BY <1>3 DEF Pending, w
  <1>7. Pending' = Pending \cup {d}
    <2>1. ASSUME NEW i \in 1..(m + 1) PROVE w[i].c \in Pending \cup {d}
      BY <1>1, <1>3, <1>4, <1>6
    <2>2. ASSUME NEW i \in 1..m PROVE wire[i].c \in Pending'
      BY <1>3, <1>5, <1>6
    <2>3. d \in Pending'
      BY <1>1, <1>3, <1>5, <1>6
    <2> QED BY <1>6, <2>1, <2>2, <2>3
  <1>8. BurstPending' => BurstPending
    <2> SUFFICES ASSUME NEW i \in 1..(m + 1), w[i].burst PROVE BurstPending
      BY <1>3 DEF BurstPending, w
    <2>1. i # m + 1
      BY <1>1, <1>3, Zenon
    <2>2. i \in 1..m /\ wire[i].burst
      BY <1>3, <1>4, <2>1, Zenon
    <2> QED BY <1>3, <2>2 DEF BurstPending
  <1>9. LastRowIsNet'
    <2> SUFFICES ASSUME NEW i \in 1..(m + 1), w[i].c \in Contracts,
                        \A j \in (i + 1)..(m + 1) : w[j].c # w[i].c
                 PROVE  w[i].q = net'[w[i].c]
      BY <1>3 DEF LastRowIsNet, w
    <2>1. CASE i = m + 1
      BY <1>1, <1>2, <1>3, <2>1
    <2>2. CASE i # m + 1
      <3>1. i \in 1..m /\ m + 1 \in (i + 1)..(m + 1)
        BY <1>3, <2>2
      <3>2. w[i] = wire[i] /\ w[i].c # d
        BY <1>1, <1>3, <3>1
      <3>3. \A j \in (i + 1)..m : j \in (i + 1)..(m + 1) /\ j \in 1..m
        BY <1>3, <3>1
      <3>4. \A j \in (i + 1)..m : wire[j].c # wire[i].c
        BY <1>3, <3>2, <3>3
      <3>5. wire[i].q = net[wire[i].c]
        BY <3>1, <3>2, <3>4 DEF LastRowIsNet, m
      <3> QED BY <1>2, <3>2, <3>5
    <2> QED BY <2>1, <2>2
  <1> QED BY <1>3, <1>7, <1>8, <1>9 DEF w

(* A stream begins with a burst: what has no row is flat. *)
LEMMA NewWire ==
  ASSUME net \in [Contracts -> Nat], net' = net, wire' = Burst
  PROVE  /\ wire' \in Seq(PnlRows) /\ LastRowIsNet'
         /\ \A c \in Contracts : c \notin Pending' => net[c] = 0
  <1> DEFINE w == wire'
             b == Burst
  <1>1. /\ b \in Seq(PnlRows) /\ Len(b) > 0 /\ b[1].c = AnySymbol
        /\ \A i \in 2..Len(b) : b[i].c \in Contracts /\ b[i] = Row(b[i].c, net[b[i].c], TRUE)
        /\ \A c \in Open : \E i \in 2..Len(b) : b[i].c = c
    BY BurstRows
  <1>2. w = b
    OBVIOUS
  <1> HIDE DEF b, w
  <1>3. Len(b) \in Nat /\ DOMAIN b = 1..Len(b)
    BY <1>1
  <1>4. LastRowIsNet'
    <2> SUFFICES ASSUME NEW i \in 1..Len(b), b[i].c \in Contracts
                 PROVE  b[i].q = net[b[i].c]
      BY <1>2 DEF LastRowIsNet, w
    <2>1. i # 1
      BY <1>1, ExposureAssumption
    <2>2. i \in 2..Len(b)
      BY <1>3, <2>1
    <2>3. b[i] = Row(b[i].c, net[b[i].c], TRUE)
      BY <1>1, <2>2
    <2> QED BY <2>3 DEF Row
  <1>5. ASSUME NEW c \in Contracts, c \notin Pending' PROVE net[c] = 0
    <2> SUFFICES ASSUME net[c] # 0 PROVE FALSE
      OBVIOUS
    <2>1. PICK i \in 2..Len(b) : b[i].c = c
      BY <1>1 DEF Open
    <2>2. i \in 1..Len(b)
      BY <1>3
    <2>3. Pending' = {b[j].c : j \in 1..Len(b)}
      BY <1>2, <1>3 DEF Pending, w
    <2> QED BY <1>5, <2>1, <2>2, <2>3
  <1> QED BY <1>1, <1>2, <1>4, <1>5 DEF w

-----------------------------------------------------------------------------
\* Each step keeps the invariant

\* All of it but the request.
StreamInv == ExposureTypes /\ Clocks /\ LastRowIsNet /\ BurstInWindow /\ RowsAreTrue

(* A step that touches neither the rows nor the venue's net. *)
LEMMA SameStream ==
  ASSUME StreamInv, UNCHANGED <<now, net, on, wire, rowVars, missed, skipped>>,
         order' \in [Contracts -> States]
  PROVE  StreamInv'
  <1> USE DEF rowVars
  <1>1. ExposureTypes'
    BY DEF StreamInv, ExposureTypes
  <1>2. Clocks'
    BY DEF StreamInv, Clocks
  <1>3. LastRowIsNet'
    BY DEF StreamInv, LastRowIsNet
  <1>4. BurstInWindow'
    BY DEF StreamInv, BurstInWindow, BurstPending
  <1>5. Pending' = Pending
    BY DEF Pending
  <1>6. RowsAreTrue'
    BY <1>5, Zenon DEF StreamInv, RowsAreTrue, Settled, Fresh
  <1> QED BY <1>1, <1>2, <1>3, <1>4, <1>6 DEF StreamInv

(* The clock: a burst that is not through holds it at the end of the window. *)
LEMMA TickKeeps == ASSUME StreamInv, Tick PROVE StreamInv'
  <1> USE DEF rowVars
  <1>1. /\ now' = now + 1 /\ UNCHANGED <<net, order, on, wire, rowVars, missed, skipped>>
        /\ BurstPending => liveSince # None /\ now' - liveSince < Settle
    BY DEF Tick
  <1>2. ExposureTypes /\ Clocks /\ LastRowIsNet /\ RowsAreTrue
    BY DEF StreamInv
  <1>3. ExposureTypes'
    BY <1>1, <1>2 DEF ExposureTypes
  <1>4. Clocks'
    <2>1. (wire # <<>> => on)'
      BY <1>1, <1>2 DEF Clocks
    <2>2. (liveSince # None => liveSince <= now)'
      BY <1>1, <1>2 DEF Clocks, ExposureTypes
    <2>3. ASSUME NEW c \in Contracts PROVE seenAt'[c] <= now' /\ seenAt'[c] < now'
      <3>1. seenAt[c] \in Int /\ now \in Nat /\ seenAt[c] <= now
        BY <1>2 DEF Clocks, ExposureTypes, None
      <3> QED BY <1>1, <3>1
    <2> QED BY <2>1, <2>2, <2>3 DEF Clocks
  <1>5. LastRowIsNet'
    BY <1>1, <1>2 DEF LastRowIsNet
  <1>6. BurstInWindow'
    BY <1>1 DEF BurstInWindow, BurstPending
  <1>7. Pending' = Pending
    BY <1>1 DEF Pending
  <1>8. RowsAreTrue'
    BY <1>1, <1>2, <1>7, Zenon DEF RowsAreTrue, Settled, Fresh
  <1> QED BY <1>3, <1>4, <1>5, <1>6, <1>8 DEF StreamInv

(* The venue's net moves: the row is on its way, or the change is lost. *)
LEMMA NetKeeps ==
  ASSUME StreamInv, NEW d \in Contracts, NEW q \in Nat, NetBecomes(d, q),
         order' \in [Contracts -> States]
  PROVE  StreamInv'
  <1> USE DEF rowVars
  <1>1. /\ net' = [net EXCEPT ![d] = q] /\ UNCHANGED <<now, on, rowVars, skipped>>
        /\ on => wire' = Append(wire, Row(d, q, FALSE)) /\ missed' = missed
        /\ ~ on => wire' = wire /\ missed' = missed \cup {d}
    BY Zenon DEF NetBecomes
  <1>2. ExposureTypes /\ Clocks /\ LastRowIsNet /\ BurstInWindow /\ RowsAreTrue
    BY DEF StreamInv
  <1>3. net \in [Contracts -> Nat] /\ net' \in [Contracts -> Nat]
    BY <1>1, <1>2 DEF ExposureTypes
  <1>4. \A c \in Contracts : c # d => net'[c] = net[c]
    BY <1>1, <1>3
  <1>5. /\ wire' \in Seq(PnlRows) /\ LastRowIsNet' /\ (BurstPending' => BurstPending)
        /\ (wire' # <<>> => on')
        /\ Pending \subseteq Pending' /\ d \in Pending' \cup missed'
        /\ missed \subseteq missed' /\ missed' \subseteq Contracts
    <2>1. CASE on
      <3>1. wire' \in Seq(PnlRows) /\ LastRowIsNet' /\ (BurstPending' => BurstPending)
        BY <1>1, <1>2, <2>1, AddedRow
      <3>2. Pending' = Pending \cup {d}
        BY <1>1, <1>2, <2>1, AddedRow
      <3>3. wire' # <<>> => on'
        BY <1>1, <2>1
      <3> QED BY <1>1, <1>2, <2>1, <3>1, <3>2, <3>3 DEF ExposureTypes
    <2>2. CASE ~ on
      <3>1. wire = <<>> /\ wire' = <<>> /\ missed' = missed \cup {d}
        BY <1>1, <1>2, <2>2 DEF Clocks
      <3>2. Pending' = {} /\ Pending = {} /\ ~ BurstPending' /\ LastRowIsNet'
        BY <3>1 DEF Pending, BurstPending, LastRowIsNet
      <3> QED BY <1>2, <3>1, <3>2 DEF ExposureTypes
    <2> QED BY <2>1, <2>2
  <1>6. ExposureTypes'
    BY <1>1, <1>2, <1>3, <1>5 DEF ExposureTypes
  <1>7. Clocks'
    BY <1>1, <1>2, <1>5 DEF Clocks
  <1>8. BurstInWindow'
    BY <1>1, <1>2, <1>5, Zenon DEF BurstInWindow
  <1>9. RowsAreTrue'
    <2> SUFFICES ASSUME NEW c \in Contracts, Settled(c)'
                 PROVE  (IF Fresh(c) THEN rows[c] = net[c] ELSE net[c] = 0)'
      BY Zenon DEF RowsAreTrue
    <2>1. c # d
      BY <1>5, Zenon DEF Settled
    <2>2. Settled(c)
      BY <1>1, <1>5, Zenon DEF Settled
    <2>3. Fresh(c)' <=> Fresh(c)
      BY <1>1, Zenon DEF Fresh
    <2>4. net'[c] = net[c] /\ rows' = rows
      BY <1>1, <1>4, <2>1
    <2> QED BY <1>2, <2>2, <2>3, <2>4, Zenon DEF RowsAreTrue
  <1> QED BY <1>5, <1>6, <1>7, <1>8, <1>9 DEF StreamInv

(* An account row comes. *)
LEMMA AccountKeeps == ASSUME StreamInv, AccountRow PROVE StreamInv'
  <1> USE DEF rowVars
  <1>1. /\ on /\ wire' = <<Row(AnySymbol, 0, FALSE)>> /\ wire = <<>>
        /\ UNCHANGED <<now, net, order, on, rowVars, missed, skipped>>
    BY DEF AccountRow, venueSide
  <1>2. ExposureTypes /\ Clocks /\ RowsAreTrue
    BY DEF StreamInv
  <1>3. /\ wire' \in Seq(PnlRows) /\ Len(wire') = 1 /\ wire'[1].c = AnySymbol
        /\ ~ wire'[1].burst /\ DOMAIN wire' = {1}
    BY <1>1 DEF Row, PnlRows, Symbols
  <1>4. Pending = {} /\ Pending' = {AnySymbol}
    <2>1. Pending = {}
      BY <1>1 DEF Pending
    <2>2. Pending' = {wire'[i].c : i \in {1}}
      BY <1>3 DEF Pending
    <2> QED BY <1>3, <2>1, <2>2
  <1>5. LastRowIsNet'
    BY <1>3, ExposureAssumption DEF LastRowIsNet
  <1>6. BurstInWindow'
    BY <1>3, Zenon DEF BurstInWindow, BurstPending
  <1>7. ExposureTypes'
    BY <1>1, <1>2, <1>3 DEF ExposureTypes
  <1>8. Clocks'
    BY <1>1, <1>2 DEF Clocks
  <1>9. RowsAreTrue'
    BY <1>1, <1>2, <1>4, Zenon DEF RowsAreTrue, Settled, Fresh
  <1> QED BY <1>5, <1>6, <1>7, <1>8, <1>9 DEF StreamInv

(* The stream fails: what was on its way is lost. *)
LEMMA FailKeeps == ASSUME StreamInv, StreamFails PROVE StreamInv'
  <1> USE DEF rowVars
  <1>1. /\ on /\ ~ on' /\ wire' = <<>> /\ missed' = missed \cup (Pending \cap Contracts)
        /\ UNCHANGED <<now, net, order, rowVars, skipped>>
    BY Zenon DEF StreamFails
  <1>2. ExposureTypes /\ Clocks /\ RowsAreTrue
    BY DEF StreamInv
  <1>3. Pending' = {} /\ ~ BurstPending'
    BY <1>1 DEF Pending, BurstPending
  <1>4. LastRowIsNet'
    BY <1>1 DEF LastRowIsNet
  <1>5. BurstInWindow'
    BY <1>3 DEF BurstInWindow
  <1>6. ExposureTypes'
    BY <1>1, <1>2 DEF ExposureTypes
  <1>7. Clocks'
    BY <1>1, <1>2 DEF Clocks
  <1>8. RowsAreTrue'
    <2> SUFFICES ASSUME NEW c \in Contracts, Settled(c)'
                 PROVE  (IF Fresh(c) THEN rows[c] = net[c] ELSE net[c] = 0)'
      BY Zenon DEF RowsAreTrue
    <2>1. c \notin Pending /\ c \notin missed
      BY <1>1 DEF Settled
    <2>2. Settled(c)
      BY <1>1, <2>1, Zenon DEF Settled
    <2> QED BY <1>1, <1>2, <2>2, Zenon DEF RowsAreTrue, Fresh
  <1> QED BY <1>4, <1>5, <1>6, <1>7, <1>8 DEF StreamInv

(* A subscription, or one that fails: no row counts as this stream's. *)
LEMMA ResubscribeKeeps ==
  ASSUME StreamInv, Resubscribe, rows' \in [Contracts -> Nat \cup {None}],
         seenAt' = seenAt \/ seenAt' = NoRows
  PROVE  StreamInv'
  <1>1. /\ now' = now + 1 /\ liveSince' = None /\ missed' = {} /\ skipped' = {}
        /\ UNCHANGED <<net, order>>
        /\ (on' /\ wire' = Burst) \/ (~ on' /\ wire' = <<>>)
    BY Zenon DEF Resubscribe
  <1>2. ExposureTypes /\ Clocks
    BY DEF StreamInv
  <1>3. /\ wire' \in Seq(PnlRows) /\ LastRowIsNet' /\ (wire' # <<>> => on')
        /\ \A c \in Contracts : on' /\ c \notin Pending' => net[c] = 0
    <2>1. CASE on' /\ wire' = Burst
      <3>1. net \in [Contracts -> Nat]
        BY <1>2 DEF ExposureTypes
      <3> QED BY <1>1, <2>1, <3>1, NewWire
    <2>2. CASE ~ on' /\ wire' = <<>>
      BY <2>2 DEF LastRowIsNet
    <2> QED BY <1>1, <2>1, <2>2
  <1>4. seenAt' \in [Contracts -> Nat \cup {None}]
    BY <1>2 DEF ExposureTypes, NoRows
  <1>5. ExposureTypes'
    BY <1>1, <1>2, <1>3, <1>4 DEF ExposureTypes
  <1>6. ASSUME NEW c \in Contracts PROVE seenAt'[c] <= now' /\ seenAt'[c] < now'
    <2>1. seenAt[c] \in Int /\ now \in Nat /\ seenAt[c] <= now
      BY <1>2 DEF Clocks, ExposureTypes, None
    <2>2. seenAt'[c] <= now
      BY <2>1 DEF NoRows, None
    <2>3. seenAt'[c] \in Int
      BY <1>4 DEF None
    <2> QED BY <1>1, <2>1, <2>2, <2>3
  <1>7. Clocks'
    BY <1>1, <1>3, <1>6 DEF Clocks
  <1>8. BurstInWindow'
    BY <1>1 DEF BurstInWindow
  <1>9. RowsAreTrue'
    <2> SUFFICES ASSUME NEW c \in Contracts, Settled(c)' PROVE ~ Fresh(c)' /\ net'[c] = 0
      BY Zenon DEF RowsAreTrue
    <2>1. on' /\ c \notin Pending'
      BY <1>1, Zenon DEF Settled
    <2> QED BY <1>1, <1>3, <2>1, Zenon DEF Fresh
  <1> QED BY <1>3, <1>5, <1>7, <1>8, <1>9 DEF StreamInv

(* A row of an older epoch is ignored. *)
LEMMA IgnoreKeeps == ASSUME StreamInv, IgnoreOld PROVE StreamInv'
  <1> USE DEF rowVars
  <1>1. /\ Handled /\ UNCHANGED <<now, net, order, on, rowVars, missed>>
        /\ skipped' = skipped \cup ({Head(wire).c} \cap Contracts) /\ wire # <<>>
    BY DEF IgnoreOld, Handled, venueSide
  <1>2. ExposureTypes /\ Clocks /\ LastRowIsNet /\ BurstInWindow /\ RowsAreTrue
    BY DEF StreamInv
  <1>3. /\ wire' \in Seq(PnlRows) /\ Pending = Pending' \cup {Head(wire).c}
        /\ (BurstPending' => BurstPending) /\ LastRowIsNet'
    BY <1>1, <1>2, HandledWire
  <1>4. ExposureTypes'
    BY <1>1, <1>2, <1>3 DEF ExposureTypes
  <1>5. Clocks'
    BY <1>1, <1>2 DEF Clocks
  <1>6. BurstInWindow'
    BY <1>1, <1>2, <1>3, Zenon DEF BurstInWindow
  <1>7. RowsAreTrue'
    <2> SUFFICES ASSUME NEW c \in Contracts, Settled(c)'
                 PROVE  (IF Fresh(c) THEN rows[c] = net[c] ELSE net[c] = 0)'
      BY Zenon DEF RowsAreTrue
    <2>1. c \notin Pending /\ c \notin skipped
      BY <1>1, <1>3 DEF Settled
    <2>2. Settled(c)
      BY <1>1, <2>1, Zenon DEF Settled
    <2> QED BY <1>1, <1>2, <2>2, Zenon DEF RowsAreTrue, Fresh
  <1> QED BY <1>3, <1>4, <1>5, <1>6, <1>7 DEF StreamInv

(* What an observation does to the clocks and to the rows that are not in hand: a row seen
   before the first observation of the stream stays one of an earlier stream. *)
LEMMA Observed ==
  ASSUME StreamInv, Handled, _note_pnl_observed \/ UNCHANGED liveSince
  PROVE  /\ liveSince' \in Nat \cup {None}
         /\ liveSince' # None => liveSince' <= now
         /\ BurstPending' /\ liveSince' # None => now - liveSince' < Settle
         /\ \A c \in Contracts : Fresh(c) <=> /\ liveSince' # None /\ rows[c] # None
                                              /\ seenAt[c] >= liveSince'
         /\ \A c \in Contracts : liveSince' = None => seenAt[c] < now
  <1>1. ExposureTypes /\ Clocks /\ LastRowIsNet /\ BurstInWindow
    BY DEF StreamInv
  <1>2. BurstPending' => BurstPending
    BY <1>1, HandledWire
  <1>3. now \in Nat /\ Settle \in Nat /\ Settle > 0 /\ \A c \in Contracts : seenAt[c] \in Int
    BY <1>1, ExposureAssumption DEF ExposureTypes, None
  <1>4. CASE liveSince' = liveSince
    BY <1>1, <1>2, <1>4 DEF ExposureTypes, Clocks, BurstInWindow, Fresh
  <1>5. CASE liveSince = None /\ liveSince' = now
    <2>1. now - now < Settle /\ now <= now /\ now # None
      BY <1>3 DEF None
    <2>2. \A c \in Contracts : seenAt[c] < now /\ ~ (seenAt[c] >= now)
      BY <1>1, <1>3, <1>5 DEF Clocks
    <2> QED BY <1>3, <1>5, <2>1, <2>2 DEF Fresh
  <1> QED BY <1>4, <1>5 DEF _note_pnl_observed

(* An account row. *)
LEMMA PublishKeeps == ASSUME StreamInv, _publish_account PROVE StreamInv'
  <1>1. /\ Handled /\ UNCHANGED <<now, net, order, on, rows, seenAt, unread, missed, skipped>>
        /\ Head(wire).c = AnySymbol /\ (_note_pnl_observed \/ UNCHANGED liveSince)
        /\ wire # <<>>
    BY DEF _publish_account, Handled, venueSide
  <1>2. ExposureTypes /\ Clocks /\ LastRowIsNet /\ BurstInWindow /\ RowsAreTrue
    BY DEF StreamInv
  <1>3. /\ wire' \in Seq(PnlRows) /\ Pending = Pending' \cup {AnySymbol}
        /\ LastRowIsNet'
    BY <1>1, <1>2, HandledWire
  <1>4. /\ liveSince' \in Nat \cup {None}
        /\ liveSince' # None => liveSince' <= now
        /\ BurstPending' /\ liveSince' # None => now - liveSince' < Settle
        /\ \A c \in Contracts : Fresh(c) <=> /\ liveSince' # None /\ rows[c] # None
                                             /\ seenAt[c] >= liveSince'
        /\ \A c \in Contracts : liveSince' = None => seenAt[c] < now
    BY <1>1, Observed
  <1>5. ExposureTypes'
    BY <1>1, <1>2, <1>3, <1>4 DEF ExposureTypes
  <1>6. Clocks'
    BY <1>1, <1>2, <1>4 DEF Clocks
  <1>7. BurstInWindow'
    BY <1>1, <1>4, Zenon DEF BurstInWindow
  <1>8. RowsAreTrue'
    <2> SUFFICES ASSUME NEW c \in Contracts, Settled(c)'
                 PROVE  (IF Fresh(c) THEN rows[c] = net[c] ELSE net[c] = 0)'
      BY Zenon DEF RowsAreTrue
    <2>1. c \notin Pending
      BY <1>3, ExposureAssumption DEF Settled
    <2>2. on
      BY <1>1, <1>2 DEF Clocks
    <2>3. Settled(c)
      BY <1>1, <2>1, <2>2, Zenon DEF Settled
    <2>4. Fresh(c)' <=> Fresh(c)
      BY <1>1, <1>4, Zenon DEF Fresh
    <2> QED BY <1>1, <1>2, <2>3, <2>4, Zenon DEF RowsAreTrue
  <1> QED BY <1>3, <1>5, <1>6, <1>7, <1>8 DEF StreamInv

(* A position row: read, it is the contract's; unreadable, it leaves the contract unknown. *)
LEMMA CacheKeeps == ASSUME StreamInv, _cache_position PROVE StreamInv'
  <1> DEFINE d == Head(wire).c
             q == Head(wire).q
  <1>1. /\ Handled /\ UNCHANGED <<now, net, order, on>> /\ d # AnySymbol /\ wire # <<>>
    BY DEF _cache_position, Handled, venueSide
  <1>2. ExposureTypes /\ Clocks /\ LastRowIsNet /\ BurstInWindow /\ RowsAreTrue
    BY DEF StreamInv
  <1>3. /\ wire' \in Seq(PnlRows) /\ Pending = Pending' \cup {d} /\ LastRowIsNet'
        /\ Head(wire) \in PnlRows /\ (BurstPending' => BurstPending)
        /\ d \in Contracts \ Pending' => q = net[d]
    BY <1>1, <1>2, HandledWire
  <1>4. d \in Contracts /\ q \in Nat
    BY <1>1, <1>3 DEF PnlRows, Symbols
  <1>5. on
    BY <1>1, <1>2 DEF Clocks
  <1>6. CASE /\ rows' = [rows EXCEPT ![d] = q] /\ seenAt' = [seenAt EXCEPT ![d] = now]
             /\ unread' = unread \ {d} /\ _note_pnl_observed
             /\ missed' = missed \ {d} /\ skipped' = skipped \ {d}
    <2> HIDE DEF d, q
    <2>1. /\ liveSince' \in Nat \cup {None}
          /\ liveSince' # None => liveSince' <= now
          /\ BurstPending' /\ liveSince' # None => now - liveSince' < Settle
          /\ \A c \in Contracts : Fresh(c) <=> /\ liveSince' # None /\ rows[c] # None
                                               /\ seenAt[c] >= liveSince'
      BY <1>1, <1>6, Observed
    <2>2. liveSince' # None /\ now \in Nat
      BY <1>2, <1>6 DEF _note_pnl_observed, ExposureTypes, None
    <2>3. /\ rows' \in [Contracts -> Nat \cup {None}] /\ rows'[d] = q
          /\ seenAt' \in [Contracts -> Nat \cup {None}] /\ seenAt'[d] = now
          /\ \A c \in Contracts : c # d => rows'[c] = rows[c] /\ seenAt'[c] = seenAt[c]
      BY <1>2, <1>4, <1>6, <2>2 DEF ExposureTypes
    <2>4. ExposureTypes'
      BY <1>1, <1>2, <1>3, <1>6, <2>1, <2>3 DEF ExposureTypes
    <2>5. ASSUME NEW c \in Contracts PROVE seenAt'[c] <= now
      BY <1>2, <2>2, <2>3 DEF Clocks
    <2>6. Clocks'
      BY <1>1, <1>5, <2>1, <2>2, <2>5 DEF Clocks
    <2>7. BurstInWindow'
      BY <1>1, <2>1, Zenon DEF BurstInWindow
    <2>8. RowsAreTrue'
      <3> SUFFICES ASSUME NEW c \in Contracts, Settled(c)'
                   PROVE  (IF Fresh(c) THEN rows[c] = net[c] ELSE net[c] = 0)'
        BY Zenon DEF RowsAreTrue
      <3>1. CASE c = d
        <4>1. c \notin Pending'
          BY DEF Settled
        <4>2. rows'[c] = net'[c]
          BY <1>1, <1>3, <1>4, <2>3, <3>1, <4>1
        <4>3. Fresh(c)'
          <5>1. q # None /\ now >= liveSince'
            BY <1>4, <2>1, <2>2 DEF None
          <5> QED BY <2>2, <2>3, <3>1, <5>1 DEF Fresh
        <4> QED BY <4>2, <4>3
      <3>2. CASE c # d
        <4>1. c \notin Pending /\ c \notin missed /\ c \notin skipped
              /\ c \notin unread /\ AnySymbol \notin unread
          BY <1>1, <1>3, <1>6, <3>2 DEF Settled
        <4>2. Settled(c)
          BY <1>5, <4>1, Zenon DEF Settled
        <4>3. rows'[c] = rows[c] /\ seenAt'[c] = seenAt[c]
          BY <2>3, <3>2
        <4>4. Fresh(c)' <=> Fresh(c)
          BY <2>1, <4>3, Zenon DEF Fresh
        <4> QED BY <1>1, <1>2, <4>2, <4>3, <4>4, Zenon DEF RowsAreTrue
      <3> QED BY <3>1, <3>2
    <2> QED BY <1>3, <2>4, <2>6, <2>7, <2>8 DEF StreamInv
  <1>7. CASE /\ \E s \in {d, AnySymbol} : unread' = unread \cup {s}
             /\ UNCHANGED <<liveSince, rows, seenAt, missed, skipped>>
    <2> HIDE DEF d, q
    <2>1. ExposureTypes'
      BY <1>1, <1>2, <1>3, <1>7 DEF ExposureTypes
    <2>2. Clocks'
      BY <1>1, <1>2, <1>7 DEF Clocks
    <2>3. BurstInWindow'
      BY <1>1, <1>2, <1>3, <1>7, Zenon DEF BurstInWindow
    <2>4. RowsAreTrue'
      <3> SUFFICES ASSUME NEW c \in Contracts, Settled(c)'
                   PROVE  (IF Fresh(c) THEN rows[c] = net[c] ELSE net[c] = 0)'
        BY Zenon DEF RowsAreTrue
      <3>1. c \notin unread' /\ AnySymbol \notin unread' /\ c \notin Pending'
        BY DEF Settled
      <3>2. c # d /\ c \notin unread /\ AnySymbol \notin unread
        BY <1>7, <3>1
      <3>3. c \notin Pending
        BY <1>3, <3>1, <3>2
      <3>4. Settled(c)
        BY <1>7, <1>5, <3>2, <3>3, Zenon DEF Settled
      <3> QED BY <1>1, <1>2, <1>7, <3>4, Zenon DEF RowsAreTrue, Fresh
    <2> QED BY <1>3, <2>1, <2>2, <2>3, <2>4 DEF StreamInv
  <1> QED BY <1>6, <1>7, Zenon DEF _cache_position

(* Every step. *)
LEMMA StreamStep == ASSUME StreamInv, ExposureNext PROVE StreamInv'
  <1>1. order \in [Contracts -> States] /\ net \in [Contracts -> Nat]
    BY DEF StreamInv, ExposureTypes
  <1>2. CASE Venue
    <2>1. CASE Tick
      BY <2>1, TickKeeps
    <2>2. CASE StreamFails
      BY <2>2, FailKeeps
    <2>3. CASE AccountRow
      BY <2>3, AccountKeeps
    <2>4. ASSUME NEW c \in Contracts, Traded(c) PROVE StreamInv'
      <3>1. PICK q \in 0..1 : NetBecomes(c, q)
        BY <2>4 DEF Traded
      <3>2. q \in Nat /\ order' \in [Contracts -> States]
        BY <1>1, <2>4 DEF Traded
      <3> QED BY <3>1, <3>2, NetKeeps
    <2>5. ASSUME NEW c \in Contracts, Filled(c) PROVE StreamInv'
      <3>1. NetBecomes(c, net[c] + 1) /\ net[c] + 1 \in Nat
        BY <1>1, <2>5 DEF Filled
      <3>2. order' \in [Contracts -> States]
        BY <1>1, <2>5 DEF Filled, States
      <3> QED BY <3>1, <3>2, NetKeeps
    <2>6. ASSUME NEW c \in Contracts, OrderMoves(c) PROVE StreamInv'
      <3>1. order' \in [Contracts -> States]
        BY <1>1, <2>6 DEF OrderMoves, States
      <3>2. UNCHANGED <<now, net, on, wire, rowVars, missed, skipped>>
        BY <2>6 DEF OrderMoves
      <3> QED BY <3>1, <3>2, SameStream
    <2> QED BY <1>2, <2>1, <2>2, <2>3, <2>4, <2>5, <2>6 DEF Venue
  <1>3. CASE Stream
    <2>1. CASE _forget_pnl_state
      <3>1. rows' \in [Contracts -> Nat \cup {None}] /\ seenAt' = NoRows /\ Resubscribe
        BY <2>1 DEF _forget_pnl_state, NoRows
      <3> QED BY <3>1, ResubscribeKeeps
    <2>2. CASE _resync_pnl_subscription
      <3>1. rows' \in [Contracts -> Nat \cup {None}] /\ seenAt' = seenAt /\ Resubscribe
        BY <2>2 DEF _resync_pnl_subscription, StreamInv, ExposureTypes
      <3> QED BY <3>1, ResubscribeKeeps
    <2>3. CASE _recover_order_gap
      BY <1>1, <2>3, SameStream DEF _recover_order_gap, venueSide
    <2>4. CASE poll_with_epoch
      BY <1>1, <2>4, SameStream DEF poll_with_epoch, venueSide
    <2>5. CASE IgnoreOld
      BY <2>5, IgnoreKeeps
    <2>6. CASE _publish_account
      BY <2>6, PublishKeeps
    <2>7. CASE _cache_position
      BY <2>7, CacheKeeps
    <2> QED BY <1>3, <2>1, <2>2, <2>3, <2>4, <2>5, <2>6, <2>7 DEF Stream
  <1>4. CASE Answers
    BY <1>1, <1>4, SameStream DEF Answers, request_exposure, _load_orders_events, DrainFails,
       _exposure_snapshot, venueSide
  <1> QED BY <1>2, <1>3, <1>4 DEF ExposureNext

(* Initially nothing is served and every contract is flat. *)
LEMMA StreamStart == ExposureInit => StreamInv
  <1> SUFFICES ASSUME ExposureInit PROVE StreamInv
    OBVIOUS
  <1>1. ExposureTypes
    BY DEF ExposureInit, ExposureTypes, NoRows, States, None
  <1>2. Clocks /\ LastRowIsNet
    BY DEF ExposureInit, Clocks, LastRowIsNet, NoRows, None
  <1>3. BurstInWindow
    BY DEF ExposureInit, BurstInWindow
  <1>4. RowsAreTrue
    BY Zenon DEF ExposureInit, RowsAreTrue, Settled
  <1> QED BY <1>1, <1>2, <1>3, <1>4 DEF StreamInv

(* The rows, the clocks and the net agree in every reachable state. *)
LEMMA StreamInvariant == ExposureSpec => []StreamInv
  <1>1. StreamInv /\ [ExposureNext]_exposureVars => StreamInv'
    <2>1. ASSUME StreamInv, UNCHANGED exposureVars PROVE StreamInv'
      <3>1. order' \in [Contracts -> States]
        BY <2>1 DEF StreamInv, ExposureTypes, exposureVars
      <3> QED BY <2>1, <3>1, SameStream DEF exposureVars, rowVars
    <2> QED BY <2>1, StreamStep
  <1> QED BY <1>1, StreamStart, PTL DEF ExposureSpec

-----------------------------------------------------------------------------
\* What the client says

(* Nothing on its way, lost, discarded or unreadable: every contract is settled. *)
LEMMA AllSettled ==
  ASSUME StreamInv, liveSince # None, NetIsDelivered, ~ BurstPending, AnySymbol \notin unread,
         NEW c \in Contracts \ unread
  PROVE  IF Fresh(c) THEN rows[c] = net[c] ELSE net[c] = 0
  <1>1. c \notin Pending
    <2> SUFFICES ASSUME NEW i \in DOMAIN wire, wire[i].c = c PROVE FALSE
      BY Zenon DEF Pending
    <2>1. ~ wire[i].burst
      BY Zenon DEF BurstPending
    <2>2. c \in Updates
      BY <2>1, Zenon DEF Updates
    <2> QED BY <2>2, Zenon DEF NetIsDelivered
  <1>2. Settled(c)
    BY <1>1, Zenon DEF Settled, NetIsDelivered
  <1> QED BY <1>2, Zenon DEF StreamInv, RowsAreTrue

(* Where they are, the sum of the rows of this stream is the net of the root. *)
LEMMA NetOfRows ==
  ASSUME StreamInv, liveSince # None,
         \A c \in Contracts : IF Fresh(c) THEN rows[c] = net[c] ELSE net[c] = 0
  PROVE  signed_net(_rows_seen_since(liveSince), rows) = signed_net(Contracts, net)
  <1> DEFINE F == _rows_seen_since(liveSince)
  <1>1. F \subseteq Contracts /\ \A c \in F : rows[c] = net[c]
    BY Zenon DEF _rows_seen_since, Fresh
  <1>2. \A c \in Contracts : c \notin F => net[c] = 0
    BY Zenon DEF _rows_seen_since, Fresh
  <1>3. \A c \in Contracts : net[c] \in Nat
    BY DEF StreamInv, ExposureTypes
  <1> HIDE DEF F
  <1>4. 1..0 = {} /\ 1..(-0) = {}
    OBVIOUS
  <1>5. UNION {{c} \X (1..rows[c]) : c \in F} = UNION {{c} \X (1..net[c]) : c \in Contracts}
    <2>1. ASSUME NEW c \in F, NEW u \in {c} \X (1..rows[c])
          PROVE  \E d \in Contracts : u \in {d} \X (1..net[d])
      BY <1>1, <2>1
    <2>2. ASSUME NEW c \in Contracts, NEW u \in {c} \X (1..net[c])
          PROVE  \E d \in F : u \in {d} \X (1..rows[d])
      <3>1. c \in F
        BY <1>2, <1>4, <2>2
      <3> QED BY <1>1, <2>2, <3>1
    <2> QED BY <2>1, <2>2
  <1>6. UNION {{c} \X (1..(-rows[c])) : c \in F}
          = UNION {{c} \X (1..(-net[c])) : c \in Contracts}
    <2>1. \A c \in Contracts : 1..(-net[c]) = {}
      BY <1>3
    <2>2. \A c \in F : 1..(-rows[c]) = {}
      BY <1>1, <2>1
    <2>3. ASSUME NEW c \in F, NEW u \in {c} \X (1..(-rows[c])) PROVE FALSE
      BY <2>2, <2>3
    <2>4. ASSUME NEW c \in Contracts, NEW u \in {c} \X (1..(-net[c])) PROVE FALSE
      BY <2>1, <2>4
    <2> QED BY <2>3, <2>4
  <1> QED BY <1>5, <1>6 DEF signed_net, F

(* What the drain read is what is true, and a complete reply says it. *)
LEMMA AskedStep ==
  ASSUME StreamInv, DrainIsTrue, CompleteIsTrue, ExposureNext
  PROVE  DrainIsTrue' /\ CompleteIsTrue'
  <1>1. CASE UNCHANGED <<asked, snap>>
    BY <1>1 DEF DrainIsTrue, CompleteIsTrue
  <1>2. CASE request_exposure
    BY <1>2 DEF request_exposure, DrainIsTrue, CompleteIsTrue
  <1>3. CASE _load_orders_events
    <2>1. PICK readable \in BOOLEAN :
            asked' = [pc |-> "drained", open |-> _working_orders_for_root(readable),
                      work |-> TrulyWorking]
      BY <1>3 DEF _load_orders_events
    <2>2. snap' = snap
      BY <1>3 DEF _load_orders_events
    <2>3. {c \in Contracts : order_status_from_fields(c) = "working"}
            = {c \in Contracts : order[c] = "working"}
      BY DEF order_status_from_fields
    <2>4. _working_orders_for_root(readable) \in {None, TrulyWorking}
      BY <2>3, Zenon DEF _working_orders_for_root, TrulyWorking
    <2> QED BY <2>1, <2>2, <2>4 DEF DrainIsTrue, CompleteIsTrue
  <1>4. CASE DrainFails
    BY <1>4 DEF DrainFails, DrainIsTrue, CompleteIsTrue, NoReq, NoSnap
  <1>5. CASE _exposure_snapshot
    <2>1. DrainIsTrue'
      BY <1>5 DEF _exposure_snapshot, DrainIsTrue, NoReq
    <2>2. CASE ~ exposure_complete(_exposure_net, asked.open, liveSince, now)
      BY <1>5, <2>1, <2>2 DEF _exposure_snapshot, CompleteIsTrue, NoSnap
    <2>3. CASE exposure_complete(_exposure_net, asked.open, liveSince, now)
      <3>1. snap' = [net |-> _exposure_net, open |-> asked.open, wasOpen |-> asked.work,
                     wasNet |-> IF NetIsDelivered THEN signed_net(Contracts, net) ELSE None]
        BY <1>5, <2>3, Zenon DEF _exposure_snapshot
      <3>2. /\ _exposure_net # None /\ asked.open # None /\ liveSince # None
            /\ now - liveSince >= Settle
        BY <2>3 DEF exposure_complete
      <3>3. asked.open = asked.work
        BY <1>5, <3>2 DEF _exposure_snapshot, DrainIsTrue
      <3>4. unread = {} /\ _exposure_net = signed_net(_rows_seen_since(liveSince), rows)
        BY <3>2, Zenon DEF _exposure_net, _position_unreadable_for
      <3>5. ASSUME NetIsDelivered PROVE _exposure_net = signed_net(Contracts, net)
        <4>1. ~ BurstPending
          <5>1. now \in Nat /\ liveSince \in Nat /\ Settle \in Nat
            BY <3>2, ExposureAssumption DEF StreamInv, ExposureTypes
          <5>2. ~ (now - liveSince < Settle)
            BY <3>2, <5>1
          <5> QED BY <3>2, <5>2 DEF StreamInv, BurstInWindow
        <4>2. \A c \in Contracts : IF Fresh(c) THEN rows[c] = net[c] ELSE net[c] = 0
          BY <3>2, <3>4, <3>5, <4>1, AllSettled
        <4> QED BY <3>2, <3>4, <4>2, NetOfRows
      <3>6. snap'.open = snap'.wasOpen
        BY <3>1, <3>3
      <3>7. snap'.wasNet # None => snap'.net = snap'.wasNet
        BY <3>1, <3>5, Zenon
      <3> QED BY <2>1, <3>6, <3>7 DEF CompleteIsTrue
    <2> QED BY <2>2, <2>3
  <1>6. CASE Venue
    BY <1>1, <1>6 DEF Venue, Tick, StreamFails, AccountRow, Traded, Filled, OrderMoves,
       NetBecomes
  <1>7. CASE Stream
    BY <1>1, <1>7 DEF Stream, _forget_pnl_state, _resync_pnl_subscription, Resubscribe,
       _recover_order_gap, poll_with_epoch, IgnoreOld, _publish_account, _cache_position, Handled
  <1> QED BY <1>2, <1>3, <1>4, <1>5, <1>6, <1>7 DEF ExposureNext, Answers

(* "complete is the only proof" (request_exposure): whatever the interleaving of fills,
   bursts, failing and renewed streams, unreadable rows and epochs, a complete reply has the
   working orders of its drain and the net of the venue. *)
THEOREM CompleteIsProof == ExposureSpec => []CompleteIsTrue
  <1>1. ExposureInit => DrainIsTrue /\ CompleteIsTrue
    BY DEF ExposureInit, DrainIsTrue, CompleteIsTrue, NoReq, NoSnap
  <1>2. StreamInv /\ DrainIsTrue /\ CompleteIsTrue /\ [ExposureNext]_exposureVars
          => DrainIsTrue' /\ CompleteIsTrue'
    <2>1. ASSUME DrainIsTrue, CompleteIsTrue, UNCHANGED exposureVars
          PROVE  DrainIsTrue' /\ CompleteIsTrue'
      BY <2>1 DEF DrainIsTrue, CompleteIsTrue, exposureVars
    <2> QED BY <2>1, AskedStep
  <1> QED BY <1>1, <1>2, StreamInvariant, PTL DEF ExposureSpec

(* A position report is the venue's position, and what a mass status calls FLAT is flat, once
   the burst is through (generate_position_status_reports, generate_mass_status). *)
THEOREM ReportsAreTrue == ExposureSpec => []ReportIsTrue
  <1>1. ASSUME StreamInv, NetIsDelivered, ~ BurstPending
        PROVE  /\ \A c \in ReportedRows : rows[c] = net[c]
               /\ \A c \in generate_mass_status \ unread : net[c] = 0
    <2>1. CASE ~ _positions_known
      BY <2>1 DEF ReportedRows, generate_mass_status
    <2>2. CASE _positions_known
      <3>1. liveSince # None /\ AnySymbol \notin unread
        BY <2>2 DEF _positions_known
      <3>2. \A c \in Contracts \ unread : IF Fresh(c) THEN rows[c] = net[c] ELSE net[c] = 0
        BY <1>1, <3>1, AllSettled
      <3>3. ReportedRows = {c \in Contracts \ unread : Fresh(c)}
        BY <2>2, <3>1, Zenon DEF ReportedRows, _rows_seen_since, Fresh
      <3>4. generate_mass_status = Contracts \ ReportedRows
        BY <2>2 DEF generate_mass_status, augment_soft_mass_flat_for_cache_opens
      <3> QED BY <3>2, <3>3, <3>4, Zenon
    <2> QED BY <2>1, <2>2
  <1>2. StreamInv => ReportIsTrue
    BY <1>1, Zenon DEF ReportIsTrue
  <1> QED BY <1>2, StreamInvariant, PTL

-----------------------------------------------------------------------------
\* The inventory of a tool without a node. Its loops are recursive functions; the closed form
\* of each satisfies its recursion, and no other function does.

(* Two functions that begin alike and step alike are the same up to n. *)
LEMMA StepwiseEqual ==
  ASSUME NEW n \in Nat, NEW f, NEW g, f[0] = g[0],
         \A i \in 1..n : f[i - 1] = g[i - 1] => f[i] = g[i]
  PROVE  f[n] = g[n]
  <1> DEFINE T == {i \in Nat : i <= n /\ f[i] # g[i]}
  <1> SUFFICES ASSUME T # {} PROVE FALSE
    OBVIOUS
  <1>1. T \in SUBSET Nat
    OBVIOUS
  <1>2. PICK m \in T : \A y \in T : m <= y
    BY <1>1, LeastNat
  <1>3. m \in Nat /\ m <= n /\ f[m] # g[m] /\ m # 0
    BY <1>2
  <1>4. m \in 1..n /\ m - 1 \in Nat /\ m - 1 <= n /\ ~ (m <= m - 1)
    BY <1>3
  <1>5. f[m - 1] = g[m - 1]
    BY <1>2, <1>4
  <1> QED BY <1>3, <1>4, <1>5

(* An order's rows: done once one of them is terminal, working otherwise. *)
Known(rs, i) == IF i = 0 THEN "none"
                ELSE IF \E j \in 1..i : _is_gone(rs[j]) THEN "done" ELSE "working"

(* The loop over the rows of the orders comes to what Known says. *)
LEMMA KnownOrders ==
  ASSUME NEW X, NEW rs \in Seq(X)
  PROVE  Inventory(rs) = Known(rs, Len(rs))
  <1> DEFINE n == Len(rs)
             A == [i \in 0..n |-> Known(rs, i)]
             Solves(h) == h = [i \in 0..n |-> IF i = 0 THEN "none"
                                              ELSE _ingest_order(h[i - 1], rs[i])]
             h == CHOOSE f : Solves(f)
  <1>1. n \in Nat
    OBVIOUS
  <1>2. Inventory(rs) = h[n]
    BY DEF Inventory
  <1> HIDE DEF n
  <1>3. ASSUME NEW i \in 1..n PROVE Known(rs, i) = _ingest_order(Known(rs, i - 1), rs[i])
    <2>1. i - 1 \in 0..n /\ i # 0
      BY <1>1
    <2>2. (\E j \in 1..i : _is_gone(rs[j])) <=>
            (\E j \in 1..(i - 1) : _is_gone(rs[j])) \/ _is_gone(rs[i])
      <3>1. \A j \in 1..i : j \in 1..(i - 1) \/ j = i
        BY <1>1
      <3>2. 1..(i - 1) \subseteq 1..i /\ i \in 1..i
        BY <1>1
      <3>3. ASSUME NEW j \in 1..i, _is_gone(rs[j]), ~ _is_gone(rs[i])
            PROVE  \E k \in 1..(i - 1) : _is_gone(rs[k])
        BY <3>1, <3>3
      <3>4. ASSUME NEW j \in 1..(i - 1), _is_gone(rs[j])
            PROVE  \E k \in 1..i : _is_gone(rs[k])
        BY <3>2, <3>4
      <3>5. _is_gone(rs[i]) => \E k \in 1..i : _is_gone(rs[k])
        BY <3>2
      <3> QED BY <3>3, <3>4, <3>5
    <2>3. Known(rs, i - 1) = "done" <=> \E j \in 1..(i - 1) : _is_gone(rs[j])
      <3>1. CASE i - 1 = 0
        <4>1. 1..(i - 1) = {}
          BY <3>1
        <4> QED BY <3>1, <4>1 DEF Known
      <3>2. CASE i - 1 # 0
        BY <3>2 DEF Known
      <3> QED BY <3>1, <3>2
    <2>4. Known(rs, i) = IF \E j \in 1..i : _is_gone(rs[j]) THEN "done" ELSE "working"
      BY <2>1 DEF Known
    <2> HIDE DEF Known
    <2>5. _ingest_order(Known(rs, i - 1), rs[i])
            = IF Known(rs, i - 1) = "done" \/ _is_gone(rs[i]) THEN "done" ELSE "working"
      BY DEF _ingest_order
    <2>6. CASE \E j \in 1..i : _is_gone(rs[j])
      BY <2>2, <2>3, <2>4, <2>5, <2>6
    <2>7. CASE ~ \E j \in 1..i : _is_gone(rs[j])
      BY <2>2, <2>3, <2>4, <2>5, <2>7
    <2> QED BY <2>6, <2>7
  <1>4. Solves(A)
    <2>1. ASSUME NEW i \in 0..n
          PROVE  A[i] = IF i = 0 THEN "none" ELSE _ingest_order(A[i - 1], rs[i])
      <3>1. CASE i = 0
        BY <3>1 DEF Known
      <3>2. CASE i # 0
        <4>1. i \in 1..n /\ i - 1 \in 0..n
          BY <1>1, <3>2
        <4>2. A[i] = Known(rs, i) /\ A[i - 1] = Known(rs, i - 1)
          BY <4>1
        <4> QED BY <1>3, <3>2, <4>1, <4>2
      <3> QED BY <3>1, <3>2
    <2> QED BY <2>1
  <1> HIDE DEF A, Solves
  <1>5. Solves(h)
    BY <1>4
  <1> HIDE DEF h
  <1>6. h[0] = A[0] /\ \A i \in 1..n : h[i] = _ingest_order(h[i - 1], rs[i])
    BY <1>1, <1>5 DEF Solves, A, Known
  <1>7. \A i \in 1..n : A[i] = _ingest_order(A[i - 1], rs[i])
    BY <1>1, <1>4 DEF Solves
  <1>8. h[n] = A[n]
    <2>1. \A i \in 1..n : h[i - 1] = A[i - 1] => h[i] = A[i]
      BY <1>6, <1>7
    <2> QED BY <1>1, <1>6, <2>1, StepwiseEqual
  <1>9. A[n] = Known(rs, n)
    BY <1>1 DEF A
  <1> QED BY <1>2, <1>8, <1>9 DEF n

(* The rows of an order's history: one is terminal exactly when the order is. *)
LEMMA HistoryOfOrder ==
  ASSUME NEW c \in Contracts, order[c] \in States
  PROVE  /\ OrderRows(c) \in Seq(States)
         /\ OrderRows(c) # <<>> =>
              ((\E j \in 1..Len(OrderRows(c)) : _is_gone(OrderRows(c)[j]))
                 <=> order[c] \notin {"working", "partial"})
  <1>1. CASE order[c] = "none"
    BY <1>1 DEF OrderRows
  <1>2. CASE order[c] = "working"
    <2>1. OrderRows(c) = <<"working">>
      BY <1>2 DEF OrderRows
    <2> QED BY <1>2, <2>1 DEF _is_gone, States
  <1>3. CASE order[c] = "partial"
    <2>1. OrderRows(c) = <<"working", "partial">>
      BY <1>3 DEF OrderRows
    <2> QED BY <1>3, <2>1 DEF _is_gone, States
  <1>4. CASE order[c] = "filled"
    <2>1. OrderRows(c) = <<"working", "partial", "filled">>
      BY <1>4 DEF OrderRows
    <2>2. Len(OrderRows(c)) = 3 /\ 3 \in 1..3 /\ _is_gone(OrderRows(c)[3])
      BY <2>1 DEF _is_gone
    <2>3. OrderRows(c) \in Seq(States)
      BY <2>1 DEF States
    <2> QED BY <1>4, <2>2, <2>3
  <1>5. CASE order[c] = "canceled"
    <2>1. OrderRows(c) = <<"working", "canceled">>
      BY <1>5 DEF OrderRows
    <2>2. Len(OrderRows(c)) = 2 /\ 2 \in 1..2 /\ _is_gone(OrderRows(c)[2])
      BY <2>1 DEF _is_gone
    <2>3. OrderRows(c) \in Seq(States)
      BY <2>1 DEF States
    <2> QED BY <1>5, <2>2, <2>3
  <1> QED BY <1>1, <1>2, <1>3, <1>4, <1>5 DEF States

(* A row that comes again changes nothing. *)
LEMMA LateRow ==
  ASSUME NEW c \in Contracts, order[c] \in States, NEW i \in DOMAIN OrderRows(c)
  PROVE  Inventory(Append(OrderRows(c), OrderRows(c)[i])) =
           IF order[c] \in {"working", "partial"} THEN "working" ELSE "done"
  <1> DEFINE o == OrderRows(c)
             n == Len(o)
             rs == Append(o, o[i])
  <1>1. /\ o \in Seq(States)
        /\ o # <<>> => ((\E j \in 1..n : _is_gone(o[j])) <=> order[c] \notin {"working", "partial"})
    BY HistoryOfOrder
  <1>2. i \in DOMAIN o
    OBVIOUS
  <1> HIDE DEF o
  <1>3. /\ n \in Nat /\ i \in 1..n /\ o # <<>> /\ rs \in Seq(States) /\ Len(rs) = n + 1
        /\ rs[n + 1] = o[i] /\ \A j \in 1..n : rs[j] = o[j]
    BY <1>1, <1>2
  <1> HIDE DEF n, rs
  <1>4. (\E j \in 1..(n + 1) : _is_gone(rs[j])) <=> (\E j \in 1..n : _is_gone(o[j]))
    <2>1. \A j \in 1..(n + 1) : j \in 1..n \/ j = n + 1
      BY <1>3
    <2>2. 1..n \subseteq 1..(n + 1)
      BY <1>3
    <2> QED BY <1>3, <2>1, <2>2, Zenon
  <1>5. n + 1 # 0
    BY <1>3
  <1>6. Inventory(rs) = Known(rs, n + 1)
    BY <1>3, KnownOrders
  <1>7. Known(rs, n + 1) = IF \E j \in 1..(n + 1) : _is_gone(rs[j]) THEN "done" ELSE "working"
    BY <1>5 DEF Known
  <1> QED BY <1>1, <1>3, <1>4, <1>6, <1>7, Zenon DEF o, rs

(* The positions after the first i rows of a burst: the net of a contract whose row was read,
   flat without a row; unknown are the contracts whose row was not read. *)
ReadPos(i, garbled) == [c \in Contracts |->
  IF \E j \in 1..i : j \notin garbled /\ Burst[j].c = c THEN net[c] ELSE 0]
Unknown(i, garbled) == {c \in Contracts : \E j \in 1..i : j \in garbled /\ Burst[j].c = c}
Polls(i, garbled) == [first |-> i > 0, pos |-> ReadPos(i, garbled), unknown |-> Unknown(i, garbled)]

(* Before the first row. *)
LEMMA PollStarts == ASSUME NEW garbled PROVE Polls(0, garbled) = NoInventory
  <1>1. 1..0 = {}
    OBVIOUS
  <1>2. ReadPos(0, garbled) = [c \in Contracts |-> 0] /\ Unknown(0, garbled) = {}
    BY <1>1 DEF ReadPos, Unknown
  <1>3. (0 > 0) = FALSE
    OBVIOUS
  <1> QED BY <1>2, <1>3, Zenon DEF Polls, NoInventory

(* A row is read, or is not readable. *)
LEMMA PollStep ==
  ASSUME net \in [Contracts -> Nat], NEW n \in 0..Len(Burst), NEW garbled \in SUBSET (2..n),
         NEW i \in 1..n
  PROVE  Polls(i, garbled) = ingest(Polls(i - 1, garbled), Polled(i, garbled))
  <1> DEFINE b == Burst
  <1>1. /\ b \in Seq(PnlRows) /\ Len(b) > 0 /\ b[1].c = AnySymbol
        /\ \A j \in 2..Len(b) : b[j].c \in Contracts /\ b[j] = Row(b[j].c, net[b[j].c], TRUE)
        /\ \A j, k \in 2..Len(b) : b[j].c = b[k].c => j = k
    BY BurstRows
  <1>2. n \in 0..Len(b)
    OBVIOUS
  <1>3. /\ ReadPos(i, garbled) = [c \in Contracts |->
             IF \E j \in 1..i : j \notin garbled /\ b[j].c = c THEN net[c] ELSE 0]
        /\ ReadPos(i - 1, garbled) = [c \in Contracts |->
             IF \E j \in 1..(i - 1) : j \notin garbled /\ b[j].c = c THEN net[c] ELSE 0]
        /\ Unknown(i, garbled) = {c \in Contracts : \E j \in 1..i : j \in garbled /\ b[j].c = c}
        /\ Unknown(i - 1, garbled)
             = {c \in Contracts : \E j \in 1..(i - 1) : j \in garbled /\ b[j].c = c}
    BY Zenon DEF ReadPos, Unknown
  <1>4. Polled(i, garbled) = Row(b[i].c, IF i \in garbled THEN None ELSE b[i].q, b[i].burst)
    BY Zenon DEF Polled
  <1> DEFINE x == Polled(i, garbled)
  <1>5. x.c = b[i].c /\ x.q = IF i \in garbled THEN None ELSE b[i].q
    BY <1>4 DEF Row
  <1> HIDE DEF b, x
  <1>6. /\ Len(b) \in Nat /\ n \in Nat /\ i \in Nat /\ i - 1 \in Nat /\ 1..n \subseteq 1..Len(b)
        /\ 1..(i - 1) \subseteq 1..i /\ i \in 1..i /\ \A j \in 1..i : j \in 1..(i - 1) \/ j = i
        /\ \A j \in 1..(i - 1) : j # i /\ j \in 1..Len(b)
    BY <1>1, <1>2
  <1> DEFINE p == Polls(i - 1, garbled)
             P == ReadPos(i, garbled)
             P0 == ReadPos(i - 1, garbled)
             U == Unknown(i, garbled)
             U0 == Unknown(i - 1, garbled)
  <1>7. p.pos = P0 /\ p.unknown = U0
    BY DEF Polls
  <1>8. Polls(i, garbled) = [first |-> TRUE, pos |-> P, unknown |-> U]
    <2>1. (i > 0) = TRUE
      BY <1>6
    <2> QED BY <2>1, Zenon DEF Polls
  <1> HIDE DEF p, P, P0, U, U0
  <1>9. CASE i = 1
    <2>1. x.c = AnySymbol
      BY <1>1, <1>5, <1>9
    <2>2. ingest(p, x) = [first |-> TRUE, pos |-> P0, unknown |-> U0]
      BY <1>7, <2>1, Zenon DEF ingest
    <2>3. \A c \in Contracts : b[1].c # c
      BY <1>1, ExposureAssumption
    <2>4. 1..(i - 1) = {} /\ 1..i = {1}
      BY <1>9
    <2>5. \A c \in Contracts : /\ ~ \E j \in 1..i : j \notin garbled /\ b[j].c = c
                              /\ ~ \E j \in 1..i : j \in garbled /\ b[j].c = c
      BY <2>3, <2>4, Zenon
    <2>6. P = [c \in Contracts |-> 0] /\ P0 = [c \in Contracts |-> 0]
      <3>1. P = [c \in Contracts |-> 0]
        BY <1>3, <2>5, Zenon DEF P
      <3>2. P0 = [c \in Contracts |-> 0]
        BY <1>3, <2>4 DEF P0
      <3> QED BY <3>1, <3>2
    <2>7. U = {} /\ U0 = {}
      <3>1. U = {}
        BY <1>3, <2>5, Zenon DEF U
      <3>2. U0 = {}
        BY <1>3, <2>4 DEF U0
      <3> QED BY <3>1, <3>2
    <2> QED BY <1>8, <2>2, <2>6, <2>7, Zenon DEF p, x
  <1>10. CASE i # 1
    <2> DEFINE d == b[i].c
    <2>1. i \in 2..Len(b)
      BY <1>2, <1>6, <1>10
    <2>2. d \in Contracts /\ b[i].q = net[d] /\ d # AnySymbol /\ net[d] # None
      <3>1. d \in Contracts /\ b[i] = Row(d, net[d], TRUE)
        BY <1>1, <2>1
      <3>2. b[i].q = net[d]
        BY <3>1 DEF Row
      <3>3. d # AnySymbol /\ net[d] # None
        BY <3>1, ExposureAssumption DEF None
      <3> QED BY <3>1, <3>2, <3>3
    <2>3. ASSUME NEW j \in 1..(i - 1) PROVE b[j].c # d
      <3>1. CASE j = 1
        BY <1>1, <2>2, <3>1
      <3>2. CASE j # 1
        <4>1. j \in 2..Len(b) /\ j # i
          BY <1>6, <3>2
        <4> QED BY <1>1, <2>1, <4>1
      <3> QED BY <3>1, <3>2
    <2> HIDE DEF d
    <2>4. d \notin U0
      <3>1. ~ \E j \in 1..(i - 1) : j \in garbled /\ b[j].c = d
        BY <2>3
      <3> QED BY <1>3, <3>1 DEF U0
    <2>5. \A c \in Contracts : c # d => P[c] = P0[c]
      <3> SUFFICES ASSUME NEW c \in Contracts, c # d PROVE P[c] = P0[c]
        OBVIOUS
      <3>1. (\E j \in 1..i : j \notin garbled /\ b[j].c = c)
              <=> (\E j \in 1..(i - 1) : j \notin garbled /\ b[j].c = c)
        BY <1>6, Zenon DEF d
      <3> QED BY <1>3, <3>1 DEF P, P0
    <2>6. \A c \in Contracts : c # d => (c \in U <=> c \in U0)
      <3> SUFFICES ASSUME NEW c \in Contracts, c # d PROVE c \in U <=> c \in U0
        OBVIOUS
      <3>1. (\E j \in 1..i : j \in garbled /\ b[j].c = c)
              <=> (\E j \in 1..(i - 1) : j \in garbled /\ b[j].c = c)
        BY <1>6, Zenon DEF d
      <3> QED BY <1>3, <3>1 DEF U, U0
    <2>7. U \subseteq Contracts /\ U0 \subseteq Contracts
      BY <1>3 DEF U, U0
    <2>8. P \in [Contracts -> Nat \cup {0}] /\ P0 \in [Contracts -> Nat \cup {0}]
      BY <1>3 DEF P, P0
    <2>9. ingest(p, x) = [first |-> TRUE, pos |-> [P0 EXCEPT ![d] = IF x.q = None THEN 0 ELSE x.q],
                          unknown |-> IF x.q = None THEN U0 \cup {d} ELSE U0 \ {d}]
      <3>1. x.c = d
        BY <1>5 DEF d
      <3> QED BY <1>7, <2>2, <3>1, Zenon DEF ingest, _ingest_position
    <2>10. CASE i \in garbled
      <3>1. x.q = None
        BY <1>5, <2>10
      <3>2. d \in U
        BY <1>3, <1>6, <2>2, <2>10 DEF d, U
      <3>3. U = U0 \cup {d}
        BY <2>2, <2>6, <2>7, <3>2
      <3>4. P[d] = 0
        <4>1. ~ \E j \in 1..i : j \notin garbled /\ b[j].c = d
          BY <1>6, <2>3, <2>10
        <4> QED BY <1>3, <2>2, <4>1 DEF P
      <3>5. P = [P0 EXCEPT ![d] = 0]
        BY <2>2, <2>5, <2>8, <3>4
      <3> QED BY <1>8, <2>9, <3>1, <3>3, <3>5, Zenon DEF p, x
    <2>11. CASE i \notin garbled
      <3>1. x.q = net[d] /\ x.q # None
        BY <1>5, <2>2, <2>11
      <3>2. d \notin U
        <4>1. ~ \E j \in 1..i : j \in garbled /\ b[j].c = d
          BY <1>6, <2>3, <2>11
        <4> QED BY <1>3, <4>1 DEF U
      <3>3. U = U0 \ {d}
        BY <2>2, <2>4, <2>6, <2>7, <3>2
      <3>4. P[d] = net[d]
        <4>1. i \in 1..i /\ i \notin garbled /\ b[i].c = d
          BY <1>6, <2>11 DEF d
        <4> QED BY <1>3, <2>2, <4>1 DEF P
      <3>5. P = [P0 EXCEPT ![d] = net[d]]
        BY <2>2, <2>5, <2>8, <3>4
      <3> QED BY <1>8, <2>9, <3>1, <3>3, <3>5, Zenon DEF p, x
    <2> QED BY <2>10, <2>11
  <1> QED BY <1>9, <1>10

(* The loop over the rows of a burst comes to what Polls says. *)
LEMMA PollResult ==
  ASSUME net \in [Contracts -> Nat], NEW n \in 0..Len(Burst), NEW garbled \in SUBSET (2..n)
  PROVE  poll_into(n, garbled) = Polls(n, garbled)
  <1> DEFINE A == [i \in 0..n |-> Polls(i, garbled)]
             Solves(h) == h = [i \in 0..n |-> IF i = 0 THEN NoInventory
                                              ELSE ingest(h[i - 1], Polled(i, garbled))]
             h == CHOOSE f : Solves(f)
  <1>1. n \in Nat
    BY BurstRows
  <1>2. poll_into(n, garbled) = h[n]
    BY Zenon DEF poll_into
  <1>3. \A i \in 1..n : Polls(i, garbled) = ingest(Polls(i - 1, garbled), Polled(i, garbled))
    BY PollStep
  <1>4. Polls(0, garbled) = NoInventory
    BY PollStarts
  <1> HIDE DEF NoInventory
  <1>5. Solves(A)
    <2>1. ASSUME NEW i \in 0..n
          PROVE  A[i] = IF i = 0 THEN NoInventory ELSE ingest(A[i - 1], Polled(i, garbled))
      <3>1. CASE i = 0
        BY <1>4, <3>1
      <3>2. CASE i # 0
        <4>1. i \in 1..n /\ i - 1 \in 0..n
          BY <1>1, <3>2
        <4>2. A[i] = Polls(i, garbled) /\ A[i - 1] = Polls(i - 1, garbled)
          BY <4>1
        <4> QED BY <1>3, <3>2, <4>1, <4>2
      <3> QED BY <3>1, <3>2
    <2> QED BY <2>1
  <1> HIDE DEF A, Solves
  <1>6. Solves(h)
    BY <1>5
  <1> HIDE DEF h
  <1>7. h[0] = A[0] /\ \A i \in 1..n : h[i] = ingest(h[i - 1], Polled(i, garbled))
    BY <1>1, <1>4, <1>6 DEF Solves, A
  <1>8. \A i \in 1..n : A[i] = ingest(A[i - 1], Polled(i, garbled))
    BY <1>1, <1>5 DEF Solves
  <1>9. h[n] = A[n]
    <2>1. \A i \in 1..n : h[i - 1] = A[i - 1] => h[i] = A[i]
      BY <1>7, <1>8
    <2> QED BY <1>1, <1>7, <2>1, StepwiseEqual
  <1>10. A[n] = Polls(n, garbled)
    BY <1>1 DEF A
  <1> QED BY <1>2, <1>9, <1>10

(* pnl_live is proof: the whole burst came, every row was read. *)
LEMMA LiveInventory ==
  ASSUME net \in [Contracts -> Nat], NEW n \in 0..Len(Burst), NEW elapsed \in 0..Settle,
         NEW garbled \in SUBSET (2..n), elapsed = Settle => n = Len(Burst),
         pnl_live(poll_into(n, garbled), elapsed)
  PROVE  poll_into(n, garbled).pos = net
  <1> DEFINE b == Burst
  <1>1. /\ b \in Seq(PnlRows) /\ Len(b) > 0
        /\ \A j \in 2..Len(b) : b[j].c \in Contracts
        /\ \A c \in Open : \E j \in 2..Len(b) : b[j].c = c
    BY BurstRows
  <1>2. poll_into(n, garbled) = Polls(n, garbled)
    BY PollResult
  <1>3. Unknown(n, garbled) = {} /\ elapsed >= Settle
    BY <1>2 DEF pnl_live, Polls
  <1>4. n = Len(b)
    BY <1>3, ExposureAssumption
  <1>5. /\ ReadPos(n, garbled) = [c \in Contracts |->
             IF \E j \in 1..n : j \notin garbled /\ b[j].c = c THEN net[c] ELSE 0]
        /\ Unknown(n, garbled) = {c \in Contracts : \E j \in 1..n : j \in garbled /\ b[j].c = c}
    BY Zenon DEF ReadPos, Unknown
  <1> HIDE DEF b
  <1>6. Len(b) \in Nat /\ 2..n \subseteq 1..n
    BY <1>1, <1>4
  <1>7. garbled = {}
    <2> SUFFICES ASSUME NEW j \in garbled PROVE FALSE
      OBVIOUS
    <2>1. j \in 2..n /\ j \in 1..n /\ b[j].c \in Contracts
      BY <1>1, <1>4, <1>6
    <2> QED BY <1>3, <1>5, <2>1
  <1>8. ASSUME NEW c \in Contracts PROVE ReadPos(n, garbled)[c] = net[c]
    <2>1. CASE net[c] = 0
      BY <1>5, <2>1
    <2>2. CASE net[c] # 0
      <3>1. PICK j \in 2..Len(b) : b[j].c = c
        BY <1>1, <2>2 DEF Open
      <3>2. j \in 1..n /\ j \notin garbled
        BY <1>4, <1>6, <1>7
      <3> QED BY <1>5, <3>1, <3>2
    <2> QED BY <2>1, <2>2
  <1>9. ReadPos(n, garbled) = net
    <2>1. ReadPos(n, garbled) = [c \in Contracts |-> ReadPos(n, garbled)[c]]
      BY <1>5
    <2> QED BY <1>8, <2>1
  <1> QED BY <1>2, <1>9 DEF Polls

(* "A late row must not resurrect a phantom working order", and pnl_live is proof of the
   positions (inventory.py). *)
THEOREM InventoriesAreTrue == ExposureSpec => []InventoryIsTrue
  <1>1. ASSUME StreamInv PROVE InventoryIsTrue
    <2>1. net \in [Contracts -> Nat] /\ \A c \in Contracts : order[c] \in States
      BY <1>1 DEF StreamInv, ExposureTypes
    <2>2. ASSUME NEW c \in Contracts, NEW i \in DOMAIN OrderRows(c)
          PROVE  Inventory(Append(OrderRows(c), OrderRows(c)[i])) =
                   IF order[c] \in {"working", "partial"} THEN "working" ELSE "done"
      BY <2>1, LateRow
    <2>3. ASSUME NEW n \in 0..Len(Burst), NEW elapsed \in 0..Settle,
                 NEW garbled \in SUBSET (2..n), elapsed = Settle => n = Len(Burst),
                 pnl_live(poll_into(n, garbled), elapsed)
          PROVE  poll_into(n, garbled).pos = net
      BY <2>1, <2>3, LiveInventory
    <2> QED BY <2>2, <2>3, Zenon DEF InventoryIsTrue
  <1> QED BY <1>1, StreamInvariant, PTL

-----------------------------------------------------------------------------
\* DataIntents: subscriptions and their replay

-----------------------------------------------------------------------------
\* Commands under way
OpRecs == [h : Holders, op : {"sub", "unsub"}, st : {"call", "ok", "err"},
           saved : [Periods -> SUBSET BarTypes], own : BOOLEAN]

Feeds == {TickFeed, BookFeed} \cup {<<"bars", bar_type_to_rithmic(b)>> : b \in BarTypes}

IntentTypes ==
  /\ client \in {"off", "wired", "on", "leaving"} /\ why \in {"none", "connect", "gap"}
  /\ hist \in {"none", "run", "dead"}
  /\ intents \subseteq Kinds /\ types \in [Periods -> SUBSET BarTypes]
  /\ joined \subseteq Feeds /\ ops \subseteq OpRecs /\ replay \in Seq(Feeds)

\* A replay is of a connect or of a gap.
Phases == /\ why = "connect" => client = "wired"
          /\ why = "gap" => client = "on"
          /\ replay # <<>> => why # "none"

\* A holder has one call of a kind; an unsubscribe is alone in its group, or it is recorded.
OneCall == \A o, q \in ops : o.h = q.h /\ o.op = q.op => o = q
Alone == \A o \in ops : o.op = "unsub" /\ Group(o.h) \notin cloud =>
           /\ why = "none"
           /\ \A q \in ops : Group(q.h) = Group(o.h) => q = o

\* What the client takes itself to be subscribed to.
Claims(f) == \/ f = TickFeed /\ subs
             \/ f = BookFeed /\ book
             \/ \E b \in Registered : Feed(b) = f

Subbed(f)  == \E o \in ops : o.op = "sub" /\ o.st = "ok" /\ Feed(o.h) = f
Leaving(f) == \E o \in ops : o.op = "unsub" /\ o.st = "ok" /\ Feed(o.h) = f
Returns(o) == o.h \in o.saved[bar_type_to_rithmic(o.h)]
MayReturn(o) == o.op = "unsub" /\ o.st # "ok" /\ Returns(o)
Returning(f) == \E o \in ops : o.h \in BarTypes /\ MayReturn(o) /\ Feed(o.h) = f

Synced == client = "on" \/ why = "connect"
ToCome == IF why = "connect" THEN {replay[i] : i \in DOMAIN replay} ELSE {}

LeftIsLeft == \A o \in ops : o.op = "unsub" /\ o.st = "ok" /\ Group(o.h) \notin cloud =>
                Feed(o.h) \notin joined
SubbedIsJoined == client \in {"wired", "on"} =>
                    \A f \in Feeds : Subbed(f) /\ f[1] \notin cloud => f \in joined
ClaimsServed == Synced => \A f \in Feeds : Claims(f) /\ f[1] \notin cloud =>
                            f \in joined \/ f \in ToCome \/ Leaving(f)
JoinedClaimed == \A f \in joined : f[1] \notin cloud /\ ~ (f = TickFeed /\ early) =>
                   Claims(f) \/ Subbed(f) \/ Returning(f)
ReplayClaimed == \A i \in DOMAIN replay :
                   replay[i][1] \notin cloud /\ ~ (replay[i] = TickFeed /\ early) => Claims(replay[i])

\* The tick calls that are under way have their intents, an intent that is not subscribed
\* has its call, and a subscription without a call of its own has an intent or is being left.
TickOps == {o \in ops : o.h \in Kinds}
TickHolds ==
  /\ \A o \in TickOps : o.own
  /\ \A o \in TickOps : o.op = "sub" => o.h \in intents
  /\ \A o \in TickOps : o.op = "unsub" => intents = {} /\ subs
  /\ \A k \in intents : ~ subs => \E o \in TickOps : o.h = k /\ o.op = "sub"
  /\ subs => \/ \E k \in intents : \A o \in TickOps : o.h = k => o.op # "sub"
             \/ \E o \in TickOps : o.op = "unsub"
TickInv == "tick" \notin cloud => TickHolds

\* A registered type is found under exactly its wire periods; one that is being left under none, and
\* what comes back when the call fails is joined and polled.
BarOps == {o \in ops : o.h \in BarTypes}
KeysFit == \A b \in Registered : \A p \in Periods : b \in types[p] <=> p \in bar_wire_period_keys(b)
LeavingBars == \A o \in BarOps : o.op = "unsub" =>
                 \A p \in bar_wire_period_keys(o.h) :
                   types[p] = {} /\ o.saved[p] = IF Returns(o) THEN {o.h} ELSE {}
BackJoined == Synced => \A o \in BarOps : MayReturn(o) => Feed(o.h) \in joined
BarsPolled == client = "on" => /\ \A o \in BarOps : MayReturn(o) => hist # "none"
                               /\ Registered # {} => hist # "none"
BarsInv == "bars" \notin cloud => KeysFit /\ LeavingBars /\ BackJoined /\ BarsPolled

IntentsInv ==
  /\ IntentTypes /\ Phases /\ OneCall /\ Alone /\ LeftIsLeft /\ SubbedIsJoined /\ ClaimsServed
  /\ TickInv /\ BarsInv
GhostInv == JoinedClaimed /\ ReplayClaimed

-----------------------------------------------------------------------------
\* Holders, groups and feeds

Groups == {"tick", "book", "bars"}

(* A holder is of one group. *)
LEMMA HolderGroup ==
  ASSUME NEW h \in Holders
  PROVE  /\ Group(h) \in Groups
         /\ Group(h) = "tick" <=> h \in Kinds
         /\ Group(h) = "book" <=> h = "book"
         /\ Group(h) = "bars" <=> h \in BarTypes
  BY DataIntentsAssumption DEF Group, Groups, Holders, Kinds

(* The feed of a holder tells its group. *)
LEMMA HolderFeed ==
  ASSUME NEW h \in Holders
  PROVE  /\ Feed(h) \in Feeds /\ Feed(h)[1] = Group(h)
         /\ h \in Kinds => Feed(h) = TickFeed
         /\ h = "book" => Feed(h) = BookFeed
         /\ h \in BarTypes => Feed(h) = <<"bars", bar_type_to_rithmic(h)>>
  <1>1. CASE h \in Kinds
    <2>1. Group(h) = "tick" /\ h # "book" /\ h \notin BarTypes
      BY <1>1, DataIntentsAssumption DEF Group, Kinds
    <2>2. Feed(h) = TickFeed
      BY <2>1 DEF Feed
    <2> QED BY <1>1, <2>1, <2>2 DEF Feeds, TickFeed
  <1>2. CASE h = "book"
    <2>1. Group(h) = "book" /\ h \notin Kinds /\ h \notin BarTypes
      BY <1>2, DataIntentsAssumption DEF Group, Kinds
    <2>2. Feed(h) = BookFeed
      BY <2>1 DEF Feed
    <2> QED BY <1>2, <2>1, <2>2 DEF Feeds, BookFeed
  <1>3. CASE h \in BarTypes
    <2>1. Group(h) = "bars" /\ h \notin Kinds /\ h # "book"
      BY <1>3, DataIntentsAssumption DEF Group, Kinds
    <2>2. Feed(h) = <<"bars", bar_type_to_rithmic(h)>>
      BY <2>1 DEF Feed
    <2> QED BY <1>3, <2>1, <2>2 DEF Feeds
  <1> QED BY <1>1, <1>2, <1>3 DEF Holders

(* A feed is of one group. *)
LEMMA FeedGroup ==
  ASSUME NEW f \in Feeds
  PROVE  /\ f[1] \in Groups
         /\ f[1] = "tick" <=> f = TickFeed
         /\ f[1] = "book" <=> f = BookFeed
  BY DEF Feeds, TickFeed, BookFeed, Groups

(* Bar types of one feed have the same wire periods, the native one among them. *)
LEMMA PeriodKeys ==
  ASSUME NEW b \in BarTypes
  PROVE  /\ bar_wire_period_keys(b) \subseteq Periods
         /\ bar_type_to_rithmic(b) \in bar_wire_period_keys(b)
         /\ \A d \in BarTypes : Feed(d) = Feed(b) => bar_wire_period_keys(d) = bar_wire_period_keys(b)
  <1>1. b \in {"M1", "M60", "H1"} /\ BarTypes \subseteq {"M1", "M60", "H1"}
    BY DataIntentsAssumption
  <1>2. bar_wire_period_keys(b) \subseteq Periods
    BY <1>1 DEF bar_wire_period_keys, bar_type_to_rithmic, Periods
  <1>3. bar_type_to_rithmic(b) \in bar_wire_period_keys(b)
    BY DEF bar_wire_period_keys
  <1>4. ASSUME NEW d \in BarTypes, Feed(d) = Feed(b)
        PROVE  bar_wire_period_keys(d) = bar_wire_period_keys(b)
    <2>1. d \in Holders /\ b \in Holders
      BY DEF Holders
    <2>2. bar_type_to_rithmic(d) = bar_type_to_rithmic(b)
      BY <1>4, <2>1, HolderFeed
    <2>3. d = "M1" <=> b = "M1"
      BY <2>2 DEF bar_type_to_rithmic
    <2> QED BY <2>2, <2>3 DEF bar_wire_period_keys
  <1> QED BY <1>2, <1>3, <1>4

(* What is registered is found under some wire period. *)
LEMMA RegisteredBars ==
  ASSUME types \in [Periods -> SUBSET BarTypes]
  PROVE  /\ Registered \subseteq BarTypes
         /\ \A p \in Periods : \A b \in types[p] : b \in Registered
         /\ \A b \in Registered : \E p \in Periods : b \in types[p]
  BY DEF Registered

(* The feeds of two groups are apart. *)
LEMMA FeedsApart ==
  ASSUME NEW f \in Feeds, NEW R \in SUBSET BarTypes
  PROVE  /\ f[1] = "tick" => f = TickFeed /\ f # BookFeed /\ \A b \in R : Feed(b) # f
         /\ f[1] = "book" => f # TickFeed /\ f = BookFeed /\ \A b \in R : Feed(b) # f
         /\ f[1] = "bars" => f # TickFeed /\ f # BookFeed
  <1>1. \A b \in R : Feed(b)[1] = "bars"
    <2>1. \A b \in R : b \in BarTypes /\ b \in Holders
      BY DEF Holders
    <2> QED BY <2>1, HolderFeed, HolderGroup
  <1>2. TickFeed[1] = "tick" /\ BookFeed[1] = "book"
    BY DEF TickFeed, BookFeed
  <1> QED BY <1>1, <1>2, FeedGroup

(* What a claim says, by group. *)
LEMMA ClaimsByGroup ==
  ASSUME types \in [Periods -> SUBSET BarTypes], NEW f \in Feeds
  PROVE  /\ f[1] = "tick" => (Claims(f) <=> subs)
         /\ f[1] = "book" => (Claims(f) <=> book)
         /\ f[1] = "bars" => (Claims(f) <=> \E b \in Registered : Feed(b) = f)
  <1>1. Registered \in SUBSET BarTypes
    BY RegisteredBars
  <1>2. /\ f[1] = "tick" => f = TickFeed /\ f # BookFeed /\ \A b \in Registered : Feed(b) # f
        /\ f[1] = "book" => f # TickFeed /\ f = BookFeed /\ \A b \in Registered : Feed(b) # f
        /\ f[1] = "bars" => f # TickFeed /\ f # BookFeed
    BY <1>1, FeedsApart
  <1> QED BY <1>2, Zenon DEF Claims

(* And after a step. *)
LEMMA ClaimsByGroupNext ==
  ASSUME types' \in [Periods -> SUBSET BarTypes], NEW f \in Feeds
  PROVE  /\ f[1] = "tick" => (Claims(f)' <=> subs')
         /\ f[1] = "book" => (Claims(f)' <=> book')
         /\ f[1] = "bars" => (Claims(f)' <=> \E b \in Registered' : Feed(b) = f)
  <1>1. Registered' \in SUBSET BarTypes
    BY DEF Registered
  <1>2. /\ f[1] = "tick" => f = TickFeed /\ f # BookFeed /\ \A b \in Registered' : Feed(b) # f
        /\ f[1] = "book" => f # TickFeed /\ f = BookFeed /\ \A b \in Registered' : Feed(b) # f
        /\ f[1] = "bars" => f # TickFeed /\ f # BookFeed
    BY <1>1, FeedsApart
  <1> QED BY <1>2, Zenon DEF Claims

-----------------------------------------------------------------------------
\* What a command changes

\* A command of holder h: in a group that stays out of the cloud, the calls under way are
\* the same but for the one it may make, and nothing overlaps an unsubscribe.
Starts(h, op) ==
  /\ UNCHANGED <<client, joined, replay, why, hist, early, subs, book>>
  /\ ops' \subseteq OpRecs /\ cloud \subseteq cloud' /\ OneCall'
  /\ \A o \in ops' : Group(o.h) \notin cloud' =>
       o \in ops \/ (o.h = h /\ o.op = op /\ o.st = "call")
  /\ \A o \in ops : Group(o.h) \notin cloud' => o \in ops'
  /\ Group(h) \notin cloud' /\ op = "unsub" => why = "none"
  /\ Group(h) \notin cloud' =>
       \A o \in ops : Group(o.h) = Group(h) => op = "sub" /\ o.op = "sub"

(* A command that does not put its group in the cloud overlaps no unsubscribe. *)
LEMMA CloudRecords ==
  ASSUME NEW h, NEW op \in {"sub", "unsub"}, ops \subseteq OpRecs, cloud' = Clouds(h, op)
  PROVE  /\ cloud \subseteq cloud'
         /\ Group(h) \notin cloud' =>
              /\ op = "unsub" => why = "none"
              /\ \A o \in ops : Group(o.h) = Group(h) => op = "sub" /\ o.op = "sub"
  <1> DEFINE Overlaps == \/ \E o \in Under(Group(h)) : op = "unsub" \/ o.op = "unsub"
                         \/ op = "unsub" /\ why # "none"
  <1>1. CASE Overlaps
    BY <1>1, Zenon DEF Clouds
  <1>2. CASE ~ Overlaps
    <2>1. cloud' = cloud
      BY <1>2, Zenon DEF Clouds
    <2>2. \A o \in ops : Group(o.h) = Group(h) => op # "unsub" /\ o.op # "unsub"
      BY <1>2, Zenon DEF Under
    <2>3. \A o \in ops : o.op \in {"sub", "unsub"}
      BY DEF OpRecs
    <2>4. op = "unsub" => why = "none"
      BY <1>2
    <2> QED BY <2>1, <2>2, <2>3, <2>4
  <1> QED BY <1>1, <1>2

(* A new call, or none. *)
LEMMA CallStarts ==
  ASSUME NEW h \in Holders, NEW op \in {"sub", "unsub"}, NEW n \in OpRecs,
         n.h = h, n.op = op, n.st = "call", ops \subseteq OpRecs, OneCall,
         ops' = ops \/ ops' = ops \cup {n}, cloud' = Clouds(h, op), Commands(h, op),
         UNCHANGED <<client, joined, replay, why, hist, early, subs, book>>
  PROVE  Starts(h, op)
  <1>1. /\ cloud \subseteq cloud'
        /\ Group(h) \notin cloud' =>
             /\ op = "unsub" => why = "none"
             /\ \A o \in ops : Group(o.h) = Group(h) => op = "sub" /\ o.op = "sub"
    BY CloudRecords
  <1>2. \A o \in ops : ~ (o.h = h /\ o.op = op)
    BY DEF Commands
  <1>3. OneCall'
    BY <1>2 DEF OneCall
  <1>4. \A o \in ops' : o \in ops \/ (o.h = h /\ o.op = op /\ o.st = "call")
    OBVIOUS
  <1>5. \A o \in ops : o \in ops'
    OBVIOUS
  <1>6. ops' \subseteq OpRecs
    OBVIOUS
  <1> QED BY <1>1, <1>3, <1>4, <1>5, <1>6, Zenon DEF Starts

(* A call that begins. *)
LEMMA NewOp ==
  ASSUME NEW h \in Holders, NEW op \in {"sub", "unsub"}, NEW own \in BOOLEAN,
         NEW s \in [Periods -> SUBSET BarTypes]
  PROVE  /\ Op(h, op, s, own) \in OpRecs
         /\ Op(h, op, s, own).h = h /\ Op(h, op, s, own).op = op
         /\ Op(h, op, s, own).st = "call" /\ Op(h, op, s, own).saved = s
         /\ Op(h, op, s, own).own = own
  BY DEF Op, OpRecs

(* A call other than the unsubscribe of a bar type saves nothing. *)
LEMMA NoSavedType == NoSaved \in [Periods -> SUBSET BarTypes]
  BY DEF NoSaved

(* A tick kind is subscribed. *)
LEMMA AddStarts ==
  ASSUME IntentTypes, OneCall, NEW k \in Kinds, _add_ticker_intent(k)
  PROVE  Starts(k, "sub")
  <1>1. k \in Holders /\ ops \subseteq OpRecs
    BY DEF Holders, IntentTypes
  <1>2. Op(k, "sub", NoSaved, TRUE) \in OpRecs /\ Op(k, "sub", NoSaved, TRUE).h = k
        /\ Op(k, "sub", NoSaved, TRUE).op = "sub" /\ Op(k, "sub", NoSaved, TRUE).st = "call"
    BY <1>1, NoSavedType DEF Op, OpRecs
  <1>3. ops' = ops \/ ops' = ops \cup {Op(k, "sub", NoSaved, TRUE)}
    BY Zenon DEF _add_ticker_intent, Calls
  <1>4. /\ cloud' = Clouds(k, "sub") /\ Commands(k, "sub")
        /\ UNCHANGED <<client, joined, replay, why, hist, early, subs, book>>
    BY DEF _add_ticker_intent
  <1> QED BY <1>1, <1>2, <1>3, <1>4, CallStarts

(* The book is subscribed or unsubscribed. *)
LEMMA BookStarts ==
  ASSUME IntentTypes, OneCall, NEW op \in {"sub", "unsub"}, Commands("book", op),
         Calls("book", op, NoSaved), cloud' = Clouds("book", op),
         UNCHANGED <<client, up, intentVars, joined, replay, why, hist, early>>
  PROVE  Starts("book", op)
  <1>1. "book" \in Holders /\ ops \subseteq OpRecs
    BY DEF Holders, IntentTypes
  <1>2. Op("book", op, NoSaved, TRUE) \in OpRecs /\ Op("book", op, NoSaved, TRUE).h = "book"
        /\ Op("book", op, NoSaved, TRUE).op = op /\ Op("book", op, NoSaved, TRUE).st = "call"
    BY <1>1, NoSavedType DEF Op, OpRecs
  <1>3. ops' = ops \cup {Op("book", op, NoSaved, TRUE)}
    BY DEF Calls
  <1> QED BY <1>1, <1>2, <1>3, CallStarts DEF intentVars

(* A bar type is subscribed. *)
LEMMA SubBarsStarts ==
  ASSUME IntentTypes, OneCall, NEW b \in BarTypes, _subscribe_bars(b)
  PROVE  Starts(b, "sub")
  <1>1. b \in Holders /\ ops \subseteq OpRecs
    BY DEF Holders, IntentTypes
  <1>2. Op(b, "sub", NoSaved, TRUE) \in OpRecs /\ Op(b, "sub", NoSaved, TRUE).h = b
        /\ Op(b, "sub", NoSaved, TRUE).op = "sub" /\ Op(b, "sub", NoSaved, TRUE).st = "call"
    BY <1>1, NoSavedType DEF Op, OpRecs
  <1>3. ops' = ops \cup {Op(b, "sub", NoSaved, TRUE)}
    BY DEF _subscribe_bars, Calls
  <1>4. /\ cloud' = Clouds(b, "sub") /\ Commands(b, "sub")
        /\ UNCHANGED <<client, joined, replay, why, hist, early, subs, book>>
    BY DEF _subscribe_bars, intentVars
  <1> QED BY <1>1, <1>2, <1>3, <1>4, CallStarts

(* A bar type is unsubscribed. *)
LEMMA UnsubBarsStarts ==
  ASSUME IntentTypes, OneCall, NEW b \in BarTypes, _unsubscribe_bars(b)
  PROVE  Starts(b, "unsub")
  <1>1. b \in Holders /\ ops \subseteq OpRecs /\ types \in [Periods -> SUBSET BarTypes]
    BY DEF Holders, IntentTypes
  <1>2. Op(b, "unsub", types, TRUE) \in OpRecs /\ Op(b, "unsub", types, TRUE).h = b
        /\ Op(b, "unsub", types, TRUE).op = "unsub" /\ Op(b, "unsub", types, TRUE).st = "call"
    BY <1>1 DEF Op, OpRecs
  <1>3. ops' = ops \/ ops' = ops \cup {Op(b, "unsub", types, TRUE)}
    BY Zenon DEF _unsubscribe_bars, Calls
  <1>4. /\ cloud' = Clouds(b, "unsub") /\ Commands(b, "unsub")
        /\ UNCHANGED <<client, joined, replay, why, hist, early, subs, book>>
    BY DEF _unsubscribe_bars
  <1> QED BY <1>1, <1>2, <1>3, <1>4, CallStarts

(* Orphaned changes the tick calls only, and none of what they do at the venue. *)
LEMMA OrphanedOps ==
  ASSUME NEW S \in SUBSET OpRecs
  PROVE  /\ Orphaned(S) \subseteq OpRecs
         /\ \A o \in Orphaned(S) : \E q \in S :
              /\ o.h = q.h /\ o.op = q.op
              /\ o = IF q.h \in Kinds /\ q.op = "sub" THEN [q EXCEPT !.own = FALSE] ELSE q
         /\ \A q \in S : ~ (q.h \in Kinds /\ q.op = "sub") => q \in Orphaned(S)
  <1>1. ASSUME NEW q \in S
        PROVE  /\ [q EXCEPT !.own = FALSE] \in OpRecs
               /\ [q EXCEPT !.own = FALSE].h = q.h /\ [q EXCEPT !.own = FALSE].op = q.op
    BY DEF OpRecs
  <1>2. \A q \in S : ~ (q.h \in Kinds /\ q.op = "sub") => q \in Orphaned(S)
    BY Zenon DEF Orphaned
  <1>3. ASSUME NEW o \in Orphaned(S)
        PROVE  \E q \in S :
                 /\ o.h = q.h /\ o.op = q.op /\ o \in OpRecs
                 /\ o = IF q.h \in Kinds /\ q.op = "sub" THEN [q EXCEPT !.own = FALSE] ELSE q
    <2>1. PICK q \in S : o = IF q.h \in Kinds /\ q.op = "sub" THEN [q EXCEPT !.own = FALSE] ELSE q
      BY Zenon DEF Orphaned
    <2>2. CASE q.h \in Kinds /\ q.op = "sub"
      BY <1>1, <2>1, <2>2, Zenon
    <2>3. CASE ~ (q.h \in Kinds /\ q.op = "sub")
      BY <2>1, <2>3, Zenon
    <2> QED BY <2>2, <2>3
  <1> QED BY <1>2, <1>3, Zenon

(* A tick kind is unsubscribed; with no other tick call under way none is orphaned. *)
LEMMA RemoveStarts ==
  ASSUME IntentTypes, OneCall, NEW k \in Kinds, _remove_ticker_intent(k)
  PROVE  /\ Starts(k, "unsub")
         /\ "tick" \notin cloud' => ops' = ops \/ ops' = ops \cup {Op(k, "unsub", NoSaved, k \in intents)}
  <1> DEFINE own == k \in intents
             n == Op(k, "unsub", NoSaved, own)
  <1>1. k \in Holders /\ ops \subseteq OpRecs /\ Group(k) = "tick"
    BY HolderGroup DEF Holders, IntentTypes
  <1>2. own \in BOOLEAN
    OBVIOUS
  <1> HIDE DEF own
  <1>3. n \in OpRecs /\ n.h = k /\ n.op = "unsub" /\ n.st = "call"
    BY <1>1, <1>2, NewOp, NoSavedType
  <1>4. PICK rest : /\ rest = ops \/ rest = Orphaned(ops)
                    /\ ops' = rest \/ ops' = rest \cup {n}
    BY Zenon DEF _remove_ticker_intent, own
  <1> HIDE DEF n
  <1>5. /\ cloud' = cloud \cup {"tick"} \/ cloud' = Clouds(k, "unsub")
        /\ UNCHANGED <<client, joined, replay, why, hist, early, subs, book>>
        /\ \A o \in ops : ~ (o.h = k /\ o.op = "unsub")
    BY Zenon DEF _remove_ticker_intent, Commands
  <1>6. /\ cloud \subseteq cloud'
        /\ "tick" \notin cloud' =>
             /\ why = "none"
             /\ \A o \in ops : Group(o.h) # "tick"
    <2>1. CASE cloud' = cloud \cup {"tick"}
      BY <2>1
    <2>2. CASE cloud' = Clouds(k, "unsub")
      BY <1>1, <2>2, CloudRecords
    <2> QED BY <1>5, <2>1, <2>2
  <1>7. /\ Orphaned(ops) \subseteq OpRecs
        /\ \A o \in Orphaned(ops) : \E q \in ops :
             /\ o.h = q.h /\ o.op = q.op
             /\ o = IF q.h \in Kinds /\ q.op = "sub" THEN [q EXCEPT !.own = FALSE] ELSE q
        /\ \A q \in ops : ~ (q.h \in Kinds /\ q.op = "sub") => q \in Orphaned(ops)
    BY <1>1, OrphanedOps
  <1>8. \A o \in OpRecs : Group(o.h) = "tick" <=> o.h \in Kinds
    BY HolderGroup DEF OpRecs
  <1>9. \A o \in Orphaned(ops) : Group(o.h) # "tick" => o \in ops
    BY <1>1, <1>7, <1>8, Zenon
  <1>10. \A o \in ops : Group(o.h) # "tick" => o \in Orphaned(ops)
    BY <1>1, <1>7, <1>8, Zenon
  <1>11. \A o, q \in Orphaned(ops) : o.h = q.h /\ o.op = q.op => o = q
    <2> SUFFICES ASSUME NEW o \in Orphaned(ops), NEW q \in Orphaned(ops), o.h = q.h, o.op = q.op
                 PROVE  o = q
      OBVIOUS
    <2>1. PICK o1 \in ops : /\ o.h = o1.h /\ o.op = o1.op
             /\ o = IF o1.h \in Kinds /\ o1.op = "sub" THEN [o1 EXCEPT !.own = FALSE] ELSE o1
      BY <1>7, Zenon
    <2>2. PICK q1 \in ops : /\ q.h = q1.h /\ q.op = q1.op
             /\ q = IF q1.h \in Kinds /\ q1.op = "sub" THEN [q1 EXCEPT !.own = FALSE] ELSE q1
      BY <1>7, Zenon
    <2>3. o1 = q1
      BY <2>1, <2>2, Zenon DEF OneCall
    <2> QED BY <2>1, <2>2, <2>3, Zenon
  <1>12. \A o \in Orphaned(ops) : ~ (o.h = k /\ o.op = "unsub")
    BY <1>5, <1>7, Zenon
  <1>13. /\ rest \subseteq OpRecs /\ \A o \in rest : Group(o.h) # "tick" => o \in ops
         /\ \A o \in ops : Group(o.h) # "tick" => o \in rest
         /\ \A o, q \in rest : o.h = q.h /\ o.op = q.op => o = q
         /\ \A o \in rest : ~ (o.h = k /\ o.op = "unsub")
    BY <1>1, <1>4, <1>5, <1>7, <1>9, <1>10, <1>11, <1>12, Zenon DEF OneCall
  <1>14. OneCall'
    BY <1>3, <1>4, <1>13 DEF OneCall
  <1>15. ops' \subseteq OpRecs
    BY <1>3, <1>4, <1>13
  <1>16. ASSUME "tick" \notin cloud' PROVE rest = ops
    <2>1. \A o \in ops : Group(o.h) # "tick"
      BY <1>6, <1>16
    <2>2. \A o \in rest : Group(o.h) # "tick"
      <3>1. CASE rest = ops
        BY <2>1, <3>1
      <3>2. CASE rest = Orphaned(ops)
        BY <1>7, <2>1, <3>2, Zenon
      <3> QED BY <1>4, <3>1, <3>2
    <2> QED BY <1>13, <2>1, <2>2
  <1>17. \A o \in ops' : Group(o.h) \notin cloud' =>
           o \in ops \/ (o.h = k /\ o.op = "unsub" /\ o.st = "call")
    <2> SUFFICES ASSUME NEW o \in ops', Group(o.h) \notin cloud'
                 PROVE  o \in ops \/ (o.h = k /\ o.op = "unsub" /\ o.st = "call")
      OBVIOUS
    <2>1. CASE o \in rest
      BY <1>13, <1>16, <2>1
    <2>2. CASE o = n
      BY <1>3, <2>2
    <2> QED BY <1>4, <2>1, <2>2
  <1>18. \A o \in ops : Group(o.h) \notin cloud' => o \in ops'
    BY <1>4, <1>13, <1>16
  <1>19. Starts(k, "unsub")
    BY <1>1, <1>5, <1>6, <1>14, <1>15, <1>17, <1>18, Zenon DEF Starts
  <1>20. "tick" \notin cloud' => ops' = ops \/ ops' = ops \cup {n}
    BY <1>4, <1>16
  <1> QED BY <1>19, <1>20 DEF n, own

(* Every command starts so, for a holder and a direction. *)
LEMMA CommandStarts ==
  ASSUME IntentTypes, OneCall, Command
  PROVE  \E h \in Holders, op \in {"sub", "unsub"} : Starts(h, op)
  <1>1. Kinds \subseteq Holders /\ "book" \in Holders /\ BarTypes \subseteq Holders
    BY DEF Holders
  <1>2. ASSUME NEW k \in Kinds, _add_ticker_intent(k) \/ _remove_ticker_intent(k)
        PROVE  \E op \in {"sub", "unsub"} : Starts(k, op)
    BY <1>2, AddStarts, RemoveStarts
  <1>3. ASSUME NEW b \in BarTypes, _subscribe_bars(b) \/ _unsubscribe_bars(b)
        PROVE  \E op \in {"sub", "unsub"} : Starts(b, op)
    BY <1>3, SubBarsStarts, UnsubBarsStarts
  <1>4. CASE _subscribe_order_book_deltas
    <2>1. Starts("book", "sub")
      BY <1>4, BookStarts DEF _subscribe_order_book_deltas
    <2> QED BY <1>1, <2>1
  <1>5. CASE _unsubscribe_order_book_deltas
    <2>1. Starts("book", "unsub")
      BY <1>5, BookStarts DEF _unsubscribe_order_book_deltas
    <2> QED BY <1>1, <2>1
  <1> QED BY <1>1, <1>2, <1>3, <1>4, <1>5, Zenon DEF Command

-----------------------------------------------------------------------------
\* Replays

Elems(q) == {q[i] : i \in DOMAIN q}

(* The elements of a concatenation. *)
LEMMA ConcatElems ==
  ASSUME NEW S, NEW s \in Seq(S), NEW t \in Seq(S)
  PROVE  s \o t \in Seq(S) /\ Elems(s \o t) = Elems(s) \cup Elems(t)
  <1> DEFINE m == Len(s)
             n == Len(t)
             u == s \o t
  <1>1. /\ m \in Nat /\ n \in Nat /\ u \in Seq(S) /\ Len(u) = m + n
        /\ DOMAIN s = 1..m /\ DOMAIN t = 1..n /\ DOMAIN u = 1..(m + n)
        /\ \A i \in 1..m : u[i] = s[i]
        /\ \A i \in 1..n : u[i + m] = t[i]
    OBVIOUS
  <1> HIDE DEF m, n, u
  <1>2. \A i \in 1..(m + n) : i \in 1..m \/ \E j \in 1..n : i = j + m
    <2> SUFFICES ASSUME NEW i \in 1..(m + n), i \notin 1..m PROVE \E j \in 1..n : i = j + m
      OBVIOUS
    <2>1. i - m \in 1..n /\ i = (i - m) + m
      BY <1>1
    <2> QED BY <2>1
  <1>3. \A i \in 1..m : i \in 1..(m + n)
    BY <1>1
  <1>4. \A j \in 1..n : j + m \in 1..(m + n)
    BY <1>1
  <1>5. \A x : x \in Elems(u) => x \in Elems(s) \cup Elems(t)
    <2> SUFFICES ASSUME NEW i \in 1..(m + n) PROVE u[i] \in Elems(s) \cup Elems(t)
      BY <1>1, Zenon DEF Elems
    <2>1. CASE i \in 1..m
      BY <1>1, <2>1 DEF Elems
    <2>2. CASE \E j \in 1..n : i = j + m
      BY <1>1, <2>2 DEF Elems
    <2> QED BY <1>2, <2>1, <2>2
  <1>6. \A x : x \in Elems(s) \cup Elems(t) => x \in Elems(u)
    BY <1>1, <1>3, <1>4, Zenon DEF Elems
  <1> QED BY <1>1, <1>5, <1>6 DEF u

(* A replay is of every intent, and of nothing else. *)
LEMMA ReplayOf ==
  ASSUME IntentTypes
  PROVE  /\ ReplaySet \in Seq(Feeds)
         /\ Elems(ReplaySet) = (IF TickerKeys THEN {TickFeed} ELSE {}) \cup
                               (IF book THEN {BookFeed} ELSE {}) \cup bar_resync_subscriptions
  <1> DEFINE S == bar_resync_subscriptions
             f == [b \in Registered |-> <<"bars", bar_type_to_rithmic(b)>>]
             t == IF TickerKeys THEN <<TickFeed>> ELSE <<>>
             k == IF book THEN <<BookFeed>> ELSE <<>>
             r == SetToSeq(S)
             n == Cardinality(S)
  <1>1. IsFiniteSet(Registered) /\ Registered \subseteq BarTypes
    <2>1. IsFiniteSet({"M1", "M60", "H1"})
      <3>1. IsFiniteSet({}) /\ {"M1", "M60", "H1"} = (({} \cup {"M1"}) \cup {"M60"}) \cup {"H1"}
        BY FS_EmptySet
      <3>2. IsFiniteSet({} \cup {"M1"})
        BY <3>1, FS_AddElement
      <3>3. IsFiniteSet(({} \cup {"M1"}) \cup {"M60"})
        BY <3>2, FS_AddElement
      <3>4. IsFiniteSet((({} \cup {"M1"}) \cup {"M60"}) \cup {"H1"})
        BY <3>3, FS_AddElement
      <3> QED BY <3>1, <3>4
    <2>2. Registered \subseteq BarTypes
      BY RegisteredBars DEF IntentTypes
    <2> QED BY <2>1, <2>2, DataIntentsAssumption, FS_Subset
  <1>2. f \in Surjection(Registered, S)
    BY DEF Surjection, bar_resync_subscriptions
  <1>3. IsFiniteSet(S)
    <2> HIDE DEF f, S
    <2> QED BY <1>1, <1>2, FS_Surjection
  <1>4. S \subseteq Feeds
    BY <1>1 DEF bar_resync_subscriptions, Feeds
  <1> HIDE DEF S
  <1>5. /\ n \in Nat /\ r \in [1..n -> S] /\ \A x \in S : \E i \in 1..n : r[i] = x
    BY <1>3, SetListed
  <1> HIDE DEF r, n
  <1>6. r \in Seq(Feeds) /\ Elems(r) = S
    <2>1. r \in [1..n -> Feeds] /\ DOMAIN r = 1..n
      BY <1>4, <1>5
    <2>2. r \in Seq(Feeds)
      BY <1>5, <2>1
    <2>3. Elems(r) \subseteq S /\ S \subseteq Elems(r)
      BY <1>5, <2>1 DEF Elems
    <2> QED BY <2>2, <2>3
  <1>7. t \in Seq(Feeds) /\ Elems(t) = IF TickerKeys THEN {TickFeed} ELSE {}
    <2>1. TickFeed \in Feeds
      BY DEF Feeds
    <2> HIDE DEF TickFeed, Feeds
    <2>2. <<TickFeed>> \in Seq(Feeds) /\ DOMAIN <<TickFeed>> = {1} /\ <<TickFeed>>[1] = TickFeed
      BY <2>1
    <2>3. <<>> \in Seq(Feeds) /\ Elems(<<>>) = {}
      BY DEF Elems
    <2>4. Elems(<<TickFeed>>) = {TickFeed}
      BY <2>2, Zenon DEF Elems
    <2> QED BY <2>2, <2>3, <2>4, Zenon
  <1>8. k \in Seq(Feeds) /\ Elems(k) = IF book THEN {BookFeed} ELSE {}
    <2>1. BookFeed \in Feeds
      BY DEF Feeds
    <2> HIDE DEF BookFeed, Feeds
    <2>2. <<BookFeed>> \in Seq(Feeds) /\ DOMAIN <<BookFeed>> = {1} /\ <<BookFeed>>[1] = BookFeed
      BY <2>1
    <2>3. <<>> \in Seq(Feeds) /\ Elems(<<>>) = {}
      BY DEF Elems
    <2>4. Elems(<<BookFeed>>) = {BookFeed}
      BY <2>2, Zenon DEF Elems
    <2> QED BY <2>2, <2>3, <2>4, Zenon
  <1>9. ReplaySet = (t \o k) \o r
    BY Zenon DEF ReplaySet, r, S
  <1> HIDE DEF t, k
  <1>10. t \o k \in Seq(Feeds) /\ Elems(t \o k) = Elems(t) \cup Elems(k)
    BY <1>7, <1>8, ConcatElems
  <1>11. (t \o k) \o r \in Seq(Feeds) /\ Elems((t \o k) \o r) = Elems(t \o k) \cup Elems(r)
    <2> DEFINE w == t \o k
    <2>1. w \in Seq(Feeds)
      BY <1>10
    <2> HIDE DEF w
    <2>2. w \o r \in Seq(Feeds) /\ Elems(w \o r) = Elems(w) \cup Elems(r)
      BY <1>6, <2>1, ConcatElems
    <2> QED BY <2>2 DEF w
  <1> QED BY <1>6, <1>7, <1>8, <1>9, <1>10, <1>11, Zenon DEF S

-----------------------------------------------------------------------------
\* What a venue call and its outcome change

\* The call of o is answered: it is n from here.
AnsweredAs(o, n) ==
  /\ o.st = "call" /\ n \in OpRecs /\ n.h = o.h /\ n.op = o.op /\ n.saved = o.saved /\ n.own = o.own
  /\ n.st \in {"ok", "err"} /\ ops' = (ops \ {o}) \cup {n}
  /\ n.st = "err" => joined' = joined
  /\ n.st = "ok" /\ o.op = "sub" => joined' = joined \cup {Feed(o.h)}
  /\ n.st = "ok" /\ o.op = "unsub" => joined' = joined \ {Feed(o.h)}
  /\ UNCHANGED <<client, intents, subs, book, types, replay, why, hist, cloud, early>>

(* A venue call is answered. *)
LEMMA VenueAnswers ==
  ASSUME IntentTypes, NEW o \in ops, VenueCall(o)
  PROVE  \E n \in OpRecs : AnsweredAs(o, n)
  <1>1. o \in OpRecs /\ o.op \in {"sub", "unsub"}
    BY DEF IntentTypes, OpRecs
  <1>2. o.st = "call" /\ UNCHANGED <<client, intents, subs, book, types, replay, why, hist, cloud, early>>
    BY DEF VenueCall, intentVars
  <1>3. ASSUME NEW s \in {"ok", "err"}
        PROVE  LET n == [o EXCEPT !.st = s]
               IN /\ n \in OpRecs /\ n.h = o.h /\ n.op = o.op /\ n.saved = o.saved
                  /\ n.own = o.own /\ n.st = s
    BY <1>1 DEF OpRecs
  <1>4. CASE /\ ops' = (ops \ {o}) \cup {[o EXCEPT !.st = "ok"]}
             /\ joined' = IF o.op = "sub" THEN joined \cup {Feed(o.h)} ELSE joined \ {Feed(o.h)}
    <2> DEFINE n == [o EXCEPT !.st = "ok"]
    <2>1. /\ n \in OpRecs /\ n.h = o.h /\ n.op = o.op /\ n.saved = o.saved /\ n.own = o.own
          /\ n.st = "ok" /\ n.st \in {"ok", "err"} /\ n.st # "err"
      BY <1>3
    <2> HIDE DEF n
    <2>2. ops' = (ops \ {o}) \cup {n}
      BY <1>4 DEF n
    <2>3. /\ o.op = "sub" => joined' = joined \cup {Feed(o.h)}
          /\ o.op = "unsub" => joined' = joined \ {Feed(o.h)}
      BY <1>4
    <2> QED BY <1>2, <2>1, <2>2, <2>3, Zenon DEF AnsweredAs
  <1>5. CASE ops' = (ops \ {o}) \cup {[o EXCEPT !.st = "err"]} /\ UNCHANGED joined
    <2> DEFINE n == [o EXCEPT !.st = "err"]
    <2>1. /\ n \in OpRecs /\ n.h = o.h /\ n.op = o.op /\ n.saved = o.saved /\ n.own = o.own
          /\ n.st = "err" /\ n.st \in {"ok", "err"} /\ n.st # "ok"
      BY <1>3
    <2> HIDE DEF n
    <2>2. ops' = (ops \ {o}) \cup {n} /\ joined' = joined
      BY <1>5 DEF n
    <2> QED BY <1>2, <2>1, <2>2, Zenon DEF AnsweredAs
  <1> QED BY <1>4, <1>5, Zenon DEF VenueCall

\* The outcome of o, by group.
Ends(o) ==
  /\ o.st \in {"ok", "err"} /\ ops' = ops \ {o}
  /\ UNCHANGED <<client, joined, replay, why, cloud, early>>
  /\ Group(o.h) # "tick" => UNCHANGED <<intents, subs>>
  /\ Group(o.h) # "book" => UNCHANGED book
  /\ Group(o.h) # "bars" => UNCHANGED <<types, hist>>

(* An outcome changes the intents of its own group only. *)
LEMMA OutcomeEnds ==
  ASSUME IntentTypes, NEW o \in ops, Outcome(o)
  PROVE  /\ Ends(o) /\ o \in OpRecs
         /\ Group(o.h) = "tick" => TickerOutcome(o)
         /\ Group(o.h) = "book" => BookOutcome(o)
         /\ Group(o.h) = "bars" => BarOutcome(o)
  <1>1. o \in OpRecs /\ o.h \in Holders /\ o.st \in {"ok", "err"}
    BY DEF IntentTypes, OpRecs, Outcome
  <1>2. Group(o.h) \in Groups
    BY <1>1, HolderGroup
  <1>3. ops' = ops \ {o} /\ UNCHANGED <<client, joined, replay, why, cloud, early>>
    BY DEF Outcome
  <1>4. CASE Group(o.h) = "tick"
    <2>1. TickerOutcome(o)
      BY <1>4 DEF Outcome
    <2> QED BY <1>1, <1>3, <1>4, <2>1, Zenon DEF Ends, TickerOutcome
  <1>5. CASE Group(o.h) = "book"
    <2>1. BookOutcome(o)
      BY <1>5 DEF Outcome
    <2> QED BY <1>1, <1>3, <1>5, <2>1, Zenon DEF Ends, BookOutcome
  <1>6. CASE Group(o.h) = "bars"
    <2>1. BarOutcome(o)
      BY <1>6 DEF Outcome
    <2> QED BY <1>1, <1>3, <1>6, <2>1, Zenon DEF Ends, BarOutcome
  <1> QED BY <1>2, <1>4, <1>5, <1>6 DEF Groups

(* A tick call's outcome. *)
LEMMA TickEnds ==
  ASSUME NEW o \in OpRecs, o.st \in {"ok", "err"}, TickerOutcome(o)
  PROVE  /\ o.op = "sub" /\ o.st = "ok" => subs' /\ intents' = intents
         /\ o.op = "sub" /\ o.st = "err" =>
              (subs' <=> subs) /\ intents' = IF o.own THEN intents \ {o.h} ELSE {}
         /\ o.op = "unsub" /\ o.st = "ok" => ~ subs' /\ intents' = intents
         /\ o.op = "unsub" /\ o.st = "err" =>
              (subs' <=> subs) /\ intents' = IF o.own THEN {o.h} ELSE intents
  <1>1. o.op \in {"sub", "unsub"}
    BY DEF OpRecs
  <1>2. CASE o.op = "sub" /\ o.st = "ok"
    BY <1>2 DEF TickerOutcome
  <1>3. CASE o.op = "sub" /\ o.st = "err"
    BY <1>3 DEF TickerOutcome
  <1>4. CASE o.op = "unsub" /\ o.st = "ok"
    BY <1>4 DEF TickerOutcome
  <1>5. CASE o.op = "unsub" /\ o.st = "err"
    BY <1>5 DEF TickerOutcome
  <1> QED BY <1>1, <1>2, <1>3, <1>4, <1>5

(* A bar call's outcome. *)
Adds(o) == o.op = "sub" /\ o.st = "ok"
Restores(o) == o.op = "unsub" /\ o.st = "err"

(* What the outcome of a bar call does to the wire periods and to the poller. *)
LEMMA BarEnds ==
  ASSUME types \in [Periods -> SUBSET BarTypes], NEW o \in OpRecs, o.h \in BarTypes, BarOutcome(o)
  PROVE  /\ types' \in [Periods -> SUBSET BarTypes]
         /\ Adds(o) => /\ hist' # "none"
                       /\ \A p \in Periods :
                            types'[p] = IF p \in bar_wire_period_keys(o.h) THEN types[p] \cup {o.h}
                                                                           ELSE types[p]
         /\ Restores(o) => /\ hist' = hist
                           /\ \A p \in Periods :
                                types'[p] = IF p \in bar_wire_period_keys(o.h) THEN o.saved[p]
                                                                               ELSE types[p]
         /\ ~ Adds(o) /\ ~ Restores(o) => types' = types /\ hist' = hist
         /\ hist # "none" => hist' # "none"
         /\ hist' \in {hist, "run"}
  <1>1. o.saved \in [Periods -> SUBSET BarTypes]
    BY DEF OpRecs
  <1>2. CASE Adds(o)
    <2>1. types' = [p \in Periods |-> IF p \in bar_wire_period_keys(o.h)
                                      THEN types[p] \cup {o.h} ELSE types[p]]
      BY <1>2 DEF BarOutcome, Adds
    <2>2. hist' = IF hist = "none" THEN "run" ELSE hist
      BY <1>2 DEF BarOutcome, Adds, _ensure_history_poll_task
    <2>3. ~ Restores(o)
      BY <1>2 DEF Adds, Restores
    <2>4. types' \in [Periods -> SUBSET BarTypes]
      BY <2>1
    <2> QED BY <1>2, <2>1, <2>2, <2>3, <2>4
  <1>3. CASE Restores(o)
    <2>1. types' = [p \in Periods |-> IF p \in bar_wire_period_keys(o.h) THEN o.saved[p] ELSE types[p]]
      BY <1>3 DEF BarOutcome, Restores
    <2>2. hist' = hist /\ ~ Adds(o)
      BY <1>3 DEF BarOutcome, Adds, Restores
    <2>3. types' \in [Periods -> SUBSET BarTypes]
      BY <1>1, <2>1
    <2> QED BY <1>3, <2>1, <2>2, <2>3
  <1>4. CASE ~ Adds(o) /\ ~ Restores(o)
    <2>1. types' = types /\ hist' = hist
      BY <1>4 DEF BarOutcome, Adds, Restores
    <2> QED BY <1>4, <2>1
  <1> QED BY <1>2, <1>3, <1>4

-----------------------------------------------------------------------------
\* Connects, gaps, disconnects

Session == \/ ensure_connected \/ _connect \/ replay_subscription_intent \/ Connected
           \/ _resync_ticker_subscription \/ Resynced \/ reconcile_starts_poller
           \/ _disconnect \/ SessionDisconnects \/ _history_poll_loop

Begins == _connect \/ _resync_ticker_subscription

(* No step of the session changes an intent or a command; a replay records the unsubscribes
   that are under way. *)
LEMMA SessionLeaves ==
  ASSUME Session
  PROVE  /\ UNCHANGED <<intents, subs, book, types, ops>>
         /\ ~ Begins => UNCHANGED <<cloud, early>> /\ (why' = why \/ why' = "none")
         /\ Begins => /\ why = "none" /\ why' \in {"connect", "gap"} /\ replay' = ReplaySet
                      /\ cloud' = CloudUnsubs /\ UNCHANGED <<client, joined, hist>>
                      /\ early' = (early \/ \E o \in Under("tick") : o.op = "sub")
                      /\ why' = "connect" => client = "wired"
                      /\ why' = "gap" => client = "on"
  <1> USE DEF intentVars
  <1>1. CASE Begins
    <2>1. CASE _connect
      BY <1>1, <2>1, Zenon DEF _connect, ReplayFor
    <2>2. CASE _resync_ticker_subscription
      BY <1>1, <2>2, Zenon DEF _resync_ticker_subscription, ReplayFor
    <2> QED BY <1>1, <2>1, <2>2 DEF Begins
  <1>2. CASE ~ Begins
    <2>1. CASE ensure_connected
      BY <1>2, <2>1, Zenon DEF ensure_connected
    <2>2. CASE replay_subscription_intent
      BY <1>2, <2>2, Zenon DEF replay_subscription_intent
    <2>3. CASE Connected
      BY <1>2, <2>3, Zenon DEF Connected
    <2>4. CASE Resynced
      BY <1>2, <2>4, Zenon DEF Resynced
    <2>5. CASE reconcile_starts_poller
      BY <1>2, <2>5, Zenon DEF reconcile_starts_poller
    <2>6. CASE _disconnect
      BY <1>2, <2>6, Zenon DEF _disconnect
    <2>7. CASE SessionDisconnects
      BY <1>2, <2>7, Zenon DEF SessionDisconnects
    <2>8. CASE _history_poll_loop
      BY <1>2, <2>8, Zenon DEF _history_poll_loop
    <2> QED BY <1>2, <2>1, <2>2, <2>3, <2>4, <2>5, <2>6, <2>7, <2>8, Zenon DEF Session, Begins
  <1> QED BY <1>1, <1>2

(* A replay records every group with an unsubscribe under way. *)
LEMMA CloudUnsubsFact ==
  /\ cloud \subseteq CloudUnsubs
  /\ \A o \in ops : o.op = "unsub" => Group(o.h) \in CloudUnsubs
  BY Zenon DEF CloudUnsubs

\* The calls under way, and the phase of the session.
CallInv == IntentTypes /\ Phases /\ OneCall /\ Alone

(* Every step keeps the types. *)
LEMMA TypesStep == ASSUME IntentTypes, OneCall, IntentsNext PROVE IntentTypes'
  <1>1. ops \subseteq OpRecs /\ joined \subseteq Feeds /\ replay \in Seq(Feeds) /\ intents \subseteq Kinds
        /\ types \in [Periods -> SUBSET BarTypes]
    BY DEF IntentTypes
  <1>2. CASE Command
    <2>1. PICK h \in Holders, op \in {"sub", "unsub"} : Starts(h, op)
      BY <1>2, CommandStarts
    <2>2. ops' \subseteq OpRecs /\ UNCHANGED <<client, joined, replay, why, hist>>
      BY <2>1 DEF Starts
    <2>3. intents' \subseteq Kinds
      BY <1>1, <1>2 DEF Command, _add_ticker_intent, _remove_ticker_intent, _subscribe_bars,
         _unsubscribe_bars, _subscribe_order_book_deltas, _unsubscribe_order_book_deltas, intentVars
    <2>4. types' \in [Periods -> SUBSET BarTypes]
      <3>1. ASSUME NEW b \in BarTypes, _unsubscribe_bars(b) PROVE types' \in [Periods -> SUBSET BarTypes]
        <4>1. types' = [p \in Periods |-> IF p \in bar_wire_period_keys(b) THEN types[p] \ {b}
                                                                          ELSE types[p]]
          BY <3>1, Zenon DEF _unsubscribe_bars
        <4> QED BY <1>1, <4>1
      <3>2. ASSUME ~ \E b \in BarTypes : _unsubscribe_bars(b) PROVE types' = types
        BY <1>2, <3>2, Zenon DEF Command, _add_ticker_intent, _remove_ticker_intent, _subscribe_bars,
           _subscribe_order_book_deltas, _unsubscribe_order_book_deltas, intentVars
      <3> QED BY <1>1, <3>1, <3>2
    <2> QED BY <2>2, <2>3, <2>4 DEF IntentTypes
  <1>3. ASSUME NEW o \in ops, VenueCall(o) PROVE IntentTypes'
    <2>1. PICK n \in OpRecs : AnsweredAs(o, n)
      BY <1>3, VenueAnswers
    <2>2. o \in OpRecs /\ o.op \in {"sub", "unsub"} /\ o.h \in Holders
      BY <1>1 DEF OpRecs
    <2>3. ops' \subseteq OpRecs
      BY <1>1, <2>1 DEF AnsweredAs
    <2>4. joined' \subseteq Feeds
      BY <1>1, <2>1, <2>2, HolderFeed DEF AnsweredAs
    <2> QED BY <2>1, <2>3, <2>4 DEF IntentTypes, AnsweredAs
  <1>4. ASSUME NEW o \in ops, Outcome(o) PROVE IntentTypes'
    <2>1. /\ Ends(o) /\ o \in OpRecs
          /\ Group(o.h) = "tick" => TickerOutcome(o)
          /\ Group(o.h) = "bars" => BarOutcome(o)
      BY <1>4, OutcomeEnds
    <2>2. /\ ops' \subseteq OpRecs /\ UNCHANGED <<client, joined, replay, why>>
          /\ o.st \in {"ok", "err"} /\ o.h \in Holders /\ o.op \in {"sub", "unsub"}
          /\ Group(o.h) # "tick" => intents' = intents
          /\ Group(o.h) # "bars" => types' = types /\ hist' = hist
      BY <1>1, <2>1 DEF Ends, OpRecs
    <2>3. Group(o.h) = "tick" <=> o.h \in Kinds
      BY <2>2, HolderGroup
    <2>4. Group(o.h) = "bars" <=> o.h \in BarTypes
      BY <2>2, HolderGroup
    <2>5. intents' \subseteq Kinds
      <3>1. CASE Group(o.h) = "tick"
        <4>1. \/ intents' = intents \/ intents' = intents \ {o.h} \/ intents' = {} \/ intents' = {o.h}
          BY <2>1, <2>2, <3>1, TickEnds, Zenon
        <4> QED BY <1>1, <2>3, <3>1, <4>1
      <3> QED BY <1>1, <2>2, <3>1
    <2>6. types' \in [Periods -> SUBSET BarTypes] /\ hist' \in {"none", "run", "dead"}
      <3>1. CASE Group(o.h) = "bars"
        <4>1. types' \in [Periods -> SUBSET BarTypes] /\ hist' \in {hist, "run"}
          BY <1>1, <2>1, <2>4, <3>1, BarEnds
        <4> QED BY <4>1 DEF IntentTypes
      <3> QED BY <1>1, <2>2, <3>1 DEF IntentTypes
    <2> QED BY <2>2, <2>5, <2>6 DEF IntentTypes
  <1>5. CASE Session
    <2>1. UNCHANGED <<intents, subs, book, types, ops>>
      BY <1>5, SessionLeaves
    <2>2. CASE Begins
      <3>1. replay' \in Seq(Feeds)
        BY <1>5, <2>2, SessionLeaves, ReplayOf
      <3>2. why' \in {"connect", "gap"} /\ UNCHANGED <<client, joined, hist>>
        BY <1>5, <2>2, SessionLeaves
      <3> QED BY <2>1, <3>1, <3>2 DEF IntentTypes
    <2>3. CASE ensure_connected
      BY <2>1, <2>3 DEF ensure_connected, IntentTypes
    <2>4. CASE replay_subscription_intent
      <3>1. replay # <<>> /\ why # "none"
        BY <2>4 DEF replay_subscription_intent
      <3>2. Head(replay) \in Feeds /\ Tail(replay) \in Seq(Feeds)
        BY <1>1, <3>1
      <3>3. joined' \subseteq Feeds /\ replay' \in Seq(Feeds)
        <4>1. \/ joined' = joined \cup {Head(replay)} /\ replay' = Tail(replay)
              \/ joined' = joined /\ replay' = <<>>
          BY <2>4, Zenon DEF replay_subscription_intent
        <4>2. <<>> \in Seq(Feeds)
          OBVIOUS
        <4> QED BY <1>1, <3>2, <4>1, <4>2
      <3>4. why' \in {why, "none"} /\ client' \in {client, "off"} /\ hist' = hist
        BY <2>4 DEF replay_subscription_intent
      <3> QED BY <2>1, <3>3, <3>4 DEF IntentTypes
    <2>5. CASE Connected
      BY <2>1, <2>5 DEF Connected, IntentTypes, _ensure_history_poll_task
    <2>6. CASE Resynced
      BY <2>1, <2>6 DEF Resynced, IntentTypes
    <2>7. CASE reconcile_starts_poller
      BY <2>1, <2>7 DEF reconcile_starts_poller, IntentTypes, _ensure_history_poll_task
    <2>8. CASE _disconnect
      BY <2>1, <2>8 DEF _disconnect, IntentTypes
    <2>9. CASE SessionDisconnects
      BY <2>1, <2>9 DEF SessionDisconnects, IntentTypes
    <2>10. CASE _history_poll_loop
      BY <2>1, <2>10 DEF _history_poll_loop, IntentTypes
    <2> QED BY <1>5, <2>2, <2>3, <2>4, <2>5, <2>6, <2>7, <2>8, <2>9, <2>10 DEF Session, Begins
  <1> QED BY <1>2, <1>3, <1>4, <1>5 DEF IntentsNext, Session

(* Every step keeps the phases of the session. *)
LEMMA PhasesStep == ASSUME IntentTypes, OneCall, Phases, IntentsNext PROVE Phases'
  <1>1. CASE Command
    <2>1. PICK h \in Holders, op \in {"sub", "unsub"} : Starts(h, op)
      BY <1>1, CommandStarts
    <2> QED BY <2>1 DEF Starts, Phases
  <1>2. ASSUME NEW o \in ops, VenueCall(o) PROVE Phases'
    BY <1>2, VenueAnswers DEF AnsweredAs, Phases
  <1>3. ASSUME NEW o \in ops, Outcome(o) PROVE Phases'
    BY <1>3 DEF Outcome, Phases
  <1>4. CASE Session
    <2>1. CASE Begins
      BY <1>4, <2>1, SessionLeaves DEF Phases
    <2>2. CASE ensure_connected
      BY <2>2 DEF ensure_connected, Phases
    <2>3. CASE replay_subscription_intent
      <3>1. \/ UNCHANGED <<why, client>>
            \/ replay' = <<>> /\ why' = "none"
        BY <2>3, Zenon DEF replay_subscription_intent
      <3>2. why # "none"
        BY <2>3 DEF replay_subscription_intent
      <3> QED BY <3>1, <3>2 DEF Phases
    <2>4. CASE Connected
      BY <2>4 DEF Connected, Phases
    <2>5. CASE Resynced
      BY <2>5 DEF Resynced, Phases
    <2>6. CASE reconcile_starts_poller
      BY <2>6 DEF reconcile_starts_poller, Phases
    <2>7. CASE _disconnect
      BY <2>7 DEF _disconnect, Phases
    <2>8. CASE SessionDisconnects
      BY <2>8 DEF SessionDisconnects, Phases
    <2>9. CASE _history_poll_loop
      BY <2>9 DEF _history_poll_loop, Phases
    <2> QED BY <1>4, <2>1, <2>2, <2>3, <2>4, <2>5, <2>6, <2>7, <2>8, <2>9 DEF Session, Begins
  <1> QED BY <1>1, <1>2, <1>3, <1>4 DEF IntentsNext, Session

(* Every step leaves an unsubscribe alone in its group, or records the overlap. *)
LEMMA AloneStep ==
  ASSUME IntentTypes, OneCall, Alone, IntentsNext
  PROVE  OneCall' /\ Alone'
  <1>1. CASE Command
    <2>1. PICK h \in Holders, op \in {"sub", "unsub"} : Starts(h, op)
      BY <1>1, CommandStarts
    <2>2. /\ OneCall' /\ cloud \subseteq cloud' /\ why' = why
          /\ \A o \in ops' : Group(o.h) \notin cloud' =>
               o \in ops \/ (o.h = h /\ o.op = op /\ o.st = "call")
          /\ Group(h) \notin cloud' /\ op = "unsub" => why = "none"
          /\ Group(h) \notin cloud' =>
               \A o \in ops : Group(o.h) = Group(h) => op = "sub" /\ o.op = "sub"
      BY <2>1 DEF Starts
    <2>3. ASSUME NEW o \in ops', o.op = "unsub", Group(o.h) \notin cloud'
          PROVE  why' = "none" /\ \A q \in ops' : Group(q.h) = Group(o.h) => q = o
      <3>1. CASE o \in ops
        <4>1. why = "none" /\ \A q \in ops : Group(q.h) = Group(o.h) => q = o
          BY <2>2, <2>3, <3>1 DEF Alone
        <4>2. ASSUME NEW q \in ops', Group(q.h) = Group(o.h) PROVE q \in ops
          BY <2>2, <2>3, <3>1, <4>2
        <4> QED BY <2>2, <4>1, <4>2
      <3>2. CASE o \notin ops
        <4>1. o.h = h /\ o.op = op
          BY <2>2, <2>3, <3>2
        <4>2. ASSUME NEW q \in ops', Group(q.h) = Group(o.h) PROVE q.h = h /\ q.op = op
          BY <2>2, <2>3, <4>1, <4>2
        <4> QED BY <2>2, <2>3, <4>1, <4>2 DEF OneCall
      <3> QED BY <3>1, <3>2
    <2> QED BY <2>2, <2>3 DEF Alone
  <1>2. ASSUME NEW o \in ops, VenueCall(o) PROVE OneCall' /\ Alone'
    <2>1. PICK n \in OpRecs : AnsweredAs(o, n)
      BY <1>2, VenueAnswers
    <2>2. ops' = (ops \ {o}) \cup {n} /\ n.h = o.h /\ n.op = o.op /\ why' = why /\ cloud' = cloud
      BY <2>1 DEF AnsweredAs
    <2>3. OneCall'
      BY <2>2 DEF OneCall
    <2>4. Alone'
      BY <2>2 DEF Alone
    <2> QED BY <2>3, <2>4
  <1>3. ASSUME NEW o \in ops, Outcome(o) PROVE OneCall' /\ Alone'
    <2>1. ops' = ops \ {o} /\ why' = why /\ cloud' = cloud
      BY <1>3 DEF Outcome
    <2> QED BY <2>1 DEF OneCall, Alone
  <1>4. CASE Session
    <2>1. ops' = ops
      BY <1>4, SessionLeaves
    <2>2. OneCall'
      BY <2>1 DEF OneCall
    <2>3. CASE Begins
      BY <1>4, <2>1, <2>2, <2>3, SessionLeaves, CloudUnsubsFact, Zenon DEF Alone
    <2>4. CASE ~ Begins
      <3>1. cloud' = cloud /\ (why' = why \/ why' = "none")
        BY <1>4, <2>4, SessionLeaves
      <3> QED BY <2>1, <2>2, <3>1 DEF Alone
    <2> QED BY <2>3, <2>4
  <1> QED BY <1>1, <1>2, <1>3, <1>4 DEF IntentsNext, Session

-----------------------------------------------------------------------------
\* A call that was answered

JoinInv == LeftIsLeft /\ SubbedIsJoined

(* A feed that was left stays left, and one that was subscribed stays joined, until the
   outcome is applied. *)
LEMMA JoinStep ==
  ASSUME CallInv, LeftIsLeft, SubbedIsJoined, IntentsNext
  PROVE  LeftIsLeft' /\ SubbedIsJoined'
  <1>1. IntentTypes /\ OneCall /\ Alone /\ Phases /\ ops \subseteq OpRecs
    BY DEF CallInv, IntentTypes
  <1>2. \A o \in OpRecs : o.h \in Holders /\ o.op \in {"sub", "unsub"}
    BY DEF OpRecs
  <1>3. \A h \in Holders : Feed(h) \in Feeds /\ Feed(h)[1] = Group(h)
    BY HolderFeed
  <1>4. CASE Command
    <2>1. PICK h \in Holders, op \in {"sub", "unsub"} : Starts(h, op)
      BY <1>1, <1>4, CommandStarts
    <2>2. /\ cloud \subseteq cloud' /\ UNCHANGED <<client, joined>> /\ ops' \subseteq OpRecs
          /\ \A o \in ops' : Group(o.h) \notin cloud' => o \in ops \/ o.st = "call"
      BY <2>1 DEF Starts
    <2>3. LeftIsLeft'
      BY <2>2 DEF LeftIsLeft
    <2>4. ASSUME NEW f \in Feeds, Subbed(f)', f[1] \notin cloud' PROVE Subbed(f) /\ f[1] \notin cloud
      <3>1. PICK o \in ops' : o.op = "sub" /\ o.st = "ok" /\ Feed(o.h) = f
        BY <2>4 DEF Subbed
      <3>2. Group(o.h) = f[1]
        BY <1>2, <1>3, <2>2, <3>1
      <3>3. o \in ops
        BY <2>2, <2>4, <3>1, <3>2
      <3> QED BY <2>2, <2>4, <3>1, <3>3 DEF Subbed
    <2>5. SubbedIsJoined'
      BY <2>2, <2>4 DEF SubbedIsJoined
    <2> QED BY <2>3, <2>5
  <1>5. ASSUME NEW o \in ops, VenueCall(o) PROVE LeftIsLeft' /\ SubbedIsJoined'
    <2>1. PICK n \in OpRecs : AnsweredAs(o, n)
      BY <1>1, <1>5, VenueAnswers
    <2>2. /\ ops' = (ops \ {o}) \cup {n} /\ n.h = o.h /\ n.op = o.op /\ UNCHANGED <<client, cloud>>
          /\ n.st \in {"ok", "err"}
          /\ n.st = "err" => joined' = joined
          /\ n.st = "ok" /\ o.op = "sub" => joined' = joined \cup {Feed(o.h)}
          /\ n.st = "ok" /\ o.op = "unsub" => joined' = joined \ {Feed(o.h)}
      BY <2>1 DEF AnsweredAs
    <2>3. o \in OpRecs /\ o.h \in Holders /\ o.op \in {"sub", "unsub"}
      BY <1>1, <1>2
    <2>4. LeftIsLeft'
      <3> SUFFICES ASSUME NEW q \in ops', q.op = "unsub", q.st = "ok", Group(q.h) \notin cloud
                   PROVE  Feed(q.h) \notin joined'
        BY <2>2 DEF LeftIsLeft
      <3>1. CASE q = n
        BY <2>2, <3>1
      <3>2. CASE q # n
        <4>1. q \in ops /\ q # o /\ Feed(q.h) \notin joined
          BY <2>2, <3>2 DEF LeftIsLeft
        <4>2. Group(o.h) # Group(q.h)
          BY <1>1, <4>1 DEF Alone
        <4>3. Feed(o.h) # Feed(q.h)
          BY <1>1, <1>2, <1>3, <2>3, <4>1, <4>2
        <4> QED BY <2>2, <2>3, <4>1, <4>3
      <3> QED BY <3>1, <3>2
    <2>5. SubbedIsJoined'
      <3> SUFFICES ASSUME client \in {"wired", "on"}, NEW q \in ops', q.op = "sub", q.st = "ok",
                          Feed(q.h)[1] \notin cloud
                   PROVE  Feed(q.h) \in joined'
        BY <2>2, Zenon DEF SubbedIsJoined, Subbed
      <3>1. CASE q = n
        BY <2>2, <3>1
      <3>2. CASE q # n
        <4>1. q \in ops /\ q # o
          BY <2>2, <3>2
        <4>2. Feed(q.h) \in Feeds /\ Feed(q.h)[1] = Group(q.h) /\ Feed(o.h)[1] = Group(o.h)
          BY <1>1, <1>2, <1>3, <2>3, <4>1
        <4>3. Feed(q.h) \in joined
          BY <4>1, <4>2 DEF SubbedIsJoined, Subbed
        <4>4. CASE n.st = "ok" /\ o.op = "unsub"
          <5>1. Feed(o.h) # Feed(q.h)
            <6> SUFFICES ASSUME Feed(o.h) = Feed(q.h) PROVE FALSE
              OBVIOUS
            <6>1. Group(o.h) \notin cloud /\ Group(q.h) = Group(o.h)
              BY <4>2
            <6> QED BY <1>1, <4>1, <4>4, <6>1 DEF Alone
          <5> QED BY <2>2, <4>3, <4>4, <5>1
        <4> QED BY <2>2, <2>3, <4>3, <4>4
      <3> QED BY <3>1, <3>2
    <2> QED BY <2>4, <2>5
  <1>6. ASSUME NEW o \in ops, Outcome(o) PROVE LeftIsLeft' /\ SubbedIsJoined'
    <2>1. ops' = ops \ {o} /\ UNCHANGED <<client, joined, cloud>>
      BY <1>6 DEF Outcome
    <2> QED BY <2>1 DEF LeftIsLeft, SubbedIsJoined, Subbed
  <1>7. CASE Session
    <2>1. ops' = ops
      BY <1>7, SessionLeaves
    <2>2. CASE Begins
      <3>1. cloud \subseteq cloud' /\ UNCHANGED <<client, joined>>
        BY <1>7, <2>2, SessionLeaves, CloudUnsubsFact, Zenon
      <3> QED BY <2>1, <3>1 DEF LeftIsLeft, SubbedIsJoined, Subbed
    <2>3. CASE ensure_connected
      <3>1. UNCHANGED <<joined, cloud>> /\ \A o \in ops : o.st = "call"
        BY <2>3 DEF ensure_connected
      <3> QED BY <2>1, <3>1 DEF LeftIsLeft, SubbedIsJoined, Subbed
    <2>4. CASE replay_subscription_intent
      <3>1. cloud' = cloud /\ client' \in {client, "off"} /\ why # "none" /\ replay # <<>>
            /\ (joined' = joined \/ joined' = joined \cup {Head(replay)})
        BY <2>4, Zenon DEF replay_subscription_intent
      <3>2. SubbedIsJoined'
        BY <2>1, <3>1 DEF SubbedIsJoined, Subbed
      <3>3. LeftIsLeft'
        BY <1>1, <2>1, <3>1 DEF LeftIsLeft, Alone
      <3> QED BY <3>2, <3>3
    <2>5. CASE Connected
      <3>1. UNCHANGED <<joined, cloud>> /\ client = "wired"
        BY <1>1, <2>5 DEF Connected, Phases
      <3> QED BY <2>1, <3>1 DEF LeftIsLeft, SubbedIsJoined, Subbed
    <2>6. CASE Resynced \/ reconcile_starts_poller \/ _history_poll_loop
      <3>1. UNCHANGED <<joined, cloud, client>>
        BY <2>6 DEF Resynced, reconcile_starts_poller, _history_poll_loop
      <3> QED BY <2>1, <3>1 DEF LeftIsLeft, SubbedIsJoined, Subbed
    <2>7. CASE _disconnect
      <3>1. UNCHANGED <<joined, cloud>> /\ client' = "leaving"
        BY <2>7 DEF _disconnect
      <3> QED BY <2>1, <3>1 DEF LeftIsLeft, SubbedIsJoined, Subbed
    <2>8. CASE SessionDisconnects
      <3>1. joined' = {} /\ cloud' = cloud /\ client' = "off"
        BY <2>8 DEF SessionDisconnects
      <3> QED BY <2>1, <3>1 DEF LeftIsLeft, SubbedIsJoined, Subbed
    <2> QED BY <1>7, <2>2, <2>3, <2>4, <2>5, <2>6, <2>7, <2>8 DEF Session, Begins
  <1> QED BY <1>4, <1>5, <1>6, <1>7 DEF IntentsNext, Session

-----------------------------------------------------------------------------
\* Tick intents

(* A step of another group. *)
LEMMA TickSame ==
  ASSUME TickInv, cloud \subseteq cloud', intents' = intents, subs' <=> subs,
         "tick" \notin cloud' => TickOps' = TickOps
  PROVE  TickInv'
  BY Zenon DEF TickInv, TickHolds

(* The tick calls are the calls of the group. *)
LEMMA TickGroup ==
  ASSUME NEW S \in SUBSET OpRecs
  PROVE  \A o \in S : Group(o.h) = "tick" <=> o.h \in Kinds
  BY HolderGroup DEF OpRecs

(* A command of another group. *)
LEMMA TickCommandSame ==
  ASSUME IntentTypes, TickInv, NEW h \in Holders, NEW op \in {"sub", "unsub"}, Starts(h, op),
         h \notin Kinds, intents' = intents
  PROVE  TickInv'
  <1>1. ops \subseteq OpRecs /\ ops' \subseteq OpRecs /\ cloud \subseteq cloud' /\ (subs' <=> subs)
    BY DEF IntentTypes, Starts
  <1>2. \A o \in ops : Group(o.h) = "tick" <=> o.h \in Kinds
    BY <1>1, TickGroup
  <1>3. \A o \in ops' : Group(o.h) = "tick" <=> o.h \in Kinds
    BY <1>1, TickGroup
  <1>4. ASSUME "tick" \notin cloud' PROVE TickOps' = TickOps
    <2>1. ASSUME NEW o \in ops', o.h \in Kinds PROVE o \in ops
      BY <1>3, <1>4, <2>1 DEF Starts
    <2>2. ASSUME NEW o \in ops, o.h \in Kinds PROVE o \in ops'
      BY <1>2, <1>4, <2>2 DEF Starts
    <2> QED BY <2>1, <2>2 DEF TickOps
  <1> QED BY <1>1, <1>4, TickSame

(* A tick kind is subscribed: with its call, or the feed is subscribed or about to be. *)
LEMMA TickAdd ==
  ASSUME IntentTypes, OneCall, TickInv, NEW k \in Kinds, _add_ticker_intent(k)
  PROVE  TickInv'
  <1> SUFFICES ASSUME "tick" \notin cloud' PROVE TickHolds'
    BY DEF TickInv
  <1>1. Starts(k, "sub") /\ k \in Holders /\ Group(k) = "tick" /\ ops \subseteq OpRecs
    BY AddStarts, HolderGroup DEF Holders, IntentTypes
  <1>2. cloud \subseteq cloud' /\ (subs' <=> subs)
        /\ \A o \in ops : Group(o.h) = "tick" => o.op = "sub"
    BY <1>1 DEF Starts
  <1>3. TickHolds
    BY <1>2 DEF TickInv
  <1>4. \A o \in TickOps : o.op = "sub"
    BY <1>1, <1>2, TickGroup DEF TickOps
  <1>5. intents' = intents \cup {k}
    BY DEF _add_ticker_intent
  <1>6. CASE k \in intents \/ subs
    <2>1. ops' = ops
      BY <1>6, Zenon DEF _add_ticker_intent
    <2>2. TickOps' = TickOps
      BY <2>1 DEF TickOps
    <2>3. \A i \in intents' : ~ subs' => i \in intents
      BY <1>2, <1>5, <1>6
    <2>4. "sub" # "unsub"
      OBVIOUS
    <2> QED BY <1>2, <1>3, <1>4, <1>5, <2>2, <2>3, <2>4, Zenon DEF TickHolds
  <1>7. CASE ~ (k \in intents \/ subs)
    <2> DEFINE n == Op(k, "sub", NoSaved, TRUE)
    <2>1. n.h = k /\ n.op = "sub" /\ n.own
      BY DEF Op
    <2>2. ops' = ops \cup {n}
      BY <1>7, Zenon DEF _add_ticker_intent, Calls
    <2> HIDE DEF n
    <2>3. TickOps' = TickOps \cup {n}
      BY <2>1, <2>2 DEF TickOps
    <2>4. ~ subs' /\ \A o \in TickOps' : o.op = "sub" /\ o.op # "unsub"
      BY <1>2, <1>4, <1>7, <2>1, <2>3
    <2>5. \A o \in TickOps' : o.own /\ o.h \in intents'
      BY <1>3, <1>4, <1>5, <2>1, <2>3, Zenon DEF TickHolds
    <2>6. \A i \in intents' : \E o \in TickOps' : o.h = i /\ o.op = "sub"
      BY <1>3, <1>5, <1>7, <2>1, <2>3, Zenon DEF TickHolds
    <2> QED BY <2>4, <2>5, <2>6, Zenon DEF TickHolds
  <1> QED BY <1>6, <1>7

(* A tick kind is unsubscribed: the last one with a call, as nothing else is under way. *)
LEMMA TickRemove ==
  ASSUME IntentTypes, OneCall, TickInv, NEW k \in Kinds, _remove_ticker_intent(k)
  PROVE  TickInv'
  <1> SUFFICES ASSUME "tick" \notin cloud' PROVE TickHolds'
    BY DEF TickInv
  <1> DEFINE n == Op(k, "unsub", NoSaved, k \in intents)
  <1>1. /\ Starts(k, "unsub") /\ k \in Holders /\ Group(k) = "tick" /\ ops \subseteq OpRecs
        /\ ops' = ops \/ ops' = ops \cup {n}
    BY RemoveStarts, HolderGroup DEF Holders, IntentTypes
  <1>2. cloud \subseteq cloud' /\ (subs' <=> subs) /\ \A o \in ops : Group(o.h) # "tick"
    BY <1>1 DEF Starts
  <1>3. TickHolds
    BY <1>2 DEF TickInv
  <1>4. TickOps = {}
    BY <1>1, <1>2, TickGroup DEF TickOps
  <1>5. /\ intents' = intents \ {k}
        /\ ~ (subs /\ k \notin intents /\ intents # {})
        /\ (subs /\ (intents = {k} \/ k \notin intents)) =>
              \E rest : (rest = ops \/ rest = Orphaned(ops)) /\ ops' = rest \cup {n}
        /\ ~ (subs /\ (intents = {k} \/ k \notin intents)) =>
              ops' = ops \/ ops' = Orphaned(ops)
    BY Zenon DEF _remove_ticker_intent
  <1>6. n.h = k /\ n.op = "unsub" /\ (n.own <=> k \in intents)
    BY DEF Op
  <1> HIDE DEF n
  <1>7. CASE subs
    <2>1. \E i \in intents : TRUE
      BY <1>3, <1>4, <1>7, Zenon DEF TickHolds
    <2>2. k \in intents
      BY <1>5, <1>7, <2>1
    <2>3. CASE intents = {k}
      <3>1. ops' = ops \cup {n}
        BY <1>1, <1>5, <1>7, <2>3
      <3>2. TickOps' = {n}
        BY <1>4, <1>6, <3>1 DEF TickOps
      <3>3. intents' = {} /\ n.op # "sub" /\ n.own
        BY <1>5, <1>6, <2>2, <2>3
      <3> QED BY <1>2, <1>6, <1>7, <3>2, <3>3, Zenon DEF TickHolds
    <2>4. CASE intents # {k}
      <3>1. ops' = ops \/ ops' = Orphaned(ops)
        BY <1>5, <2>2, <2>4
      <3>2. TickOps' = {}
        <4>1. \A o \in Orphaned(ops) : \E q \in ops : o.h = q.h
          BY <1>1, OrphanedOps
        <4>2. \A q \in ops : q.h \notin Kinds
          BY <1>4 DEF TickOps
        <4> QED BY <3>1, <4>1, <4>2 DEF TickOps
      <3>3. \E i \in intents' : TRUE
        BY <1>5, <2>2, <2>4
      <3> QED BY <1>2, <1>7, <3>2, <3>3, Zenon DEF TickHolds
    <2> QED BY <2>3, <2>4
  <1>8. CASE ~ subs
    <2>1. intents = {}
      BY <1>3, <1>4, <1>8, Zenon DEF TickHolds
    <2>2. intents' = {}
      BY <1>5, <2>1
    <2>3. ops' = ops \/ ops' = Orphaned(ops)
      BY <1>5, <1>8
    <2>4. TickOps' = {}
      <3>1. \A o \in Orphaned(ops) : \E q \in ops : o.h = q.h
        BY <1>1, OrphanedOps
      <3>2. \A q \in ops : q.h \notin Kinds
        BY <1>4 DEF TickOps
      <3> QED BY <2>3, <3>1, <3>2 DEF TickOps
    <2> QED BY <1>2, <1>8, <2>2, <2>4, Zenon DEF TickHolds
  <1> QED BY <1>7, <1>8

(* A call is answered. *)
LEMMA TickAnswer ==
  ASSUME IntentTypes, TickInv, NEW o \in ops, NEW n \in OpRecs, AnsweredAs(o, n)
  PROVE  TickInv'
  <1> SUFFICES ASSUME "tick" \notin cloud PROVE TickHolds'
    BY DEF TickInv, AnsweredAs
  <1>1. TickHolds
    BY DEF TickInv
  <1>2. /\ ops' = (ops \ {o}) \cup {n} /\ n.h = o.h /\ n.op = o.op /\ n.own = o.own
        /\ intents' = intents
    BY DEF AnsweredAs
  <1>7. subs' <=> subs
    BY Zenon DEF AnsweredAs
  <1>3. \A q \in TickOps' : \E r \in TickOps : q.h = r.h /\ q.op = r.op /\ q.own = r.own
    BY <1>2 DEF TickOps
  <1>4. \A r \in TickOps : \E q \in TickOps' : q.h = r.h /\ q.op = r.op
    BY <1>2 DEF TickOps
  <1>5. ASSUME NEW q \in TickOps' PROVE q.own
    <2>1. PICK r \in TickOps : q.h = r.h /\ q.op = r.op /\ q.own = r.own
      BY <1>3
    <2>2. r.own
      BY <1>1, Zenon DEF TickHolds
    <2> QED BY <2>1, <2>2, Zenon
  <1>6. ASSUME NEW q \in TickOps' PROVE /\ q.op = "sub" => q.h \in intents'
                                        /\ q.op = "unsub" => intents' = {} /\ subs'
    <2>1. PICK r \in TickOps : q.h = r.h /\ q.op = r.op /\ q.own = r.own
      BY <1>3
    <2>2. /\ r.op = "sub" => r.h \in intents
          /\ r.op = "unsub" => intents = {} /\ subs
      BY <1>1, Zenon DEF TickHolds
    <2> QED BY <1>2, <1>7, <2>1, <2>2
  <1>8. ASSUME NEW k \in intents', ~ subs' PROVE \E q \in TickOps' : q.h = k /\ q.op = "sub"
    <2>1. PICK r \in TickOps : r.h = k /\ r.op = "sub"
      BY <1>1, <1>2, <1>8, <1>7, Zenon DEF TickHolds
    <2> QED BY <1>4, <2>1
  <1>9. ASSUME subs' PROVE \/ \E k \in intents' : \A q \in TickOps' : q.h = k => q.op # "sub"
                           \/ \E q \in TickOps' : q.op = "unsub"
    <2>1. CASE \E r \in TickOps : r.op = "unsub"
      BY <1>4, <2>1
    <2>2. CASE \E k \in intents : \A r \in TickOps : r.h = k => r.op # "sub"
      BY <1>2, <1>3, <2>2
    <2>3. subs
      BY <1>9, <1>7
    <2> QED BY <1>1, <2>1, <2>2, <2>3, Zenon DEF TickHolds
  <1> QED BY <1>5, <1>6, <1>8, <1>9, Zenon DEF TickHolds

(* An outcome: a failed unsubscribe brings its intent back, a failed subscribe takes its own. *)
LEMMA TickOutcome ==
  ASSUME IntentTypes, OneCall, Alone, TickInv, NEW o \in ops, Outcome(o)
  PROVE  TickInv'
  <1>1. Ends(o) /\ o \in OpRecs /\ (Group(o.h) = "tick" => TickerOutcome(o))
    BY OutcomeEnds
  <1>2. /\ o.st \in {"ok", "err"} /\ ops' = ops \ {o} /\ cloud' = cloud
        /\ Group(o.h) # "tick" => intents' = intents /\ subs' = subs
    BY <1>1 DEF Ends
  <1>3. o.h \in Holders /\ o.op \in {"sub", "unsub"} /\ ops \subseteq OpRecs
    BY <1>1 DEF OpRecs, IntentTypes
  <1>4. Group(o.h) = "tick" <=> o.h \in Kinds
    BY <1>3, HolderGroup
  <1>5. TickOps' = TickOps \ {o}
    BY <1>2 DEF TickOps
  <1>6. CASE o.h \notin Kinds
    <2>1. TickOps' = TickOps
      BY <1>5, <1>6 DEF TickOps
    <2> QED BY <1>2, <1>4, <1>6, <2>1, TickSame
  <1>7. CASE o.h \in Kinds
    <2> SUFFICES ASSUME "tick" \notin cloud PROVE TickHolds'
      BY <1>2 DEF TickInv
    <2>1. TickHolds /\ o \in TickOps
      BY <1>7 DEF TickInv, TickOps
    <2>2. o.own
      BY <2>1, Zenon DEF TickHolds
    <2>3. \A q \in TickOps' : q \in TickOps /\ q # o
      BY <1>5
    <2>4. \A q \in TickOps : q.h = o.h /\ q.op = o.op => q = o
      BY DEF OneCall, TickOps
    <2>5. /\ o.op = "sub" /\ o.st = "ok" => subs' /\ intents' = intents
          /\ o.op = "sub" /\ o.st = "err" =>
               (subs' <=> subs) /\ intents' = IF o.own THEN intents \ {o.h} ELSE {}
          /\ o.op = "unsub" /\ o.st = "ok" => ~ subs' /\ intents' = intents
          /\ o.op = "unsub" /\ o.st = "err" =>
               (subs' <=> subs) /\ intents' = IF o.own THEN {o.h} ELSE intents
      BY <1>1, <1>2, <1>4, <1>7, TickEnds
    <2>6. CASE o.op = "unsub"
      <3>1. TickOps' = {}
        <4>1. \A q \in TickOps : Group(q.h) = "tick"
          BY <1>3, TickGroup DEF TickOps
        <4>2. \A q \in TickOps : q = o
          BY <1>4, <1>7, <2>6, <4>1 DEF Alone, TickOps
        <4> QED BY <1>5, <4>2
      <3>2. intents = {} /\ subs
        BY <2>1, <2>6, Zenon DEF TickHolds
      <3>3. CASE o.st = "ok"
        <4>1. ~ subs' /\ intents' = {}
          BY <2>5, <2>6, <3>2, <3>3
        <4> QED BY <3>1, <4>1, Zenon DEF TickHolds
      <3>4. CASE o.st = "err"
        <4>1. subs' /\ intents' = {o.h}
          BY <2>2, <2>5, <2>6, <3>2, <3>4, Zenon
        <4> QED BY <3>1, <4>1, Zenon DEF TickHolds
      <3> QED BY <1>2, <3>3, <3>4
    <2>7. CASE o.op = "sub"
      <3>1. \A q \in TickOps : q.op # "unsub"
        <4>1. \A q \in TickOps : Group(q.h) = Group(o.h) /\ q \in ops
          BY <1>3, <1>4, <1>7, TickGroup DEF TickOps
        <4> QED BY <1>4, <1>7, <2>7, <4>1 DEF Alone
      <3>2. o.h \in intents
        BY <2>1, <2>7, Zenon DEF TickHolds
      <3>3. \A q \in TickOps' : q.own /\ q.op # "unsub" /\ (q.op = "sub" => q.h \in intents /\ q.h # o.h)
        BY <2>1, <2>3, <2>4, <2>7, <3>1, Zenon DEF TickHolds
      <3>4. CASE o.st = "ok"
        <4>1. subs' /\ intents' = intents
          BY <2>5, <2>7, <3>4
        <4> QED BY <3>2, <3>3, <4>1, Zenon DEF TickHolds
      <3>5. CASE o.st = "err"
        <4>1. (subs' <=> subs) /\ intents' = intents \ {o.h}
          BY <2>2, <2>5, <2>7, <3>5, Zenon
        <4>2. \A q \in TickOps' : q.op = "sub" => q.h \in intents'
          BY <3>3, <4>1
        <4>3. \A k \in intents' : ~ subs' => \E q \in TickOps' : q.h = k /\ q.op = "sub"
          <5> SUFFICES ASSUME NEW k \in intents', ~ subs' PROVE \E q \in TickOps' : q.h = k /\ q.op = "sub"
            OBVIOUS
          <5>1. PICK q \in TickOps : q.h = k /\ q.op = "sub"
            BY <2>1, <4>1, Zenon DEF TickHolds
          <5>2. q # o
            BY <4>1, <5>1
          <5> QED BY <1>5, <5>1, <5>2
        <4>4. ASSUME subs' PROVE \E k \in intents' : \A q \in TickOps' : q.h = k => q.op # "sub"
          <5>1. PICK k \in intents : \A q \in TickOps : q.h = k => q.op # "sub"
            BY <2>1, <3>1, <4>1, <4>4, Zenon DEF TickHolds
          <5>2. k # o.h
            BY <2>1, <2>7, <5>1
          <5> QED BY <2>3, <4>1, <5>1, <5>2
        <4> QED BY <3>3, <4>2, <4>3, <4>4, Zenon DEF TickHolds
      <3> QED BY <1>2, <3>4, <3>5
    <2> QED BY <1>3, <2>6, <2>7
  <1> QED BY <1>6, <1>7

(* Every step keeps the tick intents and their calls together. *)
LEMMA TickStep == ASSUME CallInv, TickInv, IntentsNext PROVE TickInv'
  <1>1. IntentTypes /\ OneCall /\ Alone
    BY DEF CallInv
  <1>2. "book" \in Holders /\ "book" \notin Kinds
        /\ \A b \in BarTypes : b \in Holders /\ b \notin Kinds
    BY DataIntentsAssumption DEF Holders, Kinds
  <1>3. CASE Command
    <2>1. ASSUME NEW b \in BarTypes, _subscribe_bars(b) PROVE TickInv'
      <3>1. intents' = intents /\ Starts(b, "sub")
        BY <1>1, <2>1, SubBarsStarts DEF _subscribe_bars, intentVars
      <3> QED BY <1>1, <1>2, <3>1, TickCommandSame
    <2>2. ASSUME NEW b \in BarTypes, _unsubscribe_bars(b) PROVE TickInv'
      <3>1. intents' = intents /\ Starts(b, "unsub")
        BY <1>1, <2>2, UnsubBarsStarts DEF _unsubscribe_bars
      <3> QED BY <1>1, <1>2, <3>1, TickCommandSame
    <2>3. CASE _subscribe_order_book_deltas
      <3>1. intents' = intents /\ Starts("book", "sub")
        BY <1>1, <2>3, BookStarts DEF _subscribe_order_book_deltas, intentVars
      <3> QED BY <1>1, <1>2, <3>1, TickCommandSame
    <2>4. CASE _unsubscribe_order_book_deltas
      <3>1. intents' = intents /\ Starts("book", "unsub")
        BY <1>1, <2>4, BookStarts DEF _unsubscribe_order_book_deltas, intentVars
      <3> QED BY <1>1, <1>2, <3>1, TickCommandSame
    <2> QED BY <1>1, <1>3, <2>1, <2>2, <2>3, <2>4, TickAdd, TickRemove DEF Command
  <1>4. ASSUME NEW o \in ops, VenueCall(o) PROVE TickInv'
    BY <1>1, <1>4, VenueAnswers, TickAnswer
  <1>5. ASSUME NEW o \in ops, Outcome(o) PROVE TickInv'
    BY <1>1, <1>5, TickOutcome
  <1>6. CASE Session
    <2>1. intents' = intents /\ subs' = subs /\ ops' = ops
      BY <1>6, SessionLeaves
    <2>2. cloud \subseteq cloud'
      BY <1>6, SessionLeaves, CloudUnsubsFact, Zenon
    <2>3. TickOps' = TickOps
      BY <2>1 DEF TickOps
    <2> QED BY <2>1, <2>2, <2>3, TickSame
  <1> QED BY <1>3, <1>4, <1>5, <1>6 DEF IntentsNext, Session

-----------------------------------------------------------------------------
\* Bar intents

(* The bar calls are the calls of the group. *)
LEMMA BarGroup ==
  ASSUME NEW S \in SUBSET OpRecs
  PROVE  \A o \in S : o.h \in Holders /\ (Group(o.h) = "bars" <=> o.h \in BarTypes)
  BY HolderGroup DEF OpRecs

\* What BarsInv says, outside of the cloud.
BarHolds == KeysFit /\ LeavingBars /\ BackJoined /\ BarsPolled

(* A command of another group, or a subscribe. *)
LEMMA BarsCommandSame ==
  ASSUME IntentTypes, BarsInv, NEW h \in Holders, NEW op \in {"sub", "unsub"}, Starts(h, op),
         h \notin BarTypes \/ op = "sub", types' = types
  PROVE  BarsInv'
  <1> SUFFICES ASSUME "bars" \notin cloud' PROVE BarHolds'
    BY DEF BarsInv, BarHolds
  <1>1. /\ UNCHANGED <<client, joined, why, hist>> /\ cloud \subseteq cloud' /\ ops' \subseteq OpRecs
        /\ \A o \in ops' : Group(o.h) \notin cloud' => o \in ops \/ (o.h = h /\ o.op = op)
    BY DEF Starts
  <1>2. BarHolds
    BY <1>1 DEF BarsInv, BarHolds
  <1>3. ASSUME NEW o \in BarOps', o.op = "unsub" PROVE o \in BarOps
    <2>1. o \in ops' /\ o.h \in BarTypes /\ Group(o.h) = "bars"
      BY <1>1, BarGroup DEF BarOps
    <2> QED BY <1>1, <1>3, <2>1 DEF BarOps
  <1>4. Registered' = Registered
    BY DEF Registered
  <1>5. KeysFit' /\ LeavingBars'
    BY <1>2, <1>3, <1>4 DEF KeysFit, LeavingBars, BarHolds, Returns
  <1>6. BackJoined'
    BY <1>1, <1>2, <1>3 DEF BackJoined, BarHolds, MayReturn, Synced, Returns
  <1>7. BarsPolled'
    BY <1>1, <1>2, <1>3, <1>4 DEF BarsPolled, BarHolds, MayReturn, Returns
  <1> QED BY <1>5, <1>6, <1>7 DEF BarHolds

(* An unsubscribe takes its type out of the wire periods, and no other. *)
LEMMA BarUnregistered ==
  ASSUME types \in [Periods -> SUBSET BarTypes], KeysFit, NEW b \in BarTypes,
         types' = [p \in Periods |-> IF p \in bar_wire_period_keys(b) THEN types[p] \ {b} ELSE types[p]]
  PROVE  /\ KeysFit' /\ Registered' = Registered \ {b}
         /\ \A p \in Periods : types'[p] = types[p] \ {b}
  <1>1. \A p \in Periods : b \in types[p] => p \in bar_wire_period_keys(b)
    BY RegisteredBars DEF KeysFit
  <1>2. \A p \in Periods : types'[p] = types[p] \ {b}
    BY <1>1
  <1>3. Registered' = Registered \ {b}
    BY <1>2 DEF Registered
  <1>4. KeysFit'
    BY <1>2, <1>3 DEF KeysFit
  <1> QED BY <1>2, <1>3, <1>4

(* A bar type is unsubscribed: what its call saves is the type, if it was registered. *)
LEMMA BarsRemove ==
  ASSUME IntentTypes, OneCall, Phases, BarsInv, ClaimsServed, NEW b \in BarTypes, _unsubscribe_bars(b)
  PROVE  BarsInv'
  <1> SUFFICES ASSUME "bars" \notin cloud' PROVE BarHolds'
    BY DEF BarsInv, BarHolds
  <1>1. Starts(b, "unsub") /\ b \in Holders /\ Group(b) = "bars" /\ ops \subseteq OpRecs
        /\ types \in [Periods -> SUBSET BarTypes]
    BY UnsubBarsStarts, HolderGroup DEF Holders, IntentTypes
  <1>2. /\ UNCHANGED <<client, joined, why, hist>> /\ cloud \subseteq cloud' /\ why = "none"
        /\ \A o \in ops : Group(o.h) # "bars"
    BY <1>1 DEF Starts
  <1>3. BarHolds
    BY <1>2 DEF BarsInv, BarHolds
  <1>4. types' = [p \in Periods |-> IF p \in bar_wire_period_keys(b) THEN types[p] \ {b} ELSE types[p]]
    BY Zenon DEF _unsubscribe_bars
  <1>5. /\ KeysFit' /\ Registered' = Registered \ {b}
        /\ \A p \in Periods : types'[p] = types[p] \ {b}
    BY <1>1, <1>3, <1>4, BarUnregistered DEF BarHolds
  <1>6. BarOps = {}
    BY <1>1, <1>2, BarGroup DEF BarOps
  <1>7. client = "on" => (Registered # {} => hist # "none") /\ (Registered' # {} => hist' # "none")
    BY <1>2, <1>3, <1>5 DEF BarsPolled, BarHolds
  <1>8. CASE ops' = ops
    <2>1. BarOps' = {}
      BY <1>6, <1>8 DEF BarOps
    <2> QED BY <1>2, <1>5, <1>7, <2>1 DEF BarHolds, LeavingBars, BackJoined, BarsPolled
  <1>9. CASE ops' # ops
    <2> DEFINE n == Op(b, "unsub", types, TRUE)
    <2>1. /\ \A p \in bar_wire_period_keys(b) : types'[p] = {}
          /\ ops' = ops \cup {n}
      BY <1>9, Zenon DEF _unsubscribe_bars, Calls
    <2>2. n.h = b /\ n.op = "unsub" /\ n.saved = types
      BY DEF Op
    <2> HIDE DEF n
    <2>3. BarOps' = {n}
      BY <1>6, <2>1, <2>2 DEF BarOps
    <2>4. /\ bar_wire_period_keys(b) \subseteq Periods
          /\ bar_type_to_rithmic(b) \in bar_wire_period_keys(b)
      BY PeriodKeys
    <2>5. Returns(n) <=> b \in Registered
      <3>1. Returns(n) <=> b \in types[bar_type_to_rithmic(b)]
        BY <2>2 DEF Returns
      <3>2. b \in Registered => b \in types[bar_type_to_rithmic(b)]
        BY <1>3, <2>4 DEF BarHolds, KeysFit
      <3> QED BY <1>1, <2>4, <3>1, <3>2, RegisteredBars
    <2>6. \A p \in bar_wire_period_keys(b) : types[p] = IF Returns(n) THEN {b} ELSE {}
      <3> SUFFICES ASSUME NEW p \in bar_wire_period_keys(b)
                   PROVE  types[p] = IF Returns(n) THEN {b} ELSE {}
        OBVIOUS
      <3>1. p \in Periods /\ types[p] \ {b} = {}
        BY <1>5, <2>1, <2>4
      <3>2. b \in types[p] <=> b \in Registered
        BY <1>1, <1>3, <3>1, RegisteredBars DEF BarHolds, KeysFit
      <3> QED BY <2>5, <3>1, <3>2
    <2>7. LeavingBars'
      <3>1. \A p \in bar_wire_period_keys(b) : types'[p] = {} /\ n.saved[p] = IF Returns(n) THEN {n.h} ELSE {}
        BY <2>1, <2>2, <2>6
      <3> QED BY <2>2, <2>3, <3>1 DEF LeavingBars
    <2>8. ASSUME client = "on", Returns(n) PROVE Feed(b) \in joined
      <3>1. Feed(b) \in Feeds /\ Feed(b)[1] = "bars"
        BY <1>1, HolderFeed
      <3>2. Claims(Feed(b)) /\ Synced /\ "bars" \notin cloud
        BY <1>2, <2>5, <2>8 DEF Claims, Synced
      <3>3. ~ Leaving(Feed(b))
        <4> SUFFICES ASSUME NEW o \in ops, Feed(o.h) = Feed(b) PROVE FALSE
          BY DEF Leaving
        <4>1. o.h \in Holders /\ Feed(o.h)[1] = Group(o.h)
          BY <1>1, HolderFeed DEF OpRecs
        <4> QED BY <1>2, <3>1, <4>1
      <3>4. ToCome = {}
        BY <1>2 DEF ToCome
      <3> QED BY <3>1, <3>2, <3>3, <3>4 DEF ClaimsServed
    <2>9. BackJoined'
      <3>1. Synced' => client = "on"
        BY <1>2 DEF Synced
      <3> QED BY <1>2, <2>2, <2>3, <2>8, <3>1 DEF BackJoined, MayReturn, Returns
    <2>10. BarsPolled'
      BY <1>2, <1>7, <2>3, <2>5 DEF BarsPolled, MayReturn, Returns
    <2> QED BY <1>5, <2>7, <2>9, <2>10 DEF BarHolds
  <1> QED BY <1>8, <1>9

(* A call is answered: what may come back is still joined. *)
LEMMA BarsAnswer ==
  ASSUME IntentTypes, Alone, BarsInv, NEW o \in ops, NEW n \in OpRecs, AnsweredAs(o, n)
  PROVE  BarsInv'
  <1> SUFFICES ASSUME "bars" \notin cloud PROVE BarHolds'
    BY DEF BarsInv, BarHolds, AnsweredAs
  <1>1. BarHolds /\ ops \subseteq OpRecs
    BY DEF BarsInv, BarHolds, IntentTypes
  <1>2. /\ o.st = "call" /\ n.h = o.h /\ n.op = o.op /\ n.saved = o.saved
        /\ ops' = (ops \ {o}) \cup {n} /\ UNCHANGED <<client, types, why, hist>>
    BY DEF AnsweredAs
  <1>3. \A q \in BarOps' : \E r \in BarOps :
           /\ q.h = r.h /\ q.op = r.op /\ q.saved = r.saved /\ (MayReturn(q) => MayReturn(r))
    BY <1>2 DEF BarOps, MayReturn, Returns
  <1>4. Registered' = Registered
    BY <1>2 DEF Registered
  <1>5. KeysFit'
    BY <1>1, <1>2, <1>4 DEF KeysFit, BarHolds
  <1>6. LeavingBars'
    <2> SUFFICES ASSUME NEW q \in BarOps', q.op = "unsub", NEW p \in bar_wire_period_keys(q.h)
                 PROVE  types[p] = {} /\ q.saved[p] = IF Returns(q) THEN {q.h} ELSE {}
      BY <1>2 DEF LeavingBars, Returns
    <2>1. PICK r \in BarOps : q.h = r.h /\ q.op = r.op /\ q.saved = r.saved
      BY <1>3
    <2>2. types[p] = {} /\ r.saved[p] = IF Returns(r) THEN {r.h} ELSE {}
      BY <1>1, <2>1 DEF LeavingBars, BarHolds
    <2>3. Returns(r) <=> Returns(q)
      BY <2>1 DEF Returns
    <2> QED BY <2>1, <2>2, <2>3
  <1>7. BackJoined'
    <2> SUFFICES ASSUME Synced, NEW q \in BarOps', MayReturn(q) PROVE Feed(q.h) \in joined'
      BY <1>2 DEF BackJoined, MayReturn, Returns, Synced
    <2>1. PICK r \in BarOps : q.h = r.h /\ MayReturn(r)
      BY <1>3
    <2>2. Feed(q.h) \in joined /\ r \in ops /\ r.op = "unsub" /\ Group(r.h) = "bars"
      BY <1>1, <2>1, BarGroup DEF BackJoined, BarHolds, BarOps, MayReturn
    <2>3. CASE n.st = "ok" /\ o.op = "unsub"
      <3>1. o.h \in Holders /\ r.h \in Holders
        BY <1>1, <2>2 DEF OpRecs
      <3>2. Group(o.h) # "bars"
        <4> SUFFICES ASSUME Group(o.h) = "bars" PROVE FALSE
          OBVIOUS
        <4>1. \A x \in ops : Group(x.h) = "bars" => x = o
          BY <2>3 DEF Alone
        <4>2. q = n
          <5>1. q \in ops' /\ q.h \in BarTypes
            BY DEF BarOps
          <5>2. Group(q.h) = "bars"
            BY <2>1, <2>2
          <5> QED BY <1>2, <4>1, <5>1, <5>2
        <4> QED BY <2>3, <4>2 DEF MayReturn
      <3>3. Feed(o.h) # Feed(q.h)
        BY <2>1, <2>2, <3>1, <3>2, HolderFeed
      <3> QED BY <2>2, <2>3, <3>3 DEF AnsweredAs
    <2>4. CASE ~ (n.st = "ok" /\ o.op = "unsub")
      <3>1. joined \subseteq joined'
        BY <1>1, <2>4, Zenon DEF AnsweredAs, OpRecs
      <3> QED BY <2>2, <3>1
    <2> QED BY <2>3, <2>4
  <1>8. BarsPolled'
    BY <1>1, <1>2, <1>3, <1>4 DEF BarsPolled, BarHolds, MayReturn, Returns
  <1> QED BY <1>5, <1>6, <1>7, <1>8 DEF BarHolds

(* What comes back after an unsubscribe that failed. *)
LEMMA BarRestored ==
  ASSUME types \in [Periods -> SUBSET BarTypes], KeysFit, NEW o \in OpRecs, o.h \in BarTypes,
         \A p \in bar_wire_period_keys(o.h) :
            types[p] = {} /\ o.saved[p] = IF Returns(o) THEN {o.h} ELSE {},
         types' \in [Periods -> SUBSET BarTypes],
         \A p \in Periods : types'[p] = IF p \in bar_wire_period_keys(o.h) THEN o.saved[p]
                                                                           ELSE types[p]
  PROVE  /\ KeysFit' /\ Registered \subseteq Registered'
         /\ \A b \in Registered' : b \in Registered \/ (b = o.h /\ Returns(o))
         /\ Returns(o) => o.h \in Registered'
  <1>1. bar_wire_period_keys(o.h) \subseteq Periods /\ bar_type_to_rithmic(o.h) \in bar_wire_period_keys(o.h)
    BY PeriodKeys
  <1>2. o.h \notin Registered
    BY <1>1 DEF KeysFit
  <1>3. ASSUME NEW b \in Registered'
        PROVE  b \in Registered \/ (b = o.h /\ Returns(o))
    <2>1. PICK p \in Periods : b \in types'[p]
      BY DEF Registered
    <2>2. CASE p \in bar_wire_period_keys(o.h)
      BY <2>1, <2>2
    <2>3. CASE p \notin bar_wire_period_keys(o.h)
      BY <2>1, <2>3, RegisteredBars
    <2> QED BY <2>2, <2>3
  <1>4. ASSUME NEW b \in Registered, NEW p \in Periods
        PROVE  b \in types'[p] <=> b \in types[p]
    <2>1. CASE p \in bar_wire_period_keys(o.h)
      BY <1>2, <1>4, <2>1
    <2>2. CASE p \notin bar_wire_period_keys(o.h)
      BY <2>2
    <2> QED BY <2>1, <2>2
  <1>5. Registered \subseteq Registered'
    <2> SUFFICES ASSUME NEW b \in Registered PROVE b \in Registered'
      OBVIOUS
    <2>1. PICK p \in Periods : b \in types[p]
      BY RegisteredBars
    <2>2. b \in types'[p]
      BY <1>4, <2>1
    <2> QED BY <2>2 DEF Registered
  <1>6. ASSUME Returns(o) PROVE o.h \in Registered'
    <2>1. o.h \in types'[bar_type_to_rithmic(o.h)]
      BY <1>1, <1>6
    <2> QED BY <1>1, <2>1 DEF Registered
  <1>7. ASSUME NEW b \in Registered', NEW p \in Periods
        PROVE  b \in types'[p] <=> p \in bar_wire_period_keys(b)
    <2>1. CASE b \in Registered
      BY <1>4, <2>1 DEF KeysFit
    <2>2. CASE b \notin Registered
      <3>1. b = o.h /\ Returns(o)
        BY <1>3, <1>7, <2>2
      <3>2. CASE p \in bar_wire_period_keys(b)
        BY <3>1, <3>2
      <3>3. CASE p \notin bar_wire_period_keys(b)
        <4>1. b \notin types[p]
          BY <2>2, RegisteredBars
        <4> QED BY <3>1, <3>3, <4>1
      <3> QED BY <3>2, <3>3
    <2> QED BY <2>1, <2>2
  <1>8. KeysFit'
    BY <1>7 DEF KeysFit
  <1> QED BY <1>3, <1>5, <1>6, <1>8

(* A type that is registered goes under its wire periods. *)
LEMMA BarRegistered ==
  ASSUME types \in [Periods -> SUBSET BarTypes], KeysFit, NEW b \in BarTypes,
         types' \in [Periods -> SUBSET BarTypes],
         \A p \in Periods : types'[p] = IF p \in bar_wire_period_keys(b) THEN types[p] \cup {b}
                                                                         ELSE types[p]
  PROVE  KeysFit' /\ Registered' = Registered \cup {b}
  <1>1. bar_wire_period_keys(b) \subseteq Periods /\ bar_type_to_rithmic(b) \in bar_wire_period_keys(b)
    BY PeriodKeys
  <1>2. \A p \in Periods : \A d : d \in types'[p] <=> d \in types[p] \/ (d = b /\ p \in bar_wire_period_keys(b))
    OBVIOUS
  <1>3. \A d : d \in Registered' <=> d \in Registered \/ d = b
    BY <1>1, <1>2 DEF Registered
  <1>4. \A d \in Registered' : \A p \in Periods : d \in types'[p] <=> p \in bar_wire_period_keys(d)
    <2> SUFFICES ASSUME NEW d \in Registered', NEW p \in Periods
                 PROVE  d \in types'[p] <=> p \in bar_wire_period_keys(d)
      OBVIOUS
    <2>1. CASE d \in Registered
      BY <1>2, <2>1 DEF KeysFit
    <2>2. CASE d \notin Registered
      <3>1. d = b /\ d \notin types[p]
        BY <1>3, <2>2, RegisteredBars
      <3> QED BY <1>2, <3>1
    <2> QED BY <2>1, <2>2
  <1> QED BY <1>3, <1>4 DEF KeysFit

(* An outcome: a subscribe adds its type, an unsubscribe that failed brings it back. *)
LEMMA BarsOutcome ==
  ASSUME IntentTypes, OneCall, Alone, BarsInv, NEW o \in ops, Outcome(o)
  PROVE  BarsInv'
  <1>1. Ends(o) /\ o \in OpRecs /\ (Group(o.h) = "bars" => BarOutcome(o))
    BY OutcomeEnds
  <1>2. /\ o.st \in {"ok", "err"} /\ ops' = ops \ {o}
        /\ UNCHANGED <<client, joined, replay, why, cloud>>
        /\ Group(o.h) # "bars" => types' = types /\ hist' = hist
    BY <1>1 DEF Ends
  <1> SUFFICES ASSUME "bars" \notin cloud PROVE BarHolds'
    BY <1>2 DEF BarsInv, BarHolds
  <1>3. BarHolds /\ ops \subseteq OpRecs /\ types \in [Periods -> SUBSET BarTypes]
    BY DEF BarsInv, BarHolds, IntentTypes
  <1>4. o.h \in Holders /\ o.op \in {"sub", "unsub"} /\ (Group(o.h) = "bars" <=> o.h \in BarTypes)
    BY <1>1, HolderGroup DEF OpRecs
  <1>5. BarOps' = BarOps \ {o}
    BY <1>2 DEF BarOps
  <1>6. o.h \in BarTypes => o \in BarOps
    BY DEF BarOps
  <1>7. ASSUME o.h \in BarTypes, o.op = "unsub" PROVE BarOps' = {}
    <2>1. \A q \in BarOps : q \in ops /\ Group(q.h) = "bars"
      BY <1>3, BarGroup DEF BarOps
    <2>2. \A q \in BarOps : q = o
      BY <1>4, <1>7, <2>1 DEF Alone
    <2> QED BY <1>5, <2>2
  <1>8. CASE types' = types /\ hist' = hist
    <2>1. Registered' = Registered
      BY <1>8 DEF Registered
    <2> QED BY <1>2, <1>3, <1>5, <1>8, <2>1
         DEF BarHolds, KeysFit, LeavingBars, BackJoined, BarsPolled, Synced, MayReturn, Returns
  <1>9. CASE o.h \in BarTypes /\ Adds(o)
    <2>1. /\ types' \in [Periods -> SUBSET BarTypes] /\ hist' # "none"
          /\ \A p \in Periods : types'[p] = IF p \in bar_wire_period_keys(o.h) THEN types[p] \cup {o.h}
                                                                              ELSE types[p]
      BY <1>1, <1>3, <1>4, <1>9, BarEnds
    <2>2. KeysFit'
      BY <1>3, <1>9, <2>1, BarRegistered DEF BarHolds
    <2>3. \A q \in BarOps' : q.op # "unsub"
      <3>1. \A q \in BarOps : q \in ops /\ Group(q.h) = "bars"
        BY <1>3, BarGroup DEF BarOps
      <3> QED BY <1>4, <1>5, <1>9, <3>1 DEF Alone, Adds
    <2> QED BY <2>1, <2>2, <2>3 DEF BarHolds, LeavingBars, BackJoined, BarsPolled, MayReturn
  <1>10. CASE o.h \in BarTypes /\ Restores(o)
    <2>1. /\ types' \in [Periods -> SUBSET BarTypes] /\ hist' = hist
          /\ \A p \in Periods : types'[p] = IF p \in bar_wire_period_keys(o.h) THEN o.saved[p]
                                                                              ELSE types[p]
      BY <1>1, <1>3, <1>4, <1>10, BarEnds
    <2>2. \A p \in bar_wire_period_keys(o.h) :
             types[p] = {} /\ o.saved[p] = IF Returns(o) THEN {o.h} ELSE {}
      BY <1>3, <1>6, <1>10 DEF BarHolds, LeavingBars, Restores
    <2>3. KeysFit' /\ \A b \in Registered' : b \in Registered \/ (b = o.h /\ Returns(o))
      BY <1>1, <1>3, <1>10, <2>1, <2>2, BarRestored DEF BarHolds
    <2>4. BarOps' = {}
      BY <1>7, <1>10 DEF Restores
    <2>5. BarsPolled'
      BY <1>2, <1>3, <1>6, <1>10, <2>1, <2>3, <2>4 DEF BarsPolled, BarHolds, MayReturn, Restores
    <2> QED BY <2>3, <2>4, <2>5 DEF BarHolds, LeavingBars, BackJoined
  <1>11. o.h \notin BarTypes \/ ~ (Adds(o) \/ Restores(o)) => types' = types /\ hist' = hist
    <2>1. CASE o.h \in BarTypes /\ ~ Adds(o) /\ ~ Restores(o)
      BY <1>1, <1>3, <1>4, <2>1, BarEnds
    <2> QED BY <1>2, <1>4, <2>1
  <1> QED BY <1>8, <1>9, <1>10, <1>11

(* A (re)connect starts the poller of what is registered. *)
LEMMA BarsSession ==
  ASSUME IntentTypes, Phases, Alone, BarsInv, Session
  PROVE  BarsInv'
  <1> SUFFICES ASSUME "bars" \notin cloud' PROVE BarHolds'
    BY DEF BarsInv, BarHolds
  <1>1. types' = types /\ ops' = ops /\ ops \subseteq OpRecs /\ cloud \subseteq cloud'
    BY SessionLeaves, CloudUnsubsFact, Zenon DEF IntentTypes
  <1>2. BarHolds
    BY <1>1 DEF BarsInv, BarHolds
  <1>3. Registered' = Registered /\ BarOps' = BarOps
    BY <1>1 DEF Registered, BarOps
  <1>4. KeysFit' /\ LeavingBars'
    BY <1>1, <1>2, <1>3 DEF BarHolds, KeysFit, LeavingBars, Returns
  <1>5. ASSUME NEW o \in BarOps, MayReturn(o) PROVE why = "none"
    BY <1>1, <1>5, BarGroup DEF Alone, BarOps, MayReturn
  <1>6. ASSUME client' = client \/ client' # "on", joined \subseteq joined', Synced' => Synced,
               hist # "none" => hist' # "none"
        PROVE  BarHolds'
    <2>1. BackJoined'
      BY <1>2, <1>3, <1>6 DEF BackJoined, BarHolds, MayReturn, Returns
    <2>2. BarsPolled'
      BY <1>2, <1>3, <1>6 DEF BarsPolled, BarHolds, MayReturn, Returns
    <2> QED BY <1>4, <2>1, <2>2 DEF BarHolds
  <1>7. ASSUME client' # "on", why' # "connect" PROVE BarHolds'
    BY <1>4, <1>7 DEF BarHolds, BackJoined, BarsPolled, Synced
  <1>8. CASE Begins
    <2>1. UNCHANGED <<client, joined, hist>> /\ cloud' = CloudUnsubs
      BY <1>8, SessionLeaves
    <2>2. \A o \in BarOps : o.op # "unsub"
      <3>1. \A o \in BarOps : o \in ops /\ Group(o.h) = "bars"
        BY <1>1, BarGroup DEF BarOps
      <3> QED BY <2>1, <3>1, CloudUnsubsFact, Zenon
    <2>3. BackJoined' /\ BarsPolled'
      BY <1>2, <1>3, <2>1, <2>2 DEF BackJoined, BarsPolled, MayReturn, BarHolds
    <2> QED BY <1>4, <2>3 DEF BarHolds
  <1>9. CASE ensure_connected
    <2>1. client' \in {"wired", "off"} /\ why' = why /\ client = "off"
      BY <1>9 DEF ensure_connected
    <2> QED BY <1>7, <2>1 DEF Phases
  <1>10. CASE replay_subscription_intent
    <2>1. client' \in {client, "off"} /\ why' \in {why, "none"} /\ hist' = hist /\ joined \subseteq joined'
      BY <1>10 DEF replay_subscription_intent
    <2> QED BY <1>6, <2>1 DEF Synced
  <1>11. CASE Connected
    <2>1. why = "connect" /\ joined' = joined
          /\ hist' = IF Registered # {} THEN IF hist = "none" THEN "run" ELSE hist ELSE hist
      BY <1>11 DEF Connected, _ensure_history_poll_task
    <2>2. BackJoined'
      BY <1>2, <1>3, <2>1 DEF BackJoined, BarHolds, MayReturn, Returns, Synced
    <2>3. BarsPolled'
      BY <1>3, <1>5, <2>1 DEF BarsPolled, MayReturn, Returns
    <2> QED BY <1>4, <2>2, <2>3 DEF BarHolds
  <1>12. CASE Resynced \/ reconcile_starts_poller \/ _history_poll_loop
    <2>1. /\ client' = client /\ joined' = joined /\ why' \in {why, "none"}
          /\ hist # "none" => hist' # "none"
      BY <1>12 DEF Resynced, reconcile_starts_poller, _history_poll_loop, _ensure_history_poll_task
    <2> QED BY <1>6, <2>1 DEF Synced
  <1>13. CASE _disconnect
    <2>1. client' = "leaving" /\ why' = "none"
      BY <1>13 DEF _disconnect
    <2> QED BY <1>7, <2>1
  <1>14. CASE SessionDisconnects
    <2>1. client' = "off" /\ why' = why /\ client = "leaving"
      BY <1>14 DEF SessionDisconnects
    <2> QED BY <1>7, <2>1 DEF Phases
  <1> QED BY <1>8, <1>9, <1>10, <1>11, <1>12, <1>13, <1>14 DEF Session, Begins

(* Every step keeps the wire periods, what is being left and the poller together. *)
LEMMA BarsStep ==
  ASSUME CallInv, BarsInv, ClaimsServed, IntentsNext
  PROVE  BarsInv'
  <1>1. IntentTypes /\ OneCall /\ Alone /\ Phases
    BY DEF CallInv
  <1>2. "book" \in Holders /\ "book" \notin BarTypes
        /\ \A k \in Kinds : k \in Holders /\ k \notin BarTypes
    BY DataIntentsAssumption DEF Holders, Kinds
  <1>3. CASE Command
    <2>1. ASSUME NEW k \in Kinds, _add_ticker_intent(k) PROVE BarsInv'
      <3>1. types' = types /\ Starts(k, "sub")
        BY <1>1, <2>1, AddStarts DEF _add_ticker_intent
      <3> QED BY <1>1, <1>2, <3>1, BarsCommandSame
    <2>2. ASSUME NEW k \in Kinds, _remove_ticker_intent(k) PROVE BarsInv'
      <3>1. types' = types /\ Starts(k, "unsub")
        BY <1>1, <2>2, RemoveStarts DEF _remove_ticker_intent
      <3> QED BY <1>1, <1>2, <3>1, BarsCommandSame
    <2>3. CASE _subscribe_order_book_deltas
      <3>1. types' = types /\ Starts("book", "sub")
        BY <1>1, <2>3, BookStarts DEF _subscribe_order_book_deltas, intentVars
      <3> QED BY <1>1, <1>2, <3>1, BarsCommandSame
    <2>4. CASE _unsubscribe_order_book_deltas
      <3>1. types' = types /\ Starts("book", "unsub")
        BY <1>1, <2>4, BookStarts DEF _unsubscribe_order_book_deltas, intentVars
      <3> QED BY <1>1, <1>2, <3>1, BarsCommandSame
    <2>5. ASSUME NEW b \in BarTypes, _subscribe_bars(b) PROVE BarsInv'
      <3>1. types' = types /\ Starts(b, "sub") /\ b \in Holders
        BY <1>1, <2>5, SubBarsStarts DEF _subscribe_bars, intentVars, Holders
      <3> QED BY <1>1, <3>1, BarsCommandSame
    <2> QED BY <1>1, <1>3, <2>1, <2>2, <2>3, <2>4, <2>5, BarsRemove DEF Command
  <1>4. ASSUME NEW o \in ops, VenueCall(o) PROVE BarsInv'
    BY <1>1, <1>4, VenueAnswers, BarsAnswer
  <1>5. ASSUME NEW o \in ops, Outcome(o) PROVE BarsInv'
    BY <1>1, <1>5, BarsOutcome
  <1>6. CASE Session
    BY <1>1, <1>6, BarsSession
  <1> QED BY <1>3, <1>4, <1>5, <1>6 DEF IntentsNext, Session

-----------------------------------------------------------------------------
\* What the client takes itself to be subscribed to

(* A claim comes from a subscribe that was answered, or back from an unsubscribe that failed;
   it goes with an unsubscribe that was answered. *)
LEMMA OutcomeClaims ==
  ASSUME IntentTypes, IntentTypes', BarsInv, NEW o \in ops, Outcome(o),
         NEW f \in Feeds, f[1] \notin cloud
  PROVE  /\ Claims(f)' => \/ Claims(f)
                          \/ Adds(o) /\ Feed(o.h) = f
                          \/ o.h \in BarTypes /\ MayReturn(o) /\ Feed(o.h) = f
         /\ Claims(f)' => ~ (o.op = "unsub" /\ o.st = "ok" /\ Feed(o.h) = f)
         /\ Claims(f) => Claims(f)' \/ (o.op = "unsub" /\ o.st = "ok" /\ Feed(o.h) = f)
         /\ Adds(o) /\ Feed(o.h) = f => Claims(f)'
         /\ o.h \in BarTypes /\ MayReturn(o) /\ Feed(o.h) = f => Claims(f)'
  <1>1. /\ Ends(o) /\ o \in OpRecs
        /\ Group(o.h) = "tick" => TickerOutcome(o)
        /\ Group(o.h) = "book" => BookOutcome(o)
        /\ Group(o.h) = "bars" => BarOutcome(o)
    BY OutcomeEnds
  <1>2. /\ o.h \in Holders /\ o.op \in {"sub", "unsub"} /\ o.st \in {"ok", "err"}
        /\ Group(o.h) \in Groups /\ (Group(o.h) = "bars" <=> o.h \in BarTypes)
        /\ Feed(o.h)[1] = Group(o.h)
    BY <1>1, HolderGroup, HolderFeed DEF OpRecs, Ends
  <1>3. types \in [Periods -> SUBSET BarTypes] /\ types' \in [Periods -> SUBSET BarTypes]
    BY DEF IntentTypes
  <1>4. /\ f[1] = "tick" => (Claims(f) <=> subs) /\ (Claims(f)' <=> subs')
        /\ f[1] = "book" => (Claims(f) <=> book) /\ (Claims(f)' <=> book')
        /\ f[1] = "bars" => /\ Claims(f) <=> \E b \in Registered : Feed(b) = f
                            /\ Claims(f)' <=> \E b \in Registered' : Feed(b) = f
    BY <1>3, ClaimsByGroup, ClaimsByGroupNext
  <1>5. CASE Group(o.h) # f[1]
    <2>1. Claims(f)' <=> Claims(f)
      <3>1. /\ f[1] = "tick" => (subs' <=> subs)
            /\ f[1] = "book" => (book' <=> book)
        <4>1. f[1] = "tick" => Group(o.h) # "tick"
          BY <1>5
        <4>2. f[1] = "book" => Group(o.h) # "book"
          BY <1>5
        <4>3. /\ Group(o.h) # "tick" => subs' = subs
              /\ Group(o.h) # "book" => book' = book
          BY <1>1 DEF Ends
        <4> QED BY <4>1, <4>2, <4>3
      <3>2. f[1] = "bars" => Registered' = Registered
        BY <1>1, <1>5 DEF Ends, Registered
      <3>3. f[1] \in {"tick", "book", "bars"}
        BY FeedGroup DEF Groups
      <3> QED BY <1>4, <3>1, <3>2, <3>3
    <2> QED BY <1>2, <1>5, <2>1
  <1>6. CASE Group(o.h) = f[1] /\ f[1] = "tick"
    <2>1. /\ o.op = "sub" /\ o.st = "ok" => subs'
          /\ o.st = "err" => (subs' <=> subs)
          /\ o.op = "unsub" /\ o.st = "ok" => ~ subs'
      BY <1>1, <1>2, <1>6, TickEnds
    <2>2. Feed(o.h) = f /\ o.h \notin BarTypes
      BY <1>2, <1>6, HolderFeed, HolderGroup, FeedGroup
    <2> QED BY <1>2, <1>4, <1>6, <2>1, <2>2 DEF Adds
  <1>7. CASE Group(o.h) = f[1] /\ f[1] = "book"
    <2>1. /\ o.op = "sub" /\ o.st = "ok" => book'
          /\ o.st = "err" => (book' <=> book)
          /\ o.op = "unsub" /\ o.st = "ok" => ~ book'
      BY <1>1, <1>7 DEF BookOutcome
    <2>2. Feed(o.h) = f /\ o.h \notin BarTypes
      BY <1>2, <1>7, HolderFeed, HolderGroup, FeedGroup
    <2> QED BY <1>2, <1>4, <1>7, <2>1, <2>2 DEF Adds
  <1>8. CASE Group(o.h) = f[1] /\ f[1] = "bars"
    <2>1. o.h \in BarTypes /\ BarOutcome(o) /\ o \in BarOps /\ KeysFit /\ LeavingBars
      BY <1>1, <1>2, <1>8 DEF BarOps, BarsInv
    <2>2. CASE Adds(o)
      <3>1. Registered' = Registered \cup {o.h}
        BY <1>1, <1>3, <2>1, <2>2, BarEnds, BarRegistered
      <3> QED BY <1>4, <1>8, <2>2, <3>1 DEF Adds, MayReturn
    <2>3. CASE Restores(o)
      <3>1. /\ Registered \subseteq Registered'
            /\ \A b \in Registered' : b \in Registered \/ (b = o.h /\ Returns(o))
            /\ Returns(o) => o.h \in Registered'
        <4>1. \A p \in bar_wire_period_keys(o.h) :
                 types[p] = {} /\ o.saved[p] = IF Returns(o) THEN {o.h} ELSE {}
          BY <2>1, <2>3 DEF LeavingBars, Restores
        <4>2. \A p \in Periods : types'[p] = IF p \in bar_wire_period_keys(o.h) THEN o.saved[p]
                                                                                ELSE types[p]
          BY <1>1, <1>3, <2>1, <2>3, BarEnds
        <4> QED BY <1>1, <1>3, <2>1, <4>1, <4>2, BarRestored
      <3> QED BY <1>4, <1>8, <2>1, <2>3, <3>1 DEF Adds, Restores, MayReturn
    <2>4. CASE ~ Adds(o) /\ ~ Restores(o)
      <3>1. Registered' = Registered
        BY <1>1, <1>3, <2>1, <2>4, BarEnds DEF Registered
      <3>2. ~ MayReturn(o)
        BY <1>2, <2>4 DEF MayReturn, Restores
      <3>3. ASSUME o.op = "unsub", NEW b \in Registered, Feed(b) = Feed(o.h) PROVE FALSE
        <4>1. b \in BarTypes
          BY <1>3, <3>3, RegisteredBars
        <4>2. /\ bar_wire_period_keys(b) = bar_wire_period_keys(o.h)
              /\ bar_type_to_rithmic(b) \in bar_wire_period_keys(b)
              /\ bar_wire_period_keys(b) \subseteq Periods
          BY <2>1, <3>3, <4>1, PeriodKeys
        <4>3. b \in types[bar_type_to_rithmic(b)]
          BY <2>1, <4>2 DEF KeysFit
        <4> QED BY <2>1, <3>3, <4>2, <4>3 DEF LeavingBars
      <3> QED BY <1>4, <1>8, <2>4, <3>1, <3>2, <3>3
    <2> QED BY <2>2, <2>3, <2>4
  <1>9. f[1] \in {"tick", "book", "bars"}
    BY FeedGroup DEF Groups
  <1> QED BY <1>5, <1>6, <1>7, <1>8, <1>9

(* A command adds no claim; the claims it takes are the type's that leaves. *)
LEMMA CommandClaims ==
  ASSUME IntentTypes, IntentTypes', OneCall, Command, NEW f \in Feeds
  PROVE  /\ Claims(f)' => Claims(f)
         /\ Claims(f) => Claims(f)' \/ (f[1] = "bars" /\ \E b \in BarTypes : _unsubscribe_bars(b))
  <1>1. types \in [Periods -> SUBSET BarTypes] /\ types' \in [Periods -> SUBSET BarTypes]
    BY DEF IntentTypes
  <1>2. PICK h \in Holders, op \in {"sub", "unsub"} : Starts(h, op)
    BY CommandStarts
  <1>3. (subs' <=> subs) /\ (book' <=> book)
    BY <1>2 DEF Starts
  <1>4. CASE \E b \in BarTypes : _unsubscribe_bars(b)
    <2>1. PICK b \in BarTypes : _unsubscribe_bars(b)
      BY <1>4
    <2>2. types' = [p \in Periods |-> IF p \in bar_wire_period_keys(b) THEN types[p] \ {b} ELSE types[p]]
      BY <2>1, Zenon DEF _unsubscribe_bars
    <2>3. Registered' \subseteq Registered
      BY <1>1, <2>2 DEF Registered
    <2>4. f[1] \in {"tick", "book", "bars"}
      BY FeedGroup DEF Groups
    <2> QED BY <1>1, <1>3, <1>4, <2>3, <2>4, ClaimsByGroup, ClaimsByGroupNext
  <1>5. CASE ~ \E b \in BarTypes : _unsubscribe_bars(b)
    <2>1. types' = types
      BY <1>5, Zenon DEF Command, _add_ticker_intent, _remove_ticker_intent, _subscribe_bars,
         _subscribe_order_book_deltas, _unsubscribe_order_book_deltas, intentVars
    <2>2. Registered' = Registered
      BY <2>1 DEF Registered
    <2>3. f[1] \in {"tick", "book", "bars"}
      BY FeedGroup DEF Groups
    <2> QED BY <1>1, <1>3, <2>2, <2>3, ClaimsByGroup, ClaimsByGroupNext
  <1> QED BY <1>4, <1>5

(* The claims are made of the intents alone. *)
LEMMA SameClaims ==
  ASSUME UNCHANGED <<subs, book, types>>
  PROVE  \A f : Claims(f)' <=> Claims(f)
  <1>1. Registered' = Registered /\ (subs' <=> subs) /\ (book' <=> book)
    BY DEF Registered
  <1> QED BY <1>1, Zenon DEF Claims

(* The calls under way are of the groups of their feeds. *)
LEMMA OpFeeds ==
  ASSUME NEW S \in SUBSET OpRecs
  PROVE  \A o \in S : /\ o.h \in Holders /\ o.op \in {"sub", "unsub"}
                      /\ Feed(o.h) \in Feeds /\ Feed(o.h)[1] = Group(o.h)
  BY HolderFeed DEF OpRecs

(* A replay is of every feed that is claimed. *)
LEMMA ClaimsReplayed ==
  ASSUME IntentTypes, NEW f \in Feeds, Claims(f)
  PROVE  f \in Elems(ReplaySet)
  <1>1. Elems(ReplaySet) = (IF TickerKeys THEN {TickFeed} ELSE {}) \cup
                           (IF book THEN {BookFeed} ELSE {}) \cup bar_resync_subscriptions
    BY ReplayOf
  <1>2. CASE f = TickFeed /\ subs
    BY <1>1, <1>2 DEF TickerKeys
  <1>3. CASE f = BookFeed /\ book
    BY <1>1, <1>3
  <1>4. ASSUME NEW b \in Registered, Feed(b) = f PROVE f \in bar_resync_subscriptions
    <2>1. b \in BarTypes /\ b \in Holders
      BY RegisteredBars DEF IntentTypes, Holders
    <2>2. f = <<"bars", bar_type_to_rithmic(b)>>
      BY <1>4, <2>1, HolderFeed
    <2> QED BY <2>2 DEF bar_resync_subscriptions
  <1> QED BY <1>1, <1>2, <1>3, <1>4, Zenon DEF Claims

(* A command. *)
LEMMA ClaimsCommand ==
  ASSUME IntentTypes, IntentTypes', OneCall, ClaimsServed, Command
  PROVE  ClaimsServed'
  <1>1. PICK h \in Holders, op \in {"sub", "unsub"} : Starts(h, op)
    BY CommandStarts
  <1>2. /\ UNCHANGED <<client, joined, replay, why>> /\ cloud \subseteq cloud'
        /\ \A o \in ops : Group(o.h) \notin cloud' => o \in ops'
    BY <1>1 DEF Starts
  <1> SUFFICES ASSUME Synced, NEW f \in Feeds, Claims(f)', f[1] \notin cloud'
               PROVE  f \in joined \/ f \in ToCome \/ Leaving(f)'
    BY <1>2 DEF ClaimsServed, Synced, ToCome
  <1>3. f \in joined \/ f \in ToCome \/ Leaving(f)
    BY <1>2, CommandClaims DEF ClaimsServed
  <1>4. Leaving(f) => Leaving(f)'
    <2> SUFFICES ASSUME NEW o \in ops, o.op = "unsub", o.st = "ok", Feed(o.h) = f PROVE o \in ops'
      BY DEF Leaving
    <2>1. f[1] = Group(o.h)
      BY OpFeeds DEF IntentTypes
    <2> QED BY <1>2, <2>1
  <1> QED BY <1>3, <1>4

(* A call is answered: what it left is being left. *)
LEMMA ClaimsAnswer ==
  ASSUME IntentTypes, ClaimsServed, NEW o \in ops, NEW n \in OpRecs, AnsweredAs(o, n)
  PROVE  ClaimsServed'
  <1>1. /\ UNCHANGED <<client, replay, why, cloud, subs, book, types>> /\ o.st = "call"
        /\ n.h = o.h /\ n.op = o.op /\ n.st \in {"ok", "err"} /\ ops' = (ops \ {o}) \cup {n}
        /\ n.st = "err" => joined' = joined
        /\ n.st = "ok" /\ o.op = "sub" => joined' = joined \cup {Feed(o.h)}
        /\ n.st = "ok" /\ o.op = "unsub" => joined' = joined \ {Feed(o.h)}
    BY DEF AnsweredAs
  <1>2. o.op \in {"sub", "unsub"}
    BY OpFeeds DEF IntentTypes
  <1> SUFFICES ASSUME Synced, NEW f \in Feeds, Claims(f), f[1] \notin cloud
               PROVE  f \in joined' \/ f \in ToCome \/ Leaving(f)'
    BY <1>1, SameClaims DEF ClaimsServed, Synced, ToCome
  <1>3. f \in joined \/ f \in ToCome \/ Leaving(f)
    BY DEF ClaimsServed
  <1>4. Leaving(f) => Leaving(f)'
    BY <1>1 DEF Leaving
  <1>5. f \in joined => f \in joined' \/ Leaving(f)'
    <2>1. CASE n.st = "ok" /\ o.op = "unsub" /\ Feed(o.h) = f
      BY <1>1, <2>1 DEF Leaving
    <2>2. CASE ~ (n.st = "ok" /\ o.op = "unsub" /\ Feed(o.h) = f)
      BY <1>1, <1>2, <2>2
    <2> QED BY <2>1, <2>2
  <1> QED BY <1>3, <1>4, <1>5

(* An outcome: what it adds was joined, what it brings back still is. *)
LEMMA ClaimsOutcome ==
  ASSUME IntentTypes, IntentTypes', Phases, SubbedIsJoined, BarsInv, ClaimsServed,
         NEW o \in ops, Outcome(o)
  PROVE  ClaimsServed'
  <1>1. /\ UNCHANGED <<client, joined, replay, why, cloud>> /\ ops' = ops \ {o}
        /\ o.st \in {"ok", "err"}
    BY OutcomeEnds DEF Ends
  <1>2. Feed(o.h) \in Feeds /\ Feed(o.h)[1] = Group(o.h) /\ o.h \in Holders
    BY OpFeeds DEF IntentTypes
  <1> SUFFICES ASSUME Synced, NEW f \in Feeds, Claims(f)', f[1] \notin cloud
               PROVE  f \in joined \/ f \in ToCome \/ Leaving(f)'
    BY <1>1 DEF ClaimsServed, Synced, ToCome
  <1>3. /\ \/ Claims(f)
           \/ Adds(o) /\ Feed(o.h) = f
           \/ o.h \in BarTypes /\ MayReturn(o) /\ Feed(o.h) = f
        /\ ~ (o.op = "unsub" /\ o.st = "ok" /\ Feed(o.h) = f)
    BY OutcomeClaims
  <1>4. CASE Claims(f)
    <2>1. f \in joined \/ f \in ToCome \/ Leaving(f)
      BY <1>4 DEF ClaimsServed
    <2>2. Leaving(f) => Leaving(f)'
      BY <1>1, <1>3 DEF Leaving
    <2> QED BY <2>1, <2>2
  <1>5. CASE Adds(o) /\ Feed(o.h) = f
    <2>1. client \in {"wired", "on"}
      BY DEF Phases, Synced
    <2>2. Subbed(f)
      BY <1>5 DEF Subbed, Adds
    <2> QED BY <2>1, <2>2 DEF SubbedIsJoined
  <1>6. CASE o.h \in BarTypes /\ MayReturn(o) /\ Feed(o.h) = f
    <2>1. f[1] = "bars" /\ o \in BarOps
      BY <1>2, <1>6, HolderGroup DEF BarOps
    <2> QED BY <1>6, <2>1 DEF BarsInv, BackJoined
  <1> QED BY <1>3, <1>4, <1>5, <1>6

(* A connect replays every claim; a gap does not lose one. *)
LEMMA ClaimsSession ==
  ASSUME IntentTypes, IntentTypes', Phases, ClaimsServed, Session
  PROVE  ClaimsServed'
  <1>1. UNCHANGED <<intents, subs, book, types, ops>> /\ cloud \subseteq cloud'
    BY SessionLeaves, CloudUnsubsFact, Zenon
  <1>2. \A f : (Claims(f)' <=> Claims(f)) /\ (Leaving(f)' <=> Leaving(f))
    BY <1>1, SameClaims DEF Leaving
  <1>3. ASSUME ~ Synced' PROVE ClaimsServed'
    BY <1>3 DEF ClaimsServed
  <1>4. ASSUME Synced' => Synced, joined \subseteq joined',
               \A f \in ToCome : f \in joined' \/ f \in ToCome'
        PROVE  ClaimsServed'
    BY <1>1, <1>2, <1>4 DEF ClaimsServed
  <1>5. CASE _connect
    <2>1. why' = "connect" /\ replay' = ReplaySet
      BY <1>5, Zenon DEF _connect, ReplayFor
    <2>2. ToCome' = Elems(ReplaySet)
      BY <2>1 DEF ToCome, Elems
    <2>3. \A f \in Feeds : Claims(f) => f \in ToCome'
      BY <2>2, ClaimsReplayed
    <2> QED BY <1>2, <2>3 DEF ClaimsServed
  <1>6. CASE _resync_ticker_subscription
    <2>1. why = "none" /\ client = "on" /\ UNCHANGED <<client, joined>>
      BY <1>6 DEF _resync_ticker_subscription, ReplayFor
    <2> QED BY <1>4, <2>1 DEF Synced, ToCome
  <1>7. CASE ensure_connected
    <2>1. client' \in {"wired", "off"} /\ why' = why /\ client = "off"
      BY <1>7 DEF ensure_connected
    <2> QED BY <1>3, <2>1 DEF Phases, Synced
  <1>8. CASE replay_subscription_intent
    <2>1. why # "none" /\ replay # <<>> /\ replay \in Seq(Feeds)
      BY <1>8 DEF replay_subscription_intent, IntentTypes
    <2>2. CASE joined' = joined \cup {Head(replay)} /\ replay' = Tail(replay) /\ UNCHANGED <<why, client>>
      <3>1. ASSUME NEW i \in DOMAIN replay
            PROVE  replay[i] = Head(replay) \/ \E j \in DOMAIN replay' : replay[i] = replay'[j]
        <4>1. CASE i = 1
          BY <2>1, <4>1
        <4>2. CASE i # 1
          <5>1. i - 1 \in DOMAIN replay' /\ replay'[i - 1] = replay[i]
            BY <2>1, <2>2, <3>1, <4>2
          <5> QED BY <5>1
        <4> QED BY <4>1, <4>2
      <3>2. \A f \in ToCome : f \in joined' \/ f \in ToCome'
        BY <2>2, <3>1 DEF ToCome
      <3> QED BY <1>4, <2>2, <3>2 DEF Synced
    <2>3. CASE why' = "none" /\ joined' = joined /\ client' = IF why = "connect" THEN "off" ELSE client
      <3>1. CASE why = "connect"
        BY <1>3, <2>3, <3>1 DEF Synced
      <3>2. CASE why = "gap"
        BY <1>4, <2>3, <3>2 DEF Synced, ToCome
      <3> QED BY <2>1, <3>1, <3>2 DEF IntentTypes
    <2> QED BY <1>8, <2>2, <2>3, Zenon DEF replay_subscription_intent
  <1>9. CASE Connected
    <2>1. why = "connect" /\ replay = <<>> /\ joined' = joined
      BY <1>9 DEF Connected
    <2>2. ToCome = {}
      BY <2>1 DEF ToCome
    <2> QED BY <1>4, <2>1, <2>2 DEF Synced
  <1>10. CASE Resynced \/ reconcile_starts_poller \/ _history_poll_loop
    <2>1. client' = client /\ joined' = joined /\ (UNCHANGED <<why, replay>> \/ (why = "gap" /\ why' = "none"))
      BY <1>10 DEF Resynced, reconcile_starts_poller, _history_poll_loop
    <2> QED BY <1>4, <2>1 DEF Synced, ToCome
  <1>11. CASE _disconnect
    <2>1. client' = "leaving" /\ why' = "none"
      BY <1>11 DEF _disconnect
    <2> QED BY <1>3, <2>1 DEF Synced
  <1>12. CASE SessionDisconnects
    <2>1. client' = "off" /\ why' = why /\ client = "leaving"
      BY <1>12 DEF SessionDisconnects
    <2> QED BY <1>3, <2>1 DEF Phases, Synced
  <1> QED BY <1>5, <1>6, <1>7, <1>8, <1>9, <1>10, <1>11, <1>12 DEF Session

(* Every step: a claim is joined, about to be replayed, or being left. *)
LEMMA ClaimsStep ==
  ASSUME CallInv, IntentTypes', SubbedIsJoined, BarsInv, ClaimsServed, IntentsNext
  PROVE  ClaimsServed'
  <1>1. IntentTypes /\ OneCall /\ Phases
    BY DEF CallInv
  <1>2. ASSUME NEW o \in ops, VenueCall(o) PROVE ClaimsServed'
    BY <1>1, <1>2, VenueAnswers, ClaimsAnswer
  <1>3. ASSUME NEW o \in ops, Outcome(o) PROVE ClaimsServed'
    BY <1>1, <1>3, ClaimsOutcome
  <1> QED BY <1>1, <1>2, <1>3, ClaimsCommand, ClaimsSession DEF IntentsNext, Session

(* The invariant holds initially. *)
LEMMA IntentsInitInv == ASSUME IntentsInit PROVE IntentsInv
  <1>1. Registered = {} /\ ops = {} /\ replay = <<>> /\ cloud = {} /\ joined = {}
    BY DEF IntentsInit, Registered
  <1>2. IntentTypes
    BY DEF IntentsInit, IntentTypes, Periods
  <1>3. Phases /\ OneCall /\ Alone /\ LeftIsLeft /\ SubbedIsJoined
    BY DEF IntentsInit, Phases, OneCall, Alone, LeftIsLeft, SubbedIsJoined, Subbed
  <1>4. ~ Synced
    BY DEF IntentsInit, Synced
  <1>5. ClaimsServed
    BY <1>4 DEF ClaimsServed
  <1>6. TickInv
    <2>1. TickOps = {} /\ intents = {} /\ ~ subs
      BY <1>1 DEF TickOps, IntentsInit
    <2> QED BY <2>1, Zenon DEF TickInv, TickHolds
  <1>7. BarsInv
    <2>1. BarOps = {} /\ client = "off"
      BY <1>1 DEF BarOps, IntentsInit
    <2> QED BY <1>1, <2>1 DEF BarsInv, KeysFit, LeavingBars, BackJoined, BarsPolled
  <1> QED BY <1>2, <1>3, <1>5, <1>6, <1>7 DEF IntentsInv

(* Every step keeps the invariant. *)
LEMMA IntentsStepInv == ASSUME IntentsInv, [IntentsNext]_dataVars PROVE IntentsInv'
  <1>1. CallInv /\ LeftIsLeft /\ SubbedIsJoined /\ ClaimsServed /\ TickInv /\ BarsInv
    BY DEF IntentsInv, CallInv
  <1>2. CASE IntentsNext
    <2>1. IntentTypes' /\ Phases' /\ OneCall' /\ Alone'
      BY <1>1, <1>2, TypesStep, PhasesStep, AloneStep DEF CallInv
    <2>2. LeftIsLeft' /\ SubbedIsJoined'
      BY <1>1, <1>2, JoinStep
    <2>3. ClaimsServed'
      BY <1>1, <1>2, <2>1, ClaimsStep
    <2>4. TickInv'
      BY <1>1, <1>2, TickStep
    <2>5. BarsInv'
      BY <1>1, <1>2, BarsStep
    <2> QED BY <2>1, <2>2, <2>3, <2>4, <2>5 DEF IntentsInv
  <1>3. CASE UNCHANGED dataVars
    <2>1. /\ UNCHANGED <<client, intents, subs, book, types, joined, ops, replay, why, hist, cloud, early>>
          /\ Registered' = Registered /\ TickOps' = TickOps /\ BarOps' = BarOps
      BY <1>3 DEF dataVars, Registered, TickOps, BarOps
    <2>2. IntentTypes' /\ Phases' /\ OneCall' /\ Alone'
      BY <1>1, <2>1 DEF CallInv, IntentTypes, Phases, OneCall, Alone
    <2>3. LeftIsLeft' /\ SubbedIsJoined'
      BY <1>1, <2>1 DEF LeftIsLeft, SubbedIsJoined, Subbed
    <2>4. ClaimsServed'
      BY <1>1, <2>1, SameClaims DEF ClaimsServed, Synced, ToCome, Leaving
    <2>5. TickInv'
      BY <1>1, <2>1, TickSame
    <2>6. BarsInv'
      BY <1>1, <2>1 DEF BarsInv, KeysFit, LeavingBars, BackJoined, BarsPolled, Synced, MayReturn, Returns
    <2> QED BY <2>2, <2>3, <2>4, <2>5, <2>6 DEF IntentsInv
  <1> QED BY <1>2, <1>3

(* With nothing under way, a claim is joined. *)
LEMMA QuietClaims ==
  ASSUME IntentsInv, Quiet, NEW f \in Feeds, Claims(f), f[1] \notin cloud
  PROVE  f \in joined
  <1>1. Synced /\ ToCome = {} /\ ~ Leaving(f)
    BY DEF Quiet, Synced, ToCome, Leaving
  <1> QED BY <1>1 DEF IntentsInv, ClaimsServed

(* The invariant at rest. *)
LEMMA ServedInv == ASSUME IntentsInv PROVE HeldIsServed
  <1> SUFFICES ASSUME Quiet, NEW h \in Holders, Held(h), Group(h) \notin cloud
               PROVE  /\ Feed(h) \in joined
                      /\ Group(h) = "bars" => /\ hist # "none"
                                              /\ \A p \in bar_wire_period_keys(h) : h \in types[p]
    BY DEF HeldIsServed
  <1>1. /\ Feed(h) \in Feeds /\ Feed(h)[1] = Group(h) /\ Group(h) \in Groups
        /\ Group(h) = "tick" => Feed(h) = TickFeed
        /\ Group(h) = "book" => Feed(h) = BookFeed
        /\ Group(h) = "bars" => h \in BarTypes
    BY HolderGroup, HolderFeed
  <1>2. ops = {} /\ client = "on"
    BY DEF Quiet
  <1>3. CASE Group(h) = "tick"
    <2>1. h \in intents
      BY <1>3 DEF Held
    <2>2. subs
      <3>1. TickOps = {} /\ TickHolds
        BY <1>2, <1>3 DEF TickOps, IntentsInv, TickInv
      <3> QED BY <2>1, <3>1, Zenon DEF TickHolds
    <2>3. Claims(Feed(h))
      BY <1>1, <1>3, <2>2 DEF Claims
    <2> QED BY <1>1, <1>3, <2>3, QuietClaims
  <1>4. CASE Group(h) = "book"
    <2>1. book
      BY <1>4 DEF Held
    <2>2. Claims(Feed(h))
      BY <1>1, <1>4, <2>1 DEF Claims
    <2> QED BY <1>1, <1>4, <2>2, QuietClaims
  <1>5. CASE Group(h) = "bars"
    <2>1. h \in Registered
      BY <1>5 DEF Held
    <2>2. Claims(Feed(h))
      BY <2>1 DEF Claims
    <2>3. KeysFit /\ BarsPolled
      BY <1>5 DEF IntentsInv, BarsInv
    <2>4. hist # "none"
      BY <1>2, <2>1, <2>3 DEF BarsPolled
    <2>5. \A p \in bar_wire_period_keys(h) : h \in types[p]
      BY <1>1, <1>5, <2>1, <2>3, PeriodKeys DEF KeysFit
    <2> QED BY <1>1, <2>2, <2>4, <2>5, QuietClaims
  <1> QED BY <1>1, <1>3, <1>4, <1>5 DEF Groups

(* A connected client with nothing under way is subscribed at the venue to every feed it
   remembers an intent for, after any failed calls, partial replays, gaps and reconnects. *)
THEOREM IntentsAreServed == IntentsSpec => []HeldIsServed
  <1>1. IntentsInit => IntentsInv
    BY IntentsInitInv
  <1>2. IntentsInv /\ [IntentsNext]_dataVars => IntentsInv'
    BY IntentsStepInv
  <1>3. IntentsInv => HeldIsServed
    BY ServedInv
  <1> QED BY <1>1, <1>2, <1>3, PTL DEF IntentsSpec

-----------------------------------------------------------------------------
\* What no intent asks for

\* Bar types whose wire periods overlap are of one feed.
Separate == \A a, b \in BarTypes :
              bar_wire_period_keys(a) \cap bar_wire_period_keys(b) # {} =>
                bar_type_to_rithmic(a) = bar_type_to_rithmic(b)

(* A command: the feed of a type that leaves is kept by a type of the same feed, or its call
   is made. *)
LEMMA GhostCommand ==
  ASSUME Separate, IntentTypes, IntentTypes', Phases, OneCall, BarsInv, GhostInv, Command
  PROVE  GhostInv'
  <1>1. PICK h \in Holders, op \in {"sub", "unsub"} : Starts(h, op)
    BY CommandStarts
  <1>2. /\ UNCHANGED <<client, joined, replay, why>> /\ cloud \subseteq cloud' /\ (early' <=> early)
        /\ \A o \in ops : Group(o.h) \notin cloud' => o \in ops'
    BY <1>1 DEF Starts
  <1>3. \A o \in ops : /\ o.h \in Holders /\ Feed(o.h)[1] = Group(o.h)
    BY OpFeeds DEF IntentTypes
  <1>4. ASSUME NEW f \in Feeds, f[1] \notin cloud', Claims(f)
        PROVE  \/ Claims(f)' \/ Returning(f)'
    <2> SUFFICES ASSUME NEW b \in BarTypes, _unsubscribe_bars(b), f[1] = "bars"
                 PROVE  Claims(f)' \/ Returning(f)'
      BY <1>4, CommandClaims
    <2>1. KeysFit /\ types \in [Periods -> SUBSET BarTypes]
      BY <1>2, <1>4 DEF BarsInv, IntentTypes
    <2>2. types' = [p \in Periods |-> IF p \in bar_wire_period_keys(b) THEN types[p] \ {b} ELSE types[p]]
      BY Zenon DEF _unsubscribe_bars
    <2>3. Registered' = Registered \ {b} /\ \A p \in Periods : types'[p] = types[p] \ {b}
      BY <2>1, <2>2, BarUnregistered
    <2>4. PICK c \in Registered : Feed(c) = f
      BY <1>4, <2>1, ClaimsByGroup
    <2>5. CASE c # b
      BY <2>3, <2>4, <2>5 DEF Claims
    <2>6. CASE c = b /\ \E p \in bar_wire_period_keys(b) : types'[p] # {}
      <3>1. PICK p \in bar_wire_period_keys(b) : \E d : d \in types'[p]
        BY <2>6
      <3>6. PICK d : d \in types'[p]
        BY <3>1
      <3>2. p \in Periods /\ d \in types[p] /\ d # b
        BY <2>3, <3>1, <3>6, PeriodKeys
      <3>3. d \in Registered /\ d \in BarTypes /\ p \in bar_wire_period_keys(d)
        BY <2>1, <3>2, RegisteredBars DEF KeysFit
      <3>4. bar_type_to_rithmic(d) = bar_type_to_rithmic(b) /\ d \in Holders /\ b \in Holders
        BY <3>1, <3>3 DEF Separate, Holders
      <3>5. Feed(d) = f
        BY <2>4, <2>6, <3>3, <3>4, HolderFeed
      <3> QED BY <2>3, <3>2, <3>3, <3>5 DEF Claims
    <2>7. CASE c = b /\ ~ \E p \in bar_wire_period_keys(b) : types'[p] # {}
      <3> DEFINE n == Op(b, "unsub", types, TRUE)
      <3>1. ops' = ops \cup {n}
        BY <2>7, Zenon DEF _unsubscribe_bars, Calls
      <3>2. n.h = b /\ n.op = "unsub" /\ n.saved = types /\ n.st = "call"
        BY DEF Op
      <3> HIDE DEF n
      <3>3. b \in types[bar_type_to_rithmic(b)]
        BY <2>1, <2>7, PeriodKeys DEF KeysFit
      <3>4. MayReturn(n)
        BY <3>2, <3>3 DEF MayReturn, Returns
      <3> QED BY <2>4, <2>7, <3>1, <3>2, <3>4 DEF Returning, MayReturn, Returns
    <2> QED BY <2>5, <2>6, <2>7
  <1>5. ASSUME NEW f \in Feeds, f[1] \notin cloud', Subbed(f) \/ Returning(f)
        PROVE  Subbed(f)' \/ Returning(f)'
    <2>1. CASE Subbed(f)
      <3>1. PICK o \in ops : o.op = "sub" /\ o.st = "ok" /\ Feed(o.h) = f
        BY <2>1 DEF Subbed
      <3>2. o \in ops'
        BY <1>2, <1>3, <1>5, <3>1
      <3> QED BY <3>1, <3>2 DEF Subbed
    <2>2. CASE Returning(f)
      <3>1. PICK o \in ops : o.h \in BarTypes /\ MayReturn(o) /\ Feed(o.h) = f
        BY <2>2 DEF Returning
      <3>2. o \in ops'
        BY <1>2, <1>3, <1>5, <3>1
      <3> QED BY <3>1, <3>2 DEF Returning, MayReturn, Returns
    <2> QED BY <1>5, <2>1, <2>2
  <1>6. JoinedClaimed'
    <2> SUFFICES ASSUME NEW f \in joined, f[1] \notin cloud', ~ (f = TickFeed /\ early)
                 PROVE  Claims(f)' \/ Subbed(f)' \/ Returning(f)'
      BY <1>2, Zenon DEF JoinedClaimed
    <2>1. Claims(f) \/ Subbed(f) \/ Returning(f)
      BY <1>2 DEF GhostInv, JoinedClaimed
    <2>2. f \in Feeds
      BY DEF IntentTypes
    <2> QED BY <1>4, <1>5, <2>1, <2>2
  <1>7. ReplayClaimed'
    <2> SUFFICES ASSUME NEW i \in DOMAIN replay, NEW f, f = replay[i], f[1] \notin cloud',
                        ~ (f = TickFeed /\ early)
                 PROVE  Claims(f)'
      BY <1>2, Zenon DEF ReplayClaimed
    <2>1. f \in Feeds /\ why # "none"
      BY DEF IntentTypes, Phases
    <2>2. Claims(f)
      BY <1>2 DEF GhostInv, ReplayClaimed
    <2>3. ASSUME NEW b \in BarTypes, _unsubscribe_bars(b), f[1] = "bars" PROVE FALSE
      <3>1. Starts(b, "unsub") /\ Group(b) = "bars"
        BY <2>3, UnsubBarsStarts, HolderGroup DEF Holders
      <3> QED BY <2>1, <2>3, <3>1 DEF Starts
    <2> QED BY <2>1, <2>2, <2>3, CommandClaims
  <1> QED BY <1>6, <1>7 DEF GhostInv

(* A call is answered: what it joins was asked for, what it leaves is no longer joined. *)
LEMMA GhostAnswer ==
  ASSUME IntentTypes, GhostInv, NEW o \in ops, NEW n \in OpRecs, AnsweredAs(o, n)
  PROVE  GhostInv'
  <1>1. /\ UNCHANGED <<replay, cloud, subs, book, types>> /\ (early' <=> early) /\ o.st = "call"
        /\ n.h = o.h /\ n.op = o.op /\ n.saved = o.saved
        /\ n.st \in {"ok", "err"} /\ ops' = (ops \ {o}) \cup {n}
        /\ n.st = "err" => joined' = joined
        /\ n.st = "ok" /\ o.op = "sub" => joined' = joined \cup {Feed(o.h)}
        /\ n.st = "ok" /\ o.op = "unsub" => joined' = joined \ {Feed(o.h)}
    BY DEF AnsweredAs
  <1>2. o.op \in {"sub", "unsub"}
    BY OpFeeds DEF IntentTypes
  <1>3. \A f : Claims(f)' <=> Claims(f)
    BY <1>1, SameClaims
  <1>4. ReplayClaimed'
    BY <1>1, <1>3 DEF GhostInv, ReplayClaimed
  <1>5. JoinedClaimed'
    <2> SUFFICES ASSUME NEW f \in joined', f[1] \notin cloud, ~ (f = TickFeed /\ early)
                 PROVE  Claims(f) \/ Subbed(f)' \/ Returning(f)'
      BY <1>1, <1>3, Zenon DEF JoinedClaimed
    <2>1. CASE f \notin joined
      <3>1. n.st = "ok" /\ o.op = "sub" /\ f = Feed(o.h)
        BY <1>1, <1>2, <2>1
      <3> QED BY <1>1, <3>1 DEF Subbed
    <2>2. CASE f \in joined
      <3>1. Claims(f) \/ Subbed(f) \/ Returning(f)
        BY <2>2 DEF GhostInv, JoinedClaimed
      <3>2. Subbed(f) => Subbed(f)'
        BY <1>1 DEF Subbed
      <3>3. ASSUME NEW r \in ops, r.h \in BarTypes, MayReturn(r), Feed(r.h) = f
            PROVE  Returning(f)'
        <4>1. CASE r # o
          <5>1. r \in ops'
            BY <1>1, <4>1
          <5> QED BY <3>3, <5>1 DEF Returning, MayReturn, Returns
        <4>2. CASE r = o
          <5>1. n.st = "err" /\ n \in ops'
            BY <1>1, <3>3, <4>2 DEF MayReturn
          <5>2. MayReturn(n)
            BY <1>1, <3>3, <4>2, <5>1 DEF MayReturn, Returns
          <5> QED BY <1>1, <3>3, <4>2, <5>1, <5>2 DEF Returning, MayReturn, Returns
        <4> QED BY <4>1, <4>2
      <3> QED BY <3>1, <3>2, <3>3 DEF Returning
    <2> QED BY <2>1, <2>2
  <1> QED BY <1>4, <1>5 DEF GhostInv

(* An outcome: a claim goes only with a feed that was left. *)
LEMMA GhostOutcome ==
  ASSUME IntentTypes, IntentTypes', Phases, Alone, LeftIsLeft, BarsInv, GhostInv,
         NEW o \in ops, Outcome(o)
  PROVE  GhostInv'
  <1>1. /\ UNCHANGED <<joined, replay, cloud>> /\ (early' <=> early) /\ ops' = ops \ {o}
    BY OutcomeEnds DEF Ends
  <1>2. Feed(o.h)[1] = Group(o.h)
    BY OpFeeds DEF IntentTypes
  <1>3. ASSUME NEW f \in Feeds, f[1] \notin cloud
        PROVE  /\ Claims(f) => Claims(f)' \/ (o.op = "unsub" /\ o.st = "ok" /\ Feed(o.h) = f)
               /\ Adds(o) /\ Feed(o.h) = f => Claims(f)'
               /\ o.h \in BarTypes /\ MayReturn(o) /\ Feed(o.h) = f => Claims(f)'
    BY <1>3, OutcomeClaims
  <1>4. JoinedClaimed'
    <2> SUFFICES ASSUME NEW f \in joined, f[1] \notin cloud, ~ (f = TickFeed /\ early)
                 PROVE  Claims(f)' \/ Subbed(f)' \/ Returning(f)'
      BY <1>1, Zenon DEF JoinedClaimed
    <2>1. f \in Feeds /\ (Claims(f) \/ Subbed(f) \/ Returning(f))
      BY DEF IntentTypes, GhostInv, JoinedClaimed
    <2>2. CASE Claims(f)
      <3>1. ~ (o.op = "unsub" /\ o.st = "ok" /\ Feed(o.h) = f)
        BY <1>2 DEF LeftIsLeft
      <3> QED BY <1>3, <2>1, <2>2, <3>1
    <2>3. CASE Subbed(f)
      <3>1. PICK r \in ops : r.op = "sub" /\ r.st = "ok" /\ Feed(r.h) = f
        BY <2>3 DEF Subbed
      <3>2. CASE r = o
        BY <1>3, <2>1, <3>1, <3>2 DEF Adds
      <3>3. CASE r # o
        BY <1>1, <3>1, <3>3 DEF Subbed
      <3> QED BY <3>2, <3>3
    <2>4. CASE Returning(f)
      <3>1. PICK r \in ops : r.h \in BarTypes /\ MayReturn(r) /\ Feed(r.h) = f
        BY <2>4 DEF Returning
      <3>2. CASE r = o
        BY <1>3, <2>1, <3>1, <3>2
      <3>3. CASE r # o
        BY <1>1, <3>1, <3>3 DEF Returning, MayReturn, Returns
      <3> QED BY <3>2, <3>3
    <2> QED BY <2>1, <2>2, <2>3, <2>4
  <1>5. ReplayClaimed'
    <2> SUFFICES ASSUME NEW i \in DOMAIN replay, NEW f, f = replay[i], f[1] \notin cloud,
                        ~ (f = TickFeed /\ early)
                 PROVE  Claims(f)'
      BY <1>1, Zenon DEF ReplayClaimed
    <2>1. f \in Feeds /\ why # "none" /\ Claims(f)
      BY DEF IntentTypes, Phases, GhostInv, ReplayClaimed
    <2>2. ~ (o.op = "unsub" /\ Feed(o.h) = f)
      BY <1>2, <2>1 DEF Alone
    <2> QED BY <1>3, <2>1, <2>2
  <1> QED BY <1>4, <1>5 DEF GhostInv

(* A replay is of claimed feeds, and of tick intents whose calls are under way. *)
LEMMA ReplayedClaims ==
  ASSUME IntentTypes, TickInv, NEW f \in Elems(ReplaySet), f[1] \notin cloud,
         ~ (f = TickFeed /\ \E o \in Under("tick") : o.op = "sub")
  PROVE  Claims(f)
  <1>1. f \in (IF TickerKeys THEN {TickFeed} ELSE {}) \cup
              (IF book THEN {BookFeed} ELSE {}) \cup bar_resync_subscriptions
    BY ReplayOf
  <1>2. CASE f = TickFeed /\ TickerKeys
    <2>1. ~ \E o \in TickOps : o.op = "sub"
      <3>1. \A o \in TickOps : o \in Under("tick")
        BY TickGroup DEF TickOps, Under, IntentTypes
      <3> QED BY <1>2, <3>1
    <2>2. TickHolds
      BY <1>2 DEF TickInv, TickFeed
    <2>3. subs
      <3>1. CASE intents # {}
        BY <2>1, <2>2, <3>1, Zenon DEF TickHolds
      <3> QED BY <1>2, <3>1 DEF TickerKeys
    <2> QED BY <1>2, <2>3 DEF Claims
  <1>3. CASE f = BookFeed /\ book
    BY <1>3 DEF Claims
  <1>4. CASE f \in bar_resync_subscriptions
    <2>1. PICK b \in Registered : f = <<"bars", bar_type_to_rithmic(b)>>
      BY <1>4 DEF bar_resync_subscriptions
    <2>2. b \in Holders /\ b \in BarTypes
      BY RegisteredBars DEF IntentTypes, Holders
    <2>3. Feed(b) = f
      BY <2>1, <2>2, HolderFeed
    <2> QED BY <2>3 DEF Claims
  <1> QED BY <1>1, <1>2, <1>3, <1>4, Zenon

(* A replay joins what is claimed, or what a tick call under way asks for. *)
LEMMA GhostSession ==
  ASSUME IntentTypes, IntentTypes', TickInv, GhostInv, Session
  PROVE  GhostInv'
  <1>1. UNCHANGED <<subs, book, types, ops>> /\ cloud \subseteq cloud'
    BY SessionLeaves, CloudUnsubsFact, Zenon
  <1>2. \A f : /\ Claims(f)' <=> Claims(f)
               /\ Subbed(f)' <=> Subbed(f)
               /\ Returning(f)' <=> Returning(f)
    BY <1>1, SameClaims DEF Subbed, Returning, MayReturn, Returns
  <1>3. ASSUME joined' \subseteq joined, early => early' PROVE JoinedClaimed'
    BY <1>1, <1>2, <1>3 DEF GhostInv, JoinedClaimed
  <1>4. ASSUME replay' = replay \/ replay' = <<>>, early => early' PROVE ReplayClaimed'
    BY <1>1, <1>2, <1>4 DEF GhostInv, ReplayClaimed
  <1>5. CASE Begins
    <2>1. replay' = ReplaySet /\ joined' = joined
          /\ (early' <=> (early \/ \E o \in Under("tick") : o.op = "sub"))
      BY <1>5, SessionLeaves, Zenon
    <2>2. ReplayClaimed'
      <3> SUFFICES ASSUME NEW i \in DOMAIN ReplaySet, NEW f, f = ReplaySet[i], f[1] \notin cloud',
                          ~ (f = TickFeed /\ early')
                   PROVE  Claims(f)'
        BY <2>1, Zenon DEF ReplayClaimed
      <3>1. f \in Elems(ReplaySet)
        BY DEF Elems
      <3>2. ~ (f = TickFeed /\ \E o \in Under("tick") : o.op = "sub")
        BY <2>1
      <3>3. f[1] \notin cloud
        BY <1>1
      <3> QED BY <1>2, <3>1, <3>2, <3>3, ReplayedClaims
    <2> QED BY <1>3, <2>1, <2>2 DEF GhostInv
  <1>6. CASE replay_subscription_intent
    <2>1. replay # <<>> /\ replay \in Seq(Feeds) /\ UNCHANGED <<cloud, early>>
      BY <1>6 DEF replay_subscription_intent, IntentTypes
    <2>2. CASE joined' = joined \cup {Head(replay)} /\ replay' = Tail(replay)
      <3>1. 1 \in DOMAIN replay /\ Head(replay) = replay[1]
        BY <2>1
      <3>2. JoinedClaimed'
        BY <1>2, <2>1, <2>2, <3>1 DEF GhostInv, JoinedClaimed, ReplayClaimed
      <3>3. \A i \in DOMAIN replay' : \E j \in DOMAIN replay : replay'[i] = replay[j]
        <4> SUFFICES ASSUME NEW i \in DOMAIN replay' PROVE \E j \in DOMAIN replay : replay'[i] = replay[j]
          OBVIOUS
        <4>1. i + 1 \in DOMAIN replay /\ replay'[i] = replay[i + 1]
          BY <2>1, <2>2
        <4> QED BY <4>1
      <3>4. ReplayClaimed'
        <4> SUFFICES ASSUME NEW i \in DOMAIN replay', NEW f, f = replay'[i], f[1] \notin cloud,
                            ~ (f = TickFeed /\ early)
                     PROVE  Claims(f)'
          BY <2>1, Zenon DEF ReplayClaimed
        <4> QED BY <1>2, <3>3 DEF GhostInv, ReplayClaimed
      <3> QED BY <3>2, <3>4 DEF GhostInv
    <2>3. CASE joined' = joined /\ replay' = <<>>
      BY <1>3, <1>4, <2>1, <2>3 DEF GhostInv
    <2> QED BY <1>6, <2>2, <2>3, Zenon DEF replay_subscription_intent
  <1>7. CASE ~ Begins /\ ~ replay_subscription_intent
    <2>1. (early' <=> early)
      BY <1>7, SessionLeaves
    <2>2. joined' \subseteq joined /\ (replay' = replay \/ replay' = <<>>)
      BY <1>7 DEF Session, Begins, ensure_connected, Connected, Resynced, reconcile_starts_poller,
         _disconnect, SessionDisconnects, _history_poll_loop
    <2> QED BY <1>3, <1>4, <2>1, <2>2 DEF GhostInv
  <1> QED BY <1>5, <1>6, <1>7

(* Every step keeps a reason for every feed that is joined. *)
LEMMA GhostStep ==
  ASSUME Separate, IntentsInv, IntentTypes', GhostInv, [IntentsNext]_dataVars
  PROVE  GhostInv'
  <1>1. /\ IntentTypes /\ OneCall /\ Phases /\ Alone /\ LeftIsLeft /\ TickInv /\ BarsInv
    BY DEF IntentsInv
  <1>2. CASE Command
    BY <1>1, <1>2, GhostCommand
  <1>3. ASSUME NEW o \in ops, VenueCall(o) PROVE GhostInv'
    BY <1>1, <1>3, VenueAnswers, GhostAnswer
  <1>4. ASSUME NEW o \in ops, Outcome(o) PROVE GhostInv'
    BY <1>1, <1>4, GhostOutcome
  <1>5. CASE Session
    BY <1>1, <1>5, GhostSession
  <1>6. CASE UNCHANGED dataVars
    <2>1. UNCHANGED <<subs, book, types, ops, joined, replay, cloud, early>>
      BY <1>6 DEF dataVars
    <2> QED BY <2>1, SameClaims
         DEF GhostInv, JoinedClaimed, ReplayClaimed, Subbed, Returning, MayReturn, Returns
  <1> QED BY <1>2, <1>3, <1>4, <1>5, <1>6 DEF IntentsNext, Session

(* The invariant at rest. *)
LEMMA GhostFree == ASSUME IntentsInv, GhostInv PROVE NoGhostFeed
  <1> SUFFICES ASSUME Quiet, NEW f \in joined, f[1] \notin cloud, ~ (f = TickFeed /\ early)
               PROVE  \E h \in Holders : Held(h) /\ Feed(h) = f
    BY DEF NoGhostFeed
  <1>1. ops = {} /\ f \in Feeds /\ types \in [Periods -> SUBSET BarTypes] /\ intents \subseteq Kinds
    BY DEF Quiet, IntentsInv, IntentTypes
  <1>2. Claims(f)
    BY <1>1 DEF GhostInv, JoinedClaimed, Subbed, Returning
  <1>3. CASE f[1] = "tick"
    <2>1. subs /\ f = TickFeed
      BY <1>1, <1>2, <1>3, ClaimsByGroup, FeedGroup
    <2>2. TickOps = {} /\ TickHolds
      BY <1>1, <1>3 DEF TickOps, IntentsInv, TickInv
    <2>3. PICK k \in intents : TRUE
      BY <2>1, <2>2, Zenon DEF TickHolds
    <2>4. k \in Holders /\ k \in Kinds /\ Group(k) = "tick"
      BY <1>1, <2>3, HolderGroup DEF Holders
    <2>5. Held(k) /\ Feed(k) = f
      BY <2>1, <2>3, <2>4, HolderFeed DEF Held
    <2> QED BY <2>4, <2>5
  <1>4. CASE f[1] = "book"
    <2>1. book /\ f = BookFeed
      BY <1>1, <1>2, <1>4, ClaimsByGroup, FeedGroup
    <2>2. "book" \in Holders /\ Group("book") = "book" /\ Feed("book") = BookFeed
      BY HolderGroup, HolderFeed DEF Holders
    <2>3. Held("book")
      BY <2>1, <2>2 DEF Held
    <2> QED BY <2>1, <2>2, <2>3
  <1>5. CASE f[1] = "bars"
    <2>1. PICK b \in Registered : Feed(b) = f
      BY <1>1, <1>2, <1>5, ClaimsByGroup
    <2>2. b \in Holders /\ Group(b) = "bars"
      BY <1>1, RegisteredBars, HolderGroup DEF Holders
    <2>3. Held(b)
      BY <2>1, <2>2 DEF Held
    <2> QED BY <2>1, <2>2, <2>3
  <1>6. f[1] \in {"tick", "book", "bars"}
    BY <1>1, FeedGroup DEF Groups
  <1> QED BY <1>3, <1>4, <1>5, <1>6

(* A connected client with nothing under way is subscribed to no feed that none of its intents
   asks for, when the bar types whose wire periods overlap are of one feed. *)
THEOREM NothingIsHaunted ==
  ASSUME Separate
  PROVE  IntentsSpec => []NoGhostFeed
  <1>1. IntentsInit => IntentsInv /\ GhostInv
    <2>1. ASSUME IntentsInit PROVE GhostInv
      BY <2>1 DEF IntentsInit, GhostInv, JoinedClaimed, ReplayClaimed
    <2> QED BY <2>1, IntentsInitInv
  <1>2. (IntentsInv /\ GhostInv) /\ [IntentsNext]_dataVars => (IntentsInv /\ GhostInv)'
    <2> SUFFICES ASSUME IntentsInv, GhostInv, [IntentsNext]_dataVars PROVE IntentsInv' /\ GhostInv'
      OBVIOUS
    <2>1. IntentsInv'
      BY IntentsStepInv
    <2>2. IntentTypes'
      BY <2>1 DEF IntentsInv
    <2> QED BY <2>1, <2>2, GhostStep
  <1>3. IntentsInv /\ GhostInv => NoGhostFeed
    BY GhostFree
  <1> QED BY <1>1, <1>2, <1>3, PTL DEF IntentsSpec
=============================================================================
