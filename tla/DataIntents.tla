---------------------------- MODULE DataIntents ----------------------------
(***************************************************************************)
(* The market-data client's subscriptions (data.py): the intents it         *)
(* remembers for one instrument, the venue calls that its commands make in  *)
(* worker threads, and the replay of the intents after a (re)connect and    *)
(* after a gap in a stream.                                                 *)
(*                                                                          *)
(* Nautilus runs every command as a task of its own, so commands overlap:   *)
(* a command reads the intents, its venue call runs in a thread, and it     *)
(* applies the outcome when its task continues. A holder is what one        *)
(* command names: a tick kind, the book, or an EXTERNAL bar type.           *)
(***************************************************************************)
EXTENDS Naturals, FiniteSets, Sequences, SequencesExt

CONSTANTS BarTypes,    \* of "M1" (1-MINUTE), "M60" (60-MINUTE), "H1" (1-HOUR)
          MaxOps,      \* bound: commands whose venue call is under way
          MaxCommands, \* bound: commands in a behaviour
          MaxConnects, \* bound: connects
          MaxGaps      \* bound: gap events

ASSUME DataIntentsAssumption ==
  /\ BarTypes \subseteq {"M1", "M60", "H1"}
  /\ {MaxOps, MaxCommands, MaxConnects, MaxGaps} \subseteq Nat

VARIABLES client,   \* "off" "wired" "on" "leaving"
          up,       \* the session is connected
          intents,  \* _ticker_intents[key]; empty when the key is absent
          subs,     \* key \in _subscriptions
          book,     \* key \in _book_subscriptions
          types,    \* _bar_types: per wire period, the bar types registered
          joined,   \* venue feeds this client is subscribed to
          ops,      \* commands under way: [h, op, st, saved, own]
          want,     \* holders the engine has subscribed
          replay,   \* venue calls the running replay has still to make
          why,      \* what the replay is for: "none" "connect" "gap"
          hist,     \* _history_poll_task: "none" "run" "dead"
          count,    \* commands, connects and gaps so far
          cloud,    \* history: groups with an unsubscribe that overlapped another call
          early     \* history: a replay took a tick intent whose own call was under way

dataVars == <<client, up, intents, subs, book, types, joined, ops, want, replay, why, hist,
              count, cloud, early>>
intentVars == <<intents, subs, book, types>>

Kinds   == {"trade", "quote"}
Holders == Kinds \cup {"book"} \cup BarTypes
Group(h) == IF h \in Kinds THEN "tick" ELSE IF h = "book" THEN "book" ELSE "bars"

\* (rtype, period) of the venue request: all three are minute bars.
bar_type_to_rithmic(b) == IF b = "M1" THEN 1 ELSE 60
\* The venue echoes the native period or the period in seconds.
bar_wire_period_keys(b) == {bar_type_to_rithmic(b), IF b = "M1" THEN 60 ELSE 3600}
Periods == {1, 60, 3600}
Registered == UNION {types[p] : p \in Periods}
bar_resync_subscriptions == {<<"bars", bar_type_to_rithmic(b)>> : b \in Registered}

TickFeed == <<"tick", 0>>
BookFeed == <<"book", 0>>
Feed(h) == CASE Group(h) = "tick" -> TickFeed
             [] Group(h) = "book" -> BookFeed
             [] Group(h) = "bars" -> <<"bars", bar_type_to_rithmic(h)>>

IntentsInit ==
  /\ client = "off" /\ up = FALSE /\ intents = {} /\ subs = FALSE /\ book = FALSE
  /\ types = [p \in Periods |-> {}] /\ joined = {} /\ ops = {} /\ want = {}
  /\ replay = <<>> /\ why = "none" /\ hist = "none"
  /\ count = [commands |-> 0, connects |-> 0, gaps |-> 0]
  /\ cloud = {} /\ early = FALSE

-----------------------------------------------------------------------------
\* Commands

\* own, of a subscribe: its set is still the key's; of an unsubscribe: it took an intent.
Op(h, op, saved, own) == [h |-> h, op |-> op, st |-> "call", saved |-> saved, own |-> own]
NoSaved == [p \in Periods |-> {}]
Under(g) == {o \in ops : Group(o.h) = g}

\* History: an unsubscribe, and a call or a replay in the same group, are under way together.
Clouds(h, op) ==
  IF \/ \E o \in Under(Group(h)) : op = "unsub" \/ o.op = "unsub"
     \/ op = "unsub" /\ why # "none"
  THEN cloud \cup {Group(h)} ELSE cloud

\* The engine sends a command for a holder when its own record of it changes.
Commands(h, op) ==
  /\ count.commands < MaxCommands
  /\ count' = [count EXCEPT !.commands = @ + 1]
  /\ ~\E o \in ops : o.h = h /\ o.op = op
  /\ IF op = "sub" THEN h \notin want /\ want' = want \cup {h}
                   ELSE h \in want /\ want' = want \ {h}
Calls(h, op, saved) == Cardinality(ops) < MaxOps /\ ops' = ops \cup {Op(h, op, saved, TRUE)}

_add_ticker_intent(k) ==
  /\ Commands(k, "sub")
  /\ intents' = intents \cup {k}
  /\ IF k \in intents \/ subs THEN UNCHANGED ops ELSE Calls(k, "sub", NoSaved)
  /\ cloud' = Clouds(k, "sub")
  /\ UNCHANGED <<client, up, subs, book, types, joined, replay, why, hist, early>>

\* The set object of a key that is deleted stays with the calls that still hold it.
Orphaned(S) ==
  {IF o.h \in Kinds /\ o.op = "sub" THEN [o EXCEPT !.own = FALSE] ELSE o : o \in S}

_remove_ticker_intent(k) ==
  /\ Commands(k, "unsub")
  /\ intents' = intents \ {k}
  /\ LET empties == intents = {k}
         rest == IF empties THEN Orphaned(ops) ELSE ops
     IN IF subs /\ (empties \/ k \notin intents)
        THEN /\ Cardinality(ops) < MaxOps
             /\ ops' = rest \cup {Op(k, "unsub", NoSaved, k \in intents)}
        ELSE ops' = rest
  \* The legacy fallback leaves the venue while the other kind is held.
  /\ cloud' = IF subs /\ k \notin intents /\ intents # {} THEN cloud \cup {"tick"}
              ELSE Clouds(k, "unsub")
  /\ UNCHANGED <<client, up, subs, book, types, joined, replay, why, hist, early>>

_subscribe_order_book_deltas ==
  /\ Commands("book", "sub") /\ Calls("book", "sub", NoSaved)
  /\ cloud' = Clouds("book", "sub")
  /\ UNCHANGED <<client, up, intentVars, joined, replay, why, hist, early>>
_unsubscribe_order_book_deltas ==
  /\ Commands("book", "unsub") /\ Calls("book", "unsub", NoSaved)
  /\ cloud' = Clouds("book", "unsub")
  /\ UNCHANGED <<client, up, intentVars, joined, replay, why, hist, early>>

_subscribe_bars(b) ==
  /\ Commands(b, "sub") /\ Calls(b, "sub", NoSaved) /\ cloud' = Clouds(b, "sub")
  /\ UNCHANGED <<client, up, intentVars, joined, replay, why, hist, early>>

\* Mutant: the wire period is not looked up among the other types.
_unsubscribe_bars_always(b) ==
  /\ Commands(b, "unsub")
  /\ types' = [p \in Periods |-> IF p \in bar_wire_period_keys(b) THEN types[p] \ {b}
                                                                ELSE types[p]]
  /\ Calls(b, "unsub", types)
  /\ cloud' = Clouds(b, "unsub")
  /\ UNCHANGED <<client, up, intents, subs, book, joined, replay, why, hist, early>>

_unsubscribe_bars(b) ==
  /\ Commands(b, "unsub")
  /\ types' = [p \in Periods |-> IF p \in bar_wire_period_keys(b) THEN types[p] \ {b}
                                                                ELSE types[p]]
  /\ IF \E p \in bar_wire_period_keys(b) : types'[p] # {}
     THEN UNCHANGED ops
     ELSE Calls(b, "unsub", types)
  /\ cloud' = Clouds(b, "unsub")
  /\ UNCHANGED <<client, up, intents, subs, book, joined, replay, why, hist, early>>

\* The venue call, in its thread (external). A call that fails changes nothing.
VenueCall(o) ==
  /\ o.st = "call"
  /\ \/ up /\ ops' = (ops \ {o}) \cup {[o EXCEPT !.st = "ok"]}
        /\ joined' = IF o.op = "sub" THEN joined \cup {Feed(o.h)} ELSE joined \ {Feed(o.h)}
     \/ ops' = (ops \ {o}) \cup {[o EXCEPT !.st = "err"]} /\ UNCHANGED joined
  /\ UNCHANGED <<client, up, intentVars, want, replay, why, hist, count, cloud, early>>

\* The command's task continues with the outcome.
TickerOutcome(o) ==
  /\ CASE o.op = "sub" /\ o.st = "ok"    -> subs' = TRUE /\ UNCHANGED intents
       [] o.op = "sub" /\ o.st = "err"   ->
            /\ intents' = IF o.own THEN intents \ {o.h} ELSE {}
            /\ UNCHANGED subs
       [] o.op = "unsub" /\ o.st = "ok"  -> subs' = FALSE /\ UNCHANGED intents
       [] o.op = "unsub" /\ o.st = "err" ->
            /\ intents' = IF o.own THEN {o.h} ELSE intents
            /\ UNCHANGED subs
  /\ UNCHANGED <<book, types, hist>>
\* Mutant: a leave that fails forgets the book.
BookOutcomeBlind(o) ==
  /\ book' = IF o.op = "unsub" THEN FALSE ELSE book \/ o.st = "ok"
  /\ UNCHANGED <<intents, subs, types, hist>>
BookOutcome(o) ==
  /\ book' = IF o.st = "ok" THEN o.op = "sub" ELSE book
  /\ UNCHANGED <<intents, subs, types, hist>>

_ensure_history_poll_task == hist' = IF hist = "none" THEN "run" ELSE hist

BarOutcome(o) ==
  /\ types' = CASE o.op = "sub" /\ o.st = "ok" ->
                     [p \in Periods |-> IF p \in bar_wire_period_keys(o.h)
                                        THEN types[p] \cup {o.h} ELSE types[p]]
                [] o.op = "unsub" /\ o.st = "err" ->
                     [p \in Periods |-> IF p \in bar_wire_period_keys(o.h)
                                        THEN o.saved[p] ELSE types[p]]
                [] OTHER -> types
  /\ IF o.op = "sub" /\ o.st = "ok" THEN _ensure_history_poll_task ELSE UNCHANGED hist
  /\ UNCHANGED <<intents, subs, book>>

Outcome(o) ==
  /\ o.st # "call" /\ ops' = ops \ {o}
  /\ CASE Group(o.h) = "tick" -> TickerOutcome(o)
       [] Group(o.h) = "book" -> BookOutcome(o)
       [] Group(o.h) = "bars" -> BarOutcome(o)
  /\ UNCHANGED <<client, up, joined, want, replay, why, count, cloud, early>>

-----------------------------------------------------------------------------
\* Connect, gaps, disconnect

TickerKeys == intents # {} \/ subs
ReplaySet == (IF TickerKeys THEN <<TickFeed>> ELSE <<>>) \o
             (IF book THEN <<BookFeed>> ELSE <<>>) \o SetToSeq(bar_resync_subscriptions)
CloudUnsubs == cloud \cup {Group(o.h) : o \in {p \in ops : p.op = "unsub"}}

\* ensure_connected, in a thread: it may fail, and the node tries again. Tasks whose call
\* ended before have continued: the loop runs what is ready first.
ensure_connected ==
  /\ client = "off" /\ count.connects < MaxConnects /\ \A o \in ops : o.st = "call"
  /\ count' = [count EXCEPT !.connects = @ + 1]
  /\ \/ up' = TRUE /\ client' = "wired"
     \/ UNCHANGED <<up, client>>
  /\ UNCHANGED <<intentVars, joined, ops, want, replay, why, hist, cloud, early>>

ReplayFor(reason) == /\ why = "none" /\ why' = reason /\ replay' = ReplaySet
                     /\ cloud' = CloudUnsubs
                     /\ early' = (early \/ \E o \in Under("tick") : o.op = "sub")
_connect == /\ client = "wired" /\ ReplayFor("connect")
            /\ UNCHANGED <<client, up, intentVars, joined, ops, want, hist, count>>

\* A gap event of a stream: only this client's intents are replayed.
_resync_ticker_subscription ==
  /\ client = "on" /\ count.gaps < MaxGaps /\ count' = [count EXCEPT !.gaps = @ + 1]
  /\ ReplayFor("gap")
  /\ UNCHANGED <<client, up, intentVars, joined, ops, want, hist>>

\* "[8] already exists" counts as success. Any other error ends the replay: a connect
\* fails with it, and a gap is not resynced again.
replay_subscription_intent ==
  /\ why # "none" /\ replay # <<>>
  /\ \/ up /\ joined' = joined \cup {Head(replay)} /\ replay' = Tail(replay)
        /\ UNCHANGED <<why, client>>
     \/ replay' = <<>> /\ why' = "none" /\ UNCHANGED joined
        /\ client' = IF why = "connect" THEN "off" ELSE client
  /\ UNCHANGED <<up, intentVars, ops, want, hist, count, cloud, early>>

Connected == /\ why = "connect" /\ replay = <<>> /\ why' = "none" /\ client' = "on"
             /\ IF Registered # {} THEN _ensure_history_poll_task ELSE UNCHANGED hist
             /\ UNCHANGED <<up, intentVars, joined, ops, want, replay, count, cloud, early>>
Resynced == /\ why = "gap" /\ replay = <<>> /\ why' = "none"
            /\ UNCHANGED <<client, up, intentVars, joined, ops, want, replay, hist,
                           count, cloud, early>>

\* The host restored the session and its intents; the client drops stale local state.
reconcile_starts_poller ==
  /\ client = "on" /\ Registered # {} /\ _ensure_history_poll_task
  /\ UNCHANGED <<client, up, intentVars, joined, ops, want, replay, why, count, cloud,
                 early>>

\* The pollers are canceled, a resync with them; then the session disconnects.
_disconnect == /\ client = "on" /\ client' = "leaving"
               /\ replay' = <<>> /\ why' = "none" /\ hist' = "none"
               /\ UNCHANGED <<up, intentVars, joined, ops, want, count, cloud, early>>
SessionDisconnects == /\ client = "leaving" /\ client' = "off"
                      /\ up' = FALSE /\ joined' = {}
                      /\ UNCHANGED <<intentVars, ops, want, replay, why, hist, count,
                                     cloud, early>>

\* The history poller ends on a terminal error: its stream failed or the session closed.
_history_poll_loop ==
  /\ hist = "run" /\ hist' = "dead"
  /\ UNCHANGED <<client, up, intentVars, joined, ops, want, replay, why, count, cloud,
                 early>>

-----------------------------------------------------------------------------
Command == \/ \E k \in Kinds : _add_ticker_intent(k) \/ _remove_ticker_intent(k)
           \/ _subscribe_order_book_deltas \/ _unsubscribe_order_book_deltas
           \/ \E b \in BarTypes : _subscribe_bars(b) \/ _unsubscribe_bars(b)

IntentsNext ==
  \/ Command
  \/ \E o \in ops : VenueCall(o) \/ Outcome(o)
  \/ ensure_connected \/ _connect \/ replay_subscription_intent \/ Connected
  \/ _resync_ticker_subscription \/ Resynced \/ reconcile_starts_poller
  \/ _disconnect \/ SessionDisconnects \/ _history_poll_loop

IntentsSpec == IntentsInit /\ [][IntentsNext]_dataVars

-----------------------------------------------------------------------------
\* Properties

IntentsTypeOK ==
  /\ client \in {"off", "wired", "on", "leaving"} /\ why \in {"none", "connect", "gap"}
  /\ {up, subs, book} \subseteq BOOLEAN /\ hist \in {"none", "run", "dead"}
  /\ intents \subseteq Kinds /\ types \in [Periods -> SUBSET BarTypes]
  /\ want \subseteq Holders
  /\ Cardinality(ops) <= MaxOps

\* What an intent of holder h asks for is remembered.
Held(h) == CASE Group(h) = "tick" -> h \in intents
             [] Group(h) = "book" -> book
             [] Group(h) = "bars" -> h \in Registered

Quiet == client = "on" /\ why = "none" /\ ops = {}

\* A connected client with nothing under way is subscribed at the venue to every feed it
\* remembers an intent for, after any failed calls, partial replays, gaps and reconnects;
\* a bar type is found under both wire periods and its stream has a poller, unless that
\* poller met a terminal error. An unsubscribe that overlapped another call of its group
\* is excepted.
HeldIsServed ==
  Quiet => \A h \in Holders : Held(h) /\ Group(h) \notin cloud =>
             /\ Feed(h) \in joined
             /\ Group(h) = "bars" => /\ hist # "none"
                                     /\ \A p \in bar_wire_period_keys(h) : h \in types[p]

\* A connected client with nothing under way is subscribed to no feed that none of its
\* intents asks for ("a different period on the same symbol does not" keep the feed).
\* Excepted are an overlapping unsubscribe, and a replay that subscribes a tick intent
\* whose own call then fails.
NoGhostFeed ==
  Quiet => \A f \in joined : \/ f[1] \in cloud
                             \/ f = TickFeed /\ early
                             \/ \E h \in Holders : Held(h) /\ Feed(h) = f
=============================================================================
