------------------------------- MODULE Orders -------------------------------
(***************************************************************************)
(* What the Nautilus execution client tells the engine about orders: order  *)
(* commands and their outcomes, live notifications of tracked and of other  *)
(* orders, the drain a re-arm barrier applies, and the reconciliation       *)
(* queries, all racing each other (notification_intake.py, recon.py,        *)
(* _orders.py, order_rows.py, the command half of execution.py).            *)
(*                                                                          *)
(* The venue's truth is `hist`, the events of each order; event n of an     *)
(* order has venue time n. A notification or a drain row is an order and an *)
(* n: its kind, its total filled and its status follow from the history. A  *)
(* drain is read at the step that uses it, as any prefix of each order's    *)
(* events: that covers every older moment its thread may have loaded it at, *)
(* rows the venue left out and rows that could not be read. Prices, sides   *)
(* and terms are left out, but for two facts: a fill may have no price, and *)
(* a row's terms may be too vague to bind an id. The engine is external: a  *)
(* record per order it holds, moved by events and by status reports.        *)
(***************************************************************************)
EXTENDS Integers, Sequences, FiniteSets, SequencesExt

CONSTANTS Mine,        \* orders this client places (user_tag = client order id)
          Others,      \* orders someone else placed on the account
          Qty,         \* size of an order; a fill is for 1
          MaxSeen,     \* bound of FillDedupStore and UntrackedStatusBook
          MaxHist,     \* bound: venue events of one order
          MaxEvents,   \* bound: venue events and repeated notifications, in all
          MaxWire      \* bound: notifications waiting

Ids == Mine \cup Others

ASSUME OrdersAssumption ==
  /\ Mine \cap Others = {} /\ IsFiniteSet(Ids) /\ {Qty, MaxSeen} \subseteq Nat \ {0}
  /\ {MaxHist, MaxEvents, MaxWire} \subseteq Nat

VARIABLES hist,     \* per order: the kinds of its venue events
          wire,     \* notifications on their way to the handler: <<order, n>>
          repeats,  \* notifications the venue repeated
          ord,      \* the engine's record per order: [st, bound, last]
          live,     \* the order plant is armed
          exits,    \* per order of ours: the exit legs of the bracket it enters
          cmd,      \* the order command in flight: [k, o]
          query,    \* a reconciliation query suspended at its drain
          held,     \* mass status: order reports built before its second drain
          seen,     \* FillDedupStore, least recently used first
          book,     \* UntrackedStatusBook, least recently used first
          told,     \* per order: how often each fill was given to the engine
          spent,    \* history: fills whose key mass status consumed
          dropped,  \* history: keys the store evicted
          bad       \* history: what the last step's drain said that it should not

vars == <<hist, wire, repeats, ord, live, exits, cmd, query, held, seen, book, told,
          spent, dropped, bad>>
fillVars  == <<seen, told, dropped>>
queryVars == <<query, held, spent>>

Working  == {"submitted", "accepted", "partial"}    \* open in the engine
Terminal == {"filled", "canceled", "rejected"}      \* TERMINAL_ORDER_STATUSES
Closed   == Terminal \cup {"denied"}
Nothing  == [i \in Ids |-> 0]                       \* a drain without rows
Legs     == {"stop", "target"}
AllLegs(st) == [leg \in Legs |-> st]                \* "none": not a bracket
NoQuery  == [k |-> "none", o |-> CHOOSE o \in Mine : TRUE]

Init == /\ hist = [i \in Ids |-> <<>>] /\ wire = <<>>
        /\ repeats = 0
        /\ ord = [i \in Ids |-> [st |-> IF i \in Mine THEN "init" ELSE "none",
                                 bound |-> FALSE, last |-> 0]]
        /\ live = TRUE /\ exits = [o \in Mine |-> AllLegs("none")]
        /\ cmd = NoQuery /\ query = NoQuery /\ held = Nothing
        /\ seen = <<>> /\ book = <<>> /\ told = [i \in Ids |-> [n \in 1..MaxHist |-> 0]]
        /\ spent = {} /\ dropped = {} /\ bad = {}

-----------------------------------------------------------------------------
\* Rows

Kind(i, n) == hist[i][n]
Filled(i, n) == Cardinality({m \in 1..n : hist[i][m] = "filled"})
Done(i) == \/ \E n \in DOMAIN hist[i] : hist[i][n] \in {"canceled", "rejected"}
           \/ Filled(i, Len(hist[i])) = Qty

\* A drain that is best effort: for each order, a prefix of what happened to it.
Drains == {cut \in [Ids -> 0..MaxHist] : \A i \in Ids : cut[i] <= Len(hist[i])}

\* The freshest row per order (a drain keeps arrival order, so: its last one).
latest_drain_rows(cut) == {i \in Ids : cut[i] > 0}

\* Every fill row reads FILLED, a partial fill too; what is not recognizably
\* terminal is a working order, an order whose cancel or change was refused too.
order_status_from_fields(i, n) ==
  CASE Kind(i, n) = "filled" \/ Filled(i, n) = Qty -> "filled"
    [] Kind(i, n) \in {"rejected", "canceled"} -> Kind(i, n)
    [] OTHER -> IF Filled(i, n) > 0 THEN "partial" ELSE "accepted"

\* The bounded stores, which hold a key at most once: a hit makes it the most recent,
\* an insert past the bound drops the least recent.
Without(s, k) == IF k \in Range(s) THEN RemoveAt(s, CHOOSE i \in DOMAIN s : s[i] = k) ELSE s
Touch(s, k) == IF k \in Range(s) THEN Append(Without(s, k), k) ELSE s
Insert(s, k) == LET t == Append(Without(s, k), k)
                IN IF Len(t) > MaxSeen THEN Tail(t) ELSE t

\* The key of a fill: its venue id, live and in a drain alike.
fill_dedup_key(i, n) == <<i, n>>

\* The last status published of an untracked order.
status_key(i, n) == [st |-> order_status_from_fields(i, n), filled |-> Filled(i, n)]
BookHit(i, n) == <<i, status_key(i, n)>> \in Range(book)
Record(i, n) == Insert(SelectSeq(book, LAMBDA e : e[1] # i), <<i, status_key(i, n)>>)

-----------------------------------------------------------------------------
\* The engine (external)

\* A status report moves an open order, whose venue id is known from then on, and may
\* adopt an order the engine does not hold; a closed order stays closed.
Later(a, b) == IF a > b THEN a ELSE b
Reported(e, s, n) ==
  CASE e.st \in Working -> [st |-> s, bound |-> e.bound \/ s # "rejected",
                             last |-> Later(e.last, n)]
    [] e.st = "none" -> [st |-> s, bound |-> TRUE, last |-> n]
    [] OTHER -> e
StatusOf(i, n) == Reported(ord[i], order_status_from_fields(i, n), n)

\* A fill fills the order; one that is closed takes it and stays closed.
Given(i) == Cardinality({n \in 1..MaxHist : told[i][n] > 0})
AfterFill(e, total) ==
  IF e.st \in Working THEN [e EXCEPT !.st = IF total >= Qty THEN "filled" ELSE "partial"]
  ELSE e

\* For the record: rows that say an order closed here is working, or that are older
\* than what the engine knows of an open order.
Reopens(rows)   == \E r \in rows : /\ ord[r[1]].st \in Closed
                                  /\ order_status_from_fields(r[1], r[2]) \notin Terminal
Regresses(rows) == \E r \in rows : ord[r[1]].st \in Working /\ r[2] < ord[r[1]].last
Judge(path, rows) ==
  bad' = IF Reopens(rows) \/ (path = "barrier" /\ Regresses(rows)) THEN {path} ELSE {}

-----------------------------------------------------------------------------
\* The venue (external)

\* A request reaches it while the command runs or later, unless it was refused.
Requested(i) == i \in Others \/ ord[i].st = "submitted"
Legal(i) == CASE hist[i] = <<>> -> IF Requested(i) THEN {"accepted", "rejected"} ELSE {}
              [] OTHER -> IF Done(i) THEN {} ELSE {"filled", "canceled", "updated"}

Sent == repeats + FoldFunctionOnSet(LAMBDA s, t : Len(s) + t, 0, hist, Ids)

\* "updated" stands for every event that leaves an order working.
VenueEvent(i, k) ==
  /\ k \in Legal(i) /\ Len(hist[i]) < MaxHist /\ Len(wire) < MaxWire
  /\ Sent < MaxEvents
  /\ hist' = [hist EXCEPT ![i] = Append(@, k)]
  /\ wire' = Append(wire, <<i, Len(hist'[i])>>)
  /\ UNCHANGED <<repeats, ord, live, exits, cmd, queryVars, book, fillVars>> /\ bad' = {}

\* A second source reports it, or a resubscription replays it.
VenueRepeats(i, n) ==
  /\ Sent < MaxEvents /\ Len(wire) < MaxWire /\ n <= Len(hist[i])
  /\ repeats' = repeats + 1 /\ wire' = Append(wire, <<i, n>>)
  /\ UNCHANGED <<hist, ord, live, exits, cmd, queryVars, book, fillVars>> /\ bad' = {}

\* The stream breaks: what was on its way, or happens before it is back, is lost, and
\* the plant latched.
Break == /\ live \/ wire # <<>>
         /\ wire' = <<>> /\ live' = FALSE
         /\ UNCHANGED <<hist, repeats, ord, exits, cmd, queryVars, book, fillVars>> /\ bad' = {}

-----------------------------------------------------------------------------
\* Order commands

commandFrame == <<hist, wire, repeats, queryVars, book, fillVars>>

\* _submit_order: denied before anything is sent (the plant is not armed, or the order
\* has no Rithmic form), or announced and sent.
_submit_order(o, mapped) ==
  /\ ord[o].st = "init" /\ cmd = NoQuery
  /\ IF live /\ mapped
     THEN ord' = [ord EXCEPT ![o].st = "submitted"] /\ cmd' = [k |-> "place", o |-> o]
     ELSE ord' = [ord EXCEPT ![o].st = "denied"] /\ UNCHANGED cmd
  /\ UNCHANGED <<live, exits, commandFrame>> /\ bad' = {}

\* A bracket: order o with two exits. `priced` has the exits that lie a tick or more from
\* the limit price of the entry (_bracket_ticks); without both, all three are denied.
\* A list that is no bracket is submitted order by order.
_bracket_ticks(priced) == priced = Legs
\* Mutant: the bracket is placed with the exits that can be priced.
_submit_order_list_partly(o, priced) ==
  /\ ord[o].st = "init" /\ cmd = NoQuery /\ live /\ priced # {}
  /\ ord' = [ord EXCEPT ![o].st = "submitted"] /\ cmd' = [k |-> "place", o |-> o]
  /\ exits' = [exits EXCEPT ![o] = [leg \in Legs |-> IF leg \in priced THEN "submitted"
                                                                     ELSE "denied"]]
  /\ UNCHANGED <<live, commandFrame>> /\ bad' = {}
_submit_order_list(o, priced) ==
  /\ ord[o].st = "init" /\ cmd = NoQuery
  /\ IF live /\ _bracket_ticks(priced)
     THEN /\ ord' = [ord EXCEPT ![o].st = "submitted"] /\ cmd' = [k |-> "place", o |-> o]
          /\ exits' = [exits EXCEPT ![o] = AllLegs("submitted")]
     ELSE /\ ord' = [ord EXCEPT ![o].st = "denied"] /\ UNCHANGED cmd
          /\ exits' = [exits EXCEPT ![o] = AllLegs("denied")]
  /\ UNCHANGED <<live, commandFrame>> /\ bad' = {}

\* _modify_order and _cancel_order need the venue's id; a refusal changes no order.
_modify_order(o) ==
  /\ live /\ cmd = NoQuery /\ ord[o].st \in Working /\ ord[o].bound
  /\ cmd' = [k |-> "change", o |-> o]
  /\ UNCHANGED <<ord, live, exits, commandFrame>> /\ bad' = {}
_cancel_order(o) ==
  /\ live /\ cmd = NoQuery /\ ord[o].st \in Working /\ ord[o].bound
  /\ cmd' = [k |-> "change", o |-> o]
  /\ UNCHANGED <<ord, live, exits, commandFrame>> /\ bad' = {}

\* What a failure says (_failure_class): the venue refused it, nothing was sent, or
\* nobody knows. An answer of either kind implies the order is not at the venue.
Refusable(o) == hist[o] \in {<<>>, <<"rejected">>}
Outcomes(o) == {"ok", "unknown"} \cup IF cmd.k # "place" \/ Refusable(o)
                                       THEN {"rejected", "not_sent"} ELSE {}

\* Mutant: the answer to the request counts as the venue's acceptance.
CommandAccepts(outcome) ==
  /\ cmd # NoQuery /\ outcome = "ok" /\ cmd' = NoQuery
  /\ ord' = IF ord[cmd.o].st = "submitted" THEN [ord EXCEPT ![cmd.o].st = "accepted"] ELSE ord
  /\ UNCHANGED <<live, exits, commandFrame>> /\ bad' = {}
\* _order_command_failed: only a definitive failure rejects the order, a bracket with
\* its exits; an unknown outcome latches the plant and leaves the order in flight.
Rejects(outcome) == cmd.k = "place" /\ outcome \in {"rejected", "not_sent"}
CommandEnds(outcome) ==
  /\ cmd # NoQuery /\ outcome \in Outcomes(cmd.o) /\ cmd' = NoQuery
  /\ live' = (live /\ outcome # "unknown")
  /\ ord' = IF Rejects(outcome) /\ ord[cmd.o].st \in Working
            THEN [ord EXCEPT ![cmd.o].st = "rejected"] ELSE ord
  /\ exits' = IF Rejects(outcome) /\ exits[cmd.o] # AllLegs("none")
              THEN [exits EXCEPT ![cmd.o] = AllLegs("rejected")] ELSE exits
  /\ UNCHANGED commandFrame /\ bad' = {}

-----------------------------------------------------------------------------
\* Live notifications (VenueNotificationIntake)

\* The next notification, off the stream.
Take(i, n) == wire # <<>> /\ <<i, n>> = Head(wire) /\ wire' = Tail(wire)

\* _resolve_client_order_id: the engine's open order, by venue id or by tag. What
\* belongs to a closed order goes the untracked way.
_resolve_client_order_id(i) == ord[i].st \in Working

Mark(i, n) == /\ seen' = Insert(seen, fill_dedup_key(i, n))
              /\ dropped' = dropped \cup (Range(seen) \ Range(seen'))
Often(t) == IF t < 2 THEN t + 1 ELSE t               \* 2: more than once
Tell(i, n) == told' = [told EXCEPT ![i][n] = Often(@)]

\* Mutant: the key is used before the price is looked at.
handle_tracked_fill_early(i, n, priced) ==
  IF fill_dedup_key(i, n) \in Range(seen)
  THEN UNCHANGED <<seen, told, dropped, live, ord>>
  ELSE /\ live' = (live /\ priced) /\ Mark(i, n)
       /\ IF priced THEN Tell(i, n) ELSE UNCHANGED told
       /\ ord' = [ord EXCEPT ![i] = AfterFill(@, Given(i) + 1)]
AfterLiveFill(e, total, n) ==
  [AfterFill(e, total) EXCEPT !.bound = TRUE, !.last = Later(@, n)]
\* A tracked fill: once per key; without a price it is not published, its key is not
\* used and the plant latches; an overfill is published and latches.
handle_tracked_fill(i, n, priced) ==
  IF fill_dedup_key(i, n) \in Range(seen)
  THEN /\ seen' = Touch(seen, fill_dedup_key(i, n))
       /\ UNCHANGED <<told, dropped, live>>
       /\ ord' = [ord EXCEPT ![i].bound = TRUE]
  ELSE IF ~priced
  THEN /\ live' = FALSE
       /\ ord' = [ord EXCEPT ![i].bound = TRUE]
       /\ UNCHANGED <<seen, told, dropped>>
  ELSE /\ live' = (live /\ Given(i) < Qty)
       /\ Tell(i, n) /\ Mark(i, n)
       /\ ord' = [ord EXCEPT ![i] = AfterLiveFill(@, Given(i) + 1, n)]

\* The other kinds; a late or repeated acceptance is skipped (emit_accepted).
emit_accepted(e, n) ==
  IF e.st = "submitted" THEN [e EXCEPT !.st = "accepted", !.last = n] ELSE e
resolve_updated_terms(e, n) == [e EXCEPT !.last = Later(@, n)]   \* or triggered
Event(e, k, n) ==
  CASE k = "accepted" -> emit_accepted(e, n)
    [] k \in {"rejected", "canceled"} -> [e EXCEPT !.st = k, !.last = Later(@, n)]
    [] OTHER -> resolve_updated_terms(e, n)
handle_order_notification(i, n, priced) ==
  /\ Take(i, n) /\ _resolve_client_order_id(i)
  /\ IF Kind(i, n) = "filled" THEN handle_tracked_fill(i, n, priced)
     ELSE /\ ord' = [ord EXCEPT ![i] = [Event(@, Kind(i, n), n) EXCEPT !.bound = TRUE]]
          /\ UNCHANGED <<fillVars, live>>
  /\ UNCHANGED <<hist, repeats, exits, cmd, queryVars, book>> /\ bad' = {}

\* Mutant: a fill of an order that is not tracked is published each time.
publish_untracked_fill_again(i, n, priced) ==
  IF Kind(i, n) = "filled" /\ priced THEN Tell(i, n) /\ Mark(i, n) ELSE UNCHANGED fillVars
\* publish_untracked_fill: once per key, after the status was published.
publish_untracked_fill(i, n, priced) ==
  IF Kind(i, n) # "filled" THEN UNCHANGED fillVars
  ELSE IF fill_dedup_key(i, n) \in Range(seen)
  THEN seen' = Touch(seen, fill_dedup_key(i, n)) /\ UNCHANGED <<told, dropped>>
  ELSE IF priced THEN Tell(i, n) /\ Mark(i, n) ELSE UNCHANGED fillVars

\* An unchanged status is published once; when publication fails the fill waits for
\* reconciliation. The engine may or may not take on an order it did not place.
handle_untracked_notification(i, n, priced, published, adopts) ==
  /\ Take(i, n) /\ ~_resolve_client_order_id(i)
  /\ IF BookHit(i, n)
     THEN /\ book' = Touch(book, <<i, status_key(i, n)>>)
          /\ publish_untracked_fill(i, n, priced) /\ UNCHANGED ord
     ELSE IF published
     THEN /\ book' = Record(i, n) /\ publish_untracked_fill(i, n, priced)
          /\ ord' = IF ord[i].st = "none" /\ ~adopts THEN ord
                    ELSE [ord EXCEPT ![i] = StatusOf(i, n)]
     ELSE UNCHANGED <<book, ord, fillVars>>
  /\ UNCHANGED <<hist, repeats, live, exits, cmd, queryVars>> /\ bad' = {}

-----------------------------------------------------------------------------
\* The drain at a re-arm barrier, and reconciliation (WorkingOrdersDrain)

\* _drain_client_order_id: unlike a notification, a row of a closed order whose venue id
\* is known belongs to that order, so that it meets the rules below.
_drain_client_order_id(i) == ord[i].bound \/ _resolve_client_order_id(i)

\* Mutant: what the live stream said of an open order since is not looked at.
row_stale_closed_only(i, n, authoritative) ==
  /\ ord[i].st \in Closed
  /\ authoritative \/ order_status_from_fields(i, n) \notin Terminal
\* Why a row must not move an order. At the barrier the live stream owns tracked
\* orders; in reconciliation only a working row for a closed order is stale.
row_stale_reason(i, n, authoritative) ==
  /\ _drain_client_order_id(i)
  /\ \/ ord[i].st \in Closed
        /\ (authoritative \/ order_status_from_fields(i, n) \notin Terminal)
     \/ ord[i].st \in Working /\ authoritative /\ ord[i].last > n

Fresh(cut, authoritative) ==
  {i \in latest_drain_rows(cut) : ~row_stale_reason(i, cut[i], authoritative)}
RowsOf(cut, is) == {<<i, cut[i]>> : i \in is}

\* apply_drain_rows, of an un-armed plant: publish, then bind an order that has no
\* venue id when the row's terms are real. A publication that fails ends the barrier
\* (~whole) with the rows before it applied, and the plant stays un-armed.
BindRow(i, e, good) == IF good /\ _drain_client_order_id(i) THEN [e EXCEPT !.bound = TRUE] ELSE e
apply_drain_rows(cut, good, whole) ==
  /\ ~live /\ live' = whole
  /\ ord' = [i \in Ids |-> IF i \in Fresh(cut, TRUE) THEN BindRow(i, StatusOf(i, cut[i]), good)
                           ELSE ord[i]]
  /\ Judge("barrier", RowsOf(cut, Fresh(cut, TRUE)))
  /\ UNCHANGED <<hist, wire, repeats, exits, cmd, queryVars, book, fillVars>>

\* order_status_reports_from_events: nothing is said of an empty drain; else the
\* fresh rows, of open orders only when the engine asks for those.
ReportsOf(cut, openOnly) ==
  {i \in Fresh(cut, FALSE) :
     ~openOnly \/ order_status_from_fields(i, cut[i]) \notin Terminal}
generate_order_status_reports(cut, openOnly) ==
  /\ query = NoQuery /\ cut # Nothing
  /\ ord' = [i \in Ids |-> IF i \in ReportsOf(cut, openOnly) THEN StatusOf(i, cut[i])
                           ELSE ord[i]]
  /\ Judge("recon", RowsOf(cut, ReportsOf(cut, openOnly)))
  /\ UNCHANGED <<hist, wire, repeats, live, exits, cmd, queryVars, book, fillVars>>

\* The fills of a drain that were not seen: a status first (a fill without price, or
\* whose status is not published, is passed over), then the fill, whose key is marked
\* when its report is built.
NewFills(cut) == {r \in Ids \X (1..MaxHist) :
                    /\ r[2] <= cut[r[1]] /\ Kind(r[1], r[2]) = "filled"
                    /\ fill_dedup_key(r[1], r[2]) \notin Range(seen)}
Newest(s) == SubSeq(s, Later(Len(s) - MaxSeen, 0) + 1, Len(s))
MarkAll(rows) == /\ seen' = Newest(seen \o SetToSeq(rows))   \* an insert each
                 /\ dropped' = dropped \cup ((Range(seen) \cup rows) \ Range(seen'))
AfterReport(e, i, rows) ==
  LET ns == {n \in 1..MaxHist : <<i, n>> \in rows}
  IN IF ns = {} THEN e ELSE Reported(e, "filled", Max(ns))
generate_fill_reports(cut, rows) ==
  /\ query = NoQuery /\ rows # {} /\ rows \subseteq NewFills(cut)
  /\ bad' = {} /\ MarkAll(rows)
  /\ told' = [i \in Ids |-> [n \in 1..MaxHist |->
                IF <<i, n>> \in rows THEN Often(told[i][n]) ELSE told[i][n]]]
  /\ ord' = [i \in Ids |-> AfterReport(ord[i], i, rows)]
  /\ UNCHANGED <<hist, wire, repeats, live, exits, cmd, queryVars, book>>

\* generate_mass_status: order reports are built from a first drain; then the fills of
\* a second one are reconciled, and their reports thrown away.
generate_mass_status(cut) ==
  /\ query = NoQuery
  /\ query' = [query EXCEPT !.k = "mass"]
  /\ held' = [i \in Ids |-> IF i \in Fresh(cut, FALSE) THEN cut[i] ELSE 0]
  /\ UNCHANGED <<hist, wire, repeats, ord, live, exits, cmd, book, fillVars, spent>> /\ bad' = {}
MassStatusEnds(cut, rows) ==
  /\ query.k = "mass" /\ query' = NoQuery /\ rows \subseteq NewFills(cut)
  /\ MarkAll(rows) /\ spent' = spent \cup rows
  /\ bad' = {}
  /\ ord' = [i \in Ids |->
               LET e == AfterReport(ord[i], i, rows)
               IN IF held[i] > 0
                  THEN Reported(e, order_status_from_fields(i, held[i]), held[i]) ELSE e]
  /\ held' = Nothing
  /\ UNCHANGED <<hist, wire, repeats, live, exits, cmd, book, told>>

\* _order_status_report_for: what the engine's record says of an order, but an order the
\* venue has an id for was accepted.
_order_status_report_for(o) ==
  IF ord[o].bound /\ ord[o].st = "submitted" THEN [ord[o] EXCEPT !.st = "accepted"]
  ELSE ord[o]

\* generate_order_status_report: for an order in flight without a venue id a drain by
\* tag, after which the engine's record is read again and wins when it moved.
inflightFrame == <<hist, wire, repeats, live, exits, cmd, held, book, fillVars, spent>>
generate_order_status_report(o) ==
  /\ query = NoQuery /\ ord[o].st = "submitted"
  /\ IF ord[o].bound
     THEN ord' = [ord EXCEPT ![o] = _order_status_report_for(o)] /\ UNCHANGED query
     ELSE query' = [k |-> "inflight", o |-> o] /\ UNCHANGED ord
  /\ UNCHANGED inflightFrame /\ bad' = {}
MovedMeanwhile(o) == ord[o].bound \/ ord[o].st \in Closed
_resolve_inflight_by_tag(cut, good) ==
  /\ query.k = "inflight" /\ query' = NoQuery
  /\ LET o == query.o IN
     IF ~MovedMeanwhile(o) /\ cut[o] > 0 /\ good
     THEN /\ ord' = [ord EXCEPT ![o] = [StatusOf(o, cut[o]) EXCEPT !.bound = TRUE]]
          /\ Judge("inflight", {<<o, cut[o]>>})
     ELSE ord' = [ord EXCEPT ![o] = _order_status_report_for(o)] /\ bad' = {}
  /\ UNCHANGED inflightFrame

-----------------------------------------------------------------------------
Venue == \/ \E i \in Ids, k \in {"accepted", "rejected", "filled", "canceled", "updated"} :
              VenueEvent(i, k)
         \/ \E i \in Ids, n \in 1..MaxHist : VenueRepeats(i, n)
         \/ Break
Commands == \/ \E o \in Mine, mapped \in BOOLEAN : _submit_order(o, mapped)
            \/ \E o \in Mine, priced \in SUBSET Legs : _submit_order_list(o, priced)
            \/ \E o \in Mine : _modify_order(o) \/ _cancel_order(o)
            \/ \E outcome \in {"ok", "unknown", "rejected", "not_sent"} : CommandEnds(outcome)
Intake == \E i \in Ids, n \in 1..MaxHist, priced \in BOOLEAN :
            \/ handle_order_notification(i, n, priced)
            \/ \E published, adopts \in BOOLEAN :
                 handle_untracked_notification(i, n, priced, published, adopts)
Recon == \/ \E cut \in Drains, good \in BOOLEAN :
              \/ \E whole \in BOOLEAN : apply_drain_rows(cut, good, whole)
              \/ _resolve_inflight_by_tag(cut, good)
         \/ \E cut \in Drains :
              \/ \E openOnly \in BOOLEAN : generate_order_status_reports(cut, openOnly)
              \/ generate_mass_status(cut)
              \/ \E rows \in SUBSET NewFills(cut) :
                   generate_fill_reports(cut, rows) \/ MassStatusEnds(cut, rows)
         \/ \E o \in Mine : generate_order_status_report(o)

Next == Venue \/ Commands \/ Intake \/ Recon
Spec == Init /\ [][Next]_vars

-----------------------------------------------------------------------------
\* Properties

\* The state is made of the values it is meant to hold.
TypeOK ==
  /\ \A i \in Ids : /\ Len(hist[i]) <= MaxHist
                    /\ ord[i].st \in Working \cup Closed \cup {"init", "none"}
                    /\ ord[i].last \in 0..MaxHist
                    /\ \A n \in 1..MaxHist : told[i][n] \in Nat
  /\ Len(wire) <= MaxWire /\ Len(seen) <= MaxSeen /\ Len(book) <= MaxSeen
  /\ \A r \in Range(wire) : r[2] \in 1..Len(hist[r[1]])
  /\ held \in Drains

\* A fill reaches the engine twice only after the store forgot its key: live, replayed
\* and reconciled copies of it meet in one bounded store.
FillOnce == \A i \in Ids, n \in 1..MaxHist : told[i][n] > 1 => <<i, n>> \in dropped

\* "A dedup key is consumed only after parsing, routing, and event publication succeed":
\* a fill whose key the store holds was given to the engine, so that no later copy of
\* it is swallowed for nothing - but for the keys mass status consumes.
KeyIsEarned == \A f \in Range(seen) : told[f[1]][f[2]] > 0 \/ f \in spent

\* "Both legs or nothing" (_submit_order_list): an order that entered a bracket and is at
\* the venue has both its exits there with it. None of the three is denied, and none is
\* rejected on a failed command, however late the venue or its notification is.
BracketIsWhole ==
  \A o \in Mine : hist[o] \notin {<<>>, <<"rejected">>} =>
                   exits[o] \in {AllLegs("none"), AllLegs("submitted")}

\* No drain says what is over: the barrier publishes no working row for a closed order
\* and no row older than an open order's last event; bulk reconciliation, when it answers
\* in the step that filtered the rows, says of no closed order that it works ("would
\* reconcile ACCEPTED over CANCELED/FILLED"); and a query for an order in flight does not
\* answer for one that the stream closed meanwhile.
DrainNeverRegresses == bad = {}

\* How an order's record and its venue events read as OrderLife.
LifeOf(o) == CASE ord[o].st = "init" -> "new"
               [] ord[o].st = "submitted" -> "flying"
               [] ord[o].st \in {"accepted", "partial"} -> "open"
               [] ord[o].st \in {"filled", "canceled"} -> "closed"
               [] OTHER -> ord[o].st
AtVenue(o) == CASE hist[o] = <<>> -> "absent"
                [] hist[o] = <<"rejected">> -> "refused"
                [] OTHER -> IF Done(o) THEN "done" ELSE "working"
Life == INSTANCE OrderLife WITH
  Mine  <- Mine,
  life  <- [o \in Mine |-> LifeOf(o)],
  at    <- [o \in Mine |-> AtVenue(o)],
  fills <- [o \in Mine |-> Given(o)],
  made  <- [o \in Mine |-> Filled(o, Len(hist[o]))]
\* What the strategy is promised (OrderLife): an order's life goes forward only, open
\* means the venue has it, rejected that it never will, and fills are real and counted
\* once, through every race of commands, the live stream and reconciliation.
ImplementsOrderLife == Life!Spec
=============================================================================
