------------------------------ MODULE Exposure ------------------------------
(***************************************************************************)
(* What the execution client says of the account's exposure in one product  *)
(* root: the position rows it keeps from the PnL stream, the answer to an   *)
(* exposure request (net and open orders, "complete is the only proof"), the*)
(* position reports of a mass status, and the inventory that a tool without *)
(* a node builds from the same rows (execution.py, exposure.py, recon.py,   *)
(* inventory.py).                                                           *)
(*                                                                          *)
(* Each contract has a true net at the venue and one order, of size 2. A    *)
(* change of the net is a row on the PnL stream; a new subscription sends   *)
(* an account row and then a burst of one row per contract that is not      *)
(* flat. The clock ticks, and a burst is through within the settle window   *)
(* of its first row (PNL_SETTLE_NS). A row may turn out unreadable when it  *)
(* is handled, with or without its symbol.                                  *)
(***************************************************************************)
EXTENDS Integers, Sequences, FiniteSets, SequencesExt

CONSTANTS Contracts,  \* the contracts of the root
          Settle,     \* PNL_SETTLE_NS, in ticks
          MaxTime,    \* bound of the clock
          MaxMoves    \* bound: changes at the venue

AnySymbol == "any"          \* _ANY_SYMBOL
None == -1

ASSUME ExposureAssumption ==
  /\ {Settle, MaxTime, MaxMoves} \subseteq Nat /\ Settle > 0
  /\ IsFiniteSet(Contracts) /\ AnySymbol \notin Contracts

VARIABLES now, moves,
          net,      \* per contract: the true net
          order,    \* per contract: "none" "working" "partial" "filled" "canceled"
          on,       \* the PnL subscription is served
          wire,     \* PnL rows not yet handled: [c, q, burst]; c = AnySymbol: account row
          current,  \* the PnL poll in flight began on the present epoch
          liveSince,  \* _pnl_live_since_ns, None when unknown
          rows,     \* _positions: quantity per contract, None when there is no row
          seenAt,   \* _position_seen_ns
          unread,   \* _unreadable_position_symbols
          asked,    \* exposure request: [pc, open, work]; work: what the drain saw (history)
          snap,     \* the last complete reply, and what was true: see _exposure_snapshot
          missed,   \* history: contracts with a change that was lost with the stream
          skipped   \* history: contracts with a row discarded on an older epoch

exposureVars == <<now, moves, net, order, on, wire, current, liveSince, rows, seenAt, unread,
                  asked, snap, missed, skipped>>
venueSide == <<now, moves, net, order, on>>
rowVars   == <<liveSince, rows, seenAt, unread>>

NoRows == [c \in Contracts |-> None]
NoReq  == [pc |-> "none", open |-> None, work |-> 0]
NoSnap == [net |-> None, open |-> None, wasNet |-> None, wasOpen |-> None]

ExposureInit ==
  /\ now = 0 /\ moves = 0 /\ net = [c \in Contracts |-> 0]
  /\ order = [c \in Contracts |-> "none"] /\ on = FALSE /\ wire = <<>>
  /\ current = FALSE /\ liveSince = None /\ rows = NoRows /\ seenAt = NoRows /\ unread = {}
  /\ asked = NoReq /\ snap = NoSnap /\ missed = {} /\ skipped = {}

-----------------------------------------------------------------------------
\* The venue and the clock (external)

Row(c, q, burst) == [c |-> c, q |-> q, burst |-> burst]
Burst == <<Row(AnySymbol, 0, FALSE)>> \o
         SetToSeq({Row(c, net[c], TRUE) : c \in {d \in Contracts : net[d] # 0}})
Pending == {wire[i].c : i \in DOMAIN wire}
Updates == {wire[i].c : i \in {j \in DOMAIN wire : ~wire[j].burst}}
BurstPending == \E i \in DOMAIN wire : wire[i].burst

\* A burst outlasts neither the settle window nor, before its first row, the clock.
Tick == /\ now < MaxTime /\ now' = now + 1
        /\ BurstPending => liveSince # None /\ now' - liveSince < Settle
        /\ UNCHANGED <<moves, net, order, on, wire, current, rowVars, asked, snap,
                       missed, skipped>>

NetBecomes(c, q) ==
  /\ moves < MaxMoves /\ moves' = moves + 1 /\ net' = [net EXCEPT ![c] = q]
  /\ wire' = IF on THEN Append(wire, Row(c, q, FALSE)) ELSE wire
  /\ missed' = IF on THEN missed ELSE missed \cup {c}
  /\ UNCHANGED <<now, on, current, rowVars, asked, snap, skipped>>

\* Someone else trades the contract; an order is placed, filled in part, filled, canceled.
Traded(c) == /\ \E q \in 0..1 : q # net[c] /\ NetBecomes(c, q)
             /\ UNCHANGED order
Filled(c) == /\ order[c] \in {"working", "partial"} /\ NetBecomes(c, net[c] + 1)
             /\ order' = [order EXCEPT ![c] = IF @ = "working" THEN "partial" ELSE "filled"]
OrderMoves(c) ==
  /\ moves < MaxMoves /\ moves' = moves + 1
  /\ \/ order[c] = "none" /\ order' = [order EXCEPT ![c] = "working"]
     \/ order[c] \in {"working", "partial"} /\ order' = [order EXCEPT ![c] = "canceled"]
  /\ UNCHANGED <<now, net, on, wire, current, rowVars, asked, snap, missed, skipped>>

\* Account rows come on a short interval.
AccountRow == /\ on /\ wire = <<>> /\ wire' = <<Row(AnySymbol, 0, FALSE)>>
              /\ UNCHANGED <<venueSide, current, rowVars, asked, snap, missed,
                             skipped>>

\* The stream fails: its rows are lost; the poller notices when it resubscribes.
StreamFails ==
  /\ on /\ on' = FALSE /\ wire' = <<>>
  /\ missed' = missed \cup (Pending \cap Contracts)
  /\ UNCHANGED <<now, moves, net, order, current, rowVars, asked, snap, skipped>>

-----------------------------------------------------------------------------
\* Subscriptions and epochs

\* The subscription is served again, with a burst, or the call fails. Either takes time.
Resubscribe == /\ now < MaxTime /\ now' = now + 1
               /\ \/ on' = TRUE /\ wire' = Burst
                  \/ on' = FALSE /\ wire' = <<>>
               /\ liveSince' = None /\ missed' = {} /\ skipped' = {}
               /\ UNCHANGED <<moves, net, order, asked, snap>>

\* Connect and restore: the previous stream's rows are forgotten. A poll that is in
\* flight is on an older epoch from here.
_forget_pnl_state == /\ ~on /\ Resubscribe /\ current' = FALSE
                     /\ rows' = NoRows /\ seenAt' = NoRows /\ unread' = {}

\* A channel error or a gap on the stream, met by the poller itself: the rows stay, for
\* position reports, and the next poll is on the new epoch.
_resync_pnl_subscription == /\ Resubscribe /\ current' = TRUE
                            /\ unread' = unread \ {AnySymbol} /\ UNCHANGED <<rows, seenAt>>

\* The order stream lost events: a new epoch on a PnL stream that is healthy.
_recover_order_gap == /\ current' = FALSE
                      /\ UNCHANGED <<venueSide, wire, rowVars, asked, snap, missed,
                                     skipped>>

-----------------------------------------------------------------------------
\* The PnL poller

poll_with_epoch == /\ on /\ current' = TRUE
                   /\ UNCHANGED <<venueSide, wire, rowVars, asked, snap, missed,
                                  skipped>>

_note_pnl_observed == liveSince' = IF liveSince = None THEN now ELSE liveSince

\* dispatch_current: a row polled on an older epoch is ignored. The next poll begins.
Handled == /\ wire # <<>> /\ wire' = Tail(wire)
           /\ UNCHANGED <<venueSide, asked, snap>>
IgnoreOld == /\ ~current /\ Handled /\ current' = TRUE
             /\ skipped' = skipped \cup ({Head(wire).c} \cap Contracts)
             /\ UNCHANGED <<rowVars, missed>>

\* An account row: published and an observation, or malformed and neither.
_publish_account ==
  /\ current /\ Handled /\ Head(wire).c = AnySymbol
  /\ \/ _note_pnl_observed \/ UNCHANGED liveSince
  /\ UNCHANGED <<current, rows, seenAt, unread, missed, skipped>>

\* A position row. Stamped with one clock read, so that the first row of a stream counts
\* as seen on it; an unreadable one leaves the contract, or every one, unknown.
_cache_position ==
  /\ current /\ Handled /\ Head(wire).c # AnySymbol
  /\ LET c == Head(wire).c IN
     \/ /\ rows' = [rows EXCEPT ![c] = Head(wire).q] /\ seenAt' = [seenAt EXCEPT ![c] = now]
        /\ unread' = unread \ {c} /\ _note_pnl_observed
        /\ missed' = missed \ {c} /\ skipped' = skipped \ {c}
     \/ /\ \E s \in {c, AnySymbol} : unread' = unread \cup {s}
        /\ UNCHANGED <<liveSince, rows, seenAt, missed, skipped>>
  /\ UNCHANGED current

-----------------------------------------------------------------------------
\* Exposure

_rows_seen_since(t) == {c \in Contracts : rows[c] # None /\ seenAt[c] >= t}
\* The sum of the signed quantities: long units less short ones.
signed_net(cs, qty) == Cardinality(UNION {{c} \X (1..qty[c]) : c \in cs}) -
                       Cardinality(UNION {{c} \X (1..(-qty[c])) : c \in cs})
_position_unreadable_for == unread # {}

\* The net of the root: unknown without a live stream or with an unreadable row.
_exposure_net == IF liveSince = None \/ _position_unreadable_for THEN None
                 ELSE signed_net(_rows_seen_since(liveSince), rows)

\* Every fill row reads FILLED, a partial fill too (order_status_from_fields).
order_status_from_fields(c) ==
  CASE order[c] \in {"partial", "filled"} -> "filled" [] OTHER -> order[c]
_working_orders_for_root(readable) ==
  IF readable THEN Cardinality({c \in Contracts : order_status_from_fields(c) = "working"})
  ELSE None
\* A partial fill's row hides the order (see README); the history counts the others.
TrulyWorking == Cardinality({c \in Contracts : order[c] = "working"})

\* Mutant: the first row of a stream is enough.
complete_unsettled(n, open, pnlTs, drainTs) ==
  n # None /\ open # None /\ pnlTs # None /\ drainTs # None
exposure_complete(n, open, pnlTs, drainTs) ==
  n # None /\ open # None /\ pnlTs # None /\ drainTs # None /\ drainTs - pnlTs >= Settle

\* request_exposure: the drain is read at the venue at some moment of the load, or fails,
\* or holds a row that cannot be read.
request_exposure == /\ asked.pc = "none" /\ asked' = [asked EXCEPT !.pc = "load"]
                    /\ UNCHANGED <<venueSide, wire, current, rowVars, snap,
                                   missed, skipped>>
_load_orders_events ==
  /\ asked.pc = "load"
  /\ \E readable \in BOOLEAN :
       asked' = [pc |-> "drained", open |-> _working_orders_for_root(readable),
               work |-> TrulyWorking]
  /\ UNCHANGED <<venueSide, wire, current, rowVars, snap, missed, skipped>>

\* The reply; kept when it is complete. For the record, what was true: the orders when
\* they were read, and the net unless a change is still on its way or was lost.
NetIsDelivered == Updates \cap Contracts = {} /\ missed = {} /\ skipped = {}
_exposure_snapshot ==
  /\ asked.pc = "drained" /\ asked' = NoReq
  /\ snap' = IF exposure_complete(_exposure_net, asked.open, liveSince, now)
             THEN [net |-> _exposure_net, open |-> asked.open, wasOpen |-> asked.work,
                   wasNet |-> IF NetIsDelivered THEN signed_net(Contracts, net) ELSE None]
             ELSE NoSnap
  /\ UNCHANGED <<venueSide, wire, current, rowVars, missed, skipped>>
DrainFails == /\ asked.pc = "load" /\ asked' = NoReq /\ snap' = NoSnap
              /\ UNCHANGED <<venueSide, wire, current, rowVars, missed, skipped>>

-----------------------------------------------------------------------------
\* Position reports

\* Nothing is claimed without a live stream or after a row of no known contract.
_positions_known == liveSince # None /\ AnySymbol \notin unread

\* Mutant: an unreadable row leaves the one before it standing.
ReportedRowsUnread == IF _positions_known THEN _rows_seen_since(liveSince) ELSE {}
\* generate_position_status_reports: the rows of this stream, but for contracts whose
\* last row was unreadable.
ReportedRows == IF _positions_known THEN _rows_seen_since(liveSince) \ unread ELSE {}

\* generate_mass_status adds FLAT for what no row covers (of the contracts the engine
\* holds open, which may be any).
augment_soft_mass_flat_for_cache_opens(covered) == Contracts \ covered
generate_mass_status ==
  IF _positions_known THEN augment_soft_mass_flat_for_cache_opens(ReportedRows) ELSE {}

-----------------------------------------------------------------------------
\* The inventory of a tool without a node

\* Its order rows: the history of the order, then one row again, late.
OrderRows(c) == CASE order[c] = "none" -> <<>>
                  [] order[c] = "working" -> <<"working">>
                  [] order[c] = "partial" -> <<"working", "partial">>
                  [] order[c] = "filled" -> <<"working", "partial", "filled">>
                  [] OTHER -> <<"working", "canceled">>

\* _is_gone: terminal; a fill only when nothing is left. An unreadable row keeps it.
_is_gone(row) == row \in {"filled", "canceled"}
\* Mutant: a basket that is done is forgotten.
_ingest_order_again(inv, row) == IF _is_gone(row) THEN "done" ELSE "working"
_ingest_order(inv, row) == CASE inv = "done" -> "done"
                             [] _is_gone(row) -> "done"
                             [] OTHER -> "working"
Inventory(rs) ==
  LET held[i \in 0..Len(rs)] ==
        IF i = 0 THEN "none" ELSE _ingest_order(held[i - 1], rs[i])
  IN held[Len(rs)]

\* Its positions: the first n rows of a subscription's burst; the net of the rows in
\* `garbled` cannot be read. A contract without a position is flat.
NoInventory == [first |-> FALSE, pos |-> [c \in Contracts |-> 0], unknown |-> {}]
_ingest_position(inv, c, q) ==
  [first |-> TRUE, pos |-> [inv.pos EXCEPT ![c] = IF q = None THEN 0 ELSE q],
   unknown |-> IF q = None THEN inv.unknown \cup {c} ELSE inv.unknown \ {c}]
ingest(inv, row) ==
  IF row.c = AnySymbol THEN [first |-> TRUE, pos |-> inv.pos, unknown |-> inv.unknown]
                       ELSE _ingest_position(inv, row.c, row.q)
Polled(i, garbled) ==
  Row(Burst[i].c, IF i \in garbled THEN None ELSE Burst[i].q, Burst[i].burst)
poll_into(n, garbled) ==
  LET inv[i \in 0..n] == IF i = 0 THEN NoInventory ELSE ingest(inv[i - 1], Polled(i, garbled))
  IN inv[n]

pnl_live(inv, elapsed) == inv.first /\ inv.unknown = {} /\ elapsed >= Settle

-----------------------------------------------------------------------------
Venue == \/ Tick \/ StreamFails \/ AccountRow
         \/ \E c \in Contracts : Traded(c) \/ Filled(c) \/ OrderMoves(c)
Stream == \/ _forget_pnl_state \/ _resync_pnl_subscription \/ _recover_order_gap
          \/ poll_with_epoch \/ IgnoreOld \/ _publish_account \/ _cache_position
Answers == \/ request_exposure \/ _load_orders_events \/ DrainFails \/ _exposure_snapshot

ExposureNext == Venue \/ Stream \/ Answers
ExposureSpec == ExposureInit /\ [][ExposureNext]_exposureVars

-----------------------------------------------------------------------------
\* Properties

\* "complete is the only proof" (request_exposure): a complete reply counts the working
\* orders of its drain, and its net is the venue's, unless changes are still on their way,
\* were lost with a stream whose failure the poller has not met, or were discarded on an
\* older epoch; whatever rows linger from an earlier stream, are unreadable, or arrive in
\* the settle window.
CompleteIsTrue == /\ snap.open = snap.wasOpen
                  /\ snap.wasNet # None => snap.net = snap.wasNet

\* A position report is the venue's position, under the same reserve: no row that an
\* earlier stream left behind, and none behind an unreadable one, is reported as current.
\* Once the burst is through, a contract that a mass status calls FLAT is flat, unless its
\* last row could not be read (see README on both exceptions).
ReportIsTrue ==
  NetIsDelivered /\ ~BurstPending =>
    /\ \A c \in ReportedRows : rows[c] = net[c]
    /\ \A c \in generate_mass_status \ unread : net[c] = 0

\* What a tool without a node may rely on. "A late row must not resurrect a phantom
\* working order": whichever row of an order comes again, the order is known as working
\* exactly when it is. And pnl_live is proof: when it holds, after any part of the burst
\* that can have come by then and whatever was unreadable, the positions are the venue's.
InventoryIsTrue ==
  /\ \A c \in Contracts : \A i \in DOMAIN OrderRows(c) :
       Inventory(Append(OrderRows(c), OrderRows(c)[i])) =
         IF order[c] \in {"working", "partial"} THEN "working" ELSE "done"
  /\ \A n \in 0..Len(Burst), elapsed \in 0..Settle : \A garbled \in SUBSET (2..n) :
       (elapsed = Settle => n = Len(Burst)) =>
         (pnl_live(poll_into(n, garbled), elapsed) => poll_into(n, garbled).pos = net)
=============================================================================
