------------------------------ MODULE GwClient ------------------------------
(***************************************************************************)
(* The Python gateway client (python/rithmic_gateway): attach to a parent,  *)
(* handshake, one RPC or poll at a time over a unix socket, and the bounded *)
(* queue of events read while something else was awaited.                   *)
(*                                                                          *)
(* A frame travels as two chunks, so a read can stop in the middle of one.  *)
(* The io lock is held for a whole call, so `op` is the one call under way; *)
(* the parent process is external and takes its steps at any time.          *)
(***************************************************************************)
EXTENDS Integers, Sequences, FiniteSets, SequencesExt

CONSTANTS Streams,      \* the streams a consumer polls (order, pnl, ...)
          Kinds,        \* the requests it makes, among Rpcs
          MaxPending,   \* _MAX_PENDING_EVENTS
          MaxEvents,    \* bound: events the parent sends
          MaxCalls,     \* bound: RPCs
          MaxConns      \* bound: calls of connect

ASSUME GwAssumption == /\ MaxPending \in Nat \ {0}
                       /\ {MaxEvents, MaxCalls, MaxConns} \subseteq Nat

VARIABLES parent,   \* "absent" | "starting" (flock held, no socket) | "up"
          conn,     \* the socket's peer: "none" | "open" | "eof" | "reset"
          sock,     \* self._sock is not None
          hs,       \* a Ready was received on this socket
          wire,     \* chunks the parent wrote and the client has not received
          half,     \* the frame whose second chunk the parent still has to write
          rx,       \* self._rx: received chunks
          pending,  \* self._pending
          op,       \* the call that holds the io lock
          late,     \* the attach deadline of that call has passed
          inbox,    \* requests written and not yet read by the parent
          live,     \* requests of this connection the parent read, unanswered
          reached,  \* request ids the parent ever read
          nextId,   \* self._next_id
          conns,    \* connect calls so far
          sent,     \* events sent
          nread,    \* events read from the wire per stream
          acct,     \* per stream: events delivered or reported lost to the consumer
          last,     \* per stream: number of the newest event delivered
          res       \* what the last call returned or raised

wireVars == <<conn, wire, half, rx>>
logVars  == <<nread, acct, last>>
vars == <<parent, conn, sock, hs, wire, half, rx, pending, op, late, inbox, live,
          reached, nextId, conns, sent, nread, acct, last, res>>

NoFrame == [t |-> "none"]
Idle    == [k |-> "idle"]
Zero    == [s \in Streams |-> 0]

\* The connect call's program counter: one value per point where it can block or
\* where the parent may change state between two of its checks.
ConnectSteps == {"dial", "resolve", "wait", "redial", "lastdial", "attest", "write",
                 "hand", "hdial", "reattest"}

Init == /\ parent = "absent" /\ conn = "none" /\ sock = FALSE /\ hs = FALSE
        /\ wire = <<>> /\ half = NoFrame /\ rx = <<>> /\ pending = <<>>
        /\ op = Idle /\ late = FALSE
        /\ inbox = {} /\ live = {} /\ reached = {} /\ nextId = 1 /\ conns = 0
        /\ sent = 0 /\ nread = Zero /\ acct = Zero /\ last = Zero
        /\ res = [code |-> "ok", rid |-> 0]

-----------------------------------------------------------------------------
\* Socket and frames (framed_conn.py)

\* _dial succeeds when somebody listens; self._sock is set only then.
Listening == parent = "up"
FlockHeld == parent # "absent"

_dial == /\ sock' = TRUE /\ conn' = "open" /\ hs' = FALSE
         /\ wire' = <<>> /\ half' = NoFrame /\ rx' = <<>> /\ live' = {}

\* Closing drops the receive buffer with the socket.
_close_sock == /\ sock' = FALSE /\ conn' = "none" /\ hs' = FALSE
               /\ wire' = <<>> /\ half' = NoFrame /\ rx' = <<>> /\ live' = {}

_keep_sock == UNCHANGED <<sock, hs, live>>

Return(code, rid) == op' = Idle /\ res' = [code |-> code, rid |-> rid]

\* A call that is waiting for a frame.
Reading == op.k \in {"hand", "rpc", "poll"}

\* _fill: recv hands over whatever the kernel holds; a short read keeps it.
\* Mutant: every read starts a new buffer.
FillRestarts(got) == got
FillKeeps(got) == rx \o got

_fill == /\ Reading /\ Len(rx) < 2 /\ wire # <<>>
         /\ rx' = FillKeeps(wire) /\ wire' = <<>>
         /\ UNCHANGED <<parent, conn, sock, hs, half, pending, op, late, inbox, live,
                        reached, nextId, conns, sent, logVars, res>>

\* _read_frame: a header and its payload, cut off the front of the buffer. The
\* two chunks of a stream that stayed aligned belong to one frame.
FrameReady == Reading /\ Len(rx) >= 2
Aligned    == rx[1].part = 1 /\ rx[2].part = 2 /\ rx[1].frame = rx[2].frame
FrameRead  == IF Aligned THEN rx[1].frame ELSE [t |-> "garbage"]
CutFrame   == /\ rx' = SubSeq(rx, 3, Len(rx))
              /\ UNCHANGED <<conn, wire, half>>

\* Nothing to read: recv would block, or reports the end of the stream.
Starved == Reading /\ Len(rx) < 2 /\ wire = <<>>
Blocked == Starved /\ conn = "open"

-----------------------------------------------------------------------------
\* Attach and handshake (attach.py, flock.py, client.py)

\* connect() does nothing on a socket that is set.
connect == /\ op = Idle /\ ~sock /\ conns < MaxConns
           /\ op' = [k |-> "dial"] /\ conns' = conns + 1
           /\ UNCHANGED <<parent, wireVars, sock, hs, pending, late, inbox, live,
                          reached, nextId, sent, logVars, res>>

GoTo(step) == op' = [k |-> step] /\ res' = res

\* Every dial of _dial_with_attach, and what a refused one leads to.
_dial_with_attach ==
  /\ op.k \in {"dial", "redial", "lastdial", "hdial"}
  /\ \/ /\ Listening /\ _dial
        /\ GoTo(IF op.k = "hdial" THEN "reattest" ELSE "attest")
     \/ /\ ~Listening
        /\ CASE op.k = "dial"     -> GoTo("resolve")
             [] op.k = "redial"   -> Return("listen_path_mismatch", 0)
             [] op.k = "lastdial" -> Return("attach_error", 0)
             [] op.k = "hdial"    -> Return("os_error", 0)
        /\ UNCHANGED <<sock, hs, live, wireVars>>
  /\ UNCHANGED <<parent, pending, late, inbox, reached, nextId, conns, sent, logVars>>

\* A held flock is a parent coming up: wait for it. Otherwise none is running; the
\* socket is dialled once more in case it was bound between the dial and the check.
resolve_dial_failure ==
  /\ op.k = "resolve"
  /\ GoTo(IF FlockHeld THEN "wait" ELSE "lastdial")
  /\ late' = FALSE
  /\ UNCHANGED <<parent, wireVars, sock, hs, pending, inbox, live, reached, nextId,
                 conns, sent, logVars>>

wait_for_parent_socket ==
  /\ op.k = "wait"
  /\ \/ ~FlockHeld /\ GoTo("lastdial")
     \/ FlockHeld /\ Listening /\ GoTo("redial")
     \/ late /\ GoTo("lastdial")
  /\ UNCHANGED <<parent, wireVars, sock, hs, pending, late, inbox, live, reached,
                 nextId, conns, sent, logVars>>

\* The parent may have died since the dial: a free flock closes the socket again.
_require_parent_flock ==
  /\ op.k \in {"attest", "reattest"}
  /\ IF FlockHeld THEN GoTo("write") /\ _keep_sock /\ UNCHANGED wireVars
                  ELSE Return("parent_unattested", 0) /\ _close_sock
  /\ late' = (late /\ op.k = "reattest")   \* the handshake's own deadline starts
  /\ UNCHANGED <<parent, pending, inbox, reached, nextId, conns, sent, logVars>>

\* The handshake request is written like any frame.
_handshake_write ==
  /\ op.k = "write"
  /\ \/ conn = "open" /\ GoTo("hand") /\ _keep_sock /\ UNCHANGED wireVars
     \/ conn # "open" /\ Return("not_sent", 0) /\ _close_sock
  /\ UNCHANGED <<parent, pending, late, inbox, reached, nextId, conns, sent, logVars>>

\* Ready ends the handshake. `not_ready` (and a silent parent, below) is retried
\* on a fresh socket until the deadline.
_handshake ==
  /\ op.k = "hand" /\ FrameReady
  /\ \/ /\ FrameRead.t = "ready"
        /\ Return("ok", 0) /\ hs' = TRUE /\ CutFrame /\ UNCHANGED <<sock, live>>
     \/ /\ FrameRead.t = "not_ready"
        /\ _close_sock
        /\ IF late THEN Return("not_ready", 0) ELSE GoTo("hdial")
  /\ UNCHANGED <<parent, pending, late, inbox, reached, nextId, conns, sent, logVars>>

\* Mutant: a silent parent is retried without looking at the clock.
_handshake_retry_forever ==
  /\ op.k = "hand" /\ Blocked
  /\ _close_sock /\ GoTo("hdial")
  /\ UNCHANGED <<parent, pending, late, inbox, reached, nextId, conns, sent, logVars>>
_handshake_timeout ==
  /\ op.k = "hand" /\ Blocked
  /\ _close_sock
  /\ IF late THEN Return("timeout", 0) ELSE GoTo("hdial")
  /\ UNCHANGED <<parent, pending, late, inbox, reached, nextId, conns, sent, logVars>>

Deadline == /\ op.k \in {"wait", "hand", "hdial", "reattest", "write"} /\ ~late /\ late' = TRUE
            /\ UNCHANGED <<parent, wireVars, sock, hs, pending, op, inbox, live, reached,
                           nextId, conns, sent, logVars, res>>

\* Detach: the parent is told (its answer or failure is ignored), the socket and
\* the queued events go.
disconnect == /\ op = Idle /\ sock
              /\ _close_sock /\ pending' = <<>>
              /\ nread' = Zero /\ acct' = Zero /\ last' = Zero
              /\ res' = [code |-> "ok", rid |-> 0]
              /\ UNCHANGED <<parent, op, late, inbox, reached, nextId, conns, sent>>

-----------------------------------------------------------------------------
\* RPCs (client.py)

\* The public methods, by what they put on the wire. Subscriptions, plant control
\* and order commands are answered by a bare Ack; a query or a history load by a
\* body of its own kind, and any other body is a protocol error.
StreamRpcs  == {"subscribe", "unsubscribe", "subscribe_order_book_summary",
                "unsubscribe_order_book_summary", "request_plants"}
PlantRpcs   == {"subscribe_time_bars", "unsubscribe_time_bars", "subscribe_pnl",
                "ensure_pnl_plant", "ensure_order_plant", "disconnect_pnl_plant",
                "subscribe_order_updates", "subscribe_bracket_updates",
                "disconnect_order_plant", "reset_ticker_plant"}
OrderRpcs   == {"place_order", "place_bracket_order", "adjust_bracket_stop",
                "adjust_bracket_target", "cancel_order", "modify_order",
                "cancel_all_orders"}
QueryRpcs   == {"get_front_month", "get_reference_data", "get_live_md_state",
                "resolved_account", "load_orders", "load_product_rms_info",
                "load_account_rms_info", "load_fill_history",
                "load_order_history_dates", "load_order_history"}
HistoryRpcs == {"load_ticks", "load_time_bars", "probe_time_bars"}
AckRpcs == StreamRpcs \cup PlantRpcs \cup OrderRpcs
Rpcs    == AckRpcs \cup QueryRpcs \cup HistoryRpcs
BodyFor(kind) == IF kind \in AckRpcs THEN "ack" ELSE kind

ASSUME KindsAssumption == Kinds \subseteq Rpcs

\* A write that fails never left: the socket is closed and the call is not_sent.
_write_frame(kind) ==
  LET rid == nextId IN
  /\ op = Idle /\ sock /\ nextId <= MaxCalls
  /\ nextId' = nextId + 1
  /\ \/ /\ conn = "open"
        /\ inbox' = inbox \cup {rid}
        /\ op' = [k |-> "rpc", rid |-> rid, kind |-> kind] /\ res' = res
        /\ _keep_sock /\ UNCHANGED wireVars
     \/ /\ conn # "open"
        /\ Return("not_sent", rid) /\ _close_sock /\ UNCHANGED inbox
  /\ UNCHANGED <<parent, pending, late, reached, conns, sent, logVars>>

NotConnected == /\ op = Idle /\ ~sock /\ res.code # "not_connected"
                /\ Return("not_connected", 0)
                /\ UNCHANGED <<parent, wireVars, sock, hs, pending, late, inbox, live,
                               reached, nextId, conns, sent, logVars>>

\* One round of _queue_event's loop: drop the oldest data event; its loss is added
\* to its stream's report at the head of the queue, or becomes a new one there.
IsGap(e) == e.t = "gap"
FirstData(q) == SelectInSeq(q, LAMBDA e : ~IsGap(e))
FirstOf(q, s) == SelectInSeq(q, LAMBDA e : e.s = s)
HeadReport(q, first, s) == FirstOf(SubSeq(q, 1, first - 1), s)
\* Mutant: the dropped event leaves no report.
DropSilently(q) == RemoveAt(q, FirstData(q))
DropOldest(q) ==
  LET first == FirstData(q)
      s     == q[first].s
      rest  == RemoveAt(q, first)
      i     == HeadReport(q, first, s)
  IN IF i # 0 THEN [rest EXCEPT ![i].n = @ + 1]
              ELSE <<[t |-> "gap", s |-> s, n |-> 1]>> \o rest

\* Dropping stops below the bound, or when only loss reports are queued. A round
\* takes a data event out of the queue, so Len(q) rounds are enough.
Round(q) == IF Len(q) < MaxPending \/ FirstData(q) = 0 THEN q ELSE DropOldest(q)
Rounds(q) == LET after[n \in Nat] == IF n = 0 THEN q ELSE Round(after[n - 1]) IN after
MakeRoom(q) == Rounds(q)[Len(q)]
_queue_event(q, e) == Append(MakeRoom(q), e)

Numbered(f) == [t |-> "data", s |-> f.s, n |-> nread[f.s] + 1]

\* What a frame that is not an event means to the RPC that reads it.
Outcome(f) ==
  CASE f.t = "error" /\ f.rid = op.rid -> "refused"
    [] f.t = "answer" /\ f.rid = op.rid /\ f.body = BodyFor(op.kind) -> "ok"
    [] OTHER -> "protocol"

\* The read loop of an RPC: events are queued, the answer to this request is
\* returned or raised, any other frame is a protocol error.
_rpc_unlocked ==
  /\ op.k = "rpc" /\ FrameReady /\ CutFrame /\ _keep_sock
  /\ LET f == FrameRead IN
     \/ /\ f.t = "event"
        /\ pending' = _queue_event(pending, Numbered(f))
        /\ nread' = [nread EXCEPT ![f.s] = @ + 1]
        /\ UNCHANGED <<op, res, acct, last>>
     \/ /\ f.t # "event"
        /\ Return(Outcome(f), op.rid) /\ UNCHANGED <<pending, logVars>>
  /\ UNCHANGED <<parent, late, inbox, reached, nextId, conns, sent>>

\* Mutant: the socket stays open after a timeout.
_rpc_timeout_open == /\ op.k = "rpc" /\ Blocked
                     /\ Return("timeout", op.rid)
                     /\ UNCHANGED <<parent, wireVars, sock, hs, pending, late, inbox,
                                    live, reached, nextId, conns, sent, logVars>>
\* Mutant: a request without an answer is called not sent.
_rpc_timeout_denied == /\ op.k = "rpc" /\ Blocked
                       /\ Return("not_sent", op.rid) /\ _close_sock
                       /\ UNCHANGED <<parent, pending, late, inbox, reached, nextId,
                                      conns, sent, logVars>>
\* A request whose answer does not come: the socket is closed, so that the late
\* answer cannot meet the next request.
_rpc_timeout == /\ op.k = "rpc" /\ Blocked
                /\ Return("timeout", op.rid) /\ _close_sock
                /\ UNCHANGED <<parent, pending, late, inbox, reached, nextId, conns,
                               sent, logVars>>

-----------------------------------------------------------------------------
\* Polls (client.py)

\* The queue is searched by taking from the front and putting back at the end.
Rotate(q, k) == SubSeq(q, k + 1, Len(q)) \o SubSeq(q, 1, k - 1)

\* What a consumer of stream s has been told so far.
Deliver(e) ==
  IF IsGap(e) THEN /\ acct' = [acct EXCEPT ![e.s] = @ + e.n]
                   /\ last' = last
              ELSE /\ acct' = [acct EXCEPT ![e.s] = @ + 1]
                   /\ last' = [last EXCEPT ![e.s] = IF e.n > @ THEN e.n ELSE @]

_poll_pending(s) ==
  LET k == FirstOf(pending, s) IN
  /\ op = Idle /\ sock
  /\ k # 0
  /\ pending' = Rotate(pending, k)
  /\ Deliver(pending[k])
  /\ res' = [code |-> "event", rid |-> 0]
  /\ UNCHANGED <<parent, wireVars, sock, hs, op, late, inbox, live, reached, nextId,
                 conns, sent, nread>>

\* Nothing queued for the stream: read frames, for a while or (timeout 0) one.
_poll_filtered(s, timed) ==
  /\ op = Idle /\ sock
  /\ \A i \in DOMAIN pending : pending[i].s # s
  /\ op' = [k |-> "poll", s |-> s, timed |-> timed] /\ res' = res
  /\ UNCHANGED <<parent, wireVars, sock, hs, pending, late, inbox, live, reached,
                 nextId, conns, sent, logVars>>

_poll_read ==
  /\ op.k = "poll" /\ FrameReady /\ CutFrame /\ _keep_sock
  /\ LET f == FrameRead
         e == Numbered(f)
     IN
     IF f.t = "event"
     THEN /\ nread' = [nread EXCEPT ![f.s] = @ + 1]
          /\ \/ f.s = op.s /\ Deliver(e) /\ Return("event", 0) /\ UNCHANGED pending
             \/ /\ f.s # op.s
                /\ pending' = _queue_event(pending, e)
                /\ IF op.timed THEN UNCHANGED <<op, res>> ELSE Return("none", 0)
                /\ UNCHANGED <<acct, last>>
     ELSE /\ CASE f.t = "error" -> Return("refused", 0)
               [] f.t # "error" /\ op.timed -> UNCHANGED <<op, res>>
               [] OTHER -> Return("none", 0)
          /\ UNCHANGED <<pending, logVars>>
  /\ UNCHANGED <<parent, late, inbox, reached, nextId, conns, sent>>

\* A poll that runs out of time returns nothing and keeps what it received.
_poll_timeout == /\ op.k = "poll" /\ Blocked
                 /\ Return("none", 0)
                 /\ UNCHANGED <<parent, wireVars, sock, hs, pending, late, inbox, live,
                                reached, nextId, conns, sent, logVars>>

\* The end of the stream closes the socket, in every read. A reset is an OSError
\* of recv that none of the reads handle.
FatalRead == /\ Starved /\ conn \in {"eof", "reset"}
             /\ Return(conn, IF op.k = "rpc" THEN op.rid ELSE 0)
             /\ IF conn = "eof" THEN _close_sock
                ELSE UNCHANGED <<sock, hs, live, wireVars>>
             /\ UNCHANGED <<parent, pending, late, inbox, reached, nextId, conns, sent,
                            logVars>>

-----------------------------------------------------------------------------
\* The parent process (external)

ParentStarts == /\ parent = "absent" /\ parent' = "starting"
                /\ UNCHANGED <<wireVars, sock, hs, pending, op, late, inbox, live,
                               reached, nextId, conns, sent, logVars, res>>
ParentBinds == /\ parent = "starting" /\ parent' = "up"
               /\ UNCHANGED <<wireVars, sock, hs, pending, op, late, inbox, live,
                              reached, nextId, conns, sent, logVars, res>>

\* A dying parent ends the connection; data it had not read makes that a reset.
Unread == op.k = "hand" \/ (op.k = "rpc" /\ op.rid \in inbox)
ParentDies == /\ parent = "up" /\ parent' = "absent"
              /\ conn' = IF conn # "open" THEN conn
                         ELSE IF Unread THEN "reset" ELSE "eof"
              /\ half' = NoFrame /\ inbox' = {} /\ live' = {}
              /\ UNCHANGED <<wire, rx, sock, hs, pending, op, late, reached, nextId,
                             conns, sent, logVars, res>>

\* A frame is written in two steps; frames are written one after the other.
Emit(f) == /\ parent = "up" /\ conn = "open" /\ half = NoFrame
           /\ wire' = Append(wire, [frame |-> f, part |-> 1]) /\ half' = f
           /\ UNCHANGED <<parent, conn, rx, sock, hs, pending, op, late, reached, nextId,
                          conns, logVars, res>>
ParentFlushes == /\ half # NoFrame
                 /\ wire' = Append(wire, [frame |-> half, part |-> 2])
                 /\ half' = NoFrame
                 /\ UNCHANGED <<parent, conn, rx, sock, hs, pending, op, late, inbox,
                                live, reached, nextId, conns, sent, logVars, res>>

ParentGreets == /\ op.k = "hand" /\ wire = <<>> /\ rx = <<>>
                /\ \E t \in {"ready", "not_ready"} : Emit([t |-> t])
                /\ UNCHANGED <<inbox, live, sent>>
ParentEvent(s) == /\ hs /\ sent < MaxEvents
                  /\ Emit([t |-> "event", s |-> s])
                  /\ sent' = sent + 1
                  /\ UNCHANGED <<inbox, live>>
ParentTakes(rid) == /\ parent = "up" /\ rid \in inbox
                    /\ inbox' = inbox \ {rid} /\ reached' = reached \cup {rid}
                    /\ live' = IF op.k = "rpc" /\ op.rid = rid THEN live \cup {rid}
                               ELSE live
                    /\ UNCHANGED <<parent, wireVars, sock, hs, pending, op, late, nextId,
                                   conns, sent, logVars, res>>
ParentAnswers(rid) ==
  /\ rid \in live /\ live' = live \ {rid}
  /\ \E f \in {[t |-> "error", rid |-> rid]} \cup
              {[t |-> "answer", rid |-> rid, body |-> BodyFor(kind)] :
                 kind \in {k \in Kinds : op.k = "rpc" /\ op.kind = k}} : Emit(f)
  /\ UNCHANGED <<inbox, sent>>

-----------------------------------------------------------------------------
Calls == \/ connect \/ disconnect \/ NotConnected
         \/ \E kind \in Kinds : _write_frame(kind)
         \/ \E s \in Streams : _poll_pending(s)
         \/ \E s \in Streams, timed \in BOOLEAN : _poll_filtered(s, timed)

CallSteps == \/ _dial_with_attach \/ resolve_dial_failure \/ wait_for_parent_socket
             \/ _require_parent_flock \/ _handshake_write \/ _handshake
             \/ _handshake_timeout \/ _fill \/ _rpc_unlocked \/ _rpc_timeout
             \/ _poll_read \/ _poll_timeout \/ FatalRead

ParentSteps == \/ ParentStarts \/ ParentBinds \/ ParentDies \/ ParentFlushes
               \/ ParentGreets
               \/ \E s \in Streams : ParentEvent(s)
               \/ \E rid \in 1..MaxCalls : ParentTakes(rid) \/ ParentAnswers(rid)

Next == Calls \/ CallSteps \/ ParentSteps \/ Deadline

\* The thread inside a call keeps running and clocks advance; nothing is assumed
\* of the parent, which may be silent for ever.
Spec == Init /\ [][Next]_vars /\ WF_vars(CallSteps) /\ WF_vars(Deadline)
-----------------------------------------------------------------------------
\* Properties

Frames == {[t |-> "ready"], [t |-> "not_ready"]}
          \cup [t : {"event"}, s : Streams]
          \cup [t : {"error"}, rid : 1..MaxCalls]
          \cup [t : {"answer"}, rid : 1..MaxCalls, body : {BodyFor(k) : k \in Kinds}]
Chunks == [frame : Frames, part : {1, 2}]

\* The state is made of the values it is meant to hold.
TypeOK ==
  /\ parent \in {"absent", "starting", "up"}
  /\ conn \in {"none", "open", "eof", "reset"}
  /\ sock \in BOOLEAN /\ hs \in BOOLEAN /\ late \in BOOLEAN
  /\ \A i \in DOMAIN wire : wire[i] \in Chunks
  /\ \A i \in DOMAIN rx : rx[i] \in Chunks
  /\ half \in Frames \cup {NoFrame}
  /\ \A i \in DOMAIN pending : /\ pending[i].t \in {"data", "gap"}
                               /\ pending[i].s \in Streams
                               /\ pending[i].n \in Nat \ {0}
  /\ op.k \in ConnectSteps \cup {"idle", "rpc", "poll"}
  /\ inbox \subseteq 1..MaxCalls /\ live \subseteq 1..MaxCalls
  /\ reached \subseteq 1..MaxCalls
  /\ nextId \in 1..(MaxCalls + 1) /\ conns \in 0..MaxConns
  /\ {nread, acct, last} \subseteq [Streams -> Nat] /\ sent \in 0..MaxEvents
  /\ res.rid \in 0..MaxCalls

\* Events of s in the queue: waiting, or counted by a waiting loss report.
Weight(e, s) == IF e.s # s THEN 0 ELSE IF IsGap(e) THEN e.n ELSE 1
Units(q, s) == UNION {{i} \X (1..Weight(q[i], s)) : i \in 1..Len(q)}
Waiting(s) == Cardinality(Units(pending, s))

\* Past the bound the oldest events are dropped and reported, never silently
\* (_queue_event): whatever was read from the wire on a stream has been delivered,
\* has been reported lost, or waits in the queue as one or the other. It has to
\* survive searches of the queue for other streams, overflows in the middle of an
\* RPC and reconnects, which keep the queue.
NothingVanishes == \A s \in Streams : nread[s] = acct[s] + Waiting(s)

\* A timed-out RPC closes its socket so that the late answer cannot meet the next
\* request (_rpc_unlocked): on an open connection an answer on the wire or in the
\* buffer is the answer to the request that is waiting for one.
AnswerMeetsItsRequest ==
  conn = "open" => \A c \in Range(wire \o rx) :
    c.frame.t \in {"answer", "error"} => op.k = "rpc" /\ op.rid = c.frame.rid

\* "A failure here means the request never left" (_write_frame): the caller denies
\* such an order, so the parent must never have read it, nor read it later.
NotSentNeverReached == res.code = "not_sent" => res.rid \notin reached \cup inbox

\* A read that stops inside a frame keeps what it got, and a new socket starts with
\* an empty buffer (_fill, _close_sock): frames are cut where the parent cut them.
StreamStaysAligned == Len(rx) >= 2 => Aligned

\* The queue holds no more events than its bound (_queue_event), however searches
\* that reorder it and overflows interleave; loss reports come on top.
QueueBounded == Len(SelectSeq(pending, LAMBDA e : ~IsGap(e))) <= MaxPending

\* Every call ends although the parent may hang at any point: the waits for a parent,
\* for Ready and for an answer are bounded (_handshake_until_ready and the timeouts).
CallsReturn == op # Idle ~> op = Idle

\* "the loss is reported before what followed it" (test_rithmic_gateway_client.py):
\* when the event numbered n is delivered, the n - 1 before it were delivered or
\* reported lost.
LossReportedFirst == \A s \in Streams : last[s] <= acct[s]

\* "A fatal wire error leaves the stream unusable: close and null self._sock"
\* (_rpc_unlocked): after a call ended by one, the client is not connected.
FatalCloses == res.code \in {"eof", "reset"} /\ op = Idle => ~sock
=============================================================================
