------------------------------ MODULE ExecPlant ------------------------------
(***************************************************************************)
(* When the Nautilus execution client lets orders out: the order plant's    *)
(* state, the re-arm barrier that opens it, and everything that runs on or  *)
(* beside the client's event loop and moves it - connect and disconnect,    *)
(* the transport recovery bridge and its restore task, the order and PnL    *)
(* pollers, and commands in flight (execution.py, recovery_bridge.py,       *)
(* polling.py, _order_plant.py).                                            *)
(*                                                                          *)
(* A barrier re-reads the venue (working-orders drain, then a fresh PnL     *)
(* observation) and re-arms. Three kinds of code run one: connect, the      *)
(* restore task, and an order poller whose stream lost events. An action is *)
(* the code between two awaits, so they interleave at every await; session  *)
(* calls run in threads and end well or badly. History variables say what   *)
(* the venue may hide: `unread` holds from an anomaly (transport break,     *)
(* unknown command outcome, lost order events) until a drain that began     *)
(* after it has been applied.                                               *)
(***************************************************************************)
EXTENDS Integers, Sequences, FiniteSets

CONSTANTS Pollers,      \* order poller tasks that may exist
          NoPoller,     \* no task: self._order_poll_task is None
          MaxAttempts,  \* TransportRecoveryBridge.max_attempts
          MaxGen,       \* bound: Resumed events
          MaxQueue,     \* bound: callbacks waiting on the loop
          MaxConnects   \* bound: calls of connect

Runners == {"main", "restore"}
Barriers == Runners \cup Pollers

ASSUME PlantAssumption ==
  /\ MaxAttempts \in Nat \ {0} /\ {MaxGen, MaxQueue, MaxConnects} \subseteq Nat
  /\ NoPoller \notin Pollers /\ Runners \cap Pollers = {}

VARIABLES plant,     \* OrderPlantPolicy state
          main,      \* connect / disconnect: "off" "dial" "pnl" "bar" "acct" "on" "stop"
          connects,  \* calls of connect so far
          bar,       \* per barrier: "idle" "pre" "subs" "load" "wait" "ready"
          poll,      \* per order poller: "none" "poll" "resync" "bar" "sleep" "dead"
          cur,       \* self._order_poll_task
          pnl,       \* PnL poller: "none" "idle" "poll" "dead"
          pnlConn,   \* self._pnl_connected
          observed,  \* self._pnl_snapshot_observed
          current,   \* the PnL poll in flight has poll_epoch == self._pnl_epoch
          cmd,       \* an order command is in flight in a thread
          att,       \* the bridge is subscribed to session events
          lq,        \* callbacks queued on the loop by the transport thread
          task,      \* restore task: [pc, gen, attempt]
          pendGen,   \* bridge._pending_generation
          lastGen,   \* bridge.last_generation
          up,        \* the session's transport: "up" "down" "failed"
          gen,       \* transport generation
          unread, fresh, shared, alone,  \* history: see above
          since, seen,                   \* history: PnL evidence per barrier
          owed                           \* history: the Resumed still to be acted on

bridgeVars == <<att, lq, task, pendGen, lastGen, owed>>
pnlVars    == <<pnl, pnlConn, observed, current, since, seen>>
drainVars  == <<unread, fresh>>
envVars    == <<up, gen>>
vars == <<plant, main, connects, bar, poll, cur, pnl, pnlConn, observed, current, cmd,
          att, lq, task, pendGen, lastGen, up, gen, unread, fresh, shared, alone,
          since, seen, owed>>

NoTask == [pc |-> "none", gen |-> 0, attempt |-> 0]
Alive(p) == p \in Pollers /\ poll[p] \notin {"none", "dead"}
Open(b) == bar[b] # "idle"
None == [b \in Barriers |-> FALSE]

Init == /\ plant = "disconnected" /\ main = "off" /\ connects = 0
        /\ bar = [b \in Barriers |-> "idle"]
        /\ poll = [p \in Pollers |-> "none"] /\ cur = NoPoller
        /\ pnl = "none" /\ pnlConn = FALSE /\ observed = FALSE /\ current = FALSE
        /\ cmd = FALSE
        /\ att = FALSE /\ lq = <<>> /\ task = NoTask /\ pendGen = 0 /\ lastGen = 0
        /\ up = "up" /\ gen = 0
        /\ unread = TRUE /\ fresh = None /\ shared = None /\ alone = FALSE
        /\ since = None /\ seen = None /\ owed = 0

-----------------------------------------------------------------------------
\* The plant machine (OrderPlantPolicy): each transition as the next state.

resync_start    == CASE plant \in {"latched", "disconnected"} -> plant
                     [] plant = "connecting" -> "latched"
                     [] OTHER -> "resyncing"
resync_complete == IF plant = "resyncing" THEN "live" ELSE plant
resync_failed   == IF plant = "latched" THEN "latched" ELSE "disconnected"

\* Mutant: the poll task is not asked for.
ArmsBlind(pollAlive) == plant = "connecting"
\* The only arming transition: from CONNECTING with a live poll task.
Arms(pollAlive) == plant = "connecting" /\ pollAlive
rearm(pollAlive) == CASE plant = "latched" -> "latched"
                      [] Arms(pollAlive) -> "live"
                      [] OTHER -> "disconnected"

allow_submit == plant = "live"

-----------------------------------------------------------------------------
\* What every barrier does

\* begin_connect, and for the record: any other open barrier shares its token now.
begin_connect(b) ==
  /\ plant' = "connecting"
  /\ shared' = [c \in Barriers |-> c # b /\ bar[c] \notin {"idle", "pre"}]

\* An anomaly the next drain has to see; drains already under way do not count.
Anomaly == unread' = TRUE /\ fresh' = None
NoAnomaly == UNCHANGED drainVars

\* A barrier ends: what the record says of it is of no more use.
Drop(f, bs) == [b \in Barriers |-> f[b] /\ b \notin bs]
CloseBarriers(bs) ==
  /\ bar' = [b \in Barriers |-> IF b \in bs THEN "idle" ELSE bar[b]]
  /\ shared' = Drop(shared, bs) /\ fresh' = Drop(fresh, bs)
  /\ since' = Drop(since, bs) /\ seen' = Drop(seen, bs)

\* Mutant: the poll in flight keeps its epoch.
forget_pnl_late(bs) == /\ observed' = FALSE /\ UNCHANGED current
                       /\ since' = Drop(since, bs) /\ seen' = Drop(seen, bs)
\* Invalidate PnL evidence: a poll in flight is on an older epoch from now on.
\* Barrier b (if any) opens here.
forget_pnl(bs) == /\ observed' = FALSE /\ current' = FALSE
                  /\ since' = Drop(since, bs) /\ seen' = Drop(seen, bs)

\* _rearm_after_reconnect: the drain is loaded in a thread ...
StartLoad(b) == /\ bar' = [bar EXCEPT ![b] = "load"]
                /\ fresh' = [fresh EXCEPT ![b] = TRUE]

\* ... and applied; then the PnL gate, when a PnL stream is connected.
ApplyDrain(b) == unread' = (unread /\ ~fresh[b])
Loaded(b) ==
  /\ bar[b] = "load"
  /\ bar' = [bar EXCEPT ![b] = IF pnlConn /\ ~observed THEN "wait" ELSE "ready"]
  /\ ApplyDrain(b)
  /\ seen' = [seen EXCEPT ![b] = @ \/ ~pnlConn]   \* no stream, no gate to pass
  /\ UNCHANGED <<plant, main, connects, poll, cur, pnl, pnlConn, observed, current,
                 since, cmd, bridgeVars, envVars, fresh, shared, alone>>

\* The load failed, or no PnL row came in time: the barrier raises.
BarrierRaises(b) == bar[b] \in {"load", "wait"}

\* The barrier is through and rearm answers.
Finish(b, pollAlive) ==
  /\ bar[b] = "ready"
  /\ plant' = rearm(pollAlive)
  /\ alone' = IF Arms(pollAlive) THEN ~shared[b] ELSE alone
  /\ CloseBarriers({b})

-----------------------------------------------------------------------------
\* Connect and disconnect (RithmicExecutionClient)

\* _stop_background: detach the bridge, cancel the restore task and both pollers.
detach == /\ att' = FALSE /\ task' = NoTask /\ pendGen' = 0 /\ lastGen' = 0
          /\ owed' = 0 /\ lq' = lq
Cancel(p) == IF p \in Pollers THEN [poll EXCEPT ![p] = "dead"] ELSE poll
_stop_background ==
  /\ detach
  /\ poll' = Cancel(cur) /\ cur' = NoPoller
  /\ CloseBarriers(Runners \cup {cur})
  /\ pnl' = "none" /\ current' = FALSE
  /\ UNCHANGED <<pnlConn, observed>>

\* A failed connect tears down what it started. The plant is left as it is.
ConnectFails ==
  /\ main' = "off" /\ _stop_background
  /\ UNCHANGED <<connects, cmd, envVars, alone>>

_connect == /\ main = "off" /\ connects < MaxConnects
            /\ main' = "dial" /\ connects' = connects + 1
            /\ forget_pnl({"main"}) /\ bar' = [bar EXCEPT !["main"] = "pre"]
            /\ UNCHANGED <<plant, poll, cur, pnl, pnlConn, cmd, bridgeVars, envVars,
                           drainVars, shared, alone>>

\* ensure_connected returned: listen to the session and open the gates.
_connect_dialled ==
  /\ main = "dial"
  /\ \/ /\ up # "failed" /\ main' = "pnl" /\ att' = TRUE /\ pnlConn' = FALSE
        /\ UNCHANGED <<lq, task, pendGen, lastGen, owed, plant, connects, bar, poll, cur,
                       pnl, observed, current, since, seen, cmd, envVars, drainVars,
                       shared, alone>>
     \/ ConnectFails /\ UNCHANGED <<plant, unread>>

\* subscribe_pnl succeeded and its poller runs, or it failed and soft_fail_pnl says to go
\* on without; then the barrier. Else connect raises.
_connect_pnl ==
  /\ main = "pnl"
  /\ \/ /\ \/ pnl' = "idle" /\ pnlConn' = TRUE
           \/ UNCHANGED <<pnl, pnlConn>>
        /\ main' = "bar" /\ bar' = [bar EXCEPT !["main"] = "subs"]
        /\ begin_connect("main")
        /\ UNCHANGED <<connects, poll, cur, observed, current, since, seen, cmd, bridgeVars,
                       envVars, drainVars, alone>>
     \/ ConnectFails /\ UNCHANGED <<plant, unread>>

\* The order subscriptions are up: the poll task starts before the barrier reads.
_make_poll_task(p) == /\ poll[p] \in {"none", "dead"}
                      /\ poll' = [poll EXCEPT ![p] = "poll"] /\ cur' = p
_connect_subscribed ==
  /\ main = "bar" /\ bar["main"] = "subs"
  /\ \/ /\ \E p \in Pollers : _make_poll_task(p)
        /\ StartLoad("main")
        /\ UNCHANGED <<plant, main, connects, pnlVars, cmd, bridgeVars, envVars, unread,
                       shared, alone>>
     \/ /\ plant' = "disconnected"
        /\ ConnectFails /\ UNCHANGED unread

\* A barrier that raises latches the plant; connect carries on un-armed.
_connect_barrier_raises ==
  /\ main = "bar" /\ BarrierRaises("main")
  /\ plant' = "latched" /\ main' = "acct" /\ CloseBarriers({"main"})
  /\ UNCHANGED <<connects, poll, cur, pnl, pnlConn, observed, current, cmd, bridgeVars,
                 envVars, unread, alone>>
_connect_rearm ==
  /\ main = "bar" /\ Finish("main", Alive(cur)) /\ main' = "acct"
  /\ UNCHANGED <<connects, poll, cur, pnl, pnlConn, observed, current, cmd, bridgeVars,
                 envVars, unread>>

\* _await_account_registered: the account shows up in the cache, or connect raises.
_connect_account ==
  /\ main = "acct"
  /\ \/ /\ main' = "on"
        /\ UNCHANGED <<plant, connects, bar, poll, cur, pnlVars, cmd, bridgeVars, envVars,
                       drainVars, shared, alone>>
     \/ ConnectFails /\ UNCHANGED <<plant, unread>>

_disconnect ==
  /\ main = "on" /\ main' = "stop" /\ plant' = "disconnected" /\ _stop_background
  /\ UNCHANGED <<connects, cmd, envVars, unread, alone>>
_disconnected ==
  /\ main = "stop" /\ main' = "off"
  /\ UNCHANGED <<plant, connects, bar, poll, cur, pnlVars, cmd, bridgeVars, envVars,
                 drainVars, shared, alone>>

-----------------------------------------------------------------------------
\* Transport recovery bridge

Hop(e) == lq' = Append(lq, e)
\* Mutant: the plant is latched by the queued handler only.
Interrupted_by_loop ==
  /\ up = "up" /\ up' = "down" /\ Anomaly
  /\ \/ /\ att /\ Len(lq) < MaxQueue
        /\ Hop([t |-> "down", gen |-> 0]) /\ owed' = 0
     \/ ~att /\ UNCHANGED <<lq, owed>>
  /\ UNCHANGED <<plant, main, connects, bar, poll, cur, pnlVars, cmd, att, task, pendGen,
                 lastGen, gen, shared, alone>>
\* on_event, on the transport thread. Down and Failed latch the plant at once and
\* queue their handler; Resumed queues the start of a restore.
Interrupted ==
  /\ up = "up" /\ up' = "down" /\ Anomaly
  /\ \/ /\ att /\ Len(lq) < MaxQueue
        /\ plant' = "latched" /\ Hop([t |-> "down", gen |-> 0]) /\ owed' = 0
     \/ ~att /\ UNCHANGED <<plant, lq, owed>>
  /\ UNCHANGED <<main, connects, bar, poll, cur, pnlVars, cmd, att, task, pendGen,
                 lastGen, gen, shared, alone>>
RecoveryFailed ==
  /\ up = "down" /\ up' = "failed" /\ Anomaly
  /\ \/ /\ att /\ Len(lq) < MaxQueue
        /\ plant' = "latched" /\ Hop([t |-> "down", gen |-> 0]) /\ owed' = 0
     \/ ~att /\ UNCHANGED <<plant, lq, owed>>
  /\ UNCHANGED <<main, connects, bar, poll, cur, pnlVars, cmd, att, task, pendGen,
                 lastGen, gen, shared, alone>>
Resumed ==
  /\ up \in {"down", "up"} /\ up' = "up" /\ gen < MaxGen /\ gen' = gen + 1
  /\ \/ /\ att /\ Len(lq) < MaxQueue
        /\ Hop([t |-> "start", gen |-> gen + 1]) /\ owed' = gen + 1
     \/ ~att /\ UNCHANGED <<lq, owed>>
  /\ UNCHANGED <<plant, main, connects, bar, poll, cur, pnlVars, cmd, att, task, pendGen,
                 lastGen, drainVars, shared, alone>>

\* _stop_restore: a new break ends a restore that is running and one that waits.
_stop_restore ==
  /\ lq # <<>> /\ Head(lq).t = "down" /\ lq' = Tail(lq)
  /\ plant' = "latched"
  /\ task' = NoTask /\ pendGen' = 0 /\ CloseBarriers({"restore"})
  /\ UNCHANGED <<main, connects, poll, cur, pnl, pnlConn, observed, current, cmd, att,
                 lastGen, owed, envVars, unread, alone>>

\* One attempt of the restore: pre-Resumed evidence is discarded, the barrier opens.
BeginAttempt(g, n) ==
  /\ task' = [pc |-> "bar", gen |-> g, attempt |-> n]
  /\ bar' = [bar EXCEPT !["restore"] = "subs"]
  /\ forget_pnl({"restore"})
  /\ begin_connect("restore")

\* Mutant: a restore that runs makes the next Resumed superfluous.
_start_single_flight ==
  /\ lq # <<>> /\ Head(lq).t = "start" /\ lq' = Tail(lq)
  /\ LET g == Head(lq).gen IN
     IF g <= lastGen \/ task.pc # "none"
     THEN UNCHANGED <<task, bar, observed, current, since, seen, plant, shared>>
     ELSE BeginAttempt(g, 1)
  /\ UNCHANGED <<main, connects, poll, cur, pnl, pnlConn, cmd, att, pendGen, lastGen, owed,
                 envVars, drainVars, alone>>

\* schedule's _start: skip a stale generation, keep a newer one behind a running
\* restore, else start.
_start ==
  /\ lq # <<>> /\ Head(lq).t = "start" /\ lq' = Tail(lq)
  /\ LET g == Head(lq).gen IN
     \/ /\ g <= lastGen
        /\ UNCHANGED <<task, pendGen, bar, observed, current, since, seen, plant, shared>>
     \/ /\ g > lastGen /\ task.pc # "none"
        /\ pendGen' = IF g > pendGen THEN g ELSE pendGen
        /\ UNCHANGED <<task, bar, observed, current, since, seen, plant, shared>>
     \/ /\ g > lastGen /\ task.pc = "none"
        /\ BeginAttempt(g, 1) /\ UNCHANGED pendGen
  /\ UNCHANGED <<main, connects, poll, cur, pnl, pnlConn, cmd, att, lastGen, owed,
                 envVars, drainVars, alone>>

\* subscribe_pnl, subscribe_order_updates, subscribe_bracket_updates; pollers that
\* are gone are started again.
_restore_subscribed ==
  /\ task.pc = "bar" /\ bar["restore"] = "subs"
  /\ pnl' = IF pnlConn /\ pnl \in {"none", "dead"} THEN "idle" ELSE pnl
  /\ IF Alive(cur) THEN UNCHANGED <<poll, cur>> ELSE \E p \in Pollers : _make_poll_task(p)
  /\ StartLoad("restore")
  /\ UNCHANGED <<plant, main, connects, pnlConn, observed, current, since, seen, cmd,
                 bridgeVars, envVars, unread, shared, alone>>

\* What follows the last attempt of a generation (_run): a newer one that waited, or
\* the end of the task with the plant left as `state`.
EndGeneration(last, state) ==
  /\ pendGen' = 0
  /\ IF pendGen > task.gen /\ pendGen > last
     THEN BeginAttempt(pendGen, 1) /\ UNCHANGED fresh
     ELSE /\ task' = NoTask /\ plant' = state
          /\ CloseBarriers({"restore"}) /\ UNCHANGED <<observed, current>>

\* A failed attempt re-latches (on_attempt_failed) and sleeps, or was the last one.
_attempt_failed ==
  /\ task.pc = "bar"
  /\ \/ bar["restore"] = "subs"
     \/ BarrierRaises("restore")
     \/ bar["restore"] = "ready" /\ ~Arms(Alive(cur))
  /\ IF task.attempt < MaxAttempts
     THEN /\ task' = [task EXCEPT !.pc = "sleep"] /\ plant' = "latched"
          /\ CloseBarriers({"restore"}) /\ UNCHANGED <<pendGen, observed, current, owed>>
     ELSE /\ EndGeneration(lastGen, "latched")
          /\ owed' = IF owed = task.gen THEN 0 ELSE owed   \* exhausted, and logged
  /\ UNCHANGED <<main, connects, poll, cur, pnl, pnlConn, cmd, att, lq, lastGen, envVars,
                 unread, alone>>
_attempt_again ==
  /\ task.pc = "sleep" /\ BeginAttempt(task.gen, task.attempt + 1)
  /\ UNCHANGED <<main, connects, poll, cur, pnl, pnlConn, cmd, att, lq, pendGen, lastGen,
                 owed, envVars, drainVars, alone>>

\* The re-arm succeeded: the generation is done.
_attempt_succeeded ==
  /\ task.pc = "bar" /\ bar["restore"] = "ready" /\ Arms(Alive(cur))
  /\ alone' = ~shared["restore"]
  /\ lastGen' = task.gen
  /\ EndGeneration(task.gen, "live")
  /\ UNCHANGED <<main, connects, poll, cur, pnl, pnlConn, cmd, att, lq, owed, envVars,
                 unread>>

-----------------------------------------------------------------------------
\* Order pollers (PlantPoller, name "order")

\* A channel error: resubscribe; the latch, if any, survives.
_resync(p) ==
  /\ poll[p] = "poll"
  /\ poll' = [poll EXCEPT ![p] = "resync"] /\ plant' = resync_start
  /\ UNCHANGED <<main, connects, bar, cur, pnlVars, cmd, bridgeVars, envVars, drainVars,
                 shared, alone>>
_resynced(p) ==
  /\ poll[p] = "resync" /\ poll' = [poll EXCEPT ![p] = "poll"]
  /\ \/ plant' = resync_complete
     \/ plant' = resync_failed
  /\ UNCHANGED <<main, connects, bar, cur, pnlVars, cmd, bridgeVars, envVars, drainVars,
                 shared, alone>>

\* A gap or an unreadable event: the venue is re-read behind a barrier that this
\* poller runs itself, again and again until it succeeds. The PnL evidence is reset.
_recover_order_gap(p) ==
  /\ \/ poll[p] = "poll" /\ Anomaly
     \/ poll[p] = "sleep" /\ NoAnomaly
  /\ poll' = [poll EXCEPT ![p] = "bar"]
  /\ begin_connect(p) /\ forget_pnl({p})
  /\ bar' = [bar EXCEPT ![p] = "subs"]
  /\ UNCHANGED <<main, connects, cur, pnl, pnlConn, cmd, bridgeVars, envVars, alone>>
_gap_load(p) ==
  /\ bar[p] = "subs" /\ StartLoad(p)
  /\ UNCHANGED <<plant, main, connects, poll, cur, pnlVars, cmd, bridgeVars, envVars,
                 unread, shared, alone>>
_gap_recovered(p) ==
  /\ Arms(TRUE) /\ Finish(p, TRUE) /\ poll' = [poll EXCEPT ![p] = "poll"]
  /\ UNCHANGED <<main, connects, cur, pnl, pnlConn, observed, current, cmd, bridgeVars,
                 envVars, unread>>
_gap_failed(p) ==
  /\ poll[p] = "bar"
  /\ BarrierRaises(p) \/ (bar[p] = "ready" /\ ~Arms(TRUE))
  /\ plant' = IF bar[p] = "ready" /\ plant # "latched" THEN "disconnected"
              ELSE resync_failed
  /\ CloseBarriers({p}) /\ poll' = [poll EXCEPT ![p] = "sleep"]
  /\ UNCHANGED <<main, connects, cur, pnl, pnlConn, observed, current, cmd, bridgeVars,
                 envVars, unread, alone>>

\* The poller ends: a handler failure or a streak of transient errors latches, a
\* terminal error disarms. Its unhandled events are lost.
_poll_ends(p) ==
  /\ poll[p] = "poll" /\ poll' = [poll EXCEPT ![p] = "dead"]
  /\ plant' \in {"latched", resync_failed} /\ Anomaly
  /\ UNCHANGED <<main, connects, bar, cur, pnlVars, cmd, bridgeVars, envVars, shared,
                 alone>>

-----------------------------------------------------------------------------
\* PnL poller

\* The epoch is read in the worker thread when the blocking call begins.
poll_with_epoch ==
  /\ pnl = "idle" /\ pnl' = "poll" /\ current' = TRUE
  /\ since' = [b \in Barriers |-> Open(b)]
  /\ UNCHANGED <<plant, main, connects, bar, poll, cur, pnlConn, observed, seen, cmd,
                 bridgeVars, envVars, drainVars, shared, alone>>

NoPollInFlight == current' = FALSE /\ since' = None

\* A batch with an account or position row. On an older epoch it is ignored; else it
\* is an observation, and every barrier that waits for one goes on.
dispatch_current ==
  /\ pnl = "poll" /\ pnl' = "idle" /\ NoPollInFlight
  /\ IF current
     THEN /\ observed' = TRUE /\ seen' = [b \in Barriers |-> seen[b] \/ since[b]]
          /\ bar' = [b \in Barriers |-> IF bar[b] = "wait" THEN "ready" ELSE bar[b]]
     ELSE UNCHANGED <<observed, seen, bar>>
  /\ UNCHANGED <<plant, main, connects, poll, cur, pnlConn, cmd,
                 bridgeVars, envVars, drainVars, shared, alone>>

\* Nothing came, or an error the poller rides out.
_pnl_poll_empty ==
  /\ pnl = "poll" /\ pnl' \in {"idle", "dead"} /\ NoPollInFlight
  /\ UNCHANGED <<plant, main, connects, bar, poll, cur, pnlConn, observed, seen, cmd,
                 bridgeVars, envVars, drainVars, shared, alone>>

\* A channel error or a gap: the evidence is reset, then the stream is resubscribed
\* (well or badly, it is polled again; no row arrives meanwhile).
_resync_pnl_subscription ==
  /\ pnl = "poll" /\ pnl' = "idle" /\ observed' = FALSE /\ NoPollInFlight
  /\ UNCHANGED <<plant, main, connects, bar, poll, cur, pnlConn, seen, cmd, bridgeVars,
                 envVars, drainVars, shared, alone>>

-----------------------------------------------------------------------------
\* Order commands

_submit_order ==
  /\ allow_submit /\ ~cmd /\ cmd' = TRUE
  /\ UNCHANGED <<plant, main, connects, bar, poll, cur, pnlVars, bridgeVars, envVars,
                 drainVars, shared, alone>>

\* The command was answered, or failed in a way that says it is not live; or its
\* outcome is unknown, which latches the plant.
_order_command_failed ==
  /\ cmd /\ cmd' = FALSE
  /\ \/ UNCHANGED plant /\ NoAnomaly
     \/ plant' = "latched" /\ Anomaly
  /\ UNCHANGED <<main, connects, bar, poll, cur, pnlVars, bridgeVars, envVars, shared,
                 alone>>

-----------------------------------------------------------------------------
ConnectSteps == \/ _connect_dialled \/ _connect_pnl \/ _connect_subscribed
                \/ _connect_barrier_raises \/ _connect_rearm \/ _connect_account
                \/ _disconnected
RestoreSteps == \/ _restore_subscribed \/ _attempt_failed \/ _attempt_again
                \/ _attempt_succeeded \/ Loaded("restore")
LoopSteps == _stop_restore \/ _start
PollSteps == \E p \in Pollers : \/ _resync(p) \/ _resynced(p) \/ _recover_order_gap(p)
                                \/ _gap_load(p) \/ _gap_recovered(p) \/ _gap_failed(p)
                                \/ _poll_ends(p)
PnlSteps == \/ poll_with_epoch \/ dispatch_current \/ _pnl_poll_empty
            \/ _resync_pnl_subscription
Transport == Interrupted \/ RecoveryFailed \/ Resumed

Next == \/ _connect \/ _disconnect \/ ConnectSteps
        \/ \E b \in Barriers \ {"restore"} : Loaded(b)
        \/ LoopSteps \/ RestoreSteps \/ PollSteps \/ PnlSteps \/ Transport
        \/ _submit_order \/ _order_command_failed

Spec == Init /\ [][Next]_vars

-----------------------------------------------------------------------------
\* Properties

\* The state is made of the values it is meant to hold.
TypeOK ==
  /\ plant \in {"disconnected", "connecting", "live", "resyncing", "latched"}
  /\ main \in {"off", "dial", "pnl", "bar", "acct", "on", "stop"}
  /\ connects \in 0..MaxConnects
  /\ bar \in [Barriers -> {"idle", "pre", "subs", "load", "wait", "ready"}]
  /\ poll \in [Pollers -> {"none", "poll", "resync", "bar", "sleep", "dead"}]
  /\ cur \in Pollers \cup {NoPoller}
  /\ pnl \in {"none", "idle", "poll", "dead"}
  /\ {pnlConn, observed, current, cmd, att, unread, alone} \subseteq BOOLEAN
  /\ \A i \in DOMAIN lq : lq[i] \in [t : {"down", "start"}, gen : 0..MaxGen]
  /\ Len(lq) <= MaxQueue
  /\ task \in [pc : {"none", "bar", "sleep"}, gen : 0..MaxGen, attempt : 0..MaxAttempts]
  /\ {pendGen, lastGen, gen, owed} \subseteq 0..MaxGen
  /\ up \in {"up", "down", "failed"}
  /\ {fresh, shared, since, seen} \subseteq [Barriers -> BOOLEAN]

\* The client has begun to connect its order plant and has not been told to stop.
Serving == main \in {"bar", "acct", "on"}

\* Orders go out only on a venue state read after the last anomaly: when a barrier
\* armed the plant and no other barrier was begun while it ran, no transport break,
\* unknown command outcome or lost order event is newer than the drain it applied.
ArmedAloneIsReread == Serving /\ plant = "live" /\ alone => ~unread

\* A live plant has a poller for its order events (rearm's poll_alive): whatever ends
\* the poller, at any point of a barrier or between two, the plant is not left armed.
LiveHasPoller == Serving /\ plant = "live" => \E p \in Pollers : Alive(p)

\* A barrier passes its PnL gate only on a row whose poll began after the barrier
\* did: "a stale observation from before the drop is not proof of current exposure"
\* (_connect_attempt). The blocking poll may straddle the start of a barrier.
GateIsFresh == \A b \in Barriers : bar[b] = "ready" => seen[b]

\* "A newer generation must not be lost behind a running restore" (schedule): with
\* nothing queued and no restore running, the last Resumed that no break followed
\* was restored, or all attempts for it failed.
NoLostResume == lq = <<>> /\ task.pc = "none" /\ owed # 0 => lastGen >= owed
=============================================================================
