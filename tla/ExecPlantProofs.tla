--------------------------- MODULE ExecPlantProofs ---------------------------
(***************************************************************************)
(* Proofs about ExecPlant, for any set of poller tasks and any bounds: an   *)
(* armed plant was re-read after the last anomaly, it has a poller, no      *)
(* barrier passes its PnL gate on old evidence, and no Resumed is lost.     *)
(***************************************************************************)
EXTENDS ExecPlant, TLAPS

BarStates == {"idle", "pre", "subs", "load", "wait", "ready"}
PollStates == {"none", "poll", "resync", "bar", "sleep", "dead"}
PlantStates == {"disconnected", "connecting", "live", "resyncing", "latched"}

\* The types the proofs need.
Shapes ==
  /\ plant \in PlantStates
  /\ bar \in [Barriers -> BarStates] /\ poll \in [Pollers -> PollStates]
  /\ shared \in [Barriers -> BOOLEAN] /\ fresh \in [Barriers -> BOOLEAN]
  /\ since \in [Barriers -> BOOLEAN] /\ seen \in [Barriers -> BOOLEAN]
  /\ unread \in BOOLEAN /\ alone \in BOOLEAN /\ observed \in BOOLEAN
  /\ current \in BOOLEAN /\ pnlConn \in BOOLEAN

\* A plant that a resync can bring back to LIVE counts as armed.
Armed == plant \in {"live", "resyncing"}

\* From the attempt on, the client hears of every transport break.
Listens == main \in {"pnl", "bar", "acct", "on"} => att

\* The drain of a barrier that has CONNECTING for itself: under way it will see the last
\* anomaly, applied it has seen it.
Covers(b) == /\ bar[b] = "load" => fresh[b]
             /\ bar[b] \in {"wait", "ready"} => ~unread
BarrierReads ==
  Serving /\ plant = "connecting" => \A b \in Barriers : ~shared[b] => Covers(b)
ArmedReads == Serving /\ Armed /\ alone => ~unread

\* A poller that recovers a gap is alive, and so is one of an armed plant.
GapIsPolled == \A p \in Pollers : bar[p] # "idle" => poll[p] = "bar"
ArmedPolls == Serving /\ Armed => \E p \in Pollers : Alive(p)

\* Connect announces its barrier before it opens it.
OpensLater == main \in {"dial", "pnl"} => bar["main"] = "pre"

\* A poll on the present epoch began after every open barrier did, and so did the one
\* behind an observation that stands.
CurrentIsSince == \A b \in Barriers : current /\ Open(b) => since[b]
ObservedIsSeen == \A b \in Barriers : observed /\ Open(b) => seen[b]

ReadInv == Listens /\ BarrierReads /\ ArmedReads
PollInv == GapIsPolled /\ ArmedPolls
GateInv == OpensLater /\ CurrentIsSince /\ ObservedIsSeen /\ GateIsFresh
IInv == Shapes /\ ReadInv /\ PollInv /\ GateInv

-----------------------------------------------------------------------------
(* Who runs a barrier. *)
LEMMA Members ==
  /\ "main" \in Barriers /\ "restore" \in Barriers /\ Runners \subseteq Barriers
  /\ Pollers \subseteq Barriers /\ "main" \notin Pollers /\ "restore" \notin Pollers
BY PlantAssumption DEF Barriers, Runners

(* Initially nothing runs. *)
LEMMA Initially == Init => IInv
BY DEF Init, IInv, Shapes, ReadInv, PollInv, GateInv, Listens, BarrierReads, ArmedReads,
   GapIsPolled, ArmedPolls, OpensLater, CurrentIsSince, ObservedIsSeen, GateIsFresh,
   Serving, Armed, None, Open, PlantStates, BarStates, PollStates, Barriers, Runners

\* What the steps of the restore task do to the state the proofs are about.
RestoreOpens == /\ bar' = [bar EXCEPT !["restore"] = "subs"]
                /\ forget_pnl({"restore"}) /\ begin_connect("restore")
RestoreStays == UNCHANGED <<bar, observed, current, since, seen, plant, shared>>
RestoreCloses(state) == /\ plant' = state /\ CloseBarriers({"restore"})
                        /\ UNCHANGED <<observed, current>>

(* A queued Resumed is stale or waits, or opens the barrier of a restore. *)
LEMMA StartEffect ==
  _start => /\ RestoreStays \/ RestoreOpens
            /\ UNCHANGED <<main, poll, cur, pnlConn, att, unread, fresh, alone>>
BY DEF _start, BeginAttempt, RestoreStays, RestoreOpens, drainVars

(* The next attempt opens it again. *)
LEMMA AgainEffect ==
  _attempt_again => /\ RestoreOpens
                    /\ UNCHANGED <<main, poll, cur, pnlConn, att, unread, fresh, alone>>
BY DEF _attempt_again, BeginAttempt, RestoreOpens, drainVars

(* A failed attempt closes it with the plant latched, or a newer generation opens it. *)
LEMMA FailEffect ==
  _attempt_failed => /\ (RestoreOpens /\ UNCHANGED fresh) \/ RestoreCloses("latched")
                     /\ UNCHANGED <<main, poll, cur, pnlConn, att, unread, alone>>
BY DEF _attempt_failed, EndGeneration, BeginAttempt, RestoreOpens, RestoreCloses

(* A successful one arms and closes it, or a newer generation opens it. *)
LEMMA SuccessEffect ==
  _attempt_succeeded =>
    /\ bar["restore"] = "ready" /\ plant = "connecting" /\ Alive(cur)
    /\ alone' = ~shared["restore"]
    /\ (RestoreOpens /\ UNCHANGED fresh) \/ RestoreCloses("live")
    /\ UNCHANGED <<main, poll, cur, pnlConn, att, unread>>
BY DEF _attempt_succeeded, Arms, EndGeneration, BeginAttempt, RestoreOpens, RestoreCloses

(* Every step keeps the shapes. *)
LEMMA ShapesStep ==
  ASSUME Shapes, [Next]_vars
  PROVE  Shapes'
<1>1. CASE _connect
  BY <1>1, Members DEF _connect, forget_pnl, Drop, bridgeVars, drainVars, envVars,
     Shapes, PlantStates, BarStates, PollStates
<1>2. CASE _disconnect
  BY <1>2, Members DEF _disconnect, _stop_background, detach, CloseBarriers, Drop,
     Cancel, envVars, Shapes, PlantStates, BarStates, PollStates
<1>3. CASE _connect_dialled
  <2>1. CASE ConnectFails /\ UNCHANGED unread /\ plant' \in {plant, "disconnected"}
    BY <2>1, Members DEF ConnectFails, _stop_background, detach, CloseBarriers,
       Drop, Cancel, Shapes, PlantStates, BarStates, PollStates
  <2>2. CASE main' = "pnl"
    BY <1>3, <2>2, Members DEF _connect_dialled, drainVars, envVars, ConnectFails,
       Shapes, PlantStates, BarStates, PollStates
  <2> QED
    BY <1>3, <2>1, <2>2 DEF _connect_dialled
<1>4. CASE _connect_pnl
  <2>1. CASE ConnectFails /\ UNCHANGED unread /\ plant' \in {plant, "disconnected"}
    BY <2>1, Members DEF ConnectFails, _stop_background, detach, CloseBarriers,
       Drop, Cancel, Shapes, PlantStates, BarStates, PollStates
  <2>2. CASE main' = "bar"
    BY <1>4, <2>2, Members DEF _connect_pnl, begin_connect, drainVars, bridgeVars,
       envVars, ConnectFails, Shapes, PlantStates, BarStates, PollStates
  <2> QED
    BY <1>4, <2>1, <2>2 DEF _connect_pnl
<1>5. CASE _connect_subscribed
  <2>1. CASE ConnectFails /\ UNCHANGED unread /\ plant' \in {plant, "disconnected"}
    BY <2>1, Members DEF ConnectFails, _stop_background, detach, CloseBarriers,
       Drop, Cancel, Shapes, PlantStates, BarStates, PollStates
  <2>2. CASE main' = "bar"
    BY <1>5, <2>2, Members DEF _connect_subscribed, _make_poll_task, StartLoad,
       pnlVars, bridgeVars, envVars, ConnectFails, Shapes, PlantStates, BarStates,
       PollStates
  <2> QED
    BY <1>5, <2>1, <2>2 DEF _connect_subscribed
<1>6. CASE _connect_barrier_raises
  BY <1>6, Members DEF _connect_barrier_raises, BarrierRaises, CloseBarriers, Drop,
     bridgeVars, envVars, Shapes, PlantStates, BarStates, PollStates
<1>7. CASE _connect_rearm
  BY <1>7, Members DEF _connect_rearm, Finish, rearm, Arms, CloseBarriers, Drop,
     bridgeVars, envVars, Shapes, PlantStates, BarStates, PollStates
<1>8. CASE _connect_account
  <2>1. CASE ConnectFails /\ UNCHANGED unread /\ plant' \in {plant, "disconnected"}
    BY <2>1, Members DEF ConnectFails, _stop_background, detach, CloseBarriers,
       Drop, Cancel, Shapes, PlantStates, BarStates, PollStates
  <2>2. CASE main' = "on"
    BY <1>8, <2>2, Members DEF _connect_account, pnlVars, drainVars, bridgeVars,
       envVars, ConnectFails, Shapes, PlantStates, BarStates, PollStates
  <2> QED
    BY <1>8, <2>1, <2>2 DEF _connect_account
<1>9. CASE _disconnected
  BY <1>9, Members DEF _disconnected, pnlVars, drainVars, bridgeVars, envVars,
     Shapes, PlantStates, BarStates, PollStates
<1>10. ASSUME NEW b \in Barriers, Loaded(b) PROVE Shapes'
  BY <1>10, Members DEF Loaded, ApplyDrain, bridgeVars, envVars, Shapes,
     PlantStates, BarStates, PollStates
<1>11. CASE _stop_restore
  BY <1>11, Members DEF _stop_restore, CloseBarriers, Drop, envVars, Shapes,
     PlantStates, BarStates, PollStates
<1>12. CASE _start
  <2>1. (RestoreStays \/ RestoreOpens) /\ UNCHANGED <<main, poll, cur, pnlConn, att,
        unread, fresh, alone>>
    BY <1>12, StartEffect
  <2>2. CASE RestoreStays
    BY <2>1, <2>2, Members DEF RestoreStays, Shapes, PlantStates, BarStates,
       PollStates
  <2>3. CASE RestoreOpens
    BY <2>1, <2>3, Members DEF RestoreOpens, begin_connect, forget_pnl, Drop,
       Shapes, PlantStates, BarStates, PollStates
  <2> QED
    BY <2>1, <2>2, <2>3
<1>13. CASE _restore_subscribed
  BY <1>13, Members DEF _restore_subscribed, _make_poll_task, StartLoad,
     bridgeVars, envVars, Shapes, PlantStates, BarStates, PollStates
<1>14. CASE _attempt_failed
  <2>1. ((RestoreOpens /\ UNCHANGED fresh) \/ RestoreCloses("latched")) /\ UNCHANGED
        <<main, poll, cur, pnlConn, att, unread, alone>>
    BY <1>14, FailEffect
  <2>2. CASE RestoreOpens /\ UNCHANGED fresh
    BY <2>1, <2>2, Members DEF RestoreOpens, begin_connect, forget_pnl, Drop,
       Shapes, PlantStates, BarStates, PollStates
  <2>3. CASE RestoreCloses("latched")
    BY <2>1, <2>3, Members DEF RestoreCloses, CloseBarriers, Drop, Shapes,
       PlantStates, BarStates, PollStates
  <2> QED
    BY <2>1, <2>2, <2>3
<1>15. CASE _attempt_again
  <2>1. RestoreOpens /\ UNCHANGED <<main, poll, cur, pnlConn, att, unread, fresh,
        alone>>
    BY <1>15, AgainEffect
  <2> QED
    BY <2>1, Members DEF RestoreOpens, begin_connect, forget_pnl, Drop, Shapes,
       PlantStates, BarStates, PollStates
<1>16. CASE _attempt_succeeded
  <2>1. bar["restore"] = "ready" /\ plant = "connecting" /\ Alive(cur) /\ alone' =
        ~shared["restore"] /\ ((RestoreOpens /\ UNCHANGED fresh) \/
        RestoreCloses("live")) /\ UNCHANGED <<main, poll, cur, pnlConn, att, unread>>
    BY <1>16, SuccessEffect
  <2>2. CASE RestoreOpens /\ UNCHANGED fresh
    BY <2>1, <2>2, Members DEF RestoreOpens, begin_connect, forget_pnl, Drop,
       Shapes, PlantStates, BarStates, PollStates
  <2>3. CASE RestoreCloses("live")
    BY <2>1, <2>3, Members DEF RestoreCloses, CloseBarriers, Drop, Shapes,
       PlantStates, BarStates, PollStates
  <2> QED
    BY <2>1, <2>2, <2>3
<1>17. ASSUME NEW p \in Pollers, _resync(p) PROVE Shapes'
  BY <1>17, Members DEF _resync, resync_start, pnlVars, drainVars, bridgeVars,
     envVars, Shapes, PlantStates, BarStates, PollStates
<1>18. ASSUME NEW p \in Pollers, _resynced(p) PROVE Shapes'
  BY <1>18, Members DEF _resynced, resync_complete, resync_failed, pnlVars,
     drainVars, bridgeVars, envVars, Shapes, PlantStates, BarStates, PollStates
<1>19. ASSUME NEW p \in Pollers, _recover_order_gap(p) PROVE Shapes'
  BY <1>19, Members DEF _recover_order_gap, Anomaly, NoAnomaly, None,
     begin_connect, forget_pnl, Drop, drainVars, bridgeVars, envVars, Shapes,
     PlantStates, BarStates, PollStates
<1>20. ASSUME NEW p \in Pollers, _gap_load(p) PROVE Shapes'
  BY <1>20, Members DEF _gap_load, StartLoad, pnlVars, bridgeVars, envVars, Shapes,
     PlantStates, BarStates, PollStates
<1>21. ASSUME NEW p \in Pollers, _gap_recovered(p) PROVE Shapes'
  BY <1>21, Members DEF _gap_recovered, Finish, rearm, Arms, CloseBarriers, Drop,
     bridgeVars, envVars, Shapes, PlantStates, BarStates, PollStates
<1>22. ASSUME NEW p \in Pollers, _gap_failed(p) PROVE Shapes'
  BY <1>22, Members DEF _gap_failed, resync_failed, CloseBarriers, Drop,
     bridgeVars, envVars, Shapes, PlantStates, BarStates, PollStates
<1>23. ASSUME NEW p \in Pollers, _poll_ends(p) PROVE Shapes'
  BY <1>23, Members DEF _poll_ends, resync_failed, Anomaly, None, pnlVars,
     bridgeVars, envVars, Shapes, PlantStates, BarStates, PollStates
<1>24. CASE PnlSteps
  BY <1>24, Members DEF PnlSteps, poll_with_epoch, Open, drainVars, bridgeVars,
     envVars, dispatch_current, NoPollInFlight, None, _pnl_poll_empty,
     _resync_pnl_subscription, Shapes, PlantStates, BarStates, PollStates
<1>25. CASE Transport
  BY <1>25, Members DEF Transport, Interrupted, Anomaly, None, pnlVars,
     RecoveryFailed, Resumed, drainVars, Shapes, PlantStates, BarStates, PollStates
<1>26. CASE _submit_order \/ _order_command_failed
  BY <1>26, Members DEF _submit_order, pnlVars, drainVars, bridgeVars, envVars,
     _order_command_failed, Anomaly, NoAnomaly, None, Shapes, PlantStates, BarStates,
     PollStates
<1>27. CASE UNCHANGED vars
  BY <1>27 DEF vars, Shapes, PlantStates, BarStates, PollStates
<1> QED
  BY <1>1, <1>2, <1>3, <1>4, <1>5, <1>6, <1>7, <1>8, <1>9, <1>10, <1>11, <1>12,
     <1>13, <1>14, <1>15, <1>16, <1>17, <1>18, <1>19, <1>20, <1>21, <1>22, <1>23,
     <1>24, <1>25, <1>26, <1>27 DEF Next, ConnectSteps, PollSteps, RestoreSteps,
     LoopSteps, Barriers, Runners

(* Connect announces its barrier first. *)
LEMMA OpensLaterStep ==
  ASSUME Shapes, Shapes', GateInv, [Next]_vars
  PROVE  OpensLater'
<1>1. CASE _connect
  BY <1>1, Members DEF _connect, forget_pnl, Drop, bridgeVars, drainVars, envVars,
     Shapes, GateInv, OpensLater
<1>2. CASE _disconnect
  BY <1>2, Members DEF _disconnect, _stop_background, detach, CloseBarriers, Drop,
     Cancel, envVars, Shapes, GateInv, OpensLater
<1>3. CASE ConnectSteps
  BY <1>3, Members DEF ConnectSteps, _connect_dialled, ConnectFails,
     _stop_background, detach, CloseBarriers, Drop, Cancel, drainVars, envVars,
     _connect_pnl, begin_connect, bridgeVars, _connect_subscribed, _make_poll_task,
     StartLoad, pnlVars, _connect_barrier_raises, BarrierRaises, _connect_rearm,
     Finish, rearm, Arms, _connect_account, _disconnected, Shapes, GateInv, OpensLater
<1>4. ASSUME NEW b \in Barriers, Loaded(b) PROVE OpensLater'
  BY <1>4, Members DEF Loaded, ApplyDrain, bridgeVars, envVars, Shapes, GateInv,
     OpensLater
<1>5. CASE _stop_restore
  BY <1>5, Members DEF _stop_restore, CloseBarriers, Drop, envVars, Shapes,
     GateInv, OpensLater
<1>6. CASE _start
  <2>1. (RestoreStays \/ RestoreOpens) /\ UNCHANGED <<main, poll, cur, pnlConn, att,
        unread, fresh, alone>>
    BY <1>6, StartEffect
  <2>2. CASE RestoreStays
    BY <2>1, <2>2, Members DEF RestoreStays, Shapes, GateInv, OpensLater
  <2>3. CASE RestoreOpens
    BY <2>1, <2>3, Members DEF RestoreOpens, begin_connect, forget_pnl, Drop,
       Shapes, GateInv, OpensLater
  <2> QED
    BY <2>1, <2>2, <2>3
<1>7. CASE _restore_subscribed
  BY <1>7, Members DEF _restore_subscribed, _make_poll_task, StartLoad, bridgeVars,
     envVars, Shapes, GateInv, OpensLater
<1>8. CASE _attempt_failed
  <2>1. ((RestoreOpens /\ UNCHANGED fresh) \/ RestoreCloses("latched")) /\ UNCHANGED
        <<main, poll, cur, pnlConn, att, unread, alone>>
    BY <1>8, FailEffect
  <2>2. CASE RestoreOpens /\ UNCHANGED fresh
    BY <2>1, <2>2, Members DEF RestoreOpens, begin_connect, forget_pnl, Drop,
       Shapes, GateInv, OpensLater
  <2>3. CASE RestoreCloses("latched")
    BY <2>1, <2>3, Members DEF RestoreCloses, CloseBarriers, Drop, Shapes, GateInv,
       OpensLater
  <2> QED
    BY <2>1, <2>2, <2>3
<1>9. CASE _attempt_again
  <2>1. RestoreOpens /\ UNCHANGED <<main, poll, cur, pnlConn, att, unread, fresh,
        alone>>
    BY <1>9, AgainEffect
  <2> QED
    BY <2>1, Members DEF RestoreOpens, begin_connect, forget_pnl, Drop, Shapes,
       GateInv, OpensLater
<1>10. CASE _attempt_succeeded
  <2>1. bar["restore"] = "ready" /\ plant = "connecting" /\ Alive(cur) /\ alone' =
        ~shared["restore"] /\ ((RestoreOpens /\ UNCHANGED fresh) \/
        RestoreCloses("live")) /\ UNCHANGED <<main, poll, cur, pnlConn, att, unread>>
    BY <1>10, SuccessEffect
  <2>2. CASE RestoreOpens /\ UNCHANGED fresh
    BY <2>1, <2>2, Members DEF RestoreOpens, begin_connect, forget_pnl, Drop,
       Shapes, GateInv, OpensLater
  <2>3. CASE RestoreCloses("live")
    BY <2>1, <2>3, Members DEF RestoreCloses, CloseBarriers, Drop, Shapes, GateInv,
       OpensLater
  <2> QED
    BY <2>1, <2>2, <2>3
<1>11. CASE PollSteps
  BY <1>11, Members DEF PollSteps, _resync, resync_start, pnlVars, drainVars,
     bridgeVars, envVars, _resynced, resync_complete, resync_failed,
     _recover_order_gap, Anomaly, NoAnomaly, None, begin_connect, forget_pnl, Drop,
     _gap_load, StartLoad, _gap_recovered, Finish, rearm, Arms, CloseBarriers,
     _gap_failed, _poll_ends, Shapes, GateInv, OpensLater
<1>12. CASE PnlSteps
  BY <1>12, Members DEF PnlSteps, poll_with_epoch, Open, drainVars, bridgeVars,
     envVars, dispatch_current, NoPollInFlight, None, _pnl_poll_empty,
     _resync_pnl_subscription, Shapes, GateInv, OpensLater
<1>13. CASE Transport
  BY <1>13, Members DEF Transport, Interrupted, Anomaly, None, pnlVars,
     RecoveryFailed, Resumed, drainVars, Shapes, GateInv, OpensLater
<1>14. CASE _submit_order \/ _order_command_failed
  BY <1>14, Members DEF _submit_order, pnlVars, drainVars, bridgeVars, envVars,
     _order_command_failed, Anomaly, NoAnomaly, None, Shapes, GateInv, OpensLater
<1>15. CASE UNCHANGED vars
  BY <1>15 DEF vars, Shapes, GateInv, OpensLater
<1> QED
  BY <1>1, <1>2, <1>3, <1>4, <1>5, <1>6, <1>7, <1>8, <1>9, <1>10, <1>11, <1>12,
     <1>13, <1>14, <1>15 DEF Next, RestoreSteps, LoopSteps, Barriers, Runners

(* A poll on the present epoch stays younger than every open barrier. *)
LEMMA CurrentStep ==
  ASSUME Shapes, Shapes', GateInv, [Next]_vars
  PROVE  CurrentIsSince'
<1>1. CASE _connect
  BY <1>1, Members DEF _connect, forget_pnl, Drop, bridgeVars, drainVars, envVars,
     Shapes, GateInv, CurrentIsSince, OpensLater, Open
<1>2. CASE _disconnect
  BY <1>2, Members DEF _disconnect, _stop_background, detach, CloseBarriers, Drop,
     Cancel, envVars, Shapes, GateInv, CurrentIsSince, OpensLater, Open
<1>3. CASE _connect_dialled
  <2>1. CASE ConnectFails /\ UNCHANGED unread /\ plant' \in {plant, "disconnected"}
    BY <2>1, Members DEF ConnectFails, _stop_background, detach, CloseBarriers,
       Drop, Cancel, Shapes, GateInv, CurrentIsSince, OpensLater, Open
  <2>2. CASE main' = "pnl"
    BY <1>3, <2>2, Members DEF _connect_dialled, drainVars, envVars, ConnectFails,
       Shapes, GateInv, CurrentIsSince, OpensLater, Open
  <2> QED
    BY <1>3, <2>1, <2>2 DEF _connect_dialled
<1>4. CASE _connect_pnl
  <2>1. CASE ConnectFails /\ UNCHANGED unread /\ plant' \in {plant, "disconnected"}
    BY <2>1, Members DEF ConnectFails, _stop_background, detach, CloseBarriers,
       Drop, Cancel, Shapes, GateInv, CurrentIsSince, OpensLater, Open
  <2>2. CASE main' = "bar"
    BY <1>4, <2>2, Members DEF _connect_pnl, begin_connect, drainVars, bridgeVars,
       envVars, ConnectFails, Shapes, GateInv, CurrentIsSince, OpensLater, Open
  <2> QED
    BY <1>4, <2>1, <2>2 DEF _connect_pnl
<1>5. CASE _connect_subscribed
  <2>1. CASE ConnectFails
    BY <2>1 DEF ConnectFails, _stop_background, CurrentIsSince
  <2>2. CASE main' = "bar"
    <3>1. bar["main"] = "subs" /\ bar' = [bar EXCEPT !["main"] = "load"]
          /\ UNCHANGED <<current, since>>
      BY <1>5, <2>2 DEF _connect_subscribed, StartLoad, pnlVars, ConnectFails
    <3> QED
      BY <3>1, Members DEF Shapes, GateInv, CurrentIsSince, Open
  <2> QED
    BY <1>5, <2>1, <2>2 DEF _connect_subscribed
<1>6. CASE _connect_barrier_raises
  BY <1>6, Members DEF _connect_barrier_raises, BarrierRaises, CloseBarriers, Drop,
     bridgeVars, envVars, Shapes, GateInv, CurrentIsSince, OpensLater, Open
<1>7. CASE _connect_rearm
  BY <1>7, Members DEF _connect_rearm, Finish, rearm, Arms, CloseBarriers, Drop,
     bridgeVars, envVars, Shapes, GateInv, CurrentIsSince, OpensLater, Open
<1>8. CASE _connect_account
  <2>1. CASE ConnectFails /\ UNCHANGED unread /\ plant' \in {plant, "disconnected"}
    BY <2>1, Members DEF ConnectFails, _stop_background, detach, CloseBarriers,
       Drop, Cancel, Shapes, GateInv, CurrentIsSince, OpensLater, Open
  <2>2. CASE main' = "on"
    BY <1>8, <2>2, Members DEF _connect_account, pnlVars, drainVars, bridgeVars,
       envVars, ConnectFails, Shapes, GateInv, CurrentIsSince, OpensLater, Open
  <2> QED
    BY <1>8, <2>1, <2>2 DEF _connect_account
<1>9. CASE _disconnected
  BY <1>9, Members DEF _disconnected, pnlVars, drainVars, bridgeVars, envVars,
     Shapes, GateInv, CurrentIsSince, OpensLater, Open
<1>10. ASSUME NEW b \in Barriers, Loaded(b) PROVE CurrentIsSince'
  BY <1>10, Members DEF Loaded, ApplyDrain, bridgeVars, envVars, Shapes, GateInv,
     CurrentIsSince, OpensLater, Open
<1>11. CASE _stop_restore
  BY <1>11, Members DEF _stop_restore, CloseBarriers, Drop, envVars, Shapes,
     GateInv, CurrentIsSince, OpensLater, Open
<1>12. CASE _start
  <2>1. (RestoreStays \/ RestoreOpens) /\ UNCHANGED <<main, poll, cur, pnlConn, att,
        unread, fresh, alone>>
    BY <1>12, StartEffect
  <2>2. CASE RestoreStays
    BY <2>1, <2>2, Members DEF RestoreStays, Shapes, GateInv, CurrentIsSince,
       OpensLater, Open
  <2>3. CASE RestoreOpens
    BY <2>1, <2>3, Members DEF RestoreOpens, begin_connect, forget_pnl, Drop,
       Shapes, GateInv, CurrentIsSince, OpensLater, Open
  <2> QED
    BY <2>1, <2>2, <2>3
<1>13. CASE _restore_subscribed
  BY <1>13, Members DEF _restore_subscribed, _make_poll_task, StartLoad,
     bridgeVars, envVars, Shapes, GateInv, CurrentIsSince, OpensLater, Open
<1>14. CASE _attempt_failed
  <2>1. ((RestoreOpens /\ UNCHANGED fresh) \/ RestoreCloses("latched")) /\ UNCHANGED
        <<main, poll, cur, pnlConn, att, unread, alone>>
    BY <1>14, FailEffect
  <2>2. CASE RestoreOpens /\ UNCHANGED fresh
    BY <2>1, <2>2, Members DEF RestoreOpens, begin_connect, forget_pnl, Drop,
       Shapes, GateInv, CurrentIsSince, OpensLater, Open
  <2>3. CASE RestoreCloses("latched")
    BY <2>1, <2>3, Members DEF RestoreCloses, CloseBarriers, Drop, Shapes, GateInv,
       CurrentIsSince, OpensLater, Open
  <2> QED
    BY <2>1, <2>2, <2>3
<1>15. CASE _attempt_again
  <2>1. RestoreOpens /\ UNCHANGED <<main, poll, cur, pnlConn, att, unread, fresh,
        alone>>
    BY <1>15, AgainEffect
  <2> QED
    BY <2>1, Members DEF RestoreOpens, begin_connect, forget_pnl, Drop, Shapes,
       GateInv, CurrentIsSince, OpensLater, Open
<1>16. CASE _attempt_succeeded
  <2>1. bar["restore"] = "ready" /\ plant = "connecting" /\ Alive(cur) /\ alone' =
        ~shared["restore"] /\ ((RestoreOpens /\ UNCHANGED fresh) \/
        RestoreCloses("live")) /\ UNCHANGED <<main, poll, cur, pnlConn, att, unread>>
    BY <1>16, SuccessEffect
  <2>2. CASE RestoreOpens /\ UNCHANGED fresh
    BY <2>1, <2>2, Members DEF RestoreOpens, begin_connect, forget_pnl, Drop,
       Shapes, GateInv, CurrentIsSince, OpensLater, Open
  <2>3. CASE RestoreCloses("live")
    BY <2>1, <2>3, Members DEF RestoreCloses, CloseBarriers, Drop, Shapes, GateInv,
       CurrentIsSince, OpensLater, Open
  <2> QED
    BY <2>1, <2>2, <2>3
<1>17. ASSUME NEW p \in Pollers, _resync(p) PROVE CurrentIsSince'
  BY <1>17, Members DEF _resync, resync_start, pnlVars, drainVars, bridgeVars,
     envVars, Shapes, GateInv, CurrentIsSince, OpensLater, Open
<1>18. ASSUME NEW p \in Pollers, _resynced(p) PROVE CurrentIsSince'
  BY <1>18, Members DEF _resynced, resync_complete, resync_failed, pnlVars,
     drainVars, bridgeVars, envVars, Shapes, GateInv, CurrentIsSince, OpensLater, Open
<1>19. ASSUME NEW p \in Pollers, _recover_order_gap(p) PROVE CurrentIsSince'
  BY <1>19, Members DEF _recover_order_gap, Anomaly, NoAnomaly, None,
     begin_connect, forget_pnl, Drop, drainVars, bridgeVars, envVars, Shapes, GateInv,
     CurrentIsSince, OpensLater, Open
<1>20. ASSUME NEW p \in Pollers, _gap_load(p) PROVE CurrentIsSince'
  BY <1>20, Members DEF _gap_load, StartLoad, pnlVars, bridgeVars, envVars, Shapes,
     GateInv, CurrentIsSince, OpensLater, Open
<1>21. ASSUME NEW p \in Pollers, _gap_recovered(p) PROVE CurrentIsSince'
  BY <1>21, Members DEF _gap_recovered, Finish, rearm, Arms, CloseBarriers, Drop,
     bridgeVars, envVars, Shapes, GateInv, CurrentIsSince, OpensLater, Open
<1>22. ASSUME NEW p \in Pollers, _gap_failed(p) PROVE CurrentIsSince'
  BY <1>22, Members DEF _gap_failed, resync_failed, CloseBarriers, Drop,
     bridgeVars, envVars, Shapes, GateInv, CurrentIsSince, OpensLater, Open
<1>23. ASSUME NEW p \in Pollers, _poll_ends(p) PROVE CurrentIsSince'
  BY <1>23, Members DEF _poll_ends, resync_failed, Anomaly, None, pnlVars,
     bridgeVars, envVars, Shapes, GateInv, CurrentIsSince, OpensLater, Open
<1>24. CASE PnlSteps
  BY <1>24, Members DEF PnlSteps, poll_with_epoch, Open, drainVars, bridgeVars,
     envVars, dispatch_current, NoPollInFlight, None, _pnl_poll_empty,
     _resync_pnl_subscription, Shapes, GateInv, CurrentIsSince, OpensLater
<1>25. CASE Transport
  BY <1>25, Members DEF Transport, Interrupted, Anomaly, None, pnlVars,
     RecoveryFailed, Resumed, drainVars, Shapes, GateInv, CurrentIsSince, OpensLater,
     Open
<1>26. CASE _submit_order \/ _order_command_failed
  BY <1>26, Members DEF _submit_order, pnlVars, drainVars, bridgeVars, envVars,
     _order_command_failed, Anomaly, NoAnomaly, None, Shapes, GateInv, CurrentIsSince,
     OpensLater, Open
<1>27. CASE UNCHANGED vars
  BY <1>27 DEF vars, Shapes, GateInv, CurrentIsSince, OpensLater, Open
<1> QED
  BY <1>1, <1>2, <1>3, <1>4, <1>5, <1>6, <1>7, <1>8, <1>9, <1>10, <1>11, <1>12,
     <1>13, <1>14, <1>15, <1>16, <1>17, <1>18, <1>19, <1>20, <1>21, <1>22, <1>23,
     <1>24, <1>25, <1>26, <1>27 DEF Next, ConnectSteps, PollSteps, RestoreSteps,
     LoopSteps, Barriers, Runners

(* An observation that stands stays younger than every open barrier. *)
LEMMA ObservedStep ==
  ASSUME Shapes, Shapes', GateInv, [Next]_vars
  PROVE  ObservedIsSeen'
<1>1. CASE _connect
  BY <1>1, Members DEF _connect, forget_pnl, Drop, bridgeVars, drainVars, envVars,
     Shapes, GateInv, CurrentIsSince, ObservedIsSeen, OpensLater, Open
<1>2. CASE _disconnect
  BY <1>2, Members DEF _disconnect, _stop_background, detach, CloseBarriers, Drop,
     Cancel, envVars, Shapes, GateInv, CurrentIsSince, ObservedIsSeen, OpensLater,
     Open
<1>3. CASE _connect_dialled
  <2>1. CASE ConnectFails /\ UNCHANGED unread /\ plant' \in {plant, "disconnected"}
    BY <2>1, Members DEF ConnectFails, _stop_background, detach, CloseBarriers,
       Drop, Cancel, Shapes, GateInv, CurrentIsSince, ObservedIsSeen, OpensLater, Open
  <2>2. CASE main' = "pnl"
    BY <1>3, <2>2, Members DEF _connect_dialled, drainVars, envVars, ConnectFails,
       Shapes, GateInv, CurrentIsSince, ObservedIsSeen, OpensLater, Open
  <2> QED
    BY <1>3, <2>1, <2>2 DEF _connect_dialled
<1>4. CASE _connect_pnl
  <2>1. CASE ConnectFails /\ UNCHANGED unread /\ plant' \in {plant, "disconnected"}
    BY <2>1, Members DEF ConnectFails, _stop_background, detach, CloseBarriers,
       Drop, Cancel, Shapes, GateInv, CurrentIsSince, ObservedIsSeen, OpensLater, Open
  <2>2. CASE main' = "bar"
    BY <1>4, <2>2, Members DEF _connect_pnl, begin_connect, drainVars, bridgeVars,
       envVars, ConnectFails, Shapes, GateInv, CurrentIsSince, ObservedIsSeen,
       OpensLater, Open
  <2> QED
    BY <1>4, <2>1, <2>2 DEF _connect_pnl
<1>5. CASE _connect_subscribed
  <2>1. CASE ConnectFails /\ UNCHANGED unread /\ plant' \in {plant, "disconnected"}
    BY <2>1, Members DEF ConnectFails, _stop_background, detach, CloseBarriers,
       Drop, Cancel, Shapes, GateInv, CurrentIsSince, ObservedIsSeen, OpensLater, Open
  <2>2. CASE main' = "bar"
    BY <1>5, <2>2, Members DEF _connect_subscribed, _make_poll_task, StartLoad,
       pnlVars, bridgeVars, envVars, ConnectFails, Shapes, GateInv, CurrentIsSince,
       ObservedIsSeen, OpensLater, Open
  <2> QED
    BY <1>5, <2>1, <2>2 DEF _connect_subscribed
<1>6. CASE _connect_barrier_raises
  BY <1>6, Members DEF _connect_barrier_raises, BarrierRaises, CloseBarriers, Drop,
     bridgeVars, envVars, Shapes, GateInv, CurrentIsSince, ObservedIsSeen, OpensLater,
     Open
<1>7. CASE _connect_rearm
  BY <1>7, Members DEF _connect_rearm, Finish, rearm, Arms, CloseBarriers, Drop,
     bridgeVars, envVars, Shapes, GateInv, CurrentIsSince, ObservedIsSeen, OpensLater,
     Open
<1>8. CASE _connect_account
  <2>1. CASE ConnectFails /\ UNCHANGED unread /\ plant' \in {plant, "disconnected"}
    BY <2>1, Members DEF ConnectFails, _stop_background, detach, CloseBarriers,
       Drop, Cancel, Shapes, GateInv, CurrentIsSince, ObservedIsSeen, OpensLater, Open
  <2>2. CASE main' = "on"
    BY <1>8, <2>2, Members DEF _connect_account, pnlVars, drainVars, bridgeVars,
       envVars, ConnectFails, Shapes, GateInv, CurrentIsSince, ObservedIsSeen,
       OpensLater, Open
  <2> QED
    BY <1>8, <2>1, <2>2 DEF _connect_account
<1>9. CASE _disconnected
  BY <1>9, Members DEF _disconnected, pnlVars, drainVars, bridgeVars, envVars,
     Shapes, GateInv, CurrentIsSince, ObservedIsSeen, OpensLater, Open
<1>10. ASSUME NEW b \in Barriers, Loaded(b) PROVE ObservedIsSeen'
  BY <1>10, Members DEF Loaded, ApplyDrain, bridgeVars, envVars, Shapes, GateInv,
     CurrentIsSince, ObservedIsSeen, OpensLater, Open
<1>11. CASE _stop_restore
  BY <1>11, Members DEF _stop_restore, CloseBarriers, Drop, envVars, Shapes,
     GateInv, CurrentIsSince, ObservedIsSeen, OpensLater, Open
<1>12. CASE _start
  <2>1. (RestoreStays \/ RestoreOpens) /\ UNCHANGED <<main, poll, cur, pnlConn, att,
        unread, fresh, alone>>
    BY <1>12, StartEffect
  <2>2. CASE RestoreStays
    BY <2>1, <2>2, Members DEF RestoreStays, Shapes, GateInv, CurrentIsSince,
       ObservedIsSeen, OpensLater, Open
  <2>3. CASE RestoreOpens
    BY <2>1, <2>3, Members DEF RestoreOpens, begin_connect, forget_pnl, Drop,
       Shapes, GateInv, CurrentIsSince, ObservedIsSeen, OpensLater, Open
  <2> QED
    BY <2>1, <2>2, <2>3
<1>13. CASE _restore_subscribed
  BY <1>13, Members DEF _restore_subscribed, _make_poll_task, StartLoad,
     bridgeVars, envVars, Shapes, GateInv, CurrentIsSince, ObservedIsSeen, OpensLater,
     Open
<1>14. CASE _attempt_failed
  <2>1. ((RestoreOpens /\ UNCHANGED fresh) \/ RestoreCloses("latched")) /\ UNCHANGED
        <<main, poll, cur, pnlConn, att, unread, alone>>
    BY <1>14, FailEffect
  <2>2. CASE RestoreOpens /\ UNCHANGED fresh
    BY <2>1, <2>2, Members DEF RestoreOpens, begin_connect, forget_pnl, Drop,
       Shapes, GateInv, CurrentIsSince, ObservedIsSeen, OpensLater, Open
  <2>3. CASE RestoreCloses("latched")
    BY <2>1, <2>3, Members DEF RestoreCloses, CloseBarriers, Drop, Shapes, GateInv,
       CurrentIsSince, ObservedIsSeen, OpensLater, Open
  <2> QED
    BY <2>1, <2>2, <2>3
<1>15. CASE _attempt_again
  <2>1. RestoreOpens /\ UNCHANGED <<main, poll, cur, pnlConn, att, unread, fresh,
        alone>>
    BY <1>15, AgainEffect
  <2> QED
    BY <2>1, Members DEF RestoreOpens, begin_connect, forget_pnl, Drop, Shapes,
       GateInv, CurrentIsSince, ObservedIsSeen, OpensLater, Open
<1>16. CASE _attempt_succeeded
  <2>1. bar["restore"] = "ready" /\ plant = "connecting" /\ Alive(cur) /\ alone' =
        ~shared["restore"] /\ ((RestoreOpens /\ UNCHANGED fresh) \/
        RestoreCloses("live")) /\ UNCHANGED <<main, poll, cur, pnlConn, att, unread>>
    BY <1>16, SuccessEffect
  <2>2. CASE RestoreOpens /\ UNCHANGED fresh
    BY <2>1, <2>2, Members DEF RestoreOpens, begin_connect, forget_pnl, Drop,
       Shapes, GateInv, CurrentIsSince, ObservedIsSeen, OpensLater, Open
  <2>3. CASE RestoreCloses("live")
    BY <2>1, <2>3, Members DEF RestoreCloses, CloseBarriers, Drop, Shapes, GateInv,
       CurrentIsSince, ObservedIsSeen, OpensLater, Open
  <2> QED
    BY <2>1, <2>2, <2>3
<1>17. ASSUME NEW p \in Pollers, _resync(p) PROVE ObservedIsSeen'
  BY <1>17, Members DEF _resync, resync_start, pnlVars, drainVars, bridgeVars,
     envVars, Shapes, GateInv, CurrentIsSince, ObservedIsSeen, OpensLater, Open
<1>18. ASSUME NEW p \in Pollers, _resynced(p) PROVE ObservedIsSeen'
  BY <1>18, Members DEF _resynced, resync_complete, resync_failed, pnlVars,
     drainVars, bridgeVars, envVars, Shapes, GateInv, CurrentIsSince, ObservedIsSeen,
     OpensLater, Open
<1>19. ASSUME NEW p \in Pollers, _recover_order_gap(p) PROVE ObservedIsSeen'
  BY <1>19, Members DEF _recover_order_gap, Anomaly, NoAnomaly, None,
     begin_connect, forget_pnl, Drop, drainVars, bridgeVars, envVars, Shapes, GateInv,
     CurrentIsSince, ObservedIsSeen, OpensLater, Open
<1>20. ASSUME NEW p \in Pollers, _gap_load(p) PROVE ObservedIsSeen'
  BY <1>20, Members DEF _gap_load, StartLoad, pnlVars, bridgeVars, envVars, Shapes,
     GateInv, CurrentIsSince, ObservedIsSeen, OpensLater, Open
<1>21. ASSUME NEW p \in Pollers, _gap_recovered(p) PROVE ObservedIsSeen'
  BY <1>21, Members DEF _gap_recovered, Finish, rearm, Arms, CloseBarriers, Drop,
     bridgeVars, envVars, Shapes, GateInv, CurrentIsSince, ObservedIsSeen, OpensLater,
     Open
<1>22. ASSUME NEW p \in Pollers, _gap_failed(p) PROVE ObservedIsSeen'
  BY <1>22, Members DEF _gap_failed, resync_failed, CloseBarriers, Drop,
     bridgeVars, envVars, Shapes, GateInv, CurrentIsSince, ObservedIsSeen, OpensLater,
     Open
<1>23. ASSUME NEW p \in Pollers, _poll_ends(p) PROVE ObservedIsSeen'
  BY <1>23, Members DEF _poll_ends, resync_failed, Anomaly, None, pnlVars,
     bridgeVars, envVars, Shapes, GateInv, CurrentIsSince, ObservedIsSeen, OpensLater,
     Open
<1>24. CASE PnlSteps
  BY <1>24, Members DEF PnlSteps, poll_with_epoch, Open, drainVars, bridgeVars,
     envVars, dispatch_current, NoPollInFlight, None, _pnl_poll_empty,
     _resync_pnl_subscription, Shapes, GateInv, CurrentIsSince, ObservedIsSeen,
     OpensLater
<1>25. CASE Transport
  BY <1>25, Members DEF Transport, Interrupted, Anomaly, None, pnlVars,
     RecoveryFailed, Resumed, drainVars, Shapes, GateInv, CurrentIsSince,
     ObservedIsSeen, OpensLater, Open
<1>26. CASE _submit_order \/ _order_command_failed
  BY <1>26, Members DEF _submit_order, pnlVars, drainVars, bridgeVars, envVars,
     _order_command_failed, Anomaly, NoAnomaly, None, Shapes, GateInv, CurrentIsSince,
     ObservedIsSeen, OpensLater, Open
<1>27. CASE UNCHANGED vars
  BY <1>27 DEF vars, Shapes, GateInv, CurrentIsSince, ObservedIsSeen, OpensLater,
     Open
<1> QED
  BY <1>1, <1>2, <1>3, <1>4, <1>5, <1>6, <1>7, <1>8, <1>9, <1>10, <1>11, <1>12,
     <1>13, <1>14, <1>15, <1>16, <1>17, <1>18, <1>19, <1>20, <1>21, <1>22, <1>23,
     <1>24, <1>25, <1>26, <1>27 DEF Next, ConnectSteps, PollSteps, RestoreSteps,
     LoopSteps, Barriers, Runners

(* A barrier passes its gate on such an observation only. *)
LEMMA GateStep ==
  ASSUME Shapes, Shapes', GateInv, [Next]_vars
  PROVE  GateIsFresh'
<1>1. CASE _connect
  BY <1>1, Members DEF _connect, forget_pnl, Drop, bridgeVars, drainVars, envVars,
     Shapes, GateInv, ObservedIsSeen, CurrentIsSince, GateIsFresh, Open
<1>2. CASE _disconnect
  BY <1>2, Members DEF _disconnect, _stop_background, detach, CloseBarriers, Drop,
     Cancel, envVars, Shapes, GateInv, ObservedIsSeen, CurrentIsSince, GateIsFresh,
     Open
<1>3. CASE ConnectSteps
  BY <1>3, Members DEF ConnectSteps, _connect_dialled, ConnectFails,
     _stop_background, detach, CloseBarriers, Drop, Cancel, drainVars, envVars,
     _connect_pnl, begin_connect, bridgeVars, _connect_subscribed, _make_poll_task,
     StartLoad, pnlVars, _connect_barrier_raises, BarrierRaises, _connect_rearm,
     Finish, rearm, Arms, _connect_account, _disconnected, Shapes, GateInv,
     ObservedIsSeen, CurrentIsSince, GateIsFresh, Open
<1>4. ASSUME NEW b \in Barriers, Loaded(b) PROVE GateIsFresh'
  BY <1>4, Members DEF Loaded, ApplyDrain, bridgeVars, envVars, Shapes, GateInv,
     ObservedIsSeen, CurrentIsSince, GateIsFresh, Open
<1>5. CASE _stop_restore
  BY <1>5, Members DEF _stop_restore, CloseBarriers, Drop, envVars, Shapes,
     GateInv, ObservedIsSeen, CurrentIsSince, GateIsFresh, Open
<1>6. CASE _start
  <2>1. (RestoreStays \/ RestoreOpens) /\ UNCHANGED <<main, poll, cur, pnlConn, att,
        unread, fresh, alone>>
    BY <1>6, StartEffect
  <2>2. CASE RestoreStays
    BY <2>1, <2>2, Members DEF RestoreStays, Shapes, GateInv, ObservedIsSeen,
       CurrentIsSince, GateIsFresh, Open
  <2>3. CASE RestoreOpens
    BY <2>1, <2>3, Members DEF RestoreOpens, begin_connect, forget_pnl, Drop,
       Shapes, GateInv, ObservedIsSeen, CurrentIsSince, GateIsFresh, Open
  <2> QED
    BY <2>1, <2>2, <2>3
<1>7. CASE _restore_subscribed
  BY <1>7, Members DEF _restore_subscribed, _make_poll_task, StartLoad, bridgeVars,
     envVars, Shapes, GateInv, ObservedIsSeen, CurrentIsSince, GateIsFresh, Open
<1>8. CASE _attempt_failed
  <2>1. ((RestoreOpens /\ UNCHANGED fresh) \/ RestoreCloses("latched")) /\ UNCHANGED
        <<main, poll, cur, pnlConn, att, unread, alone>>
    BY <1>8, FailEffect
  <2>2. CASE RestoreOpens /\ UNCHANGED fresh
    BY <2>1, <2>2, Members DEF RestoreOpens, begin_connect, forget_pnl, Drop,
       Shapes, GateInv, ObservedIsSeen, CurrentIsSince, GateIsFresh, Open
  <2>3. CASE RestoreCloses("latched")
    BY <2>1, <2>3, Members DEF RestoreCloses, CloseBarriers, Drop, Shapes, GateInv,
       ObservedIsSeen, CurrentIsSince, GateIsFresh, Open
  <2> QED
    BY <2>1, <2>2, <2>3
<1>9. CASE _attempt_again
  <2>1. RestoreOpens /\ UNCHANGED <<main, poll, cur, pnlConn, att, unread, fresh,
        alone>>
    BY <1>9, AgainEffect
  <2> QED
    BY <2>1, Members DEF RestoreOpens, begin_connect, forget_pnl, Drop, Shapes,
       GateInv, ObservedIsSeen, CurrentIsSince, GateIsFresh, Open
<1>10. CASE _attempt_succeeded
  <2>1. bar["restore"] = "ready" /\ plant = "connecting" /\ Alive(cur) /\ alone' =
        ~shared["restore"] /\ ((RestoreOpens /\ UNCHANGED fresh) \/
        RestoreCloses("live")) /\ UNCHANGED <<main, poll, cur, pnlConn, att, unread>>
    BY <1>10, SuccessEffect
  <2>2. CASE RestoreOpens /\ UNCHANGED fresh
    BY <2>1, <2>2, Members DEF RestoreOpens, begin_connect, forget_pnl, Drop,
       Shapes, GateInv, ObservedIsSeen, CurrentIsSince, GateIsFresh, Open
  <2>3. CASE RestoreCloses("live")
    BY <2>1, <2>3, Members DEF RestoreCloses, CloseBarriers, Drop, Shapes, GateInv,
       ObservedIsSeen, CurrentIsSince, GateIsFresh, Open
  <2> QED
    BY <2>1, <2>2, <2>3
<1>11. CASE PollSteps
  BY <1>11, Members DEF PollSteps, _resync, resync_start, pnlVars, drainVars,
     bridgeVars, envVars, _resynced, resync_complete, resync_failed,
     _recover_order_gap, Anomaly, NoAnomaly, None, begin_connect, forget_pnl, Drop,
     _gap_load, StartLoad, _gap_recovered, Finish, rearm, Arms, CloseBarriers,
     _gap_failed, _poll_ends, Shapes, GateInv, ObservedIsSeen, CurrentIsSince,
     GateIsFresh, Open
<1>12. CASE PnlSteps
  BY <1>12, Members DEF PnlSteps, poll_with_epoch, Open, drainVars, bridgeVars,
     envVars, dispatch_current, NoPollInFlight, None, _pnl_poll_empty,
     _resync_pnl_subscription, Shapes, GateInv, ObservedIsSeen, CurrentIsSince,
     GateIsFresh
<1>13. CASE Transport
  BY <1>13, Members DEF Transport, Interrupted, Anomaly, None, pnlVars,
     RecoveryFailed, Resumed, drainVars, Shapes, GateInv, ObservedIsSeen,
     CurrentIsSince, GateIsFresh, Open
<1>14. CASE _submit_order \/ _order_command_failed
  BY <1>14, Members DEF _submit_order, pnlVars, drainVars, bridgeVars, envVars,
     _order_command_failed, Anomaly, NoAnomaly, None, Shapes, GateInv, ObservedIsSeen,
     CurrentIsSince, GateIsFresh, Open
<1>15. CASE UNCHANGED vars
  BY <1>15 DEF vars, Shapes, GateInv, ObservedIsSeen, CurrentIsSince, GateIsFresh,
     Open
<1> QED
  BY <1>1, <1>2, <1>3, <1>4, <1>5, <1>6, <1>7, <1>8, <1>9, <1>10, <1>11, <1>12,
     <1>13, <1>14, <1>15 DEF Next, RestoreSteps, LoopSteps, Barriers, Runners

(* A poller stays alive as long as it recovers a gap. *)
LEMMA GapStep ==
  ASSUME Shapes, Shapes', PollInv, [Next]_vars
  PROVE  GapIsPolled'
<1>1. CASE _connect
  BY <1>1, Members DEF _connect, forget_pnl, Drop, bridgeVars, drainVars, envVars,
     Shapes, PollInv, GapIsPolled
<1>2. CASE _disconnect
  BY <1>2, Members DEF _disconnect, _stop_background, detach, CloseBarriers, Drop,
     Cancel, envVars, Shapes, PollInv, GapIsPolled
<1>3. CASE ConnectSteps
  BY <1>3, Members DEF ConnectSteps, _connect_dialled, ConnectFails,
     _stop_background, detach, CloseBarriers, Drop, Cancel, drainVars, envVars,
     _connect_pnl, begin_connect, bridgeVars, _connect_subscribed, _make_poll_task,
     StartLoad, pnlVars, _connect_barrier_raises, BarrierRaises, _connect_rearm,
     Finish, rearm, Arms, _connect_account, _disconnected, Shapes, PollInv,
     GapIsPolled
<1>4. ASSUME NEW b \in Barriers, Loaded(b) PROVE GapIsPolled'
  BY <1>4, Members DEF Loaded, ApplyDrain, bridgeVars, envVars, Shapes, PollInv,
     GapIsPolled
<1>5. CASE _stop_restore
  BY <1>5, Members DEF _stop_restore, CloseBarriers, Drop, envVars, Shapes,
     PollInv, GapIsPolled
<1>6. CASE _start
  <2>1. (RestoreStays \/ RestoreOpens) /\ UNCHANGED <<main, poll, cur, pnlConn, att,
        unread, fresh, alone>>
    BY <1>6, StartEffect
  <2>2. CASE RestoreStays
    BY <2>1, <2>2, Members DEF RestoreStays, Shapes, PollInv, GapIsPolled
  <2>3. CASE RestoreOpens
    BY <2>1, <2>3, Members DEF RestoreOpens, begin_connect, forget_pnl, Drop,
       Shapes, PollInv, GapIsPolled
  <2> QED
    BY <2>1, <2>2, <2>3
<1>7. CASE _restore_subscribed
  BY <1>7, Members DEF _restore_subscribed, _make_poll_task, StartLoad, bridgeVars,
     envVars, Shapes, PollInv, GapIsPolled
<1>8. CASE _attempt_failed
  <2>1. ((RestoreOpens /\ UNCHANGED fresh) \/ RestoreCloses("latched")) /\ UNCHANGED
        <<main, poll, cur, pnlConn, att, unread, alone>>
    BY <1>8, FailEffect
  <2>2. CASE RestoreOpens /\ UNCHANGED fresh
    BY <2>1, <2>2, Members DEF RestoreOpens, begin_connect, forget_pnl, Drop,
       Shapes, PollInv, GapIsPolled
  <2>3. CASE RestoreCloses("latched")
    BY <2>1, <2>3, Members DEF RestoreCloses, CloseBarriers, Drop, Shapes, PollInv,
       GapIsPolled
  <2> QED
    BY <2>1, <2>2, <2>3
<1>9. CASE _attempt_again
  <2>1. RestoreOpens /\ UNCHANGED <<main, poll, cur, pnlConn, att, unread, fresh,
        alone>>
    BY <1>9, AgainEffect
  <2> QED
    BY <2>1, Members DEF RestoreOpens, begin_connect, forget_pnl, Drop, Shapes,
       PollInv, GapIsPolled
<1>10. CASE _attempt_succeeded
  <2>1. bar["restore"] = "ready" /\ plant = "connecting" /\ Alive(cur) /\ alone' =
        ~shared["restore"] /\ ((RestoreOpens /\ UNCHANGED fresh) \/
        RestoreCloses("live")) /\ UNCHANGED <<main, poll, cur, pnlConn, att, unread>>
    BY <1>10, SuccessEffect
  <2>2. CASE RestoreOpens /\ UNCHANGED fresh
    BY <2>1, <2>2, Members DEF RestoreOpens, begin_connect, forget_pnl, Drop,
       Shapes, PollInv, GapIsPolled
  <2>3. CASE RestoreCloses("live")
    BY <2>1, <2>3, Members DEF RestoreCloses, CloseBarriers, Drop, Shapes, PollInv,
       GapIsPolled
  <2> QED
    BY <2>1, <2>2, <2>3
<1>11. CASE PollSteps
  BY <1>11, Members DEF PollSteps, _resync, resync_start, pnlVars, drainVars,
     bridgeVars, envVars, _resynced, resync_complete, resync_failed,
     _recover_order_gap, Anomaly, NoAnomaly, None, begin_connect, forget_pnl, Drop,
     _gap_load, StartLoad, _gap_recovered, Finish, rearm, Arms, CloseBarriers,
     _gap_failed, _poll_ends, Shapes, PollInv, GapIsPolled
<1>12. CASE PnlSteps
  BY <1>12, Members DEF PnlSteps, poll_with_epoch, Open, drainVars, bridgeVars,
     envVars, dispatch_current, NoPollInFlight, None, _pnl_poll_empty,
     _resync_pnl_subscription, Shapes, PollInv, GapIsPolled
<1>13. CASE Transport
  BY <1>13, Members DEF Transport, Interrupted, Anomaly, None, pnlVars,
     RecoveryFailed, Resumed, drainVars, Shapes, PollInv, GapIsPolled
<1>14. CASE _submit_order \/ _order_command_failed
  BY <1>14, Members DEF _submit_order, pnlVars, drainVars, bridgeVars, envVars,
     _order_command_failed, Anomaly, NoAnomaly, None, Shapes, PollInv, GapIsPolled
<1>15. CASE UNCHANGED vars
  BY <1>15 DEF vars, Shapes, PollInv, GapIsPolled
<1> QED
  BY <1>1, <1>2, <1>3, <1>4, <1>5, <1>6, <1>7, <1>8, <1>9, <1>10, <1>11, <1>12,
     <1>13, <1>14, <1>15 DEF Next, RestoreSteps, LoopSteps, Barriers, Runners

(* Whatever ends the poller also disarms the plant. *)
LEMMA ArmedPollsStep ==
  ASSUME Shapes, Shapes', PollInv, [Next]_vars
  PROVE  ArmedPolls'
<1>1. CASE _connect
  BY <1>1, Members DEF _connect, forget_pnl, Drop, bridgeVars, drainVars, envVars,
     Shapes, PlantStates, PollStates, PollInv, GapIsPolled, ArmedPolls, Serving,
     Armed, Alive
<1>2. CASE _disconnect
  BY <1>2, Members DEF _disconnect, _stop_background, detach, CloseBarriers, Drop,
     Cancel, envVars, Shapes, PlantStates, PollStates, PollInv, GapIsPolled,
     ArmedPolls, Serving, Armed, Alive
<1>3. CASE ConnectSteps
  BY <1>3, Members DEF ConnectSteps, _connect_dialled, ConnectFails,
     _stop_background, detach, CloseBarriers, Drop, Cancel, drainVars, envVars,
     _connect_pnl, begin_connect, bridgeVars, _connect_subscribed, _make_poll_task,
     StartLoad, pnlVars, _connect_barrier_raises, BarrierRaises, _connect_rearm,
     Finish, rearm, Arms, _connect_account, _disconnected, Shapes, PlantStates,
     PollStates, PollInv, GapIsPolled, ArmedPolls, Serving, Armed, Alive
<1>4. ASSUME NEW b \in Barriers, Loaded(b) PROVE ArmedPolls'
  BY <1>4, Members DEF Loaded, ApplyDrain, bridgeVars, envVars, Shapes,
     PlantStates, PollStates, PollInv, GapIsPolled, ArmedPolls, Serving, Armed, Alive
<1>5. CASE _stop_restore
  BY <1>5, Members DEF _stop_restore, CloseBarriers, Drop, envVars, Shapes,
     PlantStates, PollStates, PollInv, GapIsPolled, ArmedPolls, Serving, Armed, Alive
<1>6. CASE _start
  <2>1. (RestoreStays \/ RestoreOpens) /\ UNCHANGED <<main, poll, cur, pnlConn, att,
        unread, fresh, alone>>
    BY <1>6, StartEffect
  <2>2. CASE RestoreStays
    BY <2>1, <2>2, Members DEF RestoreStays, Shapes, PlantStates, PollStates,
       PollInv, GapIsPolled, ArmedPolls, Serving, Armed, Alive
  <2>3. CASE RestoreOpens
    BY <2>1, <2>3, Members DEF RestoreOpens, begin_connect, forget_pnl, Drop,
       Shapes, PlantStates, PollStates, PollInv, GapIsPolled, ArmedPolls, Serving,
       Armed, Alive
  <2> QED
    BY <2>1, <2>2, <2>3
<1>7. CASE _restore_subscribed
  BY <1>7, Members DEF _restore_subscribed, _make_poll_task, StartLoad, bridgeVars,
     envVars, Shapes, PlantStates, PollStates, PollInv, GapIsPolled, ArmedPolls,
     Serving, Armed, Alive
<1>8. CASE _attempt_failed
  <2>1. ((RestoreOpens /\ UNCHANGED fresh) \/ RestoreCloses("latched")) /\ UNCHANGED
        <<main, poll, cur, pnlConn, att, unread, alone>>
    BY <1>8, FailEffect
  <2>2. CASE RestoreOpens /\ UNCHANGED fresh
    BY <2>1, <2>2, Members DEF RestoreOpens, begin_connect, forget_pnl, Drop,
       Shapes, PlantStates, PollStates, PollInv, GapIsPolled, ArmedPolls, Serving,
       Armed, Alive
  <2>3. CASE RestoreCloses("latched")
    BY <2>1, <2>3, Members DEF RestoreCloses, CloseBarriers, Drop, Shapes,
       PlantStates, PollStates, PollInv, GapIsPolled, ArmedPolls, Serving, Armed,
       Alive
  <2> QED
    BY <2>1, <2>2, <2>3
<1>9. CASE _attempt_again
  <2>1. RestoreOpens /\ UNCHANGED <<main, poll, cur, pnlConn, att, unread, fresh,
        alone>>
    BY <1>9, AgainEffect
  <2> QED
    BY <2>1, Members DEF RestoreOpens, begin_connect, forget_pnl, Drop, Shapes,
       PlantStates, PollStates, PollInv, GapIsPolled, ArmedPolls, Serving, Armed,
       Alive
<1>10. CASE _attempt_succeeded
  <2>1. bar["restore"] = "ready" /\ plant = "connecting" /\ Alive(cur) /\ alone' =
        ~shared["restore"] /\ ((RestoreOpens /\ UNCHANGED fresh) \/
        RestoreCloses("live")) /\ UNCHANGED <<main, poll, cur, pnlConn, att, unread>>
    BY <1>10, SuccessEffect
  <2>2. CASE RestoreOpens /\ UNCHANGED fresh
    BY <2>1, <2>2, Members DEF RestoreOpens, begin_connect, forget_pnl, Drop,
       Shapes, PlantStates, PollStates, PollInv, GapIsPolled, ArmedPolls, Serving,
       Armed, Alive
  <2>3. CASE RestoreCloses("live")
    BY <2>1, <2>3, Members DEF RestoreCloses, CloseBarriers, Drop, Shapes,
       PlantStates, PollStates, PollInv, GapIsPolled, ArmedPolls, Serving, Armed,
       Alive
  <2> QED
    BY <2>1, <2>2, <2>3
<1>11. CASE PollSteps
  BY <1>11, Members DEF PollSteps, _resync, resync_start, pnlVars, drainVars,
     bridgeVars, envVars, _resynced, resync_complete, resync_failed,
     _recover_order_gap, Anomaly, NoAnomaly, None, begin_connect, forget_pnl, Drop,
     _gap_load, StartLoad, _gap_recovered, Finish, rearm, Arms, CloseBarriers,
     _gap_failed, _poll_ends, Shapes, PlantStates, PollStates, PollInv, GapIsPolled,
     ArmedPolls, Serving, Armed, Alive
<1>12. CASE PnlSteps
  BY <1>12, Members DEF PnlSteps, poll_with_epoch, Open, drainVars, bridgeVars,
     envVars, dispatch_current, NoPollInFlight, None, _pnl_poll_empty,
     _resync_pnl_subscription, Shapes, PlantStates, PollStates, PollInv, GapIsPolled,
     ArmedPolls, Serving, Armed, Alive
<1>13. CASE Transport
  BY <1>13, Members DEF Transport, Interrupted, Anomaly, None, pnlVars,
     RecoveryFailed, Resumed, drainVars, Shapes, PlantStates, PollStates, PollInv,
     GapIsPolled, ArmedPolls, Serving, Armed, Alive
<1>14. CASE _submit_order \/ _order_command_failed
  BY <1>14, Members DEF _submit_order, pnlVars, drainVars, bridgeVars, envVars,
     _order_command_failed, Anomaly, NoAnomaly, None, Shapes, PlantStates, PollStates,
     PollInv, GapIsPolled, ArmedPolls, Serving, Armed, Alive
<1>15. CASE UNCHANGED vars
  BY <1>15 DEF vars, Shapes, PlantStates, PollStates, PollInv, GapIsPolled,
     ArmedPolls, Serving, Armed, Alive
<1> QED
  BY <1>1, <1>2, <1>3, <1>4, <1>5, <1>6, <1>7, <1>8, <1>9, <1>10, <1>11, <1>12,
     <1>13, <1>14, <1>15 DEF Next, RestoreSteps, LoopSteps, Barriers, Runners

(* The bridge listens from the attempt on. *)
LEMMA ListensStep ==
  ASSUME Shapes, Shapes', ReadInv, [Next]_vars
  PROVE  Listens'
<1>1. CASE _connect
  BY <1>1, Members DEF _connect, forget_pnl, Drop, bridgeVars, drainVars, envVars,
     Shapes, PlantStates, ReadInv, Listens
<1>2. CASE _disconnect
  BY <1>2, Members DEF _disconnect, _stop_background, detach, CloseBarriers, Drop,
     Cancel, envVars, Shapes, PlantStates, ReadInv, Listens
<1>3. CASE ConnectSteps
  BY <1>3, Members DEF ConnectSteps, _connect_dialled, ConnectFails,
     _stop_background, detach, CloseBarriers, Drop, Cancel, drainVars, envVars,
     _connect_pnl, begin_connect, bridgeVars, _connect_subscribed, _make_poll_task,
     StartLoad, pnlVars, _connect_barrier_raises, BarrierRaises, _connect_rearm,
     Finish, rearm, Arms, _connect_account, _disconnected, Shapes, PlantStates,
     ReadInv, Listens
<1>4. ASSUME NEW b \in Barriers, Loaded(b) PROVE Listens'
  BY <1>4, Members DEF Loaded, ApplyDrain, bridgeVars, envVars, Shapes,
     PlantStates, ReadInv, Listens
<1>5. CASE _stop_restore
  BY <1>5, Members DEF _stop_restore, CloseBarriers, Drop, envVars, Shapes,
     PlantStates, ReadInv, Listens
<1>6. CASE _start
  <2>1. (RestoreStays \/ RestoreOpens) /\ UNCHANGED <<main, poll, cur, pnlConn, att,
        unread, fresh, alone>>
    BY <1>6, StartEffect
  <2>2. CASE RestoreStays
    BY <2>1, <2>2, Members DEF RestoreStays, Shapes, PlantStates, ReadInv, Listens
  <2>3. CASE RestoreOpens
    BY <2>1, <2>3, Members DEF RestoreOpens, begin_connect, forget_pnl, Drop,
       Shapes, PlantStates, ReadInv, Listens
  <2> QED
    BY <2>1, <2>2, <2>3
<1>7. CASE _restore_subscribed
  BY <1>7, Members DEF _restore_subscribed, _make_poll_task, StartLoad, bridgeVars,
     envVars, Shapes, PlantStates, ReadInv, Listens
<1>8. CASE _attempt_failed
  <2>1. ((RestoreOpens /\ UNCHANGED fresh) \/ RestoreCloses("latched")) /\ UNCHANGED
        <<main, poll, cur, pnlConn, att, unread, alone>>
    BY <1>8, FailEffect
  <2>2. CASE RestoreOpens /\ UNCHANGED fresh
    BY <2>1, <2>2, Members DEF RestoreOpens, begin_connect, forget_pnl, Drop,
       Shapes, PlantStates, ReadInv, Listens
  <2>3. CASE RestoreCloses("latched")
    BY <2>1, <2>3, Members DEF RestoreCloses, CloseBarriers, Drop, Shapes,
       PlantStates, ReadInv, Listens
  <2> QED
    BY <2>1, <2>2, <2>3
<1>9. CASE _attempt_again
  <2>1. RestoreOpens /\ UNCHANGED <<main, poll, cur, pnlConn, att, unread, fresh,
        alone>>
    BY <1>9, AgainEffect
  <2> QED
    BY <2>1, Members DEF RestoreOpens, begin_connect, forget_pnl, Drop, Shapes,
       PlantStates, ReadInv, Listens
<1>10. CASE _attempt_succeeded
  <2>1. bar["restore"] = "ready" /\ plant = "connecting" /\ Alive(cur) /\ alone' =
        ~shared["restore"] /\ ((RestoreOpens /\ UNCHANGED fresh) \/
        RestoreCloses("live")) /\ UNCHANGED <<main, poll, cur, pnlConn, att, unread>>
    BY <1>10, SuccessEffect
  <2>2. CASE RestoreOpens /\ UNCHANGED fresh
    BY <2>1, <2>2, Members DEF RestoreOpens, begin_connect, forget_pnl, Drop,
       Shapes, PlantStates, ReadInv, Listens
  <2>3. CASE RestoreCloses("live")
    BY <2>1, <2>3, Members DEF RestoreCloses, CloseBarriers, Drop, Shapes,
       PlantStates, ReadInv, Listens
  <2> QED
    BY <2>1, <2>2, <2>3
<1>11. CASE PollSteps
  BY <1>11, Members DEF PollSteps, _resync, resync_start, pnlVars, drainVars,
     bridgeVars, envVars, _resynced, resync_complete, resync_failed,
     _recover_order_gap, Anomaly, NoAnomaly, None, begin_connect, forget_pnl, Drop,
     _gap_load, StartLoad, _gap_recovered, Finish, rearm, Arms, CloseBarriers,
     _gap_failed, _poll_ends, Shapes, PlantStates, ReadInv, Listens
<1>12. CASE PnlSteps
  BY <1>12, Members DEF PnlSteps, poll_with_epoch, Open, drainVars, bridgeVars,
     envVars, dispatch_current, NoPollInFlight, None, _pnl_poll_empty,
     _resync_pnl_subscription, Shapes, PlantStates, ReadInv, Listens
<1>13. CASE Transport
  BY <1>13, Members DEF Transport, Interrupted, Anomaly, None, pnlVars,
     RecoveryFailed, Resumed, drainVars, Shapes, PlantStates, ReadInv, Listens
<1>14. CASE _submit_order \/ _order_command_failed
  BY <1>14, Members DEF _submit_order, pnlVars, drainVars, bridgeVars, envVars,
     _order_command_failed, Anomaly, NoAnomaly, None, Shapes, PlantStates, ReadInv,
     Listens
<1>15. CASE UNCHANGED vars
  BY <1>15 DEF vars, Shapes, PlantStates, ReadInv, Listens
<1> QED
  BY <1>1, <1>2, <1>3, <1>4, <1>5, <1>6, <1>7, <1>8, <1>9, <1>10, <1>11, <1>12,
     <1>13, <1>14, <1>15 DEF Next, RestoreSteps, LoopSteps, Barriers, Runners

(* A barrier that has CONNECTING for itself covers the last anomaly. *)
LEMMA BarrierStep ==
  ASSUME Shapes, Shapes', ReadInv, [Next]_vars
  PROVE  BarrierReads'
<1>1. CASE _connect
  BY <1>1, Members DEF _connect, forget_pnl, Drop, bridgeVars, drainVars, envVars,
     Shapes, PlantStates, ReadInv, Listens, BarrierReads, Serving, Covers
<1>2. CASE _disconnect
  BY <1>2, Members DEF _disconnect, _stop_background, detach, CloseBarriers, Drop,
     Cancel, envVars, Shapes, PlantStates, ReadInv, Listens, BarrierReads, Serving,
     Covers
<1>3. CASE ConnectSteps
  BY <1>3, Members DEF ConnectSteps, _connect_dialled, ConnectFails,
     _stop_background, detach, CloseBarriers, Drop, Cancel, drainVars, envVars,
     _connect_pnl, begin_connect, bridgeVars, _connect_subscribed, _make_poll_task,
     StartLoad, pnlVars, _connect_barrier_raises, BarrierRaises, _connect_rearm,
     Finish, rearm, Arms, _connect_account, _disconnected, Shapes, PlantStates,
     ReadInv, Listens, BarrierReads, Serving, Covers
<1>4. ASSUME NEW b \in Barriers, Loaded(b) PROVE BarrierReads'
  BY <1>4, Members DEF Loaded, ApplyDrain, bridgeVars, envVars, Shapes,
     PlantStates, ReadInv, Listens, BarrierReads, Serving, Covers
<1>5. CASE _stop_restore
  BY <1>5, Members DEF _stop_restore, CloseBarriers, Drop, envVars, Shapes,
     PlantStates, ReadInv, Listens, BarrierReads, Serving, Covers
<1>6. CASE _start
  <2>1. (RestoreStays \/ RestoreOpens) /\ UNCHANGED <<main, poll, cur, pnlConn, att,
        unread, fresh, alone>>
    BY <1>6, StartEffect
  <2>2. CASE RestoreStays
    BY <2>1, <2>2, Members DEF RestoreStays, Shapes, PlantStates, ReadInv, Listens,
       BarrierReads, Serving, Covers
  <2>3. CASE RestoreOpens
    BY <2>1, <2>3, Members DEF RestoreOpens, begin_connect, forget_pnl, Drop,
       Shapes, PlantStates, ReadInv, Listens, BarrierReads, Serving, Covers
  <2> QED
    BY <2>1, <2>2, <2>3
<1>7. CASE _restore_subscribed
  BY <1>7, Members DEF _restore_subscribed, _make_poll_task, StartLoad, bridgeVars,
     envVars, Shapes, PlantStates, ReadInv, Listens, BarrierReads, Serving, Covers
<1>8. CASE _attempt_failed
  <2>1. ((RestoreOpens /\ UNCHANGED fresh) \/ RestoreCloses("latched")) /\ UNCHANGED
        <<main, poll, cur, pnlConn, att, unread, alone>>
    BY <1>8, FailEffect
  <2>2. CASE RestoreOpens /\ UNCHANGED fresh
    BY <2>1, <2>2, Members DEF RestoreOpens, begin_connect, forget_pnl, Drop,
       Shapes, PlantStates, ReadInv, Listens, BarrierReads, Serving, Covers
  <2>3. CASE RestoreCloses("latched")
    BY <2>1, <2>3, Members DEF RestoreCloses, CloseBarriers, Drop, Shapes,
       PlantStates, ReadInv, Listens, BarrierReads, Serving, Covers
  <2> QED
    BY <2>1, <2>2, <2>3
<1>9. CASE _attempt_again
  <2>1. RestoreOpens /\ UNCHANGED <<main, poll, cur, pnlConn, att, unread, fresh,
        alone>>
    BY <1>9, AgainEffect
  <2> QED
    BY <2>1, Members DEF RestoreOpens, begin_connect, forget_pnl, Drop, Shapes,
       PlantStates, ReadInv, Listens, BarrierReads, Serving, Covers
<1>10. CASE _attempt_succeeded
  <2>1. bar["restore"] = "ready" /\ plant = "connecting" /\ Alive(cur) /\ alone' =
        ~shared["restore"] /\ ((RestoreOpens /\ UNCHANGED fresh) \/
        RestoreCloses("live")) /\ UNCHANGED <<main, poll, cur, pnlConn, att, unread>>
    BY <1>10, SuccessEffect
  <2>2. CASE RestoreOpens /\ UNCHANGED fresh
    BY <2>1, <2>2, Members DEF RestoreOpens, begin_connect, forget_pnl, Drop,
       Shapes, PlantStates, ReadInv, Listens, BarrierReads, Serving, Covers
  <2>3. CASE RestoreCloses("live")
    BY <2>1, <2>3, Members DEF RestoreCloses, CloseBarriers, Drop, Shapes,
       PlantStates, ReadInv, Listens, BarrierReads, Serving, Covers
  <2> QED
    BY <2>1, <2>2, <2>3
<1>11. CASE PollSteps
  BY <1>11, Members DEF PollSteps, _resync, resync_start, pnlVars, drainVars,
     bridgeVars, envVars, _resynced, resync_complete, resync_failed,
     _recover_order_gap, Anomaly, NoAnomaly, None, begin_connect, forget_pnl, Drop,
     _gap_load, StartLoad, _gap_recovered, Finish, rearm, Arms, CloseBarriers,
     _gap_failed, _poll_ends, Shapes, PlantStates, ReadInv, Listens, BarrierReads,
     Serving, Covers
<1>12. CASE PnlSteps
  BY <1>12, Members DEF PnlSteps, poll_with_epoch, Open, drainVars, bridgeVars,
     envVars, dispatch_current, NoPollInFlight, None, _pnl_poll_empty,
     _resync_pnl_subscription, Shapes, PlantStates, ReadInv, Listens, BarrierReads,
     Serving, Covers
<1>13. CASE Transport
  BY <1>13, Members DEF Transport, Interrupted, Anomaly, None, pnlVars,
     RecoveryFailed, Resumed, drainVars, Shapes, PlantStates, ReadInv, Listens,
     BarrierReads, Serving, Covers
<1>14. CASE _submit_order \/ _order_command_failed
  BY <1>14, Members DEF _submit_order, pnlVars, drainVars, bridgeVars, envVars,
     _order_command_failed, Anomaly, NoAnomaly, None, Shapes, PlantStates, ReadInv,
     Listens, BarrierReads, Serving, Covers
<1>15. CASE UNCHANGED vars
  BY <1>15 DEF vars, Shapes, PlantStates, ReadInv, Listens, BarrierReads, Serving,
     Covers
<1> QED
  BY <1>1, <1>2, <1>3, <1>4, <1>5, <1>6, <1>7, <1>8, <1>9, <1>10, <1>11, <1>12,
     <1>13, <1>14, <1>15 DEF Next, RestoreSteps, LoopSteps, Barriers, Runners

(* What it armed is re-read. *)
LEMMA ArmedReadsStep ==
  ASSUME Shapes, Shapes', ReadInv, [Next]_vars
  PROVE  ArmedReads'
<1>1. CASE _connect
  BY <1>1, Members DEF _connect, forget_pnl, Drop, bridgeVars, drainVars, envVars,
     Shapes, PlantStates, ReadInv, Listens, BarrierReads, ArmedReads, Serving, Armed,
     Covers
<1>2. CASE _disconnect
  BY <1>2, Members DEF _disconnect, _stop_background, detach, CloseBarriers, Drop,
     Cancel, envVars, Shapes, PlantStates, ReadInv, Listens, BarrierReads, ArmedReads,
     Serving, Armed, Covers
<1>3. CASE ConnectSteps
  BY <1>3, Members DEF ConnectSteps, _connect_dialled, ConnectFails,
     _stop_background, detach, CloseBarriers, Drop, Cancel, drainVars, envVars,
     _connect_pnl, begin_connect, bridgeVars, _connect_subscribed, _make_poll_task,
     StartLoad, pnlVars, _connect_barrier_raises, BarrierRaises, _connect_rearm,
     Finish, rearm, Arms, _connect_account, _disconnected, Shapes, PlantStates,
     ReadInv, Listens, BarrierReads, ArmedReads, Serving, Armed, Covers
<1>4. ASSUME NEW b \in Barriers, Loaded(b) PROVE ArmedReads'
  BY <1>4, Members DEF Loaded, ApplyDrain, bridgeVars, envVars, Shapes,
     PlantStates, ReadInv, Listens, BarrierReads, ArmedReads, Serving, Armed, Covers
<1>5. CASE _stop_restore
  BY <1>5, Members DEF _stop_restore, CloseBarriers, Drop, envVars, Shapes,
     PlantStates, ReadInv, Listens, BarrierReads, ArmedReads, Serving, Armed, Covers
<1>6. CASE _start
  <2>1. (RestoreStays \/ RestoreOpens) /\ UNCHANGED <<main, poll, cur, pnlConn, att,
        unread, fresh, alone>>
    BY <1>6, StartEffect
  <2>2. CASE RestoreStays
    BY <2>1, <2>2, Members DEF RestoreStays, Shapes, PlantStates, ReadInv, Listens,
       BarrierReads, ArmedReads, Serving, Armed, Covers
  <2>3. CASE RestoreOpens
    BY <2>1, <2>3, Members DEF RestoreOpens, begin_connect, forget_pnl, Drop,
       Shapes, PlantStates, ReadInv, Listens, BarrierReads, ArmedReads, Serving,
       Armed, Covers
  <2> QED
    BY <2>1, <2>2, <2>3
<1>7. CASE _restore_subscribed
  BY <1>7, Members DEF _restore_subscribed, _make_poll_task, StartLoad, bridgeVars,
     envVars, Shapes, PlantStates, ReadInv, Listens, BarrierReads, ArmedReads,
     Serving, Armed, Covers
<1>8. CASE _attempt_failed
  <2>1. ((RestoreOpens /\ UNCHANGED fresh) \/ RestoreCloses("latched")) /\ UNCHANGED
        <<main, poll, cur, pnlConn, att, unread, alone>>
    BY <1>8, FailEffect
  <2>2. CASE RestoreOpens /\ UNCHANGED fresh
    BY <2>1, <2>2, Members DEF RestoreOpens, begin_connect, forget_pnl, Drop,
       Shapes, PlantStates, ReadInv, Listens, BarrierReads, ArmedReads, Serving,
       Armed, Covers
  <2>3. CASE RestoreCloses("latched")
    BY <2>1, <2>3, Members DEF RestoreCloses, CloseBarriers, Drop, Shapes,
       PlantStates, ReadInv, Listens, BarrierReads, ArmedReads, Serving, Armed, Covers
  <2> QED
    BY <2>1, <2>2, <2>3
<1>9. CASE _attempt_again
  <2>1. RestoreOpens /\ UNCHANGED <<main, poll, cur, pnlConn, att, unread, fresh,
        alone>>
    BY <1>9, AgainEffect
  <2> QED
    BY <2>1, Members DEF RestoreOpens, begin_connect, forget_pnl, Drop, Shapes,
       PlantStates, ReadInv, Listens, BarrierReads, ArmedReads, Serving, Armed, Covers
<1>10. CASE _attempt_succeeded
  <2>1. bar["restore"] = "ready" /\ plant = "connecting" /\ Alive(cur) /\ alone' =
        ~shared["restore"] /\ ((RestoreOpens /\ UNCHANGED fresh) \/
        RestoreCloses("live")) /\ UNCHANGED <<main, poll, cur, pnlConn, att, unread>>
    BY <1>10, SuccessEffect
  <2>2. CASE RestoreOpens /\ UNCHANGED fresh
    BY <2>1, <2>2, Members DEF RestoreOpens, begin_connect, forget_pnl, Drop,
       Shapes, PlantStates, ReadInv, Listens, BarrierReads, ArmedReads, Serving,
       Armed, Covers
  <2>3. CASE RestoreCloses("live")
    BY <2>1, <2>3, Members DEF RestoreCloses, CloseBarriers, Drop, Shapes,
       PlantStates, ReadInv, Listens, BarrierReads, ArmedReads, Serving, Armed, Covers
  <2> QED
    BY <2>1, <2>2, <2>3
<1>11. CASE PollSteps
  BY <1>11, Members DEF PollSteps, _resync, resync_start, pnlVars, drainVars,
     bridgeVars, envVars, _resynced, resync_complete, resync_failed,
     _recover_order_gap, Anomaly, NoAnomaly, None, begin_connect, forget_pnl, Drop,
     _gap_load, StartLoad, _gap_recovered, Finish, rearm, Arms, CloseBarriers,
     _gap_failed, _poll_ends, Shapes, PlantStates, ReadInv, Listens, BarrierReads,
     ArmedReads, Serving, Armed, Covers
<1>12. CASE PnlSteps
  BY <1>12, Members DEF PnlSteps, poll_with_epoch, Open, drainVars, bridgeVars,
     envVars, dispatch_current, NoPollInFlight, None, _pnl_poll_empty,
     _resync_pnl_subscription, Shapes, PlantStates, ReadInv, Listens, BarrierReads,
     ArmedReads, Serving, Armed, Covers
<1>13. CASE Transport
  BY <1>13, Members DEF Transport, Interrupted, Anomaly, None, pnlVars,
     RecoveryFailed, Resumed, drainVars, Shapes, PlantStates, ReadInv, Listens,
     BarrierReads, ArmedReads, Serving, Armed, Covers
<1>14. CASE _submit_order \/ _order_command_failed
  BY <1>14, Members DEF _submit_order, pnlVars, drainVars, bridgeVars, envVars,
     _order_command_failed, Anomaly, NoAnomaly, None, Shapes, PlantStates, ReadInv,
     Listens, BarrierReads, ArmedReads, Serving, Armed, Covers
<1>15. CASE UNCHANGED vars
  BY <1>15 DEF vars, Shapes, PlantStates, ReadInv, Listens, BarrierReads,
     ArmedReads, Serving, Armed, Covers
<1> QED
  BY <1>1, <1>2, <1>3, <1>4, <1>5, <1>6, <1>7, <1>8, <1>9, <1>10, <1>11, <1>12,
     <1>13, <1>14, <1>15 DEF Next, RestoreSteps, LoopSteps, Barriers, Runners

(* Every step keeps the invariant. *)
LEMMA Inductive == IInv /\ [Next]_vars => IInv'
<1> SUFFICES ASSUME IInv, [Next]_vars PROVE IInv'
  OBVIOUS
<1>1. Shapes'
  BY ShapesStep DEF IInv
<1>2. ReadInv'
  BY <1>1, ListensStep, BarrierStep, ArmedReadsStep DEF IInv, ReadInv
<1>3. PollInv'
  BY <1>1, GapStep, ArmedPollsStep DEF IInv, PollInv
<1>4. GateInv'
  BY <1>1, OpensLaterStep, CurrentStep, ObservedStep, GateStep DEF IInv, GateInv
<1> QED
  BY <1>1, <1>2, <1>3, <1>4 DEF IInv

(* IInv holds in every behaviour. *)
LEMMA Invariance == Spec => []IInv
<1> QED
  BY Initially, Inductive, PTL DEF Spec

-----------------------------------------------------------------------------
(* However connect, the restore task, the order pollers and the transport interleave, *)
(* a plant that one barrier armed alone (_rearm_after_reconnect, rearm) shows a venue *)
(* state read after the last transport break, unknown outcome or lost order event.    *)
THEOREM ArmedIsRead == Spec => []ArmedAloneIsReread
<1>1. IInv => ArmedAloneIsReread
  BY DEF IInv, ReadInv, ArmedReads, ArmedAloneIsReread, Armed
<1> QED
  BY <1>1, Invariance, PTL

(* A plant that admits orders (allow_submit) has a poller that hears of their fate:  *)
(* every end of a poller disarms it, and rearm asks for one.                          *)
THEOREM LivePlantIsPolled == Spec => []LiveHasPoller
<1>1. IInv => LiveHasPoller
  BY DEF IInv, PollInv, ArmedPolls, LiveHasPoller, Armed
<1> QED
  BY <1>1, Invariance, PTL

(* No barrier passes the PnL gate of _rearm_after_reconnect on a poll that began      *)
(* before it, whichever barrier reset the epoch last (poll_with_epoch, forget_pnl).   *)
THEOREM PnlGateIsFresh == Spec => []GateIsFresh
<1>1. IInv => GateIsFresh
  BY DEF IInv, GateInv
<1> QED
  BY <1>1, Invariance, PTL

-----------------------------------------------------------------------------
(* The Resumed events *)

Callbacks == [t : {"down", "start"}, gen : Nat]
ResumeShapes ==
  /\ lq \in Seq(Callbacks) /\ gen \in Nat /\ owed \in Nat /\ lastGen \in Nat
  /\ pendGen \in Nat /\ task.gen \in Nat /\ att \in BOOLEAN

\* No generation is newer than the transport's, and a restore is for one not yet done.
Generations == /\ pendGen <= gen /\ task.gen <= gen
               /\ \A i \in 1..Len(lq) : lq[i].gen <= gen
               /\ task.pc # "none" => task.gen > lastGen

\* A Resumed that no break followed is the newest generation: done, or the last callback
\* in the queue, or under restore, or next to be restored.
OwedIsHeld ==
  owed # 0 => /\ att /\ owed = gen
              /\ \/ lastGen >= owed
                 \/ lq # <<>> /\ lq[Len(lq)] = [t |-> "start", gen |-> owed]
                 \/ lq = <<>> /\ task.pc # "none" /\ (task.gen = owed \/ pendGen = owed)
ResumeInv == ResumeShapes /\ Generations /\ OwedIsHeld

(* Taking the head of the queue keeps the others. *)
LEMMA TakeOne ==
  ASSUME NEW q \in Seq(Callbacks), q # <<>>
  PROVE  /\ Tail(q) \in Seq(Callbacks) /\ Len(Tail(q)) = Len(q) - 1 /\ Len(q) > 0
         /\ Head(q) = q[1] /\ q[1] \in Callbacks
         /\ \A i \in 1..Len(Tail(q)) : Tail(q)[i] = q[i + 1] /\ i + 1 \in 1..Len(q)
         /\ Tail(q) # <<>> => Len(q) > 1 /\ Tail(q)[Len(Tail(q))] = q[Len(q)]
         /\ Tail(q) = <<>> => Len(q) = 1
<1>1. Len(q) \in Nat /\ Len(q) > 0
  OBVIOUS
<1>2. Tail(q) \in Seq(Callbacks) /\ Len(Tail(q)) = Len(q) - 1
  BY <1>1
<1>3. \A i \in 1..Len(Tail(q)) : Tail(q)[i] = q[i + 1] /\ i + 1 \in 1..Len(q)
  BY <1>1, <1>2
<1>4. Head(q) = q[1] /\ q[1] \in Callbacks
  BY <1>1
<1>5. Tail(q) # <<>> => Len(q) > 1 /\ Tail(q)[Len(Tail(q))] = q[Len(q)]
  <2> SUFFICES ASSUME Tail(q) # <<>> PROVE Len(q) > 1 /\ Tail(q)[Len(Tail(q))] = q[Len(q)]
    OBVIOUS
  <2>1. Len(Tail(q)) > 0
    BY <1>2
  <2> QED
    BY <2>1, <1>1, <1>2, <1>3
<1>6. Tail(q) = <<>> => Len(q) = 1
  BY <1>1, <1>2
<1> QED
  BY <1>1, <1>2, <1>3, <1>4, <1>5, <1>6

(* Putting one at the end. *)
LEMMA PutOne ==
  ASSUME NEW q \in Seq(Callbacks), NEW e \in Callbacks
  PROVE  /\ Append(q, e) \in Seq(Callbacks) /\ Append(q, e) # <<>>
         /\ Len(Append(q, e)) = Len(q) + 1 /\ Append(q, e)[Len(Append(q, e))] = e
         /\ \A i \in 1..Len(Append(q, e)) :
              Append(q, e)[i] = e \/ (i \in 1..Len(q) /\ Append(q, e)[i] = q[i])
OBVIOUS

\* The bridge is detached, attached, or left alone.
BridgeRests == UNCHANGED <<bridgeVars, gen>>
BridgeDetaches == detach /\ UNCHANGED gen
BridgeAttaches == att' = TRUE /\ UNCHANGED <<lq, task, pendGen, lastGen, owed, gen>>

(* Only its own steps and the transport's do anything else to it. *)
LEMMA BridgeEffect ==
  ASSUME [Next]_vars
  PROVE  \/ BridgeRests \/ BridgeDetaches \/ BridgeAttaches
         \/ Transport \/ LoopSteps
         \/ _attempt_failed \/ _attempt_again \/ _attempt_succeeded
<1>1. CASE _connect \/ _disconnect \/ ConnectSteps
  BY <1>1 DEF _connect, _disconnect, ConnectSteps, _connect_dialled, _connect_pnl,
     _connect_subscribed, _connect_barrier_raises, _connect_rearm, _connect_account,
     _disconnected, ConnectFails, _stop_background, bridgeVars, envVars, BridgeRests,
     BridgeDetaches, BridgeAttaches
<1>2. CASE (\E b \in Barriers : Loaded(b)) \/ _restore_subscribed
  BY <1>2 DEF Loaded, _restore_subscribed, bridgeVars, envVars, BridgeRests
<1>3. CASE PollSteps
  BY <1>3 DEF PollSteps, _resync, _resynced, _recover_order_gap, _gap_load, _gap_recovered,
     _gap_failed, _poll_ends, bridgeVars, envVars, BridgeRests
<1>4. CASE PnlSteps \/ _submit_order \/ _order_command_failed
  BY <1>4 DEF PnlSteps, poll_with_epoch, dispatch_current, _pnl_poll_empty,
     _resync_pnl_subscription, _submit_order, _order_command_failed, bridgeVars, envVars,
     BridgeRests
<1>5. CASE UNCHANGED vars
  BY <1>5 DEF vars, bridgeVars, BridgeRests
<1> QED
  BY <1>1, <1>2, <1>3, <1>4, <1>5, Members DEF Next, RestoreSteps

(* Every step keeps the newest Resumed in view. *)
LEMMA ResumeStep == ResumeInv /\ [Next]_vars => ResumeInv'
<1> SUFFICES ASSUME ResumeInv, [Next]_vars PROVE ResumeInv'
  OBVIOUS
<1> USE DEF ResumeInv, ResumeShapes, Generations, OwedIsHeld
<1>1. CASE BridgeRests
  BY <1>1 DEF BridgeRests, bridgeVars
<1>2. CASE BridgeDetaches
  <2>1. /\ att' = FALSE /\ task' = [pc |-> "none", gen |-> 0, attempt |-> 0] /\ pendGen' = 0
        /\ lastGen' = 0 /\ owed' = 0 /\ lq' = lq /\ gen' = gen
    BY <1>2 DEF BridgeDetaches, detach, NoTask
  <2>2. ResumeShapes'
    BY <2>1
  <2>3. Generations'
    BY <2>1
  <2>4. OwedIsHeld'
    BY <2>1
  <2> QED
    BY <2>2, <2>3, <2>4
<1>3. CASE BridgeAttaches
  BY <1>3 DEF BridgeAttaches
<1>4. CASE Interrupted \/ RecoveryFailed
  <2>1. UNCHANGED <<att, task, pendGen, lastGen, gen>>
    BY <1>4 DEF Interrupted, RecoveryFailed
  <2>2. CASE ~att
    BY <1>4, <2>1, <2>2 DEF Interrupted, RecoveryFailed
  <2>3. CASE att
    <3> DEFINE down == [t |-> "down", gen |-> 0]
    <3>1. lq' = Append(lq, down) /\ owed' = 0 /\ down \in Callbacks
      BY <1>4, <2>3 DEF Interrupted, RecoveryFailed, Hop, Callbacks
    <3> QED
      BY <2>1, <3>1, PutOne
  <2> QED
    BY <2>2, <2>3
<1>5. CASE Resumed
  <2>1. UNCHANGED <<att, task, pendGen, lastGen>> /\ gen' = gen + 1
    BY <1>5 DEF Resumed
  <2>4. \A i \in 1..Len(lq) : lq[i].gen \in Nat /\ lq[i].gen <= gen + 1
    <3> SUFFICES ASSUME NEW i \in 1..Len(lq) PROVE lq[i].gen \in Nat /\ lq[i].gen <= gen + 1
      OBVIOUS
    <3>1. lq[i] \in Callbacks
      OBVIOUS
    <3>2. lq[i].gen \in Nat
      BY <3>1 DEF Callbacks
    <3> QED
      BY <3>2
  <2>2. CASE ~att
    <3>1. UNCHANGED <<lq, owed>> /\ owed = 0
      BY <1>5, <2>2 DEF Resumed
    <3>2. Generations'
      BY <2>1, <2>4, <3>1
    <3> QED
      BY <2>1, <3>1, <3>2
  <2>3. CASE att
    <3> DEFINE start == [t |-> "start", gen |-> gen + 1]
    <3>1. lq' = Append(lq, start) /\ owed' = gen + 1 /\ start \in Callbacks
      BY <1>5, <2>3 DEF Resumed, Hop, Callbacks
    <3>2. \A i \in 1..Len(lq') : lq'[i].gen <= gen'
      BY <2>1, <2>4, <3>1, PutOne
    <3>3. lq' # <<>> /\ lq'[Len(lq')] = [t |-> "start", gen |-> owed']
      BY <3>1, PutOne
    <3>4. ResumeShapes' /\ Generations'
      BY <2>1, <3>1, <3>2, PutOne
    <3> QED
      BY <2>1, <2>3, <3>1, <3>3, <3>4
  <2> QED
    BY <2>2, <2>3
<1>6. CASE _stop_restore
  <2>1. /\ lq # <<>> /\ lq[1].t = "down" /\ lq' = Tail(lq) /\ task' = NoTask
        /\ pendGen' = 0 /\ UNCHANGED <<att, lastGen, owed, gen>>
    BY <1>6, TakeOne DEF _stop_restore, envVars
  <2>2. ResumeShapes' /\ Generations'
    BY <2>1, TakeOne DEF NoTask
  <2>3. OwedIsHeld'
    BY <2>1, TakeOne DEF NoTask
  <2> QED
    BY <2>2, <2>3
<1>7. CASE _start
  <2> DEFINE g == lq[1].gen
  <2>1. /\ lq # <<>> /\ lq[1].t = "start" /\ lq' = Tail(lq) /\ g \in Nat /\ g <= gen
        /\ UNCHANGED <<att, lastGen, owed, gen>>
    BY <1>7, TakeOne DEF _start, envVars, Callbacks
  <2>2. \/ g <= lastGen /\ UNCHANGED <<task, pendGen>>
        \/ /\ g > lastGen /\ task.pc # "none" /\ UNCHANGED task
           /\ pendGen' = IF g > pendGen THEN g ELSE pendGen
        \/ /\ g > lastGen /\ task' = [pc |-> "bar", gen |-> g, attempt |-> 1]
           /\ UNCHANGED pendGen
    BY <1>7, <2>1, TakeOne DEF _start, BeginAttempt
  <2>3. ResumeShapes' /\ Generations'
    BY <2>1, <2>2, TakeOne
  <2>4. CASE lq' # <<>>
    BY <2>1, <2>3, <2>4, TakeOne
  <2>5. CASE lq' = <<>>
    <3>1. Len(lq) = 1
      BY <2>1, <2>5, TakeOne
    <3>2. owed # 0 => lastGen >= owed \/ g = owed
      BY <2>1, <3>1
    <3> QED
      BY <2>1, <2>2, <2>3, <2>5, <3>2
  <2> QED
    BY <2>4, <2>5
<1>8. CASE _attempt_failed
  <2>1. task.pc = "bar" /\ UNCHANGED <<att, lq, lastGen, gen>>
    BY <1>8 DEF _attempt_failed, envVars
  <2>2. CASE task.attempt < MaxAttempts
    <3>1. task' = [task EXCEPT !.pc = "sleep"] /\ UNCHANGED <<pendGen, owed>>
      BY <1>8, <2>2 DEF _attempt_failed
    <3>2. task'.pc # "none" /\ task'.gen = task.gen
      BY <2>1, <3>1
    <3> QED
      BY <2>1, <3>1, <3>2
  <2>3. CASE ~(task.attempt < MaxAttempts)
    <3>1. pendGen' = 0 /\ owed' = IF owed = task.gen THEN 0 ELSE owed
      BY <1>8, <2>3 DEF _attempt_failed, EndGeneration
    <3>2. CASE pendGen > task.gen /\ pendGen > lastGen
      <4>1. task' = [pc |-> "bar", gen |-> pendGen, attempt |-> 1]
        BY <1>8, <2>3, <3>2 DEF _attempt_failed, EndGeneration, BeginAttempt
      <4> QED
        BY <2>1, <3>1, <3>2, <4>1
    <3>3. CASE ~(pendGen > task.gen /\ pendGen > lastGen)
      <4>1. task' = NoTask
        BY <1>8, <2>3, <3>3 DEF _attempt_failed, EndGeneration
      <4> QED
        BY <2>1, <3>1, <3>3, <4>1 DEF NoTask
    <3> QED
      BY <3>2, <3>3
  <2> QED
    BY <2>2, <2>3
<1>9. CASE _attempt_again
  <2>1. task.pc = "sleep" /\ UNCHANGED <<att, lq, pendGen, lastGen, owed, gen>>
        /\ task' = [pc |-> "bar", gen |-> task.gen, attempt |-> task.attempt + 1]
    BY <1>9 DEF _attempt_again, BeginAttempt, envVars
  <2> QED
    BY <2>1
<1>10. CASE _attempt_succeeded
  <2>1. /\ task.pc = "bar" /\ pendGen' = 0 /\ lastGen' = task.gen
        /\ UNCHANGED <<att, lq, owed, gen>>
    BY <1>10 DEF _attempt_succeeded, EndGeneration, envVars
  <2>2. CASE pendGen > task.gen
    <3>1. task' = [pc |-> "bar", gen |-> pendGen, attempt |-> 1]
      BY <1>10, <2>2 DEF _attempt_succeeded, EndGeneration, BeginAttempt
    <3> QED
      BY <2>1, <2>2, <3>1
  <2>3. CASE ~(pendGen > task.gen)
    <3>1. task' = NoTask
      BY <1>10, <2>3 DEF _attempt_succeeded, EndGeneration
    <3> QED
      BY <2>1, <2>3, <3>1 DEF NoTask
  <2> QED
    BY <2>2, <2>3
<1> QED
  BY <1>1, <1>2, <1>3, <1>4, <1>5, <1>6, <1>7, <1>8, <1>9, <1>10, BridgeEffect
     DEF Transport, LoopSteps

(* "A newer generation must not be lost behind a running restore" (schedule, _run): with *)
(* nothing queued and no restore running, the last Resumed was restored or given up.     *)
THEOREM EveryResumeIsTaken == Spec => []NoLostResume
<1>1. Init => ResumeInv
  <2> SUFFICES ASSUME Init PROVE ResumeInv
    OBVIOUS
  <2>1. /\ lq = <<>> /\ gen = 0 /\ owed = 0 /\ lastGen = 0 /\ pendGen = 0 /\ att = FALSE
        /\ task = [pc |-> "none", gen |-> 0, attempt |-> 0]
    BY DEF Init, NoTask
  <2>2. lq \in Seq(Callbacks)
    BY <2>1
  <2>3. ResumeShapes
    BY <2>1, <2>2 DEF ResumeShapes
  <2> QED
    BY <2>1, <2>3 DEF ResumeInv, Generations, OwedIsHeld
<1>2. ResumeInv => NoLostResume
  BY DEF ResumeInv, OwedIsHeld, NoLostResume
<1> QED
  BY <1>1, <1>2, ResumeStep, PTL DEF Spec
=============================================================================
