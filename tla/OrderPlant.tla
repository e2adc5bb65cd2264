------------------------------ MODULE OrderPlant ------------------------------
(***************************************************************************)
(* The order plant shared by the sessions of a host: the order and bracket  *)
(* intents of rithmic-host/src/local/subscriptions.rs, the per-session      *)
(* admission of order commands in local.rs, the order side of RithmicVenue  *)
(* (rithmic-plants/src/venue.rs) and the account part of recovery (pump.rs).*)
(*                                                                          *)
(* A session may run several calls at once.  They meet in its order_gate (a *)
(* read-write lock), in the topic lock of the order key and in the venue    *)
(* gate; who holds a lock is read off the steps of the calls.  The client   *)
(* mutex is always taken with order_gate held, and is part of it here.      *)
(***************************************************************************)
EXTENDS Integers, FiniteSets

CONSTANTS
    Clients,            \* sessions attached to the host
    Calls,              \* calls that can be in progress at once
    None,
    RecoveryAttempts, RestoreAttempts,
    MaxIssues           \* bound: plant failures

ASSUME CallsAssumption == IsFiniteSet(Clients) /\ IsFiniteSet(Calls)
                          /\ None \notin Clients
ASSUME BoundsAssumption ==
    /\ RecoveryAttempts \in Nat \ {0} /\ RestoreAttempts \in Nat \ {0}
    /\ MaxIssues \in Nat

Intents == {"order", "brackets"}

VARIABLES
    refs,               \* IntentStore: holders counted per intent
    has,                \* SessionCtx: the intents of each client
    subscribed,         \* clients attached to the order topic
    order_closed, disconnecting_order, detached,        \* per session
    call,               \* the calls in progress
    plant,              \* RithmicVenue: the order plant is up
    venue_closed,       \* RithmicVenue.order_closed
    joined,             \* external: what the venue streams on the order plant
    exclusive, ready, force_reconnect, pump, issues,
    (* History, read by no guard. *)
    stuck,              \* a disconnect of the plant has timed out
    overtaken,          \* a recovery did not wait for a call in progress
    down                \* sessions that called disconnect_order_plant, and
                        \* have not opened the plant since; or did meanwhile

clientVars == <<refs, has, subscribed>>
sessionVars == <<order_closed, disconnecting_order, detached, down>>
venueVars == <<plant, venue_closed, joined, stuck>>
pumpVars == <<exclusive, ready, force_reconnect, pump, issues,
                   overtaken>>
vars == <<clientVars, sessionVars, call, venueVars, pumpVars>>

Idle == [step |-> "idle", c |-> None, need |-> {}, first |-> {}, mode |-> "none"]
Serving == [step |-> "serve", scope |-> "other", pending |-> {}, attempt |-> 0,
            pass |-> 0]

Init ==
    /\ refs = [i \in Intents |-> 0] /\ has = [c \in Clients |-> {}]
    /\ subscribed = {}
    /\ order_closed = [c \in Clients |-> FALSE]
    /\ disconnecting_order = [c \in Clients |-> 0]
    /\ detached = {} /\ down = [c \in Clients |-> "no"]
    /\ call = [k \in Calls |-> Idle]
    /\ plant = FALSE /\ venue_closed = FALSE /\ joined = {} /\ stuck = FALSE
    /\ exclusive = FALSE /\ ready = TRUE /\ force_reconnect = FALSE
    /\ pump = Serving /\ issues = 0 /\ overtaken = FALSE

-----------------------------------------------------------------------------
(* Which calls hold what. *)
GateSteps == {"sub_topic", "sub_venue", "rollback", "rb_venue", "rb_renote",
              "lv_topic", "lv_venue", "lv_renote", "reseat", "ens_venue"}
TopicSteps == {"sub_venue", "rollback", "rb_venue", "rb_renote", "lv_venue",
               "lv_renote", "reseat"}
AdmittedSteps == {"pl_venue", "pl_send"}
Writing(c) == \E k \in Calls : call[k].c = c /\ call[k].step \in GateSteps
Reading(c) == \E k \in Calls : call[k].c = c /\ call[k].step \in AdmittedSteps
GateFree(c) == ~Writing(c) /\ ~Reading(c)
TopicFree == \A k \in Calls : call[k].step \notin TopicSteps
(* Order operations in flight hold session_ops and the shared venue gate. *)
InFlight == \E k \in Calls : call[k].step = "pl_send"

Goto(k, step) == call' = [call EXCEPT ![k].step = step]
Done(k) == call' = [call EXCEPT ![k] = Idle]
Begin(k, c, step, need, mode) ==
    call' = [call EXCEPT ![k] = [step |-> step, c |-> c, need |-> need,
                                 first |-> {}, mode |-> mode]]
Active(c) == c \notin detached /\ ready

(* IntentStore: note and forget of a set of intents. *)
Noted(is) == [i \in Intents |-> IF i \in is THEN refs[i] + 1 ELSE refs[i]]
Forgotten(is) == [i \in Intents |-> IF i \in is THEN refs[i] - 1 ELSE refs[i]]
Held == {i \in Intents : refs[i] > 0}

(***************************************************************************)
(* The venue.  A subscribe opens the plant when it is down, and takes it    *)
(* down again if it opened it and failed.  A disconnect waits for the order *)
(* operations in flight and may time out on them.                           *)
(***************************************************************************)
Joins(good) ==
    /\ joined' = joined \cup good
    /\ plant' = (plant \/ good # {})
    /\ venue_closed' = IF good # {} THEN FALSE ELSE venue_closed
    /\ UNCHANGED stuck
Accepted(is) == {g \in SUBSET is : "brackets" \in g => is \subseteq g}
DisconnectPlant ==
    /\ ~InFlight
    /\ plant' = FALSE /\ joined' = {} /\ venue_closed' = TRUE /\ stuck' = FALSE
DisconnectTimesOut ==
    /\ InFlight
    /\ stuck' = TRUE /\ UNCHANGED <<plant, joined, venue_closed>>

-----------------------------------------------------------------------------
(* Calls that start; a session that is not active is refused at once. *)
SubscribeOrders(k, c, brackets) ==
    /\ call[k] = Idle /\ Active(c)
    /\ Begin(k, c, "sub_gate",
             IF brackets THEN Intents ELSE {"order"}, "none")
    /\ UNCHANGED <<clientVars, sessionVars, venueVars, pumpVars>>
EnsureOrderPlant(k, c) ==
    /\ call[k] = Idle /\ Active(c)
    /\ Begin(k, c, "ens_gate", {}, "none")
    /\ UNCHANGED <<clientVars, sessionVars, venueVars, pumpVars>>
DisconnectOrderPlant(k, c) ==
    /\ call[k] = Idle /\ Active(c)
    /\ disconnecting_order' = [disconnecting_order EXCEPT ![c] = @ + 1]
    /\ order_closed' = [order_closed EXCEPT ![c] = TRUE]
    /\ down' = [down EXCEPT ![c] = "alone"]
    /\ Begin(k, c, "disc_gate", {}, "disconnect")
    /\ UNCHANGED <<clientVars, detached, venueVars, pumpVars>>
Disconnect(k, c) ==
    /\ call[k] = Idle /\ c \notin detached
    /\ detached' = detached \cup {c}
    /\ Begin(k, c, "td_gate", {}, "teardown")
    /\ UNCHANGED <<clientVars, order_closed, disconnecting_order, down,
                   venueVars, pumpVars>>
(* place_order and the other order commands. *)
PlaceOrder(k, c) ==
    /\ call[k] = Idle /\ Active(c) /\ disconnecting_order[c] = 0
    /\ Begin(k, c, "pl_gate", {}, "none")
    /\ UNCHANGED <<clientVars, sessionVars, venueVars, pumpVars>>

Reopened(c) ==
    /\ order_closed' = [order_closed EXCEPT ![c] = FALSE]
    /\ down' = [down EXCEPT ![c] = IF @ = "no" \/ disconnecting_order[c] = 0
                                   THEN "no" ELSE "overlapped"]
    /\ UNCHANGED <<disconnecting_order, detached>>

(***************************************************************************)
(* subscribe_order_plant_stream.  The intents are counted first; a first    *)
(* holder subscribes at the venue, and whatever the call introduced is      *)
(* rolled back when that fails.                                             *)
(***************************************************************************)
SubEnter(k) ==
    LET c == call[k].c
        need == call[k].need \ has[c] IN
    /\ call[k].step = "sub_gate" /\ GateFree(c)
    /\ IF ~Active(c) THEN Done(k) /\ UNCHANGED sessionVars
       ELSE IF need = {} THEN Done(k) /\ Reopened(c)
       ELSE /\ call' = [call EXCEPT ![k].step = "sub_topic", ![k].need = need]
            /\ UNCHANGED sessionVars
    /\ UNCHANGED <<clientVars, venueVars, pumpVars>>
SubNote(k) ==
    LET c == call[k].c
        need == call[k].need
        first == need \ Held IN
    /\ call[k].step = "sub_topic" /\ TopicFree
    /\ refs' = Noted(need)
    /\ has' = [has EXCEPT ![c] = @ \cup need]
    /\ subscribed' = subscribed \cup {c}
    /\ IF first = {} THEN Done(k) /\ Reopened(c)
       ELSE /\ call' = [call EXCEPT ![k].step = "sub_venue", ![k].first = first,
                 ![k].mode = IF c \in subscribed THEN "had" ELSE "new"]
            /\ UNCHANGED sessionVars
    /\ UNCHANGED <<venueVars, pumpVars>>
SubVenue(k, good) ==
    LET c == call[k].c IN
    /\ call[k].step = "sub_venue" /\ ~exclusive
    /\ good \in Accepted(call[k].first)
    /\ Joins(good)
    /\ IF good = call[k].first THEN Done(k) /\ Reopened(c)
       ELSE Goto(k, "rollback") /\ UNCHANGED sessionVars
    /\ UNCHANGED <<clientVars, pumpVars>>
(* rollback_order_plant_stream_introductions *)
RollbackDelivery(k) ==
    subscribed' = IF call[k].mode = "new" THEN subscribed \ {call[k].c}
                                          ELSE subscribed
Rollback(k) ==
    LET need == call[k].need IN
    /\ call[k].step = "rollback"
    /\ refs' = Forgotten(need)
    /\ has' = [has EXCEPT ![call[k].c] = @ \ need]
    /\ IF "order" \notin need THEN Done(k) /\ UNCHANGED subscribed
       ELSE IF refs["order"] > 1 THEN Done(k) /\ RollbackDelivery(k)
       ELSE Goto(k, "rb_venue") /\ UNCHANGED subscribed
    /\ UNCHANGED <<sessionVars, venueVars, pumpVars>>
RbVenueDrops(k) ==                                              \* mutant
    /\ call[k].step = "rb_venue" /\ ~exclusive
    /\ \/ DisconnectPlant /\ RollbackDelivery(k) /\ Done(k)
       \/ DisconnectTimesOut /\ Goto(k, "rb_renote") /\ RollbackDelivery(k)
    /\ UNCHANGED <<refs, has, sessionVars, pumpVars>>
RbVenue(k) ==
    /\ call[k].step = "rb_venue" /\ ~exclusive
    /\ \/ DisconnectPlant /\ RollbackDelivery(k) /\ Done(k)
       \/ DisconnectTimesOut /\ Goto(k, "rb_renote") /\ UNCHANGED subscribed
    /\ UNCHANGED <<refs, has, sessionVars, pumpVars>>
RbRenoteBare(k) ==                                              \* mutant
    /\ call[k].step = "rb_renote"
    /\ refs' = Noted({"order"})
    /\ stuck' = TRUE
    /\ Done(k)
    /\ UNCHANGED <<has, subscribed, sessionVars, plant, venue_closed, joined,
                   pumpVars>>
RbRenote(k) ==
    /\ call[k].step = "rb_renote"
    /\ refs' = Noted({"order"})
    /\ has' = [has EXCEPT ![call[k].c] = @ \cup {"order"}]
    /\ stuck' = TRUE
    /\ Done(k)
    /\ UNCHANGED <<subscribed, sessionVars, plant, venue_closed, joined, pumpVars>>

(* ensure_order_plant *)
EnsEnter(k) ==
    /\ call[k].step = "ens_gate" /\ GateFree(call[k].c)
    /\ IF Active(call[k].c) THEN Goto(k, "ens_venue") ELSE Done(k)
    /\ UNCHANGED <<clientVars, sessionVars, venueVars, pumpVars>>
EnsVenue(k, ok) ==
    /\ call[k].step = "ens_venue" /\ ~exclusive
    /\ ok \/ ~plant
    /\ IF ok THEN plant' = TRUE /\ venue_closed' = FALSE /\ Reopened(call[k].c)
       ELSE UNCHANGED <<plant, venue_closed, sessionVars>>
    /\ Done(k)
    /\ UNCHANGED <<clientVars, joined, stuck, pumpVars>>

(***************************************************************************)
(* disconnect_order_plant and the teardown of a session: leave_order.  The  *)
(* last holder of the order intent disconnects the plant; the last bracket  *)
(* holder among other order holders re-seats it without brackets.           *)
(***************************************************************************)
ClosedAlways(k) ==                                              \* mutant
    disconnecting_order' = [disconnecting_order EXCEPT ![call[k].c] = @ - 1]
Closed(k) ==            \* disconnect_order_plant is over, its mark dropped
    IF call[k].mode = "teardown" THEN UNCHANGED disconnecting_order
    ELSE disconnecting_order' = [disconnecting_order EXCEPT ![call[k].c] = @ - 1]
EndLeave(k) ==
    /\ subscribed' = subscribed \ {call[k].c}
    /\ Closed(k) /\ Done(k)
    /\ UNCHANGED <<detached, down>>
FailLeave(k) ==         \* the error ends disconnect_order_plant early
    /\ Closed(k) /\ Done(k)
    /\ UNCHANGED <<subscribed, detached, down>>
GoOn(k, step) == Goto(k, step)
                 /\ UNCHANGED <<subscribed, disconnecting_order, detached, down>>
LeaveEnter(k) ==
    LET c == call[k].c IN
    /\ call[k].step \in {"disc_gate", "td_gate"} /\ GateFree(c)
    /\ order_closed' = IF call[k].mode = "teardown"
                       THEN [order_closed EXCEPT ![c] = TRUE] ELSE order_closed
    /\ IF has[c] = {} THEN EndLeave(k) ELSE GoOn(k, "lv_topic")
    /\ UNCHANGED <<refs, has, venueVars, pumpVars>>
LeaveNoReseat(k) ==                                             \* mutant
    LET c == call[k].c
        last == {i \in has[c] : refs[i] = 1} IN
    /\ call[k].step = "lv_topic" /\ TopicFree
    /\ refs' = Forgotten(has[c])
    /\ has' = [has EXCEPT ![c] = {}]
    /\ IF "order" \notin last
       THEN EndLeave(k)
       ELSE /\ call' = [call EXCEPT ![k].need = has[c],
                 ![k].step = "lv_venue"]
            /\ UNCHANGED <<subscribed, disconnecting_order, detached, down>>
    /\ UNCHANGED <<order_closed, venueVars, pumpVars>>
Leave(k) ==
    LET c == call[k].c
        last == {i \in has[c] : refs[i] = 1} IN
    /\ call[k].step = "lv_topic" /\ TopicFree
    /\ refs' = Forgotten(has[c])
    /\ has' = [has EXCEPT ![c] = {}]
    /\ IF last = {} \/ (last = {"brackets"} /\ refs'["order"] = 0)
       THEN EndLeave(k)
       ELSE /\ call' = [call EXCEPT ![k].need = has[c],
                 ![k].step = IF "order" \in last THEN "lv_venue" ELSE "reseat"]
            /\ UNCHANGED <<subscribed, disconnecting_order, detached, down>>
    /\ UNCHANGED <<order_closed, venueVars, pumpVars>>
LeaveVenue(k) ==
    /\ call[k].step = "lv_venue" /\ ~exclusive
    /\ \/ DisconnectPlant /\ EndLeave(k)
       \/ /\ DisconnectTimesOut
          /\ IF call[k].mode = "teardown" THEN EndLeave(k)
             ELSE GoOn(k, "lv_renote")
    /\ UNCHANGED <<refs, has, order_closed, pumpVars>>
LeaveRenote(k) ==
    /\ call[k].step = "lv_renote"
    /\ refs' = Noted(call[k].need)
    /\ has' = [has EXCEPT ![call[k].c] = call[k].need]
    /\ stuck' = TRUE
    /\ FailLeave(k)
    /\ UNCHANGED <<order_closed, plant, venue_closed, joined, pumpVars>>
(* reseat_order_plant_without_brackets; a failure asks for the full rebuild. *)
ReseatQuiet(k, ok) ==                                           \* mutant
    /\ call[k].step = "reseat" /\ ~exclusive
    /\ IF InFlight
       THEN /\ stuck' = TRUE /\ plant' = (plant \/ ok)
            /\ venue_closed' = (venue_closed /\ ~ok)
            /\ joined' = IF ok THEN joined \cup {"order"} ELSE joined
       ELSE /\ stuck' = FALSE /\ plant' = ok /\ venue_closed' = ~ok
            /\ joined' = IF ok THEN {"order"} ELSE {}
    /\ IF ok \/ call[k].mode = "teardown" THEN EndLeave(k) ELSE FailLeave(k)
    /\ UNCHANGED <<refs, has, order_closed, pumpVars>>
Reseat(k, ok) ==
    /\ call[k].step = "reseat" /\ ~exclusive
    /\ IF InFlight
       THEN /\ stuck' = TRUE /\ plant' = (plant \/ ok)
            /\ venue_closed' = (venue_closed /\ ~ok)
            /\ joined' = IF ok THEN joined \cup {"order"} ELSE joined
       ELSE /\ stuck' = FALSE /\ plant' = ok /\ venue_closed' = ~ok
            /\ joined' = IF ok THEN {"order"} ELSE {}
    /\ IF ok \/ call[k].mode = "teardown" THEN EndLeave(k) ELSE FailLeave(k)
    /\ IF ok THEN UNCHANGED <<ready, force_reconnect>>
       ELSE ready' = FALSE /\ force_reconnect' = TRUE
    /\ UNCHANGED <<refs, has, order_closed, exclusive, pump, issues,
                   overtaken>>

(***************************************************************************)
(* An order command: command_guard, then the venue.  The venue refuses it   *)
(* after a disconnect, and opens the plant if it is merely absent.          *)
(***************************************************************************)
PlaceGateUnchecked(k) ==                                        \* mutant
    LET c == call[k].c IN
    /\ call[k].step = "pl_gate" /\ ~Writing(c)
    /\ IF Active(c) /\ disconnecting_order[c] = 0
       THEN Goto(k, "pl_venue") ELSE Done(k)
    /\ UNCHANGED <<clientVars, sessionVars, venueVars, pumpVars>>
PlaceGate(k) ==
    LET c == call[k].c IN
    /\ call[k].step = "pl_gate" /\ ~Writing(c)
    /\ IF Active(c) /\ disconnecting_order[c] = 0 /\ ~order_closed[c]
       THEN Goto(k, "pl_venue") ELSE Done(k)
    /\ UNCHANGED <<clientVars, sessionVars, venueVars, pumpVars>>
PlaceSend(k) ==
    /\ call[k].step = "pl_venue" /\ ~exclusive
    /\ Active(call[k].c) /\ ~venue_closed
    /\ plant' = TRUE
    /\ Goto(k, "pl_send")
    /\ UNCHANGED <<clientVars, sessionVars, venue_closed, joined, stuck, pumpVars>>
PlaceRefused(k) ==
    /\ call[k].step = "pl_venue" /\ ~exclusive
    /\ ~Active(call[k].c) \/ venue_closed \/ ~plant
    /\ Done(k)
    /\ UNCHANGED <<clientVars, sessionVars, venueVars, pumpVars>>
PlaceEnd(k) ==          \* an answer, or the interruption
    /\ call[k].step = "pl_send"
    /\ Done(k)
    /\ UNCHANGED <<clientVars, sessionVars, venueVars, pumpVars>>

-----------------------------------------------------------------------------
(***************************************************************************)
(* Recovery.  The order plant or the whole login is rebuilt under the       *)
(* exclusive gate, or some other plant is; then the account intents are     *)
(* re-issued.  What cannot be restored escalates to the login.              *)
(***************************************************************************)
Scopes == {"order", "login", "other"}
Interrupt(scope) ==
    /\ pump.step = "serve"
    /\ \/ force_reconnect /\ scope = "login" /\ force_reconnect' = FALSE
          /\ UNCHANGED issues
       \/ issues < MaxIssues /\ issues' = issues + 1 /\ UNCHANGED force_reconnect
          /\ (scope = "order" => plant)
    /\ ready' = FALSE
    /\ pump' = [Serving EXCEPT !.step = "notify", !.scope = scope, !.attempt = 1]
    /\ UNCHANGED <<clientVars, sessionVars, call, venueVars, exclusive,
                   overtaken>>
(* Takes the client mutex of every session that is not detached. *)
InCommand == {k \in Calls : call[k].step \in GateSteps \ {"ens_venue"}}
NotifySessions ==
    /\ pump.step = "notify" /\ \A k \in InCommand : call[k].c \in detached
    /\ pump' = [pump EXCEPT !.step = "rebuild"]
    /\ overtaken' = (overtaken \/ InCommand # {})
    /\ UNCHANGED <<clientVars, sessionVars, call, venueVars, exclusive, ready,
                   force_reconnect, issues>>
NextAttempt(scope) ==
    pump' = IF pump.attempt < RecoveryAttempts
            THEN [Serving EXCEPT !.step = "rebuild", !.scope = scope,
                                 !.attempt = pump.attempt + 1]
            ELSE [Serving EXCEPT !.step = "failed"]
Rebuild(ok) ==
    /\ pump.step = "rebuild" /\ ~InFlight
    /\ IF pump.scope = "other" THEN UNCHANGED venueVars
       ELSE /\ joined' = {} /\ stuck' = FALSE
            /\ plant' = (pump.scope = "order" /\ ok)
            /\ venue_closed' = IF ok THEN FALSE
                               ELSE pump.scope = "order" \/ venue_closed
    /\ IF ok THEN pump' = [pump EXCEPT !.step = "plan"] ELSE NextAttempt(pump.scope)
    /\ UNCHANGED <<clientVars, sessionVars, call, exclusive, ready,
                   force_reconnect, issues,
                   overtaken>>
Plan ==
    /\ pump.step = "plan"
    /\ pump' = [pump EXCEPT !.step = "pass", !.pass = 1,
                  !.pending = IF pump.scope = "other" THEN {} ELSE Held]
    /\ UNCHANGED <<clientVars, sessionVars, call, venueVars, exclusive, ready,
                   force_reconnect, issues,
                   overtaken>>
(* restore_plan_pass: what is still held of the plan, brackets after orders. *)
StillHeld == pump.pending \cap Held
PassStart ==
    /\ pump.step = "pass" /\ ~InFlight
    /\ exclusive' = TRUE
    /\ pump' = [pump EXCEPT !.step = "joins", !.pending = StillHeld]
    /\ UNCHANGED <<clientVars, sessionVars, call, venueVars, ready,
                   force_reconnect, issues,
                   overtaken>>
PassJoins(good) ==
    /\ pump.step = "joins" /\ good \in Accepted(pump.pending)
    /\ Joins(good)
    /\ exclusive' = FALSE
    /\ IF good = pump.pending
       THEN pump' = [pump EXCEPT !.step = "finish", !.pending = {}]
       ELSE IF pump.pass < RestoreAttempts
       THEN pump' = [pump EXCEPT !.step = "pass", !.pass = @ + 1,
                                 !.pending = @ \ good]
       ELSE NextAttempt("login")
    /\ UNCHANGED <<clientVars, sessionVars, call, ready, force_reconnect, issues,
                   overtaken>>
Finish ==
    /\ pump.step = "finish"
    /\ force_reconnect' = FALSE
    /\ IF force_reconnect THEN NextAttempt("login") /\ UNCHANGED ready
       ELSE pump' = Serving /\ ready' = TRUE
    /\ UNCHANGED <<clientVars, sessionVars, call, venueVars, exclusive, issues,
                   overtaken>>

CallStart(k, c) ==
    \/ \E brackets \in BOOLEAN : SubscribeOrders(k, c, brackets)
    \/ EnsureOrderPlant(k, c) \/ DisconnectOrderPlant(k, c) \/ Disconnect(k, c)
    \/ PlaceOrder(k, c)
CallStep(k) ==
    \/ SubEnter(k) \/ SubNote(k) \/ (\E good \in SUBSET Intents : SubVenue(k, good))
    \/ Rollback(k) \/ RbVenue(k) \/ RbRenote(k)
    \/ EnsEnter(k) \/ LeaveEnter(k) \/ Leave(k) \/ LeaveVenue(k) \/ LeaveRenote(k)
    \/ (\E ok \in BOOLEAN : EnsVenue(k, ok) \/ Reseat(k, ok))
    \/ PlaceGate(k) \/ PlaceSend(k) \/ PlaceRefused(k) \/ PlaceEnd(k)
PumpStep ==
    \/ \E scope \in Scopes : Interrupt(scope)
    \/ NotifySessions \/ Plan \/ PassStart \/ Finish
    \/ \E ok \in BOOLEAN : Rebuild(ok)
    \/ \E good \in SUBSET Intents : PassJoins(good)
Next ==
    \/ \E k \in Calls : CallStep(k) \/ \E c \in Clients : CallStart(k, c)
    \/ PumpStep
Spec == Init /\ [][Next]_vars

-----------------------------------------------------------------------------
Steps == GateSteps \cup AdmittedSteps
         \cup {"idle", "sub_gate", "ens_gate", "disc_gate", "td_gate", "pl_gate"}

(* Every variable has its type; the counts are naturals. *)
TypeOK ==
    /\ refs \in [Intents -> Nat] /\ has \in [Clients -> SUBSET Intents]
    /\ subscribed \subseteq Clients /\ detached \subseteq Clients
    /\ order_closed \in [Clients -> BOOLEAN]
    /\ disconnecting_order \in [Clients -> Nat]
    /\ down \in [Clients -> {"no", "alone", "overlapped"}]
    /\ call \in [Calls -> [step : Steps, c : Clients \cup {None},
                           need : SUBSET Intents, first : SUBSET Intents,
                           mode : {"none", "had", "new", "disconnect",
                                   "teardown"}]]
    /\ plant \in BOOLEAN /\ venue_closed \in BOOLEAN /\ stuck \in BOOLEAN
    /\ overtaken \in BOOLEAN
    /\ joined \subseteq Intents
    /\ exclusive \in BOOLEAN /\ ready \in BOOLEAN /\ force_reconnect \in BOOLEAN

(***************************************************************************)
(* The count of the order and of the bracket intent is the number of the    *)
(* sessions that have it: a rollback or a failed disconnect that counts     *)
(* wrong would leave the plant up for nobody, or take it from a peer.       *)
(***************************************************************************)
RefsExact ==
    \A i \in Intents : refs[i] = Cardinality({c \in Clients : i \in has[c]})

Settled ==
    pump.step = "serve" /\ ready /\ ~force_reconnect /\ TopicFree

(***************************************************************************)
(* "Other sessions attached to the same host SHALL keep their order intents *)
(* and SHALL keep trading": while the host serves and nobody works on the   *)
(* order topic, every order or bracket intent some session holds is         *)
(* streamed by the venue on a plant that is up and takes commands; but for  *)
(* a disconnect that timed out behind an order command.                     *)
(***************************************************************************)
Streamed == Held \subseteq joined /\ (Held # {} => plant /\ ~venue_closed)
HeldIsStreamed == Settled /\ ~stuck => Streamed

(***************************************************************************)
(* The same without the exception.  "Anything this RPC notes / attaches     *)
(* must roll back on failure so Error never leaves a half-applied           *)
(* order+brackets intent": no session keeps an order intent the venue does  *)
(* not stream.                                                              *)
(***************************************************************************)
NoHalfAppliedOrder == Settled => Streamed

(***************************************************************************)
(* The converse: nothing is streamed that no session holds (the last leaver *)
(* disconnects the plant, the last bracket holder re-seats it), but for a   *)
(* disconnect that timed out behind an order command, and for a recovery    *)
(* that did not wait for the subscribe of a session being detached and      *)
(* restored the brackets this subscribe rolls back.                         *)
(***************************************************************************)
StreamedIsHeld == Settled /\ ~stuck /\ ~overtaken => joined \subseteq Held

(* A session that has an order intent is attached to the order topic, so    *)
(* what the venue streams for it reaches its queue.                         *)
HolderIsDelivered == \A c \in Clients : has[c] # {} => c \in subscribed

(***************************************************************************)
(* "After a session calls disconnect_order_plant, that session's order      *)
(* commands SHALL fail as not-sent until it ensures the order plant or      *)
(* subscribes to order updates again": once the disconnect is over, if no   *)
(* ensure or subscribe of the session came through while it was waiting.    *)
(***************************************************************************)
Admitted(c) == disconnecting_order[c] = 0 /\ Reading(c)
StaysDown == \A c \in Clients : Admitted(c) => down[c] # "alone"

(* The same without the exception: an ensure or subscribe that was at the   *)
(* venue when the disconnect was called opens the session again behind it.  *)
StaysDownAlways == \A c \in Clients : Admitted(c) => down[c] = "no"
=============================================================================
