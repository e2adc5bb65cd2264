--------------------------- MODULE OrderPlantProofs ---------------------------
(***************************************************************************)
(* What OrderPlant promises for any number of sessions, calls in progress,  *)
(* plant failures and retries.  Four invariants, each resting on the ones   *)
(* before it: the locks exclude what they should (LocksInv); under them a   *)
(* call finds its session's intents and their counts as it left them        *)
(* (HoldInv), and a closed session stays closed (DownInv); what is held is  *)
(* streamed, or is still to be streamed by whoever is at it (StreamInv).    *)
(***************************************************************************)
EXTENDS OrderPlant, FiniteSetTheorems, TLAPS

Modes == {"none", "had", "new", "disconnect", "teardown"}
CallRecord == [step : Steps, c : Clients \cup {None}, need : SUBSET Intents,
               first : SUBSET Intents, mode : Modes]

LeaveSteps == {"lv_topic", "lv_venue", "lv_renote", "reseat"}
(* A call knows its session, and whether it leaves the plant, and how. *)
Fits(r) ==
    /\ r.step # "idle" => r.c \in Clients
    /\ r.step = "disc_gate" => r.mode = "disconnect"
    /\ r.step = "td_gate" => r.mode = "teardown"
    /\ r.step \in LeaveSteps => r.mode \in {"disconnect", "teardown"}
    /\ r.step \notin LeaveSteps \cup {"disc_gate", "td_gate"} =>
         r.mode \notin {"disconnect", "teardown"}

CallsTyped ==
    /\ call \in [Calls -> CallRecord]
    /\ has \in [Clients -> SUBSET Intents]
    /\ \A k \in Calls : Fits(call[k])
(* The write side of a session's order_gate excludes both sides of it. *)
GateExcludes ==
    \A k, l \in Calls :
      k # l /\ call[k].c = call[l].c /\ call[k].step \in GateSteps =>
        call[l].step \notin GateSteps \cup AdmittedSteps
(* The topic lock of the order key has one holder. *)
TopicExcludes ==
    \A k, l \in Calls :
      call[k].step \in TopicSteps /\ call[l].step \in TopicSteps => k = l
LocksInv == CallsTyped /\ GateExcludes /\ TopicExcludes

-----------------------------------------------------------------------------
(***************************************************************************)
(* A step that changes one call, from one held lock to the same lock or     *)
(* into a lock that is free, keeps the locks.                               *)
(***************************************************************************)
LEMMA OneCallMoves ==
    ASSUME LocksInv, NEW k \in Calls, NEW r \in CallRecord,
           call' = [call EXCEPT ![k] = r], has' \in [Clients -> SUBSET Intents],
           Fits(r),
           r.step \in GateSteps =>
             \/ call[k].step \in GateSteps /\ r.c = call[k].c
             \/ GateFree(r.c),
           r.step \in AdmittedSteps =>
             \/ call[k].step \in AdmittedSteps /\ r.c = call[k].c
             \/ ~Writing(r.c),
           r.step \in TopicSteps => call[k].step \in TopicSteps \/ TopicFree
    PROVE  LocksInv'
<1>1. call'[k] = r /\ \A l \in Calls \ {k} : call'[l] = call[l]
  BY DEF LocksInv, CallsTyped
<1>2. CallsTyped'
  <2>1. call' \in [Calls -> CallRecord] BY DEF LocksInv, CallsTyped
  <2>2. \A l \in Calls : Fits(call'[l]) BY <1>1 DEF LocksInv, CallsTyped
  <2> QED BY <2>1, <2>2 DEF CallsTyped, Fits
<1>3. GateSteps \cap AdmittedSteps = {} BY DEF GateSteps, AdmittedSteps
<1>4. GateExcludes'
  <2> SUFFICES ASSUME NEW l \in Calls, NEW m \in Calls, l # m,
                      call'[l].c = call'[m].c, call'[l].step \in GateSteps
               PROVE  call'[m].step \notin GateSteps \cup AdmittedSteps
    BY DEF GateExcludes, GateSteps, AdmittedSteps
  <2>1. CASE l = k
    BY <1>1, <1>3, <2>1 DEF LocksInv, GateExcludes, GateFree, Writing, Reading
  <2>2. CASE m = k
    BY <1>1, <1>3, <2>2 DEF LocksInv, GateExcludes, GateFree, Writing, Reading
  <2>3. CASE l # k /\ m # k BY <1>1, <2>3 DEF LocksInv, GateExcludes
  <2> QED BY <2>1, <2>2, <2>3
<1>5. TopicExcludes'
  BY <1>1 DEF LocksInv, TopicExcludes, TopicFree
<1> QED BY <1>2, <1>4, <1>5 DEF LocksInv

(* A step that changes no call keeps the locks. *)
LEMMA NoCallMoves ==
    ASSUME LocksInv, call' = call, has' = has PROVE LocksInv'
BY DEF LocksInv, CallsTyped, GateExcludes, TopicExcludes, Fits

(* The three ways in which a call changes, as one update of its record. *)
LEMMA CallForms ==
    ASSUME LocksInv, NEW k \in Calls
    PROVE  /\ call[k] \in CallRecord
           /\ Idle \in CallRecord /\ Fits(Idle)
           /\ Done(k) => call' = [call EXCEPT ![k] = Idle]
           /\ \A s \in Steps :
                /\ [call[k] EXCEPT !.step = s] \in CallRecord
                /\ Goto(k, s) =>
                     call' = [call EXCEPT ![k] = [call[k] EXCEPT !.step = s]]
           /\ \A c \in Clients, s \in Steps, n \in SUBSET Intents, m \in Modes :
                LET r == [step |-> s, c |-> c, need |-> n, first |-> {},
                          mode |-> m] IN
                /\ r \in CallRecord
                /\ Begin(k, c, s, n, m) => call' = [call EXCEPT ![k] = r]
<1>1. call[k] \in CallRecord BY DEF LocksInv, CallsTyped
<1>2. Idle \in CallRecord /\ Fits(Idle)
  BY DEF Idle, CallRecord, Steps, Modes, Fits, LeaveSteps
<1>3. Done(k) => call' = [call EXCEPT ![k] = Idle] BY DEF Done
<1>4. \A s \in Steps :
        /\ [call[k] EXCEPT !.step = s] \in CallRecord
        /\ Goto(k, s) =>
             call' = [call EXCEPT ![k] = [call[k] EXCEPT !.step = s]]
  BY <1>1 DEF CallRecord, Goto
<1>5. \A c \in Clients, s \in Steps, n \in SUBSET Intents, m \in Modes :
        LET r == [step |-> s, c |-> c, need |-> n, first |-> {}, mode |-> m] IN
        /\ r \in CallRecord
        /\ Begin(k, c, s, n, m) => call' = [call EXCEPT ![k] = r]
  BY DEF CallRecord, Begin
<1> QED BY <1>1, <1>2, <1>3, <1>4, <1>5

(* A call that ends keeps the locks. *)
LEMMA CallEnds ==
    ASSUME LocksInv, NEW k \in Calls, Done(k),
           has' \in [Clients -> SUBSET Intents]
    PROVE  LocksInv'
<1>1. Idle.step \notin GateSteps \cup AdmittedSteps \cup TopicSteps
  BY DEF Idle, GateSteps, AdmittedSteps, TopicSteps
<1> QED BY <1>1, CallForms, OneCallMoves

(* So does a call that goes on to a step its locks and mode allow. *)
LEMMA CallGoesOn ==
    ASSUME LocksInv, NEW k \in Calls, NEW s \in Steps, Goto(k, s),
           has' \in [Clients -> SUBSET Intents],
           Fits([call[k] EXCEPT !.step = s]),
           s \in GateSteps => call[k].step \in GateSteps \/ GateFree(call[k].c),
           s \in AdmittedSteps =>
             call[k].step \in AdmittedSteps \/ ~Writing(call[k].c),
           s \in TopicSteps => call[k].step \in TopicSteps \/ TopicFree
    PROVE  LocksInv'
<1>1. DEFINE r == [call[k] EXCEPT !.step = s]
<1>2. r \in CallRecord /\ call' = [call EXCEPT ![k] = r] BY CallForms
<1>3. r.step = s /\ r.c = call[k].c BY <1>2, CallForms DEF CallRecord
<1> QED BY <1>2, <1>3, OneCallMoves

(* A call that starts holds nothing yet. *)
LEMMA CallStarts ==
    ASSUME LocksInv, NEW k \in Calls, NEW c \in Clients,
           NEW s \in {"sub_gate", "ens_gate", "disc_gate", "td_gate", "pl_gate"},
           NEW n \in SUBSET Intents, NEW m \in Modes, Begin(k, c, s, n, m),
           s = "disc_gate" <=> m = "disconnect",
           s = "td_gate" <=> m = "teardown", has' = has
    PROVE  LocksInv'
<1> DEFINE r == [step |-> s, c |-> c, need |-> n, first |-> {}, mode |-> m]
<1>1. s \in Steps /\ s \notin GateSteps \cup AdmittedSteps \cup TopicSteps
  BY DEF Steps, GateSteps, AdmittedSteps, TopicSteps
<1>2. r \in CallRecord /\ call' = [call EXCEPT ![k] = r] BY <1>1, CallForms
<1>3. Fits(r) BY DEF Fits, LeaveSteps
<1>4. r.step = s OBVIOUS
<1>5. has' \in [Clients -> SUBSET Intents] BY DEF LocksInv, CallsTyped
<1> HIDE DEF r
<1> QED BY <1>1, <1>2, <1>3, <1>4, <1>5, OneCallMoves

(* A call that starts holds no lock yet. *)
LEMMA StartKeepsLocks ==
    ASSUME LocksInv, NEW k \in Calls, NEW c \in Clients, CallStart(k, c)
    PROVE  LocksInv'
<1>1. ASSUME NEW brackets \in BOOLEAN, SubscribeOrders(k, c, brackets)
      PROVE  LocksInv'
  <2>1. (IF brackets THEN Intents ELSE {"order"}) \in SUBSET Intents
    BY DEF Intents
  <2> QED BY <1>1, <2>1, CallStarts DEF SubscribeOrders, clientVars, Modes
<1>2. CASE EnsureOrderPlant(k, c)
  BY <1>2, CallStarts DEF EnsureOrderPlant, clientVars, Modes
<1>3. CASE DisconnectOrderPlant(k, c)
  BY <1>3, CallStarts DEF DisconnectOrderPlant, clientVars, Modes
<1>4. CASE Disconnect(k, c)
  BY <1>4, CallStarts DEF Disconnect, clientVars, Modes
<1>5. CASE PlaceOrder(k, c)
  BY <1>5, CallStarts DEF PlaceOrder, clientVars, Modes
<1> QED BY <1>1, <1>2, <1>3, <1>4, <1>5 DEF CallStart

(***************************************************************************)
(* What a call at a step may go on to: every step of the program moves a    *)
(* call along here, or ends it.                                             *)
(***************************************************************************)
LEMMA SubscribeKeepsLocks ==
    ASSUME LocksInv, NEW k \in Calls,
           \/ SubEnter(k) \/ SubNote(k)
           \/ \E good \in SUBSET Intents : SubVenue(k, good)
           \/ Rollback(k) \/ RbVenue(k) \/ RbRenote(k)
    PROVE  LocksInv'
<1> DEFINE c == call[k].c
           At(s) == [call[k] EXCEPT !.step = s]
<1>1. /\ call[k] \in CallRecord /\ Fits(call[k])
      /\ has \in [Clients -> SUBSET Intents]
  BY CallForms DEF LocksInv, CallsTyped
<1>2. \A s \in {"rollback", "rb_venue", "rb_renote"} :
        s \in Steps /\ s \in GateSteps /\ s \notin AdmittedSteps
        /\ s \in TopicSteps
  BY DEF Steps, GateSteps, AdmittedSteps, TopicSteps
<1>3. ASSUME call[k].step \in {"sub_venue", "rollback", "rb_venue"},
             NEW s \in {"rollback", "rb_venue", "rb_renote"}
      PROVE  /\ Fits(At(s)) /\ call[k].step \in GateSteps
             /\ call[k].step \in TopicSteps
  BY <1>1, <1>3 DEF Fits, CallRecord, LeaveSteps, GateSteps, TopicSteps
<1>4. ASSUME NEW s \in {"rollback", "rb_venue", "rb_renote"},
             call[k].step \in {"sub_venue", "rollback", "rb_venue"},
             Goto(k, s), has' \in [Clients -> SUBSET Intents]
      PROVE  LocksInv'
  BY <1>2, <1>3, <1>4, CallGoesOn
<1>5. CASE SubEnter(k)
  <2> DEFINE need == call[k].need \ has[c]
             r == [call[k] EXCEPT !.step = "sub_topic", !.need = need]
  <2>1. has' = has BY <1>5 DEF SubEnter, clientVars
  <2>2. CASE Done(k) BY <1>1, <2>1, <2>2, CallEnds
  <2>3. CASE call' = [call EXCEPT ![k].step = "sub_topic", ![k].need = need]
    <3>1. r \in CallRecord
      BY <1>1 DEF CallRecord, Steps, GateSteps
    <3>2. call' = [call EXCEPT ![k] = r]
      BY <1>1, <2>3 DEF CallRecord, LocksInv, CallsTyped
    <3>3. Fits(r) /\ r.step = "sub_topic" /\ r.c = c
      BY <1>1, <1>5 DEF Fits, CallRecord, LeaveSteps, SubEnter
    <3>4. GateFree(c) BY <1>5 DEF SubEnter
    <3> HIDE DEF r
    <3> QED BY <1>1, <2>1, <3>1, <3>2, <3>3, <3>4, OneCallMoves
          DEF AdmittedSteps, TopicSteps
  <2> QED BY <1>5, <2>2, <2>3 DEF SubEnter
<1>6. CASE SubNote(k)
  <2> DEFINE first == call[k].need \ Held
             mode == IF c \in subscribed THEN "had" ELSE "new"
             r == [call[k] EXCEPT !.step = "sub_venue", !.first = first,
                                  !.mode = mode]
  <2>1. has' \in [Clients -> SUBSET Intents]
    BY <1>1, <1>6 DEF SubNote, CallRecord, Fits
  <2>2. CASE Done(k) BY <2>1, <2>2, CallEnds
  <2>3. CASE call' = [call EXCEPT ![k].step = "sub_venue", ![k].first = first,
                                  ![k].mode = mode]
    <3>1. r \in CallRecord
      BY <1>1 DEF CallRecord, Steps, GateSteps, Modes
    <3>2. call' = [call EXCEPT ![k] = r]
      BY <1>1, <2>3 DEF CallRecord, LocksInv, CallsTyped
    <3>3. Fits(r) /\ r.step = "sub_venue" /\ r.c = c
      BY <1>1, <1>6 DEF Fits, CallRecord, LeaveSteps, SubNote
    <3>4. call[k].step \in GateSteps /\ TopicFree
      BY <1>6 DEF SubNote, GateSteps
    <3> HIDE DEF r
    <3> QED BY <2>1, <3>1, <3>2, <3>3, <3>4, OneCallMoves DEF AdmittedSteps
  <2> QED BY <1>6, <2>2, <2>3 DEF SubNote
<1>7. ASSUME NEW good \in SUBSET Intents, SubVenue(k, good) PROVE LocksInv'
  <2>1. has' = has BY <1>7 DEF SubVenue, clientVars
  <2>2. Done(k) \/ Goto(k, "rollback") BY <1>7 DEF SubVenue
  <2>3. call[k].step = "sub_venue" BY <1>7 DEF SubVenue
  <2> QED BY <1>1, <1>4, <2>1, <2>2, <2>3, CallEnds
<1>8. CASE Rollback(k)
  <2>1. has' \in [Clients -> SUBSET Intents]
    BY <1>1, <1>8 DEF Rollback, CallRecord, Fits
  <2>2. Done(k) \/ Goto(k, "rb_venue") BY <1>8 DEF Rollback
  <2>3. call[k].step = "rollback" BY <1>8 DEF Rollback
  <2> QED BY <1>4, <2>1, <2>2, <2>3, CallEnds
<1>9. CASE RbVenue(k)
  <2>1. has' = has BY <1>9 DEF RbVenue
  <2>2. Done(k) \/ Goto(k, "rb_renote") BY <1>9 DEF RbVenue
  <2>3. call[k].step = "rb_venue" BY <1>9 DEF RbVenue
  <2> QED BY <1>1, <1>4, <2>1, <2>2, <2>3, CallEnds
<1>10. CASE RbRenote(k)
  <2>1. has' \in [Clients -> SUBSET Intents]
    BY <1>1, <1>10 DEF RbRenote, CallRecord, Fits, Intents
  <2> QED BY <1>10, <2>1, CallEnds DEF RbRenote
<1> QED BY <1>5, <1>6, <1>7, <1>8, <1>9, <1>10

(* The same for ensure_order_plant and for order commands. *)
LEMMA CommandKeepsLocks ==
    ASSUME LocksInv, NEW k \in Calls,
           \/ EnsEnter(k) \/ \E ok \in BOOLEAN : EnsVenue(k, ok)
           \/ PlaceGate(k) \/ PlaceSend(k) \/ PlaceRefused(k) \/ PlaceEnd(k)
    PROVE  LocksInv'
<1>1. /\ call[k] \in CallRecord /\ Fits(call[k])
      /\ has \in [Clients -> SUBSET Intents]
  BY CallForms DEF LocksInv, CallsTyped
<1>2. has' = has
  BY DEF EnsEnter, EnsVenue, PlaceGate, PlaceSend, PlaceRefused, PlaceEnd,
         clientVars
<1>3. CASE Done(k) BY <1>1, <1>2, <1>3, CallEnds
<1>4. CASE EnsEnter(k) /\ Goto(k, "ens_venue")
  <2>1. call[k].step = "ens_gate" /\ GateFree(call[k].c) BY <1>4 DEF EnsEnter
  <2>2. Fits([call[k] EXCEPT !.step = "ens_venue"])
    BY <1>1, <2>1 DEF Fits, CallRecord, LeaveSteps
  <2> QED BY <1>1, <1>2, <1>4, <2>1, <2>2, CallGoesOn
        DEF Steps, GateSteps, AdmittedSteps, TopicSteps
<1>5. CASE PlaceGate(k) /\ Goto(k, "pl_venue")
  <2>1. call[k].step = "pl_gate" /\ ~Writing(call[k].c) BY <1>5 DEF PlaceGate
  <2>2. Fits([call[k] EXCEPT !.step = "pl_venue"])
    BY <1>1, <2>1 DEF Fits, CallRecord, LeaveSteps
  <2> QED BY <1>1, <1>2, <1>5, <2>1, <2>2, CallGoesOn
        DEF Steps, GateSteps, AdmittedSteps, TopicSteps
<1>6. CASE PlaceSend(k)
  <2>1. call[k].step = "pl_venue" /\ Goto(k, "pl_send") BY <1>6 DEF PlaceSend
  <2>2. Fits([call[k] EXCEPT !.step = "pl_send"])
    BY <1>1, <2>1 DEF Fits, CallRecord, LeaveSteps
  <2> QED BY <1>1, <1>2, <2>1, <2>2, CallGoesOn
        DEF Steps, GateSteps, AdmittedSteps, TopicSteps
<1> QED BY <1>3, <1>4, <1>5, <1>6
      DEF EnsEnter, EnsVenue, PlaceGate, PlaceRefused, PlaceEnd

(* The same for leaving the plant. *)
LEMMA LeaveKeepsLocks ==
    ASSUME LocksInv, NEW k \in Calls,
           \/ LeaveEnter(k) \/ Leave(k) \/ LeaveVenue(k) \/ LeaveRenote(k)
           \/ \E ok \in BOOLEAN : Reseat(k, ok)
    PROVE  LocksInv'
<1> DEFINE c == call[k].c
<1>1. /\ call[k] \in CallRecord /\ Fits(call[k])
      /\ has \in [Clients -> SUBSET Intents]
  BY CallForms DEF LocksInv, CallsTyped
<1>2. CASE LeaveEnter(k)
  <2>1. has' = has BY <1>2 DEF LeaveEnter
  <2>2. CASE Done(k) BY <1>1, <2>1, <2>2, CallEnds
  <2>3. CASE Goto(k, "lv_topic")
    <3>1. call[k].step \in {"disc_gate", "td_gate"} /\ GateFree(c)
      BY <1>2 DEF LeaveEnter
    <3>2. Fits([call[k] EXCEPT !.step = "lv_topic"])
      BY <1>1, <3>1 DEF Fits, CallRecord, LeaveSteps
    <3> QED BY <1>1, <2>1, <2>3, <3>1, <3>2, CallGoesOn
          DEF Steps, GateSteps, AdmittedSteps, TopicSteps
  <2> QED BY <1>2, <2>2, <2>3 DEF LeaveEnter, EndLeave, GoOn
<1>3. CASE Leave(k)
  <2> DEFINE last == {i \in has[c] : refs[i] = 1}
             to == IF "order" \in last THEN "lv_venue" ELSE "reseat"
             r == [call[k] EXCEPT !.need = has[c], !.step = to]
  <2>1. has' \in [Clients -> SUBSET Intents] BY <1>1, <1>3 DEF Leave
  <2>2. CASE Done(k) BY <2>1, <2>2, CallEnds
  <2>3. CASE call' = [call EXCEPT ![k].need = has[c], ![k].step = to]
    <3>1. call[k].step = "lv_topic" /\ TopicFree BY <1>3 DEF Leave
    <3>2. c \in Clients BY <1>1, <3>1 DEF Fits
    <3>3. r \in CallRecord
      BY <1>1, <3>2 DEF CallRecord, Steps, GateSteps
    <3>4. call' = [call EXCEPT ![k] = r]
      BY <1>1, <2>3 DEF CallRecord, LocksInv, CallsTyped
    <3>5. Fits(r) /\ r.step \in {"lv_venue", "reseat"} /\ r.c = c
      BY <1>1, <3>1 DEF Fits, CallRecord, LeaveSteps
    <3> HIDE DEF r
    <3> QED BY <2>1, <3>1, <3>3, <3>4, <3>5, OneCallMoves
          DEF AdmittedSteps, GateSteps
  <2> QED BY <1>3, <2>2, <2>3 DEF Leave, EndLeave
<1>4. CASE LeaveVenue(k)
  <2>1. has' = has BY <1>4 DEF LeaveVenue
  <2>2. CASE Done(k) BY <1>1, <2>1, <2>2, CallEnds
  <2>3. CASE Goto(k, "lv_renote")
    <3>1. call[k].step = "lv_venue" BY <1>4 DEF LeaveVenue
    <3>2. Fits([call[k] EXCEPT !.step = "lv_renote"])
      BY <1>1, <3>1 DEF Fits, CallRecord, LeaveSteps
    <3> QED BY <1>1, <2>1, <2>3, <3>1, <3>2, CallGoesOn
          DEF Steps, GateSteps, AdmittedSteps, TopicSteps
  <2> QED BY <1>4, <2>2, <2>3 DEF LeaveVenue, EndLeave, GoOn
<1>5. CASE LeaveRenote(k)
  <2>1. has' \in [Clients -> SUBSET Intents]
    BY <1>1, <1>5 DEF LeaveRenote, CallRecord, Fits
  <2> QED BY <1>5, <2>1, CallEnds DEF LeaveRenote, FailLeave
<1>6. ASSUME NEW ok \in BOOLEAN, Reseat(k, ok) PROVE LocksInv'
  <2>1. has' = has BY <1>6 DEF Reseat
  <2>2. Done(k) BY <1>6 DEF Reseat, EndLeave, FailLeave
  <2> QED BY <1>1, <2>1, <2>2, CallEnds
<1> QED BY <1>2, <1>3, <1>4, <1>5, <1>6

(* Recovery moves no call. *)
LEMMA PumpMovesNoCall ==
    ASSUME PumpStep
    PROVE  UNCHANGED <<clientVars, sessionVars, call>>
BY DEF PumpStep, Interrupt, NotifySessions, Plan, PassStart, Finish, Rebuild,
       PassJoins

(* LocksInv holds initially. *)
LEMMA LocksInit == Init => LocksInv
<1> SUFFICES ASSUME Init PROVE LocksInv OBVIOUS
<1>1. Idle \in CallRecord /\ Fits(Idle)
  BY DEF Idle, CallRecord, Steps, Modes, Fits, LeaveSteps
<1>2. Idle.step = "idle" BY DEF Idle
<1>3. CallsTyped BY <1>1 DEF Init, CallsTyped, Fits
<1> QED BY <1>2, <1>3
      DEF Init, LocksInv, GateExcludes, TopicExcludes, GateSteps, TopicSteps

(* Every step keeps the locks. *)
LEMMA LocksStep == LocksInv /\ [Next]_vars => LocksInv'
<1> SUFFICES ASSUME LocksInv, [Next]_vars PROVE LocksInv' OBVIOUS
<1>1. ASSUME NEW k \in Calls, CallStep(k) PROVE LocksInv'
  BY <1>1, SubscribeKeepsLocks, CommandKeepsLocks, LeaveKeepsLocks DEF CallStep
<1>2. ASSUME NEW k \in Calls, NEW c \in Clients, CallStart(k, c)
      PROVE  LocksInv'
  BY <1>2, StartKeepsLocks
<1>3. CASE PumpStep BY <1>3, PumpMovesNoCall, NoCallMoves DEF clientVars
<1>4. CASE UNCHANGED vars BY <1>4, NoCallMoves DEF vars, clientVars
<1> QED BY <1>1, <1>2, <1>3, <1>4 DEF Next

-----------------------------------------------------------------------------
(***************************************************************************)
(* What a call that holds its session's order_gate, and later the topic     *)
(* lock, may rely on.  Before it counts: its intents are new to the         *)
(* session.  While it subscribes: they are in, the first holder's are those *)
(* counted once, and they are all the session has if it was not attached.   *)
(* Once the last order holder has left, nothing is held at all.             *)
(***************************************************************************)
NothingHeld == \A i \in Intents : refs[i] = 0
Own(r) ==
    /\ r.step = "sub_gate" => "order" \in r.need
    /\ r.step = "sub_topic" =>
         r.need \cap has[r.c] = {} /\ "order" \in r.need \cup has[r.c]
    /\ r.step \in {"sub_venue", "rollback"} =>
         /\ r.need \subseteq has[r.c] /\ r.c \in subscribed
         /\ r.first = {i \in r.need : refs[i] = 1}
         /\ r.mode = "new" => has[r.c] = r.need
         /\ has[r.c] # r.need => "order" \in has[r.c] \ r.need
    /\ r.step \in {"rb_venue", "rb_renote"} =>
         has[r.c] = {} /\ r.c \in subscribed /\ NothingHeld
    /\ r.step \in {"lv_venue", "lv_renote"} =>
         /\ has[r.c] = {} /\ r.c \in subscribed /\ NothingHeld
         /\ "order" \in r.need
    /\ r.step = "reseat" => has[r.c] = {} /\ refs["brackets"] = 0
OwnOK == \A k \in Calls : Own(call[k])

(* A session holds brackets only with the orders. *)
BracketsRideOrders == \A c \in Clients : has[c] # {} => "order" \in has[c]

HoldInv ==
    /\ refs \in [Intents -> Nat]
    /\ OwnOK /\ BracketsRideOrders /\ RefsExact /\ HolderIsDelivered

Carefree == {"idle", "ens_gate", "disc_gate", "td_gate", "pl_gate", "ens_venue",
             "lv_topic", "pl_venue", "pl_send"}
(* About the other steps Own says nothing. *)
LEMMA CarefreeOwns ==
    ASSUME NEW r, r.step \in Carefree PROVE Own(r)
BY DEF Own, Carefree

(* A session that is not counted yet is counted once more. *)
LEMMA CountsUp ==
    ASSUME CallsTyped, RefsExact, refs \in [Intents -> Nat], NEW c \in Clients,
           NEW is \in SUBSET Intents, is \cap has[c] = {}, refs' = Noted(is),
           has' = [has EXCEPT ![c] = @ \cup is]
    PROVE  RefsExact' /\ refs' \in [Intents -> Nat]
<1> DEFINE Holders(i) == {d \in Clients : i \in has[d]}
           Later(i) == {d \in Clients : i \in has'[d]}
<1>1. \A i \in Intents : IsFiniteSet(Holders(i))
  BY CallsAssumption, FS_Subset
<1>2. ASSUME NEW i \in Intents PROVE refs'[i] = Cardinality(Later(i))
  <2>1. CASE i \in is
    <3>1. Later(i) = Holders(i) \cup {c} /\ c \notin Holders(i)
      BY <2>1 DEF CallsTyped
    <3>2. Cardinality(Later(i)) = Cardinality(Holders(i)) + 1
      BY <1>1, <3>1, FS_AddElement
    <3> QED BY <2>1, <3>2 DEF RefsExact, Noted
  <2>2. CASE i \notin is
    <3>1. Later(i) = Holders(i) BY <2>2 DEF CallsTyped
    <3> QED BY <2>2, <3>1 DEF RefsExact, Noted
  <2> QED BY <2>1, <2>2
<1>3. refs' \in [Intents -> Nat] BY DEF Noted
<1> QED BY <1>2, <1>3 DEF RefsExact

(* An intent some session has is counted. *)
LEMMA HeldIsCounted ==
    ASSUME RefsExact, refs \in [Intents -> Nat], NEW c \in Clients,
           NEW i \in Intents, i \in has[c]
    PROVE  refs[i] >= 1
<1> DEFINE Holders == {d \in Clients : i \in has[d]}
<1>1. IsFiniteSet(Holders) /\ Holders # {} BY CallsAssumption, FS_Subset
<1>2. Cardinality(Holders) # 0 BY <1>1, FS_EmptySet
<1> QED BY <1>2 DEF RefsExact

(* A session that is counted and gives its intents up is counted no more. *)
LEMMA CountsDown ==
    ASSUME CallsTyped, RefsExact, refs \in [Intents -> Nat], NEW c \in Clients,
           NEW is \in SUBSET Intents, is \subseteq has[c], refs' = Forgotten(is),
           has' = [has EXCEPT ![c] = @ \ is]
    PROVE  RefsExact' /\ refs' \in [Intents -> Nat]
<1> DEFINE Holders(i) == {d \in Clients : i \in has[d]}
           Later(i) == {d \in Clients : i \in has'[d]}
<1>1. \A i \in Intents : IsFiniteSet(Holders(i))
  BY CallsAssumption, FS_Subset
<1>2. ASSUME NEW i \in Intents PROVE refs'[i] = Cardinality(Later(i))
  <2>1. CASE i \in is
    <3>1. Later(i) = Holders(i) \ {c} /\ c \in Holders(i)
      BY <2>1 DEF CallsTyped
    <3>2. Cardinality(Later(i)) = Cardinality(Holders(i)) - 1
      BY <1>1, <3>1, FS_RemoveElement
    <3> QED BY <2>1, <3>2 DEF RefsExact, Forgotten
  <2>2. CASE i \notin is
    <3>1. Later(i) = Holders(i) BY <2>2 DEF CallsTyped
    <3> QED BY <2>2, <3>1 DEF RefsExact, Forgotten
  <2> QED BY <2>1, <2>2
<1>3. \A i \in is : refs[i] >= 1 BY HeldIsCounted
<1>4. refs' \in [Intents -> Nat] BY <1>3 DEF Forgotten
<1> QED BY <1>2, <1>4 DEF RefsExact

(* When nobody holds the orders, nothing is held. *)
LEMMA NoOrdersNothing ==
    ASSUME NEW R, NEW H \in [Clients -> SUBSET Intents],
           \A i \in Intents : R[i] = Cardinality({c \in Clients : i \in H[c]}),
           \A c \in Clients : H[c] # {} => "order" \in H[c], R["order"] = 0
    PROVE  (\A i \in Intents : R[i] = 0) /\ (\A c \in Clients : H[c] = {})
<1> DEFINE Holders(i) == {d \in Clients : i \in H[d]}
<1>1. IsFiniteSet(Holders("order")) BY CallsAssumption, FS_Subset
<1>2. Cardinality(Holders("order")) = 0 BY DEF Intents
<1>3. Holders("order") = {} BY <1>1, <1>2, FS_EmptySet
<1>4. \A c \in Clients : H[c] = {} BY <1>3
<1>5. \A i \in Intents : Holders(i) = {} BY <1>4
<1>6. Cardinality({}) = 0 BY FS_EmptySet
<1>7. ASSUME NEW i \in Intents PROVE R[i] = 0
  <2>1. R[i] = Cardinality(Holders(i)) OBVIOUS
  <2> QED BY <1>5, <1>6, <2>1
<1> QED BY <1>4, <1>7

(***************************************************************************)
(* The calls of other sessions, and those that wait, do not notice what a   *)
(* call does to its own session under the gate.                             *)
(***************************************************************************)
LEMMA OthersKeepTheirs ==
    ASSUME LocksInv, OwnOK, NEW k \in Calls, NEW c,
           \A l \in Calls \ {k} : call'[l] = call[l],
           \A d \in Clients \ {c} :
             has'[d] = has[d] /\ (d \in subscribed' <=> d \in subscribed),
           refs' = refs \/ \A l \in Calls \ {k} : call[l].step \notin TopicSteps,
           \A l \in Calls \ {k} : call[l].c = c => call[l].step \notin GateSteps
    PROVE  \A l \in Calls \ {k} : Own(call[l])'
<1> SUFFICES ASSUME NEW l \in Calls, l # k PROVE Own(call[l])' OBVIOUS
<1>1. call'[l] = call[l] /\ Own(call[l]) BY DEF OwnOK
<1>2. CASE call[l].step \notin GateSteps
  BY <1>1, <1>2 DEF Own, GateSteps
<1>3. CASE call[l].step \in GateSteps
  <2>1. call[l].c \in Clients \ {c}
    <3>1. call[l].step # "idle" BY <1>3 DEF GateSteps
    <3> QED BY <1>3, <3>1 DEF LocksInv, CallsTyped, Fits
  <2>2. /\ has'[call[l].c] = has[call[l].c]
        /\ call[l].c \in subscribed' <=> call[l].c \in subscribed
    BY <2>1
  <2>3. CASE call[l].step \in TopicSteps
    <3>1. refs' = refs BY <2>3
    <3> QED BY <1>1, <2>2, <3>1 DEF Own, NothingHeld
  <2>4. CASE call[l].step \notin TopicSteps
    BY <1>1, <2>2, <2>4 DEF Own, TopicSteps
  <2> QED BY <2>3, <2>4
<1> QED BY <1>2, <1>3

(* A call moves, and nothing that is held changes. *)
LEMMA QuietCall ==
    ASSUME LocksInv, HoldInv, NEW k \in Calls,
           refs' = refs, has' = has, subscribed' = subscribed,
           \A l \in Calls \ {k} : call'[l] = call[l], Own(call[k])'
    PROVE  HoldInv'
<1>1. \A l \in Calls \ {k} : Own(call[l])'
  <2> SUFFICES ASSUME NEW l \in Calls \ {k} PROVE Own(call[l])' OBVIOUS
  <2>1. call'[l] = call[l] /\ Own(call[l]) BY DEF HoldInv, OwnOK
  <2> QED BY <2>1 DEF Own, NothingHeld
<1>2. OwnOK' BY <1>1 DEF OwnOK
<1> QED BY <1>2 DEF HoldInv, BracketsRideOrders, RefsExact, HolderIsDelivered

(***************************************************************************)
(* A call changes what its own session holds, under the gate; and the       *)
(* counts, under the topic lock.                                            *)
(***************************************************************************)
LEMMA SessionChanges ==
    ASSUME LocksInv, HoldInv, NEW k \in Calls, NEW c \in Clients,
           call[k].c = c, call[k].step \in GateSteps \/ GateFree(c),
           \A l \in Calls \ {k} : call'[l] = call[l],
           \A d \in Clients \ {c} :
             has'[d] = has[d] /\ (d \in subscribed' <=> d \in subscribed),
           refs' = refs \/ call[k].step \in TopicSteps \/ TopicFree,
           refs' \in [Intents -> Nat], RefsExact',
           has'[c] # {} => "order" \in has'[c] /\ c \in subscribed',
           Own(call[k])'
    PROVE  HoldInv'
<1>1. \A l \in Calls \ {k} : call[l].c = c => call[l].step \notin GateSteps
  BY DEF LocksInv, GateExcludes, GateFree, Writing
<1>2. refs' = refs \/ \A l \in Calls \ {k} : call[l].step \notin TopicSteps
  BY DEF LocksInv, TopicExcludes, TopicFree
<1>3. \A l \in Calls \ {k} : Own(call[l])'
  BY <1>1, <1>2, OthersKeepTheirs DEF HoldInv
<1>4. OwnOK' BY <1>3 DEF OwnOK
<1>5. BracketsRideOrders' BY DEF HoldInv, BracketsRideOrders
<1>6. HolderIsDelivered' BY DEF HoldInv, HolderIsDelivered
<1> QED BY <1>4, <1>5, <1>6 DEF HoldInv

(* What the ways in which a call changes leave in the calls. *)
LEMMA CallAfter ==
    ASSUME LocksInv, NEW k \in Calls, NEW r \in CallRecord,
           call' = [call EXCEPT ![k] = r]
    PROVE  call'[k] = r /\ \A l \in Calls \ {k} : call'[l] = call[l]
BY DEF LocksInv, CallsTyped

(* The effect of Done: the call is idle and owns nothing. *)
LEMMA AfterDone ==
    ASSUME LocksInv, NEW k \in Calls, Done(k)
    PROVE  /\ call'[k] = Idle /\ Own(call[k])'
           /\ \A l \in Calls \ {k} : call'[l] = call[l]
<1>1. call'[k] = Idle /\ \A l \in Calls \ {k} : call'[l] = call[l]
  BY CallForms, CallAfter
<1>2. call'[k].step = "idle" BY <1>1 DEF Idle
<1> QED BY <1>1, <1>2 DEF Own

(* The effect of Goto: only the step of the call changes. *)
LEMMA AfterGoto ==
    ASSUME LocksInv, NEW k \in Calls, NEW s \in Steps, Goto(k, s)
    PROVE  /\ call'[k] = [call[k] EXCEPT !.step = s]
           /\ call'[k].step = s /\ call'[k].c = call[k].c
           /\ call'[k].need = call[k].need /\ call'[k].first = call[k].first
           /\ call'[k].mode = call[k].mode
           /\ \A l \in Calls \ {k} : call'[l] = call[l]
<1>1. /\ call'[k] = [call[k] EXCEPT !.step = s]
      /\ \A l \in Calls \ {k} : call'[l] = call[l]
  BY CallForms, CallAfter
<1>2. call[k] \in CallRecord BY CallForms
<1> QED BY <1>1, <1>2 DEF CallRecord

(* A call that ends, or goes on to a step Own says nothing about. *)
LEMMA QuietEnd ==
    ASSUME LocksInv, HoldInv, NEW k \in Calls,
           refs' = refs, has' = has, subscribed' = subscribed,
           Done(k) \/ \E s \in Carefree : Goto(k, s)
    PROVE  HoldInv'
<1>1. CASE Done(k) BY <1>1, AfterDone, QuietCall
<1>2. ASSUME NEW s \in Carefree, Goto(k, s) PROVE HoldInv'
  <2>1. s \in Steps BY DEF Carefree, Steps, GateSteps, AdmittedSteps
  <2>2. call'[k].step = s /\ \A l \in Calls \ {k} : call'[l] = call[l]
    BY <1>2, <2>1, AfterGoto
  <2>3. Own(call[k])' BY <2>2 DEF Own, Carefree
  <2> QED BY <2>2, <2>3, QuietCall
<1> QED BY <1>1, <1>2

(* A call that starts owns no count. *)
LEMMA StartHolds ==
    ASSUME LocksInv, HoldInv, NEW k \in Calls, NEW c \in Clients,
           CallStart(k, c)
    PROVE  HoldInv'
<1>1. refs' = refs /\ has' = has /\ subscribed' = subscribed
  BY DEF CallStart, SubscribeOrders, EnsureOrderPlant, DisconnectOrderPlant,
         Disconnect, PlaceOrder, clientVars
<1>2. \E s \in Steps, n \in SUBSET Intents, m \in Modes :
        /\ Begin(k, c, s, n, m)
        /\ s \in Carefree \/ (s = "sub_gate" /\ "order" \in n)
  BY DEF CallStart, SubscribeOrders, EnsureOrderPlant, DisconnectOrderPlant,
         Disconnect, PlaceOrder, Steps, Modes, Carefree, Intents
<1>3. PICK s \in Steps, n \in SUBSET Intents, m \in Modes :
        /\ Begin(k, c, s, n, m)
        /\ s \in Carefree \/ (s = "sub_gate" /\ "order" \in n)
  BY <1>2
<1> DEFINE r == [step |-> s, c |-> c, need |-> n, first |-> {}, mode |-> m]
<1>4. r \in CallRecord /\ call' = [call EXCEPT ![k] = r] BY <1>3, CallForms
<1>5. call'[k] = r /\ \A l \in Calls \ {k} : call'[l] = call[l]
  BY <1>4, CallAfter
<1>6. r.step = s /\ r.need = n OBVIOUS
<1> HIDE DEF r
<1>7. call'[k].step = s /\ call'[k].need = n BY <1>5, <1>6
<1>8. Own(call[k])' BY <1>3, <1>7 DEF Own, Carefree
<1> QED BY <1>1, <1>5, <1>8, QuietCall

(* subscribe_order_plant_stream, up to the answer of the venue. *)
LEMMA SubscribeHolds ==
    ASSUME LocksInv, HoldInv, NEW k \in Calls,
           \/ SubEnter(k) \/ SubNote(k)
           \/ \E good \in SUBSET Intents : SubVenue(k, good)
    PROVE  HoldInv'
<1> DEFINE c == call[k].c
           need == call[k].need
<1>1. /\ call[k] \in CallRecord /\ Fits(call[k]) /\ Own(call[k])
      /\ has \in [Clients -> SUBSET Intents] /\ refs \in [Intents -> Nat]
  BY CallForms DEF LocksInv, CallsTyped, HoldInv, OwnOK
<1>2. need \in SUBSET Intents BY <1>1 DEF CallRecord
<1>3. CASE SubEnter(k)
  <2> DEFINE fresh == need \ has[c]
             r == [call[k] EXCEPT !.step = "sub_topic", !.need = fresh]
  <2>1. refs' = refs /\ has' = has /\ subscribed' = subscribed
    BY <1>3 DEF SubEnter, clientVars
  <2>2. CASE Done(k) BY <2>1, <2>2, QuietEnd
  <2>3. CASE call' = [call EXCEPT ![k].step = "sub_topic", ![k].need = fresh]
    <3>1. r \in CallRecord
      BY <1>1 DEF CallRecord, Steps, GateSteps
    <3>2. call' = [call EXCEPT ![k] = r]
      BY <1>1, <2>3 DEF CallRecord, LocksInv, CallsTyped
    <3>3. r.step = "sub_topic" /\ r.c = c /\ r.need = fresh
      BY <1>1 DEF CallRecord
    <3> HIDE DEF r
    <3>4. call'[k] = r /\ \A l \in Calls \ {k} : call'[l] = call[l]
      BY <3>1, <3>2, CallAfter
    <3>5. "order" \in need BY <1>1, <1>3 DEF SubEnter, Own
    <3>6. Own(call[k])' BY <2>1, <3>3, <3>4, <3>5 DEF Own
    <3> QED BY <2>1, <3>4, <3>6, QuietCall
  <2> QED BY <1>3, <2>2, <2>3 DEF SubEnter
<1>4. CASE SubNote(k)
  <2> DEFINE first == need \ Held
             mode == IF c \in subscribed THEN "had" ELSE "new"
             r == [call[k] EXCEPT !.step = "sub_venue", !.first = first,
                                  !.mode = mode]
  <2>1. /\ call[k].step = "sub_topic" /\ TopicFree /\ refs' = Noted(need)
        /\ has' = [has EXCEPT ![c] = @ \cup need]
        /\ subscribed' = subscribed \cup {c}
    BY <1>4 DEF SubNote
  <2>2. c \in Clients /\ call[k].step \in GateSteps
    BY <1>1, <2>1 DEF Fits, GateSteps
  <2>3. need \cap has[c] = {} /\ "order" \in need \cup has[c]
    BY <1>1, <2>1 DEF Own
  <2>4. RefsExact' /\ refs' \in [Intents -> Nat]
    BY <1>1, <1>2, <2>1, <2>2, <2>3, CountsUp DEF HoldInv, LocksInv
  <2>5. /\ has'[c] = has[c] \cup need
        /\ \A d \in Clients \ {c} :
             has'[d] = has[d] /\ (d \in subscribed' <=> d \in subscribed)
    BY <1>1, <2>1, <2>2
  <2>6. Own(call[k])' /\ \A l \in Calls \ {k} : call'[l] = call[l]
    <3>1. CASE Done(k) BY <3>1, AfterDone
    <3>2. CASE call' = [call EXCEPT ![k].step = "sub_venue", ![k].first = first,
                                    ![k].mode = mode]
      <4>1. r \in CallRecord
        BY <1>1 DEF CallRecord, Steps, GateSteps, Modes
      <4>2. call' = [call EXCEPT ![k] = r]
        BY <1>1, <3>2 DEF CallRecord, LocksInv, CallsTyped
      <4>3. /\ r.step = "sub_venue" /\ r.c = c /\ r.need = need
            /\ r.first = first /\ r.mode = mode
        BY <1>1 DEF CallRecord
      <4> HIDE DEF r
      <4>4. call'[k] = r /\ \A l \in Calls \ {k} : call'[l] = call[l]
        BY <4>1, <4>2, CallAfter
      <4>5. first = {i \in need : refs'[i] = 1}
        BY <1>1, <1>2, <2>1 DEF Held, Noted
      <4>6. mode = "new" => has[c] = {}
        BY <2>2 DEF HoldInv, HolderIsDelivered
      <4>7. has'[c] # need => "order" \in has'[c] \ need
        BY <2>2, <2>3, <2>5 DEF HoldInv, BracketsRideOrders
      <4>8. /\ need \subseteq has'[c] /\ c \in subscribed'
            /\ mode = "new" => has'[c] = need
        BY <2>1, <2>5, <4>6
      <4> HIDE DEF first, mode
      <4>9. Own(call[k])' BY <4>3, <4>4, <4>5, <4>7, <4>8 DEF Own
      <4> QED BY <4>4, <4>9
    <3> QED BY <1>4, <3>1, <3>2 DEF SubNote
  <2>7. has'[c] # {} => "order" \in has'[c] /\ c \in subscribed'
    BY <2>1, <2>3, <2>5
  <2> QED BY <2>1, <2>2, <2>4, <2>5, <2>6, <2>7, SessionChanges
<1>5. ASSUME NEW good \in SUBSET Intents, SubVenue(k, good) PROVE HoldInv'
  <2>1. refs' = refs /\ has' = has /\ subscribed' = subscribed
    BY <1>5 DEF SubVenue, clientVars
  <2>2. CASE Done(k) BY <2>1, <2>2, QuietEnd
  <2>3. CASE Goto(k, "rollback")
    <3>1. call[k].step = "sub_venue" BY <1>5 DEF SubVenue
    <3>2. "rollback" \in Steps BY DEF Steps, GateSteps
    <3>3. Own(call[k])'
      BY <1>1, <2>1, <2>3, <3>1, <3>2, AfterGoto DEF Own
    <3> QED BY <2>1, <2>3, <3>2, <3>3, AfterGoto, QuietCall
  <2> QED BY <1>5, <2>2, <2>3 DEF SubVenue
<1> QED BY <1>3, <1>4, <1>5

(* rollback_order_plant_stream_introductions *)
LEMMA RollbackHolds ==
    ASSUME LocksInv, HoldInv, NEW k \in Calls,
           Rollback(k) \/ RbVenue(k) \/ RbRenote(k)
    PROVE  HoldInv'
<1> DEFINE c == call[k].c
           need == call[k].need
<1>1. /\ call[k] \in CallRecord /\ Fits(call[k]) /\ Own(call[k])
      /\ has \in [Clients -> SUBSET Intents] /\ refs \in [Intents -> Nat]
  BY CallForms DEF LocksInv, CallsTyped, HoldInv, OwnOK
<1>2. need \in SUBSET Intents BY <1>1 DEF CallRecord
<1>3. call[k].step \in {"rollback", "rb_venue", "rb_renote"}
  BY DEF Rollback, RbVenue, RbRenote
<1>4. c \in Clients /\ call[k].step \in GateSteps /\ call[k].step \in TopicSteps
  BY <1>1, <1>3 DEF Fits, GateSteps, TopicSteps
<1>5. "rb_venue" \in Steps /\ "rb_renote" \in Steps BY DEF Steps, GateSteps
<1>6. CASE Rollback(k)
  <2>1. /\ call[k].step = "rollback" /\ refs' = Forgotten(need)
        /\ has' = [has EXCEPT ![c] = @ \ need]
    BY <1>6 DEF Rollback
  <2>2. /\ need \subseteq has[c] /\ c \in subscribed
        /\ call[k].mode = "new" => has[c] = need
        /\ has[c] # need => "order" \in has[c] \ need
    BY <1>1, <2>1 DEF Own
  <2>3. RefsExact' /\ refs' \in [Intents -> Nat]
    BY <1>1, <1>2, <1>4, <2>1, <2>2, CountsDown DEF HoldInv, LocksInv
  <2>4. has'[c] = has[c] \ need /\ \A d \in Clients \ {c} : has'[d] = has[d]
    BY <1>1, <1>4, <2>1
  <2>5. has'[c] # {} => "order" \in has'[c] BY <2>2, <2>4
  <2>6. subscribed' = subscribed \/ RollbackDelivery(k) BY <1>6 DEF Rollback
  <2>7. /\ has'[c] # {} => c \in subscribed'
        /\ \A d \in Clients \ {c} : d \in subscribed' <=> d \in subscribed
    BY <2>2, <2>4, <2>6 DEF RollbackDelivery
  <2>8. Own(call[k])' /\ \A l \in Calls \ {k} : call'[l] = call[l]
    <3>1. CASE Done(k) BY <3>1, AfterDone
    <3>2. CASE /\ Goto(k, "rb_venue") /\ "order" \in need
               /\ ~(refs["order"] > 1) /\ subscribed' = subscribed
      <4>1. refs["order"] >= 1
        BY <1>1, <1>4, <2>2, <3>2, HeldIsCounted DEF HoldInv, Intents
      <4>2. refs'["order"] = 0
        BY <1>1, <2>1, <3>2, <4>1 DEF Forgotten, Intents
      <4>3. \A d \in Clients : has'[d] # {} => "order" \in has'[d]
        BY <2>4, <2>5 DEF HoldInv, BracketsRideOrders
      <4>4. has' \in [Clients -> SUBSET Intents] BY <1>1, <2>1
      <4>5. (\A i \in Intents : refs'[i] = 0) /\ has'[c] = {}
        BY <1>4, <2>3, <4>2, <4>3, <4>4, NoOrdersNothing DEF RefsExact
      <4>6. call'[k].step = "rb_venue" /\ call'[k].c = c
        BY <1>5, <3>2, AfterGoto
      <4>7. Own(call[k])'
        BY <2>2, <3>2, <4>5, <4>6 DEF Own, NothingHeld
      <4> QED BY <1>5, <3>2, <4>7, AfterGoto
    <3> QED BY <1>6, <3>1, <3>2 DEF Rollback
  <2> QED BY <1>4, <2>3, <2>4, <2>5, <2>7, <2>8, SessionChanges
<1>7. CASE RbVenue(k)
  <2>1. refs' = refs /\ has' = has /\ call[k].step = "rb_venue"
    BY <1>7 DEF RbVenue
  <2>2. has[c] = {} /\ c \in subscribed /\ NothingHeld
    BY <1>1, <2>1 DEF Own
  <2>3. CASE Done(k) /\ RollbackDelivery(k)
    <3>1. Own(call[k])' /\ \A l \in Calls \ {k} : call'[l] = call[l]
      BY <2>3, AfterDone
    <3>2. RefsExact' /\ refs' \in [Intents -> Nat]
      BY <1>1, <2>1 DEF HoldInv, RefsExact
    <3>3. \A d \in Clients \ {c} : d \in subscribed' <=> d \in subscribed
      BY <2>3 DEF RollbackDelivery
    <3> QED BY <1>4, <2>1, <2>2, <3>1, <3>2, <3>3, SessionChanges
  <2>4. CASE Goto(k, "rb_renote") /\ subscribed' = subscribed
    <3>1. Own(call[k])'
      BY <1>5, <2>1, <2>2, <2>4, AfterGoto DEF Own, NothingHeld
    <3> QED BY <1>5, <2>1, <2>4, <3>1, AfterGoto, QuietCall
  <2> QED BY <1>7, <2>3, <2>4 DEF RbVenue
<1>8. CASE RbRenote(k)
  <2>1. /\ call[k].step = "rb_renote" /\ refs' = Noted({"order"})
        /\ has' = [has EXCEPT ![c] = @ \cup {"order"}] /\ Done(k)
        /\ subscribed' = subscribed
    BY <1>8 DEF RbRenote
  <2>2. has[c] = {} /\ c \in subscribed BY <1>1, <2>1 DEF Own
  <2>3. {"order"} \in SUBSET Intents /\ {"order"} \cap has[c] = {}
    BY <2>2 DEF Intents
  <2>4. RefsExact' /\ refs' \in [Intents -> Nat]
    BY <1>1, <1>4, <2>1, <2>3, CountsUp DEF HoldInv, LocksInv
  <2>5. /\ has'[c] = {"order"}
        /\ \A d \in Clients \ {c} : has'[d] = has[d]
    BY <1>1, <1>4, <2>1, <2>2
  <2>6. Own(call[k])' /\ \A l \in Calls \ {k} : call'[l] = call[l]
    BY <2>1, AfterDone
  <2> QED BY <1>4, <2>1, <2>2, <2>4, <2>5, <2>6, SessionChanges
<1> QED BY <1>6, <1>7, <1>8

(* ensure_order_plant and the order commands hold nothing. *)
LEMMA CommandHolds ==
    ASSUME LocksInv, HoldInv, NEW k \in Calls,
           \/ EnsEnter(k) \/ \E ok \in BOOLEAN : EnsVenue(k, ok)
           \/ PlaceGate(k) \/ PlaceSend(k) \/ PlaceRefused(k) \/ PlaceEnd(k)
    PROVE  HoldInv'
<1>1. refs' = refs /\ has' = has /\ subscribed' = subscribed
  BY DEF EnsEnter, EnsVenue, PlaceGate, PlaceSend, PlaceRefused, PlaceEnd,
         clientVars
<1>2. Done(k) \/ Goto(k, "ens_venue") \/ Goto(k, "pl_venue")
      \/ Goto(k, "pl_send")
  BY DEF EnsEnter, EnsVenue, PlaceGate, PlaceSend, PlaceRefused, PlaceEnd
<1>3. "ens_venue" \in Carefree /\ "pl_venue" \in Carefree
      /\ "pl_send" \in Carefree
  BY DEF Carefree
<1> QED BY <1>1, <1>2, <1>3, QuietEnd

(* A call that has let go of everything detaches its session and ends. *)
LEMMA EndHolds ==
    ASSUME LocksInv, HoldInv, NEW k \in Calls, NEW c \in Clients,
           call[k].c = c, call[k].step \in GateSteps \/ GateFree(c),
           refs' = refs, has' = has, has[c] = {}, Done(k),
           subscribed' \in {subscribed, subscribed \ {c}}
    PROVE  HoldInv'
<1>1. Own(call[k])' /\ \A l \in Calls \ {k} : call'[l] = call[l]
  BY AfterDone
<1>2. RefsExact' /\ refs' \in [Intents -> Nat] BY DEF HoldInv, RefsExact
<1>3. \A d \in Clients \ {c} : d \in subscribed' <=> d \in subscribed
  OBVIOUS
<1> QED BY <1>1, <1>2, <1>3, SessionChanges

(* leave_order and what follows it at the venue. *)
LEMMA LeaveHolds ==
    ASSUME LocksInv, HoldInv, NEW k \in Calls,
           \/ LeaveEnter(k) \/ Leave(k) \/ LeaveVenue(k) \/ LeaveRenote(k)
           \/ \E ok \in BOOLEAN : Reseat(k, ok)
    PROVE  HoldInv'
<1> DEFINE c == call[k].c
<1>1. /\ call[k] \in CallRecord /\ Fits(call[k]) /\ Own(call[k])
      /\ has \in [Clients -> SUBSET Intents] /\ refs \in [Intents -> Nat]
  BY CallForms DEF LocksInv, CallsTyped, HoldInv, OwnOK
<1>2. call[k].step \in LeaveSteps \cup {"disc_gate", "td_gate"}
  BY DEF LeaveEnter, Leave, LeaveVenue, LeaveRenote, Reseat, LeaveSteps
<1>3. c \in Clients BY <1>1, <1>2 DEF Fits, LeaveSteps
<1>4. CASE LeaveEnter(k)
  <2>1. refs' = refs /\ has' = has /\ GateFree(c) BY <1>4 DEF LeaveEnter
  <2>2. CASE has[c] = {} /\ EndLeave(k)
    BY <1>3, <2>1, <2>2, EndHolds DEF EndLeave
  <2>3. CASE GoOn(k, "lv_topic")
    BY <2>1, <2>3, QuietEnd DEF GoOn, Carefree
  <2> QED BY <1>4, <2>2, <2>3 DEF LeaveEnter
<1>5. CASE Leave(k)
  <2> DEFINE last == {i \in has[c] : refs[i] = 1}
             to == IF "order" \in last THEN "lv_venue" ELSE "reseat"
             r == [call[k] EXCEPT !.need = has[c], !.step = to]
  <2>1. /\ call[k].step = "lv_topic" /\ TopicFree
        /\ refs' = Forgotten(has[c]) /\ has' = [has EXCEPT ![c] = {}]
    BY <1>5 DEF Leave
  <2>2. has[c] \in SUBSET Intents /\ has' = [has EXCEPT ![c] = @ \ has[c]]
    BY <1>1, <1>3, <2>1
  <2>3. RefsExact' /\ refs' \in [Intents -> Nat]
    BY <1>1, <1>3, <2>1, <2>2, CountsDown DEF HoldInv, LocksInv
  <2>4. has'[c] = {} /\ \A d \in Clients \ {c} : has'[d] = has[d]
    BY <1>1, <1>3, <2>1
  <2>5. subscribed' = subscribed \/ subscribed' = subscribed \ {c}
    BY <1>5 DEF Leave, EndLeave
  <2>6. \A d \in Clients \ {c} : d \in subscribed' <=> d \in subscribed
    BY <2>5
  <2>7. Own(call[k])' /\ \A l \in Calls \ {k} : call'[l] = call[l]
    <3>1. CASE Done(k) BY <3>1, AfterDone
    <3>2. CASE /\ call' = [call EXCEPT ![k].need = has[c], ![k].step = to]
               /\ subscribed' = subscribed /\ last # {}
      <4>1. r \in CallRecord BY <1>1, <1>3 DEF CallRecord, Steps, GateSteps
      <4>2. call' = [call EXCEPT ![k] = r]
        BY <1>1, <3>2 DEF CallRecord, LocksInv, CallsTyped
      <4>3. r.step = to /\ r.c = c /\ r.need = has[c] BY <1>1 DEF CallRecord
      <4> HIDE DEF r
      <4>4. call'[k] = r /\ \A l \in Calls \ {k} : call'[l] = call[l]
        BY <4>1, <4>2, CallAfter
      <4>5. c \in subscribed' BY <1>3, <3>2 DEF HoldInv, HolderIsDelivered
      <4>6. CASE "order" \in last
        <5>1. refs'["order"] = 0 BY <1>1, <2>1, <4>6 DEF Forgotten, Intents
        <5>2. \A d \in Clients : has'[d] # {} => "order" \in has'[d]
          BY <2>4 DEF HoldInv, BracketsRideOrders
        <5>3. has' \in [Clients -> SUBSET Intents] BY <1>1, <2>1
        <5>4. \A i \in Intents : refs'[i] = 0
          BY <2>3, <5>1, <5>2, <5>3, NoOrdersNothing DEF RefsExact
        <5>5. to = "lv_venue" /\ "order" \in has[c] BY <4>6
        <5> HIDE DEF to
        <5>6. Own(call[k])'
          BY <2>4, <4>3, <4>4, <4>5, <5>4, <5>5 DEF Own, NothingHeld
        <5> QED BY <4>4, <5>6
      <4>7. CASE "order" \notin last
        <5>1. "brackets" \in last BY <2>2, <3>2, <4>7 DEF Intents
        <5>2. refs'["brackets"] = 0 BY <1>1, <2>1, <5>1 DEF Forgotten, Intents
        <5>3. to = "reseat" BY <4>7
        <5> HIDE DEF to
        <5>4. Own(call[k])' BY <2>4, <4>3, <4>4, <5>2, <5>3 DEF Own
        <5> QED BY <4>4, <5>4
      <4> QED BY <4>6, <4>7
    <3> QED BY <1>5, <3>1, <3>2 DEF Leave, EndLeave
  <2> QED BY <1>3, <2>1, <2>3, <2>4, <2>6, <2>7, SessionChanges DEF GateSteps
<1>6. CASE LeaveVenue(k)
  <2>1. refs' = refs /\ has' = has /\ call[k].step = "lv_venue"
    BY <1>6 DEF LeaveVenue
  <2>2. /\ has[c] = {} /\ c \in subscribed /\ NothingHeld
        /\ "order" \in call[k].need
    BY <1>1, <2>1 DEF Own
  <2>3. CASE EndLeave(k)
    BY <1>3, <2>1, <2>2, <2>3, EndHolds DEF EndLeave, GateSteps
  <2>4. CASE GoOn(k, "lv_renote")
    <3>1. "lv_renote" \in Steps /\ Goto(k, "lv_renote")
          /\ subscribed' = subscribed
      BY <2>4 DEF Steps, GateSteps, GoOn
    <3>2. Own(call[k])' BY <2>1, <2>2, <3>1, AfterGoto DEF Own, NothingHeld
    <3> QED BY <2>1, <3>1, <3>2, AfterGoto, QuietCall
  <2> QED BY <1>6, <2>3, <2>4 DEF LeaveVenue
<1>7. CASE LeaveRenote(k)
  <2> DEFINE need == call[k].need
  <2>1. /\ call[k].step = "lv_renote" /\ refs' = Noted(need)
        /\ has' = [has EXCEPT ![c] = need] /\ Done(k)
        /\ subscribed' = subscribed
    BY <1>7 DEF LeaveRenote, FailLeave
  <2>2. has[c] = {} /\ c \in subscribed /\ "order" \in need
    BY <1>1, <2>1 DEF Own
  <2>3. need \in SUBSET Intents /\ need \cap has[c] = {}
        /\ has' = [has EXCEPT ![c] = @ \cup need]
    BY <1>1, <1>3, <2>1, <2>2 DEF CallRecord
  <2>4. RefsExact' /\ refs' \in [Intents -> Nat]
    BY <1>1, <1>3, <2>1, <2>3, CountsUp DEF HoldInv, LocksInv
  <2>5. has'[c] = need /\ \A d \in Clients \ {c} : has'[d] = has[d]
    BY <1>1, <1>3, <2>1
  <2>6. Own(call[k])' /\ \A l \in Calls \ {k} : call'[l] = call[l]
    BY <2>1, AfterDone
  <2>7. call[k].step \in GateSteps /\ call[k].step \in TopicSteps
    BY <2>1 DEF GateSteps, TopicSteps
  <2> QED BY <1>3, <2>1, <2>2, <2>4, <2>5, <2>6, <2>7, SessionChanges
<1>8. ASSUME NEW ok \in BOOLEAN, Reseat(k, ok) PROVE HoldInv'
  <2>1. refs' = refs /\ has' = has /\ call[k].step = "reseat"
    BY <1>8 DEF Reseat
  <2>2. has[c] = {} BY <1>1, <2>1 DEF Own
  <2>3. Done(k) /\ subscribed' \in {subscribed, subscribed \ {c}}
    BY <1>8 DEF Reseat, EndLeave, FailLeave
  <2> QED BY <1>3, <2>1, <2>2, <2>3, EndHolds DEF GateSteps
<1> QED BY <1>4, <1>5, <1>6, <1>7, <1>8

(* HoldInv holds initially. *)
LEMMA HoldInit == Init => HoldInv
<1> SUFFICES ASSUME Init PROVE HoldInv OBVIOUS
<1>1. OwnOK BY DEF Init, Idle, OwnOK, Own
<1>2. \A i \in Intents : {c \in Clients : i \in has[c]} = {} BY DEF Init
<1>3. RefsExact BY <1>2, FS_EmptySet DEF Init, RefsExact
<1> QED BY <1>1, <1>3
      DEF Init, HoldInv, BracketsRideOrders, HolderIsDelivered

(* Nothing a call relies on changes when what is held does not. *)
LEMMA HoldSame ==
    ASSUME HoldInv, call' = call, refs' = refs, has' = has,
           subscribed' = subscribed
    PROVE  HoldInv'
BY DEF HoldInv, OwnOK, Own, NothingHeld, BracketsRideOrders, RefsExact,
       HolderIsDelivered

(* HoldInv is inductive, given LocksInv. *)
LEMMA HoldStep == LocksInv /\ HoldInv /\ [Next]_vars => HoldInv'
<1> SUFFICES ASSUME LocksInv, HoldInv, [Next]_vars PROVE HoldInv' OBVIOUS
<1>1. ASSUME NEW k \in Calls, CallStep(k) PROVE HoldInv'
  BY <1>1, SubscribeHolds, RollbackHolds, CommandHolds, LeaveHolds DEF CallStep
<1>2. ASSUME NEW k \in Calls, NEW c \in Clients, CallStart(k, c) PROVE HoldInv'
  BY <1>2, StartHolds
<1>3. CASE PumpStep BY <1>3, PumpMovesNoCall, HoldSame DEF clientVars
<1>4. CASE UNCHANGED vars BY <1>4, HoldSame DEF vars, clientVars
<1> QED BY <1>1, <1>2, <1>3, <1>4 DEF Next

-----------------------------------------------------------------------------
(***************************************************************************)
(* disconnecting_order counts the calls of disconnect_order_plant that are  *)
(* not over.  A session that called it and has not opened the plant since   *)
(* is closed; a command of it that is still past its check is waited for by *)
(* a disconnect that has not got the gate.                                  *)
(***************************************************************************)
Leavers(c) == {k \in Calls : call[k].c = c /\ call[k].mode = "disconnect"}
MarksCounted ==
    /\ disconnecting_order \in [Clients -> Nat]
    /\ \A c \in Clients : disconnecting_order[c] = Cardinality(Leavers(c))
DownIsClosed ==
    /\ down \in [Clients -> {"no", "alone", "overlapped"}]
    /\ order_closed \in [Clients -> BOOLEAN]
    /\ \A c \in Clients : down[c] = "alone" => order_closed[c]
AwaitedAtGate(c) ==
    \E k \in Calls : call[k].c = c /\ call[k].step = "disc_gate"
ReadersAwaited ==
    \A c \in Clients : down[c] = "alone" /\ Reading(c) => AwaitedAtGate(c)
DownInv == MarksCounted /\ DownIsClosed /\ ReadersAwaited

(* A call that stays a disconnect of its session, or stays something else. *)
LEMMA MarksKept ==
    ASSUME MarksCounted, NEW k \in Calls,
           \A l \in Calls \ {k} : call'[l] = call[l],
           call[k].mode = "disconnect" <=> call'[k].mode = "disconnect",
           call[k].mode = "disconnect" => call'[k].c = call[k].c,
           disconnecting_order' = disconnecting_order
    PROVE  MarksCounted'
<1>1. \A c : Leavers(c)' = Leavers(c) BY DEF Leavers
<1> QED BY <1>1 DEF MarksCounted

(* A disconnect that is over drops its mark. *)
LEMMA MarkDropped ==
    ASSUME MarksCounted, NEW k \in Calls, NEW c \in Clients, call[k].c = c,
           \A l \in Calls \ {k} : call'[l] = call[l],
           call[k].mode = "disconnect", call'[k].mode # "disconnect",
           disconnecting_order' = [disconnecting_order EXCEPT ![c] = @ - 1]
    PROVE  MarksCounted'
<1>1. IsFiniteSet(Leavers(c)) /\ k \in Leavers(c)
  BY CallsAssumption, FS_Subset DEF Leavers
<1>2. Leavers(c)' = Leavers(c) \ {k} BY DEF Leavers
<1>3. \A d \in Clients \ {c} : Leavers(d)' = Leavers(d) BY DEF Leavers
<1>4. /\ Cardinality(Leavers(c) \ {k}) = Cardinality(Leavers(c)) - 1
      /\ Cardinality(Leavers(c) \ {k}) \in Nat
  BY <1>1, FS_RemoveElement, FS_Subset, FS_CardinalityType
<1>5. /\ disconnecting_order'[c] = disconnecting_order[c] - 1
      /\ \A d \in Clients \ {c} :
           disconnecting_order'[d] = disconnecting_order[d]
      /\ DOMAIN disconnecting_order' = Clients
      /\ disconnecting_order' = [d \in Clients |-> disconnecting_order'[d]]
  BY DEF MarksCounted
<1>6. disconnecting_order'[c] = Cardinality(Leavers(c)')
  BY <1>2, <1>4, <1>5 DEF MarksCounted
<1>7. disconnecting_order'[c] \in Nat BY <1>2, <1>4, <1>6
<1>8. disconnecting_order' \in [Clients -> Nat]
  BY <1>5, <1>7 DEF MarksCounted
<1>9. \A d \in Clients : disconnecting_order'[d] = Cardinality(Leavers(d)')
  BY <1>3, <1>5, <1>6 DEF MarksCounted
<1> QED BY <1>8, <1>9 DEF MarksCounted

(* A disconnect that starts leaves one mark more. *)
LEMMA MarkSet ==
    ASSUME MarksCounted, NEW k \in Calls, NEW c \in Clients,
           \A l \in Calls \ {k} : call'[l] = call[l],
           call[k].mode # "disconnect",
           call'[k].mode = "disconnect" /\ call'[k].c = c,
           disconnecting_order' = [disconnecting_order EXCEPT ![c] = @ + 1]
    PROVE  MarksCounted'
<1>1. IsFiniteSet(Leavers(c)) /\ k \notin Leavers(c)
  BY CallsAssumption, FS_Subset DEF Leavers
<1>2. Leavers(c)' = Leavers(c) \cup {k} BY DEF Leavers
<1>3. \A d \in Clients \ {c} : Leavers(d)' = Leavers(d) BY DEF Leavers
<1>4. Cardinality(Leavers(c) \cup {k}) = Cardinality(Leavers(c)) + 1
  BY <1>1, FS_AddElement
<1>5. /\ disconnecting_order'[c] = disconnecting_order[c] + 1
      /\ \A d \in Clients \ {c} :
           disconnecting_order'[d] = disconnecting_order[d]
      /\ disconnecting_order' \in [Clients -> Nat]
  BY DEF MarksCounted
<1>6. disconnecting_order'[c] = Cardinality(Leavers(c)')
  BY <1>2, <1>4, <1>5 DEF MarksCounted
<1>7. \A d \in Clients : disconnecting_order'[d] = Cardinality(Leavers(d)')
  BY <1>3, <1>5, <1>6 DEF MarksCounted
<1> QED BY <1>5, <1>7 DEF MarksCounted

(***************************************************************************)
(* A disconnect leaves the gate's queue only when no command is past its    *)
(* check, and a command passes its check only in a session that is open.    *)
(***************************************************************************)
LEMMA AwaitedKept ==
    ASSUME ReadersAwaited, NEW k \in Calls,
           \A l \in Calls \ {k} : call'[l] = call[l],
           \A c \in Clients : down'[c] = "alone" => down[c] = "alone",
           call[k].step = "disc_gate" =>
             \/ call'[k].step = "disc_gate" /\ call'[k].c = call[k].c
             \/ ~Reading(call[k].c),
           call'[k].step \in AdmittedSteps =>
             /\ call'[k].c = call[k].c
             /\ call[k].step \in AdmittedSteps \/ down[call[k].c] # "alone"
    PROVE  ReadersAwaited'
<1> SUFFICES ASSUME NEW c \in Clients, down'[c] = "alone", Reading(c)'
             PROVE  AwaitedAtGate(c)'
  BY DEF ReadersAwaited
<1>1. down[c] = "alone" OBVIOUS
<1>2. Reading(c)
  <2>1. PICK l \in Calls : call'[l].c = c /\ call'[l].step \in AdmittedSteps
    BY DEF Reading
  <2>2. CASE l = k BY <1>1, <2>1, <2>2 DEF Reading
  <2>3. CASE l # k BY <2>1, <2>3 DEF Reading
  <2> QED BY <2>2, <2>3
<1>3. PICK m \in Calls : call[m].c = c /\ call[m].step = "disc_gate"
  BY <1>1, <1>2 DEF ReadersAwaited, AwaitedAtGate
<1> QED BY <1>2, <1>3 DEF AwaitedAtGate

(* Opening the plant again opens the session, and says so in the history. *)
LEMMA ReopenKeepsDown ==
    ASSUME DownIsClosed, NEW c \in Clients, Reopened(c)
    PROVE  /\ DownIsClosed' /\ disconnecting_order' = disconnecting_order
           /\ \A d \in Clients : down'[d] = "alone" => down[d] = "alone"
<1>1. /\ order_closed' = [order_closed EXCEPT ![c] = FALSE]
      /\ down' = [down EXCEPT ![c] = IF @ = "no" \/ disconnecting_order[c] = 0
                                     THEN "no" ELSE "overlapped"]
      /\ disconnecting_order' = disconnecting_order
  BY DEF Reopened
<1>2. down'[c] # "alone" /\ \A d \in Clients \ {c} : down'[d] = down[d]
  BY <1>1 DEF DownIsClosed
<1>3. \A d \in Clients \ {c} : order_closed'[d] = order_closed[d]
  BY <1>1 DEF DownIsClosed
<1>4. /\ down' \in [Clients -> {"no", "alone", "overlapped"}]
      /\ order_closed' \in [Clients -> BOOLEAN]
  BY <1>1 DEF DownIsClosed
<1> QED BY <1>1, <1>2, <1>3, <1>4 DEF DownIsClosed

(* The steps of the calls that do not leave the plant. *)
Leaving == LeaveSteps \cup {"disc_gate", "td_gate"}
(* A step outside disconnect and leave, which at most reopens a session, keeps DownInv. *)
LEMMA PlainKeepsDown ==
    ASSUME LocksInv, LocksInv', DownInv, NEW k \in Calls,
           \A l \in Calls \ {k} : call'[l] = call[l],
           call[k].step \notin Leaving, call'[k].step \notin Leaving,
           \/ UNCHANGED <<order_closed, disconnecting_order, down>>
           \/ \E c \in Clients : Reopened(c),
           call'[k].step \in AdmittedSteps =>
             /\ call'[k].c = call[k].c
             /\ call[k].step \in AdmittedSteps \/ down[call[k].c] # "alone"
    PROVE  DownInv'
<1>1. call[k].mode # "disconnect" /\ call'[k].mode # "disconnect"
  <2>1. Fits(call[k]) /\ Fits(call'[k]) BY DEF LocksInv, CallsTyped, Fits
  <2> QED BY <2>1 DEF Fits, Leaving
<1>2. call[k].step # "disc_gate" BY DEF Leaving
<1>3. /\ DownIsClosed' /\ disconnecting_order' = disconnecting_order
      /\ \A d \in Clients : down'[d] = "alone" => down[d] = "alone"
  <2>1. CASE UNCHANGED <<order_closed, disconnecting_order, down>>
    BY <2>1 DEF DownInv, DownIsClosed
  <2>2. CASE \E c \in Clients : Reopened(c)
    BY <2>2, ReopenKeepsDown DEF DownInv
  <2> QED BY <2>1, <2>2
<1>4. MarksCounted' BY <1>1, <1>3, MarksKept DEF DownInv
<1>5. ReadersAwaited' BY <1>2, <1>3, AwaitedKept DEF DownInv
<1> QED BY <1>3, <1>4, <1>5 DEF DownInv

(* Subscribe, ensure and place are such steps. *)
LEMMA PlainStepsKeepDown ==
    ASSUME LocksInv, LocksInv', DownInv, NEW k \in Calls,
           \/ SubEnter(k) \/ SubNote(k)
           \/ \E good \in SUBSET Intents : SubVenue(k, good)
           \/ Rollback(k) \/ RbVenue(k) \/ RbRenote(k)
           \/ EnsEnter(k) \/ \E ok \in BOOLEAN : EnsVenue(k, ok)
           \/ PlaceGate(k) \/ PlaceSend(k) \/ PlaceRefused(k) \/ PlaceEnd(k)
    PROVE  DownInv'
<1> DEFINE c == call[k].c
<1>1. call[k].step \in {"sub_gate", "sub_topic", "sub_venue", "rollback",
        "rb_venue", "rb_renote", "ens_gate", "ens_venue", "pl_gate",
        "pl_venue", "pl_send"}
  BY DEF SubEnter, SubNote, SubVenue, Rollback, RbVenue, RbRenote, EnsEnter,
         EnsVenue, PlaceGate, PlaceSend, PlaceRefused, PlaceEnd
<1>2. call[k].step \notin Leaving BY <1>1 DEF Leaving, LeaveSteps
<1>3. c \in Clients
  <2>1. Fits(call[k]) BY DEF LocksInv, CallsTyped
  <2> QED BY <1>1, <2>1 DEF Fits
<1>4. \/ UNCHANGED <<order_closed, disconnecting_order, down>>
      \/ \E d \in Clients : Reopened(d)
  <2>1. UNCHANGED sessionVars \/ Reopened(c)
    BY DEF SubEnter, SubNote, SubVenue, Rollback, RbVenue, RbRenote, EnsEnter,
           EnsVenue, PlaceGate, PlaceSend, PlaceRefused, PlaceEnd
  <2> QED BY <1>3, <2>1 DEF sessionVars
<1>5. CASE Done(k)
  <2>1. call'[k] = Idle /\ \A l \in Calls \ {k} : call'[l] = call[l]
    BY <1>5, AfterDone
  <2>2. call'[k].step = "idle" BY <2>1 DEF Idle
  <2> QED BY <1>2, <1>4, <2>1, <2>2, PlainKeepsDown
        DEF Leaving, LeaveSteps, AdmittedSteps
<1>6. ASSUME NEW s \in {"rollback", "rb_venue", "rb_renote", "ens_venue",
                        "pl_venue", "pl_send"}, Goto(k, s),
             s = "pl_venue" => PlaceGate(k), s = "pl_send" => PlaceSend(k)
      PROVE  DownInv'
  <2>1. s \in Steps /\ s \notin Leaving
    BY DEF Steps, GateSteps, AdmittedSteps, Leaving, LeaveSteps
  <2>2. /\ call'[k].step = s /\ call'[k].c = c
        /\ \A l \in Calls \ {k} : call'[l] = call[l]
    BY <1>6, <2>1, AfterGoto
  <2>3. s \in AdmittedSteps =>
          call[k].step \in AdmittedSteps \/ down[c] # "alone"
    <3>1. CASE s = "pl_venue"
      <4>1. ~order_closed[c]
        <5>1. PlaceGate(k) BY <1>6, <3>1
        <5>2. ~Done(k) BY <2>2, <3>1, AfterDone DEF Idle
        <5> QED BY <5>1, <5>2 DEF PlaceGate
      <4> QED BY <1>3, <4>1 DEF DownInv, DownIsClosed
    <3>2. CASE s = "pl_send"
      BY <1>6, <3>2 DEF PlaceSend, AdmittedSteps
    <3> QED BY <3>1, <3>2 DEF AdmittedSteps
  <2> QED BY <1>2, <1>4, <2>1, <2>2, <2>3, PlainKeepsDown
<1>7. ASSUME NEW s \in {"sub_topic", "sub_venue"}, call'[k].step = s,
             \A l \in Calls \ {k} : call'[l] = call[l]
      PROVE  DownInv'
  BY <1>2, <1>4, <1>7, PlainKeepsDown DEF Leaving, LeaveSteps, AdmittedSteps
<1>8. call \in [Calls -> CallRecord] BY DEF LocksInv, CallsTyped
<1>9. CASE SubEnter(k)
  <2>1. Done(k) \/ call' = [call EXCEPT ![k].step = "sub_topic",
                                        ![k].need = call[k].need \ has[c]]
    BY <1>9 DEF SubEnter
  <2>2. Done(k) \/ /\ call'[k].step = "sub_topic"
                   /\ \A l \in Calls \ {k} : call'[l] = call[l]
    BY <1>8, <2>1 DEF CallRecord
  <2> QED BY <1>5, <1>7, <2>2
<1>10. CASE SubNote(k)
  <2>1. Done(k) \/ call' = [call EXCEPT ![k].step = "sub_venue",
          ![k].first = call[k].need \ Held,
          ![k].mode = IF c \in subscribed THEN "had" ELSE "new"]
    BY <1>10 DEF SubNote
  <2>2. Done(k) \/ /\ call'[k].step = "sub_venue"
                   /\ \A l \in Calls \ {k} : call'[l] = call[l]
    BY <1>8, <2>1 DEF CallRecord
  <2> QED BY <1>5, <1>7, <2>2
<1> QED BY <1>5, <1>6, <1>9, <1>10
      DEF SubVenue, Rollback, RbVenue, RbRenote, EnsEnter, EnsVenue, PlaceGate,
          PlaceSend, PlaceRefused, PlaceEnd

(* Leaving the plant: the mark is there until the call ends. *)
LEMMA LeaveKeepsDown ==
    ASSUME LocksInv, DownInv, NEW k \in Calls,
           \/ LeaveEnter(k) \/ Leave(k) \/ LeaveVenue(k) \/ LeaveRenote(k)
           \/ \E ok \in BOOLEAN : Reseat(k, ok)
    PROVE  DownInv'
<1> DEFINE c == call[k].c
<1>1. /\ call[k] \in CallRecord /\ Fits(call[k])
      /\ call \in [Calls -> CallRecord]
  BY CallForms DEF LocksInv, CallsTyped
<1>2. /\ call[k].step \in LeaveSteps \cup {"disc_gate", "td_gate"}
      /\ call[k].step = "disc_gate" => ~Reading(c)
  BY DEF LeaveEnter, Leave, LeaveVenue, LeaveRenote, Reseat, LeaveSteps,
         GateFree
<1>3. c \in Clients /\ call[k].mode \in {"disconnect", "teardown"}
  BY <1>1, <1>2 DEF Fits, LeaveSteps
<1>4. /\ down' = down
      /\ order_closed' = order_closed \/
           order_closed' = [order_closed EXCEPT ![c] = TRUE]
  BY DEF LeaveEnter, Leave, LeaveVenue, LeaveRenote, Reseat, EndLeave,
         FailLeave, GoOn
<1>5. DownIsClosed' BY <1>3, <1>4 DEF DownInv, DownIsClosed
<1>6. CASE Done(k) /\ Closed(k)
  <2>1. call'[k] = Idle /\ \A l \in Calls \ {k} : call'[l] = call[l]
    BY <1>6, AfterDone
  <2>2. call'[k].mode = "none" /\ call'[k].step = "idle" BY <2>1 DEF Idle
  <2>3. MarksCounted'
    <3>1. CASE call[k].mode = "teardown"
      <4>1. disconnecting_order' = disconnecting_order
        BY <1>6, <3>1 DEF Closed
      <4> QED BY <2>1, <2>2, <3>1, <4>1, MarksKept DEF DownInv
    <3>2. CASE call[k].mode = "disconnect"
      <4>1. disconnecting_order' = [disconnecting_order EXCEPT ![c] = @ - 1]
        BY <1>6, <3>2 DEF Closed
      <4> QED BY <1>3, <2>1, <2>2, <3>2, <4>1, MarkDropped DEF DownInv
    <3> QED BY <1>3, <3>1, <3>2
  <2>4. ReadersAwaited'
    BY <1>2, <1>4, <2>1, <2>2, AwaitedKept DEF DownInv, AdmittedSteps
  <2> QED BY <1>5, <2>3, <2>4 DEF DownInv
<1>7. ASSUME NEW s \in {"lv_topic", "lv_venue", "reseat", "lv_renote"},
             call'[k].step = s, call'[k].c = c, call'[k].mode = call[k].mode,
             \A l \in Calls \ {k} : call'[l] = call[l],
             disconnecting_order' = disconnecting_order
      PROVE  DownInv'
  <2>1. MarksCounted' BY <1>7, MarksKept DEF DownInv
  <2>2. ReadersAwaited'
    BY <1>2, <1>4, <1>7, AwaitedKept DEF DownInv, AdmittedSteps
  <2> QED BY <1>5, <2>1, <2>2 DEF DownInv
<1>8. ASSUME NEW s \in {"lv_topic", "lv_renote"}, GoOn(k, s) PROVE DownInv'
  <2>1. s \in Steps BY DEF Steps, GateSteps
  <2>2. /\ call'[k].step = s /\ call'[k].c = c /\ call'[k].mode = call[k].mode
        /\ \A l \in Calls \ {k} : call'[l] = call[l]
    BY <1>8, <2>1, AfterGoto DEF GoOn
  <2>3. disconnecting_order' = disconnecting_order BY <1>8 DEF GoOn
  <2> QED BY <1>7, <2>2, <2>3
<1>9. CASE LeaveEnter(k)
  BY <1>6, <1>8, <1>9 DEF LeaveEnter, EndLeave
<1>10. CASE Leave(k)
  <2> DEFINE last == {i \in has[c] : refs[i] = 1}
             to == IF "order" \in last THEN "lv_venue" ELSE "reseat"
  <2>1. CASE EndLeave(k) BY <1>6, <2>1 DEF EndLeave
  <2>2. CASE /\ call' = [call EXCEPT ![k].need = has[c], ![k].step = to]
             /\ disconnecting_order' = disconnecting_order
    <3>1. /\ call'[k].step = to /\ call'[k].c = c
          /\ call'[k].mode = call[k].mode
          /\ \A l \in Calls \ {k} : call'[l] = call[l]
      BY <1>1, <2>2 DEF CallRecord
    <3>2. to \in {"lv_venue", "reseat"} OBVIOUS
    <3> HIDE DEF to
    <3> QED BY <1>7, <2>2, <3>1, <3>2
  <2> QED BY <1>10, <2>1, <2>2 DEF Leave
<1>11. CASE LeaveVenue(k)
  BY <1>6, <1>8, <1>11 DEF LeaveVenue, EndLeave
<1>12. CASE LeaveRenote(k)
  BY <1>6, <1>12 DEF LeaveRenote, FailLeave
<1>13. ASSUME NEW ok \in BOOLEAN, Reseat(k, ok) PROVE DownInv'
  BY <1>6, <1>13 DEF Reseat, EndLeave, FailLeave
<1> QED BY <1>9, <1>10, <1>11, <1>12, <1>13

(* A disconnect closes the session at once, and waits for its commands. *)
LEMMA StartKeepsDown ==
    ASSUME LocksInv, DownInv, NEW k \in Calls, NEW c \in Clients,
           CallStart(k, c)
    PROVE  DownInv'
<1>1. call[k] = Idle
  BY DEF CallStart, SubscribeOrders, EnsureOrderPlant, DisconnectOrderPlant,
         Disconnect, PlaceOrder
<1>2. call[k].step = "idle" /\ call[k].mode = "none" BY <1>1 DEF Idle
<1>3. \E s \in {"sub_gate", "ens_gate", "disc_gate", "td_gate", "pl_gate"},
         n \in SUBSET Intents, m \in Modes :
        /\ Begin(k, c, s, n, m)
        /\ m = "disconnect" <=> DisconnectOrderPlant(k, c)
        /\ DisconnectOrderPlant(k, c) => s = "disc_gate"
  <2>1. ASSUME NEW b \in BOOLEAN, SubscribeOrders(k, c, b)
        PROVE  Begin(k, c, "sub_gate", IF b THEN Intents ELSE {"order"}, "none")
    BY <2>1 DEF SubscribeOrders
  <2>2. \A b \in BOOLEAN :
          (IF b THEN Intents ELSE {"order"}) \in SUBSET Intents
    BY DEF Intents
  <2>3. EnsureOrderPlant(k, c) => Begin(k, c, "ens_gate", {}, "none")
    BY DEF EnsureOrderPlant
  <2>4. DisconnectOrderPlant(k, c) => Begin(k, c, "disc_gate", {}, "disconnect")
    BY DEF DisconnectOrderPlant
  <2>5. Disconnect(k, c) => Begin(k, c, "td_gate", {}, "teardown")
    BY DEF Disconnect
  <2>6. PlaceOrder(k, c) => Begin(k, c, "pl_gate", {}, "none")
    BY DEF PlaceOrder
  <2>7. \A s, n, m : Begin(k, c, s, n, m) => call'[k].mode = m
    BY DEF Begin, LocksInv, CallsTyped
  <2>8. ASSUME NEW s \in {"sub_gate", "ens_gate", "td_gate", "pl_gate"},
               NEW n \in SUBSET Intents, NEW m \in Modes \ {"disconnect"},
               Begin(k, c, s, n, m)
        PROVE  /\ ~DisconnectOrderPlant(k, c)
               /\ m = "disconnect" <=> DisconnectOrderPlant(k, c)
    BY <2>4, <2>7, <2>8
  <2>9. CASE DisconnectOrderPlant(k, c)
    BY <2>4, <2>9 DEF Modes
  <2>10. CASE \E b \in BOOLEAN : SubscribeOrders(k, c, b)
    BY <2>1, <2>2, <2>8, <2>10 DEF Modes
  <2>11. CASE EnsureOrderPlant(k, c) BY <2>3, <2>8, <2>11 DEF Modes
  <2>12. CASE Disconnect(k, c) BY <2>5, <2>8, <2>12 DEF Modes
  <2>13. CASE PlaceOrder(k, c) BY <2>6, <2>8, <2>13 DEF Modes
  <2> QED BY <2>9, <2>10, <2>11, <2>12, <2>13 DEF CallStart
<1>4. PICK s \in {"sub_gate", "ens_gate", "disc_gate", "td_gate", "pl_gate"},
           n \in SUBSET Intents, m \in Modes :
        /\ Begin(k, c, s, n, m)
        /\ m = "disconnect" <=> DisconnectOrderPlant(k, c)
        /\ DisconnectOrderPlant(k, c) => s = "disc_gate"
  BY <1>3
<1> DEFINE r == [step |-> s, c |-> c, need |-> n, first |-> {}, mode |-> m]
<1>5. r \in CallRecord /\ call' = [call EXCEPT ![k] = r]
  <2>1. s \in Steps BY DEF Steps
  <2> QED BY <1>4, <2>1, CallForms
<1>6. r.step = s /\ r.c = c /\ r.mode = m OBVIOUS
<1>7. call'[k] = r /\ \A l \in Calls \ {k} : call'[l] = call[l]
  BY <1>5, CallAfter
<1> HIDE DEF r
<1>8. call'[k].step = s /\ call'[k].c = c /\ call'[k].mode = m BY <1>6, <1>7
<1>9. s \notin AdmittedSteps BY DEF AdmittedSteps
<1>10. CASE DisconnectOrderPlant(k, c)
  <2>1. /\ disconnecting_order' = [disconnecting_order EXCEPT ![c] = @ + 1]
        /\ order_closed' = [order_closed EXCEPT ![c] = TRUE]
        /\ down' = [down EXCEPT ![c] = "alone"]
    BY <1>10 DEF DisconnectOrderPlant
  <2>2. MarksCounted' BY <1>2, <1>4, <1>7, <1>8, <1>10, <2>1, MarkSet DEF DownInv
  <2>3. DownIsClosed' BY <2>1 DEF DownInv, DownIsClosed
  <2>4. ReadersAwaited'
    <3> SUFFICES ASSUME NEW d \in Clients, down'[d] = "alone", Reading(d)'
                 PROVE  AwaitedAtGate(d)'
      BY DEF ReadersAwaited
    <3>1. CASE d = c BY <1>4, <1>8, <1>10, <3>1 DEF AwaitedAtGate
    <3>2. CASE d # c
      <4>1. down[d] = "alone" BY <2>1, <3>2 DEF DownInv, DownIsClosed
      <4>2. Reading(d) BY <1>7, <1>8, <1>9 DEF Reading
      <4>3. PICK l \in Calls : call[l].c = d /\ call[l].step = "disc_gate"
        BY <4>1, <4>2 DEF DownInv, ReadersAwaited, AwaitedAtGate
      <4> QED BY <1>2, <1>7, <4>3 DEF AwaitedAtGate
    <3> QED BY <3>1, <3>2
  <2> QED BY <2>2, <2>3, <2>4 DEF DownInv
<1>11. CASE ~DisconnectOrderPlant(k, c)
  <2>1. UNCHANGED <<order_closed, disconnecting_order, down>>
    BY <1>11 DEF CallStart, SubscribeOrders, EnsureOrderPlant, Disconnect,
                 PlaceOrder, sessionVars
  <2>2. MarksCounted' BY <1>2, <1>4, <1>7, <1>8, <1>11, <2>1, MarksKept DEF DownInv
  <2>3. DownIsClosed' BY <2>1 DEF DownInv, DownIsClosed
  <2>4. ReadersAwaited' BY <1>2, <1>7, <1>8, <1>9, <2>1, AwaitedKept DEF DownInv
  <2> QED BY <2>2, <2>3, <2>4 DEF DownInv
<1> QED BY <1>10, <1>11

(* DownInv holds initially. *)
LEMMA DownInit == Init => DownInv
<1> SUFFICES ASSUME Init PROVE DownInv OBVIOUS
<1>1. \A c : Leavers(c) = {} BY DEF Init, Idle, Leavers
<1>2. Cardinality({}) = 0 BY FS_EmptySet
<1>3. MarksCounted BY <1>1, <1>2 DEF Init, MarksCounted
<1> QED BY <1>3 DEF Init, DownInv, DownIsClosed, ReadersAwaited

(* DownInv depends on the calls and the marks of the sessions only. *)
LEMMA DownSame ==
    ASSUME DownInv, call' = call, order_closed' = order_closed,
           disconnecting_order' = disconnecting_order, down' = down
    PROVE  DownInv'
BY DEF DownInv, MarksCounted, Leavers, DownIsClosed, ReadersAwaited, Reading,
       AwaitedAtGate

(* DownInv is inductive, given LocksInv. *)
LEMMA DownStep == LocksInv /\ LocksInv' /\ DownInv /\ [Next]_vars => DownInv'
<1> SUFFICES ASSUME LocksInv, LocksInv', DownInv, [Next]_vars PROVE DownInv'
  OBVIOUS
<1>1. ASSUME NEW k \in Calls, CallStep(k) PROVE DownInv'
  BY <1>1, PlainStepsKeepDown, LeaveKeepsDown DEF CallStep
<1>2. ASSUME NEW k \in Calls, NEW c \in Clients, CallStart(k, c) PROVE DownInv'
  BY <1>2, StartKeepsDown
<1>3. CASE PumpStep BY <1>3, PumpMovesNoCall, DownSame DEF sessionVars
<1>4. CASE UNCHANGED vars BY <1>4, DownSame DEF vars, sessionVars
<1> QED BY <1>1, <1>2, <1>3, <1>4 DEF Next

(* A command past its check in a closed session is still being waited for. *)
LEMMA DownInvStays == LocksInv /\ DownInv => StaysDown
<1> SUFFICES ASSUME LocksInv, DownInv, NEW c \in Clients, Admitted(c),
                    down[c] = "alone"
             PROVE  FALSE
  BY DEF StaysDown
<1>1. disconnecting_order[c] = 0 /\ Reading(c) BY DEF Admitted
<1>2. PICK k \in Calls : call[k].c = c /\ call[k].step = "disc_gate"
  BY <1>1 DEF DownInv, ReadersAwaited, AwaitedAtGate
<1>3. call[k].mode = "disconnect" BY <1>2 DEF LocksInv, CallsTyped, Fits
<1>4. IsFiniteSet(Leavers(c)) /\ k \in Leavers(c)
  BY <1>2, <1>3, CallsAssumption, FS_Subset DEF Leavers
<1>5. Cardinality(Leavers(c)) # 0 BY <1>4, FS_EmptySet
<1> QED BY <1>1, <1>5 DEF DownInv, MarksCounted

-----------------------------------------------------------------------------
(***************************************************************************)
(* Every intent that is held is streamed; or the call that introduced it is *)
(* at the venue with it, or is taking it back; or recovery has it in its    *)
(* plan, or has the plan still to make.  Excepted is a disconnect that      *)
(* timed out, and a re-seat whose failure asked for the login's rebuild.    *)
(* The venue streams only on a plant that is up and takes commands.         *)
(***************************************************************************)
PumpRecord ==
    [step : {"serve", "notify", "rebuild", "plan", "pass", "joins", "finish",
             "failed"},
     scope : Scopes, pending : SUBSET Intents, attempt : Nat, pass : Nat]
StreamTyped ==
    /\ pump \in PumpRecord /\ joined \in SUBSET Intents
    /\ plant \in BOOLEAN /\ venue_closed \in BOOLEAN
InHand(i) ==
    \E k \in Calls : call[k].step \in {"sub_venue", "rollback"}
                     /\ i \in call[k].first
Planned ==
    IF \/ pump.step = "failed"
       \/ pump.step \in {"notify", "rebuild", "plan"} /\ pump.scope # "other"
    THEN Intents
    ELSE IF pump.step \in {"pass", "joins"} THEN pump.pending ELSE {}
Covered ==
    stuck \/ force_reconnect
    \/ \A i \in Intents : refs[i] > 0 => InHand(i) \/ i \in joined \cup Planned
StreamsOnOpenPlant == joined # {} => plant /\ ~venue_closed
StreamInv == StreamTyped /\ Covered /\ StreamsOnOpenPlant

(* Whatever is not covered before is not covered after only if it is new. *)
LEMMA CoverKept ==
    ASSUME Covered, pump' = pump, stuck' = stuck,
           force_reconnect' = force_reconnect,
           \A i \in Intents :
             refs'[i] > 0 => \/ InHand(i)' \/ i \in joined'
                             \/ /\ refs[i] > 0 /\ i \notin joined
                                /\ ~InHand(i)
    PROVE  Covered'
<1>1. Planned' = Planned BY DEF Planned
<1> QED BY <1>1 DEF Covered

(* A call that is not at the venue takes nothing out of hand. *)
LEMMA HandKept ==
    ASSUME NEW k \in Calls, call[k].step \notin {"sub_venue", "rollback"},
           \A l \in Calls \ {k} : call'[l] = call[l], NEW i, InHand(i)
    PROVE  InHand(i)'
BY DEF InHand

(* What is in hand is in the hand of the holder of the topic lock. *)
LEMMA HandIsTopic ==
    ASSUME LocksInv, NEW k \in Calls, call[k].step \in TopicSteps,
           NEW i, InHand(i)
    PROVE  call[k].step \in {"sub_venue", "rollback"} /\ i \in call[k].first
<1>1. PICK l \in Calls : call[l].step \in {"sub_venue", "rollback"}
                         /\ i \in call[l].first
  BY DEF InHand
<1>2. l = k BY <1>1 DEF LocksInv, TopicExcludes, TopicSteps
<1> QED BY <1>1, <1>2

(* A step that leaves intents, streams and recovery alone. *)
LEMMA AsideKeepsStreams ==
    ASSUME StreamInv, NEW k \in Calls,
           call[k].step \notin {"sub_venue", "rollback"},
           \A l \in Calls \ {k} : call'[l] = call[l],
           refs' = refs, pump' = pump, stuck' = stuck, joined' = joined,
           force_reconnect' = force_reconnect,
           plant' \in BOOLEAN, venue_closed' \in BOOLEAN,
           plant => plant', venue_closed' => venue_closed
    PROVE  StreamInv'
<1>1. Covered' BY HandKept, CoverKept DEF StreamInv
<1>2. StreamTyped' BY DEF StreamInv, StreamTyped
<1>3. StreamsOnOpenPlant' BY DEF StreamInv, StreamsOnOpenPlant
<1> QED BY <1>1, <1>2, <1>3 DEF StreamInv

(* Any update of one call leaves the others alone. *)
LEMMA StartChangesOne ==
    ASSUME LocksInv, NEW k \in Calls, NEW c \in Clients, CallStart(k, c)
    PROVE  call[k].step = "idle" /\ \A l \in Calls \ {k} : call'[l] = call[l]
<1>1. call[k] = Idle
  BY DEF CallStart, SubscribeOrders, EnsureOrderPlant, DisconnectOrderPlant,
         Disconnect, PlaceOrder
<1>2. \E s, n, m : Begin(k, c, s, n, m)
  BY DEF CallStart, SubscribeOrders, EnsureOrderPlant, DisconnectOrderPlant,
         Disconnect, PlaceOrder
<1>3. \A l \in Calls \ {k} : call'[l] = call[l]
  BY <1>2 DEF Begin, LocksInv, CallsTyped
<1> QED BY <1>1, <1>3 DEF Idle

(* A call that starts touches no stream. *)
LEMMA StartKeepsStreams ==
    ASSUME LocksInv, StreamInv, NEW k \in Calls, NEW c \in Clients,
           CallStart(k, c)
    PROVE  StreamInv'
<1>1. UNCHANGED <<clientVars, venueVars, pumpVars>>
  BY DEF CallStart, SubscribeOrders, EnsureOrderPlant, DisconnectOrderPlant,
         Disconnect, PlaceOrder
<1>2. /\ refs' = refs /\ pump' = pump /\ stuck' = stuck /\ joined' = joined
      /\ force_reconnect' = force_reconnect
      /\ plant' = plant /\ venue_closed' = venue_closed
  BY <1>1 DEF clientVars, venueVars, pumpVars
<1>3. plant \in BOOLEAN /\ venue_closed \in BOOLEAN
  BY DEF StreamInv, StreamTyped
<1> QED BY <1>2, <1>3, StartChangesOne, AsideKeepsStreams

(* Steps that touch neither counts nor joins keep StreamInv. *)
LEMMA CommandKeepsStreams ==
    ASSUME LocksInv, StreamInv, NEW k \in Calls,
           \/ SubEnter(k) \/ LeaveEnter(k)
           \/ EnsEnter(k) \/ \E ok \in BOOLEAN : EnsVenue(k, ok)
           \/ PlaceGate(k) \/ PlaceSend(k) \/ PlaceRefused(k) \/ PlaceEnd(k)
    PROVE  StreamInv'
<1>1. call[k].step \notin {"sub_venue", "rollback"}
  BY DEF SubEnter, LeaveEnter, EnsEnter, EnsVenue, PlaceGate, PlaceSend,
         PlaceRefused, PlaceEnd
<1>2. plant \in BOOLEAN /\ venue_closed \in BOOLEAN
  BY DEF StreamInv, StreamTyped
<1>3. /\ refs' = refs /\ pump' = pump /\ stuck' = stuck /\ joined' = joined
      /\ force_reconnect' = force_reconnect
      /\ plant' \in {plant, TRUE} /\ venue_closed' \in {venue_closed, FALSE}
  BY DEF SubEnter, LeaveEnter, EnsEnter, EnsVenue, PlaceGate, PlaceSend,
         PlaceRefused, PlaceEnd, clientVars, venueVars, pumpVars
<1>4. call \in [Calls -> CallRecord] BY DEF LocksInv, CallsTyped
<1>5. \A l \in Calls \ {k} : call'[l] = call[l]
  <2>1. CASE Done(k) BY <2>1, AfterDone
  <2>2. ASSUME NEW s \in {"lv_topic", "ens_venue", "pl_venue", "pl_send"},
               Goto(k, s)
        PROVE  \A l \in Calls \ {k} : call'[l] = call[l]
    BY <1>4, <2>2 DEF Goto
  <2>3. ASSUME NEW n, call' = [call EXCEPT ![k].step = "sub_topic",
                                           ![k].need = n]
        PROVE  \A l \in Calls \ {k} : call'[l] = call[l]
    BY <1>4, <2>3
  <2> QED BY <2>1, <2>2, <2>3
        DEF SubEnter, LeaveEnter, EnsEnter, EnsVenue, PlaceGate, PlaceSend,
            PlaceRefused, PlaceEnd, EndLeave, GoOn
<1>6. /\ plant' \in BOOLEAN /\ venue_closed' \in BOOLEAN
      /\ (plant => plant') /\ (venue_closed' => venue_closed)
  <2>1. plant' = plant \/ plant' = TRUE BY <1>3
  <2>2. venue_closed' = venue_closed \/ venue_closed' = FALSE BY <1>3
  <2>3. plant' \in BOOLEAN /\ (plant => plant') BY <1>2, <2>1, Zenon
  <2>4. venue_closed' \in BOOLEAN BY <1>2, <2>2, Zenon
  <2>5. venue_closed' => venue_closed
    <3>1. CASE venue_closed' = venue_closed BY <3>1
    <3>2. CASE venue_closed' = FALSE BY <3>2
    <3> QED BY <2>2, <3>1, <3>2
  <2> QED BY <2>3, <2>4, <2>5
<1> QED BY <1>1, <1>3, <1>5, <1>6, AsideKeepsStreams

(* A join leaves a plant that is open under everything that is streamed. *)
LEMMA JoinsKeepPlant ==
    ASSUME StreamInv, NEW good \in SUBSET Intents, Joins(good), pump' \in PumpRecord
    PROVE  /\ StreamTyped' /\ StreamsOnOpenPlant' /\ stuck' = stuck
           /\ joined' = joined \cup good
<1>1. /\ joined' = joined \cup good /\ stuck' = stuck
      /\ plant' = (plant \/ good # {})
      /\ venue_closed' = IF good # {} THEN FALSE ELSE venue_closed
  BY DEF Joins
<1>2. StreamTyped' BY <1>1 DEF StreamInv, StreamTyped
<1>3. StreamsOnOpenPlant'
  <2>1. CASE good # {} BY <1>1, <2>1 DEF StreamsOnOpenPlant
  <2>2. CASE good = {}
    BY <1>1, <2>2 DEF StreamInv, StreamsOnOpenPlant, StreamTyped
  <2> QED BY <2>1, <2>2
<1> QED BY <1>1, <1>2, <1>3

(* A subscribe has what it introduces in hand until the venue streams it. *)
LEMMA SubscribeKeepsStreams ==
    ASSUME LocksInv, HoldInv, StreamInv, NEW k \in Calls,
           SubNote(k) \/ \E good \in SUBSET Intents : SubVenue(k, good)
    PROVE  StreamInv'
<1> DEFINE c == call[k].c
           need == call[k].need
<1>1. /\ call \in [Calls -> CallRecord] /\ call[k] \in CallRecord
      /\ Own(call[k]) /\ refs \in [Intents -> Nat]
  BY CallForms DEF LocksInv, CallsTyped, HoldInv, OwnOK
<1>2. CASE SubNote(k)
  <2> DEFINE first == need \ Held
             mode == IF c \in subscribed THEN "had" ELSE "new"
  <2>1. /\ call[k].step = "sub_topic" /\ TopicFree /\ refs' = Noted(need)
        /\ UNCHANGED <<venueVars, pumpVars>>
    BY <1>2 DEF SubNote
  <2>2. /\ pump' = pump /\ stuck' = stuck /\ joined' = joined
        /\ force_reconnect' = force_reconnect
        /\ plant' = plant /\ venue_closed' = venue_closed
    BY <2>1 DEF venueVars, pumpVars
  <2>3. \A i : ~InHand(i) BY <2>1 DEF InHand, TopicFree, TopicSteps
  <2>4. \A i \in Intents : refs'[i] > 0 => refs[i] > 0 \/ i \in first
    BY <1>1, <2>1 DEF Noted, Held
  <2>5. \A i \in first : InHand(i)'
    <3>1. CASE first = {} BY <3>1
    <3>2. CASE call' = [call EXCEPT ![k].step = "sub_venue", ![k].first = first,
                                    ![k].mode = mode]
      <4>1. call'[k].step = "sub_venue" /\ call'[k].first = first
        BY <1>1, <3>2 DEF CallRecord
      <4> HIDE DEF first
      <4> QED BY <4>1 DEF InHand
    <3> QED BY <1>2, <3>1, <3>2 DEF SubNote
  <2> HIDE DEF first
  <2>6. Covered' BY <2>2, <2>3, <2>4, <2>5, CoverKept DEF StreamInv
  <2> QED BY <2>2, <2>6 DEF StreamInv, StreamTyped, StreamsOnOpenPlant
<1>3. ASSUME NEW good \in SUBSET Intents, SubVenue(k, good) PROVE StreamInv'
  <2>1. /\ call[k].step = "sub_venue" /\ Joins(good)
        /\ UNCHANGED <<clientVars, pumpVars>>
    BY <1>3 DEF SubVenue
  <2>2. /\ refs' = refs /\ pump' = pump /\ force_reconnect' = force_reconnect
    BY <2>1 DEF clientVars, pumpVars
  <2>3. /\ StreamTyped' /\ StreamsOnOpenPlant' /\ stuck' = stuck
        /\ joined' = joined \cup good
    BY <2>1, <2>2, JoinsKeepPlant DEF StreamInv, StreamTyped
  <2>4. ASSUME NEW i, InHand(i) PROVE InHand(i)' \/ i \in joined'
    <3>1. i \in call[k].first BY <2>1, <2>4, HandIsTopic DEF TopicSteps
    <3>2. CASE good = call[k].first BY <2>3, <3>1, <3>2
    <3>3. CASE Goto(k, "rollback")
      <4>1. "rollback" \in Steps BY DEF Steps, GateSteps
      <4>2. call'[k].step = "rollback" /\ call'[k].first = call[k].first
        BY <3>3, <4>1, AfterGoto
      <4> QED BY <3>1, <4>2 DEF InHand
    <3> QED BY <1>3, <3>2, <3>3 DEF SubVenue
  <2>5. \A i \in Intents : i \in joined => i \in joined' BY <2>3
  <2>6. Covered' BY <2>2, <2>3, <2>4, <2>5, CoverKept DEF StreamInv
  <2> QED BY <2>3, <2>6 DEF StreamInv
<1> QED BY <1>2, <1>3

(* When nothing is held, or a timed-out disconnect is known, all is covered. *)
LEMMA NothingToCover ==
    ASSUME stuck' = TRUE \/ force_reconnect' = TRUE
           \/ \A i \in Intents : refs'[i] = 0
    PROVE  Covered'
BY DEF Covered

(* What a disconnect of the plant, done or timed out, leaves behind. *)
LEMMA DisconnectKeepsPlant ==
    ASSUME StreamInv, DisconnectPlant \/ DisconnectTimesOut, pump' = pump
    PROVE  StreamTyped' /\ StreamsOnOpenPlant'
<1>1. CASE DisconnectPlant
  BY <1>1 DEF DisconnectPlant, StreamInv, StreamTyped, StreamsOnOpenPlant
<1>2. CASE DisconnectTimesOut
  BY <1>2 DEF DisconnectTimesOut, StreamInv, StreamTyped, StreamsOnOpenPlant
<1> QED BY <1>1, <1>2

(* A rollback takes back exactly what it had in hand. *)
LEMMA RollbackKeepsStreams ==
    ASSUME LocksInv, HoldInv, StreamInv, NEW k \in Calls,
           Rollback(k) \/ RbVenue(k) \/ RbRenote(k)
    PROVE  StreamInv'
<1> DEFINE need == call[k].need
<1>1. /\ call[k] \in CallRecord /\ Own(call[k]) /\ refs \in [Intents -> Nat]
  BY CallForms DEF LocksInv, CallsTyped, HoldInv, OwnOK
<1>2. UNCHANGED pumpVars BY DEF Rollback, RbVenue, RbRenote
<1>3. pump' = pump /\ force_reconnect' = force_reconnect
  BY <1>2 DEF pumpVars
<1>4. CASE Rollback(k)
  <2>1. /\ call[k].step = "rollback" /\ refs' = Forgotten(need)
        /\ UNCHANGED venueVars
    BY <1>4 DEF Rollback
  <2>2. /\ stuck' = stuck /\ joined' = joined
        /\ plant' = plant /\ venue_closed' = venue_closed
    BY <2>1 DEF venueVars
  <2>3. call[k].first = {i \in need : refs[i] = 1} BY <1>1, <2>1 DEF Own
  <2>4. ASSUME NEW i \in Intents, refs'[i] > 0
        PROVE  refs[i] > 0 /\ ~InHand(i)
    <3>1. refs[i] > 0 BY <1>1, <2>1, <2>4 DEF Forgotten
    <3>2. ~(i \in need /\ refs[i] = 1) BY <1>1, <2>1, <2>4 DEF Forgotten
    <3>3. ~InHand(i) BY <2>1, <2>3, <3>2, HandIsTopic DEF TopicSteps
    <3> QED BY <3>1, <3>3
  <2>5. Covered' BY <1>3, <2>2, <2>4, CoverKept DEF StreamInv
  <2> QED BY <1>3, <2>2, <2>5 DEF StreamInv, StreamTyped, StreamsOnOpenPlant
<1>5. CASE RbVenue(k)
  <2>1. /\ call[k].step = "rb_venue" /\ refs' = refs
        /\ DisconnectPlant \/ DisconnectTimesOut
    BY <1>5 DEF RbVenue
  <2>2. \A i \in Intents : refs'[i] = 0 BY <1>1, <2>1 DEF Own, NothingHeld
  <2> QED BY <1>3, <2>1, <2>2, NothingToCover, DisconnectKeepsPlant
        DEF StreamInv
<1>6. CASE RbRenote(k)
  <2>1. stuck' = TRUE /\ UNCHANGED <<plant, venue_closed, joined>>
    BY <1>6 DEF RbRenote
  <2> QED BY <1>3, <2>1, NothingToCover
        DEF StreamInv, StreamTyped, StreamsOnOpenPlant
<1> QED BY <1>4, <1>5, <1>6

(* Who leaves takes down what nobody holds, or asks for the rebuild. *)
LEMMA LeaveKeepsStreams ==
    ASSUME LocksInv, HoldInv, StreamInv, NEW k \in Calls,
           \/ Leave(k) \/ LeaveVenue(k) \/ LeaveRenote(k)
           \/ \E ok \in BOOLEAN : Reseat(k, ok)
    PROVE  StreamInv'
<1> DEFINE c == call[k].c
<1>1. /\ call[k] \in CallRecord /\ Own(call[k]) /\ refs \in [Intents -> Nat]
  BY CallForms DEF LocksInv, CallsTyped, HoldInv, OwnOK
<1>2. CASE Leave(k)
  <2>1. /\ TopicFree /\ refs' = Forgotten(has[c])
        /\ UNCHANGED <<venueVars, pumpVars>>
    BY <1>2 DEF Leave
  <2>2. /\ pump' = pump /\ stuck' = stuck /\ joined' = joined
        /\ force_reconnect' = force_reconnect
        /\ plant' = plant /\ venue_closed' = venue_closed
    BY <2>1 DEF venueVars, pumpVars
  <2>3. \A i : ~InHand(i) BY <2>1 DEF InHand, TopicFree, TopicSteps
  <2>4. \A i \in Intents : refs'[i] > 0 => refs[i] > 0
    BY <1>1, <2>1 DEF Forgotten
  <2>5. Covered' BY <2>2, <2>3, <2>4, CoverKept DEF StreamInv
  <2> QED BY <2>2, <2>5 DEF StreamInv, StreamTyped, StreamsOnOpenPlant
<1>3. CASE LeaveVenue(k)
  <2>1. /\ call[k].step = "lv_venue" /\ refs' = refs /\ UNCHANGED pumpVars
        /\ DisconnectPlant \/ DisconnectTimesOut
    BY <1>3 DEF LeaveVenue
  <2>2. \A i \in Intents : refs'[i] = 0 BY <1>1, <2>1 DEF Own, NothingHeld
  <2>3. pump' = pump BY <2>1 DEF pumpVars
  <2> QED BY <2>1, <2>2, <2>3, NothingToCover, DisconnectKeepsPlant
        DEF StreamInv
<1>4. CASE LeaveRenote(k)
  <2>1. /\ stuck' = TRUE /\ UNCHANGED <<plant, venue_closed, joined>>
        /\ UNCHANGED pumpVars
    BY <1>4 DEF LeaveRenote
  <2> QED BY <2>1, NothingToCover
        DEF StreamInv, StreamTyped, StreamsOnOpenPlant, pumpVars
<1>5. ASSUME NEW ok \in BOOLEAN, Reseat(k, ok) PROVE StreamInv'
  <2>1. /\ call[k].step = "reseat" /\ refs' = refs /\ pump' = pump
        /\ ok \/ force_reconnect' = TRUE
    BY <1>5 DEF Reseat
  <2>2. refs'["brackets"] = 0 BY <1>1, <2>1 DEF Own
  <2>3. \/ /\ stuck' = TRUE /\ plant' = (plant \/ ok)
           /\ venue_closed' = (venue_closed /\ ~ok)
           /\ joined' = IF ok THEN joined \cup {"order"} ELSE joined
        \/ /\ plant' = ok /\ venue_closed' = ~ok
           /\ joined' = IF ok THEN {"order"} ELSE {}
    BY <1>5 DEF Reseat
  <2>4. StreamTyped' BY <2>1, <2>3 DEF StreamInv, StreamTyped, Intents
  <2>5. StreamsOnOpenPlant'
    BY <2>3 DEF StreamInv, StreamTyped, StreamsOnOpenPlant
  <2>6. Covered'
    <3>1. CASE stuck' = TRUE \/ force_reconnect' = TRUE
      BY <3>1, NothingToCover
    <3>2. CASE joined' = {"order"}
      <4>1. \A i \in Intents : refs'[i] > 0 => i \in joined'
        BY <1>1, <2>2, <3>2 DEF Intents
      <4> QED BY <4>1 DEF Covered
    <3> QED BY <2>1, <2>3, <3>1, <3>2
  <2> QED BY <2>4, <2>5, <2>6 DEF StreamInv
<1> QED BY <1>2, <1>3, <1>4, <1>5

(* Recovery covers all it may have taken down until its plan is done. *)
LEMMA CoveredByPlan ==
    ASSUME Planned' = Intents PROVE Covered'
BY DEF Covered

(* The next attempt has the plan still to make; or recovery has failed. *)
LEMMA NextAttemptPlans ==
    ASSUME NEW scope \in Scopes, NextAttempt(scope), pump \in PumpRecord
    PROVE  /\ pump' \in PumpRecord
           /\ scope # "other" => Planned' = Intents
           /\ Planned' \in {{}, Intents}
<1>1. CASE pump' = [Serving EXCEPT !.step = "rebuild", !.scope = scope,
                                   !.attempt = pump.attempt + 1]
  <2>1. pump' = [step |-> "rebuild", scope |-> scope, pending |-> {},
                 attempt |-> pump.attempt + 1, pass |-> 0]
    BY <1>1 DEF Serving
  <2>2. pump' \in PumpRecord BY <2>1 DEF PumpRecord, Intents
  <2>3. pump'.step = "rebuild" /\ pump'.scope = scope BY <2>1
  <2> QED BY <2>2, <2>3 DEF Planned
<1>2. CASE pump' = [Serving EXCEPT !.step = "failed"]
  <2>1. pump' = [step |-> "failed", scope |-> "other", pending |-> {},
                 attempt |-> 0, pass |-> 0]
    BY <1>2 DEF Serving
  <2>2. pump' \in PumpRecord BY <2>1 DEF PumpRecord, Intents, Scopes
  <2>3. pump'.step = "failed" BY <2>1
  <2> QED BY <2>2, <2>3 DEF Planned
<1> QED BY <1>1, <1>2 DEF NextAttempt

(***************************************************************************)
(* A recovery step that leaves the venue, the marks and the intents alone   *)
(* may drop from its plan only what is streamed or not held.                *)
(***************************************************************************)
LEMMA PlanKept ==
    ASSUME StreamInv, pump' \in PumpRecord, call' = call, refs' = refs,
           UNCHANGED venueVars,
           \/ force_reconnect' = force_reconnect
           \/ Planned' = Intents,
           \A i \in Planned : refs[i] > 0 => i \in Planned'
    PROVE  StreamInv'
<1>1. /\ stuck' = stuck /\ joined' = joined /\ plant' = plant
      /\ venue_closed' = venue_closed
  BY DEF venueVars
<1>2. \A i : InHand(i)' = InHand(i) BY DEF InHand
<1>3. Covered'
  <2>1. CASE Planned' = Intents BY <2>1, CoveredByPlan
  <2>2. CASE force_reconnect' = force_reconnect
    BY <1>1, <1>2, <2>2 DEF StreamInv, Covered
  <2> QED BY <2>1, <2>2
<1> QED BY <1>1, <1>3 DEF StreamInv, StreamTyped, StreamsOnOpenPlant

(* Each step of the recovery pump keeps StreamInv. *)
LEMMA PumpKeepsStreams ==
    ASSUME HoldInv, StreamInv, PumpStep
    PROVE  StreamInv'
<1>1. pump \in PumpRecord BY DEF StreamInv, StreamTyped
<1>2. call' = call /\ refs' = refs BY PumpMovesNoCall DEF clientVars
<1>3. ASSUME NEW scope \in Scopes, Interrupt(scope) PROVE StreamInv'
  <2>1. /\ pump.step = "serve" /\ UNCHANGED venueVars
        /\ pump' = [Serving EXCEPT !.step = "notify", !.scope = scope,
                                   !.attempt = 1]
        /\ force_reconnect' = force_reconnect \/ scope = "login"
    BY <1>3 DEF Interrupt
  <2>2. pump' = [step |-> "notify", scope |-> scope, pending |-> {},
                 attempt |-> 1, pass |-> 0]
    BY <2>1 DEF Serving
  <2>3. pump' \in PumpRecord BY <2>2 DEF PumpRecord, Intents
  <2>4. pump'.step = "notify" /\ pump'.scope = scope BY <2>2
  <2>5. Planned = {} BY <2>1 DEF Planned
  <2>6. scope = "login" => Planned' = Intents BY <2>4 DEF Planned
  <2> QED BY <1>2, <2>1, <2>3, <2>5, <2>6, PlanKept
<1>4. CASE NotifySessions
  <2>1. /\ pump.step = "notify" /\ pump' = [pump EXCEPT !.step = "rebuild"]
        /\ UNCHANGED venueVars /\ force_reconnect' = force_reconnect
    BY <1>4 DEF NotifySessions
  <2>2. pump' \in PumpRecord /\ pump'.step = "rebuild"
        /\ pump'.scope = pump.scope
    BY <1>1, <2>1 DEF PumpRecord
  <2>3. Planned' = Planned BY <2>1, <2>2 DEF Planned
  <2> QED BY <1>2, <2>1, <2>2, <2>3, PlanKept
<1>5. ASSUME NEW ok \in BOOLEAN, Rebuild(ok) PROVE StreamInv'
  <2>1. pump.step = "rebuild" /\ pump.scope \in Scopes
        /\ force_reconnect' = force_reconnect
    BY <1>1, <1>5 DEF Rebuild, PumpRecord
  <2>2. /\ pump' \in PumpRecord
        /\ pump.scope # "other" => Planned' = Intents
    <3>1. CASE ok
      <4>1. pump' = [pump EXCEPT !.step = "plan"] BY <1>5, <3>1 DEF Rebuild
      <4>2. pump' \in PumpRecord /\ pump'.step = "plan"
            /\ pump'.scope = pump.scope
        BY <1>1, <4>1 DEF PumpRecord
      <4> QED BY <4>2 DEF Planned
    <3>2. CASE ~ok
      <4>1. NextAttempt(pump.scope) BY <1>5, <3>2 DEF Rebuild
      <4> QED BY <1>1, <2>1, <4>1, NextAttemptPlans
    <3> QED BY <3>1, <3>2
  <2>3. CASE pump.scope = "other"
    <3>1. UNCHANGED venueVars BY <1>5, <2>3 DEF Rebuild
    <3>2. Planned = {} BY <2>1, <2>3 DEF Planned
    <3> QED BY <1>2, <2>1, <2>2, <3>1, <3>2, PlanKept
  <2>4. CASE pump.scope # "other"
    <3>1. /\ joined' = {} /\ plant' = (pump.scope = "order" /\ ok)
          /\ venue_closed' = IF ok THEN FALSE
                             ELSE pump.scope = "order" \/ venue_closed
      BY <1>5, <2>4 DEF Rebuild
    <3>2. Covered' BY <2>2, <2>4, CoveredByPlan
    <3>3. StreamTyped' BY <2>2, <3>1 DEF StreamInv, StreamTyped
    <3> QED BY <3>1, <3>2, <3>3 DEF StreamInv, StreamsOnOpenPlant
  <2> QED BY <2>3, <2>4
<1>6. CASE Plan
  <2> DEFINE pending == IF pump.scope = "other" THEN {} ELSE Held
  <2>1. /\ pump.step = "plan" /\ UNCHANGED venueVars
        /\ pump' = [pump EXCEPT !.step = "pass", !.pass = 1,
                                !.pending = pending]
        /\ force_reconnect' = force_reconnect
    BY <1>6 DEF Plan
  <2>2. pending \in SUBSET Intents BY DEF Held
  <2>3. pump' \in PumpRecord /\ pump'.step = "pass"
        /\ pump'.pending = pending
    BY <1>1, <2>1, <2>2 DEF PumpRecord
  <2>4. Planned' = pending BY <2>3 DEF Planned
  <2>5. \A i \in Planned : refs[i] > 0 => i \in pending
    BY <2>1 DEF Planned, Held
  <2> QED BY <1>2, <2>1, <2>3, <2>4, <2>5, PlanKept
<1>7. CASE PassStart
  <2>1. /\ pump.step = "pass" /\ UNCHANGED venueVars
        /\ pump' = [pump EXCEPT !.step = "joins", !.pending = StillHeld]
        /\ force_reconnect' = force_reconnect
    BY <1>7 DEF PassStart
  <2>2. pump' \in PumpRecord /\ pump'.step = "joins"
        /\ pump'.pending = StillHeld
    BY <1>1, <2>1 DEF PumpRecord, StillHeld
  <2>3. Planned' = StillHeld /\ Planned = pump.pending
    BY <2>1, <2>2 DEF Planned
  <2>4. \A i \in Planned : refs[i] > 0 => i \in Planned'
    BY <1>1, <2>3 DEF StillHeld, Held, PumpRecord
  <2> QED BY <1>2, <2>1, <2>2, <2>4, PlanKept
<1>8. ASSUME NEW good \in SUBSET Intents, PassJoins(good) PROVE StreamInv'
  <2>1. /\ pump.step = "joins" /\ Joins(good)
        /\ force_reconnect' = force_reconnect
    BY <1>8 DEF PassJoins
  <2>2. Planned = pump.pending BY <2>1 DEF Planned
  <2>3. /\ pump' \in PumpRecord
        /\ \A i \in Planned : i \in good \/ i \in Planned'
    <3>1. CASE /\ good = pump.pending
               /\ pump' = [pump EXCEPT !.step = "finish", !.pending = {}]
      <4>1. pump' \in PumpRecord BY <1>1, <3>1 DEF PumpRecord, Intents
      <4> QED BY <2>2, <3>1, <4>1
    <3>2. CASE pump' = [pump EXCEPT !.step = "pass", !.pass = @ + 1,
                                    !.pending = @ \ good]
      <4>1. pump.pass + 1 \in Nat /\ pump.pending \ good \in SUBSET Intents
        BY <1>1 DEF PumpRecord
      <4>2. pump' = [pump EXCEPT !.step = "pass", !.pass = pump.pass + 1,
                                 !.pending = pump.pending \ good]
        BY <1>1, <3>2 DEF PumpRecord
      <4>3. pump' \in PumpRecord BY <1>1, <4>1, <4>2 DEF PumpRecord
      <4>4. pump'.step = "pass" /\ pump'.pending = pump.pending \ good
        BY <1>1, <4>2 DEF PumpRecord
      <4> QED BY <2>2, <4>3, <4>4 DEF Planned
    <3>3. CASE NextAttempt("login")
      <4>1. pump' \in PumpRecord /\ Planned' = Intents
        BY <1>1, <3>3, NextAttemptPlans DEF Scopes
      <4>2. Planned \subseteq Intents BY <1>1, <2>2 DEF PumpRecord
      <4> QED BY <4>1, <4>2
    <3> QED BY <1>8, <3>1, <3>2, <3>3 DEF PassJoins
  <2>4. /\ StreamTyped' /\ StreamsOnOpenPlant' /\ stuck' = stuck
        /\ joined' = joined \cup good
    BY <2>1, <2>3, JoinsKeepPlant
  <2>5. \A i : InHand(i)' = InHand(i) BY <1>2 DEF InHand
  <2>6. Covered' BY <1>2, <2>1, <2>3, <2>4, <2>5 DEF StreamInv, Covered
  <2> QED BY <2>4, <2>6 DEF StreamInv
<1>9. CASE Finish
  <2>1. pump.step = "finish" /\ UNCHANGED venueVars /\ force_reconnect' = FALSE
    BY <1>9 DEF Finish
  <2>2. Planned = {} BY <2>1 DEF Planned
  <2>3. CASE force_reconnect
    <3>1. NextAttempt("login") BY <1>9, <2>3 DEF Finish
    <3>2. pump' \in PumpRecord /\ Planned' = Intents
      BY <1>1, <3>1, NextAttemptPlans DEF Scopes
    <3> QED BY <1>2, <2>1, <2>2, <3>2, PlanKept
  <2>4. CASE ~force_reconnect
    <3>1. pump' = Serving BY <1>9, <2>4 DEF Finish
    <3>2. pump' \in PumpRecord
      BY <3>1 DEF Serving, PumpRecord, Intents, Scopes
    <3>3. /\ stuck' = stuck /\ joined' = joined /\ plant' = plant
          /\ venue_closed' = venue_closed
      BY <2>1 DEF venueVars
    <3>4. \A i : InHand(i)' = InHand(i) BY <1>2 DEF InHand
    <3>5. Covered' BY <1>2, <2>2, <2>4, <3>3, <3>4 DEF StreamInv, Covered
    <3> QED BY <3>2, <3>3, <3>5 DEF StreamInv, StreamTyped, StreamsOnOpenPlant
  <2> QED BY <2>3, <2>4
<1> QED BY <1>3, <1>4, <1>5, <1>6, <1>7, <1>8, <1>9 DEF PumpStep

(* StreamInv holds initially. *)
LEMMA StreamInit == Init => StreamInv
<1> SUFFICES ASSUME Init PROVE StreamInv OBVIOUS
<1>1. pump \in PumpRecord
  BY DEF Init, Serving, PumpRecord, Scopes, Intents
<1>2. joined = {} /\ plant = FALSE /\ venue_closed = FALSE BY DEF Init
<1>3. \A i \in Intents : refs[i] = 0 BY DEF Init
<1>4. StreamTyped BY <1>1, <1>2 DEF StreamTyped
<1>5. Covered BY <1>3 DEF Covered
<1> QED BY <1>2, <1>4, <1>5 DEF StreamInv, StreamsOnOpenPlant

(* Stuttering keeps StreamInv. *)
LEMMA StreamSame ==
    ASSUME StreamInv, UNCHANGED vars PROVE StreamInv'
BY DEF vars, clientVars, venueVars, pumpVars, StreamInv, StreamTyped, Covered,
       InHand, Planned, StreamsOnOpenPlant

(* Every step keeps what is held covered. *)
LEMMA StreamStep ==
    LocksInv /\ HoldInv /\ StreamInv /\ [Next]_vars => StreamInv'
<1> SUFFICES ASSUME LocksInv, HoldInv, StreamInv, [Next]_vars PROVE StreamInv'
  OBVIOUS
<1>1. ASSUME NEW k \in Calls, CallStep(k) PROVE StreamInv'
  BY <1>1, CommandKeepsStreams, SubscribeKeepsStreams, RollbackKeepsStreams,
     LeaveKeepsStreams DEF CallStep
<1>2. ASSUME NEW k \in Calls, NEW c \in Clients, CallStart(k, c)
      PROVE  StreamInv'
  BY <1>2, StartKeepsStreams
<1>3. CASE PumpStep BY <1>3, PumpKeepsStreams
<1>4. CASE UNCHANGED vars BY <1>4, StreamSame
<1> QED BY <1>1, <1>2, <1>3, <1>4 DEF Next

(* When nobody is at work, only the streams are left to cover what is held. *)
LEMMA StreamInvServes == StreamInv => HeldIsStreamed
<1> SUFFICES ASSUME StreamInv, Settled, ~stuck PROVE Streamed
  BY DEF HeldIsStreamed
<1>1. pump.step = "serve" /\ ~force_reconnect /\ TopicFree BY DEF Settled
<1>2. Planned = {} BY <1>1 DEF Planned
<1>3. \A i : ~InHand(i) BY <1>1 DEF InHand, TopicFree, TopicSteps
<1>4. Held \subseteq joined BY <1>1, <1>2, <1>3 DEF StreamInv, Covered, Held
<1>5. Held # {} => plant /\ ~venue_closed
  BY <1>4 DEF StreamInv, StreamsOnOpenPlant
<1> QED BY <1>4, <1>5 DEF Streamed

-----------------------------------------------------------------------------
(* order_gate and the topic lock exclude what they should, and a call finds *)
(* under them what it left.                                                 *)
LEMMA LocksAndHolds == Spec => [](LocksInv /\ HoldInv)
BY LocksInit, LocksStep, HoldInit, HoldStep, PTL DEF Spec

(***************************************************************************)
(* The count of the order and of the bracket intent is the number of the    *)
(* sessions that have it, whatever subscribe was rolled back and whatever   *)
(* disconnect timed out and was noted again.                                *)
(***************************************************************************)
THEOREM OrderCountsExact == Spec => []RefsExact
<1>1. LocksInv /\ HoldInv => RefsExact BY DEF HoldInv
<1> QED BY <1>1, LocksAndHolds, PTL

(***************************************************************************)
(* A session that has an order intent is attached to the order topic: no    *)
(* rollback, failed disconnect or teardown leaves a holder without its      *)
(* delivery queue.                                                          *)
(***************************************************************************)
THEOREM HoldersAreDelivered == Spec => []HolderIsDelivered
<1>1. LocksInv /\ HoldInv => HolderIsDelivered BY DEF HoldInv
<1> QED BY <1>1, LocksAndHolds, PTL

(***************************************************************************)
(* A session that called disconnect_order_plant, with no ensure or          *)
(* subscribe of its own coming through meanwhile, sends no order command    *)
(* once the disconnect is over: commands past their check are waited for.   *)
(***************************************************************************)
THEOREM ClosedSessionStaysDown == Spec => []StaysDown
BY LocksInit, LocksStep, DownInit, DownStep, DownInvStays, PTL DEF Spec

(***************************************************************************)
(* While the host serves and nobody works on the order topic, whatever a    *)
(* session holds is streamed on a plant that is up and takes commands;      *)
(* excepted is a disconnect that timed out behind an order command.         *)
(***************************************************************************)
THEOREM HeldOrdersAreStreamed == Spec => []HeldIsStreamed
<1>1. LocksInv /\ HoldInv /\ StreamInv /\ [Next]_vars => StreamInv'
  BY StreamStep
<1> QED BY <1>1, LocksAndHolds, StreamInit, StreamInvServes, PTL DEF Spec
=============================================================================
