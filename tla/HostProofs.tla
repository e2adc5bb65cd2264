------------------------------ MODULE HostProofs ------------------------------
(***************************************************************************)
(* Proofs for the session host and for the queues of its attachments.       *)
(*                                                                          *)
(* Host: one login per credential, for any number of facades, incarnations  *)
(* and recoveries: a host that is logged in holds the flock; and a host     *)
(* holds it only while somebody uses it, is about to, or closes it.         *)
(*                                                                          *)
(* Delivery: for any streams, capacity and pushes, what an attachment       *)
(* misses is what its gaps report, the merge hands out records and barriers *)
(* in the order they were published, and a barrier covers what was          *)
(* published before it.                                                     *)
(***************************************************************************)
EXTENDS Host, Delivery, FiniteSetTheorems, SequenceTheorems, TLAPS

-----------------------------------------------------------------------------
\* Host: the login and the credential lock

(* The steps of connect under the venue gate. *)
Holding == {"c_recovering", "c_plants", "c_ready", "c_login", "c_store"}
(* A shutdown that has stopped the pump; one that has disconnected. *)
Stopped == {"unready", "gate", "disconnect", "release", "done"}
Gone == {"release", "done"}

Typed ==
    /\ made \in 0..MaxHosts /\ epoch \in [Hosts -> Nat]
    /\ down \in [Hosts -> DownSteps] /\ pump \in [Hosts -> PumpSteps]
    /\ gate \in [Hosts -> Facades \cup {Pump, Shut, None}]
    /\ facade \in [Facades -> [step : FacadeSteps, host : Nat, seen : Nat]]

(* Whatever is in use is an incarnation that was started. *)
Started ==
    /\ \A f \in Facades : facade[f].step # "new" => facade[f].host \in 1..made
    /\ \A h \in Hosts : pump[h] # "wait" \/ down[h] # "no" => h \in 1..made
    /\ ready \subseteq 1..made /\ force_reconnect \subseteq 1..made
    /\ login \subseteq 1..made
    /\ registry # None => registry \in 1..made

(* Who works under the exclusive gate holds it. *)
GateHeld ==
    /\ \A f \in Facades : facade[f].step \in Holding => gate[facade[f].host] = f
    /\ \A h \in Hosts : pump[h] \in {"rebuilding", "restoring"} => gate[h] = Pump
    /\ \A h \in Hosts : down[h] = "disconnect" => gate[h] = Shut

(* After the disconnect of a shutdown nobody can log in again. *)
StaysDown ==
    /\ \A h \in Hosts : down[h] \notin {"no", "close"} => h \in closing
    /\ \A h \in Hosts : down[h] \in Stopped => pump[h] = "off"
    /\ \A h \in Hosts : down[h] \in Gone => h \notin login
    /\ \A f \in Facades : facade[f].step \in Holding =>
         down[facade[f].host] \notin Gone

(* Only a finished shutdown gives the flock back. *)
LockKept == \A h \in 1..made : down[h] # "done" => flock = h

LockInv == Typed /\ Started /\ GateHeld /\ StaysDown /\ LockKept

-----------------------------------------------------------------------------
(* The incarnations started so far are hosts. *)
LEMMA StartedAreHosts == ASSUME Typed PROVE 1..made \subseteq Hosts
BY HostAssumption DEF Typed, Hosts

(* The invariant holds initially: no host was started. *)
LEMMA LockInitial == HostInit => LockInv
BY HostAssumption DEF HostInit, LockInv, Typed, Started, GateHeld, StaysDown, LockKept,
   Hosts, DownSteps, PumpSteps, FacadeSteps, Holding, Stopped, Gone

(* The flock of a host that is logged in. *)
LEMMA LockImplies == LockInv => LoginUnderLock
BY StartedAreHosts DEF LockInv, Started, StaysDown, LockKept, LoginUnderLock, Gone

(***************************************************************************)
(* A facade that moves without the gate: nothing else changes.              *)
(***************************************************************************)
LEMMA FacadeMoves ==
    ASSUME LockInv, NEW f \in Facades,
           NEW r \in [step : FacadeSteps, host : Nat, seen : Nat],
           facade' = [facade EXCEPT ![f] = r],
           r.step \notin Holding, r.step # "new" => r.host \in 1..made,
           facade[f].step \notin Holding,
           UNCHANGED <<made, epoch, down, pump, gate, ready, force_reconnect,
                       login, registry, closing, flock>>
    PROVE  LockInv'
<1>1. Typed' BY DEF LockInv, Typed
<1>2. Started' BY DEF LockInv, Typed, Started
<1>3. GateHeld' BY DEF LockInv, Typed, GateHeld
<1>4. StaysDown' BY DEF LockInv, Typed, StaysDown
<1>5. LockKept' BY DEF LockInv, LockKept
<1> QED BY <1>1, <1>2, <1>3, <1>4, <1>5 DEF LockInv

(***************************************************************************)
(* A connect under the gate: it keeps the gate or gives it back, and may    *)
(* log in or mark the host ready.                                           *)
(***************************************************************************)
LEMMA HolderMoves ==
    ASSUME LockInv, NEW f \in Facades, NEW h, h = facade[f].host,
           facade[f].step \in Holding,
           NEW r \in [step : FacadeSteps, host : Nat, seen : Nat],
           facade' = [facade EXCEPT ![f] = r], r.host = h, r.step # "new",
           \/ r.step \in Holding /\ gate' = gate
           \/ r.step \notin Holding /\ gate' = [gate EXCEPT ![h] = None],
           login' \in {login, login \cup {h}}, ready' \in {ready, ready \cup {h}},
           UNCHANGED <<made, epoch, down, pump, force_reconnect, registry,
                       closing, flock>>
    PROVE  LockInv'
<1>0. h \in 1..made /\ h \in Hosts /\ gate[h] = f /\ down[h] \notin Gone
  BY StartedAreHosts DEF LockInv, Started, GateHeld, StaysDown, Holding
<1>00. f # Pump /\ f # Shut BY HostAssumption
<1>1. Typed'
  <2>1. gate' \in [Hosts -> Facades \cup {Pump, Shut, None}]
    BY <1>0 DEF LockInv, Typed
  <2>2. facade' \in [Facades -> [step : FacadeSteps, host : Nat, seen : Nat]]
    BY DEF LockInv, Typed
  <2> QED BY <2>1, <2>2 DEF LockInv, Typed
<1>2. Started' BY <1>0 DEF LockInv, Typed, Started
<1>3. GateHeld'
  <2>1. \A g \in Facades : facade'[g].step \in Holding
                             => gate'[facade'[g].host] = g
    <3> SUFFICES ASSUME NEW g \in Facades, facade'[g].step \in Holding
                 PROVE  gate'[facade'[g].host] = g
      OBVIOUS
    <3>1. CASE g = f BY <3>1, <1>0 DEF LockInv, Typed
    <3>2. CASE g # f
      <4>1. facade'[g] = facade[g] BY <3>2 DEF LockInv, Typed
      <4>2. gate[facade[g].host] = g BY <4>1 DEF LockInv, GateHeld
      <4>3. facade[g].host # h BY <4>2, <3>2, <1>0
      <4>4. gate'[facade[g].host] = gate[facade[g].host]
        <5>1. facade[g].host \in Hosts
          BY <4>1, StartedAreHosts DEF LockInv, Started, Holding
        <5> QED BY <5>1, <4>3 DEF LockInv, Typed
      <4> QED BY <4>1, <4>2, <4>4
    <3> QED BY <3>1, <3>2
  <2>2. \A k \in Hosts : k # h => gate'[k] = gate[k] BY DEF LockInv, Typed
  <2>3. pump[h] \notin {"rebuilding", "restoring"} /\ down[h] # "disconnect"
    BY <1>0, <1>00 DEF LockInv, GateHeld
  <2> QED BY <2>1, <2>2, <2>3 DEF GateHeld, LockInv
<1>4. StaysDown' BY <1>0 DEF LockInv, Typed, StaysDown
<1>5. LockKept' BY DEF LockInv, LockKept
<1> QED BY <1>1, <1>2, <1>3, <1>4, <1>5 DEF LockInv

(***************************************************************************)
(* The pump of a started host moves; the gate and the flags go with it.     *)
(***************************************************************************)
LEMMA PumpMoves ==
    ASSUME LockInv, NEW h \in Hosts, h \in 1..made, NEW s \in PumpSteps,
           pump[h] # "off", pump' = [pump EXCEPT ![h] = s],
           \/ s \in {"rebuilding", "restoring"} /\ gate[h] = None
              /\ gate' = [gate EXCEPT ![h] = Pump]
           \/ s \notin {"rebuilding", "restoring"}
              /\ pump[h] \in {"rebuilding", "restoring"}
              /\ gate' = [gate EXCEPT ![h] = None]
           \/ s \notin {"rebuilding", "restoring"}
              /\ pump[h] \notin {"rebuilding", "restoring"} /\ gate' = gate,
           login' \in {login, login \ {h}, login \cup {h}},
           ready' \in {ready, ready \ {h}, ready \cup {h}},
           force_reconnect' \in {force_reconnect, force_reconnect \ {h}},
           epoch' \in {epoch, [epoch EXCEPT ![h] = @ + 1]},
           UNCHANGED <<made, down, facade, registry, closing, flock>>
    PROVE  LockInv'
<1>0. down[h] \notin Stopped BY DEF LockInv, StaysDown
<1>00. /\ \A f \in Facades : f # Pump /\ f # None
       /\ Pump # Shut /\ None # Shut /\ Pump # None
  BY HostAssumption
<1>1. Typed' BY DEF LockInv, Typed
<1>2. Started' BY DEF LockInv, Typed, Started
<1>3. GateHeld'
  <2>1. \A f \in Facades : facade[f].step \in Holding => gate'[facade[f].host] = f
    BY <1>00, StartedAreHosts DEF LockInv, Typed, GateHeld, Started, Holding
  <2>2. \A g \in Hosts : pump'[g] \in {"rebuilding", "restoring"} => gate'[g] = Pump
    BY <1>00 DEF LockInv, Typed, GateHeld
  <2>3. \A g \in Hosts : down[g] = "disconnect" => gate'[g] = Shut
    BY <1>0, <1>00 DEF LockInv, Typed, GateHeld, Stopped
  <2> QED BY <2>1, <2>2, <2>3 DEF GateHeld
<1>4. StaysDown' BY <1>0 DEF LockInv, Typed, StaysDown, Stopped, Gone
<1>5. LockKept' BY DEF LockInv, LockKept
<1> QED BY <1>1, <1>2, <1>3, <1>4, <1>5 DEF LockInv

(* shutdown() asked for a started host, by a facade that moves on. *)
LEMMA ShutdownAsked ==
    ASSUME LockInv, NEW h \in Hosts, h \in 1..made, down' = Requested(h),
           NEW f \in Facades, facade[f].step \notin Holding,
           NEW r \in [step : FacadeSteps, host : Nat, seen : Nat],
           facade' = [facade EXCEPT ![f] = r],
           r.step \notin Holding, r.host \in 1..made,
           UNCHANGED <<made, epoch, pump, gate, ready, force_reconnect, login,
                       registry, flock>>,
           closing \subseteq closing'
    PROVE  LockInv'
<1>1. Typed' BY DEF LockInv, Typed, Requested, DownSteps
<1>2. Started' BY DEF LockInv, Typed, Started, Requested
<1>3. GateHeld' BY DEF LockInv, Typed, GateHeld, Requested
<1>4. StaysDown'
  BY StartedAreHosts DEF LockInv, Typed, Started, StaysDown, Requested, Stopped,
     Gone, Holding
<1>5. LockKept' BY StartedAreHosts DEF LockInv, Typed, LockKept, Requested
<1> QED BY <1>1, <1>2, <1>3, <1>4, <1>5 DEF LockInv

(* The pump that gave up asks for the shutdown and ends. *)
LEMMA NotifyFailedStep ==
    ASSUME LockInv, NEW h \in Hosts, NotifyFailed(h) PROVE LockInv'
<1>0. h \in 1..made /\ down[h] \notin Stopped /\ pump[h] = "notify_failed"
  BY DEF LockInv, Started, StaysDown, NotifyFailed
<1>1. Typed'
  BY DEF LockInv, Typed, Requested, DownSteps, NotifyFailed, PumpGoto, PumpSteps,
     registryVars
<1>2. Started'
  BY <1>0 DEF LockInv, Typed, Started, Requested, NotifyFailed, PumpGoto, flagVars,
     registryVars
<1>3. GateHeld'
  BY <1>0 DEF LockInv, Typed, GateHeld, Requested, NotifyFailed, PumpGoto
<1>4. StaysDown'
  BY <1>0, StartedAreHosts DEF LockInv, Typed, Started, StaysDown, Requested,
     Stopped, Gone, Holding, NotifyFailed, PumpGoto, flagVars
<1>5. LockKept'
  BY StartedAreHosts DEF LockInv, Typed, LockKept, Requested, NotifyFailed,
     registryVars
<1> QED BY <1>1, <1>2, <1>3, <1>4, <1>5 DEF LockInv

(* The record of a facade that moves on, and where it moves. *)
LEMMA GotoRecord ==
    ASSUME Typed, NEW f \in Facades, NEW s \in FacadeSteps, Goto(f, s)
    PROVE  \E r \in [step : FacadeSteps, host : Nat, seen : Nat] :
             r.step = s /\ r.host = facade[f].host
             /\ facade' = [facade EXCEPT ![f] = r]
<1> DEFINE r == [facade[f] EXCEPT !.step = s]
<1>1. r \in [step : FacadeSteps, host : Nat, seen : Nat] /\ r.step = s
      /\ r.host = facade[f].host
  BY DEF Typed
<1>2. facade' = [facade EXCEPT ![f] = r] BY DEF Goto, Typed
<1> QED BY <1>1, <1>2

(* A record that a lookup gives to a facade. *)
LEMMA OpenRecord ==
    ASSUME NEW s \in FacadeSteps, NEW h \in Nat
    PROVE  LET r == [step |-> s, host |-> h, seen |-> 0]
           IN  r \in [step : FacadeSteps, host : Nat, seen : Nat]
               /\ r.step = s /\ r.host = h
OBVIOUS

(* Steps of a facade that hold no gate and ask for no shutdown. *)
LEMMA GotoFree ==
    ASSUME LockInv, NEW f \in Facades, NEW s \in FacadeSteps, Goto(f, s),
           facade[f].step \notin Holding, facade[f].step # "new", s \notin Holding,
           UNCHANGED <<made, epoch, down, pump, gate, ready, force_reconnect,
                       login, registry, closing, flock>>
    PROVE  LockInv'
<1>1. PICK r \in [step : FacadeSteps, host : Nat, seen : Nat] :
        r.step = s /\ r.host = facade[f].host /\ facade' = [facade EXCEPT ![f] = r]
  BY GotoRecord DEF LockInv
<1>2. facade[f].host \in 1..made BY DEF LockInv, Started
<1> QED BY <1>1, <1>2, FacadeMoves

(* Steps of a connect under the gate. *)
LEMMA GotoHolder ==
    ASSUME LockInv, NEW f \in Facades, NEW s \in FacadeSteps, Goto(f, s),
           facade[f].step \in Holding, s # "new",
           \/ s \in Holding /\ gate' = gate
           \/ s \notin Holding /\ FreeGate(f),
           login' \in {login, login \cup {HostOf(f)}},
           ready' \in {ready, ready \cup {HostOf(f)}},
           UNCHANGED <<made, epoch, down, pump, force_reconnect, registry,
                       closing, flock>>
    PROVE  LockInv'
<1>1. PICK r \in [step : FacadeSteps, host : Nat, seen : Nat] :
        r.step = s /\ r.host = facade[f].host /\ facade' = [facade EXCEPT ![f] = r]
  BY GotoRecord DEF LockInv
<1>2. PICK h \in Nat : h = facade[f].host BY DEF LockInv, Typed
<1>3. \/ r.step \in Holding /\ gate' = gate
      \/ r.step \notin Holding /\ gate' = [gate EXCEPT ![h] = None]
  BY <1>1, <1>2 DEF FreeGate, HostOf
<1>4. login' \in {login, login \cup {h}} /\ ready' \in {ready, ready \cup {h}}
  BY <1>2 DEF HostOf
<1> QED BY <1>1, <1>2, <1>3, <1>4, HolderMoves

(* get_or_start: a new incarnation takes a free flock, so the others ended. *)
LEMMA StartStep ==
    ASSUME LockInv, NEW f \in Facades, Start(f) PROVE LockInv'
<1> DEFINE r == [step |-> "attach", host |-> made', seen |-> 0]
<1>0. made' = made + 1 /\ made' \in Hosts /\ made \in Nat /\ made' \in Nat
  BY HostAssumption DEF Start, LockInv, Typed, Hosts
<1>1. r \in [step : FacadeSteps, host : Nat, seen : Nat]
      /\ r.step = "attach" /\ r.host = made'
  BY <1>0 DEF FacadeSteps
<1>2. facade' = [facade EXCEPT ![f] = r] /\ flock' = made' /\ registry' = made'
      /\ flock = None
  BY DEF Start
<1>3. UNCHANGED <<epoch, down, pump, gate, ready, force_reconnect, login, closing>>
  BY DEF Start, pumpVars, flagVars
<1>4. facade[f].step \notin Holding
  BY DEF Start, MayStart, Reaped, At, Holding
<1> HIDE DEF r
<1>5. \A h \in 1..made : down[h] = "done"
  BY <1>2, HostAssumption DEF LockInv, LockKept
<1>6. Typed'
  BY <1>0, <1>1, <1>2, <1>3 DEF LockInv, Typed, Hosts
<1>7. Started'
  <2>1. 1..made \subseteq 1..made' BY <1>0
  <2>2. made' \in 1..made' BY <1>0
  <2>3. \A g \in Facades : facade'[g].step # "new" => facade'[g].host \in 1..made'
    BY <1>1, <1>2, <2>1, <2>2 DEF LockInv, Typed, Started
  <2> QED BY <1>2, <1>3, <2>1, <2>2, <2>3 DEF LockInv, Started
<1>8. GateHeld'
  BY <1>1, <1>2, <1>3, <1>4 DEF LockInv, Typed, GateHeld, Holding
<1>9. StaysDown'
  BY <1>1, <1>2, <1>3, <1>4 DEF LockInv, Typed, StaysDown, Holding
<1>10. LockKept' BY <1>0, <1>2, <1>3, <1>5 DEF LockKept
<1> QED BY <1>6, <1>7, <1>8, <1>9, <1>10 DEF LockInv

(* The other ways a get_or_start ends, and attach_owned. *)
LEMMA OpenSteps ==
    ASSUME LockInv, NEW f \in Facades,
           OpenFound(f) \/ OpenTerminal(f) \/ AlreadyHeld(f) \/ Attach(f)
    PROVE  LockInv'
<1>0. /\ {"attach", "reap", "new", "attached"} \subseteq FacadeSteps
      /\ {"attach", "reap", "new", "attached"} \cap Holding = {}
  BY DEF FacadeSteps, Holding
<1>00. registry # None => registry \in 1..made /\ registry \in Hosts
                          /\ registry \in Nat
  BY StartedAreHosts, HostAssumption DEF LockInv, Started, Hosts
<1>1. CASE OpenFound(f)
  <2> DEFINE r == [step |-> "attach", host |-> registry, seen |-> 0]
  <2>1. r \in [step : FacadeSteps, host : Nat, seen : Nat] /\ r.step = "attach"
        /\ r.host = registry /\ facade' = [facade EXCEPT ![f] = r]
    BY <1>0, <1>00, <1>1, OpenRecord DEF OpenFound
  <2>2. UNCHANGED <<made, epoch, down, pump, gate, ready, force_reconnect,
                    login, registry, closing, flock>>
        /\ facade[f].step = "new" /\ registry # None
    BY <1>1 DEF OpenFound, At, registryVars, pumpVars, flagVars
  <2> HIDE DEF r
  <2> QED BY <1>0, <1>00, <2>1, <2>2, FacadeMoves
<1>2. CASE OpenTerminal(f)
  <2> DEFINE r == [step |-> "reap", host |-> registry, seen |-> 0]
  <2>1. r \in [step : FacadeSteps, host : Nat, seen : Nat] /\ r.step = "reap"
        /\ r.host = registry /\ facade' = [facade EXCEPT ![f] = r]
    BY <1>0, <1>00, <1>2, OpenRecord DEF OpenTerminal
  <2>2. UNCHANGED <<made, epoch, pump, gate, ready, force_reconnect, login,
                    registry, flock>>
        /\ closing' = closing /\ facade[f].step = "new" /\ registry # None
        /\ down' = Requested(registry)
    BY <1>2 DEF OpenTerminal, At, pumpVars, flagVars
  <2> HIDE DEF r
  <2>3. PICK h \in Hosts : h = registry BY <1>00, <2>2
  <2>4. h \in 1..made /\ down' = Requested(h) BY <1>00, <2>2, <2>3
  <2> QED BY <1>0, <1>00, <2>1, <2>2, <2>3, <2>4, ShutdownAsked
<1>3. CASE AlreadyHeld(f)
  <2> DEFINE r == [step |-> "new", host |-> 0, seen |-> 0]
  <2>1. r \in [step : FacadeSteps, host : Nat, seen : Nat] /\ r.step = "new"
        /\ facade' = [facade EXCEPT ![f] = r]
    BY <1>0, <1>3, OpenRecord DEF AlreadyHeld
  <2>2. UNCHANGED <<made, epoch, down, pump, gate, ready, force_reconnect,
                    login, registry, closing, flock>>
        /\ facade[f].step \in {"new", "reap"}
    BY <1>3 DEF AlreadyHeld, MayStart, Reaped, At, pumpVars, flagVars
  <2> HIDE DEF r
  <2> QED BY <1>0, <2>1, <2>2, FacadeMoves
<1>4. CASE Attach(f)
  <2>1. UNCHANGED <<made, epoch, down, pump, gate, ready, force_reconnect,
                    login, registry, closing, flock>>
        /\ facade[f].step = "attach" /\ (Goto(f, "new") \/ Goto(f, "attached"))
    BY <1>4 DEF Attach, At, registryVars, pumpVars, flagVars
  <2> QED BY <1>0, <2>1, GotoFree
<1> QED BY <1>1, <1>2, <1>3, <1>4

(* The steps of connect that wait, outside the gate. *)
LEMMA ConnectWaits ==
    ASSUME LockInv, NEW f \in Facades, Connect(f) \/ ConnectChanged(f)
    PROVE  LockInv'
<1>0. UNCHANGED <<made, epoch, down, pump, gate, ready, force_reconnect,
                  login, registry, closing, flock>>
      /\ facade[f].step \in {"attached", "c_wait"}
      /\ (Goto(f, "attached") \/ Connecting(f))
  BY DEF Connect, ConnectChanged, At, registryVars, pumpVars, flagVars
<1>1. facade[f].step \notin Holding /\ facade[f].step # "new"
      /\ "attached" \in FacadeSteps /\ "attached" \notin Holding
  BY <1>0 DEF Holding, FacadeSteps
<1>2. CASE Goto(f, "attached") BY <1>0, <1>1, <1>2, GotoFree
<1>3. CASE Connecting(f)
  <2> DEFINE r == [facade[f] EXCEPT !.step = "c_gate",
                                    !.seen = epoch[facade[f].host]]
  <2>1. facade[f].host \in 1..made /\ facade[f].host \in Hosts
    BY <1>1, StartedAreHosts DEF LockInv, Started
  <2>2. r \in [step : FacadeSteps, host : Nat, seen : Nat] /\ r.step = "c_gate"
        /\ r.host = facade[f].host
    BY <2>1 DEF LockInv, Typed, FacadeSteps
  <2>3. facade' = [facade EXCEPT ![f] = r]
    BY <1>3 DEF Connecting, LockInv, Typed, HostOf
  <2>4. "c_gate" \notin Holding BY DEF Holding
  <2> HIDE DEF r
  <2> QED BY <1>0, <1>1, <2>1, <2>2, <2>3, <2>4, FacadeMoves
<1> QED BY <1>0, <1>2, <1>3

(* connect takes the gate: it looks again whether the host is terminal. *)
LEMMA ConnectGateStep ==
    ASSUME LockInv, NEW f \in Facades, ConnectGate(f) PROVE LockInv'
<1>0. UNCHANGED <<made, epoch, down, pump, ready, force_reconnect, login,
                  registry, closing, flock>>
      /\ facade[f].step = "c_gate"
  BY DEF ConnectGate, At, registryVars, pumpVars, flagVars
<1>1. "attached" \in FacadeSteps /\ "attached" \notin Holding
      /\ "c_gate" \notin Holding /\ "c_recovering" \in FacadeSteps
  BY DEF Holding, FacadeSteps
<1>2. CASE HostOf(f) \in Terminal
  BY <1>0, <1>1, <1>2, GotoFree DEF ConnectGate
<1>3. CASE HostOf(f) \notin Terminal
  <2>1. PICK h \in Hosts : h = facade[f].host
    BY <1>0, StartedAreHosts DEF LockInv, Started
  <2>2. h \in 1..made BY <1>0, <2>1 DEF LockInv, Started
  <2>3. PICK r \in [step : FacadeSteps, host : Nat, seen : Nat] :
          r.step = "c_recovering" /\ r.host = h /\ facade' = [facade EXCEPT ![f] = r]
    BY <1>1, <1>3, <2>1, GotoRecord DEF ConnectGate, LockInv
  <2>4. gate' = [gate EXCEPT ![h] = f] /\ gate[h] = None /\ h \notin closing
    BY <1>3, <2>1 DEF ConnectGate, HostOf, Terminal
  <2>5. down[h] \in {"no", "close"} BY <2>4 DEF LockInv, StaysDown
  <2>6. /\ \A g \in Facades : g # None
        /\ None # Pump /\ None # Shut
    BY HostAssumption
  <2>7. Typed' BY <1>0, <2>3, <2>4 DEF LockInv, Typed
  <2>8. Started' BY <1>0, <2>2, <2>3 DEF LockInv, Typed, Started
  <2>9. GateHeld'
    <3>1. \A g \in Facades : facade'[g].step \in Holding
                             => gate'[facade'[g].host] = g
      <4> SUFFICES ASSUME NEW g \in Facades, facade'[g].step \in Holding
                   PROVE  gate'[facade'[g].host] = g
        OBVIOUS
      <4>1. CASE g = f BY <2>3, <2>4, <4>1 DEF LockInv, Typed
      <4>2. CASE g # f
        <5>1. facade'[g] = facade[g] BY <2>3, <4>2 DEF LockInv, Typed
        <5>2. gate[facade[g].host] = g BY <5>1 DEF LockInv, GateHeld
        <5>3. facade[g].host # h BY <2>4, <2>6, <5>2
        <5>4. gate'[facade[g].host] = gate[facade[g].host]
          <6>1. facade[g].host \in Hosts
            BY <5>1, StartedAreHosts DEF LockInv, Started, Holding
          <6> QED BY <2>4, <6>1, <5>3 DEF LockInv, Typed
        <5> QED BY <5>1, <5>2, <5>4
      <4> QED BY <4>1, <4>2
    <3>2. \A k \in Hosts : k # h => gate'[k] = gate[k]
      BY <2>4 DEF LockInv, Typed
    <3>3. pump[h] \notin {"rebuilding", "restoring"} /\ down[h] # "disconnect"
      BY <2>4, <2>6 DEF LockInv, GateHeld
    <3> QED BY <1>0, <3>1, <3>2, <3>3 DEF GateHeld, LockInv
  <2>10. StaysDown'
    BY <1>0, <2>3, <2>5 DEF LockInv, Typed, StaysDown, Gone
  <2>11. LockKept' BY <1>0 DEF LockInv, LockKept
  <2> QED BY <2>7, <2>8, <2>9, <2>10, <2>11 DEF LockInv
<1> QED BY <1>2, <1>3

(* The steps of connect under the gate. *)
LEMMA ConnectHolds ==
    ASSUME LockInv, NEW f \in Facades,
           \/ ConnectRecovering(f) \/ ConnectReady(f) \/ ConnectStore(f)
           \/ \E ok \in BOOLEAN : ConnectPlants(f, ok) \/ ConnectLogin(f, ok)
    PROVE  LockInv'
<1>0. /\ Holding \cup {"attached", "c_wait"} \subseteq FacadeSteps \ {"new"}
      /\ {"attached", "c_wait"} \cap Holding = {}
      /\ {"c_recovering", "c_plants", "c_ready", "c_login", "c_store"} \subseteq Holding
  BY DEF Holding, FacadeSteps
<1>1. UNCHANGED <<made, epoch, down, pump, force_reconnect, registry, closing, flock>>
  BY DEF ConnectRecovering, ConnectReady, ConnectStore, ConnectPlants, ConnectLogin,
     registryVars, pumpVars, flagVars
<1>2. facade[f].step \in Holding
  BY <1>0 DEF ConnectRecovering, ConnectReady, ConnectStore, ConnectPlants,
     ConnectLogin, At
<1>3. /\ login' \in {login, login \cup {HostOf(f)}}
      /\ ready' \in {ready, ready \cup {HostOf(f)}}
  BY DEF ConnectRecovering, ConnectReady, ConnectStore, ConnectPlants, ConnectLogin,
     flagVars
<1>4. PICK s \in FacadeSteps \ {"new"} :
        /\ Goto(f, s)
        /\ \/ s \in Holding /\ gate' = gate
           \/ s \notin Holding /\ FreeGate(f)
  <2>1. CASE ConnectRecovering(f) BY <1>0, <2>1 DEF ConnectRecovering
  <2>2. CASE ConnectReady(f) BY <1>0, <2>2 DEF ConnectReady
  <2>3. CASE ConnectStore(f) BY <1>0, <2>3 DEF ConnectStore
  <2>4. CASE \E ok \in BOOLEAN : ConnectPlants(f, ok)
    BY <1>0, <2>4 DEF ConnectPlants
  <2>5. CASE \E ok \in BOOLEAN : ConnectLogin(f, ok)
    BY <1>0, <2>5 DEF ConnectLogin
  <2> QED BY <2>1, <2>2, <2>3, <2>4, <2>5
<1> QED BY <1>1, <1>2, <1>3, <1>4, GotoHolder

(* Disconnect, and detached with the shutdown the last attachment asks for. *)
LEMMA DetachSteps ==
    ASSUME LockInv, NEW f \in Facades,
           Disconnect(f) \/ Detached(f) \/ Disconnected(f)
    PROVE  LockInv'
<1>0. /\ {"detaching", "d_wait", "dead", "new"} \subseteq FacadeSteps
      /\ {"attached", "detaching", "d_wait", "dead", "new"} \cap Holding = {}
  BY DEF FacadeSteps, Holding
<1>00. \A h : After(h) \in {"dead", "new"} BY DEF After
<1>1. CASE Disconnect(f)
  <2>1. UNCHANGED <<made, epoch, down, pump, gate, ready, force_reconnect,
                    login, registry, closing, flock>>
        /\ facade[f].step = "attached" /\ Goto(f, "detaching")
    BY <1>1 DEF Disconnect, At, registryVars, pumpVars, flagVars
  <2> QED BY <1>0, <2>1, GotoFree
<1>2. CASE Disconnected(f)
  <2>1. UNCHANGED <<made, epoch, down, pump, gate, ready, force_reconnect,
                    login, registry, closing, flock>>
        /\ facade[f].step = "d_wait" /\ Goto(f, After(HostOf(f)))
    BY <1>2 DEF Disconnected, At, registryVars, pumpVars, flagVars
  <2>2. Goto(f, "dead") \/ Goto(f, "new") BY <1>00, <2>1
  <2> QED BY <1>0, <2>1, <2>2, GotoFree
<1>3. CASE Detached(f)
  <2>1. PICK h \in Hosts : h = facade[f].host
    BY <1>3, StartedAreHosts DEF LockInv, Started, Detached, At
  <2>2. h \in 1..made /\ facade[f].step = "detaching"
    BY <1>3, <2>1 DEF LockInv, Started, Detached, At
  <2>3. UNCHANGED <<made, epoch, pump, gate, ready, force_reconnect, login,
                    registry, flock>>
    BY <1>3 DEF Detached, registryVars, pumpVars
  <2>4. CASE Last(h)
    <3>1. closing' = closing \cup {h} /\ down' = Requested(h) /\ Goto(f, "d_wait")
      BY <1>3, <2>1, <2>4 DEF Detached, HostOf
    <3>2. PICK r \in [step : FacadeSteps, host : Nat, seen : Nat] :
            r.step = "d_wait" /\ r.host = h /\ facade' = [facade EXCEPT ![f] = r]
      BY <1>0, <2>1, <3>1, GotoRecord DEF LockInv
    <3>3. closing \subseteq closing' BY <3>1
    <3> QED BY <1>0, <2>2, <2>3, <3>1, <3>2, <3>3, ShutdownAsked
  <2>5. CASE ~Last(h)
    <3>1. closing' = closing /\ down' = down /\ Goto(f, After(h))
      BY <1>3, <2>1, <2>5 DEF Detached, HostOf
    <3>2. Goto(f, "dead") \/ Goto(f, "new") BY <1>00, <3>1
    <3> QED BY <1>0, <2>2, <2>3, <3>1, <3>2, GotoFree
  <2> QED BY <2>4, <2>5
<1> QED BY <1>1, <1>2, <1>3

(* The pump's steps but for its last. *)
LEMMA PumpStepsKeep ==
    ASSUME LockInv, NEW h \in Hosts,
           \/ PumpStart(h) \/ Issue(h) \/ NotifyInterrupted(h) \/ PumpGate(h)
           \/ (\E ok \in BOOLEAN : Rebuild(h, ok) \/ Restore(h, ok))
           \/ Finish(h) \/ Resume(h) \/ Fail(h)
    PROVE  LockInv'
<1>1. UNCHANGED <<made, down, facade, registry, closing, flock>>
  BY DEF PumpStart, Issue, NotifyInterrupted, PumpGate, Rebuild, Restore, Finish,
     Resume, Fail, registryVars, flagVars
<1>2. login' \in {login, login \ {h}, login \cup {h}}
  BY DEF PumpStart, Issue, NotifyInterrupted, PumpGate, Rebuild, Restore, Finish,
     Resume, Fail
<1>3. /\ ready' \in {ready, ready \ {h}, ready \cup {h}}
      /\ force_reconnect' \in {force_reconnect, force_reconnect \ {h}}
      /\ epoch' \in {epoch, [epoch EXCEPT ![h] = @ + 1]}
  BY DEF PumpStart, Issue, NotifyInterrupted, PumpGate, Rebuild, Restore, Finish,
     Resume, Fail, flagVars
<1>4. pump[h] # "off" /\ h \in 1..made
  BY DEF PumpStart, Issue, NotifyInterrupted, PumpGate, Rebuild, Restore, Finish,
     Resume, Fail, LockInv, Started
<1>5. PICK s \in PumpSteps :
        /\ pump' = [pump EXCEPT ![h] = s]
        /\ \/ s \in {"rebuilding", "restoring"} /\ gate[h] = None
              /\ gate' = [gate EXCEPT ![h] = Pump]
           \/ s \notin {"rebuilding", "restoring"}
              /\ pump[h] \in {"rebuilding", "restoring"}
              /\ gate' = [gate EXCEPT ![h] = None]
           \/ s \notin {"rebuilding", "restoring"}
              /\ pump[h] \notin {"rebuilding", "restoring"} /\ gate' = gate
  <2>1. CASE PumpStart(h) BY <2>1 DEF PumpStart, PumpGoto, PumpSteps
  <2>2. CASE Issue(h) BY <2>2 DEF Issue, PumpGoto, PumpSteps
  <2>3. CASE NotifyInterrupted(h) BY <2>3 DEF NotifyInterrupted, PumpGoto, PumpSteps
  <2>4. CASE PumpGate(h) BY <2>4 DEF PumpGate, PumpGoto, PumpSteps
  <2>5. CASE \E ok \in BOOLEAN : Rebuild(h, ok)
    BY <2>5 DEF Rebuild, NextAttempt, PumpFree, PumpGoto, PumpSteps
  <2>6. CASE \E ok \in BOOLEAN : Restore(h, ok)
    BY <2>6 DEF Restore, NextAttempt, PumpFree, PumpGoto, PumpSteps
  <2>7. CASE Finish(h) BY <2>7 DEF Finish, NextAttempt, PumpGoto, PumpSteps
  <2>8. CASE Resume(h) BY <2>8 DEF Resume, PumpGoto, PumpSteps
  <2>9. CASE Fail(h) BY <2>9 DEF Fail, PumpGoto, PumpSteps
  <2> QED BY <2>1, <2>2, <2>3, <2>4, <2>5, <2>6, <2>7, <2>8, <2>9
<1> QED BY <1>1, <1>2, <1>3, <1>4, <1>5, PumpMoves

(* A shutdown until it has the gate. *)
LEMMA ShutStops ==
    ASSUME LockInv, NEW h \in Hosts,
           ShutClose(h) \/ ShutAbort(h) \/ ShutUnready(h) \/ ShutGate(h)
    PROVE  LockInv'
<1>0. /\ UNCHANGED <<made, epoch, facade, force_reconnect, registry, flock>>
      /\ h \in 1..made
  BY DEF ShutClose, ShutAbort, ShutUnready, ShutGate, registryVars, pumpVars,
     flagVars, LockInv, Started
<1>00. /\ \A f \in Facades : f # Pump /\ f # None
       /\ Pump # Shut /\ None # Shut /\ Pump # None
  BY HostAssumption
<1>1. CASE ShutClose(h)
  <2>1. down[h] = "close" /\ down' = [down EXCEPT ![h] = "abort"]
        /\ closing' = closing \cup {h}
        /\ UNCHANGED <<pump, gate, login, ready>>
    BY <1>1 DEF ShutClose, DownGoto, pumpVars
  <2>2. Typed' BY <1>0, <2>1 DEF LockInv, Typed, DownSteps
  <2>3. Started' BY <1>0, <2>1 DEF LockInv, Typed, Started
  <2>4. GateHeld' BY <1>0, <2>1 DEF LockInv, Typed, GateHeld
  <2>5. StaysDown'
    BY <1>0, <2>1, StartedAreHosts DEF LockInv, Typed, Started, StaysDown, Stopped,
       Gone, Holding
  <2>6. LockKept' BY <1>0, <2>1, StartedAreHosts DEF LockInv, Typed, LockKept
  <2> QED BY <2>2, <2>3, <2>4, <2>5, <2>6 DEF LockInv
<1>2. CASE ShutAbort(h)
  <2>1. down[h] = "abort" /\ down' = [down EXCEPT ![h] = "unready"]
        /\ pump' = [pump EXCEPT ![h] = "off"] /\ closing' = closing /\ ready' = ready
        /\ login' \in {login, login \cup {h}}
        /\ gate' = (IF gate[h] = Pump THEN [gate EXCEPT ![h] = None] ELSE gate)
    BY <1>2 DEF ShutAbort, DownGoto, PumpGoto, flagVars
  <2>2. Typed' BY <1>0, <2>1 DEF LockInv, Typed, DownSteps, PumpSteps
  <2>3. Started' BY <1>0, <2>1 DEF LockInv, Typed, Started
  <2>4. GateHeld'
    <3>1. \A g \in Facades : facade[g].step \in Holding
                             => gate'[facade[g].host] = g
      BY <1>00, <2>1, StartedAreHosts DEF LockInv, Typed, GateHeld, Started, Holding
    <3>2. \A g \in Hosts : pump'[g] \in {"rebuilding", "restoring"} => gate'[g] = Pump
      BY <1>00, <2>1 DEF LockInv, Typed, GateHeld
    <3>3. \A g \in Hosts : down'[g] = "disconnect" => gate'[g] = Shut
      BY <1>00, <2>1 DEF LockInv, Typed, GateHeld
    <3> QED BY <1>0, <3>1, <3>2, <3>3 DEF GateHeld
  <2>5. StaysDown'
    BY <1>0, <2>1, StartedAreHosts DEF LockInv, Typed, Started, StaysDown, Stopped,
       Gone, Holding
  <2>6. LockKept' BY <1>0, <2>1, StartedAreHosts DEF LockInv, Typed, LockKept
  <2> QED BY <2>2, <2>3, <2>4, <2>5, <2>6 DEF LockInv
<1>3. CASE ShutUnready(h)
  <2>1. down[h] = "unready" /\ down' = [down EXCEPT ![h] = "gate"]
        /\ ready' = ready \ {h}
        /\ UNCHANGED <<pump, gate, login, closing>>
    BY <1>3 DEF ShutUnready, DownGoto, pumpVars
  <2>2. Typed' BY <1>0, <2>1 DEF LockInv, Typed, DownSteps
  <2>3. Started' BY <1>0, <2>1 DEF LockInv, Typed, Started
  <2>4. GateHeld' BY <1>0, <2>1 DEF LockInv, Typed, GateHeld
  <2>5. StaysDown'
    BY <1>0, <2>1, StartedAreHosts DEF LockInv, Typed, Started, StaysDown, Stopped,
       Gone, Holding
  <2>6. LockKept' BY <1>0, <2>1, StartedAreHosts DEF LockInv, Typed, LockKept
  <2> QED BY <2>2, <2>3, <2>4, <2>5, <2>6 DEF LockInv
<1>4. CASE ShutGate(h)
  <2>1. down[h] = "gate" /\ down' = [down EXCEPT ![h] = "disconnect"]
        /\ gate[h] = None /\ gate' = [gate EXCEPT ![h] = Shut]
        /\ UNCHANGED <<pump, login, closing, ready>>
    BY <1>4 DEF ShutGate, DownGoto, pumpVars, flagVars
  <2>2. Typed' BY <1>0, <2>1 DEF LockInv, Typed, DownSteps
  <2>3. Started' BY <1>0, <2>1 DEF LockInv, Typed, Started
  <2>4. GateHeld'
    <3>1. \A g \in Facades : facade[g].step \in Holding
                             => gate'[facade[g].host] = g
      BY <1>00, <2>1, StartedAreHosts DEF LockInv, Typed, GateHeld, Started, Holding
    <3>2. \A g \in Hosts : pump[g] \in {"rebuilding", "restoring"} => gate'[g] = Pump
      BY <1>00, <2>1 DEF LockInv, Typed, GateHeld
    <3>3. \A g \in Hosts : down'[g] = "disconnect" => gate'[g] = Shut
      BY <1>00, <2>1 DEF LockInv, Typed, GateHeld
    <3> QED BY <1>0, <2>1, <3>1, <3>2, <3>3 DEF GateHeld
  <2>5. StaysDown'
    BY <1>0, <2>1, StartedAreHosts DEF LockInv, Typed, Started, StaysDown, Stopped,
       Gone, Holding
  <2>6. LockKept' BY <1>0, <2>1, StartedAreHosts DEF LockInv, Typed, LockKept
  <2> QED BY <2>2, <2>3, <2>4, <2>5, <2>6 DEF LockInv
<1> QED BY <1>1, <1>2, <1>3, <1>4

(* A shutdown under the gate: nobody else is logging in. *)
LEMMA ShutDisconnects ==
    ASSUME LockInv, NEW h \in Hosts, ShutDisconnect(h) PROVE LockInv'
<1>0. /\ UNCHANGED <<made, epoch, facade, force_reconnect, registry, flock, pump,
                     closing, ready>>
      /\ down[h] = "disconnect" /\ down' = [down EXCEPT ![h] = "release"]
      /\ gate' = [gate EXCEPT ![h] = None] /\ login' = login \ {h}
  BY DEF ShutDisconnect, DownGoto, PumpFree, registryVars, pumpVars, flagVars
<1>1. h \in 1..made /\ gate[h] = Shut /\ pump[h] = "off"
  BY <1>0 DEF LockInv, Started, GateHeld, StaysDown, Stopped
<1>2. \A f \in Facades : facade[f].step \in Holding => facade[f].host # h
  BY <1>1, HostAssumption DEF LockInv, GateHeld
<1>3. Typed' BY <1>0 DEF LockInv, Typed, DownSteps
<1>4. Started' BY <1>0, <1>1 DEF LockInv, Typed, Started
<1>5. GateHeld'
  BY <1>0, <1>1, <1>2, StartedAreHosts DEF LockInv, Typed, GateHeld, Started, Holding
<1>6. StaysDown'
  BY <1>0, <1>1, <1>2, StartedAreHosts DEF LockInv, Typed, Started, StaysDown,
     Stopped, Gone, Holding
<1>7. LockKept' BY <1>0, <1>1, StartedAreHosts DEF LockInv, Typed, LockKept
<1> QED BY <1>3, <1>4, <1>5, <1>6, <1>7 DEF LockInv

(* The flock is given back last. *)
LEMMA ShutReleases ==
    ASSUME LockInv, NEW h \in Hosts, ShutRelease(h) PROVE LockInv'
<1>0. /\ UNCHANGED <<made, epoch, facade, force_reconnect, registry, pump, gate,
                     login, closing, ready>>
      /\ down[h] = "release" /\ down' = [down EXCEPT ![h] = "done"]
      /\ flock' = (IF flock = h THEN None ELSE flock)
  BY DEF ShutRelease, DownGoto, pumpVars, flagVars
<1>1. h \in 1..made BY <1>0 DEF LockInv, Started
<1>2. Typed' BY <1>0 DEF LockInv, Typed, DownSteps
<1>3. Started' BY <1>0, <1>1 DEF LockInv, Typed, Started
<1>4. GateHeld' BY <1>0 DEF LockInv, Typed, GateHeld
<1>5. StaysDown'
  BY <1>0, StartedAreHosts DEF LockInv, Typed, Started, StaysDown, Stopped, Gone,
     Holding
<1>6. LockKept' BY <1>0, StartedAreHosts DEF LockInv, Typed, LockKept
<1> QED BY <1>2, <1>3, <1>4, <1>5, <1>6 DEF LockInv

(* The eviction, the other process and a requested reconnect. *)
LEMMA OtherSteps ==
    ASSUME LockInv,
           \/ OtherLock
           \/ \E h \in Hosts : Evict(h) \/ RequestReconnect(h)
    PROVE  LockInv'
<1>1. UNCHANGED <<made, epoch, facade, down, pump, gate, login, closing>>
  BY DEF OtherLock, Evict, RequestReconnect, registryVars, pumpVars, flagVars
<1>2. registry' \in {registry, None}
  BY DEF OtherLock, Evict, RequestReconnect, registryVars
<1>3. ready' \subseteq 1..made /\ force_reconnect' \subseteq 1..made
  BY DEF OtherLock, Evict, RequestReconnect, flagVars, LockInv, Started
<1>4. LockKept'
  <2>1. CASE OtherLock
    BY <1>1, <2>1, HostAssumption DEF OtherLock, LockInv, LockKept
  <2>2. CASE \E h \in Hosts : Evict(h) \/ RequestReconnect(h)
    BY <1>1, <2>2 DEF Evict, RequestReconnect, registryVars, LockInv, LockKept
  <2> QED BY <2>1, <2>2
<1>5. Typed' BY <1>1 DEF LockInv, Typed
<1>6. Started' BY <1>1, <1>2, <1>3 DEF LockInv, Started
<1>7. GateHeld' /\ StaysDown' BY <1>1 DEF LockInv, GateHeld, StaysDown
<1> QED BY <1>4, <1>5, <1>6, <1>7 DEF LockInv

(* Every step keeps the lock with the host that needs it. *)
LEMMA LockStep == LockInv /\ [HostNext]_hostVars => LockInv'
<1> SUFFICES ASSUME LockInv, [HostNext]_hostVars PROVE LockInv' OBVIOUS
<1>1. CASE \E f \in Facades : FacadeStep(f)
  <2>1. PICK f \in Facades : FacadeStep(f) BY <1>1
  <2> QED BY <2>1, OpenSteps, StartStep, ConnectWaits, ConnectGateStep,
             ConnectHolds, DetachSteps DEF FacadeStep
<1>2. CASE \E h \in Hosts : PumpStep(h)
  <2>1. PICK h \in Hosts : PumpStep(h) BY <1>2
  <2> QED BY <2>1, PumpStepsKeep, NotifyFailedStep DEF PumpStep
<1>3. CASE \E h \in Hosts : ShutStep(h)
  <2>1. PICK h \in Hosts : ShutStep(h) BY <1>3
  <2> QED BY <2>1, ShutStops, ShutDisconnects, ShutReleases DEF ShutStep
<1>4. CASE OtherLock \/ \E h \in Hosts : Evict(h) \/ RequestReconnect(h)
  BY <1>4, OtherSteps
<1>5. CASE UNCHANGED hostVars
  <2>1. UNCHANGED <<made, epoch, down, pump, gate, facade, ready,
                    force_reconnect, login, registry, closing, flock>>
    BY <1>5 DEF hostVars, registryVars, flagVars, pumpVars
  <2> QED BY <2>1 DEF LockInv, Typed, Started, GateHeld, StaysDown, LockKept
<1> QED BY <1>1, <1>2, <1>3, <1>4, <1>5 DEF HostNext

(***************************************************************************)
(* "One login per credential": in every reachable state a host that is      *)
(* logged in at the venue holds the credential flock, whatever connects,    *)
(* recoveries and shutdowns race; so no two incarnations, and no second     *)
(* process, are logged in together.                                         *)
(***************************************************************************)
THEOREM OneLoginPerCredential == HostSpec => []LoginUnderLock
<1> QED BY LockInitial, LockImplies, LockStep, PTL DEF HostSpec

-----------------------------------------------------------------------------
(* The steps of a facade that is attached to its host. *)
Within == {"attached", "c_gate", "c_recovering", "c_wait", "c_plants", "c_ready",
           "c_login", "c_store", "detaching"}
Members(h) == {f \in Facades : facade[f].step \in Within /\ facade[f].host = h}

(* A host counts the facades that are attached to it. *)
Counted == \A h \in Hosts : attachments[h] = Cardinality(Members(h))

(* A host that holds the flock with no attachment, and is not closing, never  *)
(* had one: its pump waits, it cannot have failed, and its opener is on the   *)
(* way.                                                                       *)
Fresh(h) ==
    /\ pump[h] = "wait" /\ h \notin ready \cup force_reconnect \cup failed
    /\ \E f \in Facades : facade[f].step = "attach" /\ facade[f].host = h
UnusedIsFresh ==
    \A h \in Hosts : flock = h /\ attachments[h] = 0 /\ h \notin closing => Fresh(h)

LeakInv ==
    /\ attachments \in [Hosts -> Nat] /\ failed \subseteq 1..made
    /\ Counted /\ UnusedIsFresh

(* The count of a host is that of a finite set of facades. *)
LEMMA MembersFinite ==
    ASSUME NEW h
    PROVE  IsFiniteSet(Members(h)) /\ Cardinality(Members(h)) \in Nat
<1>1. Members(h) \subseteq Facades BY DEF Members
<1>2. IsFiniteSet(Facades) BY HostAssumption
<1>3. IsFiniteSet(Members(h)) BY <1>1, <1>2, FS_Subset
<1> QED BY <1>3, FS_CardinalityType

(* Who is attached is counted. *)
LEMMA MemberCounts ==
    ASSUME LockInv, LeakInv, NEW f \in Facades, facade[f].step \in Within
    PROVE  /\ facade[f].host \in Hosts /\ facade[f].host \in 1..made
           /\ attachments[facade[f].host] \in Nat \ {0}
<1>1. facade[f].host \in Hosts /\ facade[f].host \in 1..made
  BY StartedAreHosts DEF LockInv, Started, Within
<1>2. f \in Members(facade[f].host) BY DEF Members
<1>3. Members(facade[f].host) # {} BY <1>2
<1>4. Cardinality(Members(facade[f].host)) # 0 BY <1>3, MembersFinite, FS_EmptySet
<1>5. attachments[facade[f].host] = Cardinality(Members(facade[f].host))
  BY <1>1 DEF LeakInv, Counted
<1> QED BY <1>1, <1>4, <1>5, MembersFinite

(***************************************************************************)
(* A facade that moves on but neither attaches nor detaches, and was not    *)
(* about to attach.                                                         *)
(***************************************************************************)
LEMMA FacadeStays ==
    ASSUME LockInv, LeakInv, NEW f \in Facades,
           NEW r \in [step : FacadeSteps, host : Nat, seen : Nat],
           facade' = [facade EXCEPT ![f] = r], facade[f].step # "attach",
           \/ facade[f].step \notin Within /\ r.step \notin Within
              /\ ready' = ready
           \/ facade[f].step \in Within /\ r.step \in Within
              /\ r.host = facade[f].host
              /\ ready' \in {ready, ready \cup {facade[f].host}},
           UNCHANGED <<made, attachments, flock, pump, force_reconnect, failed,
                       closing>>
    PROVE  LeakInv'
<1>1. \A g \in Facades : g # f => facade'[g] = facade[g]
  BY DEF LockInv, Typed
<1>2. facade'[f] = r
  BY DEF LockInv, Typed
<1>3. ASSUME NEW h \in Hosts PROVE Members(h)' = Members(h)
  BY <1>1, <1>2 DEF Members
<1>4. Counted'
  BY <1>3 DEF LeakInv, Counted
<1>5. UnusedIsFresh'
  <2> SUFFICES ASSUME NEW h \in Hosts, flock = h, attachments[h] = 0, h \notin closing
               PROVE  Fresh(h)'
    BY DEF UnusedIsFresh
  <2>1. Fresh(h) BY DEF LeakInv, UnusedIsFresh
  <2>2. h \notin ready'
    <3>1. facade[f].step \in Within => facade[f].host # h
      BY MemberCounts
    <3> QED BY <2>1, <3>1 DEF Fresh
  <2>3. \E g \in Facades : facade'[g].step = "attach" /\ facade'[g].host = h
    BY <1>1, <2>1 DEF Fresh
  <2> QED BY <2>1, <2>2, <2>3 DEF Fresh
<1> QED BY <1>4, <1>5 DEF LeakInv

(***************************************************************************)
(* A background step of one host, of the registry or of another process: it *)
(* may touch the pump and the flags of a host that is closing, attached or  *)
(* used before.                                                             *)
(***************************************************************************)
LEMMA HostStays ==
    ASSUME LockInv, LeakInv, NEW h \in Hosts,
           UNCHANGED <<made, attachments, facade>>,
           flock' = flock \/ flock' \notin Hosts, closing \subseteq closing',
           \A k \in Hosts : k # h => pump'[k] = pump[k],
           ready' \subseteq ready \cup {h}, failed' \subseteq failed \cup {h},
           force_reconnect' \subseteq force_reconnect \cup {h},
           \/ pump' = pump /\ ready' \subseteq ready /\ failed' \subseteq failed
              /\ force_reconnect' \subseteq force_reconnect
           \/ h \in 1..made
              /\ (h \in closing \/ attachments[h] # 0 \/ ~Fresh(h))
    PROVE  LeakInv'
<1>1. failed' \subseteq 1..made' BY DEF LeakInv
<1>2. \A k \in Hosts : Members(k)' = Members(k) BY DEF Members
<1>3. Counted' BY <1>2 DEF LeakInv, Counted
<1>4. UnusedIsFresh'
  <2> SUFFICES ASSUME NEW k \in Hosts, flock' = k, attachments[k] = 0, k \notin closing'
               PROVE  Fresh(k)'
    BY DEF UnusedIsFresh
  <2>1. Fresh(k) /\ k \notin closing BY DEF LeakInv, UnusedIsFresh
  <2>2. pump'[k] = pump[k] /\ k \notin ready' \cup force_reconnect' \cup failed'
    <3>1. CASE k # h BY <2>1, <3>1 DEF Fresh
    <3>2. CASE k = h BY <2>1, <3>2 DEF Fresh
    <3> QED BY <3>1, <3>2
  <2> QED BY <2>1, <2>2 DEF Fresh
<1> QED BY <1>1, <1>3, <1>4 DEF LeakInv

(* get_or_start takes the flock for a host that it is about to attach to. *)
LEMMA StartLeak ==
    ASSUME LockInv, LeakInv, NEW f \in Facades, Start(f) PROVE LeakInv'
<1> DEFINE r == [step |-> "attach", host |-> made', seen |-> 0]
<1>0. made' = made + 1 /\ made' \in Hosts /\ made \in Nat /\ made' \notin 1..made
  BY HostAssumption DEF Start, LockInv, Typed, Hosts
<1>1. facade'[f] = r /\ flock' = made' /\ \A g \in Facades : g # f => facade'[g] = facade[g]
  BY DEF Start, LockInv, Typed
<1>2. UNCHANGED <<attachments, pump, ready, force_reconnect, failed, closing>>
  BY DEF Start, pumpVars, flagVars, attachVars
<1>3. facade[f].step \notin Within /\ r.step = "attach" /\ r.host = made'
      /\ "attach" \notin Within
  BY DEF Start, MayStart, Reaped, At, Within
<1> HIDE DEF r
<1>4. \A k \in Hosts : Members(k)' = Members(k)
  BY <1>1, <1>3 DEF Members
<1>5. Counted' BY <1>2, <1>4 DEF LeakInv, Counted
<1>6. failed' \subseteq 1..made' BY <1>0, <1>2 DEF LeakInv
<1>7. pump[made'] = "wait" /\ made' \notin ready \cup force_reconnect \cup failed
  BY <1>0 DEF LockInv, Started, LeakInv
<1>8. \A k \in Hosts : flock' = k => Fresh(k)'
  BY <1>1, <1>2, <1>3, <1>7 DEF Fresh
<1>9. UnusedIsFresh' BY <1>8 DEF UnusedIsFresh
<1> QED BY <1>2, <1>5, <1>6, <1>9 DEF LeakInv

(* attach_owned counts the facade; it refuses only a host that is closing or  *)
(* failed, which is not a fresh one.                                          *)
LEMMA AttachLeak ==
    ASSUME LockInv, LeakInv, NEW f \in Facades, Attach(f) PROVE LeakInv'
<1>0. /\ UNCHANGED <<made, pump, ready, force_reconnect, failed, closing, flock>>
      /\ facade[f].step = "attach"
  BY DEF Attach, At, registryVars, pumpVars, flagVars
<1>1. PICK h \in Hosts : h = facade[f].host
  BY <1>0, StartedAreHosts DEF LockInv, Started
<1>2. \A g \in Facades : g # f => facade'[g] = facade[g]
  BY DEF Attach, Goto, LockInv, Typed
<1>3. {"new", "attach"} \cap Within = {} /\ "attached" \in Within
  BY DEF Within
<1>4. CASE h \in Terminal
  <2>1. attachments' = attachments /\ facade'[f].step = "new"
    BY <1>1, <1>4 DEF Attach, Goto, HostOf, attachVars, LockInv, Typed
  <2>2. \A k \in Hosts : Members(k)' = Members(k)
    BY <1>0, <1>2, <1>3, <2>1 DEF Members
  <2>3. Counted' BY <2>1, <2>2 DEF LeakInv, Counted
  <2>4. UnusedIsFresh'
    <3> SUFFICES ASSUME NEW k \in Hosts, flock = k, attachments[k] = 0, k \notin closing
                 PROVE  Fresh(k)'
      BY <1>0, <2>1 DEF UnusedIsFresh
    <3>1. Fresh(k) BY DEF LeakInv, UnusedIsFresh
    <3>2. k # h BY <1>4, <3>1 DEF Fresh, Terminal
    <3>3. \E g \in Facades : facade'[g].step = "attach" /\ facade'[g].host = k
      BY <1>1, <1>2, <3>1, <3>2 DEF Fresh
    <3> QED BY <1>0, <3>1, <3>3 DEF Fresh
  <2> QED BY <1>0, <2>1, <2>3, <2>4 DEF LeakInv
<1>5. CASE h \notin Terminal
  <2>1. /\ attachments' = [attachments EXCEPT ![h] = @ + 1]
        /\ facade'[f].step = "attached" /\ facade'[f].host = h
    BY <1>1, <1>5 DEF Attach, Goto, HostOf, LockInv, Typed
  <2>2. attachments \in [Hosts -> Nat] BY DEF LeakInv
  <2>3. /\ attachments' \in [Hosts -> Nat] /\ attachments'[h] = attachments[h] + 1
        /\ \A k \in Hosts : k # h => attachments'[k] = attachments[k]
    BY <2>1, <2>2
  <2>4. /\ f \notin Members(h) /\ Members(h)' = Members(h) \cup {f}
        /\ \A k \in Hosts : k # h => Members(k)' = Members(k)
    BY <1>0, <1>1, <1>2, <1>3, <2>1 DEF Members
  <2>5. Cardinality(Members(h))' = Cardinality(Members(h)) + 1
    BY <2>4, MembersFinite, FS_AddElement
  <2>6. Counted' BY <2>3, <2>4, <2>5 DEF LeakInv, Counted
  <2>7. UnusedIsFresh'
    <3> SUFFICES ASSUME NEW k \in Hosts, flock = k, attachments'[k] = 0, k \notin closing
                 PROVE  Fresh(k)'
      BY <1>0 DEF UnusedIsFresh
    <3>0. k # h
      <4>1. attachments[h] \in Nat BY <2>2
      <4> QED BY <2>3, <4>1
    <3>1. Fresh(k) BY <2>3, <3>0 DEF LeakInv, UnusedIsFresh
    <3>2. \E g \in Facades : facade'[g].step = "attach" /\ facade'[g].host = k
      BY <1>1, <1>2, <3>0, <3>1 DEF Fresh
    <3> QED BY <1>0, <3>1, <3>2 DEF Fresh
  <2> QED BY <1>0, <2>3, <2>6, <2>7 DEF LeakInv
<1> QED BY <1>4, <1>5

(* detached: the last attachment of the host that has the flock closes it. *)
LEMMA DetachedLeak ==
    ASSUME LockInv, LeakInv, NEW f \in Facades, Detached(f) PROVE LeakInv'
<1>0. /\ UNCHANGED <<made, pump, ready, force_reconnect, failed, flock>>
      /\ facade[f].step = "detaching"
  BY DEF Detached, At, registryVars, pumpVars
<1>1. /\ "detaching" \in Within /\ {"d_wait", "dead", "new"} \cap Within = {}
      /\ {"d_wait", "dead", "new"} \subseteq FacadeSteps
  BY DEF Within, FacadeSteps
<1>2. PICK h \in Hosts : h = facade[f].host /\ attachments[h] \in Nat \ {0}
  BY <1>0, <1>1, MemberCounts
<1>3. attachments' = [attachments EXCEPT ![h] = @ - 1]
  BY <1>2 DEF Detached, HostOf
<1>4. \E s \in {"d_wait", "dead", "new"} : Goto(f, s)
  BY DEF Detached, After
<1>5. facade'[f].step \notin Within /\ \A g \in Facades : g # f => facade'[g] = facade[g]
  BY <1>1, <1>4 DEF Goto, LockInv, Typed
<1>6. /\ attachments' \in [Hosts -> Nat] /\ attachments'[h] = attachments[h] - 1
      /\ \A k \in Hosts : k # h => attachments'[k] = attachments[k]
  BY <1>2, <1>3 DEF LeakInv
<1>7. /\ f \in Members(h) /\ Members(h)' = Members(h) \ {f}
      /\ \A k \in Hosts : k # h => Members(k)' = Members(k)
  BY <1>0, <1>1, <1>2, <1>5 DEF Members
<1>8. Cardinality(Members(h))' = Cardinality(Members(h)) - 1
  BY <1>7, MembersFinite, FS_RemoveElement
<1>9. Counted' BY <1>6, <1>7, <1>8 DEF LeakInv, Counted
<1>10. /\ closing \subseteq closing'
       /\ attachments[h] = 1 /\ flock = h => h \in closing'
  BY <1>2 DEF Detached, Last, HostOf
<1>11. UnusedIsFresh'
  <2> SUFFICES ASSUME NEW k \in Hosts, flock = k, attachments'[k] = 0, k \notin closing'
               PROVE  Fresh(k)'
    BY <1>0 DEF UnusedIsFresh
  <2>0. k # h BY <1>2, <1>6, <1>10
  <2>1. Fresh(k) BY <1>6, <1>10, <2>0 DEF LeakInv, UnusedIsFresh
  <2>2. \E g \in Facades : facade'[g].step = "attach" /\ facade'[g].host = k
    BY <1>0, <1>5, <2>1 DEF Fresh
  <2> QED BY <1>0, <2>1, <2>2 DEF Fresh
<1> QED BY <1>0, <1>6, <1>9, <1>11 DEF LeakInv

(* Opening steps that end without a start, and the wait for a shutdown. *)
LEMMA OpenLeak ==
    ASSUME LockInv, LeakInv, NEW f \in Facades,
           OpenFound(f) \/ OpenTerminal(f) \/ AlreadyHeld(f) \/ Disconnected(f)
    PROVE  LeakInv'
<1>0. UNCHANGED <<made, attachments, flock, pump, ready, force_reconnect, failed,
                  closing>>
  BY DEF OpenFound, OpenTerminal, AlreadyHeld, Disconnected, registryVars, attachVars,
     pumpVars, flagVars
<1>1. facade[f].step \in {"new", "reap", "d_wait"}
  BY DEF OpenFound, OpenTerminal, AlreadyHeld, Disconnected, MayStart, Reaped, At
<1>2. /\ {"new", "reap", "d_wait", "attach", "dead"} \cap Within = {}
      /\ {"new", "reap", "d_wait", "attach", "dead"} \subseteq FacadeSteps
  BY DEF Within, FacadeSteps
<1>3. \E r \in [step : FacadeSteps, host : Nat, seen : Nat] :
        r.step \notin Within /\ facade' = [facade EXCEPT ![f] = r]
  <2>0. registry # None => registry \in Nat
    BY StartedAreHosts, HostAssumption DEF LockInv, Started, Hosts
  <2>1. CASE OpenFound(f)
    BY <1>2, <2>0, <2>1, OpenRecord DEF OpenFound
  <2>2. CASE OpenTerminal(f)
    BY <1>2, <2>0, <2>2, OpenRecord DEF OpenTerminal
  <2>3. CASE AlreadyHeld(f)
    BY <1>2, <2>3, OpenRecord DEF AlreadyHeld
  <2>4. CASE Disconnected(f)
    <3>1. \E s \in {"dead", "new"} : Goto(f, s)
      BY <2>4 DEF Disconnected, After
    <3> QED BY <1>2, <3>1, GotoRecord DEF LockInv
  <2> QED BY <2>1, <2>2, <2>3, <2>4
<1> QED BY <1>0, <1>1, <1>2, <1>3, FacadeStays

(* The steps of connect and the begin of a disconnect stay attached. *)
LEMMA WithinLeak ==
    ASSUME LockInv, LeakInv, NEW f \in Facades,
           \/ Connect(f) \/ ConnectGate(f) \/ ConnectRecovering(f)
           \/ ConnectChanged(f) \/ ConnectReady(f) \/ ConnectStore(f) \/ Disconnect(f)
           \/ \E ok \in BOOLEAN : ConnectPlants(f, ok) \/ ConnectLogin(f, ok)
    PROVE  LeakInv'
<1>0. UNCHANGED <<made, attachments, flock, pump, force_reconnect, failed, closing>>
  BY DEF Connect, ConnectGate, ConnectRecovering, ConnectChanged, ConnectReady,
     ConnectStore, Disconnect, ConnectPlants, ConnectLogin, registryVars, attachVars,
     pumpVars, flagVars
<1>1. ready' \in {ready, ready \cup {facade[f].host}}
  BY DEF Connect, ConnectGate, ConnectRecovering, ConnectChanged, ConnectReady,
     ConnectStore, Disconnect, ConnectPlants, ConnectLogin, flagVars, HostOf
<1>2. facade[f].step \in Within /\ facade[f].step # "attach"
  BY DEF Connect, ConnectGate, ConnectRecovering, ConnectChanged, ConnectReady,
     ConnectStore, Disconnect, ConnectPlants, ConnectLogin, At, Within
<1>3. Within \subseteq FacadeSteps BY DEF Within, FacadeSteps
<1>4. Connecting(f) \/ \E s \in Within : Goto(f, s)
  BY DEF Connect, ConnectGate, ConnectRecovering, ConnectChanged, ConnectReady,
     ConnectStore, Disconnect, ConnectPlants, ConnectLogin, Within
<1>5. \E r \in [step : FacadeSteps, host : Nat, seen : Nat] :
        /\ r.step \in Within /\ r.host = facade[f].host
        /\ facade' = [facade EXCEPT ![f] = r]
  <2>1. CASE Connecting(f)
    <3> DEFINE r == [facade[f] EXCEPT !.step = "c_gate",
                                      !.seen = epoch[facade[f].host]]
    <3>1. facade[f].host \in Hosts
      BY <1>2, MemberCounts
    <3>2. r \in [step : FacadeSteps, host : Nat, seen : Nat] /\ r.step \in Within
          /\ r.host = facade[f].host
      BY <3>1 DEF LockInv, Typed, FacadeSteps, Within
    <3>3. facade' = [facade EXCEPT ![f] = r]
      BY <2>1 DEF Connecting, LockInv, Typed, HostOf
    <3> QED BY <3>2, <3>3
  <2>2. CASE \E s \in Within : Goto(f, s)
    BY <1>3, <2>2, GotoRecord DEF LockInv
  <2> QED BY <1>4, <2>1, <2>2
<1> QED BY <1>0, <1>1, <1>2, <1>5, FacadeStays

(* The pump runs only on a host that was used. *)
LEMMA PumpLeak ==
    ASSUME LockInv, LeakInv, NEW h \in Hosts, PumpStep(h) \/ RequestReconnect(h)
    PROVE  LeakInv'
<1>1. UNCHANGED <<made, attachments, facade, flock, closing>>
  BY DEF PumpStep, PumpStart, Issue, NotifyInterrupted, PumpGate, Rebuild, Restore,
     Finish, Resume, Fail, NotifyFailed, RequestReconnect, registryVars, attachVars,
     flagVars
<1>2. /\ ready' \subseteq ready \cup {h} /\ failed' \subseteq failed \cup {h}
      /\ force_reconnect' \subseteq force_reconnect \cup {h}
  BY DEF PumpStep, PumpStart, Issue, NotifyInterrupted, PumpGate, Rebuild, Restore,
     Finish, Resume, Fail, NotifyFailed, RequestReconnect, flagVars
<1>3. \A k \in Hosts : k # h => pump'[k] = pump[k]
  BY DEF PumpStep, PumpStart, Issue, NotifyInterrupted, PumpGate, Rebuild, Restore,
     Finish, Resume, Fail, NotifyFailed, RequestReconnect, NextAttempt, PumpGoto,
     LockInv, Typed
<1>4. h \in 1..made /\ (attachments[h] # 0 \/ ~Fresh(h))
  <2>1. CASE RequestReconnect(h)
    <3>1. attachments[h] > 0 /\ (h \in ready \/ pump[h] # "wait")
      BY <2>1 DEF RequestReconnect
    <3>2. attachments[h] # 0
      BY <3>1
    <3> QED BY <3>1, <3>2 DEF LockInv, Started
  <2>2. CASE PumpStep(h)
    <3>1. pump[h] # "wait" \/ h \in ready \cup force_reconnect
      BY <2>2 DEF PumpStep, PumpStart, Issue, NotifyInterrupted, PumpGate, Rebuild,
         Restore, Finish, Resume, Fail, NotifyFailed
    <3> QED BY <3>1 DEF Fresh, LockInv, Started
  <2> QED BY <2>1, <2>2
<1> QED BY <1>1, <1>2, <1>3, <1>4, HostStays

(* A shutdown closes its host before it stops the pump. *)
LEMMA ShutLeak ==
    ASSUME LockInv, LeakInv, NEW h \in Hosts, ShutStep(h) PROVE LeakInv'
<1>1. /\ UNCHANGED <<made, attachments, facade, failed, force_reconnect>>
      /\ closing \subseteq closing' /\ ready' \subseteq ready
  BY DEF ShutStep, ShutClose, ShutAbort, ShutUnready, ShutGate, ShutDisconnect,
     ShutRelease, registryVars, attachVars, flagVars
<1>2. flock' = flock \/ flock' \notin Hosts
  BY HostAssumption DEF ShutStep, ShutClose, ShutAbort, ShutUnready, ShutGate,
     ShutDisconnect, ShutRelease, registryVars, Hosts
<1>3. pump' = pump \/ (pump' = [pump EXCEPT ![h] = "off"] /\ down[h] = "abort")
  BY DEF ShutStep, ShutClose, ShutAbort, ShutUnready, ShutGate, ShutDisconnect,
     ShutRelease, pumpVars, PumpGoto
<1>4. \A k \in Hosts : k # h => pump'[k] = pump[k]
  BY <1>3 DEF LockInv, Typed
<1>5. down[h] = "abort" => h \in closing /\ h \in 1..made
  BY DEF LockInv, StaysDown, Started
<1> QED BY <1>1, <1>2, <1>3, <1>4, <1>5, HostStays

(* The eviction and the other process touch no host of this one. *)
LEMMA OtherLeak ==
    ASSUME LockInv, LeakInv, OtherLock \/ \E h \in Hosts : Evict(h) PROVE LeakInv'
<1>1. UNCHANGED <<made, attachments, facade, pump, ready, force_reconnect, failed,
                  closing>>
  BY DEF OtherLock, Evict, attachVars, flagVars, pumpVars
<1>2. flock' = flock \/ flock' \notin Hosts
  BY HostAssumption DEF OtherLock, Evict, Hosts
<1>3. 1 \in Hosts BY HostAssumption DEF Hosts
<1> QED BY <1>1, <1>2, <1>3, HostStays

(* Every step keeps the flock with a host that is used, about to be used, or  *)
(* closing.                                                                   *)
LEMMA LeakStep == LockInv /\ LeakInv /\ [HostNext]_hostVars => LeakInv'
<1> SUFFICES ASSUME LockInv, LeakInv, [HostNext]_hostVars PROVE LeakInv' OBVIOUS
<1>1. CASE \E f \in Facades : FacadeStep(f)
  <2>1. PICK f \in Facades : FacadeStep(f) BY <1>1
  <2> QED BY <2>1, OpenLeak, StartLeak, AttachLeak, WithinLeak, DetachedLeak
             DEF FacadeStep
<1>2. CASE \E h \in Hosts : PumpStep(h) \/ RequestReconnect(h)
  BY <1>2, PumpLeak
<1>3. CASE \E h \in Hosts : ShutStep(h)
  BY <1>3, ShutLeak
<1>4. CASE OtherLock \/ \E h \in Hosts : Evict(h)
  BY <1>4, OtherLeak
<1>5. CASE UNCHANGED hostVars
  <2>1. UNCHANGED <<made, attachments, facade, flock, pump, ready, force_reconnect,
                    failed, closing>>
    BY <1>5 DEF hostVars, registryVars, attachVars, flagVars, pumpVars
  <2>2. 1 \in Hosts BY HostAssumption DEF Hosts
  <2> QED BY <2>1, <2>2, HostStays
<1> QED BY <1>1, <1>2, <1>3, <1>4, <1>5 DEF HostNext

(* Nobody is attached and nobody has the flock. *)
LEMMA LeakInitial == HostInit => LeakInv
<1> SUFFICES ASSUME HostInit PROVE LeakInv OBVIOUS
<1>1. \A h \in Hosts : Members(h) = {} BY DEF HostInit, Members, Within
<1>2. Counted BY <1>1, FS_EmptySet DEF HostInit, Counted
<1>3. UnusedIsFresh BY HostAssumption DEF HostInit, UnusedIsFresh, Hosts
<1> QED BY <1>2, <1>3 DEF HostInit, LeakInv

(***************************************************************************)
(* The credential lock comes back: for any number of facades, incarnations  *)
(* and recoveries, a host that holds the flock with nobody attached is      *)
(* closing, or its opener is about to attach.                               *)
(***************************************************************************)
THEOREM LockNeverLeaks == HostSpec => []NoLeakedLock
<1>1. LeakInv => NoLeakedLock
  BY DEF LeakInv, UnusedIsFresh, Fresh, NoLeakedLock
<1> QED BY <1>1, LockInitial, LockStep, LeakInitial, LeakStep, PTL DEF HostSpec

-----------------------------------------------------------------------------
\* Delivery: queues, gaps and the merge of streams

(* The two kinds of record a push appends. *)
LEMMA BatchRecordType ==
    ASSUME TypeOK, NEW s \in Streams, NEW n \in 1..MaxBatch
    PROVE  /\ BatchRecord(s, n) \in Seq(Slot)
           /\ Len(BatchRecord(s, n)) = n
           /\ \A i \in 1..n : /\ BatchRecord(s, n)[i].seq = sequence + i
                              /\ BatchRecord(s, n)[i].pos = total[s] + i - 1
                              /\ BatchRecord(s, n)[i].size = 1
                              /\ BatchRecord(s, n)[i].rest = n - i
<1>1. \A i \in 1..n :
        [seq |-> sequence + i, pos |-> total[s] + i - 1, size |-> 1,
         kind |-> "event", rest |-> n - i, form |-> "batch"] \in Slot
  BY BatchAssumption DEF TypeOK, Slot
<1>2. n \in Nat
  BY BatchAssumption
<1>3. BatchRecord(s, n) \in Seq(Slot) /\ Len(BatchRecord(s, n)) = n
  BY <1>1, <1>2 DEF BatchRecord
<1> QED
  BY <1>3 DEF BatchRecord

(* A single-event push appends one typed slot. *)
LEMMA OneRecordType ==
    ASSUME TypeOK, NEW s \in Streams, NEW kind \in {"event", "gap"}, NEW k \in Nat,
           NEW form \in {"batch", "shared"}
    PROVE  /\ OneRecord(s, kind, k, form) \in Seq(Slot)
           /\ Len(OneRecord(s, kind, k, form)) = 1
           /\ OneRecord(s, kind, k, form)[1].seq = sequence + 1
           /\ OneRecord(s, kind, k, form)[1].pos = total[s]
           /\ OneRecord(s, kind, k, form)[1].size = k
           /\ OneRecord(s, kind, k, form)[1].rest = 0
BY DEF OneRecord, TypeOK, Slot

(* Updating one counter of a family keeps the family's type. *)
LEMMA NatUpdate ==
    ASSUME NEW S, NEW f \in [S -> Nat], NEW x \in S, NEW v \in Nat
    PROVE  [f EXCEPT ![x] = v] \in [S -> Nat]
OBVIOUS

(* What is known of a queue that holds something. *)
LEMMA SlotFacts ==
    ASSUME TypeOK, NEW s \in Streams, slots[s] # <<>>
    PROVE  /\ slots[s] \in Seq(Slot) /\ Len(slots[s]) \in Nat \ {0}
           /\ Head(slots[s]) = slots[s][1]
           /\ Head(slots[s]) \in Slot
           /\ Head(slots[s]).seq \in Nat /\ Head(slots[s]).pos \in Nat
           /\ Head(slots[s]).size \in Nat /\ Head(slots[s]).rest \in Nat
           /\ Tail(slots[s]) \in Seq(Slot)
           /\ Len(Tail(slots[s])) = Len(slots[s]) - 1
           /\ \A i \in 1..Len(slots[s]) - 1 : Tail(slots[s])[i] = slots[s][i+1]
<1>1. slots[s] \in Seq(Slot)
  BY DEF TypeOK
<1>2. Head(slots[s]) \in Slot /\ Head(slots[s]) = slots[s][1]
  BY <1>1
<1>3. /\ Head(slots[s]).seq \in Nat /\ Head(slots[s]).pos \in Nat
      /\ Head(slots[s]).size \in Nat /\ Head(slots[s]).rest \in Nat
  BY <1>2 DEF Slot
<1> QED
  BY <1>1, <1>2, <1>3

(* The constructors of Delivery start from well-typed queues. *)
LEMMA TypeInit == Init => TypeOK
<1> SUFFICES ASSUME Init PROVE TypeOK
  OBVIOUS
<1>1. slots \in [Streams -> Seq(Slot)]
  BY DEF Init
<1>2. /\ skipped \in [Streams -> Nat] /\ gap_sequence \in [Streams -> Nat]
      /\ total \in [Streams -> Nat] /\ seen \in [Streams -> Nat]
      /\ handed \in Nat /\ met \in [Streams -> Nat]
  BY DEF Init
<1>3. barriers \in Seq(Barrier)
  BY DEF Init
<1>4. bare \in BOOLEAN
  BY DEF Init
<1>5. target \in Streams
  BY StreamsAssumption DEF Init
<1> QED
  BY <1>1, <1>2, <1>3, <1>4, <1>5 DEF Init, TypeOK

(* A push appends typed slots and counts them. *)
LEMMA PushType ==
    ASSUME TypeOK, NEW s \in Streams, NEW record \in Seq(Slot), NEW w \in Nat,
           Push(s, record, w)
    PROVE  TypeOK'
<1>1. slots' \in [Streams -> Seq(Slot)]
  BY DEF TypeOK, Push
<1>2. sequence' \in Nat
  BY DEF TypeOK, Push
<1>3. total' \in [Streams -> Nat]
  <2>1. total \in [Streams -> Nat] /\ total[s] \in Nat
    BY DEF TypeOK
  <2>2. total[s] + w \in Nat
    BY <2>1
  <2> QED
    BY <2>1, <2>2, NatUpdate DEF Push
<1> QED
  BY <1>1, <1>2, <1>3 DEF TypeOK, Push, modeVars

(* A pop leaves typed queues and counters. *)
LEMMA PopType ==
    ASSUME TypeOK, NEW s \in Streams, Pop(s)
    PROVE  /\ slots' \in [Streams -> Seq(Slot)]
           /\ skipped' \in [Streams -> Nat]
           /\ gap_sequence' \in [Streams -> Nat]
           /\ seen' \in [Streams -> Nat]
<1>1. /\ seen \in [Streams -> Nat] /\ skipped \in [Streams -> Nat]
      /\ seen[s] \in Nat /\ skipped[s] \in Nat
  BY DEF TypeOK
<1>2. CASE PopGap(s)
  <2>1. seen' \in [Streams -> Nat]
    BY <1>1, <1>2, NatUpdate DEF PopGap
  <2>2. skipped' \in [Streams -> Nat]
    BY <1>1, <1>2, NatUpdate DEF PopGap
  <2> QED
    BY <1>2, <2>1, <2>2 DEF TypeOK, PopGap
<1>3. CASE PopRecord(s)
  <2>1. Head(slots[s]).size \in Nat /\ Tail(slots[s]) \in Seq(Slot)
    BY <1>3, SlotFacts DEF PopRecord
  <2>2. slots' \in [Streams -> Seq(Slot)]
    BY <1>3, <2>1 DEF TypeOK, PopRecord
  <2>3. seen' \in [Streams -> Nat]
    BY <1>1, <1>3, <2>1, NatUpdate DEF PopRecord
  <2> QED
    BY <1>1, <1>3, <2>2, <2>3 DEF TypeOK, PopRecord
<1> QED
  BY <1>2, <1>3 DEF Pop

(* The number of events a native read decides to take is a natural number. *)
LEMMA TakeCountType ==
    ASSUME TypeOK, NEW s \in Streams, NEW max \in 1..MaxTake
    PROVE  TakeCount(s, max) \in Nat
<1>1. Len(slots[s]) \in Nat /\ GapPending(s) \in Nat /\ max \in Nat
  BY BatchAssumption DEF TypeOK, GapPending
<1>2. Min2(max, Len(slots[s]) + GapPending(s)) \in Nat
  BY <1>1 DEF Min2
<1>3. CASE BatchFits(s, max)
  <2>1. Head(slots[s]).rest \in Nat
    BY <1>3, SlotFacts DEF BatchFits
  <2> QED
    BY <1>3, <2>1 DEF TakeCount
<1>4. CASE ~BatchFits(s, max)
  BY <1>2, <1>4 DEF TakeCount
<1> QED
  BY <1>3, <1>4

(* Every step of the specification keeps the types. *)
LEMMA TypeStep == TypeOK /\ [Next]_vars => TypeOK'
<1> SUFFICES ASSUME TypeOK, [Next]_vars PROVE TypeOK'
  OBVIOUS
<1>1. ASSUME NEW s \in Streams, NEW n \in 1..MaxBatch, PushBatch(s, n)
      PROVE  TypeOK'
  BY <1>1, BatchRecordType, PushType, BatchAssumption DEF PushBatch
<1>2. ASSUME NEW s \in Streams, NEW form \in {"batch", "shared"},
             PushEvent(s, form)
      PROVE  TypeOK'
  BY <1>2, OneRecordType, PushType DEF PushEvent
<1>3. ASSUME NEW s \in Streams, NEW k \in GapSizes,
             NEW form \in {"batch", "shared"}, PushGap(s, k, form)
      PROVE  TypeOK'
  BY <1>3, OneRecordType, PushType, GapAssumption DEF PushGap
<1>4. CASE PushDrop
  <2>1. target \in Streams /\ slots[target] \in Seq(Slot) /\ slots[target] # <<>>
    BY <1>4, CapacityAssumption DEF PushDrop, TypeOK
  <2>2. Head(slots[target]) \in Slot /\ Tail(slots[target]) \in Seq(Slot)
    BY <2>1
  <2>3. Head(slots[target]).seq \in Nat /\ Head(slots[target]).size \in Nat
    BY <2>2 DEF Slot
  <2>4. slots' \in [Streams -> Seq(Slot)]
    BY <1>4, <2>1, <2>2 DEF PushDrop, TypeOK
  <2>5. skipped' \in [Streams -> Nat]
    BY <1>4, <2>1, <2>3 DEF PushDrop, LostCount, TypeOK
  <2>6. gap_sequence' \in [Streams -> Nat]
    BY <1>4, <2>1, <2>3 DEF PushDrop, GapStart, TypeOK
  <2> QED
    BY <1>4, <2>4, <2>5, <2>6 DEF PushDrop, TypeOK, modeVars, lockVars
<1>5. CASE PushEnd
  BY <1>5 DEF PushEnd, TypeOK, queueVars, modeVars, history
<1>6. ASSUME NEW s \in Streams, NEW max \in 1..MaxTake, NextEvents(s, max)
      PROVE  TypeOK'
  <2>1. op' \in {"free", "push", "read"} /\ target' \in Streams
    BY <1>6 DEF NextEvents, lockVars, TypeOK
  <2>2. left' \in Nat
    BY <1>6, TakeCountType DEF NextEvents, lockVars, TypeOK
  <2> QED
    BY <1>6, <2>1, <2>2 DEF NextEvents, TypeOK, queueVars, history
<1>7. CASE ReadPop
  <2>1. left' \in Nat
    BY <1>7 DEF ReadPop, TypeOK
  <2>2. Pop(target) /\ target \in Streams
    BY <1>7 DEF ReadPop, TypeOK
  <2> QED
    BY <1>7, <2>1, <2>2, PopType DEF ReadPop, TypeOK, modeVars
<1>8. CASE ReadEnd
  BY <1>8 DEF ReadEnd, TypeOK, queueVars, modeVars, history
<1>9. CASE TryRecvBarrier
  <2>1. Head(barriers) \in Barrier /\ Tail(barriers) \in Seq(Barrier)
    BY <1>9 DEF TryRecvBarrier, BarrierFirst, TypeOK
  <2>2. Head(barriers).seq \in Nat /\ Head(barriers).mark \in [Streams -> Nat]
    BY <2>1 DEF Barrier
  <2> QED
    BY <1>9, <2>1, <2>2
       DEF TryRecvBarrier, TypeOK, queueVars, modeVars, lockVars
<1>10. ASSUME NEW s \in Streams, TryRecvEvent(s)
       PROVE  TypeOK'
  <2>1. HeadSeq(s) \in Nat
    <3>1. CASE skipped[s] > 0
      BY <3>1 DEF HeadSeq, TypeOK
    <3>2. CASE ~(skipped[s] > 0)
      BY <1>10, <3>2, SlotFacts DEF TryRecvEvent, LeastHead, NonEmpty, HeadSeq
    <3> QED
      BY <3>1, <3>2
  <2>2. Pop(s)
    BY <1>10 DEF TryRecvEvent
  <2> QED
    BY <1>10, <2>1, <2>2, PopType DEF TryRecvEvent, TypeOK, modeVars, lockVars
<1>11. CASE Flush
  <2>1. CASE ~transport
    BY <1>11, <2>1 DEF Flush, TypeOK, queueVars, lockVars, history
  <2>2. CASE transport
    <3>1. sequence' \in Nat
      BY <1>11, <2>2 DEF Flush, TypeOK
    <3>2. [seq |-> sequence + 1, mark |-> total] \in Barrier
      BY DEF TypeOK, Barrier
    <3>3. barriers' \in Seq(Barrier)
      <4>1. /\ barriers \in Seq(Barrier)
            /\ barriers' = Append(barriers, [seq |-> sequence + 1, mark |-> total])
        BY <1>11, <2>2 DEF Flush, TypeOK
      <4> QED
        BY <3>2, <4>1
    <3> QED
      BY <1>11, <2>2, <3>1, <3>3 DEF Flush, TypeOK, queueVars, lockVars, history
  <2> QED
    BY <2>1, <2>2
<1>12. CASE TakeEvents
  BY <1>12 DEF TakeEvents, TypeOK, queueVars, lockVars, history
<1>13. CASE Close
  BY <1>13 DEF Close, TypeOK, queueVars, lockVars, history
<1>14. CASE UNCHANGED vars
  BY <1>14 DEF TypeOK, vars, queueVars, modeVars, lockVars, history
<1> QED
  BY <1>1, <1>2, <1>3, <1>4, <1>5, <1>6, <1>7, <1>8, <1>9, <1>10, <1>11,
     <1>12, <1>13, <1>14 DEF Next

-----------------------------------------------------------------------------
(* What a push appends: the next positions of the stream, without a hole. *)
Continues(r, from, upto) ==
    /\ r \in Seq(Slot) /\ Len(r) \in Nat \ {0}
    /\ r[1].pos = from
    /\ r[Len(r)].pos + r[Len(r)].size = upto
    /\ \A i \in 1..Len(r) - 1 : r[i].pos + r[i].size = r[i+1].pos

(* The slots of a batch are numbered from the first unpublished position on,  *)
(* without a hole, and end where the stream's next position begins.           *)
LEMMA BatchContinues ==
    ASSUME TypeOK, NEW s \in Streams, NEW n \in 1..MaxBatch
    PROVE  Continues(BatchRecord(s, n), total[s], total[s] + n)
<1> DEFINE r == BatchRecord(s, n)
<1>1. n \in Nat \ {0} /\ total[s] \in Nat
  BY BatchAssumption DEF TypeOK
<1>2. r \in Seq(Slot) /\ Len(r) = n
  BY BatchRecordType
<1>3. \A i \in 1..n : r[i].pos = total[s] + i - 1 /\ r[i].size = 1
  BY BatchRecordType
<1> HIDE DEF r
<1>4. 1 \in 1..n /\ n \in 1..n /\ \A i \in 1..n - 1 : i \in 1..n /\ i + 1 \in 1..n
  BY <1>1
<1>5. r[1].pos = total[s] /\ r[n].pos + r[n].size = total[s] + n
  BY <1>1, <1>3, <1>4
<1>6. \A i \in 1..n - 1 : r[i].pos + r[i].size = r[i+1].pos
  BY <1>1, <1>3, <1>4
<1>7. Continues(r, total[s], total[s] + n)
  BY <1>1, <1>2, <1>5, <1>6 DEF Continues
<1> QED
  BY <1>7 DEF r

(* A single event (or an upstream Gap, as wide as what it skipped) takes the  *)
(* next positions of its stream.                                              *)
LEMMA OneContinues ==
    ASSUME TypeOK, NEW s \in Streams, NEW kind \in {"event", "gap"},
           NEW k \in Nat, NEW form \in {"batch", "shared"}
    PROVE  Continues(OneRecord(s, kind, k, form), total[s], total[s] + k)
<1>1. total[s] \in Nat
  BY DEF TypeOK
<1> QED
  BY <1>1, OneRecordType DEF Continues

(* A push of such a record keeps the accounting exact. *)
LEMMA PushExact ==
    ASSUME TypeOK, ExactGap, NEW s \in Streams, NEW r, NEW w \in Nat,
           Continues(r, total[s], total[s] + w), Push(s, r, w)
    PROVE  ExactGap'
<1> DEFINE q == slots[s]
           c == q \o r
<1>1. q \in Seq(Slot) /\ Len(q) \in Nat /\ total[s] \in Nat
  BY DEF TypeOK
<1>2. /\ r \in Seq(Slot) /\ Len(r) \in Nat \ {0} /\ r[1].pos = total[s]
      /\ r[Len(r)].pos + r[Len(r)].size = total[s] + w
      /\ \A i \in 1..Len(r) - 1 : r[i].pos + r[i].size = r[i+1].pos
  BY DEF Continues
<1>3. /\ slots' = [slots EXCEPT ![s] = c]
      /\ total' = [total EXCEPT ![s] = total[s] + w]
      /\ UNCHANGED <<seen, skipped>>
  BY DEF Push
<1>4. slots'[s] = c /\ total'[s] = total[s] + w
  BY <1>3 DEF TypeOK
<1>5. /\ Len(c) = Len(q) + Len(r)
      /\ \A i \in 1..Len(q) : c[i] = q[i]
      /\ \A i \in 1..Len(r) : c[Len(q) + i] = r[i]
  BY <1>1, <1>2
<1>6. /\ q = <<>> => seen[s] + skipped[s] = total[s]
      /\ q # <<>> => /\ seen[s] + skipped[s] = q[1].pos
                     /\ q[Len(q)].pos + q[Len(q)].size = total[s]
      /\ \A i \in 1..Len(q) - 1 : q[i].pos + q[i].size = q[i+1].pos
  BY DEF ExactGap, Exact
<1>7. c \in Seq(Slot) /\ c # <<>>
  BY <1>1, <1>2
<1>8. q # <<>> <=> Len(q) > 0
  BY <1>1
<1> HIDE DEF q, c
<1>9. seen[s] + skipped[s] = c[1].pos
  <2>1. CASE Len(q) = 0
    <3>1. c[1] = r[1]
      <4>1. 1 \in 1..Len(r) /\ Len(q) + 1 = 1
        BY <1>2, <2>1
      <4> QED
        BY <1>5, <4>1
    <3> QED
      BY <1>2, <1>6, <1>8, <2>1, <3>1
  <2>2. CASE Len(q) > 0
    <3>1. c[1] = q[1]
      BY <1>1, <1>5, <2>2
    <3> QED
      BY <1>6, <1>8, <2>2, <3>1
  <2> QED
    BY <1>1, <2>1, <2>2
<1>10. c[Len(c)].pos + c[Len(c)].size = total[s] + w
  <2>1. c[Len(c)] = r[Len(r)]
    BY <1>1, <1>2, <1>5
  <2> QED
    BY <1>2, <2>1
<1>11. ASSUME NEW i \in 1..Len(c) - 1
       PROVE  c[i].pos + c[i].size = c[i+1].pos
  <2>1. CASE i < Len(q)
    <3>1. c[i] = q[i] /\ c[i+1] = q[i+1] /\ i \in 1..Len(q) - 1
      BY <1>1, <1>2, <1>5, <2>1
    <3> QED
      BY <1>6, <3>1
  <2>2. CASE i = Len(q)
    <3>1. c[i] = q[i] /\ c[i+1] = r[1] /\ Len(q) > 0
      BY <1>1, <1>2, <1>5, <2>2
    <3> QED
      BY <1>2, <1>6, <1>8, <2>2, <3>1
  <2>3. CASE i > Len(q)
    <3> DEFINE j == i - Len(q)
    <3>1. /\ i = Len(q) + j /\ i + 1 = Len(q) + (j + 1)
          /\ j \in 1..Len(r) - 1 /\ j \in 1..Len(r) /\ j + 1 \in 1..Len(r)
      BY <1>1, <1>2, <1>5, <2>3
    <3> HIDE DEF j
    <3>2. c[i] = r[j] /\ c[i+1] = r[j+1]
      BY <1>5, <3>1
    <3> QED
      BY <1>2, <3>1, <3>2
  <2> QED
    BY <1>1, <1>5, <2>1, <2>2, <2>3
<1>12. Exact(s)'
  BY <1>3, <1>4, <1>7, <1>9, <1>10, <1>11 DEF Exact
<1>13. ASSUME NEW t \in Streams, t # s PROVE Exact(t)'
  <2>1. slots'[t] = slots[t] /\ total'[t] = total[t]
    BY <1>3, <1>13 DEF TypeOK
  <2>2. Exact(t)
    BY DEF ExactGap
  <2>3. seen' = seen /\ skipped' = skipped
    BY <1>3
  <2> QED
    BY <2>1, <2>2, <2>3 DEF Exact
<1> QED
  BY <1>12, <1>13 DEF ExactGap

(* Taking the oldest event off keeps the accounting exact when its size goes  *)
(* to what was seen (a pop) or to what is owed as a Gap (an overflow).        *)
LEMMA RemoveExact ==
    ASSUME TypeOK, ExactGap, NEW s \in Streams, slots[s] # <<>>,
           slots' = [slots EXCEPT ![s] = Tail(@)], total' = total,
           seen'[s] + skipped'[s] = seen[s] + skipped[s] + Head(slots[s]).size,
           \A t \in Streams \ {s} : seen'[t] = seen[t] /\ skipped'[t] = skipped[t]
    PROVE  ExactGap'
<1> DEFINE q == slots[s]
           c == Tail(q)
<1>1. /\ q \in Seq(Slot) /\ Len(q) \in Nat \ {0} /\ Head(q) = q[1]
      /\ c \in Seq(Slot) /\ Len(c) = Len(q) - 1
      /\ \A i \in 1..Len(q) - 1 : c[i] = q[i+1]
  BY SlotFacts
<1>2. /\ seen[s] + skipped[s] = q[1].pos
      /\ q[Len(q)].pos + q[Len(q)].size = total[s]
      /\ \A i \in 1..Len(q) - 1 : q[i].pos + q[i].size = q[i+1].pos
  BY DEF ExactGap, Exact
<1>3. slots'[s] = c
  BY DEF TypeOK
<1>4. seen'[s] + skipped'[s] = q[1].pos + q[1].size
  BY <1>1, <1>2
<1> HIDE DEF q, c
<1>5. c # <<>> <=> Len(c) > 0
  BY <1>1
<1>6. ASSUME Len(c) = 0 PROVE Exact(s)'
  <2>1. Len(q) = 1 /\ c = <<>>
    BY <1>1, <1>5, <1>6
  <2>2. seen'[s] + skipped'[s] = total[s]
    BY <1>2, <1>4, <2>1
  <2>3. slots'[s] = <<>> /\ Len(slots'[s]) = 0 /\ total'[s] = total[s]
    BY <1>3, <1>6, <2>1
  <2> QED
    BY <2>2, <2>3 DEF Exact
<1>7. ASSUME Len(c) > 0 PROVE Exact(s)'
  <2>1. c[1] = q[2] /\ c[Len(c)] = q[Len(q)]
    BY <1>1, <1>7
  <2>2. seen'[s] + skipped'[s] = c[1].pos
    <3>1. 1 \in 1..Len(q) - 1
      BY <1>1, <1>7
    <3> QED
      BY <1>2, <1>4, <2>1, <3>1
  <2>3. ASSUME NEW i \in 1..Len(c) - 1
        PROVE  c[i].pos + c[i].size = c[i+1].pos
    <3>1. i \in 1..Len(q) - 1 /\ i + 1 \in 1..Len(q) - 1
      BY <1>1
    <3> QED
      BY <1>1, <1>2, <3>1
  <2>4. c # <<>>
    BY <1>5, <1>7
  <2> QED
    BY <1>2, <1>3, <2>1, <2>2, <2>3, <2>4 DEF Exact
<1>8. Exact(s)'
  <2>1. Len(c) \in Nat
    BY <1>1
  <2> QED
    BY <1>6, <1>7, <2>1
<1>9. ASSUME NEW t \in Streams, t # s PROVE Exact(t)'
  <2>1. slots'[t] = slots[t] /\ total'[t] = total[t]
    BY <1>9 DEF TypeOK
  <2>2. Exact(t)
    BY DEF ExactGap
  <2>3. seen'[t] = seen[t] /\ skipped'[t] = skipped[t]
    BY <1>9
  <2> QED
    BY <2>1, <2>2, <2>3 DEF Exact
<1> QED
  BY <1>8, <1>9 DEF ExactGap

(* Handing out the Gap moves the debt to what was seen. *)
LEMMA PopExact ==
    ASSUME TypeOK, ExactGap, NEW s \in Streams, Pop(s), total' = total
    PROVE  ExactGap'
<1>1. /\ seen \in [Streams -> Nat] /\ skipped \in [Streams -> Nat]
      /\ seen[s] \in Nat /\ skipped[s] \in Nat
  BY DEF TypeOK
<1>2. CASE PopGap(s)
  <2>1. /\ seen'[s] = seen[s] + skipped[s] /\ skipped'[s] = 0
        /\ \A t \in Streams \ {s} : seen'[t] = seen[t] /\ skipped'[t] = skipped[t]
        /\ slots' = slots
    BY <1>1, <1>2 DEF PopGap
  <2>2. \A t \in Streams : seen'[t] + skipped'[t] = seen[t] + skipped[t]
    BY <1>1, <2>1
  <2> QED
    BY <2>1, <2>2 DEF ExactGap, Exact
<1>3. CASE PopRecord(s)
  <2>1. Head(slots[s]).size \in Nat /\ slots[s] # <<>>
    BY <1>3, SlotFacts DEF PopRecord
  <2>2. /\ seen'[s] = seen[s] + Head(slots[s]).size /\ skipped' = skipped
        /\ \A t \in Streams \ {s} : seen'[t] = seen[t]
        /\ slots' = [slots EXCEPT ![s] = Tail(@)]
    BY <1>1, <1>3 DEF PopRecord
  <2>3. seen'[s] + skipped'[s] = seen[s] + skipped[s] + Head(slots[s]).size
    BY <1>1, <2>1, <2>2
  <2> QED
    BY <2>1, <2>2, <2>3, RemoveExact
<1> QED
  BY <1>2, <1>3 DEF Pop

(* Dropping the oldest record on overflow moves its size into the pending Gap. *)
LEMMA DropExact == ASSUME TypeOK, ExactGap, PushDrop PROVE ExactGap'
<1> DEFINE s == target
<1>1. /\ s \in Streams /\ seen[s] \in Nat /\ skipped[s] \in Nat
      /\ skipped \in [Streams -> Nat]
  BY DEF TypeOK
<1>2. slots[s] # <<>>
  BY <1>1, CapacityAssumption DEF TypeOK, PushDrop
<1>3. Head(slots[s]).size \in Nat
  BY <1>1, <1>2, SlotFacts
<1>4. /\ skipped' = [skipped EXCEPT ![s] = @ + Head(slots[s]).size]
      /\ slots' = [slots EXCEPT ![s] = Tail(@)]
      /\ seen' = seen /\ total' = total
  BY DEF PushDrop, LostCount
<1>5. /\ skipped'[s] = skipped[s] + Head(slots[s]).size
      /\ \A t \in Streams \ {s} : skipped'[t] = skipped[t]
  BY <1>1, <1>4
<1>6. seen'[s] + skipped'[s] = seen[s] + skipped[s] + Head(slots[s]).size
  BY <1>1, <1>3, <1>4, <1>5
<1> QED
  BY <1>1, <1>2, <1>4, <1>5, <1>6, RemoveExact

(* Every step of the specification keeps the accounting exact. *)
LEMMA ExactStep == TypeOK /\ ExactGap /\ [Next]_vars => ExactGap'
<1> SUFFICES ASSUME TypeOK, ExactGap, [Next]_vars PROVE ExactGap'
  OBVIOUS
<1>1. ASSUME NEW s \in Streams, NEW n \in 1..MaxBatch, PushBatch(s, n)
      PROVE  ExactGap'
  BY <1>1, BatchContinues, PushExact, BatchAssumption DEF PushBatch
<1>2. ASSUME NEW s \in Streams, NEW form \in {"batch", "shared"},
             PushEvent(s, form)
      PROVE  ExactGap'
  BY <1>2, OneContinues, PushExact DEF PushEvent
<1>3. ASSUME NEW s \in Streams, NEW k \in GapSizes,
             NEW form \in {"batch", "shared"}, PushGap(s, k, form)
      PROVE  ExactGap'
  BY <1>3, OneContinues, PushExact, GapAssumption DEF PushGap
<1>4. CASE PushDrop
  BY <1>4, DropExact
<1>5. CASE ReadPop
  BY <1>5, PopExact DEF ReadPop, TypeOK
<1>6. ASSUME NEW s \in Streams, TryRecvEvent(s)
      PROVE  ExactGap'
  BY <1>6, PopExact DEF TryRecvEvent
<1>7. ASSUME UNCHANGED <<slots, skipped, seen, total>>
      PROVE  ExactGap'
  BY <1>7 DEF ExactGap, Exact
<1>8. CASE \/ PushEnd \/ ReadEnd \/ TryRecvBarrier \/ Flush \/ TakeEvents
           \/ Close \/ UNCHANGED vars
  BY <1>7, <1>8 DEF PushEnd, ReadEnd, TryRecvBarrier, Flush, TakeEvents, Close,
                    vars, queueVars, history
<1>9. ASSUME NEW s \in Streams, NEW max \in 1..MaxTake, NextEvents(s, max)
      PROVE  ExactGap'
  BY <1>7, <1>9 DEF NextEvents, queueVars, history
<1> QED
  BY <1>1, <1>2, <1>3, <1>4, <1>5, <1>6, <1>8, <1>9 DEF Next

(* The types of every reachable state. *)
THEOREM TypeCorrect == Spec => []TypeOK
<1> QED
  BY TypeInit, TypeStep, PTL DEF Spec

(* Whatever the streams, the bound, the batches and the gaps: the consumer's  *)
(* running total is always exact.                                             *)
THEOREM GapAccountingExact == Spec => []ExactGap
<1>1. ASSUME Init, NEW s \in Streams PROVE Exact(s)
  <2>1. /\ slots[s] = <<>> /\ Len(slots[s]) = 0
        /\ seen[s] = 0 /\ skipped[s] = 0 /\ total[s] = 0
    BY <1>1 DEF Init
  <2> QED
    BY <2>1 DEF Exact
<1>2. Init => ExactGap
  BY <1>1 DEF ExactGap
<1> QED
  BY <1>2, TypeCorrect, ExactStep, PTL DEF Spec

-----------------------------------------------------------------------------
(* The sequence numbers that stream s has still to hand out: those of its     *)
(* queued events, and the one at which a pending Gap will be told.            *)
Pending(s) ==
    {slots[s][i].seq : i \in 1..Len(slots[s])}
      \cup {n \in {gap_sequence[s]} : skipped[s] > 0}

(* A queue is in sequence order, behind its pending Gap. *)
Rising(s) ==
    /\ \A i, j \in 1..Len(slots[s]) : i < j => slots[s][i].seq < slots[s][j].seq
    /\ skipped[s] > 0 =>
         \A i \in 1..Len(slots[s]) : gap_sequence[s] < slots[s][i].seq

(* What is pending was numbered, and is later than all that was handed out. *)
InWindow(s) == Pending(s) \subseteq handed + 1 .. sequence

(* No two streams, and no stream and barrier, share a sequence number: the    *)
(* merge never has to break a tie.                                            *)
Apart ==
    /\ \A s, t \in Streams : s # t => Pending(s) \cap Pending(t) = {}
    /\ \A s \in Streams : \A i \in 1..Len(barriers) : barriers[i].seq \notin Pending(s)

(* The barriers are in order and in the same window. *)
BarriersRise ==
    /\ \A i \in 1..Len(barriers) : barriers[i].seq \in handed + 1 .. sequence
    /\ \A i, j \in 1..Len(barriers) : i < j => barriers[i].seq < barriers[j].seq

MergeInv ==
    /\ handed <= sequence
    /\ \A s \in Streams : Rising(s) /\ InWindow(s)
    /\ Apart
    /\ BarriersRise

(* What a barrier stands for: on every stream, whatever is numbered behind it *)
(* was published behind the mark, a Gap that is told behind it included.      *)
Covers(b, s) ==
    /\ b.mark[s] <= total[s]
    /\ \A i \in 1..Len(slots[s]) : slots[s][i].seq > b.seq => slots[s][i].pos >= b.mark[s]
    /\ skipped[s] > 0 /\ gap_sequence[s] > b.seq => seen[s] >= b.mark[s]
BarriersCover ==
    \A i \in 1..Len(barriers) : \A s \in Streams : Covers(barriers[i], s)

(* A signal without a barrier commits the attachment to native reads. *)
BareIsNative == bare => native_started /\ ~transport

(* Numbering: what a push appends takes the next sequence numbers. *)
Numbered(r) ==
    /\ r \in Seq(Slot) /\ Len(r) \in Nat \ {0}
    /\ \A i \in 1..Len(r) : r[i].seq = sequence + i

(* Every queued event has a sequence number and a position. *)
LEMMA QueueSlots ==
    ASSUME TypeOK, NEW s \in Streams
    PROVE  /\ slots[s] \in Seq(Slot) /\ Len(slots[s]) \in Nat
           /\ \A i \in 1..Len(slots[s]) :
                slots[s][i].seq \in Nat /\ slots[s][i].pos \in Nat
<1>1. slots[s] \in Seq(Slot)
  BY DEF TypeOK
<1>2. \A i \in 1..Len(slots[s]) : slots[s][i] \in Slot
  BY <1>1, ElementOfSeq
<1>3. \A x \in Slot : x.seq \in Nat /\ x.pos \in Nat
  BY DEF Slot
<1>4. Len(slots[s]) \in Nat
  BY <1>1
<1> QED
  BY <1>1, <1>2, <1>3, <1>4

(* The front of a queue is what it has to hand out first. *)
LEMMA HeadIsLeast ==
    ASSUME TypeOK, NEW s \in Streams, Rising(s), NonEmpty(s)
    PROVE  /\ HeadSeq(s) \in Pending(s)
           /\ \A n \in Pending(s) : HeadSeq(s) <= n
           /\ HeadSeq(s) \in Nat
<1>1. /\ skipped[s] \in Nat /\ gap_sequence[s] \in Nat /\ slots[s] \in Seq(Slot)
      /\ \A i \in 1..Len(slots[s]) : slots[s][i].seq \in Nat
  BY QueueSlots DEF TypeOK
<1>2. CASE skipped[s] > 0
  BY <1>1, <1>2 DEF HeadSeq, Pending, Rising
<1>3. CASE ~(skipped[s] > 0)
  <2>1. /\ slots[s] # <<>> /\ 1 \in 1..Len(slots[s])
        /\ HeadSeq(s) = slots[s][1].seq
    BY <1>1, <1>3 DEF NonEmpty, HeadSeq
  <2>2. \A i \in 1..Len(slots[s]) : slots[s][1].seq <= slots[s][i].seq
    <3>1. \A i \in 1..Len(slots[s]) : i # 1 => 1 < i
      OBVIOUS
    <3> QED
      BY <1>1, <2>1, <3>1 DEF Rising
  <2> QED
    BY <1>1, <1>3, <2>1, <2>2 DEF Pending
<1> QED
  BY <1>2, <1>3

(* Whatever is pending is a natural number. *)
LEMMA PendingType ==
    ASSUME TypeOK, NEW s \in Streams
    PROVE  Pending(s) \subseteq Nat
<1>1. /\ gap_sequence[s] \in Nat /\ slots[s] \in Seq(Slot)
      /\ \A i \in 1..Len(slots[s]) : slots[s][i].seq \in Nat
  BY QueueSlots DEF TypeOK
<1> QED
  BY <1>1 DEF Pending

(* Removing the front event of a queue: what stays is in order, it was        *)
(* pending, and it is later than what was removed.                            *)
LEMMA FrontGoes ==
    ASSUME TypeOK, NEW s \in Streams, Rising(s), slots[s] # <<>>
    PROVE  /\ \A i, j \in 1..Len(Tail(slots[s])) :
                i < j => Tail(slots[s])[i].seq < Tail(slots[s])[j].seq
           /\ \A i \in 1..Len(Tail(slots[s])) :
                /\ \E j \in 1..Len(slots[s]) : Tail(slots[s])[i] = slots[s][j]
                /\ Head(slots[s]).seq < Tail(slots[s])[i].seq
<1>1. /\ slots[s] \in Seq(Slot) /\ Len(slots[s]) \in Nat \ {0}
      /\ Head(slots[s]) = slots[s][1]
      /\ Len(Tail(slots[s])) = Len(slots[s]) - 1
      /\ \A i \in 1..Len(slots[s]) - 1 : Tail(slots[s])[i] = slots[s][i+1]
  BY SlotFacts
<1>2. \A i, j \in 1..Len(slots[s]) : i < j => slots[s][i].seq < slots[s][j].seq
  BY DEF Rising
<1> DEFINE q == slots[s]
           c == Tail(slots[s])
<1> HIDE DEF q, c
<1>3. /\ Len(q) \in Nat \ {0} /\ Len(c) = Len(q) - 1
      /\ \A i \in 1..Len(q) - 1 : c[i] = q[i+1]
      /\ \A i, j \in 1..Len(q) : i < j => q[i].seq < q[j].seq
      /\ Head(slots[s]) = q[1]
  BY <1>1, <1>2 DEF q, c
<1>4. \A i \in 1..Len(c) : c[i] = q[i+1] /\ i + 1 \in 1..Len(q) /\ 1 < i + 1
  BY <1>3
<1>5. \A i, j \in 1..Len(c) : i < j => c[i].seq < c[j].seq
  <2> SUFFICES ASSUME NEW i \in 1..Len(c), NEW j \in 1..Len(c), i < j
               PROVE  c[i].seq < c[j].seq
    OBVIOUS
  <2>1. i + 1 < j + 1
    BY <1>3
  <2> QED
    BY <1>3, <1>4, <2>1
<1>6. \A i \in 1..Len(c) : (\E j \in 1..Len(q) : c[i] = q[j]) /\ q[1].seq < c[i].seq
  <2>1. 1 \in 1..Len(q)
    BY <1>3
  <2> QED
    BY <1>3, <1>4, <2>1
<1> QED
  BY <1>3, <1>5, <1>6 DEF q, c

(* A pop hands out the front, and leaves only what was pending behind it. *)
LEMMA PopPending ==
    ASSUME TypeOK, NEW s \in Streams, Rising(s), Pop(s)
    PROVE  /\ Rising(s)'
           /\ Pending(s)' \subseteq Pending(s)
           /\ \A n \in Pending(s)' : HeadSeq(s) < n
           /\ \A t \in Streams : t # s => /\ slots'[t] = slots[t]
                                          /\ skipped'[t] = skipped[t]
                                          /\ gap_sequence'[t] = gap_sequence[t]
<1>1. /\ skipped[s] \in Nat /\ gap_sequence[s] \in Nat /\ slots[s] \in Seq(Slot)
      /\ slots \in [Streams -> Seq(Slot)] /\ skipped \in [Streams -> Nat]
  BY DEF TypeOK
<1>2. CASE PopGap(s)
  <2>1. /\ slots' = slots /\ gap_sequence' = gap_sequence
        /\ skipped'[s] = 0 /\ skipped[s] > 0
        /\ \A t \in Streams : t # s => skipped'[t] = skipped[t]
    BY <1>1, <1>2 DEF PopGap
  <2> QED
    BY <1>1, <2>1 DEF Rising, Pending, HeadSeq
<1>3. CASE PopRecord(s)
  <2>1. /\ slots[s] # <<>> /\ slots'[s] = Tail(slots[s])
        /\ skipped' = skipped /\ gap_sequence' = gap_sequence /\ skipped[s] = 0
        /\ \A t \in Streams : t # s => slots'[t] = slots[t]
    BY <1>1, <1>3 DEF PopRecord
  <2>2. HeadSeq(s) = Head(slots[s]).seq
    BY <2>1 DEF HeadSeq
  <2>3. ~(skipped[s] > 0) /\ ~(skipped'[s] > 0)
    BY <2>1
  <2>4. Rising(s)'
    BY <2>1, <2>3, FrontGoes DEF Rising
  <2>5. \A n \in Pending(s)' : n \in Pending(s) /\ HeadSeq(s) < n
    <3>1. \A i \in 1..Len(Tail(slots[s])) :
            Tail(slots[s])[i].seq \in Pending(s) /\ HeadSeq(s) < Tail(slots[s])[i].seq
      BY <2>1, <2>2, FrontGoes DEF Pending
    <3>2. Pending(s)' = {Tail(slots[s])[i].seq : i \in 1..Len(Tail(slots[s]))}
      BY <2>1, <2>3 DEF Pending
    <3> QED
      BY <3>1, <3>2
  <2> QED
    BY <2>1, <2>4, <2>5
<1> QED
  BY <1>2, <1>3 DEF Pop

(* An overflow makes the front a Gap in its own place. *)
LEMMA DropPending ==
    ASSUME TypeOK, Rising(target), PushDrop
    PROVE  /\ target \in Streams
           /\ Rising(target)'
           /\ Pending(target)' \subseteq Pending(target)
           /\ \A t \in Streams : t # target => /\ slots'[t] = slots[t]
                                               /\ skipped'[t] = skipped[t]
                                               /\ gap_sequence'[t] = gap_sequence[t]
<1> DEFINE s == target
<1>1. /\ s \in Streams /\ skipped[s] \in Nat /\ gap_sequence[s] \in Nat
      /\ slots[s] \in Seq(Slot) /\ slots \in [Streams -> Seq(Slot)]
      /\ skipped \in [Streams -> Nat] /\ gap_sequence \in [Streams -> Nat]
  BY DEF TypeOK
<1>2. slots[s] # <<>>
  BY <1>1, CapacityAssumption DEF PushDrop
<1>3. /\ slots'[s] = Tail(slots[s]) /\ target' = target
      /\ gap_sequence'[s] = IF skipped[s] = 0 THEN Head(slots[s]).seq ELSE gap_sequence[s]
      /\ \A t \in Streams : t # s => /\ slots'[t] = slots[t]
                                     /\ skipped'[t] = skipped[t]
                                     /\ gap_sequence'[t] = gap_sequence[t]
  BY <1>1 DEF PushDrop, GapStart, lockVars
<1>4. 1 \in 1..Len(slots[s]) /\ Head(slots[s]) = slots[s][1]
  BY <1>1, <1>2, SlotFacts
<1>5. /\ \A i, j \in 1..Len(Tail(slots[s])) :
           i < j => Tail(slots[s])[i].seq < Tail(slots[s])[j].seq
      /\ \A i \in 1..Len(Tail(slots[s])) :
           /\ \E j \in 1..Len(slots[s]) : Tail(slots[s])[i] = slots[s][j]
           /\ Head(slots[s]).seq < Tail(slots[s])[i].seq
  BY <1>1, <1>2, FrontGoes
<1>6. \A i \in 1..Len(Tail(slots[s])) : gap_sequence'[s] < Tail(slots[s])[i].seq
  <2>1. CASE skipped[s] = 0
    BY <1>3, <1>5, <2>1
  <2>2. CASE skipped[s] > 0
    <3>1. \A j \in 1..Len(slots[s]) : gap_sequence[s] < slots[s][j].seq
      BY <2>2 DEF Rising
    <3>2. gap_sequence'[s] = gap_sequence[s]
      BY <1>3, <2>2
    <3> QED
      BY <1>5, <3>1, <3>2
  <2> QED
    BY <1>1, <2>1, <2>2
<1>7. Rising(s)'
  BY <1>3, <1>5, <1>6 DEF Rising
<1>8. gap_sequence'[s] \in Pending(s)
  <2>1. CASE skipped[s] = 0
    BY <1>3, <1>4, <2>1 DEF Pending
  <2>2. CASE skipped[s] > 0
    BY <1>3, <2>2 DEF Pending
  <2> QED
    BY <1>1, <2>1, <2>2
<1>9. Pending(s)' \subseteq Pending(s)
  <2>1. \A i \in 1..Len(Tail(slots[s])) : Tail(slots[s])[i].seq \in Pending(s)
    BY <1>5 DEF Pending
  <2> QED
    <3>1. \A n \in Pending(s)' :
            \/ n = gap_sequence'[s]
            \/ \E i \in 1..Len(Tail(slots[s])) : n = Tail(slots[s])[i].seq
      BY <1>3 DEF Pending
    <3> QED
      BY <1>8, <2>1, <3>1
<1> QED
  BY <1>1, <1>3, <1>7, <1>9

(* A push appends what it numbered, behind all that was pending. *)
LEMMA PushPending ==
    ASSUME TypeOK, NEW s \in Streams, Rising(s), InWindow(s),
           NEW r, Numbered(r), NEW w, Push(s, r, w)
    PROVE  /\ Rising(s)'
           /\ \A n \in Pending(s)' :
                n \in Pending(s) \/ n \in sequence + 1 .. sequence + Len(r)
           /\ \A t \in Streams : t # s => slots'[t] = slots[t]
           /\ skipped' = skipped /\ gap_sequence' = gap_sequence
<1> DEFINE q == slots[s]
           c == q \o r
<1>1. /\ q \in Seq(Slot) /\ Len(q) \in Nat /\ sequence \in Nat /\ handed \in Nat
      /\ gap_sequence[s] \in Nat /\ skipped[s] \in Nat
      /\ \A i \in 1..Len(q) : q[i].seq \in Nat
  BY QueueSlots DEF TypeOK
<1>2. /\ r \in Seq(Slot) /\ Len(r) \in Nat \ {0}
      /\ \A i \in 1..Len(r) : r[i].seq = sequence + i
  BY DEF Numbered
<1>3. /\ slots'[s] = c /\ \A t \in Streams : t # s => slots'[t] = slots[t]
      /\ skipped' = skipped /\ gap_sequence' = gap_sequence
  BY DEF Push, TypeOK
<1>4. /\ Len(c) = Len(q) + Len(r)
      /\ \A i \in 1..Len(q) : c[i] = q[i]
      /\ \A i \in 1..Len(r) : c[Len(q) + i] = r[i]
  BY <1>1, <1>2
<1>5. /\ \A i, j \in 1..Len(q) : i < j => q[i].seq < q[j].seq
      /\ skipped[s] > 0 => \A i \in 1..Len(q) : gap_sequence[s] < q[i].seq
      /\ \A i \in 1..Len(q) : q[i].seq <= sequence
      /\ skipped[s] > 0 => gap_sequence[s] <= sequence
  BY <1>1 DEF Rising, InWindow, Pending
<1> HIDE DEF q, c
<1>6. \A i \in 1..Len(c) :
        \/ i \in 1..Len(q) /\ c[i] = q[i]
        \/ i - Len(q) \in 1..Len(r) /\ i > Len(q) /\ c[i].seq = sequence + (i - Len(q))
  <2> SUFFICES ASSUME NEW i \in 1..Len(c), ~(i \in 1..Len(q))
               PROVE  /\ i - Len(q) \in 1..Len(r) /\ i > Len(q)
                      /\ c[i].seq = sequence + (i - Len(q))
    BY <1>4
  <2>1. i - Len(q) \in 1..Len(r) /\ i > Len(q) /\ i = Len(q) + (i - Len(q))
    BY <1>1, <1>2, <1>4
  <2> QED
    BY <1>2, <1>4, <2>1
<1>7. \A i, j \in 1..Len(c) : i < j => c[i].seq < c[j].seq
  <2> SUFFICES ASSUME NEW i \in 1..Len(c), NEW j \in 1..Len(c), i < j
               PROVE  c[i].seq < c[j].seq
    OBVIOUS
  <2>0. i \in Int /\ j \in Int
    BY <1>1, <1>2, <1>4
  <2>1. CASE j \in 1..Len(q) /\ c[j] = q[j]
    <3>1. i \in 1..Len(q) /\ c[i] = q[i]
      BY <1>1, <1>4, <2>0, <2>1
    <3> QED
      BY <1>5, <2>1, <3>1
  <2>2. CASE j > Len(q) /\ c[j].seq = sequence + (j - Len(q))
    <3>1. CASE i \in 1..Len(q) /\ c[i] = q[i]
      BY <1>1, <1>5, <2>0, <2>2, <3>1
    <3>2. CASE c[i].seq = sequence + (i - Len(q))
      BY <1>1, <2>0, <2>2, <3>2
    <3> QED
      BY <1>6, <3>1, <3>2
  <2> QED
    BY <1>6, <2>1, <2>2
<1>8. skipped[s] > 0 => \A i \in 1..Len(c) : gap_sequence[s] < c[i].seq
  <2> SUFFICES ASSUME skipped[s] > 0, NEW i \in 1..Len(c)
               PROVE  gap_sequence[s] < c[i].seq
    OBVIOUS
  <2>1. CASE i \in 1..Len(q) /\ c[i] = q[i]
    BY <1>5, <2>1
  <2>2. CASE i > Len(q) /\ c[i].seq = sequence + (i - Len(q))
    <3>1. i \in Int
      BY <1>1, <1>2, <1>4
    <3> QED
      BY <1>1, <1>5, <2>2, <3>1
  <2> QED
    BY <1>6, <2>1, <2>2
<1>9. Rising(s)'
  BY <1>3, <1>7, <1>8 DEF Rising
<1>10. \A i \in 1..Len(c) :
         (\E j \in 1..Len(q) : c[i].seq = q[j].seq)
           \/ c[i].seq \in sequence + 1 .. sequence + Len(r)
  <2> SUFFICES ASSUME NEW i \in 1..Len(c), i - Len(q) \in 1..Len(r),
                      c[i].seq = sequence + (i - Len(q))
               PROVE  c[i].seq \in sequence + 1 .. sequence + Len(r)
    BY <1>6
  <2> QED
    BY <1>1, <1>2
<1>11. \A n \in Pending(s)' :
         n \in Pending(s) \/ n \in sequence + 1 .. sequence + Len(r)
  <2> SUFFICES ASSUME NEW n \in Pending(s)'
               PROVE  n \in Pending(s) \/ n \in sequence + 1 .. sequence + Len(r)
    OBVIOUS
  <2>1. \/ \E i \in 1..Len(c) : n = c[i].seq
        \/ n = gap_sequence[s] /\ skipped[s] > 0
    BY <1>3 DEF Pending
  <2>2. \A j \in 1..Len(q) : q[j].seq \in Pending(s)
    BY DEF Pending, q
  <2>3. skipped[s] > 0 => gap_sequence[s] \in Pending(s)
    BY DEF Pending
  <2> QED
    BY <1>10, <2>1, <2>2, <2>3
<1> QED
  BY <1>3, <1>9, <1>11

(* A stream whose queue a step leaves alone. *)
LEMMA SameQueue ==
    ASSUME NEW t \in Streams, slots'[t] = slots[t], skipped'[t] = skipped[t],
           gap_sequence'[t] = gap_sequence[t]
    PROVE  Pending(t)' = Pending(t) /\ (Rising(t) => Rising(t)')
BY DEF Pending, Rising

(* A step that only takes from the queues keeps the merge in order. *)
LEMMA ShrinkMerge ==
    ASSUME MergeInv, UNCHANGED <<handed, sequence, barriers>>,
           \A t \in Streams : Rising(t)' /\ Pending(t)' \subseteq Pending(t)
    PROVE  MergeInv'
<1>1. \A t \in Streams : InWindow(t)'
  BY DEF MergeInv, InWindow
<1>2. Apart'
  BY DEF MergeInv, Apart
<1>3. BarriersRise' /\ (handed <= sequence)'
  BY DEF MergeInv, BarriersRise
<1> QED
  BY <1>1, <1>2, <1>3 DEF MergeInv

(* A push numbers its events behind all that is pending, on every stream and  *)
(* in the barriers.                                                           *)
LEMMA PushMerge ==
    ASSUME TypeOK, MergeInv, NEW s \in Streams, NEW r, Numbered(r), NEW w,
           Push(s, r, w)
    PROVE  MergeInv'
<1>1. /\ sequence \in Nat /\ handed \in Nat /\ Len(r) \in Nat \ {0}
      /\ sequence' = sequence + Len(r) /\ handed' = handed /\ barriers' = barriers
  BY DEF TypeOK, Push, Numbered
<1>2. /\ Rising(s)'
      /\ \A n \in Pending(s)' :
           n \in Pending(s) \/ n \in sequence + 1 .. sequence + Len(r)
  BY PushPending DEF MergeInv
<1>3. \A t \in Streams : t # s => Pending(t)' = Pending(t) /\ Rising(t)'
  <2> SUFFICES ASSUME NEW t \in Streams, t # s
               PROVE  Pending(t)' = Pending(t) /\ Rising(t)'
    OBVIOUS
  <2>1. /\ slots'[t] = slots[t] /\ skipped'[t] = skipped[t]
        /\ gap_sequence'[t] = gap_sequence[t]
    BY PushPending DEF MergeInv
  <2> QED
    BY <2>1, SameQueue DEF MergeInv
<1>4. \A t \in Streams : \A n \in Pending(t) :
        n \in Nat /\ handed < n /\ n <= sequence
  BY <1>1, PendingType DEF MergeInv, InWindow
<1>5. \A t \in Streams : \A n \in Pending(t)' :
        n \in Pending(t) \/ (t = s /\ n \in sequence + 1 .. sequence + Len(r))
  BY <1>2, <1>3
<1>6. \A t \in Streams : InWindow(t)'
  <2> SUFFICES ASSUME NEW t \in Streams, NEW n \in Pending(t)'
               PROVE  n \in handed + 1 .. sequence + Len(r)
    BY <1>1 DEF InWindow
  <2> QED
    BY <1>1, <1>4, <1>5 DEF MergeInv
<1>7. Apart'
  <2>1. \A t, u \in Streams : t # u => (Pending(t) \cap Pending(u))' = {}
    <3> SUFFICES ASSUME NEW t \in Streams, NEW u \in Streams, t # u,
                        NEW n \in Pending(t)', n \in Pending(u)'
                 PROVE  FALSE
      OBVIOUS
    <3>1. ~(n \in Pending(t) /\ n \in Pending(u))
      BY DEF MergeInv, Apart
    <3> QED
      BY <1>1, <1>4, <1>5, <3>1
  <2>2. \A t \in Streams : \A i \in 1..Len(barriers) : barriers[i].seq \notin Pending(t)'
    <3> SUFFICES ASSUME NEW t \in Streams, NEW i \in 1..Len(barriers),
                        barriers[i].seq \in Pending(t)'
                 PROVE  FALSE
      OBVIOUS
    <3>1. barriers[i].seq \notin Pending(t)
      BY DEF MergeInv, Apart
    <3>2. barriers[i].seq \in handed + 1 .. sequence
      BY DEF MergeInv, BarriersRise
    <3> QED
      BY <1>1, <1>5, <3>1, <3>2
  <2> QED
    BY <1>1, <2>1, <2>2 DEF Apart
<1>8. BarriersRise'
  <2>1. \A i \in 1..Len(barriers) : barriers[i].seq \in handed + 1 .. sequence + Len(r)
    BY <1>1 DEF MergeInv, BarriersRise
  <2> QED
    BY <1>1, <2>1 DEF MergeInv, BarriersRise
<1>9. (handed <= sequence)'
  BY <1>1 DEF MergeInv
<1> QED
  BY <1>2, <1>3, <1>6, <1>7, <1>8, <1>9 DEF MergeInv

(* The transport takes the least front: all that is left, on every stream and *)
(* in the barriers, is later.                                                 *)
LEMMA RecvMerge ==
    ASSUME TypeOK, MergeInv, NEW s \in Streams, TryRecvEvent(s)
    PROVE  MergeInv'
<1>1. /\ sequence \in Nat /\ handed \in Nat /\ NonEmpty(s) /\ Pop(s)
      /\ sequence' = sequence /\ handed' = HeadSeq(s) /\ barriers' = barriers
      /\ \A t \in Streams : NonEmpty(t) => HeadSeq(s) <= HeadSeq(t)
      /\ ~BarrierFirst
  BY DEF TypeOK, TryRecvEvent, LeastHead
<1> DEFINE h == HeadSeq(s)
<1>2. h \in Pending(s) /\ h \in Nat
  BY <1>1, HeadIsLeast DEF MergeInv
<1>3. \A t \in Streams : \A n \in Pending(t) :
        n \in Nat /\ handed < n /\ n <= sequence
  BY <1>1, PendingType DEF MergeInv, InWindow
<1>4. \A t \in Streams : Rising(t)' /\ Pending(t)' \subseteq Pending(t)
  <2> TAKE t \in Streams
  <2>1. CASE t = s
    BY <1>1, <2>1, PopPending DEF MergeInv
  <2>2. CASE t # s
    <3>1. /\ slots'[t] = slots[t] /\ skipped'[t] = skipped[t]
          /\ gap_sequence'[t] = gap_sequence[t]
      BY <1>1, <2>2, PopPending DEF MergeInv
    <3> QED
      BY <3>1, SameQueue DEF MergeInv
  <2> QED
    BY <2>1, <2>2
<1>5. \A t \in Streams : \A n \in Pending(t)' : h < n
  <2> SUFFICES ASSUME NEW t \in Streams, NEW n \in Pending(t)' PROVE h < n
    OBVIOUS
  <2>1. CASE t = s
    BY <1>1, <2>1, PopPending DEF MergeInv
  <2>2. CASE t # s
    <3>1. n \in Pending(t) /\ n \in Nat
      BY <1>3, <1>4
    <3>2. n # h
      BY <1>2, <2>2, <3>1 DEF MergeInv, Apart
    <3>3. NonEmpty(t)
      <4>1. \/ \E i \in 1..Len(slots[t]) : n = slots[t][i].seq
            \/ skipped[t] > 0
        BY <3>1 DEF Pending
      <4>2. slots[t] \in Seq(Slot)
        BY QueueSlots
      <4> QED
        BY <4>1, <4>2 DEF NonEmpty
    <3>4. HeadSeq(t) <= n /\ HeadSeq(t) \in Nat
      BY <3>1, <3>3, HeadIsLeast DEF MergeInv
    <3>5. h <= HeadSeq(t)
      BY <1>1, <3>3
    <3> HIDE DEF h
    <3> QED
      BY <1>2, <3>1, <3>2, <3>4, <3>5
  <2> QED
    BY <2>1, <2>2
<1>6. \A i \in 1..Len(barriers) : h < barriers[i].seq
  <2> SUFFICES ASSUME NEW i \in 1..Len(barriers) PROVE h < barriers[i].seq
    OBVIOUS
  <2>1. barriers \in Seq(Barrier)
    BY DEF TypeOK
  <2>2. barriers # <<>> /\ Head(barriers) = barriers[1] /\ 1 \in 1..Len(barriers)
    BY <2>1
  <2>3. \A j \in 1..Len(barriers) : barriers[j].seq \in handed + 1 .. sequence
    BY DEF MergeInv, BarriersRise
  <2>4. barriers[1].seq <= barriers[i].seq
    <3>1. i = 1 \/ 1 < i
      BY <2>1
    <3>2. barriers[i].seq \in Int /\ barriers[1].seq \in Int
      BY <2>2, <2>3, <1>1
    <3> QED
      BY <2>2, <3>1, <3>2 DEF MergeInv, BarriersRise
  <2>5. PICK t \in Streams : NonEmpty(t) /\ ~(barriers[1].seq < HeadSeq(t))
    BY <1>1, <2>2 DEF BarrierFirst
  <2>6. HeadSeq(t) \in Nat /\ h <= HeadSeq(t)
    BY <1>1, <2>5, HeadIsLeast DEF MergeInv
  <2>7. barriers[1].seq # h
    BY <1>2, <2>2 DEF MergeInv, Apart
  <2>8. barriers[1].seq \in Int /\ barriers[i].seq \in Int
    BY <1>1, <2>2, <2>3
  <2> HIDE DEF h
  <2> QED
    BY <1>2, <2>4, <2>5, <2>6, <2>7, <2>8
<1> HIDE DEF h
<1>7. handed' = h /\ h <= sequence
  BY <1>1, <1>2, <1>3 DEF h
<1>8. \A t \in Streams : InWindow(t)'
  <2> SUFFICES ASSUME NEW t \in Streams, NEW n \in Pending(t)'
               PROVE  n \in h + 1 .. sequence
    BY <1>1, <1>7 DEF InWindow
  <2>1. n \in Nat /\ n <= sequence
    BY <1>3, <1>4
  <2> QED
    BY <1>1, <1>2, <1>5, <2>1
<1>9. Apart'
  BY <1>1, <1>4 DEF MergeInv, Apart
<1>10. BarriersRise'
  <2>1. \A i \in 1..Len(barriers) : barriers[i].seq \in h + 1 .. sequence
    BY <1>1, <1>2, <1>6 DEF MergeInv, BarriersRise
  <2> QED
    BY <1>1, <1>7, <2>1 DEF MergeInv, BarriersRise
<1> QED
  BY <1>1, <1>4, <1>7, <1>8, <1>9, <1>10 DEF MergeInv

(* A barrier is met when nothing pending is before it. *)
LEMMA BarrierMerge == ASSUME TypeOK, MergeInv, TryRecvBarrier PROVE MergeInv'
<1> DEFINE b == Head(barriers).seq
<1>1. /\ sequence \in Nat /\ handed \in Nat /\ barriers \in Seq(Barrier)
      /\ barriers # <<>>
      /\ sequence' = sequence /\ handed' = b /\ barriers' = Tail(barriers)
      /\ slots' = slots /\ skipped' = skipped /\ gap_sequence' = gap_sequence
      /\ \A s \in Streams : NonEmpty(s) => b < HeadSeq(s)
  BY DEF TypeOK, TryRecvBarrier, BarrierFirst, queueVars
<1>2. /\ b = barriers[1].seq /\ 1 \in 1..Len(barriers)
      /\ Len(Tail(barriers)) = Len(barriers) - 1
      /\ \A i \in 1..Len(barriers) - 1 : Tail(barriers)[i] = barriers[i+1]
      /\ Len(barriers) \in Nat \ {0}
  BY <1>1
<1>3. /\ \A i \in 1..Len(barriers) : barriers[i].seq \in handed + 1 .. sequence
      /\ \A i, j \in 1..Len(barriers) : i < j => barriers[i].seq < barriers[j].seq
  BY DEF MergeInv, BarriersRise
<1>4. b \in handed + 1 .. sequence
  BY <1>2, <1>3
<1> HIDE DEF b
<1>5. \A t \in Streams : Pending(t)' = Pending(t) /\ Rising(t)'
  BY <1>1, SameQueue DEF MergeInv
<1>6. \A t \in Streams : InWindow(t)'
  <2> SUFFICES ASSUME NEW t \in Streams, NEW n \in Pending(t)
               PROVE  n \in b + 1 .. sequence
    BY <1>1, <1>5 DEF InWindow
  <2>1. n \in Nat /\ n <= sequence
    BY <1>1, PendingType DEF MergeInv, InWindow
  <2>2. NonEmpty(t)
    <3>1. \/ \E i \in 1..Len(slots[t]) : n = slots[t][i].seq
          \/ skipped[t] > 0
      BY DEF Pending
    <3>2. slots[t] \in Seq(Slot)
      BY QueueSlots
    <3> QED
      BY <3>1, <3>2 DEF NonEmpty
  <2>3. HeadSeq(t) <= n /\ HeadSeq(t) \in Nat
    BY <2>2, HeadIsLeast DEF MergeInv
  <2>4. b < HeadSeq(t)
    BY <1>1, <2>2
  <2> QED
    BY <1>1, <1>4, <2>1, <2>3, <2>4
<1> DEFINE B == Tail(barriers)
<1>7. \A i \in 1..Len(B) : i + 1 \in 1..Len(barriers) /\ B[i] = barriers[i+1] /\ 1 < i + 1
  BY <1>2
<1> HIDE DEF B
<1>8. Apart'
  <2>1. \A t \in Streams : \A i \in 1..Len(B) : B[i].seq \notin Pending(t)
    BY <1>7 DEF MergeInv, Apart
  <2>2. barriers' = B
    BY <1>1 DEF B
  <2> QED
    BY <1>5, <2>1, <2>2 DEF MergeInv, Apart
<1>9. BarriersRise'
  <2>1. \A i \in 1..Len(B) : B[i].seq \in b + 1 .. sequence
    <3> TAKE i \in 1..Len(B)
    <3>1. barriers[1].seq < barriers[i+1].seq /\ barriers[i+1].seq \in handed + 1 .. sequence
      BY <1>2, <1>3, <1>7
    <3> QED
      BY <1>1, <1>2, <1>4, <1>7, <3>1
  <2>2. \A i, j \in 1..Len(B) : i < j => B[i].seq < B[j].seq
    <3> SUFFICES ASSUME NEW i \in 1..Len(B), NEW j \in 1..Len(B), i < j
                 PROVE  B[i].seq < B[j].seq
      OBVIOUS
    <3>1. i + 1 < j + 1
      BY <1>7
    <3> QED
      BY <1>3, <1>7, <3>1
  <2>3. barriers' = B /\ handed' = b /\ sequence' = sequence
    BY <1>1 DEF B
  <2> QED
    BY <2>1, <2>2, <2>3 DEF BarriersRise
<1>10. (handed <= sequence)'
  BY <1>1, <1>4
<1> QED
  BY <1>5, <1>6, <1>8, <1>9, <1>10 DEF MergeInv

(* A flush numbers its barrier behind all that is pending. *)
LEMMA FlushMerge == ASSUME TypeOK, MergeInv, Flush PROVE MergeInv'
<1>1. /\ sequence \in Nat /\ handed \in Nat /\ barriers \in Seq(Barrier)
      /\ slots' = slots /\ skipped' = skipped /\ gap_sequence' = gap_sequence
      /\ handed' = handed
  BY DEF TypeOK, Flush, queueVars
<1>2. \A t \in Streams : Pending(t)' = Pending(t) /\ Rising(t)'
  BY <1>1, SameQueue DEF MergeInv
<1>3. CASE ~transport
  <2>1. UNCHANGED <<handed, sequence, barriers>>
    BY <1>1, <1>3 DEF Flush
  <2> QED
    BY <1>2, <2>1, ShrinkMerge
<1>4. CASE transport
  <2> DEFINE b == [seq |-> sequence + 1, mark |-> total]
             B == Append(barriers, b)
  <2>1. sequence' = sequence + 1 /\ barriers' = B
    BY <1>4 DEF Flush
  <2>2. b.seq = sequence + 1
    OBVIOUS
  <2>3. /\ Len(barriers) \in Nat /\ Len(B) = Len(barriers) + 1
        /\ \A i \in 1..Len(barriers) : B[i] = barriers[i]
        /\ B[Len(barriers) + 1] = b
    BY <1>1
  <2> HIDE DEF b, B
  <2>4. \A i \in 1..Len(B) : (i \in 1..Len(barriers) /\ B[i].seq = barriers[i].seq)
                             \/ (i = Len(barriers) + 1 /\ B[i].seq = sequence + 1)
    BY <2>2, <2>3
  <2>5. /\ \A i \in 1..Len(barriers) : barriers[i].seq \in handed + 1 .. sequence
        /\ \A i, j \in 1..Len(barriers) : i < j => barriers[i].seq < barriers[j].seq
        /\ handed <= sequence
    BY DEF MergeInv, BarriersRise
  <2>6. \A t \in Streams : \A n \in Pending(t) : n \in Nat /\ handed < n /\ n <= sequence
    BY <1>1, PendingType DEF MergeInv, InWindow
  <2>7. \A t \in Streams : InWindow(t)'
    <3> SUFFICES ASSUME NEW t \in Streams, NEW n \in Pending(t)
                 PROVE  n \in handed + 1 .. sequence + 1
      BY <1>1, <1>2, <2>1 DEF InWindow
    <3> QED
      BY <1>1, <2>6
  <2>8. Apart'
    <3>1. \A t \in Streams : \A i \in 1..Len(B) : B[i].seq \notin Pending(t)
      <4> SUFFICES ASSUME NEW t \in Streams, NEW i \in 1..Len(B),
                          B[i].seq \in Pending(t)
                   PROVE  FALSE
        OBVIOUS
      <4> QED
        BY <1>1, <2>4, <2>6 DEF MergeInv, Apart
    <3> QED
      BY <1>2, <2>1, <3>1 DEF MergeInv, Apart
  <2>9. BarriersRise'
    <3>1. \A i \in 1..Len(B) : B[i].seq \in handed + 1 .. sequence + 1
      <4> SUFFICES ASSUME NEW i \in 1..Len(B) PROVE B[i].seq \in handed + 1 .. sequence + 1
        OBVIOUS
      <4>1. CASE i \in 1..Len(barriers) /\ B[i].seq = barriers[i].seq
        <5>1. B[i].seq \in handed + 1 .. sequence
          BY <2>5, <4>1
        <5> QED BY <1>1, <5>1
      <4>2. CASE i = Len(barriers) + 1 /\ B[i].seq = sequence + 1
        BY <1>1, <2>5, <4>2
      <4> QED BY <2>4, <4>1, <4>2
    <3>2. \A i, j \in 1..Len(B) : i < j => B[i].seq < B[j].seq
      <4> SUFFICES ASSUME NEW i \in 1..Len(B), NEW j \in 1..Len(B), i < j
                   PROVE  B[i].seq < B[j].seq
        OBVIOUS
      <4>1. i \in 1..Len(barriers) /\ B[i].seq = barriers[i].seq
        BY <2>3, <2>4
      <4>2. CASE j \in 1..Len(barriers) /\ B[j].seq = barriers[j].seq
        BY <2>5, <4>1, <4>2
      <4>3. CASE B[j].seq = sequence + 1
        <5>1. barriers[i].seq \in handed + 1 .. sequence
          BY <2>5, <4>1
        <5> QED
          BY <1>1, <4>1, <4>3, <5>1
      <4> QED
        BY <2>4, <4>2, <4>3
    <3> QED
      BY <1>1, <2>1, <3>1, <3>2 DEF BarriersRise
  <2>10. (handed <= sequence)'
    BY <1>1, <2>1, <2>5
  <2> QED
    BY <1>2, <2>7, <2>8, <2>9, <2>10 DEF MergeInv
<1> QED
  BY <1>3, <1>4

(* Each record takes the next sequence numbers, behind what was published. *)
LEMMA BatchNumbered ==
    ASSUME TypeOK, NEW s \in Streams, NEW n \in 1..MaxBatch
    PROVE  /\ Numbered(BatchRecord(s, n))
           /\ \A i \in 1..Len(BatchRecord(s, n)) : BatchRecord(s, n)[i].pos >= total[s]
<1>1. n \in Nat \ {0} /\ total[s] \in Nat
  BY BatchAssumption DEF TypeOK
<1>2. /\ BatchRecord(s, n) \in Seq(Slot) /\ Len(BatchRecord(s, n)) = n
      /\ \A i \in 1..n : /\ BatchRecord(s, n)[i].seq = sequence + i
                         /\ BatchRecord(s, n)[i].pos = total[s] + i - 1
  BY BatchRecordType
<1>3. \A i \in 1..n : total[s] + i - 1 >= total[s]
  BY <1>1
<1> QED
  BY <1>1, <1>2, <1>3 DEF Numbered

(* A record built from one event is numbered from what was published so far. *)
LEMMA OneNumbered ==
    ASSUME TypeOK, NEW s \in Streams, NEW kind \in {"event", "gap"}, NEW k \in Nat,
           NEW form \in {"batch", "shared"}
    PROVE  /\ Numbered(OneRecord(s, kind, k, form))
           /\ \A i \in 1..Len(OneRecord(s, kind, k, form)) :
                OneRecord(s, kind, k, form)[i].pos >= total[s]
<1> DEFINE r == OneRecord(s, kind, k, form)
<1>1. /\ r \in Seq(Slot) /\ Len(r) = 1 /\ r[1].seq = sequence + 1 /\ r[1].pos = total[s]
  BY OneRecordType
<1> HIDE DEF r
<1>2. \A i \in 1..Len(r) : i = 1
  BY <1>1
<1>3. Numbered(r) /\ \A i \in 1..Len(r) : r[i].pos >= total[s]
  BY <1>1, <1>2 DEF Numbered, TypeOK
<1> QED
  BY <1>3 DEF r

(* Every step keeps the merge in order. *)
LEMMA MergeStep == TypeOK /\ MergeInv /\ [Next]_vars => MergeInv'
<1> SUFFICES ASSUME TypeOK, MergeInv, [Next]_vars PROVE MergeInv'
  OBVIOUS
<1>1. ASSUME NEW s \in Streams, NEW n \in 1..MaxBatch, PushBatch(s, n)
      PROVE  MergeInv'
  BY <1>1, BatchNumbered, PushMerge DEF PushBatch
<1>2. ASSUME NEW s \in Streams, NEW form \in {"batch", "shared"},
             PushEvent(s, form)
      PROVE  MergeInv'
  BY <1>2, OneNumbered, PushMerge DEF PushEvent
<1>3. ASSUME NEW s \in Streams, NEW k \in GapSizes,
             NEW form \in {"batch", "shared"}, PushGap(s, k, form)
      PROVE  MergeInv'
  BY <1>3, OneNumbered, PushMerge, GapAssumption DEF PushGap
<1>4. CASE PushDrop
  <2>1. target \in Streams /\ Rising(target)
    BY DEF TypeOK, MergeInv
  <2>2. ASSUME NEW t \in Streams PROVE Rising(t)' /\ Pending(t)' \subseteq Pending(t)
    <3>1. CASE t = target
      BY <1>4, <2>1, <3>1, DropPending DEF PushDrop, lockVars
    <3>2. CASE t # target
      <4>1. /\ slots'[t] = slots[t] /\ skipped'[t] = skipped[t]
            /\ gap_sequence'[t] = gap_sequence[t]
        BY <1>4, <2>1, <3>2, DropPending
      <4> QED
        BY <4>1, SameQueue DEF MergeInv
    <3> QED
      BY <3>1, <3>2
  <2> QED
    BY <1>4, <2>2, ShrinkMerge DEF PushDrop
<1>5. CASE ReadPop
  <2>1. target \in Streams /\ Rising(target) /\ Pop(target)
    BY <1>5 DEF TypeOK, MergeInv, ReadPop
  <2>2. ASSUME NEW t \in Streams PROVE Rising(t)' /\ Pending(t)' \subseteq Pending(t)
    <3>1. CASE t = target
      BY <1>5, <2>1, <3>1, PopPending DEF ReadPop
    <3>2. CASE t # target
      <4>1. /\ slots'[t] = slots[t] /\ skipped'[t] = skipped[t]
            /\ gap_sequence'[t] = gap_sequence[t]
        BY <2>1, <3>2, PopPending
      <4> QED
        BY <4>1, SameQueue DEF MergeInv
    <3> QED
      BY <3>1, <3>2
  <2> QED
    BY <1>5, <2>2, ShrinkMerge DEF ReadPop
<1>6. ASSUME NEW s \in Streams, TryRecvEvent(s)
      PROVE  MergeInv'
  BY <1>6, RecvMerge
<1>7. CASE TryRecvBarrier
  BY <1>7, BarrierMerge
<1>8. CASE Flush
  BY <1>8, FlushMerge
<1>9. ASSUME UNCHANGED <<slots, skipped, gap_sequence, handed, sequence, barriers>>
      PROVE  MergeInv'
  <2>1. \A t \in Streams : Rising(t)' /\ Pending(t)' \subseteq Pending(t)
    BY <1>9, SameQueue DEF MergeInv
  <2> QED
    BY <1>9, <2>1, ShrinkMerge
<1>10. CASE PushEnd \/ ReadEnd \/ TakeEvents \/ Close \/ UNCHANGED vars
  BY <1>9, <1>10 DEF PushEnd, ReadEnd, TakeEvents, Close, vars, queueVars, history
<1>11. ASSUME NEW s \in Streams, NEW max \in 1..MaxTake, NextEvents(s, max)
       PROVE  MergeInv'
  BY <1>9, <1>11 DEF NextEvents, queueVars, history
<1> QED
  BY <1>1, <1>2, <1>3, <1>4, <1>5, <1>6, <1>7, <1>8, <1>10, <1>11 DEF Next

(* What no step does to a stream: publish in front of what was published,     *)
(* take back what was told, or begin a Gap before what was already told.      *)
Advances(s) ==
    /\ total[s] <= total'[s] /\ seen[s] <= seen'[s]
    /\ \A i \in 1..Len(slots'[s]) :
         \/ \E j \in 1..Len(slots[s]) : slots'[s][i] = slots[s][j]
         \/ slots'[s][i].pos >= total[s]
    /\ skipped'[s] > 0 =>
         \/ skipped[s] > 0 /\ gap_sequence'[s] = gap_sequence[s]
         \/ \E j \in 1..Len(slots[s]) : /\ gap_sequence'[s] = slots[s][j].seq
                                        /\ seen[s] >= slots[s][j].pos

(* A step that only advances leaves every barrier its meaning. *)
LEMMA CoverKept ==
    ASSUME TypeOK, TypeOK', BarriersCover, \A s \in Streams : Advances(s),
           \A i \in 1..Len(barriers') :
             \E j \in 1..Len(barriers) : barriers'[i] = barriers[j]
    PROVE  BarriersCover'
<1> SUFFICES ASSUME NEW i \in 1..Len(barriers'), NEW s \in Streams
             PROVE  Covers(barriers[i], s)'
  BY DEF BarriersCover
<1>1. PICK j \in 1..Len(barriers) : barriers'[i] = barriers[j]
  OBVIOUS
<1> DEFINE b == barriers[j]
<1>2. /\ b.mark[s] <= total[s]
      /\ \A k \in 1..Len(slots[s]) : slots[s][k].seq > b.seq => slots[s][k].pos >= b.mark[s]
      /\ skipped[s] > 0 /\ gap_sequence[s] > b.seq => seen[s] >= b.mark[s]
  BY DEF BarriersCover, Covers
<1>3. b \in Barrier
  <2>1. barriers \in Seq(Barrier)
    BY DEF TypeOK
  <2> QED
    BY <2>1, ElementOfSeq
<1>4. b.mark[s] \in Nat
  BY <1>3 DEF Barrier
<1>5. /\ total[s] \in Nat /\ total'[s] \in Nat /\ seen[s] \in Nat /\ seen'[s] \in Nat
  BY DEF TypeOK
<1>6. \A k \in 1..Len(slots[s]) : slots[s][k].pos \in Nat
  BY QueueSlots
<1>7. \A k \in 1..Len(slots'[s]) : slots'[s][k].pos \in Nat
  <2>1. slots' \in [Streams -> Seq(Slot)]
    BY DEF TypeOK
  <2>2. slots'[s] \in Seq(Slot)
    BY <2>1
  <2>3. \A k \in 1..Len(slots'[s]) : slots'[s][k] \in Slot
    BY <2>2, ElementOfSeq
  <2>4. \A x \in Slot : x.pos \in Nat
    BY DEF Slot
  <2> QED
    BY <2>3, <2>4
<1> HIDE DEF b
<1>8. b.mark[s] <= total'[s]
  BY <1>2, <1>4, <1>5 DEF Advances
<1>9. \A k \in 1..Len(slots'[s]) : slots'[s][k].seq > b.seq => slots'[s][k].pos >= b.mark[s]
  <2> SUFFICES ASSUME NEW k \in 1..Len(slots'[s]), slots'[s][k].seq > b.seq
               PROVE  slots'[s][k].pos >= b.mark[s]
    OBVIOUS
  <2>1. CASE \E m \in 1..Len(slots[s]) : slots'[s][k] = slots[s][m]
    <3>1. PICK m \in 1..Len(slots[s]) : slots'[s][k] = slots[s][m]
      BY <2>1
    <3>2. slots[s][m].seq > b.seq
      BY <3>1
    <3>3. slots[s][m].pos >= b.mark[s]
      BY <1>2, <3>2
    <3> QED
      BY <3>1, <3>3
  <2>2. CASE slots'[s][k].pos >= total[s]
    <3>1. slots'[s][k].pos \in Nat /\ b.mark[s] <= total[s]
      BY <1>2, <1>7
    <3>2. total[s] \in Nat
      BY <1>5
    <3> QED
      BY <1>4, <2>2, <3>1, <3>2
  <2> QED
    <3>1. \/ \E m \in 1..Len(slots[s]) : slots'[s][k] = slots[s][m]
          \/ slots'[s][k].pos >= total[s]
      BY DEF Advances
    <3> QED
      BY <2>1, <2>2, <3>1
<1>10. skipped'[s] > 0 /\ gap_sequence'[s] > b.seq => seen'[s] >= b.mark[s]
  <2> SUFFICES ASSUME skipped'[s] > 0, gap_sequence'[s] > b.seq
               PROVE  seen[s] >= b.mark[s]
    BY <1>4, <1>5 DEF Advances
  <2>1. CASE skipped[s] > 0 /\ gap_sequence'[s] = gap_sequence[s]
    BY <1>2, <2>1
  <2>2. CASE \E k \in 1..Len(slots[s]) : /\ gap_sequence'[s] = slots[s][k].seq
                                         /\ seen[s] >= slots[s][k].pos
    <3>1. PICK k \in 1..Len(slots[s]) : /\ gap_sequence'[s] = slots[s][k].seq
                                        /\ seen[s] >= slots[s][k].pos
      BY <2>2
    <3>2. slots[s][k].pos >= b.mark[s] /\ slots[s][k].pos \in Nat
      BY <1>2, <1>6, <3>1
    <3> QED
      BY <1>4, <1>5, <3>1, <3>2
  <2> QED
    <3>1. \/ skipped[s] > 0 /\ gap_sequence'[s] = gap_sequence[s]
          \/ \E k \in 1..Len(slots[s]) : /\ gap_sequence'[s] = slots[s][k].seq
                                         /\ seen[s] >= slots[s][k].pos
      BY DEF Advances
    <3> QED
      BY <2>1, <2>2, <3>1
<1>11. barriers'[i] = b
  BY <1>1 DEF b
<1> QED
  BY <1>8, <1>9, <1>10, <1>11 DEF Covers

(* A stream whose queue and counts a step leaves alone. *)
LEMMA RestAdvances ==
    ASSUME TypeOK, NEW t \in Streams, slots'[t] = slots[t], skipped'[t] = skipped[t],
           gap_sequence'[t] = gap_sequence[t], total'[t] = total[t], seen'[t] = seen[t]
    PROVE  Advances(t)
<1>1. total[t] \in Nat /\ seen[t] \in Nat
  BY DEF TypeOK
<1> QED
  BY <1>1 DEF Advances

(* A push publishes behind what was published. *)
LEMMA PushAdvances ==
    ASSUME TypeOK, NEW s \in Streams, NEW r, Numbered(r), NEW w \in Nat,
           \A i \in 1..Len(r) : r[i].pos >= total[s], Push(s, r, w)
    PROVE  \A t \in Streams : Advances(t)
<1>1. /\ slots' = [slots EXCEPT ![s] = @ \o r] /\ total' = [total EXCEPT ![s] = @ + w]
      /\ skipped' = skipped /\ gap_sequence' = gap_sequence /\ seen' = seen
  BY DEF Push
<1>2. /\ slots[s] \in Seq(Slot) /\ slots \in [Streams -> Seq(Slot)] /\ r \in Seq(Slot)
      /\ total \in [Streams -> Nat] /\ total[s] \in Nat /\ seen[s] \in Nat
  BY DEF TypeOK, Numbered
<1>3. ASSUME NEW t \in Streams, t # s PROVE Advances(t)
  BY <1>1, <1>2, <1>3, RestAdvances
<1>4. /\ slots'[s] = slots[s] \o r /\ total'[s] = total[s] + w
  BY <1>1, <1>2
<1>5. \A i \in 1..Len(slots[s] \o r) :
        \/ \E j \in 1..Len(slots[s]) : (slots[s] \o r)[i] = slots[s][j]
        \/ (slots[s] \o r)[i].pos >= total[s]
  <2> DEFINE q == slots[s]
             c == q \o r
  <2>1. /\ Len(q) \in Nat /\ Len(r) \in Nat /\ Len(c) = Len(q) + Len(r)
        /\ \A i \in 1..Len(q) : c[i] = q[i]
        /\ \A i \in 1..Len(r) : c[Len(q) + i] = r[i]
    BY <1>2
  <2> HIDE DEF q, c
  <2>2. ASSUME NEW i \in 1..Len(c)
        PROVE  (\E j \in 1..Len(q) : c[i] = q[j]) \/ c[i].pos >= total[s]
    <3>1. CASE i \in 1..Len(q)
      BY <2>1, <3>1
    <3>2. CASE i \notin 1..Len(q)
      <4>1. i - Len(q) \in 1..Len(r) /\ i = Len(q) + (i - Len(q))
        BY <2>1, <3>2
      <4>2. c[i] = r[i - Len(q)]
        BY <2>1, <4>1
      <4> QED
        BY <4>1, <4>2
    <3> QED
      BY <3>1, <3>2
  <2> QED
    BY <2>2 DEF q, c
<1>6. total[s] <= total'[s] /\ seen[s] <= seen'[s]
  BY <1>1, <1>2, <1>4
<1>7. Advances(s)
  BY <1>1, <1>4, <1>5, <1>6 DEF Advances
<1> QED
  BY <1>3, <1>7

(* A pop tells what was next. *)
LEMMA PopAdvances ==
    ASSUME TypeOK, NEW s \in Streams, Pop(s), total' = total
    PROVE  \A t \in Streams : Advances(t)
<1>1. /\ seen \in [Streams -> Nat] /\ skipped \in [Streams -> Nat]
      /\ slots \in [Streams -> Seq(Slot)] /\ total[s] \in Nat
      /\ seen[s] \in Nat /\ skipped[s] \in Nat /\ slots[s] \in Seq(Slot)
  BY DEF TypeOK
<1>2. CASE PopGap(s)
  <2>1. /\ seen'[s] = seen[s] + skipped[s] /\ skipped'[s] = 0
        /\ slots' = slots /\ gap_sequence' = gap_sequence
        /\ \A t \in Streams : t # s => seen'[t] = seen[t] /\ skipped'[t] = skipped[t]
    BY <1>1, <1>2 DEF PopGap
  <2>2. Advances(s)
    BY <1>1, <2>1 DEF Advances
  <2>3. ASSUME NEW t \in Streams, t # s PROVE Advances(t)
    BY <2>1, <2>3, RestAdvances
  <2> QED
    BY <2>2, <2>3
<1>3. CASE PopRecord(s)
  <2>1. /\ slots[s] # <<>> /\ skipped' = skipped /\ gap_sequence' = gap_sequence
        /\ seen'[s] = seen[s] + Head(slots[s]).size /\ slots'[s] = Tail(slots[s])
        /\ \A t \in Streams : t # s => seen'[t] = seen[t] /\ slots'[t] = slots[t]
    BY <1>1, <1>3 DEF PopRecord
  <2>2. /\ Head(slots[s]).size \in Nat /\ Len(slots[s]) \in Nat \ {0}
        /\ Len(Tail(slots[s])) = Len(slots[s]) - 1
        /\ \A i \in 1..Len(slots[s]) - 1 : Tail(slots[s])[i] = slots[s][i+1]
    BY <2>1, SlotFacts
  <2>3. \A i \in 1..Len(Tail(slots[s])) :
          \E j \in 1..Len(slots[s]) : Tail(slots[s])[i] = slots[s][j]
    <3> DEFINE q == slots[s]
               c == Tail(slots[s])
    <3>1. /\ Len(q) \in Nat \ {0} /\ Len(c) = Len(q) - 1
          /\ \A i \in 1..Len(q) - 1 : c[i] = q[i+1]
      BY <2>2
    <3> HIDE DEF q, c
    <3>2. \A i \in 1..Len(c) : i + 1 \in 1..Len(q) /\ c[i] = q[i+1]
      BY <3>1
    <3> QED
      BY <3>2 DEF q, c
  <2>4. seen[s] <= seen'[s]
    BY <1>1, <2>1, <2>2
  <2>5. Advances(s)
    BY <1>1, <2>1, <2>3, <2>4 DEF Advances
  <2>6. ASSUME NEW t \in Streams, t # s PROVE Advances(t)
    BY <2>1, <2>6, RestAdvances
  <2> QED
    BY <2>5, <2>6
<1> QED
  BY <1>2, <1>3 DEF Pop

(* An overflow begins its Gap where the telling has come to, which the exact  *)
(* accounting says is the position of the event it drops.                     *)
LEMMA DropAdvances ==
    ASSUME TypeOK, ExactGap, PushDrop
    PROVE  \A t \in Streams : Advances(t)
<1> DEFINE s == target
<1>1. /\ s \in Streams /\ skipped[s] \in Nat /\ slots \in [Streams -> Seq(Slot)]
      /\ slots[s] \in Seq(Slot) /\ total[s] \in Nat /\ seen[s] \in Nat
      /\ skipped \in [Streams -> Nat] /\ gap_sequence \in [Streams -> Nat]
  BY DEF TypeOK
<1>2. slots[s] # <<>>
  BY <1>1, CapacityAssumption DEF PushDrop
<1>3. /\ slots'[s] = Tail(slots[s]) /\ total' = total /\ seen' = seen
      /\ gap_sequence'[s] = IF skipped[s] = 0 THEN Head(slots[s]).seq ELSE gap_sequence[s]
      /\ \A t \in Streams : t # s => /\ slots'[t] = slots[t]
                                     /\ skipped'[t] = skipped[t]
                                     /\ gap_sequence'[t] = gap_sequence[t]
  BY <1>1 DEF PushDrop, GapStart
<1>4. /\ Len(slots[s]) \in Nat \ {0} /\ Head(slots[s]) = slots[s][1]
      /\ Len(Tail(slots[s])) = Len(slots[s]) - 1
      /\ \A i \in 1..Len(slots[s]) - 1 : Tail(slots[s])[i] = slots[s][i+1]
      /\ Head(slots[s]).pos \in Nat
  BY <1>1, <1>2, SlotFacts
<1>5. seen[s] + skipped[s] = slots[s][1].pos
  BY <1>1, <1>2 DEF ExactGap, Exact
<1>6. \A i \in 1..Len(Tail(slots[s])) :
        \E j \in 1..Len(slots[s]) : Tail(slots[s])[i] = slots[s][j]
  <2> DEFINE q == slots[s]
             c == Tail(slots[s])
  <2>1. /\ Len(q) \in Nat \ {0} /\ Len(c) = Len(q) - 1
        /\ \A i \in 1..Len(q) - 1 : c[i] = q[i+1]
    BY <1>4
  <2> HIDE DEF q, c
  <2>2. \A i \in 1..Len(c) : i + 1 \in 1..Len(q) /\ c[i] = q[i+1]
    BY <2>1
  <2> QED
    BY <2>2 DEF q, c
<1>7. \/ skipped[s] > 0 /\ gap_sequence'[s] = gap_sequence[s]
      \/ \E j \in 1..Len(slots[s]) : /\ gap_sequence'[s] = slots[s][j].seq
                                     /\ seen[s] >= slots[s][j].pos
  <2>1. CASE skipped[s] = 0
    <3>1. /\ 1 \in 1..Len(slots[s]) /\ gap_sequence'[s] = slots[s][1].seq
          /\ seen[s] >= slots[s][1].pos
      BY <1>1, <1>3, <1>4, <1>5, <2>1
    <3> QED
      BY <3>1
  <2>2. CASE skipped[s] > 0
    BY <1>3, <2>2
  <2> QED
    BY <1>1, <2>1, <2>2
<1>8. Advances(s)
  BY <1>1, <1>3, <1>6, <1>7 DEF Advances
<1>9. ASSUME NEW t \in Streams, t # s PROVE Advances(t)
  BY <1>3, <1>9, RestAdvances
<1> QED
  BY <1>8, <1>9

(* A step that leaves queues and counts alone, with no new barrier. *)
LEMMA RestCover ==
    ASSUME TypeOK, TypeOK', BarriersCover,
           UNCHANGED <<slots, skipped, gap_sequence, total, seen>>,
           \A i \in 1..Len(barriers') :
             \E j \in 1..Len(barriers) : barriers'[i] = barriers[j]
    PROVE  BarriersCover'
<1>1. \A t \in Streams : Advances(t)
  BY RestAdvances
<1> QED
  BY <1>1, CoverKept

(* A new barrier stands for all that was published: nothing is numbered       *)
(* behind it yet.                                                             *)
LEMMA FlushCover ==
    ASSUME TypeOK, TypeOK', MergeInv, BarriersCover, Flush
    PROVE  BarriersCover'
<1>1. /\ slots' = slots /\ skipped' = skipped /\ gap_sequence' = gap_sequence
      /\ total' = total /\ seen' = seen /\ barriers \in Seq(Barrier)
  BY DEF Flush, queueVars, TypeOK
<1>2. CASE ~transport
  <2>1. barriers' = barriers
    BY <1>2 DEF Flush
  <2> QED
    BY <1>1, <2>1, RestCover
<1>3. CASE transport
  <2> DEFINE b == [seq |-> sequence + 1, mark |-> total]
  <2>1. barriers' = Append(barriers, b)
    BY <1>3 DEF Flush
  <2>2. \A i \in 1..Len(barriers') :
          (\E j \in 1..Len(barriers) : barriers'[i] = barriers[j]) \/ barriers'[i] = b
    <3> DEFINE B == Append(barriers, b)
    <3>1. /\ Len(barriers) \in Nat /\ Len(B) = Len(barriers) + 1
          /\ \A i \in 1..Len(barriers) : B[i] = barriers[i]
          /\ B[Len(barriers) + 1] = b
      BY <1>1
    <3> HIDE DEF b, B
    <3>2. \A i \in 1..Len(B) : i \in 1..Len(barriers) \/ i = Len(barriers) + 1
      BY <3>1
    <3>3. \A i \in 1..Len(B) :
            (\E j \in 1..Len(barriers) : B[i] = barriers[j]) \/ B[i] = b
      BY <3>1, <3>2
    <3> QED
      BY <2>1, <3>3 DEF B
  <2>3. ASSUME NEW s \in Streams PROVE Covers(b, s)
    <3>1. /\ sequence \in Nat /\ total[s] \in Nat
      BY DEF TypeOK
    <3>2. \A n \in Pending(s) : n \in Nat /\ n <= sequence
      BY PendingType DEF MergeInv, InWindow
    <3>3. \A i \in 1..Len(slots[s]) : ~(slots[s][i].seq > sequence + 1)
      <4>1. \A i \in 1..Len(slots[s]) : slots[s][i].seq \in Pending(s)
        BY DEF Pending
      <4> QED
        BY <3>1, <3>2, <4>1
    <3>4. skipped[s] > 0 => ~(gap_sequence[s] > sequence + 1)
      <4>1. skipped[s] > 0 => gap_sequence[s] \in Pending(s)
        BY DEF Pending
      <4> QED
        BY <3>1, <3>2, <4>1
    <3> QED
      BY <3>1, <3>3, <3>4 DEF Covers
  <2> HIDE DEF b
  <2> SUFFICES ASSUME NEW i \in 1..Len(barriers'), NEW s \in Streams
               PROVE  Covers(barriers[i], s)'
    BY DEF BarriersCover
  <2>4. PICK c : barriers'[i] = c /\ Covers(c, s)
    BY <2>2, <2>3 DEF BarriersCover
  <2> QED
    BY <1>1, <2>4 DEF Covers
<1> QED
  BY <1>2, <1>3

(* Every step keeps what the barriers stand for. *)
LEMMA CoverStep ==
    TypeOK /\ TypeOK' /\ ExactGap /\ MergeInv /\ BarriersCover /\ [Next]_vars
      => BarriersCover'
<1> SUFFICES ASSUME TypeOK, TypeOK', ExactGap, MergeInv, BarriersCover, [Next]_vars
             PROVE  BarriersCover'
  OBVIOUS
<1>0. ASSUME barriers' = barriers, \A t \in Streams : Advances(t)
      PROVE  BarriersCover'
  BY <1>0, CoverKept
<1>1. ASSUME NEW s \in Streams, NEW n \in 1..MaxBatch, PushBatch(s, n)
      PROVE  BarriersCover'
  <2>1. n \in Nat /\ Push(s, BatchRecord(s, n), n) /\ barriers' = barriers
    BY <1>1, BatchAssumption DEF PushBatch, Push
  <2> QED
    BY <1>0, <2>1, BatchNumbered, PushAdvances
<1>2. ASSUME NEW s \in Streams, NEW form \in {"batch", "shared"},
             PushEvent(s, form)
      PROVE  BarriersCover'
  <2>1. Push(s, OneRecord(s, "event", 1, form), 1) /\ barriers' = barriers
    BY <1>2 DEF PushEvent, Push
  <2> QED
    BY <1>0, <2>1, OneNumbered, PushAdvances
<1>3. ASSUME NEW s \in Streams, NEW k \in GapSizes,
             NEW form \in {"batch", "shared"}, PushGap(s, k, form)
      PROVE  BarriersCover'
  <2>1. k \in Nat /\ Push(s, OneRecord(s, "gap", k, form), k) /\ barriers' = barriers
    BY <1>3, GapAssumption DEF PushGap, Push
  <2> QED
    BY <1>0, <2>1, OneNumbered, PushAdvances
<1>4. CASE PushDrop
  BY <1>0, <1>4, DropAdvances DEF PushDrop
<1>5. CASE ReadPop
  BY <1>0, <1>5, PopAdvances DEF ReadPop, TypeOK
<1>6. ASSUME NEW s \in Streams, TryRecvEvent(s)
      PROVE  BarriersCover'
  BY <1>0, <1>6, PopAdvances DEF TryRecvEvent
<1>7. CASE TryRecvBarrier
  <2>1. /\ barriers \in Seq(Barrier) /\ barriers # <<>> /\ barriers' = Tail(barriers)
        /\ UNCHANGED <<slots, skipped, gap_sequence, total, seen>>
    BY <1>7 DEF TryRecvBarrier, BarrierFirst, TypeOK, queueVars
  <2> DEFINE B == Tail(barriers)
  <2>2. /\ Len(barriers) \in Nat \ {0} /\ Len(B) = Len(barriers) - 1
        /\ \A i \in 1..Len(barriers) - 1 : B[i] = barriers[i+1]
    BY <2>1
  <2> HIDE DEF B
  <2>3. \A i \in 1..Len(B) : i + 1 \in 1..Len(barriers) /\ B[i] = barriers[i+1]
    BY <2>2
  <2>4. \A i \in 1..Len(B) : \E j \in 1..Len(barriers) : B[i] = barriers[j]
    BY <2>3
  <2>5. barriers' = B
    BY <2>1 DEF B
  <2> QED
    BY <2>1, <2>4, <2>5, RestCover
<1>8. CASE Flush
  BY <1>8, FlushCover
<1>9. ASSUME UNCHANGED <<slots, skipped, gap_sequence, total, seen, barriers>>
      PROVE  BarriersCover'
  BY <1>9, RestCover
<1>10. CASE PushEnd \/ ReadEnd \/ TakeEvents \/ Close \/ UNCHANGED vars
  BY <1>9, <1>10 DEF PushEnd, ReadEnd, TakeEvents, Close, vars, queueVars, history
<1>11. ASSUME NEW s \in Streams, NEW max \in 1..MaxTake, NextEvents(s, max)
       PROVE  BarriersCover'
  BY <1>9, <1>11 DEF NextEvents, queueVars, history
<1> QED
  BY <1>1, <1>2, <1>3, <1>4, <1>5, <1>6, <1>7, <1>8, <1>10, <1>11 DEF Next

(* At a barrier that is first, the telling has passed the mark everywhere. *)
LEMMA MeetsCovered ==
    ASSUME TypeOK, ExactGap, BarriersCover, BarrierFirst, NEW s \in Streams
    PROVE  Head(barriers).mark[s] <= seen[s]
<1> DEFINE b == barriers[1]
<1>1. barriers \in Seq(Barrier) /\ barriers # <<>>
  BY DEF TypeOK, BarrierFirst
<1>2. Head(barriers) = b /\ 1 \in 1..Len(barriers) /\ b \in Barrier
  BY <1>1
<1>3. b.mark[s] \in Nat /\ b.seq \in Nat
  BY <1>2 DEF Barrier
<1>4. Covers(b, s)
  BY <1>2 DEF BarriersCover
<1>5. NonEmpty(s) => b.seq < HeadSeq(s)
  BY <1>2 DEF BarrierFirst
<1> HIDE DEF b
<1>6. /\ seen[s] \in Nat /\ skipped[s] \in Nat /\ total[s] \in Nat
      /\ gap_sequence[s] \in Nat
  BY DEF TypeOK
<1>7. Exact(s)
  BY DEF ExactGap
<1>8. CASE skipped[s] > 0
  BY <1>2, <1>3, <1>4, <1>5, <1>6, <1>8 DEF NonEmpty, HeadSeq, Covers
<1>9. CASE skipped[s] = 0 /\ slots[s] = <<>>
  <2>1. seen[s] = total[s]
    BY <1>6, <1>7, <1>9 DEF Exact
  <2> QED
    BY <1>2, <1>4, <2>1 DEF Covers
<1>10. CASE skipped[s] = 0 /\ slots[s] # <<>>
  <2>1. /\ Head(slots[s]) = slots[s][1] /\ Head(slots[s]).seq \in Nat
        /\ Head(slots[s]).pos \in Nat /\ 1 \in 1..Len(slots[s])
    BY <1>10, SlotFacts
  <2>2. b.seq < slots[s][1].seq
    BY <1>5, <1>6, <1>10, <2>1 DEF NonEmpty, HeadSeq
  <2>3. slots[s][1].pos >= b.mark[s]
    BY <1>3, <1>4, <2>1, <2>2 DEF Covers
  <2>4. seen[s] = slots[s][1].pos
    BY <1>6, <1>7, <1>10, <2>1 DEF Exact
  <2> QED
    BY <1>2, <1>3, <1>6, <2>3, <2>4
<1> QED
  BY <1>6, <1>8, <1>9, <1>10

(* Every step keeps the last mark behind what was told. *)
LEMMA MetStep ==
    TypeOK /\ TypeOK' /\ ExactGap /\ BarriersCover /\ BarrierCoversPublished
      /\ [Next]_vars => BarrierCoversPublished'
<1> SUFFICES ASSUME TypeOK, TypeOK', ExactGap, BarriersCover, BarrierCoversPublished,
                    [Next]_vars
             PROVE  BarrierCoversPublished'
  OBVIOUS
<1>0. \A s \in Streams : seen[s] \in Nat /\ met[s] \in Nat /\ seen'[s] \in Nat
  BY DEF TypeOK
<1>1. ASSUME met' = met, \A t \in Streams : Advances(t)
      PROVE  BarrierCoversPublished'
  BY <1>0, <1>1 DEF BarrierCoversPublished, Advances
<1>2. ASSUME NEW s \in Streams, Pop(s), met' = met, total' = total
      PROVE  BarrierCoversPublished'
  BY <1>1, <1>2, PopAdvances
<1>3. CASE TryRecvBarrier
  <2>1. met' = Head(barriers).mark /\ seen' = seen /\ BarrierFirst
    BY <1>3 DEF TryRecvBarrier
  <2>2. Head(barriers).mark \in [Streams -> Nat]
    <3>1. barriers \in Seq(Barrier) /\ barriers # <<>>
      BY <2>1 DEF BarrierFirst, TypeOK
    <3>2. Head(barriers) \in Barrier
      BY <3>1
    <3> QED
      BY <3>2 DEF Barrier
  <2> QED
    BY <1>0, <2>1, <2>2, MeetsCovered DEF BarrierCoversPublished
<1>4. ASSUME UNCHANGED <<met, seen>>
      PROVE  BarrierCoversPublished'
  BY <1>4 DEF BarrierCoversPublished
<1>5. ASSUME NEW s \in Streams, NEW r, NEW w, Push(s, r, w)
      PROVE  BarrierCoversPublished'
  BY <1>4, <1>5 DEF Push
<1>6. ASSUME NEW s \in Streams, NEW n \in 1..MaxBatch, PushBatch(s, n)
      PROVE  BarrierCoversPublished'
  BY <1>5, <1>6 DEF PushBatch
<1>7. ASSUME NEW s \in Streams, NEW form \in {"batch", "shared"},
             PushEvent(s, form)
      PROVE  BarrierCoversPublished'
  BY <1>5, <1>7 DEF PushEvent
<1>8. ASSUME NEW s \in Streams, NEW k \in GapSizes,
             NEW form \in {"batch", "shared"}, PushGap(s, k, form)
      PROVE  BarrierCoversPublished'
  BY <1>5, <1>8 DEF PushGap
<1>9. CASE ReadPop
  BY <1>2, <1>9 DEF ReadPop, TypeOK
<1>10. ASSUME NEW s \in Streams, TryRecvEvent(s)
       PROVE  BarrierCoversPublished'
  BY <1>2, <1>10 DEF TryRecvEvent
<1>11. CASE PushDrop \/ PushEnd \/ ReadEnd \/ Flush \/ TakeEvents \/ Close
            \/ UNCHANGED vars
  BY <1>4, <1>11 DEF PushDrop, PushEnd, ReadEnd, Flush, TakeEvents, Close, vars, history
<1>12. ASSUME NEW s \in Streams, NEW max \in 1..MaxTake, NextEvents(s, max)
       PROVE  BarrierCoversPublished'
  BY <1>4, <1>12 DEF NextEvents, history
<1> QED
  BY <1>3, <1>6, <1>7, <1>8, <1>9, <1>10, <1>11, <1>12 DEF Next

(* The empty queues are in order. *)
LEMMA MergeInit ==
    Init => MergeInv /\ BarriersCover /\ BarrierCoversPublished
<1> SUFFICES ASSUME Init PROVE MergeInv /\ BarriersCover /\ BarrierCoversPublished
  OBVIOUS
<1>1. 1..Len(barriers) = {} /\ handed = 0 /\ sequence = 0
  BY DEF Init
<1>2. ASSUME NEW s \in Streams PROVE Pending(s) = {} /\ Rising(s)
  <2>1. 1..Len(slots[s]) = {}
    BY DEF Init
  <2>2. ~(skipped[s] > 0)
    BY DEF Init
  <2> QED
    BY <2>1, <2>2 DEF Pending, Rising
<1>3. MergeInv
  BY <1>1, <1>2 DEF MergeInv, InWindow, Apart, BarriersRise
<1>4. BarriersCover
  BY <1>1 DEF BarriersCover
<1>5. BarrierCoversPublished
  <2> SUFFICES ASSUME NEW s \in Streams PROVE seen[s] >= met[s]
    BY DEF BarrierCoversPublished
  <2>1. seen[s] = 0 /\ met[s] = 0
    BY DEF Init
  <2> QED
    BY <2>1
<1> QED
  BY <1>3, <1>4, <1>5

(* In order of numbers is in order of hand-out. *)
LEMMA MergeOrders == TypeOK /\ MergeInv => MergedOrder
<1> SUFFICES ASSUME TypeOK, MergeInv PROVE MergedOrder
  OBVIOUS
<1>1. handed \in Nat /\ sequence \in Nat
  BY DEF TypeOK
<1>2. \A s \in Streams : NonEmpty(s) => HeadSeq(s) > handed
  <2> SUFFICES ASSUME NEW s \in Streams, NonEmpty(s) PROVE HeadSeq(s) > handed
    OBVIOUS
  <2>1. HeadSeq(s) \in Pending(s)
    BY HeadIsLeast DEF MergeInv
  <2>2. HeadSeq(s) \in handed + 1 .. sequence
    BY <2>1 DEF MergeInv, InWindow
  <2> QED
    BY <1>1, <2>2
<1>3. \A i \in 1..Len(barriers) : barriers[i].seq > handed
  BY <1>1 DEF MergeInv, BarriersRise
<1> QED
  BY <1>2, <1>3 DEF MergedOrder

(* Only TakeEvents makes a transport, and not after native reads began. *)
LEMMA BareStep == TypeOK /\ BareIsNative /\ [Next]_vars => BareIsNative'
<1> SUFFICES ASSUME TypeOK, BareIsNative, [Next]_vars PROVE BareIsNative'
  OBVIOUS
<1>1. ASSUME UNCHANGED <<bare, native_started, transport>> PROVE BareIsNative'
  BY <1>1 DEF BareIsNative
<1>2. ASSUME NEW s \in Streams, NEW r, NEW w, Push(s, r, w)
      PROVE  BareIsNative'
  BY <1>1, <1>2 DEF Push, modeVars
<1>3. ASSUME NEW s \in Streams, NEW n \in 1..MaxBatch, PushBatch(s, n)
      PROVE  BareIsNative'
  BY <1>2, <1>3 DEF PushBatch
<1>4. ASSUME NEW s \in Streams, NEW form \in {"batch", "shared"},
             PushEvent(s, form)
      PROVE  BareIsNative'
  BY <1>2, <1>4 DEF PushEvent
<1>5. ASSUME NEW s \in Streams, NEW k \in GapSizes,
             NEW form \in {"batch", "shared"}, PushGap(s, k, form)
      PROVE  BareIsNative'
  BY <1>2, <1>5 DEF PushGap
<1>6. ASSUME NEW s \in Streams, NEW max \in 1..MaxTake, NextEvents(s, max)
      PROVE  BareIsNative'
  BY <1>6 DEF NextEvents, BareIsNative, history
<1>7. ASSUME NEW s \in Streams, TryRecvEvent(s)
      PROVE  BareIsNative'
  BY <1>1, <1>7 DEF TryRecvEvent, modeVars
<1>8. CASE Flush
  BY <1>8 DEF Flush, BareIsNative
<1>9. CASE TakeEvents
  BY <1>9 DEF TakeEvents, BareIsNative, history
<1>10. CASE PushDrop \/ PushEnd \/ ReadPop \/ ReadEnd \/ TryRecvBarrier \/ UNCHANGED vars
  BY <1>1, <1>10 DEF PushDrop, PushEnd, ReadPop, ReadEnd, TryRecvBarrier, vars,
                     modeVars, history
<1>11. CASE Close
  BY <1>1, <1>11 DEF Close, history
<1> QED
  BY <1>3, <1>4, <1>5, <1>6, <1>7, <1>8, <1>9, <1>10, <1>11 DEF Next

-----------------------------------------------------------------------------
(* Whatever the streams, bounds and pushes: EventReceiver::try_recv hands out *)
(* records and barriers of all streams in the order they were published.      *)
THEOREM MergeKeepsOrder == Spec => []MergedOrder
<1> QED
  BY MergeInit, MergeStep, MergeOrders, TypeCorrect, PTL DEF Spec

(* When the transport meets a flush barrier, all that was published before    *)
(* the flush has been handed out or reported lost, on every stream.           *)
THEOREM BarriersAreExact == Spec => []BarrierCoversPublished
<1>1. Spec => [](TypeOK /\ ExactGap)
  BY TypeCorrect, GapAccountingExact, PTL
<1>2. Spec => []MergeInv
  BY MergeInit, MergeStep, TypeCorrect, PTL DEF Spec
<1>3. Spec => []BarriersCover
  BY <1>1, <1>2, MergeInit, CoverStep, PTL DEF Spec
<1> QED
  BY <1>1, <1>3, MergeInit, MetStep, PTL DEF Spec

(* A lifecycle signal that went out without a barrier belongs to a native     *)
(* attachment: no EventReceiver is claimed behind it.                         *)
THEOREM BareSignalsAreNative == Spec => []SignalOvertakesNothing
<1>1. Init => BareIsNative
  BY DEF Init, BareIsNative
<1>2. BareIsNative => SignalOvertakesNothing
  BY DEF BareIsNative, SignalOvertakesNothing
<1> QED
  BY <1>1, <1>2, BareStep, TypeCorrect, PTL DEF Spec
=============================================================================
