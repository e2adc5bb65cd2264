---------------------------------- MODULE Host ----------------------------------
(***************************************************************************)
(* The life of session hosts of one credential, in one process: the         *)
(* registry and the credential flock (rithmic-host/src/registry.rs,         *)
(* flock.rs), connect / detached / shutdown of host.rs, the recovery flags  *)
(* of pump.rs, and the direct facade that opens, connects and disconnects   *)
(* (rithmic-nt-connect/src/python/direct.rs).                               *)
(*                                                                          *)
(* Hosts are incarnations 1, 2, ...  An atomic flag of the hosts is the set *)
(* of the hosts that have it on; `login` is what the venue sees (external). *)
(* A step runs to the next await, lock or atomic load that races.           *)
(***************************************************************************)
EXTENDS Integers, FiniteSets

CONSTANTS
    Facades,            \* direct facades, each one call at a time (DirectState)
    MaxHosts,           \* bound: incarnations
    RecoveryAttempts,
    MaxIssues,          \* bound: plant failures and requested reconnects
    Pump, Shut,         \* the two background holders of the venue gate
    Other,              \* another process on the same credential
    None

ASSUME HostAssumption ==
    /\ IsFiniteSet(Facades)
    /\ MaxHosts \in Nat \ {0} /\ RecoveryAttempts \in Nat \ {0}
    /\ MaxIssues \in Nat
    /\ Other \notin Nat /\ None \notin Nat /\ Other # None
    /\ Pump \notin Facades \cup {Shut, None} /\ Shut \notin Facades \cup {None}
    /\ None \notin Facades

Hosts == 1..MaxHosts

VARIABLES
    registry, registry_lock,    \* the (weak) entry of the key, and its mutex
    flock,                      \* who holds the credential lock
    made,                       \* incarnations so far
    attachments, requested,     \* per host; requested_plants is Some
    ready, force_reconnect, recovering, failed, closing,
    epoch,                      \* versions of the transport_epoch watch
    gate,                       \* exclusive holder of the venue gate
    pump, attempt,              \* the pump task of each host
    down,                       \* the shutdown of each host
    evicting,                   \* eviction tasks spawned by on_shutdown
    facade,                     \* where each facade is
    login, issues

flagVars == <<ready, force_reconnect, recovering, failed, closing>>
registryVars == <<registry, registry_lock, flock, made, evicting>>
attachVars == <<attachments, requested>>
pumpVars == <<pump, attempt, epoch, issues>>
hostVars == <<registryVars, attachVars, flagVars, pumpVars, gate, down, facade, login>>

HostInit ==
    /\ registry = None /\ registry_lock = None /\ flock = None /\ made = 0
    /\ attachments = [h \in Hosts |-> 0] /\ requested = {}
    /\ ready = {} /\ force_reconnect = {} /\ recovering = {}
    /\ failed = {} /\ closing = {}
    /\ epoch = [h \in Hosts |-> 1] /\ gate = [h \in Hosts |-> None]
    /\ pump = [h \in Hosts |-> "wait"] /\ attempt = [h \in Hosts |-> 0]
    /\ down = [h \in Hosts |-> "no"] /\ evicting = {}
    /\ facade = [f \in Facades |-> [step |-> "new", host |-> 0, seen |-> 0]]
    /\ login = {} /\ issues = 0

Terminal == closing \cup failed
At(f, step) == facade[f].step = step
HostOf(f) == facade[f].host
Goto(f, step) == facade' = [facade EXCEPT ![f].step = step]

(* shutdown() is called: the first caller starts it, later ones wait. *)
Requested(h) == [down EXCEPT ![h] = IF @ = "no" THEN "close" ELSE @]

-----------------------------------------------------------------------------
(* get_or_start: reuse, or reap a terminal host, then the flock, then start. *)
OpenFound(f) ==
    /\ At(f, "new") /\ registry_lock = None
    /\ registry # None /\ registry \notin Terminal
    /\ facade' = [facade EXCEPT ![f] = [step |-> "attach", host |-> registry,
                                        seen |-> 0]]
    /\ UNCHANGED <<registryVars, attachVars, flagVars, pumpVars, gate, down, login>>
OpenTerminal(f) ==
    /\ At(f, "new") /\ registry_lock = None
    /\ registry # None /\ registry \in Terminal
    /\ registry_lock' = f
    /\ down' = Requested(registry)
    /\ facade' = [facade EXCEPT ![f] = [step |-> "reap", host |-> registry,
                                        seen |-> 0]]
    /\ UNCHANGED <<registry, flock, made, evicting, attachVars, flagVars, pumpVars,
                   gate, login>>
Reaped(f) == At(f, "reap") /\ down[HostOf(f)] = "done"
MayStart(f) == Reaped(f) \/ (At(f, "new") /\ registry_lock = None /\ registry = None)
Start(f) ==
    /\ MayStart(f) /\ flock = None /\ made < MaxHosts
    /\ made' = made + 1
    /\ flock' = made' /\ registry' = made'
    /\ registry_lock' = None
    /\ facade' = [facade EXCEPT ![f] = [step |-> "attach", host |-> made',
                                        seen |-> 0]]
    /\ UNCHANGED <<evicting, attachVars, flagVars, pumpVars, gate, down, login>>
AlreadyHeld(f) ==
    /\ MayStart(f) /\ flock # None
    /\ registry_lock' = None
    /\ facade' = [facade EXCEPT ![f] = [step |-> "new", host |-> 0, seen |-> 0]]
    /\ UNCHANGED <<registry, flock, made, evicting, attachVars, flagVars, pumpVars,
                   gate, down, login>>

(* The eviction that on_shutdown spawned: only its own incarnation. *)
EvictAny(h) ==                                                  \* mutant
    /\ h \in evicting /\ registry_lock = None
    /\ evicting' = evicting \ {h}
    /\ registry' = None
    /\ UNCHANGED <<registry_lock, flock, made, attachVars, flagVars, pumpVars, gate,
                   down, facade, login>>
Evict(h) ==
    /\ h \in evicting /\ registry_lock = None
    /\ evicting' = evicting \ {h}
    /\ registry' = IF registry = h THEN None ELSE registry
    /\ UNCHANGED <<registry_lock, flock, made, attachVars, flagVars, pumpVars, gate,
                   down, facade, login>>

(* Another process takes and gives back the flock. *)
OtherLock ==
    /\ flock' = IF flock = Other THEN None ELSE Other
    /\ flock \in {None, Other}
    /\ UNCHANGED <<registry, registry_lock, made, evicting, attachVars, flagVars,
                   pumpVars, gate, down, facade, login>>

(* attach_owned, and the facade's factory that loops while it is refused. *)
AttachAlways(f) ==                                              \* mutant
    /\ At(f, "attach")
    /\ attachments' = [attachments EXCEPT ![HostOf(f)] = @ + 1]
    /\ requested' = requested \cup {HostOf(f)}
    /\ Goto(f, "attached")
    /\ UNCHANGED <<registryVars, flagVars, pumpVars, gate, down, login>>
Attach(f) ==
    /\ At(f, "attach")
    /\ IF HostOf(f) \in Terminal
       THEN Goto(f, "new") /\ UNCHANGED attachVars
       ELSE /\ attachments' = [attachments EXCEPT ![HostOf(f)] = @ + 1]
            /\ requested' = requested \cup {HostOf(f)}
            /\ Goto(f, "attached")
    /\ UNCHANGED <<registryVars, flagVars, pumpVars, gate, down, login>>

-----------------------------------------------------------------------------
(***************************************************************************)
(* SessionHost::connect.  Each load of a flag that the pump or a shutdown   *)
(* writes without the gate is a step of its own.                            *)
(***************************************************************************)
Connecting(f) ==
    facade' = [facade EXCEPT ![f].step = "c_gate", ![f].seen = epoch[HostOf(f)]]
FreeGate(f) == gate' = [gate EXCEPT ![HostOf(f)] = None]
Connect(f) ==
    /\ At(f, "attached") /\ HostOf(f) \notin Terminal
    /\ Connecting(f)
    /\ UNCHANGED <<registryVars, attachVars, flagVars, pumpVars, gate, down, login>>
ConnectGateUnchecked(f) ==                                      \* mutant
    /\ At(f, "c_gate") /\ gate[HostOf(f)] = None
    /\ Goto(f, "c_recovering") /\ gate' = [gate EXCEPT ![HostOf(f)] = f]
    /\ UNCHANGED <<registryVars, attachVars, flagVars, pumpVars, down, login>>
ConnectGate(f) ==
    /\ At(f, "c_gate") /\ gate[HostOf(f)] = None
    /\ IF HostOf(f) \in Terminal THEN Goto(f, "attached") /\ UNCHANGED gate
       ELSE Goto(f, "c_recovering") /\ gate' = [gate EXCEPT ![HostOf(f)] = f]
    /\ UNCHANGED <<registryVars, attachVars, flagVars, pumpVars, down, login>>
ConnectRecovering(f) ==
    /\ At(f, "c_recovering")
    /\ IF HostOf(f) \in recovering THEN Goto(f, "c_wait") /\ FreeGate(f)
       ELSE Goto(f, "c_plants") /\ UNCHANGED gate
    /\ UNCHANGED <<registryVars, attachVars, flagVars, pumpVars, down, login>>
ConnectChanged(f) ==
    /\ At(f, "c_wait") /\ epoch[HostOf(f)] # facade[f].seen
    /\ IF HostOf(f) \in Terminal THEN Goto(f, "attached") ELSE Connecting(f)
    /\ UNCHANGED <<registryVars, attachVars, flagVars, pumpVars, gate, down, login>>
ConnectPlants(f, ok) ==
    /\ At(f, "c_plants") /\ (HostOf(f) \in requested \/ ok)
    /\ IF ok THEN /\ requested' = requested \ {HostOf(f)}
                  /\ Goto(f, "c_ready") /\ UNCHANGED gate
       ELSE Goto(f, "attached") /\ FreeGate(f) /\ UNCHANGED requested
    /\ UNCHANGED <<registryVars, attachments, flagVars, pumpVars, down, login>>
ConnectReady(f) ==
    /\ At(f, "c_ready")
    /\ IF HostOf(f) \in ready THEN Goto(f, "attached") /\ FreeGate(f)
       ELSE Goto(f, "c_login") /\ UNCHANGED gate
    /\ UNCHANGED <<registryVars, attachVars, flagVars, pumpVars, down, login>>
ConnectLogin(f, ok) ==
    /\ At(f, "c_login") /\ (HostOf(f) \in login => ok)
    /\ IF ok THEN /\ login' = login \cup {HostOf(f)}
                  /\ Goto(f, "c_store") /\ UNCHANGED gate
       ELSE UNCHANGED login /\ Goto(f, "attached") /\ FreeGate(f)
    /\ UNCHANGED <<registryVars, attachVars, flagVars, pumpVars, down>>
ConnectStore(f) ==
    /\ At(f, "c_store")
    /\ ready' = ready \cup {HostOf(f)}
    /\ Goto(f, "attached") /\ FreeGate(f)
    /\ UNCHANGED <<registryVars, attachVars, force_reconnect, recovering, failed,
                   closing, pumpVars, down, login>>

(* LocalSession::disconnect (or a dropped facade) up to its teardown, then   *)
(* SessionHost::detached: the last attachment closes the host.               *)
Disconnect(f) ==
    /\ At(f, "attached") /\ Goto(f, "detaching")
    /\ UNCHANGED <<registryVars, attachVars, flagVars, pumpVars, gate, down, login>>
Last(h) == attachments[h] = 1 /\ flock = h
After(h) == IF h \in failed THEN "dead" ELSE "new"
DetachedLate(f) ==                                              \* mutant
    LET h == HostOf(f) IN
    /\ At(f, "detaching")
    /\ attachments' = [attachments EXCEPT ![h] = @ - 1]
    /\ IF attachments[h] = 0 THEN /\ closing' = closing \cup {h}
                                  /\ down' = Requested(h) /\ Goto(f, "d_wait")
       ELSE Goto(f, After(h)) /\ UNCHANGED <<closing, down>>
    /\ UNCHANGED <<registryVars, requested, ready, force_reconnect, recovering,
                   failed, pumpVars, gate, login>>
Detached(f) ==
    LET h == HostOf(f) IN
    /\ At(f, "detaching")
    /\ attachments' = [attachments EXCEPT ![h] = @ - 1]
    /\ IF Last(h) THEN /\ closing' = closing \cup {h}
                       /\ down' = Requested(h) /\ Goto(f, "d_wait")
       ELSE Goto(f, After(h)) /\ UNCHANGED <<closing, down>>
    /\ UNCHANGED <<registryVars, requested, ready, force_reconnect, recovering,
                   failed, pumpVars, gate, login>>
Disconnected(f) ==
    /\ At(f, "d_wait") /\ down[HostOf(f)] = "done"
    /\ Goto(f, After(HostOf(f)))
    /\ UNCHANGED <<registryVars, attachVars, flagVars, pumpVars, gate, down, login>>

-----------------------------------------------------------------------------
(* The pump: run_event_pump, serve_until_issue and recover. *)
PumpGoto(h, step) == pump' = [pump EXCEPT ![h] = step]
PumpStart(h) ==
    /\ pump[h] = "wait" /\ h \in ready \cup force_reconnect
    /\ PumpGoto(h, "serve")
    /\ UNCHANGED <<registryVars, attachVars, flagVars, attempt, epoch, issues, gate,
                   down, facade, login>>
(* A failed stream or a requested reconnect: interrupt(). *)
Issue(h) ==
    /\ pump[h] = "serve"
    /\ \/ h \in force_reconnect /\ force_reconnect' = force_reconnect \ {h}
          /\ UNCHANGED issues
       \/ issues < MaxIssues /\ issues' = issues + 1
          /\ UNCHANGED force_reconnect
    /\ recovering' = recovering \cup {h} /\ ready' = ready \ {h}
    /\ PumpGoto(h, "notify") /\ attempt' = [attempt EXCEPT ![h] = 1]
    /\ UNCHANGED <<registryVars, attachVars, failed, closing, epoch, gate, down,
                   facade, login>>
(* request_reconnect, by a failed re-seat or legacy reset of an attachment. *)
RequestReconnect(h) ==
    /\ issues < MaxIssues /\ issues' = issues + 1
    /\ attachments[h] > 0 /\ (h \in ready \/ pump[h] # "wait")
    /\ recovering' = recovering \cup {h} /\ ready' = ready \ {h}
    /\ force_reconnect' = force_reconnect \cup {h}
    /\ UNCHANGED <<registryVars, attachVars, failed, closing, pump, attempt, epoch,
                   gate, down, facade, login>>
NotifyInterrupted(h) ==
    /\ pump[h] = "notify"
    /\ PumpGoto(h, "rebuild")
    /\ UNCHANGED <<registryVars, attachVars, flagVars, attempt, epoch, issues, gate,
                   down, facade, login>>
PumpGate(h) ==
    /\ pump[h] \in {"rebuild", "restore"} /\ gate[h] = None
    /\ gate' = [gate EXCEPT ![h] = Pump]
    /\ PumpGoto(h, IF pump[h] = "rebuild" THEN "rebuilding" ELSE "restoring")
    /\ UNCHANGED <<registryVars, attachVars, flagVars, attempt, epoch, issues, down,
                   facade, login>>
NextAttemptOff(h) ==                                            \* mutant
    IF attempt[h] <= RecoveryAttempts
    THEN PumpGoto(h, "rebuild") /\ attempt' = [attempt EXCEPT ![h] = @ + 1]
    ELSE PumpGoto(h, "fail") /\ UNCHANGED attempt
NextAttempt(h) ==
    IF attempt[h] < RecoveryAttempts
    THEN PumpGoto(h, "rebuild") /\ attempt' = [attempt EXCEPT ![h] = @ + 1]
    ELSE PumpGoto(h, "fail") /\ UNCHANGED attempt
PumpFree(h) == gate' = [gate EXCEPT ![h] = None]
Rebuild(h, ok) ==
    /\ pump[h] = "rebuilding" /\ PumpFree(h)
    /\ IF ok THEN /\ login' = login \cup {h}
                  /\ PumpGoto(h, "restore") /\ UNCHANGED attempt
       ELSE login' \in {login, login \ {h}} /\ NextAttempt(h)
    /\ UNCHANGED <<registryVars, attachVars, flagVars, epoch, issues, down, facade>>
Restore(h, ok) ==
    /\ pump[h] = "restoring" /\ PumpFree(h)
    /\ IF ok THEN PumpGoto(h, "finish") /\ UNCHANGED attempt ELSE NextAttempt(h)
    /\ UNCHANGED <<registryVars, attachVars, flagVars, epoch, issues, down, facade,
                   login>>
Finish(h) ==
    /\ pump[h] = "finish"
    /\ force_reconnect' = force_reconnect \ {h}
    /\ IF h \in force_reconnect THEN NextAttempt(h)
       ELSE PumpGoto(h, "resume") /\ UNCHANGED attempt
    /\ UNCHANGED <<registryVars, attachVars, ready, recovering, failed, closing,
                   epoch, issues, gate, down, facade, login>>
ResumeUnready(h) ==                                             \* mutant
    /\ pump[h] = "resume"
    /\ ready' = ready \cup {h}
    /\ epoch' = [epoch EXCEPT ![h] = @ + 1]
    /\ PumpGoto(h, "serve")
    /\ UNCHANGED <<registryVars, attachVars, force_reconnect, recovering, failed,
                   closing, attempt, issues, gate, down, facade, login>>
Resume(h) ==
    /\ pump[h] = "resume"
    /\ recovering' = recovering \ {h} /\ ready' = ready \cup {h}
    /\ epoch' = [epoch EXCEPT ![h] = @ + 1]
    /\ PumpGoto(h, "serve")
    /\ UNCHANGED <<registryVars, attachVars, force_reconnect, failed, closing,
                   attempt, issues, gate, down, facade, login>>
(* Exhausted: the flags, then the sessions are told, then the waiters. *)
Fail(h) ==
    /\ pump[h] = "fail"
    /\ failed' = failed \cup {h} /\ recovering' = recovering \ {h}
    /\ PumpGoto(h, "notify_failed")
    /\ UNCHANGED <<registryVars, attachVars, ready, force_reconnect, closing,
                   attempt, epoch, issues, gate, down, facade, login>>
NotifyFailedOnly(h) ==                                          \* mutant
    /\ pump[h] = "notify_failed"
    /\ epoch' = [epoch EXCEPT ![h] = @ + 1]
    /\ PumpGoto(h, "off")
    /\ UNCHANGED <<registryVars, attachVars, flagVars, attempt, issues, gate, down,
                   facade, login>>
NotifyFailed(h) ==
    /\ pump[h] = "notify_failed"
    /\ epoch' = [epoch EXCEPT ![h] = @ + 1]
    /\ PumpGoto(h, "off") /\ down' = Requested(h)
    /\ UNCHANGED <<registryVars, attachVars, flagVars, attempt, issues, gate,
                   facade, login>>

-----------------------------------------------------------------------------
(* SessionHost::shutdown, one caller at a time under shutdown_gate. *)
DownGoto(h, step) == down' = [down EXCEPT ![h] = step]
ShutClose(h) ==
    /\ down[h] = "close"
    /\ closing' = closing \cup {h}
    /\ DownGoto(h, "abort")
    /\ UNCHANGED <<registryVars, attachVars, ready, force_reconnect, recovering,
                   failed, pumpVars, gate, facade, login>>
(* The pump is dropped at its await; a login in progress may have been made. *)
ShutAbort(h) ==
    /\ down[h] = "abort"
    /\ PumpGoto(h, "off")
    /\ gate' = IF gate[h] = Pump THEN [gate EXCEPT ![h] = None] ELSE gate
    /\ login' \in IF pump[h] = "rebuilding" THEN {login, login \cup {h}} ELSE {login}
    /\ DownGoto(h, "unready")
    /\ UNCHANGED <<registryVars, attachVars, flagVars, attempt, epoch, issues,
                   facade>>
ShutUnready(h) ==
    /\ down[h] = "unready"
    /\ ready' = ready \ {h}
    /\ DownGoto(h, "gate")
    /\ UNCHANGED <<registryVars, attachVars, force_reconnect, recovering, failed,
                   closing, pumpVars, gate, facade, login>>
ShutGate(h) ==
    /\ down[h] = "gate" /\ gate[h] = None
    /\ gate' = [gate EXCEPT ![h] = Shut]
    /\ DownGoto(h, "disconnect")
    /\ UNCHANGED <<registryVars, attachVars, flagVars, pumpVars, facade, login>>
ShutDisconnect(h) ==
    /\ down[h] = "disconnect"
    /\ login' = login \ {h}
    /\ PumpFree(h)
    /\ DownGoto(h, "release")
    /\ UNCHANGED <<registryVars, attachVars, flagVars, pumpVars, facade>>
ShutRelease(h) ==
    /\ down[h] = "release"
    /\ flock' = IF flock = h THEN None ELSE flock
    /\ evicting' = evicting \cup {h}
    /\ DownGoto(h, "done")
    /\ UNCHANGED <<registry, registry_lock, made, attachVars, flagVars, pumpVars,
                   gate, facade, login>>

FacadeStep(f) ==
    \/ OpenFound(f) \/ OpenTerminal(f) \/ Start(f) \/ AlreadyHeld(f) \/ Attach(f)
    \/ Connect(f) \/ ConnectGate(f) \/ ConnectRecovering(f) \/ ConnectChanged(f)
    \/ (\E ok \in BOOLEAN : ConnectPlants(f, ok) \/ ConnectLogin(f, ok))
    \/ ConnectReady(f) \/ ConnectStore(f)
    \/ Disconnect(f) \/ Detached(f) \/ Disconnected(f)
PumpStep(h) ==
    \/ PumpStart(h) \/ Issue(h) \/ NotifyInterrupted(h) \/ PumpGate(h)
    \/ (\E ok \in BOOLEAN : Rebuild(h, ok) \/ Restore(h, ok))
    \/ Finish(h) \/ Resume(h) \/ Fail(h) \/ NotifyFailed(h)
ShutStep(h) ==
    \/ ShutClose(h) \/ ShutAbort(h) \/ ShutUnready(h) \/ ShutGate(h)
    \/ ShutDisconnect(h) \/ ShutRelease(h)
HostNext ==
    \/ \E f \in Facades : FacadeStep(f)
    \/ \E h \in Hosts : PumpStep(h) \/ ShutStep(h) \/ Evict(h) \/ RequestReconnect(h)
    \/ OtherLock
HostSpec == HostInit /\ [][HostNext]_hostVars

(***************************************************************************)
(* Tasks run and venue calls return or reach their deadline; the locks of   *)
(* tokio are first come first served, so a waiter is not passed over for    *)
(* ever.  Nobody has to open, connect or disconnect.                        *)
(***************************************************************************)
ConnectStep(f) ==
    \/ ConnectRecovering(f) \/ ConnectChanged(f)
    \/ (\E ok \in BOOLEAN : ConnectPlants(f, ok) \/ ConnectLogin(f, ok))
    \/ ConnectReady(f) \/ ConnectStore(f)
Fairness ==
    /\ \A f \in Facades : /\ WF_hostVars(ConnectStep(f)) /\ SF_hostVars(ConnectGate(f))
                          /\ WF_hostVars(Detached(f) \/ Disconnected(f))
    /\ \A h \in Hosts :
         /\ WF_hostVars(PumpStart(h) \/ (h \in force_reconnect /\ Issue(h)))
         /\ WF_hostVars(\/ NotifyInterrupted(h) \/ Finish(h) \/ Resume(h) \/ Fail(h)
                    \/ NotifyFailed(h)
                    \/ (\E ok \in BOOLEAN : Rebuild(h, ok) \/ Restore(h, ok)))
         /\ SF_hostVars(PumpGate(h)) /\ SF_hostVars(ShutGate(h))
         /\ WF_hostVars(\/ ShutClose(h) \/ ShutAbort(h) \/ ShutUnready(h)
                    \/ ShutDisconnect(h) \/ ShutRelease(h))
FairSpec == HostSpec /\ Fairness

-----------------------------------------------------------------------------
FacadeSteps == {"new", "attach", "reap", "attached", "c_gate", "c_recovering",
                "c_wait", "c_plants", "c_ready", "c_login", "c_store",
                "detaching", "d_wait", "dead"}
PumpSteps == {"wait", "serve", "notify", "rebuild", "rebuilding", "restore",
              "restoring", "finish", "resume", "fail", "notify_failed", "off"}
DownSteps == {"no", "close", "abort", "unready", "gate", "disconnect", "release",
              "done"}
Recovery == {"notify", "rebuild", "rebuilding", "restore", "restoring", "finish",
             "resume"}

(* Every variable has its type, and the gate is held by who runs under it. *)
HostTypeOK ==
    /\ registry \in Hosts \cup {None} /\ registry_lock \in Facades \cup {None}
    /\ flock \in Hosts \cup {Other, None} /\ made \in 0..MaxHosts
    /\ attachments \in [Hosts -> Nat]
    /\ \A flag \in {requested, ready, force_reconnect, recovering, failed, closing,
                    evicting, login} : flag \subseteq 1..made
    /\ epoch \in [Hosts -> Nat]
    /\ gate \in [Hosts -> Facades \cup {Pump, Shut, None}]
    /\ pump \in [Hosts -> PumpSteps] /\ attempt \in [Hosts -> 0..RecoveryAttempts]
    /\ down \in [Hosts -> DownSteps]
    /\ facade \in [Facades -> [step : FacadeSteps, host : 0..made, seen : Nat]]

(***************************************************************************)
(* "One login per credential": whatever races a shutdown, a host that is    *)
(* logged in at the venue holds the credential flock.                       *)
(***************************************************************************)
LoginUnderLock == \A h \in login : flock = h

(***************************************************************************)
(* "Registry eviction checks incarnation identity so delayed cleanup cannot *)
(* remove a replacement": an attached host that is not terminal is the one  *)
(* a new facade finds.                                                      *)
(***************************************************************************)
LiveIsRegistered ==
    \A h \in Hosts : attachments[h] > 0 /\ h \notin Terminal => registry = h

(***************************************************************************)
(* An attachment never lands on a host its last attachment closed, and a    *)
(* host nobody is attached to does not keep the flock: somebody is about to *)
(* attach, or it is being shut down.                                        *)
(***************************************************************************)
AttachedIsOpen == \A h \in closing \ failed : attachments[h] = 0
NoLeakedLock ==
    flock \in Hosts /\ attachments[flock] = 0 =>
      \/ flock \in closing
      \/ \E f \in Facades : facade[f].step = "attach" /\ facade[f].host = flock

(* Recovery ends: the host serves again, or it is shut down. *)
RecoveryEnds ==
    \A h \in Hosts : h \in recovering ~> h \notin recovering \/ down[h] = "done"
(* A host that failed gives the credential back, with attachments alive. *)
FailedIsReleased == \A h \in Hosts : h \in failed ~> flock # h

(***************************************************************************)
(* connect waits for the recovery in progress "rather than exposing a       *)
(* half-restored venue": no host is ready while its pump recovers.          *)
(***************************************************************************)
NotHalfRestored == \A h \in ready : pump[h] \notin Recovery

(* Every connect returns: "also wake connect waiters". *)
ConnectSteps == {"c_gate", "c_recovering", "c_wait", "c_plants", "c_ready",
                 "c_login", "c_store"}
ConnectReturns ==
    \A f \in Facades : facade[f].step \in ConnectSteps
                         ~> facade[f].step \notin ConnectSteps
=============================================================================
