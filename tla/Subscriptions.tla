----------------------------- MODULE Subscriptions -----------------------------
(***************************************************************************)
(* Market-data intents of the session host: the refcounts and degraded set  *)
(* of rithmic-host/src/intents.rs, the subscribe / unsubscribe / teardown   *)
(* templates of local/subscriptions.rs and local/context.rs, the restore of *)
(* pump.rs and the background retry of pump/degraded.rs.                    *)
(*                                                                          *)
(* An intent is <<kind, symbol>>.  Attachments (clients) run one command at *)
(* a time, each under its own client mutex, and meet in md_history_gate,    *)
(* the topic lock of a symbol and the venue gate (shared by calls, held     *)
(* exclusively by the pump while it rebuilds and restores).  Every await on *)
(* a lock or on the venue is a step boundary.  What the venue really has is *)
(* `joined`; a call of it may fail.                                         *)
(***************************************************************************)
EXTENDS Integers, FiniteSets

CONSTANTS
    Clients,            \* attachments of the host
    Kinds,              \* of {"ticker", "book", "bars"}
    Symbols,
    Pump,               \* the pump's background retry, an actor of its own
    None,
    RecoveryAttempts, RestoreAttempts,
    MaxIssues           \* bound: plant failures and legacy ticker resets

ASSUME ActorsAssumption ==
    /\ IsFiniteSet(Clients) /\ Pump \notin Clients
    /\ None \notin Clients \cup {Pump}
ASSUME KindsAssumption == Kinds \subseteq {"ticker", "book", "bars"}
ASSUME AttemptsAssumption ==
    /\ RecoveryAttempts \in Nat \ {0} /\ RestoreAttempts \in Nat \ {0}
    /\ MaxIssues \in Nat

Intents == Kinds \X Symbols
Key(t) == t[2]
IsBook(t) == t[1] = "book"
Actors == Clients \cup {Pump}

VARIABLES
    refs, degraded,     \* IntentStore: holders counted per intent, dark joins
    held, subscribed,   \* SessionCtx of each client: intents, topics delivered
    detached,           \* clients whose disconnect was called
    interest,           \* FanoutHub: interest per topic
    md_history_gate, topic_locks,
    exclusive,          \* the pump holds the venue gate exclusively
    ready, force_reconnect,
    op,                 \* op[a]: the command actor a runs and how far it is
    pump,               \* the recovery in progress
    reset,              \* the legacy ticker reset in progress
    joined,             \* external: what the venue streams to the host
    issues, resets,     \* bounded counts
    (* History, read by no guard. *)
    refused,            \* intents whose last venue leave was refused
    overtaken           \* intents of commands a recovery did not wait for

intentVars == <<refs, degraded>>
clientVars == <<held, subscribed, interest>>
lockVars == <<md_history_gate, topic_locks>>
pumpVars == <<exclusive, ready, force_reconnect, pump, issues, overtaken>>
resetVars == <<reset, resets>>
venueVars == <<joined, refused>>
vars == <<intentVars, clientVars, detached, lockVars, pumpVars, resetVars, op, venueVars>>

Idle == [step |-> "idle", t |-> None, had |-> "no", mode |-> "none",
         dark |-> "no"]
Serving == [step |-> "serve", scope |-> {}, pending |-> {}, todo |-> {},
            attempt |-> 0, pass |-> 0]
NoReset == [step |-> "idle", todo |-> {}, failed |-> "no"]

Init ==
    /\ refs = [t \in Intents |-> 0] /\ degraded = {}
    /\ held = [c \in Clients |-> {}] /\ subscribed = [c \in Clients |-> {}]
    /\ interest = [k \in Symbols |-> 0]
    /\ md_history_gate = None /\ topic_locks = [k \in Symbols |-> None]
    /\ exclusive = FALSE /\ ready = TRUE /\ force_reconnect = FALSE
    /\ op = [a \in Actors |-> Idle]
    /\ pump = Serving /\ reset = NoReset
    /\ joined = {} /\ issues = 0 /\ resets = 0
    /\ refused = {} /\ detached = {} /\ overtaken = {}

-----------------------------------------------------------------------------
(* IntentStore: note, forget, mark_degraded and restore_plan. *)
Noted(t) == [refs EXCEPT ![t] = @ + 1]
Forgotten(t) == [refs EXCEPT ![t] = @ - 1]
DegradedKept(t) == degraded                                     \* mutant
DegradedAfterForget(t) == IF refs[t] = 1 THEN degraded \ {t} ELSE degraded
Marked(ts) == degraded \cup {t \in ts : refs[t] > 0}
Held == {t \in Intents : refs[t] > 0}

(***************************************************************************)
(* The venue (external).  A plain join or a leave takes effect and succeeds *)
(* or fails without effect; the venue rejects a book it already has.        *)
(* refresh_book leaves and joins, and may stop half way.                    *)
(***************************************************************************)
VenueJoin(t, ok) ==
    /\ ok => ~(IsBook(t) /\ t \in joined)
    /\ joined' = IF ok THEN joined \cup {t} ELSE joined
    /\ refused' = IF ok THEN refused \ {t} ELSE refused
VenueRefresh(t, ok) ==
    /\ IF ok THEN joined' = joined \cup {t} ELSE joined' \in {joined, joined \ {t}}
    /\ refused' = IF ok THEN refused \ {t} ELSE refused
VenueLeave(t, ok) ==
    /\ joined' = IF ok THEN joined \ {t} ELSE joined
    /\ refused' = IF ok THEN refused \ {t} ELSE refused \cup {t}

Goto(a, step) == op' = [op EXCEPT ![a].step = step]
Release(a) ==
    /\ md_history_gate' = IF md_history_gate = a THEN None ELSE md_history_gate
    /\ topic_locks' = [k \in Symbols |-> IF topic_locks[k] = a THEN None
                                                             ELSE topic_locks[k]]
Done(a) == op' = [op EXCEPT ![a] = Idle] /\ Release(a)

-----------------------------------------------------------------------------
(***************************************************************************)
(* Subscribe: the client's own set decides between a new join, a rejoin of  *)
(* a degraded intent and the snapshot refresh of a book it holds.  A repeat *)
(* of any other held intent is a no-op.                                     *)
(***************************************************************************)
Subscribe(c, t) ==
    /\ op[c] = Idle /\ ready /\ c \notin detached
    /\ t \in held[c] => t \in degraded \/ IsBook(t)
    /\ op' = [op EXCEPT ![c] =
         [step |-> IF t \notin held[c] THEN "sub_gate"
                   ELSE IF t \in degraded THEN "rejoin_gate" ELSE "refresh_lock",
          t |-> t, had |-> "no", mode |-> "none", dark |-> "no"]]
    /\ UNCHANGED <<intentVars, clientVars, lockVars, pumpVars, resetVars,
                   venueVars, detached>>
Unsubscribe(c, t) ==
    /\ op[c] = Idle /\ ready /\ c \notin detached /\ t \in held[c]
    /\ op' = [op EXCEPT ![c] = [Idle EXCEPT !.step = "unsub_gate", !.t = t]]
    /\ UNCHANGED <<intentVars, clientVars, lockVars, pumpVars, resetVars,
                   venueVars, detached>>

(* Lock order: md_history_gate, then the topic lock, then the venue. *)
AfterGate(step) == CASE step = "sub_gate" -> "sub_lock"
                     [] step = "rejoin_gate" -> "rejoin_lock"
                     [] step = "unsub_gate" -> "unsub_lock"
TakeGate(a) ==
    /\ op[a].step \in {"sub_gate", "rejoin_gate", "unsub_gate"}
    /\ md_history_gate = None
    /\ md_history_gate' = a
    /\ Goto(a, AfterGate(op[a].step))
    /\ UNCHANGED <<intentVars, clientVars, topic_locks, pumpVars, resetVars,
                   venueVars, detached>>
Lock(a) ==
    /\ topic_locks[Key(op[a].t)] = None
    /\ topic_locks' = [topic_locks EXCEPT ![Key(op[a].t)] = a]
    /\ UNCHANGED md_history_gate

(* attach_shared_topic: one hub interest per client and topic. *)
Attached(c, k) == subscribed' = [subscribed EXCEPT ![c] = @ \cup {k}]
                  /\ interest' = IF k \in subscribed[c] THEN interest
                                 ELSE [interest EXCEPT ![k] = @ + 1]
DropDeliveryHeld(c, k) == interest' = [interest EXCEPT ![k] = @ - 1]  \* mutant
                          /\ UNCHANGED subscribed
DropDelivery(c, k) == subscribed' = [subscribed EXCEPT ![c] = @ \ {k}]
                      /\ interest' = [interest EXCEPT ![k] = @ - 1]

(* How the venue must be called: a first holder joins; a later one refreshes *)
(* a book and rejoins a degraded intent; otherwise no call at all.           *)
JoinMode(t) == IF refs[t] = 0 THEN "join"
               ELSE IF IsBook(t) THEN "refresh"
               ELSE IF t \in degraded THEN "join" ELSE "none"

(* Count, then record on the client. *)
SubNote(c) ==
    LET t == op[c].t IN
    /\ op[c].step = "sub_lock" /\ topic_locks[Key(t)] = None
    /\ Attached(c, Key(t))
    /\ refs' = Noted(t)
    /\ held' = [held EXCEPT ![c] = @ \cup {t}]
    /\ IF JoinMode(t) = "none" THEN Done(c)
       ELSE /\ Lock(c)
            /\ op' = [op EXCEPT ![c] =
                 [step |-> "sub_join", t |-> t,
                  had |-> IF Key(t) \in subscribed[c] THEN "yes" ELSE "no",
                  mode |-> JoinMode(t),
                  dark |-> IF refs[t] > 0 /\ t \in degraded THEN "yes" ELSE "no"]]
    /\ UNCHANGED <<degraded, pumpVars, resetVars, venueVars, detached>>

(* The venue call of a subscribe, under the shared gate. *)
SubJoined(c) ==
    LET t == op[c].t IN
    /\ op[c].step = "sub_join" /\ ~exclusive /\ ready
    /\ IF op[c].mode = "refresh" THEN VenueRefresh(t, TRUE) ELSE VenueJoin(t, TRUE)
    /\ degraded' = IF op[c].dark = "yes" THEN degraded \ {t} ELSE degraded
    /\ Done(c)
    /\ UNCHANGED <<refs, clientVars, pumpVars, resetVars, detached>>
SubFailed(c) ==
    LET t == op[c].t IN
    /\ op[c].step = "sub_join" /\ ~exclusive
    /\ IF ~ready THEN UNCHANGED venueVars
       ELSE IF op[c].mode = "refresh" THEN VenueRefresh(t, FALSE)
       ELSE VenueJoin(t, FALSE)
    /\ degraded' = IF op[c].mode = "refresh" THEN Marked({t}) ELSE degraded
    /\ held' = [held EXCEPT ![c] = @ \ {t}]
    /\ Goto(c, "sub_forget")
    /\ UNCHANGED <<refs, subscribed, interest, lockVars, pumpVars, resetVars,
                   detached>>
(* The rollback, once the venue guard is dropped. *)
SubForget(c) ==
    LET t == op[c].t IN
    /\ op[c].step = "sub_forget"
    /\ refs' = Forgotten(t) /\ degraded' = DegradedAfterForget(t)
    /\ IF op[c].had = "yes" THEN UNCHANGED <<subscribed, interest>>
       ELSE DropDelivery(c, Key(t))
    /\ Done(c)
    /\ UNCHANGED <<held, pumpVars, resetVars, venueVars, detached>>

(* A held book refreshes its snapshot under the topic lock alone. *)
RefreshLock(c) ==
    /\ op[c].step = "refresh_lock" /\ Lock(c)
    /\ Goto(c, "refresh")
    /\ UNCHANGED <<intentVars, clientVars, pumpVars, resetVars, venueVars,
                   detached>>
Refresh(c, ok) ==
    LET t == op[c].t IN
    /\ op[c].step = "refresh" /\ ~exclusive
    /\ ok => ready
    /\ IF ready THEN VenueRefresh(t, ok) ELSE UNCHANGED venueVars
    /\ degraded' = IF ready /\ ~ok THEN Marked({t}) ELSE degraded
    /\ Done(c)
    /\ UNCHANGED <<refs, clientVars, pumpVars, resetVars, detached>>

(***************************************************************************)
(* rejoin_degraded, for a client that holds the intent or for the pump's    *)
(* retry: look again under the topic lock, then call the venue.             *)
(***************************************************************************)
Retry(t) ==
    /\ op[Pump] = Idle /\ pump.step = "serve" /\ t \in degraded
    /\ op' = [op EXCEPT ![Pump] = [Idle EXCEPT !.step = "rejoin_gate", !.t = t]]
    /\ UNCHANGED <<intentVars, clientVars, lockVars, pumpVars, resetVars,
                   venueVars, detached>>
RejoinLock(a) ==
    /\ op[a].step = "rejoin_lock" /\ topic_locks[Key(op[a].t)] = None
    /\ IF op[a].t \in degraded THEN Lock(a) /\ Goto(a, "rejoin") ELSE Done(a)
    /\ UNCHANGED <<intentVars, clientVars, pumpVars, resetVars, venueVars,
                   detached>>
Rejoin(a, ok) ==
    LET t == op[a].t IN
    /\ op[a].step = "rejoin" /\ ~exclusive
    /\ ok => ready
    /\ IF ~ready THEN UNCHANGED venueVars
       ELSE IF IsBook(t) THEN VenueRefresh(t, ok) ELSE VenueJoin(t, ok)
    /\ degraded' = IF ok THEN degraded \ {t} ELSE degraded
    /\ Done(a)
    /\ UNCHANGED <<refs, clientVars, pumpVars, resetVars, detached>>

(***************************************************************************)
(* Unsubscribe: the last holder leaves the venue under the topic lock; a    *)
(* failed leave is noted again, so that a reconnect still re-joins.         *)
(***************************************************************************)
UnsubRemove(c) ==
    /\ op[c].step = "unsub_lock" /\ Lock(c)
    /\ held' = [held EXCEPT ![c] = @ \ {op[c].t}]
    /\ Goto(c, "unsub_forget")
    /\ UNCHANGED <<intentVars, subscribed, interest, pumpVars, resetVars,
                   venueVars, detached>>
WantsMd(c, k) == \E t \in held[c] : Key(t) = k
ReleaseMdAlways(c, k) == DropDelivery(c, k)                     \* mutant
ReleaseMd(c, k) == IF WantsMd(c, k) THEN UNCHANGED <<subscribed, interest>>
                   ELSE DropDelivery(c, k)
UnsubForget(c) ==
    LET t == op[c].t IN
    /\ op[c].step = "unsub_forget"
    /\ refs' = Forgotten(t) /\ degraded' = DegradedAfterForget(t)
    /\ IF refs[t] = 1 THEN /\ Goto(c, "unsub_leave")
                           /\ UNCHANGED <<subscribed, interest, lockVars>>
                      ELSE ReleaseMd(c, Key(t)) /\ Done(c)
    /\ UNCHANGED <<held, pumpVars, resetVars, venueVars, detached>>
UnsubLeft(c) ==
    /\ op[c].step = "unsub_leave" /\ ~exclusive
    /\ VenueLeave(op[c].t, TRUE)
    /\ ReleaseMd(c, Key(op[c].t)) /\ Done(c)
    /\ UNCHANGED <<intentVars, held, pumpVars, resetVars, detached>>
UnsubLeaveFailed(c) ==
    /\ op[c].step = "unsub_leave" /\ ~exclusive
    /\ VenueLeave(op[c].t, FALSE)
    /\ Goto(c, "unsub_renote")
    /\ UNCHANGED <<intentVars, clientVars, lockVars, pumpVars, resetVars,
                   detached>>
UnsubRenoteBare(c) ==                                           \* mutant
    /\ op[c].step = "unsub_renote"
    /\ refs' = Noted(op[c].t)
    /\ refused' = refused \cup {op[c].t}
    /\ Done(c)
    /\ UNCHANGED <<degraded, clientVars, pumpVars, resetVars, joined,
                   detached>>
UnsubRenote(c) ==
    /\ op[c].step = "unsub_renote"
    /\ refs' = Noted(op[c].t)
    /\ held' = [held EXCEPT ![c] = @ \cup {op[c].t}]
    /\ refused' = refused \cup {op[c].t}
    /\ Done(c)
    /\ UNCHANGED <<degraded, subscribed, interest, pumpVars, resetVars,
                   joined, detached>>

(***************************************************************************)
(* disconnect marks the client detached at once, and takes it down when the *)
(* command that has its mutex is over.  SessionCtx::teardown: every intent  *)
(* in turn, under its topic lock; a failed venue leave is ignored.  Then    *)
(* the topics.                                                              *)
(***************************************************************************)
Detach(c) ==
    /\ c \notin detached
    /\ detached' = detached \cup {c}
    /\ UNCHANGED <<intentVars, clientVars, lockVars, pumpVars, resetVars, op,
                   venueVars>>
TdStart(c) ==
    /\ c \in detached /\ op[c] = Idle
    /\ Goto(c, "td")
    /\ UNCHANGED <<intentVars, clientVars, lockVars, pumpVars, resetVars,
                   venueVars, detached>>
TdForgetUnlocked(c, t) ==                                       \* mutant
    /\ op[c].step = "td" /\ t \in held[c] /\ topic_locks[Key(t)] = None
    /\ held' = [held EXCEPT ![c] = @ \ {t}]
    /\ refs' = Forgotten(t) /\ degraded' = DegradedAfterForget(t)
    /\ op' = IF refs[t] > 1 THEN op
             ELSE [op EXCEPT ![c] = [Idle EXCEPT !.step = "td_leave", !.t = t]]
    /\ UNCHANGED <<subscribed, interest, lockVars, pumpVars, resetVars,
                   venueVars, detached>>
TdForget(c, t) ==
    /\ op[c].step = "td" /\ t \in held[c] /\ topic_locks[Key(t)] = None
    /\ held' = [held EXCEPT ![c] = @ \ {t}]
    /\ refs' = Forgotten(t) /\ degraded' = DegradedAfterForget(t)
    /\ IF refs[t] = 1
       THEN /\ topic_locks' = [topic_locks EXCEPT ![Key(t)] = c]
            /\ op' = [op EXCEPT ![c] = [Idle EXCEPT !.step = "td_leave", !.t = t]]
       ELSE UNCHANGED <<topic_locks, op>>
    /\ UNCHANGED <<subscribed, interest, md_history_gate, pumpVars, resetVars,
                   venueVars, detached>>
TdLeave(c, ok) ==
    /\ op[c].step = "td_leave" /\ ~exclusive
    /\ VenueLeave(op[c].t, ok)
    /\ op' = [op EXCEPT ![c] = [Idle EXCEPT !.step = "td"]]
    /\ Release(c)
    /\ UNCHANGED <<intentVars, clientVars, pumpVars, resetVars, detached>>
TdEnd(c) ==
    /\ op[c].step = "td" /\ held[c] = {}
    /\ interest' = [k \in Symbols |-> IF k \in subscribed[c] THEN interest[k] - 1
                                                           ELSE interest[k]]
    /\ subscribed' = [subscribed EXCEPT ![c] = {}]
    /\ Goto(c, "gone")
    /\ UNCHANGED <<intentVars, held, lockVars, pumpVars, resetVars, venueVars,
                   detached>>

-----------------------------------------------------------------------------
(***************************************************************************)
(* The pump: an issue stops serving and drops the retry where it stands     *)
(* (its venue call may have taken effect); then rebuild, plan, restore      *)
(* passes.  A plant failure rebuilds that plant, anything else the login.   *)
(***************************************************************************)
OfPlant(plant) == {t \in Intents : (t[1] = "bars") = (plant = "history")}
Scopes == {OfPlant("ticker"), OfPlant("history"), Intents}

Interrupt(scope) ==
    /\ pump.step = "serve"
    /\ \/ force_reconnect /\ scope = Intents /\ force_reconnect' = FALSE
          /\ UNCHANGED issues
       \/ issues + resets < MaxIssues /\ issues' = issues + 1
          /\ UNCHANGED force_reconnect
    /\ ready' = FALSE
    /\ Done(Pump)
    /\ pump' = [Serving EXCEPT !.step = "notify", !.scope = scope, !.attempt = 1]
    /\ UNCHANGED <<intentVars, clientVars, exclusive, resetVars, venueVars,
                   detached, overtaken>>
(* notify_sessions takes the client mutex of every attachment that is not   *)
(* detached, so its command in progress ends before the rebuild starts.     *)
InCommand == {c \in Clients : op[c].step \notin {"idle", "td", "td_leave", "gone"}}
NotifyAtOnce ==                                                 \* mutant
    /\ pump.step = "notify"
    /\ pump' = [pump EXCEPT !.step = "rebuild"]
    /\ UNCHANGED <<intentVars, clientVars, lockVars, exclusive, ready, overtaken,
                   force_reconnect, issues, resetVars, op, venueVars, detached>>
NotifySessions ==
    /\ pump.step = "notify" /\ InCommand \subseteq detached
    /\ pump' = [pump EXCEPT !.step = "rebuild"]
    /\ overtaken' = overtaken \cup {op[c].t : c \in InCommand}
    /\ UNCHANGED <<intentVars, clientVars, lockVars, exclusive, ready,
                   force_reconnect, issues, resetVars, op, venueVars, detached>>
DroppedRejoin(ok) ==
    /\ op[Pump].step = "rejoin" /\ ready /\ ~exclusive
    /\ IF IsBook(op[Pump].t) THEN VenueRefresh(op[Pump].t, ok)
       ELSE VenueJoin(op[Pump].t, ok)
    /\ UNCHANGED <<intentVars, clientVars, lockVars, pumpVars, resetVars, op,
                   detached>>

NextAttempt(scope) ==
    pump' = IF pump.attempt < RecoveryAttempts
            THEN [Serving EXCEPT !.step = "rebuild", !.scope = scope,
                                 !.attempt = pump.attempt + 1]
            ELSE [Serving EXCEPT !.step = "failed"]

(* Recovery::rebuild, under the exclusive gate: its joins are gone. *)
Rebuild(ok) ==
    /\ pump.step = "rebuild" /\ reset.step = "idle"
    /\ joined' = joined \ pump.scope /\ refused' = refused \ pump.scope
    /\ IF ok THEN pump' = [pump EXCEPT !.step = "plan"] ELSE NextAttempt(pump.scope)
    /\ UNCHANGED <<intentVars, clientVars, lockVars, exclusive, ready,
                   force_reconnect, issues, resetVars, op,
                   detached, overtaken>>
Plan ==
    /\ pump.step = "plan"
    /\ pump' = [pump EXCEPT !.step = "pass", !.pending = Held \cap pump.scope,
                            !.pass = 1]
    /\ UNCHANGED <<intentVars, clientVars, lockVars, exclusive, ready,
                   force_reconnect, issues, resetVars, op, venueVars,
                   detached, overtaken>>

(* restore_plan_pass: what is still held of the plan, one join at a time. *)
StillHeld == pump.pending \cap Held
(* md_intents: tickers, then books, then time bars; keys in any order. *)
FirstJoins(ts) ==
    LET rank == [ticker |-> 1, book |-> 2, bars |-> 3]
    IN  {t \in ts : \A u \in ts : rank[t[1]] <= rank[u[1]]}
PassStart ==
    /\ pump.step = "pass" /\ reset.step = "idle"
    /\ exclusive' = TRUE
    /\ pump' = [pump EXCEPT !.step = "joins", !.todo = StillHeld, !.pending = {}]
    /\ UNCHANGED <<intentVars, clientVars, lockVars, ready, force_reconnect,
                   issues, resetVars, op, venueVars, detached, overtaken>>
PassJoin(t, ok) ==
    /\ pump.step = "joins" /\ t \in FirstJoins(pump.todo)
    /\ VenueJoin(t, ok)
    /\ degraded' = IF ok THEN degraded \ {t} ELSE degraded
    /\ pump' = [pump EXCEPT !.todo = @ \ {t},
                            !.pending = IF ok THEN @ ELSE @ \cup {t}]
    /\ UNCHANGED <<refs, clientVars, lockVars, exclusive, ready,
                   force_reconnect, issues, resetVars, op, detached,
                   overtaken>>
(* The account joins of the pass (OrderPlant) may fail too. *)
PassEnd(account) ==
    /\ pump.step = "joins" /\ pump.todo = {}
    /\ exclusive' = FALSE
    /\ IF account \/ pump.pending # {} THEN
         IF pump.pass < RestoreAttempts
         THEN pump' = [pump EXCEPT !.step = "pass", !.pass = @ + 1]
         ELSE IF account THEN NextAttempt(Intents)
         ELSE pump' = [pump EXCEPT !.step = "finish"]
       ELSE pump' = [pump EXCEPT !.step = "finish"]
    /\ UNCHANGED <<intentVars, clientVars, lockVars, ready, force_reconnect,
                   issues, resetVars, op, venueVars, detached, overtaken>>
(* Leftovers are degraded; a reconnect requested meanwhile goes first. *)
Finish ==
    /\ pump.step = "finish"
    /\ degraded' = Marked(pump.pending)
    /\ force_reconnect' = FALSE
    /\ IF force_reconnect THEN NextAttempt(Intents) /\ UNCHANGED ready
       ELSE pump' = Serving /\ ready' = TRUE
    /\ UNCHANGED <<refs, clientVars, lockVars, exclusive, issues, resetVars,
                   op, venueVars, detached, overtaken>>

(***************************************************************************)
(* reset_ticker_plant, for legacy gateway clients: reset and restore under  *)
(* the shared gate; any failed join asks for the full rebuild.              *)
(***************************************************************************)
ResetTicker ==
    /\ reset.step = "idle" /\ ~exclusive /\ issues + resets < MaxIssues
    /\ resets' = resets + 1
    /\ joined' = joined \ OfPlant("ticker")
    /\ refused' = refused \ OfPlant("ticker")
    /\ reset' = [NoReset EXCEPT !.step = "plan"]
    /\ UNCHANGED <<intentVars, clientVars, lockVars, pumpVars, op,
                   detached>>
ResetPlan ==
    /\ reset.step = "plan"
    /\ reset' = [reset EXCEPT !.step = "joins", !.todo = Held]
    /\ UNCHANGED <<intentVars, clientVars, lockVars, pumpVars, resets, op,
                   venueVars, detached>>
ResetJoin(t, ok) ==
    /\ reset.step = "joins" /\ t \in FirstJoins(reset.todo)
    /\ VenueJoin(t, ok)
    /\ degraded' = IF ok THEN degraded \ {t} ELSE degraded
    /\ reset' = [reset EXCEPT !.todo = @ \ {t},
                              !.failed = IF ok THEN @ ELSE "yes"]
    /\ UNCHANGED <<refs, clientVars, lockVars, pumpVars, resets, op,
                   detached>>
ResetEnd ==
    /\ reset.step = "joins" /\ reset.todo = {}
    /\ reset' = NoReset
    /\ IF reset.failed = "yes" THEN ready' = FALSE /\ force_reconnect' = TRUE
       ELSE UNCHANGED <<ready, force_reconnect>>
    /\ UNCHANGED <<intentVars, clientVars, lockVars, exclusive, pump, issues,
                   resets, op, venueVars, detached, overtaken>>

ClientStep(c) ==
    \/ \E t \in Intents : Subscribe(c, t) \/ Unsubscribe(c, t) \/ TdForget(c, t)
    \/ SubNote(c) \/ SubJoined(c) \/ SubFailed(c) \/ SubForget(c)
    \/ RefreshLock(c) \/ (\E ok \in BOOLEAN : Refresh(c, ok) \/ TdLeave(c, ok))
    \/ UnsubRemove(c) \/ UnsubForget(c) \/ UnsubLeft(c) \/ UnsubLeaveFailed(c)
    \/ UnsubRenote(c) \/ Detach(c) \/ TdStart(c) \/ TdEnd(c)
PumpStep ==
    \/ \E scope \in Scopes : Interrupt(scope)
    \/ \E t \in Intents : Retry(t) \/ (\E ok \in BOOLEAN : PassJoin(t, ok))
    \/ NotifySessions \/ Plan \/ PassStart \/ Finish
    \/ \E ok \in BOOLEAN : Rebuild(ok) \/ PassEnd(ok) \/ DroppedRejoin(ok)
Next ==
    \/ \E c \in Clients : ClientStep(c)
    \/ \E a \in Actors : TakeGate(a) \/ RejoinLock(a)
                         \/ (\E ok \in BOOLEAN : Rejoin(a, ok))
    \/ PumpStep
    \/ ResetTicker \/ ResetPlan \/ ResetEnd
    \/ \E t \in Intents, ok \in BOOLEAN : ResetJoin(t, ok)
Spec == Init /\ [][Next]_vars

-----------------------------------------------------------------------------
Step == {"idle", "sub_gate", "sub_lock", "sub_join", "sub_forget", "rejoin_gate",
         "rejoin_lock", "rejoin", "refresh_lock", "refresh", "unsub_gate",
         "unsub_lock", "unsub_forget", "unsub_leave", "unsub_renote", "td",
         "td_leave", "gone"}

(* Every variable has its type; the counts are naturals. *)
TypeOK ==
    /\ refs \in [Intents -> Nat] /\ degraded \subseteq Intents
    /\ held \in [Clients -> SUBSET Intents]
    /\ subscribed \in [Clients -> SUBSET Symbols]
    /\ interest \in [Symbols -> Nat]
    /\ md_history_gate \in Actors \cup {None}
    /\ topic_locks \in [Symbols -> Actors \cup {None}]
    /\ exclusive \in BOOLEAN /\ ready \in BOOLEAN /\ force_reconnect \in BOOLEAN
    /\ op \in [Actors -> [step : Step, t : Intents \cup {None},
                          had : {"yes", "no"}, mode : {"none", "join", "refresh"},
                          dark : {"yes", "no"}]]
    /\ joined \subseteq Intents /\ detached \subseteq Clients

(***************************************************************************)
(* The refcount of an intent is exactly the clients that hold it, plus the  *)
(* ones in the middle of forgetting it: no count is leaked, and no client's *)
(* release ends the subscription of another.                                *)
(***************************************************************************)
Counted(t) ==
    {c \in Clients : \/ t \in held[c]
                     \/ op[c].t = t /\ op[c].step \in {"sub_forget", "unsub_forget"}}
RefsExact == \A t \in Intents : refs[t] = Cardinality(Counted(t))

(***************************************************************************)
(* Only a held intent is degraded: a stale flag would make a later,         *)
(* unrelated subscribe do a second venue join.                              *)
(***************************************************************************)
DegradedIsHeld == degraded \subseteq Held

(***************************************************************************)
(* Hub interest is one per client and topic, and a client between commands  *)
(* is delivered the topics of the intents it holds.                         *)
(***************************************************************************)
InterestMatches ==
    /\ \A k \in Symbols :
         interest[k] = Cardinality({c \in Clients : k \in subscribed[c]})
    /\ \A c \in Clients : op[c] = Idle =>
         subscribed[c] = {Key(t) : t \in held[c]}

(***************************************************************************)
(* No subscription is silently dark: while the host serves and nobody works *)
(* on its symbol, an intent with a holder is joined at the venue or marked  *)
(* degraded (so it is retried).  Three cases are left out: an intent whose  *)
(* leave the venue refused (its client was told, and the next reconnect     *)
(* re-joins it); a book once a legacy ticker reset has run, which takes no  *)
(* topic lock and may clear the flag of a book a rejoin is refreshing; and  *)
(* the same race of a recovery with a rejoin it did not wait for.           *)
(***************************************************************************)
Settled(t) ==
    /\ pump.step = "serve" /\ ready /\ ~force_reconnect /\ reset.step = "idle"
    /\ topic_locks[Key(t)] = None
HeldIsServed ==
    \A t \in Held \ (refused \cup overtaken) :
      Settled(t) /\ ~(IsBook(t) /\ resets > 0) => t \in joined \cup degraded

(***************************************************************************)
(* "Subscribe rolls back on first-join failure", "teardown must not be      *)
(* undone by a saved retry plan" and "a detach can never be resurrected":   *)
(* no venue join is left without a holder once nobody works on its symbol,  *)
(* but for a leave the venue refused, and for the legacy ticker reset: it    *)
(* re-joins the intents held when it started, without their topic locks, and *)
(* may bring back one that was given up meanwhile; and but for a command of  *)
(* a client already detached, which the recovery does not wait for: if its   *)
(* own join then fails, the restored one stays.                              *)
(***************************************************************************)
NoOrphanJoin ==
    \A t \in joined \ (refused \cup overtaken) :
      Settled(t) /\ resets = 0 => t \in Held

(***************************************************************************)
(* "The host must never send a repeat book subscribe to the venue."         *)
(***************************************************************************)
NoRepeatBook ==
    \A c \in Clients : LET t == op[c].t IN
      /\ op[c].step = "sub_join" /\ op[c].mode = "join" /\ IsBook(t)
      /\ ready /\ ~exclusive
      => t \notin joined
=============================================================================
