-------------------------- MODULE SubscriptionsProofs --------------------------
(***************************************************************************)
(* The refcounts of Subscriptions are exact, what is held is served and     *)
(* what is joined is held, for any number of clients, intents, plant        *)
(* failures and retries.                                                    *)
(***************************************************************************)
EXTENDS Subscriptions, FiniteSetTheorems, TLAPS

OpRecord == [step : Step, t : Intents \cup {None}, had : {"yes", "no"},
             mode : {"none", "join", "refresh"}, dark : {"yes", "no"}]

(* The part of the types that the refcounts rest on. *)
CoreType ==
    /\ refs \in [Intents -> Nat]
    /\ held \in [Clients -> SUBSET Intents]
    /\ op \in [Actors -> OpRecord]

Working == {"sub_gate", "sub_lock", "sub_join", "sub_forget", "refresh_lock",
            "refresh", "unsub_gate", "unsub_lock", "unsub_forget",
            "unsub_leave", "unsub_renote", "td_leave"}
HasIt == {"sub_join", "unsub_gate", "unsub_lock"}
HasItNot == {"sub_gate", "sub_lock", "sub_forget", "unsub_forget",
             "unsub_leave", "unsub_renote"}

(***************************************************************************)
(* Between two locks a command relies on what it last saw of its client's   *)
(* own set: nobody else changes it while the client mutex is held.          *)
(***************************************************************************)
OwnSet ==
    \A c \in Clients :
      /\ op[c].step \in Working => op[c].t \in Intents
      /\ op[c].step \in HasIt => op[c].t \in held[c]
      /\ op[c].step \in HasItNot => op[c].t \notin held[c]

RefsInv == CoreType /\ OwnSet /\ RefsExact

-----------------------------------------------------------------------------
(* The clients counted for an intent are a finite set. *)
LEMMA CountedFinite ==
    ASSUME NEW t PROVE IsFiniteSet(Counted(t))
BY ActorsAssumption, FS_Subset DEF Counted

(* Adding a client not yet counted raises the count by one. *)
LEMMA CountAdd ==
    ASSUME NEW S, NEW c, IsFiniteSet(S), c \notin S
    PROVE  Cardinality(S \cup {c}) = Cardinality(S) + 1
BY FS_AddElement

(* Removing a counted client lowers the count, which was positive, by one. *)
LEMMA CountRemove ==
    ASSUME NEW S, NEW c, IsFiniteSet(S), c \in S
    PROVE  /\ Cardinality(S \ {c}) = Cardinality(S) - 1
           /\ Cardinality(S) \in Nat \ {0}
<1>1. Cardinality(S) \in Nat BY FS_CardinalityType
<1>2. Cardinality(S) # 0 BY FS_EmptySet
<1>3. Cardinality(S \ {c}) = Cardinality(S) - 1 BY FS_RemoveElement
<1> QED BY <1>1, <1>2, <1>3

(* A step that leaves the counts and who is counted alone keeps them equal. *)
LEMMA ExactSame ==
    ASSUME RefsExact, refs' = refs,
           \A t \in Intents : Counted(t)' = Counted(t)
    PROVE  RefsExact'
BY DEF RefsExact

(* A note that makes one more client counted keeps counts exact. *)
LEMMA ExactNote ==
    ASSUME CoreType, RefsExact, NEW c, NEW t \in Intents, refs' = Noted(t),
           c \notin Counted(t), Counted(t)' = Counted(t) \cup {c},
           \A u \in Intents \ {t} : Counted(u)' = Counted(u)
    PROVE  RefsExact' /\ refs' \in [Intents -> Nat]
<1>1. refs'[t] = refs[t] + 1 /\ \A u \in Intents \ {t} : refs'[u] = refs[u]
  BY DEF Noted, CoreType
<1>2. Cardinality(Counted(t) \cup {c}) = Cardinality(Counted(t)) + 1
  BY CountedFinite, CountAdd
<1>3. refs' \in [Intents -> Nat] BY DEF Noted, CoreType
<1> QED BY <1>1, <1>2, <1>3 DEF RefsExact

(* A forget that makes one client no longer counted keeps counts exact. *)
LEMMA ExactForget ==
    ASSUME CoreType, RefsExact, NEW c, NEW t \in Intents, refs' = Forgotten(t),
           c \in Counted(t), Counted(t)' = Counted(t) \ {c},
           \A u \in Intents \ {t} : Counted(u)' = Counted(u)
    PROVE  RefsExact' /\ refs' \in [Intents -> Nat]
<1>1. refs'[t] = refs[t] - 1 /\ \A u \in Intents \ {t} : refs'[u] = refs[u]
  BY DEF Forgotten, CoreType
<1>2. /\ Cardinality(Counted(t) \ {c}) = Cardinality(Counted(t)) - 1
      /\ Cardinality(Counted(t)) \in Nat \ {0}
  BY CountedFinite, CountRemove
<1>3. refs[t] \in Nat \ {0} BY <1>2 DEF RefsExact
<1>4. refs' \in [Intents -> Nat] BY <1>3 DEF Forgotten, CoreType
<1> QED BY <1>1, <1>2, <1>4 DEF RefsExact

(***************************************************************************)
(* A step that changes no count and no client's set, and of one actor's     *)
(* record only what OwnSet allows.                                          *)
(***************************************************************************)
LEMMA StepOfOne ==
    ASSUME RefsInv, NEW a \in Actors, NEW r \in OpRecord,
           refs' = refs, held' = held, op' = [op EXCEPT ![a] = r],
           a \in Clients => /\ r.step \in Working => r.t \in Intents
                            /\ r.step \in HasIt => r.t \in held[a]
                            /\ r.step \in HasItNot => r.t \notin held[a],
           a \in Clients => /\ op[a].step \notin {"sub_forget", "unsub_forget"}
                            /\ r.step \notin {"sub_forget", "unsub_forget"}
    PROVE  RefsInv'
<1>1. CoreType' BY DEF RefsInv, CoreType
<1>2. OwnSet' BY DEF RefsInv, OwnSet, CoreType, Actors
<1>3. \A t \in Intents : Counted(t)' = Counted(t)
  BY DEF Counted, RefsInv, CoreType, Actors
<1> QED BY <1>1, <1>2, <1>3, ExactSame DEF RefsInv

(* A step that leaves counts, sets and commands alone. *)
LEMMA StepOfNone ==
    ASSUME RefsInv, refs' = refs, held' = held, op' = op PROVE RefsInv'
<1>1. \A t \in Intents : Counted(t)' = Counted(t) BY DEF Counted
<1> QED BY <1>1, ExactSame DEF RefsInv, CoreType, OwnSet

(* The record of an actor between commands. *)
LEMMA IdleRecord == Idle \in OpRecord /\ Idle.step = "idle"
BY DEF Idle, OpRecord, Step

(* Moving an actor on keeps the rest of its record. *)
LEMMA GotoRecord ==
    ASSUME CoreType, NEW a \in Actors, NEW s \in Step, Goto(a, s)
    PROVE  LET r == [op[a] EXCEPT !.step = s]
           IN  r \in OpRecord /\ r.step = s /\ r.t = op[a].t
               /\ op' = [op EXCEPT ![a] = r]
BY DEF CoreType, Goto, OpRecord

(* Starting a command: the client's own set decides which. *)
LEMMA SubscribeStep ==
    ASSUME RefsInv, NEW c \in Clients, NEW t \in Intents, Subscribe(c, t)
    PROVE  RefsInv'
<1> DEFINE r == op'[c]
<1>1. r \in OpRecord /\ op' = [op EXCEPT ![c] = r] /\ r.t = t
      /\ r.step \in {"sub_gate", "rejoin_gate", "refresh_lock"}
      /\ (r.step = "sub_gate" => t \notin held[c])
  BY DEF Subscribe, OpRecord, Step, RefsInv, CoreType, Actors
<1>2. op[c].step = "idle" BY IdleRecord DEF Subscribe
<1>3. c \in Actors /\ refs' = refs /\ held' = held
  BY DEF Subscribe, Actors, intentVars, clientVars
<1> HIDE DEF r
<1> QED BY <1>1, <1>2, <1>3, StepOfOne DEF Working, HasIt, HasItNot

(* Starting an unsubscribe, of an intent the client holds. *)
LEMMA UnsubscribeStep ==
    ASSUME RefsInv, NEW c \in Clients, NEW t \in Intents, Unsubscribe(c, t)
    PROVE  RefsInv'
<1> DEFINE r == [Idle EXCEPT !.step = "unsub_gate", !.t = t]
<1>1. r \in OpRecord /\ op' = [op EXCEPT ![c] = r] /\ r.t = t
      /\ r.step = "unsub_gate"
  BY DEF Unsubscribe, OpRecord, Step, Idle
<1>2. op[c].step = "idle" BY IdleRecord DEF Unsubscribe
<1>3. c \in Actors /\ refs' = refs /\ held' = held /\ t \in held[c]
  BY DEF Unsubscribe, Actors, intentVars, clientVars
<1> HIDE DEF r
<1> QED BY <1>1, <1>2, <1>3, StepOfOne DEF Working, HasIt, HasItNot

(* A command that takes a lock, and no more. *)
LEMMA MoveOn ==
    ASSUME RefsInv, NEW a \in Actors, NEW s \in Step, Goto(a, s),
           refs' = refs, held' = held,
           op[a].step \notin {"sub_forget", "unsub_forget"},
           s \notin {"sub_forget", "unsub_forget"},
           a \in Clients => /\ s \in Working => op[a].step \in Working
                            /\ s \in HasIt => op[a].step \in HasIt
                            /\ s \in HasItNot => op[a].step \in HasItNot
    PROVE  RefsInv'
<1> DEFINE r == [op[a] EXCEPT !.step = s]
<1>1. r \in OpRecord /\ r.step = s /\ r.t = op[a].t /\ op' = [op EXCEPT ![a] = r]
  BY GotoRecord DEF RefsInv
<1> HIDE DEF r
<1> QED BY <1>1, StepOfOne DEF RefsInv, OwnSet

(* A command that ends, and no more. *)
LEMMA EndCommand ==
    ASSUME RefsInv, NEW a \in Actors, Done(a), refs' = refs, held' = held,
           a \in Clients => op[a].step \notin {"sub_forget", "unsub_forget"}
    PROVE  RefsInv'
BY IdleRecord, StepOfOne DEF Done, Working, HasIt, HasItNot

(* A new holder: the client was not counted, and is now. *)
LEMMA SubNoteStep ==
    ASSUME RefsInv, NEW c \in Clients, SubNote(c) PROVE RefsInv'
<1> DEFINE r == op'[c]
<1>0. op[c].t \in Intents /\ op[c].t \notin held[c]
  BY DEF SubNote, RefsInv, OwnSet, Working, HasItNot
<1>00. PICK t \in Intents : t = op[c].t BY <1>0
<1>1. t \notin held[c] /\ c \in Actors /\ op[c].step = "sub_lock"
  BY <1>0, <1>00 DEF SubNote, Actors
<1>2. /\ refs' = Noted(t)
      /\ held' = [held EXCEPT ![c] = @ \cup {t}]
  BY <1>00 DEF SubNote
<1>3. JoinMode(t) \in {"none", "join", "refresh"} BY DEF JoinMode
<1>4. r \in OpRecord /\ op' = [op EXCEPT ![c] = r]
      /\ (r.step = "idle" \/ (r.step = "sub_join" /\ r.t = t))
  <2>1. CASE JoinMode(t) = "none"
    <3>1. op' = [op EXCEPT ![c] = Idle] BY <2>1, <1>00 DEF SubNote, Done
    <3>2. op'[c] = Idle BY <3>1, <1>1 DEF RefsInv, CoreType
    <3>3. op' = [op EXCEPT ![c] = op'[c]] BY <3>1, <3>2
    <3>4. op'[c] \in OpRecord /\ op'[c].step = "idle" BY <3>2, IdleRecord
    <3> QED BY <3>3, <3>4
  <2>2. CASE JoinMode(t) # "none"
    BY <2>2, <1>00, <1>1, <1>3 DEF SubNote, OpRecord, Step, RefsInv, CoreType
  <2> QED BY <2>1, <2>2
<1> HIDE DEF r
<1>5. c \notin Counted(t) /\ Counted(t)' = Counted(t) \cup {c}
      /\ \A u \in Intents \ {t} : Counted(u)' = Counted(u)
  BY <1>1, <1>2, <1>4 DEF Counted, RefsInv, CoreType, Actors
<1>6. RefsExact' /\ refs' \in [Intents -> Nat]
  BY <1>1, <1>2, <1>5, ExactNote DEF RefsInv
<1>7. CoreType' BY <1>1, <1>2, <1>4, <1>6 DEF CoreType, RefsInv
<1>8. OwnSet'
  BY <1>1, <1>2, <1>4 DEF OwnSet, RefsInv, CoreType, Actors, Working, HasIt,
     HasItNot
<1> QED BY <1>6, <1>7, <1>8 DEF RefsInv

(* A failed join: the client lets go of the intent but is still counted. *)
LEMMA LetGo ==
    ASSUME RefsInv, NEW c \in Clients, NEW t \in Intents, t = op[c].t,
           NEW s \in {"sub_forget", "unsub_forget"}, Goto(c, s),
           op[c].step \in HasIt, refs' = refs,
           held' = [held EXCEPT ![c] = @ \ {t}]
    PROVE  RefsInv'
<1> DEFINE r == [op[c] EXCEPT !.step = s]
<1>0. s \in Step /\ c \in Actors /\ CoreType BY DEF Step, Actors, RefsInv
<1>1. r \in OpRecord /\ r.step = s /\ r.t = t /\ op' = [op EXCEPT ![c] = r]
  BY <1>0, GotoRecord
<1> HIDE DEF r
<1>2. t \in held[c] /\ c \in Actors BY DEF RefsInv, OwnSet, Actors
<1>3. \A u \in Intents : Counted(u)' = Counted(u)
  BY <1>1, <1>2 DEF Counted, RefsInv, CoreType, HasIt, Actors
<1>4. CoreType' BY <1>1, <1>2 DEF CoreType, RefsInv
<1>5. OwnSet'
  BY <1>1, <1>2 DEF OwnSet, RefsInv, CoreType, Actors, Working, HasIt, HasItNot
<1> QED BY <1>3, <1>4, <1>5, ExactSame DEF RefsInv

(* The forget that follows: the client is no longer counted. *)
LEMMA ForgetIt ==
    ASSUME RefsInv, NEW c \in Clients, NEW t \in Intents, t = op[c].t,
           op[c].step \in {"sub_forget", "unsub_forget"},
           NEW r \in OpRecord, op' = [op EXCEPT ![c] = r],
           r.step = "idle" \/ (r.step = "unsub_leave" /\ r.t = t),
           refs' = Forgotten(t), held' = held
    PROVE  RefsInv'
<1>1. t \notin held[c] /\ c \in Actors
  BY DEF RefsInv, OwnSet, HasItNot, Actors
<1>2. c \in Counted(t) /\ Counted(t)' = Counted(t) \ {c}
      /\ \A u \in Intents \ {t} : Counted(u)' = Counted(u)
  BY <1>1 DEF Counted, RefsInv, CoreType, Actors
<1>3. RefsExact' /\ refs' \in [Intents -> Nat]
  BY <1>2, ExactForget DEF RefsInv
<1>4. CoreType' BY <1>1, <1>3 DEF CoreType, RefsInv
<1>5. OwnSet'
  BY <1>1 DEF OwnSet, RefsInv, CoreType, Actors, Working, HasIt, HasItNot
<1> QED BY <1>3, <1>4, <1>5 DEF RefsInv

(* A forget that ends the command. *)
LEMMA ForgetToIdle ==
    ASSUME RefsInv, NEW c \in Clients, NEW t \in Intents, t = op[c].t,
           op[c].step \in {"sub_forget", "unsub_forget"},
           op' = [op EXCEPT ![c] = Idle],
           refs' = Forgotten(t), held' = held
    PROVE  RefsInv'
<1>1. \A r \in OpRecord :
        r.step = "idle" /\ op' = [op EXCEPT ![c] = r] => RefsInv'
  BY ForgetIt
<1> QED BY <1>1, IdleRecord

(* The steps of a subscribe after its note. *)
LEMMA SubscribeEnds ==
    ASSUME RefsInv, NEW c \in Clients,
           SubJoined(c) \/ SubFailed(c) \/ SubForget(c)
    PROVE  RefsInv'
<1>1. c \in Actors BY DEF Actors
<1>2. CASE SubJoined(c)
  BY <1>1, <1>2, EndCommand DEF SubJoined, clientVars
<1>3. CASE SubFailed(c)
  <2>1. op[c].t \in Intents BY <1>3 DEF SubFailed, RefsInv, OwnSet, Working
  <2>2. PICK t \in Intents : t = op[c].t BY <2>1
  <2>3. op[c].step \in HasIt BY <1>3 DEF SubFailed, HasIt
  <2>4. Goto(c, "sub_forget") /\ refs' = refs
        /\ held' = [held EXCEPT ![c] = @ \ {t}]
    BY <1>3, <2>2 DEF SubFailed
  <2> QED BY <2>2, <2>3, <2>4, LetGo
<1>4. CASE SubForget(c)
  <2>1. op[c].t \in Intents BY <1>4 DEF SubForget, RefsInv, OwnSet, Working
  <2>2. PICK t \in Intents : t = op[c].t BY <2>1
  <2>3. op[c].step = "sub_forget" /\ refs' = Forgotten(t) /\ held' = held
    BY <1>4, <2>2 DEF SubForget
  <2>4. op' = [op EXCEPT ![c] = Idle] BY <1>4 DEF SubForget, Done
  <2> QED BY <2>2, <2>3, <2>4, ForgetToIdle
<1> QED BY <1>2, <1>3, <1>4

(* The steps of an unsubscribe after its gate. *)
LEMMA UnsubscribeEnds ==
    ASSUME RefsInv, NEW c \in Clients,
           \/ UnsubRemove(c) \/ UnsubForget(c) \/ UnsubLeft(c)
           \/ UnsubLeaveFailed(c)
    PROVE  RefsInv'
<1>1. c \in Actors BY DEF Actors
<1>2. CASE UnsubRemove(c)
  <2>1. op[c].t \in Intents BY <1>2 DEF UnsubRemove, RefsInv, OwnSet, Working
  <2>2. PICK t \in Intents : t = op[c].t BY <2>1
  <2>3. op[c].step \in HasIt BY <1>2 DEF UnsubRemove, HasIt
  <2>4. Goto(c, "unsub_forget") /\ refs' = refs
        /\ held' = [held EXCEPT ![c] = @ \ {t}]
    BY <1>2, <2>2 DEF UnsubRemove, intentVars
  <2> QED BY <2>2, <2>3, <2>4, LetGo
<1>3. CASE UnsubForget(c)
  <2>1. op[c].t \in Intents BY <1>3 DEF UnsubForget, RefsInv, OwnSet, Working
  <2>2. PICK t \in Intents : t = op[c].t BY <2>1
  <2>3. op[c].step = "unsub_forget" /\ refs' = Forgotten(t) /\ held' = held
    BY <1>3, <2>2 DEF UnsubForget
  <2>4. CASE refs[t] = 1
    <3> DEFINE r == [op[c] EXCEPT !.step = "unsub_leave"]
    <3>1. Goto(c, "unsub_leave") BY <1>3, <2>2, <2>4 DEF UnsubForget
    <3>2. "unsub_leave" \in Step /\ CoreType BY DEF Step, RefsInv
    <3>3. r \in OpRecord /\ r.step = "unsub_leave" /\ r.t = t
          /\ op' = [op EXCEPT ![c] = r]
      BY <1>1, <2>2, <3>1, <3>2, GotoRecord
    <3> HIDE DEF r
    <3> QED BY <2>2, <2>3, <3>2, <3>3, ForgetIt
  <2>5. CASE refs[t] # 1
    <3>1. op' = [op EXCEPT ![c] = Idle] BY <1>3, <2>2, <2>5 DEF UnsubForget, Done
    <3> QED BY <2>2, <2>3, <3>1, ForgetToIdle
  <2> QED BY <2>4, <2>5
<1>4. CASE UnsubLeft(c)
  BY <1>1, <1>4, EndCommand DEF UnsubLeft, intentVars
<1>5. CASE UnsubLeaveFailed(c)
  <2>1. "unsub_renote" \in Step BY DEF Step
  <2>2. Goto(c, "unsub_renote") /\ refs' = refs /\ held' = held
        /\ op[c].step = "unsub_leave"
    BY <1>5 DEF UnsubLeaveFailed, intentVars, clientVars
  <2> QED BY <1>1, <2>1, <2>2, MoveOn DEF Working, HasIt, HasItNot
<1> QED BY <1>2, <1>3, <1>4, <1>5

(* A refused leave: the client is a counted holder again. *)
LEMMA RenoteStep ==
    ASSUME RefsInv, NEW c \in Clients, UnsubRenote(c) PROVE RefsInv'
<1>0. op[c].t \in Intents /\ op[c].t \notin held[c]
  BY DEF UnsubRenote, RefsInv, OwnSet, Working, HasItNot
<1>00. PICK t \in Intents : t = op[c].t BY <1>0
<1>1. t \notin held[c] /\ c \in Actors /\ op[c].step = "unsub_renote"
  BY <1>0, <1>00 DEF UnsubRenote, Actors
<1>2. /\ refs' = Noted(t)
      /\ held' = [held EXCEPT ![c] = @ \cup {t}]
      /\ op' = [op EXCEPT ![c] = Idle]
  BY <1>00 DEF UnsubRenote, Done
<1>3. PICK r \in OpRecord : r = Idle BY IdleRecord
<1>4. r.step = "idle" /\ op' = [op EXCEPT ![c] = r] BY <1>2, <1>3, IdleRecord
<1>5. c \notin Counted(t) /\ Counted(t)' = Counted(t) \cup {c}
      /\ \A u \in Intents \ {t} : Counted(u)' = Counted(u)
  BY <1>1, <1>2, <1>4 DEF Counted, RefsInv, CoreType, Actors
<1>6. RefsExact' /\ refs' \in [Intents -> Nat]
  BY <1>1, <1>2, <1>5, ExactNote DEF RefsInv
<1>7. CoreType' BY <1>1, <1>2, <1>4, <1>6 DEF CoreType, RefsInv
<1>8. OwnSet'
  BY <1>1, <1>2, <1>4 DEF OwnSet, RefsInv, CoreType, Actors, Working, HasIt,
     HasItNot
<1> QED BY <1>6, <1>7, <1>8 DEF RefsInv

(* A teardown lets go of one intent: a holder less, and one count less. *)
LEMMA TdForgetStep ==
    ASSUME RefsInv, NEW c \in Clients, NEW t \in Intents, TdForget(c, t)
    PROVE  RefsInv'
<1>1. /\ t \in held[c] /\ c \in Actors /\ op[c].step = "td"
      /\ refs' = Forgotten(t) /\ held' = [held EXCEPT ![c] = @ \ {t}]
  BY DEF TdForget, Actors
<1>2. PICK r \in OpRecord :
        /\ op' = [op EXCEPT ![c] = r]
        /\ r.step = "td" \/ (r.step = "td_leave" /\ r.t = t)
  <2>1. CASE refs[t] = 1
    <3> DEFINE q == [Idle EXCEPT !.step = "td_leave", !.t = t]
    <3>1. op' = [op EXCEPT ![c] = q] BY <2>1 DEF TdForget
    <3>2. q \in OpRecord /\ q.step = "td_leave" /\ q.t = t
      BY DEF OpRecord, Step, Idle
    <3> HIDE DEF q
    <3> QED BY <3>1, <3>2
  <2>2. CASE refs[t] # 1
    <3>1. op' = op BY <2>2 DEF TdForget
    <3>2. op[c] \in OpRecord /\ op' = [op EXCEPT ![c] = op[c]]
      BY <1>1, <3>1 DEF RefsInv, CoreType
    <3> QED BY <1>1, <3>2
  <2> QED BY <2>1, <2>2
<1>3. c \in Counted(t) /\ Counted(t)' = Counted(t) \ {c}
      /\ \A u \in Intents \ {t} : Counted(u)' = Counted(u)
  BY <1>1, <1>2 DEF Counted, RefsInv, CoreType, Actors
<1>4. RefsExact' /\ refs' \in [Intents -> Nat]
  BY <1>1, <1>3, ExactForget DEF RefsInv
<1>5. CoreType' BY <1>1, <1>2, <1>4 DEF CoreType, RefsInv
<1>6. OwnSet'
  BY <1>1, <1>2 DEF OwnSet, RefsInv, CoreType, Actors, Working, HasIt, HasItNot
<1> QED BY <1>4, <1>5, <1>6 DEF RefsInv

(* The other steps of a teardown. *)
LEMMA TeardownSteps ==
    ASSUME RefsInv, NEW c \in Clients,
           \/ Detach(c) \/ TdStart(c) \/ TdEnd(c)
           \/ \E ok \in BOOLEAN : TdLeave(c, ok)
    PROVE  RefsInv'
<1>1. c \in Actors /\ "td" \in Step /\ "gone" \in Step BY DEF Actors, Step
<1>2. CASE TdStart(c)
  <2>1. Goto(c, "td") /\ refs' = refs /\ held' = held /\ op[c].step = "idle"
    BY <1>2, IdleRecord DEF TdStart, intentVars, clientVars
  <2> QED BY <1>1, <2>1, MoveOn DEF Working, HasIt, HasItNot
<1>3. CASE TdEnd(c)
  <2>1. Goto(c, "gone") /\ refs' = refs /\ held' = held /\ op[c].step = "td"
    BY <1>3 DEF TdEnd, intentVars
  <2> QED BY <1>1, <2>1, MoveOn DEF Working, HasIt, HasItNot
<1>4. CASE \E ok \in BOOLEAN : TdLeave(c, ok)
  <2> DEFINE q == [Idle EXCEPT !.step = "td"]
  <2>1. op' = [op EXCEPT ![c] = q] /\ refs' = refs /\ held' = held
        /\ op[c].step = "td_leave"
    BY <1>4 DEF TdLeave, intentVars, clientVars
  <2>2. q \in OpRecord /\ q.step = "td" BY DEF OpRecord, Step, Idle
  <2> HIDE DEF q
  <2> QED BY <1>1, <2>1, <2>2, StepOfOne DEF Working, HasIt, HasItNot
<1>5. CASE Detach(c)
  BY <1>5, StepOfNone DEF Detach, intentVars, clientVars
<1> QED BY <1>2, <1>3, <1>4, <1>5

(* The locks, the snapshot refresh and the rejoin of a degraded intent. *)
LEMMA LockSteps ==
    ASSUME RefsInv, NEW a \in Actors,
           \/ TakeGate(a) \/ RejoinLock(a) \/ RefreshLock(a)
           \/ \E ok \in BOOLEAN : Rejoin(a, ok) \/ Refresh(a, ok)
    PROVE  RefsInv'
<1>1. CASE TakeGate(a)
  <2>1. Goto(a, AfterGate(op[a].step)) /\ refs' = refs /\ held' = held
        /\ op[a].step \in {"sub_gate", "rejoin_gate", "unsub_gate"}
    BY <1>1 DEF TakeGate, intentVars, clientVars
  <2>2. CASE op[a].step = "sub_gate"
    <3>1. Goto(a, "sub_lock") BY <2>1, <2>2 DEF AfterGate
    <3>2. "sub_lock" \in Step BY DEF Step
    <3> QED BY <2>1, <2>2, <3>1, <3>2, MoveOn DEF Working, HasIt, HasItNot
  <2>3. CASE op[a].step = "rejoin_gate"
    <3>1. Goto(a, "rejoin_lock") BY <2>1, <2>3 DEF AfterGate
    <3>2. "rejoin_lock" \in Step BY DEF Step
    <3> QED BY <2>1, <2>3, <3>1, <3>2, MoveOn DEF Working, HasIt, HasItNot
  <2>4. CASE op[a].step = "unsub_gate"
    <3>1. Goto(a, "unsub_lock") BY <2>1, <2>4 DEF AfterGate
    <3>2. "unsub_lock" \in Step BY DEF Step
    <3> QED BY <2>1, <2>4, <3>1, <3>2, MoveOn DEF Working, HasIt, HasItNot
  <2> QED BY <2>1, <2>2, <2>3, <2>4
<1>2. CASE RejoinLock(a)
  <2>1. refs' = refs /\ held' = held /\ op[a].step = "rejoin_lock"
        /\ (Goto(a, "rejoin") \/ Done(a))
    BY <1>2 DEF RejoinLock, intentVars, clientVars
  <2>2. "rejoin" \in Step BY DEF Step
  <2> QED BY <2>1, <2>2, MoveOn, EndCommand DEF Working, HasIt, HasItNot
<1>3. CASE RefreshLock(a)
  <2>1. refs' = refs /\ held' = held /\ op[a].step = "refresh_lock"
        /\ Goto(a, "refresh")
    BY <1>3 DEF RefreshLock, intentVars, clientVars
  <2>2. "refresh" \in Step BY DEF Step
  <2> QED BY <2>1, <2>2, MoveOn DEF Working, HasIt, HasItNot
<1>4. CASE \E ok \in BOOLEAN : Rejoin(a, ok) \/ Refresh(a, ok)
  <2>1. refs' = refs /\ held' = held /\ op[a].step \in {"rejoin", "refresh"}
        /\ Done(a)
    BY <1>4 DEF Rejoin, Refresh, clientVars
  <2> QED BY <2>1, EndCommand
<1> QED BY <1>1, <1>2, <1>3, <1>4

(* The pump and the legacy reset touch no count and no client's set. *)
LEMMA PumpSteps ==
    ASSUME RefsInv,
           \/ PumpStep \/ ResetTicker \/ ResetPlan \/ ResetEnd
           \/ \E t \in Intents, ok \in BOOLEAN : ResetJoin(t, ok)
    PROVE  RefsInv'
<1>0. Pump \in Actors /\ Pump \notin Clients BY ActorsAssumption DEF Actors
<1>1. CASE \E scope \in Scopes : Interrupt(scope)
  <2>1. Done(Pump) /\ refs' = refs /\ held' = held
    BY <1>1 DEF Interrupt, intentVars, clientVars
  <2> QED BY <1>0, <2>1, EndCommand
<1>2. CASE \E t \in Intents : Retry(t)
  <2>1. PICK t \in Intents : Retry(t) BY <1>2
  <2> DEFINE q == [Idle EXCEPT !.step = "rejoin_gate", !.t = t]
  <2>2. op' = [op EXCEPT ![Pump] = q] /\ refs' = refs /\ held' = held
    BY <2>1 DEF Retry, intentVars, clientVars
  <2>3. q \in OpRecord BY DEF OpRecord, Step, Idle
  <2> HIDE DEF q
  <2> QED BY <1>0, <2>2, <2>3, StepOfOne
<1>3. CASE \/ NotifySessions \/ Plan \/ PassStart \/ Finish
           \/ \E ok \in BOOLEAN : Rebuild(ok) \/ PassEnd(ok) \/ DroppedRejoin(ok)
  <2>1. refs' = refs /\ held' = held /\ op' = op
    BY <1>3 DEF NotifySessions, Plan, PassStart, Finish, Rebuild, PassEnd,
       DroppedRejoin, intentVars, clientVars
  <2> QED BY <2>1, StepOfNone
<1>4. CASE \/ ResetTicker \/ ResetPlan \/ ResetEnd
           \/ \E t \in Intents, ok \in BOOLEAN :
                PassJoin(t, ok) \/ ResetJoin(t, ok)
  <2>1. refs' = refs /\ held' = held /\ op' = op
    BY <1>4 DEF ResetTicker, ResetPlan, ResetEnd, PassJoin, ResetJoin, intentVars, clientVars
  <2> QED BY <2>1, StepOfNone
<1> QED BY <1>1, <1>2, <1>3, <1>4 DEF PumpStep

(* The invariant holds initially: nobody holds anything, every count is 0. *)
LEMMA RefsInitial == Init => RefsInv
<1> SUFFICES ASSUME Init PROVE RefsInv OBVIOUS
<1>1. CoreType
  BY IdleRecord DEF Init, CoreType
<1>2. \A c \in Clients : op[c].step = "idle" /\ held[c] = {}
  BY IdleRecord DEF Init, Actors
<1>3. OwnSet BY <1>2 DEF OwnSet, Working, HasIt, HasItNot
<1>4. \A t \in Intents : Counted(t) = {} BY <1>2 DEF Counted
<1>5. Cardinality({}) = 0 BY FS_EmptySet
<1>6. RefsExact BY <1>4, <1>5 DEF RefsExact, Init
<1> QED BY <1>1, <1>3, <1>6 DEF RefsInv

(* Every step keeps the refcounts. *)
LEMMA RefsStep == RefsInv /\ [Next]_vars => RefsInv'
<1> SUFFICES ASSUME RefsInv, [Next]_vars PROVE RefsInv' OBVIOUS
<1>1. CASE \E c \in Clients : ClientStep(c)
  <2>1. PICK c \in Clients : ClientStep(c) BY <1>1
  <2>2. c \in Actors BY DEF Actors
  <2>3. CASE \E t \in Intents : Subscribe(c, t) \/ Unsubscribe(c, t)
                                \/ TdForget(c, t)
    BY <2>3, SubscribeStep, UnsubscribeStep, TdForgetStep
  <2>4. CASE SubNote(c) BY <2>4, SubNoteStep
  <2>5. CASE SubJoined(c) \/ SubFailed(c) \/ SubForget(c)
    BY <2>5, SubscribeEnds
  <2>6. CASE RefreshLock(c) \/ \E ok \in BOOLEAN : Refresh(c, ok)
    BY <2>2, <2>6, LockSteps
  <2>7. CASE \/ Detach(c) \/ TdStart(c) \/ TdEnd(c)
             \/ \E ok \in BOOLEAN : TdLeave(c, ok)
    BY <2>7, TeardownSteps
  <2>8. CASE \/ UnsubRemove(c) \/ UnsubForget(c) \/ UnsubLeft(c)
             \/ UnsubLeaveFailed(c)
    BY <2>8, UnsubscribeEnds
  <2>9. CASE UnsubRenote(c) BY <2>9, RenoteStep
  <2> QED BY <2>1, <2>3, <2>4, <2>5, <2>6, <2>7, <2>8, <2>9 DEF ClientStep
<1>2. CASE \E a \in Actors : TakeGate(a) \/ RejoinLock(a)
                             \/ (\E ok \in BOOLEAN : Rejoin(a, ok))
  BY <1>2, LockSteps
<1>3. CASE \/ PumpStep \/ ResetTicker \/ ResetPlan \/ ResetEnd
           \/ \E t \in Intents, ok \in BOOLEAN : ResetJoin(t, ok)
  BY <1>3, PumpSteps
<1>4. CASE UNCHANGED vars
  BY <1>4, StepOfNone DEF vars, intentVars, clientVars
<1> QED BY <1>1, <1>2, <1>3, <1>4 DEF Next

(***************************************************************************)
(* IntentStore's refcounts are exact in every reachable state: whatever the *)
(* interleaving of subscribes, unsubscribes, rollbacks, teardowns, resets   *)
(* and recoveries, an intent counts its holders and no one else.            *)
(***************************************************************************)
THEOREM RefcountExact == Spec => []RefsExact
<1>1. RefsInv => RefsExact BY DEF RefsInv
<1> QED BY RefsInitial, RefsStep, <1>1, PTL DEF Spec

-----------------------------------------------------------------------------
(***************************************************************************)
(* What is held is served, and what is joined is held.  Layer one: whoever  *)
(* works on an intent at the venue has the lock of its symbol, and a count  *)
(* seen under the lock stays true.                                          *)
(***************************************************************************)
LockedSteps == {"sub_join", "sub_forget", "rejoin", "refresh", "unsub_forget",
                "unsub_leave", "unsub_renote", "td_leave"}
Left == {"unsub_leave", "unsub_renote", "td_leave"}
RejoinSteps == {"rejoin_gate", "rejoin_lock", "rejoin"}

(* Types of the sets and locks, beyond CoreType. *)
WorkTyped ==
    /\ degraded \subseteq Intents /\ joined \subseteq Intents
    /\ topic_locks \in [Symbols -> Actors \cup {None}]
(* A locked step has the lock of the symbol it works on. *)
LocksHeld ==
    \A a \in Actors : op[a].step \in LockedSteps =>
      op[a].t \in Intents /\ topic_locks[Key(op[a].t)] = a
(* What an actor knows of its intent from step to step. *)
Known(a) ==
    /\ op[a].step \in RejoinSteps => op[a].t \in Intents
    /\ op[a].step \in {"refresh_lock", "refresh"} =>
         a \in Clients /\ op[a].t \in held[a]
    /\ op[a].step \in Left => refs[op[a].t] = 0
    /\ op[a].step = "rejoin" => refs[op[a].t] > 0
    /\ a = Pump => op[a].step \in RejoinSteps \cup {"idle"}
WorkInv ==
    /\ WorkTyped /\ LocksHeld /\ DegradedIsHeld
    /\ \A a \in Actors : Known(a)

(***************************************************************************)
(* Layer two: while the pump recovers it serves nothing, its own retry is   *)
(* gone, and a command still under way was overtaken.                       *)
(***************************************************************************)
PumpRecord == [step : {"serve", "notify", "rebuild", "plan", "pass", "joins",
                       "finish", "failed"},
               scope : SUBSET Intents, pending : SUBSET Intents,
               todo : SUBSET Intents, attempt : Nat, pass : Nat]
ResetRecord == [step : {"idle", "plan", "joins"}, todo : SUBSET Intents,
                failed : {"yes", "no"}]
Between == {"idle", "td", "td_leave", "gone"}
PhaseInv ==
    /\ pump \in PumpRecord /\ reset \in ResetRecord
    /\ ready \in BOOLEAN /\ exclusive \in BOOLEAN /\ force_reconnect \in BOOLEAN
    /\ issues \in Nat /\ resets \in Nat
    /\ pump.step # "serve" => ~ready /\ op[Pump].step = "idle"
    /\ pump.step \notin {"serve", "notify"} =>
         \A c \in Clients : op[c].step \notin Between => op[c].t \in overtaken
    /\ exclusive <=> pump.step = "joins"
    /\ resets = 0 => reset.step = "idle"

(***************************************************************************)
(* Layer three, intent by intent.  InHand: its first holder has yet to join *)
(* or to roll back.  Leaving: its last holder has yet to leave the venue.   *)
(* Planned: a recovery or a reset will join it, or has given up.            *)
(***************************************************************************)
InHand(t) ==
    \E c \in Clients : /\ op[c].t = t /\ op[c].step \in {"sub_join", "sub_forget"}
                       /\ refs[t] = 1
Leaving(t) ==
    \E c \in Clients : op[c].t = t /\ op[c].step \in {"unsub_leave", "td_leave"}
Rejoining(t) == \E a \in Actors : op[a].t = t /\ op[a].step = "rejoin"
Planned(t) ==
    \/ pump.step \in {"notify", "rebuild", "plan"} /\ t \in pump.scope
    \/ pump.step \in {"pass", "joins", "finish"} /\ t \in pump.pending
    \/ pump.step = "joins" /\ t \in pump.todo
    \/ pump.step = "failed"
    \/ reset.step = "plan"
    \/ reset.step = "joins" /\ (t \in reset.todo \/ reset.failed = "yes")
Served(t) ==
    \/ force_reconnect
    \/ /\ refs[t] > 0 /\ t \notin refused \cup overtaken
       /\ ~(IsBook(t) /\ resets > 0)
       => InHand(t) \/ t \in joined \cup degraded \/ Planned(t)
Owned(t) ==
    resets = 0 /\ t \notin overtaken =>
      /\ t \in joined \ refused => (refs[t] > 0 /\ ~InHand(t)) \/ Leaving(t)
      /\ pump.step = "joins" /\ t \in pump.todo => refs[t] > 0 \/ Leaving(t)
RejoinIsDark(t) ==
    resets = 0 /\ t \notin overtaken /\ IsBook(t) /\ Rejoining(t) => t \in degraded
GoodIntent(t) == Served(t) /\ Owned(t) /\ RejoinIsDark(t)

ServeInv == WorkInv /\ PhaseInv /\ \A t \in Intents : GoodIntent(t)

-----------------------------------------------------------------------------
(***************************************************************************)
(* A step of one actor on one intent, under the lock of its symbol: nobody  *)
(* else's command, no other intent and no phase of pump or reset changes.   *)
(***************************************************************************)
Others(a) ==
    /\ \A b \in Actors \ {a} : op'[b] = op[b]
    /\ \A b \in Clients \ {a} : held'[b] = held[b]
    /\ topic_locks' \in [Symbols -> Actors \cup {None}]
    /\ \A k \in Symbols : \/ topic_locks'[k] = topic_locks[k]
                          \/ topic_locks[k] \in {None, a} /\ topic_locks'[k] \in {None, a}
PhaseSame ==
    UNCHANGED <<exclusive, ready, force_reconnect, pump, issues, overtaken, reset, resets>>
Touch(a, t) ==
    /\ Others(a) /\ PhaseSame
    /\ topic_locks[Key(t)] \in {None, a}
    /\ op[a].step \in LockedSteps => op[a].t = t
    /\ op'[a].step \in LockedSteps => op'[a].t = t /\ topic_locks'[Key(t)] = a
    /\ \A u \in Intents \ {t} :
         /\ refs'[u] = refs[u] /\ (u \in degraded' <=> u \in degraded)
         /\ (u \in joined' <=> u \in joined) /\ (u \in refused' <=> u \in refused)
    /\ degraded' \subseteq Intents /\ joined' \subseteq Intents
(* A command goes on with its intent, or starts while the host serves. *)
Carries(a) ==
    \/ op'[a].step \in Between
    \/ op[a].step \notin Between /\ op'[a].t = op[a].t
    \/ ready /\ a \in Clients
    \/ pump.step = "serve" /\ a = Pump

(* The symbol of an intent. *)
LEMMA KeyType == ASSUME NEW t \in Intents PROVE Key(t) \in Symbols
BY DEF Intents, Key

(* Nobody else works on an intent whose lock is free or one's own. *)
LEMMA Sole ==
    ASSUME WorkInv, NEW a \in Actors, NEW t \in Intents, Others(a),
           topic_locks[Key(t)] \in {None, a}
    PROVE  \A b \in Actors \ {a} :
             /\ ~(op[b].step \in LockedSteps /\ op[b].t = t)
             /\ ~(op'[b].step \in LockedSteps /\ op'[b].t = t)
BY ActorsAssumption DEF WorkInv, LocksHeld, Others, Actors

(* What is known of the intent in hand is what its one actor is doing. *)
LEMMA OneActor ==
    ASSUME WorkInv, NEW a \in Actors, NEW t \in Intents, Others(a),
           topic_locks[Key(t)] \in {None, a}
    PROVE  /\ InHand(t) <=> /\ a \in Clients /\ op[a].t = t /\ refs[t] = 1
                            /\ op[a].step \in {"sub_join", "sub_forget"}
           /\ InHand(t)' <=> /\ a \in Clients /\ op'[a].t = t /\ refs'[t] = 1
                             /\ op'[a].step \in {"sub_join", "sub_forget"}
           /\ Leaving(t) <=> /\ a \in Clients /\ op[a].t = t
                             /\ op[a].step \in {"unsub_leave", "td_leave"}
           /\ Leaving(t)' <=> /\ a \in Clients /\ op'[a].t = t
                              /\ op'[a].step \in {"unsub_leave", "td_leave"}
           /\ Rejoining(t) <=> op[a].t = t /\ op[a].step = "rejoin"
           /\ Rejoining(t)' <=> op'[a].t = t /\ op'[a].step = "rejoin"
<1>1. \A b \in Actors \ {a} : /\ ~(op[b].step \in LockedSteps /\ op[b].t = t)
                              /\ ~(op'[b].step \in LockedSteps /\ op'[b].t = t)
  BY Sole
<1>2. Clients \subseteq Actors BY DEF Actors
<1> QED BY <1>1, <1>2 DEF InHand, Leaving, Rejoining, LockedSteps

(* For any other intent the commands on it stay as they are. *)
LEMMA OtherIntents ==
    ASSUME NEW a \in Actors, NEW t \in Intents, Touch(a, t), NEW u \in Intents \ {t}
    PROVE  /\ InHand(u)' <=> InHand(u)
           /\ Leaving(u)' <=> Leaving(u)
           /\ Rejoining(u)' <=> Rejoining(u)
<1>1. Clients \subseteq Actors BY DEF Actors
<1>2. refs'[u] = refs[u] BY DEF Touch
<1>3. \A b \in Actors \ {a} : op'[b] = op[b] BY DEF Touch, Others
<1>4. ~(op[a].step \in LockedSteps /\ op[a].t = u)
      /\ ~(op'[a].step \in LockedSteps /\ op'[a].t = u)
  BY DEF Touch
<1> QED BY <1>1, <1>2, <1>3, <1>4 DEF InHand, Leaving, Rejoining, LockedSteps

(* So it is served and owned as before. *)
LEMMA OtherGood ==
    ASSUME NEW a \in Actors, NEW t \in Intents, Touch(a, t),
           NEW u \in Intents \ {t}, GoodIntent(u)
    PROVE  GoodIntent(u)'
<1>1. /\ InHand(u)' <=> InHand(u)
      /\ Leaving(u)' <=> Leaving(u)
      /\ Rejoining(u)' <=> Rejoining(u)
  BY OtherIntents
<1>2. /\ refs'[u] = refs[u] /\ (u \in degraded' <=> u \in degraded)
      /\ (u \in joined' <=> u \in joined) /\ (u \in refused' <=> u \in refused)
  BY DEF Touch
<1>3. PhaseSame BY DEF Touch
<1>4. Planned(u)' <=> Planned(u) BY <1>3 DEF Planned, PhaseSame
<1>5. Served(u)' BY <1>1, <1>2, <1>3, <1>4 DEF Served, PhaseSame, GoodIntent
<1>6. Owned(u)' BY <1>1, <1>2, <1>3 DEF Owned, PhaseSame, GoodIntent
<1>7. RejoinIsDark(u)'
  BY <1>1, <1>2, <1>3 DEF RejoinIsDark, PhaseSame, GoodIntent
<1> QED BY <1>5, <1>6, <1>7 DEF GoodIntent

(* The locks of the others stand. *)
LEMMA LocksKept ==
    ASSUME WorkInv, RefsInv, NEW a \in Actors, NEW t \in Intents, Touch(a, t)
    PROVE  LocksHeld'
<1> SUFFICES ASSUME NEW b \in Actors, op'[b].step \in LockedSteps
             PROVE  op'[b].t \in Intents /\ topic_locks'[Key(op'[b].t)] = b
  BY DEF LocksHeld
<1>1. CASE b = a BY <1>1 DEF Touch
<1>2. CASE b # a
  <2>1. op'[b] = op[b] BY <1>2 DEF Touch, Others
  <2>2. op[b].t \in Intents /\ topic_locks[Key(op[b].t)] = b
    BY <2>1 DEF WorkInv, LocksHeld
  <2>3. Key(op[b].t) \in Symbols BY <2>2, KeyType
  <2>4. b # None BY ActorsAssumption DEF Actors
  <2> QED BY <1>2, <2>1, <2>2, <2>3, <2>4 DEF Touch, Others
<1> QED BY <1>1, <1>2

(* What the others know stands: their counts change under their locks only. *)
LEMMA KnownKept ==
    ASSUME WorkInv, RefsInv, NEW a \in Actors, NEW t \in Intents, Touch(a, t),
           NEW b \in Actors, b # a
    PROVE  Known(b)'
<1>1. op'[b] = op[b] /\ (b \in Clients => held'[b] = held[b])
  BY DEF Touch, Others
<1>2. Known(b) BY DEF WorkInv
<1>3. op[b].step \in LockedSteps => op[b].t \in Intents \ {t}
  <2>1. ~(op[b].step \in LockedSteps /\ op[b].t = t) BY Sole DEF Touch
  <2> QED BY <2>1 DEF WorkInv, LocksHeld
<1>4. op[b].step \in LockedSteps => refs'[op[b].t] = refs[op[b].t]
  BY <1>3 DEF Touch
<1> QED BY <1>1, <1>2, <1>4 DEF Known, LockedSteps, Left

(* Pump and reset take no part. *)
LEMMA PhaseKept ==
    ASSUME PhaseInv, NEW a \in Actors, Others(a), PhaseSame, Carries(a),
           a = Pump => op'[a].step \in RejoinSteps \cup {"idle"}
    PROVE  PhaseInv'
<1>1. /\ pump' = pump /\ reset' = reset /\ ready' = ready /\ exclusive' = exclusive
      /\ force_reconnect' = force_reconnect /\ issues' = issues /\ resets' = resets
      /\ overtaken' = overtaken
  BY DEF PhaseSame
<1>2. pump.step # "serve" => ~ready /\ op'[Pump].step = "idle"
  <2> SUFFICES ASSUME pump.step # "serve" PROVE ~ready /\ op'[Pump].step = "idle"
    OBVIOUS
  <2>1. ~ready /\ op[Pump].step = "idle" BY DEF PhaseInv
  <2>2. CASE a = Pump
    BY <2>1, <2>2, ActorsAssumption DEF Carries, Between, RejoinSteps
  <2>3. CASE a # Pump BY <2>1, <2>3 DEF Others, Actors
  <2> QED BY <2>1, <2>2, <2>3
<1>3. ASSUME pump.step \notin {"serve", "notify"}, NEW c \in Clients,
             op'[c].step \notin Between
      PROVE  op'[c].t \in overtaken
  <2>1. ~ready /\ \A d \in Clients : op[d].step \notin Between => op[d].t \in overtaken
    BY <1>3 DEF PhaseInv
  <2>2. CASE a = c
    BY <1>3, <2>1, <2>2, ActorsAssumption DEF Carries
  <2>3. CASE a # c BY <1>3, <2>1, <2>3 DEF Others, Actors
  <2> QED BY <2>2, <2>3
<1>4. PhaseInv BY DEF PhaseInv
<1> QED BY <1>1, <1>2, <1>3, <1>4 DEF PhaseInv

(* The step of one actor keeps everything, if it leaves its intent good. *)
LEMMA TouchKeeps ==
    ASSUME RefsInv, ServeInv, NEW a \in Actors, NEW t \in Intents, Touch(a, t),
           Carries(a), Known(a)', t \in degraded' => refs'[t] > 0, GoodIntent(t)'
    PROVE  ServeInv'
<1>1. LocksHeld' BY LocksKept DEF ServeInv
<1>2. \A b \in Actors : Known(b)' BY KnownKept DEF ServeInv
<1>3. DegradedIsHeld'
  <2>1. \A u \in degraded : refs[u] > 0
    BY DEF ServeInv, WorkInv, DegradedIsHeld, Held
  <2>2. \A u \in degraded' : u \in Intents /\ refs'[u] > 0
    BY <2>1 DEF Touch
  <2> QED BY <2>2 DEF DegradedIsHeld, Held
<1>4. WorkTyped' BY DEF WorkTyped, Touch, Others
<1>5. PhaseInv'
  <2>1. a = Pump => op'[a].step \in RejoinSteps \cup {"idle"} BY DEF Known
  <2> QED BY <2>1, PhaseKept DEF ServeInv, Touch
<1>6. \A u \in Intents : GoodIntent(u)' BY OtherGood DEF ServeInv
<1> QED BY <1>1, <1>2, <1>3, <1>4, <1>5, <1>6 DEF ServeInv, WorkInv

(***************************************************************************)
(* A step that works on no intent: it starts a command, waits for a lock,   *)
(* or ends what had no lock.                                                *)
(***************************************************************************)
Plain(a) ==
    /\ Others(a)
    /\ op[a].step \in LockedSteps => a = Pump
    /\ op'[a].step \notin LockedSteps
    /\ UNCHANGED <<refs, degraded, joined, refused>>

(* Then the commands on every intent stay as they are. *)
LEMMA PlainIntents ==
    ASSUME NEW a \in Actors, Plain(a), NEW u \in Intents
    PROVE  /\ InHand(u)' <=> InHand(u)
           /\ Leaving(u)' <=> Leaving(u)
           /\ Rejoining(u)' => Rejoining(u)
<1>1. Clients \subseteq Actors /\ Pump \notin Clients
  BY ActorsAssumption DEF Actors
<1>2. refs' = refs BY DEF Plain
<1>3. \A b \in Actors \ {a} : op'[b] = op[b] BY DEF Plain, Others
<1>4. (op[a].step \in LockedSteps => a = Pump) /\ op'[a].step \notin LockedSteps
  BY DEF Plain
<1> QED BY <1>1, <1>2, <1>3, <1>4 DEF InHand, Leaving, Rejoining, LockedSteps

(* Such a step keeps what is known of locks and intents. *)
LEMMA PlainWork ==
    ASSUME RefsInv, WorkInv, NEW a \in Actors, Plain(a), Known(a)'
    PROVE  WorkInv'
<1>1. LocksHeld'
  <2> SUFFICES ASSUME NEW b \in Actors, op'[b].step \in LockedSteps
               PROVE  op'[b].t \in Intents /\ topic_locks'[Key(op'[b].t)] = b
    BY DEF LocksHeld
  <2>1. b # a /\ op'[b] = op[b] BY DEF Plain, Others
  <2>2. op[b].t \in Intents /\ topic_locks[Key(op[b].t)] = b
    BY <2>1 DEF WorkInv, LocksHeld
  <2>3. Key(op[b].t) \in Symbols BY <2>2, KeyType
  <2>4. b # None BY ActorsAssumption DEF Actors
  <2> QED BY <2>1, <2>2, <2>3, <2>4 DEF Plain, Others
<1>2. \A b \in Actors : Known(b)'
  <2> SUFFICES ASSUME NEW b \in Actors, b # a PROVE Known(b)' OBVIOUS
  <2>1. op'[b] = op[b] /\ (b \in Clients => held'[b] = held[b]) /\ refs' = refs
    BY DEF Plain, Others
  <2>2. Known(b) BY DEF WorkInv
  <2> QED BY <2>1, <2>2 DEF Known
<1>3. WorkTyped' /\ DegradedIsHeld'
  BY DEF WorkInv, WorkTyped, Plain, Others, DegradedIsHeld, Held
<1> QED BY <1>1, <1>2, <1>3 DEF WorkInv

(* And, when pump and reset stay as well, everything. *)
LEMMA PlainKeeps ==
    ASSUME RefsInv, ServeInv, NEW a \in Actors, Plain(a), PhaseSame, Carries(a),
           Known(a)'
    PROVE  ServeInv'
<1>1. WorkInv' BY PlainWork DEF ServeInv
<1>2. PhaseInv'
  <2>1. a = Pump => op'[a].step \in RejoinSteps \cup {"idle"} BY DEF Known
  <2> QED BY <2>1, PhaseKept DEF ServeInv, Plain
<1>3. ASSUME NEW u \in Intents PROVE GoodIntent(u)'
  <2>1. /\ InHand(u)' <=> InHand(u)
        /\ Leaving(u)' <=> Leaving(u)
        /\ Rejoining(u)' => Rejoining(u)
    BY PlainIntents
  <2>2. refs' = refs /\ degraded' = degraded /\ joined' = joined /\ refused' = refused
    BY DEF Plain
  <2>3. Planned(u)' <=> Planned(u) BY DEF Planned, PhaseSame
  <2>4. GoodIntent(u) BY DEF ServeInv
  <2>5. Served(u)' BY <2>1, <2>2, <2>3, <2>4 DEF Served, PhaseSame, GoodIntent
  <2>6. Owned(u)' BY <2>1, <2>2, <2>4 DEF Owned, PhaseSame, GoodIntent
  <2>7. RejoinIsDark(u)'
    BY <2>1, <2>2, <2>4 DEF RejoinIsDark, PhaseSame, GoodIntent
  <2> QED BY <2>5, <2>6, <2>7 DEF GoodIntent
<1> QED BY <1>1, <1>2, <1>3 DEF ServeInv

-----------------------------------------------------------------------------
(* The effect of Goto on the commands. *)
LEMMA AfterGoto ==
    ASSUME RefsInv, NEW a \in Actors, NEW s, Goto(a, s)
    PROVE  /\ op'[a].step = s /\ op'[a].t = op[a].t
           /\ \A b \in Actors \ {a} : op'[b] = op[b]
BY DEF Goto, RefsInv, CoreType, OpRecord

(* The effect of Done on commands and locks. *)
LEMMA AfterDone ==
    ASSUME RefsInv, WorkInv, NEW a \in Actors, Done(a)
    PROVE  /\ op'[a].step = "idle"
           /\ \A b \in Actors \ {a} : op'[b] = op[b]
           /\ topic_locks' \in [Symbols -> Actors \cup {None}]
           /\ \A k \in Symbols : \/ topic_locks'[k] = topic_locks[k]
                                 \/ topic_locks[k] = a /\ topic_locks'[k] = None
<1>1. op'[a] = Idle /\ \A b \in Actors \ {a} : op'[b] = op[b]
  BY DEF Done, RefsInv, CoreType
<1>2. topic_locks' = [k \in Symbols |-> IF topic_locks[k] = a THEN None ELSE topic_locks[k]]
  BY DEF Done, Release
<1>3. topic_locks \in [Symbols -> Actors \cup {None}] BY DEF WorkInv, WorkTyped
<1> QED BY <1>1, <1>2, <1>3, IdleRecord

(* The effect of Lock. *)
LEMMA AfterLock ==
    ASSUME WorkInv, NEW a \in Actors, NEW t \in Intents, op[a].t = t, Lock(a)
    PROVE  /\ topic_locks[Key(t)] = None /\ topic_locks'[Key(t)] = a
           /\ topic_locks' \in [Symbols -> Actors \cup {None}]
           /\ \A k \in Symbols : \/ topic_locks'[k] = topic_locks[k]
                                 \/ topic_locks[k] = None /\ topic_locks'[k] = a
BY KeyType DEF Lock, WorkInv, WorkTyped

(* An unlocked client keeps its command's intent to itself. *)
LEMMA OwnIntent ==
    ASSUME RefsInv, WorkInv, NEW a \in Actors, op[a].step \in LockedSteps
    PROVE  op[a].t \in Intents /\ topic_locks[Key(op[a].t)] = a
BY DEF WorkInv, LocksHeld

(* A counted client makes the count positive. *)
LEMMA CountedIsHeld ==
    ASSUME RefsInv, NEW c \in Clients, NEW t \in Intents, c \in Counted(t)
    PROVE  refs[t] > 0
<1>1. /\ Cardinality(Counted(t)) \in Nat \ {0}
  BY CountedFinite, CountRemove
<1> QED BY <1>1 DEF RefsInv, RefsExact

(* The phase of pump and reset stands in every step of a client. *)
LEMMA SamePhase ==
    ASSUME UNCHANGED <<pumpVars, resetVars>> PROVE PhaseSame
BY DEF PhaseSame, pumpVars, resetVars

(* A client counts for the intent it joins, refreshes or forgets. *)
LEMMA WorkedIsHeld ==
    ASSUME RefsInv, WorkInv, NEW c \in Clients, NEW t \in Intents, op[c].t = t,
           op[c].step \in {"sub_join", "sub_forget", "unsub_forget", "refresh"}
    PROVE  refs[t] > 0
<1>1. c \in Actors BY DEF Actors
<1>2. c \in Counted(t)
  <2>1. CASE op[c].step = "sub_join"
    BY <2>1 DEF RefsInv, OwnSet, HasIt, Counted
  <2>2. CASE op[c].step = "refresh"
    BY <1>1, <2>2 DEF WorkInv, Known, Counted
  <2>3. CASE op[c].step \in {"sub_forget", "unsub_forget"}
    BY <2>3 DEF Counted
  <2> QED BY <2>1, <2>2, <2>3
<1> QED BY <1>2, CountedIsHeld

(* The venue call of a subscribe succeeds. *)
LEMMA SubJoinedServes ==
    ASSUME RefsInv, RefsInv', ServeInv, NEW c \in Clients, SubJoined(c)
    PROVE  ServeInv'
<1> USE DEF ServeInv
<1>0. c \in Actors /\ op[c].step = "sub_join" BY DEF Actors, SubJoined
<1>1. op[c].t \in Intents /\ topic_locks[Key(op[c].t)] = c
  BY <1>0, OwnIntent DEF LockedSteps
<1>2. PICK t \in Intents : t = op[c].t BY <1>1
<1>3. refs[t] > 0 BY <1>0, <1>2, WorkedIsHeld
<1>4. /\ op'[c].step = "idle" /\ Others(c)
  BY <1>0, AfterDone DEF SubJoined, Others, clientVars
<1>5. /\ refs' = refs /\ PhaseSame
      /\ joined' = joined \cup {t} /\ refused' = refused \ {t}
      /\ degraded' \in {degraded, degraded \ {t}}
  BY <1>2, SamePhase DEF SubJoined, VenueRefresh, VenueJoin
<1>6. Touch(c, t)
  BY <1>0, <1>1, <1>2, <1>4, <1>5 DEF Touch, LockedSteps, WorkInv, WorkTyped
<1>7. Known(c)' /\ Carries(c)
  BY <1>4, ActorsAssumption DEF Known, Carries, RejoinSteps, Left, Between
<1>8. ~InHand(t)' /\ ~Leaving(t)' /\ ~Rejoining(t)'
  BY <1>0, <1>1, <1>2, <1>4, OneActor
<1>9. GoodIntent(t)'
  <2>1. t \in joined' /\ refs'[t] > 0 BY <1>3, <1>5
  <2> QED BY <1>8, <2>1 DEF GoodIntent, Served, Owned, RejoinIsDark
<1> QED BY <1>0, <1>3, <1>5, <1>6, <1>7, <1>9, TouchKeeps

(* The venue call of a subscribe fails: the rollback is still to come. *)
LEMMA SubFailedServes ==
    ASSUME RefsInv, RefsInv', ServeInv, NEW c \in Clients, SubFailed(c)
    PROVE  ServeInv'
<1> USE DEF ServeInv
<1>0. c \in Actors /\ op[c].step = "sub_join" BY DEF Actors, SubFailed
<1>1. op[c].t \in Intents /\ topic_locks[Key(op[c].t)] = c
  BY <1>0, OwnIntent DEF LockedSteps
<1>2. PICK t \in Intents : t = op[c].t BY <1>1
<1>3. refs[t] > 0 BY <1>0, <1>2, WorkedIsHeld
<1>4. op'[c].step = "sub_forget" /\ op'[c].t = t
      /\ \A b \in Actors \ {c} : op'[b] = op[b]
  BY <1>0, <1>2, AfterGoto DEF SubFailed
<1>5. topic_locks' = topic_locks /\ \A b \in Clients \ {c} : held'[b] = held[b]
  BY DEF SubFailed, lockVars, RefsInv, CoreType
<1>6. Others(c) BY <1>4, <1>5 DEF Others, WorkInv, WorkTyped
<1>7. /\ refs' = refs /\ PhaseSame /\ refused' = refused
      /\ \/ joined' = joined /\ degraded' \in {degraded, degraded \cup {t}}
         \/ joined' \in {joined, joined \ {t}} /\ degraded' = degraded \cup {t}
  BY <1>2, <1>3, SamePhase DEF SubFailed, VenueRefresh, VenueJoin, venueVars, Marked
<1>8. Touch(c, t)
  BY <1>0, <1>1, <1>2, <1>4, <1>5, <1>6, <1>7 DEF Touch, LockedSteps, WorkInv, WorkTyped
<1>9. Known(c)' /\ Carries(c)
  BY <1>0, <1>2, <1>4, ActorsAssumption DEF Known, Carries, RejoinSteps, Left, Between
<1>10. (InHand(t)' <=> InHand(t)) /\ ~Leaving(t) /\ ~Leaving(t)' /\ ~Rejoining(t)'
  BY <1>0, <1>1, <1>2, <1>4, <1>6, <1>7, OneActor
<1>11. GoodIntent(t)'
  <2>1. GoodIntent(t) OBVIOUS
  <2>2. Planned(t)' <=> Planned(t) BY <1>7 DEF Planned, PhaseSame
  <2>3. Served(t)' BY <1>7, <1>10, <2>1, <2>2 DEF GoodIntent, Served, PhaseSame
  <2>4. Owned(t)' BY <1>3, <1>7, <1>10, <2>1 DEF GoodIntent, Owned, PhaseSame
  <2> QED BY <1>10, <2>3, <2>4 DEF GoodIntent, RejoinIsDark
<1> QED BY <1>0, <1>3, <1>7, <1>8, <1>9, <1>11, TouchKeeps

(* Forgetting an intent: its count, and its mark when it was the last. *)
LEMMA AfterForget ==
    ASSUME RefsInv, WorkInv, NEW t \in Intents, refs[t] > 0,
           refs' = Forgotten(t), degraded' = DegradedAfterForget(t)
    PROVE  /\ refs'[t] = refs[t] - 1 /\ refs[t] \in Nat
           /\ \A u \in Intents \ {t} : refs'[u] = refs[u]
           /\ \A u \in Intents \ {t} : u \in degraded' <=> u \in degraded
           /\ degraded' \subseteq Intents
           /\ t \in degraded' => refs'[t] > 0
           /\ refs[t] > 1 => degraded' = degraded
BY DEF Forgotten, DegradedAfterForget, RefsInv, CoreType, WorkInv, WorkTyped

(* The rollback of a failed subscribe. *)
LEMMA SubForgetServes ==
    ASSUME RefsInv, RefsInv', ServeInv, NEW c \in Clients, SubForget(c)
    PROVE  ServeInv'
<1> USE DEF ServeInv
<1>0. c \in Actors /\ op[c].step = "sub_forget" BY DEF Actors, SubForget
<1>1. op[c].t \in Intents /\ topic_locks[Key(op[c].t)] = c
  BY <1>0, OwnIntent DEF LockedSteps
<1>2. PICK t \in Intents : t = op[c].t BY <1>1
<1>3. refs[t] > 0 BY <1>0, <1>2, WorkedIsHeld
<1>4. op'[c].step = "idle" /\ Others(c)
  BY <1>0, AfterDone DEF SubForget, Others
<1>5. /\ PhaseSame /\ refused' = refused /\ joined' = joined
      /\ refs' = Forgotten(t) /\ degraded' = DegradedAfterForget(t)
  BY <1>2, SamePhase DEF SubForget, venueVars
<1>6. /\ refs'[t] = refs[t] - 1 /\ refs[t] \in Nat
      /\ \A u \in Intents \ {t} : refs'[u] = refs[u]
      /\ \A u \in Intents \ {t} : u \in degraded' <=> u \in degraded
      /\ degraded' \subseteq Intents
      /\ t \in degraded' => refs'[t] > 0
      /\ refs[t] > 1 => degraded' = degraded
  BY <1>3, <1>5, AfterForget
<1>7. Touch(c, t)
  BY <1>0, <1>1, <1>2, <1>4, <1>5, <1>6 DEF Touch, LockedSteps, WorkInv, WorkTyped
<1>8. Known(c)' /\ Carries(c)
  BY <1>4, ActorsAssumption DEF Known, Carries, RejoinSteps, Left, Between
<1>9. ~InHand(t)' /\ ~Leaving(t) /\ ~Leaving(t)' /\ ~Rejoining(t)'
      /\ (InHand(t) <=> refs[t] = 1)
  BY <1>0, <1>1, <1>2, <1>4, OneActor
<1>10. GoodIntent(t)'
  <2>1. GoodIntent(t) OBVIOUS
  <2>2. Planned(t)' <=> Planned(t) BY <1>5 DEF Planned, PhaseSame
  <2>3. pump.step = "joins" => t \in overtaken
    BY <1>0, <1>2 DEF PhaseInv, Between
  <2>4. Served(t)' BY <1>5, <1>6, <1>9, <2>1, <2>2 DEF GoodIntent, Served, PhaseSame
  <2>5. Owned(t)'
    <3>1. CASE refs[t] = 1
      BY <3>1, <1>5, <1>9, <2>1, <2>3 DEF GoodIntent, Owned, PhaseSame
    <3>2. CASE refs[t] > 1
      <4>1. refs'[t] > 0 BY <3>2, <1>6
      <4> QED BY <4>1, <1>9 DEF Owned
    <3> QED BY <1>3, <1>6, <3>1, <3>2
  <2> QED BY <1>9, <2>4, <2>5 DEF GoodIntent, RejoinIsDark
<1> QED BY <1>0, <1>6, <1>7, <1>8, <1>10, TouchKeeps

(* A held book takes its lock, then refreshes its snapshot. *)
LEMMA RefreshServes ==
    ASSUME RefsInv, RefsInv', ServeInv, NEW c \in Clients,
           RefreshLock(c) \/ \E ok \in BOOLEAN : Refresh(c, ok)
    PROVE  ServeInv'
<1> USE DEF ServeInv
<1>0. c \in Actors BY DEF Actors
<1>1. op[c].t \in Intents
  BY DEF RefreshLock, Refresh, RefsInv, OwnSet, Working
<1>2. PICK t \in Intents : t = op[c].t BY <1>1
<1>3. GoodIntent(t) OBVIOUS
<1>4. CASE RefreshLock(c)
  <2>1. /\ op'[c].step = "refresh" /\ op'[c].t = t /\ op[c].step = "refresh_lock"
        /\ \A b \in Actors \ {c} : op'[b] = op[b]
    BY <1>0, <1>2, <1>4, AfterGoto DEF RefreshLock
  <2>2. /\ topic_locks[Key(t)] = None /\ topic_locks'[Key(t)] = c
        /\ topic_locks' \in [Symbols -> Actors \cup {None}]
        /\ \A k \in Symbols : \/ topic_locks'[k] = topic_locks[k]
                              \/ topic_locks[k] = None /\ topic_locks'[k] = c
    BY <1>0, <1>2, <1>4, AfterLock DEF RefreshLock
  <2>3. /\ refs' = refs /\ degraded' = degraded /\ joined' = joined
        /\ refused' = refused /\ held' = held /\ PhaseSame
    BY <1>4, SamePhase DEF RefreshLock, intentVars, clientVars, venueVars
  <2>4. Others(c) BY <2>1, <2>2, <2>3 DEF Others
  <2>5. Touch(c, t)
    BY <1>0, <2>1, <2>2, <2>3, <2>4 DEF Touch, LockedSteps, WorkInv, WorkTyped
  <2>6. Known(c)' /\ Carries(c)
    BY <1>0, <1>2, <2>1, <2>3, ActorsAssumption
       DEF WorkInv, Known, Carries, RejoinSteps, Left, Between
  <2>7. /\ ~InHand(t) /\ ~InHand(t)' /\ ~Leaving(t) /\ ~Leaving(t)'
        /\ ~Rejoining(t)'
    BY <1>0, <2>1, <2>2, <2>4, OneActor
  <2>8. GoodIntent(t)'
    <3>1. Planned(t)' <=> Planned(t) BY <2>3 DEF Planned, PhaseSame
    <3> QED BY <1>3, <2>3, <2>7, <3>1
            DEF GoodIntent, Served, Owned, RejoinIsDark, PhaseSame
  <2>9. t \in degraded' => refs'[t] > 0
    BY <2>3 DEF WorkInv, DegradedIsHeld, Held
  <2> QED BY <1>0, <2>5, <2>6, <2>8, <2>9, TouchKeeps
<1>5. CASE \E ok \in BOOLEAN : Refresh(c, ok)
  <2>0. PICK ok \in BOOLEAN : Refresh(c, ok) BY <1>5
  <2>1. op[c].step = "refresh" /\ topic_locks[Key(t)] = c
    BY <1>0, <1>2, <2>0, OwnIntent DEF Refresh, LockedSteps
  <2>2. refs[t] > 0 BY <1>2, <2>1, WorkedIsHeld
  <2>3. op'[c].step = "idle" /\ Others(c)
    BY <1>0, <2>0, AfterDone DEF Refresh, Others, clientVars
  <2>4. /\ refs' = refs /\ PhaseSame
        /\ \/ joined' = joined \cup {t} /\ refused' = refused \ {t} /\ degraded' = degraded
           \/ /\ joined' \in {joined, joined \ {t}} /\ refused' = refused
              /\ degraded' = degraded \cup {t}
           \/ joined' = joined /\ refused' = refused /\ degraded' = degraded
    BY <1>2, <2>0, <2>2, SamePhase DEF Refresh, VenueRefresh, venueVars, Marked
  <2>5. Touch(c, t)
    BY <1>0, <1>2, <2>1, <2>3, <2>4 DEF Touch, LockedSteps, WorkInv, WorkTyped
  <2>6. Known(c)' /\ Carries(c)
    BY <2>3, ActorsAssumption DEF Known, Carries, RejoinSteps, Left, Between
  <2>7. /\ ~InHand(t) /\ ~InHand(t)' /\ ~Leaving(t) /\ ~Leaving(t)'
        /\ ~Rejoining(t)'
    BY <1>0, <2>1, <2>3, OneActor
  <2>8. GoodIntent(t)'
    <3>1. Planned(t)' <=> Planned(t) BY <2>4 DEF Planned, PhaseSame
    <3>2. Served(t)'
      BY <1>3, <2>4, <2>7, <3>1 DEF GoodIntent, Served, PhaseSame
    <3>3. Owned(t)' BY <2>2, <2>4, <2>7 DEF Owned
    <3> QED BY <2>7, <3>2, <3>3 DEF GoodIntent, RejoinIsDark
  <2> QED BY <1>0, <2>2, <2>4, <2>5, <2>6, <2>8, TouchKeeps
<1> QED BY <1>4, <1>5

(***************************************************************************)
(* What the venue call of a rejoin may leave behind.  A book may lose its   *)
(* join half way, but it is marked, unless a reset or a recovery took the   *)
(* mark meanwhile.                                                          *)
(***************************************************************************)
Called(t) ==
    /\ refs' = refs /\ PhaseSame
    /\ \/ /\ joined' = joined \cup {t} /\ refused' = refused \ {t}
          /\ degraded' \in {degraded, degraded \ {t}}
       \/ /\ IsBook(t) /\ joined' \in {joined, joined \ {t}} /\ refused' = refused
          /\ degraded' = degraded
       \/ joined' = joined /\ refused' = refused /\ degraded' = degraded

(* A rejoin leaves its intent good, whether its actor ends or is dropped. *)
LEMMA CalledIsGood ==
    ASSUME RefsInv, ServeInv, NEW a \in Actors, NEW t \in Intents,
           op[a].step = "rejoin", op[a].t = t, Others(a), Called(t),
           \/ op'[a].step = "idle"
           \/ op'[a] = op[a] /\ degraded' = degraded
    PROVE  GoodIntent(t)' /\ refs'[t] > 0
<1> USE DEF ServeInv
<1>1. topic_locks[Key(t)] = a BY OwnIntent DEF LockedSteps
<1>2. refs[t] > 0 /\ refs' = refs BY DEF WorkInv, Known, Called
<1>3. /\ ~InHand(t) /\ ~InHand(t)' /\ ~Leaving(t) /\ ~Leaving(t)' /\ Rejoining(t)
      /\ (Rejoining(t)' => degraded' = degraded)
  BY <1>1, OneActor
<1>4. GoodIntent(t) OBVIOUS
<1>5. Planned(t)' <=> Planned(t) BY DEF Planned, PhaseSame, Called
<1>6. Served(t)'
  <2> SUFFICES ASSUME refs[t] > 0, t \notin refused' \cup overtaken,
                      ~(IsBook(t) /\ resets > 0), ~force_reconnect
               PROVE  t \in joined' \cup degraded' \/ Planned(t)'
    BY <1>2 DEF Served, Called, PhaseSame
  <2>1. resets \in Nat BY DEF PhaseInv
  <2>2. IsBook(t) => t \in degraded
    BY <1>3, <1>4, <2>1 DEF GoodIntent, RejoinIsDark
  <2>3. CASE t \in joined' BY <2>3
  <2>4. CASE t \notin joined'
    <3>1. t \notin refused /\ degraded' = degraded /\ (joined' = joined \/ IsBook(t))
      BY <2>4 DEF Called
    <3> QED BY <1>3, <1>4, <1>5, <2>2, <2>4, <3>1 DEF GoodIntent, Served
  <2> QED BY <2>3, <2>4
<1>7. Owned(t)' BY <1>2, <1>3 DEF Owned
<1>8. RejoinIsDark(t)'
  BY <1>3, <1>4 DEF GoodIntent, RejoinIsDark, Called, PhaseSame
<1> QED BY <1>2, <1>6, <1>7, <1>8 DEF GoodIntent

(* The rejoin of a degraded intent by its holder or by the pump. *)
LEMMA RejoinServes ==
    ASSUME RefsInv, RefsInv', ServeInv, NEW a \in Actors, NEW ok \in BOOLEAN, Rejoin(a, ok)
    PROVE  ServeInv'
<1> USE DEF ServeInv
<1>1. /\ op[a].step = "rejoin" /\ op[a].t \in Intents /\ topic_locks[Key(op[a].t)] = a
  BY OwnIntent DEF Rejoin, LockedSteps
<1>2. PICK t \in Intents : t = op[a].t BY <1>1
<1>3. op'[a].step = "idle" /\ Others(a)
  BY AfterDone DEF Rejoin, Others, clientVars
<1>4. Called(t)
  BY <1>2, SamePhase DEF Rejoin, Called, VenueRefresh, VenueJoin, venueVars
<1>5. GoodIntent(t)' /\ refs'[t] > 0 BY <1>1, <1>2, <1>3, <1>4, CalledIsGood
<1>6. Touch(a, t)
  BY <1>1, <1>2, <1>3, <1>4 DEF Touch, Called, LockedSteps, WorkInv, WorkTyped
<1>7. Known(a)' /\ Carries(a)
  BY <1>3 DEF Known, Carries, RejoinSteps, Left, Between
<1> QED BY <1>5, <1>6, <1>7, TouchKeeps

(* A retry that will be dropped, whose call still took effect. *)
LEMMA DroppedServes ==
    ASSUME RefsInv, RefsInv', ServeInv, NEW ok \in BOOLEAN, DroppedRejoin(ok)
    PROVE  ServeInv'
<1> USE DEF ServeInv
<1>0. Pump \in Actors /\ Pump \notin Clients BY ActorsAssumption DEF Actors
<1>1. /\ op[Pump].step = "rejoin" /\ op[Pump].t \in Intents
      /\ topic_locks[Key(op[Pump].t)] = Pump
  BY <1>0, OwnIntent DEF DroppedRejoin, LockedSteps
<1>2. PICK t \in Intents : t = op[Pump].t BY <1>1
<1>3. op' = op /\ topic_locks' = topic_locks /\ held' = held /\ degraded' = degraded
  BY DEF DroppedRejoin, lockVars, clientVars, intentVars
<1>4. Others(Pump) BY <1>3 DEF Others, WorkInv, WorkTyped
<1>5. Called(t)
  BY <1>2, SamePhase DEF DroppedRejoin, Called, VenueRefresh, VenueJoin, intentVars
<1>6. GoodIntent(t)' /\ refs'[t] > 0 BY <1>0, <1>1, <1>2, <1>3, <1>4, <1>5, CalledIsGood
<1>7. Touch(Pump, t)
  BY <1>0, <1>1, <1>2, <1>3, <1>4, <1>5 DEF Touch, Called, LockedSteps, WorkInv, WorkTyped
<1>8. Known(Pump)' /\ Carries(Pump)
  BY <1>0, <1>1, <1>3, <1>5 DEF WorkInv, Known, Carries, Between, Called
<1> QED BY <1>0, <1>6, <1>7, <1>8, TouchKeeps

(* The look under the topic lock that comes before. *)
LEMMA RejoinLockServes ==
    ASSUME RefsInv, RefsInv', ServeInv, NEW a \in Actors, RejoinLock(a)
    PROVE  ServeInv'
<1> USE DEF ServeInv
<1>1. op[a].step = "rejoin_lock" /\ op[a].t \in Intents
  BY DEF RejoinLock, WorkInv, Known, RejoinSteps
<1>2. PICK t \in Intents : t = op[a].t BY <1>1
<1>3. /\ refs' = refs /\ degraded' = degraded /\ joined' = joined
      /\ refused' = refused /\ held' = held /\ PhaseSame
  BY SamePhase DEF RejoinLock, intentVars, clientVars, venueVars
<1>4. CASE t \in degraded
  <2>1. /\ op'[a].step = "rejoin" /\ op'[a].t = t
        /\ \A b \in Actors \ {a} : op'[b] = op[b]
    BY <1>2, <1>4, AfterGoto DEF RejoinLock
  <2>2. /\ topic_locks[Key(t)] = None /\ topic_locks'[Key(t)] = a
        /\ topic_locks' \in [Symbols -> Actors \cup {None}]
        /\ \A k \in Symbols : \/ topic_locks'[k] = topic_locks[k]
                              \/ topic_locks[k] = None /\ topic_locks'[k] = a
    BY <1>2, <1>4, AfterLock DEF RejoinLock
  <2>3. Others(a) BY <1>3, <2>1, <2>2 DEF Others
  <2>4. Touch(a, t)
    BY <1>1, <1>3, <2>1, <2>2, <2>3 DEF Touch, LockedSteps, WorkInv, WorkTyped
  <2>5. refs[t] > 0 BY <1>4 DEF WorkInv, DegradedIsHeld, Held
  <2>6. Known(a)' /\ Carries(a)
    BY <1>1, <1>2, <1>3, <2>1, <2>5 DEF Known, Carries, RejoinSteps, Left, Between
  <2>7. /\ ~InHand(t) /\ ~InHand(t)' /\ ~Leaving(t) /\ ~Leaving(t)'
    BY <1>1, <2>1, <2>2, <2>3, OneActor
  <2>8. GoodIntent(t)'
    BY <1>3, <1>4, <2>5, <2>7 DEF GoodIntent, Served, Owned, RejoinIsDark
  <2> QED BY <1>3, <2>4, <2>5, <2>6, <2>8, TouchKeeps
<1>5. CASE t \notin degraded
  <2>1. op'[a].step = "idle" /\ Others(a)
    BY <1>2, <1>3, <1>5, AfterDone DEF RejoinLock, Others
  <2>2. Plain(a) BY <1>1, <1>3, <2>1 DEF Plain, LockedSteps
  <2>3. Known(a)' /\ Carries(a)
    BY <2>1 DEF Known, Carries, RejoinSteps, Left, Between
  <2> QED BY <1>3, <2>2, <2>3, PlainKeeps
<1> QED BY <1>4, <1>5

(* An unsubscribe takes its lock and lets go of the intent. *)
LEMMA UnsubRemoveServes ==
    ASSUME RefsInv, RefsInv', ServeInv, NEW c \in Clients, UnsubRemove(c)
    PROVE  ServeInv'
<1> USE DEF ServeInv
<1>0. c \in Actors /\ op[c].step = "unsub_lock" /\ op[c].t \in Intents
  BY DEF Actors, UnsubRemove, RefsInv, OwnSet, Working
<1>1. PICK t \in Intents : t = op[c].t BY <1>0
<1>2. /\ op'[c].step = "unsub_forget" /\ op'[c].t = t
      /\ \A b \in Actors \ {c} : op'[b] = op[b]
  BY <1>0, <1>1, AfterGoto DEF UnsubRemove
<1>3. /\ topic_locks[Key(t)] = None /\ topic_locks'[Key(t)] = c
      /\ topic_locks' \in [Symbols -> Actors \cup {None}]
      /\ \A k \in Symbols : \/ topic_locks'[k] = topic_locks[k]
                            \/ topic_locks[k] = None /\ topic_locks'[k] = c
  BY <1>0, <1>1, AfterLock DEF UnsubRemove
<1>4. /\ refs' = refs /\ degraded' = degraded /\ joined' = joined
      /\ refused' = refused /\ PhaseSame
      /\ \A b \in Clients \ {c} : held'[b] = held[b]
  BY SamePhase DEF UnsubRemove, intentVars, venueVars, RefsInv, CoreType
<1>5. Others(c) BY <1>2, <1>3, <1>4 DEF Others
<1>6. Touch(c, t)
  BY <1>0, <1>2, <1>3, <1>4, <1>5 DEF Touch, LockedSteps, WorkInv, WorkTyped
<1>7. Known(c)' /\ Carries(c)
  BY <1>0, <1>1, <1>2, ActorsAssumption DEF Known, Carries, RejoinSteps, Left, Between
<1>8. /\ ~InHand(t) /\ ~InHand(t)' /\ ~Leaving(t) /\ ~Leaving(t)' /\ ~Rejoining(t)'
  BY <1>0, <1>2, <1>3, <1>5, OneActor
<1>9. GoodIntent(t)'
  <2>1. GoodIntent(t) OBVIOUS
  <2>2. Planned(t)' <=> Planned(t) BY <1>4 DEF Planned, PhaseSame
  <2> QED BY <1>4, <1>8, <2>1, <2>2
          DEF GoodIntent, Served, Owned, RejoinIsDark, PhaseSame
<1>10. t \in degraded' => refs'[t] > 0
  BY <1>4 DEF WorkInv, DegradedIsHeld, Held
<1> QED BY <1>0, <1>6, <1>7, <1>9, <1>10, TouchKeeps

(* A forget of a holder, by unsubscribe or teardown, leaves the intent with  *)
(* its other holders, or about to leave the venue.                           *)
LEMMA ForgetIsGood ==
    ASSUME RefsInv, ServeInv, NEW c \in Clients, NEW t \in Intents, Others(c),
           topic_locks[Key(t)] \in {None, c}, refs[t] > 0, PhaseSame,
           op[c].step \in {"unsub_forget", "td"},
           refs' = Forgotten(t), degraded' = DegradedAfterForget(t),
           joined' = joined, refused' = refused,
           \/ /\ refs[t] = 1 /\ op'[c].t = t
              /\ op'[c].step \in {"unsub_leave", "td_leave"}
           \/ refs[t] # 1 /\ op'[c].step \in {"idle", "td"}
    PROVE  GoodIntent(t)'
<1> USE DEF ServeInv
<1>0. c \in Actors BY DEF Actors
<1>1. /\ refs'[t] = refs[t] - 1 /\ refs[t] \in Nat
      /\ refs[t] > 1 => degraded' = degraded
  BY AfterForget
<1>2. /\ ~InHand(t) /\ ~InHand(t)' /\ ~Leaving(t) /\ ~Rejoining(t)'
      /\ (Leaving(t)' <=> refs[t] = 1)
  BY <1>0, OneActor
<1>3. GoodIntent(t) OBVIOUS
<1>4. Planned(t)' <=> Planned(t) BY DEF Planned, PhaseSame
<1>5. Served(t)'
  BY <1>1, <1>2, <1>3, <1>4 DEF GoodIntent, Served, PhaseSame
<1>6. Owned(t)' BY <1>1, <1>2 DEF Owned
<1> QED BY <1>2, <1>5, <1>6 DEF GoodIntent, RejoinIsDark

(* The forget of an unsubscribe. *)
LEMMA UnsubForgetServes ==
    ASSUME RefsInv, RefsInv', ServeInv, NEW c \in Clients, UnsubForget(c)
    PROVE  ServeInv'
<1> USE DEF ServeInv
<1>0. c \in Actors /\ op[c].step = "unsub_forget" BY DEF Actors, UnsubForget
<1>1. op[c].t \in Intents /\ topic_locks[Key(op[c].t)] = c
  BY <1>0, OwnIntent DEF LockedSteps
<1>2. PICK t \in Intents : t = op[c].t BY <1>1
<1>3. refs[t] > 0 BY <1>0, <1>2, WorkedIsHeld
<1>4. /\ PhaseSame /\ refused' = refused /\ joined' = joined /\ held' = held
      /\ refs' = Forgotten(t) /\ degraded' = DegradedAfterForget(t)
  BY <1>2, SamePhase DEF UnsubForget, venueVars
<1>5. Others(c) /\ (\/ refs[t] = 1 /\ op'[c].t = t /\ op'[c].step = "unsub_leave"
                       /\ topic_locks' = topic_locks
                    \/ refs[t] # 1 /\ op'[c].step = "idle")
  <2>1. CASE refs[t] = 1
    <3>1. Goto(c, "unsub_leave") /\ topic_locks' = topic_locks
      BY <2>1, <1>2 DEF UnsubForget, lockVars
    <3>2. op'[c].t = t /\ op'[c].step = "unsub_leave"
          /\ \A b \in Actors \ {c} : op'[b] = op[b]
      BY <1>0, <1>2, <3>1, AfterGoto
    <3> QED BY <1>4, <2>1, <3>1, <3>2 DEF Others, WorkInv, WorkTyped
  <2>2. CASE refs[t] # 1
    <3>1. Done(c) BY <2>2, <1>2 DEF UnsubForget
    <3> QED BY <1>0, <1>4, <2>2, <3>1, AfterDone DEF Others
  <2> QED BY <2>1, <2>2
<1>6. /\ refs'[t] = refs[t] - 1 /\ refs[t] \in Nat
      /\ \A u \in Intents \ {t} : refs'[u] = refs[u]
      /\ \A u \in Intents \ {t} : u \in degraded' <=> u \in degraded
      /\ degraded' \subseteq Intents
      /\ t \in degraded' => refs'[t] > 0
  BY <1>3, <1>4, AfterForget
<1>7. Touch(c, t)
  BY <1>0, <1>1, <1>2, <1>4, <1>5, <1>6 DEF Touch, LockedSteps, WorkInv, WorkTyped
<1>8. Known(c)' /\ Carries(c)
  BY <1>0, <1>2, <1>5, <1>6, ActorsAssumption
     DEF Known, Carries, RejoinSteps, Left, Between
<1>9. GoodIntent(t)' BY <1>0, <1>1, <1>2, <1>3, <1>4, <1>5, ForgetIsGood
<1> QED BY <1>0, <1>6, <1>7, <1>8, <1>9, TouchKeeps

(* The forget of a teardown. *)
LEMMA TdForgetServes ==
    ASSUME RefsInv, RefsInv', ServeInv, NEW c \in Clients, NEW t \in Intents,
           TdForget(c, t)
    PROVE  ServeInv'
<1> USE DEF ServeInv
<1>0. c \in Actors /\ op[c].step = "td" /\ t \in held[c] BY DEF Actors, TdForget
<1>1. topic_locks[Key(t)] = None /\ Key(t) \in Symbols BY KeyType DEF TdForget
<1>2. refs[t] > 0 BY <1>0, CountedIsHeld DEF Counted
<1>3. /\ PhaseSame /\ refused' = refused /\ joined' = joined
      /\ refs' = Forgotten(t) /\ degraded' = DegradedAfterForget(t)
      /\ \A b \in Clients \ {c} : held'[b] = held[b]
  BY SamePhase DEF TdForget, venueVars, RefsInv, CoreType
<1>4. /\ Others(c)
      /\ \/ refs[t] = 1 /\ op'[c].t = t /\ op'[c].step = "td_leave"
            /\ topic_locks'[Key(t)] = c
         \/ refs[t] # 1 /\ op'[c].step = "td"
  <2>1. CASE refs[t] = 1
    <3> DEFINE q == [Idle EXCEPT !.step = "td_leave", !.t = t]
    <3>1. op' = [op EXCEPT ![c] = q] /\ topic_locks' = [topic_locks EXCEPT ![Key(t)] = c]
      BY <2>1 DEF TdForget
    <3>2. q.step = "td_leave" /\ q.t = t BY DEF Idle
    <3> HIDE DEF q
    <3>3. op'[c] = q /\ \A b \in Actors \ {c} : op'[b] = op[b]
      BY <1>0, <3>1 DEF RefsInv, CoreType
    <3>4. /\ topic_locks' \in [Symbols -> Actors \cup {None}] /\ topic_locks'[Key(t)] = c
          /\ \A k \in Symbols : topic_locks'[k] = topic_locks[k] \/ k = Key(t)
      BY <1>0, <1>1, <3>1 DEF WorkInv, WorkTyped
    <3> QED BY <1>1, <1>3, <2>1, <3>2, <3>3, <3>4 DEF Others
  <2>2. CASE refs[t] # 1
    <3>1. op' = op /\ topic_locks' = topic_locks BY <2>2 DEF TdForget
    <3> QED BY <1>0, <1>3, <2>2, <3>1 DEF Others, WorkInv, WorkTyped
  <2> QED BY <2>1, <2>2
<1>5. /\ refs'[t] = refs[t] - 1 /\ refs[t] \in Nat
      /\ \A u \in Intents \ {t} : refs'[u] = refs[u]
      /\ \A u \in Intents \ {t} : u \in degraded' <=> u \in degraded
      /\ degraded' \subseteq Intents
      /\ t \in degraded' => refs'[t] > 0
  BY <1>2, <1>3, AfterForget
<1>6. Touch(c, t)
  BY <1>0, <1>1, <1>3, <1>4, <1>5 DEF Touch, LockedSteps, WorkInv, WorkTyped
<1>7. Known(c)' /\ Carries(c)
  BY <1>4, <1>5, ActorsAssumption DEF Known, Carries, RejoinSteps, Left, Between
<1>8. GoodIntent(t)' BY <1>0, <1>1, <1>2, <1>3, <1>4, ForgetIsGood
<1> QED BY <1>0, <1>5, <1>6, <1>7, <1>8, TouchKeeps

(* A leave of the venue: the join is gone, or the venue refused. *)
LEMMA LeaveServes ==
    ASSUME RefsInv, RefsInv', ServeInv, NEW c \in Clients,
           \/ UnsubLeft(c) \/ UnsubLeaveFailed(c)
           \/ \E ok \in BOOLEAN : TdLeave(c, ok)
    PROVE  ServeInv'
<1> USE DEF ServeInv
<1>0. c \in Actors /\ op[c].step \in {"unsub_leave", "td_leave"} /\ ~exclusive
  BY DEF Actors, UnsubLeft, UnsubLeaveFailed, TdLeave
<1>1. op[c].t \in Intents /\ topic_locks[Key(op[c].t)] = c
  BY <1>0, OwnIntent DEF LockedSteps
<1>2. PICK t \in Intents : t = op[c].t BY <1>1
<1>3. refs[t] = 0 BY <1>0, <1>2 DEF WorkInv, Known, Left
<1>4. /\ PhaseSame /\ refs' = refs /\ degraded' = degraded /\ held' = held
      /\ \/ joined' = joined \ {t} /\ refused' = refused \ {t}
         \/ joined' = joined /\ refused' = refused \cup {t}
  BY <1>2, SamePhase DEF UnsubLeft, UnsubLeaveFailed, TdLeave, VenueLeave,
     intentVars, clientVars
<1>5. /\ Others(c)
      /\ \/ op'[c].step \in {"idle", "td"}
         \/ /\ op'[c].step = "unsub_renote" /\ op'[c].t = t
            /\ topic_locks' = topic_locks /\ op[c].step = "unsub_leave"
  <2>1. CASE UnsubLeft(c)
    BY <1>0, <1>4, <2>1, AfterDone DEF UnsubLeft, Others
  <2>2. CASE UnsubLeaveFailed(c)
    <3>1. Goto(c, "unsub_renote") /\ topic_locks' = topic_locks /\ op[c].step = "unsub_leave"
      BY <2>2 DEF UnsubLeaveFailed, lockVars
    <3> QED BY <1>0, <1>2, <1>4, <3>1, AfterGoto DEF Others, WorkInv, WorkTyped
  <2>3. CASE \E ok \in BOOLEAN : TdLeave(c, ok)
    <3> DEFINE q == [Idle EXCEPT !.step = "td"]
    <3>1. op' = [op EXCEPT ![c] = q] /\ Release(c) BY <2>3 DEF TdLeave
    <3>2. q.step = "td" BY DEF Idle
    <3> HIDE DEF q
    <3>3. op'[c] = q /\ \A b \in Actors \ {c} : op'[b] = op[b]
      BY <1>0, <3>1 DEF RefsInv, CoreType
    <3>4. topic_locks \in [Symbols -> Actors \cup {None}] BY DEF WorkInv, WorkTyped
    <3>5. topic_locks' = [k \in Symbols |-> IF topic_locks[k] = c THEN None ELSE topic_locks[k]]
      BY <3>1 DEF Release
    <3>6. Others(c) BY <1>4, <3>3, <3>4, <3>5 DEF Others
    <3> QED BY <3>2, <3>3, <3>6
  <2> QED BY <2>1, <2>2, <2>3
<1>6. Touch(c, t)
  BY <1>0, <1>1, <1>2, <1>4, <1>5 DEF Touch, LockedSteps, WorkInv, WorkTyped
<1>7. Known(c)' /\ Carries(c)
  BY <1>0, <1>2, <1>3, <1>4, <1>5, ActorsAssumption
     DEF Known, Carries, RejoinSteps, Left, Between
<1>8. ~Rejoining(t)' BY <1>0, <1>1, <1>2, <1>5, OneActor
<1>9. GoodIntent(t)'
  <2>1. pump' = pump /\ pump.step # "joins" BY <1>0, <1>4 DEF PhaseInv, PhaseSame
  <2>2. t \notin joined' \/ t \in refused' BY <1>4
  <2>3. ~(refs'[t] > 0) BY <1>3, <1>4
  <2> QED BY <1>8, <2>1, <2>2, <2>3 DEF GoodIntent, Served, Owned, RejoinIsDark
<1>10. t \in degraded' => refs'[t] > 0
  BY <1>4 DEF WorkInv, DegradedIsHeld, Held
<1> QED BY <1>0, <1>6, <1>7, <1>9, <1>10, TouchKeeps

(* A refused leave is noted again. *)
LEMMA RenoteServes ==
    ASSUME RefsInv, RefsInv', ServeInv, NEW c \in Clients, UnsubRenote(c)
    PROVE  ServeInv'
<1> USE DEF ServeInv
<1>0. c \in Actors /\ op[c].step = "unsub_renote" BY DEF Actors, UnsubRenote
<1>1. op[c].t \in Intents /\ topic_locks[Key(op[c].t)] = c
  BY <1>0, OwnIntent DEF LockedSteps
<1>2. PICK t \in Intents : t = op[c].t BY <1>1
<1>3. refs[t] = 0 BY <1>0, <1>2 DEF WorkInv, Known, Left
<1>4. /\ PhaseSame /\ degraded' = degraded /\ joined' = joined
      /\ refs' = Noted(t) /\ refused' = refused \cup {t}
      /\ \A b \in Clients \ {c} : held'[b] = held[b]
  BY <1>2, SamePhase DEF UnsubRenote, RefsInv, CoreType
<1>5. refs'[t] = 1 /\ \A u \in Intents \ {t} : refs'[u] = refs[u]
  BY <1>3, <1>4 DEF Noted, RefsInv, CoreType
<1>6. op'[c].step = "idle" /\ Others(c)
  BY <1>0, <1>4, AfterDone DEF UnsubRenote, Others
<1>7. Touch(c, t)
  BY <1>0, <1>1, <1>2, <1>4, <1>5, <1>6 DEF Touch, LockedSteps, WorkInv, WorkTyped
<1>8. Known(c)' /\ Carries(c)
  BY <1>6, ActorsAssumption DEF Known, Carries, RejoinSteps, Left, Between
<1>9. ~Rejoining(t)' BY <1>0, <1>1, <1>2, <1>6, OneActor
<1>10. GoodIntent(t)'
  <2>1. t \in refused' /\ refs'[t] > 0 BY <1>4, <1>5
  <2> QED BY <1>9, <2>1 DEF GoodIntent, Served, Owned, RejoinIsDark
<1> QED BY <1>0, <1>5, <1>7, <1>8, <1>10, TouchKeeps

(* A new holder: the first one has the join in hand. *)
LEMMA SubNoteServes ==
    ASSUME RefsInv, RefsInv', ServeInv, NEW c \in Clients, SubNote(c)
    PROVE  ServeInv'
<1> USE DEF ServeInv
<1>0. c \in Actors /\ op[c].step = "sub_lock" /\ op[c].t \in Intents
  BY DEF Actors, SubNote, RefsInv, OwnSet, Working
<1>1. PICK t \in Intents : t = op[c].t BY <1>0
<1>2. topic_locks[Key(t)] = None /\ Key(t) \in Symbols BY <1>1, KeyType DEF SubNote
<1>3. /\ PhaseSame /\ degraded' = degraded /\ joined' = joined
      /\ refs' = Noted(t) /\ refused' = refused
      /\ \A b \in Clients \ {c} : held'[b] = held[b]
  BY <1>1, SamePhase DEF SubNote, venueVars, RefsInv, CoreType
<1>4. /\ refs[t] \in Nat /\ refs'[t] = refs[t] + 1
      /\ \A u \in Intents \ {t} : refs'[u] = refs[u]
  BY <1>3 DEF Noted, RefsInv, CoreType
<1>5. /\ Others(c)
      /\ \/ op'[c].step = "idle" /\ refs[t] > 0
         \/ op'[c].step = "sub_join" /\ op'[c].t = t /\ topic_locks'[Key(t)] = c
  <2>1. CASE JoinMode(t) = "none"
    <3>1. Done(c) BY <1>1, <2>1 DEF SubNote
    <3>2. refs[t] > 0 BY <1>4, <2>1 DEF JoinMode
    <3> QED BY <1>0, <1>3, <3>1, <3>2, AfterDone DEF Others
  <2>2. CASE JoinMode(t) # "none"
    <3>1. Lock(c) BY <1>1, <2>2 DEF SubNote
    <3>2. /\ topic_locks[Key(t)] = None /\ topic_locks'[Key(t)] = c
          /\ topic_locks' \in [Symbols -> Actors \cup {None}]
          /\ \A k \in Symbols : \/ topic_locks'[k] = topic_locks[k]
                                \/ topic_locks[k] = None /\ topic_locks'[k] = c
      BY <1>0, <1>1, <3>1, AfterLock
    <3>3. PICK had, mode, dark :
            op' = [op EXCEPT ![c] = [step |-> "sub_join", t |-> t, had |-> had,
                                     mode |-> mode, dark |-> dark]]
      BY <1>1, <2>2 DEF SubNote
    <3>4. op'[c].step = "sub_join" /\ op'[c].t = t /\ \A b \in Actors \ {c} : op'[b] = op[b]
      BY <1>0, <3>3 DEF RefsInv, CoreType
    <3> QED BY <1>3, <3>2, <3>4 DEF Others
  <2> QED BY <2>1, <2>2
<1>6. Touch(c, t)
  BY <1>0, <1>2, <1>3, <1>4, <1>5 DEF Touch, LockedSteps, WorkInv, WorkTyped
<1>7. Known(c)' /\ Carries(c)
  BY <1>0, <1>1, <1>5, ActorsAssumption DEF Known, Carries, RejoinSteps, Left, Between
<1>8. /\ ~InHand(t) /\ ~Leaving(t) /\ ~Leaving(t)' /\ ~Rejoining(t)'
      /\ (InHand(t)' <=> refs[t] = 0)
  BY <1>0, <1>2, <1>4, <1>5, OneActor
<1>9. GoodIntent(t)'
  <2>1. GoodIntent(t) OBVIOUS
  <2>2. Planned(t)' <=> Planned(t) BY <1>3 DEF Planned, PhaseSame
  <2>3. Served(t)'
    BY <1>3, <1>4, <1>8, <2>1, <2>2 DEF GoodIntent, Served, PhaseSame
  <2>4. Owned(t)'
    BY <1>3, <1>4, <1>8, <2>1 DEF GoodIntent, Owned, PhaseSame
  <2> QED BY <1>8, <2>3, <2>4 DEF GoodIntent, RejoinIsDark
<1> QED BY <1>0, <1>4, <1>6, <1>7, <1>9, TouchKeeps

(* The start of a command, or of the pump's retry, and the wait for a gate. *)
LEMMA StartServes ==
    ASSUME RefsInv, RefsInv', ServeInv, NEW a \in Actors,
           \/ a \in Clients /\ \E t \in Intents : Subscribe(a, t) \/ Unsubscribe(a, t)
           \/ a = Pump /\ \E t \in Intents : Retry(t)
           \/ TakeGate(a)
    PROVE  ServeInv'
<1> USE DEF ServeInv
<1>1. /\ refs' = refs /\ degraded' = degraded /\ joined' = joined /\ refused' = refused
      /\ held' = held /\ topic_locks' = topic_locks /\ PhaseSame
  BY SamePhase DEF Subscribe, Unsubscribe, Retry, TakeGate, intentVars, clientVars,
     venueVars, lockVars
<1>2. /\ op[a].step \notin LockedSteps /\ op'[a].step \notin LockedSteps
      /\ \A b \in Actors \ {a} : op'[b] = op[b]
      /\ Known(a)' /\ Carries(a)
  <2>1. CASE a \in Clients /\ \E t \in Intents : Subscribe(a, t)
    <3>1. PICK t \in Intents : Subscribe(a, t) BY <2>1
    <3>2. /\ op'[a].t = t /\ op'[a].step \in {"sub_gate", "rejoin_gate", "refresh_lock"}
          /\ op'[a].step = "refresh_lock" => t \in held[a]
          /\ \A b \in Actors \ {a} : op'[b] = op[b]
      BY <3>1 DEF Subscribe, RefsInv, CoreType
    <3>3. op[a].step = "idle" /\ ready BY <3>1, IdleRecord DEF Subscribe
    <3>4. Known(a)' BY <1>1, <2>1, <3>2, ActorsAssumption DEF Known, RejoinSteps, Left
    <3> QED BY <2>1, <3>2, <3>3, <3>4 DEF LockedSteps, Carries
  <2>2. CASE a \in Clients /\ \E t \in Intents : Unsubscribe(a, t)
    <3>1. PICK t \in Intents : Unsubscribe(a, t) BY <2>2
    <3> DEFINE q == [Idle EXCEPT !.step = "unsub_gate", !.t = t]
    <3>2. op' = [op EXCEPT ![a] = q] BY <3>1 DEF Unsubscribe
    <3>3. q.step = "unsub_gate" BY DEF Idle
    <3> HIDE DEF q
    <3>4. op'[a].step = "unsub_gate" /\ \A b \in Actors \ {a} : op'[b] = op[b]
      BY <3>2, <3>3 DEF RefsInv, CoreType
    <3>5. op[a].step = "idle" /\ ready BY <3>1, IdleRecord DEF Unsubscribe
    <3>6. Known(a)' BY <2>2, <3>4, ActorsAssumption DEF Known, RejoinSteps, Left
    <3> QED BY <2>2, <3>4, <3>5, <3>6 DEF LockedSteps, Carries
  <2>3. CASE a = Pump /\ \E t \in Intents : Retry(t)
    <3>1. PICK t \in Intents : Retry(t) BY <2>3
    <3> DEFINE q == [Idle EXCEPT !.step = "rejoin_gate", !.t = t]
    <3>2. op' = [op EXCEPT ![a] = q] BY <2>3, <3>1 DEF Retry
    <3>3. q.step = "rejoin_gate" /\ q.t = t BY DEF Idle
    <3> HIDE DEF q
    <3>4. op'[a].step = "rejoin_gate" /\ op'[a].t = t
          /\ \A b \in Actors \ {a} : op'[b] = op[b]
      BY <3>2, <3>3 DEF RefsInv, CoreType
    <3>5. op[a].step = "idle" /\ pump.step = "serve" BY <2>3, <3>1, IdleRecord DEF Retry
    <3>6. Known(a)' BY <3>4 DEF Known, RejoinSteps, Left
    <3> QED BY <2>3, <3>4, <3>5, <3>6 DEF LockedSteps, Carries
  <2>4. CASE TakeGate(a)
    <3>1. /\ op[a].step \in {"sub_gate", "rejoin_gate", "unsub_gate"}
          /\ op'[a].step = AfterGate(op[a].step) /\ op'[a].t = op[a].t
          /\ \A b \in Actors \ {a} : op'[b] = op[b]
      BY <2>4, AfterGoto DEF TakeGate
    <3>2. /\ op'[a].step \in {"sub_lock", "rejoin_lock", "unsub_lock"}
          /\ op'[a].step = "rejoin_lock" <=> op[a].step = "rejoin_gate"
      BY <3>1 DEF AfterGate
    <3>3. Known(a) BY DEF WorkInv
    <3>4. Known(a)' BY <3>1, <3>2, <3>3 DEF Known, RejoinSteps, Left
    <3> QED BY <3>1, <3>2, <3>4 DEF LockedSteps, Carries, Between
  <2> QED BY <2>1, <2>2, <2>3, <2>4
<1>3. Others(a) BY <1>1, <1>2 DEF Others, WorkInv, WorkTyped
<1>4. Plain(a) BY <1>1, <1>2, <1>3 DEF Plain
<1> QED BY <1>1, <1>2, <1>4, PlainKeeps

(* A step that leaves all of this as it is. *)
LEMMA SameServes ==
    ASSUME ServeInv, PhaseSame,
           UNCHANGED <<refs, degraded, joined, refused, op, held, topic_locks>>
    PROVE  ServeInv'
<1>1. WorkInv'
  BY DEF ServeInv, WorkInv, WorkTyped, LocksHeld, DegradedIsHeld, Held, Known
<1>2. PhaseInv' BY DEF ServeInv, PhaseInv, PhaseSame
<1>3. ASSUME NEW u \in Intents PROVE GoodIntent(u)'
  <2>1. GoodIntent(u) BY DEF ServeInv
  <2>2. /\ InHand(u)' <=> InHand(u)
        /\ Leaving(u)' <=> Leaving(u)
        /\ Rejoining(u)' <=> Rejoining(u)
    BY DEF InHand, Leaving, Rejoining
  <2>3. Planned(u)' <=> Planned(u) BY DEF Planned, PhaseSame
  <2> QED BY <2>1, <2>2, <2>3
          DEF GoodIntent, Served, Owned, RejoinIsDark, PhaseSame
<1> QED BY <1>1, <1>2, <1>3 DEF ServeInv

(* The other steps of a teardown. *)
LEMMA TeardownServes ==
    ASSUME RefsInv, RefsInv', ServeInv, NEW c \in Clients,
           Detach(c) \/ TdStart(c) \/ TdEnd(c)
    PROVE  ServeInv'
<1> USE DEF ServeInv
<1>0. c \in Actors BY DEF Actors
<1>1. /\ refs' = refs /\ degraded' = degraded /\ joined' = joined /\ refused' = refused
      /\ held' = held /\ topic_locks' = topic_locks /\ PhaseSame
  BY SamePhase DEF Detach, TdStart, TdEnd, intentVars, clientVars, venueVars, lockVars
<1>2. CASE Detach(c) BY <1>1, <1>2, SameServes DEF Detach
<1>3. CASE TdStart(c) \/ TdEnd(c)
  <2>1. PICK s \in {"td", "gone"} : Goto(c, s) BY <1>3 DEF TdStart, TdEnd
  <2>2. op[c].step \in {"idle", "td"} BY <1>3, IdleRecord DEF TdStart, TdEnd
  <2>3. op'[c].step = s /\ \A b \in Actors \ {c} : op'[b] = op[b]
    BY <1>0, <2>1, AfterGoto
  <2>4. Others(c) BY <1>1, <2>3 DEF Others, WorkInv, WorkTyped
  <2>5. Plain(c) BY <1>1, <2>2, <2>3, <2>4 DEF Plain, LockedSteps
  <2>6. Known(c)' /\ Carries(c)
    BY <2>3, ActorsAssumption DEF Known, Carries, RejoinSteps, Left, Between
  <2> QED BY <1>0, <1>1, <2>5, <2>6, PlainKeeps
<1> QED BY <1>2, <1>3

-----------------------------------------------------------------------------
(* The pump and the reset leave counts and commands alone. *)
Apart == op' = op /\ refs' = refs /\ held' = held /\ topic_locks' = topic_locks

(* Then what is in hand, leaving or rejoining stays so. *)
LEMMA ApartIntents ==
    ASSUME Apart, NEW u
    PROVE  /\ InHand(u)' <=> InHand(u)
           /\ Leaving(u)' <=> Leaving(u)
           /\ Rejoining(u)' <=> Rejoining(u)
BY DEF Apart, InHand, Leaving, Rejoining

(* And what is known of locks, if only held intents are marked. *)
LEMMA ApartWork ==
    ASSUME WorkInv, Apart, joined' \subseteq Intents, degraded' \subseteq Held
    PROVE  WorkInv'
<1>1. Held' = Held BY DEF Apart, Held
<1>2. degraded' \subseteq Intents BY DEF Held
<1> QED BY <1>1, <1>2 DEF Apart, WorkInv, WorkTyped, LocksHeld, DegradedIsHeld, Known

(* An issue stops serving and drops the retry. *)
LEMMA InterruptServes ==
    ASSUME RefsInv, RefsInv', ServeInv, NEW scope \in Scopes, Interrupt(scope)
    PROVE  ServeInv'
<1> USE DEF ServeInv
<1>0. Pump \in Actors BY DEF Actors
<1>1. scope \subseteq Intents BY DEF Scopes, OfPlant
<1>2. /\ refs' = refs /\ degraded' = degraded /\ joined' = joined /\ refused' = refused
      /\ held' = held /\ exclusive' = exclusive /\ reset' = reset /\ resets' = resets
      /\ overtaken' = overtaken /\ ready' = FALSE /\ pump.step = "serve"
  BY DEF Interrupt, intentVars, clientVars, venueVars, resetVars
<1>3. \/ scope = Intents /\ force_reconnect' = FALSE /\ issues' = issues
      \/ force_reconnect' = force_reconnect /\ issues' = issues + 1
  BY DEF Interrupt
<1>4. op'[Pump].step = "idle" /\ Others(Pump)
  BY <1>0, <1>2, AfterDone DEF Interrupt, Others
<1>5. Plain(Pump) BY <1>2, <1>4 DEF Plain, LockedSteps
<1>6. WorkInv'
  <2>1. Known(Pump)' BY <1>4 DEF Known, RejoinSteps, Left
  <2> QED BY <1>0, <1>5, <2>1, PlainWork
<1>7. pump' \in PumpRecord /\ pump'.step = "notify" /\ pump'.scope = scope
  BY <1>1 DEF Interrupt, Serving, PumpRecord
<1>8. PhaseInv'
  <2>1. issues' \in Nat BY <1>3 DEF PhaseInv
  <2>2. /\ reset' \in ResetRecord /\ resets' \in Nat /\ (resets' = 0 => reset'.step = "idle")
    BY <1>2 DEF PhaseInv
  <2>3. ready' \in BOOLEAN /\ ~ready' BY <1>2
  <2>4. force_reconnect' \in BOOLEAN BY <1>3 DEF PhaseInv
  <2>5. exclusive' \in BOOLEAN /\ (exclusive' <=> pump'.step = "joins")
    BY <1>2, <1>7 DEF PhaseInv
  <2> QED BY <1>4, <1>7, <2>1, <2>2, <2>3, <2>4, <2>5 DEF PhaseInv
<1>9. ASSUME NEW u \in Intents PROVE GoodIntent(u)'
  <2>1. GoodIntent(u) OBVIOUS
  <2>2. /\ InHand(u)' <=> InHand(u)
        /\ Leaving(u)' <=> Leaving(u)
        /\ Rejoining(u)' => Rejoining(u)
    BY <1>0, <1>5, PlainIntents
  <2>3. Planned(u) => Planned(u)' BY <1>2, <1>7 DEF Planned
  <2>4. scope = Intents => Planned(u)' BY <1>7 DEF Planned
  <2>5. Served(u)' BY <1>2, <1>3, <2>1, <2>2, <2>3, <2>4 DEF GoodIntent, Served
  <2>6. Owned(u)' BY <1>2, <1>7, <2>1, <2>2 DEF GoodIntent, Owned
  <2>7. RejoinIsDark(u)' BY <1>2, <2>1, <2>2 DEF GoodIntent, RejoinIsDark
  <2> QED BY <2>5, <2>6, <2>7 DEF GoodIntent
<1> QED BY <1>6, <1>8, <1>9

(* The commands the recovery does not wait for are noted as overtaken. *)
LEMMA NotifyServes ==
    ASSUME RefsInv, ServeInv, NotifySessions PROVE ServeInv'
<1> USE DEF ServeInv
<1>1. /\ Apart /\ degraded' = degraded /\ joined' = joined /\ refused' = refused
      /\ exclusive' = exclusive /\ ready' = ready /\ force_reconnect' = force_reconnect
      /\ issues' = issues /\ reset' = reset /\ resets' = resets
      /\ overtaken' = overtaken \cup {op[c].t : c \in InCommand}
      /\ pump.step = "notify"
  BY DEF NotifySessions, Apart, intentVars, clientVars, lockVars, resetVars, venueVars
<1>2. pump' \in PumpRecord /\ pump'.step = "rebuild" /\ pump'.scope = pump.scope
  BY DEF NotifySessions, PhaseInv, PumpRecord
<1>3. WorkInv' BY <1>1, ApartWork DEF WorkInv, WorkTyped, DegradedIsHeld
<1>4. \A c \in Clients : op'[c].step \notin Between => op'[c].t \in overtaken'
  BY <1>1 DEF InCommand, Between, Apart
<1>5. PhaseInv' BY <1>1, <1>2, <1>4 DEF PhaseInv, Apart
<1>6. ASSUME NEW u \in Intents PROVE GoodIntent(u)'
  <2>1. GoodIntent(u) OBVIOUS
  <2>2. /\ InHand(u)' <=> InHand(u)
        /\ Leaving(u)' <=> Leaving(u)
        /\ Rejoining(u)' <=> Rejoining(u)
    BY <1>1, ApartIntents
  <2>3. Planned(u) => Planned(u)' BY <1>1, <1>2 DEF Planned
  <2>4. u \notin overtaken' => u \notin overtaken BY <1>1
  <2>5. Served(u)' BY <1>1, <2>1, <2>2, <2>3, <2>4 DEF GoodIntent, Served, Apart
  <2>6. Owned(u)' BY <1>1, <1>2, <2>1, <2>2, <2>4 DEF GoodIntent, Owned, Apart
  <2>7. RejoinIsDark(u)' BY <1>1, <2>1, <2>2, <2>4 DEF GoodIntent, RejoinIsDark
  <2> QED BY <2>5, <2>6, <2>7 DEF GoodIntent
<1> QED BY <1>3, <1>5, <1>6

(* A new attempt plans its whole scope, or the recovery has failed. *)
LEMMA AfterNextAttempt ==
    ASSUME PhaseInv, NEW scope \in SUBSET Intents, NextAttempt(scope)
    PROVE  /\ pump' \in PumpRecord
           /\ \/ pump'.step = "rebuild" /\ pump'.scope = scope
              \/ pump'.step = "failed"
<1>1. pump.attempt \in Nat BY DEF PhaseInv, PumpRecord
<1>2. CASE pump.attempt < RecoveryAttempts
  <2>1. pump' = [Serving EXCEPT !.step = "rebuild", !.scope = scope,
                                !.attempt = pump.attempt + 1]
    BY <1>2 DEF NextAttempt
  <2>2. pump' = [step |-> "rebuild", scope |-> scope, pending |-> {}, todo |-> {},
                 attempt |-> pump.attempt + 1, pass |-> 0]
    BY <2>1 DEF Serving
  <2> QED BY <1>1, <2>2 DEF PumpRecord
<1>3. CASE ~(pump.attempt < RecoveryAttempts)
  BY <1>3 DEF NextAttempt, Serving, PumpRecord
<1> QED BY <1>2, <1>3

(* A rebuilt plant has no joins: its scope is planned. *)
LEMMA RebuildServes ==
    ASSUME RefsInv, ServeInv, NEW ok \in BOOLEAN, Rebuild(ok) PROVE ServeInv'
<1> USE DEF ServeInv
<1> DEFINE S == pump.scope
<1>0. S \subseteq Intents BY DEF PhaseInv, PumpRecord
<1>1. /\ Apart /\ degraded' = degraded /\ joined' = joined \ S /\ refused' = refused \ S
      /\ exclusive' = exclusive /\ ready' = ready /\ force_reconnect' = force_reconnect
      /\ issues' = issues /\ reset' = reset /\ resets' = resets
      /\ overtaken' = overtaken /\ pump.step = "rebuild" /\ reset.step = "idle"
  BY DEF Rebuild, Apart, intentVars, clientVars, lockVars, resetVars
<1>2. /\ pump' \in PumpRecord
      /\ \/ pump'.step \in {"plan", "rebuild"} /\ pump'.scope = S
         \/ pump'.step = "failed"
  <2>1. CASE ok
    <3>1. pump' = [pump EXCEPT !.step = "plan"] BY <2>1 DEF Rebuild
    <3> QED BY <3>1 DEF PhaseInv, PumpRecord
  <2>2. CASE ~ok
    <3>1. NextAttempt(S) BY <2>2 DEF Rebuild
    <3> QED BY <1>0, <3>1, AfterNextAttempt
  <2> QED BY <2>1, <2>2
<1> HIDE DEF S
<1>3. WorkInv' BY <1>1, ApartWork DEF WorkInv, WorkTyped, DegradedIsHeld
<1>4. PhaseInv' BY <1>1, <1>2 DEF PhaseInv, Apart
<1>5. ASSUME NEW u \in Intents PROVE GoodIntent(u)'
  <2>1. GoodIntent(u) OBVIOUS
  <2>2. /\ InHand(u)' <=> InHand(u)
        /\ Leaving(u)' <=> Leaving(u)
        /\ Rejoining(u)' <=> Rejoining(u)
    BY <1>1, ApartIntents
  <2>3. u \in S => Planned(u)' BY <1>2 DEF Planned
  <2>4. Planned(u) => u \in S BY <1>1 DEF Planned, S
  <2>5. Served(u)' BY <1>1, <2>1, <2>2, <2>3, <2>4 DEF GoodIntent, Served, Apart
  <2>6. Owned(u)' BY <1>1, <1>2, <2>1, <2>2 DEF GoodIntent, Owned, Apart
  <2>7. RejoinIsDark(u)' BY <1>1, <2>1, <2>2 DEF GoodIntent, RejoinIsDark
  <2> QED BY <2>5, <2>6, <2>7 DEF GoodIntent
<1> QED BY <1>3, <1>4, <1>5

(* The plan holds what is held of the scope. *)
LEMMA PlanServes ==
    ASSUME RefsInv, ServeInv, Plan PROVE ServeInv'
<1> USE DEF ServeInv
<1>1. /\ Apart /\ degraded' = degraded /\ joined' = joined /\ refused' = refused
      /\ exclusive' = exclusive /\ ready' = ready /\ force_reconnect' = force_reconnect
      /\ issues' = issues /\ reset' = reset /\ resets' = resets
      /\ overtaken' = overtaken /\ pump.step = "plan"
  BY DEF Plan, Apart, intentVars, clientVars, lockVars, resetVars, venueVars
<1>2. /\ pump' \in PumpRecord /\ pump'.step = "pass"
      /\ pump'.pending = Held \cap pump.scope
  <2>1. pump \in PumpRecord BY DEF PhaseInv
  <2>2. pump' = [step |-> "pass", scope |-> pump.scope, pending |-> Held \cap pump.scope,
                 todo |-> pump.todo, attempt |-> pump.attempt, pass |-> 1]
    BY <2>1 DEF Plan, PumpRecord
  <2> QED BY <2>1, <2>2 DEF PumpRecord
<1>3. WorkInv' BY <1>1, ApartWork DEF WorkInv, WorkTyped, DegradedIsHeld
<1>4. PhaseInv' BY <1>1, <1>2 DEF PhaseInv, Apart
<1>5. ASSUME NEW u \in Intents PROVE GoodIntent(u)'
  <2>1. GoodIntent(u) OBVIOUS
  <2>2. /\ InHand(u)' <=> InHand(u)
        /\ Leaving(u)' <=> Leaving(u)
        /\ Rejoining(u)' <=> Rejoining(u)
    BY <1>1, ApartIntents
  <2>3. Planned(u) /\ refs[u] > 0 => Planned(u)' BY <1>1, <1>2 DEF Planned, Held
  <2>5. Served(u)' BY <1>1, <2>1, <2>2, <2>3 DEF GoodIntent, Served, Apart
  <2>6. Owned(u)' BY <1>1, <1>2, <2>1, <2>2 DEF GoodIntent, Owned, Apart
  <2>7. RejoinIsDark(u)' BY <1>1, <2>1, <2>2 DEF GoodIntent, RejoinIsDark
  <2> QED BY <2>5, <2>6, <2>7 DEF GoodIntent
<1> QED BY <1>3, <1>4, <1>5

(* A pass takes over what is still held of the plan. *)
LEMMA PassStartServes ==
    ASSUME RefsInv, ServeInv, PassStart PROVE ServeInv'
<1> USE DEF ServeInv
<1>1. /\ Apart /\ degraded' = degraded /\ joined' = joined /\ refused' = refused
      /\ exclusive' = TRUE /\ ready' = ready /\ force_reconnect' = force_reconnect
      /\ issues' = issues /\ reset' = reset /\ resets' = resets
      /\ overtaken' = overtaken /\ pump.step = "pass"
  BY DEF PassStart, Apart, intentVars, clientVars, lockVars, resetVars, venueVars
<1>2. /\ pump' \in PumpRecord /\ pump'.step = "joins"
      /\ pump'.todo = pump.pending \cap Held
  <2>1. pump \in PumpRecord BY DEF PhaseInv
  <2>2. pump' = [step |-> "joins", scope |-> pump.scope, pending |-> {},
                 todo |-> pump.pending \cap Held, attempt |-> pump.attempt,
                 pass |-> pump.pass]
    BY <2>1 DEF PassStart, StillHeld, PumpRecord
  <2> QED BY <2>1, <2>2 DEF PumpRecord
<1>3. WorkInv' BY <1>1, ApartWork DEF WorkInv, WorkTyped, DegradedIsHeld
<1>4. PhaseInv'
  <2>1. exclusive' \in BOOLEAN /\ exclusive' BY <1>1
  <2> QED BY <1>1, <1>2, <2>1 DEF PhaseInv, Apart
<1>5. ASSUME NEW u \in Intents PROVE GoodIntent(u)'
  <2>1. GoodIntent(u) OBVIOUS
  <2>2. /\ InHand(u)' <=> InHand(u)
        /\ Leaving(u)' <=> Leaving(u)
        /\ Rejoining(u)' <=> Rejoining(u)
    BY <1>1, ApartIntents
  <2>3. Planned(u) /\ refs[u] > 0 => Planned(u)' BY <1>1, <1>2 DEF Planned, Held
  <2>5. Served(u)' BY <1>1, <2>1, <2>2, <2>3 DEF GoodIntent, Served, Apart
  <2>6. Owned(u)' BY <1>1, <1>2, <2>1, <2>2 DEF GoodIntent, Owned, Apart, Held
  <2>7. RejoinIsDark(u)' BY <1>1, <2>1, <2>2 DEF GoodIntent, RejoinIsDark
  <2> QED BY <2>5, <2>6, <2>7 DEF GoodIntent
<1> QED BY <1>3, <1>4, <1>5

(* One join of a pass: only overtaken commands are still at work. *)
LEMMA PassJoinServes ==
    ASSUME RefsInv, ServeInv, NEW t \in Intents, NEW ok \in BOOLEAN, PassJoin(t, ok)
    PROVE  ServeInv'
<1> USE DEF ServeInv
<1>1. /\ Apart /\ exclusive' = exclusive /\ ready' = ready
      /\ force_reconnect' = force_reconnect /\ issues' = issues /\ reset' = reset
      /\ resets' = resets /\ overtaken' = overtaken /\ pump.step = "joins"
      /\ t \in pump.todo
  BY DEF PassJoin, FirstJoins, Apart, clientVars, lockVars, resetVars
<1>2. \/ /\ ok /\ joined' = joined \cup {t} /\ refused' = refused \ {t}
         /\ degraded' = degraded \ {t}
      \/ ~ok /\ joined' = joined /\ refused' = refused /\ degraded' = degraded
  BY DEF PassJoin, VenueJoin
<1>3. /\ pump' \in PumpRecord /\ pump'.step = "joins" /\ pump'.todo = pump.todo \ {t}
      /\ pump'.pending = IF ok THEN pump.pending ELSE pump.pending \cup {t}
  <2>1. pump \in PumpRecord BY DEF PhaseInv
  <2>2. pump' = [step |-> pump.step, scope |-> pump.scope,
                 pending |-> IF ok THEN pump.pending ELSE pump.pending \cup {t},
                 todo |-> pump.todo \ {t}, attempt |-> pump.attempt, pass |-> pump.pass]
    BY <2>1 DEF PassJoin, PumpRecord
  <2> QED BY <1>1, <2>1, <2>2 DEF PumpRecord
<1>4. WorkInv' BY <1>1, <1>2, ApartWork DEF WorkInv, WorkTyped, DegradedIsHeld
<1>5. PhaseInv' BY <1>1, <1>3 DEF PhaseInv, Apart
<1>6. t \notin overtaken => ~InHand(t) /\ ~Rejoining(t)
  <2>1. op[Pump].step = "idle"
        /\ \A c \in Clients : op[c].step \notin Between => op[c].t \in overtaken
    BY <1>1 DEF PhaseInv
  <2> QED BY <2>1 DEF InHand, Rejoining, Between, Actors
<1>7. ASSUME NEW u \in Intents PROVE GoodIntent(u)'
  <2>1. GoodIntent(u) OBVIOUS
  <2>2. /\ InHand(u)' <=> InHand(u)
        /\ Leaving(u)' <=> Leaving(u)
        /\ Rejoining(u)' <=> Rejoining(u)
    BY <1>1, ApartIntents
  <2>3. CASE u = t
    <3>1. t \in joined' \/ Planned(t)' BY <1>2, <1>3 DEF Planned
    <3>2. Served(u)' BY <2>3, <3>1 DEF Served
    <3>3. Owned(u)'
      BY <1>1, <1>2, <1>3, <1>6, <2>1, <2>2, <2>3 DEF GoodIntent, Owned, Apart
    <3>4. RejoinIsDark(u)' BY <1>1, <1>6, <2>2, <2>3 DEF RejoinIsDark
    <3> QED BY <3>2, <3>3, <3>4 DEF GoodIntent
  <2>4. CASE u # t
    <3>1. /\ (u \in joined' <=> u \in joined) /\ (u \in refused' <=> u \in refused)
          /\ (u \in degraded' <=> u \in degraded) /\ (u \in pump'.todo <=> u \in pump.todo)
          /\ (u \in pump'.pending <=> u \in pump.pending)
      BY <1>2, <1>3, <2>4
    <3>2. Planned(u)' <=> Planned(u) BY <1>1, <1>3, <3>1 DEF Planned
    <3>3. Served(u)' BY <1>1, <2>1, <2>2, <3>1, <3>2 DEF GoodIntent, Served, Apart
    <3>4. Owned(u)' BY <1>1, <1>3, <2>1, <2>2, <3>1 DEF GoodIntent, Owned, Apart
    <3>5. RejoinIsDark(u)' BY <1>1, <2>1, <2>2, <3>1 DEF GoodIntent, RejoinIsDark
    <3> QED BY <3>3, <3>4, <3>5 DEF GoodIntent
  <2> QED BY <2>3, <2>4
<1> QED BY <1>4, <1>5, <1>7

(* The end of a pass: what failed stays planned. *)
LEMMA PassEndServes ==
    ASSUME RefsInv, ServeInv, NEW account \in BOOLEAN, PassEnd(account) PROVE ServeInv'
<1> USE DEF ServeInv
<1>1. /\ Apart /\ degraded' = degraded /\ joined' = joined /\ refused' = refused
      /\ exclusive' = FALSE /\ ready' = ready /\ force_reconnect' = force_reconnect
      /\ issues' = issues /\ reset' = reset /\ resets' = resets
      /\ overtaken' = overtaken /\ pump.step = "joins" /\ pump.todo = {}
  BY DEF PassEnd, Apart, intentVars, clientVars, lockVars, resetVars, venueVars
<1>2. /\ pump' \in PumpRecord
      /\ \/ pump'.step \in {"pass", "finish"} /\ pump'.pending = pump.pending
         \/ pump'.step = "rebuild" /\ pump'.scope = Intents
         \/ pump'.step = "failed"
  <2>1. pump \in PumpRecord BY DEF PhaseInv
  <2>2. \/ pump' = [pump EXCEPT !.step = "pass", !.pass = @ + 1]
        \/ pump' = [pump EXCEPT !.step = "finish"]
        \/ NextAttempt(Intents)
    BY DEF PassEnd
  <2>3. CASE pump' = [pump EXCEPT !.step = "pass", !.pass = @ + 1]
    <3>1. pump' = [step |-> "pass", scope |-> pump.scope, pending |-> pump.pending,
                   todo |-> pump.todo, attempt |-> pump.attempt, pass |-> pump.pass + 1]
      BY <2>1, <2>3 DEF PumpRecord
    <3> QED BY <2>1, <3>1 DEF PumpRecord
  <2>4. CASE pump' = [pump EXCEPT !.step = "finish"]
    BY <2>1, <2>4 DEF PumpRecord
  <2>5. CASE NextAttempt(Intents) BY <2>5, AfterNextAttempt
  <2> QED BY <2>2, <2>3, <2>4, <2>5
<1>3. WorkInv' BY <1>1, ApartWork DEF WorkInv, WorkTyped, DegradedIsHeld
<1>4. PhaseInv'
  <2>1. exclusive' \in BOOLEAN /\ ~exclusive' BY <1>1
  <2> QED BY <1>1, <1>2, <2>1 DEF PhaseInv, Apart
<1>5. ASSUME NEW u \in Intents PROVE GoodIntent(u)'
  <2>1. GoodIntent(u) OBVIOUS
  <2>2. /\ InHand(u)' <=> InHand(u)
        /\ Leaving(u)' <=> Leaving(u)
        /\ Rejoining(u)' <=> Rejoining(u)
    BY <1>1, ApartIntents
  <2>3. Planned(u) => Planned(u)' BY <1>1, <1>2 DEF Planned
  <2>5. Served(u)' BY <1>1, <2>1, <2>2, <2>3 DEF GoodIntent, Served, Apart
  <2>6. Owned(u)' BY <1>1, <1>2, <2>1, <2>2 DEF GoodIntent, Owned, Apart
  <2>7. RejoinIsDark(u)' BY <1>1, <2>1, <2>2 DEF GoodIntent, RejoinIsDark
  <2> QED BY <2>5, <2>6, <2>7 DEF GoodIntent
<1> QED BY <1>3, <1>4, <1>5

(* The end of a recovery: leftovers are marked, or the next attempt starts. *)
LEMMA FinishServes ==
    ASSUME RefsInv, ServeInv, Finish PROVE ServeInv'
<1> USE DEF ServeInv
<1>1. /\ Apart /\ joined' = joined /\ refused' = refused
      /\ exclusive' = exclusive /\ force_reconnect' = FALSE
      /\ issues' = issues /\ reset' = reset /\ resets' = resets
      /\ overtaken' = overtaken /\ pump.step = "finish"
      /\ degraded' = degraded \cup {t \in pump.pending : refs[t] > 0}
  BY DEF Finish, Marked, Apart, clientVars, lockVars, resetVars, venueVars
<1>2. pump \in PumpRecord BY DEF PhaseInv
<1>3. /\ pump' \in PumpRecord /\ ready' \in BOOLEAN
      /\ \/ force_reconnect /\ ~ready' /\ pump'.step = "rebuild" /\ pump'.scope = Intents
         \/ force_reconnect /\ ~ready' /\ pump'.step = "failed"
         \/ ~force_reconnect /\ pump'.step = "serve"
  <2>1. CASE force_reconnect
    <3>1. NextAttempt(Intents) /\ ready' = ready BY <2>1 DEF Finish
    <3>2. ready' \in BOOLEAN /\ ~ready' BY <1>1, <3>1 DEF PhaseInv
    <3> QED BY <2>1, <3>1, <3>2, AfterNextAttempt
  <2>2. CASE ~force_reconnect
    <3>1. pump' = Serving /\ ready' = TRUE BY <2>2 DEF Finish
    <3>2. pump' \in PumpRecord /\ pump'.step = "serve" BY <3>1 DEF Serving, PumpRecord
    <3> QED BY <2>2, <3>1, <3>2
  <2> QED BY <2>1, <2>2
<1>4. WorkInv'
  <2>1. degraded' \subseteq Held
    BY <1>1, <1>2 DEF WorkInv, DegradedIsHeld, Held, PumpRecord
  <2> QED BY <1>1, <2>1, ApartWork DEF WorkInv, WorkTyped
<1>5. PhaseInv'
  <2>1. force_reconnect' \in BOOLEAN BY <1>1
  <2>2. /\ exclusive' \in BOOLEAN /\ ~exclusive' /\ pump'.step # "joins"
    BY <1>1, <1>3 DEF PhaseInv
  <2>3. pump'.step # "serve" => ~ready' BY <1>3
  <2>4. /\ op'[Pump].step = "idle"
        /\ \A c \in Clients : op'[c].step \notin Between => op'[c].t \in overtaken'
    BY <1>1 DEF PhaseInv, Apart
  <2>5. /\ reset' \in ResetRecord /\ issues' \in Nat /\ resets' \in Nat
        /\ (resets' = 0 => reset'.step = "idle")
    BY <1>1 DEF PhaseInv
  <2> QED BY <1>3, <2>1, <2>2, <2>3, <2>4, <2>5 DEF PhaseInv
<1>6. ASSUME NEW u \in Intents PROVE GoodIntent(u)'
  <2>1. GoodIntent(u) OBVIOUS
  <2>2. /\ InHand(u)' <=> InHand(u)
        /\ Leaving(u)' <=> Leaving(u)
        /\ Rejoining(u)' <=> Rejoining(u)
    BY <1>1, ApartIntents
  <2>3. force_reconnect => Planned(u)' BY <1>3 DEF Planned
  <2>4. Planned(u) /\ refs[u] > 0 => Planned(u)' \/ u \in degraded'
    BY <1>1, <1>3 DEF Planned
  <2>5. Served(u)' BY <1>1, <2>1, <2>2, <2>3, <2>4 DEF GoodIntent, Served, Apart
  <2>6. Owned(u)' BY <1>1, <1>3, <2>1, <2>2 DEF GoodIntent, Owned, Apart
  <2>7. RejoinIsDark(u)' BY <1>1, <2>1, <2>2 DEF GoodIntent, RejoinIsDark
  <2> QED BY <2>5, <2>6, <2>7 DEF GoodIntent
<1> QED BY <1>4, <1>5, <1>6

(***************************************************************************)
(* The legacy ticker reset plans everything that is held; a failed join     *)
(* asks for a reconnect.                                                    *)
(***************************************************************************)
LEMMA ResetServes ==
    ASSUME RefsInv, ServeInv, ResetTicker \/ ResetPlan PROVE ServeInv'
<1> USE DEF ServeInv
<1>1. /\ Apart /\ degraded' = degraded /\ joined' \subseteq joined
      /\ exclusive' = exclusive /\ ready' = ready /\ force_reconnect' = force_reconnect
      /\ issues' = issues /\ overtaken' = overtaken /\ pump' = pump
  BY DEF ResetTicker, ResetPlan, Apart, intentVars, clientVars, lockVars, pumpVars, venueVars
<1>2. /\ reset' \in ResetRecord /\ resets' \in Nat /\ resets' > 0
      /\ \/ reset'.step = "plan"
         \/ /\ reset.step = "plan" /\ reset'.step = "joins" /\ reset'.todo = Held
            /\ joined' = joined /\ refused' = refused /\ resets' = resets
  <2>1. CASE ResetTicker
    <3>1. resets' = resets + 1 /\ resets \in Nat BY <2>1 DEF ResetTicker, PhaseInv
    <3>2. reset' \in ResetRecord /\ reset'.step = "plan"
      BY <2>1 DEF ResetTicker, NoReset, ResetRecord
    <3> QED BY <3>1, <3>2
  <2>2. CASE ResetPlan
    <3>1. /\ reset \in ResetRecord /\ reset.step = "plan" /\ resets' = resets
          /\ resets \in Nat /\ resets # 0 /\ joined' = joined /\ refused' = refused
      BY <2>2 DEF ResetPlan, PhaseInv, venueVars
    <3>2. reset' = [step |-> "joins", todo |-> Held, failed |-> reset.failed]
      BY <2>2, <3>1 DEF ResetPlan, ResetRecord
    <3>3. reset' \in ResetRecord /\ reset'.step = "joins" /\ reset'.todo = Held
      BY <3>1, <3>2 DEF ResetRecord, Held
    <3> QED BY <3>1, <3>3
  <2> QED BY <2>1, <2>2
<1>3. WorkInv' BY <1>1, ApartWork DEF WorkInv, WorkTyped, DegradedIsHeld
<1>4. PhaseInv' BY <1>1, <1>2 DEF PhaseInv, Apart
<1>5. ASSUME NEW u \in Intents PROVE GoodIntent(u)'
  <2>1. Planned(u)' \/ ~(refs'[u] > 0) BY <1>1, <1>2 DEF Planned, Held, Apart
  <2>2. Served(u)' BY <2>1 DEF Served
  <2>3. resets' # 0 BY <1>2
  <2> QED BY <2>2, <2>3 DEF GoodIntent, Owned, RejoinIsDark
<1> QED BY <1>3, <1>4, <1>5

(* One join of the reset, and its end. *)
LEMMA ResetJoinServes ==
    ASSUME RefsInv, ServeInv,
           ResetEnd \/ \E t \in Intents, ok \in BOOLEAN : ResetJoin(t, ok)
    PROVE  ServeInv'
<1> USE DEF ServeInv
<1>0. reset \in ResetRecord /\ reset.step = "joins" /\ resets \in Nat /\ resets # 0
  BY DEF ResetEnd, ResetJoin, PhaseInv
<1>1. CASE ResetEnd
  <2>1. /\ Apart /\ degraded' = degraded /\ joined' = joined /\ refused' = refused
        /\ exclusive' = exclusive /\ issues' = issues /\ overtaken' = overtaken
        /\ pump' = pump /\ resets' = resets /\ reset.todo = {} /\ reset' = NoReset
    BY <1>1 DEF ResetEnd, Apart, intentVars, clientVars, lockVars, venueVars
  <2>2. \/ reset.failed = "yes" /\ ready' = FALSE /\ force_reconnect' = TRUE
        \/ /\ reset.failed # "yes" /\ ready' = ready
           /\ force_reconnect' = force_reconnect
    BY <1>1 DEF ResetEnd
  <2>3. reset' \in ResetRecord /\ reset'.step = "idle"
    BY <2>1 DEF NoReset, ResetRecord
  <2>4. WorkInv' BY <2>1, ApartWork DEF WorkInv, WorkTyped, DegradedIsHeld
  <2>5. PhaseInv'
    <3>0. ready \in BOOLEAN /\ force_reconnect \in BOOLEAN BY DEF PhaseInv
    <3>1. /\ ready' \in BOOLEAN /\ force_reconnect' \in BOOLEAN /\ (ready' => ready)
      <4>1. CASE ready' = FALSE /\ force_reconnect' = TRUE BY <4>1
      <4>2. CASE ready' = ready /\ force_reconnect' = force_reconnect BY <3>0, <4>2
      <4> QED BY <2>2, <4>1, <4>2
    <3> QED BY <2>1, <2>3, <3>1 DEF PhaseInv, Apart
  <2>6. ASSUME NEW u \in Intents PROVE GoodIntent(u)'
    <3>1. GoodIntent(u) OBVIOUS
    <3>2. InHand(u)' <=> InHand(u) BY <2>1, ApartIntents
    <3>3. reset.failed # "yes" /\ Planned(u) => Planned(u)'
      BY <1>0, <2>1 DEF Planned
    <3>4. Served(u)'
      <4>1. CASE reset.failed = "yes" BY <2>2, <4>1 DEF Served
      <4>2. CASE reset.failed # "yes"
        BY <2>1, <2>2, <3>1, <3>2, <3>3, <4>2 DEF GoodIntent, Served, Apart
      <4> QED BY <4>1, <4>2
    <3> QED BY <1>0, <2>1, <3>4 DEF GoodIntent, Owned, RejoinIsDark
  <2> QED BY <2>4, <2>5, <2>6
<1>2. CASE \E t \in Intents, ok \in BOOLEAN : ResetJoin(t, ok)
  <2>0. PICK t \in Intents, ok \in BOOLEAN : ResetJoin(t, ok) BY <1>2
  <2>1. /\ Apart /\ exclusive' = exclusive /\ ready' = ready /\ issues' = issues
        /\ force_reconnect' = force_reconnect /\ overtaken' = overtaken
        /\ pump' = pump /\ resets' = resets
    BY <2>0 DEF ResetJoin, Apart, clientVars, lockVars, pumpVars
  <2>2. \/ /\ ok /\ joined' = joined \cup {t} /\ refused' = refused \ {t}
           /\ degraded' = degraded \ {t}
        \/ ~ok /\ joined' = joined /\ refused' = refused /\ degraded' = degraded
    BY <2>0 DEF ResetJoin, VenueJoin
  <2>3. /\ reset' \in ResetRecord /\ reset'.step = "joins"
        /\ reset'.todo = reset.todo \ {t}
        /\ reset'.failed = IF ok THEN reset.failed ELSE "yes"
    <3>1. reset' = [step |-> reset.step, todo |-> reset.todo \ {t},
                    failed |-> IF ok THEN reset.failed ELSE "yes"]
      BY <1>0, <2>0 DEF ResetJoin, ResetRecord
    <3> QED BY <1>0, <3>1 DEF ResetRecord
  <2>4. WorkInv' BY <2>1, <2>2, ApartWork DEF WorkInv, WorkTyped, DegradedIsHeld
  <2>5. PhaseInv' BY <1>0, <2>1, <2>3 DEF PhaseInv, Apart
  <2>6. ASSUME NEW u \in Intents PROVE GoodIntent(u)'
    <3>1. GoodIntent(u) OBVIOUS
    <3>2. InHand(u)' <=> InHand(u) BY <2>1, ApartIntents
    <3>3. Served(u)'
      <4>1. CASE u = t
        <5>1. t \in joined' \/ Planned(t)' BY <2>2, <2>3 DEF Planned
        <5> QED BY <4>1, <5>1 DEF Served
      <4>2. CASE u # t
        <5>1. /\ (u \in joined' <=> u \in joined) /\ (u \in refused' <=> u \in refused)
              /\ (u \in degraded' <=> u \in degraded)
          BY <2>2, <4>2
        <5>2. Planned(u) => Planned(u)' BY <1>0, <2>1, <2>3, <4>2 DEF Planned
        <5> QED BY <2>1, <3>1, <3>2, <5>1, <5>2 DEF GoodIntent, Served, Apart
      <4> QED BY <4>1, <4>2
    <3> QED BY <1>0, <2>1, <3>3 DEF GoodIntent, Owned, RejoinIsDark
  <2> QED BY <2>4, <2>5, <2>6
<1> QED BY <1>1, <1>2

-----------------------------------------------------------------------------
(* Initially nobody holds and nothing is joined. *)
LEMMA ServeInitial == Init => ServeInv
<1> SUFFICES ASSUME Init PROVE ServeInv OBVIOUS
<1>1. \A a \in Actors : op[a].step = "idle" BY IdleRecord DEF Init
<1>2. WorkInv
  <2>1. \A a \in Actors : Known(a) BY <1>1 DEF Known, RejoinSteps, Left
  <2>2. LocksHeld BY <1>1 DEF LocksHeld, LockedSteps
  <2>3. WorkTyped /\ DegradedIsHeld BY DEF Init, WorkTyped, DegradedIsHeld
  <2> QED BY <2>1, <2>2, <2>3 DEF WorkInv
<1>3. pump \in PumpRecord /\ pump.step = "serve" BY DEF Init, Serving, PumpRecord
<1>4. reset \in ResetRecord /\ reset.step = "idle" BY DEF Init, NoReset, ResetRecord
<1>5. PhaseInv
  <2>1. ready \in BOOLEAN /\ exclusive \in BOOLEAN /\ force_reconnect \in BOOLEAN /\ ~exclusive
    BY DEF Init
  <2>2. issues \in Nat /\ resets \in Nat BY DEF Init
  <2> QED BY <1>3, <1>4, <2>1, <2>2 DEF PhaseInv
<1>6. \A t \in Intents : GoodIntent(t)
  <2> TAKE t \in Intents
  <2>1. refs[t] = 0 /\ joined = {} /\ pump.step # "joins" BY <1>3 DEF Init
  <2>2. ~Rejoining(t) BY <1>1 DEF Rejoining
  <2> QED BY <2>1, <2>2 DEF GoodIntent, Served, Owned, RejoinIsDark
<1> QED BY <1>2, <1>5, <1>6 DEF ServeInv

(* Every step keeps locks, phases and intents good. *)
LEMMA ServeStep == RefsInv /\ RefsInv' /\ ServeInv /\ [Next]_vars => ServeInv'
<1> SUFFICES ASSUME RefsInv, RefsInv', ServeInv, [Next]_vars PROVE ServeInv' OBVIOUS
<1>1. CASE \E c \in Clients : ClientStep(c)
  <2>1. PICK c \in Clients : ClientStep(c) BY <1>1
  <2>2. c \in Actors BY DEF Actors
  <2>3. CASE \E t \in Intents : Subscribe(c, t) \/ Unsubscribe(c, t)
    BY <2>2, <2>3, StartServes
  <2>4. CASE \E t \in Intents : TdForget(c, t) BY <2>4, TdForgetServes
  <2>5. CASE SubNote(c) BY <2>5, SubNoteServes
  <2>6. CASE SubJoined(c) BY <2>6, SubJoinedServes
  <2>7. CASE SubFailed(c) BY <2>7, SubFailedServes
  <2>8. CASE SubForget(c) BY <2>8, SubForgetServes
  <2>9. CASE RefreshLock(c) \/ \E ok \in BOOLEAN : Refresh(c, ok)
    BY <2>9, RefreshServes
  <2>10. CASE UnsubRemove(c) BY <2>10, UnsubRemoveServes
  <2>11. CASE UnsubForget(c) BY <2>11, UnsubForgetServes
  <2>12. CASE \/ UnsubLeft(c) \/ UnsubLeaveFailed(c)
              \/ \E ok \in BOOLEAN : TdLeave(c, ok)
    BY <2>12, LeaveServes
  <2>13. CASE UnsubRenote(c) BY <2>13, RenoteServes
  <2>14. CASE Detach(c) \/ TdStart(c) \/ TdEnd(c) BY <2>14, TeardownServes
  <2> QED BY <2>1, <2>3, <2>4, <2>5, <2>6, <2>7, <2>8, <2>9, <2>10, <2>11, <2>12,
             <2>13, <2>14 DEF ClientStep
<1>2. CASE \E a \in Actors : TakeGate(a) BY <1>2, StartServes
<1>3. CASE \E a \in Actors : RejoinLock(a) BY <1>3, RejoinLockServes
<1>4. CASE \E a \in Actors, ok \in BOOLEAN : Rejoin(a, ok) BY <1>4, RejoinServes
<1>5. CASE PumpStep
  <2>1. CASE \E scope \in Scopes : Interrupt(scope) BY <2>1, InterruptServes
  <2>2. CASE \E t \in Intents : Retry(t)
    <3>1. Pump \in Actors BY DEF Actors
    <3> QED BY <2>2, <3>1, StartServes
  <2>3. CASE \E t \in Intents, ok \in BOOLEAN : PassJoin(t, ok) BY <2>3, PassJoinServes
  <2>4. CASE NotifySessions BY <2>4, NotifyServes
  <2>5. CASE Plan BY <2>5, PlanServes
  <2>6. CASE PassStart BY <2>6, PassStartServes
  <2>7. CASE Finish BY <2>7, FinishServes
  <2>8. CASE \E ok \in BOOLEAN : Rebuild(ok) BY <2>8, RebuildServes
  <2>9. CASE \E ok \in BOOLEAN : PassEnd(ok) BY <2>9, PassEndServes
  <2>10. CASE \E ok \in BOOLEAN : DroppedRejoin(ok) BY <2>10, DroppedServes
  <2> QED BY <1>5, <2>1, <2>2, <2>3, <2>4, <2>5, <2>6, <2>7, <2>8, <2>9, <2>10
          DEF PumpStep
<1>6. CASE ResetTicker \/ ResetPlan BY <1>6, ResetServes
<1>7. CASE ResetEnd \/ \E t \in Intents, ok \in BOOLEAN : ResetJoin(t, ok)
  BY <1>7, ResetJoinServes
<1>8. CASE UNCHANGED vars
  <2>1. PhaseSame /\ UNCHANGED <<refs, degraded, joined, refused, op, held, topic_locks>>
    BY <1>8 DEF vars, PhaseSame, intentVars, clientVars, lockVars, pumpVars, resetVars, venueVars
  <2> QED BY <2>1, SameServes
<1> QED BY <1>1, <1>2, <1>3, <1>4, <1>5, <1>6, <1>7, <1>8 DEF Next

(* Nobody has an intent in hand, or leaves it, while its symbol is unlocked. *)
LEMMA SettledIsIdle ==
    ASSUME ServeInv, NEW t \in Intents, Settled(t)
    PROVE  ~InHand(t) /\ ~Leaving(t) /\ ~Planned(t)
<1>1. \A a \in Actors : ~(op[a].step \in LockedSteps /\ op[a].t = t)
  BY ActorsAssumption DEF ServeInv, WorkInv, LocksHeld, Settled, Actors
<1>2. Clients \subseteq Actors BY DEF Actors
<1>3. ~InHand(t) /\ ~Leaving(t) BY <1>1, <1>2 DEF InHand, Leaving, LockedSteps
<1>4. ~Planned(t) BY DEF Settled, Planned
<1> QED BY <1>3, <1>4

(***************************************************************************)
(* No subscription is silently dark: for any number of clients, symbols,    *)
(* plant failures and restore passes, an intent with a holder is joined at  *)
(* the venue or marked degraded once the host serves and its symbol is      *)
(* unlocked, whatever subscribes, rollbacks, retries, teardowns, recoveries *)
(* and resets came before.                                                  *)
(***************************************************************************)
THEOREM HeldIntentsAreServed == Spec => []HeldIsServed
<1>1. ServeInv => HeldIsServed
  <2> SUFFICES ASSUME ServeInv, NEW t \in Held \ (refused \cup overtaken), Settled(t),
                      ~(IsBook(t) /\ resets > 0)
               PROVE  t \in joined \cup degraded
    BY DEF HeldIsServed
  <2>1. t \in Intents /\ refs[t] > 0 BY DEF Held
  <2>2. ~InHand(t) /\ ~Planned(t) /\ ~force_reconnect
    BY <2>1, SettledIsIdle DEF Settled
  <2> QED BY <2>1, <2>2 DEF ServeInv, GoodIntent, Served
<1> QED BY RefsInitial, RefsStep, ServeInitial, ServeStep, <1>1, PTL DEF Spec

(***************************************************************************)
(* No join outlives its holders: a rollback, an unsubscribe, a teardown or  *)
(* a saved restore plan leaves no join at the venue that nobody holds, save *)
(* where the venue refused the leave, a recovery overtook the command, or a *)
(* legacy reset ran.                                                        *)
(***************************************************************************)
THEOREM JoinsAreHeld == Spec => []NoOrphanJoin
<1>1. ServeInv => NoOrphanJoin
  <2> SUFFICES ASSUME ServeInv, NEW t \in joined \ (refused \cup overtaken), Settled(t),
                      resets = 0
               PROVE  t \in Held
    BY DEF NoOrphanJoin
  <2>1. t \in Intents BY DEF ServeInv, WorkInv, WorkTyped
  <2>2. ~InHand(t) /\ ~Leaving(t) BY <2>1, SettledIsIdle
  <2> QED BY <2>1, <2>2 DEF ServeInv, GoodIntent, Owned, Held
<1> QED BY RefsInitial, RefsStep, ServeInitial, ServeStep, <1>1, PTL DEF Spec
=============================================================================
