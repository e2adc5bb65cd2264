--------------------------------- MODULE Lane ---------------------------------
(***************************************************************************)
(* One plant stream lane of rithmic-host/src/streams.rs, with the forwarder *)
(* tasks that rithmic-plants/src/session.rs attaches to it.                 *)
(*                                                                          *)
(* The lane outlives plant connections.  Every attach and every detach      *)
(* bumps its generation; a forwarder tags what it queues with the           *)
(* generation it was attached under, and the consumer hands out only what   *)
(* the current attachment (or, while detached, the one that just left) is   *)
(* owed, turning the rest into a gap.  The lane has no lock: `up`, `closed`,*)
(* `generation` are atomics and `fail` a mutex of its own, so every load    *)
(* and store of attach, detach, fail, close and take is a step here.        *)
(*                                                                          *)
(* A message, an event or a gap, keeps its generation and its index among   *)
(* the messages of that generation.                                         *)
(***************************************************************************)
EXTENDS Integers, Sequences, FiniteSets, FiniteSetsExt

CONSTANTS
    Capacity,       \* STREAM_CAPACITY
    MaxTake,        \* bound: the `max` of a take
    MaxAttach,      \* bound: attachments of the lane
    MaxSend         \* bound: messages queued over all attachments

ASSUME LaneAssumption ==
    /\ Capacity \in Nat \ {0} /\ MaxTake \in Nat \ {0}
    /\ MaxAttach \in Nat /\ MaxSend \in Nat

VARIABLES
    chan, carry, carry_gen,         \* the mpsc channel and the carry buffer
    generation, up, closed, stale,  \* the lane's atomics
    fail,           \* the recorded failure: whose it is, and how many messages
                    \* that generation had queued before it; gen 0 is None
    notified,       \* the consumer's registered `changed` was notified
    owner, guards,  \* step of the venue's attach/detach; live StreamGuards
    fwd,            \* fwd[g]: the forwarder of generation g
    con,            \* the consumer: its step and what it has loaded
    (* History, read by no action's guard but the bounds. *)
    sent,           \* messages queued by each generation's forwarder
    queued, handed, reported,       \* messages queued, handed, told as stale
    last,           \* generation and index of the last message handed out
    outcome         \* what the last take returned

laneVars == <<generation, up, closed, stale, fail>>
queueVars == <<chan, carry, carry_gen>>
histVars == <<sent, queued, handed, reported, last>>
vars == <<laneVars, queueVars, notified, owner, guards, fwd, con, histVars,
          outcome>>

Gens == 0..2 * MaxAttach            \* each attachment is left at most once
NoFail == [gen |-> 0, ahead |-> 0]
NoOutcome == [kind |-> "none", fail |-> NoFail, current |-> 0]
Resting == [step |-> "idle", max |-> 1, up |-> FALSE, current |-> 0,
            fail |-> NoFail]
Idle == [step |-> "idle", gen |-> 0]

Init ==
    /\ chan = <<>> /\ carry = <<>> /\ carry_gen = 0
    /\ generation = 0 /\ up = FALSE /\ closed = FALSE /\ stale = 0
    /\ fail = NoFail
    /\ notified = FALSE
    /\ owner = Idle /\ guards = {}
    /\ fwd = [g \in Gens |-> "none"]
    /\ con = Resting
    /\ sent = [g \in Gens |-> 0] /\ queued = 0 /\ handed = 0 /\ reported = 0
    /\ last = [gen |-> 0, n |-> 0]
    /\ outcome = NoOutcome

-----------------------------------------------------------------------------
(***************************************************************************)
(* StreamHub::attach, in the order of its stores.  The new StreamGuard and  *)
(* its forwarder exist once attach returns (session.rs, `forward`).  The    *)
(* venue calls attach and detach one at a time, and closes a plant before   *)
(* it connects the next.                                                    *)
(***************************************************************************)
Attach ==
    /\ owner.step = "idle" /\ guards = {}
    /\ Cardinality({g \in Gens : fwd[g] # "none"}) < MaxAttach
    /\ generation' = generation + 1
    /\ owner' = [step |-> "attach_closed", gen |-> generation + 1]
    /\ UNCHANGED <<up, closed, stale, fail, queueVars, notified, guards, fwd,
                   con, histVars, outcome>>
AttachClosed ==
    /\ owner.step = "attach_closed"
    /\ closed' = FALSE
    /\ owner' = [owner EXCEPT !.step = "attach_fail"]
    /\ UNCHANGED <<generation, up, stale, fail, queueVars, notified, guards,
                   fwd, con, histVars, outcome>>
AttachFail ==
    /\ owner.step = "attach_fail"
    /\ fail' = NoFail
    /\ owner' = [owner EXCEPT !.step = "attach_up"]
    /\ UNCHANGED <<generation, up, closed, stale, queueVars, notified, guards,
                   fwd, con, histVars, outcome>>
AttachUp ==
    /\ owner.step = "attach_up"
    /\ up' = TRUE /\ notified' = TRUE
    /\ owner' = Idle
    /\ guards' = guards \cup {owner.gen}
    /\ fwd' = [fwd EXCEPT ![owner.gen] = "run"]
    /\ UNCHANGED <<generation, closed, stale, fail, queueVars, con, histVars,
                   outcome>>

(***************************************************************************)
(* Dropping a StreamGuard aborts its forwarder (which may still finish the  *)
(* poll it is in, see Stop) and detaches, unless the lane was re-attached.  *)
(***************************************************************************)
Detach(g) ==
    /\ owner.step = "idle" /\ g \in guards
    /\ guards' = guards \ {g}
    /\ owner' = IF generation # g THEN owner
                ELSE [step |-> "detach_closed", gen |-> g]
    /\ up' = IF generation # g THEN up ELSE FALSE
    /\ UNCHANGED <<generation, closed, stale, fail, queueVars, notified, fwd,
                   con, histVars, outcome>>
DetachClosed ==
    /\ owner.step = "detach_closed"
    /\ closed' = FALSE
    /\ owner' = [owner EXCEPT !.step = "detach_gen"]
    /\ UNCHANGED <<generation, up, stale, fail, queueVars, notified, guards,
                   fwd, con, histVars, outcome>>
DetachGen ==
    /\ owner.step = "detach_gen"
    /\ generation' = generation + 1 /\ notified' = TRUE
    /\ owner' = Idle
    /\ UNCHANGED <<up, closed, stale, fail, queueVars, guards, fwd, con,
                   histVars, outcome>>

-----------------------------------------------------------------------------
(***************************************************************************)
(* The forwarder of generation g: StreamTx::event and ::gap queue without   *)
(* looking at the generation and wait while the channel is full.            *)
(***************************************************************************)
Send(g) ==
    /\ fwd[g] = "run" /\ Len(chan) < Capacity /\ queued < MaxSend
    /\ chan' = Append(chan, [gen |-> g, n |-> sent[g] + 1])
    /\ sent' = [sent EXCEPT ![g] = @ + 1] /\ queued' = queued + 1
    /\ UNCHANGED <<laneVars, carry, carry_gen, notified, owner, guards, fwd,
                   con, handed, reported, last, outcome>>

(* StreamTx::fail and ::fail_login: test the generation, then record. *)
FailCheck(g) ==
    /\ fwd[g] = "run" /\ generation = g
    /\ fwd' = [fwd EXCEPT ![g] = "failing"]
    /\ UNCHANGED <<laneVars, queueVars, notified, owner, guards, con, histVars,
                   outcome>>
FailStore(g) ==
    /\ fwd[g] = "failing"
    /\ fail' = [gen |-> g, ahead |-> sent[g]] /\ notified' = TRUE
    /\ fwd' = [fwd EXCEPT ![g] = "run"]
    /\ UNCHANGED <<generation, up, closed, stale, queueVars, owner, guards, con,
                   histVars, outcome>>

(* The channel closed, or the conversion panicked: close and end the task. *)
CloseCheck(g) ==
    /\ fwd[g] = "run"
    /\ fwd' = [fwd EXCEPT ![g] = IF generation = g THEN "closing" ELSE "done"]
    /\ UNCHANGED <<laneVars, queueVars, notified, owner, guards, con, histVars,
                   outcome>>
CloseStoreSilent(g) ==                              \* mutant
    /\ fwd[g] = "closing"
    /\ closed' = TRUE
    /\ fwd' = [fwd EXCEPT ![g] = "done"]
    /\ UNCHANGED <<generation, up, stale, fail, queueVars, notified, owner,
                   guards, con, histVars, outcome>>
CloseStore(g) ==
    /\ fwd[g] = "closing"
    /\ closed' = TRUE /\ notified' = TRUE
    /\ fwd' = [fwd EXCEPT ![g] = "done"]
    /\ UNCHANGED <<generation, up, stale, fail, queueVars, owner, guards, con,
                   histVars, outcome>>

(* The abort of a dropped guard takes effect at the task's next await. *)
Stop(g) ==
    /\ fwd[g] = "run" /\ g \notin guards
    /\ fwd' = [fwd EXCEPT ![g] = "done"]
    /\ UNCHANGED <<laneVars, queueVars, notified, owner, guards, con, histVars,
                   outcome>>

-----------------------------------------------------------------------------
(***************************************************************************)
(* `drain`: up to max messages, the carry first, then those of generation g *)
(* in the channel; messages of any other generation met on the way are      *)
(* counted as lost.                                                         *)
(***************************************************************************)
Places(s, g) == {i \in 1..Len(s) : s[i].gen = g}
Place(s, g, j) == CHOOSE i \in Places(s, g) :
                    Cardinality({h \in Places(s, g) : h <= i}) = j
OfGen(s, g) == [j \in 1..Cardinality(Places(s, g)) |-> s[Place(s, g, j)]]
Scanned(want, g) ==
    IF want = 0 THEN 0
    ELSE Min({k \in 0..Len(chan) : Len(OfGen(SubSeq(chan, 1, k), g)) = want}
               \cup {Len(chan)})
Drained(held, max, g) ==
    LET c == Min({max, Len(held)})
        k == Scanned(max - c, g)
        fromChan == OfGen(SubSeq(chan, 1, k), g)
    IN  [batch |-> SubSeq(held, 1, c) \o fromChan,
         carry |-> SubSeq(held, c + 1, Len(held)),
         chan |-> SubSeq(chan, k + 1, Len(chan)),
         lost |-> k - Len(fromChan)]
Something(d, lost) == lost > 0 \/ d.batch # <<>>

(***************************************************************************)
(* `finish`: a gap for what was lost goes first and takes one place of the  *)
(* batch; what does not fit returns to the front of the carry.              *)
(***************************************************************************)
Kept(batch, max, lost) == IF lost > 0 THEN Min({max - 1, Len(batch)})
                                      ELSE Min({max, Len(batch)})
CarryGen(d, k, g) == IF k < Len(d.batch) THEN g ELSE carry_gen
RestDropped(d, k) == d.carry                                    \* mutant
Rest(d, k) == SubSeq(d.batch, k + 1, Len(d.batch)) \o d.carry
Finish(d, max, lost, g) ==
    LET k == Kept(d.batch, max, lost)
        out == SubSeq(d.batch, 1, k)
    IN  /\ chan' = d.chan
        /\ stale' = 0
        /\ carry' = Rest(d, k)
        /\ carry_gen' = CarryGen(d, k, g)
        /\ handed' = handed + k
        /\ reported' = reported + lost
        /\ last' = IF k = 0 THEN last ELSE [gen |-> out[k].gen, n |-> out[k].n]
        /\ UNCHANGED <<sent, queued>>

Return(kind) ==
    /\ con' = Resting
    /\ outcome' = IF kind # "fail" THEN [NoOutcome EXCEPT !.kind = kind]
                  ELSE [kind |-> kind, fail |-> con.fail, current |-> con.current]
Goto(step) == con' = [con EXCEPT !.step = step] /\ UNCHANGED outcome

(* StreamHub::take: register for notifications and load `up`, then the rest. *)
Take(max) ==
    /\ con.step = "idle"
    /\ con' = [con EXCEPT !.step = "load_up", !.max = max]
    /\ outcome' = NoOutcome
    /\ UNCHANGED <<laneVars, queueVars, notified, owner, guards, fwd, histVars>>
LoadUp ==
    /\ con.step = "load_up"
    /\ notified' = FALSE
    /\ con' = [con EXCEPT !.step = "load_gen", !.up = up]
    /\ UNCHANGED <<laneVars, queueVars, owner, guards, fwd, histVars, outcome>>
LoadGen ==
    /\ con.step = "load_gen"
    /\ con' = [con EXCEPT !.step = "drain", !.current = generation]
    /\ UNCHANGED <<laneVars, queueVars, notified, owner, guards, fwd, histVars,
                   outcome>>

(* What the consumer is owed; a carry of any other attachment is lost. *)
Owed == IF con.up THEN con.current ELSE con.current - 1
CarryLost == IF carry_gen # Owed THEN Len(carry) ELSE 0

DrainStep ==
    LET d == Drained(IF CarryLost > 0 THEN <<>> ELSE carry, con.max, Owed)
        lost == stale + CarryLost + d.lost
    IN  /\ con.step = "drain"
        /\ Finish(d, con.max, lost, Owed)
        /\ IF Something(d, lost) THEN Return("msgs")
           ELSE Goto(IF con.up THEN "take_fail" ELSE "down")
        /\ UNCHANGED <<generation, up, closed, fail, notified, owner, guards,
                       fwd>>

TakeFail ==
    /\ con.step = "take_fail"
    /\ fail' = NoFail
    /\ con' = [con EXCEPT !.step = IF fail.gen # 0 THEN "late_fail"
                                                   ELSE "load_closed",
                          !.fail = fail]
    /\ UNCHANGED <<generation, up, closed, stale, queueVars, notified, owner,
                   guards, fwd, histVars, outcome>>

(* A late event goes first and the failure is put back; else it is told. *)
LateFailAtOnce ==                                               \* mutant
    /\ con.step = "late_fail"
    /\ Return("fail")
    /\ UNCHANGED <<laneVars, queueVars, histVars, notified, owner, guards, fwd>>
LateFail ==
    LET d == Drained(carry, con.max, con.current)
        lost == stale + d.lost
    IN  /\ con.step = "late_fail"
        /\ Finish(d, con.max, lost, con.current)
        /\ IF Something(d, lost) THEN Goto("put_back") ELSE Return("fail")
        /\ UNCHANGED <<generation, up, closed, fail, notified, owner, guards,
                       fwd>>
PutBack ==
    /\ con.step = "put_back"
    /\ fail' = con.fail
    /\ Return("msgs")
    /\ UNCHANGED <<generation, up, closed, stale, queueVars, notified, owner,
                   guards, fwd, histVars>>

LoadClosed ==
    /\ con.step = "load_closed"
    /\ Goto(IF closed THEN "late_closed" ELSE "wait")
    /\ UNCHANGED <<laneVars, queueVars, notified, owner, guards, fwd, histVars>>
LateClosed ==
    LET d == Drained(carry, con.max, con.current)
        lost == stale + d.lost
    IN  /\ con.step = "late_closed"
        /\ Finish(d, con.max, lost, con.current)
        /\ IF Something(d, lost) THEN Return("msgs") ELSE Return("closed")
        /\ UNCHANGED <<generation, up, closed, fail, notified, owner, guards,
                       fwd>>

(* The biased select: a message first, then a notification, the deadline. *)
WaitRecv ==
    LET g == Head(chan).gen
        d == Drained(<<>>, con.max, g)
    IN  /\ con.step = "wait" /\ chan # <<>>
        /\ IF g = generation
           THEN Finish(d, con.max, stale + d.lost, g) /\ Return("msgs")
           ELSE /\ chan' = Tail(chan) /\ stale' = stale + 1
                /\ Goto("load_up")
                /\ UNCHANGED <<carry, carry_gen, histVars>>
        /\ UNCHANGED <<generation, up, closed, fail, notified, owner, guards,
                       fwd>>
WaitNotified ==
    /\ con.step = "wait" /\ chan = <<>> /\ notified
    /\ Goto("load_up")
    /\ UNCHANGED <<laneVars, queueVars, notified, owner, guards, fwd, histVars>>
WaitTimeout ==
    /\ con.step \in {"wait", "wait_up"}
    /\ Return("timeout")
    /\ UNCHANGED <<laneVars, queueVars, notified, owner, guards, fwd, histVars>>

(* Taken::Down: a poll reports it, next_events waits in wait_up and retries. *)
PollDown ==
    /\ con.step = "down"
    /\ Return("down")
    /\ UNCHANGED <<laneVars, queueVars, notified, owner, guards, fwd, histVars>>
WaitUpCheck ==
    /\ con.step = "down"
    /\ notified' = FALSE
    /\ Goto(IF up THEN "load_up" ELSE "wait_up")
    /\ UNCHANGED <<laneVars, queueVars, owner, guards, fwd, histVars>>
WaitUpNotified ==
    /\ con.step = "wait_up" /\ notified
    /\ Goto("down")
    /\ UNCHANGED <<laneVars, queueVars, notified, owner, guards, fwd, histVars>>

-----------------------------------------------------------------------------
Owner == Attach \/ AttachClosed \/ AttachFail \/ AttachUp
         \/ (\E g \in Gens : Detach(g)) \/ DetachClosed \/ DetachGen
Forwarder == \E g \in Gens \ {0} :
               \/ Send(g)
               \/ FailCheck(g) \/ FailStore(g)
               \/ CloseCheck(g) \/ CloseStore(g) \/ Stop(g)
ConsumerStep == LoadUp \/ LoadGen \/ DrainStep \/ TakeFail \/ LateFail \/ PutBack
                \/ LoadClosed \/ LateClosed \/ WaitRecv \/ WaitNotified
                \/ WaitUpCheck \/ WaitUpNotified
Consumer == (\E max \in 1..MaxTake : Take(max)) \/ ConsumerStep
            \/ WaitTimeout \/ PollDown

Next == Owner \/ Forwarder \/ Consumer
Spec == Init /\ [][Next]_vars

-----------------------------------------------------------------------------
Msg == [gen : Gens, n : Nat]

(* Every variable has its type; the counters are naturals. *)
TypeOK ==
    /\ chan \in Seq(Msg) /\ carry \in Seq(Msg) /\ carry_gen \in Gens
    /\ generation \in Gens /\ up \in BOOLEAN /\ closed \in BOOLEAN
    /\ stale \in Nat /\ fail \in [gen : Gens, ahead : Nat]
    /\ notified \in BOOLEAN /\ guards \subseteq Gens
    /\ owner.gen \in Gens /\ con.current \in Gens
    /\ fwd \in [Gens -> {"none", "run", "failing", "closing", "done"}]
    /\ sent \in [Gens -> Nat] /\ {queued, handed, reported} \subseteq Nat

(***************************************************************************)
(* Nothing queued vanishes: every message a forwarder queued is handed out, *)
(* reported in a gap, or still on its way, whatever attach, detach, late    *)
(* drain, carry and put-back interleave.                                    *)
(***************************************************************************)
NothingVanishes ==
    queued = handed + reported + stale + Len(chan) + Len(carry)

(***************************************************************************)
(* The carry holds messages of one attachment, the one carry_gen names, so  *)
(* the next take can tell whether they are still owed.                      *)
(***************************************************************************)
CarryOfOneAttachment == \A i \in 1..Len(carry) : carry[i].gen = carry_gen

(***************************************************************************)
(* A consumer never goes back: within an attachment it sees source order,   *)
(* and nothing of an earlier attachment after something of a later one.     *)
(***************************************************************************)
HandedInOrder ==
    [][last' # last => \/ last'.gen > last.gen
                       \/ last'.gen = last.gen /\ last'.n > last.n]_vars

(***************************************************************************)
(* "A venue connection error ... surface[s] as [an] error once the queued   *)
(* events ahead of [it] are drained": when a take reports a failure, no     *)
(* message its forwarder queued before it is still queued.                  *)
(***************************************************************************)
FailureAfterEvents ==
    outcome.kind = "fail" =>
      \A i \in 1..Len(chan) : chan[i].gen = outcome.fail.gen
                                => chan[i].n > outcome.fail.ahead

(***************************************************************************)
(* "Consumers ... wake the moment an event arrives, so delivery never       *)
(* depends on a poll interval": a consumer that sleeps with no notification *)
(* pending has missed nothing, neither a failure nor a close nor a detach,  *)
(* and one that waits for an attach has not missed it.                      *)
(***************************************************************************)
NoLostWakeup ==
    owner.step = "idle" /\ ~notified /\ chan = <<>> =>
      /\ con.step = "wait" => up /\ fail.gen = 0 /\ ~closed
      /\ con.step = "wait_up" => ~up

(***************************************************************************)
(* "A stale forwarder ... can never leak into the new connection": the      *)
(* failure a take reports was not recorded by a forwarder whose attachment  *)
(* a newer one had replaced before the take looked.                         *)
(***************************************************************************)
FailureOfThisAttachment ==
    outcome.kind = "fail" =>
      \A g \in Gens : outcome.fail.gen < g /\ g <= outcome.current => fwd[g] = "none"
=============================================================================
