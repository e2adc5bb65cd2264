------------------------------- MODULE Delivery -------------------------------
(***************************************************************************)
(* The attachment queues of rithmic-host/src/local/delivery.rs.  The host   *)
(* publisher pushes records synchronously; a slow consumer never blocks it: *)
(* each stream has a bound, and what overflows is turned into one Gap that  *)
(* is handed out in place of the lost records.  A native attachment reads   *)
(* per-stream batches (next_events); a transport (the gateway writer) owns  *)
(* an EventReceiver that merges the streams by sequence number and meets    *)
(* the flush barriers the host places before a lifecycle signal.            *)
(*                                                                          *)
(* A record is flattened to its events, the "slots": slot.rest counts the   *)
(* events of the same record behind it, slot.form tells Record::Batch from  *)
(* Record::Shared, slot.size is 1 for an event and the `skipped` of a Gap.  *)
(* The state mutex is held across the two loops of the code (dropping the   *)
(* overflow, popping a batch), so each iteration is a step under `op`.      *)
(***************************************************************************)
EXTENDS Integers, Sequences

CONSTANTS
    Streams,        \* the plant streams an attachment queues (Stream::ALL)
    Capacity,       \* events kept per stream (FanoutHub::capacity)
    MaxBatch,       \* bound: events of one venue batch
    MaxTake,        \* bound: the `max` of a native read
    GapSizes,       \* the `skipped` counts a published Gap may carry
    MaxSequence     \* bound: records and barriers given a sequence number

ASSUME CapacityAssumption == Capacity \in Nat \ {0}
ASSUME BatchAssumption == MaxBatch \in Nat \ {0} /\ MaxTake \in Nat \ {0}
ASSUME GapAssumption == GapSizes \subseteq Nat
ASSUME StreamsAssumption == Streams # {} /\ MaxSequence \in Nat

VARIABLES
    slots,          \* slots[s]: the queued events of stream s, oldest first
    skipped,        \* skipped[s]: events lost to the bound, not yet reported
    gap_sequence,   \* gap_sequence[s]: sequence of the first of them
    barriers,       \* flush barriers not yet met by the transport
    sequence,       \* last sequence number given out
    native_started, \* native consumption has begun
    transport,      \* the EventReceiver has been claimed
    closed,
    op,             \* what the holder of the state mutex is doing
    target,         \* the stream it works on
    left,           \* pops left in a native read
    (* History, read by no action's guard. *)
    total,          \* total[s]: events published while open
    seen,           \* seen[s]: events handed out, or reported in a Gap
    handed,         \* highest sequence number the transport was handed
    met,            \* the totals at the last barrier the transport met
    bare            \* a lifecycle signal went ahead without a barrier

queueVars == <<slots, skipped, gap_sequence>>
modeVars == <<native_started, transport, closed>>
lockVars == <<op, target, left>>
history == <<total, seen, handed, met, bare>>
vars == <<queueVars, barriers, sequence, modeVars, lockVars, history>>

Slot == [seq : Nat, pos : Nat, size : Nat, kind : {"event", "gap"},
         rest : Nat, form : {"batch", "shared"}]
Barrier == [seq : Nat, mark : [Streams -> Nat]]

Min2(a, b) == IF a < b THEN a ELSE b

(***************************************************************************)
(* Queue::head: the sequence number at the front of a stream's queue.       *)
(***************************************************************************)
NonEmpty(s) == skipped[s] > 0 \/ slots[s] # <<>>
HeadSeqIgnoringGap(s) == Head(slots[s]).seq         \* mutant
HeadSeq(s) == IF skipped[s] > 0 THEN gap_sequence[s] ELSE Head(slots[s]).seq

(***************************************************************************)
(* Delivery::new and Delivery::new_transport: the claim may precede the     *)
(* attachment's publication to the host.                                    *)
(***************************************************************************)
Init ==
    /\ slots = [s \in Streams |-> <<>>]
    /\ skipped = [s \in Streams |-> 0]
    /\ gap_sequence = [s \in Streams |-> 0]
    /\ barriers = <<>>
    /\ sequence = 0
    /\ native_started = FALSE
    /\ transport \in BOOLEAN
    /\ closed = FALSE
    /\ op = "free"
    /\ target = CHOOSE s \in Streams : TRUE
    /\ left = 0
    /\ total = [s \in Streams |-> 0]
    /\ seen = [s \in Streams |-> 0]
    /\ handed = 0
    /\ met = [s \in Streams |-> 0]
    /\ bare = FALSE

(***************************************************************************)
(* The records fan-out pushes: a venue batch moved to its only native       *)
(* holder, or one event or Gap, owned or shared.                            *)
(***************************************************************************)
BatchRecord(s, n) ==
    [i \in 1..n |-> [seq |-> sequence + i, pos |-> total[s] + i - 1,
                     size |-> 1, kind |-> "event", rest |-> n - i,
                     form |-> "batch"]]
OneRecord(s, kind, k, form) ==
    << [seq |-> sequence + 1, pos |-> total[s], size |-> k,
        kind |-> kind, rest |-> 0, form |-> form] >>

(* Delivery::push up to its overflow loop: nothing once closed. *)
Push(s, record, weight) ==
    /\ op = "free" /\ ~closed
    /\ sequence + Len(record) <= MaxSequence
    /\ slots' = [slots EXCEPT ![s] = @ \o record]
    /\ sequence' = sequence + Len(record)
    /\ total' = [total EXCEPT ![s] = @ + weight]
    /\ op' = "push" /\ target' = s
    /\ UNCHANGED <<skipped, gap_sequence, barriers, modeVars, left,
                   seen, handed, met, bare>>
PushBatch(s, n) == Push(s, BatchRecord(s, n), n)
PushEvent(s, form) == Push(s, OneRecord(s, "event", 1, form), 1)
PushGap(s, k, form) == Push(s, OneRecord(s, "gap", k, form), k)

(* What one lost record adds to `skipped`: a lost Gap passes on its count. *)
LostCountOne(slot) == 1                             \* mutant
LostCount(slot) == slot.size

(* Where the Gap is told: at the place of the first record it stands for. *)
GapStart(s, lost) == IF skipped[s] = 0 THEN lost.seq ELSE gap_sequence[s]

(* One iteration of the overflow loop: the oldest record is dropped. *)
PushDrop ==
    LET s == target
        lost == Head(slots[s]) IN
    /\ op = "push" /\ Len(slots[s]) > Capacity
    /\ slots' = [slots EXCEPT ![s] = Tail(@)]
    /\ gap_sequence' = [gap_sequence EXCEPT ![s] = GapStart(s, lost)]
    /\ skipped' = [skipped EXCEPT ![s] = @ + LostCount(lost)]
    /\ UNCHANGED <<barriers, sequence, modeVars, lockVars,
                   total, seen, handed, met, bare>>
PushEndLate ==                                      \* mutant
    /\ op = "push" /\ Len(slots[target]) <= Capacity + 1
    /\ op' = "free"
    /\ UNCHANGED <<queueVars, barriers, sequence, modeVars, target, left,
                   history>>
PushEnd ==
    /\ op = "push" /\ Len(slots[target]) <= Capacity
    /\ op' = "free"
    /\ UNCHANGED <<queueVars, barriers, sequence, modeVars, target, left,
                   history>>

(***************************************************************************)
(* Queue::pop: the pending Gap if there is one, else the oldest event.      *)
(***************************************************************************)
PopGap(s) ==
    /\ skipped[s] > 0
    /\ seen' = [seen EXCEPT ![s] = @ + skipped[s]]
    /\ skipped' = [skipped EXCEPT ![s] = 0]
    /\ UNCHANGED <<slots, gap_sequence>>
PopRecord(s) ==
    /\ skipped[s] = 0 /\ slots[s] # <<>>
    /\ seen' = [seen EXCEPT ![s] = @ + Head(slots[s]).size]
    /\ slots' = [slots EXCEPT ![s] = Tail(@)]
    /\ UNCHANGED <<skipped, gap_sequence>>
Pop(s) == PopGap(s) \/ PopRecord(s)

(***************************************************************************)
(* Delivery::next_events: how many events the read takes.  An owned batch   *)
(* at the front that fits `max` is moved whole; otherwise the Gap and the   *)
(* queued events, up to `max`, whatever their records.                      *)
(***************************************************************************)
GapPending(s) == IF skipped[s] > 0 THEN 1 ELSE 0
BatchFits(s, max) ==
    /\ skipped[s] = 0 /\ slots[s] # <<>>
    /\ Head(slots[s]).form = "batch" /\ Head(slots[s]).rest + 1 <= max
TakeCountOff(s, max) == Min2(max, Len(slots[s]) + 1) \* mutant
TakeCount(s, max) ==
    IF BatchFits(s, max) THEN Head(slots[s]).rest + 1
                         ELSE Min2(max, Len(slots[s]) + GapPending(s))

(* One look at the queue; a count of 0 returns at once (empty or closed). *)
NextEvents(s, max) ==
    /\ op = "free"
    /\ native_started' = TRUE
    /\ IF TakeCount(s, max) > 0
       THEN op' = "read" /\ target' = s /\ left' = TakeCount(s, max)
       ELSE UNCHANGED lockVars
    /\ UNCHANGED <<queueVars, barriers, sequence, transport, closed, history>>
ReadPopUnguarded ==                                 \* mutant
    /\ op = "read"
    /\ Pop(target)
    /\ left' = left - 1
    /\ UNCHANGED <<barriers, sequence, modeVars, op, target,
                   total, handed, met, bare>>
ReadPop ==
    /\ op = "read" /\ left > 0
    /\ Pop(target)
    /\ left' = left - 1
    /\ UNCHANGED <<barriers, sequence, modeVars, op, target,
                   total, handed, met, bare>>
ReadEnd ==
    /\ op = "read" /\ left = 0
    /\ op' = "free"
    /\ UNCHANGED <<queueVars, barriers, sequence, modeVars, target, left,
                   history>>

(***************************************************************************)
(* EventReceiver::try_recv: the barrier if no queue has anything before it, *)
(* else the queue whose front has the least sequence number.                *)
(***************************************************************************)
BarrierFirstNoGap ==                                \* mutant
    /\ barriers # <<>>
    /\ \A s \in Streams : slots[s] # <<>> => Head(barriers).seq < Head(slots[s]).seq
BarrierFirst ==
    /\ barriers # <<>>
    /\ \A s \in Streams : NonEmpty(s) => Head(barriers).seq < HeadSeq(s)
LeastHead(s) ==
    /\ NonEmpty(s)
    /\ \A t \in Streams : NonEmpty(t) => HeadSeq(s) <= HeadSeq(t)
TryRecvBarrier ==
    /\ op = "free" /\ transport /\ BarrierFirst
    /\ barriers' = Tail(barriers)
    /\ handed' = Head(barriers).seq
    /\ met' = Head(barriers).mark
    /\ UNCHANGED <<queueVars, sequence, modeVars, lockVars,
                   total, seen, bare>>
TryRecvEvent(s) ==
    /\ op = "free" /\ transport /\ ~BarrierFirst /\ LeastHead(s)
    /\ Pop(s)
    /\ handed' = HeadSeq(s)
    /\ UNCHANGED <<barriers, sequence, modeVars, lockVars,
                   total, met, bare>>

(* Delivery::flush: a barrier for a transport, a commitment for a native. *)
Flush ==
    /\ op = "free"
    /\ \/ /\ ~transport
          /\ native_started' = TRUE /\ bare' = TRUE
          /\ UNCHANGED <<barriers, sequence>>
       \/ /\ transport /\ ~closed /\ sequence < MaxSequence
          /\ sequence' = sequence + 1
          /\ barriers' = Append(barriers, [seq |-> sequence + 1, mark |-> total])
          /\ UNCHANGED <<native_started, bare>>
    /\ UNCHANGED <<queueVars, transport, closed, lockVars,
                   total, seen, handed, met>>

(* Delivery::take_events: one receiver, and none once native reads began. *)
TakeEventsAfterRead ==                              \* mutant
    /\ op = "free"
    /\ ~transport
    /\ transport' = TRUE
    /\ UNCHANGED <<queueVars, barriers, sequence, native_started, closed,
                   lockVars, history>>
TakeEvents ==
    /\ op = "free"
    /\ ~native_started /\ ~transport
    /\ transport' = TRUE
    /\ UNCHANGED <<queueVars, barriers, sequence, native_started, closed,
                   lockVars, history>>

Close ==
    /\ op = "free" /\ ~closed
    /\ closed' = TRUE
    /\ UNCHANGED <<queueVars, barriers, sequence, native_started, transport,
                   lockVars, history>>

Next ==
    \/ \E s \in Streams :
         \/ \E n \in 1..MaxBatch : PushBatch(s, n)
         \/ \E form \in {"batch", "shared"} : PushEvent(s, form)
         \/ \E k \in GapSizes, form \in {"batch", "shared"} : PushGap(s, k, form)
         \/ \E max \in 1..MaxTake : NextEvents(s, max)
         \/ TryRecvEvent(s)
    \/ PushDrop \/ PushEnd
    \/ ReadPop \/ ReadEnd
    \/ TryRecvBarrier \/ Flush \/ TakeEvents \/ Close

Spec == Init /\ [][Next]_vars

-----------------------------------------------------------------------------
(* Every variable has its type. *)
TypeOK ==
    /\ slots \in [Streams -> Seq(Slot)]
    /\ skipped \in [Streams -> Nat]
    /\ gap_sequence \in [Streams -> Nat]
    /\ barriers \in Seq(Barrier)
    /\ sequence \in Nat
    /\ native_started \in BOOLEAN /\ transport \in BOOLEAN /\ closed \in BOOLEAN
    /\ op \in {"free", "push", "read"} /\ target \in Streams /\ left \in Nat
    /\ total \in [Streams -> Nat] /\ seen \in [Streams -> Nat]
    /\ handed \in Nat /\ met \in [Streams -> Nat] /\ bare \in BOOLEAN

(***************************************************************************)
(* Exact gap accounting ("each session/stream has its own bound and exact   *)
(* gap accounting"): what the consumer was handed or told it lost, plus     *)
(* the loss still to be told, is exactly what was published before the      *)
(* oldest event still queued, and the queue continues without a hole.       *)
(***************************************************************************)
Exact(s) ==
    /\ slots[s] = <<>> => seen[s] + skipped[s] = total[s]
    /\ slots[s] # <<>> =>
         /\ seen[s] + skipped[s] = slots[s][1].pos
         /\ slots[s][Len(slots[s])].pos + slots[s][Len(slots[s])].size = total[s]
    /\ \A i \in 1..Len(slots[s]) - 1 :
         slots[s][i].pos + slots[s][i].size = slots[s][i+1].pos
ExactGap == \A s \in Streams : Exact(s)

(***************************************************************************)
(* A stalled consumer costs bounded memory: outside the mutex no stream     *)
(* holds more than its capacity.                                            *)
(***************************************************************************)
WithinBound ==
    op # "push" => \A s \in Streams : Len(slots[s]) <= Capacity

(***************************************************************************)
(* A native read never finds fewer events than it decided to take: the      *)
(* `expect("queued record")` and `expect("batch")` of next_events hold.     *)
(***************************************************************************)
ReadNeverStarves ==
    op = "read" /\ left > 0 => NonEmpty(target)

(***************************************************************************)
(* The transport's merge keeps source order across streams, topics and      *)
(* barriers: whatever is still queued is later than all it was handed.      *)
(***************************************************************************)
MergedOrder ==
    /\ \A s \in Streams : NonEmpty(s) => HeadSeq(s) > handed
    /\ \A i \in 1..Len(barriers) : barriers[i].seq > handed

(***************************************************************************)
(* When the transport meets a flush barrier, everything published before    *)
(* the flush, on every stream, has been handed out or reported lost: the    *)
(* lifecycle signal sent after the acknowledgement overtakes nothing.       *)
(***************************************************************************)
BarrierCoversPublished == \A s \in Streams : seen[s] >= met[s]

(***************************************************************************)
(* A lifecycle signal skips the barrier only for an attachment that never   *)
(* becomes a transport: no EventReceiver is claimed later that still holds  *)
(* records the signal has overtaken.                                        *)
(***************************************************************************)
SignalOvertakesNothing == bare => ~transport
=============================================================================
