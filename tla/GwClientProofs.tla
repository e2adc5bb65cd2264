--------------------------- MODULE GwClientProofs ---------------------------
(***************************************************************************)
(* Proofs for the Python gateway client: frames are cut where the parent    *)
(* cut them, an answer on an open connection belongs to the request that    *)
(* waits for one, and a request reported as not sent never reached the      *)
(* parent, and no event that was read vanishes, for any number of streams,  *)
(* calls, events and connections and every bound of the queue.              *)
(*                                                                          *)
(* The last needs two facts about data.  The loop that makes room is a      *)
(* recursive function: RoundByRound shows that its equation has a solution. *)
(* What is queued is counted as a set of units (Held), which concatenation  *)
(* adds up (HeldJoined).  Both argue by a least counterexample (Least).     *)
(***************************************************************************)
EXTENDS GwClient, SequenceTheorems, FiniteSetTheorems, FunctionTheorems,
        NaturalsInduction, WellFoundedInduction, TLAPS

-----------------------------------------------------------------------------
\* The inductive invariant

\* Everything the parent wrote on this socket that no read has cut off yet.
Stream == rx \o wire

\* Frames that answer something; the others are events.
IsReply(f) == f.t # "event"

\* The call under way waits for the reply f.
Awaited(f) == \/ f.t \in {"ready", "not_ready"} /\ op.k = "hand"
              \/ f.t \in {"answer", "error"} /\ op.k = "rpc" /\ f.rid = op.rid

Shapes == /\ conn \in {"none", "open", "eof", "reset"}
          /\ rx \in Seq(Chunks) /\ wire \in Seq(Chunks)
          /\ half \in Frames \cup {NoFrame}

\* First and second chunks alternate, each second one after its own first one; the
\* frame the parent is in the middle of is the one the stream ends with.
Alternates ==
  /\ Stream # <<>> => Stream[1].part = 1
  /\ \A i \in 1..(Len(Stream) - 1) :
       /\ Stream[i].part = 1 => /\ Stream[i + 1].part = 2
                                /\ Stream[i + 1].frame = Stream[i].frame
       /\ Stream[i].part = 2 => Stream[i + 1].part = 1
  /\ half # NoFrame => /\ Stream # <<>>
                       /\ Stream[Len(Stream)] = [frame |-> half, part |-> 1]
  /\ conn = "open" /\ half = NoFrame /\ Stream # <<>> => Stream[Len(Stream)].part = 2

\* Request ids are used once.
Ids == /\ nextId \in Nat /\ res.rid \in Nat /\ res.rid < nextId
       /\ \A r \in inbox \cup reached : r \in 1..(nextId - 1)
       /\ op.k = "rpc" => op.rid \in 1..(nextId - 1)

\* On an open connection there is at most one reply, the awaited one, and its
\* request is neither unread nor still to be answered.
OneReply ==
  conn = "open" =>
    /\ \A i \in 1..Len(Stream) : IsReply(Stream[i].frame) =>
         /\ Awaited(Stream[i].frame)
         /\ op.k = "rpc" => op.rid \notin inbox \cup live
         /\ Stream[i].part = 1 =>
              \A j \in 1..Len(Stream) : j \notin {i, i + 1} => ~IsReply(Stream[j].frame)
    /\ \A r \in live : op.k = "rpc" /\ r = op.rid /\ r \notin inbox

WireInv == Shapes /\ Alternates /\ Ids /\ OneReply

-----------------------------------------------------------------------------
\* What a step does to the stream

StreamSame == rx' = rx /\ wire' = wire
StreamReset == rx' = <<>> /\ wire' = <<>> /\ half' = NoFrame /\ live' = {}

(* A read moves one chunk from the wire into rx; the stream of both together stays the same. *)
LEMMA FillEffect ==
  ASSUME Shapes, _fill
  PROVE  Stream' = Stream /\ Shapes'
  <1>1. rx' = rx \o wire /\ wire' = <<>> /\ conn' = conn /\ half' = half
    BY DEF _fill, FillKeeps
  <1>2. rx \in Seq(Chunks) /\ wire \in Seq(Chunks)
    BY DEF Shapes
  <1>3. rx \o wire \in Seq(Chunks)
    BY <1>2
  <1>4. (rx \o wire) \o <<>> = rx \o wire
    BY <1>3
  <1>5. <<>> \in Seq(Chunks)
    OBVIOUS
  <1> QED BY <1>1, <1>3, <1>4, <1>5 DEF Shapes, Stream

(* Cutting a frame off rx takes the first two chunks off the stream and moves the rest up. *)
LEMMA CutEffect ==
  ASSUME Shapes, Len(rx) >= 2, CutFrame
  PROVE  /\ Shapes'
         /\ Len(Stream) >= 2 /\ Len(Stream') = Len(Stream) - 2
         /\ \A i \in 1..Len(Stream') : Stream'[i] = Stream[i + 2]
         /\ Stream[1] = rx[1] /\ Stream[2] = rx[2]
  <1>1. rx' = SubSeq(rx, 3, Len(rx)) /\ wire' = wire /\ conn' = conn /\ half' = half
    BY DEF CutFrame
  <1>2. rx \in Seq(Chunks) /\ wire \in Seq(Chunks)
    BY DEF Shapes
  <1>3. /\ rx' \in Seq(Chunks) /\ Len(rx') = Len(rx) - 2
        /\ \A i \in 1..Len(rx') : rx'[i] = rx[i + 2]
    <2> DEFINE n == Len(rx)
    <2>1. n \in Nat /\ n \in Int /\ 3 \in Int /\ \A i \in 3..n : rx[i] \in Chunks
      BY <1>2
    <2> HIDE DEF n
    <2>2. /\ SubSeq(rx, 3, n) \in Seq(Chunks)
          /\ Len(SubSeq(rx, 3, n)) = IF 3 <= n THEN n - 3 + 1 ELSE 0
          /\ \A i \in 1..n - 3 + 1 : SubSeq(rx, 3, n)[i] = rx[3 + i - 1]
      BY <1>2, <2>1, SubSeqProperties
    <2>3. Len(rx) = n /\ n >= 2
      BY DEF n
    <2> QED BY <1>1, <2>1, <2>2, <2>3
  <1>4. /\ Len(Stream) = Len(rx) + Len(wire)
        /\ \A i \in 1..Len(rx) : Stream[i] = rx[i]
        /\ \A i \in (Len(rx) + 1)..Len(Stream) : Stream[i] = wire[i - Len(rx)]
    BY <1>2 DEF Stream
  <1>5. /\ Len(Stream') = Len(rx') + Len(wire')
        /\ \A i \in 1..Len(rx') : Stream'[i] = rx'[i]
        /\ \A i \in (Len(rx') + 1)..Len(Stream') : Stream'[i] = wire'[i - Len(rx')]
    BY <1>1, <1>2, <1>3 DEF Stream
  <1>6. Len(rx) \in Nat /\ Len(wire) \in Nat /\ Len(rx') \in Nat
    BY <1>2, <1>3
  <1>7. ASSUME NEW i \in 1..Len(Stream') PROVE Stream'[i] = Stream[i + 2]
    <2>1. CASE i \in 1..Len(rx')
      BY <2>1, <1>3, <1>4, <1>5, <1>6
    <2>2. CASE i \in (Len(rx') + 1)..Len(Stream')
      BY <2>2, <1>1, <1>3, <1>4, <1>5, <1>6
    <2> QED BY <2>1, <2>2, <1>5, <1>6
  <1>8. Shapes'
    BY <1>1, <1>3 DEF Shapes
  <1> QED BY <1>1, <1>3, <1>4, <1>5, <1>6, <1>7, <1>8

(* A chunk the parent writes is added at the end of the stream. *)
LEMMA PutEffect ==
  ASSUME Shapes, NEW c \in Chunks, wire' = Append(wire, c), rx' = rx
  PROVE  /\ wire' \in Seq(Chunks) /\ rx' \in Seq(Chunks)
         /\ Len(Stream) \in Nat /\ Len(Stream') = Len(Stream) + 1
         /\ \A i \in 1..Len(Stream) : Stream'[i] = Stream[i]
         /\ Stream'[Len(Stream')] = c
  <1>1. rx \in Seq(Chunks) /\ wire \in Seq(Chunks)
    BY DEF Shapes
  <1>2. /\ wire' \in Seq(Chunks) /\ Len(wire') = Len(wire) + 1
        /\ \A i \in 1..Len(wire) : wire'[i] = wire[i]
        /\ wire'[Len(wire) + 1] = c
    BY <1>1
  <1>3. /\ Len(Stream) = Len(rx) + Len(wire)
        /\ \A i \in 1..Len(rx) : Stream[i] = rx[i]
        /\ \A i \in (Len(rx) + 1)..Len(Stream) : Stream[i] = wire[i - Len(rx)]
    BY <1>1 DEF Stream
  <1>4. /\ Len(Stream') = Len(rx') + Len(wire')
        /\ \A i \in 1..Len(rx') : Stream'[i] = rx'[i]
        /\ \A i \in (Len(rx') + 1)..Len(Stream') : Stream'[i] = wire'[i - Len(rx')]
    BY <1>1, <1>2 DEF Stream
  <1>5. Len(rx) \in Nat /\ Len(wire) \in Nat
    BY <1>1
  <1>6. ASSUME NEW i \in 1..Len(Stream) PROVE Stream'[i] = Stream[i]
    <2>1. CASE i \in 1..Len(rx)
      BY <2>1, <1>3, <1>4
    <2>2. CASE i \in (Len(rx) + 1)..Len(Stream)
      BY <2>2, <1>2, <1>3, <1>4, <1>5
    <2> QED BY <2>1, <2>2, <1>3, <1>5
  <1>7. Stream'[Len(Stream')] = wire'[Len(wire) + 1]
    BY <1>2, <1>4, <1>5
  <1> QED BY <1>1, <1>2, <1>3, <1>4, <1>5, <1>6, <1>7

(* A new or closed socket has an empty stream. *)
LEMMA ResetEffect ==
  ASSUME StreamReset
  PROVE  /\ Stream' = <<>> /\ Len(Stream') = 0
         /\ rx' \in Seq(Chunks) /\ wire' \in Seq(Chunks) /\ half' \in Frames \cup {NoFrame}
  <1>1. rx' = <<>> /\ wire' = <<>> /\ half' = NoFrame
    BY DEF StreamReset
  <1>2. <<>> \o <<>> = <<>>
    OBVIOUS
  <1> QED BY <1>1, <1>2 DEF Stream

-----------------------------------------------------------------------------
\* Every step does one of seven things to the stream

Still   == StreamSame /\ half' = half /\ conn' = conn
Dropped == StreamReset /\ conn' \in {"none", "open"}
Cut     == Len(rx) >= 2 /\ CutFrame
Ended   == StreamSame /\ half' = NoFrame /\ conn' \in {"none", "eof", "reset"}
Begun(f) == /\ conn = "open" /\ half = NoFrame /\ conn' = conn
            /\ wire' = Append(wire, [frame |-> f, part |-> 1]) /\ rx' = rx /\ half' = f

(* A new dial starts from an empty stream. *)
LEMMA DialDrops == ASSUME _dial PROVE Dropped
  BY DEF _dial, Dropped, StreamReset

(* Closing the socket drops the stream. *)
LEMMA CloseDrops == ASSUME _close_sock PROVE Dropped
  BY DEF _close_sock, Dropped, StreamReset

(* The greeting begins a frame. *)
LEMMA GreetBegins ==
  ASSUME ParentGreets PROVE \E f \in Frames : Begun(f)
  <1>1. PICK t \in {"ready", "not_ready"} : Emit([t |-> t])
    BY DEF ParentGreets
  <1>2. [t |-> t] \in Frames
    BY DEF Frames
  <1> QED BY <1>1, <1>2 DEF Emit, Begun

(* A streamed event begins a frame. *)
LEMMA EventBegins ==
  ASSUME NEW s \in Streams, ParentEvent(s) PROVE \E f \in Frames : Begun(f)
  <1>1. Emit([t |-> "event", s |-> s])
    BY DEF ParentEvent
  <1>2. [t |-> "event", s |-> s] \in Frames
    BY DEF Frames
  <1> QED BY <1>1, <1>2 DEF Emit, Begun

(* An answer begins a frame that is a reply with the number of its request. *)
LEMMA AnswerBegins ==
  ASSUME NEW rid \in 1..MaxCalls, ParentAnswers(rid)
  PROVE  \E f \in Frames : /\ Begun(f) /\ f.t \in {"answer", "error"} /\ f.rid = rid
                           /\ IsReply(f)
  <1>1. PICK f \in {[t |-> "error", rid |-> rid]} \cup
              {[t |-> "answer", rid |-> rid, body |-> BodyFor(kind)] :
                 kind \in {k \in Kinds : op.k = "rpc" /\ op.kind = k}} : Emit(f)
    BY DEF ParentAnswers
  <1>2. CASE f = [t |-> "error", rid |-> rid]
    <2>1. f \in Frames /\ f.t = "error" /\ f.rid = rid
      BY <1>2 DEF Frames
    <2> QED BY <1>1, <2>1 DEF Emit, Begun, IsReply
  <1>3. CASE \E kind \in Kinds : f = [t |-> "answer", rid |-> rid, body |-> BodyFor(kind)]
    <2>1. f \in Frames /\ f.t = "answer" /\ f.rid = rid
      BY <1>3 DEF Frames
    <2> QED BY <1>1, <2>1 DEF Emit, Begun, IsReply
  <1> QED BY <1>1, <1>2, <1>3

(* What any step does to the stream: nothing, a drop, a read, a cut, an end, a flush, or a new frame. *)
LEMMA WireSteps ==
  ASSUME Next, Shapes
  PROVE  \/ Still \/ Dropped \/ _fill \/ Cut \/ Ended \/ ParentFlushes
         \/ \E f \in Frames : Begun(f)
  <1> USE DEF wireVars
  <1>1. CASE connect \/ NotConnected \/ _poll_timeout
    BY <1>1 DEF connect, NotConnected, _poll_timeout, Still, StreamSame
  <1>2. CASE disconnect
    BY <1>2, CloseDrops DEF disconnect
  <1>3. ASSUME NEW kind \in Kinds, _write_frame(kind) PROVE Still \/ Dropped
    BY <1>3, CloseDrops DEF _write_frame, Still, StreamSame
  <1>4. ASSUME NEW s \in Streams, _poll_pending(s) PROVE Still
    BY <1>4 DEF _poll_pending, Still, StreamSame
  <1>5. ASSUME NEW s \in Streams, NEW timed \in BOOLEAN, _poll_filtered(s, timed) PROVE Still
    BY <1>5 DEF _poll_filtered, Still, StreamSame
  <1>6. CASE _dial_with_attach
    BY <1>6, DialDrops DEF _dial_with_attach, Still, StreamSame
  <1>7. CASE resolve_dial_failure \/ wait_for_parent_socket \/ Deadline
    BY <1>7 DEF resolve_dial_failure, wait_for_parent_socket, Deadline, Still, StreamSame
  <1>8. CASE _require_parent_flock
    BY <1>8, CloseDrops DEF _require_parent_flock, Still, StreamSame
  <1>9. CASE _handshake_write
    BY <1>9, CloseDrops DEF _handshake_write, Still, StreamSame
  <1>10. CASE _handshake
    BY <1>10, CloseDrops DEF _handshake, FrameReady, Cut
  <1>11. CASE _handshake_timeout \/ _rpc_timeout
    BY <1>11, CloseDrops DEF _handshake_timeout, _rpc_timeout
  <1>12. CASE _rpc_unlocked \/ _poll_read
    BY <1>12 DEF _rpc_unlocked, _poll_read, FrameReady, Cut
  <1>13. CASE FatalRead
    BY <1>13, CloseDrops DEF FatalRead, Still, StreamSame
  <1>14. CASE ParentStarts \/ ParentBinds
    BY <1>14 DEF ParentStarts, ParentBinds, Still, StreamSame
  <1>15. CASE ParentDies
    BY <1>15 DEF ParentDies, Ended, StreamSame, Shapes
  <1>16. ASSUME NEW rid \in 1..MaxCalls, ParentTakes(rid) PROVE Still
    BY <1>16 DEF ParentTakes, Still, StreamSame
  <1> QED BY <1>1, <1>2, <1>3, <1>4, <1>5, <1>6, <1>7, <1>8, <1>9, <1>10, <1>11, <1>12,
             <1>13, <1>14, <1>15, <1>16, GreetBegins, EventBegins, AnswerBegins
          DEF Next, Calls, CallSteps, ParentSteps

(* A half of a frame is a chunk. *)
LEMMA ChunkTyped ==
  ASSUME NEW f \in Frames, NEW p \in {1, 2} PROVE [frame |-> f, part |-> p] \in Chunks
  BY DEF Chunks

(* Every step keeps the types of wire, buffer and half-written frame. *)
LEMMA ShapesStep ==
  ASSUME Next, Shapes PROVE Shapes'
  <1>1. CASE Still \/ Ended
    BY <1>1 DEF Still, Ended, StreamSame, Shapes
  <1>2. CASE Dropped
    BY <1>2, ResetEffect DEF Dropped, Shapes
  <1>3. CASE _fill
    BY <1>3, FillEffect
  <1>4. CASE Cut
    BY <1>4, CutEffect DEF Cut
  <1>5. ASSUME NEW f \in Frames, Begun(f) PROVE Shapes'
    <2>1. [frame |-> f, part |-> 1] \in Chunks
      BY ChunkTyped
    <2>2. wire' \in Seq(Chunks) /\ rx' \in Seq(Chunks)
      BY <1>5, <2>1, PutEffect DEF Begun
    <2> QED BY <1>5, <2>2 DEF Begun, Shapes
  <1>6. CASE ParentFlushes
    <2>1. half \in Frames /\ [frame |-> half, part |-> 2] \in Chunks
      BY <1>6, ChunkTyped DEF ParentFlushes, Shapes
    <2>2. wire' \in Seq(Chunks) /\ rx' \in Seq(Chunks)
      BY <1>6, <2>1, PutEffect DEF ParentFlushes
    <2> QED BY <1>6, <2>2 DEF ParentFlushes, Shapes
  <1> QED BY <1>1, <1>2, <1>3, <1>4, <1>5, <1>6, WireSteps

\* Emptiness in terms of the length, before and after a step.
LEMMA EmptyStream ==
  ASSUME Shapes, Shapes'
  PROVE  /\ Len(Stream) \in Nat /\ (Stream # <<>> <=> Len(Stream) > 0)
         /\ Len(Stream') \in Nat /\ (Stream' # <<>> <=> Len(Stream') > 0)
  BY DEF Shapes, Stream

(* Every step keeps the halves of frames in turn on the stream. *)
LEMMA AlternatesStep ==
  ASSUME Next, Shapes, Alternates PROVE Alternates'
  <1>0. Shapes'
    BY ShapesStep
  <1>1. CASE Still
    <2>1. Stream' = Stream
      BY <1>1 DEF Still, StreamSame, Stream
    <2> QED BY <1>1, <2>1 DEF Still, Alternates
  <1>2. CASE Ended
    <2>1. Stream' = Stream
      BY <1>2 DEF Ended, StreamSame, Stream
    <2> QED BY <1>2, <2>1 DEF Ended, Alternates
  <1>3. CASE Dropped
    <2>1. Stream' = <<>> /\ Len(Stream') = 0 /\ half' = NoFrame
      BY <1>3, ResetEffect DEF Dropped, StreamReset
    <2> QED BY <2>1 DEF Alternates
  <1>4. CASE _fill
    <2>1. Stream' = Stream /\ half' = half /\ conn' = conn
      BY <1>4, FillEffect DEF _fill
    <2> QED BY <2>1 DEF Alternates
  <1>5. CASE Cut
    <2>1. /\ Len(Stream) >= 2 /\ Len(Stream') = Len(Stream) - 2
          /\ \A i \in 1..Len(Stream') : Stream'[i] = Stream[i + 2]
          /\ half' = half /\ conn' = conn
      BY <1>5, CutEffect DEF Cut, CutFrame
    <2>2. Len(Stream) \in Nat
      BY DEF Shapes, Stream
    <2>3. Stream' # <<>> => Stream'[1].part = 1
      BY <2>1, <2>2, <1>0, EmptyStream DEF Alternates
    <2>4. ASSUME NEW i \in 1..(Len(Stream') - 1)
          PROVE  /\ Stream'[i].part = 1 => /\ Stream'[i + 1].part = 2
                                           /\ Stream'[i + 1].frame = Stream'[i].frame
                 /\ Stream'[i].part = 2 => Stream'[i + 1].part = 1
      <3>1. i \in 1..Len(Stream') /\ i + 1 \in 1..Len(Stream')
        BY <2>1, <2>2
      <3>2. Stream'[i] = Stream[i + 2] /\ Stream'[i + 1] = Stream[(i + 2) + 1]
        BY <2>1, <3>1
      <3>3. i + 2 \in 1..(Len(Stream) - 1)
        BY <2>1, <2>2
      <3> QED BY <3>2, <3>3 DEF Alternates
    <2>5. half' # NoFrame => /\ Stream' # <<>>
                             /\ Stream'[Len(Stream')] = [frame |-> half', part |-> 1]
      BY <2>1, <2>2, <1>0, EmptyStream DEF Alternates
    <2>6. conn' = "open" /\ half' = NoFrame /\ Stream' # <<>>
          => Stream'[Len(Stream')].part = 2
      BY <2>1, <2>2, <1>0, EmptyStream DEF Alternates
    <2> QED BY <2>3, <2>4, <2>5, <2>6 DEF Alternates
  <1>6. ASSUME NEW f \in Frames, Begun(f) PROVE Alternates'
    <2>1. [frame |-> f, part |-> 1] \in Chunks
      BY ChunkTyped
    <2>2. /\ Len(Stream) \in Nat /\ Len(Stream') = Len(Stream) + 1
          /\ \A i \in 1..Len(Stream) : Stream'[i] = Stream[i]
          /\ Stream'[Len(Stream')] = [frame |-> f, part |-> 1]
      BY <1>6, <2>1, PutEffect DEF Begun
    <2>3. conn = "open" /\ half = NoFrame /\ half' = f
      BY <1>6 DEF Begun
    <2>4. Stream # <<>> => Stream[Len(Stream)].part = 2
      BY <2>3 DEF Alternates
    <2>5. Stream' # <<>> => Stream'[1].part = 1
      BY <2>2, <1>0, EmptyStream DEF Alternates
    <2>6. ASSUME NEW i \in 1..(Len(Stream') - 1)
          PROVE  /\ Stream'[i].part = 1 => /\ Stream'[i + 1].part = 2
                                           /\ Stream'[i + 1].frame = Stream'[i].frame
                 /\ Stream'[i].part = 2 => Stream'[i + 1].part = 1
      <3>1. CASE i = Len(Stream)
        <4>1. Stream'[i] = Stream[i] /\ Stream[i].part = 2 /\ Stream'[i + 1].part = 1
          BY <3>1, <2>2, <2>4, <1>0, EmptyStream
        <4> QED BY <4>1
      <3>2. CASE i \in 1..(Len(Stream) - 1)
        BY <3>2, <2>2 DEF Alternates
      <3> QED BY <3>1, <3>2, <2>2
    <2>7. Stream' # <<>>
      BY <2>2, <1>0, EmptyStream
    <2>8. f # NoFrame
      BY DEF Frames, NoFrame
    <2> QED BY <2>2, <2>3, <2>5, <2>6, <2>7, <2>8 DEF Alternates
  <1>7. CASE ParentFlushes
    <2>1. half \in Frames /\ [frame |-> half, part |-> 2] \in Chunks
      BY <1>7, ChunkTyped DEF ParentFlushes, Shapes
    <2>2. /\ Len(Stream) \in Nat /\ Len(Stream') = Len(Stream) + 1
          /\ \A i \in 1..Len(Stream) : Stream'[i] = Stream[i]
          /\ Stream'[Len(Stream')] = [frame |-> half, part |-> 2]
      BY <1>7, <2>1, PutEffect DEF ParentFlushes
    <2>3. half' = NoFrame
      BY <1>7 DEF ParentFlushes
    <2>4. Stream # <<>> /\ Stream[Len(Stream)] = [frame |-> half, part |-> 1]
      BY <1>7 DEF Alternates, ParentFlushes
    <2> QED BY <2>2, <2>3, <2>4, <1>0, EmptyStream DEF Alternates
  <1> QED BY <1>1, <1>2, <1>3, <1>4, <1>5, <1>6, <1>7, WireSteps

-----------------------------------------------------------------------------
\* Request ids

(* A fresh id is above all that were used, and only a write uses one. *)
LEMMA IdsStep ==
  ASSUME Next, Ids PROVE Ids'
  <1> DEFINE Kept == UNCHANGED <<nextId, inbox, reached>>
  <1>0. Ids /\ GwAssumption
    BY GwAssumption
  <1>1. ASSUME Kept, res' = res, op'.k = "rpc" => op' = op PROVE Ids'
    BY <1>1 DEF Ids
  <1>2. ASSUME Kept, NEW code, NEW rid \in 0..(nextId - 1), Return(code, rid) PROVE Ids'
    <2>1. res'.rid = rid /\ op'.k = "idle"
      BY <1>2 DEF Return, Idle
    <2> QED BY <1>2, <2>1 DEF Ids
  <1>3. 0 \in 0..(nextId - 1) /\ (op.k = "rpc" => op.rid \in 0..(nextId - 1))
    BY DEF Ids
  <1>4. ASSUME NEW step \in ConnectSteps, GoTo(step)
        PROVE  res' = res /\ (op'.k = "rpc" => op' = op)
    BY <1>4 DEF GoTo, ConnectSteps
  <1>5. CASE connect
    <2>1. op'.k = "dial" /\ res' = res /\ Kept
      BY <1>5 DEF connect
    <2> QED BY <2>1, <1>1
  <1>6. CASE disconnect
    <2>1. op' = op /\ Kept /\ res'.rid = 0
      BY <1>6 DEF disconnect
    <2> QED BY <2>1, <1>3 DEF Ids
  <1>7. CASE NotConnected \/ _poll_timeout
    BY <1>7, <1>2, <1>3 DEF NotConnected, _poll_timeout
  <1>8. ASSUME NEW kind \in Kinds, _write_frame(kind) PROVE Ids'
    <2>1. nextId' = nextId + 1 /\ reached' = reached
      BY <1>8 DEF _write_frame
    <2>2. CASE inbox' = inbox \cup {nextId} /\ res' = res
               /\ op' = [k |-> "rpc", rid |-> nextId, kind |-> kind]
      BY <2>1, <2>2 DEF Ids
    <2>3. CASE inbox' = inbox /\ Return("not_sent", nextId)
      <3>1. res'.rid = nextId /\ op'.k = "idle"
        BY <2>3 DEF Return, Idle
      <3> QED BY <2>1, <2>3, <3>1 DEF Ids
    <2> QED BY <1>8, <2>2, <2>3 DEF _write_frame
  <1>9. ASSUME NEW s \in Streams, _poll_pending(s) PROVE Ids'
    <2>1. op' = op /\ Kept /\ res'.rid = 0
      BY <1>9 DEF _poll_pending
    <2> QED BY <2>1, <1>3 DEF Ids
  <1>10. ASSUME NEW s \in Streams, NEW timed \in BOOLEAN, _poll_filtered(s, timed) PROVE Ids'
    <2>1. op'.k = "poll" /\ res' = res /\ Kept
      BY <1>10 DEF _poll_filtered
    <2> QED BY <2>1, <1>1
  <1>11. CASE _dial_with_attach
    <2>1. Kept
      BY <1>11 DEF _dial_with_attach
    <2>2. \/ \E step \in ConnectSteps : GoTo(step)
          \/ \E code : Return(code, 0)
      BY <1>11 DEF _dial_with_attach, ConnectSteps
    <2> QED BY <2>1, <2>2, <1>1, <1>2, <1>3, <1>4
  <1>12. CASE resolve_dial_failure \/ wait_for_parent_socket
    <2>1. Kept /\ \E step \in ConnectSteps : GoTo(step)
      BY <1>12 DEF resolve_dial_failure, wait_for_parent_socket, ConnectSteps
    <2> QED BY <2>1, <1>1, <1>4
  <1>13. CASE _require_parent_flock
    <2>1. Kept /\ (GoTo("write") \/ Return("parent_unattested", 0))
      BY <1>13 DEF _require_parent_flock
    <2> QED BY <2>1, <1>1, <1>2, <1>3, <1>4 DEF ConnectSteps
  <1>14. CASE _handshake_write
    <2>1. Kept /\ (GoTo("hand") \/ Return("not_sent", 0))
      BY <1>14 DEF _handshake_write
    <2> QED BY <2>1, <1>1, <1>2, <1>3, <1>4 DEF ConnectSteps
  <1>15. CASE _handshake
    <2>1. Kept /\ (GoTo("hdial") \/ Return("ok", 0) \/ Return("not_ready", 0))
      BY <1>15 DEF _handshake
    <2> QED BY <2>1, <1>1, <1>2, <1>3, <1>4 DEF ConnectSteps
  <1>16. CASE _handshake_timeout
    <2>1. Kept /\ (GoTo("hdial") \/ Return("timeout", 0))
      BY <1>16 DEF _handshake_timeout
    <2> QED BY <2>1, <1>1, <1>2, <1>3, <1>4 DEF ConnectSteps
  <1>17. CASE _fill \/ Deadline \/ ParentStarts \/ ParentBinds \/ ParentFlushes
    BY <1>17, <1>1 DEF _fill, Deadline, ParentStarts, ParentBinds, ParentFlushes
  <1>18. CASE _rpc_unlocked
    <2>1. Kept /\ op.k = "rpc" /\ (UNCHANGED <<op, res>> \/ \E code : Return(code, op.rid))
      BY <1>18 DEF _rpc_unlocked
    <2> QED BY <2>1, <1>1, <1>2, <1>3
  <1>19. CASE _rpc_timeout
    BY <1>19, <1>2, <1>3 DEF _rpc_timeout
  <1>20. CASE _poll_read
    <2>1. Kept /\ (UNCHANGED <<op, res>> \/ \E code : Return(code, 0))
      BY <1>20 DEF _poll_read
    <2> QED BY <2>1, <1>1, <1>2, <1>3
  <1>21. CASE FatalRead
    BY <1>21, <1>2, <1>3 DEF FatalRead
  <1>22. CASE ParentDies
    <2>1. inbox' = {} /\ UNCHANGED <<nextId, reached, res, op>>
      BY <1>22 DEF ParentDies
    <2> QED BY <2>1 DEF Ids
  <1>23. CASE ParentGreets
    BY <1>23, <1>1 DEF ParentGreets, Emit
  <1>24. ASSUME NEW s \in Streams, ParentEvent(s) PROVE Ids'
    BY <1>24, <1>1 DEF ParentEvent, Emit
  <1>25. ASSUME NEW rid \in 1..MaxCalls, ParentTakes(rid) PROVE Ids'
    <2>1. /\ rid \in inbox /\ inbox' = inbox \ {rid} /\ reached' = reached \cup {rid}
          /\ UNCHANGED <<nextId, res, op>>
      BY <1>25 DEF ParentTakes
    <2> QED BY <2>1 DEF Ids
  <1>26. ASSUME NEW rid \in 1..MaxCalls, ParentAnswers(rid) PROVE Ids'
    BY <1>26, <1>1 DEF ParentAnswers, Emit
  <1> QED BY <1>5, <1>6, <1>7, <1>8, <1>9, <1>10, <1>11, <1>12, <1>13, <1>14, <1>15, <1>16,
             <1>17, <1>18, <1>19, <1>20, <1>21, <1>22, <1>23, <1>24, <1>25, <1>26
          DEF Next, Calls, CallSteps, ParentSteps

\* Only two calls end in not_sent: a handshake, without a request id, and a request
\* that was given a fresh id and never written.
LEMMA NotSentStep ==
  ASSUME Next, Ids, NotSentNeverReached PROVE NotSentNeverReached'
  <1> DEFINE Fewer == inbox' \cup reached' \subseteq inbox \cup reached
             Other == res' = res \/ res'.code # "not_sent"
  <1>1. ASSUME Fewer, Other PROVE NotSentNeverReached'
    BY <1>1 DEF NotSentNeverReached
  <1>2. ASSUME NEW code, NEW rid, Return(code, rid)
        PROVE  res'.code = code /\ res'.rid = rid
    BY <1>2 DEF Return
  <1>3. CASE _handshake_write
    <2>1. UNCHANGED <<inbox, reached>> /\ (res' = res \/ res'.rid = 0)
      BY <1>3, <1>2 DEF _handshake_write, GoTo
    <2>2. 0 \notin inbox \cup reached
      BY DEF Ids
    <2> QED BY <2>1, <2>2 DEF NotSentNeverReached
  <1>4. ASSUME NEW kind \in Kinds, _write_frame(kind) PROVE NotSentNeverReached'
    <2>1. reached' = reached
      BY <1>4 DEF _write_frame
    <2>2. CASE inbox' = inbox \cup {nextId} /\ res' = res
      BY <2>1, <2>2 DEF Ids, NotSentNeverReached
    <2>3. CASE inbox' = inbox /\ res'.rid = nextId
      BY <2>1, <2>3 DEF Ids, NotSentNeverReached
    <2> QED BY <1>2, <1>4, <2>2, <2>3 DEF _write_frame
  <1>5. CASE connect \/ disconnect
    BY <1>5, <1>1 DEF connect, disconnect
  <1>6. CASE NotConnected \/ _poll_timeout
    BY <1>6, <1>1, <1>2 DEF NotConnected, _poll_timeout
  <1>7. ASSUME NEW s \in Streams, _poll_pending(s) PROVE NotSentNeverReached'
    BY <1>7, <1>1 DEF _poll_pending
  <1>8. ASSUME NEW s \in Streams, NEW timed \in BOOLEAN, _poll_filtered(s, timed)
        PROVE  NotSentNeverReached'
    BY <1>8, <1>1 DEF _poll_filtered
  <1>9. CASE _dial_with_attach
    <2>1. UNCHANGED <<inbox, reached>>
      BY <1>9 DEF _dial_with_attach
    <2>2. \/ \E step \in ConnectSteps : GoTo(step)
          \/ \E code \in {"listen_path_mismatch", "attach_error", "os_error"} : Return(code, 0)
      BY <1>9 DEF _dial_with_attach, ConnectSteps
    <2>3. CASE \E step \in ConnectSteps : GoTo(step)
      BY <2>1, <2>3, <1>1 DEF GoTo
    <2>4. CASE \E code \in {"listen_path_mismatch", "attach_error", "os_error"} : Return(code, 0)
      BY <2>1, <2>4, <1>1, <1>2
    <2> QED BY <2>2, <2>3, <2>4
  <1>10. CASE resolve_dial_failure \/ wait_for_parent_socket
    BY <1>10, <1>1 DEF resolve_dial_failure, wait_for_parent_socket, GoTo
  <1>11. CASE _require_parent_flock
    BY <1>11, <1>1, <1>2 DEF _require_parent_flock, GoTo
  <1>12. CASE _handshake
    BY <1>12, <1>1, <1>2 DEF _handshake, GoTo
  <1>13. CASE _handshake_timeout
    BY <1>13, <1>1, <1>2 DEF _handshake_timeout, GoTo
  <1>14. CASE _fill \/ Deadline \/ ParentStarts \/ ParentBinds \/ ParentFlushes
    BY <1>14, <1>1 DEF _fill, Deadline, ParentStarts, ParentBinds, ParentFlushes
  <1>15. CASE _rpc_unlocked
    <2>1. UNCHANGED <<inbox, reached>> /\ (res' = res \/ Return(Outcome(FrameRead), op.rid))
      BY <1>15 DEF _rpc_unlocked
    <2>2. Outcome(FrameRead) \in {"refused", "ok", "protocol"}
      BY DEF Outcome
    <2> QED BY <1>1, <1>2, <2>1, <2>2
  <1>16. CASE _rpc_timeout
    BY <1>16, <1>1, <1>2 DEF _rpc_timeout
  <1>17. CASE _poll_read
    BY <1>17, <1>1, <1>2 DEF _poll_read
  <1>18. CASE FatalRead
    BY <1>18, <1>1, <1>2 DEF FatalRead
  <1>19. CASE ParentDies
    BY <1>19, <1>1 DEF ParentDies
  <1>20. CASE ParentGreets
    BY <1>20, <1>1 DEF ParentGreets, Emit
  <1>21. ASSUME NEW s \in Streams, ParentEvent(s) PROVE NotSentNeverReached'
    BY <1>21, <1>1 DEF ParentEvent, Emit
  <1>22. ASSUME NEW rid \in 1..MaxCalls, ParentTakes(rid) PROVE NotSentNeverReached'
    BY <1>22, <1>1 DEF ParentTakes
  <1>23. ASSUME NEW rid \in 1..MaxCalls, ParentAnswers(rid) PROVE NotSentNeverReached'
    BY <1>23, <1>1 DEF ParentAnswers, Emit
  <1> QED BY <1>3, <1>4, <1>5, <1>6, <1>7, <1>8, <1>9, <1>10, <1>11, <1>12, <1>13, <1>14,
             <1>15, <1>16, <1>17, <1>18, <1>19, <1>20, <1>21, <1>22, <1>23
          DEF Next, Calls, CallSteps, ParentSteps

-----------------------------------------------------------------------------
\* At most one reply

\* A frame is cut where the parent cut it.
LEMMA AlignedCut ==
  ASSUME Shapes, Alternates, Len(rx) >= 2
  PROVE  Aligned
  <1>1. rx \in Seq(Chunks) /\ wire \in Seq(Chunks)
    BY DEF Shapes
  <1>2. /\ Len(Stream) \in Nat /\ Len(Stream) >= 2 /\ Stream # <<>>
        /\ Stream[1] = rx[1] /\ Stream[2] = rx[2]
    BY <1>1 DEF Stream
  <1>3. Stream[1].part = 1 /\ Stream[1 + 1].part = 2 /\ Stream[1 + 1].frame = Stream[1].frame
    BY <1>2 DEF Alternates
  <1> QED BY <1>2, <1>3 DEF Aligned

\* With no reply in the stream and nothing to be answered, the next call starts clean.
Clean == /\ \A i \in 1..Len(Stream) : ~IsReply(Stream[i].frame)
         /\ live = {}

(* Outside the handshake and an RPC an open stream holds no reply. *)
LEMMA CleanUnlessAwaited ==
  ASSUME OneReply, conn = "open", op.k \notin {"hand", "rpc"} PROVE Clean
  BY DEF OneReply, Awaited, Clean

(* A stream without replies satisfies OneReply. *)
LEMMA CleanStep ==
  ASSUME conn' = "open" => Clean' PROVE OneReply'
  BY DEF OneReply, Clean

(* A dropped stream holds no reply. *)
LEMMA DroppedIsClean ==
  ASSUME Dropped PROVE OneReply'
  <1>1. Len(Stream') = 0 /\ live' = {}
    BY ResetEffect DEF Dropped, StreamReset
  <1> QED BY <1>1, CleanStep DEF Clean

(* A step that touches neither stream nor connection keeps OneReply outside handshake and RPC. *)
LEMMA QuietStep ==
  ASSUME OneReply, op.k \notin {"hand", "rpc"}, StreamSame, conn' = conn, live' = live
  PROVE  OneReply'
  <1>1. conn' = "open" => Clean'
    BY CleanUnlessAwaited DEF Clean, Stream, StreamSame
  <1> QED BY <1>1, CleanStep

\* Reading the awaited reply leaves nothing behind that another call could meet.
LEMMA ReplyIsLast ==
  ASSUME Shapes, Alternates, OneReply, Cut, IsReply(FrameRead), conn = "open"
  PROVE  (\A i \in 1..Len(Stream') : ~IsReply(Stream'[i].frame)) /\ live = {}
  <1>1. /\ Len(Stream) >= 2 /\ Len(Stream') = Len(Stream) - 2
        /\ \A i \in 1..Len(Stream') : Stream'[i] = Stream[i + 2]
        /\ Stream[1] = rx[1] /\ Stream[2] = rx[2]
    BY CutEffect DEF Cut
  <1>2. Len(Stream) \in Nat
    BY DEF Shapes, Stream
  <1>3. FrameRead = Stream[1].frame /\ Stream[1].part = 1
    BY <1>1, AlignedCut DEF FrameRead, Aligned, Cut
  <1>4. \A j \in 1..Len(Stream) : j \notin {1, 1 + 1} => ~IsReply(Stream[j].frame)
    BY <1>1, <1>2, <1>3 DEF OneReply
  <1>5. \A i \in 1..Len(Stream') : ~IsReply(Stream'[i].frame)
    BY <1>1, <1>2, <1>4
  <1>6. live = {}
    BY <1>1, <1>2, <1>3 DEF OneReply
  <1> QED BY <1>5, <1>6

\* Reading an event moves the rest forward.
LEMMA EventRead ==
  ASSUME Shapes, Alternates, OneReply, Cut, UNCHANGED <<conn, op, live, inbox>>
  PROVE  OneReply'
  <1>1. /\ Len(Stream) >= 2 /\ Len(Stream') = Len(Stream) - 2
        /\ \A i \in 1..Len(Stream') : Stream'[i] = Stream[i + 2]
    BY CutEffect DEF Cut
  <1>2. Len(Stream) \in Nat
    BY DEF Shapes, Stream
  <1>3. SUFFICES ASSUME conn = "open"
                 PROVE  \A i \in 1..Len(Stream') : IsReply(Stream'[i].frame) =>
                          /\ Awaited(Stream'[i].frame)
                          /\ op.k = "rpc" => op.rid \notin inbox \cup live
                          /\ Stream'[i].part = 1 =>
                               \A j \in 1..Len(Stream') : j \notin {i, i + 1} =>
                                 ~IsReply(Stream'[j].frame)
    BY DEF OneReply, Awaited, IsReply
  <1>4. TAKE i \in 1..Len(Stream')
  <1>5. HAVE IsReply(Stream'[i].frame)
  <1>6. i + 2 \in 1..Len(Stream) /\ Stream'[i] = Stream[i + 2]
    BY <1>1, <1>2
  <1>7. /\ Awaited(Stream[i + 2].frame)
        /\ op.k = "rpc" => op.rid \notin inbox \cup live
        /\ Stream[i + 2].part = 1 =>
             \A j \in 1..Len(Stream) : j \notin {i + 2, i + 3} => ~IsReply(Stream[j].frame)
    BY <1>3, <1>5, <1>6 DEF OneReply
  <1>8. Awaited(Stream'[i].frame)
    BY <1>6, <1>7 DEF Awaited
  <1>9. ASSUME Stream'[i].part = 1, NEW j \in 1..Len(Stream'), j \notin {i, i + 1}
        PROVE  ~IsReply(Stream'[j].frame)
    <2>1. j + 2 \in 1..Len(Stream) /\ Stream'[j] = Stream[j + 2] /\ j + 2 \notin {i + 2, i + 3}
      BY <1>1, <1>2, <1>9
    <2> QED BY <1>6, <1>7, <1>9, <2>1
  <1> QED BY <1>7, <1>8, <1>9

\* The first half of a frame: an event adds nothing that is awaited; a reply is
\* begun only when there is none and none is owed any more.
LEMMA BegunStep ==
  ASSUME Shapes, OneReply, NEW f \in Frames, Begun(f), UNCHANGED <<op, inbox>>,
         \/ ~IsReply(f) /\ live' = live
         \/ /\ IsReply(f) /\ Awaited(f) /\ live' = {}
            /\ \A i \in 1..Len(Stream) : ~IsReply(Stream[i].frame)
            /\ op.k = "rpc" => op.rid \notin inbox
  PROVE  OneReply'
  <1>1. [frame |-> f, part |-> 1] \in Chunks
    BY ChunkTyped
  <1>2. /\ Len(Stream) \in Nat /\ Len(Stream') = Len(Stream) + 1
        /\ \A i \in 1..Len(Stream) : Stream'[i] = Stream[i]
        /\ Stream'[Len(Stream')] = [frame |-> f, part |-> 1]
    BY <1>1, PutEffect DEF Begun
  <1>3. conn = "open" /\ Stream'[Len(Stream')].frame = f
    BY <1>2 DEF Begun
  <1>4. CASE ~IsReply(f) /\ live' = live
    <2>1. ASSUME NEW i \in 1..Len(Stream'), IsReply(Stream'[i].frame)
          PROVE  i \in 1..Len(Stream) /\ Stream'[i] = Stream[i]
      BY <1>2, <1>3, <1>4, <2>1
    <2>2. ASSUME NEW i \in 1..Len(Stream'), IsReply(Stream'[i].frame)
          PROVE  /\ Awaited(Stream'[i].frame)
                 /\ op.k = "rpc" => op.rid \notin inbox \cup live
                 /\ Stream'[i].part = 1 =>
                      \A j \in 1..Len(Stream') : j \notin {i, i + 1} => ~IsReply(Stream'[j].frame)
      BY <2>1, <2>2, <1>3 DEF OneReply
    <2> QED BY <1>3, <1>4, <2>2 DEF OneReply, Awaited
  <1>5. CASE /\ IsReply(f) /\ Awaited(f) /\ live' = {}
             /\ \A i \in 1..Len(Stream) : ~IsReply(Stream[i].frame)
             /\ op.k = "rpc" => op.rid \notin inbox
    <2>1. ASSUME NEW i \in 1..Len(Stream'), IsReply(Stream'[i].frame)
          PROVE  i = Len(Stream')
      BY <1>2, <1>5, <2>1
    <2>2. ASSUME NEW i \in 1..Len(Stream'), IsReply(Stream'[i].frame)
          PROVE  /\ Awaited(Stream'[i].frame)
                 /\ op.k = "rpc" => op.rid \notin inbox
                 /\ \A j \in 1..Len(Stream') : j \notin {i, i + 1} => ~IsReply(Stream'[j].frame)
      BY <2>1, <2>2, <1>3, <1>5
    <2> QED BY <1>5, <2>2 DEF OneReply, Awaited
  <1> QED BY <1>4, <1>5

(* Writing the second half of a frame keeps OneReply. *)
LEMMA FlushStep ==
  ASSUME Shapes, Alternates, OneReply, ParentFlushes PROVE OneReply'
  <1>1. half \in Frames /\ [frame |-> half, part |-> 2] \in Chunks
    BY ChunkTyped DEF ParentFlushes, Shapes
  <1>2. /\ Len(Stream) \in Nat /\ Len(Stream') = Len(Stream) + 1
        /\ \A i \in 1..Len(Stream) : Stream'[i] = Stream[i]
        /\ Stream'[Len(Stream')] = [frame |-> half, part |-> 2]
    BY <1>1, PutEffect DEF ParentFlushes
  <1> DEFINE n == Len(Stream)
  <1>3. Stream # <<>> /\ Stream[n] = [frame |-> half, part |-> 1]
    BY DEF Alternates, ParentFlushes
  <1>4. /\ n \in Nat /\ n >= 1 /\ Len(Stream') = n + 1
        /\ Stream[n].frame = half /\ Stream[n].part = 1
        /\ Stream'[n + 1].frame = half /\ Stream'[n + 1].part = 2
    BY <1>2, <1>3 DEF Shapes, Stream
  <1>5. UNCHANGED <<conn, op, live, inbox>>
    BY DEF ParentFlushes
  <1> HIDE DEF n
  <1>6. ASSUME conn = "open", NEW i \in 1..(n + 1), IsReply(Stream'[i].frame)
        PROVE  /\ Awaited(Stream'[i].frame)
               /\ op.k = "rpc" => op.rid \notin inbox \cup live
               /\ Stream'[i].part = 1 =>
                    \A j \in 1..(n + 1) : j \notin {i, i + 1} => ~IsReply(Stream'[j].frame)
    <2>1. Len(Stream) = n /\ \A k \in 1..n : Stream'[k] = Stream[k]
      BY <1>2 DEF n
    <2>2. CASE i = n + 1
      <3>1. IsReply(Stream[n].frame) /\ Stream'[i].frame = Stream[n].frame
        BY <1>4, <1>6, <2>2
      <3> QED BY <1>4, <1>6, <2>1, <2>2, <3>1 DEF OneReply
    <2>3. CASE i \in 1..n
      <3>1. /\ Stream'[i] = Stream[i] /\ Awaited(Stream[i].frame)
            /\ op.k = "rpc" => op.rid \notin inbox \cup live
            /\ Stream[i].part = 1 =>
                 \A j \in 1..n : j \notin {i, i + 1} => ~IsReply(Stream[j].frame)
        BY <1>4, <1>6, <2>1, <2>3 DEF OneReply
      <3>2. ASSUME Stream[i].part = 1, NEW j \in 1..(n + 1), j \notin {i, i + 1}
            PROVE  ~IsReply(Stream'[j].frame)
        <4>1. CASE j \in 1..n
          BY <2>1, <3>1, <3>2, <4>1
        <4>2. CASE j = n + 1
          <5>1. (n \in 1..n /\ n \notin {i, i + 1}) \/ i = n - 1
            BY <1>4, <2>3, <3>2, <4>2
          <5>2. CASE i = n - 1
            <6>1. Stream[(n - 1) + 1].part = 2
              BY <1>4, <2>1, <2>3, <3>2, <5>2 DEF Alternates
            <6> QED BY <1>4, <6>1
          <5> QED BY <1>4, <3>1, <3>2, <4>2, <5>1, <5>2
        <4> QED BY <1>4, <4>1, <4>2
      <3> QED BY <3>1, <3>2
    <2> QED BY <1>4, <2>2, <2>3
  <1> QED BY <1>4, <1>5, <1>6 DEF OneReply, Awaited

(* Every step keeps at most the awaited reply on an open stream. *)
LEMMA OneReplyStep ==
  ASSUME Next, Shapes, Alternates, Ids, OneReply PROVE OneReply'
  <1> USE DEF wireVars
  <1>1. CASE connect \/ NotConnected
    BY <1>1, QuietStep DEF connect, NotConnected, StreamSame, Idle
  <1>2. CASE disconnect
    BY <1>2, CloseDrops, DroppedIsClean DEF disconnect
  <1>3. ASSUME NEW kind \in Kinds, _write_frame(kind) PROVE OneReply'
    <2>1. CASE _close_sock
      BY <2>1, CloseDrops, DroppedIsClean
    <2>2. CASE UNCHANGED wireVars /\ _keep_sock
      BY <1>3, <2>2, QuietStep DEF _write_frame, StreamSame, Idle, _keep_sock
    <2> QED BY <1>3, <2>1, <2>2 DEF _write_frame
  <1>4. ASSUME NEW s \in Streams, _poll_pending(s) PROVE OneReply'
    BY <1>4, QuietStep DEF _poll_pending, StreamSame, Idle
  <1>5. ASSUME NEW s \in Streams, NEW timed \in BOOLEAN, _poll_filtered(s, timed)
        PROVE  OneReply'
    BY <1>5, QuietStep DEF _poll_filtered, StreamSame, Idle
  <1>6. CASE _dial_with_attach
    <2>1. CASE _dial
      BY <2>1, DialDrops, DroppedIsClean
    <2>2. CASE UNCHANGED <<sock, hs, live, wireVars>>
      BY <1>6, <2>2, QuietStep DEF _dial_with_attach, StreamSame
    <2> QED BY <1>6, <2>1, <2>2 DEF _dial_with_attach
  <1>7. CASE resolve_dial_failure \/ wait_for_parent_socket
    BY <1>7, QuietStep DEF resolve_dial_failure, wait_for_parent_socket, StreamSame
  <1>8. CASE _require_parent_flock
    <2>1. CASE _close_sock
      BY <2>1, CloseDrops, DroppedIsClean
    <2>2. CASE UNCHANGED wireVars /\ _keep_sock
      BY <1>8, <2>2, QuietStep DEF _require_parent_flock, StreamSame, _keep_sock
    <2> QED BY <1>8, <2>1, <2>2 DEF _require_parent_flock
  <1>9. CASE _handshake_write
    <2>1. CASE _close_sock
      BY <2>1, CloseDrops, DroppedIsClean
    <2>2. CASE UNCHANGED wireVars /\ _keep_sock
      BY <1>9, <2>2, QuietStep DEF _handshake_write, StreamSame, _keep_sock
    <2> QED BY <1>9, <2>1, <2>2 DEF _handshake_write
  <1>10. CASE _handshake
    <2>1. CASE _close_sock
      BY <2>1, CloseDrops, DroppedIsClean
    <2>2. CASE FrameRead.t = "ready" /\ CutFrame /\ live' = live
      <3>1. Cut /\ IsReply(FrameRead) /\ conn' = conn
        BY <1>10, <2>2 DEF _handshake, FrameReady, Cut, IsReply, CutFrame
      <3>2. conn' = "open" => Clean'
        BY <2>2, <3>1, ReplyIsLast DEF Clean, IsReply
      <3> QED BY <3>2, CleanStep
    <2> QED BY <1>10, <2>1, <2>2 DEF _handshake
  <1>11. CASE _handshake_timeout \/ _rpc_timeout
    BY <1>11, CloseDrops, DroppedIsClean DEF _handshake_timeout, _rpc_timeout
  <1>12. CASE _fill
    <2>1. Stream' = Stream /\ UNCHANGED <<conn, op, live, inbox>>
      BY <1>12, FillEffect DEF _fill
    <2> QED BY <2>1 DEF OneReply, Awaited
  <1>13. CASE _rpc_unlocked
    <2>1. Cut /\ conn' = conn /\ live' = live /\ inbox' = inbox
      BY <1>13 DEF _rpc_unlocked, FrameReady, Cut, CutFrame, _keep_sock
    <2>2. CASE FrameRead.t = "event"
      <3>1. op' = op
        BY <1>13, <2>2 DEF _rpc_unlocked
      <3> QED BY <2>1, <3>1, EventRead
    <2>3. CASE FrameRead.t # "event"
      <3>1. conn' = "open" => Clean'
        BY <2>1, <2>3, ReplyIsLast DEF Clean, IsReply
      <3> QED BY <3>1, CleanStep
    <2> QED BY <2>2, <2>3
  <1>14. CASE _poll_read
    <2>1. Cut /\ conn' = conn /\ live' = live /\ op.k = "poll"
      BY <1>14 DEF _poll_read, FrameReady, Cut, CutFrame, _keep_sock
    <2>2. /\ Len(Stream) \in Nat /\ Len(Stream') = Len(Stream) - 2
          /\ \A i \in 1..Len(Stream') : Stream'[i] = Stream[i + 2]
      BY <2>1, CutEffect DEF Cut, Shapes, Stream
    <2>3. conn = "open" => Clean
      BY <2>1, CleanUnlessAwaited
    <2>4. conn = "open" => \A i \in 1..Len(Stream') : ~IsReply(Stream'[i].frame)
      BY <2>2, <2>3 DEF Clean
    <2>5. conn' = "open" => Clean'
      BY <2>1, <2>3, <2>4 DEF Clean, IsReply
    <2> QED BY <2>5, CleanStep
  <1>15. CASE _poll_timeout
    BY <1>15, QuietStep DEF _poll_timeout, StreamSame
  <1>16. CASE FatalRead
    <2>1. conn' # "open"
      BY <1>16 DEF FatalRead, _close_sock
    <2> QED BY <2>1 DEF OneReply
  <1>17. CASE Deadline \/ ParentStarts \/ ParentBinds
    <2>1. UNCHANGED <<rx, wire, conn, op, live, inbox>>
      BY <1>17 DEF Deadline, ParentStarts, ParentBinds
    <2> QED BY <2>1 DEF OneReply, Awaited, Stream
  <1>18. CASE ParentDies
    <2>1. conn' # "open"
      BY <1>18 DEF ParentDies
    <2> QED BY <2>1 DEF OneReply
  <1>19. CASE ParentFlushes
    BY <1>19, FlushStep
  <1>20. CASE ParentGreets
    <2>1. PICK t \in {"ready", "not_ready"} : Emit([t |-> t])
      BY <1>20 DEF ParentGreets
    <2> DEFINE f == [t |-> t]
    <2>2. f \in Frames /\ Begun(f) /\ IsReply(f) /\ Awaited(f)
      BY <1>20, <2>1 DEF Frames, Emit, Begun, IsReply, Awaited, ParentGreets
    <2>3. op.k = "hand" /\ UNCHANGED <<op, inbox, live>> /\ rx = <<>> /\ wire = <<>>
      BY <1>20, <2>1 DEF ParentGreets, Emit
    <2>4. live = {} /\ conn = "open"
      BY <2>2, <2>3 DEF OneReply, Begun
    <2>5. Len(Stream) = 0
      BY <2>3 DEF Stream
    <2> HIDE DEF f
    <2> QED BY <2>2, <2>3, <2>4, <2>5, BegunStep
  <1>21. ASSUME NEW s \in Streams, ParentEvent(s) PROVE OneReply'
    <2> DEFINE f == [t |-> "event", s |-> s]
    <2>1. f \in Frames /\ Begun(f) /\ ~IsReply(f)
      BY <1>21 DEF Frames, Emit, Begun, IsReply, ParentEvent
    <2>2. UNCHANGED <<op, inbox, live>>
      BY <1>21 DEF ParentEvent, Emit
    <2> HIDE DEF f
    <2> QED BY <2>1, <2>2, BegunStep
  <1>22. ASSUME NEW rid \in 1..MaxCalls, ParentTakes(rid) PROVE OneReply'
    <2>1. /\ rid \in inbox /\ inbox' = inbox \ {rid}
          /\ live' = IF op.k = "rpc" /\ op.rid = rid THEN live \cup {rid} ELSE live
          /\ UNCHANGED <<rx, wire, conn, op>>
      BY <1>22 DEF ParentTakes
    <2>2. Stream' = Stream
      BY <2>1 DEF Stream
    <2>3. CASE op.k = "rpc" /\ op.rid = rid
      BY <2>1, <2>2, <2>3 DEF OneReply, Awaited
    <2>4. CASE ~(op.k = "rpc" /\ op.rid = rid)
      BY <2>1, <2>2, <2>4 DEF OneReply, Awaited
    <2> QED BY <2>3, <2>4
  <1>23. ASSUME NEW rid \in 1..MaxCalls, ParentAnswers(rid) PROVE OneReply'
    <2>1. PICK f \in Frames : /\ Begun(f) /\ f.t \in {"answer", "error"} /\ f.rid = rid
                              /\ IsReply(f)
      BY <1>23, AnswerBegins
    <2>2. rid \in live /\ live' = live \ {rid} /\ UNCHANGED <<op, inbox>>
      BY <1>23 DEF ParentAnswers, Emit
    <2>3. conn = "open" /\ op.k = "rpc" /\ op.rid = rid /\ rid \notin inbox
      BY <2>1, <2>2 DEF Begun, OneReply
    <2>4. live' = {}
      BY <2>2, <2>3 DEF OneReply
    <2>5. \A i \in 1..Len(Stream) : ~IsReply(Stream[i].frame)
      BY <2>2, <2>3 DEF OneReply
    <2>6. Awaited(f)
      BY <2>1, <2>3 DEF Awaited
    <2> QED BY <2>1, <2>2, <2>3, <2>4, <2>5, <2>6, BegunStep
  <1> QED BY <1>1, <1>2, <1>3, <1>4, <1>5, <1>6, <1>7, <1>8, <1>9, <1>10, <1>11, <1>12,
             <1>13, <1>14, <1>15, <1>16, <1>17, <1>18, <1>19, <1>20, <1>21, <1>22, <1>23
          DEF Next, Calls, CallSteps, ParentSteps

-----------------------------------------------------------------------------
\* The theorems

(* A client that has not connected has an empty stream. *)
LEMMA WireInit == ASSUME Init PROVE WireInv
  <1>1. rx = <<>> /\ wire = <<>> /\ half = NoFrame /\ conn = "none"
    BY DEF Init
  <1>2. Stream = <<>>
    BY <1>1 DEF Stream
  <1>3. Shapes
    BY <1>1 DEF Shapes
  <1>4. Alternates
    BY <1>1, <1>2 DEF Alternates
  <1>5. Ids
    BY DEF Init, Ids, Idle
  <1>6. OneReply
    BY <1>1 DEF OneReply
  <1> QED BY <1>3, <1>4, <1>5, <1>6 DEF WireInv

(* Every step keeps the invariant of the wire. *)
LEMMA WireStep == ASSUME [Next]_vars, WireInv PROVE WireInv'
  <1>1. CASE Next
    BY <1>1, ShapesStep, AlternatesStep, IdsStep, OneReplyStep DEF WireInv
  <1>2. CASE UNCHANGED vars
    BY <1>2 DEF vars, WireInv, Shapes, Alternates, Ids, OneReply, Stream, Awaited
  <1> QED BY <1>1, <1>2

(* The invariant of the wire holds in every behaviour. *)
LEMMA WireInvariant == Spec => []WireInv
  <1>1. Init => WireInv
    BY WireInit
  <1>2. WireInv /\ [Next]_vars => WireInv'
    BY WireStep
  <1> QED BY <1>1, <1>2, PTL DEF Spec

\* Frames are cut where the parent cut them, however reads, timeouts of polls and
\* reconnects interleave with the parent's writes (_fill, _read_frame, _close_sock).
THEOREM FramesAreWhole == Spec => []StreamStaysAligned
  <1>1. WireInv => StreamStaysAligned
    BY AlignedCut DEF WireInv, StreamStaysAligned
  <1> QED BY <1>1, WireInvariant, PTL

\* On an open connection an answer, on the wire or in the buffer, is the answer to
\* the request that waits for one: no late answer meets a later request, for any
\* number of timeouts and reconnects (_rpc_unlocked).
THEOREM NoAnswerIsMisread == Spec => []AnswerMeetsItsRequest
  <1>1. ASSUME WireInv PROVE AnswerMeetsItsRequest
    <2>1. SUFFICES ASSUME conn = "open", NEW c \in Range(wire \o rx),
                          c.frame.t \in {"answer", "error"}
                   PROVE  op.k = "rpc" /\ op.rid = c.frame.rid
      BY DEF AnswerMeetsItsRequest
    <2>2. rx \in Seq(Chunks) /\ wire \in Seq(Chunks)
      BY <1>1 DEF WireInv, Shapes
    <2>3. PICK i \in DOMAIN (wire \o rx) : c = (wire \o rx)[i]
      BY DEF Range
    <2>4. \E j \in 1..Len(Stream) : c = Stream[j]
      <3>1. Len(wire) \in Nat /\ Len(rx) \in Nat /\ i \in 1..(Len(wire) + Len(rx))
        BY <2>2, <2>3
      <3>2. CASE i \in 1..Len(wire)
        <4>1. c = wire[i]
          BY <2>2, <2>3, <3>2
        <4>2. Stream[Len(rx) + i] = wire[i] /\ Len(rx) + i \in 1..Len(Stream)
          BY <2>2, <3>1, <3>2 DEF Stream
        <4> QED BY <4>1, <4>2
      <3>3. CASE i \in (Len(wire) + 1)..(Len(wire) + Len(rx))
        <4>1. c = rx[i - Len(wire)] /\ i - Len(wire) \in 1..Len(rx)
          BY <2>2, <2>3, <3>1, <3>3
        <4>2. Stream[i - Len(wire)] = rx[i - Len(wire)] /\ i - Len(wire) \in 1..Len(Stream)
          BY <2>2, <3>1, <4>1 DEF Stream
        <4> QED BY <4>1, <4>2
      <3> QED BY <3>1, <3>2, <3>3
    <2>5. IsReply(c.frame)
      BY <2>1 DEF IsReply
    <2> QED BY <1>1, <2>1, <2>4, <2>5 DEF WireInv, OneReply, Awaited
  <1> QED BY <1>1, WireInvariant, PTL

\* A request the client reports as not sent was never read by the parent and never
\* will be, so an order denied on it cannot reach the venue (_write_frame).
THEOREM NotSentIsTrue == Spec => []NotSentNeverReached
  <1>1. Init => NotSentNeverReached
    BY DEF Init, NotSentNeverReached
  <1>2. WireInv /\ NotSentNeverReached /\ [Next]_vars => NotSentNeverReached'
    <2>1. ASSUME WireInv, NotSentNeverReached, Next PROVE NotSentNeverReached'
      BY <2>1, NotSentStep DEF WireInv
    <2>2. ASSUME NotSentNeverReached, UNCHANGED vars PROVE NotSentNeverReached'
      BY <2>2 DEF vars, NotSentNeverReached
    <2> QED BY <2>1, <2>2
  <1> QED BY <1>1, <1>2, WireInvariant, PTL DEF Spec

-----------------------------------------------------------------------------
\* What is queued.
Queued == [t : {"data", "gap"}, s : Streams, n : Nat \ {0}]

(* A non-empty set of naturals has a least element, and Min is it. *)
LEMMA Least ==
  ASSUME NEW T \in SUBSET Nat, T # {}
  PROVE  Min(T) \in T /\ \A y \in T : Min(T) <= y
  <1> DEFINE R == OpToRel(<, Nat)
  <1>1. IsWellFoundedOn(R, Nat)
    BY NatLessThanWellFounded
  <1>2. \A x, y \in Nat : <<x, y>> \in R <=> x < y
    BY DEF OpToRel
  <1> HIDE DEF R
  <1>3. PICK x \in T : \A y \in T : ~ (<<y, x>> \in R)
    BY <1>1, WFMin
  <1>4. ASSUME NEW y \in T PROVE x <= y
    <2>1. x \in Nat /\ y \in Nat /\ ~ (<<y, x>> \in R)
      BY <1>3
    <2>2. ~ (y < x)
      BY <1>2, <2>1
    <2> QED BY <2>1, <2>2
  <1> QED BY <1>4 DEF Min

-----------------------------------------------------------------------------
\* The rounds of _queue_event's loop

\* f is the queue after each of the first k rounds.
Runs(q, k, f) == /\ DOMAIN f = 0..k /\ f[0] = q
                 /\ \A n \in 1..k : f[n] = Round(f[n - 1])

(* Any number of rounds can be run. *)
LEMMA RunsExist == ASSUME NEW q, NEW k \in Nat PROVE \E f : Runs(q, k, f)
  <1> DEFINE T == {n \in Nat : ~ \E f : Runs(q, n, f)}
  <1>1. SUFFICES ASSUME T # {} PROVE FALSE
    OBVIOUS
  <1>2. PICK m \in Nat : m \in T /\ \A y \in T : m <= y
    <2>1. T \in SUBSET Nat
      OBVIOUS
    <2> QED BY <1>1, <2>1, Least
  <1>3. m # 0
    <2>1. Runs(q, 0, [n \in 0..0 |-> q])
      BY DEF Runs
    <2> QED BY <1>2, <2>1
  <1>4. m - 1 \in Nat /\ m - 1 \notin T
    BY <1>2, <1>3
  <1>5. PICK f : Runs(q, m - 1, f)
    BY <1>4
  <1> DEFINE g == [n \in 0..m |-> IF n = m THEN Round(f[m - 1]) ELSE f[n]]
  <1>6. Runs(q, m, g)
    <2>1. DOMAIN g = 0..m /\ g[0] = q
      BY <1>3, <1>5 DEF Runs
    <2>2. ASSUME NEW n \in 1..m PROVE g[n] = Round(g[n - 1])
      <3>1. CASE n = m
        BY <3>1
      <3>2. CASE n # m
        <4>1. n \in 1..(m - 1) /\ n - 1 \in 0..m /\ n - 1 # m /\ n \in 0..m
          BY <3>2
        <4>2. f[n] = Round(f[n - 1])
          BY <1>5, <4>1 DEF Runs
        <4>3. g[n] = f[n] /\ g[n - 1] = f[n - 1]
          BY <3>2, <4>1
        <4> QED BY <4>2, <4>3
      <3> QED BY <3>1, <3>2
    <2> QED BY <2>1, <2>2 DEF Runs
  <1> QED BY <1>2, <1>6

(* The runs agree. *)
LEMMA RunsAgree ==
  ASSUME NEW q, NEW k \in Nat, NEW l \in Nat, NEW f, NEW g, Runs(q, k, f), Runs(q, l, g)
  PROVE  \A n \in Nat : n <= k /\ n <= l => f[n] = g[n]
  <1> DEFINE T == {n \in Nat : n <= k /\ n <= l /\ f[n] # g[n]}
  <1>1. SUFFICES ASSUME T # {} PROVE FALSE
    OBVIOUS
  <1>2. PICK m \in Nat : m \in T /\ \A y \in T : m <= y
    <2>1. T \in SUBSET Nat
      OBVIOUS
    <2> QED BY <1>1, <2>1, Least
  <1>3. m <= k /\ m <= l /\ f[m] # g[m]
    BY <1>2
  <1>4. m # 0
    BY <1>3 DEF Runs
  <1>5. m - 1 \in Nat /\ m - 1 \notin T /\ m \in 1..k /\ m \in 1..l
    BY <1>2, <1>3, <1>4
  <1>6. f[m - 1] = g[m - 1]
    BY <1>3, <1>5
  <1> QED BY <1>3, <1>5, <1>6 DEF Runs

(* The recursive definition has a solution: each round follows the one before. *)
LEMMA RoundByRound ==
  ASSUME NEW q
  PROVE  /\ Rounds(q)[0] = q
         /\ \A n \in Nat \ {0} : Rounds(q)[n] = Round(Rounds(q)[n - 1])
  <1> DEFINE Run(k) == CHOOSE f : Runs(q, k, f)
             A == [n \in Nat |-> Run(n)[n]]
             Solves(h) == h = [n \in Nat |-> IF n = 0 THEN q ELSE Round(h[n - 1])]
  <1>1. \A k \in Nat : Runs(q, k, Run(k))
    BY RunsExist
  <1>2. ASSUME NEW n \in Nat PROVE A[n] = IF n = 0 THEN q ELSE Round(A[n - 1])
    <2>1. CASE n = 0
      BY <1>1, <2>1 DEF Runs
    <2>2. CASE n # 0
      <3>1. n - 1 \in Nat /\ n \in 1..n /\ n - 1 <= n
        BY <2>2
      <3>2. Run(n)[n] = Round(Run(n)[n - 1])
        BY <1>1, <3>1 DEF Runs
      <3>3. Run(n)[n - 1] = Run(n - 1)[n - 1]
        <4>1. Runs(q, n, Run(n)) /\ Runs(q, n - 1, Run(n - 1))
          BY <1>1, <3>1
        <4> HIDE DEF Run
        <4> QED BY <3>1, <4>1, RunsAgree
      <3> QED BY <2>2, <3>1, <3>2, <3>3
    <2> QED BY <2>1, <2>2
  <1>3. Solves(A)
    <2> HIDE DEF Run
    <2> QED BY <1>2
  <1>4. Rounds(q) = CHOOSE h : Solves(h)
    BY DEF Rounds
  <1> HIDE DEF A, Solves
  <1>5. Solves(Rounds(q))
    BY <1>3, <1>4
  <1> QED BY <1>5 DEF Solves

-----------------------------------------------------------------------------
\* Counting what is queued

Held(q, s) == Cardinality(Units(q, s))

(* What an event counts for. *)
LEMMA WeightTyped == ASSUME NEW e \in Queued, NEW s PROVE Weight(e, s) \in Nat
  BY DEF Queued, Weight, IsGap

(* There are finitely many units. *)
LEMMA UnitsFinite ==
  ASSUME NEW q \in Seq(Queued), NEW s
  PROVE  IsFiniteSet(Units(q, s)) /\ Held(q, s) \in Nat
  <1> DEFINE B(i) == {i} \X (1..Weight(q[i], s))
             S == {B(i) : i \in 1..Len(q)}
             f == [i \in 1..Len(q) |-> B(i)]
  <1>1. ASSUME NEW i \in 1..Len(q) PROVE IsFiniteSet(B(i))
    <2>1. Weight(q[i], s) \in Nat
      BY WeightTyped
    <2>2. IsFiniteSet({i})
      BY FS_Singleton
    <2>3. IsFiniteSet(1..Weight(q[i], s))
      BY <2>1, FS_Interval
    <2> QED BY <2>2, <2>3, FS_Product
  <1>2. IsFiniteSet(1..Len(q))
    BY FS_Interval
  <1> HIDE DEF B
  <1>3. f \in Surjection(1..Len(q), S)
    BY DEF Surjection
  <1>4. IsFiniteSet(S)
    BY <1>2, <1>3, FS_Surjection
  <1>5. \A T \in S : IsFiniteSet(T)
    BY <1>1
  <1>6. IsFiniteSet(UNION S)
    BY <1>4, <1>5, FS_UNION
  <1>7. Units(q, s) = UNION S
    BY DEF Units, B
  <1> QED BY <1>6, <1>7, FS_CardinalityType DEF Held

(* A unit is a place and a number up to the weight of what is there. *)
LEMMA UnitIs ==
  ASSUME NEW q, NEW s
  PROVE  \A x : x \in Units(q, s) <=>
           \E i \in 1..Len(q) : \E u \in 1..Weight(q[i], s) : x = <<i, u>>
  BY DEF Units

(* An empty queue holds nothing. *)
LEMMA HeldEmpty == ASSUME NEW s PROVE Held(<<>>, s) = 0
  <1>1. Units(<<>>, s) = {}
    BY DEF Units
  <1> QED BY <1>1, FS_EmptySet DEF Held

(* A single event counts for its weight. *)
LEMMA HeldOne ==
  ASSUME NEW e \in Queued, NEW s PROVE Held(<<e>>, s) = Weight(e, s)
  <1> DEFINE q == <<e>>
             w == Weight(e, s)
             f == [u \in 1..w |-> <<1, u>>]
  <1>1. Len(q) = 1 /\ q[1] = e /\ w \in Nat
    BY WeightTyped
  <1>2. Units(q, s) = {1} \X (1..w)
    <2>1. 1..Len(q) = {1}
      BY <1>1
    <2>2. {{i} \X (1..Weight(q[i], s)) : i \in {1}} = {{1} \X (1..w)}
      BY <1>1
    <2> QED BY <2>1, <2>2 DEF Units
  <1>3. Cardinality({1}) = 1 /\ IsFiniteSet({1})
    BY FS_Singleton
  <1>4. IsFiniteSet(1..w) /\ Cardinality(1..w) = w
    <2>1. 1 \in Int /\ w \in Int
      BY <1>1
    <2>2. IsFiniteSet(1..w) /\ Cardinality(1..w) = IF 1 > w THEN 0 ELSE w - 1 + 1
      BY <2>1, FS_Interval
    <2> QED BY <1>1, <2>2
  <1>5. Cardinality({1} \X (1..w)) = Cardinality({1}) * Cardinality(1..w)
    BY <1>3, <1>4, FS_Product
  <1> HIDE DEF w
  <1>6. Cardinality({1} \X (1..w)) = w
    BY <1>1, <1>3, <1>4, <1>5
  <1> QED BY <1>2, <1>6 DEF Held, w

(* Two queues put together hold what both hold. *)
LEMMA HeldJoined ==
  ASSUME NEW a \in Seq(Queued), NEW b \in Seq(Queued), NEW s
  PROVE  a \o b \in Seq(Queued) /\ Held(a \o b, s) = Held(a, s) + Held(b, s)
  <1> DEFINE j == a \o b
             la == Len(a)
             lb == Len(b)
             A == Units(a, s)
             B == Units(b, s)
             M == {<<la + x[1], x[2]>> : x \in B}
             f == [x \in B |-> <<la + x[1], x[2]>>]
  <1>1. /\ j \in Seq(Queued) /\ Len(j) = la + lb /\ la \in Nat /\ lb \in Nat
        /\ \A i \in 1..(la + lb) : j[i] = IF i <= la THEN a[i] ELSE b[i - la]
    BY ConcatProperties
  <1>2. \A x \in B : x[1] \in 1..lb /\ x[2] \in Nat /\ x = <<x[1], x[2]>>
    <2>1. ASSUME NEW i \in 1..lb, NEW u \in 1..Weight(b[i], s)
          PROVE  u \in Nat
      BY WeightTyped
    <2> QED BY <2>1, UnitIs
  <1> HIDE DEF A, B, j, la, lb
  <1>3. f \in Bijection(B, M)
    <2>1. f \in [B -> M] /\ \A y \in M : \E x \in B : f[x] = y
      OBVIOUS
    <2>2. ASSUME NEW x \in B, NEW y \in B, f[x] = f[y] PROVE x = y
      <3>1. la + x[1] = la + y[1] /\ x[2] = y[2]
        BY <2>2
      <3>2. x[1] = y[1]
        BY <1>1, <1>2, <3>1
      <3> QED BY <1>2, <3>1, <3>2
    <2> HIDE DEF f, M
    <2> QED BY <2>1, <2>2 DEF Bijection, Injection, Surjection, IsInjective
  <1>4. /\ IsFiniteSet(A) /\ IsFiniteSet(B) /\ Cardinality(A) \in Nat
        /\ Cardinality(B) \in Nat
    BY UnitsFinite DEF A, B, Held
  <1>5. IsFiniteSet(M) /\ Cardinality(M) = Cardinality(B)
    <2>1. ExistsBijection(B, M)
      BY <1>3 DEF ExistsBijection
    <2> QED BY <1>4, <2>1, FS_Bijection
  <1>6. Units(j, s) = A \cup M
    <2>1. ASSUME NEW x \in Units(j, s) PROVE x \in A \cup M
      <3>1. PICK i \in 1..Len(j) : \E u \in 1..Weight(j[i], s) : x = <<i, u>>
        BY UnitIs
      <3>2. PICK u \in 1..Weight(j[i], s) : x = <<i, u>>
        BY <3>1
      <3>3. CASE i <= la
        <4>1. i \in 1..la /\ j[i] = a[i]
          BY <1>1, <3>3
        <4> QED BY <3>2, <4>1, UnitIs DEF A, la
      <3>4. CASE ~ (i <= la)
        <4>1. i - la \in 1..lb /\ j[i] = b[i - la] /\ la + (i - la) = i
          BY <1>1, <3>4
        <4>2. <<i - la, u>> \in B
          BY <3>2, <4>1, UnitIs DEF B, lb
        <4>3. x = <<la + <<i - la, u>>[1], <<i - la, u>>[2]>>
          BY <3>2, <4>1
        <4> QED BY <4>2, <4>3
      <3> QED BY <3>3, <3>4
    <2>2. ASSUME NEW x \in A PROVE x \in Units(j, s)
      <3>1. PICK i \in 1..la : \E u \in 1..Weight(a[i], s) : x = <<i, u>>
        BY UnitIs DEF A, la
      <3>2. i \in 1..Len(j) /\ j[i] = a[i]
        BY <1>1
      <3> QED BY <3>1, <3>2, UnitIs
    <2>3. ASSUME NEW x \in M PROVE x \in Units(j, s)
      <3>1. PICK y \in B : x = <<la + y[1], y[2]>>
        OBVIOUS
      <3>2. PICK i \in 1..lb : \E u \in 1..Weight(b[i], s) : y = <<i, u>>
        BY UnitIs DEF B, lb
      <3>3. PICK u \in 1..Weight(b[i], s) : y = <<i, u>>
        BY <3>2
      <3>4. la + i \in 1..Len(j) /\ j[la + i] = b[i]
        <4>1. la + i \in 1..(la + lb) /\ ~ (la + i <= la) /\ (la + i) - la = i
          BY <1>1
        <4> QED BY <1>1, <4>1
      <3>5. x = <<la + i, u>>
        BY <3>1, <3>3
      <3> QED BY <3>3, <3>4, <3>5, UnitIs
    <2> QED BY <2>1, <2>2, <2>3
  <1>7. A \cap M = {}
    <2>1. ASSUME NEW x \in A, x \in M PROVE FALSE
      <3>1. PICK i \in 1..la : \E u \in 1..Weight(a[i], s) : x = <<i, u>>
        BY UnitIs DEF A, la
      <3>2. PICK y \in B : x = <<la + y[1], y[2]>>
        BY <2>1
      <3>3. i = la + y[1]
        BY <3>1, <3>2
      <3> QED BY <1>1, <1>2, <3>3
    <2> QED BY <2>1
  <1>8. Cardinality(A \cup M) = Cardinality(A) + Cardinality(M) - Cardinality(A \cap M)
    BY <1>4, <1>5, FS_Union
  <1>9. Cardinality(A \cap M) = 0
    BY <1>7, FS_EmptySet
  <1> QED BY <1>1, <1>4, <1>5, <1>6, <1>8, <1>9 DEF Held, A, B, j

(* A queue around its place i. *)
LEMMA HeldAround ==
  ASSUME NEW q \in Seq(Queued), NEW i \in 1..Len(q), NEW s
  PROVE  LET a == SubSeq(q, 1, i - 1)
             b == SubSeq(q, i + 1, Len(q))
         IN  /\ a \in Seq(Queued) /\ b \in Seq(Queued) /\ q[i] \in Queued
             /\ q = a \o <<q[i]>> \o b
             /\ Held(q, s) = Held(a, s) + Weight(q[i], s) + Held(b, s)
  <1> DEFINE a == SubSeq(q, 1, i - 1)
             b == SubSeq(q, i + 1, Len(q))
             m == <<q[i]>>
  <1>1. q[i] \in Queued /\ m \in Seq(Queued)
    OBVIOUS
  <1>2. /\ a \in Seq(Queued) /\ Len(a) = i - 1 /\ \A k \in 1..(i - 1) : a[k] = q[k]
        /\ b \in Seq(Queued) /\ Len(b) = Len(q) - i
        /\ \A k \in 1..(Len(q) - i) : b[k] = q[i + k]
    OBVIOUS
  <1>3. Len(m) = 1 /\ m[1] = q[i]
    OBVIOUS
  <1> DEFINE n == Len(q)
             j == a \o m
  <1> HIDE DEF a, b, m, n
  <1>4. /\ j \in Seq(Queued) /\ Len(j) = i
        /\ \A k \in 1..i : j[k] = q[k]
    <2>1. /\ j \in Seq(Queued) /\ Len(j) = Len(a) + Len(m)
          /\ \A k \in 1..(Len(a) + Len(m)) : j[k] = IF k <= Len(a) THEN a[k] ELSE m[k - Len(a)]
      BY <1>1, <1>2, ConcatProperties
    <2>2. Len(a) = i - 1 /\ Len(m) = 1 /\ Len(a) + Len(m) = i
      BY <1>2, <1>3
    <2>3. ASSUME NEW k \in 1..i PROVE j[k] = q[k]
      <3>1. j[k] = IF k <= i - 1 THEN a[k] ELSE m[k - (i - 1)]
        BY <2>1, <2>2
      <3>2. CASE k <= i - 1
        BY <1>2, <3>1, <3>2
      <3>3. CASE ~ (k <= i - 1)
        <4>1. k = i /\ k - (i - 1) = 1
          BY <3>3
        <4> QED BY <1>3, <3>1, <3>3, <4>1
      <3> QED BY <3>2, <3>3
    <2> QED BY <2>1, <2>2, <2>3
  <1> HIDE DEF j
  <1>5. q = j \o b
    <2>1. /\ j \o b \in Seq(Queued) /\ Len(j \o b) = Len(j) + Len(b)
          /\ \A k \in 1..(Len(j) + Len(b)) :
               (j \o b)[k] = IF k <= Len(j) THEN j[k] ELSE b[k - Len(j)]
      BY <1>2, <1>4, ConcatProperties
    <2>2. Len(j) = i /\ Len(b) = n - i /\ Len(j) + Len(b) = n /\ n \in Nat
      BY <1>2, <1>4 DEF n
    <2>3. ASSUME NEW k \in 1..n PROVE (j \o b)[k] = q[k]
      <3>1. (j \o b)[k] = IF k <= i THEN j[k] ELSE b[k - i]
        BY <2>1, <2>2
      <3>2. CASE k <= i
        BY <1>4, <3>1, <3>2
      <3>3. CASE ~ (k <= i)
        <4>1. k - i \in 1..(n - i) /\ i + (k - i) = k
          BY <2>2, <3>3
        <4>2. b[k - i] = q[i + (k - i)]
          BY <1>2, <4>1 DEF n
        <4> QED BY <3>1, <3>3, <4>1, <4>2
      <3> QED BY <3>2, <3>3
    <2>4. Len(j \o b) = Len(q)
      BY <2>1, <2>2 DEF n
    <2> QED BY <2>1, <2>3, <2>4, SeqEqual DEF n
  <1>6. Held(j, s) = Held(a, s) + Weight(q[i], s)
    <2>1. Held(m, s) = Weight(q[i], s)
      BY <1>1, HeldOne DEF m
    <2> QED BY <1>1, <1>2, <2>1, HeldJoined DEF j
  <1>7. Held(q, s) = Held(j, s) + Held(b, s)
    BY <1>2, <1>4, <1>5, HeldJoined
  <1> QED BY <1>1, <1>2, <1>5, <1>6, <1>7 DEF a, b, j, m

(* The end of a queue behind the place i. *)
LEMMA EndOf ==
  ASSUME NEW q \in Seq(Queued), NEW i \in 1..Len(q), NEW b, b = SubSeq(q, i + 1, Len(q))
  PROVE  /\ b \in Seq(Queued) /\ Len(b) = Len(q) - i
         /\ \A k \in 1..(Len(q) - i) : b[k] = q[i + k] /\ i + k \in 1..Len(q) /\ i + k # i
  OBVIOUS

(* Another event in the place i changes the sum by the difference of the weights. *)
LEMMA HeldReplaced ==
  ASSUME NEW q \in Seq(Queued), NEW i \in 1..Len(q), NEW s, NEW r \in Seq(Queued),
         Len(r) = Len(q), \A k \in 1..Len(q) : k # i => r[k] = q[k]
  PROVE  Held(r, s) = Held(q, s) - Weight(q[i], s) + Weight(r[i], s)
  <1> DEFINE a == SubSeq(q, 1, i - 1)
             b == SubSeq(q, i + 1, Len(q))
             c == SubSeq(r, i + 1, Len(r))
  <1>1. i \in 1..Len(r) /\ r[i] \in Queued
    OBVIOUS
  <1>2. SubSeq(r, 1, i - 1) = a
    OBVIOUS
  <1>3. b = c
    <2>1. /\ b \in Seq(Queued) /\ Len(b) = Len(q) - i
          /\ \A k \in 1..(Len(q) - i) : b[k] = q[i + k] /\ i + k \in 1..Len(q) /\ i + k # i
      BY EndOf
    <2>2. /\ c \in Seq(Queued) /\ Len(c) = Len(r) - i
          /\ \A k \in 1..(Len(r) - i) : c[k] = r[i + k]
      BY <1>1, EndOf
    <2> HIDE DEF b, c
    <2>3. Len(b) = Len(c) /\ \A k \in 1..Len(b) : b[k] = c[k]
      BY <1>1, <2>1, <2>2
    <2> QED BY <2>1, <2>2, <2>3, SeqEqual
  <1>4. /\ a \in Seq(Queued) /\ b \in Seq(Queued) /\ q[i] \in Queued
        /\ Held(q, s) = Held(a, s) + Weight(q[i], s) + Held(b, s)
    BY HeldAround
  <1>5. Held(r, s) = Held(SubSeq(r, 1, i - 1), s) + Weight(r[i], s) + Held(c, s)
    BY <1>1, HeldAround
  <1> HIDE DEF a, b, c
  <1>6. Held(r, s) = Held(a, s) + Weight(r[i], s) + Held(b, s)
    BY <1>2, <1>3, <1>5
  <1>7. /\ Held(a, s) \in Nat /\ Held(b, s) \in Nat
        /\ Weight(q[i], s) \in Nat /\ Weight(r[i], s) \in Nat
    BY <1>1, <1>4, UnitsFinite, WeightTyped
  <1> QED BY <1>1, <1>4, <1>6, <1>7

(* The oldest data event has only loss reports before it. *)
LEMMA FirstIs ==
  ASSUME NEW q \in Seq(Queued), FirstData(q) # 0
  PROVE  /\ FirstData(q) \in 1..Len(q) /\ ~IsGap(q[FirstData(q)])
         /\ \A k \in 1..(FirstData(q) - 1) : IsGap(q[k])
  <1> DEFINE I == {i \in 1..Len(q) : ~IsGap(q[i])}
  <1>1. FirstData(q) = IF I # {} THEN Min(I) ELSE 0
    BY DEF FirstData, SelectInSeq
  <1>2. I \in SUBSET Nat /\ I # {}
    BY <1>1
  <1>3. FirstData(q) \in I /\ \A y \in I : FirstData(q) <= y
    BY <1>1, <1>2, Least
  <1> QED BY <1>3

(* A stream is found where it is. *)
LEMMA StreamIs ==
  ASSUME NEW q \in Seq(Queued), NEW s, NEW k, k = FirstOf(q, s), k # 0
  PROVE  k \in 1..Len(q) /\ q[k].s = s
  <1> DEFINE I == {i \in 1..Len(q) : q[i].s = s}
  <1>1. k = IF I # {} THEN Min(I) ELSE 0
    BY DEF FirstOf, SelectInSeq
  <1>2. I \in SUBSET Nat /\ I # {}
    BY <1>1
  <1>3. k \in I
    BY <1>1, <1>2, Least
  <1> QED BY <1>3

(* A round of the loop turns a data event into one more loss of its stream. *)
LEMMA HeldDropped ==
  ASSUME NEW q \in Seq(Queued), FirstData(q) # 0
  PROVE  DropOldest(q) \in Seq(Queued) /\ \A s : Held(DropOldest(q), s) = Held(q, s)
  <1> DEFINE f == FirstData(q)
             st == q[f].s
             a == SubSeq(q, 1, f - 1)
             b == SubSeq(q, f + 1, Len(q))
             rest == a \o b
             i == HeadReport(q, f, st)
             gap == [t |-> "gap", s |-> st, n |-> 1]
  <1>1. /\ f \in 1..Len(q) /\ ~IsGap(q[f]) /\ \A k \in 1..(f - 1) : IsGap(q[k])
    BY FirstIs
  <1>2. DropOldest(q) = IF i # 0 THEN [rest EXCEPT ![i].n = @ + 1] ELSE <<gap>> \o rest
    BY DEF DropOldest, RemoveAt
  <1>3. i = FirstOf(a, st)
    BY DEF HeadReport
  <1> HIDE DEF f, i
  <1>4. /\ a \in Seq(Queued) /\ b \in Seq(Queued) /\ Len(a) = f - 1
        /\ \A k \in 1..(f - 1) : a[k] = q[k]
    BY <1>1
  <1>5. q[f] \in Queued /\ st \in Streams /\ \A s : Weight(q[f], s) = IF st # s THEN 0 ELSE 1
    <2>1. q[f] \in Queued
      BY <1>1
    <2> HIDE DEF f
    <2>2. st \in Streams
      BY <2>1 DEF Queued
    <2>3. \A s : Weight(q[f], s) = IF st # s THEN 0 ELSE 1
      BY <1>1 DEF Weight
    <2> QED BY <2>1, <2>2, <2>3
  <1>6. \A s : Held(q, s) = Held(a, s) + Weight(q[f], s) + Held(b, s)
    BY <1>1, HeldAround
  <1> HIDE DEF a, b
  <1>7. rest \in Seq(Queued) /\ \A s : Held(rest, s) = Held(a, s) + Held(b, s)
    BY <1>4, HeldJoined
  <1>8. \A s : Held(a, s) \in Nat /\ Held(b, s) \in Nat
    BY <1>4, UnitsFinite
  <1> HIDE DEF st
  <1>9. \A s : Held(q, s) = Held(rest, s) + (IF st # s THEN 0 ELSE 1)
    BY <1>5, <1>6, <1>7, <1>8
  <1>10. CASE i # 0
    <2>1. i \in 1..Len(a) /\ a[i].s = st
      BY <1>3, <1>4, <1>10, StreamIs
    <2>2. i \in 1..Len(rest) /\ rest[i] = a[i] /\ IsGap(a[i]) /\ a[i] \in Queued
      <3>1. i \in 1..Len(rest) /\ rest[i] = a[i]
        <4>1. /\ Len(rest) = Len(a) + Len(b)
              /\ \A k \in 1..(Len(a) + Len(b)) :
                   rest[k] = IF k <= Len(a) THEN a[k] ELSE b[k - Len(a)]
          BY <1>4, ConcatProperties
        <4>2. Len(a) \in Nat /\ Len(b) \in Nat
          BY <1>4
        <4>3. i \in 1..(Len(a) + Len(b)) /\ i <= Len(a)
          BY <2>1, <4>2
        <4> QED BY <4>1, <4>3
      <3>2. i \in 1..(f - 1) /\ a[i] = q[i] /\ a[i] \in Queued
        BY <1>4, <2>1
      <3> QED BY <1>1, <3>1, <3>2
    <2> HIDE DEF rest
    <2> DEFINE e == [rest[i] EXCEPT !.n = @ + 1]
    <2>3. e \in Queued /\ e.s = st /\ IsGap(e) /\ e.n = rest[i].n + 1 /\ rest[i].n \in Nat
      <3>1. PICK x : x = rest[i]
        OBVIOUS
      <3>2. x \in Queued /\ x.t = "gap" /\ x.s = st
        BY <2>1, <2>2, <3>1 DEF IsGap
      <3>3. e = [x EXCEPT !.n = @ + 1]
        BY <3>1
      <3> HIDE DEF e
      <3> QED BY <3>1, <3>2, <3>3 DEF Queued, IsGap
    <2>4. DropOldest(q) = [rest EXCEPT ![i] = e]
      BY <1>2, <1>10
    <2> HIDE DEF e
    <2>5. /\ DropOldest(q) \in Seq(Queued)
          /\ \A s : Held(DropOldest(q), s) = Held(rest, s) - Weight(rest[i], s) + Weight(e, s)
      <3>1. ASSUME NEW s
            PROVE  /\ DropOldest(q) \in Seq(Queued)
                   /\ Held(DropOldest(q), s)
                        = Held(rest, s) - Weight(rest[i], s) + Weight(e, s)
        <4>1. PICK r : r = [rest EXCEPT ![i] = e]
          OBVIOUS
        <4>2. /\ r \in Seq(Queued) /\ Len(r) = Len(rest) /\ r[i] = e
              /\ \A k \in 1..Len(rest) : k # i => r[k] = rest[k]
          BY <1>7, <2>2, <2>3, <4>1
        <4>3. Held(r, s) = Held(rest, s) - Weight(rest[i], s) + Weight(r[i], s)
          BY <1>7, <2>2, <4>2, HeldReplaced
        <4> QED BY <2>4, <4>1, <4>2, <4>3
      <3> QED BY <3>1
    <2>6. \A s : /\ Weight(rest[i], s) = IF st # s THEN 0 ELSE rest[i].n
                 /\ Weight(e, s) = IF st # s THEN 0 ELSE rest[i].n + 1
      BY <2>1, <2>2, <2>3 DEF Weight
    <2>7. \A s : Held(rest, s) \in Nat
      BY <1>7, UnitsFinite
    <2> QED BY <1>9, <2>3, <2>5, <2>6, <2>7
  <1>11. CASE i = 0
    <2>1. gap \in Queued /\ \A s : Weight(gap, s) = IF st # s THEN 0 ELSE 1
      BY <1>5 DEF Queued, Weight, IsGap, st
    <2> HIDE DEF gap, rest
    <2>2. <<gap>> \in Seq(Queued)
      BY <2>1
    <2>3. DropOldest(q) = <<gap>> \o rest
      BY <1>2, <1>11
    <2>4. /\ DropOldest(q) \in Seq(Queued)
          /\ \A s : Held(DropOldest(q), s) = Held(<<gap>>, s) + Held(rest, s)
      <3>1. ASSUME NEW s
            PROVE  /\ DropOldest(q) \in Seq(Queued)
                   /\ Held(DropOldest(q), s) = Held(<<gap>>, s) + Held(rest, s)
        <4>1. PICK o : o = <<gap>>
          OBVIOUS
        <4>2. o \o rest \in Seq(Queued) /\ Held(o \o rest, s) = Held(o, s) + Held(rest, s)
          BY <1>7, <2>2, <4>1, HeldJoined
        <4> QED BY <2>3, <4>1, <4>2, Zenon
      <3> QED BY <3>1
    <2>5. \A s : Held(<<gap>>, s) = Weight(gap, s) /\ Held(rest, s) \in Nat
      BY <1>7, <2>1, HeldOne, UnitsFinite
    <2> QED BY <1>9, <2>1, <2>4, <2>5
  <1> QED BY <1>10, <1>11

(* Making room loses nothing, whatever number of rounds it takes. *)
LEMMA HeldRoom ==
  ASSUME NEW q \in Seq(Queued)
  PROVE  MakeRoom(q) \in Seq(Queued) /\ \A s : Held(MakeRoom(q), s) = Held(q, s)
  <1> DEFINE R(n) == Rounds(q)[n]
             Good(r) == r \in Seq(Queued) /\ \A s : Held(r, s) = Held(q, s)
             T == {n \in Nat : ~Good(R(n))}
  <1>1. /\ R(0) = q /\ \A n \in Nat \ {0} : R(n) = Round(R(n - 1))
    BY RoundByRound
  <1> HIDE DEF R
  <1>2. ASSUME NEW r, Good(r) PROVE Good(Round(r))
    BY <1>2, HeldDropped DEF Round
  <1> HIDE DEF Good
  <1>3. T = {}
    <2>1. SUFFICES ASSUME T # {} PROVE FALSE
      OBVIOUS
    <2>2. PICK m \in Nat : m \in T /\ \A y \in T : m <= y
      <3>1. T \in SUBSET Nat
        OBVIOUS
      <3> QED BY <2>1, <3>1, Least
    <2>3. Good(R(0))
      BY <1>1 DEF Good
    <2>4. m # 0
      BY <2>2, <2>3
    <2>5. m - 1 \in Nat /\ m - 1 \notin T /\ R(m) = Round(R(m - 1))
      BY <1>1, <2>2, <2>4
    <2>6. Good(R(m - 1))
      BY <2>5
    <2>7. Good(R(m))
      BY <1>2, <2>5, <2>6
    <2> QED BY <2>2, <2>7
  <1>4. Len(q) \in Nat
    OBVIOUS
  <1>5. Good(R(Len(q)))
    BY <1>3, <1>4
  <1> QED BY <1>5 DEF Good, R, MakeRoom

(* Queueing an event adds its weight, also when room has to be made for it. *)
LEMMA HeldQueued ==
  ASSUME NEW q \in Seq(Queued), NEW e \in Queued
  PROVE  /\ _queue_event(q, e) \in Seq(Queued)
         /\ \A s : Held(_queue_event(q, e), s) = Held(q, s) + Weight(e, s)
  <1>1. PICK r : r = MakeRoom(q)
    OBVIOUS
  <1>2. r \in Seq(Queued) /\ \A s : Held(r, s) = Held(q, s)
    BY <1>1, HeldRoom
  <1>3. PICK o : o = <<e>>
    OBVIOUS
  <1>4. o \in Seq(Queued) /\ \A s : Held(o, s) = Weight(e, s)
    BY <1>3, HeldOne
  <1>5. _queue_event(q, e) = r \o o
    BY <1>1, <1>2, <1>3, AppendIsConcat DEF _queue_event
  <1>6. ASSUME NEW s
        PROVE  r \o o \in Seq(Queued) /\ Held(r \o o, s) = Held(q, s) + Weight(e, s)
    <2>1. r \o o \in Seq(Queued) /\ Held(r \o o, s) = Held(r, s) + Held(o, s)
      BY <1>2, <1>4, HeldJoined
    <2> QED BY <1>2, <1>4, <2>1
  <1> QED BY <1>5, <1>6

(* Searching the queue takes out one event and keeps the others. *)
LEMMA HeldRotated ==
  ASSUME NEW q \in Seq(Queued), NEW k \in 1..Len(q)
  PROVE  /\ Rotate(q, k) \in Seq(Queued)
         /\ \A s : Held(q, s) = Held(Rotate(q, k), s) + Weight(q[k], s)
  <1> SUFFICES ASSUME NEW s
               PROVE  /\ Rotate(q, k) \in Seq(Queued)
                      /\ Held(q, s) = Held(Rotate(q, k), s) + Weight(q[k], s)
    OBVIOUS
  <1> DEFINE a == SubSeq(q, 1, k - 1)
             b == SubSeq(q, k + 1, Len(q))
  <1>1. /\ a \in Seq(Queued) /\ b \in Seq(Queued) /\ q[k] \in Queued
        /\ Held(q, s) = Held(a, s) + Weight(q[k], s) + Held(b, s)
    BY HeldAround
  <1>2. Rotate(q, k) = b \o a
    BY DEF Rotate
  <1> HIDE DEF a, b
  <1>3. b \o a \in Seq(Queued) /\ Held(b \o a, s) = Held(b, s) + Held(a, s)
    BY <1>1, HeldJoined
  <1>4. Held(a, s) \in Nat /\ Held(b, s) \in Nat /\ Weight(q[k], s) \in Nat
    BY <1>1, UnitsFinite, WeightTyped
  <1> QED BY <1>1, <1>2, <1>3, <1>4

-----------------------------------------------------------------------------
\* The invariant of the queue

KeepTyped == pending \in Seq(Queued) /\ nread \in [Streams -> Nat] /\ acct \in [Streams -> Nat]
KeepInv == KeepTyped /\ \A s \in Streams : nread[s] = acct[s] + Held(pending, s)

(* An event that is read has a stream; numbered, it counts for one. *)
LEMMA EventNumbered ==
  ASSUME Shapes, KeepTyped, Len(rx) >= 2, FrameRead.t = "event"
  PROVE  /\ FrameRead.s \in Streams /\ Numbered(FrameRead) \in Queued
         /\ Numbered(FrameRead).s = FrameRead.s /\ ~IsGap(Numbered(FrameRead))
         /\ \A s : Weight(Numbered(FrameRead), s) = IF FrameRead.s # s THEN 0 ELSE 1
  <1>1. rx[1] \in Chunks
    BY DEF Shapes
  <1>2. FrameRead \in Frames
    <2>1. CASE Aligned
      BY <1>1, <2>1 DEF FrameRead, Chunks
    <2>2. CASE ~Aligned
      BY <2>2 DEF FrameRead
    <2> QED BY <2>1, <2>2
  <1>3. PICK f : f = FrameRead
    OBVIOUS
  <1>4. f.s \in Streams
    BY <1>2, <1>3 DEF Frames
  <1>5. nread[f.s] + 1 \in Nat \ {0}
    BY <1>4 DEF KeepTyped
  <1>6. PICK e : e = [t |-> "data", s |-> f.s, n |-> nread[f.s] + 1]
    OBVIOUS
  <1>7. e \in Queued /\ e.s = f.s /\ e.t # "gap"
    BY <1>4, <1>5, <1>6 DEF Queued
  <1>8. Numbered(FrameRead) = e
    BY <1>3, <1>6 DEF Numbered
  <1>9. \A s : Weight(e, s) = IF f.s # s THEN 0 ELSE 1
    BY <1>7 DEF Weight, IsGap
  <1> QED BY <1>3, <1>4, <1>7, <1>8, <1>9 DEF IsGap

(* Delivering an event accounts for its weight. *)
LEMMA Delivered ==
  ASSUME NEW e \in Queued, acct \in [Streams -> Nat], Deliver(e)
  PROVE  acct' \in [Streams -> Nat] /\ \A s \in Streams : acct'[s] = acct[s] + Weight(e, s)
  <1>1. e.s \in Streams /\ e.n \in Nat
    BY DEF Queued
  <1>2. CASE IsGap(e)
    BY <1>1, <1>2 DEF Deliver, Weight
  <1>3. CASE ~IsGap(e)
    BY <1>1, <1>3 DEF Deliver, Weight
  <1> QED BY <1>2, <1>3

(* An event that is read and queued. *)
LEMMA KeepQueued ==
  ASSUME Shapes, KeepInv, Len(rx) >= 2, FrameRead.t = "event",
         pending' = _queue_event(pending, Numbered(FrameRead)),
         nread' = [nread EXCEPT ![FrameRead.s] = @ + 1], acct' = acct
  PROVE  KeepInv'
  <1>1. KeepTyped /\ \A s \in Streams : nread[s] = acct[s] + Held(pending, s)
    BY DEF KeepInv
  <1>2. PICK e : e = Numbered(FrameRead)
    OBVIOUS
  <1>3. /\ FrameRead.s \in Streams /\ e \in Queued
        /\ \A s : Weight(e, s) = IF FrameRead.s # s THEN 0 ELSE 1
    BY <1>1, <1>2, EventNumbered
  <1>4. /\ pending \in Seq(Queued) /\ nread \in [Streams -> Nat]
        /\ acct \in [Streams -> Nat]
    BY <1>1 DEF KeepTyped
  <1>5. /\ pending' \in Seq(Queued)
        /\ \A s : Held(pending', s) = Held(pending, s) + Weight(e, s)
    BY <1>2, <1>3, <1>4, HeldQueued
  <1>6. KeepTyped'
    BY <1>3, <1>4, <1>5 DEF KeepTyped
  <1>7. ASSUME NEW s \in Streams PROVE nread'[s] = acct'[s] + Held(pending', s)
    <2>1. Held(pending, s) \in Nat /\ acct[s] \in Nat /\ nread[s] \in Nat
      BY <1>4, UnitsFinite
    <2>2. nread'[s] = nread[s] + Weight(e, s) /\ Weight(e, s) \in Nat
      BY <1>3, <1>4
    <2> QED BY <1>1, <1>5, <2>1, <2>2
  <1> QED BY <1>6, <1>7 DEF KeepInv

(* An event that is read and delivered at once. *)
LEMMA KeepDelivered ==
  ASSUME Shapes, KeepInv, Len(rx) >= 2, FrameRead.t = "event", Deliver(Numbered(FrameRead)),
         nread' = [nread EXCEPT ![FrameRead.s] = @ + 1], pending' = pending
  PROVE  KeepInv'
  <1>1. KeepTyped /\ \A s \in Streams : nread[s] = acct[s] + Held(pending, s)
    BY DEF KeepInv
  <1>2. PICK e : e = Numbered(FrameRead)
    OBVIOUS
  <1>3. /\ FrameRead.s \in Streams /\ e \in Queued
        /\ \A s : Weight(e, s) = IF FrameRead.s # s THEN 0 ELSE 1
    BY <1>1, <1>2, EventNumbered
  <1>4. /\ pending \in Seq(Queued) /\ nread \in [Streams -> Nat]
        /\ acct \in [Streams -> Nat]
    BY <1>1 DEF KeepTyped
  <1>5. /\ acct' \in [Streams -> Nat]
        /\ \A s \in Streams : acct'[s] = acct[s] + Weight(e, s)
    BY <1>2, <1>3, <1>4, Delivered
  <1>6. KeepTyped'
    BY <1>3, <1>4, <1>5 DEF KeepTyped
  <1>7. ASSUME NEW s \in Streams PROVE nread'[s] = acct'[s] + Held(pending', s)
    <2>1. Held(pending, s) \in Nat /\ acct[s] \in Nat /\ nread[s] \in Nat
      BY <1>4, UnitsFinite
    <2>2. nread'[s] = nread[s] + Weight(e, s) /\ Weight(e, s) \in Nat
      BY <1>3, <1>4
    <2> QED BY <1>1, <1>5, <2>1, <2>2
  <1> QED BY <1>6, <1>7 DEF KeepInv

(* A poll that finds something queued. *)
LEMMA KeepPolled ==
  ASSUME KeepInv, NEW st \in Streams, _poll_pending(st) PROVE KeepInv'
  <1>1. KeepTyped /\ \A s \in Streams : nread[s] = acct[s] + Held(pending, s)
    BY DEF KeepInv
  <1>2. /\ pending \in Seq(Queued) /\ nread \in [Streams -> Nat]
        /\ acct \in [Streams -> Nat]
    BY <1>1 DEF KeepTyped
  <1>3. PICK k : k = FirstOf(pending, st)
    OBVIOUS
  <1>4. /\ k # 0 /\ pending' = Rotate(pending, k) /\ Deliver(pending[k]) /\ nread' = nread
    BY <1>3 DEF _poll_pending
  <1>5. k \in 1..Len(pending)
    BY <1>2, <1>3, <1>4, StreamIs
  <1>6. PICK e : e = pending[k]
    OBVIOUS
  <1>7. e \in Queued /\ Deliver(e)
    BY <1>2, <1>4, <1>5, <1>6
  <1>8. /\ pending' \in Seq(Queued)
        /\ \A s : Held(pending, s) = Held(pending', s) + Weight(e, s)
    BY <1>2, <1>4, <1>5, <1>6, HeldRotated
  <1>9. /\ acct' \in [Streams -> Nat]
        /\ \A s \in Streams : acct'[s] = acct[s] + Weight(e, s)
    BY <1>2, <1>7, Delivered
  <1>10. ASSUME NEW s \in Streams PROVE nread'[s] = acct'[s] + Held(pending', s)
    <2>1. Held(pending', s) \in Nat /\ acct[s] \in Nat /\ Weight(e, s) \in Nat
      BY <1>2, <1>7, <1>8, UnitsFinite, WeightTyped
    <2> QED BY <1>1, <1>4, <1>8, <1>9, <2>1
  <1> QED BY <1>2, <1>4, <1>8, <1>9, <1>10 DEF KeepInv, KeepTyped

(* Every step keeps the account. *)
LEMMA KeepStep == ASSUME Next, Shapes, KeepInv PROVE KeepInv'
  <1>1. ASSUME UNCHANGED <<pending, nread, acct>> PROVE KeepInv'
    BY <1>1 DEF KeepInv, KeepTyped
  <1>2. CASE disconnect
    <2>1. pending' = <<>> /\ nread' = Zero /\ acct' = Zero
      BY <1>2 DEF disconnect
    <2>2. \A s : Held(<<>>, s) = 0
      BY HeldEmpty
    <2>3. <<>> \in Seq(Queued) /\ Zero \in [Streams -> Nat]
      BY DEF Zero
    <2> QED BY <2>1, <2>2, <2>3 DEF KeepInv, KeepTyped, Zero
  <1>3. ASSUME NEW s \in Streams, _poll_pending(s) PROVE KeepInv'
    BY <1>3, KeepPolled
  <1>4. CASE _rpc_unlocked
    <2>1. CASE FrameRead.t = "event"
      BY <1>4, <2>1, KeepQueued DEF _rpc_unlocked, FrameReady
    <2>2. CASE FrameRead.t # "event"
      BY <1>1, <1>4, <2>2 DEF _rpc_unlocked, logVars
    <2> QED BY <2>1, <2>2
  <1>5. CASE _poll_read
    <2>1. CASE FrameRead.t = "event"
      <3>1. /\ Len(rx) >= 2 /\ nread' = [nread EXCEPT ![FrameRead.s] = @ + 1]
            /\ \/ Deliver(Numbered(FrameRead)) /\ pending' = pending
               \/ pending' = _queue_event(pending, Numbered(FrameRead)) /\ acct' = acct
        BY <1>5, <2>1 DEF _poll_read, FrameReady
      <3> QED BY <2>1, <3>1, KeepQueued, KeepDelivered
    <2>2. CASE FrameRead.t # "event"
      BY <1>1, <1>5, <2>2 DEF _poll_read, logVars
    <2> QED BY <2>1, <2>2
  <1>6. CASE \/ connect \/ NotConnected \/ _dial_with_attach \/ resolve_dial_failure
             \/ wait_for_parent_socket \/ _require_parent_flock \/ _handshake_write
             \/ _handshake \/ _handshake_timeout \/ _fill \/ _rpc_timeout \/ _poll_timeout
             \/ FatalRead \/ Deadline
    BY <1>1, <1>6 DEF connect, NotConnected, _dial_with_attach, resolve_dial_failure,
         wait_for_parent_socket, _require_parent_flock, _handshake_write, _handshake,
         _handshake_timeout, _fill, _rpc_timeout, _poll_timeout, FatalRead, Deadline, logVars
  <1>7. ASSUME NEW kind \in Kinds, _write_frame(kind) PROVE KeepInv'
    BY <1>1, <1>7 DEF _write_frame, logVars
  <1>8. ASSUME NEW s \in Streams, NEW timed \in BOOLEAN, _poll_filtered(s, timed)
        PROVE  KeepInv'
    BY <1>1, <1>8 DEF _poll_filtered, logVars
  <1>9. CASE ParentSteps
    <2>1. UNCHANGED <<pending, nread, acct>>
      BY <1>9 DEF ParentSteps, ParentStarts, ParentBinds, ParentDies, ParentFlushes,
                  ParentGreets, ParentEvent, ParentTakes, ParentAnswers, Emit, logVars
    <2> QED BY <1>1, <2>1
  <1> QED BY <1>2, <1>3, <1>4, <1>5, <1>6, <1>7, <1>8, <1>9 DEF Next, Calls, CallSteps

(* Past the bound the oldest events are dropped and reported, never silently     *)
(* (_queue_event): what was read on a stream has been delivered, reported lost,  *)
(* or waits in the queue, through overflows, searches and reconnects.            *)
THEOREM NothingReadVanishes == Spec => []NothingVanishes
  <1>1. Init => KeepInv
    <2>1. ASSUME Init PROVE KeepInv
      <3>1. pending = <<>> /\ nread = Zero /\ acct = Zero
        BY <2>1 DEF Init
      <3>2. \A s : Held(<<>>, s) = 0
        BY HeldEmpty
      <3>3. <<>> \in Seq(Queued) /\ Zero \in [Streams -> Nat]
        BY DEF Zero
      <3> QED BY <3>1, <3>2, <3>3 DEF KeepInv, KeepTyped, Zero
    <2> QED BY <2>1
  <1>2. WireInv /\ KeepInv /\ [Next]_vars => KeepInv'
    <2>1. ASSUME UNCHANGED vars, KeepInv PROVE KeepInv'
      BY <2>1 DEF vars, KeepInv, KeepTyped
    <2> QED BY <2>1, KeepStep DEF WireInv
  <1>3. KeepInv => NothingVanishes
    BY DEF KeepInv, NothingVanishes, Waiting, Held
  <1> QED BY <1>1, <1>2, <1>3, WireInvariant, PTL DEF Spec
=============================================================================
