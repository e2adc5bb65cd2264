------------------------------ MODULE LaneProofs ------------------------------
(***************************************************************************)
(* Proofs about the stream lane.                                            *)
(*                                                                          *)
(* Nothing queued vanishes: `drain` and `finish` only move messages between *)
(* channel, carry, batch and the counts (DrainedFacts, FinishFacts), and    *)
(* the one drain that starts without the carry meets an empty one           *)
(* (NothingCarried).                                                        *)
(*                                                                          *)
(* A failure comes behind its events: a recorded failure counts no more     *)
(* messages than its forwarder queued (Recorded), the take that reports it  *)
(* has found the channel empty, and what is queued later is numbered higher *)
(* (BehindEvents).                                                          *)
(*                                                                          *)
(* No wake-up is lost: from the moment it registers, whatever the consumer  *)
(* has seen still holds, or a notification is pending, or the attach or     *)
(* detach that will send one is under way (Awake).                          *)
(*                                                                          *)
(* A consumer never goes back: channel and carry are in order behind what   *)
(* was handed out (OrderInv), and a drain for an older generation than that *)
(* finds nothing, because attachments have odd generations (Attachments).   *)
(***************************************************************************)
EXTENDS Lane, FiniteSetTheorems, SequenceTheorems, NaturalsInduction,
        WellFoundedInduction, TLAPS

-----------------------------------------------------------------------------
Fails == [gen : Gens, ahead : Nat]
Steps == {"idle", "load_up", "load_gen", "drain", "take_fail", "late_fail", "put_back",
          "load_closed", "late_closed", "wait", "down", "wait_up"}
Takes == [step : Steps, max : Nat \ {0}, up : BOOLEAN, current : Int, fail : Fails]

Typed ==
    /\ chan \in Seq(Msg) /\ carry \in Seq(Msg)
    /\ stale \in Nat /\ queued \in Nat /\ handed \in Nat /\ reported \in Nat
    /\ sent \in [Gens -> Nat]
    /\ generation \in Nat /\ up \in BOOLEAN
    /\ fail \in Fails /\ con \in Takes

(* The steps of a take behind the drain found nothing carried. *)
NothingCarried ==
    con.step \in {"take_fail", "load_closed", "wait"} => carry = <<>>

CountInv == Typed /\ NothingCarried /\ NothingVanishes

-----------------------------------------------------------------------------
(* A non-empty set of naturals has a least element, and Min is it. *)
LEMMA MinOf ==
  ASSUME NEW T \in SUBSET Nat, T # {}
  PROVE  Min(T) \in T /\ \A y \in T : Min(T) <= y
<1> DEFINE R == OpToRel(<, Nat)
<1>1. IsWellFoundedOn(R, Nat)
  BY NatLessThanWellFounded
<1>2. \A x, y \in Nat : <<x, y>> \in R <=> x < y
  BY DEF OpToRel
<1> HIDE DEF R
<1>3. PICK x \in T : \A y \in T : ~ (<<y, x>> \in R)
  BY <1>1, WFMin
<1>4. ASSUME NEW y \in T PROVE x <= y
  <2>1. x \in Nat /\ y \in Nat /\ ~ (<<y, x>> \in R)
    BY <1>3
  <2>2. ~ (y < x)
    BY <1>2, <2>1
  <2> QED BY <2>1, <2>2
<1> QED BY <1>4 DEF Min

(* The places of a generation in a sequence. *)
LEMMA PlacesCounted ==
  ASSUME NEW s \in Seq(Msg), NEW g
  PROVE  /\ IsFiniteSet(Places(s, g))
         /\ Cardinality(Places(s, g)) \in Nat
         /\ Cardinality(Places(s, g)) <= Len(s)
<1>1. Len(s) \in Nat /\ 1 \in Int /\ Len(s) \in Int
  OBVIOUS
<1>2. IsFiniteSet(1..Len(s)) /\ Cardinality(1..Len(s)) = Len(s)
  <2>1. /\ IsFiniteSet(1..Len(s))
        /\ Cardinality(1..Len(s)) = IF 1 > Len(s) THEN 0 ELSE Len(s) - 1 + 1
    BY <1>1, FS_Interval
  <2>2. (IF 1 > Len(s) THEN 0 ELSE Len(s) - 1 + 1) = Len(s)
    BY <1>1
  <2> QED BY <2>1, <2>2
<1>3. Places(s, g) \subseteq 1..Len(s)
  BY DEF Places
<1> QED BY <1>2, <1>3, FS_Subset, FS_CardinalityType

(* The j-th place of a generation exists, for every j up to their number. *)
Upto(s, g, m) == {h \in Places(s, g) : h <= m}

(* Each rank has its place. *)
LEMMA PlaceExists ==
  ASSUME NEW s \in Seq(Msg), NEW g, NEW j \in 1..Cardinality(Places(s, g))
  PROVE  /\ Place(s, g, j) \in Places(s, g)
         /\ Cardinality(Upto(s, g, Place(s, g, j))) = j
<1> DEFINE P == Places(s, g)
           U(m) == Upto(s, g, m)
           N(m) == Cardinality(U(m))
           T == {m \in 0..Len(s) : N(m) >= j}
<1>1. IsFiniteSet(P) /\ Cardinality(P) \in Nat /\ P \subseteq 1..Len(s) /\ Len(s) \in Nat
  <2>1. IsFiniteSet(P) /\ Cardinality(P) \in Nat
    BY PlacesCounted
  <2>2. P \subseteq 1..Len(s)
    BY DEF Places
  <2> QED BY <2>1, <2>2
<1>2. \A m \in Nat : U(m) \subseteq P
  BY DEF Upto
<1>3. U(Len(s)) = P /\ U(0) = {}
  BY <1>1 DEF Upto
<1>4. ASSUME NEW m \in 1..Len(s)
      PROVE  /\ m \in P => U(m) = U(m - 1) \cup {m} /\ m \notin U(m - 1)
             /\ m \notin P => U(m) = U(m - 1)
  BY <1>1 DEF Upto
<1>5. \A m \in P : N(m) = j => Place(s, g, j) \in P /\ N(Place(s, g, j)) = j
  BY DEF Place, Upto
<1>6. j \in 1..Cardinality(P)
  OBVIOUS
<1> HIDE DEF P, U
<1>7. \A m \in Nat : IsFiniteSet(U(m)) /\ N(m) \in Nat
  BY <1>1, <1>2, FS_Subset, FS_CardinalityType
<1>8. N(Len(s)) = Cardinality(P) /\ N(0) = 0
  BY <1>3, FS_EmptySet
<1>9. ASSUME NEW m \in 1..Len(s)
      PROVE  N(m) = IF m \in P THEN N(m - 1) + 1 ELSE N(m - 1)
  <2>1. IsFiniteSet(U(m - 1))
    BY <1>1, <1>7
  <2>2. CASE m \in P
    <3>1. U(m) = U(m - 1) \cup {m} /\ m \notin U(m - 1)
      BY <1>4, <2>2
    <3>2. Cardinality(U(m - 1) \cup {m}) = Cardinality(U(m - 1)) + 1
      BY <2>1, <3>1, FS_AddElement
    <3> QED BY <2>2, <3>1, <3>2
  <2>3. CASE m \notin P
    BY <1>4, <2>3
  <2> QED BY <2>2, <2>3
<1> HIDE DEF N
<1>10. T \in SUBSET Nat /\ T # {}
  <2>1. Len(s) \in T
    BY <1>1, <1>6, <1>8
  <2> QED BY <1>1, <2>1
<1>11. PICK m \in T : \A y \in T : m <= y
  BY <1>10, MinOf
<1>12. m \in 1..Len(s) /\ N(m) >= j /\ ~ (N(m - 1) >= j)
  <2>1. m \in 0..Len(s) /\ N(m) >= j
    OBVIOUS
  <2>2. m # 0
    BY <1>1, <1>6, <1>8, <2>1
  <2>3. m - 1 \in 0..Len(s) /\ m - 1 \notin T
    BY <1>1, <1>11, <2>1, <2>2
  <2> QED BY <1>1, <2>1, <2>2, <2>3
<1>13. m \in P /\ N(m) = j
  <2>1. N(m) \in Nat /\ N(m - 1) \in Nat /\ j \in Nat
    BY <1>1, <1>6, <1>7, <1>12
  <2> QED BY <1>9, <1>12, <2>1
<1>14. Place(s, g, j) \in P /\ N(Place(s, g, j)) = j
  BY <1>5, <1>13
<1> QED BY <1>14 DEF P, N, U

(* Places come in order. *)
LEMMA PlacesRise ==
  ASSUME NEW s \in Seq(Msg), NEW g, NEW j \in 1..Cardinality(Places(s, g)),
         NEW l \in 1..Cardinality(Places(s, g)), j < l
  PROVE  Place(s, g, j) < Place(s, g, l)
<1> DEFINE p == Place(s, g, j)
           q == Place(s, g, l)
<1>1. /\ p \in Places(s, g) /\ Cardinality(Upto(s, g, p)) = j
      /\ q \in Places(s, g) /\ Cardinality(Upto(s, g, q)) = l
  BY PlaceExists
<1>2. p \in Nat /\ q \in Nat /\ Places(s, g) \subseteq 1..Len(s)
  BY <1>1 DEF Places
<1> HIDE DEF p, q
<1>3. ASSUME q <= p PROVE FALSE
  <2>1. Upto(s, g, q) \subseteq Upto(s, g, p)
    BY <1>2, <1>3 DEF Upto
  <2>2. IsFiniteSet(Upto(s, g, p))
    BY PlacesCounted, FS_Subset DEF Upto
  <2>3. l <= j
    BY <1>1, <2>1, <2>2, FS_Subset
  <2>4. j \in Nat /\ l \in Nat
    BY PlacesCounted
  <2> QED BY <2>3, <2>4
<1> QED BY <1>2, <1>3 DEF p, q

(* OfGen(s, g) is a sequence of messages of s, all of generation g. *)
LEMMA OfGenFacts ==
  ASSUME NEW s \in Seq(Msg), NEW g
  PROVE  /\ OfGen(s, g) \in Seq(Msg)
         /\ Len(OfGen(s, g)) \in 0..Len(s)
         /\ \A j \in 1..Len(OfGen(s, g)) : OfGen(s, g)[j].gen = g
<1> DEFINE n == Cardinality(Places(s, g))
<1>1. n \in Nat /\ n <= Len(s)
  BY PlacesCounted
<1>2. \A j \in 1..n : Place(s, g, j) \in Places(s, g)
  BY PlaceExists
<1>3. \A j \in 1..n : s[Place(s, g, j)] \in Msg /\ s[Place(s, g, j)].gen = g
  BY <1>2 DEF Places
<1>4. OfGen(s, g) = [j \in 1..n |-> s[Place(s, g, j)]]
  BY DEF OfGen
<1> HIDE DEF n
<1>5. OfGen(s, g) \in [1..n -> Msg]
  BY <1>3, <1>4
<1>6. OfGen(s, g) \in Seq(Msg) /\ Len(OfGen(s, g)) = n
  BY <1>1, <1>5, IsASeq, LenProperties
<1> QED BY <1>1, <1>3, <1>4, <1>6

-----------------------------------------------------------------------------
(* How far a drain reads. *)
LEMMA ScannedFacts ==
  ASSUME chan \in Seq(Msg), NEW want \in Nat, NEW g
  PROVE  /\ Scanned(want, g) \in 0..Len(chan)
         /\ want > 0 /\ Scanned(want, g) = 0 => chan = <<>>
<1>1. CASE want = 0
  BY <1>1 DEF Scanned
<1>2. CASE want # 0
  <2> DEFINE T == {k \in 0..Len(chan) : Len(OfGen(SubSeq(chan, 1, k), g)) = want}
                    \cup {Len(chan)}
  <2>1. T \in SUBSET Nat /\ Len(chan) \in T
    OBVIOUS
  <2>2. Min(T) \in T
    BY <2>1, MinOf
  <2>3. Scanned(want, g) = Min(T)
    BY <1>2 DEF Scanned
  <2>4. 0 \in T => Len(chan) = 0
    <3> DEFINE e == SubSeq(chan, 1, 0)
    <3>1. e \in Seq(Msg) /\ Len(e) = 0
      OBVIOUS
    <3> HIDE DEF e
    <3>2. Len(OfGen(e, g)) \in 0..Len(e)
      BY <3>1, OfGenFacts
    <3>3. Len(OfGen(e, g)) = 0
      BY <3>1, <3>2
    <3> QED BY <1>2, <3>3 DEF e
  <2>5. Len(chan) = 0 => chan = <<>>
    OBVIOUS
  <2>6. T \subseteq 0..Len(chan)
    OBVIOUS
  <2> QED BY <2>2, <2>3, <2>4, <2>5, <2>6
<1> QED BY <1>1, <1>2

(* `drain` moves messages and counts the ones it drops; when it finds        *)
(* nothing, there was nothing.                                               *)
Accounts(d, held) ==
    /\ d.batch \in Seq(Msg) /\ d.carry \in Seq(Msg) /\ d.chan \in Seq(Msg)
    /\ d.lost \in Nat
    /\ Len(d.batch) + Len(d.carry) + Len(d.chan) + d.lost = Len(held) + Len(chan)
    /\ d.batch = <<>> /\ d.lost = 0 =>
         d.carry = <<>> /\ held = <<>> /\ chan = <<>> /\ d.chan = <<>>

(* What a drain accounts for. *)
LEMMA DrainedFacts ==
  ASSUME chan \in Seq(Msg), NEW held \in Seq(Msg), NEW max \in Nat \ {0}, NEW g,
         NEW d, d = Drained(held, max, g)
  PROVE  Accounts(d, held)
<1> DEFINE c == Min({max, Len(held)})
           k == Scanned(max - c, g)
           from == OfGen(SubSeq(chan, 1, k), g)
           first == SubSeq(held, 1, c)
<1>1. c \in 0..Len(held) /\ c <= max /\ (c = 0 => Len(held) = 0)
  <2>1. {max, Len(held)} \in SUBSET Nat
    OBVIOUS
  <2>2. c \in {max, Len(held)} /\ c <= max /\ c <= Len(held)
    BY <2>1, MinOf
  <2> QED BY <2>2
<1> HIDE DEF c
<1>2. k \in 0..Len(chan) /\ (max - c > 0 /\ k = 0 => chan = <<>>)
  BY <1>1, ScannedFacts
<1> HIDE DEF k
<1> DEFINE rest == SubSeq(held, c + 1, Len(held))
           read == SubSeq(chan, 1, k)
           left == SubSeq(chan, k + 1, Len(chan))
<1>3. /\ first \in Seq(Msg) /\ Len(first) = c
      /\ rest \in Seq(Msg) /\ Len(rest) = Len(held) - c
  BY <1>1
<1>4. /\ read \in Seq(Msg) /\ Len(read) = k
      /\ left \in Seq(Msg) /\ Len(left) = Len(chan) - k
  BY <1>2
<1>5. d = [batch |-> first \o from, carry |-> rest, chan |-> left,
           lost |-> k - Len(from)]
  BY DEF Drained, c, k
<1>6. from = OfGen(read, g)
  OBVIOUS
<1> HIDE DEF from, first, rest, read, left
<1>7. from \in Seq(Msg) /\ Len(from) \in 0..k
  BY <1>4, <1>6, OfGenFacts
<1>8. first \o from \in Seq(Msg) /\ Len(first \o from) = Len(first) + Len(from)
  BY <1>3, <1>7, ConcatProperties
<1>9. d.batch = first \o from /\ d.carry = rest /\ d.chan = left
      /\ d.lost = k - Len(from)
  BY <1>5
<1> DEFINE lb == Len(d.batch)
           lf == Len(from)
<1>10. /\ lb = c + lf /\ lf \in 0..k /\ d.lost = k - lf
       /\ Len(d.carry) = Len(held) - c /\ Len(d.chan) = Len(chan) - k
  BY <1>3, <1>4, <1>7, <1>8, <1>9
<1>11. Len(held) \in Nat /\ Len(chan) \in Nat
  OBVIOUS
<1> HIDE DEF lb, lf
<1>12. lb + Len(d.carry) + Len(d.chan) + d.lost = Len(held) + Len(chan) /\ d.lost \in Nat
  BY <1>1, <1>2, <1>10, <1>11
<1>13. ASSUME d.batch = <<>>, d.lost = 0
       PROVE  d.carry = <<>> /\ held = <<>> /\ chan = <<>> /\ d.chan = <<>>
  <2>1. lb = 0
    BY <1>13 DEF lb
  <2>2. c = 0 /\ k = 0
    BY <1>1, <1>2, <1>10, <1>13, <2>1
  <2>3. Len(held) = 0 /\ chan = <<>>
    BY <1>1, <1>2, <2>2
  <2>4. held = <<>> /\ Len(chan) = 0
    BY <2>3, EmptySeq
  <2>5. Len(rest) = 0 /\ Len(left) = 0
    BY <1>3, <1>4, <2>2, <2>3, <2>4
  <2>6. rest = <<>> /\ left = <<>>
    BY <1>3, <1>4, <2>5, EmptySeq
  <2> QED BY <1>9, <2>3, <2>4, <2>6
<1> QED BY <1>3, <1>4, <1>8, <1>9, <1>12, <1>13 DEF lb, Accounts

(* `finish` hands out, reports, and puts the rest in front of the carry. *)
LEMMA FinishFacts ==
  ASSUME NEW d, NEW max \in Nat \ {0}, NEW lost \in Nat, NEW g,
         d.batch \in Seq(Msg), d.carry \in Seq(Msg), handed \in Nat, reported \in Nat,
         Finish(d, max, lost, g)
  PROVE  /\ chan' = d.chan /\ stale' = 0 /\ sent' = sent /\ queued' = queued
         /\ carry' \in Seq(Msg) /\ handed' \in Nat /\ reported' \in Nat
         /\ handed' + reported' + Len(carry')
              = handed + reported + lost + Len(d.batch) + Len(d.carry)
         /\ d.batch = <<>> /\ d.carry = <<>> => carry' = <<>>
<1> DEFINE k == Kept(d.batch, max, lost)
           n == Len(d.batch)
           over == SubSeq(d.batch, k + 1, n)
<1>1. n \in Nat /\ Len(d.carry) \in Nat
  OBVIOUS
<1>2. k \in 0..n
  <2> HIDE DEF n
  <2>1. {max - 1, n} \in SUBSET Nat /\ {max, n} \in SUBSET Nat
    BY <1>1
  <2>2. /\ Min({max - 1, n}) \in Nat /\ Min({max - 1, n}) <= n
        /\ Min({max, n}) \in Nat /\ Min({max, n}) <= n
    BY <2>1, MinOf
  <2>3. k = IF lost > 0 THEN Min({max - 1, n}) ELSE Min({max, n})
    BY DEF Kept, n
  <2> HIDE DEF k
  <2> QED BY <1>1, <2>2, <2>3
<1>3. /\ chan' = d.chan /\ stale' = 0 /\ sent' = sent /\ queued' = queued
      /\ carry' = over \o d.carry
      /\ handed' = handed + k /\ reported' = reported + lost
  BY DEF Finish, Rest
<1> HIDE DEF k
<1>4. over \in Seq(Msg) /\ Len(over) = n - k
  BY <1>1, <1>2
<1> HIDE DEF over
<1>5. carry' \in Seq(Msg) /\ Len(carry') = (n - k) + Len(d.carry)
  <2>1. Len(over \o d.carry) = Len(over) + Len(d.carry) /\ over \o d.carry \in Seq(Msg)
    BY <1>4, ConcatProperties
  <2> QED BY <1>3, <1>4, <2>1
<1> DEFINE l == Len(carry')
           r == Len(d.carry)
<1>6. l = (n - k) + r /\ n \in Nat /\ r \in Nat /\ k \in Int /\ 0 <= k /\ k <= n
  BY <1>1, <1>2, <1>5
<1> HIDE DEF n, l, r
<1>7. handed' \in Nat /\ reported' \in Nat
  BY <1>1, <1>2, <1>3
<1>8. handed' + reported' + l = handed + reported + lost + n + r
  BY <1>3, <1>6
<1>9. ASSUME d.batch = <<>>, d.carry = <<>> PROVE carry' = <<>>
  <2>1. n = 0 /\ r = 0
    BY <1>9 DEF n, r
  <2>2. l = 0
    BY <1>6, <2>1
  <2>3. Len(carry') = 0
    BY <2>2 DEF l
  <2> QED BY <1>5, <2>3, EmptySeq
<1> QED BY <1>3, <1>5, <1>7, <1>8, <1>9 DEF n, l, r

-----------------------------------------------------------------------------
(* A drain and its finish: what was there is handed out, told, or kept; and  *)
(* when they return nothing, nothing was there.                              *)
LEMMA Moved ==
  ASSUME Typed, NEW held \in Seq(Msg), NEW before \in Nat, NEW g, NEW d, NEW lost,
         NEW max \in Nat \ {0},
         d = Drained(held, max, g), lost = before + d.lost, Finish(d, max, lost, g)
  PROVE  /\ chan' \in Seq(Msg) /\ carry' \in Seq(Msg)
         /\ stale' = 0 /\ handed' \in Nat /\ reported' \in Nat
         /\ sent' = sent /\ queued' = queued
         /\ handed' + reported' + Len(chan') + Len(carry')
              = handed + reported + before + Len(held) + Len(chan)
         /\ ~Something(d, lost) => before = 0 /\ held = <<>> /\ chan = <<>>
                                   /\ chan' = <<>> /\ carry' = <<>>
<1>1. handed \in Nat /\ reported \in Nat /\ chan \in Seq(Msg)
  BY DEF Typed
<1>2. Accounts(d, held)
  BY <1>1, DrainedFacts
<1>3. /\ d.batch \in Seq(Msg) /\ d.carry \in Seq(Msg) /\ d.chan \in Seq(Msg)
      /\ d.lost \in Nat
      /\ Len(d.batch) + Len(d.carry) + Len(d.chan) + d.lost = Len(held) + Len(chan)
      /\ d.batch = <<>> /\ d.lost = 0 =>
           d.carry = <<>> /\ held = <<>> /\ chan = <<>> /\ d.chan = <<>>
  BY <1>2 DEF Accounts
<1>4. lost \in Nat
  BY <1>3
<1>5. /\ chan' = d.chan /\ stale' = 0 /\ sent' = sent /\ queued' = queued
      /\ carry' \in Seq(Msg) /\ handed' \in Nat /\ reported' \in Nat
      /\ handed' + reported' + Len(carry')
           = handed + reported + lost + Len(d.batch) + Len(d.carry)
      /\ d.batch = <<>> /\ d.carry = <<>> => carry' = <<>>
  BY <1>1, <1>3, <1>4, FinishFacts
<1>6. handed' + reported' + Len(chan') + Len(carry')
        = handed + reported + before + Len(held) + Len(chan)
  <2> DEFINE a1 == Len(d.batch)
             a2 == Len(d.carry)
             a3 == Len(d.chan)
             a4 == Len(held)
             a5 == Len(chan)
             a6 == Len(carry')
             a7 == d.lost
             h == handed'
             r == reported'
  <2>1. /\ a1 \in Nat /\ a2 \in Nat /\ a3 \in Nat /\ a4 \in Nat /\ a5 \in Nat
        /\ a6 \in Nat /\ a7 \in Nat /\ h \in Nat /\ r \in Nat
    BY <1>1, <1>3, <1>5, LenProperties
  <2>2. /\ a1 + a2 + a3 + a7 = a4 + a5 /\ lost = before + a7
        /\ h + r + a6 = handed + reported + lost + a1 + a2
    BY <1>3, <1>5
  <2>3. Len(chan') = a3
    BY <1>5
  <2> HIDE DEF a1, a2, a3, a4, a5, a6, a7, h, r
  <2>4. h + r + a3 + a6 = handed + reported + before + a4 + a5
    BY <1>1, <1>4, <2>1, <2>2
  <2> QED BY <2>3, <2>4 DEF a4, a5, a6, h, r
<1>7. ASSUME ~Something(d, lost)
      PROVE  before = 0 /\ d.lost = 0 /\ d.batch = <<>>
  BY <1>3, <1>4, <1>7 DEF Something
<1> QED BY <1>3, <1>5, <1>6, <1>7

(* The empty failure and the resting take are typed. *)
LEMMA Rests == NoFail \in Fails /\ Resting \in Takes
<1>1. NoFail \in Fails
  BY LaneAssumption DEF NoFail, Fails, Gens
<1> QED BY <1>1 DEF Resting, Takes, Steps

(* What Goto does to the take. *)
LEMMA TakeMoves ==
  ASSUME con \in Takes, NEW step \in Steps, Goto(step)
  PROVE  /\ con' \in Takes /\ con'.step = step /\ con'.fail = con.fail
         /\ con'.up = con.up /\ con'.current = con.current /\ outcome' = outcome
BY DEF Goto, Takes

-----------------------------------------------------------------------------
Behind == {"take_fail", "load_closed", "wait"}

(* A step that leaves queues and counts alone keeps the sum. *)
LEMMA CountsKept ==
  ASSUME CountInv, UNCHANGED <<queueVars, stale, queued, handed, reported>>,
         con'.step \in Behind => con.step \in Behind
  PROVE  NothingCarried' /\ NothingVanishes'
<1>1. /\ chan' = chan /\ carry' = carry /\ stale' = stale /\ queued' = queued
      /\ handed' = handed /\ reported' = reported
  BY DEF queueVars
<1> QED BY <1>1 DEF CountInv, NothingCarried, NothingVanishes, Behind

(* The steps of the venue that attaches and detaches. *)
LEMMA CountOwner == ASSUME CountInv, Owner PROVE CountInv'
<1>1. /\ UNCHANGED <<queueVars, stale, histVars, con>>
      /\ generation' \in {generation, generation + 1} /\ (up' = up \/ up' \in BOOLEAN)
      /\ fail' \in {fail, NoFail}
  BY DEF Owner, Attach, AttachClosed, AttachFail, AttachUp, Detach, DetachClosed,
         DetachGen, histVars, queueVars
<1>2. NoFail \in Fails
  BY Rests
<1>3. Typed'
  <2>1. generation' \in Nat
    BY <1>1 DEF CountInv, Typed
  <2>2. up' \in BOOLEAN
    BY <1>1 DEF CountInv, Typed
  <2>3. fail' \in Fails
    BY <1>1, <1>2 DEF CountInv, Typed
  <2> QED BY <1>1, <2>1, <2>2, <2>3 DEF CountInv, Typed, histVars, queueVars
<1>4. NothingCarried' /\ NothingVanishes'
  BY <1>1, CountsKept DEF histVars
<1> QED BY <1>3, <1>4 DEF CountInv

(* The steps of the forwarders. *)
LEMMA CountForwarder == ASSUME CountInv, Forwarder PROVE CountInv'
<1>1. PICK g \in Gens \ {0} : \/ Send(g) \/ FailCheck(g) \/ FailStore(g)
                             \/ CloseCheck(g) \/ CloseStore(g) \/ Stop(g)
  BY DEF Forwarder
<1>2. CASE Send(g)
  <2> DEFINE m == [gen |-> g, n |-> sent[g] + 1]
  <2>1. m \in Msg /\ sent' \in [Gens -> Nat] /\ queued' = queued + 1
    BY <1>1, <1>2 DEF Send, Msg, CountInv, Typed
  <2>2. /\ chan' = Append(chan, m) /\ carry' = carry /\ con' = con
        /\ UNCHANGED <<laneVars, handed, reported>>
    BY <1>2 DEF Send
  <2> HIDE DEF m
  <2>3. chan' \in Seq(Msg) /\ Len(chan') = Len(chan) + 1
    BY <2>1, <2>2 DEF CountInv, Typed
  <2>4. Typed'
    BY <2>1, <2>2, <2>3 DEF CountInv, Typed, laneVars
  <2>5. NothingCarried'
    BY <2>2 DEF CountInv, NothingCarried
  <2>6. NothingVanishes'
    <3>1. Len(chan) \in Nat /\ Len(carry) \in Nat
      BY DEF CountInv, Typed
    <3> QED BY <2>1, <2>2, <2>3, <3>1 DEF CountInv, Typed, NothingVanishes, laneVars
  <2> QED BY <2>4, <2>5, <2>6 DEF CountInv
<1>3. CASE ~Send(g)
  <2>1. /\ UNCHANGED <<queueVars, generation, up, stale, histVars, con>>
        /\ fail' \in {fail, [gen |-> g, ahead |-> sent[g]]}
    BY <1>1, <1>3 DEF FailCheck, FailStore, CloseCheck, CloseStore, Stop, laneVars,
                      histVars, queueVars
  <2>2. [gen |-> g, ahead |-> sent[g]] \in Fails
    BY DEF Fails, CountInv, Typed
  <2>3. Typed'
    BY <2>1, <2>2 DEF CountInv, Typed, histVars, queueVars
  <2>4. NothingCarried' /\ NothingVanishes'
    BY <2>1, CountsKept DEF histVars
  <2> QED BY <2>3, <2>4 DEF CountInv
<1> QED BY <1>2, <1>3

(* The steps of the consumer that load, wait, and return. *)
LEMMA CountLoads ==
  ASSUME CountInv,
         \/ \E max \in 1..MaxTake : Take(max)
         \/ LoadUp \/ LoadGen \/ TakeFail \/ PutBack \/ LoadClosed
         \/ WaitNotified \/ WaitTimeout \/ PollDown \/ WaitUpCheck \/ WaitUpNotified
  PROVE  CountInv'
<1> USE DEF CountInv
<1>1. con \in Takes /\ fail \in Fails /\ generation \in Nat /\ up \in BOOLEAN
  BY DEF Typed
<1>2. NoFail \in Fails
  BY Rests
<1>3. SUFFICES /\ UNCHANGED <<queueVars, generation, up, stale, histVars>>
               /\ fail' \in Fails /\ con' \in Takes
               /\ con'.step \in Behind => con.step \in Behind
  <2>1. Typed'
    BY <1>3 DEF Typed, histVars, queueVars
  <2>2. NothingCarried' /\ NothingVanishes'
    BY <1>3, CountsKept DEF histVars
  <2> QED BY <2>1, <2>2
<1>4. ASSUME NEW max \in 1..MaxTake, Take(max) PROVE con' \in Takes /\ con'.step = "load_up"
  <2>1. max \in Nat \ {0}
    BY LaneAssumption
  <2> QED BY <1>1, <1>4, <2>1 DEF Take, Takes, Steps
<1>5. CASE \E max \in 1..MaxTake : Take(max)
  BY <1>1, <1>4, <1>5 DEF Take, laneVars, Behind
<1>6. CASE LoadUp
  <2>1. con' \in Takes /\ con'.step = "load_gen"
    BY <1>1, <1>6 DEF LoadUp, Takes, Steps
  <2> QED BY <1>1, <1>6, <2>1 DEF LoadUp, laneVars, Behind
<1>7. CASE LoadGen
  <2>1. generation \in Int
    BY <1>1
  <2>2. con' \in Takes /\ con'.step = "drain"
    BY <1>1, <1>7, <2>1 DEF LoadGen, Takes, Steps
  <2> QED BY <1>1, <1>7, <2>2 DEF LoadGen, laneVars, Behind
<1>8. CASE TakeFail
  <2>1. con' \in Takes
    BY <1>1, <1>8 DEF TakeFail, Takes, Steps
  <2> QED BY <1>2, <1>8, <2>1 DEF TakeFail, Behind
<1>9. CASE PutBack
  <2>1. con' = Resting /\ con.fail \in Fails
    BY <1>1, <1>9 DEF PutBack, Return, Takes
  <2> QED BY <1>9, <2>1, Rests DEF PutBack, Behind, Resting
<1>10. CASE LoadClosed
  <2>1. con'.step \in {"late_closed", "wait"} /\ con' \in Takes
    <3>1. PICK step \in {"late_closed", "wait"} : Goto(step)
      BY <1>10 DEF LoadClosed
    <3> QED BY <1>1, <3>1, TakeMoves DEF Steps
  <2> QED BY <1>1, <1>10, <2>1 DEF LoadClosed, laneVars, Behind
<1>11. CASE WaitTimeout \/ PollDown
  <2>1. con' = Resting
    BY <1>11 DEF WaitTimeout, PollDown, Return
  <2> QED BY <1>1, <1>11, <2>1, Rests DEF WaitTimeout, PollDown, laneVars, Behind, Resting
<1>12. CASE WaitNotified
  <2>1. con'.step = "load_up" /\ con' \in Takes
    BY <1>1, <1>12, TakeMoves DEF WaitNotified, Steps
  <2> QED BY <1>1, <1>12, <2>1 DEF WaitNotified, laneVars, Behind
<1>13. CASE WaitUpCheck
  <2>1. con'.step \in {"load_up", "wait_up"} /\ con' \in Takes
    <3>1. PICK step \in {"load_up", "wait_up"} : Goto(step)
      BY <1>13 DEF WaitUpCheck
    <3> QED BY <1>1, <3>1, TakeMoves DEF Steps
  <2> QED BY <1>1, <1>13, <2>1 DEF WaitUpCheck, laneVars, Behind
<1>14. CASE WaitUpNotified
  <2>1. con'.step = "down" /\ con' \in Takes
    BY <1>1, <1>14, TakeMoves DEF WaitUpNotified, Steps
  <2> QED BY <1>1, <1>14, <2>1 DEF WaitUpNotified, laneVars, Behind
<1> QED BY <1>5, <1>6, <1>7, <1>8, <1>9, <1>10, <1>11, <1>12, <1>13, <1>14

(* A drain that accounts for the carry keeps the sum. *)
LEMMA CountDrain ==
  ASSUME CountInv, NEW held \in Seq(Msg), NEW before \in Nat,
         Len(held) + before = stale + Len(carry),
         NEW g, NEW d, NEW lost, NEW max \in Nat \ {0},
         d = Drained(held, max, g), lost = before + d.lost, Finish(d, max, lost, g),
         UNCHANGED <<generation, up, fail>>, con' \in Takes,
         con'.step \in Behind => ~Something(d, lost)
  PROVE  CountInv'
<1>1. Typed /\ NothingVanishes
  BY DEF CountInv
<1>2. /\ chan' \in Seq(Msg) /\ carry' \in Seq(Msg)
      /\ stale' = 0 /\ handed' \in Nat /\ reported' \in Nat
      /\ sent' = sent /\ queued' = queued
      /\ handed' + reported' + Len(chan') + Len(carry')
           = handed + reported + before + Len(held) + Len(chan)
      /\ ~Something(d, lost) => carry' = <<>>
  BY <1>1, Moved
<1>3. Typed'
  BY <1>1, <1>2 DEF Typed
<1>4. NothingCarried'
  BY <1>2 DEF NothingCarried, Behind
<1>5. NothingVanishes'
  <2> DEFINE a == Len(chan')
             b == Len(carry')
             c == Len(held)
             e == Len(chan)
             f == Len(carry)
             h == handed'
             r == reported'
  <2>1. /\ a \in Nat /\ b \in Nat /\ c \in Nat /\ e \in Nat /\ f \in Nat
        /\ h \in Nat /\ r \in Nat
    BY <1>1, <1>2, LenProperties DEF Typed
  <2>2. /\ h + r + a + b = handed + reported + before + c + e /\ c + before = stale + f
        /\ queued = handed + reported + stale + e + f
    BY <1>1, <1>2 DEF NothingVanishes
  <2>3. stale' = 0 /\ queued' = queued /\ queued \in Nat /\ handed \in Nat
        /\ reported \in Nat /\ stale \in Nat
    BY <1>1, <1>2 DEF Typed
  <2> HIDE DEF a, b, c, e, f, h, r
  <2>4. queued = h + r + 0 + a + b
    BY <2>1, <2>2, <2>3
  <2> QED BY <2>3, <2>4 DEF NothingVanishes, a, b, h, r
<1> QED BY <1>3, <1>4, <1>5 DEF CountInv

(* The first drain of a take; a carry of another attachment is lost. *)
LEMMA CountFirst == ASSUME CountInv, DrainStep PROVE CountInv'
<1>1. con \in Takes /\ con.max \in Nat \ {0} /\ carry \in Seq(Msg) /\ stale \in Nat
  BY DEF CountInv, Typed, Takes
<1>2. PICK held : held = IF CarryLost > 0 THEN <<>> ELSE carry
  OBVIOUS
<1>3. PICK max : max = con.max
  OBVIOUS
<1>4. PICK g : g = Owed
  OBVIOUS
<1>5. PICK d : d = Drained(held, max, g)
  OBVIOUS
<1>6. PICK before : before = stale + CarryLost
  OBVIOUS
<1>7. PICK lost : lost = before + d.lost
  OBVIOUS
<1>8. /\ Finish(d, max, lost, g) /\ UNCHANGED <<generation, up, fail>>
      /\ IF Something(d, lost) THEN Return("msgs")
         ELSE Goto(IF con.up THEN "take_fail" ELSE "down")
  BY <1>2, <1>3, <1>4, <1>5, <1>6, <1>7 DEF DrainStep
<1>9. held \in Seq(Msg) /\ before \in Nat /\ Len(held) + before = stale + Len(carry)
  <2>1. CASE carry_gen # Owed /\ Len(carry) > 0
    BY <1>1, <1>2, <1>6, <2>1 DEF CarryLost
  <2>2. CASE ~ (carry_gen # Owed /\ Len(carry) > 0)
    <3>1. CarryLost = 0
      BY <1>1, <2>2 DEF CarryLost
    <3> QED BY <1>1, <1>2, <1>6, <3>1
  <2> QED BY <2>1, <2>2
<1>10. con' \in Takes /\ (con'.step \in Behind => ~Something(d, lost))
  <2>1. CASE Something(d, lost)
    <3>1. con' = Resting
      BY <1>8, <2>1 DEF Return
    <3>2. con'.step = "idle"
      BY <3>1 DEF Resting
    <3> QED BY <3>1, <3>2, Rests DEF Behind
  <2>2. CASE ~Something(d, lost)
    <3>1. PICK step \in {"take_fail", "down"} : Goto(step)
      BY <1>8, <2>2
    <3> QED BY <1>1, <2>2, <3>1, TakeMoves DEF Steps
  <2> QED BY <2>1, <2>2
<1> QED BY <1>1, <1>3, <1>5, <1>7, <1>8, <1>9, <1>10, CountDrain

(* The drains behind a failure and behind a close. *)
LEMMA CountLate == ASSUME CountInv, LateFail \/ LateClosed PROVE CountInv'
<1>1. /\ con \in Takes /\ con.max \in Nat \ {0} /\ carry \in Seq(Msg) /\ stale \in Nat
  BY DEF CountInv, Typed, Takes
<1>2. PICK held : held = carry
  OBVIOUS
<1>3. PICK max : max = con.max
  OBVIOUS
<1>4. PICK g : g = con.current
  OBVIOUS
<1>5. PICK d : d = Drained(held, max, g)
  OBVIOUS
<1>6. PICK before : before = stale
  OBVIOUS
<1>7. PICK lost : lost = before + d.lost
  OBVIOUS
<1>8. /\ Finish(d, max, lost, g) /\ UNCHANGED <<generation, up, fail>>
      /\ Goto("put_back") \/ \E kind \in {"fail", "msgs", "closed"} : Return(kind)
  BY <1>2, <1>3, <1>4, <1>5, <1>6, <1>7 DEF LateFail, LateClosed
<1>9. held \in Seq(Msg) /\ before \in Nat /\ Len(held) + before = stale + Len(carry)
  BY <1>1, <1>2, <1>6
<1>10. con' \in Takes /\ con'.step \notin Behind
  <2>1. CASE Goto("put_back")
    BY <1>1, <2>1, TakeMoves DEF Steps, Behind
  <2>2. CASE \E kind \in {"fail", "msgs", "closed"} : Return(kind)
    BY <2>2, Rests DEF Return, Resting, Behind
  <2> QED BY <1>8, <2>1, <2>2
<1> QED BY <1>1, <1>3, <1>5, <1>7, <1>8, <1>9, <1>10, CountDrain

(* The receive of a waiting take, with nothing carried. *)
LEMMA CountReceive == ASSUME CountInv, WaitRecv PROVE CountInv'
<1>1. /\ con \in Takes /\ con.max \in Nat \ {0} /\ carry = <<>> /\ stale \in Nat
      /\ chan \in Seq(Msg) /\ chan # <<>>
  BY DEF CountInv, Typed, Takes, NothingCarried, WaitRecv
<1>2. CASE Head(chan).gen = generation
  <2>1. PICK held : held = <<>>
    OBVIOUS
  <2>2. PICK max : max = con.max
    OBVIOUS
  <2>3. PICK g : g = Head(chan).gen
    OBVIOUS
  <2>4. PICK d : d = Drained(held, max, g)
    OBVIOUS
  <2>5. PICK before : before = stale
    OBVIOUS
  <2>6. PICK lost : lost = before + d.lost
    OBVIOUS
  <2>7. Finish(d, max, lost, g) /\ UNCHANGED <<generation, up, fail>> /\ Return("msgs")
    BY <1>2, <2>1, <2>2, <2>3, <2>4, <2>5, <2>6 DEF WaitRecv
  <2>8. held \in Seq(Msg) /\ before \in Nat /\ Len(held) + before = stale + Len(carry)
    BY <1>1, <2>1, <2>5
  <2>9. con' \in Takes /\ con'.step \notin Behind
    BY <2>7, Rests DEF Return, Resting, Behind
  <2> QED BY <1>1, <2>2, <2>4, <2>6, <2>7, <2>8, <2>9, CountDrain
<1>3. CASE Head(chan).gen # generation
  <2>1. /\ chan' = Tail(chan) /\ stale' = stale + 1 /\ Goto("load_up")
        /\ UNCHANGED <<carry, histVars, generation, up, fail>>
    BY <1>3 DEF WaitRecv
  <2>2. chan' \in Seq(Msg) /\ Len(chan') = Len(chan) - 1 /\ Len(chan) \in Nat
    BY <1>1, <2>1
  <2>3. con' \in Takes /\ con'.step = "load_up"
    BY <1>1, <2>1, TakeMoves DEF Steps
  <2>4. Typed'
    BY <2>1, <2>2, <2>3 DEF CountInv, Typed, histVars
  <2>5. NothingCarried'
    BY <2>3 DEF NothingCarried
  <2>6. NothingVanishes'
    BY <2>1, <2>2 DEF CountInv, Typed, NothingVanishes, histVars
  <2> QED BY <2>4, <2>5, <2>6 DEF CountInv
<1> QED BY <1>2, <1>3

(* Every step keeps the sum. *)
LEMMA CountStep == ASSUME CountInv, [Next]_vars PROVE CountInv'
<1>1. CASE UNCHANGED vars
  BY <1>1 DEF vars, laneVars, queueVars, histVars, CountInv, Typed, NothingCarried,
              NothingVanishes
<1>2. CASE Owner \/ Forwarder
  BY <1>2, CountOwner, CountForwarder
<1>3. CASE Consumer
  BY <1>3, CountLoads, CountFirst, CountLate, CountReceive DEF Consumer, ConsumerStep
<1> QED BY <1>1, <1>2, <1>3 DEF Next

(* A fresh lane has queued nothing. *)
LEMMA CountInit == Init => CountInv
<1> SUFFICES ASSUME Init PROVE CountInv
  OBVIOUS
<1>1. sent \in [Gens -> Nat]
  BY DEF Init
<1>2. <<>> \in Seq(Msg)
  OBVIOUS
<1>3. up \in BOOLEAN
  BY DEF Init
<1>4. chan \in Seq(Msg) /\ carry \in Seq(Msg) /\ fail \in Fails /\ con \in Takes
  BY <1>2, Rests DEF Init
<1>5. Typed
  BY <1>1, <1>4, <1>3 DEF Init, Typed
<1> QED BY <1>5 DEF Init, CountInv, NothingCarried, NothingVanishes

(* Every message a forwarder queued is handed out, told as a gap, or on its   *)
(* way, whatever attach, detach, late drain, carry and put-back interleave.   *)
THEOREM NothingQueuedVanishes == Spec => []NothingVanishes
<1>1. CountInv => NothingVanishes
  BY DEF CountInv
<1> QED
  BY <1>1, CountInit, CountStep, PTL DEF Spec

-----------------------------------------------------------------------------
(* A failure counts no more messages than its forwarder has queued; it is    *)
(* reported by a take that has returned, behind the events.                  *)
Recorded(f) == f \in Fails /\ f.ahead <= sent[f.gen]

BehindEvents ==
    /\ Recorded(fail) /\ Recorded(con.fail) /\ Recorded(outcome.fail)
    /\ outcome.kind = "fail" => con.step = "idle"
    /\ FailureAfterEvents

(* Nothing has failed yet when nothing is recorded. *)
LEMMA NoneRecorded == ASSUME Typed PROVE Recorded(NoFail)
<1>1. NoFail.ahead = 0 /\ NoFail.gen \in Gens /\ NoFail \in Fails
  BY Rests DEF NoFail, Fails
<1> QED BY <1>1 DEF Recorded, Typed

(* A return with anything but a failure. *)
LEMMA ReturnsElse ==
  ASSUME NEW kind, kind # "fail", Return(kind)
  PROVE  con'.fail = NoFail /\ outcome'.fail = NoFail /\ outcome'.kind # "fail"
BY DEF Return, Resting, NoOutcome

(* A step that reports no failure and records none but one already seen. *)
LEMMA FailKept ==
  ASSUME Typed, BehindEvents, sent' = sent, fail' \in {fail, con.fail, NoFail},
         con'.fail \in {fail, con.fail, NoFail}, outcome'.kind # "fail",
         outcome'.fail \in {outcome.fail, NoFail}
  PROVE  BehindEvents'
<1>1. Recorded(NoFail)
  BY NoneRecorded
<1>2. \A f : Recorded(f) => Recorded(f)'
  BY DEF Recorded
<1> QED BY <1>1 DEF BehindEvents, FailureAfterEvents, Recorded

(* The steps of the venue and of the forwarders. *)
LEMMA FailOwner == ASSUME Typed, BehindEvents, Owner PROVE BehindEvents'
<1>1. UNCHANGED <<chan, sent, con, outcome>> /\ fail' \in {fail, NoFail}
  BY DEF Owner, Attach, AttachClosed, AttachFail, AttachUp, Detach, DetachClosed,
         DetachGen, histVars, queueVars
<1> QED BY <1>1, NoneRecorded DEF BehindEvents, FailureAfterEvents, Recorded

(* What a forwarder queues is numbered behind the failures recorded before. *)
LEMMA FailForwarder == ASSUME Typed, BehindEvents, Forwarder PROVE BehindEvents'
<1>1. PICK g \in Gens \ {0} : \/ Send(g) \/ FailCheck(g) \/ FailStore(g)
                             \/ CloseCheck(g) \/ CloseStore(g) \/ Stop(g)
  BY DEF Forwarder
<1>2. CASE Send(g)
  <2> DEFINE m == [gen |-> g, n |-> sent[g] + 1]
  <2>1. /\ chan' = Append(chan, m) /\ sent' = [sent EXCEPT ![g] = @ + 1]
        /\ UNCHANGED <<fail, con, outcome>>
    BY <1>2 DEF Send, laneVars
  <2>2. m \in Msg /\ m.gen = g /\ m.n = sent[g] + 1
    BY DEF Msg, Typed
  <2> HIDE DEF m
  <2>3. \A h \in Gens : sent'[h] \in Nat /\ sent[h] \in Nat /\ sent[h] <= sent'[h]
    BY <2>1 DEF Typed
  <2>4. ASSUME NEW f \in Fails, f.ahead <= sent[f.gen] PROVE f.ahead <= sent'[f.gen]
    BY <2>3, <2>4 DEF Fails
  <2>5. Recorded(fail)' /\ Recorded(con.fail)' /\ Recorded(outcome.fail)'
    BY <2>1, <2>4 DEF BehindEvents, Recorded
  <2>6. FailureAfterEvents'
    <3> SUFFICES ASSUME outcome.kind = "fail", NEW i \in 1..Len(chan'),
                        chan'[i].gen = outcome.fail.gen
                 PROVE  chan'[i].n > outcome.fail.ahead
      BY <2>1 DEF FailureAfterEvents
    <3>1. chan \in Seq(Msg)
      BY DEF Typed
    <3>2. CASE i \in 1..Len(chan)
      BY <2>1, <2>2, <3>1, <3>2 DEF BehindEvents, FailureAfterEvents
    <3>3. CASE i = Len(chan) + 1
      <4>1. chan'[i] = m
        BY <2>1, <2>2, <3>1, <3>3
      <4>2. outcome.fail \in Fails /\ outcome.fail.ahead <= sent[g]
        BY <2>2, <4>1 DEF BehindEvents, Recorded
      <4> QED BY <2>2, <2>3, <4>1, <4>2 DEF Fails
    <3> QED BY <2>1, <2>2, <3>1, <3>2, <3>3
  <2> QED BY <2>1, <2>5, <2>6 DEF BehindEvents
<1>3. CASE ~Send(g)
  <2>1. /\ UNCHANGED <<chan, sent, con, outcome>>
        /\ fail' \in {fail, [gen |-> g, ahead |-> sent[g]]}
    BY <1>1, <1>3 DEF FailCheck, FailStore, CloseCheck, CloseStore, Stop, laneVars,
                      histVars, queueVars
  <2>2. Recorded([gen |-> g, ahead |-> sent[g]])
    BY DEF Recorded, Fails, Typed
  <2> QED BY <2>1, <2>2 DEF BehindEvents, FailureAfterEvents, Recorded
<1> QED BY <1>2, <1>3

(* The steps of the consumer but the one that reports. *)
LEMMA FailConsumer ==
  ASSUME Typed, BehindEvents, Consumer, ~LateFail
  PROVE  BehindEvents'
<1>1. con \in Takes
  BY DEF Typed
<1>2. SUFFICES /\ sent' = sent /\ fail' \in {fail, con.fail, NoFail}
               /\ con'.fail \in {fail, con.fail, NoFail} /\ outcome'.kind # "fail"
               /\ outcome'.fail \in {outcome.fail, NoFail}
  BY <1>2, FailKept
<1>3. con.step # "idle" => outcome.kind # "fail"
  BY DEF BehindEvents
<1>4. CASE \E max \in 1..MaxTake : Take(max)
  <2>1. PICK max : Take(max)
    BY <1>4
  <2>2. con'.fail = con.fail
    BY <1>1, <2>1 DEF Take, Takes
  <2> QED BY <2>1, <2>2 DEF Take, laneVars, histVars, NoOutcome
<1>5. CASE LoadUp \/ LoadGen
  <2>1. con'.fail = con.fail
    BY <1>1, <1>5 DEF LoadUp, LoadGen, Takes
  <2> QED BY <1>3, <1>5, <2>1 DEF LoadUp, LoadGen, laneVars, histVars
<1>6. CASE TakeFail
  <2>1. con'.fail = fail
    BY <1>1, <1>6 DEF TakeFail, Takes
  <2> QED BY <1>3, <1>6, <2>1 DEF TakeFail, histVars
<1>7. CASE PutBack
  BY <1>7, ReturnsElse DEF PutBack, histVars
<1>8. CASE WaitTimeout \/ PollDown
  BY <1>8, ReturnsElse DEF WaitTimeout, PollDown, histVars, laneVars
<1>9. CASE LoadClosed \/ WaitNotified \/ WaitUpCheck \/ WaitUpNotified
  <2>1. PICK step \in Steps : Goto(step)
    BY <1>9 DEF LoadClosed, WaitNotified, WaitUpCheck, WaitUpNotified, Steps
  <2>2. con'.fail = con.fail /\ outcome' = outcome
    BY <1>1, <2>1, TakeMoves
  <2> QED BY <1>3, <1>9, <2>2 DEF LoadClosed, WaitNotified, WaitUpCheck,
                                  WaitUpNotified, laneVars, histVars
<1>10. CASE DrainStep \/ LateClosed \/ WaitRecv
  <2>1. sent' = sent /\ fail' = fail /\ con.step # "idle"
    BY <1>10 DEF DrainStep, LateClosed, WaitRecv, Finish, histVars
  <2>2. \/ \E step \in Steps : Goto(step)
        \/ \E kind \in {"msgs", "closed"} : Return(kind)
    BY <1>10 DEF DrainStep, LateClosed, WaitRecv, Steps
  <2>3. CASE \E step \in Steps : Goto(step)
    BY <1>1, <1>3, <2>1, <2>3, TakeMoves
  <2>4. CASE \E kind \in {"msgs", "closed"} : Return(kind)
    BY <2>1, <2>4, ReturnsElse
  <2> QED BY <2>2, <2>3, <2>4
<1> QED BY <1>4, <1>5, <1>6, <1>7, <1>8, <1>9, <1>10 DEF Consumer, ConsumerStep

(* The late drain puts an event first, or it has found the channel empty. *)
LEMMA FailReports == ASSUME Typed, BehindEvents, LateFail PROVE BehindEvents'
<1>1. con \in Takes /\ con.max \in Nat \ {0} /\ carry \in Seq(Msg) /\ stale \in Nat
  BY DEF Typed, Takes
<1>2. PICK held : held = carry
  OBVIOUS
<1>3. PICK max : max = con.max
  OBVIOUS
<1>4. PICK g : g = con.current
  OBVIOUS
<1>5. PICK d : d = Drained(held, max, g)
  OBVIOUS
<1>6. PICK before : before = stale
  OBVIOUS
<1>7. PICK lost : lost = before + d.lost
  OBVIOUS
<1>8. /\ Finish(d, max, lost, g) /\ fail' = fail /\ con.step # "idle"
      /\ IF Something(d, lost) THEN Goto("put_back") ELSE Return("fail")
  BY <1>2, <1>3, <1>4, <1>5, <1>6, <1>7 DEF LateFail
<1>9. sent' = sent /\ (~Something(d, lost) => chan' = <<>>)
  BY <1>1, <1>2, <1>3, <1>5, <1>6, <1>7, <1>8, Moved
<1>10. CASE Something(d, lost)
  <2>1. con'.fail = con.fail /\ outcome' = outcome
    BY <1>1, <1>8, <1>10, TakeMoves DEF Steps
  <2> QED BY <1>8, <1>9, <2>1, FailKept DEF BehindEvents
<1>11. CASE ~Something(d, lost)
  <2>1. Return("fail") /\ chan' = <<>>
    BY <1>8, <1>9, <1>11
  <2>2. /\ con'.step = "idle" /\ con'.fail = NoFail /\ outcome'.fail = con.fail
    BY <2>1 DEF Return, Resting
  <2>3. Len(chan') = 0
    BY <2>1
  <2>4. FailureAfterEvents'
    BY <2>3 DEF FailureAfterEvents
  <2> QED BY <1>8, <1>9, <2>2, <2>4, NoneRecorded DEF BehindEvents, Recorded
<1> QED BY <1>10, <1>11

(* "A venue connection error ... surface[s] as [an] error once the queued     *)
(* events ahead of [it] are drained": a take that reports a failure leaves no *)
(* message in the channel that the forwarder had queued before it.            *)
THEOREM FailuresComeLast == Spec => []FailureAfterEvents
<1>1. Init => BehindEvents
  <2> SUFFICES ASSUME Init PROVE BehindEvents
    OBVIOUS
  <2>1. Recorded(NoFail)
    BY CountInit, NoneRecorded DEF CountInv
  <2>2. fail = NoFail /\ con.fail = NoFail /\ outcome.fail = NoFail /\ outcome.kind = "none"
    BY DEF Init, Resting, NoOutcome
  <2> QED BY <2>1, <2>2 DEF BehindEvents, FailureAfterEvents
<1>2. ASSUME Typed, BehindEvents, [Next]_vars PROVE BehindEvents'
  <2>1. CASE UNCHANGED vars
    BY <1>2, <2>1 DEF vars, laneVars, queueVars, histVars, BehindEvents, Recorded,
                      FailureAfterEvents
  <2>2. CASE Next
    BY <1>2, <2>2, FailOwner, FailForwarder, FailConsumer, FailReports DEF Next
  <2> QED BY <1>2, <2>1, <2>2
<1>3. CountInv => Typed
  BY DEF CountInv
<1>4. BehindEvents => FailureAfterEvents
  BY DEF BehindEvents
<1> QED
  BY <1>1, <1>2, <1>3, <1>4, CountInit, CountStep, PTL DEF Spec

-----------------------------------------------------------------------------
(***************************************************************************)
(* From the moment a take registers, what it has seen holds, or a           *)
(* notification is pending, or the detach that will send one is under way.  *)
(***************************************************************************)
Detaching == owner.step \in {"detach_closed", "detach_gen"}
Registered == {"load_gen", "drain"} \cup Behind

OnlyUp == con.step \in Behind => con.up
UpSeen == con.step \in Registered /\ con.up /\ ~notified => up \/ Detaching
FailSeen == con.step \in {"load_closed", "wait"} /\ ~notified => fail.gen = 0
ClosedSeen == con.step = "wait" /\ ~notified => ~closed
DownSeen == con.step = "wait_up" /\ ~notified => ~up

Awake == OnlyUp /\ UpSeen /\ FailSeen /\ ClosedSeen /\ DownSeen

(* A consumer at rest, or about to register, has seen nothing yet. *)
LEMMA AwakeAtRest ==
  ASSUME con'.step \notin Registered \cup {"wait_up"}
  PROVE  Awake'
BY DEF Awake, OnlyUp, UpSeen, FailSeen, ClosedSeen, DownSeen, Registered, Behind

(* The venue attaches or detaches, one at a time. *)
OwnerTyped ==
    owner \in [step : {"idle", "attach_closed", "attach_fail", "attach_up",
                       "detach_closed", "detach_gen"}, gen : Int]

(* Attach and detach go through their steps. *)
LEMMA OwnerStep ==
  ASSUME generation \in Nat, OwnerTyped, [Next]_vars PROVE OwnerTyped'
<1>1. CASE Attach \/ AttachUp \/ DetachGen
  BY <1>1 DEF Attach, AttachUp, DetachGen, OwnerTyped, Idle
<1>2. CASE AttachClosed \/ AttachFail \/ DetachClosed
  BY <1>2 DEF AttachClosed, AttachFail, DetachClosed, OwnerTyped
<1>3. ASSUME NEW g \in Gens, Detach(g) PROVE OwnerTyped'
  <2>1. owner' = owner \/ owner' = [step |-> "detach_closed", gen |-> generation]
    BY <1>3 DEF Detach
  <2> QED BY <2>1 DEF OwnerTyped
<1>4. CASE Forwarder
  BY <1>4 DEF Forwarder, Send, FailCheck, FailStore, CloseCheck, CloseStore, Stop,
              OwnerTyped
<1>5. CASE Consumer
  <2>1. owner' = owner
    BY <1>5 DEF Consumer, ConsumerStep, Take, LoadUp, LoadGen, DrainStep, TakeFail,
                LateFail, PutBack, LoadClosed, LateClosed, WaitRecv, WaitNotified,
                WaitTimeout, PollDown, WaitUpCheck, WaitUpNotified
  <2> QED BY <2>1 DEF OwnerTyped
<1>6. CASE UNCHANGED vars
  BY <1>6 DEF vars, OwnerTyped
<1> QED BY <1>1, <1>2, <1>3, <1>4, <1>5, <1>6 DEF Next, Owner

(* Whatever changes what a waiting consumer has seen notifies it. *)
LEMMA AwakeOwner == ASSUME OwnerTyped, Awake, Owner PROVE Awake'
<1>1. con' = con
  BY DEF Owner, Attach, AttachClosed, AttachFail, AttachUp, Detach, DetachClosed,
         DetachGen
<1>2. CASE notified'
  BY <1>1, <1>2 DEF Awake, OnlyUp, UpSeen, FailSeen, ClosedSeen, DownSeen
<1>3. CASE Attach \/ AttachClosed \/ AttachFail
  <2>1. UNCHANGED <<up, notified>> /\ ~Detaching /\ (closed' = closed \/ closed' = FALSE)
        /\ fail' \in {fail, NoFail}
    BY <1>3 DEF Attach, AttachClosed, AttachFail, Detaching
  <2>2. NoFail.gen = 0
    BY DEF NoFail
  <2> QED BY <1>1, <2>1, <2>2 DEF Awake, OnlyUp, UpSeen, FailSeen, ClosedSeen, DownSeen
<1>4. CASE DetachClosed
  <2>1. UNCHANGED <<up, notified, fail>> /\ closed' = FALSE
    BY <1>4 DEF DetachClosed
  <2>2. owner'.step = "detach_gen"
    BY <1>4 DEF DetachClosed, OwnerTyped
  <2>3. Detaching'
    BY <2>2 DEF Detaching
  <2> QED BY <1>1, <2>1, <2>3 DEF Awake, OnlyUp, UpSeen, FailSeen, ClosedSeen, DownSeen
<1>5. ASSUME NEW g \in Gens, Detach(g) PROVE Awake'
  <2>1. UNCHANGED <<notified, fail, closed>>
    BY <1>5 DEF Detach
  <2>2. CASE generation # g
    <3>1. UNCHANGED <<up, owner>>
      BY <1>5, <2>2 DEF Detach
    <3> QED BY <1>1, <2>1, <3>1 DEF Awake, OnlyUp, UpSeen, FailSeen, ClosedSeen, DownSeen,
                                    Detaching
  <2>3. CASE generation = g
    <3>1. up' = FALSE /\ owner'.step = "detach_closed"
      BY <1>5, <2>3 DEF Detach
    <3>2. Detaching' /\ ~up'
      BY <3>1 DEF Detaching
    <3> QED BY <1>1, <2>1, <3>2 DEF Awake, OnlyUp, UpSeen, FailSeen, ClosedSeen, DownSeen
  <2> QED BY <2>2, <2>3
<1>6. CASE AttachUp \/ DetachGen
  BY <1>2, <1>6 DEF AttachUp, DetachGen
<1> QED BY <1>3, <1>4, <1>6, <1>5 DEF Owner

(* A forwarder that fails or closes notifies with its store. *)
LEMMA AwakeForwarder == ASSUME Typed, Awake, Forwarder PROVE Awake'
<1>1. PICK g \in Gens \ {0} : \/ Send(g) \/ FailCheck(g) \/ FailStore(g)
                             \/ CloseCheck(g) \/ CloseStore(g) \/ Stop(g)
  BY DEF Forwarder
<1>2. UNCHANGED <<con, up, owner>>
  BY <1>1 DEF Send, FailCheck, FailStore, CloseCheck, CloseStore, Stop, laneVars
<1>3. CASE notified'
  BY <1>2, <1>3 DEF Awake, OnlyUp, UpSeen, FailSeen, ClosedSeen, DownSeen
<1>4. CASE FailStore(g) \/ CloseStore(g)
  BY <1>3, <1>4 DEF FailStore, CloseStore
<1>5. CASE Send(g) \/ FailCheck(g) \/ CloseCheck(g) \/ Stop(g)
  <2>1. UNCHANGED <<fail, closed, notified>>
    BY <1>5 DEF Send, FailCheck, CloseCheck, Stop, laneVars
  <2> QED BY <1>2, <2>1 DEF Awake, OnlyUp, UpSeen, FailSeen, ClosedSeen, DownSeen,
                            Detaching
<1> QED BY <1>1, <1>4, <1>5

(* The steps of a take look again before they sleep. *)
LEMMA AwakeConsumer == ASSUME Typed, Awake, Consumer PROVE Awake'
<1>1. con \in Takes /\ up \in BOOLEAN
  BY DEF Typed
<1> DEFINE Gone == con'.step \notin Registered \cup {"wait_up"}
<1>2. ASSUME NEW step \in Steps, Goto(step)
      PROVE  con'.step = step /\ con'.up = con.up
  BY <1>1, <1>2, TakeMoves
<1>3. ASSUME NEW kind, Return(kind) PROVE Gone
  BY <1>3 DEF Return, Resting, Registered, Behind
<1>4. CASE \E max \in 1..MaxTake : Take(max)
  <2>1. con'.step = "load_up"
    BY <1>1, <1>4 DEF Take, Takes
  <2> QED BY <2>1, AwakeAtRest DEF Registered, Behind
<1>5. CASE LoadUp
  <2>1. con'.step = "load_gen" /\ con'.up = up
    BY <1>1, <1>5 DEF LoadUp, Takes
  <2>2. up' = up
    BY <1>5 DEF LoadUp, laneVars
  <2> QED BY <2>1, <2>2 DEF Awake, OnlyUp, UpSeen, FailSeen, ClosedSeen, DownSeen, Behind
<1>6. CASE LoadGen
  <2>1. con'.step = "drain" /\ con'.up = con.up /\ con.step = "load_gen"
    BY <1>1, <1>6 DEF LoadGen, Takes
  <2>2. UNCHANGED <<up, notified, owner>>
    BY <1>6 DEF LoadGen, laneVars
  <2> QED BY <2>1, <2>2 DEF Awake, OnlyUp, UpSeen, FailSeen, ClosedSeen, DownSeen, Behind,
                            Registered, Detaching
<1>7. CASE DrainStep
  <2>1. con.step = "drain" /\ UNCHANGED <<up, notified, owner>>
    BY <1>7 DEF DrainStep
  <2>2. Return("msgs") \/ (con.up /\ Goto("take_fail")) \/ Goto("down")
    BY <1>7 DEF DrainStep
  <2>3. CASE Return("msgs") \/ Goto("down")
    BY <1>2, <1>3, <2>3, AwakeAtRest DEF Registered, Behind, Steps
  <2>4. CASE con.up /\ Goto("take_fail")
    <3>1. con'.step = "take_fail" /\ con'.up = con.up
      BY <1>2, <2>4 DEF Steps
    <3> QED BY <2>1, <2>4, <3>1 DEF Awake, OnlyUp, UpSeen, FailSeen, ClosedSeen, DownSeen,
                                    Behind, Registered, Detaching
  <2> QED BY <2>2, <2>3, <2>4
<1>8. CASE TakeFail
  <2>1. /\ con.step = "take_fail" /\ con'.up = con.up /\ fail'.gen = 0
        /\ con'.step \in {"late_fail", "load_closed"}
    BY <1>1, <1>8 DEF TakeFail, Takes, NoFail
  <2>2. UNCHANGED <<up, notified, owner>>
    BY <1>8 DEF TakeFail
  <2> QED BY <2>1, <2>2 DEF Awake, OnlyUp, UpSeen, FailSeen, ClosedSeen, DownSeen, Behind,
                            Registered, Detaching
<1>9. CASE LoadClosed
  <2>1. con.step = "load_closed" /\ UNCHANGED <<up, notified, owner, fail, closed>>
    BY <1>9 DEF LoadClosed, laneVars
  <2>2. Goto("late_closed") \/ (~closed /\ Goto("wait"))
    BY <1>9 DEF LoadClosed
  <2>3. CASE Goto("late_closed")
    BY <1>2, <2>3, AwakeAtRest DEF Registered, Behind, Steps
  <2>4. CASE ~closed /\ Goto("wait")
    <3>1. con'.step = "wait" /\ con'.up = con.up
      BY <1>2, <2>4 DEF Steps
    <3> QED BY <2>1, <2>4, <3>1 DEF Awake, OnlyUp, UpSeen, FailSeen, ClosedSeen, DownSeen,
                                    Behind, Registered, Detaching
  <2> QED BY <2>2, <2>3, <2>4
<1>10. CASE WaitUpCheck
  <2>1. Goto("load_up") \/ (~up /\ Goto("wait_up"))
    BY <1>10 DEF WaitUpCheck
  <2>2. CASE Goto("load_up")
    BY <1>2, <2>2, AwakeAtRest DEF Registered, Behind, Steps
  <2>3. CASE ~up /\ Goto("wait_up")
    <3>1. con'.step = "wait_up" /\ up' = up
      BY <1>2, <1>10, <2>3 DEF Steps, WaitUpCheck, laneVars
    <3> QED BY <2>3, <3>1 DEF Awake, OnlyUp, UpSeen, FailSeen, ClosedSeen, DownSeen,
                              Behind, Registered
  <2> QED BY <2>1, <2>2, <2>3
<1>11. CASE PutBack \/ LateFail \/ LateClosed \/ WaitRecv \/ WaitNotified
            \/ WaitUpNotified \/ WaitTimeout \/ PollDown
  <2>1. \/ \E step \in {"put_back", "load_up", "down"} : Goto(step)
        \/ \E kind \in {"msgs", "fail", "closed", "timeout", "down"} : Return(kind)
    BY <1>11 DEF PutBack, LateFail, LateClosed, WaitRecv, WaitNotified, WaitUpNotified,
                 WaitTimeout, PollDown
  <2>2. CASE \E step \in {"put_back", "load_up", "down"} : Goto(step)
    <3>1. con'.step \in {"put_back", "load_up", "down"}
      BY <1>2, <2>2 DEF Steps
    <3> QED BY <3>1, AwakeAtRest DEF Registered, Behind
  <2>3. CASE \E kind \in {"msgs", "fail", "closed", "timeout", "down"} : Return(kind)
    BY <1>3, <2>3, AwakeAtRest
  <2> QED BY <2>1, <2>2, <2>3
<1> QED BY <1>4, <1>5, <1>6, <1>7, <1>8, <1>9, <1>10, <1>11 DEF Consumer, ConsumerStep

(* "Consumers ... wake the moment an event arrives": a consumer that sleeps    *)
(* without a notification has missed neither a failure nor a close nor a       *)
(* detach, and one that waits for an attach has not missed it.                 *)
THEOREM WakeupsAreKept == Spec => []NoLostWakeup
<1>1. Init => Awake
  BY DEF Init, Resting, Awake, OnlyUp, UpSeen, FailSeen, ClosedSeen, DownSeen, Behind,
         Registered
<1>2. Init => OwnerTyped
  BY DEF Init, Idle, OwnerTyped
<1>3. ASSUME Typed, OwnerTyped, Awake, [Next]_vars PROVE Awake'
  <2>1. CASE UNCHANGED vars
    BY <1>3, <2>1 DEF vars, laneVars, Awake, OnlyUp, UpSeen, FailSeen, ClosedSeen, DownSeen,
                      Detaching
  <2>2. CASE Next
    BY <1>3, <2>2, AwakeOwner, AwakeForwarder, AwakeConsumer DEF Next
  <2> QED BY <1>3, <2>1, <2>2
<1>4. CountInv => Typed /\ generation \in Nat
  BY DEF CountInv, Typed
<1>5. Awake => NoLostWakeup
  BY DEF Awake, OnlyUp, UpSeen, FailSeen, ClosedSeen, DownSeen, Behind, Registered,
         Detaching, NoLostWakeup
<1> QED
  BY <1>1, <1>3, <1>4, <1>5, <1>2, CountInit, CountStep, OwnerStep, PTL DEF Spec

-----------------------------------------------------------------------------
(***************************************************************************)
(* The order in which messages are handed out.  Attachments have odd        *)
(* generations (Turns); a message is of an attachment that has begun, and   *)
(* numbered up to what that has queued (Known); channel and carry are in    *)
(* order, the carry before the channel and what was handed out before both; *)
(* a take that has loaded the generation is not behind what was handed out. *)
(***************************************************************************)
Rises(s) == \A i, j \in 1..Len(s) : i < j /\ s[i].gen = s[j].gen => s[i].n < s[j].n
Before(m, s) == \A j \in 1..Len(s) : s[j].gen = m.gen => m.n < s[j].n

Odd(g) == g % 2 = 1
Known(m, top, count) == Odd(m.gen) /\ m.gen <= top /\ m.n <= count[m.gen]

Turns ==
    \/ owner.step = "idle" /\ guards = {} /\ ~Odd(generation)
    \/ owner.step = "idle" /\ guards = {generation} /\ Odd(generation)
    \/ /\ owner.step \in {"attach_closed", "attach_fail", "attach_up"}
       /\ owner.gen = generation /\ guards = {} /\ Odd(generation)
    \/ Detaching /\ guards = {} /\ Odd(generation)
Begun ==
    /\ fwd \in [Gens -> {"none", "run", "failing", "closing", "done"}]
    /\ \A g \in Gens : fwd[g] # "none" => Odd(g) /\ g <= generation
Attachments == OwnerTyped /\ Turns /\ Begun

CarryOrdered ==
    /\ Rises(carry)
    /\ \A i \in 1..Len(carry) : /\ carry[i].gen = carry_gen
                                /\ Before(carry[i], chan)
                                /\ Known(carry[i], generation, sent)
ChanOrdered == Rises(chan) /\ \A i \in 1..Len(chan) : Known(chan[i], generation, sent)
LastFirst ==
    /\ last \in [gen : Nat, n : Nat]
    /\ last.gen = 0 \/ (last.gen \in Gens /\ Known(last, generation, sent))
    /\ Before(last, carry) /\ Before(last, chan)
NotBehind ==
    /\ con.step \in {"drain", "take_fail", "late_fail", "load_closed", "late_closed"}
         => last.gen <= con.current
    /\ con.step \in {"late_fail", "late_closed"} => carry = <<>>

OrderInv == CarryOrdered /\ ChanOrdered /\ LastFirst /\ NotBehind

(* Attaching and detaching take turns. *)
LEMMA AttachmentsStep ==
  ASSUME Typed, Attachments, [Next]_vars PROVE Attachments'
<1> USE DEF Attachments
<1>1. OwnerTyped' /\ generation \in Nat
  BY OwnerStep DEF Typed
<1>2. Begun /\ Turns
  OBVIOUS
<1>3. ASSUME UNCHANGED <<generation, owner, guards>>, Begun' PROVE Attachments'
  BY <1>1, <1>3 DEF Turns, Detaching
<1>4. CASE Attach
  <2>1. Odd(generation + 1)
    BY <1>1, <1>4 DEF Attach, Turns, Odd, Detaching
  <2>2. Turns'
    BY <1>4, <2>1 DEF Attach, Turns, Detaching
  <2>3. Begun'
    BY <1>1, <1>4 DEF Attach, Begun, Gens
  <2> QED BY <1>1, <2>2, <2>3
<1>5. CASE AttachClosed \/ AttachFail
  <2>1. UNCHANGED <<generation, guards, fwd>>
    BY <1>5 DEF AttachClosed, AttachFail
  <2>2. owner'.step \in {"attach_fail", "attach_up"} /\ owner'.gen = owner.gen
    BY <1>5 DEF AttachClosed, AttachFail, OwnerTyped
  <2>3. Turns'
    BY <1>5, <2>1, <2>2 DEF AttachClosed, AttachFail, Turns, Detaching
  <2> QED BY <1>1, <2>1, <2>3 DEF Begun
<1>6. CASE AttachUp
  <2>1. owner.gen = generation /\ Odd(generation) /\ guards = {}
    BY <1>6 DEF AttachUp, Turns, Detaching
  <2>2. Turns'
    BY <1>6, <2>1 DEF AttachUp, Turns, Idle
  <2>3. Begun'
    <3>1. /\ \A g \in Gens : fwd'[g] # "none" => fwd[g] # "none" \/ g = generation
          /\ fwd' \in [Gens -> {"none", "run", "failing", "closing", "done"}]
      BY <1>6, <2>1 DEF AttachUp, Begun
    <3> QED BY <1>1, <1>6, <2>1, <3>1 DEF AttachUp, Begun, Gens
  <2> QED BY <1>1, <2>2, <2>3
<1>7. ASSUME NEW g \in Gens, Detach(g) PROVE Attachments'
  <2>1. guards = {generation} /\ Odd(generation) /\ g = generation
    BY <1>7 DEF Detach, Turns, Detaching
  <2>2. guards' = {} /\ owner'.step = "detach_closed" /\ UNCHANGED <<generation, fwd>>
    BY <1>7, <2>1 DEF Detach
  <2>3. Turns'
    BY <2>1, <2>2 DEF Turns, Detaching
  <2> QED BY <1>1, <2>2, <2>3 DEF Begun
<1>8. CASE DetachClosed
  <2>1. UNCHANGED <<generation, guards, fwd>> /\ owner'.step = "detach_gen"
    BY <1>8 DEF DetachClosed, OwnerTyped
  <2>2. Turns'
    BY <1>8, <2>1 DEF DetachClosed, Turns, Detaching
  <2> QED BY <1>1, <2>1, <2>2 DEF Begun
<1>9. CASE DetachGen
  <2>1. guards = {} /\ Odd(generation)
    BY <1>9 DEF DetachGen, Turns, Detaching
  <2>2. ~Odd(generation + 1)
    BY <1>1, <2>1 DEF Odd
  <2>3. Turns'
    BY <1>9, <2>1, <2>2 DEF DetachGen, Turns, Idle
  <2>4. Begun'
    BY <1>1, <1>9 DEF DetachGen, Begun, Gens
  <2> QED BY <1>1, <2>3, <2>4
<1>10. CASE Forwarder
  <2>1. PICK g \in Gens \ {0} : \/ Send(g) \/ FailCheck(g) \/ FailStore(g)
                               \/ CloseCheck(g) \/ CloseStore(g) \/ Stop(g)
    BY <1>10 DEF Forwarder
  <2>2. /\ UNCHANGED <<generation, owner, guards>>
        /\ \/ fwd' = fwd
           \/ /\ fwd[g] # "none"
              /\ \E f \in {"run", "failing", "closing", "done"} :
                   fwd' = [fwd EXCEPT ![g] = f]
    BY <2>1 DEF Send, FailCheck, FailStore, CloseCheck, CloseStore, Stop, laneVars
  <2>3. CASE fwd' = fwd
    BY <1>2, <1>3, <2>2, <2>3 DEF Begun
  <2>4. ASSUME fwd[g] # "none", NEW f \in {"run", "failing", "closing", "done"},
               fwd' = [fwd EXCEPT ![g] = f]
        PROVE  Begun'
    BY <1>2, <2>2, <2>4 DEF Begun
  <2> QED BY <1>3, <2>2, <2>3, <2>4
<1>11. CASE Consumer
  <2>1. UNCHANGED <<generation, owner, guards, fwd>>
    BY <1>11 DEF Consumer, ConsumerStep, Take, LoadUp, LoadGen, DrainStep, TakeFail,
                 LateFail, PutBack, LoadClosed, LateClosed, WaitRecv, WaitNotified,
                 WaitTimeout, PollDown, WaitUpCheck, WaitUpNotified, laneVars
  <2> QED BY <1>3, <2>1 DEF Begun
<1>12. CASE UNCHANGED vars
  BY <1>3, <1>12 DEF vars, laneVars, Begun
<1> QED BY <1>4, <1>5, <1>6, <1>7, <1>8, <1>9, <1>10, <1>11, <1>12 DEF Next, Owner

(* The messages of one generation keep their order. *)
LEMMA OfGenOrder ==
  ASSUME NEW s \in Seq(Msg), NEW g, Rises(s)
  PROVE  /\ Rises(OfGen(s, g))
         /\ \A j \in 1..Len(OfGen(s, g)) : \E i \in 1..Len(s) : OfGen(s, g)[j] = s[i]
<1> DEFINE n == Cardinality(Places(s, g))
           o == OfGen(s, g)
           P(j) == Place(s, g, j)
<1>1. n \in Nat
  BY PlacesCounted
<1>2. \A j \in 1..n : P(j) \in 1..Len(s) /\ s[P(j)].gen = g
  BY PlaceExists DEF Places
<1>3. \A j, l \in 1..n : j < l => P(j) < P(l)
  BY PlacesRise
<1>4. o = [j \in 1..n |-> s[P(j)]]
  BY DEF OfGen
<1> HIDE DEF n, o, P
<1>5. Len(o) = n /\ \A j \in 1..n : o[j] = s[P(j)]
  BY <1>1, <1>4
<1>6. ASSUME NEW j \in 1..n, NEW l \in 1..n, j < l PROVE o[j].n < o[l].n
  BY <1>2, <1>3, <1>5, <1>6 DEF Rises
<1>7. Rises(o)
  BY <1>5, <1>6 DEF Rises
<1> QED BY <1>2, <1>5, <1>7 DEF o

(* The elements of two sequences put together. *)
LEMMA Joined ==
  ASSUME NEW a \in Seq(Msg), NEW b \in Seq(Msg)
  PROVE  /\ a \o b \in Seq(Msg) /\ Len(a \o b) = Len(a) + Len(b)
         /\ \A i \in 1..Len(a) : (a \o b)[i] = a[i]
         /\ \A i \in 1..Len(b) : (a \o b)[Len(a) + i] = b[i]
<1>1. /\ a \o b \in Seq(Msg) /\ Len(a \o b) = Len(a) + Len(b)
      /\ \A i \in 1..Len(a) + Len(b) :
           (a \o b)[i] = IF i <= Len(a) THEN a[i] ELSE b[i - Len(a)]
  BY ConcatProperties
<1>2. Len(a) \in Nat /\ Len(b) \in Nat
  OBVIOUS
<1> DEFINE la == Len(a)
           lb == Len(b)
           j == a \o b
<1> HIDE DEF la, lb, j
<1>3. \A i \in 1..la : j[i] = a[i]
  BY <1>1, <1>2 DEF la, lb, j
<1>4. ASSUME NEW i \in 1..lb PROVE j[la + i] = b[i]
  <2>1. la + i \in 1..la + lb /\ ~ (la + i <= la) /\ (la + i) - la = i
    BY <1>2 DEF la, lb
  <2>2. j[la + i] = IF la + i <= la THEN a[la + i] ELSE b[(la + i) - la]
    BY <1>1, <2>1 DEF la, lb, j
  <2> QED BY <2>1, <2>2
<1> QED BY <1>1, <1>3, <1>4 DEF la, lb, j

(* A drain hands out, of the carry and then of the channel, in order; what    *)
(* it leaves comes later.                                                     *)
InOrder(w, left, held, g) ==
    /\ w \in Seq(Msg) /\ Rises(w)
    /\ \A i \in 1..Len(w) :
         /\ w[i].gen = g /\ Before(w[i], left)
         /\ \/ \E j \in 1..Len(held) : w[i] = held[j]
            \/ \E j \in 1..Len(chan) : w[i] = chan[j]
    /\ Rises(left)
    /\ \A i \in 1..Len(left) : \E j \in 1..Len(chan) : left[i] = chan[j]

(* The batch and what stays carried, in this order, are in order. *)
LEMMA DrainOrder ==
  ASSUME chan \in Seq(Msg), NEW held \in Seq(Msg), NEW max \in Nat \ {0}, NEW g,
         NEW d, d = Drained(held, max, g), Rises(chan), Rises(held),
         \A i \in 1..Len(held) : held[i].gen = g /\ Before(held[i], chan)
  PROVE  InOrder(d.batch \o d.carry, d.chan, held, g)
<1> DEFINE c == Min({max, Len(held)})
           k == Scanned(max - c, g)
           read == SubSeq(chan, 1, k)
           from == OfGen(read, g)
           first == SubSeq(held, 1, c)
           rest == SubSeq(held, c + 1, Len(held))
           left == SubSeq(chan, k + 1, Len(chan))
           w == (first \o from) \o rest
<1>1. Len(held) \in Nat /\ Len(chan) \in Nat
  OBVIOUS
<1>2. c \in 0..Len(held) /\ (c = Len(held) \/ c = max)
  <2>1. {max, Len(held)} \in SUBSET Nat
    OBVIOUS
  <2>2. c \in {max, Len(held)} /\ c <= max /\ c <= Len(held)
    BY <2>1, MinOf
  <2> QED BY <1>1, <2>2
<1>3. max - c \in Nat
  <2>1. {max, Len(held)} \in SUBSET Nat
    OBVIOUS
  <2>2. c \in {max, Len(held)} /\ c <= max
    BY <2>1, MinOf
  <2> QED BY <1>1, <2>2
<1> HIDE DEF c
<1>4. k \in 0..Len(chan) /\ (c = max => k = 0)
  <2>1. k \in 0..Len(chan)
    BY <1>3, ScannedFacts
  <2>2. ASSUME c = max PROVE k = 0
    <3>1. max - c = 0
      BY <1>3, <2>2
    <3> QED BY <3>1 DEF Scanned
  <2> QED BY <2>1, <2>2
<1>5. d = [batch |-> first \o from, carry |-> rest, chan |-> left,
           lost |-> k - Len(from)]
  BY DEF Drained, c
<1> HIDE DEF k
<1>6. /\ read \in Seq(Msg) /\ Len(read) = k /\ \A i \in 1..k : read[i] = chan[i]
      /\ left \in Seq(Msg) /\ Len(left) = Len(chan) - k
      /\ \A i \in 1..Len(left) : left[i] = chan[k + i]
  BY <1>4
<1>7. /\ first \in Seq(Msg) /\ Len(first) = c /\ \A i \in 1..c : first[i] = held[i]
      /\ rest \in Seq(Msg) /\ Len(rest) = Len(held) - c
      /\ \A i \in 1..Len(rest) : rest[i] = held[c + i]
  BY <1>2
<1> HIDE DEF first, rest, read, left
<1>8. Rises(read)
  <2>1. ASSUME NEW i \in 1..k, NEW j \in 1..k, i < j, read[i].gen = read[j].gen
        PROVE  read[i].n < read[j].n
    <3>1. i \in 1..Len(chan) /\ j \in 1..Len(chan)
      BY <1>1, <1>4
    <3> QED BY <1>6, <2>1, <3>1 DEF Rises
  <2> QED BY <1>6, <2>1 DEF Rises
<1>9. /\ from \in Seq(Msg) /\ Len(from) \in 0..k /\ Rises(from)
      /\ \A j \in 1..Len(from) : from[j].gen = g /\ \E i \in 1..k : from[j] = chan[i]
  <2>1. /\ from \in Seq(Msg) /\ Len(from) \in 0..k
        /\ \A j \in 1..Len(from) : from[j].gen = g
    BY <1>6, OfGenFacts
  <2>2. /\ Rises(from)
        /\ \A j \in 1..Len(from) : \E i \in 1..Len(read) : from[j] = read[i]
    BY <1>6, <1>8, OfGenOrder
  <2> QED BY <1>6, <2>1, <2>2
<1> HIDE DEF from
<1> DEFINE h == Len(held)
           f == Len(from)
<1>10. /\ w \in Seq(Msg) /\ Len(w) = h + f
       /\ \A i \in 1..h : w[i] = held[i]
       /\ \A i \in 1..f : w[h + i] = from[i]
  <2>1. /\ first \o from \in Seq(Msg) /\ Len(first \o from) = c + f
        /\ \A i \in 1..c : (first \o from)[i] = first[i]
        /\ \A i \in 1..f : (first \o from)[c + i] = from[i]
    <3>1. first \in Seq(Msg) /\ from \in Seq(Msg) /\ Len(first) = c
      BY <1>7, <1>9
    <3>2. /\ first \o from \in Seq(Msg) /\ Len(first \o from) = Len(first) + Len(from)
          /\ \A i \in 1..Len(first) : (first \o from)[i] = first[i]
          /\ \A i \in 1..Len(from) : (first \o from)[Len(first) + i] = from[i]
      BY <3>1, Joined
    <3> QED BY <3>1, <3>2, Zenon
  <2> DEFINE b == first \o from
  <2> HIDE DEF b
  <2>2. /\ b \o rest \in Seq(Msg) /\ Len(b \o rest) = Len(b) + (h - c)
        /\ \A i \in 1..Len(b) : (b \o rest)[i] = b[i]
        /\ \A i \in 1..(h - c) : (b \o rest)[Len(b) + i] = rest[i]
    <3>1. b \in Seq(Msg) /\ rest \in Seq(Msg) /\ Len(rest) = h - c
      BY <1>7, <2>1 DEF b
    <3>2. /\ b \o rest \in Seq(Msg) /\ Len(b \o rest) = Len(b) + Len(rest)
          /\ \A i \in 1..Len(b) : (b \o rest)[i] = b[i]
          /\ \A i \in 1..Len(rest) : (b \o rest)[Len(b) + i] = rest[i]
      BY <3>1, Joined
    <3> QED BY <3>1, <3>2, Zenon
  <2>3. w = b \o rest
    BY DEF b
  <2>4. Len(b) = c + f /\ f \in Nat /\ h \in Nat /\ c \in Nat
    BY <1>1, <1>2, <1>4, <1>9, <2>1 DEF b
  <2> HIDE DEF w, h, f
  <2>5. CASE c = h
    <3>1. \A i \in 1..h : b[i] = held[i]
      BY <1>7, <2>1, <2>5 DEF b
    <3>2. \A i \in 1..f : b[h + i] = from[i]
      BY <2>1, <2>5 DEF b
    <3> QED BY <2>2, <2>3, <2>4, <2>5, <3>1, <3>2
  <2>6. CASE c # h
    <3>1. k = 0 /\ f = 0
      BY <1>2, <1>4, <1>9, <2>6 DEF h, f
    <3>2. c <= h
      BY <1>1, <1>2 DEF h
    <3>3. \A i \in 1..c : w[i] = held[i]
      BY <1>7, <2>1, <2>2, <2>3, <2>4 DEF b
    <3>4. ASSUME NEW i \in (c + 1)..h PROVE w[i] = held[i]
      <4>1. i - c \in 1..(h - c) /\ Len(b) + (i - c) = i /\ c + (i - c) = i
        BY <2>4, <3>1, <3>2
      <4>2. w[i] = rest[i - c]
        BY <2>2, <2>3, <4>1
      <4> QED BY <1>7, <4>1, <4>2 DEF h
    <3> QED BY <2>2, <2>3, <2>4, <3>1, <3>2, <3>3, <3>4
  <2> QED BY <2>5, <2>6
<1>11. h \in Nat /\ f \in Nat
  BY <1>4, <1>9
<1> HIDE DEF w, h, f
<1>12. ASSUME NEW i \in 1..Len(w)
       PROVE  \/ i \in 1..h /\ w[i] = held[i]
              \/ i - h \in 1..f /\ w[i] = from[i - h]
  <2>1. CASE i \in 1..h
    BY <1>10, <2>1
  <2>2. CASE i \notin 1..h
    <3>1. i - h \in 1..f /\ h + (i - h) = i
      BY <1>10, <1>11, <2>2
    <3> QED BY <1>10, <3>1
  <2> QED BY <2>1, <2>2
<1>13. ASSUME NEW i \in 1..Len(w)
       PROVE  /\ w[i].gen = g
              /\ \/ \E j \in 1..Len(held) : w[i] = held[j]
                 \/ \E j \in 1..k : w[i] = chan[j]
  BY <1>9, <1>12 DEF h, f
<1>14. Rises(w)
  <2> SUFFICES ASSUME NEW i \in 1..Len(w), NEW j \in 1..Len(w), i < j
               PROVE  w[i].n < w[j].n
    BY DEF Rises
  <2>1. CASE i \in 1..h /\ j \in 1..h
    BY <1>10, <2>1 DEF Rises, h
  <2>2. CASE i \in 1..h /\ j \notin 1..h
    <3>1. w[i] = held[i] /\ \E p \in 1..Len(chan) : w[j] = chan[p]
      BY <1>4, <1>9, <1>10, <1>12, <2>2 DEF f
    <3> QED BY <1>13, <2>2, <3>1 DEF Before, h
  <2>3. CASE i \notin 1..h
    <3>1. /\ i - h \in 1..f /\ w[i] = from[i - h]
          /\ j - h \in 1..f /\ w[j] = from[j - h]
      BY <1>11, <1>12, <2>3
    <3>2. i - h < j - h
      BY <1>10, <1>11
    <3> QED BY <1>9, <3>1, <3>2 DEF Rises, f
  <2> QED BY <2>1, <2>2, <2>3
<1>15. ASSUME NEW i \in 1..Len(w) PROVE Before(w[i], left)
  <2> SUFFICES ASSUME NEW j \in 1..Len(left), left[j].gen = w[i].gen
               PROVE  w[i].n < left[j].n
    BY DEF Before
  <2>1. left[j] = chan[k + j] /\ k + j \in 1..Len(chan)
    BY <1>1, <1>4, <1>6
  <2>2. CASE \E l \in 1..Len(held) : w[i] = held[l]
    BY <2>1, <2>2 DEF Before
  <2>3. CASE \E l \in 1..k : w[i] = chan[l]
    <3>1. PICK l \in 1..k : w[i] = chan[l]
      BY <2>3
    <3>2. l \in 1..Len(chan) /\ l < k + j
      BY <1>1, <1>4, <1>6
    <3> QED BY <2>1, <3>1, <3>2 DEF Rises
  <2> QED BY <1>13, <2>2, <2>3
<1>16. /\ Rises(left)
       /\ \A i \in 1..Len(left) : \E j \in 1..Len(chan) : left[i] = chan[j]
  <2>1. \A i \in 1..Len(left) : k + i \in 1..Len(chan) /\ left[i] = chan[k + i]
    BY <1>1, <1>4, <1>6
  <2>2. ASSUME NEW i \in 1..Len(left), NEW j \in 1..Len(left), i < j,
               left[i].gen = left[j].gen
        PROVE  left[i].n < left[j].n
    <3>1. k + i < k + j
      BY <1>4, <2>2
    <3> QED BY <2>1, <2>2, <3>1 DEF Rises
  <2> QED BY <2>1, <2>2 DEF Rises
<1>17. InOrder(w, left, held, g)
  <2>1. ASSUME NEW i \in 1..Len(w)
        PROVE  \/ \E j \in 1..Len(held) : w[i] = held[j]
               \/ \E j \in 1..Len(chan) : w[i] = chan[j]
    BY <1>1, <1>4, <1>13
  <2> QED BY <1>10, <1>13, <1>14, <1>15, <1>16, <2>1 DEF InOrder
<1>18. d.batch = first \o from /\ d.carry = rest /\ d.chan = left
  BY <1>5
<1> QED BY <1>17, <1>18 DEF w

(* `finish` hands out the first messages of a drain and carries the others. *)
Splits(d, w, g, k) ==
    /\ chan' = d.chan /\ sent' = sent
    /\ carry' \in Seq(Msg) /\ Len(carry') = Len(w) - k
    /\ \A i \in 1..(Len(w) - k) : carry'[i] = w[k + i]
    /\ k = 0 => last' = last
    /\ k # 0 => last' = [gen |-> w[k].gen, n |-> w[k].n]
    /\ carry_gen' = g \/ (carry_gen' = carry_gen /\ (carry' = <<>> \/ d.carry # <<>>))

(* A `finish` splits what was drained at one place. *)
LEMMA FinishOrder ==
  ASSUME NEW d, NEW max \in Nat \ {0}, NEW lost \in Nat, NEW g, NEW w,
         d.batch \in Seq(Msg), d.carry \in Seq(Msg), w = d.batch \o d.carry,
         Finish(d, max, lost, g)
  PROVE  \E k \in 0..Len(w) : Splits(d, w, g, k)
<1> DEFINE k == Kept(d.batch, max, lost)
           b == Len(d.batch)
           c == Len(d.carry)
           over == SubSeq(d.batch, k + 1, b)
           out == SubSeq(d.batch, 1, k)
<1>1. b \in Nat /\ c \in Nat
  OBVIOUS
<1>2. k \in 0..b
  <2> HIDE DEF b
  <2>1. {max - 1, b} \in SUBSET Nat /\ {max, b} \in SUBSET Nat
    BY <1>1
  <2>2. /\ Min({max - 1, b}) \in Nat /\ Min({max - 1, b}) <= b
        /\ Min({max, b}) \in Nat /\ Min({max, b}) <= b
    BY <2>1, MinOf
  <2>3. k = IF lost > 0 THEN Min({max - 1, b}) ELSE Min({max, b})
    BY DEF Kept, b
  <2> HIDE DEF k
  <2> QED BY <1>1, <2>2, <2>3
<1>3. /\ chan' = d.chan /\ sent' = sent /\ carry' = over \o d.carry
      /\ last' = IF k = 0 THEN last ELSE [gen |-> out[k].gen, n |-> out[k].n]
      /\ carry_gen' = IF k < b THEN g ELSE carry_gen
  BY DEF Finish, Rest, CarryGen
<1> HIDE DEF k
<1>4. over \in Seq(Msg) /\ Len(over) = b - k /\ \A i \in 1..(b - k) : over[i] = d.batch[k + i]
  BY <1>1, <1>2
<1>5. k # 0 => out[k] = d.batch[k]
  BY <1>1, <1>2
<1> HIDE DEF over, out
<1>6. /\ w \in Seq(Msg) /\ Len(w) = b + c /\ \A i \in 1..b : w[i] = d.batch[i]
      /\ \A i \in 1..c : w[b + i] = d.carry[i]
  BY Joined
<1>7. /\ carry' \in Seq(Msg) /\ Len(carry') = (b - k) + c
      /\ \A i \in 1..(b - k) : carry'[i] = over[i]
      /\ \A i \in 1..c : carry'[(b - k) + i] = d.carry[i]
  <2>1. /\ over \o d.carry \in Seq(Msg) /\ Len(over \o d.carry) = Len(over) + Len(d.carry)
        /\ \A i \in 1..Len(over) : (over \o d.carry)[i] = over[i]
        /\ \A i \in 1..Len(d.carry) : (over \o d.carry)[Len(over) + i] = d.carry[i]
    BY <1>4, Joined
  <2> QED BY <1>3, <1>4, <2>1, Zenon
<1> HIDE DEF b, c
<1>8. ASSUME NEW i \in 1..(Len(w) - k) PROVE carry'[i] = w[k + i]
  <2>1. CASE i \in 1..(b - k)
    <3>1. k + i \in 1..b
      BY <1>1, <1>2, <2>1
    <3> QED BY <1>4, <1>6, <1>7, <2>1, <3>1
  <2>2. CASE i \notin 1..(b - k)
    <3>1. PICK p \in 1..c : (b - k) + p = i /\ b + p = k + i
      <4>1. /\ i - (b - k) \in 1..c /\ (b - k) + (i - (b - k)) = i
            /\ b + (i - (b - k)) = k + i
        BY <1>1, <1>2, <1>6, <2>2
      <4> QED BY <4>1
    <3>2. carry'[(b - k) + p] = d.carry[p] /\ w[b + p] = d.carry[p]
      BY <1>6, <1>7
    <3> QED BY <3>1, <3>2, Zenon
  <2> QED BY <2>1, <2>2
<1>9. k \in 0..Len(w) /\ Len(carry') = Len(w) - k
  BY <1>1, <1>2, <1>6, <1>7
<1>10. k # 0 => last' = [gen |-> w[k].gen, n |-> w[k].n]
  <2> SUFFICES ASSUME k # 0 PROVE last' = [gen |-> w[k].gen, n |-> w[k].n]
    OBVIOUS
  <2>1. k \in 1..b
    BY <1>1, <1>2
  <2>2. out[k] = w[k]
    BY <1>5, <1>6, <2>1
  <2> QED BY <1>3, <2>2
<1>11. carry_gen' = g \/ (carry_gen' = carry_gen /\ (carry' = <<>> \/ d.carry # <<>>))
  <2> SUFFICES ASSUME ~ (k < b), d.carry = <<>> PROVE carry' = <<>>
    BY <1>3
  <2>1. c = 0
    BY DEF c
  <2>2. Len(carry') = 0
    BY <1>1, <1>2, <1>7, <2>1
  <2> QED BY <1>7, <2>2, EmptySeq
<1>12. Splits(d, w, g, k)
  BY <1>3, <1>7, <1>8, <1>9, <1>10, <1>11 DEF Splits
<1> QED BY <1>9, <1>12

Advances == last' # last => \/ last'.gen > last.gen
                            \/ last'.gen = last.gen /\ last'.n > last.n

(* The part of OrderInv that speaks of the queues and of what was handed out. *)
Queues == CarryOrdered /\ ChanOrdered /\ LastFirst

(* A drain that leaves something of the carry was given a carry. *)
LEMMA CarriedWasHeld ==
  ASSUME NEW held \in Seq(Msg), held = <<>>, NEW max \in Nat \ {0}, NEW g, NEW d,
         d = Drained(held, max, g)
  PROVE  d.carry = <<>>
<1> DEFINE c == Min({max, Len(held)})
<1>1. {max, 0} \in SUBSET Nat /\ Len(held) = 0
  OBVIOUS
<1>2. c \in {max, 0} /\ c <= 0
  BY <1>1, MinOf
<1>3. c = 0
  BY <1>2
<1>4. d.carry = SubSeq(held, c + 1, Len(held))
  BY DEF Drained
<1> HIDE DEF c
<1>5. d.carry = SubSeq(held, 1, 0)
  BY <1>1, <1>3, <1>4
<1>6. SubSeq(held, 1, 0) \in Seq(Msg) /\ Len(SubSeq(held, 1, 0)) = 0
  OBVIOUS
<1> QED BY <1>5, <1>6, EmptySeq

(* A drain and its `finish` keep the order, and hand out nothing that is older *)
(* than what was handed out before.                                            *)
LEMMA OrderFinish ==
  ASSUME Typed, Queues, UNCHANGED generation,
         NEW g \in Int, NEW held \in Seq(Msg),
         held = <<>> \/ (held = carry /\ carry_gen = g),
         NEW max \in Nat \ {0}, NEW lost \in Nat,
         last.gen <= g \/ ~Odd(g) \/ g < 0,
         NEW d, d = Drained(held, max, g), Finish(d, max, lost, g)
  PROVE  Queues' /\ Advances /\ (last' = last \/ last'.gen = g)
<1> USE DEF Queues
<1>1. /\ chan \in Seq(Msg) /\ generation \in Nat /\ sent \in [Gens -> Nat]
      /\ Len(chan) \in Nat /\ Len(held) \in Nat
  BY DEF Typed
<1>2. /\ \A j \in 1..Len(chan) : Known(chan[j], generation, sent) /\ chan[j] \in Msg
      /\ \A j \in 1..Len(held) : Known(held[j], generation, sent) /\ held[j] \in Msg
  BY <1>1 DEF CarryOrdered, ChanOrdered
<1>3. Accounts(d, held)
  BY <1>1, DrainedFacts
<1>4. /\ Rises(chan) /\ Rises(held)
      /\ \A i \in 1..Len(held) : held[i].gen = g /\ Before(held[i], chan)
  <2>1. CASE held = <<>>
    BY <2>1 DEF Rises, ChanOrdered
  <2>2. CASE held = carry /\ carry_gen = g
    BY <2>2 DEF CarryOrdered, ChanOrdered
  <2> QED BY <2>1, <2>2
<1>5. PICK w : w = d.batch \o d.carry
  OBVIOUS
<1>6. InOrder(w, d.chan, held, g)
  BY <1>1, <1>4, <1>5, DrainOrder
<1>7. PICK k \in 0..Len(w) : Splits(d, w, g, k)
  <2>1. d.batch \in Seq(Msg) /\ d.carry \in Seq(Msg)
    BY <1>3 DEF Accounts
  <2> QED BY <1>5, <2>1, FinishOrder
<1>8. w \in Seq(Msg) /\ Len(w) \in Nat /\ d.chan \in Seq(Msg) /\ Len(d.chan) \in Nat
  BY <1>3, <1>6 DEF InOrder, Accounts
<1>9. ASSUME NEW i \in 1..Len(w)
      PROVE  /\ Known(w[i], generation, sent) /\ w[i] \in Msg /\ w[i].gen = g /\ Odd(g)
             /\ last.gen <= g /\ (last.gen = g => last.n < w[i].n)
  <2>1. /\ w[i].gen = g /\ Known(w[i], generation, sent) /\ w[i] \in Msg
        /\ last.gen = w[i].gen => last.n < w[i].n
    <3>1. CASE \E j \in 1..Len(chan) : w[i] = chan[j]
      BY <1>2, <1>6, <3>1 DEF InOrder, LastFirst, Before
    <3>2. CASE \E j \in 1..Len(held) : w[i] = held[j]
      <4>1. held = carry
        BY <3>2
      <4> QED BY <1>2, <1>6, <3>2, <4>1 DEF InOrder, LastFirst, Before
    <3> QED BY <1>6, <3>1, <3>2 DEF InOrder
  <2>2. Odd(g) /\ g \in Nat
    BY <2>1 DEF Known, Msg, Gens
  <2>3. last.gen <= g
    BY <2>2
  <2> QED BY <2>1, <2>2, <2>3
<1>10. ASSUME NEW i \in 1..Len(carry')
       PROVE  \E p \in 1..Len(w) : p = k + i /\ carry'[i] = w[p]
  <2> DEFINE n == Len(w)
  <2>1. Len(carry') = n - k /\ n \in Nat /\ k \in 0..n
    BY <1>7, <1>8 DEF Splits
  <2>2. \A j \in 1..(n - k) : carry'[j] = w[k + j]
    BY <1>7 DEF Splits
  <2> HIDE DEF n
  <2>3. k + i \in 1..n /\ i \in 1..(n - k)
    BY <2>1
  <2>4. carry'[i] = w[k + i]
    BY <2>2, <2>3
  <2> QED BY <2>3, <2>4 DEF n
<1>11. k # 0 => k \in 1..Len(w) /\ last'.gen = w[k].gen /\ last'.n = w[k].n
  BY <1>7, <1>8 DEF Splits
<1>12. CarryOrdered'
  <2>1. ASSUME NEW i \in 1..Len(carry') PROVE carry'[i].gen = carry_gen'
    <3>1. carry'[i].gen = g /\ carry' # <<>>
      <4>1. PICK p \in 1..Len(w) : carry'[i] = w[p]
        BY <1>10
      <4> QED BY <1>9, <4>1
    <3>2. CASE carry_gen' = g
      BY <3>1, <3>2
    <3>3. CASE carry_gen' = carry_gen /\ d.carry # <<>>
      <4>1. held # <<>>
        BY <3>3, CarriedWasHeld
      <4> QED BY <3>1, <3>3, <4>1
    <3> QED BY <1>7, <3>1, <3>2, <3>3 DEF Splits
  <2>2. ASSUME NEW i \in 1..Len(carry'), NEW j \in 1..Len(carry'), i < j,
               carry'[i].gen = carry'[j].gen
        PROVE  carry'[i].n < carry'[j].n
    <3>1. PICK p \in 1..Len(w) : p = k + i /\ carry'[i] = w[p]
      BY <1>10
    <3>2. PICK q \in 1..Len(w) : q = k + j /\ carry'[j] = w[q]
      BY <1>10
    <3>3. p < q
      BY <2>2, <3>1, <3>2
    <3> QED BY <1>6, <2>2, <3>1, <3>2, <3>3 DEF InOrder, Rises
  <2>3. ASSUME NEW i \in 1..Len(carry')
        PROVE  Before(carry'[i], chan') /\ Known(carry'[i], generation', sent')
    <3>1. PICK p \in 1..Len(w) : carry'[i] = w[p]
      BY <1>10
    <3>2. Before(w[p], chan')
      BY <1>6, <1>7 DEF InOrder, Splits
    <3> QED BY <1>7, <1>9, <3>1, <3>2 DEF Splits
  <2> QED BY <2>1, <2>2, <2>3 DEF CarryOrdered, Rises
<1>13. ChanOrdered'
  <2>1. Rises(chan')
    BY <1>6, <1>7 DEF InOrder, Splits
  <2>2. ASSUME NEW i \in 1..Len(chan') PROVE Known(chan'[i], generation', sent')
    BY <1>2, <1>6, <1>7 DEF InOrder, Splits
  <2> QED BY <2>1, <2>2 DEF ChanOrdered
<1>14. CASE k = 0
  <2>1. last' = last
    BY <1>7, <1>14 DEF Splits
  <2>2. Before(last, carry')
    <3>1. ASSUME NEW i \in 1..Len(carry'), carry'[i].gen = last.gen
          PROVE  last.n < carry'[i].n
      <4>1. PICK p \in 1..Len(w) : carry'[i] = w[p]
        BY <1>10
      <4> QED BY <1>9, <3>1, <4>1
    <3> QED BY <3>1 DEF Before
  <2>3. Before(last, chan')
    <3>1. ASSUME NEW i \in 1..Len(chan'), chan'[i].gen = last.gen
          PROVE  last.n < chan'[i].n
      <4>1. PICK j \in 1..Len(chan) : chan'[i] = chan[j]
        BY <1>6, <1>7 DEF InOrder, Splits
      <4> QED BY <3>1, <4>1 DEF LastFirst, Before
    <3> QED BY <3>1 DEF Before
  <2>4. LastFirst'
    BY <1>7, <2>1, <2>2, <2>3 DEF LastFirst, Splits
  <2> QED BY <1>12, <1>13, <2>1, <2>4 DEF Advances
<1>15. CASE k # 0
  <2>1. /\ k \in 1..Len(w) /\ last' = [gen |-> w[k].gen, n |-> w[k].n]
        /\ w[k] \in Msg /\ w[k].gen = g /\ Known(w[k], generation, sent)
    BY <1>7, <1>9, <1>11, <1>15 DEF Splits
  <2>2. last'.gen = g /\ last'.n = w[k].n /\ last'.gen \in Gens /\ last'.n \in Nat
    BY <2>1 DEF Msg
  <2>3. last' \in [gen : Nat, n : Nat]
    BY <2>1, <2>2 DEF Gens
  <2>4. Known(last', generation', sent')
    BY <1>7, <2>1, <2>2 DEF Known, Splits
  <2>5. ASSUME NEW i \in 1..Len(carry') PROVE last'.n < carry'[i].n
    <3>1. PICK p \in 1..Len(w) : p = k + i /\ carry'[i] = w[p]
      BY <1>10
    <3>2. k < p /\ w[p].gen = g
      BY <1>9, <3>1
    <3> QED BY <1>6, <2>1, <2>2, <3>1, <3>2 DEF InOrder, Rises
  <2>6. Before(last', chan')
    BY <1>6, <1>7, <2>1, <2>2 DEF InOrder, Before, Splits
  <2>7. LastFirst'
    BY <2>2, <2>3, <2>4, <2>5, <2>6 DEF LastFirst, Before
  <2>8. last.gen \in Nat /\ last.n \in Nat /\ last.gen <= g
        /\ (last.gen = g => last.n < last'.n)
    BY <1>9, <2>1, <2>2 DEF LastFirst
  <2>9. Advances
    BY <2>2, <2>8 DEF Advances
  <2> QED BY <1>12, <1>13, <2>2, <2>7, <2>9
<1> QED BY <1>14, <1>15

(* A step that leaves the queues alone. *)
LEMMA OrderKept ==
  ASSUME Typed, Queues, UNCHANGED <<chan, carry, carry_gen, last, sent>>,
         generation' \in Nat, generation <= generation'
  PROVE  Queues' /\ Advances
<1>1. /\ chan \in Seq(Msg) /\ carry \in Seq(Msg) /\ generation \in Nat
      /\ sent \in [Gens -> Nat]
  BY DEF Typed
<1>2. ASSUME NEW m, m.gen \in Gens, m.n \in Nat, Known(m, generation, sent)
      PROVE  Known(m, generation', sent)
  <2>1. sent[m.gen] \in Nat /\ m.gen \in Nat
    BY <1>1, <1>2 DEF Gens
  <2> QED BY <1>1, <1>2, <2>1 DEF Known
<1>3. ASSUME NEW i \in 1..Len(carry) PROVE Known(carry[i], generation', sent)
  <2>1. carry[i] \in Msg /\ Known(carry[i], generation, sent)
    BY <1>1 DEF Queues, CarryOrdered
  <2> QED BY <1>2, <2>1 DEF Msg
<1>4. ASSUME NEW i \in 1..Len(chan) PROVE Known(chan[i], generation', sent)
  <2>1. chan[i] \in Msg /\ Known(chan[i], generation, sent)
    BY <1>1 DEF Queues, ChanOrdered
  <2> QED BY <1>2, <2>1 DEF Msg
<1>5. /\ last \in [gen : Nat, n : Nat]
      /\ last.gen = 0 \/ (last.gen \in Gens /\ Known(last, generation', sent))
  BY <1>2 DEF Queues, LastFirst
<1>6. CarryOrdered'
  BY <1>3 DEF Queues, CarryOrdered
<1>7. ChanOrdered'
  BY <1>4 DEF Queues, ChanOrdered
<1>8. LastFirst'
  BY <1>5 DEF Queues, LastFirst
<1> QED BY <1>6, <1>7, <1>8 DEF Queues, Advances

(* A forwarder numbers what it queues higher than all before. *)
LEMMA OrderSend ==
  ASSUME Typed, Begun, Queues, NEW g \in Gens \ {0}, Send(g)
  PROVE  Queues' /\ Advances
<1> DEFINE m == [gen |-> g, n |-> sent[g] + 1]
<1>1. /\ chan' = Append(chan, m) /\ sent' = [sent EXCEPT ![g] = @ + 1]
      /\ UNCHANGED <<generation, carry, carry_gen, last>>
  BY DEF Send, laneVars
<1>2. /\ chan \in Seq(Msg) /\ carry \in Seq(Msg) /\ generation \in Nat
      /\ sent \in [Gens -> Nat] /\ Len(chan) \in Nat
  BY DEF Typed
<1>3. m \in Msg /\ m.gen = g /\ m.n = sent[g] + 1
  BY <1>2 DEF Msg
<1> HIDE DEF m
<1>4. /\ Len(chan') = Len(chan) + 1 /\ chan'[Len(chan) + 1] = m
      /\ \A i \in 1..Len(chan) : chan'[i] = chan[i]
  BY <1>1, <1>2, <1>3
<1>5. /\ \A h \in Gens : sent'[h] \in Nat /\ sent[h] \in Nat /\ sent[h] <= sent'[h]
      /\ sent'[g] = sent[g] + 1
  BY <1>1, <1>2
<1>6. ASSUME NEW x, x.gen \in Gens, x.n \in Nat, Known(x, generation, sent)
      PROVE  Known(x, generation', sent') /\ (x.gen = g => x.n < m.n)
  <2>1. /\ x.n <= sent[x.gen] /\ sent[x.gen] \in Nat /\ sent'[x.gen] \in Nat
        /\ sent[x.gen] <= sent'[x.gen]
    BY <1>5, <1>6 DEF Known
  <2>2. x.n <= sent'[x.gen]
    BY <1>6, <2>1
  <2>3. x.gen = g => x.n < m.n
    BY <1>3, <1>6, <2>1
  <2> QED BY <1>1, <1>6, <2>2, <2>3 DEF Known
<1>7. Known(m, generation', sent')
  <2>1. Odd(g) /\ g <= generation
    BY DEF Send, Begun
  <2> QED BY <1>1, <1>3, <1>5, <2>1 DEF Known
<1>8. ASSUME NEW x, x.gen \in Gens \/ x.gen = 0,
             x.gen = g => x.n < m.n, Before(x, chan)
      PROVE  Before(x, chan')
  <2> SUFFICES ASSUME NEW j \in 1..Len(chan'), chan'[j].gen = x.gen
               PROVE  x.n < chan'[j].n
    BY DEF Before
  <2>1. CASE j \in 1..Len(chan)
    BY <1>4, <1>8, <2>1 DEF Before
  <2>2. CASE j = Len(chan) + 1
    BY <1>3, <1>4, <1>8, <2>2
  <2> QED BY <1>2, <1>4, <2>1, <2>2
<1>9. ASSUME NEW i \in 1..Len(chan)
      PROVE  Known(chan[i], generation', sent') /\ (chan[i].gen = g => chan[i].n < m.n)
  <2>1. chan[i] \in Msg /\ Known(chan[i], generation, sent)
    BY <1>2 DEF Queues, ChanOrdered
  <2> QED BY <1>6, <2>1 DEF Msg
<1>10. ASSUME NEW i \in 1..Len(carry)
       PROVE  Known(carry[i], generation', sent') /\ Before(carry[i], chan')
  <2>1. carry[i] \in Msg /\ Known(carry[i], generation, sent) /\ Before(carry[i], chan)
    BY <1>2 DEF Queues, CarryOrdered
  <2> QED BY <1>6, <1>8, <2>1 DEF Msg
<1>11. CarryOrdered'
  BY <1>1, <1>10 DEF Queues, CarryOrdered
<1>12. ChanOrdered'
  <2>1. ASSUME NEW i \in 1..Len(chan') PROVE Known(chan'[i], generation', sent')
    <3>1. CASE i \in 1..Len(chan)
      BY <1>4, <1>9, <3>1
    <3>2. CASE i = Len(chan) + 1
      BY <1>4, <1>7, <3>2
    <3> QED BY <1>2, <1>4, <3>1, <3>2
  <2>2. ASSUME NEW i \in 1..Len(chan'), NEW j \in 1..Len(chan'), i < j,
               chan'[i].gen = chan'[j].gen
        PROVE  chan'[i].n < chan'[j].n
    <3>1. i \in 1..Len(chan)
      BY <1>2, <1>4, <2>2
    <3>2. CASE j \in 1..Len(chan)
      BY <1>4, <2>2, <3>1, <3>2 DEF Queues, ChanOrdered, Rises
    <3>3. CASE j = Len(chan) + 1
      BY <1>3, <1>4, <1>9, <2>2, <3>1, <3>3
    <3> QED BY <1>2, <1>4, <3>2, <3>3
  <2> QED BY <2>1, <2>2 DEF ChanOrdered, Rises
<1>13. LastFirst'
  <2>1. /\ last \in [gen : Nat, n : Nat] /\ Before(last, carry) /\ Before(last, chan)
        /\ last.gen = 0 \/ (last.gen \in Gens /\ Known(last, generation, sent))
    BY DEF Queues, LastFirst
  <2>2. CASE last.gen = 0
    <3>1. Before(last, chan')
      BY <1>8, <2>1, <2>2
    <3> QED BY <1>1, <2>1, <2>2, <3>1 DEF LastFirst
  <2>3. CASE last.gen \in Gens /\ Known(last, generation, sent)
    <3>1. Known(last, generation', sent') /\ (last.gen = g => last.n < m.n)
      BY <1>6, <2>1, <2>3
    <3>2. Before(last, chan')
      BY <1>8, <2>1, <2>3, <3>1
    <3> QED BY <1>1, <2>1, <2>3, <3>1, <3>2 DEF LastFirst
  <2> QED BY <2>1, <2>2, <2>3
<1> QED BY <1>1, <1>11, <1>12, <1>13 DEF Queues, Advances

(* The first drain of a take: it is owed the attachment it has loaded or, while *)
(* the lane is down, the one before; generations that are even own nothing.     *)
LEMMA OrderDrain == ASSUME Typed, OrderInv, DrainStep PROVE OrderInv' /\ Advances
<1>1. /\ con \in Takes /\ con.max \in Nat \ {0} /\ con.current \in Int /\ con.up \in BOOLEAN
      /\ carry \in Seq(Msg) /\ stale \in Nat /\ chan \in Seq(Msg) /\ Len(carry) \in Nat
  BY DEF Typed, Takes
<1>2. PICK held : held = IF CarryLost > 0 THEN <<>> ELSE carry
  OBVIOUS
<1>3. PICK max : max = con.max
  OBVIOUS
<1>4. PICK g : g = Owed
  OBVIOUS
<1>5. PICK d : d = Drained(held, max, g)
  OBVIOUS
<1>6. PICK lost : lost = stale + CarryLost + d.lost
  OBVIOUS
<1>7. /\ Finish(d, max, lost, g) /\ UNCHANGED generation /\ con.step = "drain"
      /\ Return("msgs") \/ \E step \in {"take_fail", "down"} : Goto(step)
  BY <1>2, <1>3, <1>4, <1>5, <1>6 DEF DrainStep
<1>8. held \in Seq(Msg) /\ (held = <<>> \/ (held = carry /\ carry_gen = g))
  <2>1. CASE CarryLost > 0
    BY <1>2, <2>1
  <2>2. CASE ~ (CarryLost > 0)
    <3>1. held = carry
      BY <1>2, <2>2
    <3>2. carry_gen = g \/ Len(carry) = 0
      BY <1>1, <1>4, <2>2 DEF CarryLost
    <3> QED BY <1>1, <3>1, <3>2, EmptySeq
  <2> QED BY <2>1, <2>2
<1>9. max \in Nat \ {0} /\ lost \in Nat
  <2>1. Accounts(d, held)
    BY <1>1, <1>3, <1>5, <1>8, DrainedFacts
  <2>2. CarryLost \in Nat
    BY <1>1 DEF CarryLost
  <2> QED BY <1>1, <1>3, <1>6, <2>1, <2>2 DEF Accounts
<1>10. last.gen \in Nat /\ last.gen <= con.current /\ (last.gen = 0 \/ Odd(last.gen))
  BY <1>7 DEF OrderInv, NotBehind, LastFirst, Known
<1>11. g \in Int /\ g <= con.current /\ (last.gen <= g \/ ~Odd(g) \/ g < 0)
  <2>1. CASE con.up
    BY <1>1, <1>4, <1>10, <2>1 DEF Owed
  <2>2. CASE ~con.up
    <3>1. g = con.current - 1
      BY <1>4, <2>2 DEF Owed
    <3>2. CASE last.gen <= g
      BY <1>1, <3>1, <3>2
    <3>3. CASE ~ (last.gen <= g)
      <4>1. last.gen = con.current
        BY <1>1, <1>10, <3>1, <3>3
      <4>2. CASE last.gen = 0
        BY <1>1, <3>1, <4>1, <4>2
      <4>3. CASE Odd(last.gen)
        <5>1. ~Odd(last.gen - 1)
          BY <1>10, <4>3 DEF Odd
        <5> QED BY <1>1, <3>1, <4>1, <5>1
      <4> QED BY <1>10, <4>2, <4>3
    <3> QED BY <3>2, <3>3
  <2> QED BY <2>1, <2>2
<1>12. Queues' /\ Advances /\ (last' = last \/ last'.gen = g)
  BY <1>5, <1>7, <1>8, <1>9, <1>11, OrderFinish DEF OrderInv, Queues
<1>13. NotBehind'
  <2>1. CASE Return("msgs")
    <3>1. con'.step = "idle"
      BY <2>1 DEF Return, Resting
    <3> QED BY <3>1 DEF NotBehind
  <2>2. ASSUME NEW step \in {"take_fail", "down"}, Goto(step) PROVE NotBehind'
    <3>1. con'.step = step /\ con'.current = con.current
      BY <1>1, <2>2, TakeMoves DEF Steps
    <3>2. last'.gen <= con.current
      BY <1>10, <1>11, <1>12
    <3> QED BY <3>1, <3>2 DEF NotBehind
  <2> QED BY <1>7, <2>1, <2>2
<1> QED BY <1>12, <1>13 DEF OrderInv, Queues

(* The drains behind a failure and behind a close, with nothing carried. *)
LEMMA OrderLate ==
  ASSUME Typed, OrderInv, LateFail \/ LateClosed PROVE OrderInv' /\ Advances
<1>1. /\ con \in Takes /\ con.max \in Nat \ {0} /\ con.current \in Int
      /\ stale \in Nat /\ chan \in Seq(Msg)
  BY DEF Typed, Takes
<1>2. PICK held : held = carry
  OBVIOUS
<1>3. PICK max : max = con.max
  OBVIOUS
<1>4. PICK g : g = con.current
  OBVIOUS
<1>5. PICK d : d = Drained(held, max, g)
  OBVIOUS
<1>6. PICK lost : lost = stale + d.lost
  OBVIOUS
<1>7. /\ Finish(d, max, lost, g) /\ UNCHANGED generation
      /\ con.step \in {"late_fail", "late_closed"}
      /\ Goto("put_back") \/ \E kind \in {"fail", "msgs", "closed"} : Return(kind)
  BY <1>2, <1>3, <1>4, <1>5, <1>6 DEF LateFail, LateClosed
<1>8. held \in Seq(Msg) /\ held = <<>> /\ last.gen <= g /\ g \in Int
  <2>1. carry = <<>> /\ last.gen <= con.current
    BY <1>7 DEF OrderInv, NotBehind
  <2> QED BY <1>1, <1>2, <1>4, <2>1
<1>9. max \in Nat \ {0} /\ lost \in Nat
  <2>1. Accounts(d, held)
    BY <1>1, <1>3, <1>5, <1>8, DrainedFacts
  <2> QED BY <1>1, <1>3, <1>6, <2>1 DEF Accounts
<1>10. Queues' /\ Advances
  BY <1>5, <1>7, <1>8, <1>9, OrderFinish DEF OrderInv, Queues
<1>11. con'.step \in {"put_back", "idle"}
  <2>1. CASE Goto("put_back")
    BY <1>1, <2>1, TakeMoves DEF Steps
  <2>2. CASE \E kind \in {"fail", "msgs", "closed"} : Return(kind)
    BY <2>2 DEF Return, Resting
  <2> QED BY <1>7, <2>1, <2>2
<1> QED BY <1>10, <1>11 DEF OrderInv, Queues, NotBehind

(* The receive of a waiting take. *)
LEMMA OrderReceive ==
  ASSUME Typed, NothingCarried, OrderInv, WaitRecv PROVE OrderInv' /\ Advances
<1>1. /\ con \in Takes /\ con.max \in Nat \ {0} /\ stale \in Nat /\ generation \in Nat
      /\ chan \in Seq(Msg) /\ chan # <<>>
  BY DEF Typed, Takes, WaitRecv
<1>2. CASE Head(chan).gen = generation
  <2>1. PICK held : held = <<>>
    OBVIOUS
  <2>2. PICK max : max = con.max
    OBVIOUS
  <2>3. PICK g : g = Head(chan).gen
    OBVIOUS
  <2>4. PICK d : d = Drained(held, max, g)
    OBVIOUS
  <2>5. PICK lost : lost = stale + d.lost
    OBVIOUS
  <2>6. Finish(d, max, lost, g) /\ UNCHANGED generation /\ Return("msgs")
    BY <1>2, <2>1, <2>2, <2>3, <2>4, <2>5 DEF WaitRecv
  <2>7. held \in Seq(Msg) /\ g \in Int /\ last.gen <= g
    BY <1>1, <1>2, <2>1, <2>3 DEF OrderInv, LastFirst, Known
  <2>8. max \in Nat \ {0} /\ lost \in Nat
    <3>1. Accounts(d, held)
      BY <1>1, <2>2, <2>4, <2>7, DrainedFacts
    <3> QED BY <1>1, <2>2, <2>5, <3>1 DEF Accounts
  <2>9. Queues' /\ Advances
    BY <2>1, <2>4, <2>6, <2>7, <2>8, OrderFinish DEF OrderInv, Queues
  <2>10. con'.step = "idle"
    BY <2>6 DEF Return, Resting
  <2> QED BY <2>9, <2>10 DEF OrderInv, Queues, NotBehind
<1>3. CASE Head(chan).gen # generation
  <2>1. /\ chan' = Tail(chan) /\ Goto("load_up")
        /\ UNCHANGED <<carry, carry_gen, sent, last, generation>>
    BY <1>3 DEF WaitRecv, histVars
  <2>2. /\ Len(chan') = Len(chan) - 1 /\ Len(chan) \in Nat
        /\ \A i \in 1..Len(chan') : i + 1 \in 1..Len(chan) /\ chan'[i] = chan[i + 1]
    BY <1>1, <2>1
  <2>3. ASSUME NEW x, Before(x, chan) PROVE Before(x, chan')
    BY <2>2, <2>3 DEF Before
  <2>4. Rises(chan')
    <3>1. ASSUME NEW i \in 1..Len(chan'), NEW j \in 1..Len(chan'), i < j,
                 chan'[i].gen = chan'[j].gen
          PROVE  chan'[i].n < chan'[j].n
      <4>1. i + 1 < j + 1
        BY <3>1
      <4> QED BY <2>2, <3>1, <4>1 DEF OrderInv, ChanOrdered, Rises
    <3> QED BY <3>1 DEF Rises
  <2>5. ChanOrdered'
    BY <2>1, <2>2, <2>4 DEF OrderInv, ChanOrdered
  <2>6. CarryOrdered'
    BY <2>1, <2>3 DEF OrderInv, CarryOrdered
  <2>7. LastFirst'
    BY <2>1, <2>3 DEF OrderInv, LastFirst
  <2>8. con'.step = "load_up"
    BY <1>1, <2>1, TakeMoves DEF Steps
  <2> QED BY <2>1, <2>5, <2>6, <2>7, <2>8 DEF OrderInv, NotBehind, Advances
<1> QED BY <1>2, <1>3

(* Every step keeps the order. *)
LEMMA OrderStep ==
  ASSUME CountInv, Attachments, OrderInv, [Next]_vars PROVE OrderInv' /\ Advances
<1>1. Typed /\ NothingCarried /\ Begun
  BY DEF CountInv, Attachments
<1>2. con \in Takes /\ generation \in Nat
  BY <1>1 DEF Typed
<1>3. ASSUME UNCHANGED <<chan, carry, carry_gen, last, sent>>, generation' \in Nat,
             generation <= generation', NotBehind'
      PROVE  OrderInv' /\ Advances
  BY <1>1, <1>3, OrderKept DEF OrderInv, Queues
<1>4. CASE Owner
  <2>1. /\ UNCHANGED <<chan, carry, carry_gen, last, sent, con>>
        /\ generation' \in {generation, generation + 1}
    BY <1>4 DEF Owner, Attach, AttachClosed, AttachFail, AttachUp, Detach, DetachClosed,
                DetachGen, histVars, queueVars
  <2>2. NotBehind'
    BY <2>1 DEF OrderInv, NotBehind
  <2> QED BY <1>2, <1>3, <2>1, <2>2
<1>5. CASE Forwarder
  <2>1. PICK g \in Gens \ {0} : \/ Send(g) \/ FailCheck(g) \/ FailStore(g)
                               \/ CloseCheck(g) \/ CloseStore(g) \/ Stop(g)
    BY <1>5 DEF Forwarder
  <2>2. UNCHANGED <<carry, last, con, generation>>
    BY <2>1 DEF Send, FailCheck, FailStore, CloseCheck, CloseStore, Stop, laneVars,
                histVars, queueVars
  <2>3. NotBehind'
    BY <2>2 DEF OrderInv, NotBehind
  <2>4. CASE Send(g)
    BY <1>1, <2>3, <2>4, OrderSend DEF OrderInv, Queues
  <2>5. CASE ~Send(g)
    <3>1. UNCHANGED <<chan, carry_gen, sent>>
      BY <2>1, <2>5 DEF FailCheck, FailStore, CloseCheck, CloseStore, Stop, histVars,
                        queueVars
    <3> QED BY <1>2, <1>3, <2>2, <2>3, <3>1
  <2> QED BY <2>4, <2>5
<1>6. CASE DrainStep
  BY <1>1, <1>6, OrderDrain
<1>7. CASE LateFail \/ LateClosed
  BY <1>1, <1>7, OrderLate
<1>8. CASE WaitRecv
  BY <1>1, <1>8, OrderReceive
<1>9. CASE LoadGen
  <2>1. /\ UNCHANGED <<chan, carry, carry_gen, last, sent, generation>>
        /\ con' = [con EXCEPT !.step = "drain", !.current = generation]
    BY <1>9 DEF LoadGen, laneVars, queueVars, histVars
  <2>2. con'.step = "drain" /\ con'.current = generation
    BY <1>2, <2>1 DEF Takes
  <2>3. last.gen <= generation
    BY <1>2 DEF OrderInv, LastFirst, Known
  <2>4. NotBehind'
    BY <2>1, <2>2, <2>3 DEF NotBehind
  <2> QED BY <1>2, <1>3, <2>1, <2>4
<1>10. CASE TakeFail
  <2>1. /\ UNCHANGED <<chan, carry, carry_gen, last, sent, generation>>
        /\ con.step = "take_fail"
    BY <1>10 DEF TakeFail, queueVars, histVars
  <2>2. con'.step \in {"late_fail", "load_closed"} /\ con'.current = con.current
    BY <1>2, <1>10 DEF TakeFail, Takes
  <2>3. NotBehind'
    BY <1>1, <2>1, <2>2 DEF OrderInv, NotBehind, NothingCarried
  <2> QED BY <1>2, <1>3, <2>1, <2>3
<1>11. CASE LoadClosed
  <2>1. /\ UNCHANGED <<chan, carry, carry_gen, last, sent, generation>>
        /\ con.step = "load_closed" /\ \E step \in {"late_closed", "wait"} : Goto(step)
    BY <1>11 DEF LoadClosed, laneVars, queueVars, histVars
  <2>2. con'.step \in {"late_closed", "wait"} /\ con'.current = con.current
    BY <1>2, <2>1, TakeMoves DEF Steps
  <2>3. NotBehind'
    BY <1>1, <2>1, <2>2 DEF OrderInv, NotBehind, NothingCarried
  <2> QED BY <1>2, <1>3, <2>1, <2>3
<1>12. CASE \/ \E max \in 1..MaxTake : Take(max)
            \/ LoadUp \/ PutBack \/ WaitNotified \/ WaitTimeout \/ PollDown
            \/ WaitUpCheck \/ WaitUpNotified
  <2>1. UNCHANGED <<chan, carry, carry_gen, last, sent, generation>>
    BY <1>12 DEF Take, LoadUp, PutBack, WaitNotified, WaitTimeout, PollDown, WaitUpCheck,
                 WaitUpNotified, laneVars, queueVars, histVars
  <2>2. con'.step \in {"load_up", "load_gen", "idle", "wait_up", "down"}
    <3>1. CASE \E max \in 1..MaxTake : Take(max)
      BY <1>2, <3>1 DEF Take, Takes
    <3>2. CASE LoadUp
      BY <1>2, <3>2 DEF LoadUp, Takes
    <3>3. CASE PutBack \/ WaitTimeout \/ PollDown
      BY <3>3 DEF PutBack, WaitTimeout, PollDown, Return, Resting
    <3>4. CASE WaitNotified \/ WaitUpCheck \/ WaitUpNotified
      <4>1. \E step \in {"load_up", "wait_up", "down"} : Goto(step)
        BY <3>4 DEF WaitNotified, WaitUpCheck, WaitUpNotified
      <4> QED BY <1>2, <4>1, TakeMoves DEF Steps
    <3> QED BY <1>12, <3>1, <3>2, <3>3, <3>4
  <2>3. NotBehind'
    BY <2>2 DEF NotBehind
  <2> QED BY <1>2, <1>3, <2>1, <2>3
<1>13. CASE UNCHANGED vars
  <2>1. UNCHANGED <<chan, carry, carry_gen, last, sent, generation, con>>
    BY <1>13 DEF vars, laneVars, queueVars, histVars
  <2>2. NotBehind'
    BY <2>1 DEF OrderInv, NotBehind
  <2> QED BY <1>2, <1>3, <2>1, <2>2
<1> QED BY <1>4, <1>5, <1>6, <1>7, <1>8, <1>9, <1>10, <1>11, <1>12, <1>13
        DEF Next, Consumer, ConsumerStep

(* A consumer never goes back: within an attachment it sees the order of the     *)
(* source, and nothing of an earlier attachment after something of a later one,  *)
(* whatever take, carry, late drain, attach and detach interleave.               *)
THEOREM NeverGoesBack == Spec => HandedInOrder
<1>1. Init => Attachments
  <2>1. ASSUME Init PROVE OwnerTyped /\ Turns /\ Begun
    <3>1. OwnerTyped
      BY <2>1 DEF Init, Idle, OwnerTyped
    <3>2. Turns
      BY <2>1 DEF Init, Idle, Turns, Odd
    <3>3. Begun
      BY <2>1 DEF Init, Begun
    <3> QED BY <3>1, <3>2, <3>3
  <2> QED BY <2>1 DEF Attachments
<1>2. Init => OrderInv
  BY DEF Init, Resting, OrderInv, CarryOrdered, ChanOrdered, LastFirst, NotBehind, Rises,
         Before
<1>3. CountInv => Typed
  BY DEF CountInv
<1>4. CountInv /\ Attachments /\ OrderInv /\ [Next]_vars =>
        [last' # last => \/ last'.gen > last.gen
                         \/ last'.gen = last.gen /\ last'.n > last.n]_vars
  BY OrderStep DEF Advances
<1>5. CountInv /\ Attachments /\ OrderInv /\ [Next]_vars => OrderInv'
  BY OrderStep
<1>6. CountInv /\ Attachments /\ [Next]_vars => Attachments'
  BY <1>3, AttachmentsStep
<1> QED
  BY <1>1, <1>2, <1>4, <1>5, <1>6, CountInit, CountStep, PTL DEF Spec, HandedInOrder
=============================================================================
