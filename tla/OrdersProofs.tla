---------------------------- MODULE OrdersProofs ----------------------------
(***************************************************************************)
(* Proofs for the execution client's order events, for any number of        *)
(* orders, any order size, any bound of the stores and any history: a       *)
(* bracket is whole, drains never regress, keys are earned, each fill is    *)
(* told once per stay of its key in the store, and every step of the client *)
(* is a step of OrderLife.                                                  *)
(***************************************************************************)
EXTENDS Orders, FiniteSetTheorems, SequenceTheorems, WellFoundedInduction, TLAPS

-----------------------------------------------------------------------------
\* The inductive invariant

EventKinds == {"accepted", "rejected", "filled", "canceled", "updated"}
Statuses == {"accepted", "partial", "filled", "canceled", "rejected"}
Taking   == Statuses \ {"rejected"}      \* statuses of an order the venue took
Records  == [st : Working \cup Closed \cup {"init", "none"}, bound : BOOLEAN, last : Nat]

\* The venue took the order: its first event says so, and a refused one has no other.
Taken(i) == Len(hist[i]) > 0 /\ hist[i][1] = "accepted"

HistOK ==
  /\ hist \in [Ids -> Seq(EventKinds)]
  /\ \A i \in Ids : \A n \in 1..Len(hist[i]) :
       /\ n = 1 => hist[i][n] \in {"accepted", "rejected"}
       /\ n > 1 => hist[i][n] \in {"filled", "canceled", "updated"} /\ Taken(i)

\* What the engine's record e of order i may say, given what the venue did: open and
\* ended orders were taken, as was an open one whose venue id is known; new and denied
\* ones never left, rejected ones were never taken.
Fits(e, i) ==
  /\ i \in Mine => e.st # "none"
  /\ i \in Mine /\ e.st \in {"init", "denied"} => Len(hist[i]) = 0
  /\ i \in Others => e.st \notin {"init", "denied"}
  /\ i \in Others /\ Len(hist[i]) = 0 => e.st = "none"
  /\ e.st \in Taking => e.bound /\ Taken(i)
  /\ e.st \in Working /\ e.bound => Taken(i)
  /\ e.st = "rejected" => ~Taken(i)
  /\ e.st = "init" => ~e.bound

RecordsOK == ord \in [Ids -> Records] /\ \A i \in Ids : Fits(ord[i], i)

\* Notifications and held rows are about events that happened.
RowsOK == /\ wire \in Seq(Ids \X Nat)
          /\ \A k \in 1..Len(wire) : wire[k][2] \in 1..Len(hist[wire[k][1]])
          /\ held \in [Ids -> Nat]
          /\ \A i \in Ids : held[i] <= Len(hist[i])

\* A command or a query in flight is about an order that was sent.
CallsOK == /\ cmd.k = "place" => cmd.o \in Mine /\ ord[cmd.o].st \notin {"init", "denied"}
           /\ query.k = "inflight" => query.o \in Mine

\* Exits were denied or rejected only with their entry.
ExitsOK == /\ exits \in [Mine -> {AllLegs(st) : st \in {"none", "submitted", "denied", "rejected"}}]
           /\ \A o \in Mine : exits[o] \notin {AllLegs("none"), AllLegs("submitted")} =>
                                ord[o].st \in {"denied", "rejected"}

OrdersInv == HistOK /\ RecordsOK /\ RowsOK /\ CallsOK /\ ExitsOK

-----------------------------------------------------------------------------
\* Arithmetic and sets

\* A set of naturals has a least element, a bounded one a greatest.
LEMMA Least ==
  ASSUME NEW T \in SUBSET Nat, T # {} PROVE \E x \in T : \A y \in T : x <= y
  <1> DEFINE R == OpToRel(<, Nat)
  <1>1. IsWellFoundedOn(R, Nat)
    BY NatLessThanWellFounded
  <1>2. \A x, y \in Nat : <<x, y>> \in R <=> x < y
    BY DEF OpToRel
  <1> HIDE DEF R
  <1>3. PICK x \in T : \A y \in T : ~ (<<y, x>> \in R)
    BY <1>1, WFMin
  <1>4. ASSUME NEW y \in T PROVE x <= y
    <2>1. x \in Nat /\ y \in Nat /\ ~ (<<y, x>> \in R)
      BY <1>3
    <2>2. ~ (y < x)
      BY <1>2, <2>1
    <2> QED BY <2>1, <2>2
  <1> QED BY <1>4

(* A non-empty set of numbers up to m contains its maximum. *)
LEMMA Greatest ==
  ASSUME NEW T, NEW m \in Nat, T \subseteq 1..m, T # {} PROVE Max(T) \in T
  <1> DEFINE U == {m - t : t \in T}
  <1>1. U \in SUBSET Nat /\ U # {}
    <2>1. PICK t \in T : TRUE
      OBVIOUS
    <2>2. m - t \in U
      OBVIOUS
    <2>3. \A x \in T : x \in 1..m /\ m - x \in Nat
      OBVIOUS
    <2> QED BY <2>2, <2>3
  <1>2. PICK u \in U : \A v \in U : u <= v
    BY <1>1, Least
  <1>3. PICK x \in T : u = m - x
    BY <1>2
  <1>4. \A y \in T : m - y \in U
    OBVIOUS
  <1>5. \A y \in T : x >= y
    BY <1>2, <1>3, <1>4
  <1> QED BY <1>3, <1>5 DEF Max

-----------------------------------------------------------------------------
\* What a record may become

\* One step of an order's record: it stays, it is learned to be open or over, or an
\* order in flight is learned to have been refused.
Moves(e, f, i) == \/ f.st = e.st
                  \/ e.st \in Working /\ f.st \in Taking /\ Taken(i)
                  \/ e.st = "submitted" /\ f.st = "rejected" /\ ~Taken(i)
                  \/ i \in Others

Good(e, f, i) == f \in Records /\ Fits(f, i) /\ Moves(e, f, i)

(* Two allowed moves of a record, one after the other, are an allowed move. *)
LEMMA MovesTwice ==
  ASSUME NEW i \in Ids, NEW e \in Records, NEW f \in Records, NEW g \in Records,
         Moves(e, f, i), Moves(f, g, i)
  PROVE  Moves(e, g, i)
  BY DEF Moves, Working, Taking, Statuses

\* Status of a row: an order is rejected exactly when the venue did not take it.
LEMMA StatusOfRow ==
  ASSUME HistOK, NEW i \in Ids, NEW n \in 1..Len(hist[i])
  PROVE  /\ order_status_from_fields(i, n) \in Statuses
         /\ order_status_from_fields(i, n) = "rejected" <=> ~Taken(i)
  <1>1. hist[i] \in Seq(EventKinds) /\ hist[i][n] \in EventKinds /\ Len(hist[i]) \in Nat
    BY DEF HistOK
  <1>2. CASE Taken(i)
    <2>1. hist[i][n] # "rejected"
      BY <1>1, <1>2 DEF HistOK, Taken
    <2> QED BY <1>1, <1>2, <2>1 DEF order_status_from_fields, Kind, Statuses, EventKinds
  <1>3. CASE ~Taken(i)
    <2>1. n = 1 /\ hist[i][1] = "rejected"
      BY <1>1, <1>3 DEF HistOK, Taken
    <2>2. {m \in 1..n : hist[i][m] = "filled"} = {}
      BY <2>1
    <2>3. Filled(i, n) = 0
      BY <2>2, FS_EmptySet DEF Filled
    <2>4. Qty # 0
      BY OrdersAssumption
    <2> QED BY <1>3, <2>1, <2>3, <2>4 DEF order_status_from_fields, Kind, Statuses
  <1> QED BY <1>2, <1>3

\* A report that says of an order what happened to it.
LEMMA ReportGood ==
  ASSUME HistOK, NEW i \in Ids, NEW e \in Records, Fits(e, i), Len(hist[i]) > 0,
         NEW s \in Statuses, s = "rejected" <=> ~Taken(i), NEW n \in Nat
  PROVE  Good(e, Reported(e, s, n), i)
  <1> DEFINE f == Reported(e, s, n)
  <1>0. i \in Mine <=> i \notin Others
    BY OrdersAssumption DEF Ids
  <1>1. Later(e.last, n) \in Nat /\ (e.bound \/ s # "rejected") \in BOOLEAN
    BY DEF Later, Records
  <1>2. CASE e.st \in Working
    <2>1. f = [st |-> s, bound |-> e.bound \/ s # "rejected", last |-> Later(e.last, n)]
      BY <1>2 DEF Reported, Working
    <2>2. f.st = s /\ f.bound = (e.bound \/ s # "rejected")
      BY <2>1
    <2>3. f \in Records
      BY <1>1, <2>1 DEF Records, Statuses, Working, Closed, Terminal
    <2>4. ~Taken(i) => e.st = "submitted"
      BY <1>2 DEF Fits, Working, Taking, Statuses
    <2>5. Moves(e, f, i)
      BY <1>2, <2>2, <2>4 DEF Moves, Taking
    <2>6. Fits(f, i)
      <3>1. i \in Others => e.st # "none"
        BY <1>2 DEF Working
      <3>2. s = "rejected" \/ (f.bound /\ Taken(i))
        BY <2>2
      <3> HIDE DEF f
      <3> QED BY <1>0, <2>2, <3>1, <3>2 DEF Fits, Taking, Statuses, Working
    <2> QED BY <2>3, <2>5, <2>6 DEF Good
  <1>3. CASE e.st = "none"
    <2>1. f = [st |-> s, bound |-> TRUE, last |-> n]
      BY <1>3 DEF Reported, Working
    <2>2. f.st = s /\ f.bound = TRUE
      BY <2>1
    <2>3. f \in Records
      BY <2>1 DEF Records, Statuses, Working, Closed, Terminal
    <2>4. i \in Others
      BY <1>0, <1>3 DEF Fits
    <2>5. Fits(f, i)
      BY <1>0, <2>2, <2>4 DEF Fits, Taking, Statuses, Working
    <2> QED BY <2>3, <2>4, <2>5 DEF Good, Moves
  <1>4. CASE e.st \notin Working /\ e.st # "none"
    <2>1. f = e
      BY <1>4 DEF Reported
    <2> QED BY <2>1 DEF Good, Moves
  <1> QED BY <1>2, <1>3, <1>4

\* A row of a drain as a report.
LEMMA RowGood ==
  ASSUME HistOK, NEW i \in Ids, NEW e \in Records, Fits(e, i), NEW n \in 1..Len(hist[i])
  PROVE  Good(e, Reported(e, order_status_from_fields(i, n), n), i)
  <1>1. Len(hist[i]) \in Nat /\ Len(hist[i]) > 0 /\ n \in Nat
    BY DEF HistOK
  <1> QED BY <1>1, StatusOfRow, ReportGood

\* An event that is not the first belongs to an order that was taken.
LEMMA LaterEvents ==
  ASSUME HistOK, NEW i \in Ids, NEW n \in 1..Len(hist[i])
  PROVE  /\ hist[i][n] \in {"filled", "canceled", "updated", "accepted"} => Taken(i)
         /\ hist[i][n] = "rejected" => ~Taken(i)
         /\ hist[i][n] \in EventKinds /\ n \in Nat /\ Len(hist[i]) > 0
  BY DEF HistOK, Taken

\* Marking the venue id known.
LEMMA BoundGood ==
  ASSUME NEW i \in Ids, NEW e \in Records, NEW f \in Records, Good(e, f, i),
         Len(hist[i]) > 0, f.st \in Working => Taken(i)
  PROVE  Good(e, [f EXCEPT !.bound = TRUE], i)
  <1> DEFINE g == [f EXCEPT !.bound = TRUE]
  <1>1. g \in Records /\ g.st = f.st /\ g.bound = TRUE
    BY DEF Records
  <1>2. Fits(g, i)
    BY <1>1 DEF Fits, Good, Ids
  <1> QED BY <1>1, <1>2 DEF Good, Moves

(* A record that fits the venue may stay as it is. *)
LEMMA SameGood ==
  ASSUME NEW i \in Ids, NEW e \in Records, Fits(e, i) PROVE Good(e, e, i)
  BY DEF Good, Moves

\* A live event other than a fill, for an order the engine has open.
LEMMA EventGood ==
  ASSUME HistOK, NEW i \in Ids, NEW e \in Records, Fits(e, i), e.st \in Working,
         NEW n \in 1..Len(hist[i])
  PROVE  Good(e, [Event(e, Kind(i, n), n) EXCEPT !.bound = TRUE], i)
  <1> DEFINE k == Kind(i, n)
             f == Event(e, k, n)
  <1>0. i \in Mine <=> i \notin Others
    BY OrdersAssumption DEF Ids
  <1>1. /\ k \in {"filled", "canceled", "updated", "accepted"} => Taken(i)
        /\ k = "rejected" => ~Taken(i)
        /\ k \in EventKinds /\ n \in Nat /\ Len(hist[i]) > 0
    BY LaterEvents DEF Kind
  <1>2. e.last \in Nat /\ Later(e.last, n) \in Nat
    BY <1>1 DEF Later, Records
  <1> SUFFICES Good(e, [f EXCEPT !.bound = TRUE], i)
    OBVIOUS
  <1> HIDE DEF k, f
  <1>3. CASE k = "accepted"
    <2>1. f = emit_accepted(e, n)
      BY <1>3 DEF Event, f
    <2>2. CASE e.st = "submitted"
      <3>1. f = [e EXCEPT !.st = "accepted", !.last = n]
        BY <2>1, <2>2 DEF emit_accepted
      <3> DEFINE g == [f EXCEPT !.bound = TRUE]
      <3>2. g \in Records /\ g.st = "accepted" /\ g.bound = TRUE
        BY <1>1, <3>1 DEF Records, Working
      <3> HIDE DEF g
      <3>3. Fits(g, i) /\ Moves(e, g, i)
        BY <1>0, <1>1, <1>3, <2>2, <3>2 DEF Fits, Moves, Working, Taking, Statuses
      <3> QED BY <3>2, <3>3 DEF Good, g
    <2>3. CASE e.st # "submitted"
      <3>1. f = e
        BY <2>1, <2>3 DEF emit_accepted
      <3> QED BY <1>1, <1>3, <3>1, SameGood, BoundGood
    <2> QED BY <2>2, <2>3
  <1>4. CASE k \in {"rejected", "canceled"}
    <2>1. f = [e EXCEPT !.st = k, !.last = Later(@, n)]
      BY <1>4 DEF Event, f
    <2> DEFINE g == [f EXCEPT !.bound = TRUE]
    <2>2. g \in Records /\ g.st = k /\ g.bound = TRUE
      BY <1>2, <1>4, <2>1 DEF Records, Working, Closed, Terminal
    <2> HIDE DEF g
    <2>3. k = "rejected" => e.st = "submitted"
      BY <1>1 DEF Fits, Working, Taking, Statuses
    <2>4. Moves(e, g, i)
      BY <1>1, <1>4, <2>2, <2>3 DEF Moves, Taking, Statuses
    <2>5. Fits(g, i)
      BY <1>0, <1>1, <1>4, <2>2 DEF Fits, Working, Taking, Statuses
    <2> QED BY <2>2, <2>4, <2>5 DEF Good, g
  <1>5. CASE k \in {"filled", "updated"}
    <2>1. f = [e EXCEPT !.last = Later(@, n)]
      BY <1>5 DEF Event, resolve_updated_terms, f
    <2>2. f \in Records /\ f.st = e.st /\ f.bound = e.bound
      BY <1>2, <2>1 DEF Records
    <2>3. Good(e, f, i)
      BY <2>2 DEF Good, Fits, Moves
    <2> QED BY <1>1, <1>5, <2>2, <2>3, BoundGood
  <1> QED BY <1>1, <1>3, <1>4, <1>5 DEF EventKinds

\* A fill, for an order the engine has open.
LEMMA FillGood ==
  ASSUME HistOK, NEW i \in Ids, NEW e \in Records, Fits(e, i), e.st \in Working,
         NEW n \in 1..Len(hist[i]), hist[i][n] = "filled", NEW total
  PROVE  Good(e, AfterLiveFill(e, total, n), i)
  <1> DEFINE f == AfterFill(e, total)
             g == AfterLiveFill(e, total, n)
  <1>0. i \in Mine <=> i \notin Others
    BY OrdersAssumption DEF Ids
  <1>1. Taken(i) /\ n \in Nat /\ Len(hist[i]) > 0
    BY LaterEvents
  <1>2. e.last \in Nat /\ Later(e.last, n) \in Nat
    BY <1>1 DEF Later, Records
  <1>3. PICK s \in {"filled", "partial"} : f = [e EXCEPT !.st = s]
    BY DEF AfterFill
  <1>4. g \in Records /\ g.st = s /\ g.bound = TRUE
    BY <1>2, <1>3 DEF Records, Working, Closed, Terminal, AfterLiveFill
  <1> HIDE DEF g
  <1>5. Moves(e, g, i)
    BY <1>1, <1>4 DEF Moves, Taking, Statuses
  <1>6. Fits(g, i)
    BY <1>0, <1>1, <1>4 DEF Fits, Working, Taking, Statuses
  <1> QED BY <1>4, <1>5, <1>6 DEF Good, g

-----------------------------------------------------------------------------
\* Every step but a submission and a venue event moves records in this way only

AllGood == /\ hist' = hist /\ ord' \in [Ids -> Records]
           /\ \A i \in Ids : Good(ord[i], ord'[i], i)

(* A step that moves one record well moves all records well. *)
LEMMA OneGood ==
  ASSUME RecordsOK, hist' = hist, NEW i \in Ids, NEW f, Good(ord[i], f, i),
         ord' = [ord EXCEPT ![i] = f]
  PROVE  AllGood
  <1>1. f \in Records /\ ord \in [Ids -> Records] /\ \A j \in Ids : Fits(ord[j], j)
    BY DEF Good, RecordsOK
  <1>2. ord' \in [Ids -> Records] /\ ord'[i] = f /\ \A j \in Ids : j # i => ord'[j] = ord[j]
    BY <1>1
  <1>3. \A j \in Ids : Good(ord[j], ord'[j], j)
    BY <1>1, <1>2, SameGood
  <1> QED BY <1>2, <1>3 DEF AllGood

(* A step that moves no record moves all records well. *)
LEMMA NoneGood ==
  ASSUME RecordsOK, hist' = hist, ord' = ord PROVE AllGood
  <1>1. ord \in [Ids -> Records] /\ \A j \in Ids : Fits(ord[j], j)
    BY DEF RecordsOK
  <1> QED BY <1>1, SameGood DEF AllGood

(* The row a drain holds of an order is one of the order's events, or none. *)
LEMMA DrainRow ==
  ASSUME HistOK, NEW cut \in Drains, NEW i \in Ids
  PROVE  cut[i] \in Nat /\ cut[i] <= Len(hist[i]) /\ (cut[i] > 0 => cut[i] \in 1..Len(hist[i]))
  <1>1. MaxHist \in Nat
    BY OrdersAssumption
  <1>2. cut \in [Ids -> 0..MaxHist] /\ cut[i] <= Len(hist[i]) /\ Len(hist[i]) \in Nat
    BY DEF Drains, HistOK
  <1> QED BY <1>1, <1>2

\* The next notification is about an event that happened.
LEMMA TakenRow ==
  ASSUME HistOK, RowsOK, NEW i, NEW n, Take(i, n)
  PROVE  i \in Ids /\ n \in 1..Len(hist[i])
  <1>1. wire \in Seq(Ids \X Nat) /\ wire # <<>> /\ <<i, n>> = wire[1]
    BY DEF RowsOK, Take
  <1>2. 1 \in 1..Len(wire) /\ wire[1] \in Ids \X Nat
    BY <1>1
  <1>3. wire[1][2] \in 1..Len(hist[wire[1][1]])
    BY <1>2 DEF RowsOK
  <1> QED BY <1>1, <1>2, <1>3

(* The end of a command moves records only as the venue justifies. *)
LEMMA CommandEndsGood ==
  ASSUME HistOK, RecordsOK, CallsOK, NEW outcome, CommandEnds(outcome) PROVE AllGood
  <1>1. hist' = hist
    BY DEF CommandEnds, commandFrame
  <1>2. CASE Rejects(outcome) /\ ord[cmd.o].st \in Working
    <2>1. cmd.k = "place" /\ cmd.o \in Mine /\ cmd.o \in Ids
      BY <1>2 DEF Rejects, CallsOK, Ids
    <2> DEFINE o == cmd.o
               f == [ord[o] EXCEPT !.st = "rejected"]
    <2>2. hist[o] \in {<<>>, <<"rejected">>}
      BY <1>2, <2>1 DEF CommandEnds, Outcomes, Refusable, Rejects
    <2>3. ~Taken(o)
      BY <2>2 DEF Taken
    <2>4. ord[o] \in Records /\ Fits(ord[o], o)
      BY <2>1 DEF RecordsOK
    <2>5. ord[o].st = "submitted"
      BY <1>2, <2>3, <2>4 DEF Fits, Working, Taking, Statuses
    <2>6. f \in Records /\ f.st = "rejected"
      BY <2>4 DEF Records, Working, Closed, Terminal
    <2>7. o \notin Others
      BY <2>1, OrdersAssumption
    <2>8. Fits(f, o) /\ Moves(ord[o], f, o)
      BY <2>1, <2>3, <2>5, <2>6, <2>7 DEF Fits, Moves, Working, Taking, Statuses
    <2>9. ord' = [ord EXCEPT ![o] = f]
      BY <1>2 DEF CommandEnds
    <2> QED BY <1>1, <2>1, <2>6, <2>8, <2>9, OneGood DEF Good
  <1>3. CASE ~(Rejects(outcome) /\ ord[cmd.o].st \in Working)
    BY <1>1, <1>3, NoneGood DEF CommandEnds
  <1> QED BY <1>2, <1>3

(* So does a live notification of a tracked order. *)
LEMMA NotificationGood ==
  ASSUME HistOK, RecordsOK, RowsOK, NEW i, NEW n, NEW priced \in BOOLEAN,
         handle_order_notification(i, n, priced)
  PROVE  AllGood
  <1>1. i \in Ids /\ n \in 1..Len(hist[i]) /\ ord[i].st \in Working /\ hist' = hist
    BY TakenRow DEF handle_order_notification, _resolve_client_order_id
  <1>2. ord[i] \in Records /\ Fits(ord[i], i)
    BY <1>1 DEF RecordsOK
  <1>3. CASE Kind(i, n) # "filled"
    <2>1. ord' = [ord EXCEPT ![i] = [Event(ord[i], Kind(i, n), n) EXCEPT !.bound = TRUE]]
      BY <1>1, <1>3 DEF handle_order_notification, RecordsOK
    <2> QED BY <1>1, <1>2, <2>1, EventGood, OneGood
  <1>4. CASE Kind(i, n) = "filled"
    <2>1. hist[i][n] = "filled" /\ Taken(i) /\ Len(hist[i]) > 0
      BY <1>1, <1>4, LaterEvents DEF Kind
    <2>2. CASE ord' = [ord EXCEPT ![i].bound = TRUE]
      <3>1. ord' = [ord EXCEPT ![i] = [ord[i] EXCEPT !.bound = TRUE]]
        BY <2>2
      <3>2. Good(ord[i], [ord[i] EXCEPT !.bound = TRUE], i)
        BY <1>1, <1>2, <2>1, SameGood, BoundGood
      <3> QED BY <1>1, <3>1, <3>2, OneGood
    <2>3. CASE ord' = [ord EXCEPT ![i] = AfterLiveFill(ord[i], Given(i) + 1, n)]
      <3>1. Good(ord[i], AfterLiveFill(ord[i], Given(i) + 1, n), i)
        BY <1>1, <1>2, <2>1, FillGood
      <3> QED BY <1>1, <2>3, <3>1, OneGood
    <2> QED BY <1>4, <2>2, <2>3 DEF handle_order_notification, handle_tracked_fill
  <1> QED BY <1>3, <1>4

(* So does a notification of an order the client does not track. *)
LEMMA UntrackedGood ==
  ASSUME HistOK, RecordsOK, RowsOK, NEW i, NEW n, NEW priced \in BOOLEAN,
         NEW published \in BOOLEAN, NEW adopts \in BOOLEAN,
         handle_untracked_notification(i, n, priced, published, adopts)
  PROVE  AllGood
  <1>1. i \in Ids /\ n \in 1..Len(hist[i]) /\ hist' = hist
    BY TakenRow DEF handle_untracked_notification
  <1>2. ord[i] \in Records /\ Fits(ord[i], i)
    BY <1>1 DEF RecordsOK
  <1>3. ord' = ord \/ ord' = [ord EXCEPT ![i] = StatusOf(i, n)]
    BY DEF handle_untracked_notification
  <1>4. Good(ord[i], StatusOf(i, n), i)
    BY <1>1, <1>2, RowGood DEF StatusOf
  <1> QED BY <1>1, <1>3, <1>4, OneGood, NoneGood

(* So does the application of a drain by a barrier. *)
LEMMA BarrierGood ==
  ASSUME HistOK, RecordsOK, NEW cut \in Drains, NEW good \in BOOLEAN, NEW whole \in BOOLEAN,
         apply_drain_rows(cut, good, whole)
  PROVE  AllGood
  <1>1. hist' = hist
    BY DEF apply_drain_rows
  <1>2. ASSUME NEW i \in Ids PROVE Good(ord[i], ord'[i], i)
    <2>1. ord[i] \in Records /\ Fits(ord[i], i)
      BY DEF RecordsOK
    <2>2. CASE i \in Fresh(cut, TRUE)
      <3> DEFINE f == StatusOf(i, cut[i])
      <3>1. cut[i] \in 1..Len(hist[i])
        BY <2>2, DrainRow DEF Fresh, latest_drain_rows
      <3>2. Good(ord[i], f, i)
        BY <2>1, <3>1, RowGood DEF StatusOf
      <3>3. ord'[i] = BindRow(i, f, good)
        BY <2>2 DEF apply_drain_rows
      <3>4. Len(hist[i]) > 0
        BY <3>1 DEF HistOK
      <3>5. f.st \in Working => Taken(i)
        <4>1. CASE ord[i].st \in Working
          <5>1. f.st = order_status_from_fields(i, cut[i])
            BY <4>1 DEF StatusOf, Reported, Working
          <5> QED BY <3>1, <5>1, StatusOfRow DEF Working
        <4>2. CASE ord[i].st = "none"
          <5>1. f.st = order_status_from_fields(i, cut[i])
            BY <4>2 DEF StatusOf, Reported, Working
          <5> QED BY <3>1, <5>1, StatusOfRow DEF Working
        <4>3. CASE ord[i].st \notin Working /\ ord[i].st # "none"
          <5>1. f = ord[i]
            BY <4>3 DEF StatusOf, Reported
          <5> QED BY <4>3, <5>1
        <4> QED BY <4>1, <4>2, <4>3
      <3>6. Good(ord[i], [f EXCEPT !.bound = TRUE], i)
        BY <2>1, <3>2, <3>4, <3>5, BoundGood DEF Good
      <3> QED BY <3>2, <3>3, <3>6 DEF BindRow
    <2>3. CASE i \notin Fresh(cut, TRUE)
      <3>1. ord'[i] = ord[i]
        BY <2>3 DEF apply_drain_rows
      <3> QED BY <2>1, <3>1, SameGood
    <2> QED BY <2>2, <2>3
  <1>3. ord' = [i \in Ids |-> ord'[i]]
    BY DEF apply_drain_rows
  <1> QED BY <1>1, <1>2, <1>3 DEF AllGood, Good

(* So do order status reports. *)
LEMMA ReportsGood ==
  ASSUME HistOK, RecordsOK, NEW cut \in Drains, NEW openOnly \in BOOLEAN,
         generate_order_status_reports(cut, openOnly)
  PROVE  AllGood
  <1>1. hist' = hist
    BY DEF generate_order_status_reports
  <1>2. ASSUME NEW i \in Ids PROVE Good(ord[i], ord'[i], i)
    <2>1. ord[i] \in Records /\ Fits(ord[i], i)
      BY DEF RecordsOK
    <2>2. CASE i \in ReportsOf(cut, openOnly)
      <3>1. cut[i] \in 1..Len(hist[i])
        BY <2>2, DrainRow DEF ReportsOf, Fresh, latest_drain_rows
      <3>2. ord'[i] = StatusOf(i, cut[i])
        BY <2>2 DEF generate_order_status_reports
      <3> QED BY <2>1, <3>1, <3>2, RowGood DEF StatusOf
    <2>3. CASE i \notin ReportsOf(cut, openOnly)
      <3>1. ord'[i] = ord[i]
        BY <2>3 DEF generate_order_status_reports
      <3> QED BY <2>1, <3>1, SameGood
    <2> QED BY <2>2, <2>3
  <1>3. ord' = [i \in Ids |-> ord'[i]]
    BY DEF generate_order_status_reports
  <1> QED BY <1>1, <1>2, <1>3 DEF AllGood, Good

\* The status that goes with reconciled fills.
LEMMA AfterReportGood ==
  ASSUME HistOK, NEW cut \in Drains, NEW rows \in SUBSET NewFills(cut), NEW i \in Ids,
         NEW e \in Records, Fits(e, i)
  PROVE  Good(e, AfterReport(e, i, rows), i)
  <1> DEFINE ns == {n \in 1..MaxHist : <<i, n>> \in rows}
  <1>1. CASE ns = {}
    BY <1>1, SameGood DEF AfterReport
  <1>2. CASE ns # {}
    <2>1. MaxHist \in Nat
      BY OrdersAssumption
    <2>2. Max(ns) \in ns
      BY <1>2, <2>1, Greatest
    <2> DEFINE n == Max(ns)
    <2> HIDE DEF ns
    <2>3. <<i, n>> \in NewFills(cut) /\ n \in 1..MaxHist
      BY <2>2 DEF ns
    <2>4. n <= cut[i] /\ hist[i][n] = "filled" /\ n \in Nat
      BY <2>1, <2>3 DEF NewFills, Kind
    <2>5. n \in 1..Len(hist[i])
      BY <2>1, <2>3, <2>4, DrainRow DEF HistOK
    <2>6. Taken(i) /\ Len(hist[i]) > 0
      BY <2>4, <2>5, LaterEvents
    <2>7. AfterReport(e, i, rows) = Reported(e, "filled", n)
      BY <1>2 DEF AfterReport, ns
    <2> HIDE DEF n
    <2> QED BY <2>4, <2>6, <2>7, ReportGood DEF Statuses
  <1> QED BY <1>1, <1>2

(* So do fill reports. *)
LEMMA FillReportsGood ==
  ASSUME HistOK, RecordsOK, NEW cut \in Drains, NEW rows \in SUBSET NewFills(cut),
         generate_fill_reports(cut, rows)
  PROVE  AllGood
  <1>1. hist' = hist /\ ord' = [i \in Ids |-> AfterReport(ord[i], i, rows)]
    BY DEF generate_fill_reports
  <1>2. ASSUME NEW i \in Ids PROVE Good(ord[i], ord'[i], i)
    <2>1. ord[i] \in Records /\ Fits(ord[i], i)
      BY DEF RecordsOK
    <2> QED BY <1>1, <2>1, AfterReportGood
  <1>3. ord' = [i \in Ids |-> ord'[i]]
    BY <1>1
  <1> QED BY <1>1, <1>2, <1>3 DEF AllGood, Good

(* So does the end of a mass status. *)
LEMMA MassStatusGood ==
  ASSUME HistOK, RecordsOK, RowsOK, NEW cut \in Drains, NEW rows \in SUBSET NewFills(cut),
         MassStatusEnds(cut, rows)
  PROVE  AllGood
  <1>1. hist' = hist
    BY DEF MassStatusEnds
  <1>2. ASSUME NEW i \in Ids PROVE Good(ord[i], ord'[i], i)
    <2> DEFINE e == AfterReport(ord[i], i, rows)
    <2>1. ord[i] \in Records /\ Fits(ord[i], i)
      BY DEF RecordsOK
    <2>2. Good(ord[i], e, i)
      BY <2>1, AfterReportGood
    <2>3. CASE held[i] > 0
      <3>1. held[i] \in 1..Len(hist[i])
        BY <2>3 DEF RowsOK, HistOK
      <3> DEFINE g == Reported(e, order_status_from_fields(i, held[i]), held[i])
      <3>2. ord'[i] = g
        BY <2>3 DEF MassStatusEnds
      <3>3. Good(e, g, i)
        BY <2>2, <3>1, RowGood DEF Good
      <3>4. Moves(ord[i], g, i)
        BY <2>1, <2>2, <3>3, MovesTwice DEF Good
      <3> QED BY <3>2, <3>3, <3>4 DEF Good
    <2>4. CASE ~(held[i] > 0)
      <3>1. ord'[i] = e
        BY <2>4 DEF MassStatusEnds
      <3> QED BY <2>2, <3>1
    <2> QED BY <2>3, <2>4
  <1>3. ord' = [i \in Ids |-> ord'[i]]
    BY DEF MassStatusEnds
  <1> QED BY <1>1, <1>2, <1>3 DEF AllGood, Good

\* The answer from the engine's own record.
LEMMA OwnReportGood ==
  ASSUME RecordsOK, NEW o \in Mine
  PROVE  Good(ord[o], _order_status_report_for(o), o)
  <1>1. o \in Ids /\ ord[o] \in Records /\ Fits(ord[o], o)
    BY DEF RecordsOK, Ids
  <1>2. CASE ord[o].bound /\ ord[o].st = "submitted"
    <2> DEFINE f == [ord[o] EXCEPT !.st = "accepted"]
    <2>1. f \in Records /\ f.st = "accepted" /\ f.bound = ord[o].bound
      BY <1>1 DEF Records, Working
    <2>2. Taken(o) /\ o \notin Others
      BY <1>1, <1>2, OrdersAssumption DEF Fits, Working
    <2>3. _order_status_report_for(o) = f
      BY <1>2 DEF _order_status_report_for
    <2> HIDE DEF f
    <2>4. Fits(f, o) /\ Moves(ord[o], f, o)
      BY <1>2, <2>1, <2>2 DEF Fits, Moves, Working, Taking, Statuses
    <2> QED BY <2>1, <2>3, <2>4 DEF Good
  <1>3. CASE ~(ord[o].bound /\ ord[o].st = "submitted")
    <2>1. _order_status_report_for(o) = ord[o]
      BY <1>3 DEF _order_status_report_for
    <2> QED BY <1>1, <2>1, SameGood
  <1> QED BY <1>2, <1>3

(* So does the report of one order. *)
LEMMA QueryGood ==
  ASSUME HistOK, RecordsOK, NEW o \in Mine, generate_order_status_report(o)
  PROVE  AllGood
  <1>1. hist' = hist /\ o \in Ids
    BY DEF generate_order_status_report, inflightFrame, Ids
  <1>2. ord' = ord \/ ord' = [ord EXCEPT ![o] = _order_status_report_for(o)]
    BY DEF generate_order_status_report
  <1> QED BY <1>1, <1>2, OwnReportGood, OneGood, NoneGood

(* So does the resolution of an order in flight by its tag. *)
LEMMA InflightGood ==
  ASSUME HistOK, RecordsOK, CallsOK, NEW cut \in Drains, NEW good \in BOOLEAN,
         _resolve_inflight_by_tag(cut, good)
  PROVE  AllGood
  <1> DEFINE o == query.o
  <1>1. hist' = hist /\ o \in Mine /\ o \in Ids
    BY DEF _resolve_inflight_by_tag, inflightFrame, Ids, CallsOK
  <1>2. ord[o] \in Records /\ Fits(ord[o], o)
    BY <1>1 DEF RecordsOK
  <1>3. CASE ~MovedMeanwhile(o) /\ cut[o] > 0 /\ good
    <2> DEFINE f == StatusOf(o, cut[o])
    <2>1. ord' = [ord EXCEPT ![o] = [f EXCEPT !.bound = TRUE]]
      BY <1>3 DEF _resolve_inflight_by_tag
    <2>2. cut[o] \in 1..Len(hist[o])
      BY <1>1, <1>3, DrainRow
    <2>3. Good(ord[o], f, o)
      BY <1>1, <1>2, <2>2, RowGood DEF StatusOf
    <2>4. Len(hist[o]) > 0
      BY <1>1, <2>2 DEF HistOK
    <2>5. ord[o].st \in Working
      BY <1>1, <1>2, <1>3, <2>4 DEF MovedMeanwhile, Fits, Records
    <2>6. f.st = order_status_from_fields(o, cut[o])
      BY <2>5 DEF StatusOf, Reported, Working
    <2>7. f.st \in Working => Taken(o)
      BY <1>1, <2>2, <2>6, StatusOfRow DEF Working
    <2>8. Good(ord[o], [f EXCEPT !.bound = TRUE], o)
      BY <1>1, <1>2, <2>3, <2>4, <2>7, BoundGood DEF Good
    <2> QED BY <1>1, <2>1, <2>8, OneGood
  <1>4. CASE ~(~MovedMeanwhile(o) /\ cut[o] > 0 /\ good)
    <2>1. ord' = [ord EXCEPT ![o] = _order_status_report_for(o)]
      BY <1>4 DEF _resolve_inflight_by_tag
    <2> QED BY <1>1, <2>1, OwnReportGood, OneGood
  <1> QED BY <1>3, <1>4

\* The three kinds of step.
VenueStep  == \E i \in Ids, k \in EventKinds : VenueEvent(i, k)
SubmitStep == \E o \in Mine : \/ \E mapped \in BOOLEAN : _submit_order(o, mapped)
                              \/ \E priced \in SUBSET Legs : _submit_order_list(o, priced)

(* Every step is an event of the venue, a submission, or moves all records well. *)
LEMMA RecordSteps ==
  ASSUME Next, HistOK, RecordsOK, RowsOK, CallsOK
  PROVE  VenueStep \/ SubmitStep \/ AllGood
  <1>1. CASE Venue
    <2>1. CASE Break
      BY <2>1, NoneGood DEF Break
    <2>2. ASSUME NEW i \in Ids, NEW n \in 1..MaxHist, VenueRepeats(i, n) PROVE AllGood
      BY <2>2, NoneGood DEF VenueRepeats
    <2> QED BY <1>1, <2>1, <2>2 DEF Venue, VenueStep, EventKinds
  <1>2. CASE Commands
    <2>1. ASSUME NEW o \in Mine, _modify_order(o) \/ _cancel_order(o) PROVE AllGood
      BY <2>1, NoneGood DEF _modify_order, _cancel_order, commandFrame
    <2> QED BY <1>2, <2>1, CommandEndsGood DEF Commands, SubmitStep
  <1>3. CASE Intake
    BY <1>3, NotificationGood, UntrackedGood DEF Intake
  <1>4. CASE Recon
    <2>1. ASSUME NEW cut \in Drains, generate_mass_status(cut) PROVE AllGood
      BY <2>1, NoneGood DEF generate_mass_status
    <2> QED BY <1>4, <2>1, BarrierGood, InflightGood, ReportsGood, FillReportsGood,
               MassStatusGood, QueryGood DEF Recon
  <1> QED BY <1>1, <1>2, <1>3, <1>4 DEF Next

-----------------------------------------------------------------------------
\* The invariant is kept

\* A venue event is one more event of one order, which was asked for or was taken.
LEMMA VenueTurn ==
  ASSUME HistOK, NEW i \in Ids, NEW k \in EventKinds, VenueEvent(i, k)
  PROVE  /\ hist' \in [Ids -> Seq(EventKinds)] /\ ord' = ord
         /\ hist'[i] = Append(hist[i], k) /\ Len(hist'[i]) = Len(hist[i]) + 1
         /\ \A n \in 1..Len(hist[i]) : hist'[i][n] = hist[i][n]
         /\ hist'[i][Len(hist[i]) + 1] = k
         /\ \A j \in Ids : j # i => hist'[j] = hist[j]
         /\ Len(hist[i]) \in Nat
         /\ Len(hist[i]) = 0 => Requested(i) /\ k \in {"accepted", "rejected"}
         /\ Len(hist[i]) > 0 => /\ k \in {"filled", "canceled", "updated"}
                                /\ Taken(i) /\ ~Done(i)
  <1>1. hist \in [Ids -> Seq(EventKinds)] /\ hist[i] \in Seq(EventKinds)
    BY DEF HistOK
  <1>2. hist' = [hist EXCEPT ![i] = Append(hist[i], k)] /\ ord' = ord /\ k \in Legal(i)
    BY DEF VenueEvent
  <1>3. Append(hist[i], k) \in Seq(EventKinds)
    BY <1>1
  <1>4. hist' \in [Ids -> Seq(EventKinds)] /\ hist'[i] = Append(hist[i], k)
    BY <1>1, <1>2, <1>3
  <1>5. \A j \in Ids : j # i => hist'[j] = hist[j]
    BY <1>1, <1>2
  <1>6. /\ Len(hist'[i]) = Len(hist[i]) + 1 /\ Len(hist[i]) \in Nat
        /\ \A n \in 1..Len(hist[i]) : hist'[i][n] = hist[i][n]
        /\ hist'[i][Len(hist[i]) + 1] = k
    BY <1>1, <1>4
  <1>7. Len(hist[i]) = 0 => Requested(i) /\ k \in {"accepted", "rejected"}
    <2>1. Len(hist[i]) = 0 => hist[i] = <<>>
      BY <1>1
    <2> QED BY <1>2, <2>1 DEF Legal
  <1>8. ASSUME Len(hist[i]) > 0 PROVE k \in {"filled", "canceled", "updated"} /\ Taken(i) /\ ~Done(i)
    <2>1. hist[i] # <<>>
      BY <1>1, <1>8
    <2>2. ~Done(i) /\ k \in {"filled", "canceled", "updated"}
      BY <1>2, <2>1 DEF Legal
    <2>3. 1 \in 1..Len(hist[i]) /\ DOMAIN hist[i] = 1..Len(hist[i])
      BY <1>1, <1>6, <1>8
    <2>4. hist[i][1] # "rejected"
      BY <2>2, <2>3 DEF Done
    <2>5. hist[i][1] \in {"accepted", "rejected"}
      BY <2>3 DEF HistOK
    <2> QED BY <1>8, <2>2, <2>4, <2>5 DEF Taken
  <1> QED BY <1>2, <1>4, <1>5, <1>6, <1>7, <1>8

\* Who is taken after a venue event: the same orders, and one whose first event accepts it.
LEMMA VenueTakes ==
  ASSUME HistOK, NEW i \in Ids, NEW k \in EventKinds, VenueEvent(i, k)
  PROVE  /\ \A j \in Ids : j # i => (Taken(j)' <=> Taken(j))
         /\ Taken(i)' <=> Taken(i) \/ (Len(hist[i]) = 0 /\ k = "accepted")
  <1>1. /\ Len(hist'[i]) = Len(hist[i]) + 1 /\ Len(hist[i]) \in Nat
        /\ \A n \in 1..Len(hist[i]) : hist'[i][n] = hist[i][n]
        /\ hist'[i][Len(hist[i]) + 1] = k
        /\ \A j \in Ids : j # i => hist'[j] = hist[j]
    BY VenueTurn
  <1>2. \A j \in Ids : j # i => (Taken(j)' <=> Taken(j))
    BY <1>1 DEF Taken
  <1>3. CASE Len(hist[i]) = 0
    <2>1. Taken(i)' <=> k = "accepted"
      BY <1>1, <1>3 DEF Taken
    <2> QED BY <1>2, <1>3, <2>1 DEF Taken
  <1>4. CASE Len(hist[i]) > 0
    <2>1. hist'[i][1] = hist[i][1]
      BY <1>1, <1>4
    <2> QED BY <1>1, <1>2, <1>4, <2>1 DEF Taken
  <1> QED BY <1>1, <1>3, <1>4

(* Every step keeps the histories well formed. *)
LEMMA HistKept ==
  ASSUME HistOK, VenueStep \/ hist' = hist PROVE HistOK'
  <1>1. CASE hist' = hist
    BY <1>1 DEF HistOK, Taken
  <1>2. ASSUME NEW i \in Ids, NEW k \in EventKinds, VenueEvent(i, k) PROVE HistOK'
    <2>1. /\ hist' \in [Ids -> Seq(EventKinds)]
          /\ Len(hist'[i]) = Len(hist[i]) + 1 /\ Len(hist[i]) \in Nat
          /\ \A n \in 1..Len(hist[i]) : hist'[i][n] = hist[i][n]
          /\ hist'[i][Len(hist[i]) + 1] = k
          /\ \A j \in Ids : j # i => hist'[j] = hist[j]
          /\ Len(hist[i]) = 0 => k \in {"accepted", "rejected"}
          /\ Len(hist[i]) > 0 => k \in {"filled", "canceled", "updated"} /\ Taken(i)
      BY <1>2, VenueTurn
    <2>2. ASSUME NEW j \in Ids, NEW n \in 1..Len(hist'[j])
          PROVE  /\ n = 1 => hist'[j][n] \in {"accepted", "rejected"}
                 /\ n > 1 => hist'[j][n] \in {"filled", "canceled", "updated"} /\ Taken(j)'
      <3>1. CASE j # i
        <4>1. hist'[j] = hist[j] /\ (Taken(j)' <=> Taken(j))
          BY <1>2, <2>1, <3>1, VenueTakes
        <4>2. n \in 1..Len(hist[j])
          BY <2>2, <4>1
        <4> QED BY <4>1, <4>2 DEF HistOK
      <3>2. CASE j = i /\ n <= Len(hist[i])
        <4>1. n \in 1..Len(hist[i]) /\ hist'[i][n] = hist[i][n]
          BY <2>1, <3>2
        <4>2. Taken(i) => Taken(i)'
          BY <1>2, VenueTakes
        <4> QED BY <3>2, <4>1, <4>2 DEF HistOK
      <3>3. CASE j = i /\ ~(n <= Len(hist[i]))
        <4>1. n = Len(hist[i]) + 1
          BY <2>1, <2>2, <3>3
        <4>2. Taken(i) => Taken(i)'
          BY <1>2, VenueTakes
        <4> QED BY <2>1, <3>3, <4>1, <4>2
      <3> QED BY <3>1, <3>2, <3>3
    <2> QED BY <2>1, <2>2 DEF HistOK
  <1> QED BY <1>1, <1>2 DEF VenueStep

\* A submission takes one order of ours that is new, and sends it or denies it.
LEMMA SubmitTurn ==
  ASSUME RecordsOK, NEW o \in Mine,
         \/ \E mapped \in BOOLEAN : _submit_order(o, mapped)
         \/ \E priced \in SUBSET Legs : _submit_order_list(o, priced)
  PROVE  \E s \in {"submitted", "denied"} :
           /\ ord' = [ord EXCEPT ![o].st = s] /\ ord[o].st = "init"
           /\ ord' \in [Ids -> Records] /\ ord'[o] = [ord[o] EXCEPT !.st = s]
           /\ \A j \in Ids : j # o => ord'[j] = ord[j]
           /\ hist' = hist /\ wire' = wire /\ held' = held /\ query' = query
           /\ \/ cmd' = cmd
              \/ s = "submitted" /\ cmd' = [k |-> "place", o |-> o]
           /\ \/ exits' = exits
              \/ exits' = [exits EXCEPT ![o] = AllLegs(s)]
  <1>1. ord \in [Ids -> Records] /\ o \in Ids
    BY DEF RecordsOK, Ids
  <1>2. PICK s \in {"submitted", "denied"} :
           /\ ord' = [ord EXCEPT ![o].st = s] /\ ord[o].st = "init"
           /\ hist' = hist /\ wire' = wire /\ held' = held /\ query' = query
           /\ \/ cmd' = cmd
              \/ s = "submitted" /\ cmd' = [k |-> "place", o |-> o]
           /\ \/ exits' = exits
              \/ exits' = [exits EXCEPT ![o] = AllLegs(s)]
    <2>1. ASSUME NEW mapped \in BOOLEAN, _submit_order(o, mapped)
          PROVE \E s \in {"submitted", "denied"} :
                 /\ ord' = [ord EXCEPT ![o].st = s] /\ ord[o].st = "init"
                 /\ hist' = hist /\ wire' = wire /\ held' = held /\ query' = query
                 /\ \/ cmd' = cmd
                    \/ s = "submitted" /\ cmd' = [k |-> "place", o |-> o]
                 /\ exits' = exits
      BY <2>1 DEF _submit_order, commandFrame, queryVars
    <2>2. ASSUME NEW priced \in SUBSET Legs, _submit_order_list(o, priced)
          PROVE \E s \in {"submitted", "denied"} :
                 /\ ord' = [ord EXCEPT ![o].st = s] /\ ord[o].st = "init"
                 /\ hist' = hist /\ wire' = wire /\ held' = held /\ query' = query
                 /\ \/ cmd' = cmd
                    \/ s = "submitted" /\ cmd' = [k |-> "place", o |-> o]
                 /\ exits' = [exits EXCEPT ![o] = AllLegs(s)]
      BY <2>2 DEF _submit_order_list, commandFrame, queryVars
    <2> QED BY <2>1, <2>2
  <1>3. [ord[o] EXCEPT !.st = s] \in Records
    BY <1>1, <1>2 DEF Records, Working, Closed
  <1>4. ord' = [ord EXCEPT ![o] = [ord[o] EXCEPT !.st = s]]
    BY <1>2
  <1>5. ord' \in [Ids -> Records] /\ ord'[o] = [ord[o] EXCEPT !.st = s]
         /\ \A j \in Ids : j # o => ord'[j] = ord[j]
    BY <1>1, <1>3, <1>4
  <1> QED BY <1>2, <1>5

(* Every step keeps the records fitting the venue. *)
LEMMA RecordsKept ==
  ASSUME HistOK, RecordsOK, VenueStep \/ SubmitStep \/ AllGood PROVE RecordsOK'
  <1>0. ord \in [Ids -> Records] /\ \A j \in Ids : Fits(ord[j], j)
    BY DEF RecordsOK
  <1>1. CASE AllGood
    <2>1. \A j \in Ids : Taken(j)' <=> Taken(j)
      BY <1>1 DEF AllGood, Taken
    <2>2. ASSUME NEW j \in Ids PROVE Fits(ord[j], j)'
      <3>1. Fits(ord'[j], j) /\ hist' = hist
        BY <1>1 DEF AllGood, Good
      <3> QED BY <2>1, <3>1 DEF Fits
    <2> QED BY <1>1, <2>2 DEF AllGood, RecordsOK
  <1>2. ASSUME NEW i \in Ids, NEW k \in EventKinds, VenueEvent(i, k) PROVE RecordsOK'
    <2>1. /\ ord' = ord /\ Len(hist'[i]) = Len(hist[i]) + 1 /\ Len(hist[i]) \in Nat
          /\ \A j \in Ids : j # i => hist'[j] = hist[j]
          /\ Len(hist[i]) = 0 => Requested(i)
          /\ Len(hist[i]) > 0 => Taken(i)
      BY <1>2, VenueTurn
    <2>2. /\ \A j \in Ids : j # i => (Taken(j)' <=> Taken(j))
          /\ Taken(i)' <=> Taken(i) \/ (Len(hist[i]) = 0 /\ k = "accepted")
      BY <1>2, VenueTakes
    <2>3. ASSUME NEW j \in Ids PROVE Fits(ord[j], j)'
      <3>1. CASE j # i
        BY <1>0, <2>1, <2>2, <3>1 DEF Fits
      <3>2. CASE j = i /\ Len(hist[i]) > 0
        <4>1. Fits(ord[i], i) /\ Taken(i)
          BY <1>0, <2>1, <3>2
        <4> QED BY <2>1, <2>2, <3>2, <4>1 DEF Fits
      <3>3. CASE j = i /\ Len(hist[i]) = 0
        <4>1. Fits(ord[i], i) /\ ~Taken(i) /\ (i \in Others \/ ord[i].st = "submitted")
          BY <1>0, <2>1, <3>3 DEF Taken, Requested
        <4>2. CASE i \in Others
          <5>1. ord[i].st = "none" /\ i \notin Mine
            BY <3>3, <4>1, <4>2, OrdersAssumption DEF Fits
          <5> QED BY <2>1, <3>3, <4>2, <5>1 DEF Fits, Working, Taking, Statuses
        <4>3. CASE i \notin Others /\ ord[i].st = "submitted"
          <5>1. ord[i].bound = FALSE
            BY <1>0, <4>1, <4>3 DEF Fits, Working, Records
          <5> QED BY <2>1, <3>3, <4>3, <5>1 DEF Fits, Working, Taking, Statuses
        <4> QED BY <4>1, <4>2, <4>3
      <3> QED BY <2>1, <3>1, <3>2, <3>3
    <2> QED BY <1>0, <2>1, <2>3 DEF RecordsOK
  <1>3. ASSUME NEW o \in Mine,
               \/ \E mapped \in BOOLEAN : _submit_order(o, mapped)
               \/ \E priced \in SUBSET Legs : _submit_order_list(o, priced)
        PROVE RecordsOK'
    <2>1. PICK s \in {"submitted", "denied"} :
            /\ ord[o].st = "init" /\ hist' = hist
            /\ ord' \in [Ids -> Records] /\ ord'[o] = [ord[o] EXCEPT !.st = s]
            /\ \A j \in Ids : j # o => ord'[j] = ord[j]
      BY <1>3, SubmitTurn
    <2>2. o \in Ids /\ o \notin Others /\ \A j \in Ids : Taken(j)' <=> Taken(j)
      BY <2>1, OrdersAssumption DEF Taken, Ids
    <2>3. ASSUME NEW j \in Ids PROVE Fits(ord[j], j)'
      <3>1. CASE j # o
        BY <1>0, <2>1, <2>2, <3>1 DEF Fits
      <3>2. CASE j = o
        <4>1. Fits(ord[o], o) /\ ord[o] \in Records
          BY <1>0, <2>2
        <4>2. Len(hist[o]) = 0 /\ ~Taken(o)
          BY <2>1, <4>1 DEF Fits, Taken
        <4>3. ord'[o].st = s /\ ord'[o].bound = ord[o].bound
          BY <2>1, <4>1 DEF Records
        <4>4. ord[o].bound = FALSE
          BY <2>1, <4>1 DEF Fits
        <4> QED BY <2>1, <2>2, <3>2, <4>2, <4>3, <4>4 DEF Fits, Working, Taking, Statuses
      <3> QED BY <3>1, <3>2
    <2> QED BY <2>1, <2>3 DEF RecordsOK
  <1> QED BY <1>1, <1>2, <1>3 DEF VenueStep, SubmitStep

\* What a step does to the notifications on their way: one arrives, one is taken, or the
\* stream loses them.
LEMMA WireTurn ==
  ASSUME Next, HistOK
  PROVE  \/ wire' = wire \/ wire' = <<>> \/ (wire # <<>> /\ wire' = Tail(wire))
         \/ \E i \in Ids, n \in Nat : wire' = Append(wire, <<i, n>>) /\ n \in 1..Len(hist'[i])
  <1> USE DEF commandFrame, queryVars, fillVars, inflightFrame
  <1>1. CASE Venue
    <2>1. ASSUME NEW i \in Ids, NEW k \in EventKinds, VenueEvent(i, k)
          PROVE  \E j \in Ids, n \in Nat : wire' = Append(wire, <<j, n>>) /\ n \in 1..Len(hist'[j])
      <3>1. Len(hist'[i]) = Len(hist[i]) + 1 /\ Len(hist[i]) \in Nat
        BY <2>1, VenueTurn
      <3>2. wire' = Append(wire, <<i, Len(hist'[i])>>)
        BY <2>1 DEF VenueEvent
      <3>3. Len(hist'[i]) \in Nat /\ Len(hist'[i]) \in 1..Len(hist'[i])
        BY <3>1
      <3> QED BY <3>2, <3>3
    <2>2. ASSUME NEW i \in Ids, NEW n \in 1..MaxHist, VenueRepeats(i, n)
          PROVE  \E j \in Ids, m \in Nat : wire' = Append(wire, <<j, m>>) /\ m \in 1..Len(hist'[j])
      <3>1. n \in Nat /\ n \in 1..Len(hist'[i])
        BY <2>2, OrdersAssumption DEF VenueRepeats, HistOK
      <3>2. wire' = Append(wire, <<i, n>>)
        BY <2>2 DEF VenueRepeats
      <3> QED BY <3>1, <3>2
    <2>3. CASE Break
      BY <2>3 DEF Break
    <2> QED BY <1>1, <2>1, <2>2, <2>3 DEF Venue, EventKinds
  <1>2. CASE Commands
    BY <1>2 DEF Commands, _submit_order, _submit_order_list, _modify_order, _cancel_order,
                CommandEnds
  <1>3. CASE Intake
    BY <1>3 DEF Intake, handle_order_notification, handle_untracked_notification, Take
  <1>4. CASE Recon
    BY <1>4 DEF Recon, apply_drain_rows, _resolve_inflight_by_tag, generate_mass_status,
                generate_order_status_reports, generate_fill_reports, MassStatusEnds,
                generate_order_status_report
  <1> QED BY <1>1, <1>2, <1>3, <1>4 DEF Next

\* What a step does to the order reports mass status holds.
LEMMA HeldTurn ==
  ASSUME Next
  PROVE  \/ held' = held \/ held' = Nothing
         \/ /\ hist' = hist
            /\ \E cut \in Drains : held' = [i \in Ids |-> IF i \in Fresh(cut, FALSE)
                                                          THEN cut[i] ELSE 0]
  <1> USE DEF commandFrame, queryVars, fillVars, inflightFrame
  <1>1. CASE Venue
    BY <1>1 DEF Venue, VenueEvent, VenueRepeats, Break
  <1>2. CASE Commands
    BY <1>2 DEF Commands, _submit_order, _submit_order_list, _modify_order, _cancel_order,
                CommandEnds
  <1>3. CASE Intake
    BY <1>3 DEF Intake, handle_order_notification, handle_untracked_notification
  <1>4. CASE Recon
    <2>1. CASE \E cut \in Drains : generate_mass_status(cut)
      BY <2>1 DEF generate_mass_status
    <2>2. CASE \E cut \in Drains : \E rows \in SUBSET NewFills(cut) : MassStatusEnds(cut, rows)
      BY <2>2 DEF MassStatusEnds
    <2>3. CASE \/ \E cut \in Drains, good \in BOOLEAN :
                    \/ \E whole \in BOOLEAN : apply_drain_rows(cut, good, whole)
                    \/ _resolve_inflight_by_tag(cut, good)
               \/ \E cut \in Drains :
                    \/ \E openOnly \in BOOLEAN : generate_order_status_reports(cut, openOnly)
                    \/ \E rows \in SUBSET NewFills(cut) : generate_fill_reports(cut, rows)
               \/ \E o \in Mine : generate_order_status_report(o)
      BY <2>3 DEF apply_drain_rows, _resolve_inflight_by_tag,
                generate_order_status_reports, generate_fill_reports,
                generate_order_status_report
    <2> QED BY <1>4, <2>1, <2>2, <2>3 DEF Recon
  <1> QED BY <1>1, <1>2, <1>3, <1>4 DEF Next

\* Histories only grow.
LEMMA HistGrows ==
  ASSUME HistOK, VenueStep \/ hist' = hist, NEW i \in Ids
  PROVE  /\ Len(hist[i]) \in Nat /\ Len(hist'[i]) \in Nat /\ Len(hist[i]) <= Len(hist'[i])
         /\ \A n \in 1..Len(hist[i]) : hist'[i][n] = hist[i][n]
  <1>1. Len(hist[i]) \in Nat
    BY DEF HistOK
  <1>2. CASE hist' = hist
    BY <1>1, <1>2
  <1>3. ASSUME NEW j \in Ids, NEW k \in EventKinds, VenueEvent(j, k)
        PROVE  /\ Len(hist'[i]) \in Nat /\ Len(hist[i]) <= Len(hist'[i])
               /\ \A n \in 1..Len(hist[i]) : hist'[i][n] = hist[i][n]
    <2>1. CASE i = j
      <3>1. /\ Len(hist'[i]) = Len(hist[i]) + 1
            /\ \A n \in 1..Len(hist[i]) : hist'[i][n] = hist[i][n]
        BY <1>3, <2>1, VenueTurn
      <3> QED BY <1>1, <3>1
    <2>2. CASE i # j
      <3>1. hist'[i] = hist[i]
        BY <1>3, <2>2, VenueTurn
      <3> QED BY <1>1, <3>1
    <2> QED BY <2>1, <2>2
  <1> QED BY <1>1, <1>2, <1>3 DEF VenueStep

(* Rows on their way stay events of their orders. *)
LEMMA RowsKept ==
  ASSUME Next, HistOK, RowsOK, VenueStep \/ hist' = hist PROVE RowsOK'
  <1>1. \A i \in Ids : /\ Len(hist[i]) \in Nat /\ Len(hist'[i]) \in Nat
                       /\ Len(hist[i]) <= Len(hist'[i])
    BY HistGrows
  <1>2. wire \in Seq(Ids \X Nat) /\ \A k \in 1..Len(wire) : wire[k][2] \in 1..Len(hist[wire[k][1]])
    BY DEF RowsOK
  <1> DEFINE Happened(r) == r[2] \in 1..Len(hist'[r[1]])
  <1>3. \A k \in 1..Len(wire) : Happened(wire[k])
    <2> TAKE k \in 1..Len(wire)
    <2>1. wire[k] \in Ids \X Nat /\ wire[k][1] \in Ids /\ wire[k][2] \in Nat
      BY <1>2
    <2> QED BY <1>1, <1>2, <2>1
  <1>4. wire' \in Seq(Ids \X Nat) /\ \A k \in 1..Len(wire') : Happened(wire'[k])
    <2>0. \A i \in Ids, n \in Nat : n \in 1..Len(hist'[i]) => Happened(<<i, n>>)
      OBVIOUS
    <2> HIDE DEF Happened
    <2>1. CASE wire' = wire
      BY <1>2, <1>3, <2>1
    <2>2. CASE wire' = <<>>
      BY <2>2
    <2>3. CASE wire # <<>> /\ wire' = Tail(wire)
      <3>1. wire' \in Seq(Ids \X Nat) /\ Len(wire') = Len(wire) - 1 /\ Len(wire) \in Nat
        BY <1>2, <2>3
      <3>2. \A k \in 1..Len(wire') : wire'[k] = wire[k + 1] /\ k + 1 \in 1..Len(wire)
        BY <1>2, <2>3, <3>1
      <3> QED BY <1>3, <3>1, <3>2
    <2>4. ASSUME NEW i \in Ids, NEW n \in Nat, wire' = Append(wire, <<i, n>>),
                 n \in 1..Len(hist'[i])
          PROVE  /\ wire' \in Seq(Ids \X Nat)
                 /\ \A k \in 1..Len(wire') : Happened(wire'[k])
      <3>1. <<i, n>> \in Ids \X Nat /\ Happened(<<i, n>>)
        BY <2>0, <2>4
      <3>2. wire' \in Seq(Ids \X Nat) /\ Len(wire') = Len(wire) + 1 /\ Len(wire) \in Nat
        BY <1>2, <2>4, <3>1
      <3>3. /\ \A k \in 1..Len(wire) : wire'[k] = wire[k]
            /\ wire'[Len(wire) + 1] = <<i, n>>
        BY <1>2, <2>4, <3>1
      <3>4. \A k \in 1..Len(wire') : k \in 1..Len(wire) \/ k = Len(wire) + 1
        BY <3>2
      <3> QED BY <1>3, <3>1, <3>2, <3>3, <3>4
    <2> QED BY <2>1, <2>2, <2>3, <2>4, WireTurn
  <1>5. held' \in [Ids -> Nat] /\ \A i \in Ids : held'[i] <= Len(hist'[i])
    <2>1. CASE held' = held
      BY <1>1, <2>1 DEF RowsOK
    <2>2. CASE held' = Nothing
      BY <1>1, <2>2 DEF Nothing
    <2>3. ASSUME NEW cut \in Drains, hist' = hist,
                 held' = [i \in Ids |-> IF i \in Fresh(cut, FALSE) THEN cut[i] ELSE 0]
          PROVE  held' \in [Ids -> Nat] /\ \A i \in Ids : held'[i] <= Len(hist'[i])
      <3>1. \A i \in Ids : cut[i] \in Nat /\ cut[i] <= Len(hist[i])
        BY DrainRow
      <3>2. ASSUME NEW i \in Ids PROVE held'[i] \in Nat /\ held'[i] <= Len(hist'[i])
        <4>1. held'[i] = cut[i] \/ held'[i] = 0
          BY <2>3
        <4>2. cut[i] \in Nat /\ cut[i] <= Len(hist'[i]) /\ Len(hist'[i]) \in Nat
          BY <1>1, <2>3, <3>1
        <4> QED BY <4>1, <4>2
      <3>3. held' = [i \in Ids |-> held'[i]]
        BY <2>3
      <3> QED BY <3>2, <3>3
    <2> QED BY <2>1, <2>2, <2>3, HeldTurn
  <1> QED BY <1>4, <1>5 DEF RowsOK

\* What a step does to the calls in flight.
LEMMA CallsTurn ==
  ASSUME Next
  PROVE  /\ \/ cmd' = cmd \/ cmd'.k # "place" \/ SubmitStep
         /\ \/ query' = query \/ query'.k # "inflight"
            \/ \E o \in Mine : query' = [k |-> "inflight", o |-> o]
  <1> USE DEF commandFrame, queryVars, fillVars, inflightFrame
  <1>0. NoQuery.k # "place" /\ NoQuery.k # "inflight"
    BY DEF NoQuery
  <1>1. CASE Venue
    BY <1>1 DEF Venue, VenueEvent, VenueRepeats, Break
  <1>2. CASE Commands
    <2>1. query' = query
      BY <1>2 DEF Commands, _submit_order, _submit_order_list, _modify_order, _cancel_order,
                  CommandEnds
    <2>2. ASSUME NEW o \in Mine, _modify_order(o) \/ _cancel_order(o) PROVE cmd'.k # "place"
      BY <2>2 DEF _modify_order, _cancel_order
    <2>3. ASSUME NEW outcome, CommandEnds(outcome) PROVE cmd'.k # "place"
      BY <1>0, <2>3 DEF CommandEnds
    <2> QED BY <1>2, <2>1, <2>2, <2>3 DEF Commands, SubmitStep
  <1>3. CASE Intake
    BY <1>3 DEF Intake, handle_order_notification, handle_untracked_notification
  <1>4. CASE Recon
    <2>1. ASSUME NEW cut \in Drains, generate_mass_status(cut)
          PROVE  cmd' = cmd /\ query'.k # "inflight"
      <3>1. query'.k = "mass" /\ cmd' = cmd
        BY <2>1 DEF generate_mass_status, NoQuery
      <3> QED BY <3>1
    <2>2. ASSUME NEW cut \in Drains, NEW rows \in SUBSET NewFills(cut), MassStatusEnds(cut, rows)
          PROVE  cmd' = cmd /\ query'.k # "inflight"
      BY <1>0, <2>2 DEF MassStatusEnds
    <2>3. ASSUME NEW cut \in Drains, NEW good \in BOOLEAN, _resolve_inflight_by_tag(cut, good)
          PROVE  cmd' = cmd /\ query'.k # "inflight"
      BY <1>0, <2>3 DEF _resolve_inflight_by_tag
    <2>4. ASSUME NEW o \in Mine, generate_order_status_report(o)
          PROVE  cmd' = cmd /\ (query' = query \/ query' = [k |-> "inflight", o |-> o])
      BY <2>4 DEF generate_order_status_report
    <2>5. ASSUME NEW cut \in Drains, NEW good, NEW whole, apply_drain_rows(cut, good, whole)
          PROVE  cmd' = cmd /\ query' = query
      BY <2>5 DEF apply_drain_rows
    <2>6. ASSUME NEW cut \in Drains, NEW openOnly, generate_order_status_reports(cut, openOnly)
          PROVE  cmd' = cmd /\ query' = query
      BY <2>6 DEF generate_order_status_reports
    <2>7. ASSUME NEW cut \in Drains, NEW rows, generate_fill_reports(cut, rows)
          PROVE  cmd' = cmd /\ query' = query
      BY <2>7 DEF generate_fill_reports
    <2> QED BY <1>4, <2>1, <2>2, <2>3, <2>4, <2>5, <2>6, <2>7 DEF Recon
  <1> QED BY <1>1, <1>2, <1>3, <1>4 DEF Next

\* An order of ours that left the engine never becomes new or denied again, and one that
\* is denied or rejected stays so.
LEMMA StatusKept ==
  ASSUME RecordsOK, HistOK, VenueStep \/ SubmitStep \/ AllGood, NEW o \in Mine
  PROVE  /\ ord[o].st \notin {"init", "denied"} => ord'[o].st \notin {"init", "denied"}
         /\ ord[o].st \in {"denied", "rejected"} => ord'[o].st = ord[o].st
  <1>0. o \in Ids /\ o \notin Others /\ ord[o] \in Records
    BY OrdersAssumption DEF Ids, RecordsOK
  <1>1. CASE AllGood
    <2>1. Moves(ord[o], ord'[o], o)
      BY <1>0, <1>1 DEF AllGood, Good
    <2> QED BY <1>0, <2>1 DEF Moves, Working, Taking, Statuses
  <1>2. CASE VenueStep
    <2>1. ord' = ord
      BY <1>2, VenueTurn DEF VenueStep
    <2> QED BY <2>1
  <1>3. ASSUME NEW p \in Mine,
               \/ \E mapped \in BOOLEAN : _submit_order(p, mapped)
               \/ \E priced \in SUBSET Legs : _submit_order_list(p, priced)
        PROVE  /\ ord[o].st \notin {"init", "denied"} => ord'[o].st \notin {"init", "denied"}
               /\ ord[o].st \in {"denied", "rejected"} => ord'[o].st = ord[o].st
    <2>1. ord[p].st = "init" /\ \A j \in Ids : j # p => ord'[j] = ord[j]
      BY <1>3, SubmitTurn
    <2>2. CASE o = p
      BY <2>1, <2>2
    <2>3. CASE o # p
      BY <1>0, <2>1, <2>3
    <2> QED BY <2>2, <2>3
  <1> QED BY <1>1, <1>2, <1>3 DEF SubmitStep

(* Commands and queries under way stay about own orders that were submitted. *)
LEMMA CallsKept ==
  ASSUME Next, HistOK, RecordsOK, CallsOK, VenueStep \/ SubmitStep \/ AllGood PROVE CallsOK'
  <1>1. query'.k = "inflight" => query'.o \in Mine
    <2>1. ASSUME NEW o \in Mine, query' = [k |-> "inflight", o |-> o] PROVE query'.o \in Mine
      BY <2>1
    <2> QED BY <2>1, CallsTurn DEF CallsOK
  <1>2. ASSUME cmd' = cmd, cmd.k = "place"
        PROVE  cmd'.o \in Mine /\ ord'[cmd'.o].st \notin {"init", "denied"}
    <2>1. cmd.o \in Mine /\ ord[cmd.o].st \notin {"init", "denied"}
      BY <1>2 DEF CallsOK
    <2>2. ord'[cmd.o].st \notin {"init", "denied"}
      BY <2>1, StatusKept
    <2> QED BY <1>2, <2>1, <2>2
  <1>3. CASE SubmitStep
    <2>1. PICK o \in Mine : \/ \E mapped \in BOOLEAN : _submit_order(o, mapped)
                            \/ \E priced \in SUBSET Legs : _submit_order_list(o, priced)
      BY <1>3 DEF SubmitStep
    <2>2. PICK s \in {"submitted", "denied"} :
            /\ ord'[o] = [ord[o] EXCEPT !.st = s]
            /\ cmd' = cmd \/ (s = "submitted" /\ cmd' = [k |-> "place", o |-> o])
      BY <2>1, SubmitTurn
    <2>3. ord[o] \in Records
      BY DEF RecordsOK, Ids
    <2>4. ord'[o].st = s
      BY <2>2, <2>3 DEF Records
    <2>5. CASE s = "submitted" /\ cmd' = [k |-> "place", o |-> o]
      <3>1. cmd'.o = o
        BY <2>5
      <3> QED BY <1>1, <2>4, <2>5, <3>1 DEF CallsOK
    <2>6. CASE cmd' = cmd
      BY <1>1, <1>2, <2>6 DEF CallsOK
    <2> QED BY <2>2, <2>5, <2>6
  <1>4. CASE ~SubmitStep
    BY <1>1, <1>2, <1>4, CallsTurn DEF CallsOK
  <1> QED BY <1>3, <1>4

\* Only a bracket's submission and the end of its command touch its exits.
LEMMA ExitsTurn ==
  ASSUME Next
  PROVE  exits' = exits \/ SubmitStep \/ \E outcome : CommandEnds(outcome)
  <1> USE DEF commandFrame, queryVars, fillVars, inflightFrame
  <1>1. CASE Venue
    BY <1>1 DEF Venue, VenueEvent, VenueRepeats, Break
  <1>2. CASE Commands
    <2>1. ASSUME NEW o \in Mine, _modify_order(o) \/ _cancel_order(o) PROVE exits' = exits
      BY <2>1 DEF _modify_order, _cancel_order
    <2> QED BY <1>2, <2>1 DEF Commands, SubmitStep
  <1>3. CASE Intake
    BY <1>3 DEF Intake, handle_order_notification, handle_untracked_notification
  <1>4. CASE Recon
    BY <1>4 DEF Recon, apply_drain_rows, _resolve_inflight_by_tag, generate_mass_status,
                generate_order_status_reports, generate_fill_reports, MassStatusEnds,
                generate_order_status_report
  <1> QED BY <1>1, <1>2, <1>3, <1>4 DEF Next

ExitStates == {AllLegs(st) : st \in {"none", "submitted", "denied", "rejected"}}

(* Every step keeps the exits of brackets with their entry. *)
LEMMA ExitsKept ==
  ASSUME Next, HistOK, RecordsOK, CallsOK, ExitsOK, VenueStep \/ SubmitStep \/ AllGood
  PROVE  ExitsOK'
  <1>0. /\ exits \in [Mine -> ExitStates]
        /\ \A o \in Mine : exits[o] \notin {AllLegs("none"), AllLegs("submitted")} =>
                             ord[o].st \in {"denied", "rejected"}
    BY DEF ExitsOK, ExitStates
  <1>1. \A st \in {"none", "submitted", "denied", "rejected"} : AllLegs(st) \in ExitStates
    BY DEF ExitStates
  <1> SUFFICES /\ exits' \in [Mine -> ExitStates]
               /\ \A o \in Mine : exits'[o] \notin {AllLegs("none"), AllLegs("submitted")} =>
                                    ord'[o].st \in {"denied", "rejected"}
    BY DEF ExitsOK, ExitStates, AllLegs
  <1>2. \A o \in Mine : ord[o].st \in {"denied", "rejected"} => ord'[o].st \in {"denied", "rejected"}
    BY StatusKept
  <1>3. CASE exits' = exits
    BY <1>0, <1>2, <1>3
  <1>4. CASE SubmitStep
    <2>1. PICK o \in Mine : \/ \E mapped \in BOOLEAN : _submit_order(o, mapped)
                            \/ \E priced \in SUBSET Legs : _submit_order_list(o, priced)
      BY <1>4 DEF SubmitStep
    <2>2. PICK s \in {"submitted", "denied"} :
            /\ ord'[o] = [ord[o] EXCEPT !.st = s]
            /\ exits' = exits \/ exits' = [exits EXCEPT ![o] = AllLegs(s)]
      BY <2>1, SubmitTurn
    <2>3. ord[o] \in Records
      BY DEF RecordsOK, Ids
    <2>4. ord'[o].st = s
      BY <2>2, <2>3 DEF Records
    <2>5. CASE exits' = [exits EXCEPT ![o] = AllLegs(s)]
      <3>1. exits' \in [Mine -> ExitStates] /\ exits'[o] = AllLegs(s)
            /\ \A p \in Mine : p # o => exits'[p] = exits[p]
        BY <1>0, <1>1, <2>5
      <3> QED BY <1>0, <1>2, <2>4, <3>1
    <2> QED BY <1>3, <2>2, <2>5
  <1>5. ASSUME NEW outcome, CommandEnds(outcome), exits' # exits
        PROVE  /\ exits' \in [Mine -> ExitStates]
               /\ \A o \in Mine : exits'[o] \notin {AllLegs("none"), AllLegs("submitted")} =>
                                    ord'[o].st \in {"denied", "rejected"}
    <2> DEFINE o == cmd.o
    <2>1. Rejects(outcome) /\ exits' = [exits EXCEPT ![o] = AllLegs("rejected")]
      BY <1>5 DEF CommandEnds
    <2>2. cmd.k = "place" /\ o \in Mine /\ ord[o].st \notin {"init", "denied"}
      BY <2>1 DEF Rejects, CallsOK
    <2>3. o \in Ids /\ ord \in [Ids -> Records] /\ ord[o] \in Records /\ Fits(ord[o], o)
      BY <2>2 DEF RecordsOK, Ids
    <2>4. hist[o] \in {<<>>, <<"rejected">>}
      BY <1>5, <2>1, <2>2 DEF CommandEnds, Outcomes, Refusable, Rejects
    <2>5. ~Taken(o)
      BY <2>4 DEF Taken
    <2>6. ord[o].st \in Working \/ ord[o].st = "rejected"
      BY <2>2, <2>3, <2>5 DEF Fits, Records, Taking, Statuses, Working, Closed, Terminal
    <2>7. ord'[o].st = "rejected"
      <3>1. CASE ord[o].st \in Working
        <4>1. ord' = [ord EXCEPT ![o] = [ord[o] EXCEPT !.st = "rejected"]]
          BY <1>5, <2>1, <3>1 DEF CommandEnds
        <4> QED BY <2>3, <4>1 DEF Records
      <3>2. CASE ord[o].st \notin Working
        <4>1. ord' = ord
          BY <1>5, <3>2 DEF CommandEnds
        <4> QED BY <2>6, <3>2, <4>1
      <3> QED BY <3>1, <3>2
    <2>8. exits' \in [Mine -> ExitStates] /\ \A p \in Mine : p # o => exits'[p] = exits[p]
      BY <1>0, <1>1, <2>1, <2>2
    <2> QED BY <1>0, <1>2, <2>2, <2>7, <2>8
  <1> QED BY <1>3, <1>4, <1>5, ExitsTurn

-----------------------------------------------------------------------------
\* The invariant, and what it gives

LEMMA OrdersInvInit ==
  ASSUME Init PROVE OrdersInv
  <1> USE DEF Init
  <1>0. \A i \in Ids : i \in Mine <=> i \notin Others
    BY OrdersAssumption DEF Ids
  <1>1. hist = [i \in Ids |-> <<>>] /\ \A i \in Ids : hist[i] = <<>>
    OBVIOUS
  <1>2. \A i \in Ids : Len(hist[i]) = 0 /\ ~Taken(i) /\ hist[i] \in Seq(EventKinds)
    BY <1>1 DEF Taken
  <1>3. HistOK
    BY <1>1, <1>2 DEF HistOK
  <1>4. RecordsOK
    <2>1. ASSUME NEW i \in Ids PROVE ord[i] \in Records /\ Fits(ord[i], i)
      <3>1. ord[i].st = (IF i \in Mine THEN "init" ELSE "none") /\ ord[i].bound = FALSE
        OBVIOUS
      <3>2. ord[i] \in Records
        BY DEF Records
      <3> QED BY <1>0, <1>2, <3>1, <3>2 DEF Fits, Working, Taking, Statuses
    <2>2. ord = [i \in Ids |-> ord[i]]
      OBVIOUS
    <2> QED BY <2>1, <2>2 DEF RecordsOK
  <1>5. RowsOK
    BY <1>2 DEF RowsOK, Nothing
  <1>6. CallsOK
    BY DEF CallsOK, NoQuery
  <1>7. ExitsOK
    <2>1. exits = [o \in Mine |-> AllLegs("none")]
      OBVIOUS
    <2>2. AllLegs("none") \in {AllLegs(st) : st \in {"none", "submitted", "denied", "rejected"}}
      OBVIOUS
    <2> QED BY <2>1, <2>2 DEF ExitsOK
  <1> QED BY <1>3, <1>4, <1>5, <1>6, <1>7 DEF OrdersInv

(* The kinds of steps, with the venue's history changed by the venue alone. *)
LEMMA StepKinds ==
  ASSUME Next, OrdersInv
  PROVE  (VenueStep \/ SubmitStep \/ AllGood) /\ (VenueStep \/ hist' = hist)
  <1>1. VenueStep \/ SubmitStep \/ AllGood
    BY RecordSteps DEF OrdersInv
  <1>2. SubmitStep => hist' = hist
    BY SubmitTurn DEF SubmitStep, OrdersInv
  <1> QED BY <1>1, <1>2 DEF AllGood

(* OrdersInv is inductive. *)
LEMMA OrdersInvKept ==
  ASSUME OrdersInv, [Next]_vars PROVE OrdersInv'
  <1>1. CASE Next
    <2>1. (VenueStep \/ SubmitStep \/ AllGood) /\ (VenueStep \/ hist' = hist)
      BY <1>1, StepKinds
    <2> QED BY <1>1, <2>1, HistKept, RecordsKept, RowsKept, CallsKept, ExitsKept DEF OrdersInv
  <1>2. CASE UNCHANGED vars
    <2>1. HistOK'
      BY <1>2, HistKept DEF OrdersInv, vars
    <2>2. RecordsOK'
      BY <1>2, NoneGood, RecordsKept DEF OrdersInv, vars
    <2>3. RowsOK'
      BY <1>2 DEF OrdersInv, RowsOK, vars
    <2>4. CallsOK'
      BY <1>2 DEF OrdersInv, CallsOK, vars
    <2>5. ExitsOK'
      BY <1>2 DEF OrdersInv, ExitsOK, AllLegs, vars
    <2> QED BY <2>1, <2>2, <2>3, <2>4, <2>5 DEF OrdersInv
  <1> QED BY <1>1, <1>2

\* Records, notifications, calls and exits fit the venue's histories, always.
THEOREM RecordsFitTheVenue == Spec => []OrdersInv
  <1>1. Init => OrdersInv
    BY OrdersInvInit
  <1>2. OrdersInv /\ [Next]_vars => OrdersInv'
    BY OrdersInvKept
  <1> QED BY <1>1, <1>2, PTL DEF Spec

\* "Both legs or nothing": a bracket whose entry is at the venue has both its exits
\* there, for any outcome of its command and any delay of the venue and its stream.
THEOREM BracketsAreWhole == Spec => []BracketIsWhole
  <1>1. OrdersInv => BracketIsWhole
    <2> SUFFICES ASSUME OrdersInv, NEW o \in Mine, hist[o] \notin {<<>>, <<"rejected">>},
                        exits[o] \notin {AllLegs("none"), AllLegs("submitted")}
                 PROVE  FALSE
      BY DEF BracketIsWhole
    <2>1. ord[o].st \in {"denied", "rejected"} /\ o \in Ids
      BY DEF OrdersInv, ExitsOK, Ids
    <2>2. Fits(ord[o], o)
      BY <2>1 DEF OrdersInv, RecordsOK
    <2>3. hist[o] \in Seq(EventKinds) /\ Len(hist[o]) \in Nat /\ hist[o] # <<>>
      BY <2>1 DEF OrdersInv, HistOK
    <2>4. Len(hist[o]) > 0
      BY <2>3
    <2>5. ~Taken(o)
      BY <2>1, <2>2, <2>4 DEF Fits
    <2>6. \A n \in 1..Len(hist[o]) : n = 1 /\ hist[o][n] = "rejected"
      BY <2>1, <2>3, <2>4, <2>5 DEF OrdersInv, HistOK, Taken
    <2>7. Len(hist[o]) = 1 /\ hist[o][1] = "rejected"
      <3>1. Len(hist[o]) \in 1..Len(hist[o]) /\ 1 \in 1..Len(hist[o])
        BY <2>3, <2>4
      <3> QED BY <2>6, <3>1
    <2>8. hist[o] = <<"rejected">>
      BY <2>3, <2>7
    <2> QED BY <2>8
  <1> QED BY <1>1, RecordsFitTheVenue, PTL

-----------------------------------------------------------------------------
\* Drains

\* A row that passes row_stale_reason says of a closed order that it is over: its venue
\* id is known, so that the rules apply, or the venue refused it and every row says so.
LEMMA FreshRowOfClosed ==
  ASSUME OrdersInv, NEW i \in Ids, NEW n \in 1..Len(hist[i]), NEW authoritative \in BOOLEAN,
         ord[i].st \in Closed, ~row_stale_reason(i, n, authoritative)
  PROVE  order_status_from_fields(i, n) \in Terminal
  <1>1. Fits(ord[i], i) /\ ord[i] \in Records /\ HistOK
    BY DEF OrdersInv, RecordsOK
  <1>2. Len(hist[i]) > 0 /\ (i \in Mine \/ i \in Others)
    BY <1>1 DEF HistOK, Ids
  <1>3. CASE ord[i].bound
    BY <1>3 DEF row_stale_reason, _drain_client_order_id
  <1>4. CASE ~ord[i].bound
    <2>1. ord[i].st = "rejected"
      BY <1>1, <1>2, <1>4 DEF Fits, Taking, Statuses, Closed, Terminal
    <2>2. ~Taken(i)
      BY <1>1, <2>1 DEF Fits
    <2> QED BY <1>1, <2>2, StatusOfRow DEF Terminal
  <1> QED BY <1>3, <1>4

(* No step tells the engine less of an order than it knew. *)
LEMMA DrainsJudged ==
  ASSUME OrdersInv, Next PROVE bad' = {}
  <1>0. HistOK
    BY DEF OrdersInv
  <1>1. ASSUME NEW cut \in Drains, NEW authoritative \in BOOLEAN,
               NEW is \in SUBSET Fresh(cut, authoritative)
        PROVE  ~Reopens(RowsOf(cut, is)) /\ (authoritative => ~Regresses(RowsOf(cut, is)))
    <2>1. ASSUME NEW i \in is
          PROVE  /\ i \in Ids /\ cut[i] \in 1..Len(hist[i])
                 /\ ~row_stale_reason(i, cut[i], authoritative)
      BY <1>0, DrainRow DEF Fresh, latest_drain_rows
    <2>2. ASSUME NEW i \in is, ord[i].st \in Closed
          PROVE  order_status_from_fields(i, cut[i]) \in Terminal
      BY <2>1, <2>2, FreshRowOfClosed
    <2>3. ASSUME NEW i \in is, ord[i].st \in Working, authoritative
          PROVE  ~(cut[i] < ord[i].last)
      <3>1. ~(ord[i].last > cut[i])
        BY <2>1, <2>3 DEF row_stale_reason, _drain_client_order_id, _resolve_client_order_id
      <3>2. ord[i].last \in Nat /\ cut[i] \in Nat
        BY <1>0, <2>1, DrainRow DEF OrdersInv, RecordsOK, Records
      <3> QED BY <3>1, <3>2
    <2> QED BY <2>2, <2>3 DEF Reopens, Regresses, RowsOf
  <1>2. CASE Venue
    BY <1>2 DEF Venue, VenueEvent, VenueRepeats, Break
  <1>3. CASE Commands
    BY <1>3 DEF Commands, _submit_order, _submit_order_list, _modify_order, _cancel_order,
                CommandEnds
  <1>4. CASE Intake
    BY <1>4 DEF Intake, handle_order_notification, handle_untracked_notification
  <1>5. ASSUME NEW cut \in Drains, NEW good, NEW whole, apply_drain_rows(cut, good, whole)
        PROVE  bad' = {}
    BY <1>1, <1>5 DEF apply_drain_rows, Judge
  <1>6. ASSUME NEW cut \in Drains, NEW good \in BOOLEAN, _resolve_inflight_by_tag(cut, good)
        PROVE  bad' = {}
    <2>1. CASE ~MovedMeanwhile(query.o)
      <3>1. ~Reopens({<<query.o, cut[query.o]>>})
        BY <2>1 DEF Reopens, MovedMeanwhile
      <3> QED BY <1>6, <3>1 DEF _resolve_inflight_by_tag, Judge
    <2>2. CASE MovedMeanwhile(query.o)
      BY <1>6, <2>2 DEF _resolve_inflight_by_tag
    <2> QED BY <2>1, <2>2
  <1>7. ASSUME NEW cut \in Drains, NEW openOnly \in BOOLEAN,
               generate_order_status_reports(cut, openOnly)
        PROVE  bad' = {}
    <2>1. ReportsOf(cut, openOnly) \in SUBSET Fresh(cut, FALSE)
      BY DEF ReportsOf
    <2>2. ~Reopens(RowsOf(cut, ReportsOf(cut, openOnly)))
      BY <1>1, <2>1
    <2> QED BY <1>7, <2>2 DEF generate_order_status_reports, Judge
  <1>8. ASSUME NEW cut \in Drains, NEW rows,
               generate_fill_reports(cut, rows) \/ MassStatusEnds(cut, rows)
        PROVE  bad' = {}
    BY <1>8 DEF generate_fill_reports, MassStatusEnds
  <1>9. ASSUME NEW cut \in Drains, generate_mass_status(cut) PROVE bad' = {}
    BY <1>9 DEF generate_mass_status
  <1>10. ASSUME NEW o \in Mine, generate_order_status_report(o) PROVE bad' = {}
    BY <1>10 DEF generate_order_status_report
  <1>11. CASE Recon
    BY <1>5, <1>6, <1>7, <1>8, <1>9, <1>10, <1>11 DEF Recon
  <1> QED BY <1>2, <1>3, <1>4, <1>11 DEF Next

\* No drain reopens an order that is closed, and the one at the barrier takes no open
\* order back behind its last live event, whatever it was read from and however late.
THEOREM DrainsNeverRegress == Spec => []DrainNeverRegresses
  <1>1. Init => DrainNeverRegresses
    BY DEF Init, DrainNeverRegresses
  <1>2. OrdersInv /\ DrainNeverRegresses /\ [Next]_vars => DrainNeverRegresses'
    BY DrainsJudged DEF DrainNeverRegresses, vars
  <1> QED BY <1>1, <1>2, RecordsFitTheVenue, PTL DEF Spec

-----------------------------------------------------------------------------
\* The bounded stores

LEMMA RangeSeq ==
  ASSUME NEW S, NEW s \in Seq(S), NEW x
  PROVE  (x \in Range(s) <=> \E p \in 1..Len(s) : s[p] = x) /\ (x \in Range(s) => x \in S)
  BY DEF Range

\* Without one copy of a key, everything else is still there.
LEMMA WithoutKeeps ==
  ASSUME NEW S, NEW s \in Seq(S), NEW k \in S
  PROVE  /\ Without(s, k) \in Seq(S)
         /\ \A x : x \in Range(s) => x = k \/ x \in Range(Without(s, k))
         /\ \A x : x \in Range(Without(s, k)) => x \in Range(s)
  <1>1. CASE k \notin Range(s)
    BY <1>1 DEF Without
  <1>2. CASE k \in Range(s)
    <2> DEFINE p == CHOOSE i \in DOMAIN s : s[i] = k
               a == SubSeq(s, 1, p - 1)
               b == SubSeq(s, p + 1, Len(s))
    <2>1. DOMAIN s = 1..Len(s) /\ Len(s) \in Nat /\ \A i \in 1..Len(s) : s[i] \in S
      OBVIOUS
    <2>2. \E i \in DOMAIN s : s[i] = k
      BY <1>2 DEF Range
    <2>3. p \in 1..Len(s) /\ s[p] = k
      BY <2>1, <2>2
    <2>4. Without(s, k) = a \o b
      BY <1>2 DEF Without, RemoveAt
    <2> HIDE DEF p
    <2>5. a \in Seq(S) /\ Len(a) = p - 1 /\ \A i \in 1..(p - 1) : a[i] = s[i]
      <3>1. \A i \in 1..(p - 1) : s[i] \in S
        BY <2>1, <2>3
      <3>2. /\ a \in Seq(S) /\ Len(a) = IF 1 <= p - 1 THEN (p - 1) - 1 + 1 ELSE 0
            /\ \A i \in 1..((p - 1) - 1 + 1) : a[i] = s[1 + i - 1]
        BY <2>1, <2>3, <3>1, SubSeqProperties
      <3> HIDE DEF a
      <3> QED BY <2>1, <2>3, <3>2
    <2>6. b \in Seq(S) /\ Len(b) = Len(s) - p /\ \A i \in 1..(Len(s) - p) : b[i] = s[p + i]
      <3>1. \A i \in (p + 1)..Len(s) : s[i] \in S
        BY <2>1, <2>3
      <3>2. /\ b \in Seq(S) /\ Len(b) = IF p + 1 <= Len(s) THEN Len(s) - (p + 1) + 1 ELSE 0
            /\ \A i \in 1..(Len(s) - (p + 1) + 1) : b[i] = s[(p + 1) + i - 1]
        BY <2>1, <2>3, <3>1, SubSeqProperties
      <3> HIDE DEF b
      <3>3. Len(b) = Len(s) - p
        <4>1. Len(b) = IF p + 1 <= Len(s) THEN Len(s) - (p + 1) + 1 ELSE 0
          BY <3>2
        <4>2. p \in Nat /\ p <= Len(s) /\ Len(s) \in Nat
          BY <2>1, <2>3
        <4> QED BY <4>1, <4>2
      <3>4. ASSUME NEW i \in 1..(Len(s) - p) PROVE b[i] = s[p + i]
        <4>1. i \in 1..(Len(s) - (p + 1) + 1) /\ (p + 1) + i - 1 = p + i
          BY <2>1, <2>3
        <4>2. b[i] = s[(p + 1) + i - 1]
          BY <3>2, <4>1
        <4> QED BY <4>1, <4>2
      <3> QED BY <3>2, <3>3, <3>4
    <2> HIDE DEF a, b
    <2> DEFINE t == a \o b
    <2>7. /\ t \in Seq(S) /\ Len(t) = Len(a) + Len(b)
          /\ \A i \in 1..(Len(a) + Len(b)) : t[i] = IF i <= Len(a) THEN a[i] ELSE b[i - Len(a)]
      BY <2>5, <2>6, ConcatProperties
    <2> HIDE DEF t
    <2>8. Len(t) = Len(s) - 1 /\ \A i \in 1..(Len(s) - 1) : t[i] = IF i < p THEN s[i] ELSE s[i + 1]
      <3>1. Len(t) = Len(s) - 1
        BY <2>1, <2>3, <2>5, <2>6, <2>7
      <3>2. ASSUME NEW i \in 1..(Len(s) - 1) PROVE t[i] = IF i < p THEN s[i] ELSE s[i + 1]
        <4>1. CASE i < p
          <5>1. i <= Len(a) /\ i \in 1..(p - 1) /\ i \in 1..(Len(a) + Len(b))
            BY <2>1, <2>3, <2>5, <2>6, <4>1
          <5> QED BY <2>5, <2>7, <4>1, <5>1
        <4>2. CASE ~(i < p)
          <5>1. ~(i <= Len(a)) /\ i - Len(a) \in 1..(Len(s) - p) /\ i \in 1..(Len(a) + Len(b))
                /\ p + (i - Len(a)) = i + 1
            BY <2>1, <2>3, <2>5, <2>6, <4>2
          <5>2. b[i - Len(a)] = s[i + 1]
            BY <2>6, <5>1
          <5> QED BY <2>7, <4>2, <5>1, <5>2
        <4> QED BY <4>1, <4>2
      <3> QED BY <3>1, <3>2
    <2>9. ASSUME NEW x, x \in Range(s) PROVE x = k \/ x \in Range(t)
      <3>1. PICK i \in 1..Len(s) : s[i] = x
        BY <2>9, RangeSeq
      <3>2. CASE i = p
        BY <2>3, <3>1, <3>2
      <3>3. CASE i < p
        <4>1. i \in 1..Len(t) /\ t[i] = x
          BY <2>1, <2>3, <2>8, <3>1, <3>3
        <4> QED BY <2>7, <4>1, RangeSeq
      <3>4. CASE i > p
        <4>1. i - 1 \in 1..(Len(s) - 1) /\ ~(i - 1 < p) /\ (i - 1) + 1 = i
          BY <2>1, <2>3, <3>4
        <4>2. i - 1 \in 1..Len(t) /\ t[i - 1] = x
          BY <2>8, <3>1, <4>1
        <4> QED BY <2>7, <4>2, RangeSeq
      <3> QED BY <2>3, <3>2, <3>3, <3>4
    <2>10. ASSUME NEW x, x \in Range(t) PROVE x \in Range(s)
      <3>1. PICK i \in 1..Len(t) : t[i] = x
        BY <2>7, <2>10, RangeSeq
      <3>2. i \in 1..Len(s) /\ i + 1 \in 1..Len(s) /\ (x = s[i] \/ x = s[i + 1])
        BY <2>1, <2>8, <3>1
      <3> QED BY <3>2, RangeSeq
    <2> QED BY <2>4, <2>7, <2>9, <2>10 DEF t
  <1> QED BY <1>1, <1>2

(* Appending adds one element to the range. *)
LEMMA AppendRange ==
  ASSUME NEW S, NEW s \in Seq(S), NEW k \in S
  PROVE  /\ Append(s, k) \in Seq(S) /\ Len(Append(s, k)) = Len(s) + 1
         /\ \A x : x \in Range(Append(s, k)) <=> x \in Range(s) \/ x = k
  <1> DEFINE t == Append(s, k)
  <1>1. /\ t \in Seq(S) /\ Len(t) = Len(s) + 1 /\ Len(s) \in Nat
        /\ \A i \in 1..Len(s) : t[i] = s[i]
        /\ t[Len(s) + 1] = k
    OBVIOUS
  <1> HIDE DEF t
  <1>2. ASSUME NEW x PROVE x \in Range(t) <=> x \in Range(s) \/ x = k
    <2>1. \A i \in 1..Len(t) : i \in 1..Len(s) \/ i = Len(s) + 1
      BY <1>1
    <2>2. \A i \in 1..Len(s) : i \in 1..Len(t)
      BY <1>1
    <2>3. Len(s) + 1 \in 1..Len(t)
      BY <1>1
    <2> QED BY <1>1, <2>1, <2>2, <2>3, RangeSeq
  <1> QED BY <1>1, <1>2 DEF t

\* A hit moves a key and loses nothing.
LEMMA TouchKeeps ==
  ASSUME NEW S, NEW s \in Seq(S), NEW k \in S
  PROVE  Touch(s, k) \in Seq(S) /\ Range(Touch(s, k)) = Range(s)
  <1>1. CASE k \notin Range(s)
    BY <1>1 DEF Touch
  <1>2. CASE k \in Range(s)
    <2> DEFINE w == Without(s, k)
    <2>1. /\ w \in Seq(S) /\ \A x : x \in Range(s) => x = k \/ x \in Range(w)
          /\ \A x : x \in Range(w) => x \in Range(s)
      BY WithoutKeeps
    <2>2. Touch(s, k) = Append(w, k)
      BY <1>2 DEF Touch
    <2> HIDE DEF w
    <2>3. Append(w, k) \in Seq(S) /\ \A x : x \in Range(Append(w, k)) <=> x \in Range(w) \/ x = k
      BY <2>1, AppendRange
    <2>4. \A x : x \in Range(Append(w, k)) <=> x \in Range(s)
      BY <1>2, <2>1, <2>3
    <2> QED BY <2>2, <2>3, <2>4
  <1> QED BY <1>1, <1>2

\* An insert adds its key and nothing else.
LEMMA InsertAdds ==
  ASSUME NEW S, NEW s \in Seq(S), NEW k \in S
  PROVE  /\ Insert(s, k) \in Seq(S) /\ k \in Range(Insert(s, k))
         /\ \A x : x \in Range(Insert(s, k)) => x \in Range(s) \/ x = k
  <1> DEFINE w == Without(s, k)
             t == Append(w, k)
  <1>1. w \in Seq(S) /\ \A x : x \in Range(w) => x \in Range(s)
    BY WithoutKeeps
  <1>2. Insert(s, k) = IF Len(t) > MaxSeen THEN Tail(t) ELSE t
    BY DEF Insert
  <1> HIDE DEF w
  <1>3. /\ t \in Seq(S) /\ Len(t) = Len(w) + 1 /\ Len(w) \in Nat /\ t[Len(t)] = k
        /\ \A x : x \in Range(t) => x \in Range(w) \/ x = k
    BY <1>1, AppendRange
  <1>4. MaxSeen \in Nat /\ MaxSeen >= 1
    BY OrdersAssumption
  <1> HIDE DEF t
  <1>5. k \in Range(t)
    <2>1. Len(t) \in 1..Len(t)
      BY <1>3
    <2> QED BY <1>3, <2>1, RangeSeq
  <1>6. CASE ~(Len(t) > MaxSeen)
    BY <1>1, <1>2, <1>3, <1>5, <1>6
  <1>7. CASE Len(t) > MaxSeen
    <2> DEFINE u == Tail(t)
    <2>1. u \in Seq(S) /\ Len(u) = Len(t) - 1 /\ \A i \in 1..Len(u) : u[i] = t[i + 1]
      <3>1. t # <<>>
        BY <1>3
      <3> QED BY <1>3, <3>1
    <2> HIDE DEF u
    <2>2. Len(u) \in 1..Len(u) /\ u[Len(u)] = k
      BY <1>3, <1>4, <1>7, <2>1
    <2>3. ASSUME NEW x, x \in Range(u) PROVE x \in Range(t)
      <3>1. PICK i \in 1..Len(u) : u[i] = x
        BY <2>1, <2>3, RangeSeq
      <3>2. i + 1 \in 1..Len(t) /\ t[i + 1] = x
        BY <1>3, <2>1, <3>1
      <3> QED BY <1>3, <3>2, RangeSeq
    <2>4. k \in Range(u)
      BY <2>1, <2>2, RangeSeq
    <2>5. Insert(s, k) = u
      BY <1>2, <1>7 DEF u
    <2> QED BY <1>1, <1>3, <2>1, <2>3, <2>4, <2>5
  <1> QED BY <1>6, <1>7

\* The newest keys of a sequence are keys of it.
LEMMA NewestKeeps ==
  ASSUME NEW S, NEW s \in Seq(S)
  PROVE  Newest(s) \in Seq(S) /\ \A x : x \in Range(Newest(s)) => x \in Range(s)
  <1> DEFINE m == Later(Len(s) - MaxSeen, 0) + 1
             t == SubSeq(s, m, Len(s))
  <1>1. MaxSeen \in Nat /\ Len(s) \in Nat /\ \A i \in 1..Len(s) : s[i] \in S
    BY OrdersAssumption
  <1>2. m \in Nat /\ m >= 1
    BY <1>1 DEF Later
  <1>3. Newest(s) = t
    BY DEF Newest
  <1> HIDE DEF m
  <1>4. \A i \in m..Len(s) : s[i] \in S
    BY <1>1, <1>2
  <1>5. /\ t \in Seq(S) /\ Len(t) = IF m <= Len(s) THEN Len(s) - m + 1 ELSE 0
        /\ \A i \in 1..(Len(s) - m + 1) : t[i] = s[m + i - 1]
    BY <1>1, <1>2, <1>4, SubSeqProperties
  <1> HIDE DEF t
  <1>6. ASSUME NEW x, x \in Range(t) PROVE x \in Range(s)
    <2>1. PICK i \in 1..Len(t) : t[i] = x
      BY <1>5, <1>6, RangeSeq
    <2>2. i \in 1..(Len(s) - m + 1) /\ m + i - 1 \in 1..Len(s)
      BY <1>1, <1>2, <1>5, <2>1
    <2>3. s[m + i - 1] = x
      BY <1>5, <2>1, <2>2
    <2> QED BY <2>2, <2>3, RangeSeq
  <1> QED BY <1>3, <1>5, <1>6

\* A finite set as a sequence, appended.
LEMMA SetAppended ==
  ASSUME NEW S, NEW s \in Seq(S), NEW R \in SUBSET S, IsFiniteSet(R)
  PROVE  /\ s \o SetToSeq(R) \in Seq(S)
         /\ \A x : x \in Range(s \o SetToSeq(R)) => x \in Range(s) \/ x \in R
  <1> DEFINE q == SetToSeq(R)
  <1>1. Cardinality(R) \in Nat /\ ExistsBijection(1..Cardinality(R), R)
    BY FS_CardinalityType
  <1>2. \E f \in [1..Cardinality(R) -> R] : IsInjective(f)
    BY <1>1 DEF ExistsBijection, Bijection, Injection, Surjection
  <1>3. q \in [1..Cardinality(R) -> R]
    BY <1>2 DEF SetToSeq
  <1> HIDE DEF q
  <1>4. q \in Seq(S) /\ Len(q) = Cardinality(R) /\ \A i \in 1..Len(q) : q[i] \in R
    BY <1>1, <1>3
  <1> DEFINE t == s \o q
  <1>5. /\ t \in Seq(S) /\ Len(t) = Len(s) + Len(q) /\ Len(s) \in Nat /\ Len(q) \in Nat
        /\ \A i \in 1..(Len(s) + Len(q)) : t[i] = IF i <= Len(s) THEN s[i] ELSE q[i - Len(s)]
    <2>1. Len(s) \in Nat /\ Len(q) \in Nat
      BY <1>4
    <2>2. /\ t \in Seq(S) /\ Len(t) = Len(s) + Len(q)
          /\ \A i \in 1..(Len(s) + Len(q)) : t[i] = IF i <= Len(s) THEN s[i] ELSE q[i - Len(s)]
      BY <1>4, ConcatProperties
    <2> QED BY <2>1, <2>2
  <1> HIDE DEF t
  <1>6. ASSUME NEW x, x \in Range(t) PROVE x \in Range(s) \/ x \in R
    <2>1. PICK i \in 1..Len(t) : t[i] = x
      BY <1>5, <1>6, RangeSeq
    <2>2. CASE i <= Len(s)
      <3>1. i \in 1..Len(s) /\ s[i] = x
        BY <1>5, <2>1, <2>2
      <3> QED BY <3>1, RangeSeq
    <2>3. CASE ~(i <= Len(s))
      <3>1. i - Len(s) \in 1..Len(q) /\ q[i - Len(s)] = x
        BY <1>5, <2>1, <2>3
      <3> QED BY <1>4, <3>1
    <2> QED BY <2>2, <2>3
  <1> QED BY <1>5, <1>6 DEF t, q

-----------------------------------------------------------------------------
\* Fills and their keys

Keys == Ids \X (1..MaxHist)

\* A fill the engine was told of happened, and its key is in the store or was dropped.
ToldOK ==
  /\ told \in [Ids -> [1..MaxHist -> Nat]] /\ seen \in Seq(Keys)
  /\ \A i \in Ids, n \in 1..MaxHist :
       told[i][n] > 0 => /\ n <= Len(hist[i]) /\ hist[i][n] = "filled"
                         /\ <<i, n>> \in Range(seen) \cup dropped

FillsInv == ToldOK /\ FillOnce /\ KeyIsEarned

\* One fill, given to the engine once; or the fills of a drain, given, or consumed by
\* mass status.
OneFill(i, n) == /\ n <= Len(hist[i]) /\ hist[i][n] = "filled" /\ <<i, n>> \notin Range(seen)
                 /\ Tell(i, n) /\ Mark(i, n) /\ hist' = hist /\ spent' = spent
TellAll(rows) == told' = [i \in Ids |-> [n \in 1..MaxHist |->
                            IF <<i, n>> \in rows THEN Often(told[i][n]) ELSE told[i][n]]]
DrainFills(cut, rows) == /\ MarkAll(rows) /\ hist' = hist
                         /\ \/ TellAll(rows) /\ spent' = spent
                            \/ told' = told /\ spent' = spent \cup rows
Hit == /\ \E k \in Range(seen) : seen' = Touch(seen, k)
       /\ UNCHANGED <<told, dropped, spent, hist>>
Quiet == UNCHANGED <<seen, told, dropped, spent>>

\* A live notification: of an order the engine has open, or another.
LEMMA NotificationFills ==
  ASSUME HistOK, RowsOK, NEW i \in Ids, NEW n \in 1..MaxHist, NEW priced \in BOOLEAN,
         \/ handle_order_notification(i, n, priced)
         \/ \E published, adopts \in BOOLEAN :
              handle_untracked_notification(i, n, priced, published, adopts)
  PROVE  Quiet \/ Hit \/ OneFill(i, n)
  <1>1. n \in 1..Len(hist[i]) /\ Len(hist[i]) \in Nat /\ hist' = hist /\ spent' = spent
    BY TakenRow DEF handle_order_notification, handle_untracked_notification, queryVars, HistOK
  <1>2. n <= Len(hist[i])
    BY <1>1
  <1>3. CASE handle_order_notification(i, n, priced)
    <2>1. CASE Kind(i, n) # "filled"
      BY <1>1, <1>3, <2>1 DEF handle_order_notification, fillVars, Quiet
    <2>2. CASE Kind(i, n) = "filled" /\ <<i, n>> \in Range(seen)
      <3>1. seen' = Touch(seen, <<i, n>>) /\ UNCHANGED <<told, dropped>>
        BY <1>3, <2>2 DEF handle_order_notification, handle_tracked_fill, fill_dedup_key
      <3> QED BY <1>1, <2>2, <3>1 DEF Hit
    <2>3. CASE Kind(i, n) = "filled" /\ <<i, n>> \notin Range(seen)
      <3>1. UNCHANGED <<seen, told, dropped>> \/ (Tell(i, n) /\ Mark(i, n))
        BY <1>3, <2>3 DEF handle_order_notification, handle_tracked_fill, fill_dedup_key
      <3> QED BY <1>1, <1>2, <2>3, <3>1 DEF Quiet, OneFill, Kind
    <2> QED BY <2>1, <2>2, <2>3
  <1>4. ASSUME NEW published \in BOOLEAN, NEW adopts \in BOOLEAN,
               handle_untracked_notification(i, n, priced, published, adopts)
        PROVE  Quiet \/ Hit \/ OneFill(i, n)
    <2>1. UNCHANGED fillVars \/ publish_untracked_fill(i, n, priced)
      BY <1>4 DEF handle_untracked_notification
    <2>2. CASE UNCHANGED fillVars
      BY <1>1, <2>2 DEF fillVars, Quiet
    <2>3. CASE publish_untracked_fill(i, n, priced)
      <3>1. CASE Kind(i, n) # "filled"
        BY <1>1, <2>3, <3>1 DEF publish_untracked_fill, fillVars, Quiet
      <3>2. CASE Kind(i, n) = "filled" /\ <<i, n>> \in Range(seen)
        <4>1. seen' = Touch(seen, <<i, n>>) /\ UNCHANGED <<told, dropped>>
          BY <2>3, <3>2 DEF publish_untracked_fill, fill_dedup_key
        <4> QED BY <1>1, <3>2, <4>1 DEF Hit
      <3>3. CASE Kind(i, n) = "filled" /\ <<i, n>> \notin Range(seen)
        <4>1. UNCHANGED <<seen, told, dropped>> \/ (Tell(i, n) /\ Mark(i, n))
          BY <2>3, <3>3 DEF publish_untracked_fill, fill_dedup_key, fillVars
        <4> QED BY <1>1, <1>2, <3>3, <4>1 DEF Quiet, OneFill, Kind
      <3> QED BY <3>1, <3>2, <3>3
    <2> QED BY <2>1, <2>2, <2>3
  <1> QED BY <1>3, <1>4

\* What a step does to fills and keys.
LEMMA FillSteps ==
  ASSUME Next, OrdersInv
  PROVE  \/ Quiet \/ Hit
         \/ \E i \in Ids, n \in 1..MaxHist : OneFill(i, n)
         \/ \E cut \in Drains : \E rows \in SUBSET NewFills(cut) : DrainFills(cut, rows)
  <1> USE DEF commandFrame, queryVars, fillVars, inflightFrame
  <1>1. CASE Venue
    BY <1>1 DEF Venue, VenueEvent, VenueRepeats, Break, Quiet
  <1>2. CASE Commands
    BY <1>2 DEF Commands, _submit_order, _submit_order_list, _modify_order, _cancel_order,
                CommandEnds, Quiet
  <1>3. CASE Intake
    <2>1. PICK i \in Ids, n \in 1..MaxHist, priced \in BOOLEAN :
            \/ handle_order_notification(i, n, priced)
            \/ \E published, adopts \in BOOLEAN :
                 handle_untracked_notification(i, n, priced, published, adopts)
      BY <1>3 DEF Intake
    <2> QED BY <2>1, NotificationFills DEF OrdersInv
  <1>4. ASSUME NEW cut \in Drains, NEW rows \in SUBSET NewFills(cut),
               generate_fill_reports(cut, rows) \/ MassStatusEnds(cut, rows)
        PROVE  DrainFills(cut, rows)
    BY <1>4 DEF generate_fill_reports, MassStatusEnds, DrainFills, TellAll
  <1>5. ASSUME NEW cut \in Drains, NEW good, NEW whole, apply_drain_rows(cut, good, whole)
        PROVE  Quiet
    BY <1>5 DEF apply_drain_rows, Quiet
  <1>6. ASSUME NEW cut \in Drains, NEW good, _resolve_inflight_by_tag(cut, good) PROVE Quiet
    BY <1>6 DEF _resolve_inflight_by_tag, Quiet
  <1>7. ASSUME NEW cut \in Drains, NEW openOnly, generate_order_status_reports(cut, openOnly)
        PROVE  Quiet
    BY <1>7 DEF generate_order_status_reports, Quiet
  <1>8. ASSUME NEW cut \in Drains, generate_mass_status(cut) PROVE Quiet
    BY <1>8 DEF generate_mass_status, Quiet
  <1>9. ASSUME NEW o \in Mine, generate_order_status_report(o) PROVE Quiet
    BY <1>9 DEF generate_order_status_report, Quiet
  <1>10. CASE Recon
    BY <1>4, <1>5, <1>6, <1>7, <1>8, <1>9, <1>10 DEF Recon
  <1> QED BY <1>1, <1>2, <1>3, <1>10 DEF Next

\* Fills `rows` whose keys the store did not hold are told, or spent: what is left to
\* show of a step once its effect on the store is known.
LEMMA FillsKept ==
  ASSUME FillsInv, NEW rows \in SUBSET Keys,
         \A r \in rows : r \notin Range(seen) /\ r[2] <= Len(hist[r[1]]) /\ hist[r[1]][r[2]] = "filled",
         \A i \in Ids : Len(hist[i]) \in Nat /\ Len(hist'[i]) \in Nat /\ Len(hist[i]) <= Len(hist'[i])
                        /\ \A n \in 1..Len(hist[i]) : hist'[i][n] = hist[i][n],
         seen' \in Seq(Keys), \A x : x \in Range(seen') => x \in Range(seen) \/ x \in rows,
         dropped \subseteq dropped',
         \A x : x \in Range(seen) \/ x \in rows => x \in Range(seen') \/ x \in dropped',
         \/ TellAll(rows) /\ spent' = spent
         \/ told' = told /\ spent' = spent \cup rows
  PROVE  FillsInv'
  <1>1. MaxHist \in Nat
    BY OrdersAssumption
  <1>2. ASSUME NEW i \in Ids, NEW n \in 1..MaxHist
        PROVE  /\ told[i][n] \in Nat /\ told'[i][n] \in Nat /\ told[i][n] <= told'[i][n]
               /\ told'[i][n] # told[i][n] => <<i, n>> \in rows
               /\ told'[i][n] <= told[i][n] + 1
               /\ TellAll(rows) /\ <<i, n>> \in rows => told'[i][n] > 0
    <2>1. told[i][n] \in Nat
      BY DEF FillsInv, ToldOK
    <2>2. CASE told' = told
      <3>1. TellAll(rows) /\ <<i, n>> \in rows => told'[i][n] = Often(told[i][n])
        BY DEF TellAll
      <3> QED BY <2>1, <2>2, <3>1 DEF Often
    <2>3. CASE TellAll(rows)
      <3>1. told'[i][n] = IF <<i, n>> \in rows THEN Often(told[i][n]) ELSE told[i][n]
        BY <2>3 DEF TellAll
      <3> QED BY <2>1, <3>1 DEF Often
    <2> QED BY <2>2, <2>3
  <1>3. told' \in [Ids -> [1..MaxHist -> Nat]]
    <2>1. told \in [Ids -> [1..MaxHist -> Nat]]
      BY DEF FillsInv, ToldOK
    <2>2. CASE TellAll(rows)
      <3>1. \A i \in Ids, n \in 1..MaxHist : Often(told[i][n]) \in Nat /\ told[i][n] \in Nat
        <4>1. \A t \in Nat : Often(t) \in Nat
          BY DEF Often
        <4>2. \A i \in Ids, n \in 1..MaxHist : told[i][n] \in Nat
          BY <1>2
        <4> QED BY <4>1, <4>2
      <3> QED BY <2>2, <3>1 DEF TellAll
    <2> QED BY <2>1, <2>2
  <1>4. ASSUME NEW i \in Ids, NEW n \in 1..MaxHist, told'[i][n] > 0
        PROVE  /\ n <= Len(hist'[i]) /\ hist'[i][n] = "filled"
               /\ <<i, n>> \in Range(seen') \cup dropped'
    <2>1. <<i, n>> \in Keys
      BY DEF Keys
    <2>2. /\ n <= Len(hist[i]) /\ hist[i][n] = "filled"
          /\ <<i, n>> \in Range(seen) \/ <<i, n>> \in rows \/ <<i, n>> \in dropped
      <3>1. CASE <<i, n>> \in rows
        BY <3>1
      <3>2. CASE <<i, n>> \notin rows
        <4>1. told[i][n] > 0
          BY <1>2, <1>4, <3>2
        <4> QED BY <4>1 DEF FillsInv, ToldOK
      <3> QED BY <3>1, <3>2
    <2>3. n \in 1..Len(hist[i])
      BY <1>1, <2>2
    <2>4. n <= Len(hist'[i])
      BY <1>1, <2>2
    <2> QED BY <2>2, <2>3, <2>4
  <1>5. ASSUME NEW i \in Ids, NEW n \in 1..MaxHist, told'[i][n] > 1 PROVE <<i, n>> \in dropped'
    <2>1. CASE told'[i][n] = told[i][n]
      BY <1>5, <2>1 DEF FillsInv, FillOnce
    <2>2. CASE told'[i][n] # told[i][n]
      <3>1. <<i, n>> \in rows /\ told[i][n] > 0
        BY <1>2, <1>5, <2>2
      <3>2. <<i, n>> \in Range(seen) \cup dropped
        BY <3>1 DEF FillsInv, ToldOK
      <3> QED BY <3>1, <3>2
    <2> QED BY <2>1, <2>2
  <1>6. ASSUME NEW f \in Range(seen') PROVE told'[f[1]][f[2]] > 0 \/ f \in spent'
    <2>1. f \in Keys
      BY RangeSeq
    <2>2. f[1] \in Ids /\ f[2] \in 1..MaxHist /\ f = <<f[1], f[2]>>
      BY <2>1 DEF Keys
    <2>3. CASE f \in Range(seen)
      <3>1. told[f[1]][f[2]] > 0 \/ f \in spent
        BY <2>3 DEF FillsInv, KeyIsEarned
      <3>2. told[f[1]][f[2]] > 0 => told'[f[1]][f[2]] > 0
        BY <1>2, <2>2
      <3> QED BY <3>1, <3>2
    <2>4. CASE f \in rows
      BY <1>2, <2>2, <2>4
    <2> QED BY <2>3, <2>4
  <1> QED BY <1>3, <1>4, <1>5, <1>6 DEF FillsInv, ToldOK, FillOnce, KeyIsEarned

(* A set of fill keys is finite. *)
LEMMA KeysFinite ==
  ASSUME NEW rows \in SUBSET Keys PROVE IsFiniteSet(rows)
  <1>1. IsFiniteSet(Ids) /\ MaxHist \in Int
    BY OrdersAssumption
  <1>2. IsFiniteSet(1..MaxHist)
    BY <1>1, FS_Interval
  <1>3. IsFiniteSet(Keys)
    BY <1>1, <1>2, FS_Product DEF Keys
  <1> QED BY <1>3, FS_Subset

(* FillsInv is inductive, given OrdersInv. *)
LEMMA FillsInvKept ==
  ASSUME OrdersInv, FillsInv, [Next]_vars PROVE FillsInv'
  <1>0. seen \in Seq(Keys) /\ HistOK
    BY DEF FillsInv, ToldOK, OrdersInv
  <1>1. \A i \in Ids : /\ Len(hist[i]) \in Nat /\ Len(hist'[i]) \in Nat
                       /\ Len(hist[i]) <= Len(hist'[i])
                       /\ \A n \in 1..Len(hist[i]) : hist'[i][n] = hist[i][n]
    BY <1>0, StepKinds, HistGrows DEF vars
  <1>2. ASSUME seen' \in Seq(Keys), Range(seen') = Range(seen),
               UNCHANGED <<told, dropped, spent>>
        PROVE  FillsInv'
    <2>1. spent' = spent \cup {} /\ told' = told
      BY <1>2
    <2> QED BY <1>1, <1>2, <2>1, FillsKept
  <1>3. CASE UNCHANGED vars \/ Quiet
    BY <1>0, <1>2, <1>3 DEF vars, Quiet
  <1>4. CASE Hit
    <2>1. PICK k \in Range(seen) : seen' = Touch(seen, k)
      BY <1>4 DEF Hit
    <2>2. k \in Keys
      BY <1>0, RangeSeq
    <2>3. seen' \in Seq(Keys) /\ Range(seen') = Range(seen)
      BY <1>0, <2>1, <2>2, TouchKeeps
    <2> QED BY <1>2, <1>4, <2>3 DEF Hit
  <1>5. ASSUME NEW i \in Ids, NEW n \in 1..MaxHist, OneFill(i, n) PROVE FillsInv'
    <2> DEFINE k == <<i, n>>
               rows == {k}
    <2>1. k \in Keys /\ rows \in SUBSET Keys
      BY DEF Keys
    <2>2. /\ seen' = Insert(seen, k)
          /\ dropped' = dropped \cup (Range(seen) \ Range(seen'))
      BY <1>5 DEF OneFill, Mark, fill_dedup_key
    <2>3. /\ seen' \in Seq(Keys) /\ k \in Range(seen')
          /\ \A x : x \in Range(seen') => x \in Range(seen) \/ x = k
      BY <1>0, <2>1, <2>2, InsertAdds
    <2>4. spent' = spent /\ k \notin Range(seen) /\ n <= Len(hist[i]) /\ hist[i][n] = "filled"
      BY <1>5 DEF OneFill
    <2>5. TellAll(rows)
      <3>1. told' = [told EXCEPT ![i][n] = Often(@)]
        BY <1>5 DEF OneFill, Tell
      <3>2. told \in [Ids -> [1..MaxHist -> Nat]]
        BY DEF FillsInv, ToldOK
      <3>3. \A j \in Ids, m \in 1..MaxHist : <<j, m>> \in rows <=> j = i /\ m = n
        OBVIOUS
      <3> HIDE DEF rows
      <3>4. told' = [told EXCEPT ![i] = [told[i] EXCEPT ![n] = Often(told[i][n])]]
        BY <3>1
      <3>5. told[i] = [m \in 1..MaxHist |-> told[i][m]]
        BY <3>2
      <3>6. ASSUME NEW j \in Ids
            PROVE  told'[j] = [m \in 1..MaxHist |->
                                 IF <<j, m>> \in rows THEN Often(told[j][m]) ELSE told[j][m]]
        <4>1. told[j] \in [1..MaxHist -> Nat]
          BY <3>2
        <4>2. CASE j = i
          BY <3>2, <3>3, <3>4, <4>1, <4>2
        <4>3. CASE j # i
          <5>1. told'[j] = told[j]
            BY <3>2, <3>4, <4>3
          <5>2. \A m \in 1..MaxHist : <<j, m>> \notin rows
            BY <3>3, <4>3
          <5> QED BY <4>1, <5>1, <5>2
        <4> QED BY <4>2, <4>3
      <3>7. told' = [j \in Ids |-> told'[j]]
        BY <3>2, <3>4
      <3> QED BY <3>6, <3>7 DEF TellAll
    <2>6. \A x : x \in Range(seen) \/ x \in rows => x \in Range(seen') \/ x \in dropped'
      BY <2>2, <2>3
    <2>7. \A r \in rows : r \notin Range(seen) /\ r[2] <= Len(hist[r[1]]) /\ hist[r[1]][r[2]] = "filled"
      BY <2>4
    <2>8. dropped \subseteq dropped' /\ \A x : x \in Range(seen') => x \in Range(seen) \/ x \in rows
      BY <2>2, <2>3
    <2> HIDE DEF rows
    <2> QED BY <1>1, <2>1, <2>3, <2>4, <2>5, <2>6, <2>7, <2>8, FillsKept
  <1>6. ASSUME NEW cut \in Drains, NEW rows \in SUBSET NewFills(cut), DrainFills(cut, rows)
        PROVE  FillsInv'
    <2>1. rows \in SUBSET Keys
      BY DEF NewFills, Keys
    <2>2. ASSUME NEW r \in rows
          PROVE  r \notin Range(seen) /\ r[2] <= Len(hist[r[1]]) /\ hist[r[1]][r[2]] = "filled"
      <3>1. r[1] \in Ids /\ r[2] \in 1..MaxHist /\ r = <<r[1], r[2]>> /\ MaxHist \in Nat
        BY <2>1, OrdersAssumption DEF Keys
      <3>2. r[2] <= cut[r[1]] /\ hist[r[1]][r[2]] = "filled" /\ r \notin Range(seen)
        BY <3>1 DEF NewFills, Kind, fill_dedup_key
      <3>3. cut[r[1]] \in Nat /\ cut[r[1]] <= Len(hist[r[1]]) /\ Len(hist[r[1]]) \in Nat
        BY <1>0, <1>1, <3>1, DrainRow
      <3> QED BY <3>1, <3>2, <3>3
    <2> DEFINE s == seen \o SetToSeq(rows)
    <2>3. /\ seen' = Newest(s)
          /\ dropped' = dropped \cup ((Range(seen) \cup rows) \ Range(seen'))
      BY <1>6 DEF DrainFills, MarkAll
    <2>4. s \in Seq(Keys) /\ \A x : x \in Range(s) => x \in Range(seen) \/ x \in rows
      BY <1>0, <2>1, KeysFinite, SetAppended
    <2> HIDE DEF s
    <2>5. seen' \in Seq(Keys) /\ \A x : x \in Range(seen') => x \in Range(seen) \/ x \in rows
      BY <2>3, <2>4, NewestKeeps
    <2>6. /\ dropped \subseteq dropped'
          /\ \A x : x \in Range(seen) \/ x \in rows => x \in Range(seen') \/ x \in dropped'
      BY <2>3
    <2>7. \/ TellAll(rows) /\ spent' = spent
          \/ told' = told /\ spent' = spent \cup rows
      BY <1>6 DEF DrainFills
    <2> QED BY <1>1, <2>1, <2>2, <2>5, <2>6, <2>7, FillsKept
  <1> QED BY <1>3, <1>4, <1>5, <1>6, FillSteps

(* FillsInv holds initially. *)
LEMMA FillsInvInit ==
  ASSUME Init PROVE FillsInv
  <1>1. /\ told = [i \in Ids |-> [n \in 1..MaxHist |-> 0]] /\ seen = <<>>
    BY DEF Init
  <1>2. \A i \in Ids, n \in 1..MaxHist : ~(told[i][n] > 0) /\ ~(told[i][n] > 1)
    BY <1>1
  <1>3. told \in [Ids -> [1..MaxHist -> Nat]] /\ seen \in Seq(Keys)
    BY <1>1
  <1>4. Range(seen) = {}
    BY <1>1 DEF Range
  <1> QED BY <1>2, <1>3, <1>4 DEF FillsInv, ToldOK, FillOnce, KeyIsEarned

\* Fills told happened, each once per stay of its key, and every key was paid for.
LEMMA FillsAlways == Spec => []FillsInv
  <1>1. Init => FillsInv
    BY FillsInvInit
  <1>2. OrdersInv /\ FillsInv /\ [Next]_vars => FillsInv'
    BY FillsInvKept
  <1> QED BY <1>1, <1>2, RecordsFitTheVenue, PTL DEF Spec

\* A fill is given to the engine a second time only after the bounded store dropped its
\* key, however live, replayed and reconciled copies of it interleave.
THEOREM EachFillOnce == Spec => []FillOnce
  BY FillsAlways, PTL DEF FillsInv

\* A key is in the store only when its fill was given to the engine, or mass status
\* consumed it: no copy of an unpublished fill is ever taken for a duplicate.
THEOREM KeysAreEarned == Spec => []KeyIsEarned
  BY FillsAlways, PTL DEF FillsInv

-----------------------------------------------------------------------------
\* Orders implements OrderLife

Made(o) == Filled(o, Len(hist[o]))

\* One order's step, read in the abstract state.
OwnSend(o)   == /\ LifeOf(o) = "new" /\ LifeOf(o)' \in {"flying", "denied"}
                /\ AtVenue(o)' = AtVenue(o) /\ Made(o)' = Made(o) /\ Given(o)' = Given(o)
OwnVenue(o)  == /\ \/ /\ LifeOf(o) = "flying" /\ AtVenue(o) = "absent" /\ Made(o)' = Made(o)
                      /\ AtVenue(o)' \in {"refused", "working"}
                   \/ /\ AtVenue(o) = "working" /\ Made(o)' = Made(o) + 1
                      /\ AtVenue(o)' \in {"working", "done"}
                   \/ AtVenue(o) = "working" /\ AtVenue(o)' = "done" /\ Made(o)' = Made(o)
                /\ LifeOf(o)' = LifeOf(o) /\ Given(o)' = Given(o)
OwnReject(o) == /\ LifeOf(o) = "flying" /\ AtVenue(o) \in {"absent", "refused"}
                /\ LifeOf(o)' = "rejected"
                /\ AtVenue(o)' = AtVenue(o) /\ Made(o)' = Made(o) /\ Given(o)' = Given(o)
OwnLearn(o)  == /\ LifeOf(o) \in {"flying", "open"} /\ AtVenue(o) \in {"working", "done"}
                /\ LifeOf(o)' \in {"open", "closed"}
                /\ AtVenue(o)' = AtVenue(o) /\ Made(o)' = Made(o) /\ Given(o)' = Given(o)
OwnTell(o)   == /\ Given(o)' \in (Given(o) + 1)..Made(o)
                /\ \/ LifeOf(o) = "closed" /\ LifeOf(o)' = LifeOf(o)
                   \/ LifeOf(o) \in {"flying", "open"} /\ LifeOf(o)' \in {"open", "closed"}
                /\ AtVenue(o)' = AtVenue(o) /\ Made(o)' = Made(o)
OwnRest(o)   == /\ LifeOf(o)' = LifeOf(o) /\ Given(o)' = Given(o)
                /\ AtVenue(o)' = AtVenue(o) /\ Made(o)' = Made(o)
OwnStep(o) == \/ OwnSend(o) \/ OwnVenue(o) \/ OwnReject(o) \/ OwnLearn(o) \/ OwnTell(o)
              \/ OwnRest(o)

(* If every own order takes a step of its life or none, the whole is a step of OrderLife. *)
LEMMA StepIsLifeStep ==
  ASSUME \A o \in Mine : OwnStep(o) PROVE Life!Next
  <1>1. ASSUME NEW o \in Mine PROVE Life!Step(o) \/ Life!Rest(o)
    <2>1. OwnStep(o)
      OBVIOUS
    <2> USE DEF Life!SameLife, Life!SameVenue, Life!SameFills, Made
    <2>2. CASE OwnSend(o)
      BY <2>2 DEF OwnSend, Life!Step, Life!Send
    <2>3. CASE OwnVenue(o)
      BY <2>3 DEF OwnVenue, Life!Step, Life!Venue
    <2>4. CASE OwnReject(o)
      BY <2>4 DEF OwnReject, Life!Step, Life!Reject
    <2>5. CASE OwnLearn(o)
      BY <2>5 DEF OwnLearn, Life!Step, Life!Learn
    <2>6. CASE OwnTell(o)
      BY <2>6 DEF OwnTell, Life!Step, Life!Tell
    <2>7. CASE OwnRest(o)
      BY <2>7 DEF OwnRest, Life!Rest
    <2> QED BY <2>1, <2>2, <2>3, <2>4, <2>5, <2>6, <2>7 DEF OwnStep
  <1> QED BY <1>1 DEF Life!Next

(* Initial states map to initial states of OrderLife. *)
LEMMA LifeInit ==
  ASSUME Init PROVE Life!Init
  <1>1. MaxHist \in Nat /\ \A o \in Mine : o \in Ids
    BY OrdersAssumption DEF Ids
  <1>2. \A o \in Mine : hist[o] = <<>> /\ ord[o].st = "init" /\ \A n \in 1..MaxHist : told[o][n] = 0
    BY <1>1 DEF Init
  <1>3. ASSUME NEW o \in Mine
        PROVE  LifeOf(o) = "new" /\ AtVenue(o) = "absent" /\ Given(o) = 0 /\ Made(o) = 0
    <2>1. {n \in 1..MaxHist : told[o][n] > 0} = {}
      BY <1>2
    <2>2. {m \in 1..Len(hist[o]) : hist[o][m] = "filled"} = {}
      <3>1. Len(hist[o]) = 0
        BY <1>2
      <3> QED BY <3>1
    <2>3. Given(o) = 0 /\ Made(o) = 0
      BY <2>1, <2>2, FS_EmptySet DEF Given, Made, Filled
    <2> QED BY <1>2, <2>3 DEF LifeOf, AtVenue
  <1> QED BY <1>3 DEF Life!Init, Made

(* The life of an order in terms of its status, before and after a step. *)
LEMMA LifeIs ==
  ASSUME NEW o
  PROVE  /\ ord[o].st = "init" => LifeOf(o) = "new"
         /\ ord[o].st = "submitted" => LifeOf(o) = "flying"
         /\ ord[o].st \in {"accepted", "partial"} => LifeOf(o) = "open"
         /\ ord[o].st \in {"filled", "canceled"} => LifeOf(o) = "closed"
         /\ ord[o].st \in {"denied", "rejected"} => LifeOf(o) = ord[o].st
         /\ ord'[o].st \in {"submitted"} => LifeOf(o)' = "flying"
         /\ ord'[o].st \in {"accepted", "partial"} => LifeOf(o)' = "open"
         /\ ord'[o].st \in {"filled", "canceled"} => LifeOf(o)' = "closed"
         /\ ord'[o].st \in {"denied", "rejected"} => LifeOf(o)' = ord'[o].st
         /\ ord'[o].st = ord[o].st => LifeOf(o)' = LifeOf(o)
  BY DEF LifeOf

\* Where an order is, from whether it was taken.
LEMMA AtIs ==
  ASSUME HistOK, NEW i \in Ids
  PROVE  /\ Len(hist[i]) = 0 => AtVenue(i) = "absent"
         /\ Len(hist[i]) > 0 /\ ~Taken(i) => AtVenue(i) = "refused"
         /\ Taken(i) => AtVenue(i) = IF Done(i) THEN "done" ELSE "working"
  <1>1. hist[i] \in Seq(EventKinds) /\ Len(hist[i]) \in Nat
    BY DEF HistOK
  <1>2. CASE Len(hist[i]) = 0
    <2>1. hist[i] = <<>>
      BY <1>1, <1>2
    <2> QED BY <1>2, <2>1 DEF AtVenue, Taken
  <1>3. CASE Len(hist[i]) > 0 /\ ~Taken(i)
    <2>1. \A n \in 1..Len(hist[i]) : n = 1 /\ hist[i][n] = "rejected"
      BY <1>1, <1>3 DEF HistOK, Taken
    <2>2. Len(hist[i]) \in 1..Len(hist[i]) /\ 1 \in 1..Len(hist[i])
      BY <1>1, <1>3
    <2>3. Len(hist[i]) = 1 /\ hist[i][1] = "rejected"
      BY <2>1, <2>2
    <2>4. hist[i] = <<"rejected">>
      BY <1>1, <2>3
    <2>5. <<"rejected">> # <<>>
      OBVIOUS
    <2> QED BY <1>3, <2>4, <2>5 DEF AtVenue
  <1>4. CASE Taken(i)
    <2>1. hist[i] # <<>> /\ hist[i] # <<"rejected">>
      BY <1>4 DEF Taken
    <2> QED BY <1>4, <2>1 DEF AtVenue, Taken
  <1> QED BY <1>1, <1>2, <1>3, <1>4

AtShows ==
  \A i \in Ids :
    /\ Len(hist[i]) = 0 => AtVenue(i) = "absent"
    /\ Len(hist[i]) > 0 /\ ~Taken(i) => AtVenue(i) = "refused"
    /\ Taken(i) => AtVenue(i) = IF Done(i) THEN "done" ELSE "working"

(* Where the venue has an order, read from its history, after the step. *)
LEMMA AtShown == HistOK' => AtShows'
  <1>1. HistOK => AtShows
    BY AtIs DEF AtShows
  <1> QED BY <1>1, PTL

\* One more event: the fills that were made, and whether the order is done.
LEMMA MadeGrows ==
  ASSUME HistOK, NEW i \in Ids, NEW k \in EventKinds, VenueEvent(i, k)
  PROVE  /\ Made(i) \in Nat
         /\ k = "filled" => Made(i)' = Made(i) + 1
         /\ k # "filled" => Made(i)' = Made(i)
         /\ k = "canceled" => Done(i)'
         /\ k \in {"updated", "accepted"} /\ ~Done(i) => ~Done(i)'
  <1> DEFINE L == Len(hist[i])
             F == {m \in 1..L : hist[i][m] = "filled"}
             G == {m \in 1..(L + 1) : hist'[i][m] = "filled"}
  <1>1. /\ hist' \in [Ids -> Seq(EventKinds)]
        /\ Len(hist'[i]) = L + 1 /\ L \in Nat
        /\ \A n \in 1..L : hist'[i][n] = hist[i][n]
        /\ hist'[i][L + 1] = k
    BY VenueTurn
  <1>2. Made(i) = Cardinality(F) /\ Made(i)' = Cardinality(G)
    BY <1>1 DEF Made, Filled
  <1>3. DOMAIN hist[i] = 1..L /\ DOMAIN hist'[i] = 1..(L + 1)
    BY <1>1 DEF HistOK
  <1>4. \A m \in 1..(L + 1) : m \in 1..L \/ m = L + 1
    BY <1>1
  <1>5. \A m \in 1..L : m \in 1..(L + 1)
    BY <1>1
  <1>6. L + 1 \in 1..(L + 1) /\ L + 1 \notin 1..L
    BY <1>1
  <1> HIDE DEF L
  <1>7. IsFiniteSet(F) /\ Cardinality(F) \in Nat
    <2>1. IsFiniteSet(1..L)
      BY <1>1, FS_Interval
    <2>2. F \in SUBSET (1..L)
      OBVIOUS
    <2>3. IsFiniteSet(F)
      BY <2>1, <2>2, FS_Subset
    <2> QED BY <2>3, FS_CardinalityType
  <1>8. ASSUME k = "filled" PROVE Cardinality(G) = Cardinality(F) + 1
    <2>1. G = F \cup {L + 1}
      BY <1>1, <1>4, <1>5, <1>6, <1>8
    <2>2. L + 1 \notin F
      BY <1>6
    <2> HIDE DEF F, G
    <2> QED BY <1>7, <2>1, <2>2, FS_AddElement
  <1>9. ASSUME k # "filled" PROVE G = F
    BY <1>1, <1>4, <1>5, <1>6, <1>9
  <1> HIDE DEF F, G
  <1>10. k = "canceled" => Done(i)'
    BY <1>1, <1>3, <1>6 DEF Done
  <1>11. k \in {"updated", "accepted"} /\ ~Done(i) => ~Done(i)'
    <2> SUFFICES ASSUME k \in {"updated", "accepted"}, ~Done(i), Done(i)' PROVE FALSE
      OBVIOUS
    <2>1. Made(i)' # Qty
      BY <1>2, <1>9 DEF Done, Made
    <2>2. \E n \in DOMAIN hist'[i] : hist'[i][n] \in {"canceled", "rejected"}
      BY <2>1 DEF Done, Made
    <2>3. PICK n \in 1..L : hist'[i][n] \in {"canceled", "rejected"}
      BY <1>1, <1>3, <1>4, <2>2
    <2> QED BY <1>1, <1>3, <2>3 DEF Done
  <1> QED BY <1>2, <1>7, <1>8, <1>9, <1>10, <1>11

(* An event of the venue is a step of OrderLife for each own order. *)
LEMMA VenueOwnStep ==
  ASSUME OrdersInv, OrdersInv', VenueStep, NEW o \in Mine PROVE OwnStep(o)
  <1>1. PICK i \in Ids, k \in EventKinds : VenueEvent(i, k)
    BY DEF VenueStep
  <1>2. HistOK /\ HistOK' /\ o \in Ids /\ o \notin Others
    BY OrdersAssumption DEF OrdersInv, Ids
  <1>3. ord' = ord /\ told' = told
    BY <1>1 DEF VenueEvent, fillVars
  <1>4. LifeOf(o)' = LifeOf(o) /\ Given(o)' = Given(o)
    BY <1>3 DEF LifeOf, Given
  <1>5. CASE o # i
    <2>1. hist'[o] = hist[o]
      BY <1>1, <1>2, <1>5, VenueTurn
    <2>2. AtVenue(o)' = AtVenue(o) /\ Made(o)' = Made(o)
      BY <2>1 DEF AtVenue, Made, Filled, Done
    <2> QED BY <1>4, <2>2 DEF OwnStep, OwnRest
  <1>6. CASE o = i
    <2>1. /\ Made(o) \in Nat
          /\ k = "filled" => Made(o)' = Made(o) + 1
          /\ k # "filled" => Made(o)' = Made(o)
          /\ k = "canceled" => Done(o)'
          /\ k \in {"updated", "accepted"} /\ ~Done(o) => ~Done(o)'
      BY <1>1, <1>2, <1>6, MadeGrows
    <2>2. /\ Len(hist'[o]) = Len(hist[o]) + 1 /\ Len(hist[o]) \in Nat
          /\ Len(hist[o]) = 0 => Requested(o) /\ k \in {"accepted", "rejected"}
          /\ Len(hist[o]) > 0 => k \in {"filled", "canceled", "updated"} /\ Taken(o) /\ ~Done(o)
      BY <1>1, <1>2, <1>6, VenueTurn
    <2>3. Taken(o)' <=> Taken(o) \/ (Len(hist[o]) = 0 /\ k = "accepted")
      BY <1>1, <1>2, <1>6, VenueTakes
    <2>4. /\ Len(hist'[o]) > 0 /\ ~Taken(o)' => AtVenue(o)' = "refused"
          /\ Taken(o)' => AtVenue(o)' = IF Done(o)' THEN "done" ELSE "working"
      <3>1. /\ Len(hist'[o]) = 0 => AtVenue(o)' = "absent"
            /\ Len(hist'[o]) > 0 /\ ~Taken(o)' => AtVenue(o)' = "refused"
            /\ Taken(o)' => AtVenue(o)' = IF Done(o)' THEN "done" ELSE "working"
        BY <1>2, AtShown DEF AtShows
      <3> QED BY <3>1
    <2>5. CASE Len(hist[o]) = 0
      <3>1. AtVenue(o) = "absent" /\ ~Taken(o)
        BY <1>2, <2>5, AtIs DEF Taken
      <3>2. LifeOf(o) = "flying"
        BY <1>2, <2>2, <2>5, LifeIs DEF Requested
      <3>3. ~Done(o)
        <4>1. DOMAIN hist[o] = {} /\ {m \in 1..Len(hist[o]) : hist[o][m] = "filled"} = {}
          BY <1>2, <2>5 DEF HistOK
        <4>2. Filled(o, Len(hist[o])) = 0
          BY <4>1, FS_EmptySet DEF Filled
        <4>3. Qty # 0
          BY OrdersAssumption
        <4> QED BY <4>1, <4>2, <4>3 DEF Done
      <3>4. AtVenue(o)' \in {"refused", "working"} /\ Made(o)' = Made(o)
        BY <2>1, <2>2, <2>3, <2>4, <2>5, <3>1, <3>3
      <3> QED BY <1>4, <3>1, <3>2, <3>4 DEF OwnStep, OwnVenue
    <2>6. CASE Len(hist[o]) > 0
      <3>1. AtVenue(o) = "working"
        BY <1>2, <2>2, <2>6, AtIs
      <3>2. CASE k = "filled"
        BY <1>4, <2>1, <2>2, <2>3, <2>4, <2>6, <3>1, <3>2 DEF OwnStep, OwnVenue
      <3>3. CASE k = "canceled"
        BY <1>4, <2>1, <2>2, <2>3, <2>4, <2>6, <3>1, <3>3 DEF OwnStep, OwnVenue
      <3>4. CASE k = "updated"
        BY <1>4, <2>1, <2>2, <2>3, <2>4, <2>6, <3>1, <3>4 DEF OwnStep, OwnRest
      <3> QED BY <2>2, <2>6, <3>2, <3>3, <3>4
    <2> QED BY <2>2, <2>5, <2>6
  <1> QED BY <1>5, <1>6

(* So is a submission. *)
LEMMA SubmitOwnStep ==
  ASSUME OrdersInv, SubmitStep, NEW o \in Mine PROVE OwnStep(o)
  <1>1. PICK p \in Mine : \/ \E mapped \in BOOLEAN : _submit_order(p, mapped)
                          \/ \E priced \in SUBSET Legs : _submit_order_list(p, priced)
    BY DEF SubmitStep
  <1>2. PICK s \in {"submitted", "denied"} :
          /\ ord[p].st = "init" /\ hist' = hist /\ ord'[p] = [ord[p] EXCEPT !.st = s]
          /\ \A j \in Ids : j # p => ord'[j] = ord[j]
    BY <1>1, SubmitTurn DEF OrdersInv
  <1>3. told' = told /\ o \in Ids /\ p \in Ids
    BY <1>1 DEF _submit_order, _submit_order_list, commandFrame, fillVars, Ids
  <1>4. AtVenue(o)' = AtVenue(o) /\ Made(o)' = Made(o) /\ Given(o)' = Given(o)
    BY <1>2, <1>3 DEF AtVenue, Made, Filled, Done, Given
  <1>5. CASE o = p
    <2>1. ord'[o].st = s
      BY <1>2, <1>3, <1>5 DEF OrdersInv, RecordsOK, Records
    <2>2. LifeOf(o) = "new" /\ LifeOf(o)' \in {"flying", "denied"}
      BY <1>2, <1>5, <2>1, LifeIs
    <2> QED BY <1>4, <2>2 DEF OwnStep, OwnSend
  <1>6. CASE o # p
    <2>1. LifeOf(o)' = LifeOf(o)
      BY <1>2, <1>3, <1>6, LifeIs
    <2> QED BY <1>4, <2>1 DEF OwnStep, OwnRest
  <1> QED BY <1>5, <1>6

\* Fills told of an order of ours were made, and no fill is taken back.
LEMMA GivenIsMade ==
  ASSUME HistOK, ToldOK, NEW o \in Mine
  PROVE  Given(o) \in Nat /\ Made(o) \in Nat /\ Given(o) <= Made(o)
  <1> DEFINE G == {n \in 1..MaxHist : told[o][n] > 0}
             F == {m \in 1..Len(hist[o]) : hist[o][m] = "filled"}
  <1>1. o \in Ids /\ MaxHist \in Nat /\ Len(hist[o]) \in Nat
    BY OrdersAssumption DEF Ids, HistOK
  <1>2. IsFiniteSet(1..Len(hist[o])) /\ F \in SUBSET (1..Len(hist[o]))
    BY <1>1, FS_Interval
  <1>3. IsFiniteSet(F)
    BY <1>2, FS_Subset
  <1>4. G \in SUBSET F
    <2> SUFFICES ASSUME NEW n \in 1..MaxHist, told[o][n] > 0 PROVE n \in F
      OBVIOUS
    <2>1. n <= Len(hist[o]) /\ hist[o][n] = "filled"
      BY <1>1 DEF ToldOK
    <2>2. n \in 1..Len(hist[o])
      BY <1>1, <2>1
    <2> QED BY <2>1, <2>2
  <1>5. Given(o) = Cardinality(G) /\ Made(o) = Cardinality(F)
    BY DEF Given, Made, Filled
  <1> HIDE DEF G, F
  <1>6. IsFiniteSet(G) /\ Cardinality(G) <= Cardinality(F)
    BY <1>3, <1>4, FS_Subset
  <1> QED BY <1>3, <1>5, <1>6, FS_CardinalityType

GivenOK == \A o \in Mine : Given(o) \in Nat /\ Made(o) \in Nat /\ Given(o) <= Made(o)

(* A strategy is given no more than the venue made, after the step. *)
LEMMA GivenNext == HistOK' /\ ToldOK' => GivenOK'
  <1>1. HistOK /\ ToldOK => GivenOK
    BY GivenIsMade DEF GivenOK
  <1> QED BY <1>1, PTL

(* A fill once told stays told. *)
LEMMA ToldStays ==
  ASSUME Next, OrdersInv, FillsInv, NEW i \in Ids, NEW n \in 1..MaxHist, told[i][n] > 0
  PROVE  told'[i][n] > 0
  <1>1. told \in [Ids -> [1..MaxHist -> Nat]] /\ told[i][n] \in Nat
    BY DEF FillsInv, ToldOK
  <1>2. \A t \in Nat : t > 0 => Often(t) > 0
    BY DEF Often
  <1>3. CASE told' = told
    BY <1>3
  <1>4. ASSUME NEW j \in Ids, NEW m \in 1..MaxHist, OneFill(j, m) PROVE told'[i][n] > 0
    <2>1. told' = [told EXCEPT ![j] = [told[j] EXCEPT ![m] = Often(told[j][m])]]
      BY <1>4 DEF OneFill, Tell
    <2>2. told[j] \in [1..MaxHist -> Nat] /\ told[i] \in [1..MaxHist -> Nat]
      BY <1>1
    <2>3. CASE i = j
      <3>1. told'[i] = [told[i] EXCEPT ![m] = Often(told[i][m])]
        BY <1>1, <2>1, <2>3
      <3>2. told'[i][n] = told[i][n] \/ told'[i][n] = Often(told[i][n])
        BY <2>2, <3>1
      <3> QED BY <1>1, <1>2, <3>2
    <2>4. CASE i # j
      BY <1>1, <2>1, <2>4
    <2> QED BY <2>3, <2>4
  <1>5. ASSUME NEW rows, TellAll(rows) PROVE told'[i][n] > 0
    <2>1. told'[i][n] = IF <<i, n>> \in rows THEN Often(told[i][n]) ELSE told[i][n]
      BY <1>5 DEF TellAll
    <2> QED BY <1>1, <1>2, <2>1
  <1> QED BY <1>3, <1>4, <1>5, FillSteps DEF Quiet, Hit, DrainFills

(* What is given to a strategy never shrinks. *)
LEMMA GivenGrows ==
  ASSUME Next, OrdersInv, FillsInv, NEW o \in Mine
  PROVE  Given(o) <= Given(o)'
  <1> DEFINE G == {n \in 1..MaxHist : told[o][n] > 0}
             H == {n \in 1..MaxHist : told'[o][n] > 0}
  <1>1. o \in Ids /\ MaxHist \in Nat
    BY OrdersAssumption DEF Ids
  <1>2. IsFiniteSet(1..MaxHist) /\ H \in SUBSET (1..MaxHist)
    BY <1>1, FS_Interval
  <1>3. G \in SUBSET H
    BY <1>1, ToldStays
  <1>4. Given(o) = Cardinality(G) /\ Given(o)' = Cardinality(H)
    BY DEF Given
  <1> HIDE DEF G, H
  <1>5. IsFiniteSet(H)
    BY <1>2, FS_Subset
  <1> QED BY <1>3, <1>4, <1>5, FS_Subset

\* A fill told of an order in flight moves it on.
LEMMA FillMoves ==
  ASSUME Next, OrdersInv, FillsInv, NEW o \in Mine, told'[o] # told[o]
  PROVE  ord'[o].st # "submitted"
  <1> USE DEF commandFrame, queryVars, fillVars, inflightFrame
  <1>0. /\ o \in Ids /\ o \notin Others /\ ord[o] \in Records /\ ord \in [Ids -> Records]
        /\ Fits(ord[o], o) /\ told \in [Ids -> [1..MaxHist -> Nat]]
    BY OrdersAssumption DEF Ids, OrdersInv, RecordsOK, FillsInv, ToldOK
  <1>1. CASE Venue
    BY <1>1 DEF Venue, VenueEvent, VenueRepeats, Break
  <1>2. CASE Commands
    BY <1>2 DEF Commands, _submit_order, _submit_order_list, _modify_order, _cancel_order,
                CommandEnds
  <1>3. ASSUME NEW i \in Ids, NEW n \in 1..MaxHist, Tell(i, n) PROVE i = o
    <2>1. told' = [told EXCEPT ![i] = [told[i] EXCEPT ![n] = Often(told[i][n])]]
      BY <1>3 DEF Tell
    <2> QED BY <1>0, <2>1
  <1>4. ASSUME NEW i \in Ids, NEW n \in 1..MaxHist, NEW priced \in BOOLEAN,
               handle_order_notification(i, n, priced)
        PROVE  ord'[o].st # "submitted"
    <2>1. Kind(i, n) = "filled"
      BY <1>4 DEF handle_order_notification
    <2>2. handle_tracked_fill(i, n, priced) /\ ord[i].st \in Working
      BY <1>4, <2>1 DEF handle_order_notification, _resolve_client_order_id
    <2>3. Tell(i, n) /\ ord' = [ord EXCEPT ![i] = AfterLiveFill(ord[i], Given(i) + 1, n)]
      BY <2>2 DEF handle_tracked_fill
    <2>4. i = o
      BY <1>3, <2>3
    <2> DEFINE t == Given(i) + 1
    <2>5. ord'[o] = AfterLiveFill(ord[o], t, n)
      BY <1>0, <2>3, <2>4
    <2> HIDE DEF t
    <2>6. AfterLiveFill(ord[o], t, n).st \in {"filled", "partial"}
      BY <1>0, <2>2, <2>4 DEF AfterLiveFill, AfterFill, Records
    <2> QED BY <2>5, <2>6
  <1>5. ASSUME NEW i \in Ids, NEW n \in 1..MaxHist, NEW priced \in BOOLEAN,
               NEW published \in BOOLEAN, NEW adopts \in BOOLEAN,
               handle_untracked_notification(i, n, priced, published, adopts)
        PROVE  ord'[o].st # "submitted"
    <2>1. Tell(i, n)
      BY <1>5 DEF handle_untracked_notification, publish_untracked_fill
    <2>2. i = o
      BY <1>3, <2>1
    <2>3. ord[o].st \notin Working /\ ord[o].st # "none"
      BY <1>0, <1>5, <2>2 DEF handle_untracked_notification, _resolve_client_order_id, Fits
    <2>4. ord' = ord \/ ord' = [ord EXCEPT ![o] = StatusOf(o, n)]
      BY <1>5, <2>2 DEF handle_untracked_notification
    <2>5. StatusOf(o, n) = ord[o]
      BY <2>3 DEF StatusOf, Reported
    <2>6. ord'[o] = ord[o]
      BY <1>0, <2>4, <2>5
    <2> QED BY <2>3, <2>6 DEF Working
  <1>6. CASE Intake
    BY <1>4, <1>5, <1>6 DEF Intake
  <1>7. ASSUME NEW cut \in Drains, NEW rows \in SUBSET NewFills(cut),
               generate_fill_reports(cut, rows)
        PROVE  ord'[o].st # "submitted"
    <2>1. told'[o] = [n \in 1..MaxHist |-> IF <<o, n>> \in rows THEN Often(told[o][n]) ELSE told[o][n]]
      BY <1>0, <1>7 DEF generate_fill_reports
    <2> DEFINE ns == {n \in 1..MaxHist : <<o, n>> \in rows}
    <2>2. ns # {}
      <3> SUFFICES ASSUME ns = {} PROVE FALSE
        OBVIOUS
      <3>1. \A n \in 1..MaxHist : <<o, n>> \notin rows
        OBVIOUS
      <3>2. told[o] = [n \in 1..MaxHist |-> told[o][n]]
        BY <1>0
      <3>3. told'[o] = told[o]
        BY <2>1, <3>1, <3>2
      <3> QED BY <3>3
    <2>3. ord'[o] = AfterReport(ord[o], o, rows)
      BY <1>0, <1>7 DEF generate_fill_reports
    <2>4. ord'[o] = Reported(ord[o], "filled", Max(ns))
      BY <2>2, <2>3 DEF AfterReport
    <2> HIDE DEF ns
    <2>5. CASE ord[o].st \in Working
      BY <2>4, <2>5 DEF Reported, Working
    <2>6. CASE ord[o].st \notin Working
      <3>1. ord[o].st # "none"
        BY <1>0 DEF Fits
      <3>2. ord'[o] = ord[o]
        BY <2>4, <2>6, <3>1 DEF Reported
      <3> QED BY <2>6, <3>2 DEF Working
    <2> QED BY <2>5, <2>6
  <1>8. CASE Recon
    <2>1. ASSUME NEW cut \in Drains, NEW good, NEW whole, apply_drain_rows(cut, good, whole)
          PROVE  told' = told
      BY <2>1 DEF apply_drain_rows
    <2>2. ASSUME NEW cut \in Drains, NEW good, _resolve_inflight_by_tag(cut, good)
          PROVE  told' = told
      BY <2>2 DEF _resolve_inflight_by_tag
    <2>3. ASSUME NEW cut \in Drains, NEW openOnly, generate_order_status_reports(cut, openOnly)
          PROVE  told' = told
      BY <2>3 DEF generate_order_status_reports
    <2>4. ASSUME NEW cut \in Drains, generate_mass_status(cut) PROVE told' = told
      BY <2>4 DEF generate_mass_status
    <2>5. ASSUME NEW p \in Mine, generate_order_status_report(p) PROVE told' = told
      BY <2>5 DEF generate_order_status_report
    <2>6. ASSUME NEW cut \in Drains, NEW rows, MassStatusEnds(cut, rows) PROVE told' = told
      BY <2>6 DEF MassStatusEnds
    <2> QED BY <1>7, <1>8, <2>1, <2>2, <2>3, <2>4, <2>5, <2>6 DEF Recon
  <1> QED BY <1>1, <1>2, <1>6, <1>8 DEF Next

(* A step that moves the records well is a step of OrderLife for each own order. *)
LEMMA GoodOwnStep ==
  ASSUME Next, OrdersInv, OrdersInv', FillsInv, FillsInv', AllGood, NEW o \in Mine
  PROVE  OwnStep(o)
  <1>0. /\ o \in Ids /\ o \notin Others /\ ord[o] \in Records /\ Fits(ord[o], o)
        /\ ord'[o] \in Records /\ HistOK /\ HistOK' /\ ToldOK /\ ToldOK'
    BY OrdersAssumption DEF Ids, OrdersInv, RecordsOK, FillsInv
  <1>1. hist' = hist /\ Moves(ord[o], ord'[o], o)
    BY <1>0 DEF AllGood, Good
  <1>2. AtVenue(o)' = AtVenue(o) /\ Made(o)' = Made(o)
    BY <1>1 DEF AtVenue, Made, Filled, Done
  <1>3. /\ Taken(o) => AtVenue(o) \in {"working", "done"}
        /\ ~Taken(o) => AtVenue(o) \in {"absent", "refused"}
    <2>1. Len(hist[o]) \in Nat
      BY <1>0 DEF HistOK
    <2> QED BY <1>0, <2>1, AtIs
  <1>4. ord[o].st \notin {"init", "denied", "rejected"} => ord[o].st \in Working \cup {"filled", "canceled"}
    BY <1>0 DEF Records, Fits, Closed, Terminal
  <1>5. CASE Given(o)' = Given(o)
    <2>1. CASE ord'[o].st = ord[o].st
      <3>1. LifeOf(o)' = LifeOf(o)
        BY <2>1, LifeIs
      <3> QED BY <1>2, <1>5, <3>1 DEF OwnStep, OwnRest
    <2>2. CASE ord[o].st \in Working /\ ord'[o].st \in Taking /\ Taken(o)
      <3>1. LifeOf(o) \in {"flying", "open"} /\ LifeOf(o)' \in {"open", "closed"}
        BY <2>2, LifeIs DEF Working, Taking, Statuses
      <3> QED BY <1>2, <1>3, <1>5, <2>2, <3>1 DEF OwnStep, OwnLearn
    <2>3. CASE ord[o].st = "submitted" /\ ord'[o].st = "rejected" /\ ~Taken(o)
      <3>1. LifeOf(o) = "flying" /\ LifeOf(o)' = "rejected"
        BY <2>3, LifeIs
      <3> QED BY <1>2, <1>3, <1>5, <2>3, <3>1 DEF OwnStep, OwnReject
    <2> QED BY <1>0, <1>1, <2>1, <2>2, <2>3 DEF Moves
  <1>6. CASE Given(o)' # Given(o)
    <2>1. told'[o] # told[o]
      BY <1>6 DEF Given
    <2>2. ord'[o].st # "submitted"
      BY <2>1, FillMoves
    <2>3. PICK n \in 1..MaxHist : ~(told[o][n] > 0) /\ told'[o][n] > 0
      <3> SUFFICES ASSUME \A n \in 1..MaxHist : told'[o][n] > 0 => told[o][n] > 0 PROVE FALSE
        OBVIOUS
      <3>1. \A n \in 1..MaxHist : told'[o][n] > 0 <=> told[o][n] > 0
        BY <1>0, ToldStays
      <3>2. {n \in 1..MaxHist : told'[o][n] > 0} = {n \in 1..MaxHist : told[o][n] > 0}
        BY <3>1
      <3> QED BY <1>6, <3>2 DEF Given
    <2>4. n <= Len(hist[o]) /\ hist[o][n] = "filled"
      BY <1>0, <1>1, <2>3 DEF ToldOK
    <2>5. n \in 1..Len(hist[o])
      BY <1>0, <2>4, OrdersAssumption DEF HistOK
    <2>6. Taken(o) /\ Len(hist[o]) > 0
      BY <1>0, <2>4, <2>5, LaterEvents
    <2>7. ord[o].st \in Working \cup {"filled", "canceled"}
      BY <1>0, <1>4, <2>6 DEF Fits
    <2>8. Given(o)' \in (Given(o) + 1)..Made(o)
      <3>1. Given(o)' \in Nat /\ Given(o)' <= Made(o)' /\ Given(o) \in Nat /\ Made(o) \in Nat
        BY <1>0, GivenNext, GivenIsMade DEF GivenOK
      <3>2. Given(o) <= Given(o)'
        BY GivenGrows
      <3> QED BY <1>2, <1>6, <3>1, <3>2
    <2>9. CASE ord[o].st \in {"filled", "canceled"}
      <3>1. ord'[o].st = ord[o].st
        BY <1>0, <1>1, <2>9 DEF Moves, Working
      <3>2. LifeOf(o) = "closed" /\ LifeOf(o)' = LifeOf(o)
        BY <2>9, <3>1, LifeIs
      <3> QED BY <1>2, <2>8, <3>2 DEF OwnStep, OwnTell
    <2>10. CASE ord[o].st \in Working
      <3>1. ord'[o].st \in Taking
        BY <1>0, <1>1, <2>2, <2>6, <2>10 DEF Moves, Working, Taking, Statuses
      <3>2. LifeOf(o) \in {"flying", "open"} /\ LifeOf(o)' \in {"open", "closed"}
        BY <2>10, <3>1, LifeIs DEF Working, Taking, Statuses
      <3> QED BY <1>2, <2>8, <3>2 DEF OwnStep, OwnTell
    <2> QED BY <2>7, <2>9, <2>10
  <1> QED BY <1>5, <1>6

\* The client implements OrderLife for every order at once: each step of the commands,
\* the live stream, the barrier and reconciliation is, for each order of ours, a step of
\* its life or leaves it alone.
THEOREM OrdersImplementOrderLife == Spec => ImplementsOrderLife
  <1>1. Init => Life!Init
    BY LifeInit
  <1>2. OrdersInv /\ OrdersInv' /\ FillsInv /\ FillsInv' /\ [Next]_vars => [Life!Next]_(Life!vars)
    <2> SUFFICES ASSUME OrdersInv, OrdersInv', FillsInv, FillsInv', [Next]_vars
                 PROVE  [Life!Next]_(Life!vars)
      OBVIOUS
    <2>1. CASE Next
      <3>1. ASSUME NEW o \in Mine PROVE OwnStep(o)
        <4>1. VenueStep \/ SubmitStep \/ AllGood
          BY <2>1, StepKinds
        <4> QED BY <2>1, <4>1, VenueOwnStep, SubmitOwnStep, GoodOwnStep
      <3> QED BY <3>1, StepIsLifeStep
    <2>2. CASE UNCHANGED vars
      BY <2>2 DEF vars, Life!vars, LifeOf, AtVenue, Given, Filled, Done
    <2> QED BY <2>1, <2>2
  <1> QED BY <1>1, <1>2, RecordsFitTheVenue, FillsAlways, PTL DEF Spec, ImplementsOrderLife, Life!Spec
=============================================================================
