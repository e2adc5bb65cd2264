------------------------------ MODULE OrderLife ------------------------------
(***************************************************************************)
(* What the execution client promises a strategy about each of its orders,  *)
(* whatever the venue, the stream and reconciliation do: an order's life    *)
(* goes forward only; it is open only once the venue has it; it is rejected *)
(* only when the venue does not have it and never will; and the fills the   *)
(* strategy is told of are fills the venue made, each counted once.         *)
(***************************************************************************)
EXTENDS Integers

CONSTANTS Mine   \* the strategy's orders

VARIABLES life,   \* "new" "denied" "flying" "rejected" "open" "closed"
          at,     \* at the venue: "absent" "refused" "working" "done"
          fills,  \* fills the strategy was told of
          made    \* fills the venue made

vars == <<life, at, fills, made>>

Init == /\ life = [o \in Mine |-> "new"] /\ at = [o \in Mine |-> "absent"]
        /\ fills = [o \in Mine |-> 0] /\ made = [o \in Mine |-> 0]

\* What an order's step leaves alone.
SameLife(o)  == life'[o] = life[o]
SameVenue(o) == at'[o] = at[o] /\ made'[o] = made[o]
SameFills(o) == fills'[o] = fills[o]

Send(o) == /\ life[o] = "new" /\ life'[o] \in {"flying", "denied"}
           /\ SameVenue(o) /\ SameFills(o)

\* The venue: it takes or refuses an order that is flying, fills it, ends it.
Venue(o) == /\ \/ /\ life[o] = "flying" /\ at[o] = "absent" /\ made'[o] = made[o]
                  /\ at'[o] \in {"refused", "working"}
               \/ /\ at[o] = "working" /\ made'[o] = made[o] + 1
                  /\ at'[o] \in {"working", "done"}
               \/ at[o] = "working" /\ at'[o] = "done" /\ made'[o] = made[o]
            /\ SameLife(o) /\ SameFills(o)

\* The strategy hears that its order was refused, or that it is open or over. An order
\* may be said to be over while it works (see README on partial fills).
Reject(o) == /\ life[o] = "flying" /\ at[o] \in {"absent", "refused"}
             /\ life'[o] = "rejected"
             /\ SameVenue(o) /\ SameFills(o)
Learn(o) == /\ life[o] \in {"flying", "open"} /\ at[o] \in {"working", "done"}
            /\ life'[o] \in {"open", "closed"}
            /\ SameVenue(o) /\ SameFills(o)

\* Fills are told after they were made, one by one live and several at once in a
\* reconciliation. They may open or close an order that is flying or open, they may
\* come for one that is closed, and they never reopen one.
Tell(o) == /\ fills'[o] \in (fills[o] + 1)..made[o]
           /\ \/ life[o] = "closed" /\ SameLife(o)
              \/ life[o] \in {"flying", "open"} /\ life'[o] \in {"open", "closed"}
           /\ SameVenue(o)

Step(o) == Send(o) \/ Venue(o) \/ Reject(o) \/ Learn(o) \/ Tell(o)
Rest(o) == SameLife(o) /\ SameVenue(o) /\ SameFills(o)

\* Orders are independent: a reconciliation may speak of several at once.
Next == /\ {DOMAIN life', DOMAIN at', DOMAIN fills', DOMAIN made'} = {Mine}
        /\ \A o \in Mine : Step(o) \/ Rest(o)

Spec == Init /\ [][Next]_vars
=============================================================================
