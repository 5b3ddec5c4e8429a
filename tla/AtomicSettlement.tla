-------------------------- MODULE AtomicSettlement --------------------------
(***************************************************************************)
(* What the position processor promises: a trade is settled in one step    *)
(* that moves its quantity between the two users and writes its outbox     *)
(* row, or not at all, and at most once.                                   *)
(***************************************************************************)
EXTENDS Positions

VARIABLES
    positions, \* the table positions
    outbox     \* the trades that have a row in the table outbox

vars == <<positions, outbox>>

Init == positions = InitialPositions /\ outbox = {}

Settle(trade) ==
    LET first == Legs(trade)[1]
        second == Legs(trade)[2]
        half == [positions EXCEPT ![first.User] = Apply(first, @, trade)]
    IN  /\ trade \notin outbox
        /\ CanApply(first, positions[first.User], trade)
        /\ CanApply(second, half[second.User], trade)
        /\ positions' = [half EXCEPT ![second.User] = Apply(second, @, trade)]
        /\ outbox' = outbox \cup {trade}

Next == \E trade \in Trade : Settle(trade)

Spec == Init /\ [][Next]_vars
=============================================================================
