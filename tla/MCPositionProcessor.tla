------------------------ MODULE MCPositionProcessor ------------------------
(***************************************************************************)
(* Three users and four trades.  alice buys from bob and sells it on to   *)
(* carol, so the second trade fails unless the first is settled; the third *)
(* has alice and bob trade the other way round, at another price and for a *)
(* quantity the conversion to a string and back makes smaller; in the      *)
(* fourth alice trades with alice.                                         *)
(***************************************************************************)
EXTENDS PositionProcessor, TLC

MCUser == {"alice", "bob", "carol"}

MCInitialPositions ==
    [u \in MCUser |-> IF u = "bob" THEN [Volume |-> 5, AvgPrice |-> 10] ELSE ZeroPosition]

ATrade(id, taker, maker, side, qty, price) ==
    [id |-> id, TakerUser |-> taker, MakerUser |-> maker, TakerSide |-> side,
     Quantity |-> qty, Price |-> price]

MCTrade == {ATrade(1, "alice", "bob", "buy", 2, 11),
            ATrade(2, "alice", "carol", "sell", 2, 14),
            ATrade(3, "bob", "alice", "sell", 3, 20),
            ATrade(4, "alice", "alice", "buy", 1, 5)}

CONSTANTS i1, i2

MCInstance == {i1, i2}
Instances == Permutations(MCInstance)

Deployed(active, dedup) == [active |-> active, dedup |-> dedup]

\* The server's configuration with one and with two processes, and the two
\* paths without a transaction.
EveryDeployment ==
    {Deployed(MCInstance, "outbox")} \cup
    {Deployed({i}, dedup) : i \in MCInstance, dedup \in {"outbox", "processed", "memory"}}
=============================================================================
