----------------------------- MODULE Positions -----------------------------
(***************************************************************************)
(* What a trade does to the positions of its two users: BuyPositionTx and  *)
(* SellPositionTx (biz/service/asset_service.go), called with strings that *)
(* the position processor prints and model.ParseQuantity reads.            *)
(***************************************************************************)
EXTENDS Integers, Sequences

CONSTANTS
    User,
    Trade,            \* [id, TakerUser, MakerUser, TakerSide, Quantity, Price]
    InitialPositions  \* the table positions for one symbol; no row is a zero row

\* The amounts q up to 100 for which q, printed as float64(q)/1e8 with "%.8f",
\* parsed again and multiplied by 1e8, is just below q.
Truncated == {3, 6, 12, 24, 29, 48, 58, 59, 96}

\* Sprintf("%.8f", float64(x)/1e8), then ParseQuantity or ParsePrice, whose
\* int64(f * 1e8) cuts off the fraction.
Convert(amount) == IF amount \in Truncated THEN amount - 1 ELSE amount

Position == [Volume : Nat, AvgPrice : Nat]

ASSUME TradeAssumption ==
    \A t \in Trade : /\ t.TakerUser \in User /\ t.MakerUser \in User
                     /\ t.TakerSide \in {"buy", "sell"}
                     /\ t.Quantity \in Nat \ {0} /\ t.Price \in Nat

\* An empty position has no average price.
ASSUME InitialAssumption ==
    /\ InitialPositions \in [User -> Position]
    /\ \A user \in User :
        InitialPositions[user].Volume = 0 => InitialPositions[user].AvgPrice = 0

\* BuyPositionTx: add to the volume, weighted average of the price.
BuyPosition(pos, qty, price) ==
    [Volume |-> pos.Volume + qty,
     AvgPrice |-> (pos.Volume * pos.AvgPrice + qty * price) \div (pos.Volume + qty)]

\* Mutant of SellPosition: the average is kept when the position is empty.
SellPositionKeepsAverage(pos, qty) == [pos EXCEPT !.Volume = @ - qty]

\* SellPositionTx: take from the volume; an empty position has no average.
SellPosition(pos, qty) ==
    [Volume |-> pos.Volume - qty,
     AvgPrice |-> IF pos.Volume = qty THEN 0 ELSE pos.AvgPrice]

\* A leg of a trade: one user's position and what happens to it.  The taker's
\* leg comes first.
Legs(trade) ==
    LET Leg(user, side) == [User |-> user, Side |-> side]
    IN  IF trade.TakerSide = "buy"
        THEN <<Leg(trade.TakerUser, "buy"), Leg(trade.MakerUser, "sell")>>
        ELSE <<Leg(trade.TakerUser, "sell"), Leg(trade.MakerUser, "buy")>>

\* Mutant of CanApply: a sale of more than there is.
CanApplyShort(leg, pos, trade) == pos.Volume + Convert(trade.Quantity) # 0

\* SellPositionTx refuses to sell more than there is, BuyPositionTx to end
\* with nothing.
CanApply(leg, pos, trade) ==
    IF leg.Side = "sell" THEN pos.Volume >= Convert(trade.Quantity)
    ELSE pos.Volume + Convert(trade.Quantity) # 0

Apply(leg, pos, trade) ==
    IF leg.Side = "sell" THEN SellPosition(pos, Convert(trade.Quantity))
    ELSE BuyPosition(pos, Convert(trade.Quantity), Convert(trade.Price))
=============================================================================
