---------------------------- MODULE MCOrderBook ----------------------------
(***************************************************************************)
(* OrderBook for TLC.  Two prices make two levels and an order that sweeps *)
(* both; three orders make partial fills of the taker and of the maker,    *)
(* two makers at one level, an OrderID used twice, and cancellations.      *)
(***************************************************************************)
EXTENDS OrderBook, TLC

MCPrice == 1 .. 2
=============================================================================
