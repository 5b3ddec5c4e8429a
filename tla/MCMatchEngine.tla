--------------------------- MODULE MCMatchEngine ---------------------------
(***************************************************************************)
(* Three orders of two symbols, two of them racing for the first queue and *)
(* book of their symbol, with room for one order in a queue.               *)
(***************************************************************************)
EXTENDS MatchEngine

MCOrder == {"o1", "o2", "o3"}
MCSymbolOf == [o \in MCOrder |-> IF o = "o3" THEN "b" ELSE "a"]
=============================================================================
