---------------------------- MODULE MCWebSocket ----------------------------
(***************************************************************************)
(* A connection, a symbol and two messages for it, with no pool, with a    *)
(* pool of one worker and with a worker for every write.  A channel holds  *)
(* one message, and two channels are made at most, which raced for the     *)
(* symbol.                                                                 *)
(***************************************************************************)
EXTENDS WebSocket

MCChan == 1 .. 2
MCSymbolOf == [m \in Msg |-> "a"]
=============================================================================
