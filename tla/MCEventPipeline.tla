-------------------------- MODULE MCEventPipeline --------------------------
(***************************************************************************)
(* Instances of the event pipeline: two producers, two processors, and the *)
(* entry points in use.                                                    *)
(***************************************************************************)
EXTENDS EventPipeline

TwoProducers == {"p1", "p2"}
MCProcessor == {"DBProcessor", "PositionProcessor"}

\* One producer answers requests, the other may replay the log as well.
RequestsAndReplay ==
    [p \in TwoProducers |-> IF p = "p1" THEN {"ProcessEventWithContext"} ELSE EntryPoint]
=============================================================================
