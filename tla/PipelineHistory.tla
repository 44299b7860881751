--------------------------- MODULE PipelineHistory ---------------------------
(***************************************************************************)
(* The event pipeline with the memory of EngineHistory: an engine that is  *)
(* fed by terminals, and that crashes.                                     *)
(***************************************************************************)
EXTENDS PipelineProperties, EngineHistory

RememberingPipelineSpec ==
    /\ PipelineInit /\ NothingMissed
    /\ [][PipelineNext /\ Remember]_<<pipelineVars, missed>>

(* A freed bed never stands empty "forever": when the consumers have caught up
   and no call is running, no referral could have it but one that missed it, or
   whose own call failed or ran out of tries, wherever the engine crashed, a
   partition moved or a statement failed in between. *)
FreedBedServed ==
    CaughtUp => \A b \in Bed, r \in Referral : ~ Stranded(b, r)

=============================================================================
