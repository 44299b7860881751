-------------------------- MODULE MCPipelineHistory --------------------------
(* The small instances of MCEventPipeline, for the promise to freed beds.  They
   have one bed, and nobody can miss it by losing another: the memory of
   PipelineHistory stays empty and need not be a variable. *)
EXTENDS MCEventPipeline

Remembering == INSTANCE PipelineHistory WITH missed <- [b \in Bed |-> {}]

(* FreedBedServed of PipelineHistory, with nobody let off for a missed bed. *)
FreedBedServed == Remembering!FreedBedServed

=============================================================================
