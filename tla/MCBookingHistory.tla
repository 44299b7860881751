-------------------------- MODULE MCBookingHistory --------------------------
(* A small instance of the pipeline with a memory for TLC. *)
EXTENDS MCEventPipeline, BookingHistory

(* A bed that is free from the start, and whose terminal says so. *)
FirstReport == t1 :> <<Msg(1, "s1", 1, "AVAILABLE", 1)>>
FirstReportMessages == MessagesOf(FirstReport)
FirstReportEvents == EventsOf(FirstReport)

=============================================================================
