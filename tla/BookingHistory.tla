--------------------------- MODULE BookingHistory ---------------------------
(***************************************************************************)
(* The event pipeline with a memory: what had been reported about a bed by *)
(* the time it was booked.                                                 *)
(***************************************************************************)
EXTENDS PipelineProperties

VARIABLE
    old     \* [Bed -> the events reported before the bed's last booking]

ReportedEvents == {EventOf(m) : m \in {x \in Reported : Parses(x)}}

HistoryInit == PipelineInit /\ old = [b \in Bed |-> {}]

HistoryNext ==
    /\ PipelineNext
    /\ old' = [b \in Bed |->
                  IF bedStatus[b] # "reserved" /\ bedStatus'[b] = "reserved"
                  THEN ReportedEvents
                  ELSE old[b]]

HistorySpec == HistoryInit /\ [][HistoryNext]_<<pipelineVars, old>>

(* A booking that a terminal's event takes away before check-in is "a no-show,
   a cancellation before check-in, or a maintenance hold": something that
   happened after the booking, never what the terminal reported before it. *)
OldReportsSpareBookings ==
    [][\A row \in reservations :
          /\ row.status = "active"
          /\ \A x \in reservations' : x.bed # row.bed
          => (appliedEvents' \ appliedEvents) \cap old[row.bed] = {}
      ]_<<pipelineVars, old>>

=============================================================================
