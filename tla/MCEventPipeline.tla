-------------------------- MODULE MCEventPipeline --------------------------
(* Small instances of the event pipeline for TLC. *)
EXTENDS PipelineProperties, TLC

CONSTANTS r1, r2, c1, c2, t1, t2, p1, p2

Msg(id, shelter, bed, status, seq) ==
    [event_id |-> id, shelter_id |-> shelter, bed_id |-> bed,
     status |-> status, sequence |-> seq]

Row == [region |-> "north", unit_type |-> "general", allows_pets |-> TRUE,
        sobriety_required |-> FALSE, ada_accessible |-> FALSE]
Needs(score) ==
    [region |-> "north", unit_type_required |-> "general",
     needs_pet_friendly |-> FALSE, needs_sobriety_free |-> FALSE,
     needs_ada_accessible |-> FALSE, vulnerability_score |-> score]

MessagesOf(script) ==
    UNION {{script[t][i] : i \in DOMAIN script[t]} : t \in DOMAIN script}

(* What the engine sees of them. *)
EventsOf(script) ==
    {EventOf(m) : m \in {x \in MessagesOf(script) : Parses(x)}}

OneBed == {1}
OneBedRow == [b \in OneBed |-> Row]
Taken == {[b \in OneBed |-> "occupied"]}

(* Bed 1 is freed and taken again; its terminal then forgets the status. *)
CheckOutCheckIn == <<Msg(1, "s1", 1, "AVAILABLE", 1),
                     Msg(2, "s1", 1, "OCCUPIED", 2)>>
NoStatus == <<Msg(3, "s1", 1, "BED_STATUS_UNSPECIFIED", 3)>>
(* One terminal behind one partition, for redelivery in every form. *)
OneTerminal == t1 :> CheckOutCheckIn \o NoStatus
OneTerminalMessages == MessagesOf(OneTerminal)
OneTerminalEvents == EventsOf(OneTerminal)
OnePartition == "s1" :> p1
Consumers == Permutations({c1, c2})

(* A terminal that first sends a message that never parses, and then frees its
   bed for a referral that may be waiting by then. *)
PoisonThenFree == t1 :> <<Msg(4, "s1", Malformed, "OCCUPIED", 1),
                          Msg(1, "s1", 1, "AVAILABLE", 2)>>
PoisonThenFreeMessages == MessagesOf(PoisonThenFree)
PoisonThenFreeEvents == EventsOf(PoisonThenFree)
Free == {[b \in OneBed |-> "available"]}
OneReferral == {r1}
OneNeed == r1 :> Needs(3)
NoNeeds == [r \in {} |-> Needs(0)]

=============================================================================
