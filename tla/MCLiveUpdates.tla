--------------------------- MODULE MCLiveUpdates ---------------------------
(* Small instances of the notification path for TLC. *)
EXTENDS LiveUpdates, TLC

CONSTANTS r1, r2, c1, s1, s2

Row(region) ==
    [region |-> region, unit_type |-> "general", allows_pets |-> TRUE,
     sobriety_required |-> FALSE, ada_accessible |-> FALSE]
Needs(region, score) ==
    [region |-> region, unit_type_required |-> "general",
     needs_pet_friendly |-> FALSE, needs_sobriety_free |-> FALSE,
     needs_ada_accessible |-> FALSE, vulnerability_score |-> score]
Ev(id, bed, status, seq) ==
    [event_id |-> id, bed_id |-> bed, status |-> status, sequence |-> seq]

(* Two beds of one region, the second occupied until its events free it. *)
Beds == {1, 2}
SameRegion == [b \in Beds |-> Row("north")]
OneFree == {[b \in Beds |-> IF b = 1 THEN "available" ELSE "occupied"]}
TwoReferrals == {r1, r2}
TwoNeeds == (r1 :> Needs("north", 3)) @@ (r2 :> Needs("north", 7))
SecondFreed == {Ev(1, 2, "available", 1)}
NoneFree == {[b \in Beds |-> "occupied"]}
FirstFreed == {Ev(1, 1, "available", 1)}
Everything == [s \in {s1, s2} |-> ""]
OneReferral == {r1}
OneNeed == r1 :> Needs("north", 3)

(* A bed in each of two regions, and a subscriber who asked for one region. *)
TwoRegions == (1 :> Row("north")) @@ (2 :> Row("south"))
SouthOnly == (s1 :> "") @@ (s2 :> "south")
BothReported == {Ev(1, 2, "available", 1), Ev(2, 1, "occupied", 1)}

=============================================================================
