-------------------------- MODULE MCMatchingEngine --------------------------
(* Small instances of the matching engine for TLC. *)
EXTENDS EngineProperties

CONSTANTS r1, r2, r3, c1, c2

Row(pets, ada) ==
    [region |-> "north", unit_type |-> "general", allows_pets |-> pets,
     sobriety_required |-> FALSE, ada_accessible |-> ada]

Needs(pets, ada, score) ==
    [region |-> "north", unit_type_required |-> "general",
     needs_pet_friendly |-> pets, needs_sobriety_free |-> FALSE,
     needs_ada_accessible |-> ada, vulnerability_score |-> score]

Ev(id, bed, status, seq) ==
    [event_id |-> id, bed_id |-> bed, status |-> status, sequence |-> seq]

(* Bed 1 suits whoever needs no step-free access, bed 2 suits everybody. *)
TwoBeds == {1, 2}
TwoBedRow == [b \in TwoBeds |-> IF b = 1 THEN Row(TRUE, FALSE)
                                         ELSE Row(TRUE, TRUE)]
AllFree(B) == {[b \in B |-> "available"]}
TwoFree == AllFree(TwoBeds)

(* The second referral is the more vulnerable and can only take bed 2. *)
TwoReferrals == {r1, r2}
TwoNeeds == [r \in TwoReferrals |-> IF r = r1 THEN Needs(FALSE, FALSE, 3)
                                              ELSE Needs(FALSE, TRUE, 7)]

(* A check-in, the check-out or no-show after it, on the bed both want; a
   repair of the other bed; a bed nobody knows. *)
StayEvents == {Ev(1, 2, "occupied", 1), Ev(2, 2, "available", 2),
               Ev(3, 1, "maintenance", 1), Ev(4, 9, "available", 1)}

(* Three beds and three referrals for priority and progress: bed 1 is occupied
   until its one event frees it, and the most vulnerable referral, which needs
   step-free access, can only take bed 3. *)
ThreeBeds == {1, 2, 3}
ThreeBedRow == [b \in ThreeBeds |-> Row(TRUE, b = 3)]
FirstTaken == {[b \in ThreeBeds |-> IF b = 1 THEN "occupied"
                                              ELSE "available"]}
ThreeReferrals == {r1, r2, r3}
ThreeNeeds == [r \in ThreeReferrals |-> IF r = r1 THEN Needs(FALSE, FALSE, 3)
                                        ELSE IF r = r2
                                             THEN Needs(TRUE, FALSE, 5)
                                             ELSE Needs(FALSE, TRUE, 7)]
FirstFreed == {Ev(1, 1, "available", 1)}

(* Two referrals of the same score, and an event that takes bed 3 from whoever
   holds it. *)
TiedNeeds == [r \in ThreeReferrals |-> IF r = r3 THEN Needs(FALSE, TRUE, 7)
                                                 ELSE Needs(FALSE, FALSE, 5)]
FirstAndThirdFreed == FirstFreed \cup {Ev(2, 3, "available", 1)}

(* One stay, from check-in to check-out. *)
OneStay == {Ev(1, 1, "occupied", 1), Ev(2, 1, "available", 2)}

KnownAndUnknown == {1, 2, 9}

=============================================================================
