---------------------------- MODULE Eligibility ----------------------------
(***************************************************************************)
(* The hard constraints that tie a referral to a bed, and the three places *)
(* of the matching engine that spell them out: the pure predicate          *)
(* is_eligible() of common/src/model.rs and the WHERE clauses of two SQL   *)
(* statements of matching-engine/src/matcher.rs.  A bed row here is the    *)
(* beds row joined with the region of its shelter.                         *)
(***************************************************************************)
EXTENDS Integers, Wire

BedAttributes ==
    [region            : STRING,
     unit_type         : UnitType,
     allows_pets       : BOOLEAN,
     sobriety_required : BOOLEAN,
     ada_accessible    : BOOLEAN]

ReferralNeeds ==
    [region               : STRING,
     unit_type_required   : UnitType,
     needs_pet_friendly   : BOOLEAN,
     needs_sobriety_free  : BOOLEAN,
     needs_ada_accessible : BOOLEAN,
     vulnerability_score  : Int]

-----------------------------------------------------------------------------
(* The Rust predicate: a sequence of early returns of false. *)
is_eligible(bed, referral) ==
    /\ bed.unit_type = referral.unit_type_required
    /\ ~ (referral.needs_pet_friendly /\ ~ bed.allows_pets)
    /\ ~ (referral.needs_sobriety_free /\ bed.sobriety_required)
    /\ ~ (referral.needs_ada_accessible /\ ~ bed.ada_accessible)

(* The unit type that allocate_for_bed compares referrals with: read from the
   beds row, parsed, and spelled out again. *)
BedUnitType(bed) == UnitTypeDbStr[UnitTypeFromDbStr[bed.unit_type]]

(* A broken ReferralFilter, the accessibility line lost in an edit: the
   specification does not use it, a run has to find it out. *)
FilterWithoutAda(bed, referral) ==
    /\ referral.region = bed.region
    /\ referral.unit_type_required = BedUnitType(bed)
    /\ referral.needs_pet_friendly = FALSE \/ bed.allows_pets = TRUE
    /\ referral.needs_sobriety_free = FALSE \/ bed.sobriety_required = FALSE

(* The referrals that allocate_for_bed considers for a bed. *)
ReferralFilter(bed, referral) ==
    /\ referral.region = bed.region
    /\ referral.unit_type_required = BedUnitType(bed)
    /\ referral.needs_pet_friendly = FALSE \/ bed.allows_pets = TRUE
    /\ referral.needs_sobriety_free = FALSE \/ bed.sobriety_required = FALSE
    /\ referral.needs_ada_accessible = FALSE \/ bed.ada_accessible = TRUE

(* The beds that submit_referral considers for a referral. *)
BedFilter(bed, referral) ==
    /\ bed.region = referral.region
    /\ bed.unit_type = referral.unit_type_required
    /\ bed.allows_pets = TRUE \/ referral.needs_pet_friendly = FALSE
    /\ bed.sobriety_required = FALSE \/ referral.needs_sobriety_free = FALSE
    /\ bed.ada_accessible = TRUE \/ referral.needs_ada_accessible = FALSE

=============================================================================
