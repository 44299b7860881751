------------------------- MODULE EligibilityProofs -------------------------
(***************************************************************************)
(* The two SQL filters and the Rust predicate say the same thing.          *)
(***************************************************************************)
EXTENDS Eligibility, TLAPS

(* A unit type the CHECK constraint lets into a row is parsed by from_db_str and
   spelled the same by as_db_str: reading a row and comparing with its column
   again loses nothing, and the parse never fails. *)
THEOREM UnitTypeRoundTrip ==
    \A text \in UnitType :
        /\ text \in DOMAIN UnitTypeFromDbStr
        /\ UnitTypeDbStr[UnitTypeFromDbStr[text]] = text
BY DEF UnitType, UnitTypeDbStr, UnitTypeFromDbStr

(* Whatever a caller puts into the unit_type_required of a request, the text
   written to the referrals row satisfies its CHECK constraint. *)
THEOREM UnitTypeWritable ==
    \A u \in ProtoUnitType : UnitTypeDbStr[UnitTypeFromProto[u]] \in UnitType
BY DEF ProtoUnitType, UnitTypeFromProto, UnitTypeDbStr, UnitType

(* For every bed and every referral, the WHERE clause of allocate_for_bed
   selects the referral exactly when is_eligible() holds and the regions
   agree: the debug_assert of matcher.rs about the two having "drifted apart"
   can never fire. *)
THEOREM ReferralFilterAgrees ==
    ASSUME NEW bed \in BedAttributes, NEW referral \in ReferralNeeds
    PROVE  ReferralFilter(bed, referral)
              <=> /\ is_eligible(bed, referral)
                  /\ bed.region = referral.region
<1>1. BedUnitType(bed) = bed.unit_type
  BY UnitTypeRoundTrip DEF BedUnitType, BedAttributes
<1> QED
  BY <1>1 DEF ReferralFilter, is_eligible, BedAttributes, ReferralNeeds

(* The candidate query of submit_referral looks for a bed exactly where
   allocate_for_bed would consider the referral: a search neither misses a bed
   that it could win nor tries one that it could not. *)
THEOREM FiltersAgree ==
    ASSUME NEW bed \in BedAttributes, NEW referral \in ReferralNeeds
    PROVE  BedFilter(bed, referral) <=> ReferralFilter(bed, referral)
<1>1. BedUnitType(bed) = bed.unit_type
  BY UnitTypeRoundTrip DEF BedUnitType, BedAttributes
<1> QED
  BY <1>1 DEF BedFilter, ReferralFilter, BedAttributes, ReferralNeeds

=============================================================================
