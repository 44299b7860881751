---------------------------- MODULE EngineHistory ----------------------------
(***************************************************************************)
(* The matching engine with a memory: which free beds a referral missed by *)
(* losing another one.                                                     *)
(*                                                                         *)
(* A bed is offered when an event frees it and when a search finds it.     *)
(* Nothing is offered to a referral that loses the bed it holds or is      *)
(* being given: it waits again, and the beds that stood free while it did  *)
(* not need them are offered to it only by an event about them, or by the  *)
(* search of another.  The properties below are about every step of the    *)
(* engine; they let off such a bed and such a referral, and nobody else.   *)
(***************************************************************************)
EXTENDS EngineProperties

VARIABLE
    missed      \* [Bed -> the referrals that lost another bed while this one
                \*  stood free, and since when no event freed it]

(* Referral r loses a bed other than b: it is waiting after the step, and
   before it held that bed or was being awarded it. *)
LosesAnother(b, r) ==
    /\ refStatus'[r] = "pending"
    /\ \/ \E row \in reservations : row.referral = r /\ row.bed # b
       \/ \E q \in Proc : /\ pc[q] = "write" /\ pc'[q] # "write"
                          /\ chosen[q] = r /\ target[q] # b

Remember ==
    missed' = [b \in Bed |->
        {r \in Referral :
            /\ bedStatus'[b] = "available" /\ refStatus'[r] = "pending"
            /\ Suits(b, r)
            /\ \/ LosesAnother(b, r)
               \/ r \in missed[b] /\ lastSeq'[b] = lastSeq[b]}]

NothingMissed == missed = [b \in Bed |-> {}]

RememberingSpec ==
    Init /\ NothingMissed /\ [][Next /\ Remember]_<<vars, missed>>

-----------------------------------------------------------------------------
(* A bed goes to the referral that comes first, by its vulnerability score and
   then by its arrival, of those that were pending when the award began, are
   still waiting and are not being awarded another.  The exception is one that
   had another bed, or the promise of one, when the walk of allocate_for_bed
   came to it, and has lost that since. *)
PriorityKept ==
    [][\A p \in Proc :
          pc[p] = "write" /\ refStatus'[chosen[p]] = "matched" =>
              Overtaken(p) \subseteq passed[p] \cap missed[target[p]]
      ]_<<vars, missed>>

(* Bed b stands free, and r could have it, wants it and has not missed it. *)
Stranded(b, r) ==
    /\ bedStatus[b] = "available"
    /\ r \in PendingFor(b) \ missed[b]
    /\ ~ GivenUp(r)

(* When no call is running, no bed stands empty that a waiting referral could
   have, but one it has missed: the two triggers of allocate_for_bed are enough
   for the rest. *)
NoStrandedBed ==
    AtRest => \A b \in Bed, r \in Referral : ~ Stranded(b, r)

=============================================================================
