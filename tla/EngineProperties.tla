-------------------------- MODULE EngineProperties --------------------------
(***************************************************************************)
(* What the matching engine must and must not do.                          *)
(***************************************************************************)
EXTENDS MatchingEngine

(* Every variable has the type of its column or of its local. *)
TypeOK ==
    /\ bedStatus \in [Bed -> BedStatus]
    /\ lastSeq \in [Bed -> Int]
    /\ refStatus \in [Referral -> {"absent", "pending", "matched"}]
    /\ createdAt \in [Referral -> Nat]
    /\ reservations \subseteq Reservation
    /\ appliedEvents \subseteq Event
    /\ pc \in [Proc -> Pc]
    /\ target \in [Proc -> Bed \cup {NoBed}]
    /\ queue \in [Proc -> SUBSET Referral]
    /\ passed \in [Proc -> SUBSET Referral]
    /\ chosen \in [Proc -> Referral \cup {NoReferral}]
    /\ tries \in [Referral -> Nat]
    /\ answer \in [Referral -> Answer]
    /\ current \in [Consumer -> Event \cup {NoEvent}]

-----------------------------------------------------------------------------
(* No bed has two open reservations and no referral has two, the checked-in
   ones counted, which the unique indexes of the migration do not see. *)
NoDoubleBooking ==
    \A x, y \in reservations :
        x # y => x.bed # y.bed /\ x.referral # y.referral

(* The three tables tell the same story: an open reservation has a matched
   referral and a bed that is reserved, or occupied once checked in ... *)
RowsAgree ==
    \A row \in reservations :
        /\ refStatus[row.referral] = "matched"
        /\ bedStatus[row.bed] = IF row.status = "active" THEN "reserved"
                                                         ELSE "occupied"

(* ... and no bed is reserved, no referral matched, without one. *)
NothingWithoutRow ==
    /\ \A b \in Bed : bedStatus[b] = "reserved" =>
          \E row \in reservations : row.bed = b /\ row.status = "active"
    /\ \A r \in Referral : refStatus[r] = "matched" =>
          \E row \in reservations : row.referral = r

(* The tables written by three separate statements always balance, whatever
   commits, rolls back or crashes. *)
BooksBalance == RowsAgree /\ NothingWithoutRow

(* The INSERT of allocate_for_bed never meets a unique index "as a real
   error", which the release of displaced reservations is there to avoid. *)
InsertNeverConflicts ==
    \A p \in Proc : pc[p] = "write" => UniqueIndexesAllow(target[p], chosen[p])

(* Whoever holds a bed, by the SQL filters and under every interleaving, is
   one the pure predicate allows, in the region asked for. *)
HoldersEligible ==
    \A row \in reservations :
        /\ is_eligible(BedRow[row.bed], ReferralRow[row.referral])
        /\ BedRow[row.bed].region = ReferralRow[row.referral].region

(* Duplicated, reordered and retried deliveries never move a bed back: it
   shows the newest event applied to it, or a booking made on top of it. *)
NewestEventWins ==
    \A b \in Bed :
        LET applied == {e \in appliedEvents : e.bed_id = b}
        IN  applied # {} =>
              \E e \in applied :
                  /\ \A f \in applied : f.sequence <= e.sequence
                  /\ lastSeq[b] = e.sequence
                  /\ bedStatus[b] \in {e.status} \cup
                        (IF e.status = "available" THEN {"reserved"} ELSE {})

(* The refinement mapping: open reservations are bookings. *)
Suits(b, r) == /\ is_eligible(BedRow[b], ReferralRow[r])
               /\ BedRow[b].region = ReferralRow[r].region

Holder == [b \in Bed |-> IF \E row \in reservations : row.bed = b
                         THEN (CHOOSE row \in reservations : row.bed = b).referral
                         ELSE NoReferral]

Waiting == {r \in Referral : refStatus[r] = "pending"}

Booking == INSTANCE BedBooking WITH
    Nobody <- NoReferral, status <- bedStatus, holder <- Holder,
    waiting <- Waiting

(* The engine keeps the promise of BedBooking: every step of every call is one
   booking, one arrival, one event about one bed, or nothing at all. *)
BookingSpec == Booking!Spec

-----------------------------------------------------------------------------
(* The referrals that p leaves waiting, unlocked, by giving its bed to one that
   comes after them by the vulnerability score and then by the arrival. *)
Overtaken(p) ==
    {h \in queue[p] :
        LET x == ReferralRow[h].vulnerability_score
            y == ReferralRow[chosen[p]].vulnerability_score
        IN  /\ refStatus[h] = "pending" /\ ~ ReferralLocked(h)
            /\ x > y \/ (x = y /\ createdAt[h] < createdAt[chosen[p]])}

AtRest == \A p \in Proc : pc[p] \in {"new", "done", "idle"}

(* A referral whose own call failed, or searched until its tries ran out, is
   considered only when something else tries a bed it suits. *)
GivenUp(r) == answer[r] = Failed \/ tries[r] >= MaxTries

(* A caller is never told "no bed" for a referral that holds one, or that gets
   one later of the beds there were: until an event frees a bed that suits it,
   a referral answered "pending" waits.  (A search that ends by its bound may
   be answered while its award is being committed.) *)
PendingAnswerFinal ==
    \A r \in Referral :
        /\ answer[r] = Pending /\ tries[r] < MaxTries
        /\ \A e \in appliedEvents : e.status = "available" => ~ Suits(e.bed_id, r)
        => refStatus[r] = "pending"

(* Every submission is answered, however the other calls interleave. *)
SubmitAnswers == \A r \in Referral : pc[r] = "search" ~> pc[r] = "done"

(* Every event received is handled to its end and its offset committed. *)
EventsHandled == \A c \in Consumer : pc[c] = "apply" ~> pc[c] = "idle"

-----------------------------------------------------------------------------
(* What the repository says and the code does not do; see the README. *)

(* A bed never goes to a referral while one that comes before it, pending when
   the award began, is still waiting and nobody is awarding it something else:
   "a referral submitted a second ago cannot jump ahead".  EngineHistory has
   what holds instead. *)
NoJumpAhead ==
    [][\A p \in Proc :
          pc[p] = "write" /\ refStatus'[chosen[p]] = "matched" =>
              Overtaken(p) = {}]_vars

(* A client goes back in line when the bed falls through before check-in; one
   who has checked in and leaves the bed free again has had the stay. *)
CheckOutEndsStay ==
    [][\A row \in reservations :
          /\ row.status = "checked_in"
          /\ \A x \in reservations' : x.bed # row.bed
          /\ bedStatus'[row.bed] = "available"
          => refStatus'[row.referral] # "pending"]_vars

=============================================================================
