--------------------------- MODULE BookingProofs ---------------------------
(***************************************************************************)
(* The matching engine implements BedBooking: under the mapping of         *)
(* EngineProperties, its steps are bookings, arrivals, events about one    *)
(* bed, or steps that nobody outside can see.                              *)
(***************************************************************************)
EXTENDS EngineProofs

-----------------------------------------------------------------------------
(* Who holds what, as a function of the rows alone, so that the facts below
   serve the rows before and after a step. *)

HolderIn(rows) == [b \in Bed |-> IF \E row \in rows : row.bed = b
                                 THEN (CHOOSE row \in rows : row.bed = b).referral
                                 ELSE NoReferral]

OnePerBed(rows) == \A x, y \in rows : x.bed = y.bed => x = y

LEMMA HolderIsHolderIn ==
    Holder = HolderIn(reservations) /\ Holder' = HolderIn(reservations')
BY DEF Holder, HolderIn

LEMMA HolderIsFunction ==
    ASSUME NEW rows
    PROVE  HolderIn(rows) = [b \in Bed |-> HolderIn(rows)[b]]
BY DEF HolderIn

(* The holder of a bed is the referral of its only row. *)
LEMMA HolderOfRow ==
    ASSUME NEW rows, OnePerBed(rows), NEW row \in rows, row.bed \in Bed
    PROVE  HolderIn(rows)[row.bed] = row.referral
<1>1. \A x \in rows : x.bed = row.bed => x = row
  BY DEF OnePerBed
<1>2. (CHOOSE x \in rows : x.bed = row.bed) = row
  BY <1>1
<1> QED
  BY <1>2 DEF HolderIn

LEMMA NoHolder ==
    ASSUME NEW rows, NEW b \in Bed, \A row \in rows : row.bed # b
    PROVE  HolderIn(rows)[b] = NoReferral
BY DEF HolderIn

(* A bed whose row keeps its referral keeps its holder. *)
LEMMA SameHolder ==
    ASSUME NEW R, NEW S, OnePerBed(R), OnePerBed(S), NEW b \in Bed,
           \A x \in R : x.bed = b =>
              \E y \in S : y.bed = b /\ y.referral = x.referral,
           \A y \in S : y.bed = b => \E x \in R : x.bed = b
    PROVE  HolderIn(S)[b] = HolderIn(R)[b]
<1>1. CASE \E x \in R : x.bed = b
  <2>1. PICK x \in R : x.bed = b
    BY <1>1
  <2>2. PICK y \in S : y.bed = b /\ y.referral = x.referral
    BY <2>1
  <2> QED
    BY <2>1, <2>2, HolderOfRow
<1>2. CASE \A x \in R : x.bed # b
  BY <1>2, NoHolder
<1> QED
  BY <1>1, <1>2

(* What the invariant says of the rows. *)
LEMMA RowFacts ==
    ASSUME IInv
    PROVE  /\ reservations \subseteq Reservation
           /\ OnePerBed(reservations)
           /\ \A row \in reservations :
                 /\ row.bed \in Bed /\ row.referral \in Referral
                 /\ refStatus[row.referral] = "matched"
                 /\ bedStatus[row.bed] \in {"reserved", "occupied"}
                 /\ Holder[row.bed] = row.referral
<1>1. reservations \subseteq Reservation
  BY DEF IInv, Typed, TypeOK
<1>2. OnePerBed(reservations)
  BY DEF IInv, RowsOK, NoDoubleBooking, OnePerBed
<1> QED
  BY <1>1, <1>2, HolderIsHolderIn, HolderOfRow
     DEF IInv, RowsOK, BooksBalance, RowsAgree, Reservation

-----------------------------------------------------------------------------
LEMMA InitBooking == Init => Booking!Init
<1> SUFFICES ASSUME Init PROVE Booking!Init
  OBVIOUS
<1>1. Holder = [b \in Bed |-> NoReferral]
  BY DEF Init, Holder
<1>2. Waiting = {}
  BY DEF Init, Waiting
<1> QED
  BY <1>1, <1>2 DEF Init, Booking!Init

LEMMA Unseen ==
    UNCHANGED <<bedStatus, reservations, refStatus>> => UNCHANGED Booking!vars
BY DEF Booking!vars, Holder, Waiting

(* The INSERT of a referral is its arrival. *)
LEMMA InsertArrives ==
    ASSUME IInv, NEW r \in Referral, InsertReferral(r)
    PROVE  Booking!Arrive(r)
<1>1. refStatus[r] = "absent" /\ DOMAIN refStatus = Referral
  BY DEF InsertReferral, IInv, LocksOK, NewIsAbsent, Typed, TypeOK
<1>2. /\ refStatus' = [refStatus EXCEPT ![r] = "pending"]
      /\ UNCHANGED <<bedStatus, reservations>>
  BY DEF InsertReferral
<1>3. Waiting' = Waiting \cup {r}
  BY <1>1, <1>2 DEF Waiting
<1>4. UNCHANGED <<bedStatus, Holder>>
  BY <1>2 DEF Holder
<1>5. \A b \in Bed : Holder[b] # r
  <2> SUFFICES ASSUME NEW b \in Bed PROVE Holder[b] # r
    OBVIOUS
  <2>1. CASE \E row \in reservations : row.bed = b
    <3>1. PICK row \in reservations : row.bed = b
      BY <2>1
    <3>2. Holder[b] = row.referral /\ refStatus[row.referral] = "matched"
      BY <3>1, RowFacts
    <3> QED
      BY <1>1, <3>2
  <2>2. CASE \A row \in reservations : row.bed # b
    BY <2>2, NoHolder, HolderIsHolderIn, ProcAssumption
  <2> QED
    BY <2>1, <2>2
<1>6. r \notin Waiting
  BY <1>1 DEF Waiting
<1> QED
  BY <1>3, <1>4, <1>5, <1>6 DEF Booking!Arrive, Booking!Held

(* The commit of an allocation is a booking. *)
LEMMA AwardBooks ==
    ASSUME IInv, IInv', NEW b \in Bed, NEW r \in Referral,
           bedStatus[b] = "available", refStatus[r] = "pending",
           ReferralFilter(BedRow[b], ReferralRow[r]), Award(b, r)
    PROVE  Booking!Book(b, r)
<1> DEFINE new == [bed |-> b, referral |-> r, status |-> "active"]
<1>1. /\ reservations' = reservations \cup {new}
      /\ bedStatus' = [bedStatus EXCEPT ![b] = "reserved"]
      /\ refStatus' = [refStatus EXCEPT ![r] = "matched"]
      /\ DOMAIN refStatus = Referral
  BY DEF Award, IInv, Typed, TypeOK
<1>2. OnePerBed(reservations) /\ OnePerBed(reservations')
  BY DEF IInv, RowsOK, NoDoubleBooking, OnePerBed
<1>3. \A row \in reservations : row.bed # b
  BY RowFacts
<1>4. Holder[b] = NoReferral
  BY <1>3, NoHolder, HolderIsHolderIn
<1>5. Holder' = [Holder EXCEPT ![b] = r]
  <2>1. HolderIn(reservations')[b] = r
    <3>1. new \in reservations' /\ new.bed = b /\ new.referral = r
      BY <1>1
    <3> HIDE DEF new
    <3> QED
      BY <1>2, <3>1, HolderOfRow
  <2>2. \A c \in Bed \ {b} :
            HolderIn(reservations')[c] = HolderIn(reservations)[c]
    BY <1>1, <1>2, SameHolder
  <2>3. HolderIn(reservations') = [HolderIn(reservations) EXCEPT ![b] = r]
    BY <2>1, <2>2, HolderIsFunction
  <2> QED
    BY <2>3, HolderIsHolderIn
<1>6. r \in Waiting /\ Waiting' = Waiting \ {r}
  BY <1>1 DEF Waiting
<1>7. Suits(b, r)
  BY ReferralFilterAgrees, BedAssumption, ProcAssumption DEF Suits
<1> QED
  BY <1>1, <1>4, <1>5, <1>6, <1>7 DEF Booking!Book

(* An occupied event keeps the holder of the bed, another one sends it back
   to those who wait. *)
LEMMA ApplyOccupiesOrVacates ==
    ASSUME IInv, IInv', NEW e \in Event, ApplyWrites(e)
    PROVE  Booking!Occupy(e.bed_id) \/ Booking!Vacate(e.bed_id)
<1> DEFINE b == e.bed_id
<1>1. /\ b \in Bed
      /\ bedStatus' = [bedStatus EXCEPT ![b] = e.status]
  BY DEF ApplyWrites, KnownBed
<1>2. OnePerBed(reservations) /\ OnePerBed(reservations')
  BY DEF IInv, RowsOK, NoDoubleBooking, OnePerBed
<1>3. CASE e.status = "occupied" /\ CheckInRows(b) /\ UNCHANGED refStatus
  <2> DEFINE In(row) == [row EXCEPT !.status = "checked_in"]
  <2>1. \A x \in reservations :
            In(x).bed = x.bed /\ In(x).referral = x.referral
    BY RowFacts DEF Reservation
  <2>2. \A x \in reservations : x \in reservations' \/ In(x) \in reservations'
    BY <1>3 DEF CheckInRows, ActiveRows
  <2>3. \A y \in reservations' :
            \E x \in reservations : y = x \/ y = In(x)
    BY <1>3 DEF CheckInRows, ActiveRows
  <2> HIDE DEF In
  <2>4. \A c \in Bed :
            HolderIn(reservations')[c] = HolderIn(reservations)[c]
    <3> SUFFICES ASSUME NEW c \in Bed
                 PROVE  HolderIn(reservations')[c] = HolderIn(reservations)[c]
      OBVIOUS
    <3>1. \A x \in reservations : x.bed = c =>
              \E y \in reservations' : y.bed = c /\ y.referral = x.referral
      BY <2>1, <2>2
    <3>2. \A y \in reservations' : y.bed = c => \E x \in reservations : x.bed = c
      BY <2>1, <2>3
    <3> QED
      BY <1>2, <3>1, <3>2, SameHolder
  <2>5. HolderIn(reservations') = HolderIn(reservations)
    BY <2>4, HolderIsFunction
  <2>6. UNCHANGED <<Holder, Waiting>>
    BY <1>3, <2>5, HolderIsHolderIn DEF Waiting
  <2> QED
    BY <1>1, <1>3, <2>6 DEF Booking!Occupy
<1>4. CASE /\ e.status \in {"available", "maintenance"}
           /\ reservations' = reservations \ ReleasedRows(b)
           /\ Displace(ReleasedRows(b))
  <2>1. reservations' = {row \in reservations : row.bed # b}
    BY <1>4, RowFacts DEF ReleasedRows, Reservation
  <2>2. Holder' = [Holder EXCEPT ![b] = NoReferral]
    <3>1. HolderIn(reservations')[b] = NoReferral
      BY <1>1, <2>1, NoHolder
    <3>2. \A c \in Bed \ {b} :
              HolderIn(reservations')[c] = HolderIn(reservations)[c]
      BY <1>2, <2>1, SameHolder
    <3>3. HolderIn(reservations') = [HolderIn(reservations) EXCEPT
                                          ![b] = NoReferral]
      BY <3>1, <3>2, HolderIsFunction
    <3> QED
      BY <3>3, HolderIsHolderIn
  <2>3. \A r \in Referral :
            refStatus'[r] = IF \E row \in reservations :
                                  row.bed = b /\ row.referral = r
                            THEN "pending" ELSE refStatus[r]
    BY <1>1, <1>4, DisplacedReferral
  <2>4. Waiting' = Waiting \cup ({Holder[b]} \ {NoReferral})
    <3>1. CASE \E row \in reservations : row.bed = b
      <4>1. PICK row \in reservations : row.bed = b
        BY <3>1
      <4>2. Holder[b] = row.referral /\ row.referral \in Referral
        BY <4>1, RowFacts
      <4>3. \A r \in Referral :
                (\E x \in reservations : x.bed = b /\ x.referral = r)
                   <=> r = row.referral
        BY <1>2, <4>1 DEF OnePerBed
      <4> QED
        BY <2>3, <4>2, <4>3, ProcAssumption DEF Waiting
    <3>2. CASE \A row \in reservations : row.bed # b
      BY <1>1, <2>3, <3>2, NoHolder, HolderIsHolderIn DEF Waiting
    <3> QED
      BY <3>1, <3>2
  <2> QED
    BY <1>1, <1>4, <2>2, <2>4 DEF Booking!Vacate
<1> QED
  BY <1>3, <1>4 DEF ApplyWrites

-----------------------------------------------------------------------------
LEMMA WriteBooks ==
    ASSUME IInv, IInv', NEW p \in Proc, pc[p] = "write",
           Award(target[p], chosen[p])
    PROVE  Booking!Next
<1>1. /\ target[p] \in Bed /\ chosen[p] \in Referral
      /\ bedStatus[target[p]] = "available" /\ refStatus[chosen[p]] = "pending"
      /\ ReferralFilter(BedRow[target[p]], ReferralRow[chosen[p]])
  BY DEF IInv, Typed, CallsOK, LocksOK, LocksProtect, InTransaction
<1>2. Booking!Book(target[p], chosen[p])
  BY <1>1, AwardBooks
<1> QED
  BY <1>1, <1>2 DEF Booking!Next

LEMMA ApplySteps ==
    ASSUME IInv, IInv', NEW c \in Consumer, pc[c] = "apply",
           ApplyWrites(current[c])
    PROVE  Booking!Next
<1>1. current[c] \in Event /\ current[c].bed_id \in Bed
  BY DEF IInv, Typed, CallsOK, ApplyWrites, KnownBed
<1> QED
  BY <1>1, ApplyOccupiesOrVacates DEF Booking!Next

LEMMA NextBooking ==
    IInv /\ IInv' /\ [Next]_vars => [Booking!Next]_(Booking!vars)
<1> SUFFICES ASSUME IInv, IInv', [Next]_vars
             PROVE  Booking!Next \/ UNCHANGED Booking!vars
  OBVIOUS
<1>1. CASE UNCHANGED vars
  BY <1>1, Unseen DEF vars
<1>2. ASSUME NEW r \in Referral, submit_referral(r)
      PROVE  Booking!Next \/ UNCHANGED Booking!vars
  <2>1. CASE InsertReferral(r)
    BY <2>1, InsertArrives DEF Booking!Next
  <2>2. CASE FindCandidate(r) \/ StopSearching(r) \/ resolve_final_outcome(r)
    BY <2>2, Unseen
       DEF FindCandidate, StopSearching, resolve_final_outcome, tables
  <2> QED
    BY <1>2, <2>1, <2>2 DEF submit_referral
<1>3. ASSUME NEW p \in Proc, allocate_for_bed(p)
      PROVE  Booking!Next \/ UNCHANGED Booking!vars
  <2>1. CASE CommitAllocation(p)
    BY <2>1, WriteBooks DEF CommitAllocation
  <2>2. CASE LockBed(p) \/ BedUnavailable(p) \/ ScanReferrals(p)
                \/ PickReferral(p) \/ SkipReferral(p) \/ NoneEligible(p)
    BY <2>2, Unseen
       DEF LockBed, BedUnavailable, ScanReferrals, PickReferral, SkipReferral,
           NoneEligible, tables
  <2> QED
    BY <1>3, <2>1, <2>2 DEF allocate_for_bed
<1>4. ASSUME NEW c \in Consumer, apply_and_notify(c)
      PROVE  Booking!Next \/ UNCHANGED Booking!vars
  <2>1. CASE ApplyFresh(c)
    BY <2>1, ApplySteps DEF ApplyFresh
  <2>2. CASE Receive(c) \/ ApplyDuplicate(c) \/ ApplyUnknownBed(c)
                \/ ApplyStale(c) \/ Ack(c)
    BY <2>2, Unseen
       DEF Receive, ApplyDuplicate, ApplyUnknownBed, ApplyStale, Ack, tables
  <2> QED
    BY <1>4, <2>1, <2>2 DEF apply_and_notify
<1>5. CASE Crash
  BY <1>5, Unseen DEF Crash, tables
<1>6. ASSUME NEW p \in Proc, DbError(p) \/ CommitReplyLost(p)
      PROVE  Booking!Next \/ UNCHANGED Booking!vars
  <2>1. CASE DbError(p)
    BY <2>1, Unseen DEF DbError, tables
  <2>2. CASE CommitReplyLost(p)
    <3>1. CASE pc[p] = "write" /\ Award(target[p], chosen[p])
      BY <3>1, WriteBooks
    <3>2. CASE pc[p] = "apply" /\ ApplyWrites(current[p])
      <4>1. p \in Consumer
        BY <3>2, ProcKinds DEF IInv, Typed, CallsOK
      <4> QED
        BY <3>2, <4>1, ApplySteps
    <3> QED
      BY <2>2, <3>1, <3>2 DEF CommitReplyLost
  <2> QED
    BY <1>6, <2>1, <2>2
<1> QED
  BY <1>1, <1>2, <1>3, <1>4, <1>5, <1>6 DEF Next, Fault

(* Every behaviour of the engine, with all its interleavings and failures, is
   one of BedBooking: what clients and shelters see is one booking, one
   arrival or one event about one bed at a time. *)
THEOREM ImplementsBooking == Spec => BookingSpec
<1>1. Init => Booking!Init
  BY InitBooking
<1>2. IInv /\ IInv' /\ [Next]_vars => [Booking!Next]_(Booking!vars)
  BY NextBooking
<1> QED
  BY <1>1, <1>2, Safety, PTL DEF Spec, BookingSpec, Booking!Spec

=============================================================================
