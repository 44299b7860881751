---------------------------- MODULE EngineProofs ----------------------------
(***************************************************************************)
(* The safety of the matching engine, for any number of beds, referrals,   *)
(* consumers and events, and under every failure of the model.             *)
(***************************************************************************)
EXTENDS EngineProperties, EligibilityProofs, FiniteSetTheorems, TLAPS

-----------------------------------------------------------------------------
(* The inductive invariant, part by part. *)

(* A submission is never where only a consumer can be; a consumer that is not
   idle has an event, a call in allocate_for_bed has a bed, and no event was
   applied to a bed that does not exist. *)
CallsOK ==
    /\ \A r \in Referral : pc[r] \notin {"idle", "apply", "ack"}
    /\ \A c \in Consumer : pc[c] # "idle" => current[c] \in Event
    /\ \A p \in Proc : pc[p] \in {"lock", "scan", "pick", "write"}
                          => target[p] \in Bed
    /\ \A p \in Proc : pc[p] = "write" => chosen[p] \in Referral
    /\ \A e \in appliedEvents : e.bed_id \in Bed

Typed == TypeOK /\ CallsOK

-----------------------------------------------------------------------------
(* Both kinds of process are processes, and no process is of both. *)
LEMMA ProcKinds ==
    /\ \A r \in Referral : r \in Proc /\ r \notin Consumer
    /\ \A c \in Consumer : c \in Proc /\ c \notin Referral
    /\ \A p \in Proc : p \in Referral \/ p \in Consumer
BY ProcAssumption DEF Proc

(* Ranks of arrival are numbers: finitely many referrals are ever present. *)
LEMMA ArrivalRank ==
    1 + Cardinality({s \in Referral : refStatus[s] # "absent"}) \in Nat
<1> DEFINE P == {s \in Referral : refStatus[s] # "absent"}
<1>1. IsFiniteSet(P)
  BY FS_Subset, ProcAssumption
<1>2. Cardinality(P) \in Nat
  BY <1>1, FS_CardinalityType
<1> QED
  BY <1>2

LEMMA InitTyped == Init => Typed
<1> SUFFICES ASSUME Init PROVE Typed
  OBVIOUS
<1>1. TypeOK
  <2>1. bedStatus \in [Bed -> BedStatus]
    BY BedAssumption DEF Init, BedStatus
  <2>2. answer \in [Referral -> Answer]
    BY DEF Init, Answer, Silent
  <2>3. pc \in [Proc -> Pc]
    BY DEF Init, Pc
  <2> QED
    BY <2>1, <2>2, <2>3 DEF Init, TypeOK
<1>2. CallsOK
  BY ProcKinds DEF Init, CallsOK
<1> QED
  BY <1>1, <1>2 DEF Typed

(* The transaction of a call ends: its locals keep their types. *)
LEMMA EndTyped ==
    ASSUME Typed, NEW p \in Proc, EndTransaction(p)
    PROVE  /\ target' \in [Proc -> Bed \cup {NoBed}]
           /\ queue' \in [Proc -> SUBSET Referral]
           /\ passed' \in [Proc -> SUBSET Referral]
           /\ chosen' \in [Proc -> Referral \cup {NoReferral}]
           /\ \A q \in Proc \ {p} : target'[q] = target[q] /\ chosen'[q] = chosen[q]
BY DEF EndTransaction, Typed, TypeOK

(* The tables have their types after a step. *)
TablesTyped ==
    /\ bedStatus \in [Bed -> BedStatus]
    /\ lastSeq \in [Bed -> Int]
    /\ refStatus \in [Referral -> {"absent", "pending", "matched"}]
    /\ createdAt \in [Referral -> Nat]
    /\ reservations \subseteq Reservation
    /\ appliedEvents \subseteq Event
    /\ \A e \in appliedEvents : e.bed_id \in Bed

LEMMA AwardTyped ==
    ASSUME Typed, NEW b \in Bed, NEW r \in Referral, Award(b, r)
    PROVE  TablesTyped'
BY DEF Award, TablesTyped, Typed, TypeOK, CallsOK, BedStatus, Reservation

LEMMA ApplyTyped ==
    ASSUME Typed, NEW e \in Event, ApplyWrites(e)
    PROVE  e.bed_id \in Bed /\ TablesTyped'
<1>1. e.bed_id \in Bed /\ e.status \in EventStatus /\ e.sequence \in Int
  BY EventAssumption DEF ApplyWrites, KnownBed, EventType
<1>2. reservations' \subseteq Reservation
  <2>1. CASE e.status = "occupied"
    BY <1>1, <2>1 DEF ApplyWrites, CheckInRows, ActiveRows, Typed, TypeOK,
                      Reservation
  <2>2. CASE e.status \in {"available", "maintenance"}
    BY <1>1, <2>2 DEF ApplyWrites, Typed, TypeOK
  <2> QED
    BY <2>1, <2>2 DEF ApplyWrites
<1>3. refStatus' \in [Referral -> {"absent", "pending", "matched"}]
  <2>1. CASE UNCHANGED refStatus
    BY <2>1 DEF Typed, TypeOK
  <2>2. CASE Displace(ReleasedRows(e.bed_id))
    BY <2>2 DEF Displace, ReleasedRows, Typed, TypeOK, Reservation
  <2> QED
    BY <2>1, <2>2 DEF ApplyWrites
<1> QED
  BY <1>1, <1>2, <1>3
     DEF ApplyWrites, TablesTyped, Typed, TypeOK, CallsOK, BedStatus,
         EventStatus

LEMMA SubmitTyped ==
    ASSUME Typed, NEW r \in Referral, submit_referral(r)
    PROVE  Typed'
<1> USE ProcKinds
<1>1. CASE InsertReferral(r)
  <2>1. createdAt' \in [Referral -> Nat]
    BY <1>1, ArrivalRank DEF InsertReferral, Typed, TypeOK
  <2>2. refStatus' \in [Referral -> {"absent", "pending", "matched"}]
    BY <1>1 DEF InsertReferral, Typed, TypeOK
  <2>3. pc' \in [Proc -> Pc] /\ CallsOK'
    BY <1>1 DEF InsertReferral, Typed, TypeOK, CallsOK, Pc
  <2> QED
    BY <1>1, <2>1, <2>2, <2>3 DEF InsertReferral, Typed, TypeOK
<1>2. CASE FindCandidate(r)
  <2>1. PICK b \in CandidateBeds(r) : target' = [target EXCEPT ![r] = b]
    BY <1>2 DEF FindCandidate
  <2>2. b \in Bed
    BY DEF CandidateBeds
  <2>3. pc' \in [Proc -> Pc] /\ target' \in [Proc -> Bed \cup {NoBed}] /\ CallsOK'
    BY <1>2, <2>1, <2>2 DEF FindCandidate, Typed, TypeOK, CallsOK, Pc, tables
  <2>4. tries' \in [Referral -> Nat]
    BY <1>2 DEF FindCandidate, NextTry, Typed, TypeOK
  <2> QED
    BY <1>2, <2>3, <2>4 DEF FindCandidate, Typed, TypeOK, tables
<1>3. CASE StopSearching(r)
  BY <1>3 DEF StopSearching, Typed, TypeOK, CallsOK, Pc, tables
<1>4. CASE resolve_final_outcome(r)
  <2>1. answer' \in [Referral -> Answer]
    <3>1. Pending \in Answer
      BY DEF Pending, Answer
    <3>2. \A row \in HeldBy(r) : Matched(row.bed) \in Answer
      BY DEF HeldBy, Matched, Answer, Typed, TypeOK, Reservation
    <3> QED
      BY <1>4, <3>1, <3>2 DEF resolve_final_outcome, Typed, TypeOK
  <2> QED
    BY <1>4, <2>1 DEF resolve_final_outcome, Typed, TypeOK, CallsOK, Pc, tables
<1> QED
  BY <1>1, <1>2, <1>3, <1>4 DEF submit_referral

LEMMA AllocateTyped ==
    ASSUME Typed, NEW p \in Proc, allocate_for_bed(p)
    PROVE  Typed'
<1> USE ProcKinds
<1>1. CASE LockBed(p)
  BY <1>1 DEF LockBed, Typed, TypeOK, CallsOK, Pc, tables
<1>2. CASE BedUnavailable(p)
  BY <1>2, EndTyped
     DEF BedUnavailable, Unallocated, Typed, TypeOK, CallsOK, Pc, tables
<1>3. CASE ScanReferrals(p)
  BY <1>3 DEF ScanReferrals, PendingFor, Typed, TypeOK, CallsOK, Pc, tables
<1>4. CASE PickReferral(p)
  BY <1>4 DEF PickReferral, Typed, TypeOK, CallsOK, Pc, tables
<1>5. CASE SkipReferral(p)
  BY <1>5 DEF SkipReferral, Typed, TypeOK, CallsOK, Pc, tables
<1>6. CASE NoneEligible(p)
  BY <1>6, EndTyped
     DEF NoneEligible, Unallocated, Typed, TypeOK, CallsOK, Pc, tables
<1>7. CASE CommitAllocation(p)
  <2>1. target[p] \in Bed /\ chosen[p] \in Referral
    BY <1>7 DEF CommitAllocation, Typed, CallsOK
  <2>2. TablesTyped'
    BY <1>7, <2>1, AwardTyped DEF CommitAllocation
  <2>3. answer' \in [Referral -> Answer]
    BY <1>7, <2>1 DEF CommitAllocation, Matched, Answer, Typed, TypeOK
  <2>4. pc' \in [Proc -> Pc] /\ CallsOK'
    BY <1>7, <2>1, EndTyped
       DEF CommitAllocation, Award, Unallocated, Typed, TypeOK, CallsOK, Pc
  <2> QED
    BY <1>7, <2>2, <2>3, <2>4, EndTyped
       DEF CommitAllocation, TablesTyped, Typed, TypeOK
<1> QED
  BY <1>1, <1>2, <1>3, <1>4, <1>5, <1>6, <1>7 DEF allocate_for_bed

LEMMA ConsumerTyped ==
    ASSUME Typed, NEW c \in Consumer, apply_and_notify(c)
    PROVE  Typed'
<1> USE ProcKinds
<1>1. CASE Receive(c)
  BY <1>1 DEF Receive, Typed, TypeOK, CallsOK, Pc, tables
<1>2. CASE ApplyDuplicate(c)
  BY <1>2 DEF ApplyDuplicate, AllocateAnyway, Typed, TypeOK, CallsOK, Pc, tables
<1>3. CASE ApplyUnknownBed(c)
  BY <1>3 DEF ApplyUnknownBed, Typed, TypeOK, CallsOK, Pc, tables
<1>4. CASE ApplyStale(c)
  BY <1>4 DEF ApplyStale, AllocateAnyway, KnownBed, Typed, TypeOK, CallsOK, Pc,
              tables
<1>5. CASE ApplyFresh(c)
  <2>1. current[c] \in Event
    BY <1>5 DEF ApplyFresh, Typed, CallsOK
  <2>2. current[c].bed_id \in Bed /\ TablesTyped'
    BY <1>5, <2>1, ApplyTyped DEF ApplyFresh
  <2>3. pc' \in [Proc -> Pc] /\ target' \in [Proc -> Bed \cup {NoBed}]
    BY <1>5, <2>2 DEF ApplyFresh, AllocateAnyway, Typed, TypeOK, Pc
  <2>4. CallsOK'
    BY <1>5, <2>2 DEF ApplyFresh, AllocateAnyway, TablesTyped, Typed, TypeOK,
                      CallsOK, Pc
  <2> QED
    BY <1>5, <2>2, <2>3, <2>4
       DEF ApplyFresh, AllocateAnyway, TablesTyped, Typed, TypeOK
<1>6. CASE Ack(c)
  BY <1>6 DEF Ack, Typed, TypeOK, CallsOK, Pc, tables
<1> QED
  BY <1>1, <1>2, <1>3, <1>4, <1>5, <1>6 DEF apply_and_notify

(* What a failed call leaves behind, given what it left in the tables. *)
LEMMA FailTyped ==
    ASSUME Typed, NEW p \in Proc, Fail(p), TablesTyped',
           pc[p] # "idle"
    PROVE  Typed'
<1> USE ProcKinds
<1>1. EndTransaction(p)
  BY DEF Fail
<1>2. CASE p \in Consumer
  <2>1. pc' = [pc EXCEPT ![p] = "apply"] /\ answer' = answer
    BY <1>2 DEF Fail
  <2>2. CallsOK'
    BY <1>1, <1>2, <2>1, EndTyped
       DEF Fail, TablesTyped, Typed, TypeOK, CallsOK, Pc
  <2> QED
    BY <1>1, <2>1, <2>2, EndTyped DEF Fail, TablesTyped, Typed, TypeOK, Pc
<1>3. CASE p \notin Consumer
  <2>1. /\ pc' = [pc EXCEPT ![p] = "done"]
        /\ answer' = [answer EXCEPT ![p] = Failed]
    BY <1>3 DEF Fail
  <2>2. answer' \in [Referral -> Answer]
    BY <2>1 DEF Failed, Answer, Typed, TypeOK
  <2>3. CallsOK'
    BY <1>1, <1>3, <2>1, EndTyped
       DEF Fail, TablesTyped, Typed, TypeOK, CallsOK, Pc
  <2> QED
    BY <1>1, <2>1, <2>2, <2>3, EndTyped
       DEF Fail, TablesTyped, Typed, TypeOK, Pc
<1> QED
  BY <1>2, <1>3

LEMMA FaultTyped ==
    ASSUME Typed, Fault
    PROVE  Typed'
<1> USE ProcKinds
<1>1. CASE Crash
  BY <1>1 DEF Crash, Failed, Answer, Typed, TypeOK, CallsOK, Pc, tables
<1>2. ASSUME NEW p \in Proc, DbError(p) PROVE Typed'
  <2>1. pc[p] # "idle"
    BY <1>2 DEF DbError, FailingCalls, InDatabase
  <2>2. TablesTyped'
    BY <1>2 DEF DbError, tables, TablesTyped, Typed, TypeOK, CallsOK
  <2> QED
    BY <1>2, <2>1, <2>2, FailTyped DEF DbError
<1>3. ASSUME NEW p \in Proc, CommitReplyLost(p) PROVE Typed'
  <2>1. CASE pc[p] = "write" /\ Award(target[p], chosen[p])
    <3>1. target[p] \in Bed /\ chosen[p] \in Referral
      BY <2>1 DEF Typed, CallsOK
    <3>2. TablesTyped'
      BY <2>1, <3>1, AwardTyped
    <3> QED
      BY <1>3, <2>1, <3>2, FailTyped DEF CommitReplyLost
  <2>2. CASE pc[p] = "apply" /\ ApplyWrites(current[p])
    <3>1. p \in Consumer /\ current[p] \in Event
      BY <2>2 DEF Typed, CallsOK
    <3>2. TablesTyped'
      BY <2>2, <3>1, ApplyTyped
    <3> QED
      BY <1>3, <2>2, <3>2, FailTyped DEF CommitReplyLost
  <2> QED
    BY <1>3, <2>1, <2>2 DEF CommitReplyLost
<1> QED
  BY <1>1, <1>2, <1>3 DEF Fault

LEMMA NextTyped == Typed /\ [Next]_vars => Typed'
<1> SUFFICES ASSUME Typed, [Next]_vars PROVE Typed'
  OBVIOUS
<1>1. CASE Next
  BY <1>1, SubmitTyped, AllocateTyped, ConsumerTyped, FaultTyped DEF Next
<1>2. CASE UNCHANGED vars
  BY <1>2 DEF vars, Typed, TypeOK, CallsOK
<1> QED
  BY <1>1, <1>2

(* Every column and every local of every call keeps its type, and a call in
   allocate_for_bed always has a bed that exists. *)
THEOREM Typing == Spec => []Typed
<1>1. Init => Typed
  BY InitTyped
<1>2. Typed /\ [Next]_vars => Typed'
  BY NextTyped
<1> QED
  BY <1>1, <1>2, PTL DEF Spec

(* The type invariant that the runs check. *)
THEOREM TypeCorrect == Spec => []TypeOK
<1>1. Typed => TypeOK
  BY DEF Typed
<1> QED
  BY <1>1, Typing, PTL

-----------------------------------------------------------------------------
(* The rest of the inductive invariant: what the row locks protect, and what
   the rows say to each other. *)

InTransaction(p) == pc[p] \in {"scan", "pick", "write"}

(* A bed row, and a referral row, is locked by one call at a time. *)
LocksExclusive ==
    /\ \A p, q \in Proc :
          InTransaction(p) /\ InTransaction(q) /\ target[p] = target[q]
             => p = q
    /\ \A p, q \in Proc :
          pc[p] = "write" /\ pc[q] = "write" /\ chosen[p] = chosen[q]
             => p = q

(* What a call has read under its locks stays true until it ends. *)
LocksProtect ==
    \A p \in Proc :
        /\ InTransaction(p) => bedStatus[target[p]] = "available"
        /\ pc[p] = "pick" =>
              \A r \in queue[p] :
                  ReferralFilter(BedRow[target[p]], ReferralRow[r])
        /\ pc[p] = "write" =>
              /\ refStatus[chosen[p]] = "pending"
              /\ ReferralFilter(BedRow[target[p]], ReferralRow[chosen[p]])

(* The INSERT of a referral finds no row of it. *)
NewIsAbsent == \A r \in Referral : pc[r] = "new" => refStatus[r] = "absent"

LocksOK == LocksExclusive /\ LocksProtect /\ NewIsAbsent

RowsOK == NoDoubleBooking /\ BooksBalance /\ HoldersEligible /\ NewestEventWins

IInv == Typed /\ LocksOK /\ RowsOK

-----------------------------------------------------------------------------
LEMMA InitInv == Init => IInv
<1> SUFFICES ASSUME Init PROVE IInv
  OBVIOUS
<1>1. Typed
  BY InitTyped
<1>2. LocksOK
  BY ProcKinds DEF Init, LocksOK, LocksExclusive, LocksProtect, NewIsAbsent,
                   InTransaction
<1>3. \A b \in Bed : bedStatus[b] # "reserved"
  BY BedAssumption DEF Init
<1>4. RowsOK
  BY <1>3 DEF Init, RowsOK, NoDoubleBooking, BooksBalance, RowsAgree,
              NothingWithoutRow, HoldersEligible, NewestEventWins
<1> QED
  BY <1>1, <1>2, <1>4 DEF IInv

(* A call that leaves allocate_for_bed, or is not in it, disturbs no lock of
   another, as long as the rows others have locked stay as they are. *)
LEMMA OthersKeepLocks ==
    ASSUME LocksOK, NEW p \in Proc,
           pc'[p] \notin {"scan", "pick", "write", "new"},
           \A q \in Proc \ {p} :
               /\ pc'[q] = pc[q] /\ target'[q] = target[q]
               /\ queue'[q] = queue[q] /\ chosen'[q] = chosen[q]
               /\ InTransaction(q) => bedStatus'[target[q]] = "available"
               /\ pc[q] = "write" => refStatus'[chosen[q]] = "pending"
               /\ q \in Referral /\ pc[q] = "new" =>
                     refStatus'[q] = refStatus[q]
    PROVE  LocksOK'
<1> USE ProcKinds
<1>1. LocksExclusive'
  BY DEF LocksOK, LocksExclusive, InTransaction
<1>2. LocksProtect'
  BY DEF LocksOK, LocksProtect, InTransaction
<1>3. NewIsAbsent'
  BY DEF LocksOK, NewIsAbsent
<1> QED
  BY <1>1, <1>2, <1>3 DEF LocksOK

(* A commit touches no row that another call has locked. *)
LEMMA AwardKeepsLocks ==
    ASSUME IInv, NEW p \in Proc, pc[p] = "write", EndTransaction(p),
           Award(target[p], chosen[p]),
           pc'[p] \notin {"scan", "pick", "write", "new"},
           \A q \in Proc \ {p} : pc'[q] = pc[q]
    PROVE  LocksOK'
<1> USE ProcKinds
<1>1. /\ target[p] \in Bed /\ chosen[p] \in Referral
      /\ refStatus[chosen[p]] = "pending"
  BY DEF IInv, Typed, CallsOK, LocksOK, LocksProtect
<1>2. DOMAIN bedStatus = Bed /\ DOMAIN refStatus = Referral
      /\ DOMAIN target = Proc /\ DOMAIN queue = Proc /\ DOMAIN chosen = Proc
  BY DEF IInv, Typed, TypeOK
<1>3. /\ bedStatus' = [bedStatus EXCEPT ![target[p]] = "reserved"]
      /\ refStatus' = [refStatus EXCEPT ![chosen[p]] = "matched"]
  BY DEF Award
<1>4. ASSUME NEW q \in Proc \ {p}
      PROVE  /\ target'[q] = target[q] /\ queue'[q] = queue[q]
             /\ chosen'[q] = chosen[q]
             /\ InTransaction(q) => bedStatus'[target[q]] = "available"
             /\ pc[q] = "write" => refStatus'[chosen[q]] = "pending"
             /\ q \in Referral /\ pc[q] = "new" =>
                   refStatus'[q] = refStatus[q]
  <2>1. target'[q] = target[q] /\ queue'[q] = queue[q] /\ chosen'[q] = chosen[q]
    BY <1>2 DEF EndTransaction
  <2>2. InTransaction(q) => bedStatus'[target[q]] = "available"
    BY <1>2, <1>3 DEF IInv, LocksOK, LocksExclusive, LocksProtect, InTransaction,
                      Typed, CallsOK
  <2>3. pc[q] = "write" => refStatus'[chosen[q]] = "pending"
    BY <1>2, <1>3 DEF IInv, LocksOK, LocksExclusive, LocksProtect, InTransaction,
                      Typed, CallsOK
  <2>4. q \in Referral /\ pc[q] = "new" => refStatus'[q] = refStatus[q]
    BY <1>1, <1>2, <1>3 DEF IInv, LocksOK, NewIsAbsent
  <2> QED
    BY <2>1, <2>2, <2>3, <2>4
<1> QED
  BY <1>4, OthersKeepLocks DEF IInv

(* The award of a free bed to an eligible pending referral keeps the rows
   consistent, and meets no unique index. *)
LEMMA AwardRows ==
    ASSUME IInv, NEW b \in Bed, NEW r \in Referral,
           bedStatus[b] = "available", refStatus[r] = "pending",
           ReferralFilter(BedRow[b], ReferralRow[r]), Award(b, r)
    PROVE  RowsOK'
<1> DEFINE new == [bed |-> b, referral |-> r, status |-> "active"]
<1>1. /\ reservations' = reservations \cup {new}
      /\ bedStatus' = [bedStatus EXCEPT ![b] = "reserved"]
      /\ refStatus' = [refStatus EXCEPT ![r] = "matched"]
      /\ UNCHANGED <<lastSeq, appliedEvents>>
  BY DEF Award
<1>2. \A row \in reservations : row.bed # b /\ row.referral # r
  BY DEF IInv, RowsOK, BooksBalance, RowsAgree
<1>3. \A row \in reservations : row.bed \in Bed /\ row.referral \in Referral
  BY DEF IInv, Typed, TypeOK, Reservation
<1>4. bedStatus \in [Bed -> BedStatus] /\ DOMAIN refStatus = Referral
  BY DEF IInv, Typed, TypeOK
<1>5. NoDoubleBooking'
  BY <1>1, <1>2 DEF IInv, RowsOK, NoDoubleBooking
<1>6. RowsAgree'
  BY <1>1, <1>2, <1>3, <1>4 DEF IInv, RowsOK, BooksBalance, RowsAgree
<1>7. NothingWithoutRow'
  <2>1. new \in reservations' /\ reservations \subseteq reservations'
    BY <1>1
  <2>2. ASSUME NEW c \in Bed, bedStatus'[c] = "reserved"
        PROVE  \E row \in reservations' : row.bed = c /\ row.status = "active"
    <3>1. CASE c = b
      BY <2>1, <3>1
    <3>2. CASE c # b
      BY <1>1, <1>4, <2>1, <2>2, <3>2
         DEF IInv, RowsOK, BooksBalance, NothingWithoutRow
    <3> QED
      BY <3>1, <3>2
  <2>3. ASSUME NEW s \in Referral, refStatus'[s] = "matched"
        PROVE  \E row \in reservations' : row.referral = s
    <3>1. CASE s = r
      BY <2>1, <3>1
    <3>2. CASE s # r
      BY <1>1, <1>4, <2>1, <2>3, <3>2
         DEF IInv, RowsOK, BooksBalance, NothingWithoutRow
    <3> QED
      BY <3>1, <3>2
  <2> QED
    BY <2>2, <2>3 DEF NothingWithoutRow
<1>8. HoldersEligible'
  <2>1. BedRow[b] \in BedAttributes /\ ReferralRow[r] \in ReferralNeeds
    BY BedAssumption, ProcAssumption
  <2>2. /\ is_eligible(BedRow[b], ReferralRow[r])
        /\ BedRow[b].region = ReferralRow[r].region
    BY <2>1, ReferralFilterAgrees
  <2> QED
    BY <1>1, <2>2 DEF IInv, RowsOK, HoldersEligible
<1>9. NewestEventWins'
  BY <1>1, <1>4 DEF IInv, RowsOK, NewestEventWins
<1> QED
  BY <1>5, <1>6, <1>7, <1>8, <1>9 DEF RowsOK, BooksBalance

(* The newest event of a bed is the last one applied: an event is applied only
   above the sequence of the last. *)
LEMMA ApplyNewest ==
    ASSUME IInv, NEW e \in Event, ApplyWrites(e)
    PROVE  NewestEventWins'
<1>1. e.bed_id \in Bed /\ e.sequence \in Int
  BY EventAssumption DEF ApplyWrites, KnownBed, EventType
<1>2. /\ appliedEvents' = appliedEvents \cup {e}
      /\ bedStatus' = [bedStatus EXCEPT ![e.bed_id] = e.status]
      /\ lastSeq' = [lastSeq EXCEPT ![e.bed_id] = e.sequence]
      /\ ~ (e.sequence <= lastSeq[e.bed_id])
  BY DEF ApplyWrites, Stale
<1>3. /\ bedStatus \in [Bed -> BedStatus] /\ lastSeq \in [Bed -> Int]
      /\ \A f \in appliedEvents : f.sequence \in Int
  BY EventAssumption DEF IInv, Typed, TypeOK, EventType
<1>4. SUFFICES ASSUME NEW b \in Bed,
                      {f \in appliedEvents' : f.bed_id = b} # {}
               PROVE  \E f \in {g \in appliedEvents' : g.bed_id = b} :
                         /\ \A g \in {h \in appliedEvents' : h.bed_id = b} :
                               g.sequence <= f.sequence
                         /\ lastSeq'[b] = f.sequence
                         /\ bedStatus'[b] \in {f.status} \cup
                               (IF f.status = "available" THEN {"reserved"}
                                                          ELSE {})
  BY DEF NewestEventWins
<1>5. CASE b = e.bed_id
  <2>1. \A f \in appliedEvents : f.bed_id = b => f.sequence <= lastSeq[b]
    BY <1>3 DEF IInv, RowsOK, NewestEventWins
  <2>2. \A f \in appliedEvents' : f.bed_id = b => f.sequence <= e.sequence
    BY <1>1, <1>2, <1>3, <1>5, <2>1
  <2> QED
    BY <1>1, <1>2, <1>3, <1>5, <2>2
<1>6. CASE b # e.bed_id
  <2>1. {f \in appliedEvents' : f.bed_id = b} = {f \in appliedEvents : f.bed_id = b}
    BY <1>2, <1>6
  <2> QED
    BY <1>2, <1>3, <1>4, <1>6, <2>1 DEF IInv, RowsOK, NewestEventWins
<1> QED
  BY <1>5, <1>6

(* An occupied event checks the holder of the bed in. *)
LEMMA CheckInKeepsRows ==
    ASSUME IInv, NEW b \in Bed, CheckInRows(b),
           bedStatus' = [bedStatus EXCEPT ![b] = "occupied"],
           UNCHANGED refStatus
    PROVE  NoDoubleBooking' /\ BooksBalance' /\ HoldersEligible'
<1> DEFINE In(row) == [row EXCEPT !.status = "checked_in"]
<1>1. reservations \subseteq Reservation /\ bedStatus \in [Bed -> BedStatus]
  BY DEF IInv, Typed, TypeOK
<1>2. ASSUME NEW row \in reservations
      PROVE  /\ In(row).bed = row.bed /\ In(row).referral = row.referral
             /\ In(row).status = "checked_in"
             /\ IF row.bed = b /\ row.status = "active"
                THEN In(row) \in reservations' ELSE row \in reservations'
  BY <1>1 DEF CheckInRows, ActiveRows, Reservation
<1>3. ASSUME NEW x \in reservations'
      PROVE  \E row \in reservations :
                x = IF row.bed = b /\ row.status = "active" THEN In(row) ELSE row
  BY DEF CheckInRows, ActiveRows
<1>4. NoDoubleBooking'
  <2> SUFFICES ASSUME NEW x \in reservations', NEW y \in reservations', x # y
               PROVE  x.bed # y.bed /\ x.referral # y.referral
    BY DEF NoDoubleBooking
  <2>1. PICK v \in reservations :
            x = IF v.bed = b /\ v.status = "active" THEN In(v) ELSE v
    BY <1>3
  <2>2. PICK w \in reservations :
            y = IF w.bed = b /\ w.status = "active" THEN In(w) ELSE w
    BY <1>3
  <2>3. v # w
    BY <2>1, <2>2
  <2>4. v.bed # w.bed /\ v.referral # w.referral
    BY <2>3 DEF IInv, RowsOK, NoDoubleBooking
  <2>5. x.bed = v.bed /\ x.referral = v.referral
    BY <1>2, <2>1
  <2>6. y.bed = w.bed /\ y.referral = w.referral
    BY <1>2, <2>2
  <2> QED
    BY <2>4, <2>5, <2>6
<1>5. RowsAgree'
  <2> SUFFICES ASSUME NEW x \in reservations'
               PROVE  /\ refStatus'[x.referral] = "matched"
                      /\ bedStatus'[x.bed] = IF x.status = "active"
                                             THEN "reserved" ELSE "occupied"
    BY DEF RowsAgree
  <2>1. PICK row \in reservations :
            x = IF row.bed = b /\ row.status = "active" THEN In(row) ELSE row
    BY <1>3
  <2>2. refStatus[row.referral] = "matched" /\ row.bed \in Bed
        /\ row.status \in {"active", "checked_in"}
        /\ bedStatus[row.bed] = IF row.status = "active" THEN "reserved"
                                                        ELSE "occupied"
    BY <1>1 DEF IInv, RowsOK, BooksBalance, RowsAgree, Reservation
  <2> QED
    BY <1>1, <1>2, <2>1, <2>2
<1>6. NothingWithoutRow'
  <2>1. ASSUME NEW c \in Bed, bedStatus'[c] = "reserved"
        PROVE  \E row \in reservations' : row.bed = c /\ row.status = "active"
    BY <1>1, <1>2, <2>1 DEF IInv, RowsOK, BooksBalance, NothingWithoutRow
  <2>2. ASSUME NEW r \in Referral, refStatus'[r] = "matched"
        PROVE  \E row \in reservations' : row.referral = r
    <3>1. PICK row \in reservations : row.referral = r
      BY <2>2 DEF IInv, RowsOK, BooksBalance, NothingWithoutRow
    <3> QED
      BY <1>2, <3>1
  <2> QED
    BY <2>1, <2>2 DEF NothingWithoutRow
<1>7. HoldersEligible'
  <2> SUFFICES ASSUME NEW x \in reservations'
               PROVE  /\ is_eligible(BedRow[x.bed], ReferralRow[x.referral])
                      /\ BedRow[x.bed].region = ReferralRow[x.referral].region
    BY DEF HoldersEligible
  <2>1. PICK row \in reservations :
            x = IF row.bed = b /\ row.status = "active" THEN In(row) ELSE row
    BY <1>3
  <2>2. x.bed = row.bed /\ x.referral = row.referral
    BY <1>2, <2>1
  <2> QED
    BY <2>2 DEF IInv, RowsOK, HoldersEligible
<1> QED
  BY <1>4, <1>5, <1>6, <1>7 DEF BooksBalance

(* An available or a maintenance event puts the referral that holds the bed,
   and no other, back to pending. *)
LEMMA DisplacedReferral ==
    ASSUME IInv, NEW b \in Bed, Displace(ReleasedRows(b)),
           NEW r \in Referral
    PROVE  refStatus'[r] =
              IF \E row \in reservations : row.bed = b /\ row.referral = r
              THEN "pending" ELSE refStatus[r]
<1>1. reservations \subseteq Reservation /\ DOMAIN refStatus = Referral
  BY DEF IInv, Typed, TypeOK
<1>2. \A x, y \in reservations : x.bed = y.bed => x = y
  BY DEF IInv, RowsOK, NoDoubleBooking
<1>3. \A row \in reservations : /\ refStatus[row.referral] = "matched"
                                /\ row.referral \in Referral
  BY <1>1 DEF IInv, RowsOK, BooksBalance, RowsAgree, Reservation
<1>4. CASE ReleasedRows(b) = {}
  <2>1. ~ \E row \in reservations : row.bed = b
    BY <1>1, <1>4 DEF ReleasedRows, Reservation
  <2> QED
    BY <1>4, <2>1 DEF Displace
<1>5. CASE ReleasedRows(b) # {}
  <2>1. PICK row \in ReleasedRows(b) :
            refStatus' = [refStatus EXCEPT ![row.referral] =
                             IF @ = "matched" THEN "pending" ELSE @]
    BY <1>5 DEF Displace
  <2>2. row \in reservations /\ row.bed = b
    BY DEF ReleasedRows
  <2>3. refStatus' = [refStatus EXCEPT ![row.referral] = "pending"]
    BY <1>1, <1>3, <2>1, <2>2
  <2>4. \A x \in reservations : x.bed = b => x = row
    BY <1>2, <2>2
  <2> QED
    BY <1>1, <2>2, <2>3, <2>4
<1> QED
  BY <1>4, <1>5

(* An available or a maintenance event releases the only open reservation of
   the bed, if any, and puts its referral back to pending. *)
LEMMA ReleaseKeepsRows ==
    ASSUME IInv, NEW b \in Bed, NEW s \in {"available", "maintenance"},
           reservations' = reservations \ ReleasedRows(b),
           Displace(ReleasedRows(b)),
           bedStatus' = [bedStatus EXCEPT ![b] = s]
    PROVE  NoDoubleBooking' /\ BooksBalance' /\ HoldersEligible'
<1>1. reservations \subseteq Reservation /\ bedStatus \in [Bed -> BedStatus]
      /\ DOMAIN refStatus = Referral
  BY DEF IInv, Typed, TypeOK
<1>2. reservations' = {row \in reservations : row.bed # b}
  BY <1>1 DEF ReleasedRows, Reservation
<1>3. \A x, y \in reservations : x # y => x.referral # y.referral /\ x.bed # y.bed
  BY DEF IInv, RowsOK, NoDoubleBooking
<1>4. \A row \in reservations :
          /\ refStatus[row.referral] = "matched" /\ row.referral \in Referral
          /\ bedStatus[row.bed] = IF row.status = "active" THEN "reserved"
                                                          ELSE "occupied"
  BY <1>1 DEF IInv, RowsOK, BooksBalance, RowsAgree, Reservation
<1>5. \A r \in Referral :
          refStatus'[r] = IF \E row \in reservations : row.bed = b /\ row.referral = r
                          THEN "pending" ELSE refStatus[r]
  BY DisplacedReferral
<1>6. NoDoubleBooking'
  BY <1>2, <1>3 DEF NoDoubleBooking
<1>7. RowsAgree'
  <2> SUFFICES ASSUME NEW x \in reservations'
               PROVE  /\ refStatus'[x.referral] = "matched"
                      /\ bedStatus'[x.bed] = IF x.status = "active"
                                             THEN "reserved" ELSE "occupied"
    BY DEF RowsAgree
  <2>1. x \in reservations /\ x.bed # b /\ x.bed \in Bed
    BY <1>1, <1>2 DEF Reservation
  <2>2. ~ \E row \in reservations : row.bed = b /\ row.referral = x.referral
    BY <1>3, <2>1
  <2> QED
    BY <1>1, <1>4, <1>5, <2>1, <2>2
<1>8. NothingWithoutRow'
  <2>1. ASSUME NEW c \in Bed, bedStatus'[c] = "reserved"
        PROVE  \E row \in reservations' : row.bed = c /\ row.status = "active"
    <3>1. c # b /\ bedStatus[c] = "reserved"
      BY <1>1, <2>1
    <3> QED
      BY <1>2, <3>1 DEF IInv, RowsOK, BooksBalance, NothingWithoutRow
  <2>2. ASSUME NEW r \in Referral, refStatus'[r] = "matched"
        PROVE  \E row \in reservations' : row.referral = r
    <3>1. /\ refStatus[r] = "matched"
          /\ ~ \E row \in reservations : row.bed = b /\ row.referral = r
      BY <1>5, <2>2
    <3>2. PICK row \in reservations : row.referral = r
      BY <3>1 DEF IInv, RowsOK, BooksBalance, NothingWithoutRow
    <3> QED
      BY <1>2, <3>1, <3>2
  <2> QED
    BY <2>1, <2>2 DEF NothingWithoutRow
<1>9. HoldersEligible'
  BY <1>2 DEF IInv, RowsOK, HoldersEligible
<1> QED
  BY <1>6, <1>7, <1>8, <1>9 DEF BooksBalance

LEMMA ApplyRows ==
    ASSUME IInv, NEW e \in Event, ApplyWrites(e)
    PROVE  RowsOK'
<1>1. e.bed_id \in Bed /\ NewestEventWins'
  BY ApplyNewest DEF ApplyWrites, KnownBed
<1>2. CASE e.status = "occupied" /\ CheckInRows(e.bed_id) /\ UNCHANGED refStatus
  BY <1>1, <1>2, CheckInKeepsRows DEF ApplyWrites, RowsOK
<1>3. CASE /\ e.status \in {"available", "maintenance"}
           /\ reservations' = reservations \ ReleasedRows(e.bed_id)
           /\ Displace(ReleasedRows(e.bed_id))
  BY <1>1, <1>3, ReleaseKeepsRows DEF ApplyWrites, RowsOK
<1> QED
  BY <1>2, <1>3 DEF ApplyWrites

-----------------------------------------------------------------------------
LEMMA SameRows == IInv /\ UNCHANGED tables => RowsOK'
BY DEF IInv, tables, RowsOK, NoDoubleBooking, BooksBalance, RowsAgree,
       NothingWithoutRow, HoldersEligible, NewestEventWins

LEMMA SubmitInv ==
    ASSUME IInv, NEW r \in Referral, submit_referral(r)
    PROVE  LocksOK' /\ RowsOK'
<1> USE ProcKinds
<1>1. DOMAIN refStatus = Referral /\ DOMAIN pc = Proc /\ DOMAIN target = Proc
  BY DEF IInv, Typed, TypeOK
<1>2. \A p \in Proc :
          /\ InTransaction(p) => bedStatus[target[p]] = "available"
          /\ pc[p] = "write" => refStatus[chosen[p]] = "pending"
  BY DEF IInv, LocksOK, LocksProtect
<1>3. CASE InsertReferral(r)
  <2>1. /\ refStatus' = [refStatus EXCEPT ![r] = "pending"]
        /\ pc' = [pc EXCEPT ![r] = "search"]
        /\ UNCHANGED <<bedStatus, lastSeq, reservations, appliedEvents, target,
                       queue, chosen>>
    BY <1>3 DEF InsertReferral
  <2>2. refStatus[r] = "absent"
    BY <1>3 DEF InsertReferral, IInv, LocksOK, NewIsAbsent
  <2>3. \A p \in Proc : pc[p] = "write" => chosen[p] \in Referral
    BY DEF IInv, Typed, CallsOK
  <2>4. LocksOK'
    BY <1>1, <1>2, <2>1, <2>3, OthersKeepLocks DEF IInv
  <2>5. \A s \in Referral :
            refStatus'[s] = "matched" <=> refStatus[s] = "matched"
    BY <1>1, <2>1, <2>2
  <2>6. \A row \in reservations : row.referral \in Referral
    BY DEF IInv, Typed, TypeOK, Reservation
  <2>7. RowsOK'
    BY <2>1, <2>5, <2>6
       DEF IInv, RowsOK, NoDoubleBooking, BooksBalance, RowsAgree,
           NothingWithoutRow, HoldersEligible, NewestEventWins
  <2> QED
    BY <2>4, <2>7
<1>4. CASE FindCandidate(r) \/ StopSearching(r) \/ resolve_final_outcome(r)
  <2>1. UNCHANGED tables
    BY <1>4 DEF FindCandidate, StopSearching, resolve_final_outcome
  <2>2. /\ pc'[r] \in {"lock", "resolve", "done"}
        /\ \A q \in Proc \ {r} : pc'[q] = pc[q] /\ target'[q] = target[q]
        /\ UNCHANGED <<queue, chosen>>
    BY <1>1, <1>4 DEF FindCandidate, StopSearching, resolve_final_outcome
  <2>3. LocksOK'
    BY <1>2, <2>1, <2>2, OthersKeepLocks DEF IInv, tables
  <2> QED
    BY <2>1, <2>3, SameRows
<1> QED
  BY <1>3, <1>4 DEF submit_referral

LEMMA AllocateInv ==
    ASSUME IInv, NEW p \in Proc, allocate_for_bed(p)
    PROVE  LocksOK' /\ RowsOK'
<1> USE ProcKinds
<1>1. /\ DOMAIN refStatus = Referral /\ DOMAIN bedStatus = Bed
      /\ DOMAIN pc = Proc /\ DOMAIN target = Proc /\ DOMAIN queue = Proc
      /\ DOMAIN chosen = Proc
  BY DEF IInv, Typed, TypeOK
<1>2. \A q \in Proc :
          /\ InTransaction(q) => bedStatus[target[q]] = "available"
          /\ pc[q] = "write" => refStatus[chosen[q]] = "pending"
  BY DEF IInv, LocksOK, LocksProtect
<1>3. CASE LockBed(p)
  <2>1. UNCHANGED tables /\ UNCHANGED <<target, queue, chosen>>
        /\ pc' = [pc EXCEPT ![p] = "scan"]
        /\ bedStatus[target[p]] = "available"
        /\ \A q \in Proc : InTransaction(q) => target[q] # target[p]
    BY <1>3 DEF LockBed, BedLocked, InTransaction
  <2>2. LocksExclusive'
    BY <1>1, <2>1 DEF IInv, LocksOK, LocksExclusive, InTransaction
  <2>3. LocksProtect' /\ NewIsAbsent'
    BY <1>1, <2>1 DEF IInv, LocksOK, LocksProtect, NewIsAbsent, InTransaction,
                      tables
  <2> QED
    BY <2>1, <2>2, <2>3, SameRows DEF LocksOK
<1>4. CASE ScanReferrals(p)
  <2>1. UNCHANGED tables /\ UNCHANGED <<target, chosen>> /\ pc[p] = "scan"
        /\ pc' = [pc EXCEPT ![p] = "pick"]
        /\ queue' = [queue EXCEPT ![p] = PendingFor(target[p])]
    BY <1>4 DEF ScanReferrals
  <2>2. LocksExclusive' /\ NewIsAbsent'
    BY <1>1, <2>1 DEF IInv, LocksOK, LocksExclusive, NewIsAbsent, InTransaction,
                      tables
  <2>3. LocksProtect'
    BY <1>1, <2>1 DEF IInv, LocksOK, LocksProtect, InTransaction, tables,
                      PendingFor
  <2> QED
    BY <2>1, <2>2, <2>3, SameRows DEF LocksOK
<1>5. CASE PickReferral(p)
  <2>1. PICK r \in Referral :
            /\ IsNext(p, r)
            /\ refStatus[r] = "pending" /\ ~ ReferralLocked(r)
            /\ chosen' = [chosen EXCEPT ![p] = r]
    BY <1>5 DEF PickReferral
  <2>2. UNCHANGED tables /\ UNCHANGED <<target, queue>> /\ pc[p] = "pick"
        /\ pc' = [pc EXCEPT ![p] = "write"]
    BY <1>5 DEF PickReferral
  <2>3. r \in queue[p] /\ \A q \in Proc : pc[q] = "write" => chosen[q] # r
    BY <2>1 DEF IsNext, ReferralLocked
  <2>4. LocksExclusive' /\ NewIsAbsent'
    BY <1>1, <2>1, <2>2, <2>3
       DEF IInv, LocksOK, LocksExclusive, NewIsAbsent, InTransaction, tables
  <2>5. LocksProtect'
    BY <1>1, <2>1, <2>2, <2>3
       DEF IInv, LocksOK, LocksProtect, InTransaction, tables
  <2> QED
    BY <2>2, <2>4, <2>5, SameRows DEF LocksOK
<1>6. CASE SkipReferral(p)
  <2>1. UNCHANGED tables /\ UNCHANGED <<pc, target, queue, chosen>>
    BY <1>6 DEF SkipReferral
  <2>2. LocksOK'
    BY <2>1 DEF IInv, LocksOK, LocksExclusive, LocksProtect, NewIsAbsent,
                InTransaction, tables
  <2> QED
    BY <2>1, <2>2, SameRows
<1>7. CASE BedUnavailable(p) \/ NoneEligible(p)
  <2>1. UNCHANGED tables /\ EndTransaction(p)
        /\ pc' = [pc EXCEPT ![p] = Unallocated(p)]
    BY <1>7 DEF BedUnavailable, NoneEligible
  <2>2. LocksOK'
    BY <1>1, <1>2, <2>1, OthersKeepLocks
       DEF IInv, EndTransaction, Unallocated, tables
  <2> QED
    BY <2>1, <2>2, SameRows
<1>8. CASE CommitAllocation(p)
  <2>1. /\ pc[p] = "write" /\ Award(target[p], chosen[p]) /\ EndTransaction(p)
        /\ pc'[p] \in {"done", "ack", "search"}
        /\ \A q \in Proc \ {p} : pc'[q] = pc[q]
    BY <1>1, <1>8 DEF CommitAllocation, Unallocated
  <2>2. /\ target[p] \in Bed /\ chosen[p] \in Referral
        /\ bedStatus[target[p]] = "available" /\ refStatus[chosen[p]] = "pending"
        /\ ReferralFilter(BedRow[target[p]], ReferralRow[chosen[p]])
    BY <1>2, <2>1 DEF IInv, Typed, CallsOK, LocksOK, LocksProtect, InTransaction
  <2>3. RowsOK'
    BY <2>1, <2>2, AwardRows
  <2>4. LocksOK'
    BY <1>1, <1>2, <2>1, <2>2, AwardKeepsLocks DEF IInv
  <2> QED
    BY <2>3, <2>4
<1> QED
  BY <1>3, <1>4, <1>5, <1>6, <1>7, <1>8 DEF allocate_for_bed

(* The writes of an event touch no row that a call has locked: the bed is not,
   and a referral an event displaces was matched, so no call awards it. *)
LEMMA ApplyTouchesNoLock ==
    ASSUME IInv, NEW e \in Event, ApplyWrites(e), NEW q \in Proc
    PROVE  /\ InTransaction(q) => bedStatus'[target[q]] = "available"
           /\ pc[q] = "write" => refStatus'[chosen[q]] = "pending"
           /\ q \in Referral /\ pc[q] = "new" => refStatus'[q] = refStatus[q]
<1>1. /\ bedStatus \in [Bed -> BedStatus] /\ DOMAIN refStatus = Referral
      /\ reservations \subseteq Reservation
  BY DEF IInv, Typed, TypeOK
<1>2. \A r \in Referral :
          refStatus[r] # "matched" => refStatus'[r] = refStatus[r]
  <2>1. CASE UNCHANGED refStatus
    BY <2>1
  <2>2. CASE Displace(ReleasedRows(e.bed_id))
    BY <1>1, <2>2 DEF Displace, ReleasedRows, Reservation
  <2> QED
    BY <2>1, <2>2 DEF ApplyWrites
<1>3. InTransaction(q) => bedStatus'[target[q]] = "available"
  <2> SUFFICES ASSUME InTransaction(q) PROVE bedStatus'[target[q]] = "available"
    OBVIOUS
  <2>1. target[q] # e.bed_id
    BY DEF ApplyWrites, BedLocked, InTransaction
  <2>2. target[q] \in Bed /\ bedStatus[target[q]] = "available"
    BY DEF IInv, Typed, CallsOK, LocksOK, LocksProtect, InTransaction
  <2> QED
    BY <1>1, <2>1, <2>2 DEF ApplyWrites
<1>4. pc[q] = "write" => refStatus'[chosen[q]] = "pending"
  BY <1>2 DEF IInv, Typed, CallsOK, LocksOK, LocksProtect
<1>5. q \in Referral /\ pc[q] = "new" => refStatus'[q] = refStatus[q]
  BY <1>2 DEF IInv, LocksOK, NewIsAbsent
<1> QED
  BY <1>3, <1>4, <1>5

LEMMA ConsumerInv ==
    ASSUME IInv, NEW c \in Consumer, apply_and_notify(c)
    PROVE  LocksOK' /\ RowsOK'
<1> USE ProcKinds
<1>1. DOMAIN pc = Proc /\ DOMAIN target = Proc
  BY DEF IInv, Typed, TypeOK
<1>2. \A q \in Proc :
          /\ InTransaction(q) => bedStatus[target[q]] = "available"
          /\ pc[q] = "write" => refStatus[chosen[q]] = "pending"
  BY DEF IInv, LocksOK, LocksProtect
<1>3. /\ pc'[c] \in {"apply", "lock", "ack", "idle"}
      /\ \A q \in Proc \ {c} : pc'[q] = pc[q] /\ target'[q] = target[q]
      /\ UNCHANGED <<queue, chosen>>
  BY <1>1 DEF apply_and_notify, Receive, ApplyDuplicate, ApplyUnknownBed,
              ApplyStale, ApplyFresh, Ack, AllocateAnyway
<1>4. CASE ApplyFresh(c)
  <2>1. current[c] \in Event /\ ApplyWrites(current[c])
    BY <1>4 DEF ApplyFresh, IInv, Typed, CallsOK
  <2>2. LocksOK'
    BY <1>3, <2>1, ApplyTouchesNoLock, OthersKeepLocks DEF IInv
  <2> QED
    BY <2>1, <2>2, ApplyRows
<1>5. CASE ~ ApplyFresh(c)
  <2>1. UNCHANGED tables
    BY <1>5 DEF apply_and_notify, Receive, ApplyDuplicate, ApplyUnknownBed,
                ApplyStale, Ack
  <2>2. LocksOK'
    BY <1>2, <1>3, <2>1, OthersKeepLocks DEF IInv, tables
  <2> QED
    BY <2>1, <2>2, SameRows
<1> QED
  BY <1>4, <1>5

LEMMA FaultInv ==
    ASSUME IInv, Fault
    PROVE  LocksOK' /\ RowsOK'
<1> USE ProcKinds
<1>1. CASE Crash
  <2>1. UNCHANGED tables
    BY <1>1 DEF Crash
  <2>2. ASSUME NEW p \in Proc
        PROVE  /\ pc'[p] \in {"new", "done", "idle"}
               /\ pc'[p] = "new" => pc[p] = "new"
    BY <1>1 DEF Crash
  <2>3. LocksOK'
    BY <2>1, <2>2 DEF IInv, LocksOK, LocksExclusive, LocksProtect, NewIsAbsent,
                      InTransaction, tables
  <2> QED
    BY <2>1, <2>3, SameRows
<1>2. ASSUME NEW p \in Proc, Fail(p)
      PROVE  /\ pc'[p] \in {"apply", "done"} /\ EndTransaction(p)
             /\ \A q \in Proc \ {p} :
                   /\ pc'[q] = pc[q] /\ target'[q] = target[q]
                   /\ queue'[q] = queue[q] /\ chosen'[q] = chosen[q]
  <2>1. /\ DOMAIN pc = Proc /\ DOMAIN target = Proc /\ DOMAIN queue = Proc
        /\ DOMAIN chosen = Proc
    BY DEF IInv, Typed, TypeOK
  <2>2. EndTransaction(p)
    BY <1>2 DEF Fail
  <2>3. pc' = [pc EXCEPT ![p] = "apply"] \/ pc' = [pc EXCEPT ![p] = "done"]
    <3>1. CASE p \in Consumer
      BY <1>2, <3>1 DEF Fail
    <3>2. CASE p \notin Consumer
      BY <1>2, <3>2 DEF Fail
    <3> QED
      BY <3>1, <3>2
  <2> QED
    BY <2>1, <2>2, <2>3 DEF EndTransaction
<1>3. ASSUME NEW p \in Proc, DbError(p) PROVE LocksOK' /\ RowsOK'
  <2>1. UNCHANGED tables /\ Fail(p)
    BY <1>3 DEF DbError
  <2>2. \A q \in Proc :
            /\ InTransaction(q) => bedStatus[target[q]] = "available"
            /\ pc[q] = "write" => refStatus[chosen[q]] = "pending"
    BY DEF IInv, LocksOK, LocksProtect
  <2>3. LocksOK'
    BY <1>2, <2>1, <2>2, OthersKeepLocks DEF IInv, tables
  <2> QED
    BY <2>1, <2>3, SameRows
<1>4. ASSUME NEW p \in Proc, CommitReplyLost(p) PROVE LocksOK' /\ RowsOK'
  <2>1. Fail(p)
    BY <1>4 DEF CommitReplyLost
  <2>2. CASE pc[p] = "write" /\ Award(target[p], chosen[p])
    <3>1. /\ target[p] \in Bed /\ chosen[p] \in Referral
          /\ bedStatus[target[p]] = "available"
          /\ refStatus[chosen[p]] = "pending"
          /\ ReferralFilter(BedRow[target[p]], ReferralRow[chosen[p]])
      BY <2>2 DEF IInv, Typed, CallsOK, LocksOK, LocksProtect, InTransaction
    <3>2. RowsOK'
      BY <2>2, <3>1, AwardRows
    <3>3. LocksOK'
      BY <1>2, <2>1, <2>2, AwardKeepsLocks
    <3> QED
      BY <3>2, <3>3
  <2>3. CASE pc[p] = "apply" /\ ApplyWrites(current[p])
    <3>1. current[p] \in Event
      BY <2>3 DEF IInv, Typed, CallsOK
    <3>2. LocksOK'
      BY <1>2, <2>1, <2>3, <3>1, ApplyTouchesNoLock, OthersKeepLocks DEF IInv
    <3> QED
      BY <2>3, <3>1, <3>2, ApplyRows
  <2> QED
    BY <1>4, <2>2, <2>3 DEF CommitReplyLost
<1> QED
  BY <1>1, <1>3, <1>4 DEF Fault

LEMMA NextInv == IInv /\ [Next]_vars => IInv'
<1> SUFFICES ASSUME IInv, [Next]_vars PROVE IInv'
  OBVIOUS
<1>1. Typed'
  BY NextTyped DEF IInv
<1>2. LocksOK' /\ RowsOK'
  <2>1. CASE Next
    BY <2>1, SubmitInv, AllocateInv, ConsumerInv, FaultInv DEF Next
  <2>2. CASE UNCHANGED vars
    <3>1. UNCHANGED tables
      BY <2>2 DEF vars, tables
    <3>2. LocksOK'
      BY <2>2 DEF vars, IInv, LocksOK, LocksExclusive, LocksProtect, NewIsAbsent,
                  InTransaction
    <3> QED
      BY <3>1, <3>2, SameRows
  <2> QED
    BY <2>1, <2>2
<1> QED
  BY <1>1, <1>2 DEF IInv

(* The inductive invariant holds in every state, whatever the beds, the calls,
   the events, their order and the failures are. *)
THEOREM Safety == Spec => []IInv
<1> QED
  BY InitInv, NextInv, PTL DEF Spec

(* A bed is never held by two referrals, nor two beds by one. *)
THEOREM NeverDoubleBooked == Spec => []NoDoubleBooking
<1>1. IInv => NoDoubleBooking
  BY DEF IInv, RowsOK
<1> QED
  BY <1>1, Safety, PTL

(* Beds, referrals and reservations always tell the same story. *)
THEOREM BooksAlwaysBalance == Spec => []BooksBalance
<1>1. IInv => BooksBalance
  BY DEF IInv, RowsOK
<1> QED
  BY <1>1, Safety, PTL

(* The INSERT of a reservation never meets a unique index: the bed is locked
   and available, the referral locked and pending, and books that balance have
   an open reservation for neither. *)
THEOREM InsertsNeverConflict == Spec => []InsertNeverConflicts
<1>1. IInv => InsertNeverConflicts
  <2> SUFFICES ASSUME IInv, NEW p \in Proc, pc[p] = "write"
               PROVE  UniqueIndexesAllow(target[p], chosen[p])
    BY DEF InsertNeverConflicts
  <2>1. bedStatus[target[p]] = "available" /\ refStatus[chosen[p]] = "pending"
    BY DEF IInv, LocksOK, LocksProtect, InTransaction
  <2> QED
    BY <2>1 DEF UniqueIndexesAllow, IInv, RowsOK, BooksBalance, RowsAgree
<1> QED
  BY <1>1, Safety, PTL

(* Whoever holds a bed is someone is_eligible() allows, in the bed's region. *)
THEOREM HoldersAlwaysEligible == Spec => []HoldersEligible
<1>1. IInv => HoldersEligible
  BY DEF IInv, RowsOK
<1> QED
  BY <1>1, Safety, PTL

(* No order or repetition of deliveries moves a bed back behind the newest
   event applied to it. *)
THEOREM NewestEventAlwaysWins == Spec => []NewestEventWins
<1>1. IInv => NewestEventWins
  BY DEF IInv, RowsOK
<1> QED
  BY <1>1, Safety, PTL

-----------------------------------------------------------------------------
(* The ledger and the sequence numbers change by the fresh event of a consumer
   only. *)
LEMMA OnlyApplyWrites ==
    ASSUME Typed, [Next]_vars
    PROVE  \/ UNCHANGED <<lastSeq, appliedEvents>>
           \/ \E c \in Consumer : pc[c] = "apply" /\ ApplyWrites(current[c])
<1>1. ASSUME NEW r \in Referral, submit_referral(r)
      PROVE  UNCHANGED <<lastSeq, appliedEvents>>
  BY <1>1 DEF submit_referral, InsertReferral, FindCandidate, StopSearching,
              resolve_final_outcome, tables
<1>2. ASSUME NEW p \in Proc, allocate_for_bed(p)
      PROVE  UNCHANGED <<lastSeq, appliedEvents>>
  BY <1>2
     DEF allocate_for_bed, LockBed, BedUnavailable, ScanReferrals, PickReferral,
         SkipReferral, NoneEligible, CommitAllocation, Award, tables
<1>3. ASSUME NEW c \in Consumer, apply_and_notify(c)
      PROVE  \/ UNCHANGED <<lastSeq, appliedEvents>>
             \/ pc[c] = "apply" /\ ApplyWrites(current[c])
  BY <1>3 DEF apply_and_notify, Receive, ApplyDuplicate, ApplyUnknownBed,
              ApplyStale, ApplyFresh, Ack, tables
<1>4. ASSUME NEW p \in Proc, CommitReplyLost(p)
      PROVE  \/ UNCHANGED <<lastSeq, appliedEvents>>
             \/ p \in Consumer /\ pc[p] = "apply" /\ ApplyWrites(current[p])
  BY <1>4, ProcKinds DEF CommitReplyLost, Award, Typed, CallsOK
<1>5. ASSUME NEW p \in Proc, DbError(p)
      PROVE  UNCHANGED <<lastSeq, appliedEvents>>
  BY <1>5 DEF DbError, tables
<1>6. CASE Crash
  BY <1>6 DEF Crash, tables
<1>7. CASE UNCHANGED vars
  BY <1>7 DEF vars
<1> QED
  BY <1>1, <1>2, <1>3, <1>4, <1>5, <1>6, <1>7 DEF Next, Fault

(* The ledger and the sequence numbers only grow. *)
TablesGrow ==
    /\ appliedEvents \subseteq appliedEvents'
    /\ \A b \in Bed : lastSeq[b] <= lastSeq'[b]

LEMMA ApplyGrows ==
    ASSUME Typed, NEW e \in Event, ApplyWrites(e)
    PROVE  TablesGrow
<1>1. e.bed_id \in Bed /\ e.sequence \in Int
  BY EventAssumption DEF ApplyWrites, KnownBed, EventType
<1>2. lastSeq \in [Bed -> Int] /\ ~ (e.sequence <= lastSeq[e.bed_id])
  BY DEF ApplyWrites, Stale, Typed, TypeOK
<1>3. /\ lastSeq' = [lastSeq EXCEPT ![e.bed_id] = e.sequence]
      /\ appliedEvents' = appliedEvents \cup {e}
  BY DEF ApplyWrites
<1> QED
  BY <1>1, <1>2, <1>3 DEF TablesGrow

LEMMA SameGrows ==
    ASSUME Typed, UNCHANGED <<lastSeq, appliedEvents>>
    PROVE  TablesGrow
BY DEF TablesGrow, Typed, TypeOK

LEMMA EngineGrows ==
    ASSUME Typed, [Next]_vars
    PROVE  TablesGrow
<1>1. CASE UNCHANGED <<lastSeq, appliedEvents>>
  BY <1>1, SameGrows
<1>2. ASSUME NEW c \in Consumer, pc[c] = "apply", ApplyWrites(current[c])
      PROVE  TablesGrow
  <2>1. current[c] \in Event
    BY <1>2 DEF Typed, CallsOK
  <2> QED
    BY <1>2, <2>1, ApplyGrows
<1> QED
  BY <1>1, <1>2, OnlyApplyWrites

-----------------------------------------------------------------------------
(* The steps of one call. *)
Step(p) ==
    \/ p \in Referral /\ submit_referral(p)
    \/ allocate_for_bed(p)
    \/ p \in Consumer /\ apply_and_notify(p)
    \/ DbError(p)
    \/ CommitReplyLost(p)

LEMMA StepsOfNext ==
    [Next]_vars => UNCHANGED vars \/ Crash \/ \E p \in Proc : Step(p)
BY ProcKinds DEF Next, Fault, Step

(* A step of one call leaves the locals of every other as they are. *)
OthersStill(p) ==
    /\ \A q \in Proc \ {p} :
          /\ pc'[q] = pc[q] /\ target'[q] = target[q] /\ queue'[q] = queue[q]
          /\ passed'[q] = passed[q] /\ chosen'[q] = chosen[q]
    /\ \A r \in Referral \ {p} : tries'[r] = tries[r] /\ answer'[r] = answer[r]
    /\ \A c \in Consumer \ {p} : current'[c] = current[c]

LEMMA StepAlone ==
    ASSUME Typed, NEW p \in Proc, Step(p)
    PROVE  OthersStill(p)
<1>1. /\ DOMAIN pc = Proc /\ DOMAIN target = Proc /\ DOMAIN queue = Proc
      /\ DOMAIN passed = Proc /\ DOMAIN chosen = Proc
      /\ DOMAIN tries = Referral /\ DOMAIN answer = Referral
      /\ DOMAIN current = Consumer
  BY DEF Typed, TypeOK
<1>2. CASE p \in Referral /\ submit_referral(p)
  BY <1>1, <1>2 DEF submit_referral, InsertReferral, FindCandidate,
                    StopSearching, resolve_final_outcome, OthersStill
<1>3. CASE allocate_for_bed(p)
  BY <1>1, <1>3
     DEF allocate_for_bed, LockBed, BedUnavailable, ScanReferrals, PickReferral,
         SkipReferral, NoneEligible, CommitAllocation, EndTransaction,
         OthersStill
<1>4. CASE p \in Consumer /\ apply_and_notify(p)
  BY <1>1, <1>4
     DEF apply_and_notify, Receive, ApplyDuplicate, ApplyUnknownBed, ApplyStale,
         ApplyFresh, Ack, AllocateAnyway, OthersStill
<1>5. CASE DbError(p) \/ CommitReplyLost(p)
  <2>1. Fail(p)
    BY <1>5 DEF DbError, CommitReplyLost
  <2> QED
    BY <1>1, <2>1 DEF Fail, EndTransaction, OthersStill
<1> QED
  BY <1>2, <1>3, <1>4, <1>5 DEF Step

LEMMA StepIsNext ==
    ASSUME NEW p \in Proc, Step(p) PROVE Next
BY DEF Step, Next, Fault

=============================================================================
