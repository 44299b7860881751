-------------------------- MODULE AllocationProofs --------------------------
(***************************************************************************)
(* Who gets which bed, and who is left without one: the truth of an        *)
(* answer, the order of vulnerability, beds that do not stand empty.       *)
(***************************************************************************)
EXTENDS EngineProofs, EngineHistory

-----------------------------------------------------------------------------
(* The inductive invariant, to be used with IInv. *)

(* A referral whose call has begun is in the database; a call that has given
   an answer is over. *)
CallsProgress ==
    \A r \in Referral :
        /\ pc[r] # "new" => refStatus[r] # "absent"
        /\ answer[r] # Silent => pc[r] = "done"

(* No event has freed a bed that suits the referral. *)
NoBedFreedFor(r) ==
    \A e \in appliedEvents : e.status = "available" => ~ Suits(e.bed_id, r)

(* A search that found no candidate is right about it until an event frees
   one. *)
SearchExhaustive ==
    \A r \in Referral : tries[r] < MaxTries /\ NoBedFreedFor(r) =>
        /\ pc[r] = "resolve" \/ answer[r] = Pending => CandidateBeds(r) = {}
        /\ answer[r] = Pending => refStatus[r] = "pending"

(* What the walk of the second SELECT has passed over has a bed or is being
   given one, or has lost that since and so missed this one; and what it has
   chosen comes first among the others. *)
SkippedRightly(p, h) ==
    refStatus[h] # "pending" \/ ReferralLocked(h) \/ h \in missed[target[p]]

WalkOrdered ==
    \A p \in Proc :
        /\ passed[p] \subseteq queue[p]
        /\ pc[p] \notin {"pick", "write"} => passed[p] = {}
        /\ pc[p] \in {"pick", "write"} =>
              /\ \A h \in queue[p] :
                    /\ refStatus[h] # "absent"
                    /\ Suits(target[p], h)
              /\ \A h \in passed[p] : SkippedRightly(p, h)
        /\ pc[p] = "write" =>
              /\ chosen[p] \in queue[p] \ passed[p]
              /\ \A h \in queue[p] \ passed[p] : ~ Precedes(h, chosen[p])

(* An event whose application would write nothing any more. *)
Settles(e) == e \in appliedEvents \/ e.sequence <= lastSeq[e.bed_id]

(* A consumer makes its pass on the bed of its event, which is settled. *)
PassAfterApply ==
    \A c \in Consumer : pc[c] \in {"lock", "scan", "pick", "write"} =>
        target[c] = current[c].bed_id /\ Settles(current[c])

(* Bed b stands empty although referral r could have it and has not missed it,
   r's own search is over and no other bed is being given to r. *)
Waits(b, r) ==
    /\ Stranded(b, r)
    /\ pc[r] \in {"resolve", "done"}
    /\ ~ \E q \in Proc : pc[q] = "write" /\ chosen[q] = r /\ target[q] # b

(* Consumer c will still offer bed b to referral r, or to one before it. *)
PassDue(c, b, r) ==
    \/ pc[c] = "apply" /\ current[c].bed_id = b /\ Settles(current[c])
    \/ /\ pc[c] \in {"lock", "scan", "pick", "write"} /\ target[c] = b
       /\ pc[c] = "pick" => r \in queue[c] \ passed[c]

NobodyForgotten ==
    \A b \in Bed, r \in Referral :
        Waits(b, r) => \E c \in Consumer : PassDue(c, b, r)

-----------------------------------------------------------------------------
(* For the beds and referrals there are, the two filters are Suits. *)
LEMMA FiltersSuit ==
    ASSUME NEW b \in Bed, NEW r \in Referral
    PROVE  /\ ReferralFilter(BedRow[b], ReferralRow[r]) <=> Suits(b, r)
           /\ BedFilter(BedRow[b], ReferralRow[r]) <=> Suits(b, r)
<1>1. BedRow[b] \in BedAttributes /\ ReferralRow[r] \in ReferralNeeds
  BY BedAssumption, ProcAssumption
<1> QED
  BY <1>1, ReferralFilterAgrees, FiltersAgree DEF Suits

(* The three ways a step writes to the tables. *)
LEMMA StepTables ==
    ASSUME Typed, NEW p \in Proc, Step(p)
    PROVE  \/ UNCHANGED tables
           \/ p \in Referral /\ InsertReferral(p)
           \/ pc[p] = "write" /\ Award(target[p], chosen[p])
           \/ p \in Consumer /\ pc[p] = "apply" /\ ApplyWrites(current[p])
<1>1. CASE p \in Referral /\ submit_referral(p)
  BY <1>1 DEF submit_referral, FindCandidate, StopSearching,
              resolve_final_outcome
<1>2. CASE allocate_for_bed(p)
  BY <1>2
     DEF allocate_for_bed, LockBed, BedUnavailable, ScanReferrals, PickReferral,
         SkipReferral, NoneEligible, CommitAllocation
<1>3. CASE p \in Consumer /\ apply_and_notify(p)
  BY <1>3 DEF apply_and_notify, Receive, ApplyDuplicate, ApplyUnknownBed,
              ApplyStale, ApplyFresh, Ack
<1>4. CASE DbError(p)
  BY <1>4 DEF DbError
<1>5. CASE CommitReplyLost(p)
  BY <1>5, ProcKinds DEF CommitReplyLost, Typed, CallsOK
<1> QED
  BY <1>1, <1>2, <1>3, <1>4, <1>5 DEF Step

(* A bed changes its status by an award, which makes it reserved, or by an event
   about it. *)
LEMMA BedChanges ==
    ASSUME Typed, NEW p \in Proc, Step(p), NEW b \in Bed
    PROVE  \/ bedStatus'[b] = bedStatus[b]
           \/ pc[p] = "write" /\ target[p] = b /\ bedStatus'[b] = "reserved"
           \/ /\ p \in Consumer /\ pc[p] = "apply" /\ ApplyWrites(current[p])
              /\ current[p].bed_id = b /\ bedStatus'[b] = current[p].status
<1>1. DOMAIN bedStatus = Bed
  BY DEF Typed, TypeOK
<1>2. CASE UNCHANGED tables
  BY <1>2 DEF tables
<1>3. CASE p \in Referral /\ InsertReferral(p)
  BY <1>3 DEF InsertReferral
<1>4. CASE pc[p] = "write" /\ Award(target[p], chosen[p])
  BY <1>1, <1>4 DEF Award
<1>5. CASE p \in Consumer /\ pc[p] = "apply" /\ ApplyWrites(current[p])
  BY <1>1, <1>5 DEF ApplyWrites
<1> QED
  BY <1>2, <1>3, <1>4, <1>5, StepTables

(* A referral changes its status by its INSERT, by an award, or by an event that
   frees the bed it holds. *)
LEMMA ReferralChanges ==
    ASSUME IInv, NEW p \in Proc, Step(p), NEW r \in Referral
    PROVE  \/ refStatus'[r] = refStatus[r]
           \/ r = p /\ InsertReferral(r) /\ refStatus'[r] = "pending"
           \/ /\ pc[p] = "write" /\ Award(target[p], chosen[p])
              /\ chosen[p] = r /\ refStatus'[r] = "matched"
           \/ /\ refStatus[r] = "matched" /\ refStatus'[r] = "pending"
              /\ p \in Consumer /\ pc[p] = "apply" /\ ApplyWrites(current[p])
              /\ \E row \in reservations :
                    row.bed = current[p].bed_id /\ row.referral = r
<1>1. DOMAIN refStatus = Referral /\ Typed
  BY DEF IInv, Typed, TypeOK
<1>2. CASE UNCHANGED tables
  BY <1>2 DEF tables
<1>3. CASE p \in Referral /\ InsertReferral(p)
  BY <1>1, <1>3 DEF InsertReferral
<1>4. CASE pc[p] = "write" /\ Award(target[p], chosen[p])
  BY <1>1, <1>4 DEF Award
<1>5. CASE p \in Consumer /\ pc[p] = "apply" /\ ApplyWrites(current[p])
  <2>1. CASE UNCHANGED refStatus
    BY <2>1
  <2>2. CASE Displace(ReleasedRows(current[p].bed_id))
    <3>1. current[p].bed_id \in Bed
      BY <1>5 DEF ApplyWrites, KnownBed
    <3>2. refStatus'[r] =
              IF \E row \in reservations :
                    row.bed = current[p].bed_id /\ row.referral = r
              THEN "pending" ELSE refStatus[r]
      BY <2>2, <3>1, DisplacedReferral
    <3>3. \A row \in reservations : refStatus[row.referral] = "matched"
      BY DEF IInv, RowsOK, BooksBalance, RowsAgree
    <3> QED
      BY <1>5, <3>2, <3>3
  <2> QED
    BY <1>5, <2>1, <2>2 DEF ApplyWrites
<1> QED
  BY <1>1, <1>2, <1>3, <1>4, <1>5, StepTables

(* A referral that is in the database stays in it, with its date of arrival. *)
LEMMA PresentStays ==
    ASSUME IInv, NEW p \in Proc, Step(p), NEW r \in Referral,
           refStatus[r] # "absent"
    PROVE  refStatus'[r] # "absent" /\ createdAt'[r] = createdAt[r]
<1>1. refStatus'[r] # "absent"
  BY ReferralChanges
<1>2. Typed /\ DOMAIN createdAt = Referral
  BY DEF IInv, Typed, TypeOK
<1>3. CASE p \in Referral /\ InsertReferral(p)
  <2>1. refStatus[p] = "absent"
    BY <1>3 DEF InsertReferral, IInv, LocksOK, NewIsAbsent
  <2> QED
    BY <1>1, <1>2, <1>3, <2>1 DEF InsertReferral
<1>4. CASE UNCHANGED createdAt
  BY <1>1, <1>4
<1> QED
  BY <1>2, <1>3, <1>4, StepTables DEF tables, Award, ApplyWrites

LEMMA CallsProgressStep ==
    ASSUME IInv, CallsProgress, [Next]_vars
    PROVE  CallsProgress'
<1>1. CASE UNCHANGED vars
  BY <1>1 DEF CallsProgress, vars
<1>2. CASE Crash
  BY <1>2, ProcKinds DEF Crash, CallsProgress, tables, IInv, Typed, CallsOK
<1>3. ASSUME NEW p \in Proc, Step(p), NEW r \in Referral
      PROVE  /\ pc'[r] # "new" => refStatus'[r] # "absent"
             /\ answer'[r] # Silent => pc'[r] = "done"
  <2>1. /\ DOMAIN pc = Proc /\ DOMAIN answer = Referral
        /\ DOMAIN refStatus = Referral /\ OthersStill(p)
        /\ r \in Proc /\ r \notin Consumer
    BY <1>3, StepAlone, ProcKinds DEF IInv, Typed, TypeOK
  <2>2. CASE r # p
    <3>1. pc'[r] = pc[r] /\ answer'[r] = answer[r]
      BY <2>1, <2>2 DEF OthersStill
    <3> QED
      BY <1>3, <3>1, PresentStays DEF CallsProgress
  <2>3. CASE r = p
    <3>1. CASE InsertReferral(p)
      BY <2>1, <2>3, <3>1 DEF InsertReferral, CallsProgress
    <3>2. CASE FindCandidate(p) \/ StopSearching(p) \/ resolve_final_outcome(p)
      BY <2>1, <2>3, <3>2
         DEF FindCandidate, StopSearching, resolve_final_outcome, CallsProgress,
             tables
    <3>3. CASE allocate_for_bed(p)
      <4>1. /\ pc[p] \in {"lock", "scan", "pick", "write"} /\ pc'[p] # "new"
            /\ answer' = answer \/ pc'[p] = "done"
        BY <2>1, <2>3, <3>3
           DEF allocate_for_bed, LockBed, BedUnavailable, ScanReferrals,
               PickReferral, SkipReferral, NoneEligible, CommitAllocation,
               Unallocated
      <4> QED
        BY <1>3, <2>3, <4>1, PresentStays DEF CallsProgress
    <3>4. CASE DbError(p) \/ CommitReplyLost(p)
      <4>1. pc[p] # "new"
        BY <3>4 DEF DbError, FailingCalls, InDatabase, CommitReplyLost
      <4>2. pc'[p] = "done"
        BY <2>1, <2>3, <3>4 DEF DbError, CommitReplyLost, Fail
      <4> QED
        BY <1>3, <2>3, <4>1, <4>2, PresentStays DEF CallsProgress
    <3> QED
      BY <1>3, <2>1, <2>3, <3>1, <3>2, <3>3, <3>4 DEF Step, submit_referral
  <2> QED
    BY <2>2, <2>3
<1> QED
  BY <1>1, <1>2, <1>3, StepsOfNext DEF CallsProgress

-----------------------------------------------------------------------------
(* A bed is not freed for a referral without an event that says so. *)
LEMMA CandidatesShrink ==
    ASSUME IInv, NEW p \in Proc, Step(p), NEW r \in Referral, NoBedFreedFor(r)'
    PROVE  CandidateBeds(r)' \subseteq CandidateBeds(r)
<1> SUFFICES ASSUME NEW b \in Bed, bedStatus'[b] = "available",
                    BedFilter(BedRow[b], ReferralRow[r])
             PROVE  bedStatus[b] = "available"
  BY DEF CandidateBeds
<1>1. Typed /\ Suits(b, r)
  BY FiltersSuit DEF IInv
<1>2. CASE bedStatus'[b] = bedStatus[b]
  BY <1>2
<1>3. CASE bedStatus'[b] = "reserved"
  BY <1>3
<1>4. CASE /\ ApplyWrites(current[p])
           /\ current[p].bed_id = b /\ bedStatus'[b] = current[p].status
  BY <1>1, <1>4 DEF ApplyWrites, NoBedFreedFor
<1> QED
  BY <1>1, <1>2, <1>3, <1>4, BedChanges

(* A search goes on for as long as a call has tries, so their number grows. *)
LEMMA TriesGrow ==
    ASSUME Typed, NEW p \in Proc, Step(p), NEW r \in Referral
    PROVE  tries[r] <= tries'[r]
<1>1. tries \in [Referral -> Nat]
  BY DEF Typed, TypeOK
<1>2. CASE p \in Referral /\ FindCandidate(p)
  BY <1>1, <1>2 DEF FindCandidate, NextTry
<1>3. CASE UNCHANGED tries
  BY <1>1, <1>3
<1>4. CASE p \in Referral /\ submit_referral(p)
  BY <1>2, <1>3, <1>4 DEF submit_referral, InsertReferral, StopSearching,
                          resolve_final_outcome
<1>5. CASE allocate_for_bed(p)
  BY <1>3, <1>5
     DEF allocate_for_bed, LockBed, BedUnavailable, ScanReferrals, PickReferral,
         SkipReferral, NoneEligible, CommitAllocation
<1>6. CASE p \in Consumer /\ apply_and_notify(p)
  BY <1>3, <1>6
     DEF apply_and_notify, Receive, ApplyDuplicate, ApplyUnknownBed, ApplyStale,
         ApplyFresh, Ack, AllocateAnyway
<1>7. CASE DbError(p) \/ CommitReplyLost(p)
  BY <1>3, <1>7 DEF DbError, CommitReplyLost, Fail
<1> QED
  BY <1>4, <1>5, <1>6, <1>7 DEF Step

(* How a call comes to resolve, and how a caller comes to be told "pending". *)
LEMMA PendingAnswers ==
    ASSUME IInv, NEW p \in Proc, Step(p), NEW r \in Referral
    PROVE  /\ pc'[r] = "resolve" =>
                 pc[r] = "resolve" \/ (p = r /\ StopSearching(r))
           /\ answer'[r] = Pending =>
                 \/ answer[r] = Pending
                 \/ /\ p = r /\ pc[r] = "resolve" /\ HeldBy(r) = {}
                    /\ UNCHANGED tables
<1>1. /\ DOMAIN pc = Proc /\ DOMAIN answer = Referral /\ OthersStill(p)
      /\ r \in Proc /\ r \notin Consumer
  BY StepAlone, ProcKinds DEF IInv, Typed, TypeOK
<1>2. CASE r # p
  BY <1>1, <1>2 DEF OthersStill
<1>3. CASE r = p /\ submit_referral(p)
  BY <1>1, <1>3
     DEF submit_referral, InsertReferral, FindCandidate, StopSearching,
         resolve_final_outcome, Matched, Pending
<1>4. CASE r = p /\ allocate_for_bed(p)
  BY <1>1, <1>4
     DEF allocate_for_bed, LockBed, BedUnavailable, ScanReferrals, PickReferral,
         SkipReferral, NoneEligible, CommitAllocation, Unallocated, Matched,
         Pending
<1>5. CASE r = p /\ (DbError(p) \/ CommitReplyLost(p))
  BY <1>1, <1>5 DEF DbError, CommitReplyLost, Fail, Failed, Pending
<1> QED
  BY <1>1, <1>2, <1>3, <1>4, <1>5 DEF Step

LEMMA SearchExhaustiveStep ==
    ASSUME IInv, CallsProgress, SearchExhaustive, [Next]_vars
    PROVE  SearchExhaustive'
<1>1. CASE UNCHANGED vars
  BY <1>1 DEF SearchExhaustive, NoBedFreedFor, CandidateBeds, vars
<1>2. CASE Crash
  <2>1. UNCHANGED tables /\ UNCHANGED tries
    BY <1>2 DEF Crash
  <2>2. \A r \in Referral :
            /\ pc'[r] # "resolve"
            /\ answer'[r] = Pending => answer[r] = Pending
    BY <1>2, ProcKinds DEF Crash, Failed, Pending
  <2> QED
    BY <2>1, <2>2 DEF SearchExhaustive, NoBedFreedFor, CandidateBeds, tables
<1>3. ASSUME NEW p \in Proc, Step(p), NEW r \in Referral,
             tries'[r] < MaxTries, NoBedFreedFor(r)'
      PROVE  /\ pc'[r] = "resolve" \/ answer'[r] = Pending
                   => CandidateBeds(r)' = {}
             /\ answer'[r] = Pending => refStatus'[r] = "pending"
  <2>1. Typed /\ TablesGrow
    BY <1>3, EngineGrows DEF IInv, Step, Next, Fault
  <2>2. tries[r] < MaxTries
    <3>1. tries[r] \in Int /\ tries'[r] \in Int /\ MaxTries \in Int
      BY <1>3, <2>1, NextTyped, BoundAssumption
         DEF Typed, TypeOK, Step, Next, Fault
    <3> QED
      BY <1>3, <2>1, <3>1, TriesGrow
  <2>3. NoBedFreedFor(r)
    BY <1>3, <2>1 DEF NoBedFreedFor, TablesGrow
  <2>4. CandidateBeds(r)' \subseteq CandidateBeds(r)
    BY <1>3, CandidatesShrink
  <2>5. /\ pc[r] = "resolve" \/ answer[r] = Pending => CandidateBeds(r) = {}
        /\ answer[r] = Pending => refStatus[r] = "pending"
    BY <2>2, <2>3 DEF SearchExhaustive
  <2>6. ASSUME pc'[r] = "resolve" \/ answer'[r] = Pending
        PROVE  CandidateBeds(r)' = {}
    <3>1. CASE p = r /\ StopSearching(r)
      BY <2>2, <2>4, <3>1 DEF StopSearching, MoreTries
    <3>2. CASE pc[r] = "resolve" \/ answer[r] = Pending
      BY <2>4, <2>5, <3>2
    <3> QED
      BY <1>3, <2>6, <3>1, <3>2, PendingAnswers
  <2>7. ASSUME answer'[r] = Pending
        PROVE  refStatus'[r] = "pending"
    <3>1. CASE answer[r] = Pending
      <4>1. CandidateBeds(r) = {} /\ refStatus[r] = "pending"
        BY <2>5, <3>1
      <4>2. ~ (pc[p] = "write" /\ chosen[p] = r)
        <5> SUFFICES ASSUME pc[p] = "write", chosen[p] = r
                     PROVE  target[p] \in CandidateBeds(r)
          BY <4>1
        <5>1. /\ target[p] \in Bed /\ bedStatus[target[p]] = "available"
              /\ ReferralFilter(BedRow[target[p]], ReferralRow[r])
          BY DEF IInv, Typed, CallsOK, LocksOK, LocksProtect, InTransaction
        <5> QED
          BY <5>1, FiltersSuit DEF CandidateBeds
      <4> QED
        BY <1>3, <4>1, <4>2, ReferralChanges
    <3>2. CASE pc[r] = "resolve" /\ HeldBy(r) = {} /\ UNCHANGED tables
      <4>1. refStatus[r] # "absent"
        BY <3>2 DEF CallsProgress
      <4>2. refStatus[r] # "matched"
        BY <3>2 DEF HeldBy, IInv, RowsOK, BooksBalance, NothingWithoutRow
      <4> QED
        BY <3>2, <4>1, <4>2 DEF IInv, Typed, TypeOK, tables
    <3> QED
      BY <1>3, <2>7, <3>1, <3>2, PendingAnswers
  <2> QED
    BY <2>6, <2>7
<1> QED
  BY <1>1, <1>2, <1>3, StepsOfNext DEF SearchExhaustive

LEMMA InitAnswers == Init => CallsProgress /\ SearchExhaustive
BY ProcKinds DEF Init, CallsProgress, SearchExhaustive, Silent, Pending

(* Whatever fails, and whatever other calls do, a caller told "pending" has been
   told the truth: the referral waits, and until an event frees a bed that suits
   it nothing will be given to it behind its caller's back. *)
THEOREM PendingAnswersFinal == Spec => []PendingAnswerFinal
<1> DEFINE I == IInv /\ CallsProgress /\ SearchExhaustive
<1>1. Init => I
  BY InitInv, InitAnswers
<1>2. I /\ [Next]_vars => I'
  BY NextInv, CallsProgressStep, SearchExhaustiveStep
<1>3. I => PendingAnswerFinal
  BY DEF SearchExhaustive, NoBedFreedFor, PendingAnswerFinal
<1> QED
  BY <1>1, <1>2, <1>3, PTL DEF Spec

-----------------------------------------------------------------------------
(* What a call knows of the rows it has locked, in the words of Suits. *)
LEMMA LockedRows ==
    ASSUME IInv, NEW p \in Proc
    PROVE  /\ InTransaction(p) =>
                 target[p] \in Bed /\ bedStatus[target[p]] = "available"
           /\ pc[p] = "write" => chosen[p] \in Referral
                                    /\ refStatus[chosen[p]] = "pending"
                                    /\ Suits(target[p], chosen[p])
<1>1. /\ InTransaction(p) =>
            target[p] \in Bed /\ bedStatus[target[p]] = "available"
      /\ pc[p] = "write" =>
            /\ chosen[p] \in Referral /\ refStatus[chosen[p]] = "pending"
            /\ ReferralFilter(BedRow[target[p]], ReferralRow[chosen[p]])
  BY DEF IInv, Typed, CallsOK, LocksOK, LocksProtect, InTransaction
<1> QED
  BY <1>1, FiltersSuit DEF InTransaction

(* A call leaves the statement that writes an award in one step. *)
LEMMA WriteEnds ==
    ASSUME Typed, NEW p \in Proc, Step(p), pc[p] = "write"
    PROVE  pc'[p] # "write"
<1>1. DOMAIN pc = Proc
  BY DEF Typed, TypeOK
<1>2. CASE allocate_for_bed(p)
  BY <1>1, <1>2
     DEF allocate_for_bed, LockBed, BedUnavailable, ScanReferrals, PickReferral,
         SkipReferral, NoneEligible, CommitAllocation, Unallocated
<1>3. CASE p \in Referral /\ submit_referral(p)
  BY <1>3 DEF submit_referral, InsertReferral, FindCandidate, StopSearching,
              resolve_final_outcome
<1>4. CASE p \in Consumer /\ apply_and_notify(p)
  BY <1>4 DEF apply_and_notify, Receive, ApplyDuplicate, ApplyUnknownBed,
              ApplyStale, ApplyFresh, Ack
<1>5. CASE DbError(p) \/ CommitReplyLost(p)
  BY <1>1, <1>5 DEF DbError, CommitReplyLost, Fail
<1> QED
  BY <1>2, <1>3, <1>4, <1>5 DEF Step

(* Only an event about a bed moves its sequence number, and not while a call
   holds the row. *)
LEMMA SequenceChanges ==
    ASSUME Typed, NEW p \in Proc, Step(p), NEW b \in Bed
    PROVE  \/ lastSeq'[b] = lastSeq[b]
           \/ /\ p \in Consumer /\ pc[p] = "apply" /\ ApplyWrites(current[p])
              /\ current[p].bed_id = b /\ ~ BedLocked(b)
<1>1. DOMAIN lastSeq = Bed
  BY DEF Typed, TypeOK
<1>2. CASE p \in Consumer /\ pc[p] = "apply" /\ ApplyWrites(current[p])
  BY <1>1, <1>2 DEF ApplyWrites
<1>3. CASE UNCHANGED lastSeq
  BY <1>3
<1> QED
  BY <1>2, <1>3, StepTables DEF tables, InsertReferral, Award

(* Who misses a free bed by a step. *)
LEMMA MissedNext ==
    ASSUME Remember, NEW b \in Bed, NEW r \in Referral,
           bedStatus'[b] = "available", refStatus'[r] = "pending", Suits(b, r)
    PROVE  r \in missed'[b] <=>
               \/ LosesAnother(b, r)
               \/ r \in missed[b] /\ lastSeq'[b] = lastSeq[b]
BY DEF Remember

(* A referral that could have a bed that stands free, and does not miss it by a
   step, has lost by that step no other bed that it held or was being given. *)
LEMMA NoOtherLost ==
    ASSUME IInv, Remember, NEW b \in Bed, NEW r \in Referral,
           bedStatus'[b] = "available", refStatus'[r] = "pending", Suits(b, r),
           r \notin missed'[b]
    PROVE  /\ refStatus[r] = "matched" =>
                 \E row \in reservations : row.bed = b /\ row.referral = r
           /\ \A q \in Proc :
                 pc[q] = "write" /\ chosen[q] = r /\ target[q] # b
                     => pc'[q] = "write"
<1>1. ~ LosesAnother(b, r)
  BY MissedNext
<1>2. ASSUME refStatus[r] = "matched"
      PROVE  \E row \in reservations : row.bed = b /\ row.referral = r
  <2>1. PICK row \in reservations : row.referral = r
    BY <1>2 DEF IInv, RowsOK, BooksBalance, NothingWithoutRow
  <2> QED
    BY <1>1, <2>1 DEF LosesAnother
<1> QED
  BY <1>1, <1>2 DEF LosesAnother

(* A referral that the walk on one bed has passed over, for another bed that it
   has or is about to get, comes back while the walk goes on only by losing that
   bed, and so misses this one. *)
LEMMA PassedStays ==
    ASSUME IInv, IInv', WalkOrdered, Remember, NEW p \in Proc, Step(p),
           NEW q \in Proc, pc[q] \in {"pick", "write"},
           pc'[q] \in {"pick", "write"}, target'[q] = target[q],
           NEW h \in passed[q]
    PROVE  SkippedRightly(q, h)'
<1> DEFINE b == target[q]
<1>1. /\ h \in Referral /\ refStatus[h] # "absent" /\ Suits(b, h)
      /\ SkippedRightly(q, h)
      /\ pc[q] = "write" => chosen[q] # h
  BY DEF WalkOrdered, IInv, Typed, TypeOK
<1>2. b \in Bed /\ bedStatus[b] = "available" /\ bedStatus'[b] = "available"
  <2>1. b \in Bed /\ bedStatus[b] = "available"
    BY LockedRows DEF InTransaction
  <2>2. bedStatus'[target'[q]] = "available"
    BY DEF IInv, LocksOK, LocksProtect, InTransaction
  <2> QED
    BY <2>1, <2>2
<1>3. SUFFICES ASSUME refStatus'[h] = "pending", ~ ReferralLocked(h)',
                      h \notin missed'[b]
               PROVE  FALSE
  BY DEF SkippedRightly
<1>4. CASE refStatus[h] = "matched"
  <2>1. \E row \in reservations : row.bed = b
    BY <1>1, <1>2, <1>3, <1>4, NoOtherLost
  <2> QED
    BY <1>2, <2>1 DEF IInv, RowsOK, BooksBalance, RowsAgree
<1>5. CASE ReferralLocked(h)
  <2>1. PICK x \in Proc : pc[x] = "write" /\ chosen[x] = h
    BY <1>5 DEF ReferralLocked
  <2>2. CASE target[x] = b
    <3>1. x = q
      BY <2>1, <2>2 DEF IInv, LocksOK, LocksExclusive, InTransaction
    <3> QED
      BY <1>1, <2>1, <3>1
  <2>3. CASE target[x] # b
    <3>1. pc'[x] = "write"
      BY <1>1, <1>2, <1>3, <2>1, <2>3, NoOtherLost
    <3>2. x # p
      BY <2>1, <3>1, WriteEnds DEF IInv
    <3>3. chosen'[x] = h
      BY <2>1, <3>2, StepAlone DEF OthersStill, IInv
    <3> QED
      BY <1>3, <3>1, <3>3 DEF ReferralLocked
  <2> QED
    BY <2>2, <2>3
<1>6. CASE h \in missed[b]
  <2>1. BedLocked(b)
    BY DEF BedLocked
  <2>2. lastSeq'[b] = lastSeq[b]
    BY <1>2, <2>1, SequenceChanges DEF IInv
  <2> QED
    BY <1>1, <1>2, <1>3, <1>6, <2>2, MissedNext
<1>7. refStatus[h] \in {"absent", "pending", "matched"}
  BY <1>1 DEF IInv, Typed, TypeOK
<1> QED
  BY <1>1, <1>4, <1>5, <1>6, <1>7 DEF SkippedRightly

LEMMA WalkOrderedStep ==
    ASSUME IInv, IInv', WalkOrdered, [Next]_vars, Remember
    PROVE  WalkOrdered'
<1>1. CASE UNCHANGED vars
  <2>1. ASSUME NEW q \in Proc, pc[q] \in {"pick", "write"}, NEW h \in passed[q]
        PROVE  SkippedRightly(q, h)'
    <3>1. /\ h \in Referral /\ Suits(target[q], h)
          /\ target[q] \in Bed /\ bedStatus[target[q]] = "available"
      BY <2>1, LockedRows DEF WalkOrdered, InTransaction, IInv, Typed, TypeOK
    <3>2. SkippedRightly(q, h)
      BY <2>1 DEF WalkOrdered
    <3>3. CASE refStatus[h] # "pending" \/ ReferralLocked(h)
      BY <1>1, <3>3 DEF SkippedRightly, ReferralLocked, vars
    <3>4. CASE refStatus[h] = "pending" /\ h \in missed[target[q]]
      BY <1>1, <3>1, <3>4, MissedNext DEF SkippedRightly, vars
    <3> QED
      BY <3>2, <3>3, <3>4 DEF SkippedRightly
  <2> QED
    BY <1>1, <2>1 DEF WalkOrdered, Precedes, vars
<1>2. CASE Crash
  BY <1>2 DEF WalkOrdered, Crash
<1> DEFINE W(q) == /\ passed[q] \subseteq queue[q]
                   /\ pc[q] \notin {"pick", "write"} => passed[q] = {}
                   /\ pc[q] \in {"pick", "write"} =>
                         /\ \A h \in queue[q] : refStatus[h] # "absent"
                                                   /\ Suits(target[q], h)
                         /\ \A h \in passed[q] : SkippedRightly(q, h)
                   /\ pc[q] = "write" =>
                         /\ chosen[q] \in queue[q] \ passed[q]
                         /\ \A h \in queue[q] \ passed[q] :
                               ~ Precedes(h, chosen[q])
<1>3. ASSUME NEW p \in Proc, Step(p), NEW q \in Proc \ {p} PROVE W(q)'
  <2>1. /\ pc'[q] = pc[q] /\ target'[q] = target[q] /\ queue'[q] = queue[q]
        /\ passed'[q] = passed[q] /\ chosen'[q] = chosen[q]
    BY <1>3, StepAlone DEF OthersStill, IInv
  <2>2. W(q) /\ queue[q] \subseteq Referral
    BY DEF WalkOrdered, IInv, Typed, TypeOK
  <2>3. CASE pc[q] \notin {"pick", "write"}
    BY <2>1, <2>2, <2>3
  <2>4. CASE pc[q] \in {"pick", "write"}
    <3>1. \A h \in queue[q] : refStatus'[h] # "absent"
                                 /\ createdAt'[h] = createdAt[h]
      BY <1>3, <2>2, <2>4, PresentStays
    <3>2. \A h \in passed[q] : SkippedRightly(q, h)'
      BY <1>3, <2>1, <2>4, PassedStays
    <3>3. pc[q] = "write" => \A h \in queue[q] \ passed[q] :
                                ~ Precedes(h, chosen[q])'
      BY <2>1, <2>2, <3>1 DEF Precedes
    <3> QED
      BY <2>1, <2>2, <2>4, <3>1, <3>2, <3>3
  <2> QED
    BY <2>3, <2>4
<1>4. ASSUME NEW p \in Proc, Step(p) PROVE W(p)'
  <2>1. /\ DOMAIN pc = Proc /\ DOMAIN target = Proc /\ DOMAIN queue = Proc
        /\ DOMAIN passed = Proc /\ DOMAIN chosen = Proc
    BY DEF IInv, Typed, TypeOK
  <2>2. W(p)
    BY DEF WalkOrdered
  <2>3. CASE ScanReferrals(p)
    <3>1. target[p] \in Bed
      BY <2>3, LockedRows DEF ScanReferrals, InTransaction
    <3>2. \A h \in PendingFor(target[p]) : refStatus[h] # "absent"
                                              /\ Suits(target[p], h)
      BY <3>1, FiltersSuit DEF PendingFor
    <3> QED
      BY <2>1, <2>2, <2>3, <3>2 DEF ScanReferrals, tables
  <2>4. CASE PickReferral(p)
    <3>1. PICK r \in Referral :
              IsNext(p, r) /\ chosen' = [chosen EXCEPT ![p] = r]
      BY <2>4 DEF PickReferral
    <3>2. /\ pc[p] = "pick" /\ pc' = [pc EXCEPT ![p] = "write"]
          /\ UNCHANGED <<tables, target, queue, passed>>
      BY <2>4 DEF PickReferral
    <3>3. \A h \in passed[p] : SkippedRightly(p, h)'
      BY <1>4, <2>1, <3>2, PassedStays
    <3>4. \A h \in queue[p] \ passed[p] : ~ Precedes(h, r)'
      BY <3>1, <3>2 DEF IsNext, Precedes, tables
    <3> QED
      BY <2>1, <2>2, <3>1, <3>2, <3>3, <3>4 DEF IsNext, tables
  <2>5. CASE SkipReferral(p)
    <3>1. PICK r \in Referral :
              /\ IsNext(p, r)
              /\ refStatus[r] # "pending" \/ ReferralLocked(r)
              /\ passed' = [passed EXCEPT ![p] = @ \cup {r}]
      BY <2>5 DEF SkipReferral
    <3>2. pc[p] = "pick" /\ UNCHANGED <<tables, pc, target, queue, chosen>>
      BY <2>5 DEF SkipReferral
    <3>3. \A h \in passed[p] : SkippedRightly(p, h)'
      BY <1>4, <3>2, PassedStays
    <3>4. SkippedRightly(p, r)'
      BY <3>1, <3>2 DEF SkippedRightly, ReferralLocked, tables
    <3> QED
      BY <2>1, <2>2, <3>1, <3>2, <3>3, <3>4 DEF IsNext, tables
  <2>6. CASE CommitAllocation(p) \/ BedUnavailable(p) \/ NoneEligible(p)
    BY <2>1, <2>6 DEF CommitAllocation, BedUnavailable, NoneEligible,
                      EndTransaction, Unallocated
  <2>7. CASE LockBed(p)
    BY <2>1, <2>2, <2>7 DEF LockBed
  <2>8. CASE p \in Referral /\ submit_referral(p)
    BY <2>1, <2>2, <2>8 DEF submit_referral, InsertReferral, FindCandidate,
                            StopSearching, resolve_final_outcome
  <2>9. CASE p \in Consumer /\ apply_and_notify(p)
    BY <2>1, <2>2, <2>9
       DEF apply_and_notify, Receive, ApplyDuplicate, ApplyUnknownBed,
           ApplyStale, ApplyFresh, Ack, AllocateAnyway
  <2>10. CASE DbError(p) \/ CommitReplyLost(p)
    BY <2>1, <2>10 DEF DbError, CommitReplyLost, Fail, EndTransaction
  <2> QED
    BY <1>4, <2>3, <2>4, <2>5, <2>6, <2>7, <2>8, <2>9, <2>10
       DEF Step, allocate_for_bed
<1>5. ASSUME NEW p \in Proc, Step(p), NEW q \in Proc PROVE W(q)'
  BY <1>3, <1>4, <1>5
<1>6. CASE \E p \in Proc : Step(p)
  BY <1>5, <1>6 DEF WalkOrdered
<1> QED
  BY <1>1, <1>2, <1>6, StepsOfNext

LEMMA WalkOrderedNext ==
    IInv /\ WalkOrdered /\ [Next /\ Remember]_<<vars, missed>>
        => IInv' /\ WalkOrdered'
<1> SUFFICES ASSUME IInv, WalkOrdered, [Next /\ Remember]_<<vars, missed>>
             PROVE  IInv' /\ WalkOrdered'
  OBVIOUS
<1>1. IInv'
  BY NextInv DEF vars
<1>2. CASE UNCHANGED <<vars, missed>>
  BY <1>1, <1>2 DEF WalkOrdered, SkippedRightly, ReferralLocked, Precedes, vars
<1>3. CASE Next /\ Remember
  BY <1>1, <1>3, WalkOrderedStep
<1> QED
  BY <1>1, <1>2, <1>3

(* A bed goes to the referral that comes first of those that want it, by its
   score and then by its arrival: in every interleaving of the calls, whatever
   fails and whoever crashes, the only one overtaken is a referral that was
   passed over for another bed and has lost that bed since. *)
THEOREM PriorityAlwaysKept == RememberingSpec => PriorityKept
<1> DEFINE I == IInv /\ WalkOrdered
<1>1. Init => I
  BY InitInv DEF Init, WalkOrdered
<1>2. I /\ [Next /\ Remember]_<<vars, missed>> => I'
  BY WalkOrderedNext
<1>3. I => \A p \in Proc :
          pc[p] = "write" /\ refStatus'[chosen[p]] = "matched" =>
              Overtaken(p) \subseteq passed[p] \cap missed[target[p]]
  <2> SUFFICES ASSUME I, NEW p \in Proc, pc[p] = "write",
                      NEW h \in Overtaken(p)
               PROVE  h \in passed[p] \cap missed[target[p]]
    OBVIOUS
  <2>1. h \in queue[p] /\ refStatus[h] = "pending" /\ ~ ReferralLocked(h)
    BY DEF Overtaken
  <2>2. Precedes(h, chosen[p])
    BY DEF Overtaken, Precedes
  <2>3. h \in passed[p]
    BY <2>1, <2>2 DEF WalkOrdered
  <2> QED
    BY <2>1, <2>3 DEF WalkOrdered, SkippedRightly
<1> QED
  BY <1>1, <1>2, <1>3, PTL DEF RememberingSpec, PriorityKept

-----------------------------------------------------------------------------
(* An event settled stays settled. *)
LEMMA SettledStays ==
    ASSUME Typed, [Next]_vars, NEW e \in Event, e.bed_id \in Bed, Settles(e)
    PROVE  Settles(e)'
<1>1. TablesGrow /\ Typed'
  BY EngineGrows, NextTyped
<1>2. /\ e.sequence \in Int /\ lastSeq[e.bed_id] \in Int
      /\ lastSeq'[e.bed_id] \in Int
  BY <1>1, EventAssumption DEF EventType, Typed, TypeOK
<1> QED
  BY <1>1, <1>2 DEF Settles, TablesGrow

LEMMA PassAfterApplyStep ==
    ASSUME IInv, PassAfterApply, [Next]_vars
    PROVE  PassAfterApply'
<1>1. CASE UNCHANGED vars
  BY <1>1 DEF PassAfterApply, Settles, vars
<1>2. CASE Crash
  BY <1>2 DEF Crash, PassAfterApply, Proc
<1>3. ASSUME NEW p \in Proc, Step(p), NEW c \in Consumer,
             pc'[c] \in {"lock", "scan", "pick", "write"}
      PROVE  target'[c] = current'[c].bed_id /\ Settles(current[c])'
  <2>1. /\ DOMAIN pc = Proc /\ DOMAIN target = Proc /\ DOMAIN current = Consumer
        /\ Typed /\ [Next]_vars /\ c \in Proc /\ c \notin Referral
    BY <1>3, StepIsNext, ProcKinds DEF IInv, Typed, TypeOK
  <2>2. ASSUME pc[c] \in {"lock", "scan", "pick", "write"},
               target'[c] = target[c], current'[c] = current[c]
        PROVE  target'[c] = current'[c].bed_id /\ Settles(current[c])'
    <3>1. /\ current[c] \in Event /\ current[c].bed_id \in Bed
          /\ target[c] = current[c].bed_id /\ Settles(current[c])
      BY <2>1, <2>2 DEF PassAfterApply, Typed, CallsOK
    <3>2. \A e \in Event : e.bed_id \in Bed /\ Settles(e) => Settles(e)'
      BY <2>1, SettledStays
    <3> QED
      BY <2>2, <3>1, <3>2 DEF Settles
  <2>3. CASE p # c
    BY <1>3, <2>1, <2>2, <2>3, StepAlone DEF OthersStill
  <2>4. CASE p = c /\ allocate_for_bed(p)
    BY <1>3, <2>1, <2>2, <2>4
       DEF allocate_for_bed, LockBed, BedUnavailable, ScanReferrals,
           PickReferral, SkipReferral, NoneEligible, CommitAllocation,
           Unallocated
  <2>5. CASE p = c /\ (ApplyDuplicate(p) \/ ApplyStale(p) \/ ApplyFresh(p))
    BY <2>1, <2>5 DEF ApplyDuplicate, ApplyStale, ApplyFresh, ApplyWrites, Stale,
                      AllocateAnyway, Settles, tables
  <2>6. CASE p = c /\ (Receive(p) \/ ApplyUnknownBed(p) \/ Ack(p))
    BY <1>3, <2>1, <2>6 DEF Receive, ApplyUnknownBed, Ack
  <2>7. CASE p = c /\ (DbError(p) \/ CommitReplyLost(p))
    BY <1>3, <2>1, <2>7 DEF DbError, CommitReplyLost, Fail
  <2> QED
    BY <1>3, <2>1, <2>3, <2>4, <2>5, <2>6, <2>7 DEF Step, apply_and_notify
<1> QED
  BY <1>1, <1>2, <1>3, StepsOfNext DEF PassAfterApply

-----------------------------------------------------------------------------
(* What a call has given up it does not take up again. *)
LEMMA GivenUpStays ==
    ASSUME Typed, CallsProgress, NEW p \in Proc, Step(p), NEW r \in Referral,
           GivenUp(r)
    PROVE  GivenUp(r)'
<1>1. CASE tries[r] >= MaxTries
  <2>1. Typed'
    BY NextTyped, StepIsNext
  <2>2. tries[r] \in Int /\ tries'[r] \in Int /\ MaxTries \in Int
    BY <2>1, BoundAssumption DEF Typed, TypeOK
  <2> QED
    BY <1>1, <2>2, TriesGrow DEF GivenUp
<1>2. CASE answer[r] = Failed
  <2>1. pc[r] = "done" /\ r \in Proc /\ r \notin Consumer
    BY <1>2, ProcKinds DEF CallsProgress, Failed, Silent
  <2>2. answer'[r] = answer[r]
    <3>1. CASE p # r
      BY <3>1, StepAlone DEF OthersStill
    <3>2. CASE p = r
      BY <2>1, <3>2
         DEF Step, submit_referral, InsertReferral, FindCandidate,
             StopSearching, resolve_final_outcome, allocate_for_bed, LockBed,
             BedUnavailable, ScanReferrals, PickReferral, SkipReferral,
             NoneEligible, CommitAllocation, DbError, FailingCalls, InDatabase,
             CommitReplyLost
    <3> QED
      BY <3>1, <3>2
  <2> QED
    BY <1>2, <2>2 DEF GivenUp
<1> QED
  BY <1>1, <1>2 DEF GivenUp

(* How a call of submit_referral comes to the end of its search without an
   error: by finding no candidate, by the answer, or with a bed. *)
LEMMA SearchEnds ==
    ASSUME IInv, NEW r \in Referral, Step(r), ~ GivenUp(r), ~ GivenUp(r)',
           pc'[r] \in {"resolve", "done"}
    PROVE  \/ CandidateBeds(r) = {} /\ UNCHANGED tables
           \/ /\ pc[r] = "resolve" /\ UNCHANGED tables
              /\ \A q \in Proc \ {r} : pc'[q] = pc[q]
           \/ refStatus'[r] = "matched"
<1>1. /\ DOMAIN pc = Proc /\ DOMAIN answer = Referral /\ DOMAIN refStatus = Referral
      /\ r \in Proc /\ r \notin Consumer
      /\ tries \in [Referral -> Nat] /\ MaxTries \in Int
  BY ProcKinds, BoundAssumption DEF IInv, Typed, TypeOK
<1>2. CASE submit_referral(r)
  <2>1. CASE InsertReferral(r) \/ FindCandidate(r)
    BY <1>1, <2>1 DEF InsertReferral, FindCandidate
  <2>2. CASE StopSearching(r)
    BY <1>1, <2>2 DEF StopSearching, MoreTries, GivenUp
  <2>3. CASE resolve_final_outcome(r)
    BY <1>1, <2>3 DEF resolve_final_outcome
  <2> QED
    BY <1>2, <2>1, <2>2, <2>3 DEF submit_referral
<1>3. CASE allocate_for_bed(r)
  <2>1. CASE CommitAllocation(r)
    BY <1>1, <2>1 DEF CommitAllocation, Award, Unallocated
  <2> QED
    BY <1>1, <1>3, <2>1
       DEF allocate_for_bed, LockBed, BedUnavailable, ScanReferrals,
           PickReferral, SkipReferral, NoneEligible, Unallocated
<1>4. CASE DbError(r) \/ CommitReplyLost(r)
  BY <1>1, <1>4 DEF DbError, CommitReplyLost, Fail, GivenUp
<1> QED
  BY <1>1, <1>2, <1>3, <1>4 DEF Step

(* A bed comes to stand empty before a referral that could have it in one way
   only: an event about that bed is applied. *)
LEMMA WaitsNew ==
    ASSUME IInv, CallsProgress, Remember, NEW p \in Proc, Step(p),
           NEW b \in Bed, NEW r \in Referral, Waits(b, r)'
    PROVE  \/ Waits(b, r)
           \/ /\ p \in Consumer /\ pc[p] = "apply" /\ ApplyWrites(current[p])
              /\ current[p].bed_id = b
<1> SUFFICES ASSUME ~ (/\ p \in Consumer /\ pc[p] = "apply"
                       /\ ApplyWrites(current[p]) /\ current[p].bed_id = b)
             PROVE  Waits(b, r)
  OBVIOUS
<1>1. /\ Typed /\ OthersStill(p) /\ r \in Proc /\ r \notin Consumer
      /\ reservations \subseteq Reservation
  BY StepAlone, ProcKinds DEF IInv, Typed, TypeOK
<1>2. /\ bedStatus'[b] = "available" /\ refStatus'[r] = "pending"
      /\ ReferralFilter(BedRow[b], ReferralRow[r]) /\ r \notin missed'[b]
      /\ ~ GivenUp(r)' /\ pc'[r] \in {"resolve", "done"}
      /\ \A q \in Proc : pc'[q] = "write" /\ chosen'[q] = r => target'[q] = b
  BY DEF Waits, Stranded, PendingFor
<1>3. bedStatus[b] = "available" /\ Suits(b, r) /\ ~ GivenUp(r)
  BY <1>1, <1>2, BedChanges, FiltersSuit, GivenUpStays
<1>4. r \notin missed[b]
  <2>1. lastSeq'[b] = lastSeq[b]
    BY <1>1, SequenceChanges
  <2> QED
    BY <1>2, <1>3, <2>1, MissedNext
<1>5. CASE p = r
  <2>1. CASE CandidateBeds(r) = {} /\ UNCHANGED tables
    BY <1>3, <2>1, FiltersSuit DEF CandidateBeds
  <2>2. CASE /\ pc[r] = "resolve" /\ UNCHANGED tables
             /\ \A q \in Proc \ {r} : pc'[q] = pc[q]
    <3>1. \A q \in Proc : pc[q] = "write" /\ chosen[q] = r => target[q] = b
      BY <1>1, <1>2, <1>5, <2>2 DEF OthersStill
    <3> QED
      BY <1>2, <1>3, <1>4, <2>2, <3>1 DEF Waits, Stranded, PendingFor, tables
  <2> QED
    BY <1>2, <1>3, <1>5, <2>1, <2>2, SearchEnds
<1>6. CASE p # r
  <2>1. pc[r] \in {"resolve", "done"}
    BY <1>1, <1>2, <1>6 DEF OthersStill
  <2>2. refStatus[r] = "pending"
    <3>1. CASE /\ refStatus[r] = "matched"
               /\ p \in Consumer /\ pc[p] = "apply" /\ ApplyWrites(current[p])
               /\ \E row \in reservations :
                     row.bed = current[p].bed_id /\ row.referral = r
      <4>1. \E row \in reservations : row.bed = b /\ row.referral = r
        BY <1>2, <1>3, <3>1, NoOtherLost
      <4>2. current[p].bed_id = b
        BY <3>1, <4>1 DEF IInv, RowsOK, NoDoubleBooking
      <4> QED
        BY <3>1, <4>2
    <3> QED
      BY <1>2, <1>6, <3>1, ReferralChanges
  <2>3. ASSUME NEW q \in Proc, pc[q] = "write", chosen[q] = r
        PROVE  target[q] = b
    <3>1. SUFFICES ASSUME target[q] # b PROVE FALSE
      OBVIOUS
    <3>2. pc'[q] = "write"
      BY <1>2, <1>3, <2>3, <3>1, NoOtherLost
    <3>3. q # p
      BY <1>1, <2>3, <3>2, WriteEnds
    <3> QED
      BY <1>1, <1>2, <2>3, <3>1, <3>2, <3>3 DEF OthersStill
  <2> QED
    BY <1>2, <1>3, <1>4, <2>1, <2>2, <2>3 DEF Waits, Stranded, PendingFor
<1> QED
  BY <1>5, <1>6

(* While the bed stands empty before the referral, the pass of a consumer goes
   on: its walk reaches the referral, which nobody else is taking for another
   bed, and a failure makes the handler start over with an event that is
   settled by now. *)
LEMMA PassKept ==
    ASSUME IInv, WalkOrdered, PassAfterApply, NEW p \in Proc, Step(p),
           NEW b \in Bed, NEW r \in Referral, Waits(b, r), Waits(b, r)',
           NEW c \in Consumer, PassDue(c, b, r)
    PROVE  PassDue(c, b, r)'
<1>1. /\ DOMAIN pc = Proc /\ DOMAIN target = Proc /\ DOMAIN queue = Proc
      /\ DOMAIN passed = Proc /\ DOMAIN current = Consumer
      /\ Typed /\ OthersStill(p) /\ c \in Proc /\ c \notin Referral
  BY StepAlone, ProcKinds DEF IInv, Typed, TypeOK
<1>2. /\ bedStatus[b] = "available" /\ bedStatus'[b] = "available"
      /\ r \in PendingFor(b) /\ refStatus[r] = "pending"
  BY DEF Waits, Stranded, PendingFor
<1>3. /\ current[c] \in Event /\ current[c].bed_id = b /\ Settles(current[c])
      /\ pc[c] \in {"apply", "lock", "scan", "pick", "write"}
      /\ pc[c] # "apply" => target[c] = b
  BY DEF PassDue, PassAfterApply, Typed, CallsOK, IInv
<1>4. \A e \in Event : e.bed_id \in Bed /\ Settles(e) => Settles(e)'
  BY <1>1, SettledStays, StepIsNext
<1>5. CASE p # c
  BY <1>1, <1>3, <1>4, <1>5 DEF PassDue, OthersStill, Settles
<1>6. CASE p = c /\ (DbError(p) \/ CommitReplyLost(p))
  <2>1. pc' = [pc EXCEPT ![c] = "apply"] /\ current' = current
    BY <1>6 DEF DbError, CommitReplyLost, Fail
  <2> QED
    BY <1>1, <1>3, <1>4, <2>1 DEF PassDue, Settles
<1>7. CASE p = c /\ apply_and_notify(p)
  <2>1. current[c] \notin appliedEvents => Stale(current[c])
    BY <1>3 DEF Settles, Stale
  <2>2. ApplyDuplicate(c) \/ ApplyStale(c)
    BY <1>3, <1>7, <2>1
       DEF apply_and_notify, Receive, ApplyUnknownBed, KnownBed, ApplyFresh,
           ApplyWrites, Ack
  <2> QED
    BY <1>1, <1>3, <2>2
       DEF ApplyDuplicate, ApplyStale, AllocateAnyway, PassDue
<1>8. CASE p = c /\ allocate_for_bed(p)
  <2>1. CASE LockBed(c)
    BY <1>1, <1>3, <2>1 DEF LockBed, PassDue
  <2>2. CASE BedUnavailable(c)
    BY <1>2, <1>3, <2>2 DEF BedUnavailable
  <2>3. CASE ScanReferrals(c)
    <3>1. passed[c] = {}
      BY <1>1, <2>3 DEF ScanReferrals, WalkOrdered
    <3> QED
      BY <1>1, <1>2, <1>3, <2>3, <3>1 DEF ScanReferrals, PassDue
  <2>4. CASE PickReferral(c)
    BY <1>1, <1>3, <2>4 DEF PickReferral, PassDue
  <2>5. CASE SkipReferral(c)
    <3>1. PICK s \in Referral :
              /\ refStatus[s] # "pending" \/ ReferralLocked(s)
              /\ passed' = [passed EXCEPT ![c] = @ \cup {s}]
      BY <2>5 DEF SkipReferral
    <3>2. pc[c] = "pick" /\ target[c] = b /\ r \in queue[c] \ passed[c]
      BY <2>5 DEF SkipReferral, PassDue
    <3>3. ~ ReferralLocked(r)
      <4> SUFFICES ASSUME NEW q \in Proc, pc[q] = "write", chosen[q] = r
                   PROVE  FALSE
        BY DEF ReferralLocked
      <4>1. target[q] = target[c]
        BY <3>2 DEF Waits
      <4> QED
        BY <1>1, <3>2, <4>1 DEF IInv, LocksOK, LocksExclusive, InTransaction
    <3>4. r # s
      BY <1>2, <3>1, <3>3
    <3> QED
      BY <1>1, <2>5, <3>1, <3>2, <3>4 DEF SkipReferral, PassDue
  <2>6. CASE NoneEligible(c)
    BY <2>6 DEF NoneEligible, PassDue
  <2>7. CASE CommitAllocation(c)
    BY <1>1, <1>2, <1>3, <2>7 DEF CommitAllocation, Award, IInv, Typed, TypeOK
  <2> QED
    BY <1>8, <2>1, <2>2, <2>3, <2>4, <2>5, <2>6, <2>7 DEF allocate_for_bed
<1> QED
  BY <1>1, <1>5, <1>6, <1>7, <1>8 DEF Step

(* The consumer whose event makes a bed stand empty makes the pass itself, and
   makes it all the same when the reply to its COMMIT is lost. *)
LEMMA PassBegins ==
    ASSUME Typed, NEW c \in Consumer, Step(c), pc[c] = "apply",
           ApplyWrites(current[c]), NEW b \in Bed, current[c].bed_id = b,
           NEW r \in Referral
    PROVE  PassDue(c, b, r)'
<1>1. /\ DOMAIN pc = Proc /\ DOMAIN target = Proc /\ c \in Proc
      /\ c \notin Referral
  BY ProcKinds DEF Typed, TypeOK
<1>2. current[c] \notin appliedEvents /\ current[c] \in appliedEvents'
      /\ ~ Stale(current[c]) /\ KnownBed(current[c])
  BY DEF ApplyWrites
<1>3. CASE ApplyFresh(c)
  BY <1>1, <1>3 DEF ApplyFresh, AllocateAnyway, PassDue
<1>4. CASE DbError(c) \/ CommitReplyLost(c)
  BY <1>1, <1>2, <1>4 DEF DbError, CommitReplyLost, Fail, PassDue, Settles
<1> QED
  BY <1>1, <1>2, <1>3, <1>4
     DEF Step, apply_and_notify, Receive, ApplyDuplicate, ApplyUnknownBed,
         ApplyStale, Ack, allocate_for_bed, LockBed, BedUnavailable,
         ScanReferrals, PickReferral, SkipReferral, NoneEligible,
         CommitAllocation

AllocationInv ==
    IInv /\ CallsProgress /\ WalkOrdered /\ PassAfterApply

LEMMA AllocationInvInit == Init => AllocationInv /\ NobodyForgotten
<1> SUFFICES ASSUME Init PROVE AllocationInv /\ NobodyForgotten
  OBVIOUS
<1>1. IInv /\ CallsProgress
  BY InitInv, InitAnswers
<1>2. WalkOrdered /\ PassAfterApply
  BY ProcKinds DEF Init, WalkOrdered, PassAfterApply
<1>3. \A r \in Referral : refStatus[r] = "absent"
  BY DEF Init
<1> QED
  BY <1>1, <1>2, <1>3
     DEF AllocationInv, NobodyForgotten, Waits, Stranded, PendingFor

LEMMA AllocationInvNext ==
    ASSUME AllocationInv,
           \/ [Next]_vars /\ Remember
           \/ UNCHANGED <<vars, missed>>
    PROVE  AllocationInv'
<1>1. IInv' /\ CallsProgress' /\ PassAfterApply'
  BY NextInv, CallsProgressStep, PassAfterApplyStep DEF AllocationInv, vars
<1>2. CASE UNCHANGED <<vars, missed>>
  BY <1>1, <1>2
     DEF AllocationInv, WalkOrdered, SkippedRightly, ReferralLocked, Precedes,
         vars
<1>3. CASE [Next]_vars /\ Remember
  BY <1>1, <1>3, WalkOrderedStep DEF AllocationInv
<1> QED
  BY <1>2, <1>3

(* While the engine does nothing, nobody comes to wait. *)
LEMMA NobodyNew ==
    ASSUME UNCHANGED vars, Remember \/ UNCHANGED missed,
           NEW b \in Bed, NEW r \in Referral, Waits(b, r)'
    PROVE  Waits(b, r)
<1>1. /\ bedStatus'[b] = "available" /\ refStatus'[r] = "pending"
      /\ r \notin missed'[b] /\ lastSeq'[b] = lastSeq[b]
      /\ ReferralFilter(BedRow[b], ReferralRow[r])
  BY DEF Waits, Stranded, PendingFor, vars
<1>2. r \notin missed[b]
  BY <1>1, MissedNext, FiltersSuit
<1> QED
  BY <1>2 DEF Waits, Stranded, PendingFor, GivenUp, vars

LEMMA NobodyForgottenStep ==
    ASSUME "crash" \notin Faults, AllocationInv, NobodyForgotten,
           [Next /\ Remember]_<<vars, missed>>
    PROVE  NobodyForgotten'
<1>1. CASE UNCHANGED <<vars, missed>>
  <2>1. \A b \in Bed, r \in Referral : Waits(b, r)' => Waits(b, r)
    BY <1>1, NobodyNew DEF vars
  <2> QED
    BY <1>1, <2>1 DEF NobodyForgotten, PassDue, Settles, vars
<1>2. ASSUME Remember, NEW p \in Proc, Step(p), NEW b \in Bed,
             NEW r \in Referral, Waits(b, r)'
      PROVE  \E c \in Consumer : PassDue(c, b, r)'
  <2>1. CASE Waits(b, r)
    <3>1. PICK c \in Consumer : PassDue(c, b, r)
      BY <2>1 DEF NobodyForgotten
    <3>2. PassDue(c, b, r)'
      BY <1>2, <2>1, <3>1, PassKept DEF AllocationInv
    <3> QED
      BY <3>2
  <2>2. CASE /\ p \in Consumer /\ pc[p] = "apply" /\ ApplyWrites(current[p])
             /\ current[p].bed_id = b
    <3>1. PassDue(p, b, r)'
      BY <1>2, <2>2, PassBegins DEF AllocationInv, IInv
    <3> QED
      BY <2>2, <3>1
  <2> QED
    BY <1>2, <2>1, <2>2, WaitsNew DEF AllocationInv
<1>3. CASE UNCHANGED vars /\ Remember
  <2>1. \A b \in Bed, r \in Referral : Waits(b, r)' => Waits(b, r)
    BY <1>3, NobodyNew
  <2> QED
    BY <1>3, <2>1 DEF NobodyForgotten, PassDue, Settles, vars
<1>4. ~ Crash
  BY DEF Crash
<1> QED
  BY <1>1, <1>2, <1>3, <1>4, StepsOfNext DEF NobodyForgotten

(* When all is at rest, a referral that could have an empty bed waits for it. *)
LEMMA RestMeansWaiting ==
    ASSUME IInv, AtRest, NEW b \in Bed, NEW r \in Referral, Stranded(b, r)
    PROVE  Waits(b, r)
<1>1. r \in Proc /\ refStatus[r] = "pending"
  BY ProcKinds DEF Stranded, PendingFor
<1>2. \A q \in Proc : pc[q] \in {"new", "done", "idle"}
  BY DEF AtRest
<1>3. pc[r] = "done"
  BY <1>1, <1>2 DEF IInv, LocksOK, NewIsAbsent, Typed, CallsOK
<1> QED
  BY <1>2, <1>3 DEF Waits

(* Between crashes the two triggers of allocate_for_bed are enough, whatever
   statements fail and whatever replies are lost, for every bed and referral but
   those that the displacement of a referral, or an award that is rolled back,
   has parted: when no call runs, no bed stands empty that a waiting referral
   could have, unless it was free when the referral lost another and no event
   has freed it since, or the referral's own call failed or ran out of tries. *)
THEOREM NoBedIsStranded ==
    ASSUME "crash" \notin Faults
    PROVE  RememberingSpec => []NoStrandedBed
<1> DEFINE I == AllocationInv /\ NobodyForgotten
<1>1. Init => I
  BY AllocationInvInit
<1>2. I /\ [Next /\ Remember]_<<vars, missed>> => I'
  BY AllocationInvNext, NobodyForgottenStep
<1>3. I => NoStrandedBed
  <2> SUFFICES ASSUME I, AtRest, NEW b \in Bed, NEW r \in Referral,
                      Stranded(b, r)
               PROVE  FALSE
    BY DEF NoStrandedBed
  <2>1. PICK c \in Consumer : PassDue(c, b, r)
    BY RestMeansWaiting DEF AllocationInv, NobodyForgotten
  <2> QED
    BY <2>1, ProcKinds DEF AtRest, PassDue
<1> QED
  BY <1>1, <1>2, <1>3, PTL DEF RememberingSpec

=============================================================================
