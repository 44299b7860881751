--------------------------- MODULE MatchingEngine ---------------------------
(***************************************************************************)
(* The matching engine: the database it owns and the calls that run        *)
(* against it concurrently.  A referral is submitted by one call of        *)
(* submit_referral, so a referral names the process that submits it; a     *)
(* consumer is a Kafka consumer task applying bed-status events.  Both     *)
(* kinds of process run allocate_for_bed, one statement per action.        *)
(*                                                                         *)
(* Row locks are held from the statement that takes them to the end of the *)
(* transaction, so they are functions of the program counters: BedLocked   *)
(* and ReferralLocked below.  A transaction's writes are visible to others *)
(* only at its commit and are one action.                                  *)
(***************************************************************************)
EXTENDS Eligibility, FiniteSets

CONSTANTS
    Bed,            \* rows of beds, as ids; ids are ordered
    BedId,          \* bed ids an event may carry, beds or not
    BedRow,         \* [Bed -> BedAttributes]
    SeedStatus,     \* the initial values of beds.status
    Referral,       \* referrals ever submitted = calls of submit_referral
    ReferralRow,    \* [Referral -> ReferralNeeds]
    Consumer,       \* Kafka consumer tasks
    Event,          \* bed-status events that may be delivered, any number of
                    \* times and in any order
    MaxTries,       \* iterations of submit_referral's loop (500 in the code)
    Faults,         \* the failures that may happen
    NoBed, NoReferral, NoEvent

EventStatus == {"available", "occupied", "maintenance"}
EventType == [event_id : Nat, bed_id : BedId, status : EventStatus,
              sequence : Int]
Proc == Referral \cup Consumer

ASSUME BedAssumption ==
    /\ Bed \subseteq Nat /\ Bed \subseteq BedId
    /\ NoBed \notin BedId
    /\ BedRow \in [Bed -> BedAttributes]
    /\ SeedStatus \subseteq [Bed -> {"available", "occupied"}]

ASSUME ProcAssumption ==
    /\ IsFiniteSet(Referral)
    /\ Referral \cap Consumer = {}
    /\ NoReferral \notin Referral
    /\ ReferralRow \in [Referral -> ReferralNeeds]

ASSUME EventAssumption ==
    /\ Event \subseteq EventType /\ NoEvent \notin Event
    /\ \A e, f \in Event : e.event_id = f.event_id => e = f

ASSUME BoundAssumption ==
    /\ MaxTries \in Nat \ {0}
    /\ Faults \subseteq {"db_error", "reply_lost", "crash"}

-----------------------------------------------------------------------------
VARIABLES
    bedStatus,      \* beds.status
    lastSeq,        \* beds.last_event_sequence
    refStatus,      \* referrals.status, "absent" before the INSERT
    createdAt,      \* referrals.created_at, as a rank
    reservations,   \* the reservations rows that are active or checked_in
    appliedEvents,  \* the applied_events ledger
    pc,             \* where each call stands
    target,         \* the bed a call is allocating
    queue,          \* the pending referrals a SELECT ... SKIP LOCKED saw
    passed,         \* those of them it has already passed over
    chosen,         \* the referral row it has locked
    tries,          \* iterations of submit_referral's loop
    answer,         \* what submit_referral told its caller
    current         \* the event a consumer is applying

tables == <<bedStatus, lastSeq, refStatus, createdAt, reservations,
            appliedEvents>>
calls == <<pc, target, queue, passed, chosen, tries, answer, current>>
vars == <<bedStatus, lastSeq, refStatus, createdAt, reservations,
          appliedEvents, pc, target, queue, passed, chosen, tries, answer,
          current>>

Reservation == [bed : Bed, referral : Referral,
                status : {"active", "checked_in"}]
Answer == [outcome : {"none", "pending", "error"}, bed : {NoBed}]
              \cup [outcome : {"matched"}, bed : Bed]
Pc == {"new", "search", "resolve", "done",      \* submit_referral
       "idle", "apply", "ack",                  \* a consumer
       "lock", "scan", "pick", "write"}         \* allocate_for_bed

Silent == [outcome |-> "none", bed |-> NoBed]
Pending == [outcome |-> "pending", bed |-> NoBed]
Failed == [outcome |-> "error", bed |-> NoBed]
Matched(b) == [outcome |-> "matched", bed |-> b]

Init ==
    /\ bedStatus \in SeedStatus
    /\ lastSeq = [b \in Bed |-> 0]
    /\ refStatus = [r \in Referral |-> "absent"]
    /\ createdAt = [r \in Referral |-> 0]
    /\ reservations = {}
    /\ appliedEvents = {}
    /\ pc = [p \in Proc |-> IF p \in Referral THEN "new" ELSE "idle"]
    /\ target = [p \in Proc |-> NoBed]
    /\ queue = [p \in Proc |-> {}]
    /\ passed = [p \in Proc |-> {}]
    /\ chosen = [p \in Proc |-> NoReferral]
    /\ tries = [r \in Referral |-> 0]
    /\ answer = [r \in Referral |-> Silent]
    /\ current = [c \in Consumer |-> NoEvent]

-----------------------------------------------------------------------------
(* Broken versions of definitions below, each what one edit of the code would
   make of it.  The specification uses none of them: with one in the place of
   its definition, a run has to find a property violated.                  *)

BedNeverLocked(b) == FALSE                   \* no FOR UPDATE on the bed
ReferralNeverLocked(r) == FALSE              \* no FOR UPDATE SKIP LOCKED
FirstComeFirstServed(r, s) == createdAt[r] < createdAt[s]
HoldsNothing(r) == {}                        \* no resolve_final_outcome
NeverStale(e) == FALSE                       \* no sequence check
OnlyActiveRows(b) ==                         \* AND status = 'active'
    {row \in reservations : row.bed = b /\ row.status = "active"}
LeaveMatched(rows) == UNCHANGED refStatus    \* no UPDATE of the referral
DisplaceToExpired(rows) ==                   \* SET status = 'expired'
    \/ rows = {} /\ UNCHANGED refStatus
    \/ \E row \in rows :
          refStatus' = [refStatus EXCEPT ![row.referral] = "expired"]
SameTry(r) == tries[r]                       \* loop instead of for _ in 0..500
RetryUnknownBed(c) ==                        \* Err instead of Ok(UnknownBed)
    /\ pc[c] = "apply"
    /\ current[c] \notin appliedEvents
    /\ current[c].bed_id \notin Bed
    /\ UNCHANGED vars
ReturnAtOnce(c) ==                           \* no allocation pass
    /\ pc' = [pc EXCEPT ![c] = "ack"]
    /\ UNCHANGED <<target, queue, passed, chosen, tries, answer, current>>

-----------------------------------------------------------------------------
(* What the statements read. *)

(* SELECT ... FROM beds WHERE id = b FOR UPDATE waits while this holds. *)
BedLocked(b) == \E p \in Proc : pc[p] \in {"scan", "pick", "write"}
                                 /\ target[p] = b

ReferralLocked(r) == \E p \in Proc : pc[p] = "write" /\ chosen[p] = r

(* ORDER BY vulnerability_score DESC, created_at ASC *)
Precedes(r, s) ==
    LET x == ReferralRow[r].vulnerability_score
        y == ReferralRow[s].vulnerability_score
    IN  x > y \/ (x = y /\ createdAt[r] < createdAt[s])

(* The candidate query of submit_referral. *)
CandidateBeds(r) == {b \in Bed : /\ bedStatus[b] = "available"
                                 /\ BedFilter(BedRow[b], ReferralRow[r])}

(* The rows that qualify for allocate_for_bed's second SELECT. *)
PendingFor(b) == {r \in Referral : /\ refStatus[r] = "pending"
                                   /\ ReferralFilter(BedRow[b], ReferralRow[r])}

HeldBy(r) == {row \in reservations : row.referral = r}

(* The two partial unique indexes on active reservations. *)
UniqueIndexesAllow(b, r) ==
    \A row \in reservations :
        row.status = "active" => row.bed # b /\ row.referral # r

-----------------------------------------------------------------------------
(* submit_referral *)

InsertReferral(r) ==
    /\ pc[r] = "new"
    /\ pc' = [pc EXCEPT ![r] = "search"]
    /\ refStatus' = [refStatus EXCEPT ![r] = "pending"]
    /\ createdAt' = [createdAt EXCEPT ![r] =
                        1 + Cardinality({s \in Referral :
                                            refStatus[s] # "absent"})]
    /\ UNCHANGED <<bedStatus, lastSeq, reservations, appliedEvents, target,
                   queue, passed, chosen, tries, answer, current>>

MoreTries(r) == tries[r] < MaxTries

NextTry(r) == tries[r] + 1

FindCandidate(r) ==
    /\ pc[r] = "search" /\ MoreTries(r)
    /\ \E b \in CandidateBeds(r) :
          /\ \A c \in CandidateBeds(r) : b <= c
          /\ target' = [target EXCEPT ![r] = b]
    /\ tries' = [tries EXCEPT ![r] = NextTry(r)]
    /\ pc' = [pc EXCEPT ![r] = "lock"]
    /\ UNCHANGED <<tables, queue, passed, chosen, answer, current>>

(* The loop ends, by its early exit or by its bound: both re-read the
   referral before answering. *)
StopSearching(r) ==
    /\ pc[r] = "search"
    /\ ~ MoreTries(r) \/ CandidateBeds(r) = {}
    /\ pc' = [pc EXCEPT ![r] = "resolve"]
    /\ UNCHANGED <<tables, target, queue, passed, chosen, tries, answer,
                   current>>

resolve_final_outcome(r) ==
    /\ pc[r] = "resolve"
    /\ \/ /\ HeldBy(r) = {}
          /\ answer' = [answer EXCEPT ![r] = Pending]
       \/ \E row \in HeldBy(r) :
             answer' = [answer EXCEPT ![r] = Matched(row.bed)]
    /\ pc' = [pc EXCEPT ![r] = "done"]
    /\ UNCHANGED <<tables, target, queue, passed, chosen, tries, current>>

-----------------------------------------------------------------------------
(* allocate_for_bed *)

(* The transaction of p ends and its locks go. *)
EndTransaction(p) ==
    /\ target' = [target EXCEPT ![p] = NoBed]
    /\ queue' = [queue EXCEPT ![p] = {}]
    /\ passed' = [passed EXCEPT ![p] = {}]
    /\ chosen' = [chosen EXCEPT ![p] = NoReferral]

(* Where the caller of allocate_for_bed goes on with an Ok(None). *)
Unallocated(p) == IF p \in Consumer THEN "ack" ELSE "search"

LockBed(p) ==
    /\ pc[p] = "lock"
    /\ ~ BedLocked(target[p])
    /\ bedStatus[target[p]] = "available"
    /\ pc' = [pc EXCEPT ![p] = "scan"]
    /\ UNCHANGED <<tables, target, queue, passed, chosen, tries, answer,
                   current>>

BedUnavailable(p) ==
    /\ pc[p] = "lock"
    /\ ~ BedLocked(target[p])
    /\ bedStatus[target[p]] # "available"
    /\ EndTransaction(p)
    /\ pc' = [pc EXCEPT ![p] = Unallocated(p)]
    /\ UNCHANGED <<tables, tries, answer, current>>

(* The snapshot of the statement that picks a referral ... *)
ScanReferrals(p) ==
    /\ pc[p] = "scan"
    /\ queue' = [queue EXCEPT ![p] = PendingFor(target[p])]
    /\ pc' = [pc EXCEPT ![p] = "pick"]
    /\ UNCHANGED <<tables, target, passed, chosen, tries, answer, current>>

IsNext(p, r) ==
    /\ r \in queue[p] \ passed[p]
    /\ \A s \in queue[p] \ passed[p] : ~ Precedes(s, r)

(* ... which is then walked in order: a row that is locked is skipped, a
   row that has changed since the snapshot is checked again. *)
PickReferral(p) ==
    /\ pc[p] = "pick"
    /\ \E r \in Referral :
          /\ IsNext(p, r)
          /\ refStatus[r] = "pending" /\ ~ ReferralLocked(r)
          /\ chosen' = [chosen EXCEPT ![p] = r]
    /\ pc' = [pc EXCEPT ![p] = "write"]
    /\ UNCHANGED <<tables, target, queue, passed, tries, answer, current>>

SkipReferral(p) ==
    /\ pc[p] = "pick"
    /\ \E r \in Referral :
          /\ IsNext(p, r)
          /\ refStatus[r] # "pending" \/ ReferralLocked(r)
          /\ passed' = [passed EXCEPT ![p] = @ \cup {r}]
    /\ UNCHANGED <<tables, pc, target, queue, chosen, tries, answer, current>>

NoneEligible(p) ==
    /\ pc[p] = "pick"
    /\ queue[p] \subseteq passed[p]
    /\ EndTransaction(p)
    /\ pc' = [pc EXCEPT ![p] = Unallocated(p)]
    /\ UNCHANGED <<tables, tries, answer, current>>

(* The three writes of the transaction, visible at its commit. *)
Award(b, r) ==
    /\ UniqueIndexesAllow(b, r)
    /\ reservations' = reservations \cup
                          {[bed |-> b, referral |-> r, status |-> "active"]}
    /\ bedStatus' = [bedStatus EXCEPT ![b] = "reserved"]
    /\ refStatus' = [refStatus EXCEPT ![r] = "matched"]
    /\ UNCHANGED <<lastSeq, createdAt, appliedEvents>>

(* The commit.  A call that awarded the bed to its own referral answers; one
   that awarded it to another goes on searching; a consumer is done. *)
CommitAllocation(p) ==
    /\ pc[p] = "write"
    /\ Award(target[p], chosen[p])
    /\ EndTransaction(p)
    /\ pc' = [pc EXCEPT ![p] = IF chosen[p] = p THEN "done"
                                                ELSE Unallocated(p)]
    /\ answer' = IF chosen[p] = p
                 THEN [answer EXCEPT ![p] = Matched(target[p])]
                 ELSE answer
    /\ UNCHANGED <<tries, current>>

-----------------------------------------------------------------------------
(* A consumer: run and apply_and_notify, with apply_bed_status_event. *)

Receive(c) ==
    /\ pc[c] = "idle"
    /\ \E e \in Event : current' = [current EXCEPT ![c] = e]
    /\ pc' = [pc EXCEPT ![c] = "apply"]
    /\ UNCHANGED <<tables, target, queue, passed, chosen, tries, answer>>

KnownBed(e) == e.bed_id \in Bed

Stale(e) == e.sequence <= lastSeq[e.bed_id]

(* Nothing is written, but an allocation pass is made on the bed. *)
AllocateAnyway(c) ==
    /\ target' = [target EXCEPT ![c] = current[c].bed_id]
    /\ pc' = [pc EXCEPT ![c] = "lock"]
    /\ UNCHANGED <<queue, passed, chosen, tries, answer, current>>

ApplyDuplicate(c) ==
    /\ pc[c] = "apply"
    /\ current[c] \in appliedEvents
    /\ AllocateAnyway(c)
    /\ UNCHANGED tables

ApplyUnknownBed(c) ==
    /\ pc[c] = "apply"
    /\ current[c] \notin appliedEvents
    /\ ~ KnownBed(current[c])
    /\ pc' = [pc EXCEPT ![c] = "ack"]
    /\ UNCHANGED <<tables, target, queue, passed, chosen, tries, answer,
                   current>>

ApplyStale(c) ==
    /\ pc[c] = "apply"
    /\ current[c] \notin appliedEvents /\ KnownBed(current[c])
    /\ ~ BedLocked(current[c].bed_id)
    /\ Stale(current[c])
    /\ AllocateAnyway(c)
    /\ UNCHANGED tables

ActiveRows(b) == {row \in reservations : row.bed = b /\ row.status = "active"}

(* The rows that an available or a maintenance event releases. *)
ReleasedRows(b) == {row \in reservations :
                       row.bed = b /\ row.status \in {"active", "checked_in"}}

CheckInRows(b) ==
    reservations' = (reservations \ ActiveRows(b)) \cup
                       {[row EXCEPT !.status = "checked_in"] :
                            row \in ActiveRows(b)}

(* The referral of the first row the UPDATE returns is pending again. *)
Displace(rows) ==
    \/ rows = {} /\ UNCHANGED refStatus
    \/ \E row \in rows :
          refStatus' = [refStatus EXCEPT ![row.referral] =
                           IF @ = "matched" THEN "pending" ELSE @]

(* The writes of apply_bed_status_event for a fresh event. *)
ApplyWrites(e) ==
    /\ e \notin appliedEvents /\ KnownBed(e)
    /\ ~ BedLocked(e.bed_id)
    /\ ~ Stale(e)
    /\ appliedEvents' = appliedEvents \cup {e}
    /\ bedStatus' = [bedStatus EXCEPT ![e.bed_id] = e.status]
    /\ lastSeq' = [lastSeq EXCEPT ![e.bed_id] = e.sequence]
    /\ \/ /\ e.status = "occupied"
          /\ CheckInRows(e.bed_id)
          /\ UNCHANGED refStatus
       \/ /\ e.status \in {"available", "maintenance"}
          /\ reservations' = reservations \ ReleasedRows(e.bed_id)
          /\ Displace(ReleasedRows(e.bed_id))
    /\ UNCHANGED createdAt

ApplyFresh(c) ==
    /\ pc[c] = "apply"
    /\ ApplyWrites(current[c])
    /\ AllocateAnyway(c)

(* The handler returns and the offset of the event is committed. *)
Ack(c) ==
    /\ pc[c] = "ack"
    /\ pc' = [pc EXCEPT ![c] = "idle"]
    /\ current' = [current EXCEPT ![c] = NoEvent]
    /\ UNCHANGED <<tables, target, queue, passed, chosen, tries, answer>>

-----------------------------------------------------------------------------
(* Failures *)

(* What an Err does to a call: submit_referral hands it to its caller, a
   consumer starts the handler over, in place. *)
Fail(p) ==
    /\ EndTransaction(p)
    /\ IF p \in Consumer
       THEN pc' = [pc EXCEPT ![p] = "apply"] /\ UNCHANGED answer
       ELSE /\ pc' = [pc EXCEPT ![p] = "done"]
            /\ answer' = [answer EXCEPT ![p] = Failed]
    /\ UNCHANGED <<tries, current>>

InDatabase == {"search", "resolve", "apply", "lock", "scan", "pick", "write"}

(* The calls whose current statement may fail: the connection broke, the
   pool timed out, or the INSERT meets a unique index. *)
FailingCalls == {p \in Proc :
    \/ "db_error" \in Faults /\ pc[p] \in InDatabase
    \/ pc[p] = "write" /\ ~ UniqueIndexesAllow(target[p], chosen[p])}

DbError(p) ==
    /\ p \in FailingCalls
    /\ Fail(p)
    /\ UNCHANGED tables

(* The commit took effect and the connection broke before it was known. *)
CommitReplyLost(p) ==
    /\ "reply_lost" \in Faults
    /\ \/ pc[p] = "write" /\ Award(target[p], chosen[p])
       \/ pc[p] = "apply" /\ ApplyWrites(current[p])
    /\ Fail(p)

(* The engine stops and starts again: transactions in flight are rolled
   back, callers get an error, consumers read from the committed offset. *)
Crash ==
    /\ "crash" \in Faults
    /\ \E p \in Proc : pc[p] \notin {"new", "done", "idle"}
    /\ pc' = [p \in Proc |-> IF p \in Consumer THEN "idle"
                             ELSE IF pc[p] = "new" THEN "new" ELSE "done"]
    /\ answer' = [r \in Referral |-> IF pc[r] \in {"new", "done"}
                                     THEN answer[r] ELSE Failed]
    /\ target' = [p \in Proc |-> NoBed]
    /\ queue' = [p \in Proc |-> {}]
    /\ passed' = [p \in Proc |-> {}]
    /\ chosen' = [p \in Proc |-> NoReferral]
    /\ current' = [c \in Consumer |-> NoEvent]
    /\ UNCHANGED <<tables, tries>>

-----------------------------------------------------------------------------
submit_referral(r) ==
    InsertReferral(r) \/ FindCandidate(r) \/ StopSearching(r)
        \/ resolve_final_outcome(r)

allocate_for_bed(p) ==
    LockBed(p) \/ BedUnavailable(p) \/ ScanReferrals(p) \/ PickReferral(p)
        \/ SkipReferral(p) \/ NoneEligible(p) \/ CommitAllocation(p)

apply_and_notify(c) ==
    Receive(c) \/ ApplyDuplicate(c) \/ ApplyUnknownBed(c) \/ ApplyStale(c)
        \/ ApplyFresh(c) \/ Ack(c)

Fault == Crash \/ \E p \in Proc : DbError(p) \/ CommitReplyLost(p)

Next ==
    \/ \E r \in Referral : submit_referral(r)
    \/ \E p \in Proc : allocate_for_bed(p)
    \/ \E c \in Consumer : apply_and_notify(c)
    \/ Fault

Spec == Init /\ [][Next]_vars

(* The steps of a call that has begun: it never stops by itself.  Arrivals of
   referrals and of events, and failures, are not among them. *)
CallStep(p) ==
    \/ allocate_for_bed(p)
    \/ p \in Referral /\ (FindCandidate(p) \/ StopSearching(p)
                             \/ resolve_final_outcome(p))
    \/ p \in Consumer /\ (ApplyDuplicate(p) \/ ApplyUnknownBed(p)
                             \/ ApplyStale(p) \/ ApplyFresh(p) \/ Ack(p))

(* The runtime polls every task; PostgreSQL serves the waiters of a row lock
   in turn, so one whose lock is free again and again gets it. *)
Fairness ==
    \A p \in Proc :
        /\ WF_vars(CallStep(p))
        /\ SF_vars(LockBed(p) \/ BedUnavailable(p))
        /\ SF_vars(p \in Consumer /\ (ApplyStale(p) \/ ApplyFresh(p)))

FairSpec == Spec /\ Fairness

=============================================================================
