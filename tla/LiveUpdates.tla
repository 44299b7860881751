---------------------------- MODULE LiveUpdates ----------------------------
(***************************************************************************)
(* Live availability: the updates that the calls of the matching engine    *)
(* publish after the fact, the broadcast channel they go through, and the  *)
(* subscribers of StreamAvailability at its other end.  The calls are those*)
(* of MatchingEngine; here each also keeps the updates it owes, published  *)
(* when it returns Ok and forgotten when it returns Err.                   *)
(***************************************************************************)
EXTENDS MatchingEngine, Sequences

CONSTANTS
    Subscriber,     \* streams of availability updates
    Filter,         \* [Subscriber -> a region, or "" for all of them]
    Capacity,       \* of the broadcast channel (1024 in the code)
    LookupsFail,    \* whether the queries of publish_bed_update may fail
    NoCount

ASSUME LiveAssumption ==
    /\ IsFiniteSet(Bed)
    /\ Capacity \in Nat \ {0}
    /\ NoCount \notin Nat /\ LookupsFail \in BOOLEAN

VARIABLES
    fresh,          \* [Consumer -> has this attempt applied its event?]
    owed,           \* [Proc -> the updates it is to publish, in order]
    counted,        \* [Proc -> the count read for the first of them]
    sent,           \* all updates ever put into the channel
    cursor,         \* [Subscriber -> updates it has taken or missed]
    shown           \* [Subscriber -> [Bed -> the status it saw last]]

live == <<fresh, owed, counted>>
channel == <<sent, cursor, shown>>
liveVars == <<vars, live, channel>>

NeverSeen == [s \in Subscriber |-> [b \in Bed |-> "unknown"]]

LiveInit ==
    /\ Init
    /\ fresh = [c \in Consumer |-> FALSE]
    /\ owed = [p \in Proc |-> <<>>]
    /\ counted = [p \in Proc |-> NoCount]
    /\ sent = <<>>
    /\ cursor = [s \in Subscriber |-> 0]
    /\ shown = NeverSeen

Update(b, status) == [bed |-> b, status |-> status]

Owe(p, updates) == owed' = [owed EXCEPT ![p] = @ \o updates]

(* A call that has returned Ok, with updates to publish. *)
Returned(p) == pc[p] \in {"done", "ack"} /\ owed[p] # <<>>

-----------------------------------------------------------------------------
(* Broken versions, for the runs that have to notice. *)
OnlyOwnAwards(p) ==                          \* side_allocations not returned
    IF p \in Referral /\ chosen[p] # p THEN <<>>
    ELSE <<Update(target[p], "reserved")>>
RoomForAll == \A s \in Subscriber : Len(sent) - cursor[s] < Capacity

(* The channel takes an update whoever is or is not listening. *)
ChannelAccepts == TRUE

OneCountForAll(p) ==                         \* counted once per call
    /\ Returned(p) /\ counted[p] # NoCount
    /\ ChannelAccepts
    /\ sent' = Append(sent, [bed |-> Head(owed[p]).bed,
                             status |-> Head(owed[p]).status,
                             available_count_in_region |-> counted[p]])
    /\ owed' = [owed EXCEPT ![p] = Tail(@)]
    /\ UNCHANGED <<vars, fresh, counted, cursor, shown>>
FailedLookupFailsCall(p) ==                  \* publish_bed_update(..).await?
    /\ LookupsFail
    /\ Returned(p) /\ counted[p] = NoCount
    /\ Fail(p)
    /\ owed' = [owed EXCEPT ![p] = <<>>]
    /\ UNCHANGED <<tables, fresh, counted, channel>>

-----------------------------------------------------------------------------
(* The calls: what each of them comes to owe. *)

(* A bed awarded: the result of a consumer's pass, a side allocation of a
   search, or the search's own bed. *)
AwardUpdates(p) == <<Update(target[p], "reserved")>>

AwardBed(p) ==
    /\ CommitAllocation(p)
    /\ Owe(p, AwardUpdates(p))
    /\ UNCHANGED <<fresh, counted, channel>>

(* A search that ends by its own re-read publishes the bed it finds. *)
EndSearch(r) ==
    /\ resolve_final_outcome(r)
    /\ Owe(r, IF answer'[r] = Pending THEN <<>>
              ELSE <<Update(answer'[r].bed, "reserved")>>)
    /\ UNCHANGED <<fresh, counted, channel>>

(* A consumer's pass that awards nothing publishes the event, if it was this
   very attempt that applied it. *)
EventUpdates(c) ==
    IF fresh[c] THEN <<Update(target[c], current[c].status)>> ELSE <<>>

EndPass(c) ==
    /\ BedUnavailable(c) \/ NoneEligible(c)
    /\ Owe(c, EventUpdates(c))
    /\ UNCHANGED <<fresh, counted, channel>>

Apply(c) ==
    /\ \/ ApplyFresh(c) /\ fresh' = [fresh EXCEPT ![c] = TRUE]
       \/ /\ ApplyDuplicate(c) \/ ApplyStale(c) \/ ApplyUnknownBed(c)
          /\ fresh' = [fresh EXCEPT ![c] = FALSE]
    /\ UNCHANGED <<owed, counted, channel>>

(* The other statements of a call owe nothing. *)
SilentStep ==
    /\ \/ \E r \in Referral : \/ InsertReferral(r) \/ FindCandidate(r)
                              \/ StopSearching(r) \/ BedUnavailable(r)
                              \/ NoneEligible(r)
       \/ \E p \in Proc : \/ LockBed(p) \/ ScanReferrals(p)
                          \/ PickReferral(p) \/ SkipReferral(p)
       \/ \E c \in Consumer : Receive(c)
    /\ UNCHANGED <<live, channel>>

(* The caller of MatchReferral goes away: a crash of this one handler.  (While
   submit_referral is still running, it is no different from a DbError.) *)
HandlerDropped(r) ==
    /\ "crash" \in Faults
    /\ r \in Referral /\ Returned(r)
    /\ UNCHANGED vars

CallFails(p) ==
    /\ DbError(p) \/ CommitReplyLost(p) \/ HandlerDropped(p)
    /\ owed' = [owed EXCEPT ![p] = <<>>]
    /\ counted' = [counted EXCEPT ![p] = NoCount]
    /\ UNCHANGED <<fresh, channel>>

-----------------------------------------------------------------------------
(* publish_bed_update, for the first update a returned call owes. *)

region_of_shelter(b) == BedRow[b].region

available_count_in_region(region) ==
    Cardinality({b \in Bed : /\ BedRow[b].region = region
                             /\ bedStatus[b] = "available"})

CountBeds(p) ==
    /\ Returned(p) /\ counted[p] = NoCount
    /\ counted' = [counted EXCEPT ![p] =
           available_count_in_region(region_of_shelter(Head(owed[p]).bed))]
    /\ UNCHANGED <<vars, fresh, owed, channel>>

DropUpdate(p) ==
    /\ LookupsFail
    /\ Returned(p) /\ counted[p] = NoCount
    /\ owed' = [owed EXCEPT ![p] = Tail(@)]
    /\ UNCHANGED <<vars, fresh, counted, channel>>

Send(p) ==
    /\ Returned(p) /\ counted[p] # NoCount
    /\ ChannelAccepts
    /\ sent' = Append(sent, [bed |-> Head(owed[p]).bed,
                             status |-> Head(owed[p]).status,
                             available_count_in_region |-> counted[p]])
    /\ owed' = [owed EXCEPT ![p] = Tail(@)]
    /\ counted' = [counted EXCEPT ![p] = NoCount]
    /\ UNCHANGED <<vars, fresh, cursor, shown>>

(* The offset is committed after the updates are out. *)
AckPublished(c) ==
    /\ Ack(c)
    /\ owed[c] = <<>>
    /\ UNCHANGED <<live, channel>>

-----------------------------------------------------------------------------
(* stream_availability *)

(* The channel keeps the last Capacity updates: a subscriber that has fallen
   further behind goes on with the oldest of these. *)
NextUpdate(s) ==
    IF Len(sent) - cursor[s] > Capacity THEN Len(sent) - Capacity + 1
                                        ELSE cursor[s] + 1

Receives(s, b) == Filter[s] \in {"", region_of_shelter(b)}

(* Broken version: Err(_lagged) answered by rx.resubscribe(). *)
StartOver(s) ==
    LET lags == Len(sent) - cursor[s] > Capacity
        u == sent[cursor[s] + 1]
    IN  /\ cursor[s] < Len(sent)
        /\ cursor' = [cursor EXCEPT ![s] = IF lags THEN Len(sent) ELSE @ + 1]
        /\ shown' = IF ~ lags /\ Receives(s, u.bed)
                    THEN [shown EXCEPT ![s][u.bed] = u.status]
                    ELSE shown
        /\ UNCHANGED <<vars, live, sent>>

TakeUpdate(s) ==
    /\ cursor[s] < Len(sent)
    /\ cursor' = [cursor EXCEPT ![s] = NextUpdate(s)]
    /\ LET u == sent[NextUpdate(s)]
       IN  shown' = IF Receives(s, u.bed)
                    THEN [shown EXCEPT ![s][u.bed] = u.status]
                    ELSE shown
    /\ UNCHANGED <<vars, live, sent>>

(* The stream breaks and its client subscribes again, for what is sent from now
   on. *)
Reconnect(s) ==
    /\ cursor' = [cursor EXCEPT ![s] = Len(sent)]
    /\ shown' = [shown EXCEPT ![s] = NeverSeen[s]]
    /\ UNCHANGED <<vars, live, sent>>

(* The channel is memory of the engine, and so are the updates owed. *)
LiveCrash ==
    /\ Crash
    /\ fresh' = [c \in Consumer |-> FALSE]
    /\ owed' = [p \in Proc |-> <<>>]
    /\ counted' = [p \in Proc |-> NoCount]
    /\ sent' = <<>>
    /\ cursor' = [s \in Subscriber |-> 0]
    /\ shown' = NeverSeen

publish_bed_update(p) == CountBeds(p) \/ DropUpdate(p) \/ Send(p)

LiveNext ==
    \/ SilentStep
    \/ \E p \in Proc : AwardBed(p) \/ CallFails(p) \/ publish_bed_update(p)
    \/ \E r \in Referral : EndSearch(r)
    \/ \E c \in Consumer : Apply(c) \/ EndPass(c) \/ AckPublished(c)
    \/ \E s \in Subscriber : TakeUpdate(s) \/ Reconnect(s)
    \/ LiveCrash

LiveSpec == LiveInit /\ [][LiveNext]_liveVars

(* What a call changed and has not announced yet: the updates it owes, and the
   event its attempt has applied and is now allocating for. *)
AnnouncementDue(p) ==
    \/ owed[p] # <<>>
    \/ p \in Consumer /\ fresh[p] /\ pc[p] \in {"lock", "scan", "pick", "write"}

(* The steps that cost an update: its lookups fail, the call fails that was to
   announce it, or the one whose commit changed the bed. *)
Forgets(p) == \/ DropUpdate(p) \/ CommitReplyLost(p)
              \/ CallFails(p) /\ AnnouncementDue(p)

Lossless == ~ LiveCrash /\ \A p \in Proc : ~ Forgets(p)

LosslessSpec == LiveInit /\ [][LiveNext /\ Lossless]_liveVars

(* Nobody is obliged to read his stream: only publishers are scheduled. *)
FairLosslessSpec ==
    /\ LosslessSpec
    /\ \A p \in Proc : WF_liveVars(CountBeds(p) \/ Send(p))

-----------------------------------------------------------------------------
(* What the updates are worth. *)

(* The variables of the notification path have their types, and no subscriber
   is ahead of the channel. *)
LiveTypeOK ==
    /\ fresh \in [Consumer -> BOOLEAN]
    /\ \A p \in Proc : owed[p] \in Seq([bed : Bed, status : BedStatus])
    /\ counted \in [Proc -> Nat \cup {NoCount}]
    /\ \A p \in Proc : counted[p] # NoCount => owed[p] # <<>>
    /\ cursor \in [Subscriber -> 0 .. Len(sent)]

Settled == /\ \A p \in Proc : pc[p] \in {"new", "done", "idle"}
           /\ \A p \in Proc : owed[p] = <<>>

Changed(b) == bedStatus[b] = "reserved" \/ lastSeq[b] # 0

(* Once everything is at rest, the status of every bed that has changed has
   been announced, unless a call that was to announce something failed: no
   event, no award to whomever it went, and no path of a call leaves a bed
   "invisible to live subscribers". *)
ChangesAnnounced ==
    Settled => \A b \in Bed : Changed(b) =>
        \E i \in 1 .. Len(sent) :
            sent[i].bed = b /\ sent[i].status = bedStatus[b]

(* Whatever the subscribers do, a call that has returned gets rid of all the
   updates it owes: live delivery never holds up a request or the topic. *)
UpdatesGoOut == \A p \in Proc : Returned(p) ~> owed[p] = <<>>

(* The last update of bed b among those that a subscriber has behind it. *)
LastBehind(s, b, i) ==
    /\ i <= cursor[s] /\ sent[i].bed = b
    /\ \A j \in i + 1 .. cursor[s] : sent[j].bed # b

(* "Drop and keep going": a slow subscriber loses no more than what the channel
   could not keep.  As long as an update is kept, whoever has got past it has
   been shown it, and shows nothing older of its bed, lagging or not. *)
LagLosesOldest ==
    \A s \in Subscriber, i \in 1 .. Len(sent) :
        LET b == sent[i].bed
        IN  Receives(s, b) /\ LastBehind(s, b, i) /\ Len(sent) - i < Capacity
                => shown[s][b] \in {"unknown", sent[i].status}

(* Publishing is no part of the engine's own correctness: with it, failing or
   not, the calls are still those that MatchingEngine describes. *)
EngineUndisturbed == Spec

(* "Availability is eventually reflected by the next update either way": who
   has taken all there is to take has last seen a bed as it is. *)
LastUpdateTrue ==
    Settled => \A s \in Subscriber, b \in Bed :
        cursor[s] = Len(sent) /\ shown[s][b] # "unknown"
            => shown[s][b] = bedStatus[b]

=============================================================================
