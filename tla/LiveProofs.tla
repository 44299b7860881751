----------------------------- MODULE LiveProofs -----------------------------
(***************************************************************************)
(* Publishing live updates, for any number of calls and subscribers and    *)
(* every failure, is no part of the engine's correctness; no call ever     *)
(* publishes what is no update of a bed; lag costs old updates only; and   *)
(* what a bed has become is announced, unless the call fails that was to   *)
(* announce it.                                                            *)
(***************************************************************************)
EXTENDS LiveUpdates, EngineProofs, SequenceTheorems

LEMMA LiveStepMapped == [LiveNext]_liveVars => [Next]_vars
<1> SUFFICES ASSUME [LiveNext]_liveVars PROVE [Next]_vars
  OBVIOUS
<1> USE ProcKinds
<1>1. ASSUME NEW r \in Referral, submit_referral(r) PROVE Next
  BY <1>1 DEF Next
<1>2. ASSUME NEW p \in Proc, allocate_for_bed(p) PROVE Next
  BY <1>2 DEF Next
<1>3. ASSUME NEW c \in Consumer, apply_and_notify(c) PROVE Next
  BY <1>3 DEF Next
<1>4. CASE SilentStep
  BY <1>1, <1>2, <1>3, <1>4
     DEF SilentStep, submit_referral, allocate_for_bed, apply_and_notify
<1>5. ASSUME NEW p \in Proc, AwardBed(p) PROVE Next
  BY <1>2, <1>5 DEF AwardBed, allocate_for_bed
<1>6. ASSUME NEW p \in Proc, CallFails(p) PROVE [Next]_vars
  <2>1. DbError(p) \/ CommitReplyLost(p) \/ UNCHANGED vars
    BY <1>6 DEF CallFails, HandlerDropped
  <2> QED
    BY <2>1 DEF Next, Fault
<1>7. ASSUME NEW p \in Proc, publish_bed_update(p) PROVE UNCHANGED vars
  BY <1>7 DEF publish_bed_update, CountBeds, DropUpdate, Send
<1>8. ASSUME NEW r \in Referral, EndSearch(r) PROVE Next
  BY <1>1, <1>8 DEF EndSearch, submit_referral
<1>9. ASSUME NEW c \in Consumer, Apply(c) PROVE Next
  BY <1>3, <1>9 DEF Apply, apply_and_notify
<1>10. ASSUME NEW c \in Consumer, EndPass(c) PROVE Next
  BY <1>2, <1>10 DEF EndPass, allocate_for_bed
<1>11. ASSUME NEW c \in Consumer, AckPublished(c) PROVE Next
  BY <1>3, <1>11 DEF AckPublished, apply_and_notify
<1>12. ASSUME NEW s \in Subscriber, TakeUpdate(s) \/ Reconnect(s)
       PROVE  UNCHANGED vars
  BY <1>12 DEF TakeUpdate, Reconnect
<1>13. CASE LiveCrash
  BY <1>13 DEF LiveCrash, Next, Fault
<1>14. CASE UNCHANGED liveVars
  BY <1>14 DEF liveVars
<1> QED
  BY <1>4, <1>5, <1>6, <1>7, <1>8, <1>9, <1>10, <1>11, <1>12, <1>13, <1>14
     DEF LiveNext

(* Whatever the lookups, the channel and the subscribers do, the calls are
   those of MatchingEngine, and every theorem about them holds. *)
THEOREM LiveImplementsEngine == LiveSpec => EngineUndisturbed
<1>1. LiveInit => Init
  BY DEF LiveInit
<1> QED
  BY <1>1, LiveStepMapped, PTL DEF LiveSpec, EngineUndisturbed, Spec

LEMMA EngineSafeLive == LiveSpec => []IInv
BY LiveImplementsEngine, Safety, PTL DEF EngineUndisturbed

-----------------------------------------------------------------------------
(* The types of the notification path. *)

UpdateType == [bed : Bed, status : BedStatus]
SentType == [bed : Bed, status : BedStatus, available_count_in_region : Nat]

(* Functions and sequences, which LiveTypeOK takes for granted. *)
Shapes == owed \in [Proc -> Seq(UpdateType)] /\ sent \in Seq(SentType)

LInv == Shapes /\ LiveTypeOK

LEMMA InitLInv == LiveInit => LInv
BY DEF LiveInit, LInv, Shapes, LiveTypeOK, UpdateType

(* Appending to what a call owes. *)
LEMMA OweKeepsLInv ==
    ASSUME LInv, NEW p \in Proc, NEW updates \in Seq(UpdateType),
           Owe(p, updates), UNCHANGED <<fresh, counted, channel>>
    PROVE  LInv'
<1>1. /\ owed \in [Proc -> Seq(UpdateType)]
      /\ owed' = [owed EXCEPT ![p] = @ \o updates]
  BY DEF LInv, Shapes, Owe
<1>2. owed[p] \o updates \in Seq(UpdateType)
  BY <1>1, ConcatProperties
<1>3. owed' \in [Proc -> Seq(UpdateType)]
  BY <1>1, <1>2
<1>4. ASSUME NEW q \in Proc, counted'[q] # NoCount PROVE owed'[q] # <<>>
  <2>1. owed[q] # <<>>
    BY <1>4 DEF LInv, LiveTypeOK
  <2>2. CASE q = p
    <3>1. owed[p] \in Seq(UpdateType) /\ owed'[p] = owed[p] \o updates
      BY <1>1
    <3> QED
      BY <2>1, <2>2, <3>1, ConcatEqualIffEmpty
  <2>3. CASE q # p
    BY <1>1, <2>1, <2>3
  <2> QED
    BY <2>2, <2>3
<1> QED
  BY <1>3, <1>4 DEF LInv, Shapes, LiveTypeOK, UpdateType, channel

(* Steps that owe nothing new and publish nothing. *)
LEMMA IdleKeepsLInv ==
    ASSUME LInv, fresh' \in [Consumer -> BOOLEAN],
           UNCHANGED <<owed, counted, channel>>
    PROVE  LInv'
BY DEF LInv, Shapes, LiveTypeOK, channel

(* The first update of a call leaves, into the channel or to nowhere. *)
LEMMA TailKeepsLInv ==
    ASSUME LInv, NEW p \in Proc, owed[p] # <<>>,
           owed' = [owed EXCEPT ![p] = Tail(@)],
           UNCHANGED <<fresh, cursor>>, sent' \in Seq(SentType),
           Len(sent) <= Len(sent'),
           counted' = [counted EXCEPT ![p] = NoCount]
    PROVE  LInv'
<1>1. owed \in [Proc -> Seq(UpdateType)] /\ Tail(owed[p]) \in Seq(UpdateType)
  BY HeadTailProperties DEF LInv, Shapes
<1>2. owed' \in [Proc -> Seq(UpdateType)]
  BY <1>1
<1>3. counted' \in [Proc -> Nat \cup {NoCount}]
  BY DEF LInv, LiveTypeOK
<1>4. \A q \in Proc : counted'[q] # NoCount => owed'[q] # <<>>
  BY <1>1 DEF LInv, LiveTypeOK
<1>5. cursor' \in [Subscriber -> 0 .. Len(sent')]
  <2>1. cursor \in [Subscriber -> 0 .. Len(sent)]
    BY DEF LInv, LiveTypeOK
  <2>2. Len(sent) \in Nat /\ Len(sent') \in Nat
    BY LenProperties DEF LInv, Shapes
  <2>3. 0 .. Len(sent) \subseteq 0 .. Len(sent')
    BY <2>2
  <2> QED
    BY <2>1, <2>3
<1> QED
  BY <1>2, <1>3, <1>4, <1>5 DEF LInv, Shapes, LiveTypeOK, UpdateType

LEMMA PublishKeepsLInv ==
    ASSUME LInv, NEW p \in Proc, publish_bed_update(p)
    PROVE  LInv'
<1>1. /\ owed[p] \in Seq(UpdateType) /\ sent \in Seq(SentType)
      /\ counted \in [Proc -> Nat \cup {NoCount}]
  BY DEF LInv, Shapes, LiveTypeOK
<1>2. CASE CountBeds(p)
  <2>1. \A region : available_count_in_region(region) \in Nat
    <3> TAKE region
    <3> DEFINE S == {b \in Bed : /\ BedRow[b].region = region
                                 /\ bedStatus[b] = "available"}
    <3>1. IsFiniteSet(S)
      BY FS_Subset, LiveAssumption
    <3> QED
      BY <3>1, FS_CardinalityType DEF available_count_in_region
  <2>2. counted' \in [Proc -> Nat \cup {NoCount}]
    BY <1>1, <1>2, <2>1 DEF CountBeds
  <2>3. \A q \in Proc : counted'[q] # NoCount => owed[q] # <<>>
    BY <1>1, <1>2 DEF CountBeds, Returned, LInv, LiveTypeOK
  <2> QED
    BY <1>2, <2>2, <2>3 DEF CountBeds, LInv, Shapes, LiveTypeOK, channel
<1>3. CASE DropUpdate(p)
  <2>1. counted' = [counted EXCEPT ![p] = NoCount]
    BY <1>1, <1>3 DEF DropUpdate
  <2>2. sent' = sent /\ sent' \in Seq(SentType) /\ Len(sent) <= Len(sent')
    <3>1. sent' = sent /\ Len(sent) \in Nat
      BY <1>1, <1>3, LenProperties DEF DropUpdate, channel
    <3> QED
      BY <1>1, <3>1
  <2>3. /\ owed[p] # <<>> /\ owed' = [owed EXCEPT ![p] = Tail(@)]
        /\ UNCHANGED <<fresh, cursor>>
    BY <1>3 DEF DropUpdate, Returned, channel
  <2> QED
    BY <2>1, <2>2, <2>3, TailKeepsLInv
<1>4. CASE Send(p)
  <2>1. Head(owed[p]) \in UpdateType /\ counted[p] \in Nat
    BY <1>1, <1>4, HeadTailProperties DEF Send, Returned
  <2> DEFINE u == [bed |-> Head(owed[p]).bed, status |-> Head(owed[p]).status,
                   available_count_in_region |-> counted[p]]
  <2>2. u \in SentType
    BY <2>1 DEF UpdateType, SentType
  <2>3. sent' = Append(sent, u)
    BY <1>4 DEF Send
  <2>4. /\ sent' \in Seq(SentType) /\ Len(sent) \in Nat
        /\ Len(sent') = Len(sent) + 1
    <3> HIDE DEF u
    <3> QED
      BY <1>1, <2>2, <2>3, AppendProperties
  <2>5. Len(sent) <= Len(sent')
    BY <2>4
  <2> QED
    BY <1>4, <2>4, <2>5, TailKeepsLInv DEF Send, Returned
<1> QED
  BY <1>2, <1>3, <1>4 DEF publish_bed_update

(* Subscribers move through what was sent. *)
LEMMA StreamKeepsLInv ==
    ASSUME LInv, NEW s \in Subscriber, TakeUpdate(s) \/ Reconnect(s)
    PROVE  LInv'
<1>1. Len(sent) \in Nat /\ cursor \in [Subscriber -> 0 .. Len(sent)]
  BY DEF LInv, Shapes, LiveTypeOK
<1>2. cursor' \in [Subscriber -> 0 .. Len(sent)]
  <2>1. CASE TakeUpdate(s)
    <3>1. NextUpdate(s) \in 0 .. Len(sent)
      BY <1>1, <2>1, LiveAssumption DEF NextUpdate, TakeUpdate
    <3> QED
      BY <1>1, <2>1, <3>1 DEF TakeUpdate
  <2>2. CASE Reconnect(s)
    BY <1>1, <2>2 DEF Reconnect
  <2> QED
    BY <2>1, <2>2
<1>3. UNCHANGED <<fresh, owed, counted, sent>>
  BY DEF TakeUpdate, Reconnect, live
<1> QED
  BY <1>2, <1>3 DEF LInv, Shapes, LiveTypeOK

(* A search that finds a bed of its own finds a bed. *)
LEMMA EndSearchOwes ==
    ASSUME IInv, NEW r \in Referral, EndSearch(r)
    PROVE  IF answer'[r] = Pending THEN <<>> \in Seq(UpdateType)
           ELSE <<Update(answer'[r].bed, "reserved")>> \in Seq(UpdateType)
<1>1. CASE answer'[r] = Pending
  BY <1>1
<1>2. CASE answer'[r] # Pending
  <2>1. PICK row \in HeldBy(r) : answer' = [answer EXCEPT ![r] = Matched(row.bed)]
    BY <1>2 DEF EndSearch, resolve_final_outcome, IInv, Typed, TypeOK
  <2>2. row.bed \in Bed
    BY <2>1 DEF HeldBy, Reservation, IInv, Typed, TypeOK
  <2>3. answer'[r].bed = row.bed
    BY <2>1 DEF Matched, IInv, Typed, TypeOK
  <2>4. Update(answer'[r].bed, "reserved") \in UpdateType
    BY <2>2, <2>3 DEF Update, UpdateType, BedStatus
  <2> QED
    BY <1>2, <2>4
<1> QED
  BY <1>1, <1>2

(* Calls: what they come to owe are updates of beds. *)
LEMMA CallKeepsLInv ==
    ASSUME IInv, LInv, NEW p \in Proc,
           \/ AwardBed(p) \/ CallFails(p)
           \/ p \in Referral /\ EndSearch(p)
           \/ p \in Consumer /\ (EndPass(p) \/ Apply(p) \/ AckPublished(p))
    PROVE  LInv'
<1>1. /\ pc[p] \in {"lock", "pick", "write"} => target[p] \in Bed
      /\ p \in Consumer /\ pc[p] # "idle" => current[p] \in Event
      /\ reservations \subseteq Reservation
  BY DEF IInv, Typed, TypeOK, CallsOK
<1>2. "reserved" \in BedStatus /\ EventStatus \subseteq BedStatus
  BY DEF BedStatus, EventStatus
<1>3. \A u \in UpdateType : <<u>> \in Seq(UpdateType)
  OBVIOUS
<1>4. \A b \in Bed, st \in BedStatus : Update(b, st) \in UpdateType
  BY DEF Update, UpdateType
<1>5. CASE AwardBed(p)
  <2>1. target[p] \in Bed
    BY <1>1, <1>5 DEF AwardBed, CommitAllocation
  <2>2. AwardUpdates(p) \in Seq(UpdateType)
    BY <1>2, <1>3, <1>4, <2>1 DEF AwardUpdates
  <2> QED
    BY <1>5, <2>2, OweKeepsLInv DEF AwardBed
<1>6. CASE CallFails(p)
  <2>1. /\ owed' = [owed EXCEPT ![p] = <<>>]
        /\ counted' = [counted EXCEPT ![p] = NoCount]
        /\ UNCHANGED <<fresh, sent, cursor>>
    BY <1>6 DEF CallFails, channel
  <2>2. owed' \in [Proc -> Seq(UpdateType)]
    BY <2>1 DEF LInv, Shapes
  <2>3. counted' \in [Proc -> Nat \cup {NoCount}]
    BY <2>1 DEF LInv, LiveTypeOK
  <2>4. \A q \in Proc : counted'[q] # NoCount => owed'[q] # <<>>
    BY <2>1 DEF LInv, Shapes, LiveTypeOK
  <2> QED
    BY <2>1, <2>2, <2>3, <2>4 DEF LInv, Shapes, LiveTypeOK, UpdateType
<1>7. CASE p \in Referral /\ EndSearch(p)
  <2> DEFINE us == IF answer'[p] = Pending THEN <<>>
                   ELSE <<Update(answer'[p].bed, "reserved")>>
  <2>1. us \in Seq(UpdateType)
    BY <1>7, EndSearchOwes
  <2>2. Owe(p, us) /\ UNCHANGED <<fresh, counted, channel>>
    BY <1>7 DEF EndSearch
  <2> HIDE DEF us
  <2> QED
    BY <2>1, <2>2, OweKeepsLInv
<1>8. CASE p \in Consumer /\ EndPass(p)
  <2>1. target[p] \in Bed /\ current[p] \in Event
    BY <1>1, <1>8 DEF EndPass, BedUnavailable, NoneEligible
  <2>2. current[p].status \in BedStatus
    BY <1>2, <2>1, EventAssumption DEF EventType
  <2>3. EventUpdates(p) \in Seq(UpdateType)
    BY <1>3, <1>4, <2>1, <2>2 DEF EventUpdates
  <2> QED
    BY <1>8, <2>3, OweKeepsLInv DEF EndPass
<1>9. CASE p \in Consumer /\ Apply(p)
  <2>1. fresh' \in [Consumer -> BOOLEAN]
    BY <1>9 DEF Apply, LInv, LiveTypeOK
  <2> QED
    BY <1>9, <2>1, IdleKeepsLInv DEF Apply
<1>10. CASE p \in Consumer /\ AckPublished(p)
  BY <1>10, IdleKeepsLInv DEF AckPublished, live, LInv, LiveTypeOK
<1> QED
  BY <1>5, <1>6, <1>7, <1>8, <1>9, <1>10

LEMMA NextLInv == IInv /\ LInv /\ [LiveNext]_liveVars => LInv'
<1> SUFFICES ASSUME IInv, LInv, [LiveNext]_liveVars PROVE LInv'
  OBVIOUS
<1> USE ProcKinds
<1>1. CASE SilentStep
  BY <1>1, IdleKeepsLInv DEF SilentStep, live, LInv, LiveTypeOK
<1>2. ASSUME NEW p \in Proc, AwardBed(p) \/ CallFails(p) PROVE LInv'
  BY <1>2, CallKeepsLInv
<1>3. ASSUME NEW p \in Proc, publish_bed_update(p) PROVE LInv'
  BY <1>3, PublishKeepsLInv
<1>4. ASSUME NEW r \in Referral, EndSearch(r) PROVE LInv'
  BY <1>4, CallKeepsLInv
<1>5. ASSUME NEW c \in Consumer, Apply(c) \/ EndPass(c) \/ AckPublished(c)
      PROVE  LInv'
  BY <1>5, CallKeepsLInv
<1>6. ASSUME NEW s \in Subscriber, TakeUpdate(s) \/ Reconnect(s) PROVE LInv'
  BY <1>6, StreamKeepsLInv
<1>7. CASE LiveCrash
  BY <1>7 DEF LiveCrash, LInv, Shapes, LiveTypeOK, UpdateType
<1>8. CASE UNCHANGED liveVars
  BY <1>8, IdleKeepsLInv DEF liveVars, live, LInv, LiveTypeOK
<1> QED
  BY <1>1, <1>2, <1>3, <1>4, <1>5, <1>6, <1>7, <1>8 DEF LiveNext

(* No call ever publishes anything but statuses of beds, a count is always of
   an update still to be sent, and no subscriber gets ahead of the channel. *)
THEOREM LiveTypeCorrect == LiveSpec => []LiveTypeOK
<1>1. LInv /\ (IInv /\ [LiveNext]_liveVars) => LInv'
  BY NextLInv
<1>2. LInv => LiveTypeOK
  BY DEF LInv
<1> QED
  BY <1>1, <1>2, InitLInv, EngineSafeLive, PTL DEF LiveSpec

-----------------------------------------------------------------------------
(* What lag costs. *)

ShownType == [Subscriber -> [Bed -> BedStatus \cup {"unknown"}]]

LagInv == shown \in ShownType /\ LagLosesOldest

LEMMA InitLagInv == LiveInit => LagInv
BY DEF LiveInit, LagInv, ShownType, NeverSeen, LagLosesOldest

(* A new update makes room by dropping an old one; nobody has it behind him. *)
LEMMA SendKeepsLag ==
    ASSUME LInv, LInv', LagInv, NEW p \in Proc, Send(p)
    PROVE  LagInv'
<1>1. /\ sent \in Seq(SentType) /\ sent' \in Seq(SentType)
      /\ cursor \in [Subscriber -> 0 .. Len(sent)]
      /\ UNCHANGED <<cursor, shown>>
  BY DEF LInv, Shapes, LiveTypeOK, Send
<1>2. PICK u : sent' = Append(sent, u)
  BY DEF Send
<1>3. /\ Len(sent) \in Nat /\ Len(sent') = Len(sent) + 1
      /\ \A i \in 1 .. Len(sent) : sent'[i] = sent[i]
  BY <1>1, <1>2
<1>4. ASSUME NEW s \in Subscriber, NEW i \in 1 .. Len(sent'),
             LastBehind(s, sent[i].bed, i)', Len(sent') - i < Capacity
      PROVE  /\ i \in 1 .. Len(sent) /\ sent'[i] = sent[i]
             /\ LastBehind(s, sent[i].bed, i) /\ Len(sent) - i < Capacity
  <2>1. i \in 1 .. Len(sent) /\ i <= cursor[s] /\ cursor[s] \in 0 .. Len(sent)
    BY <1>1, <1>3, <1>4 DEF LastBehind
  <2>2. \A j \in i + 1 .. cursor[s] : sent'[j] = sent[j]
    BY <1>3, <2>1
  <2>3. Len(sent) - i < Capacity
    BY <1>3, <1>4, <2>1, LiveAssumption
  <2> QED
    BY <1>1, <1>3, <1>4, <2>1, <2>2, <2>3 DEF LastBehind
<1> QED
  BY <1>1, <1>4 DEF LagInv, LagLosesOldest, Receives

(* Whatever lag jumps over, the channel has not kept. *)
LEMMA TakeKeepsLag ==
    ASSUME LInv, LagInv, NEW s \in Subscriber, TakeUpdate(s)
    PROVE  LagInv'
<1> DEFINE k == NextUpdate(s)
<1>1. /\ sent \in Seq(SentType) /\ Len(sent) \in Nat /\ sent' = sent
      /\ cursor \in [Subscriber -> 0 .. Len(sent)] /\ cursor[s] < Len(sent)
      /\ cursor' = [cursor EXCEPT ![s] = k]
      /\ shown \in ShownType
  BY LenProperties DEF LInv, Shapes, LiveTypeOK, LagInv, TakeUpdate
<1>2. /\ k \in 1 .. Len(sent) /\ cursor[s] < k
      /\ k # cursor[s] + 1 => k = Len(sent) - Capacity + 1
  BY <1>1, LiveAssumption DEF NextUpdate
<1>3. /\ sent[k] \in SentType
      /\ shown' = IF Receives(s, sent[k].bed)
                  THEN [shown EXCEPT ![s][sent[k].bed] = sent[k].status]
                  ELSE shown
  BY <1>1, <1>2 DEF TakeUpdate
<1> HIDE DEF k
<1>4. shown' \in ShownType
  BY <1>1, <1>3 DEF ShownType, SentType
<1>5. ASSUME NEW t \in Subscriber, NEW i \in 1 .. Len(sent),
             Receives(t, sent[i].bed), LastBehind(t, sent[i].bed, i)',
             Len(sent) - i < Capacity
      PROVE  shown'[t][sent[i].bed] \in {"unknown", sent[i].status}
  <2>1. sent[i] \in SentType
    BY <1>1
  <2>2. CASE t # s
    <3>1. shown'[t] = shown[t] /\ LastBehind(t, sent[i].bed, i)
      BY <1>1, <1>3, <1>5, <2>2 DEF ShownType, LastBehind
    <3> QED
      BY <1>5, <3>1 DEF LagInv, LagLosesOldest
  <2>3. CASE t = s /\ i = k
    BY <1>1, <1>3, <1>5, <2>1, <2>3 DEF ShownType, SentType
  <2>4. CASE t = s /\ i # k
    <3>1. i < k /\ \A j \in i + 1 .. k : sent[j].bed # sent[i].bed
      BY <1>1, <1>2, <1>5, <2>4 DEF LastBehind
    <3>2. sent[k].bed # sent[i].bed
      BY <1>2, <3>1
    <3>3. i <= cursor[s]
      BY <1>1, <1>2, <1>5, <3>1, LiveAssumption
    <3>4. LastBehind(s, sent[i].bed, i)
      BY <1>1, <1>2, <3>1, <3>3 DEF LastBehind
    <3>5. shown[s][sent[i].bed] \in {"unknown", sent[i].status}
      BY <1>5, <2>4, <3>4 DEF LagInv, LagLosesOldest
    <3>6. shown'[s][sent[i].bed] = shown[s][sent[i].bed]
      BY <1>1, <1>3, <2>1, <3>2 DEF ShownType, SentType
    <3> QED
      BY <2>4, <3>5, <3>6
  <2> QED
    BY <2>2, <2>3, <2>4
<1> QED
  BY <1>1, <1>4, <1>5 DEF LagInv, LagLosesOldest, Receives

(* Who starts again has been shown nothing yet. *)
LEMMA ReconnectKeepsLag ==
    ASSUME LInv, LagInv, NEW s \in Subscriber, Reconnect(s)
    PROVE  LagInv'
<1>1. /\ cursor \in [Subscriber -> 0 .. Len(sent)] /\ shown \in ShownType
      /\ cursor' = [cursor EXCEPT ![s] = Len(sent)] /\ sent' = sent
      /\ shown' = [shown EXCEPT ![s] = NeverSeen[s]]
      /\ sent \in Seq(SentType)
  BY DEF LInv, Shapes, LiveTypeOK, LagInv, Reconnect
<1>2. shown' \in ShownType /\ \A b \in Bed : shown'[s][b] = "unknown"
  BY <1>1 DEF ShownType, NeverSeen
<1>3. \A t \in Subscriber \ {s} : shown'[t] = shown[t] /\ cursor'[t] = cursor[t]
  BY <1>1 DEF ShownType
<1>4. ASSUME NEW t \in Subscriber, NEW i \in 1 .. Len(sent),
             Receives(t, sent[i].bed), LastBehind(t, sent[i].bed, i)',
             Len(sent) - i < Capacity
      PROVE  shown'[t][sent[i].bed] \in {"unknown", sent[i].status}
  <2>1. CASE t = s
    <3>1. sent[i] \in SentType
      BY <1>1
    <3>2. sent[i].bed \in Bed
      BY <3>1 DEF SentType
    <3> QED
      BY <1>2, <2>1, <3>2
  <2>2. CASE t # s
    <3>1. LastBehind(t, sent[i].bed, i)
      BY <1>1, <1>3, <1>4, <2>2 DEF LastBehind
    <3>2. shown[t][sent[i].bed] \in {"unknown", sent[i].status}
      BY <1>4, <3>1 DEF LagInv, LagLosesOldest
    <3> QED
      BY <1>3, <2>2, <3>2
  <2> QED
    BY <2>1, <2>2
<1> QED
  BY <1>1, <1>2, <1>4 DEF LagInv, LagLosesOldest, Receives

LEMMA LagStep ==
    ASSUME LInv, LInv', LagInv, [LiveNext]_liveVars
    PROVE  LagInv'
<1>1. ASSUME UNCHANGED channel PROVE LagInv'
  BY <1>1 DEF channel, LagInv, LagLosesOldest, LastBehind, Receives
<1>2. CASE SilentStep \/ UNCHANGED liveVars
  BY <1>1, <1>2 DEF SilentStep, liveVars
<1>3. ASSUME NEW p \in Proc, AwardBed(p) \/ CallFails(p) PROVE LagInv'
  BY <1>1, <1>3 DEF AwardBed, CallFails
<1>4. ASSUME NEW p \in Proc, publish_bed_update(p) PROVE LagInv'
  BY <1>1, <1>4, SendKeepsLag DEF publish_bed_update, CountBeds, DropUpdate
<1>5. ASSUME NEW r \in Referral, EndSearch(r) PROVE LagInv'
  BY <1>1, <1>5 DEF EndSearch
<1>6. ASSUME NEW c \in Consumer, Apply(c) \/ EndPass(c) \/ AckPublished(c)
      PROVE  LagInv'
  BY <1>1, <1>6 DEF Apply, EndPass, AckPublished
<1>7. ASSUME NEW s \in Subscriber, TakeUpdate(s) \/ Reconnect(s) PROVE LagInv'
  BY <1>7, TakeKeepsLag, ReconnectKeepsLag
<1>8. CASE LiveCrash
  BY <1>8 DEF LiveCrash, LagInv, ShownType, NeverSeen, LagLosesOldest
<1> QED
  BY <1>2, <1>3, <1>4, <1>5, <1>6, <1>7, <1>8 DEF LiveNext

(* For any capacity, any filters and any number of subscribers, who subscribe,
   lag and start again as they like: lag costs nobody an update that the channel
   still keeps. *)
THEOREM LagCostsOldestOnly == LiveSpec => []LagLosesOldest
<1>1. LagInv => LagLosesOldest
  BY DEF LagInv
<1> QED
  BY <1>1, InitLInv, InitLagInv, NextLInv, LagStep, EngineSafeLive, PTL
     DEF LiveSpec

-----------------------------------------------------------------------------
(* Where the last change of a bed is: in the channel, among the updates of some
   call, or still with the pass of the consumer that applied its event. *)
Announced(b) == \E i \in 1 .. Len(sent) :
                   sent[i].bed = b /\ sent[i].status = bedStatus[b]

OwedBy(p, b) == \E i \in 1 .. Len(owed[p]) :
                   owed[p][i].bed = b /\ owed[p][i].status = bedStatus[b]

PassFor(c, b) == /\ fresh[c] /\ pc[c] \in {"lock", "scan", "pick", "write"}
                 /\ target[c] = b /\ current[c].status = bedStatus[b]

Known(b) == \/ Announced(b)
            \/ \E p \in Proc : OwedBy(p, b)
            \/ \E c \in Consumer : PassFor(c, b)

NothingUntold == \A b \in Bed : Changed(b) => Known(b)

(* Updates are published from the front and owed at the back. *)
Grows(s, t) == Len(s) <= Len(t) /\ \A i \in 1 .. Len(s) : t[i] = s[i]

LEMMA ConcatGrows ==
    ASSUME NEW S, NEW s \in Seq(S), NEW t \in Seq(S)
    PROVE  Grows(s, s \o t)
BY ConcatProperties, LenProperties DEF Grows

LEMMA ConcatHasLast ==
    ASSUME NEW S, NEW s \in Seq(S), NEW u \in S
    PROVE  /\ Len(s) + 1 \in 1 .. Len(s \o <<u>>)
           /\ (s \o <<u>>)[Len(s) + 1] = u
BY ConcatProperties, LenProperties

(* A call that comes to owe something forgets nothing it owed. *)
LEMMA OweGrows ==
    ASSUME LInv, NEW p \in Proc, NEW us \in Seq(UpdateType), Owe(p, us)
    PROVE  \A q \in Proc : Grows(owed[q], owed'[q])
<1>1. /\ owed \in [Proc -> Seq(UpdateType)]
      /\ owed' = [owed EXCEPT ![p] = @ \o us]
  BY DEF LInv, Shapes, Owe
<1>2. Grows(owed[p], owed'[p])
  BY <1>1, ConcatGrows
<1>3. \A q \in Proc \ {p} : Grows(owed[q], owed'[q])
  BY <1>1, LenProperties DEF Grows
<1> QED
  BY <1>2, <1>3

LEMMA OweHas ==
    ASSUME LInv, NEW p \in Proc, NEW u \in UpdateType, Owe(p, <<u>>)
    PROVE  \E i \in 1 .. Len(owed'[p]) : owed'[p][i] = u
<1>1. owed[p] \in Seq(UpdateType) /\ owed'[p] = owed[p] \o <<u>>
  BY DEF LInv, Shapes, Owe
<1> QED
  BY <1>1, ConcatHasLast

(* What a step of call p has to do for bed b to stay known. *)
LEMMA KnownStays ==
    ASSUME IInv, NEW p \in Proc, Step(p), NEW b \in Bed, Known(b),
           bedStatus'[b] = bedStatus[b], sent' = sent,
           \A q \in Proc : Grows(owed[q], owed'[q]),
           \A c \in Consumer \ {p} : fresh'[c] = fresh[c],
           p \in Consumer /\ PassFor(p, b) => PassFor(p, b)' \/ OwedBy(p, b)'
    PROVE  Known(b)'
<1>1. CASE Announced(b)
  BY <1>1 DEF Announced, Known
<1>2. ASSUME NEW q \in Proc, OwedBy(q, b) PROVE Known(b)'
  <2>1. PICK i \in 1 .. Len(owed[q]) :
            owed[q][i].bed = b /\ owed[q][i].status = bedStatus[b]
    BY <1>2 DEF OwedBy
  <2>2. Grows(owed[q], owed'[q])
    OBVIOUS
  <2>3. i \in 1 .. Len(owed'[q]) /\ owed'[q][i] = owed[q][i]
    BY <2>2 DEF Grows
  <2> QED
    BY <2>1, <2>3 DEF OwedBy, Known
<1>3. ASSUME NEW c \in Consumer, c # p, PassFor(c, b) PROVE Known(b)'
  <2>1. pc'[c] = pc[c] /\ target'[c] = target[c] /\ current'[c] = current[c]
    BY <1>3, ProcKinds, StepAlone DEF IInv, OthersStill
  <2> QED
    BY <1>3, <2>1 DEF PassFor, Known
<1>4. CASE p \in Consumer /\ PassFor(p, b)
  BY <1>4 DEF Known
<1> QED
  BY <1>1, <1>2, <1>3, <1>4 DEF Known

(* Publication moves an update from its call to the channel. *)
LEMMA SendKnown ==
    ASSUME LInv, NEW p \in Proc, Send(p), NEW b \in Bed, Known(b)
    PROVE  Known(b)'
<1> DEFINE u == [bed |-> Head(owed[p]).bed, status |-> Head(owed[p]).status,
                 available_count_in_region |-> counted[p]]
<1>1. /\ owed \in [Proc -> Seq(UpdateType)] /\ sent \in Seq(SentType)
      /\ counted \in [Proc -> Nat \cup {NoCount}]
  BY DEF LInv, Shapes, LiveTypeOK
<1>2. /\ owed[p] # <<>> /\ counted[p] # NoCount
      /\ sent' = Append(sent, u) /\ owed' = [owed EXCEPT ![p] = Tail(@)]
      /\ UNCHANGED <<bedStatus, pc, target, current, fresh>>
  BY DEF Send, Returned, vars
<1>3. u \in SentType
  <2>1. Head(owed[p]) \in UpdateType /\ counted[p] \in Nat
    BY <1>1, <1>2, HeadTailProperties
  <2> QED
    BY <2>1 DEF UpdateType, SentType
<1>4. /\ Len(sent) \in Nat /\ Len(sent') = Len(sent) + 1
      /\ \A i \in 1 .. Len(sent) : sent'[i] = sent[i]
      /\ sent'[Len(sent) + 1] = u
  <2> HIDE DEF u
  <2> QED
    BY <1>1, <1>2, <1>3, AppendProperties, LenProperties
<1>5. CASE Announced(b)
  BY <1>2, <1>4, <1>5 DEF Announced, Known
<1>6. ASSUME NEW q \in Proc, OwedBy(q, b), q # p PROVE Known(b)'
  BY <1>1, <1>2, <1>6 DEF OwedBy, Known
<1>7. CASE OwedBy(p, b)
  <2>1. PICK i \in 1 .. Len(owed[p]) :
            owed[p][i].bed = b /\ owed[p][i].status = bedStatus[b]
    BY <1>7 DEF OwedBy
  <2>2. CASE i = 1
    <3>1. u.bed = b /\ u.status = bedStatus[b]
      BY <1>1, <1>2, <2>1, <2>2, HeadTailProperties
    <3> QED
      BY <1>2, <1>4, <3>1 DEF Announced, Known
  <2>3. CASE i # 1
    <3>1. /\ owed[p] \in Seq(UpdateType) /\ owed'[p] = Tail(owed[p])
          /\ Len(owed[p]) \in Nat
      BY <1>1, <1>2, LenProperties
    <3>2. /\ Len(owed'[p]) = Len(owed[p]) - 1
          /\ \A j \in 1 .. Len(owed'[p]) : owed'[p][j] = owed[p][j + 1]
      BY <1>2, <3>1, HeadTailProperties
    <3>3. i - 1 \in 1 .. Len(owed'[p]) /\ owed'[p][i - 1] = owed[p][i]
      BY <2>3, <3>1, <3>2
    <3> QED
      BY <1>2, <2>1, <3>3 DEF OwedBy, Known
  <2> QED
    BY <2>2, <2>3
<1>8. ASSUME NEW c \in Consumer, PassFor(c, b) PROVE Known(b)'
  BY <1>2, <1>8 DEF PassFor, Known
<1> QED
  BY <1>5, <1>6, <1>7, <1>8 DEF Known

(* The calls: the bed one changes it will announce, the beds it does not touch
   stay known. *)
LEMMA CallKeepsKnown ==
    ASSUME IInv, LInv, NothingUntold, Lossless, NEW p \in Proc,
           \/ AwardBed(p) \/ CallFails(p)
           \/ p \in Referral /\ EndSearch(p)
           \/ p \in Consumer /\ (EndPass(p) \/ Apply(p) \/ AckPublished(p)),
           NEW b \in Bed, Changed(b)'
    PROVE  Known(b)'
<1>1. /\ pc[p] \in {"lock", "pick", "write"} => target[p] \in Bed
      /\ p \in Consumer /\ pc[p] # "idle" => current[p] \in Event
      /\ reservations \subseteq Reservation
      /\ bedStatus \in [Bed -> BedStatus] /\ lastSeq \in [Bed -> Int]
      /\ pc \in [Proc -> Pc] /\ target \in [Proc -> Bed \cup {NoBed}]
  BY DEF IInv, Typed, TypeOK, CallsOK
<1>2. /\ owed \in [Proc -> Seq(UpdateType)] /\ fresh \in [Consumer -> BOOLEAN]
      /\ \A q \in Proc : Grows(owed[q], owed[q])
  BY LenProperties DEF LInv, Shapes, LiveTypeOK, Grows
<1>3. "reserved" \in BedStatus /\ EventStatus \subseteq BedStatus
  BY DEF BedStatus, EventStatus
<1>4. \A c \in Bed, st \in BedStatus :
          /\ Update(c, st) \in UpdateType
          /\ Update(c, st).bed = c /\ Update(c, st).status = st
  BY DEF Update, UpdateType
<1>5. ASSUME UNCHANGED <<bedStatus, lastSeq>> PROVE Changed(b) /\ Known(b)
  BY <1>5 DEF Changed, NothingUntold
<1>6. CASE AwardBed(p)
  <2>1. /\ CommitAllocation(p) /\ Owe(p, AwardUpdates(p))
        /\ UNCHANGED <<fresh, sent>>
    BY <1>6 DEF AwardBed, channel
  <2>2. /\ pc[p] = "write" /\ target[p] \in Bed
        /\ bedStatus' = [bedStatus EXCEPT ![target[p]] = "reserved"]
        /\ lastSeq' = lastSeq
    BY <1>1, <2>1 DEF CommitAllocation, Award
  <2>3. /\ Update(target[p], "reserved") \in UpdateType
        /\ AwardUpdates(p) = <<Update(target[p], "reserved")>>
        /\ AwardUpdates(p) \in Seq(UpdateType)
    BY <1>3, <1>4, <2>2 DEF AwardUpdates
  <2>4. CASE target[p] = b
    <3>1. PICK i \in 1 .. Len(owed'[p]) : owed'[p][i] = Update(b, "reserved")
      BY <2>1, <2>3, <2>4, OweHas
    <3>2. bedStatus'[b] = "reserved"
      BY <1>1, <2>2, <2>4
    <3> QED
      BY <1>3, <1>4, <3>1, <3>2 DEF OwedBy, Known
  <2>5. CASE target[p] # b
    <3>1. bedStatus'[b] = bedStatus[b] /\ Changed(b)
      BY <1>1, <2>2, <2>5 DEF Changed
    <3>2. \A q \in Proc : Grows(owed[q], owed'[q])
      BY <2>1, <2>3, OweGrows
    <3>3. Step(p)
      BY <2>1 DEF Step, allocate_for_bed
    <3> QED
      BY <2>1, <2>5, <3>1, <3>2, <3>3, KnownStays DEF NothingUntold, PassFor
  <2> QED
    BY <2>4, <2>5
<1>7. CASE CallFails(p)
  <2>1. /\ ~ CommitReplyLost(p) /\ ~ AnnouncementDue(p)
    BY <1>7 DEF Lossless, Forgets
  <2>2. owed[p] = <<>> /\ (p \in Consumer => ~ PassFor(p, b))
    BY <2>1 DEF AnnouncementDue, PassFor
  <2>3. DbError(p)
    BY <1>7, <2>1, <2>2 DEF CallFails, HandlerDropped, Returned
  <2>4. /\ owed' = owed /\ UNCHANGED <<fresh, sent, bedStatus, lastSeq>>
    BY <1>2, <1>7, <2>2, <2>3 DEF CallFails, DbError, tables, channel
  <2>5. Step(p)
    BY <2>3 DEF Step
  <2> QED
    BY <1>2, <1>5, <2>2, <2>4, <2>5, KnownStays
<1>8. CASE p \in Referral /\ EndSearch(p)
  <2>1. /\ resolve_final_outcome(p) /\ p \notin Consumer
        /\ UNCHANGED <<fresh, sent, bedStatus, lastSeq>>
    BY <1>8, ProcKinds DEF EndSearch, resolve_final_outcome, tables, channel
  <2> DEFINE us == IF answer'[p] = Pending THEN <<>>
                   ELSE <<Update(answer'[p].bed, "reserved")>>
  <2>2. us \in Seq(UpdateType)
    BY <1>8, EndSearchOwes
  <2>3. Owe(p, us)
    BY <1>8 DEF EndSearch
  <2>4. \A q \in Proc : Grows(owed[q], owed'[q])
    <3> HIDE DEF us
    <3> QED
      BY <2>2, <2>3, OweGrows
  <2>5. Step(p)
    BY <1>8, <2>1 DEF Step, submit_referral
  <2> QED
    BY <1>5, <2>1, <2>4, <2>5, KnownStays
<1>9. CASE p \in Consumer /\ EndPass(p)
  <2>1. /\ BedUnavailable(p) \/ NoneEligible(p)
        /\ Owe(p, EventUpdates(p))
        /\ UNCHANGED <<fresh, sent, bedStatus, lastSeq>>
    BY <1>9 DEF EndPass, BedUnavailable, NoneEligible, tables, channel
  <2>2. target[p] \in Bed /\ current[p].status \in BedStatus
    BY <1>1, <1>3, <1>9, <2>1, EventAssumption
       DEF BedUnavailable, NoneEligible, EventType
  <2>3. /\ Update(target[p], current[p].status) \in UpdateType
        /\ EventUpdates(p) \in Seq(UpdateType)
    BY <1>4, <2>2 DEF EventUpdates
  <2>4. ASSUME PassFor(p, b) PROVE OwedBy(p, b)'
    <3>1. Owe(p, <<Update(b, bedStatus[b])>>) /\ bedStatus[b] \in BedStatus
      BY <1>1, <2>1, <2>4 DEF EventUpdates, PassFor
    <3>2. PICK i \in 1 .. Len(owed'[p]) : owed'[p][i] = Update(b, bedStatus[b])
      BY <1>4, <3>1, OweHas
    <3> QED
      BY <1>4, <2>1, <3>1, <3>2 DEF OwedBy
  <2>5. Step(p)
    BY <2>1 DEF Step, allocate_for_bed
  <2>6. \A q \in Proc : Grows(owed[q], owed'[q])
    BY <2>1, <2>3, OweGrows
  <2> QED
    BY <1>5, <2>1, <2>4, <2>5, <2>6, KnownStays
<1>10. CASE p \in Consumer /\ Apply(p)
  <2>1. /\ pc[p] = "apply" /\ owed' = owed /\ sent' = sent
        /\ \A c \in Consumer \ {p} : fresh'[c] = fresh[c]
    BY <1>2, <1>10 DEF Apply, ApplyFresh, ApplyDuplicate, ApplyStale,
                       ApplyUnknownBed, channel
  <2>2. Step(p)
    BY <1>10 DEF Apply, Step, apply_and_notify
  <2>3. CASE UNCHANGED <<bedStatus, lastSeq>>
    BY <1>2, <1>5, <2>1, <2>2, <2>3, KnownStays DEF PassFor
  <2>4. CASE ApplyFresh(p) /\ fresh' = [fresh EXCEPT ![p] = TRUE]
    <3>1. /\ current[p].bed_id \in Bed
          /\ bedStatus' = [bedStatus EXCEPT ![current[p].bed_id] = current[p].status]
          /\ lastSeq' = [lastSeq EXCEPT ![current[p].bed_id] = current[p].sequence]
      BY <2>4 DEF ApplyFresh, ApplyWrites, KnownBed
    <3>2. CASE current[p].bed_id = b
      <4>1. /\ pc'[p] = "lock" /\ target'[p] = b /\ fresh'[p]
            /\ current'[p] = current[p] /\ bedStatus'[b] = current[p].status
        BY <1>1, <1>2, <1>10, <2>4, <3>1, <3>2 DEF ApplyFresh, AllocateAnyway
      <4> QED
        BY <1>10, <4>1 DEF PassFor, Known
    <3>3. CASE current[p].bed_id # b
      <4>1. bedStatus'[b] = bedStatus[b] /\ Changed(b)
        BY <1>1, <3>1, <3>3 DEF Changed
      <4> QED
        BY <1>2, <2>1, <2>2, <4>1, KnownStays DEF NothingUntold, PassFor
    <3> QED
      BY <3>2, <3>3
  <2> QED
    BY <1>10, <2>3, <2>4
       DEF Apply, ApplyDuplicate, ApplyStale, ApplyUnknownBed, tables
<1>11. CASE p \in Consumer /\ AckPublished(p)
  <2>1. /\ Ack(p) /\ pc[p] = "ack"
        /\ UNCHANGED <<owed, fresh, sent, bedStatus, lastSeq>>
    BY <1>11 DEF AckPublished, Ack, tables, live, channel
  <2>2. Step(p)
    BY <1>11, <2>1 DEF Step, apply_and_notify
  <2> QED
    BY <1>2, <1>5, <2>1, <2>2, KnownStays DEF PassFor
<1> QED
  BY <1>6, <1>7, <1>8, <1>9, <1>10, <1>11

LEMMA SilentKeepsKnown ==
    ASSUME IInv, LInv, NothingUntold, SilentStep, NEW b \in Bed, Changed(b)'
    PROVE  Known(b)'
<1>1. /\ pc \in [Proc -> Pc] /\ target \in [Proc -> Bed \cup {NoBed}]
      /\ \A q \in Proc : owed[q] \in Seq(UpdateType)
  BY DEF IInv, Typed, TypeOK, LInv, Shapes
<1>2. /\ owed' = owed /\ fresh' = fresh /\ sent' = sent
      /\ \A q \in Proc : Grows(owed[q], owed[q])
  BY <1>1, LenProperties DEF SilentStep, live, channel, Grows
<1>3. ASSUME NEW p \in Proc, Step(p), UNCHANGED <<bedStatus, lastSeq>>,
             p \in Consumer /\ PassFor(p, b) =>
                 /\ pc'[p] \in {"lock", "scan", "pick", "write"}
                 /\ target'[p] = target[p] /\ current'[p] = current[p]
      PROVE  Known(b)'
  <2>1. Changed(b) /\ Known(b)
    BY <1>3 DEF Changed, NothingUntold
  <2>2. p \in Consumer /\ PassFor(p, b) => PassFor(p, b)'
    BY <1>2, <1>3 DEF PassFor
  <2> QED
    BY <1>2, <1>3, <2>1, <2>2, KnownStays
<1>4. ASSUME NEW r \in Referral,
             \/ InsertReferral(r) \/ FindCandidate(r) \/ StopSearching(r)
             \/ BedUnavailable(r) \/ NoneEligible(r)
      PROVE  Known(b)'
  <2>1. r \in Proc /\ r \notin Consumer
    BY ProcKinds
  <2>2. UNCHANGED <<bedStatus, lastSeq>>
    BY <1>4 DEF InsertReferral, FindCandidate, StopSearching, BedUnavailable,
                NoneEligible, tables
  <2>3. Step(r)
    BY <1>4, <2>1 DEF Step, submit_referral, allocate_for_bed
  <2> QED
    BY <1>3, <2>1, <2>2, <2>3
<1>5. ASSUME NEW p \in Proc,
             LockBed(p) \/ ScanReferrals(p) \/ PickReferral(p) \/ SkipReferral(p)
      PROVE  Known(b)'
  <2>1. UNCHANGED <<bedStatus, lastSeq, target, current>>
    BY <1>5 DEF LockBed, ScanReferrals, PickReferral, SkipReferral, tables
  <2>2. pc'[p] \in {"lock", "scan", "pick", "write"}
    BY <1>1, <1>5 DEF LockBed, ScanReferrals, PickReferral, SkipReferral
  <2>3. Step(p)
    BY <1>5 DEF Step, allocate_for_bed
  <2> QED
    BY <1>3, <2>1, <2>2, <2>3
<1>6. ASSUME NEW c \in Consumer, Receive(c) PROVE Known(b)'
  <2>1. c \in Proc /\ pc[c] = "idle" /\ UNCHANGED <<bedStatus, lastSeq>>
    BY <1>6, ProcKinds DEF Receive, tables
  <2>2. Step(c)
    BY <1>6 DEF Step, apply_and_notify
  <2> QED
    BY <1>3, <2>1, <2>2 DEF PassFor
<1> QED
  BY <1>4, <1>5, <1>6 DEF SilentStep

LEMMA NothingUntoldStep ==
    ASSUME IInv, LInv, NothingUntold, [LiveNext /\ Lossless]_liveVars
    PROVE  NothingUntold'
<1> SUFFICES ASSUME NEW b \in Bed, Changed(b)' PROVE Known(b)'
  BY DEF NothingUntold
<1> USE ProcKinds
<1>1. ASSUME UNCHANGED <<bedStatus, lastSeq, pc, target, current, fresh, owed, sent>>
      PROVE  Known(b)'
  <2>1. Known(b)
    BY <1>1 DEF Changed, NothingUntold
  <2> QED
    BY <1>1, <2>1 DEF Known, Announced, OwedBy, PassFor
<1>2. CASE UNCHANGED liveVars
  BY <1>1, <1>2 DEF liveVars, vars, live, channel
<1>3. CASE LiveNext /\ Lossless
  <2>1. CASE SilentStep
    BY <2>1, SilentKeepsKnown
  <2>2. ASSUME NEW p \in Proc, AwardBed(p) \/ CallFails(p) PROVE Known(b)'
    BY <1>3, <2>2, CallKeepsKnown
  <2>3. ASSUME NEW p \in Proc, publish_bed_update(p) PROVE Known(b)'
    <3>1. ~ DropUpdate(p)
      BY <1>3 DEF Lossless, Forgets
    <3>2. CASE CountBeds(p)
      BY <1>1, <3>2 DEF CountBeds, vars, channel
    <3>3. CASE Send(p)
      <4>1. Changed(b) /\ Known(b)
        BY <3>3 DEF Send, vars, Changed, NothingUntold
      <4> QED
        BY <3>3, <4>1, SendKnown
    <3> QED
      BY <2>3, <3>1, <3>2, <3>3 DEF publish_bed_update
  <2>4. ASSUME NEW r \in Referral, EndSearch(r) PROVE Known(b)'
    BY <1>3, <2>4, CallKeepsKnown
  <2>5. ASSUME NEW c \in Consumer, Apply(c) \/ EndPass(c) \/ AckPublished(c)
        PROVE  Known(b)'
    BY <1>3, <2>5, CallKeepsKnown
  <2>6. ASSUME NEW s \in Subscriber, TakeUpdate(s) \/ Reconnect(s)
        PROVE  Known(b)'
    BY <1>1, <2>6 DEF TakeUpdate, Reconnect, vars, live
  <2> QED
    BY <1>3, <2>1, <2>2, <2>3, <2>4, <2>5, <2>6 DEF LiveNext, Lossless
<1> QED
  BY <1>2, <1>3

(* Unless a call that was to announce something fails, every bed that has
   changed has been announced as it is once everything is at rest: whatever the
   other calls do, whichever of them awards the bed, and whatever fails before
   anything was changed. *)
THEOREM ChangesAlwaysAnnounced == LosslessSpec => []ChangesAnnounced
<1> DEFINE I == IInv /\ LInv /\ NothingUntold
<1>1. LiveInit => I
  <2>1. LiveInit => NothingUntold
    BY BedAssumption DEF LiveInit, Init, NothingUntold, Changed
  <2> QED
    BY <2>1, InitInv, InitLInv DEF LiveInit
<1>2. I /\ [LiveNext /\ Lossless]_liveVars => I'
  <2> SUFFICES ASSUME I, [LiveNext /\ Lossless]_liveVars PROVE I'
    OBVIOUS
  <2>1. [LiveNext]_liveVars
    OBVIOUS
  <2> QED
    BY <2>1, LiveStepMapped, NextInv, NextLInv, NothingUntoldStep
<1>3. I => ChangesAnnounced
  <2> SUFFICES ASSUME I, Settled, NEW b \in Bed, Changed(b)
               PROVE  Announced(b)
    BY DEF ChangesAnnounced, Announced
  <2>1. Known(b)
    BY DEF NothingUntold
  <2>2. \A p \in Proc : ~ OwedBy(p, b)
    BY DEF Settled, OwedBy
  <2>3. \A c \in Consumer : ~ PassFor(c, b)
    BY ProcKinds DEF Settled, PassFor
  <2> QED
    BY <2>1, <2>2, <2>3 DEF Known
<1> QED
  BY <1>1, <1>2, <1>3, PTL DEF LosslessSpec

=============================================================================
