--------------------------- MODULE PipelineProofs ---------------------------
(***************************************************************************)
(* The event pipeline, for any terminals, partitions and consumers: what   *)
(* it feeds the engine is what the engine's own specification allows, and  *)
(* no committed offset passes a message that is still to be applied.       *)
(***************************************************************************)
EXTENDS PipelineProperties, EngineProofs, SequenceTheorems

-----------------------------------------------------------------------------
(* Every step of the pipeline is a step of the engine, or leaves the engine
   alone. *)
LEMMA StepMapped == [PipelineNext]_pipelineVars => [Next]_vars
<1> SUFFICES ASSUME [PipelineNext]_pipelineVars PROVE [Next]_vars
  OBVIOUS
<1>1. CASE IntakeStep
  BY <1>1 DEF IntakeStep
<1>2. CASE EngineStep
  <2>1. ASSUME NEW r \in Referral, submit_referral(r) PROVE Next
    BY <2>1 DEF Next
  <2>2. ASSUME NEW p \in Proc, allocate_for_bed(p) PROVE Next
    BY <2>2 DEF Next
  <2>3. ASSUME NEW p \in Proc, CommitReplyLost(p) PROVE Next
    BY <2>3 DEF Next, Fault
  <2>4. ASSUME NEW c \in Consumer, apply_bed_status_event(c) PROVE Next
    BY <2>4 DEF Next, apply_and_notify, apply_bed_status_event
  <2> QED
    BY <1>2, <2>1, <2>2, <2>3, <2>4 DEF EngineStep
<1>3. ASSUME NEW p \in Proc, StatementFails(p) PROVE Next
  BY <1>3 DEF StatementFails, Next, Fault
<1>4. ASSUME NEW c \in Consumer, Poll(c) PROVE Next
  BY <1>4 DEF Poll, Next, apply_and_notify
<1>5. ASSUME NEW c \in Consumer, SkipMalformed(c) PROVE UNCHANGED vars
  BY <1>5 DEF SkipMalformed
<1>6. ASSUME NEW c \in Consumer, Finish(c) PROVE Next
  BY <1>6 DEF Finish, Next, apply_and_notify
<1>7. ASSUME NEW p \in Partition, NEW c \in Consumer, Rebalance(p, c)
      PROVE  UNCHANGED vars
  BY <1>7 DEF Rebalance
<1>8. CASE Restart
  BY <1>8 DEF Restart, Next, Fault
<1>9. CASE UNCHANGED pipelineVars
  BY <1>9 DEF pipelineVars
<1> QED
  BY <1>1, <1>2, <1>3, <1>4, <1>5, <1>6, <1>7, <1>8, <1>9 DEF PipelineNext

(* Fed by the topic, the engine is still the one MatchingEngine specifies:
   every theorem about it holds with terminals, retries of the producer,
   rebalances and redelivery in front of it. *)
THEOREM PipelineImplementsEngine == PipelineSpec => EngineSpec
<1>1. PipelineInit => Init
  BY DEF PipelineInit
<1> QED
  BY <1>1, StepMapped, PTL DEF PipelineSpec, EngineSpec, Spec

(* In particular its invariant does. *)
LEMMA EngineSafe == PipelineSpec => []IInv
BY PipelineImplementsEngine, Safety, PTL DEF EngineSpec

-----------------------------------------------------------------------------
(* The inductive invariant of the topic and its offsets, part by part. *)

(* Messages that are valid and have had their effect, or never will. *)
Effected == {m \in Message : In!Valid(m) /\ Handled(m)}

(* intake-ingestion lets nothing invalid through. *)
TopicValid ==
    /\ \A m \in inFlight : In!Valid(m)
    /\ \A p \in Partition : \A i \in 1 .. Len(log[p]) : In!Valid(log[p][i])

(* A consumer that is not idle handles the message its source points at, and
   past the apply that message has had its effect. *)
HandlesItsMessage ==
    \A c \in Consumer :
        /\ source[c] = NoSource <=> pc[c] = "idle"
        /\ pc[c] # "idle" =>
              \E m \in Message :
                  /\ log[source[c][1]][source[c][2]] = m
                  /\ In!Valid(m) /\ Parses(m) /\ current[c] = EventOf(m)
                  /\ pc[c] # "apply" => m \in Effected

(* Below a committed offset, below a position, and below the message a consumer
   is handling, every message has had its effect; the one at its owner's
   source is the only exception. *)
NothingSkipped ==
    /\ \A p \in Partition :
          /\ \A i \in 1 .. committed[p] : log[p][i] \in Effected
          /\ \A i \in 1 .. position[p] :
                log[p][i] \in Effected \/ source[owner[p]] = <<p, i>>
    /\ \A c \in Consumer : source[c] # NoSource =>
          \A i \in 1 .. source[c][2] - 1 : log[source[c][1]][i] \in Effected

PInv == PipelineTypeOK /\ TopicValid /\ HandlesItsMessage /\ NothingSkipped

-----------------------------------------------------------------------------
(* So a message that has had its effect has had it for good. *)
LEMMA EffectStays ==
    ASSUME Typed, Typed', TablesGrow
    PROVE  Effected \subseteq Effected'
<1> SUFFICES ASSUME NEW m \in Message, In!Valid(m), Handled(m)
             PROVE  Handled(m)'
  BY DEF Effected
<1>1. CASE ~ Parses(m)
  BY <1>1 DEF Handled
<1>2. CASE m.bed_id \notin Bed
  BY <1>2 DEF Handled
<1>3. CASE EventOf(m) \in appliedEvents
  BY <1>3 DEF Handled, TablesGrow
<1>4. CASE Parses(m) /\ m.bed_id \in Bed /\ m.sequence <= lastSeq[m.bed_id]
  <2>1. EventOf(m) \in Event
    BY <1>4, MessageAssumption
  <2>2. m.sequence \in Int
    BY <2>1, EventAssumption DEF EventOf, EventType
  <2>3. lastSeq[m.bed_id] \in Int /\ lastSeq'[m.bed_id] \in Int
    BY <1>4 DEF Typed, TypeOK
  <2>4. m.sequence <= lastSeq'[m.bed_id]
    BY <1>4, <2>2, <2>3 DEF TablesGrow
  <2> QED
    BY <2>4 DEF Handled
<1> QED
  BY <1>1, <1>2, <1>3, <1>4 DEF Handled

-----------------------------------------------------------------------------
LEMMA InitPInv == PipelineInit => PInv
<1> SUFFICES ASSUME PipelineInit PROVE PInv
  OBVIOUS
<1> USE DEF PipelineInit, In!Init
<1>1. PipelineTypeOK
  <2>1. log \in [Partition -> Seq(Message)]
    BY DEF PipelineTypeOK
  <2> QED
    BY <2>1 DEF PipelineTypeOK
<1>2. TopicValid
  BY DEF TopicValid
<1>3. HandlesItsMessage
  BY ProcKinds DEF HandlesItsMessage, Init
<1>4. NothingSkipped
  BY DEF NothingSkipped
<1> QED
  BY <1>1, <1>2, <1>3, <1>4 DEF PInv

(* The topic keeps what it has, and may get more. *)
TopicGrows ==
    \A p \in Partition :
        /\ Len(log[p]) <= Len(log'[p])
        /\ \A i \in 1 .. Len(log[p]) : log'[p][i] = log[p][i]

(* The types that the topic contributes to PipelineTypeOK. *)
TopicTyped ==
    /\ reported \in [Terminal -> Nat]
    /\ waiting \in [Terminal -> BOOLEAN]
    /\ inFlight \subseteq Message
    /\ accepted \subseteq Message
    /\ log \in [Partition -> Seq(Message)]

LEMMA IntakeTyped ==
    ASSUME TopicTyped, TopicValid, In!Next
    PROVE  TopicTyped' /\ TopicValid' /\ TopicGrows
<1>1. ASSUME NEW t \in Terminal, In!Call(t)
      PROVE  /\ reported' \in [Terminal -> Nat]
             /\ In!NextReport(t) \in Message
  <2>1. Script[t] \in Seq(Message) /\ reported[t] \in Nat
        /\ reported[t] < Len(Script[t])
    BY <1>1, TerminalAssumption DEF In!Call, TopicTyped
  <2>2. In!NextReport(t) \in Message
    BY <2>1 DEF In!NextReport
  <2> QED
    BY <1>1, <2>2 DEF In!Call, TopicTyped
<1>2. ASSUME NEW t \in Terminal, In!Refuse(t)
      PROVE  TopicTyped' /\ TopicValid' /\ TopicGrows
  BY <1>1, <1>2 DEF In!Refuse, TopicTyped, TopicValid, TopicGrows
<1>3. ASSUME NEW t \in Terminal, In!Send(t)
      PROVE  TopicTyped' /\ TopicValid' /\ TopicGrows
  BY <1>1, <1>3 DEF In!Send, TopicTyped, TopicValid, TopicGrows
<1>4. ASSUME NEW t \in Terminal, In!Accept(t)
      PROVE  TopicTyped' /\ TopicValid' /\ TopicGrows
  <2>1. PICK p \in Partition : \E i \in 1 .. Len(log[p]) :
                                  log[p][i] = Script[t][reported[t]]
    BY <1>4 DEF In!Accept, In!InTopic, In!Copies
  <2>2. Script[t][reported[t]] \in Message
    BY <2>1 DEF TopicTyped
  <2> QED
    BY <1>4, <2>2 DEF In!Accept, In!Answer, TopicTyped, TopicValid, TopicGrows
<1>5. ASSUME NEW t \in Terminal, In!TimeOut(t)
      PROVE  TopicTyped' /\ TopicValid' /\ TopicGrows
  BY <1>5 DEF In!TimeOut, In!Answer, TopicTyped, TopicValid, TopicGrows
<1>6. ASSUME NEW m \in inFlight, In!Deliver(m)
      PROVE  TopicTyped' /\ TopicValid' /\ TopicGrows
  <2>1. PICK p : log' = [log EXCEPT ![p] = Append(@, m)]
    BY <1>6 DEF In!Deliver
  <2>2. m \in Message /\ In!Valid(m)
    BY DEF TopicTyped, TopicValid
  <2>3. \A q \in Partition : log[q] \in Seq(Message) /\ Len(log[q]) \in Nat
    BY DEF TopicTyped
  <2>4. ASSUME NEW q \in Partition
        PROVE  /\ log'[q] \in Seq(Message)
               /\ Len(log[q]) <= Len(log'[q])
               /\ \A i \in 1 .. Len(log[q]) : log'[q][i] = log[q][i]
               /\ \A i \in 1 .. Len(log'[q]) : In!Valid(log'[q][i])
    <3>1. CASE q = p
      <4>1. log'[q] = Append(log[q], m)
        BY <2>1, <3>1 DEF TopicTyped
      <4>2. /\ log'[q] \in Seq(Message)
            /\ Len(log'[q]) = Len(log[q]) + 1
            /\ \A i \in 1 .. Len(log[q]) : log'[q][i] = log[q][i]
            /\ log'[q][Len(log[q]) + 1] = m
        BY <2>2, <2>3, <4>1, AppendProperties
      <4> QED
        BY <2>2, <2>3, <4>2 DEF TopicValid
    <3>2. CASE q # p
      BY <2>1, <2>3, <3>2 DEF TopicTyped, TopicValid
    <3> QED
      BY <3>1, <3>2
  <2>5. log' \in [Partition -> Seq(Message)]
    BY <2>1, <2>4 DEF TopicTyped
  <2>6. /\ inFlight' \subseteq inFlight
        /\ UNCHANGED <<reported, waiting, accepted>>
    BY <1>6 DEF In!Deliver
  <2>7. TopicTyped'
    BY <2>5, <2>6 DEF TopicTyped
  <2> QED
    BY <2>4, <2>6, <2>7 DEF TopicValid, TopicGrows
<1>7. ASSUME NEW m \in inFlight, In!Lose(m)
      PROVE  TopicTyped' /\ TopicValid' /\ TopicGrows
  BY <1>7 DEF In!Lose, TopicTyped, TopicValid, TopicGrows
<1> QED
  BY <1>2, <1>3, <1>4, <1>5, <1>6, <1>7 DEF In!Next

-----------------------------------------------------------------------------
(* Steps that leave the group alone keep what its offsets mean. *)
LEMMA OffsetsKept ==
    ASSUME PInv, TopicTyped', TopicGrows, Effected \subseteq Effected',
           UNCHANGED group
    PROVE  PipelineTypeOK' /\ NothingSkipped'
<1>1. /\ UNCHANGED <<committed, position, owner, source>>
      /\ log \in [Partition -> Seq(Message)] /\ log' \in [Partition -> Seq(Message)]
  BY DEF group, PInv, PipelineTypeOK, TopicTyped
<1>2. \A p \in Partition : /\ Len(log[p]) \in Nat /\ Len(log'[p]) \in Nat
                           /\ Len(log[p]) <= Len(log'[p])
  BY <1>1 DEF TopicGrows
<1>3. PipelineTypeOK'
  <2>1. \A p \in Partition : /\ committed'[p] <= Len(log'[p])
                             /\ position'[p] <= Len(log'[p])
    BY <1>1, <1>2 DEF PInv, PipelineTypeOK
  <2>2. \A c \in Consumer : source'[c] # NoSource =>
            source'[c][2] \in 1 .. Len(log'[source'[c][1]])
    BY <1>1, <1>2 DEF PInv, PipelineTypeOK
  <2> QED
    BY <1>1, <2>1, <2>2 DEF PInv, PipelineTypeOK, TopicTyped
<1>4. NothingSkipped'
  <2>1. ASSUME NEW p \in Partition, NEW i \in 1 .. Len(log[p]),
               log[p][i] \in Effected
        PROVE  log'[p][i] \in Effected'
    BY <2>1 DEF TopicGrows
  <2>2. \A p \in Partition :
            /\ committed[p] \in 0 .. Len(log[p])
            /\ position[p] \in 0 .. Len(log[p])
    BY DEF PInv, PipelineTypeOK
  <2>3. \A c \in Consumer : source[c] # NoSource =>
            source[c][1] \in Partition /\ source[c][2] \in 1 .. Len(log[source[c][1]])
    BY DEF PInv, PipelineTypeOK
  <2>4. ASSUME NEW p \in Partition, NEW i \in 1 .. committed[p]
        PROVE  log'[p][i] \in Effected'
    <3>1. i \in 1 .. Len(log[p]) /\ log[p][i] \in Effected
      BY <1>2, <2>2 DEF PInv, NothingSkipped
    <3> QED
      BY <2>1, <3>1
  <2>5. ASSUME NEW p \in Partition, NEW i \in 1 .. position[p]
        PROVE  log'[p][i] \in Effected' \/ source[owner[p]] = <<p, i>>
    <3>1. i \in 1 .. Len(log[p])
      BY <1>2, <2>2
    <3>2. log[p][i] \in Effected \/ source[owner[p]] = <<p, i>>
      BY DEF PInv, NothingSkipped
    <3> QED
      BY <2>1, <3>1, <3>2
  <2>6. ASSUME NEW c \in Consumer, source[c] # NoSource,
               NEW i \in 1 .. source[c][2] - 1
        PROVE  log'[source[c][1]][i] \in Effected'
    <3>1. source[c][1] \in Partition /\ i \in 1 .. Len(log[source[c][1]])
      BY <1>2, <2>3, <2>6
    <3>2. log[source[c][1]][i] \in Effected
      BY <2>6 DEF PInv, NothingSkipped
    <3> QED
      BY <2>1, <3>1, <3>2
  <2> QED
    BY <1>1, <2>4, <2>5, <2>6 DEF NothingSkipped
<1> QED
  BY <1>3, <1>4

LEMMA IntakeKeepsPInv ==
    ASSUME PInv, IntakeStep, Effected \subseteq Effected'
    PROVE  PInv'
<1>1. TopicTyped
  BY DEF PInv, PipelineTypeOK, TopicTyped
<1>2. TopicTyped' /\ TopicValid' /\ TopicGrows
  BY <1>1, IntakeTyped DEF IntakeStep, PInv
<1>3. PipelineTypeOK' /\ NothingSkipped'
  BY <1>2, OffsetsKept DEF IntakeStep
<1>4. HandlesItsMessage'
  <2>1. UNCHANGED <<pc, current, source>>
    BY DEF IntakeStep, vars, group
  <2>2. \A c \in Consumer : source[c] # NoSource =>
            source[c][1] \in Partition /\ source[c][2] \in 1 .. Len(log[source[c][1]])
    BY DEF PInv, PipelineTypeOK
  <2>3. \A c \in Consumer : source[c] # NoSource =>
            log'[source[c][1]][source[c][2]] = log[source[c][1]][source[c][2]]
    BY <1>2, <2>2 DEF TopicGrows
  <2> QED
    BY <2>1, <2>3 DEF PInv, HandlesItsMessage
<1> QED
  BY <1>2, <1>3, <1>4 DEF PInv

(* What a step of the engine below may do to a consumer: fail back to the
   beginning of the handler, or get past the apply. *)
LEMMA ConsumerStep ==
    ASSUME Typed, NEW c \in Consumer,
           EngineStep \/ \E p \in Proc : DbError(p)
    PROVE  /\ current' = current
           /\ pc'[c] = "idle" <=> pc[c] = "idle"
           /\ pc'[c] \notin {"idle", "apply"} =>
                 \/ pc[c] \notin {"idle", "apply"}
                 \/ pc[c] = "apply" /\ apply_bed_status_event(c)
<1> USE ProcKinds
<1> DEFINE Keeps == /\ current' = current
                    /\ pc'[c] = "idle" <=> pc[c] = "idle"
                    /\ pc'[c] \notin {"idle", "apply"} =>
                          \/ pc[c] \notin {"idle", "apply"}
                          \/ pc[c] = "apply" /\ apply_bed_status_event(c)
<1>0. pc \in [Proc -> Pc]
  BY DEF Typed, TypeOK
<1>1. ASSUME NEW r \in Referral, submit_referral(r) PROVE Keeps
  BY <1>0, <1>1 DEF submit_referral, InsertReferral, FindCandidate,
                    StopSearching, resolve_final_outcome
<1>2. ASSUME NEW p \in Proc, allocate_for_bed(p) PROVE Keeps
  BY <1>0, <1>2
     DEF allocate_for_bed, LockBed, BedUnavailable, ScanReferrals, PickReferral,
         SkipReferral, NoneEligible, CommitAllocation, Unallocated
<1>3. ASSUME NEW d \in Consumer, apply_bed_status_event(d) PROVE Keeps
  <2>1. /\ current' = current /\ pc[d] = "apply"
        /\ \/ pc' = [pc EXCEPT ![d] = "ack"]
           \/ pc' = [pc EXCEPT ![d] = "lock"]
    BY <1>3 DEF apply_bed_status_event, ApplyDuplicate, ApplyUnknownBed,
                ApplyStale, ApplyFresh, AllocateAnyway
  <2> QED
    BY <1>0, <1>3, <2>1
<1>4. ASSUME NEW p \in Proc, Fail(p), pc[p] \in InDatabase PROVE Keeps
  BY <1>0, <1>4 DEF Fail, InDatabase
<1>5. ASSUME NEW p \in Proc, DbError(p) \/ CommitReplyLost(p)
      PROVE  Fail(p) /\ pc[p] \in InDatabase
  BY <1>5 DEF DbError, FailingCalls, CommitReplyLost, InDatabase
<1> QED
  BY <1>1, <1>2, <1>3, <1>4, <1>5 DEF EngineStep

(* Past the apply, a message has had its effect or never will have one. *)
LEMMA ApplyTakesEffect ==
    ASSUME Typed, Typed', NEW c \in Consumer, apply_bed_status_event(c),
           NEW m \in Message, In!Valid(m), Parses(m), current[c] = EventOf(m)
    PROVE  m \in Effected'
<1>1. EventOf(m).bed_id = m.bed_id /\ EventOf(m).sequence = m.sequence
  BY DEF EventOf
<1>2. CASE ApplyDuplicate(c)
  BY <1>2 DEF ApplyDuplicate, tables, Effected, Handled
<1>3. CASE ApplyUnknownBed(c)
  BY <1>1, <1>3 DEF ApplyUnknownBed, KnownBed, Effected, Handled
<1>4. CASE ApplyStale(c)
  BY <1>1, <1>4 DEF ApplyStale, Stale, tables, Effected, Handled
<1>5. CASE ApplyFresh(c)
  BY <1>5 DEF ApplyFresh, ApplyWrites, Effected, Handled
<1> QED
  BY <1>2, <1>3, <1>4, <1>5 DEF apply_bed_status_event

LEMMA EngineKeepsPInv ==
    ASSUME PInv, Typed, Typed', Effected \subseteq Effected',
           EngineStep \/ \E p \in Proc : StatementFails(p)
    PROVE  PInv'
<1>1. UNCHANGED <<intakeVars, group>>
  BY DEF EngineStep, StatementFails
<1>2. TopicTyped' /\ TopicValid' /\ TopicGrows
  BY <1>1 DEF intakeVars, PInv, PipelineTypeOK, TopicTyped, TopicValid,
              TopicGrows
<1>3. PipelineTypeOK' /\ NothingSkipped'
  BY <1>1, <1>2, OffsetsKept
<1>4. HandlesItsMessage'
  <2>1. SUFFICES ASSUME NEW c \in Consumer
        PROVE  /\ source[c] = NoSource <=> pc'[c] = "idle"
               /\ pc'[c] # "idle" =>
                    \E m \in Message :
                      /\ log[source[c][1]][source[c][2]] = m
                      /\ In!Valid(m) /\ Parses(m) /\ current'[c] = EventOf(m)
                      /\ pc'[c] # "apply" => m \in Effected'
    BY <1>1 DEF intakeVars, group, HandlesItsMessage
  <2>2. /\ current' = current
        /\ pc'[c] = "idle" <=> pc[c] = "idle"
        /\ pc'[c] \notin {"idle", "apply"} =>
              \/ pc[c] \notin {"idle", "apply"}
              \/ pc[c] = "apply" /\ apply_bed_status_event(c)
    BY ConsumerStep DEF StatementFails
  <2>3. source[c] = NoSource <=> pc[c] = "idle"
    BY DEF PInv, HandlesItsMessage
  <2>4. CASE pc[c] # "idle"
    <3>1. PICK m \in Message :
              /\ log[source[c][1]][source[c][2]] = m
              /\ In!Valid(m) /\ Parses(m) /\ current[c] = EventOf(m)
              /\ pc[c] # "apply" => m \in Effected
      BY <2>4 DEF PInv, HandlesItsMessage
    <3>2. pc'[c] # "idle" /\ pc'[c] # "apply" => m \in Effected'
      BY <2>2, <3>1, ApplyTakesEffect
    <3> QED
      BY <2>2, <2>3, <2>4, <3>1, <3>2
  <2> QED
    BY <2>2, <2>3, <2>4
<1> QED
  BY <1>2, <1>3, <1>4 DEF PInv

-----------------------------------------------------------------------------
(* Steps of the consumer group leave the topic alone. *)

(* Where offsets, positions and sources point. *)
LEMMA Pointers ==
    ASSUME PInv
    PROVE  /\ \A p \in Partition :
                 /\ Len(log[p]) \in Nat
                 /\ \A i \in 1 .. Len(log[p]) : log[p][i] \in Message
                                                  /\ In!Valid(log[p][i])
                 /\ committed[p] \in 0 .. Len(log[p])
                 /\ position[p] \in 0 .. Len(log[p])
                 /\ owner[p] \in Consumer
           /\ \A c \in Consumer : source[c] # NoSource =>
                 /\ source[c] \in Partition \X Nat
                 /\ source[c][1] \in Partition
                 /\ source[c][2] \in 1 .. Len(log[source[c][1]])
BY DEF PInv, PipelineTypeOK, TopicValid

(* What an idle consumer owns, it has handled up to its position. *)
LEMMA IdleOwner ==
    ASSUME PInv, NEW c \in Consumer, pc[c] = "idle",
           NEW p \in Partition, owner[p] = c
    PROVE  \A i \in 1 .. position[p] : log[p][i] \in Effected
<1>1. source[c] = NoSource
  BY DEF PInv, HandlesItsMessage
<1>2. \A i \in 1 .. position[p] : source[c] # <<p, i>>
  BY <1>1, Pointers, PartitionAssumption
<1> QED
  BY <1>2 DEF PInv, NothingSkipped

LEMMA PollKeepsPInv ==
    ASSUME PInv, Typed, NEW c \in Consumer, Poll(c), Effected \subseteq Effected'
    PROVE  PInv'
<1>1. PICK p \in Partition :
          /\ Fetch(c, p)
          /\ Parses(log[p][position[p] + 1])
          /\ Receive(c) /\ current'[c] = EventOf(log[p][position[p] + 1])
          /\ source' = [source EXCEPT ![c] = <<p, position[p] + 1>>]
          /\ \E o \in CommittedOnReceipt(p) :
                committed' = [committed EXCEPT ![p] = o]
  BY DEF Poll
<1> DEFINE i == position[p] + 1
<1>2. /\ pc[c] = "idle" /\ owner[p] = c
      /\ position' = [position EXCEPT ![p] = i]
      /\ UNCHANGED <<owner, reported, waiting, inFlight, accepted, log>>
      /\ i \in 1 .. Len(log[p]) /\ position[p] \in Nat
  BY <1>1, Pointers DEF Fetch, intakeVars
<1>3. committed' = committed
  BY <1>1 DEF CommittedOnReceipt, PInv, PipelineTypeOK
<1>4. \A j \in 1 .. position[p] : log[p][j] \in Effected
  BY <1>2, IdleOwner
<1>5. PipelineTypeOK'
  <2>1. position' \in [Partition -> Nat] /\ source' \in
            [Consumer -> (Partition \X Nat) \cup {NoSource}]
    BY <1>1, <1>2 DEF PInv, PipelineTypeOK
  <2>2. \A q \in Partition : position'[q] <= Len(log[q])
    BY <1>2 DEF PInv, PipelineTypeOK
  <2>3. \A d \in Consumer : source'[d] # NoSource =>
            source'[d][2] \in 1 .. Len(log[source'[d][1]])
    BY <1>1, <1>2 DEF PInv, PipelineTypeOK
  <2> QED
    BY <1>2, <1>3, <2>1, <2>2, <2>3 DEF PInv, PipelineTypeOK
<1>6. TopicValid'
  BY <1>2 DEF PInv, TopicValid
<1>7. HandlesItsMessage'
  <2>1. /\ pc' = [pc EXCEPT ![c] = "apply"]
        /\ \A d \in Consumer \ {c} : current'[d] = current[d]
    BY <1>1 DEF Receive, Typed, TypeOK
  <2>2. source'[c] = <<p, i>> /\ <<p, i>> # NoSource
    BY <1>1, <1>2, PartitionAssumption DEF PInv, PipelineTypeOK
  <2>3. pc'[c] = "apply"
    BY <2>1, ProcKinds DEF Typed, TypeOK
  <2>4. /\ log[p][i] \in Message /\ In!Valid(log[p][i])
        /\ Parses(log[p][i]) /\ current'[c] = EventOf(log[p][i])
    BY <1>1, <1>2, Pointers
  <2>5. ASSUME NEW d \in Consumer \ {c}
        PROVE  pc'[d] = pc[d] /\ source'[d] = source[d]
    BY <1>1, <2>1, ProcKinds DEF Typed, TypeOK, PInv, PipelineTypeOK
  <2>6. ASSUME NEW d \in Consumer
        PROVE  /\ source'[d] = NoSource <=> pc'[d] = "idle"
               /\ pc'[d] # "idle" =>
                    \E m \in Message :
                      /\ log[source'[d][1]][source'[d][2]] = m
                      /\ In!Valid(m) /\ Parses(m) /\ current'[d] = EventOf(m)
                      /\ pc'[d] # "apply" => m \in Effected'
    <3>1. CASE d = c
      BY <2>2, <2>3, <2>4, <3>1
    <3>2. CASE d # c
      BY <2>1, <2>5, <3>2 DEF PInv, HandlesItsMessage
    <3> QED
      BY <3>1, <3>2
  <2> QED
    BY <1>2, <2>6 DEF HandlesItsMessage
<1>8. NothingSkipped'
  <2>1. \A q \in Partition : \A j \in 1 .. committed[q] : log[q][j] \in Effected'
    BY DEF PInv, NothingSkipped
  <2>2. ASSUME NEW q \in Partition, NEW j \in 1 .. position'[q]
        PROVE  log[q][j] \in Effected' \/ source'[owner[q]] = <<q, j>>
    <3>1. CASE q = p
      <4>1. position'[p] = i
        BY <1>2 DEF PInv, PipelineTypeOK
      <4>2. j \in 1 .. position[p] \/ j = i
        BY <1>2, <3>1, <4>1
      <4>3. source'[c] = <<p, i>>
        BY <1>1 DEF PInv, PipelineTypeOK
      <4> QED
        BY <1>2, <1>4, <3>1, <4>2, <4>3
    <3>2. CASE q # p /\ owner[q] = c
      <4>1. position'[q] = position[q]
        BY <1>2, <3>2
      <4> QED
        BY <1>2, <3>2, <4>1, IdleOwner
    <3>3. CASE q # p /\ owner[q] # c
      <4>1. /\ position'[q] = position[q]
            /\ source'[owner[q]] = source[owner[q]]
        BY <1>1, <1>2, <3>3, Pointers DEF PInv, PipelineTypeOK
      <4> QED
        BY <4>1 DEF PInv, NothingSkipped
    <3> QED
      BY <3>1, <3>2, <3>3
  <2>3. ASSUME NEW d \in Consumer, source'[d] # NoSource,
               NEW j \in 1 .. source'[d][2] - 1
        PROVE  log[source'[d][1]][j] \in Effected'
    <3>1. CASE d = c
      <4>1. source'[c] = <<p, i>>
        BY <1>1 DEF PInv, PipelineTypeOK
      <4>2. j \in 1 .. position[p]
        BY <1>2, <2>3, <3>1, <4>1
      <4> QED
        BY <1>4, <3>1, <4>1, <4>2
    <3>2. CASE d # c
      <4>1. source'[d] = source[d]
        BY <1>1, <3>2 DEF PInv, PipelineTypeOK
      <4> QED
        BY <2>3, <4>1 DEF PInv, NothingSkipped
    <3> QED
      BY <3>1, <3>2
  <2> QED
    BY <1>2, <1>3, <2>1, <2>2, <2>3 DEF NothingSkipped
<1> QED
  BY <1>5, <1>6, <1>7, <1>8 DEF PInv

(* A message that does not parse is skipped and its offset committed. *)
LEMMA SkipKeepsPInv ==
    ASSUME PInv, NEW c \in Consumer, SkipMalformed(c),
           Effected \subseteq Effected'
    PROVE  PInv'
<1>1. PICK p \in Partition :
          /\ Fetch(c, p)
          /\ ~ Parses(log[p][position[p] + 1])
          /\ CommitMessage(p, position[p] + 1)
          /\ UNCHANGED <<vars, source>>
  BY DEF SkipMalformed
<1> DEFINE i == position[p] + 1
<1>2. /\ pc[c] = "idle" /\ owner[p] = c
      /\ position' = [position EXCEPT ![p] = i]
      /\ UNCHANGED <<owner, reported, waiting, inFlight, accepted, log>>
      /\ i \in 1 .. Len(log[p]) /\ position[p] \in Nat
      /\ UNCHANGED <<pc, current, source>>
  BY <1>1, Pointers DEF Fetch, intakeVars, vars
<1>3. \A j \in 1 .. i : log[p][j] \in Effected
  <2>1. log[p][i] \in Effected
    BY <1>1, <1>2, Pointers DEF Effected, Handled
  <2>2. \A j \in 1 .. position[p] : log[p][j] \in Effected
    BY <1>2, IdleOwner
  <2> QED
    BY <1>2, <2>1, <2>2
<1>4. \/ committed' = committed
      \/ committed' = [committed EXCEPT ![p] = i]
  BY <1>1 DEF CommitMessage
<1>5. PipelineTypeOK'
  <2>1. position' \in [Partition -> Nat] /\ committed' \in [Partition -> Nat]
    BY <1>2, <1>4 DEF PInv, PipelineTypeOK
  <2>2. \A q \in Partition : /\ position'[q] <= Len(log[q])
                             /\ committed'[q] <= Len(log[q])
    BY <1>2, <1>4 DEF PInv, PipelineTypeOK
  <2> QED
    BY <1>2, <2>1, <2>2 DEF PInv, PipelineTypeOK
<1>6. TopicValid'
  BY <1>2 DEF PInv, TopicValid
<1>7. HandlesItsMessage'
  BY <1>2 DEF PInv, HandlesItsMessage
<1>8. NothingSkipped'
  <2>1. ASSUME NEW q \in Partition, NEW j \in 1 .. committed'[q]
        PROVE  log[q][j] \in Effected'
    <3>1. CASE committed'[q] = committed[q]
      BY <3>1 DEF PInv, NothingSkipped
    <3>2. CASE committed'[q] # committed[q]
      <4>1. q = p /\ committed'[q] = i
        BY <1>4, <3>2 DEF PInv, PipelineTypeOK
      <4> QED
        BY <1>3, <4>1
    <3> QED
      BY <3>1, <3>2
  <2>2. ASSUME NEW q \in Partition, NEW j \in 1 .. position'[q]
        PROVE  log[q][j] \in Effected' \/ source[owner[q]] = <<q, j>>
    <3>1. CASE q = p
      <4>1. position'[q] = i
        BY <1>2, <3>1 DEF PInv, PipelineTypeOK
      <4> QED
        BY <1>3, <3>1, <4>1
    <3>2. CASE q # p
      <4>1. position'[q] = position[q]
        BY <1>2, <3>2
      <4> QED
        BY <4>1 DEF PInv, NothingSkipped
    <3> QED
      BY <3>1, <3>2
  <2>3. ASSUME NEW d \in Consumer, source[d] # NoSource,
               NEW j \in 1 .. source[d][2] - 1
        PROVE  log[source[d][1]][j] \in Effected'
    BY <2>3 DEF PInv, NothingSkipped
  <2> QED
    BY <1>2, <2>1, <2>2, <2>3 DEF NothingSkipped
<1> QED
  BY <1>5, <1>6, <1>7, <1>8 DEF PInv

(* The handler returns and its message is committed, or the commit is lost. *)
LEMMA FinishKeepsPInv ==
    ASSUME PInv, Typed, NEW c \in Consumer, Finish(c),
           Effected \subseteq Effected'
    PROVE  PInv'
<1> DEFINE p == source[c][1]
           i == source[c][2]
<1>1. /\ pc[c] = "ack"
      /\ pc' = [pc EXCEPT ![c] = "idle"]
      /\ current' = [current EXCEPT ![c] = NoEvent]
      /\ source' = [source EXCEPT ![c] = NoSource]
      /\ UNCHANGED <<position, owner, reported, waiting, inFlight, accepted,
                     log>>
      /\ \/ committed' = committed
         \/ committed' = [committed EXCEPT ![p] = i]
  BY DEF Finish, Ack, CommitMessage, intakeVars
<1>2. source[c] # NoSource
  BY <1>1 DEF PInv, HandlesItsMessage
<1>3. /\ source[c] = <<p, i>> /\ p \in Partition /\ i \in 1 .. Len(log[p])
      /\ Len(log[p]) \in Nat
  BY <1>2, Pointers
<1>4. \A j \in 1 .. i : log[p][j] \in Effected
  <2>1. log[p][i] \in Effected
    <3>1. pc[c] # "idle" /\ pc[c] # "apply"
      BY <1>1
    <3>2. PICK m \in Message : log[p][i] = m /\ m \in Effected
      BY <3>1 DEF PInv, HandlesItsMessage
    <3> QED
      BY <3>2
  <2>2. \A j \in 1 .. i - 1 : log[p][j] \in Effected
    BY <1>2 DEF PInv, NothingSkipped
  <2> QED
    BY <1>3, <2>1, <2>2
<1>5. PipelineTypeOK'
  <2>1. committed' \in [Partition -> Nat]
        /\ \A q \in Partition : committed'[q] <= Len(log[q])
    <3>1. committed \in [Partition -> Nat]
          /\ \A q \in Partition : committed[q] <= Len(log[q])
      BY DEF PInv, PipelineTypeOK
    <3>2. i \in Nat /\ i <= Len(log[p])
      BY <1>3
    <3> HIDE DEF p, i
    <3>3. CASE committed' = committed
      BY <3>1, <3>3
    <3>4. CASE committed' = [committed EXCEPT ![p] = i]
      BY <3>1, <3>2, <3>4
    <3> QED
      BY <1>1, <3>3, <3>4
  <2>2. source' \in [Consumer -> (Partition \X Nat) \cup {NoSource}]
        /\ \A d \in Consumer : source'[d] # NoSource => source'[d] = source[d]
    BY <1>1 DEF PInv, PipelineTypeOK
  <2> QED
    BY <1>1, <2>1, <2>2 DEF PInv, PipelineTypeOK
<1>6. TopicValid'
  BY <1>1 DEF PInv, TopicValid
<1>7. \A d \in Consumer \ {c} :
          /\ pc'[d] = pc[d] /\ current'[d] = current[d]
          /\ source'[d] = source[d]
  BY <1>1, ProcKinds DEF Typed, TypeOK, PInv, PipelineTypeOK
<1>8. pc'[c] = "idle" /\ source'[c] = NoSource
  BY <1>1, ProcKinds DEF Typed, TypeOK, PInv, PipelineTypeOK
<1>9. HandlesItsMessage'
  <2>1. ASSUME NEW d \in Consumer
        PROVE  /\ source'[d] = NoSource <=> pc'[d] = "idle"
               /\ pc'[d] # "idle" =>
                    \E m \in Message :
                      /\ log[source'[d][1]][source'[d][2]] = m
                      /\ In!Valid(m) /\ Parses(m) /\ current'[d] = EventOf(m)
                      /\ pc'[d] # "apply" => m \in Effected'
    <3>1. CASE d = c
      BY <1>8, <3>1
    <3>2. CASE d # c
      BY <1>7, <3>2 DEF PInv, HandlesItsMessage
    <3> QED
      BY <3>1, <3>2
  <2> QED
    BY <1>1, <2>1 DEF HandlesItsMessage
<1>10. NothingSkipped'
  <2>1. ASSUME NEW q \in Partition, NEW j \in 1 .. committed'[q]
        PROVE  log[q][j] \in Effected'
    <3>1. CASE committed'[q] = committed[q]
      BY <3>1 DEF PInv, NothingSkipped
    <3>2. CASE committed'[q] # committed[q]
      <4>1. q = p /\ committed'[q] = i
        BY <1>1, <3>2 DEF PInv, PipelineTypeOK
      <4> QED
        BY <1>4, <4>1
    <3> QED
      BY <3>1, <3>2
  <2>2. ASSUME NEW q \in Partition, NEW j \in 1 .. position[q]
        PROVE  log[q][j] \in Effected' \/ source'[owner[q]] = <<q, j>>
    <3>1. CASE source[owner[q]] = <<q, j>> /\ owner[q] = c
      <4>1. q = p /\ j = i
        BY <1>3, <3>1
      <4> QED
        BY <1>3, <1>4, <4>1
    <3>2. CASE source[owner[q]] = <<q, j>> /\ owner[q] # c
      BY <1>7, <3>2, Pointers
    <3>3. CASE source[owner[q]] # <<q, j>>
      BY <3>3 DEF PInv, NothingSkipped
    <3> QED
      BY <3>1, <3>2, <3>3
  <2>3. ASSUME NEW d \in Consumer, source'[d] # NoSource,
               NEW j \in 1 .. source'[d][2] - 1
        PROVE  log[source'[d][1]][j] \in Effected'
    <3>1. source'[d] = source[d]
      BY <1>7, <1>8, <2>3
    <3> QED
      BY <2>3, <3>1 DEF PInv, NothingSkipped
  <2> QED
    BY <1>1, <2>1, <2>2, <2>3 DEF NothingSkipped
<1> QED
  BY <1>5, <1>6, <1>9, <1>10 DEF PInv

(* A partition goes to a consumer, which starts where the group has committed;
   whoever had it keeps the message it is handling. *)
LEMMA RebalanceKeepsPInv ==
    ASSUME PInv, NEW p \in Partition, NEW c \in Consumer, Rebalance(p, c),
           Effected \subseteq Effected'
    PROVE  PInv'
<1>1. /\ owner' = [owner EXCEPT ![p] = c]
      /\ position' = [position EXCEPT ![p] = committed[p]]
      /\ UNCHANGED <<reported, waiting, inFlight, accepted, log, committed,
                     source, pc, current>>
  BY DEF Rebalance, intakeVars, vars
<1>2. PipelineTypeOK'
  <2>1. /\ position' \in [Partition -> Nat] /\ owner' \in [Partition -> Consumer]
        /\ \A q \in Partition : position'[q] <= Len(log[q])
    BY <1>1 DEF PInv, PipelineTypeOK
  <2> QED
    BY <1>1, <2>1 DEF PInv, PipelineTypeOK
<1>3. TopicValid'
  BY <1>1 DEF PInv, TopicValid
<1>4. HandlesItsMessage'
  BY <1>1 DEF PInv, HandlesItsMessage
<1>5. NothingSkipped'
  <2>1. \A q \in Partition : \A j \in 1 .. committed[q] : log[q][j] \in Effected'
    BY DEF PInv, NothingSkipped
  <2>2. ASSUME NEW q \in Partition, NEW j \in 1 .. position'[q]
        PROVE  log[q][j] \in Effected' \/ source[owner'[q]] = <<q, j>>
    <3>1. CASE q = p
      <4>1. position'[q] = committed[q]
        BY <1>1, <3>1 DEF PInv, PipelineTypeOK
      <4> QED
        BY <2>1, <4>1
    <3>2. CASE q # p
      <4>1. position'[q] = position[q] /\ owner'[q] = owner[q]
        BY <1>1, <3>2
      <4> QED
        BY <4>1 DEF PInv, NothingSkipped
    <3> QED
      BY <3>1, <3>2
  <2>3. ASSUME NEW d \in Consumer, source[d] # NoSource,
               NEW j \in 1 .. source[d][2] - 1
        PROVE  log[source[d][1]][j] \in Effected'
    BY <2>3 DEF PInv, NothingSkipped
  <2> QED
    BY <1>1, <2>1, <2>2, <2>3 DEF NothingSkipped
<1> QED
  BY <1>2, <1>3, <1>4, <1>5 DEF PInv

(* The engine restarts: every consumer starts where the group has committed. *)
LEMMA RestartKeepsPInv ==
    ASSUME PInv, Restart, Effected \subseteq Effected'
    PROVE  PInv'
<1>1. /\ position' = committed
      /\ source' = [c \in Consumer |-> NoSource]
      /\ \A c \in Consumer : pc'[c] = "idle"
      /\ UNCHANGED <<reported, waiting, inFlight, accepted, log, committed,
                     owner>>
  BY ProcKinds DEF Restart, Crash, intakeVars
<1>2. PipelineTypeOK'
  BY <1>1 DEF PInv, PipelineTypeOK
<1>3. TopicValid'
  BY <1>1 DEF PInv, TopicValid
<1>4. HandlesItsMessage'
  BY <1>1 DEF HandlesItsMessage
<1>5. NothingSkipped'
  BY <1>1 DEF PInv, NothingSkipped
<1> QED
  BY <1>2, <1>3, <1>4, <1>5 DEF PInv

LEMMA NextPInv ==
    ASSUME IInv, IInv', PInv, [PipelineNext]_pipelineVars
    PROVE  PInv'
<1>1. Typed /\ Typed'
  BY DEF IInv
<1>2. Effected \subseteq Effected'
  BY <1>1, StepMapped, EngineGrows, EffectStays
<1>3. CASE IntakeStep
  BY <1>2, <1>3, IntakeKeepsPInv
<1>4. CASE EngineStep \/ \E p \in Proc : StatementFails(p)
  BY <1>1, <1>2, <1>4, EngineKeepsPInv
<1>5. ASSUME NEW c \in Consumer, Poll(c) PROVE PInv'
  BY <1>1, <1>2, <1>5, PollKeepsPInv
<1>6. ASSUME NEW c \in Consumer, SkipMalformed(c) PROVE PInv'
  BY <1>2, <1>6, SkipKeepsPInv
<1>7. ASSUME NEW c \in Consumer, Finish(c) PROVE PInv'
  BY <1>1, <1>2, <1>7, FinishKeepsPInv
<1>8. ASSUME NEW p \in Partition, NEW c \in Consumer, Rebalance(p, c)
      PROVE  PInv'
  BY <1>2, <1>8, RebalanceKeepsPInv
<1>9. CASE Restart
  BY <1>2, <1>9, RestartKeepsPInv
<1>10. CASE UNCHANGED pipelineVars
  <2>1. UNCHANGED <<reported, waiting, inFlight, accepted, log, committed,
                    position, owner, source, pc, current>>
    BY <1>10 DEF pipelineVars, vars, intakeVars, group
  <2>2. PipelineTypeOK'
    BY <2>1 DEF PInv, PipelineTypeOK
  <2>3. TopicValid'
    BY <2>1 DEF PInv, TopicValid
  <2>4. HandlesItsMessage'
    BY <1>2, <2>1 DEF PInv, HandlesItsMessage
  <2>5. NothingSkipped'
    BY <1>2, <2>1 DEF PInv, NothingSkipped
  <2> QED
    BY <2>2, <2>3, <2>4, <2>5 DEF PInv
<1> QED
  BY <1>3, <1>4, <1>5, <1>6, <1>7, <1>8, <1>9, <1>10 DEF PipelineNext

-----------------------------------------------------------------------------
(* The invariant of topic, offsets and consumers holds in every state. *)
THEOREM PipelineSafety == PipelineSpec => []PInv
<1>1. PipelineInit => PInv
  BY InitPInv
<1>2. IInv /\ IInv' /\ PInv /\ [PipelineNext]_pipelineVars => PInv'
  BY NextPInv
<1> QED
  BY <1>1, <1>2, EngineSafe, PTL DEF PipelineSpec

(* No offset, committed, polled or being handled, points past the end of its
   partition, and the topic holds messages only. *)
THEOREM PipelineTypeCorrect == PipelineSpec => []PipelineTypeOK
<1>1. PInv => PipelineTypeOK
  BY DEF PInv
<1> QED
  BY <1>1, PipelineSafety, PTL

(* Whatever fails, crashes, is lost, repeated or rebalanced, and wherever in a
   handler it happens, the committed offset never passes a message that is
   still to be applied. *)
THEOREM CommittedAlwaysHandled == PipelineSpec => []CommittedHandled
<1>1. PInv => CommittedHandled
  BY DEF PInv, NothingSkipped, CommittedHandled, Effected
<1> QED
  BY <1>1, PipelineSafety, PTL

=============================================================================
