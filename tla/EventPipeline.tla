---------------------------- MODULE EventPipeline ----------------------------
(***************************************************************************)
(* Bed events end to end: intake terminals and intake-ingestion (Intake),  *)
(* the bed-events topic, and the consumers of the matching engine, which   *)
(* take their events from the topic's partitions instead of out of the     *)
(* blue.  A consumer holds one message at a time; the group's committed    *)
(* offsets are all that survives of its progress.                          *)
(***************************************************************************)
EXTENDS MatchingEngine, Sequences

CONSTANTS
    Message, Terminal, Script, ShelterId, Partition, PartitionOf, MaxCopies,
    Empty,          \* see Intake
    Malformed,      \* an id that is there and does not parse as a UUID
    NoSource

ASSUME TerminalAssumption ==
    /\ Script \in [Terminal -> Seq(Message)]
    /\ \A m \in Message : /\ m.status \in ProtoBedStatus
                          /\ m.shelter_id \in ShelterId \cup {Empty}
    /\ PartitionOf \in [ShelterId -> Partition]
    /\ MaxCopies \in Nat

(* A bed is reported by one terminal, under one shelter's id, with sequence
   numbers that count upwards from 1 or more. *)
ASSUME SequenceAssumption ==
    /\ \A m \in Message : m.sequence \in Nat \ {0}
    /\ \A t, u \in Terminal :
          \A i \in 1 .. Len(Script[t]), j \in 1 .. Len(Script[u]) :
              /\ Script[t][i].bed_id = Script[u][j].bed_id =>
                    t = u /\ Script[t][i].shelter_id = Script[u][j].shelter_id
              /\ t = u /\ i < j => Script[t][i].sequence < Script[u][j].sequence

ASSUME PartitionAssumption ==
    /\ IsFiniteSet(Partition) /\ Consumer # {}
    /\ NoSource \notin Partition \X Nat

VARIABLES
    reported, waiting, inFlight, accepted, log,
    committed,      \* [Partition -> messages below the committed offset]
    position,       \* [Partition -> messages its owner has received]
    owner,          \* [Partition -> the consumer it is assigned to]
    source          \* [Consumer -> partition and offset of the message it
                    \*  is handling]

In == INSTANCE Intake

intakeVars == <<reported, waiting, inFlight, accepted, log>>
group == <<committed, position, owner, source>>
pipelineVars == <<vars, intakeVars, group>>

PipelineInit ==
    /\ Init
    /\ In!Init
    /\ committed = [p \in Partition |-> 0]
    /\ position = [p \in Partition |-> 0]
    /\ owner \in [Partition -> Consumer]
    /\ source = [c \in Consumer |-> NoSource]

-----------------------------------------------------------------------------
(* Broken versions, for the runs that have to notice. *)
CommitOneMore(p, offset) ==                  \* offset + 1, done twice
    committed' \in {committed, [committed EXCEPT ![p] = offset + 1]}
CommitOnReceipt(p) == {committed[p], position[p] + 1}     \* auto-commit
SkipFailed(p) ==                             \* log the error and recv again
    /\ p \in FailingCalls
    /\ EndTransaction(p)
    /\ pc' = [pc EXCEPT ![p] = IF p \in Consumer THEN "idle" ELSE "done"]
    /\ current' = [c \in Consumer |-> IF c = p THEN NoEvent ELSE current[c]]
    /\ source' = [c \in Consumer |-> IF c = p THEN NoSource ELSE source[c]]
    /\ UNCHANGED <<tables, tries, answer, intakeVars, committed, position, owner>>
RetryMalformed(c) == \E p \in Partition :    \* Err for a malformed message
    /\ pc[c] = "idle" /\ owner[p] = c /\ position[p] < Len(log[p])
    /\ ~ (Malformed \notin {log[p][position[p] + 1].event_id,
                            log[p][position[p] + 1].bed_id})
    /\ UNCHANGED pipelineVars

OnlyFreshAllocates(c) ==                     \* no pass for Duplicate, Stale
    \/ ApplyUnknownBed(c)
    \/ ApplyFresh(c)
    \/ /\ pc[c] = "apply"
       /\ \/ current[c] \in appliedEvents
          \/ KnownBed(current[c]) /\ Stale(current[c])
       /\ pc' = [pc EXCEPT ![c] = "ack"]
       /\ UNCHANGED <<tables, target, queue, passed, chosen, tries, answer,
                      current>>

(* parse_ids *)
Parses(m) == Malformed \notin {m.event_id, m.bed_id}

(* What a consumer makes of a decoded message. *)
EventOf(m) == [event_id |-> m.event_id, bed_id |-> m.bed_id,
               status |-> BedStatusDbStr[BedStatusFromProto[m.status]],
               sequence |-> m.sequence]

ASSUME MessageAssumption ==
    \A m \in Message : In!Valid(m) /\ Parses(m) => EventOf(m) \in Event

(* Offsets a consumer leaves as committed when it receives a message of p. *)
CommittedOnReceipt(p) == {committed[p]}

(* The next message of a partition that consumer c owns. *)
Fetch(c, p) ==
    /\ pc[c] = "idle"
    /\ owner[p] = c /\ position[p] < Len(log[p])
    /\ position' = [position EXCEPT ![p] = @ + 1]
    /\ UNCHANGED <<owner, intakeVars>>

Poll(c) == \E p \in Partition :
    LET m == log[p][position[p] + 1] IN
    /\ Fetch(c, p)
    /\ Parses(m)
    /\ Receive(c) /\ current'[c] = EventOf(m)
    /\ source' = [source EXCEPT ![c] = <<p, position[p] + 1>>]
    /\ \E o \in CommittedOnReceipt(p) :
          committed' = [committed EXCEPT ![p] = o]

(* An asynchronous commit gets to the coordinator or is lost; a consumer that
   has lost the partition since may still win this race. *)
CommitMessage(p, offset) ==
    committed' \in {committed, [committed EXCEPT ![p] = offset]}

SkipMalformed(c) == \E p \in Partition :
    /\ Fetch(c, p)
    /\ ~ Parses(log[p][position[p] + 1])
    /\ CommitMessage(p, position[p] + 1)
    /\ UNCHANGED <<vars, source>>

Finish(c) ==
    /\ Ack(c)
    /\ CommitMessage(source[c][1], source[c][2])
    /\ source' = [source EXCEPT ![c] = NoSource]
    /\ UNCHANGED <<position, owner, intakeVars>>

(* The group gives partition p to consumer c, which starts at the committed
   offset: a pod comes or goes, or retrying in place has taken longer than
   the poll interval.  Whoever had p may still be handling a message of it. *)
Rebalance(p, c) ==
    /\ owner' = [owner EXCEPT ![p] = c]
    /\ position' = [position EXCEPT ![p] = committed[p]]
    /\ UNCHANGED <<vars, intakeVars, committed, source>>

Restart ==
    /\ Crash
    /\ position' = committed
    /\ source' = [c \in Consumer |-> NoSource]
    /\ UNCHANGED <<intakeVars, committed, owner>>

apply_bed_status_event(c) ==
    ApplyDuplicate(c) \/ ApplyUnknownBed(c) \/ ApplyStale(c) \/ ApplyFresh(c)

(* A consumer whose event fails keeps it, and tries again in place. *)
StatementFails(p) == DbError(p) /\ UNCHANGED <<intakeVars, group>>

EngineStep ==
    /\ \/ \E r \in Referral : submit_referral(r)
       \/ \E p \in Proc : allocate_for_bed(p) \/ CommitReplyLost(p)
       \/ \E c \in Consumer : apply_bed_status_event(c)
    /\ UNCHANGED <<intakeVars, group>>

IntakeStep == In!Next /\ UNCHANGED <<vars, group>>

PipelineNext ==
    \/ IntakeStep
    \/ EngineStep
    \/ \E p \in Proc : StatementFails(p)
    \/ \E c \in Consumer : Poll(c) \/ SkipMalformed(c) \/ Finish(c)
    \/ \E p \in Partition, c \in Consumer : Rebalance(p, c)
    \/ Restart

PipelineSpec == PipelineInit /\ [][PipelineNext]_pipelineVars

(* Besides the engine's own scheduling: a consumer that is idle receives what
   its partitions hold, and in the end the group comes to rest and nothing
   fails any more. *)
Disruption == Restart \/ (\E p \in Partition, c \in Consumer : Rebalance(p, c))
                      \/ (\E p \in Proc : StatementFails(p))

PipelineFairness ==
    /\ \A p \in Proc :
          /\ WF_pipelineVars(CallStep(p) /\ EngineStep)
          /\ SF_pipelineVars((LockBed(p) \/ BedUnavailable(p)) /\ EngineStep)
          /\ SF_pipelineVars(p \in Consumer /\ (ApplyStale(p) \/ ApplyFresh(p))
                                           /\ EngineStep)
    /\ \A c \in Consumer : WF_pipelineVars(Poll(c) \/ SkipMalformed(c))
                           /\ WF_pipelineVars(Finish(c))
    /\ <>[][~ Disruption]_pipelineVars

FairPipelineSpec == PipelineSpec /\ PipelineFairness

=============================================================================
