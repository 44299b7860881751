------------------------------- MODULE Intake -------------------------------
(***************************************************************************)
(* From a shelter's intake terminal to the bed-events topic: the terminals,*)
(* the handler of intake-ingestion and its Kafka producer.  A terminal     *)
(* reports about one bed, one call at a time, and goes on to its next      *)
(* report whatever the answer to this one.                                 *)
(***************************************************************************)
EXTENDS Integers, Sequences, FiniteSets, Wire

CONSTANTS
    Message,        \* reports that terminals may make
    Terminal,       \* intake terminals, one per bed
    Script,         \* [Terminal -> Seq(Message)], what each has to report
    ShelterId,      \* the keys of messages
    Partition,      \* partitions of the topic
    PartitionOf,    \* [ShelterId -> Partition], the producer's partitioner
    MaxCopies,      \* bound: copies of one message in the topic
    Empty           \* an id field left out of a request

VARIABLES
    reported,       \* [Terminal -> how many reports it has made]
    waiting,        \* [Terminal -> whether its last call is unanswered]
    inFlight,       \* messages the producer has given to the network
    accepted,       \* reports answered with "accepted"
    log             \* [Partition -> Seq(Message)]

vars == <<reported, waiting, inFlight, accepted, log>>

Init ==
    /\ reported = [t \in Terminal |-> 0]
    /\ waiting = [t \in Terminal |-> FALSE]
    /\ inFlight = {}
    /\ accepted = {}
    /\ log = [p \in Partition |-> <<>>]

-----------------------------------------------------------------------------
(* Broken versions, for the runs that have to notice. *)
AnyStatusValid(m) == Empty \notin {m.event_id, m.shelter_id, m.bed_id}
SpreadOver(m) == Partition                   \* a record without a key

(* The offsets of a message in its partition. *)
Copies(p, m) == {i \in 1 .. Len(log[p]) : log[p][i] = m}

(* An event without its ids, or with a status no terminal may declare, is
   refused.  An id need not be a UUID. *)
Valid(m) ==
    /\ Empty \notin {m.event_id, m.shelter_id, m.bed_id}
    /\ m.status \in {"AVAILABLE", "OCCUPIED", "MAINTENANCE"}

NextReport(t) == Script[t][reported[t] + 1]

Call(t) ==
    /\ ~ waiting[t] /\ reported[t] < Len(Script[t])
    /\ reported' = [reported EXCEPT ![t] = @ + 1]

Refuse(t) ==
    /\ Call(t)
    /\ ~ Valid(NextReport(t))
    /\ UNCHANGED <<waiting, inFlight, accepted, log>>

(* The producer starts to send, and the handler awaits its delivery. *)
Send(t) ==
    /\ Call(t)
    /\ Valid(NextReport(t))
    /\ waiting' = [waiting EXCEPT ![t] = TRUE]
    /\ inFlight' = inFlight \cup {NextReport(t)}
    /\ UNCHANGED <<accepted, log>>

(* The partition of a key. *)
PartitionsFor(m) == {PartitionOf[m.shelter_id]}

(* The broker appends a message.  When its reply is lost, the producer's
   retry is one more message on its way. *)
Deliver(m) ==
    /\ m \in inFlight
    /\ \E p \in PartitionsFor(m) :
          /\ Cardinality(Copies(p, m)) < MaxCopies
          /\ log' = [log EXCEPT ![p] = Append(@, m)]
    /\ inFlight' \in {inFlight, inFlight \ {m}}
    /\ UNCHANGED <<reported, waiting, accepted>>

Lose(m) ==
    /\ m \in inFlight
    /\ inFlight' = inFlight \ {m}
    /\ UNCHANGED <<reported, waiting, accepted, log>>

InTopic(m) == \E p \in Partition : Copies(p, m) # {}

Answer(t) ==
    /\ waiting[t]
    /\ waiting' = [waiting EXCEPT ![t] = FALSE]
    /\ UNCHANGED <<reported, inFlight, log>>

(* The delivery report arrives and the terminal is told "accepted". *)
Accept(t) ==
    /\ Answer(t)
    /\ LET m == Script[t][reported[t]]
       IN  InTopic(m) /\ accepted' = accepted \cup {m}

(* message.timeout.ms runs out, or intake-ingestion stops: the terminal gets
   an error, and the message may still be on its way. *)
TimeOut(t) ==
    /\ Answer(t)
    /\ UNCHANGED accepted

Next ==
    \/ \E t \in Terminal : Refuse(t) \/ Send(t) \/ Accept(t) \/ TimeOut(t)
    \/ \E m \in inFlight : Deliver(m) \/ Lose(m)

=============================================================================
