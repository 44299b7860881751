-------------------------- MODULE PipelineProperties --------------------------
(***************************************************************************)
(* What the way from a terminal's report to the bed's row guarantees.      *)
(***************************************************************************)
EXTENDS EventPipeline, EngineProperties

(* The variables of the pipeline have their types, and no offset points past
   the end of its partition. *)
PipelineTypeOK ==
    /\ reported \in [Terminal -> Nat]
    /\ waiting \in [Terminal -> BOOLEAN]
    /\ inFlight \subseteq Message
    /\ accepted \subseteq Message
    /\ log \in [Partition -> Seq(Message)]
    /\ committed \in [Partition -> Nat]
    /\ position \in [Partition -> Nat]
    /\ owner \in [Partition -> Consumer]
    /\ source \in [Consumer -> (Partition \X Nat) \cup {NoSource}]
    /\ \A p \in Partition : committed[p] <= Len(log[p])
                              /\ position[p] <= Len(log[p])
    /\ \A c \in Consumer : source[c] # NoSource =>
          source[c][2] \in 1 .. Len(log[source[c][1]])

(* The consumers only ever show the engine's database what the topic may hold:
   fed by terminals, producer retries, rebalances and restarts, the engine is
   the one its own specification describes, and all its invariants hold. *)
EngineSpec == Spec

(* A message has had its effect, or never will have one: it does not parse, no
   bed has its id, it is in the ledger, or the bed has moved on. *)
Handled(m) ==
    \/ ~ Parses(m)
    \/ m.bed_id \notin Bed
    \/ EventOf(m) \in appliedEvents
    \/ m.sequence <= lastSeq[m.bed_id]

(* No message below a committed offset has been left out, whatever failed and
   was redelivered, lost or moved to another consumer: the high-water mark
   never passes one that is still to be applied. *)
CommittedHandled ==
    \A p \in Partition : \A i \in 1 .. committed[p] :
        Handled(log[p][i])

(* A report that was answered "accepted" is never thrown away as stale: the
   key keeps a bed's reports in one partition, in the order of the answers, so
   that once the offset has passed a message it is in the ledger. *)
AcceptedApplied ==
    \A m \in accepted : Parses(m) /\ m.bed_id \in Bed =>
        \A p \in Partition : \A i \in In!Copies(p, m) :
            i <= committed[p] => EventOf(m) \in appliedEvents

Reported == UNION {{Script[t][i] : i \in 1 .. reported[t]} : t \in Terminal}

(* Nothing is made up on the way: what is applied was reported, and with the
   status the terminal declared, never with one that stands for "unset". *)
NothingMadeUp ==
    \A e \in appliedEvents : \E m \in Reported :
        /\ EventOf(m) = e
        /\ BedStatusToProto[BedStatusFromProto[m.status]] = m.status

CaughtUp == /\ AtRest
            /\ \A p \in Partition : committed[p] = Len(log[p])

(* Every report answered "accepted" takes effect in the end. *)
AcceptedTakesEffect ==
    \A m \in Message : m \in accepted ~> Handled(m)

=============================================================================
