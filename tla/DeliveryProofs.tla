--------------------------- MODULE DeliveryProofs ---------------------------
(***************************************************************************)
(* What is reported, is applied: nothing else is, and no report that was   *)
(* answered "accepted" is thrown away as stale, for any scripts of the     *)
(* terminals, any number of copies of a message and any faults; and a bed  *)
(* that an event has freed is offered to those who wait for it.            *)
(***************************************************************************)
EXTENDS PipelineProofs, AllocationProofs, PipelineHistory

-----------------------------------------------------------------------------
(* The inductive invariant, part by part. *)

(* The topic holds what terminals have reported, each message in the partition
   of its key, and everything that was accepted. *)
TopicReported ==
    /\ \A t \in Terminal : /\ reported[t] <= Len(Script[t])
                           /\ waiting[t] => reported[t] > 0
    /\ inFlight \subseteq Reported
    /\ \A p \in Partition : \A i \in 1 .. Len(log[p]) :
          log[p][i] \in Reported /\ p \in In!PartitionsFor(log[p][i])
    /\ \A m \in accepted :
          \E p \in Partition : \E f \in 1 .. Len(log[p]) : log[p][f] = m

(* A later report of a terminal is behind every earlier one it had accepted. *)
InOrder ==
    \A t \in Terminal : \A i, j \in 1 .. Len(Script[t]) :
        /\ i < j /\ Script[t][i] \in accepted
        /\ Script[t][i].bed_id = Script[t][j].bed_id
        => \A p \in Partition : \A g \in 1 .. Len(log[p]) :
              log[p][g] = Script[t][j] =>
                  \E f \in 1 .. g - 1 : log[p][f] = Script[t][i]

(* What is in the ledger was reported, and a bed's last sequence number is the
   one of an event in the ledger. *)
LedgerReported ==
    /\ \A e \in appliedEvents :
          \E m \in Reported : In!Valid(m) /\ EventOf(m) = e
    /\ \A b \in Bed : lastSeq[b] = 0 \/
          \E e \in appliedEvents : e.bed_id = b /\ e.sequence = lastSeq[b]

(* A bed does not move on before an accepted report. *)
NotOvertaken ==
    \A m \in accepted : Parses(m) /\ m.bed_id \in Bed =>
        EventOf(m) \in appliedEvents \/ lastSeq[m.bed_id] < m.sequence

DInv == TopicReported /\ InOrder /\ LedgerReported /\ NotOvertaken

-----------------------------------------------------------------------------
LEMMA InReported ==
    \A m : m \in Reported <=>
              \E t \in Terminal : \E i \in 1 .. reported[t] : m = Script[t][i]
BY DEF Reported

LEMMA InReportedNext ==
    \A m : m \in Reported' <=>
              \E t \in Terminal : \E i \in 1 .. reported'[t] : m = Script[t][i]
BY DEF Reported

(* Two reports about one bed are of one terminal, which numbers them in the
   order it makes them. *)
LEMMA SameBed ==
    ASSUME PipelineTypeOK, TopicReported,
           NEW t \in Terminal, NEW i \in 1 .. Len(Script[t]),
           NEW x \in Reported, x.bed_id = Script[t][i].bed_id
    PROVE  \E j \in 1 .. reported[t] :
              /\ j \in 1 .. Len(Script[t]) /\ x = Script[t][j]
              /\ x.shelter_id = Script[t][i].shelter_id
              /\ i < j => Script[t][i].sequence < x.sequence
              /\ j < i => x.sequence < Script[t][i].sequence
<1>1. PICK u \in Terminal : \E j \in 1 .. reported[u] : x = Script[u][j]
  BY InReported
<1>2. PICK j \in 1 .. reported[u] : x = Script[u][j]
  BY <1>1
<1>3. j \in 1 .. Len(Script[u])
  <2>1. reported[u] \in Nat /\ reported[u] <= Len(Script[u])
    BY DEF PipelineTypeOK, TopicReported
  <2>2. Len(Script[u]) \in Nat
    BY TerminalAssumption
  <2> QED
    BY <2>1, <2>2
<1>4. u = t /\ x.shelter_id = Script[t][i].shelter_id
  BY <1>2, <1>3, SequenceAssumption
<1> QED
  BY <1>2, <1>3, <1>4, SequenceAssumption

LEMMA AcceptedBefore ==
    ASSUME InOrder, NEW t \in Terminal,
           NEW i \in 1 .. Len(Script[t]), NEW j \in 1 .. Len(Script[t]),
           i < j, Script[t][i] \in accepted,
           Script[t][i].bed_id = Script[t][j].bed_id,
           NEW p \in Partition, NEW g \in 1 .. Len(log[p]),
           log[p][g] = Script[t][j]
    PROVE  \E f \in 1 .. g - 1 : log[p][f] = Script[t][i]
BY DEF InOrder

LEMMA InitDInv == PipelineInit => DInv
<1> SUFFICES ASSUME PipelineInit PROVE DInv
  OBVIOUS
<1> USE DEF PipelineInit, In!Init
<1>1. TopicReported
  <2>1. \A t \in Terminal : Len(Script[t]) \in Nat
    BY TerminalAssumption
  <2> QED
    BY <2>1 DEF TopicReported
<1>2. InOrder
  BY DEF InOrder
<1>3. LedgerReported
  BY DEF LedgerReported, Init
<1>4. NotOvertaken
  BY DEF NotOvertaken
<1> QED
  BY <1>1, <1>2, <1>3, <1>4 DEF DInv

-----------------------------------------------------------------------------
(* Terminals, intake-ingestion and the producer: tables and offsets stay. *)

(* A terminal's call adds its report to the reported ones. *)
LEMMA CallReports ==
    ASSUME PInv, TopicReported, NEW t \in Terminal, In!Call(t)
    PROVE  /\ Reported \subseteq Reported'
           /\ In!NextReport(t) \in Reported'
           /\ \A u \in Terminal : /\ reported'[u] <= Len(Script[u])
                                  /\ reported[u] > 0 => reported'[u] > 0
           /\ reported'[t] > 0
<1>1. /\ reported \in [Terminal -> Nat]
      /\ reported' = [reported EXCEPT ![t] = @ + 1]
      /\ reported[t] < Len(Script[t]) /\ Len(Script[t]) \in Nat
  BY TerminalAssumption DEF In!Call, PInv, PipelineTypeOK
<1>2. \A u \in Terminal : /\ reported[u] \in Nat /\ reported'[u] \in Nat
                          /\ reported[u] <= reported'[u]
  BY <1>1
<1>3. Reported \subseteq Reported'
  BY <1>2, InReported, InReportedNext
<1>4. reported[t] + 1 \in 1 .. reported'[t]
  BY <1>1
<1>5. In!NextReport(t) \in Reported'
  BY <1>4, InReportedNext DEF In!NextReport
<1>6. \A u \in Terminal : /\ reported'[u] <= Len(Script[u])
                          /\ reported[u] > 0 => reported'[u] > 0
  BY <1>1, <1>2 DEF TopicReported
<1>7. reported'[t] > 0
  BY <1>1
<1> QED
  BY <1>3, <1>5, <1>6, <1>7

(* More reports keep the ledger accounted for. *)
LEMMA LedgerKept ==
    ASSUME LedgerReported, UNCHANGED <<lastSeq, appliedEvents>>,
           Reported \subseteq Reported'
    PROVE  LedgerReported'
BY DEF LedgerReported

LEMMA CallKeepsDInv ==
    ASSUME PInv, DInv, UNCHANGED vars, NEW t \in Terminal,
           In!Refuse(t) \/ In!Send(t)
    PROVE  DInv'
<1>1. /\ In!Call(t) /\ UNCHANGED <<accepted, log>>
      /\ inFlight' = inFlight \/ inFlight' = inFlight \cup {In!NextReport(t)}
      /\ waiting' = waiting \/ waiting' = [waiting EXCEPT ![t] = TRUE]
  BY DEF In!Refuse, In!Send
<1>2. /\ Reported \subseteq Reported'
      /\ In!NextReport(t) \in Reported'
      /\ \A u \in Terminal : /\ reported'[u] <= Len(Script[u])
                             /\ reported[u] > 0 => reported'[u] > 0
      /\ reported'[t] > 0
  BY <1>1, CallReports DEF DInv
<1>3. TopicReported'
  <2>1. ASSUME NEW u \in Terminal, waiting'[u] PROVE reported'[u] > 0
    <3>1. CASE u = t
      BY <1>2, <3>1
    <3>2. CASE u # t
      <4>1. waiting'[u] = waiting[u]
        BY <1>1, <3>2 DEF PInv, PipelineTypeOK
      <4>2. reported[u] > 0
        BY <2>1, <4>1 DEF DInv, TopicReported
      <4> QED
        BY <1>2, <4>2
    <3> QED
      BY <3>1, <3>2
  <2>2. inFlight' \subseteq Reported'
    BY <1>1, <1>2 DEF DInv, TopicReported
  <2>3. \A p \in Partition : \A i \in 1 .. Len(log[p]) :
            /\ log[p][i] \in Reported'
            /\ p = PartitionOf[log[p][i].shelter_id]
    BY <1>2 DEF DInv, TopicReported, In!PartitionsFor
  <2> QED
    BY <1>1, <1>2, <2>1, <2>2, <2>3 DEF DInv, TopicReported, In!PartitionsFor
<1>4. InOrder'
  <2>1. accepted' = accepted /\ log' = log
    BY <1>1
  <2> QED
    BY <2>1 DEF DInv, InOrder
<1>5. LedgerReported'
  BY <1>2, LedgerKept DEF DInv, vars
<1>6. NotOvertaken'
  BY <1>1 DEF DInv, NotOvertaken, vars
<1> QED
  BY <1>3, <1>4, <1>5, <1>6 DEF DInv

(* A record is lost, or an answer: nothing is accepted and nothing appended. *)
LEMMA LossKeepsDInv ==
    ASSUME DInv, UNCHANGED vars, inFlight' \subseteq inFlight,
           UNCHANGED <<reported, accepted, log>>,
           \A t \in Terminal : waiting'[t] => waiting[t]
    PROVE  DInv'
<1>1. Reported' = Reported
  BY DEF Reported
<1>2. TopicReported'
  BY <1>1 DEF DInv, TopicReported, In!PartitionsFor
<1>3. InOrder'
  BY DEF DInv, InOrder
<1>4. LedgerReported'
  BY <1>1, LedgerKept DEF DInv, vars
<1>5. NotOvertaken'
  BY DEF DInv, NotOvertaken, vars
<1> QED
  BY <1>2, <1>3, <1>4, <1>5 DEF DInv

(* The terminal is told "accepted".  It has made no later report, so that none
   of them is in the topic or in the ledger. *)
LEMMA AcceptKeepsDInv ==
    ASSUME PInv, DInv, UNCHANGED vars, NEW t \in Terminal, In!Accept(t)
    PROVE  DInv'
<1> DEFINE k == reported[t]
           m == Script[t][reported[t]]
<1>1. /\ UNCHANGED <<reported, inFlight, log>>
      /\ waiting[t] /\ waiting' = [waiting EXCEPT ![t] = FALSE]
      /\ accepted' = accepted \cup {m}
      /\ \E p \in Partition : \E f \in 1 .. Len(log[p]) : log[p][f] = m
  BY DEF In!Accept, In!Answer, In!InTopic, In!Copies
<1>2. Reported' = Reported
  BY <1>1 DEF Reported
<1>3. k \in 1 .. Len(Script[t])
  <2>1. Len(Script[t]) \in Nat /\ k \in Nat
    BY TerminalAssumption DEF PInv, PipelineTypeOK
  <2> QED
    BY <1>1, <2>1 DEF DInv, TopicReported
<1>4. TopicReported'
  <2>1. \A u \in Terminal : waiting'[u] => waiting[u]
    BY <1>1 DEF PInv, PipelineTypeOK
  <2> QED
    BY <1>1, <1>2, <2>1 DEF DInv, TopicReported, In!PartitionsFor
<1>5. ASSUME NEW x \in Reported, x.bed_id = m.bed_id
      PROVE  x = m \/ (x.sequence < m.sequence /\ x # m)
  <2>1. PICK j \in 1 .. k :
            /\ j \in 1 .. Len(Script[t]) /\ x = Script[t][j]
            /\ j < k => x.sequence < m.sequence
    BY <1>3, <1>5, SameBed DEF DInv, PInv
  <2>2. j = k \/ j < k
    BY <1>3, <2>1
  <2>3. m \in Message /\ m.sequence \in Nat
    BY <1>3, TerminalAssumption, SequenceAssumption
  <2> QED
    BY <2>1, <2>2, <2>3
<1>6. InOrder'
  <2>1. SUFFICES ASSUME NEW u \in Terminal, NEW i \in 1 .. Len(Script[u]),
                        NEW j \in 1 .. Len(Script[u]),
                        i < j, Script[u][i] \in accepted',
                        Script[u][i].bed_id = Script[u][j].bed_id,
                        NEW p \in Partition, NEW g \in 1 .. Len(log[p]),
                        log[p][g] = Script[u][j]
                 PROVE  \E f \in 1 .. g - 1 : log[p][f] = Script[u][i]
    BY <1>1 DEF InOrder
  <2>2. CASE Script[u][i] \in accepted
    BY <2>1, <2>2 DEF DInv, InOrder
  <2>3. CASE Script[u][i] = m
    <3>1. Script[u][j] \in Reported
      BY <2>1 DEF DInv, TopicReported
    <3>2. ~ (m.sequence < Script[u][j].sequence)
      <4>1. m.sequence \in Nat
        BY <1>3, TerminalAssumption, SequenceAssumption
      <4>2. Script[u][j].sequence \in Nat
        BY TerminalAssumption, SequenceAssumption
      <4>3. Script[u][j].bed_id = m.bed_id
        BY <2>1, <2>3
      <4>4. Script[u][j] = m \/ Script[u][j].sequence < m.sequence
        BY <1>5, <3>1, <4>3
      <4> QED
        BY <4>1, <4>2, <4>4
    <3>3. Script[u][i].sequence < Script[u][j].sequence
      BY <2>1, SequenceAssumption
    <3> QED
      BY <2>3, <3>2, <3>3
  <2> QED
    BY <1>1, <2>1, <2>2, <2>3
<1>7. LedgerReported'
  BY <1>2, LedgerKept DEF DInv, vars
<1>8. NotOvertaken'
  <2>1. ASSUME m.bed_id \in Bed
        PROVE  EventOf(m) \in appliedEvents \/ lastSeq[m.bed_id] < m.sequence
    <3>1. m.sequence \in Nat \ {0}
      BY <1>3, TerminalAssumption, SequenceAssumption
    <3>2. CASE lastSeq[m.bed_id] = 0
      BY <3>1, <3>2
    <3>3. ASSUME NEW e \in appliedEvents, e.bed_id = m.bed_id,
                 e.sequence = lastSeq[m.bed_id]
          PROVE  EventOf(m) \in appliedEvents \/ lastSeq[m.bed_id] < m.sequence
      <4>1. PICK x \in Reported : EventOf(x) = e
        BY DEF DInv, LedgerReported
      <4>2. x.bed_id = m.bed_id /\ x.sequence = lastSeq[m.bed_id]
        BY <3>3, <4>1 DEF EventOf
      <4>3. x = m \/ x.sequence < m.sequence
        BY <1>5, <4>2
      <4> QED
        BY <4>1, <4>2, <4>3
    <3> QED
      BY <2>1, <3>2, <3>3 DEF DInv, LedgerReported
  <2> QED
    BY <1>1, <2>1 DEF DInv, NotOvertaken, vars
<1> QED
  BY <1>4, <1>6, <1>7, <1>8 DEF DInv

(* A message is appended to the partition of its key, behind the reports its
   terminal had accepted before it. *)
LEMMA DeliverKeepsDInv ==
    ASSUME PInv, DInv, UNCHANGED vars, NEW m \in inFlight, In!Deliver(m)
    PROVE  DInv'
<1>1. PICK p \in In!PartitionsFor(m) : log' = [log EXCEPT ![p] = Append(@, m)]
  BY DEF In!Deliver
<1>2. inFlight' \subseteq inFlight /\ UNCHANGED <<reported, waiting, accepted>>
  BY DEF In!Deliver
<1>3. m \in Message /\ In!Valid(m) /\ m \in Reported
  BY DEF PInv, PipelineTypeOK, TopicValid, DInv, TopicReported
<1>4. p = PartitionOf[m.shelter_id] /\ p \in Partition
  BY <1>1, <1>3, TerminalAssumption DEF In!PartitionsFor, In!Valid
<1>5. log \in [Partition -> Seq(Message)]
  BY DEF PInv, PipelineTypeOK
<1>6. /\ Len(log'[p]) = Len(log[p]) + 1 /\ Len(log[p]) \in Nat
      /\ \A i \in 1 .. Len(log[p]) : log'[p][i] = log[p][i]
      /\ log'[p][Len(log[p]) + 1] = m
  <2>1. log'[p] = Append(log[p], m) /\ log[p] \in Seq(Message)
    BY <1>1, <1>4, <1>5
  <2> QED
    BY <1>3, <2>1, AppendProperties
<1>7. \A q \in Partition : q # p => log'[q] = log[q]
  BY <1>1, <1>5
<1>8. Reported' = Reported
  BY <1>2 DEF Reported
<1>9. TopicReported'
  <2>1. ASSUME NEW q \in Partition, NEW i \in 1 .. Len(log'[q])
        PROVE  /\ log'[q][i] \in Reported
               /\ q = PartitionOf[log'[q][i].shelter_id]
    <3>1. CASE q = p /\ i = Len(log[p]) + 1
      BY <1>3, <1>4, <1>6, <3>1
    <3>2. CASE ~ (q = p /\ i = Len(log[p]) + 1)
      <4>1. i \in 1 .. Len(log[q]) /\ log'[q][i] = log[q][i]
        BY <1>6, <1>7, <3>2
      <4> QED
        BY <4>1 DEF DInv, TopicReported, In!PartitionsFor
    <3> QED
      BY <3>1, <3>2
  <2>2. ASSUME NEW x \in accepted
        PROVE  \E q \in Partition : \E f \in 1 .. Len(log'[q]) : log'[q][f] = x
    <3>1. PICK q \in Partition : \E f \in 1 .. Len(log[q]) : log[q][f] = x
      BY DEF DInv, TopicReported
    <3>2. PICK f \in 1 .. Len(log[q]) : log[q][f] = x
      BY <3>1
    <3>3. f \in 1 .. Len(log'[q]) /\ log'[q][f] = x
      BY <1>6, <1>7, <3>2
    <3> QED
      BY <3>3
  <2> QED
    BY <1>2, <1>8, <2>1, <2>2 DEF DInv, TopicReported, In!PartitionsFor
<1>10. InOrder'
  <2>1. SUFFICES ASSUME NEW u \in Terminal, NEW i \in 1 .. Len(Script[u]),
                        NEW j \in 1 .. Len(Script[u]),
                        i < j, Script[u][i] \in accepted,
                        Script[u][i].bed_id = Script[u][j].bed_id,
                        NEW q \in Partition, NEW g \in 1 .. Len(log'[q]),
                        log'[q][g] = Script[u][j]
                 PROVE  \E f \in 1 .. g - 1 : log'[q][f] = Script[u][i]
    BY <1>2 DEF InOrder
  <2>2. CASE q = p /\ g = Len(log[p]) + 1
    <3>1. PICK r \in Partition :
              \E f \in 1 .. Len(log[r]) : log[r][f] = Script[u][i]
      BY <2>1 DEF DInv, TopicReported
    <3>2. PICK f \in 1 .. Len(log[r]) : log[r][f] = Script[u][i]
      BY <3>1
    <3>3. r = PartitionOf[Script[u][i].shelter_id]
      BY <3>2 DEF DInv, TopicReported, In!PartitionsFor
    <3>4. Script[u][i].shelter_id = Script[u][j].shelter_id
      BY <2>1, SequenceAssumption
    <3>5. Script[u][j] = m
      BY <1>6, <2>1, <2>2
    <3>6. r = p
      BY <1>4, <3>3, <3>4, <3>5
    <3>7. f \in 1 .. g - 1 /\ log'[q][f] = Script[u][i]
      BY <1>6, <2>2, <3>2, <3>6
    <3> QED
      BY <3>7
  <2>3. CASE ~ (q = p /\ g = Len(log[p]) + 1)
    <3>1. g \in 1 .. Len(log[q]) /\ log'[q][g] = log[q][g]
      BY <1>6, <1>7, <2>3
    <3>2. PICK f \in 1 .. g - 1 : log[q][f] = Script[u][i]
      <4>1. InOrder
        BY DEF DInv
      <4>2. log[q][g] = Script[u][j]
        BY <2>1, <3>1
      <4> QED
        BY <2>1, <3>1, <4>1, <4>2, AcceptedBefore
    <3>3. g \in Nat /\ Len(log[q]) \in Nat
      BY <1>5, <3>1
    <3>4. f \in 1 .. Len(log[q])
      BY <3>1, <3>3
    <3>5. log'[q][f] = log[q][f]
      BY <1>6, <1>7, <3>4
    <3> QED
      BY <3>2, <3>5
  <2> QED
    BY <2>2, <2>3
<1>11. LedgerReported'
  BY <1>8, LedgerKept DEF DInv, vars
<1>12. NotOvertaken'
  BY <1>2 DEF DInv, NotOvertaken, vars
<1> QED
  BY <1>9, <1>10, <1>11, <1>12 DEF DInv

-----------------------------------------------------------------------------
(* The engine and the consumer group: terminals and topic stay. *)

(* An accepted report is one of a terminal's script. *)
LEMMA AcceptedScript ==
    ASSUME PInv, DInv, NEW m \in accepted
    PROVE  \E t \in Terminal : \E i \in 1 .. Len(Script[t]) : m = Script[t][i]
<1>1. m \in Reported
  BY DEF DInv, TopicReported
<1>2. PICK t \in Terminal : \E i \in 1 .. reported[t] : m = Script[t][i]
  BY <1>1, InReported
<1>3. PICK i \in 1 .. reported[t] : m = Script[t][i]
  BY <1>2
<1>4. reported[t] \in Nat /\ reported[t] <= Len(Script[t]) /\ Len(Script[t]) \in Nat
  BY TerminalAssumption DEF PInv, PipelineTypeOK, DInv, TopicReported
<1> QED
  BY <1>3, <1>4

(* When a consumer applies a message, every accepted report of its bed that
   comes before it is in the ledger: it is below the message in the log. *)
LEMMA ApplyOvertakesNobody ==
    ASSUME IInv, PInv, DInv, NEW c \in Consumer, pc[c] = "apply",
           ApplyWrites(current[c]),
           NEW m \in accepted, Parses(m), m.bed_id = current[c].bed_id,
           EventOf(m) \notin appliedEvents'
    PROVE  current[c].sequence < m.sequence
<1>1. PICK x \in Message :
          /\ log[source[c][1]][source[c][2]] = x
          /\ In!Valid(x) /\ Parses(x) /\ current[c] = EventOf(x)
  BY DEF PInv, HandlesItsMessage
<1>2. /\ x.bed_id = current[c].bed_id /\ x.sequence = current[c].sequence
      /\ EventOf(x) \in appliedEvents' /\ m.bed_id \in Bed
      /\ appliedEvents \subseteq appliedEvents'
  BY <1>1 DEF EventOf, ApplyWrites, KnownBed
<1> DEFINE p == source[c][1]
           g == source[c][2]
<1>3. source[c] # NoSource /\ p \in Partition /\ g \in 1 .. Len(log[p])
  BY Pointers DEF PInv, HandlesItsMessage
<1>4. x \in Reported
  BY <1>1, <1>3 DEF DInv, TopicReported
<1>5. PICK t \in Terminal : \E i \in 1 .. Len(Script[t]) : m = Script[t][i]
  BY AcceptedScript
<1>6. PICK i \in 1 .. Len(Script[t]) : m = Script[t][i]
  BY <1>5
<1>7. PICK j \in 1 .. Len(Script[t]) :
          /\ x = Script[t][j]
          /\ j < i => x.sequence < m.sequence
  BY <1>2, <1>4, <1>6, SameBed DEF PInv, DInv
<1>8. j # i
  BY <1>2, <1>6, <1>7
<1>9. ~ (i < j)
  <2>1. SUFFICES ASSUME i < j PROVE FALSE
    OBVIOUS
  <2>2. PICK f \in 1 .. g - 1 : log[p][f] = m
    <3>1. Script[t][i].bed_id = Script[t][j].bed_id /\ log[p][g] = Script[t][j]
      BY <1>1, <1>2, <1>6, <1>7
    <3>2. InOrder /\ Script[t][i] \in accepted
      BY <1>6 DEF DInv
    <3>3. \E f \in 1 .. g - 1 : log[p][f] = Script[t][i]
      BY <1>3, <2>1, <3>1, <3>2, AcceptedBefore
    <3> QED
      BY <1>6, <3>3
  <2>3. m \in Effected
    BY <1>3, <2>2 DEF PInv, NothingSkipped
  <2>4. m.sequence <= lastSeq[m.bed_id]
    BY <1>2, <2>3 DEF Effected, Handled
  <2>5. lastSeq[m.bed_id] < m.sequence
    BY <1>2 DEF DInv, NotOvertaken
  <2>6. lastSeq[m.bed_id] \in Int /\ m.sequence \in Int
    BY <1>2, <2>3, SequenceAssumption DEF IInv, Typed, TypeOK, Effected
  <2> QED
    BY <2>4, <2>5, <2>6
<1>10. i \in Nat /\ j \in Nat
  BY TerminalAssumption
<1> QED
  BY <1>2, <1>7, <1>8, <1>9, <1>10

(* The event that is applied was reported by a terminal. *)
LEMMA ApplyOfReported ==
    ASSUME PInv, DInv, NEW c \in Consumer, pc[c] = "apply"
    PROVE  \E m \in Reported : In!Valid(m) /\ EventOf(m) = current[c]
<1>1. PICK x \in Message :
          /\ log[source[c][1]][source[c][2]] = x
          /\ In!Valid(x) /\ current[c] = EventOf(x)
  BY DEF PInv, HandlesItsMessage
<1>2. source[c] # NoSource
  BY DEF PInv, HandlesItsMessage
<1>3. x \in Reported
  BY <1>1, <1>2, Pointers DEF DInv, TopicReported
<1> QED
  BY <1>1, <1>3

LEMMA EngineKeepsDInv ==
    ASSUME IInv, PInv, DInv, [Next]_vars, UNCHANGED intakeVars
    PROVE  DInv'
<1>1. UNCHANGED <<reported, waiting, inFlight, accepted, log>>
  BY DEF intakeVars
<1>2. Reported' = Reported
  BY <1>1 DEF Reported
<1>3. TopicReported'
  BY <1>1, <1>2 DEF DInv, TopicReported, In!PartitionsFor
<1>4. InOrder'
  BY <1>1 DEF DInv, InOrder
<1>5. CASE UNCHANGED <<lastSeq, appliedEvents>>
  <2>1. LedgerReported'
    BY <1>2, <1>5, LedgerKept DEF DInv
  <2>2. NotOvertaken'
    BY <1>1, <1>5 DEF DInv, NotOvertaken
  <2> QED
    BY <1>3, <1>4, <2>1, <2>2 DEF DInv
<1>6. ASSUME NEW c \in Consumer, pc[c] = "apply", ApplyWrites(current[c])
      PROVE  DInv'
  <2> DEFINE e == current[c]
  <2>1. /\ e.bed_id \in Bed
        /\ lastSeq \in [Bed -> Int]
        /\ lastSeq' = [lastSeq EXCEPT ![e.bed_id] = e.sequence]
        /\ appliedEvents' = appliedEvents \cup {e}
    BY <1>6 DEF ApplyWrites, KnownBed, IInv, Typed, TypeOK
  <2>2. /\ lastSeq'[e.bed_id] = e.sequence
        /\ \A b \in Bed : b # e.bed_id => lastSeq'[b] = lastSeq[b]
    BY <2>1
  <2>3. LedgerReported'
    <3>1. PICK x \in Reported : In!Valid(x) /\ EventOf(x) = e
      BY <1>6, ApplyOfReported
    <3>2. \A d \in appliedEvents' :
             \E m \in Reported : In!Valid(m) /\ EventOf(m) = d
      BY <2>1, <3>1 DEF DInv, LedgerReported
    <3>3. ASSUME NEW b \in Bed
          PROVE  lastSeq'[b] = 0 \/ \E d \in appliedEvents' :
                     d.bed_id = b /\ d.sequence = lastSeq'[b]
      BY <2>1, <2>2 DEF DInv, LedgerReported
    <3> QED
      BY <1>2, <3>2, <3>3 DEF LedgerReported
  <2>4. NotOvertaken'
    <3>1. SUFFICES ASSUME NEW m \in accepted, Parses(m), m.bed_id \in Bed,
                          EventOf(m) \notin appliedEvents'
                   PROVE  lastSeq'[m.bed_id] < m.sequence
      BY <1>1 DEF NotOvertaken
    <3>2. CASE m.bed_id = e.bed_id
      <4>1. e.sequence < m.sequence
        BY <1>6, <3>1, <3>2, ApplyOvertakesNobody
      <4> QED
        BY <2>2, <3>2, <4>1
    <3>3. CASE m.bed_id # e.bed_id
      <4>1. EventOf(m) \notin appliedEvents
        BY <2>1, <3>1
      <4>2. lastSeq[m.bed_id] < m.sequence
        BY <3>1, <4>1 DEF DInv, NotOvertaken
      <4> QED
        BY <2>2, <3>1, <3>3, <4>2
    <3> QED
      BY <3>2, <3>3
  <2> QED
    BY <1>3, <1>4, <2>3, <2>4 DEF DInv
<1> QED
  BY <1>5, <1>6, OnlyApplyWrites DEF IInv

-----------------------------------------------------------------------------
LEMMA NextDInv == IInv /\ PInv /\ DInv /\ [PipelineNext]_pipelineVars => DInv'
<1> SUFFICES ASSUME IInv, PInv, DInv, [PipelineNext]_pipelineVars
             PROVE  DInv'
  OBVIOUS
<1>1. CASE IntakeStep
  <2>1. In!Next /\ UNCHANGED vars
    BY <1>1 DEF IntakeStep
  <2>2. ASSUME NEW t \in Terminal, In!Refuse(t) \/ In!Send(t) PROVE DInv'
    BY <2>1, <2>2, CallKeepsDInv
  <2>3. ASSUME NEW t \in Terminal, In!Accept(t) PROVE DInv'
    BY <2>1, <2>3, AcceptKeepsDInv
  <2>4. ASSUME NEW t \in Terminal, In!TimeOut(t) PROVE DInv'
    <3>1. /\ waiting' = [waiting EXCEPT ![t] = FALSE]
          /\ UNCHANGED <<reported, inFlight, accepted, log>>
      BY <2>4 DEF In!TimeOut, In!Answer
    <3>2. \A u \in Terminal : waiting'[u] => waiting[u]
      BY <3>1 DEF PInv, PipelineTypeOK
    <3> QED
      BY <2>1, <3>1, <3>2, LossKeepsDInv
  <2>5. ASSUME NEW m \in inFlight, In!Deliver(m) PROVE DInv'
    BY <2>1, <2>5, DeliverKeepsDInv
  <2>6. ASSUME NEW m \in inFlight, In!Lose(m) PROVE DInv'
    BY <2>1, <2>6, LossKeepsDInv DEF In!Lose
  <2> QED
    BY <2>1, <2>2, <2>3, <2>4, <2>5, <2>6 DEF In!Next
<1>2. CASE ~ IntakeStep
  <2>1. UNCHANGED intakeVars
    BY <1>2 DEF PipelineNext, EngineStep, StatementFails, Poll, SkipMalformed,
                Fetch, Finish, Rebalance, Restart, pipelineVars
  <2> QED
    BY <2>1, StepMapped, EngineKeepsDInv
<1> QED
  BY <1>1, <1>2

LEMMA DeliverySafety == PipelineSpec => []DInv
<1>1. DInv /\ (IInv /\ PInv /\ [PipelineNext]_pipelineVars) => DInv'
  BY NextDInv
<1> QED
  BY <1>1, InitDInv, EngineSafe, PipelineSafety, PTL DEF PipelineSpec

(* An accepted report that a committed offset has passed is in the ledger,
   unless it can not be parsed or names no bed: it was not lost, and no later
   report of its bed was applied first and made it stale. *)
THEOREM AcceptedAlwaysApplied == PipelineSpec => []AcceptedApplied
<1>1. ASSUME IInv, PInv, DInv PROVE AcceptedApplied
  <2>1. SUFFICES ASSUME NEW m \in accepted, Parses(m), m.bed_id \in Bed,
                        NEW p \in Partition, NEW i \in In!Copies(p, m),
                        i <= committed[p]
                 PROVE  EventOf(m) \in appliedEvents
    BY DEF AcceptedApplied
  <2>2. /\ i \in 1 .. committed[p] /\ log[p][i] = m
        /\ m \in Message
    <3>1. i \in 1 .. Len(log[p]) /\ log[p][i] = m
      BY DEF In!Copies
    <3>2. Len(log[p]) \in Nat /\ committed[p] \in Nat /\ m \in Message
      BY <1>1, <3>1, Pointers
    <3> QED
      BY <2>1, <3>1, <3>2
  <2>3. m \in Effected
    BY <1>1, <2>2 DEF PInv, NothingSkipped
  <2>4. m.sequence \in Int /\ lastSeq[m.bed_id] \in Int
    BY <1>1, <2>1, <2>2, SequenceAssumption DEF IInv, Typed, TypeOK
  <2> QED
    BY <1>1, <2>1, <2>3, <2>4 DEF Effected, Handled, DInv, NotOvertaken
<1> QED
  BY <1>1, EngineSafe, PipelineSafety, DeliverySafety, PTL

(* Everything in the ledger is a terminal's report, with the status it
   declared. *)
THEOREM NothingEverMadeUp == PipelineSpec => []NothingMadeUp
<1>1. ASSUME DInv PROVE NothingMadeUp
  <2>1. ASSUME NEW m, In!Valid(m)
        PROVE  BedStatusToProto[BedStatusFromProto[m.status]] = m.status
    BY <2>1 DEF In!Valid, BedStatusToProto, BedStatusFromProto
  <2> QED
    BY <1>1, <2>1 DEF DInv, LedgerReported, NothingMadeUp
<1> QED
  BY <1>1, DeliverySafety, PTL

-----------------------------------------------------------------------------
(* A bed that stands empty is served.  The inductive invariant, to be used with
   IInv, AllocationInv and PInv. *)

(* The offset of the group, wherever a consumer stands or starts again, has yet
   to pass message j of partition p, one about bed b that is settled; and whoever
   is handling it will offer the bed to r, or to one before it. *)
PassOwed(p, j, b, r) ==
    /\ Parses(log[p][j]) /\ log[p][j].bed_id = b /\ log[p][j] \in Effected
    /\ committed[p] < j
    /\ position[p] < j \/ source[owner[p]] = <<p, j>>
    /\ \A c \in Consumer : source[c] # NoSource /\ source[c][1] = p =>
          \/ source[c][2] < j
          \/ source[c][2] = j /\ PassDue(c, b, r)

NobodyLost ==
    \A b \in Bed, r \in Referral : Waits(b, r) =>
        \E p \in Partition : \E j \in 1 .. Len(log[p]) : PassOwed(p, j, b, r)

(* For a message about a bed, to have had its effect is to be settled. *)
LEMMA EffectedSettles ==
    ASSUME NEW m \in Message, In!Valid(m), Parses(m), m.bed_id \in Bed
    PROVE  m \in Effected <=> Settles(EventOf(m))
BY DEF Effected, Handled, Settles, EventOf

(* After a crash no bed stands empty before a referral that was not before: the
   call of a referral that is searching fails with it, and one for which an
   award of another bed is rolled back has missed the bed. *)
LEMMA CrashForgetsNobody ==
    ASSUME IInv, Crash, Remember, NEW b \in Bed, NEW r \in Referral,
           Waits(b, r)'
    PROVE  Waits(b, r)
<1>1. /\ UNCHANGED tables /\ tries' = tries /\ r \in Proc /\ r \notin Consumer
      /\ pc'[r] = IF pc[r] = "new" THEN "new" ELSE "done"
      /\ answer'[r] = IF pc[r] \in {"new", "done"} THEN answer[r] ELSE Failed
      /\ \A q \in Proc : pc'[q] # "write"
  BY ProcKinds DEF Crash
<1>2. /\ bedStatus[b] = "available" /\ r \in PendingFor(b) /\ r \notin missed'[b]
      /\ ~ GivenUp(r)' /\ pc'[r] \in {"resolve", "done"}
  BY <1>1 DEF Waits, Stranded, PendingFor, tables
<1>3. pc[r] = "done" /\ ~ GivenUp(r)
  BY <1>1, <1>2 DEF GivenUp
<1>4. /\ bedStatus'[b] = "available" /\ refStatus'[r] = "pending" /\ Suits(b, r)
      /\ lastSeq'[b] = lastSeq[b]
  BY <1>1, <1>2, FiltersSuit DEF PendingFor, tables
<1>5. r \notin missed[b]
  BY <1>2, <1>4, MissedNext
<1>6. \A q \in Proc : pc[q] = "write" /\ chosen[q] = r => target[q] = b
  BY <1>1, <1>2, <1>4, NoOtherLost
<1> QED
  BY <1>2, <1>3, <1>5, <1>6 DEF Waits, Stranded

(* What is owed stays owed while the group stands still. *)
LEMMA OwedKept ==
    ASSUME NEW p \in Partition, NEW j \in 1 .. Len(log[p]), NEW b \in Bed,
           NEW r \in Referral, PassOwed(p, j, b, r),
           TopicGrows, Effected \subseteq Effected', UNCHANGED group,
           \A c \in Consumer : PassDue(c, b, r) => PassDue(c, b, r)'
    PROVE  PassOwed(p, j, b, r)'
<1>1. log'[p][j] = log[p][j]
  BY DEF TopicGrows
<1>2. UNCHANGED <<committed, position, owner, source>>
  BY DEF group
<1> QED
  BY <1>1, <1>2 DEF PassOwed

(* A message whose event frees a bed was not settled before, so no offset can
   have passed it; and whoever else is handling it is at the beginning. *)
LEMMA OwedBegins ==
    ASSUME IInv, IInv', PInv, NEW c \in Consumer, Step(c), pc[c] = "apply",
           ApplyWrites(current[c]), NEW b \in Bed, current[c].bed_id = b,
           NEW r \in Referral, UNCHANGED <<intakeVars, group>>
    PROVE  \E p \in Partition : \E j \in 1 .. Len(log'[p]) :
              PassOwed(p, j, b, r)'
<1> DEFINE p == source[c][1]
           j == source[c][2]
           m == log[p][j]
<1>1. /\ source[c] # NoSource /\ p \in Partition /\ j \in 1 .. Len(log[p])
      /\ m \in Message /\ In!Valid(m) /\ Parses(m) /\ current[c] = EventOf(m)
      /\ m.bed_id = b
  <2>1. source[c] # NoSource
    BY DEF PInv, HandlesItsMessage
  <2>2. p \in Partition /\ j \in 1 .. Len(log[p])
    BY <2>1, Pointers
  <2>3. /\ m \in Message /\ In!Valid(m) /\ Parses(m)
        /\ current[c] = EventOf(m)
    BY <2>1 DEF PInv, HandlesItsMessage
  <2>4. EventOf(m).bed_id = m.bed_id
    BY DEF EventOf
  <2> QED
    BY <2>1, <2>2, <2>3, <2>4
<1>2. m \notin Effected
  <2>1. ~ Settles(EventOf(m))
    BY <1>1 DEF ApplyWrites, Stale, Settles
  <2> QED
    BY <1>1, <2>1, EffectedSettles
<1>3. EventOf(m) \in appliedEvents' /\ m \in Effected'
  BY <1>1 DEF ApplyWrites, Effected, Handled
<1>4. /\ committed[p] \in Nat /\ position[p] \in Nat /\ j \in Nat
      /\ UNCHANGED <<log, committed, position, owner, source>>
  BY <1>1, Pointers DEF intakeVars, group
<1>5. committed[p] < j
  <2>1. j \notin 1 .. committed[p]
    BY <1>1, <1>2 DEF PInv, NothingSkipped
  <2> QED
    BY <1>1, <1>4, <2>1
<1>6. position[p] < j \/ source[owner[p]] = <<p, j>>
  <2>1. j \in 1 .. position[p] => source[owner[p]] = <<p, j>>
    BY <1>1, <1>2 DEF PInv, NothingSkipped
  <2> QED
    BY <1>1, <1>4, <2>1
<1>7. ASSUME NEW d \in Consumer, source[d] # NoSource, source[d][1] = p
      PROVE  source[d][2] < j \/ (source[d][2] = j /\ PassDue(d, b, r)')
  <2>1. source[d][2] \in Nat
    BY <1>7, Pointers
  <2>2. ~ (j < source[d][2])
    <3> SUFFICES ASSUME j < source[d][2] PROVE m \in Effected
      BY <1>2
    <3>1. j \in 1 .. source[d][2] - 1
      BY <1>1, <2>1
    <3> QED
      BY <1>7, <3>1 DEF PInv, NothingSkipped
  <2>3. CASE source[d][2] = j
    <3>1. pc[d] # "idle"
      BY <1>7 DEF PInv, HandlesItsMessage
    <3>2. pc[d] = "apply" /\ current[d] = EventOf(m)
      BY <1>2, <1>7, <2>3, <3>1 DEF PInv, HandlesItsMessage
    <3>3. CASE d = c
      BY <2>3, <3>3, PassBegins DEF IInv
    <3>4. CASE d # c
      <4>1. pc'[d] = pc[d] /\ current'[d] = current[d]
        BY <3>4, StepAlone, ProcKinds DEF OthersStill, IInv
      <4> QED
        BY <1>1, <1>3, <2>3, <3>2, <4>1 DEF PassDue, Settles, EventOf
    <3> QED
      BY <3>3, <3>4
  <2> QED
    BY <1>4, <2>1, <2>2, <2>3
<1>8. PassOwed(p, j, b, r)'
  BY <1>1, <1>3, <1>4, <1>5, <1>6, <1>7 DEF PassOwed
<1> QED
  BY <1>1, <1>4, <1>8

(* A consumer receives a message: none of a partition that still owes a pass is
   beyond the one that owes it, and that one, received again, brings a pass. *)
LEMMA PollKeepsOwed ==
    ASSUME IInv, PInv, NEW c \in Consumer, Poll(c),
           Effected \subseteq Effected',
           NEW p \in Partition, NEW j \in 1 .. Len(log[p]), NEW b \in Bed,
           NEW r \in Referral, PassOwed(p, j, b, r),
           \A d \in Consumer : PassDue(d, b, r) => PassDue(d, b, r)'
    PROVE  PassOwed(p, j, b, r)'
<1>1. PICK q \in Partition :
          /\ Fetch(c, q)
          /\ Receive(c) /\ current'[c] = EventOf(log[q][position[q] + 1])
          /\ source' = [source EXCEPT ![c] = <<q, position[q] + 1>>]
          /\ \E o \in CommittedOnReceipt(q) :
                committed' = [committed EXCEPT ![q] = o]
  BY DEF Poll
<1>2. /\ pc[c] = "idle" /\ owner[q] = c
      /\ position' = [position EXCEPT ![q] = @ + 1]
      /\ UNCHANGED <<owner, log>>
      /\ committed' = committed
      /\ DOMAIN source = Consumer /\ DOMAIN position = Partition
  BY <1>1 DEF Fetch, intakeVars, CommittedOnReceipt, PInv, PipelineTypeOK
<1>3. source[c] = NoSource
  BY <1>2 DEF PInv, HandlesItsMessage
<1>4. /\ position[p] \in Nat /\ position[q] \in Nat /\ committed[p] \in Nat
      /\ log[p][j] \in Message /\ In!Valid(log[p][j]) /\ owner[p] \in Consumer
      /\ j \in Nat
  BY Pointers
<1>5. position[p] < j \/ (source[owner[p]] = <<p, j>> /\ owner[p] # c)
  <2>1. <<p, j>> # NoSource
    BY <1>4, PartitionAssumption
  <2> QED
    BY <1>3, <2>1 DEF PassOwed
<1>6. position'[p] < j \/ source'[owner[p]] = <<p, j>>
  <2>1. CASE p = q
    BY <1>1, <1>2, <1>4, <1>5, <2>1
  <2>2. CASE p # q
    BY <1>1, <1>2, <1>4, <1>5, <2>2
  <2> QED
    BY <2>1, <2>2
<1>7. ASSUME NEW d \in Consumer, source'[d] # NoSource, source'[d][1] = p
      PROVE  source'[d][2] < j \/ (source'[d][2] = j /\ PassDue(d, b, r)')
  <2>1. CASE d = c
    <3>1. source'[c] = <<q, position[q] + 1>> /\ p = q
      BY <1>1, <1>2, <1>7, <2>1
    <3>2. position[p] < j
      BY <1>2, <1>5, <3>1
    <3>3. CASE position[p] + 1 = j
      <4>1. pc'[c] = "apply" /\ current'[c] = EventOf(log[p][j])
        BY <1>1, <3>1, <3>3, ProcKinds DEF Receive, IInv, Typed, TypeOK
      <4>2. Settles(EventOf(log[p][j])) /\ log[p][j].bed_id = b
        BY <1>4, EffectedSettles DEF PassOwed
      <4>3. UNCHANGED <<appliedEvents, lastSeq>>
        BY <1>1 DEF Receive, tables
      <4>4. PassDue(c, b, r)'
        BY <4>1, <4>2, <4>3 DEF PassDue, Settles, EventOf
      <4> QED
        BY <2>1, <3>1, <3>3, <4>4
    <3> QED
      BY <1>4, <2>1, <3>1, <3>2, <3>3
  <2>2. CASE d # c
    BY <1>1, <1>2, <1>7, <2>2 DEF PassOwed
  <2> QED
    BY <2>1, <2>2
<1> QED
  BY <1>2, <1>6, <1>7 DEF PassOwed

(* A consumer that skips a message that does not parse does not skip one that
   owes a pass, nor commit an offset beyond it. *)
LEMMA SkipKeepsOwed ==
    ASSUME PInv, NEW c \in Consumer, SkipMalformed(c),
           Effected \subseteq Effected',
           NEW p \in Partition, NEW j \in 1 .. Len(log[p]), NEW b \in Bed,
           NEW r \in Referral, PassOwed(p, j, b, r),
           \A d \in Consumer : PassDue(d, b, r) => PassDue(d, b, r)'
    PROVE  PassOwed(p, j, b, r)'
<1>1. PICK q \in Partition :
          /\ Fetch(c, q)
          /\ ~ Parses(log[q][position[q] + 1])
          /\ CommitMessage(q, position[q] + 1)
          /\ UNCHANGED <<vars, source>>
  BY DEF SkipMalformed
<1>2. /\ pc[c] = "idle" /\ owner[q] = c
      /\ position' = [position EXCEPT ![q] = @ + 1]
      /\ UNCHANGED <<owner, log, source>>
      /\ committed' \in {committed, [committed EXCEPT ![q] = position[q] + 1]}
      /\ DOMAIN position = Partition /\ DOMAIN committed = Partition
  BY <1>1 DEF Fetch, intakeVars, CommitMessage, PInv, PipelineTypeOK
<1>3. source[c] = NoSource
  BY <1>2 DEF PInv, HandlesItsMessage
<1>4. position[p] \in Nat /\ j \in Nat
  BY Pointers
<1>5. p = q => position[p] + 1 < j
  <2> SUFFICES ASSUME p = q PROVE position[p] + 1 < j
    OBVIOUS
  <2>1. position[p] < j
    <3>1. <<p, j>> # NoSource
      BY <1>4, PartitionAssumption
    <3> QED
      BY <1>2, <1>3, <3>1 DEF PassOwed
  <2>2. position[p] + 1 # j
    BY <1>1 DEF PassOwed
  <2> QED
    BY <1>4, <2>1, <2>2
<1>6. committed'[p] < j
  BY <1>2, <1>5 DEF PassOwed
<1>7. position'[p] < j \/ source'[owner'[p]] = <<p, j>>
  BY <1>2, <1>5 DEF PassOwed
<1> QED
  BY <1>2, <1>6, <1>7 DEF PassOwed

(* A handler that returns at the message that owes a pass has made it. *)
LEMMA FinishKeepsOwed ==
    ASSUME PInv, NEW c \in Consumer, Finish(c),
           Effected \subseteq Effected',
           NEW p \in Partition, NEW j \in 1 .. Len(log[p]), NEW b \in Bed,
           NEW r \in Referral, PassOwed(p, j, b, r),
           \A d \in Consumer : PassDue(d, b, r) => PassDue(d, b, r)'
    PROVE  PassOwed(p, j, b, r)'
<1>1. /\ pc[c] = "ack"
      /\ committed' \in {committed,
                         [committed EXCEPT ![source[c][1]] = source[c][2]]}
      /\ source' = [source EXCEPT ![c] = NoSource]
      /\ UNCHANGED <<position, owner, log>>
      /\ DOMAIN source = Consumer /\ DOMAIN committed = Partition
  BY DEF Finish, Ack, CommitMessage, intakeVars, PInv, PipelineTypeOK
<1>2. ~ PassDue(c, b, r)
  BY <1>1 DEF PassDue
<1>3. source[c] # NoSource /\ source[c][2] \in Nat
  BY <1>1, Pointers DEF PInv, HandlesItsMessage
<1>4. source[c][1] = p => source[c][2] < j
  BY <1>2, <1>3 DEF PassOwed
<1>5. committed'[p] < j
  BY <1>1, <1>4 DEF PassOwed
<1>6. position[p] < j \/ (source[owner[p]] = <<p, j>> /\ owner[p] # c)
  BY <1>4 DEF PassOwed
<1>7. position'[p] < j \/ source'[owner'[p]] = <<p, j>>
  BY <1>1, <1>6, Pointers
<1>8. ASSUME NEW d \in Consumer, source'[d] # NoSource, source'[d][1] = p
      PROVE  source'[d][2] < j \/ (source'[d][2] = j /\ PassDue(d, b, r)')
  BY <1>1, <1>8 DEF PassOwed
<1> QED
  BY <1>1, <1>5, <1>7, <1>8 DEF PassOwed

(* A partition that changes hands, or an engine that starts again, goes on from
   the committed offset. *)
LEMMA RewindKeepsOwed ==
    ASSUME PInv, NEW p \in Partition, NEW j \in 1 .. Len(log[p]), NEW b \in Bed,
           NEW r \in Referral, PassOwed(p, j, b, r),
           Effected \subseteq Effected',
           \/ Restart
           \/ /\ \E q \in Partition, c \in Consumer : Rebalance(q, c)
              /\ \A d \in Consumer : PassDue(d, b, r) => PassDue(d, b, r)'
    PROVE  PassOwed(p, j, b, r)'
<1>1. CASE Restart
  <2>1. /\ position' = committed /\ committed' = committed
        /\ \A d \in Consumer : source'[d] = NoSource
        /\ UNCHANGED log
    BY <1>1 DEF Restart, intakeVars
  <2> QED
    BY <2>1 DEF PassOwed
<1>2. ASSUME NEW q \in Partition, NEW c \in Consumer, Rebalance(q, c),
             \A d \in Consumer : PassDue(d, b, r) => PassDue(d, b, r)'
      PROVE  PassOwed(p, j, b, r)'
  <2>1. /\ owner' = [owner EXCEPT ![q] = c]
        /\ position' = [position EXCEPT ![q] = committed[q]]
        /\ UNCHANGED <<log, committed, source>>
        /\ DOMAIN position = Partition /\ DOMAIN owner = Partition
    BY <1>2 DEF Rebalance, intakeVars, PInv, PipelineTypeOK
  <2>2. position'[p] < j \/ source'[owner'[p]] = <<p, j>>
    <3>1. CASE p = q
      BY <2>1, <3>1 DEF PassOwed
    <3>2. CASE p # q
      BY <2>1, <3>2 DEF PassOwed
    <3> QED
      BY <3>1, <3>2
  <2> QED
    BY <1>2, <2>1, <2>2 DEF PassOwed
<1> QED
  BY <1>1, <1>2

(* The steps of the pipeline that are steps of one call of the engine. *)
LEMMA CallSteps ==
    ASSUME PipelineNext
    PROVE  \/ UNCHANGED vars
           \/ Restart
           \/ \E p \in Proc : Step(p)
<1>1. CASE EngineStep
  BY <1>1, ProcKinds
     DEF EngineStep, Step, apply_and_notify, apply_bed_status_event
<1>2. ASSUME NEW p \in Proc, StatementFails(p) PROVE Step(p)
  BY <1>2 DEF StatementFails, Step
<1>3. ASSUME NEW c \in Consumer, Poll(c) \/ Finish(c) PROVE c \in Proc /\ Step(c)
  BY <1>3, ProcKinds DEF Poll, Finish, Step, apply_and_notify
<1>4. ASSUME NEW c \in Consumer, SkipMalformed(c) PROVE UNCHANGED vars
  BY <1>4 DEF SkipMalformed
<1>5. ASSUME NEW p \in Partition, NEW c \in Consumer, Rebalance(p, c)
      PROVE  UNCHANGED vars
  BY <1>5 DEF Rebalance
<1>6. CASE IntakeStep
  BY <1>6 DEF IntakeStep
<1> QED
  BY <1>1, <1>2, <1>3, <1>4, <1>5, <1>6 DEF PipelineNext

(* No step takes anything out of the topic. *)
LEMMA TopicOnlyGrows ==
    ASSUME PInv, PipelineNext
    PROVE  TopicGrows
<1>1. CASE IntakeStep
  BY <1>1, IntakeTyped
     DEF IntakeStep, PInv, PipelineTypeOK, TopicTyped
<1>2. CASE UNCHANGED log
  BY <1>2, Pointers DEF TopicGrows
<1>3. CASE ~ IntakeStep
  BY <1>2, <1>3
     DEF PipelineNext, EngineStep, StatementFails, Poll, SkipMalformed, Fetch,
         Finish, Rebalance, Restart, intakeVars
<1> QED
  BY <1>1, <1>3

(* While a bed stands empty before a referral, nothing that happens to the
   topic, the group or the engine makes up for the pass that is owed. *)
LEMMA OwedStays ==
    ASSUME AllocationInv, PInv, PipelineNext,
           TopicGrows, Effected \subseteq Effected',
           NEW b \in Bed, NEW r \in Referral, Waits(b, r), Waits(b, r)',
           NEW p \in Partition, NEW j \in 1 .. Len(log[p]), PassOwed(p, j, b, r)
    PROVE  PassOwed(p, j, b, r)'
<1>1. CASE Restart
  BY <1>1, RewindKeepsOwed
<1>2. CASE ~ Restart
  <2>1. ASSUME NEW c \in Consumer, PassDue(c, b, r)
        PROVE  PassDue(c, b, r)'
    <3>1. CASE UNCHANGED vars
      BY <2>1, <3>1 DEF PassDue, Settles, vars
    <3>2. CASE \E q \in Proc : Step(q)
      BY <2>1, <3>2, PassKept DEF AllocationInv
    <3> QED
      BY <1>2, <3>1, <3>2, CallSteps
  <2>2. CASE UNCHANGED group
    BY <2>1, <2>2, OwedKept
  <2>3. ASSUME NEW c \in Consumer, Poll(c) PROVE PassOwed(p, j, b, r)'
    BY <2>1, <2>3, PollKeepsOwed DEF AllocationInv
  <2>4. ASSUME NEW c \in Consumer, SkipMalformed(c) PROVE PassOwed(p, j, b, r)'
    BY <2>1, <2>4, SkipKeepsOwed
  <2>5. ASSUME NEW c \in Consumer, Finish(c) PROVE PassOwed(p, j, b, r)'
    BY <2>1, <2>5, FinishKeepsOwed
  <2>6. CASE \E q \in Partition, c \in Consumer : Rebalance(q, c)
    BY <2>1, <2>6, RewindKeepsOwed
  <2> QED
    BY <1>2, <2>2, <2>3, <2>4, <2>5, <2>6
       DEF PipelineNext, IntakeStep, EngineStep, StatementFails
<1> QED
  BY <1>1, <1>2

LEMMA NobodyLostStep ==
    ASSUME AllocationInv, AllocationInv', PInv, PInv', NobodyLost,
           PipelineNext, Remember
    PROVE  NobodyLost'
<1>1. [Next]_vars /\ Typed /\ Typed'
  BY StepMapped DEF AllocationInv, IInv
<1>2. TablesGrow /\ Effected \subseteq Effected'
  BY <1>1, EngineGrows, EffectStays
<1>3. TopicGrows
  BY TopicOnlyGrows
<1> SUFFICES ASSUME NEW b \in Bed, NEW r \in Referral, Waits(b, r)'
             PROVE  \E p \in Partition : \E j \in 1 .. Len(log'[p]) :
                       PassOwed(p, j, b, r)'
  BY DEF NobodyLost
<1>4. CASE Waits(b, r)
  <2>1. PICK p \in Partition :
            \E j \in 1 .. Len(log[p]) : PassOwed(p, j, b, r)
    BY <1>4 DEF NobodyLost
  <2>2. PICK j \in 1 .. Len(log[p]) : PassOwed(p, j, b, r)
    BY <2>1
  <2>3. PassOwed(p, j, b, r)'
    BY <1>2, <1>3, <1>4, <2>2, OwedStays
  <2>4. j \in 1 .. Len(log'[p])
    BY <1>3 DEF TopicGrows, PInv, PipelineTypeOK
  <2> QED
    BY <2>3, <2>4
<1>5. CASE ~ Waits(b, r)
  <2>1. ~ Restart
    BY <1>5, CrashForgetsNobody DEF Restart, AllocationInv
  <2>2. ~ UNCHANGED vars
    BY <1>5, NobodyNew
  <2>3. PICK c \in Proc : Step(c)
    BY <2>1, <2>2, CallSteps
  <2>4. /\ c \in Consumer /\ pc[c] = "apply" /\ ApplyWrites(current[c])
        /\ current[c].bed_id = b
    BY <1>5, <2>3, WaitsNew DEF AllocationInv
  <2>5. UNCHANGED <<intakeVars, group>>
    <3>1. appliedEvents' # appliedEvents
      BY <2>4 DEF ApplyWrites
    <3>2. \A d \in Consumer : ~ Poll(d) /\ ~ SkipMalformed(d) /\ ~ Finish(d)
      BY <3>1 DEF Poll, Receive, SkipMalformed, Finish, Ack, tables, vars
    <3> QED
      BY <2>1, <2>2, <3>2
         DEF PipelineNext, IntakeStep, EngineStep, StatementFails, Rebalance
  <2> QED
    BY <2>3, <2>4, <2>5, OwedBegins DEF AllocationInv
<1> QED
  BY <1>4, <1>5

(* Whoever crashes, whichever statements fail, and however the partitions move,
   the event that freed a bed is delivered again until the pass that it calls for
   has been made.  When the consumers have caught up, the only referrals left
   waiting before a free bed are those that missed it, because they had another
   or were being given one when it was freed, and lost that; and those whose own
   call failed or ran out of tries. *)
THEOREM FreedBedsServed == RememberingPipelineSpec => []FreedBedServed
<1> DEFINE I == AllocationInv /\ PInv /\ NobodyLost
           N == [PipelineNext /\ Remember]_<<pipelineVars, missed>>
<1>1. PipelineInit => I
  <2> SUFFICES ASSUME PipelineInit PROVE I
    OBVIOUS
  <2>1. Init /\ \A r \in Referral : refStatus[r] = "absent"
    BY DEF PipelineInit, Init
  <2>2. NobodyLost
    BY <2>1 DEF NobodyLost, Waits, Stranded, PendingFor
  <2> QED
    BY <2>1, <2>2, AllocationInvInit, InitPInv
<1>2. I /\ N => I'
  <2> SUFFICES ASSUME I, N PROVE I'
    OBVIOUS
  <2>1. CASE PipelineNext /\ Remember
    <3>1. [Next]_vars
      BY <2>1, StepMapped
    <3>2. AllocationInv'
      BY <2>1, <3>1, AllocationInvNext
    <3>3. PInv'
      BY <2>1, <3>2, NextPInv DEF AllocationInv
    <3>4. NobodyLost'
      BY <2>1, <3>2, <3>3, NobodyLostStep
    <3> QED
      BY <3>2, <3>3, <3>4
  <2>2. CASE UNCHANGED <<pipelineVars, missed>>
    <3>1. /\ UNCHANGED vars /\ UNCHANGED missed
          /\ UNCHANGED <<log, committed, position, owner, source>>
      BY <2>2 DEF pipelineVars, intakeVars, group
    <3>2. AllocationInv'
      BY <3>1, AllocationInvNext
    <3>3. PInv'
      BY <2>2, <3>2, NextPInv DEF AllocationInv
    <3>4. Effected' = Effected
      BY <3>1 DEF Effected, Handled, vars
    <3>5. \A b \in Bed, r \in Referral :
              /\ Waits(b, r)' => Waits(b, r)
              /\ \A c \in Consumer : PassDue(c, b, r)' <=> PassDue(c, b, r)
      BY <3>1, NobodyNew DEF PassDue, Settles, vars
    <3>6. \A p \in Partition, j \in Nat, b \in Bed, r \in Referral :
              PassOwed(p, j, b, r) => PassOwed(p, j, b, r)'
      BY <3>1, <3>4, <3>5 DEF PassOwed
    <3> QED
      BY <3>1, <3>2, <3>3, <3>5, <3>6 DEF NobodyLost
  <2> QED
    BY <2>1, <2>2
<1>3. I => FreedBedServed
  <2> SUFFICES ASSUME I, CaughtUp, NEW b \in Bed, NEW r \in Referral,
                      Stranded(b, r)
               PROVE  FALSE
    BY DEF FreedBedServed
  <2>1. Waits(b, r)
    BY RestMeansWaiting DEF CaughtUp, AllocationInv
  <2>2. PICK p \in Partition :
            \E j \in 1 .. Len(log[p]) : PassOwed(p, j, b, r)
    BY <2>1 DEF NobodyLost
  <2>3. PICK j \in 1 .. Len(log[p]) : PassOwed(p, j, b, r)
    BY <2>2
  <2>4. committed[p] < j /\ committed[p] = Len(log[p])
    BY <2>3 DEF PassOwed, CaughtUp
  <2> QED
    BY <2>4, Pointers
<1> QED
  BY <1>1, <1>2, <1>3, PTL DEF RememberingPipelineSpec

=============================================================================
