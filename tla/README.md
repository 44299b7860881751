# Formal verification of the shelter-bed matching network

TLA+ models of the matching network, the TLC runs that check them on small
instances, and TLAPS proofs of the properties that matter most for every
instance. Paths below are relative to the repository root.

## The system

| Component | State it keeps | Operations | Modules |
|---|---|---|---|
| Eligibility rules (`common/src/model.rs`, two SQL filters of `matcher.rs`) | none | `is_eligible`, candidate filter, referral filter, conversions of unit types and statuses | `Eligibility`, `Wire` |
| Allocation (`matching-engine/src/matcher.rs`) | PostgreSQL: `beds`, `referrals`, `reservations`; row locks; locals of each call | `submit_referral`, `allocate_for_bed`, `resolve_final_outcome` | `MatchingEngine` |
| Bed-status application (`matcher.rs`, `kafka_consumer.rs`) | `applied_events`, `beds.last_event_sequence` | `apply_bed_status_event`, `apply_and_notify`, the retry in place | `MatchingEngine` |
| What the engine promises | bookings: who holds what, who waits | arrive, book, occupy, vacate | `BedBooking` (abstract) |
| intake-ingestion and its terminals (`intake-ingestion/src/grpc.rs`, `simulator/src/events.rs`) | what is in flight to the broker, who waits for an answer | validate, send, answer, time out | `Intake` |
| Kafka topic and consumer group (`kafka_consumer.rs`) | partitions, committed offsets, positions, assignment | receive, skip, commit, rebalance, restart | `EventPipeline` |
| Notifications (`notify.rs`, `matching-engine/src/grpc.rs`) | a broadcast channel of 1024, cursors of subscribers | publish after commit, filter, lag, reconnect | `LiveUpdates` |
| Start-up and supervision (`lib.rs`, `common/src/db.rs`, `k8s/`) | how far the engine's process is, the schema, the simulator Job | connect, migrate, subscribe, listen, exit, restart, wait, seed | `StartUp` |
| caseworker-gateway | none of its own | proxy of both matching RPCs | its failures, in `LiveUpdates` |
| Simulator | none that matters | seed, terminals, listener | in `StartUp`, `Intake`, `LiveUpdates` |
| Configuration, docker-compose | - | - | not modelled |

Terminals report bed statuses to intake-ingestion over gRPC; it writes them to
the Kafka topic `bed-events`, keyed by shelter. The matching engine consumes the
topic and, apart from the simulator's seed, is the only program that writes to
PostgreSQL. Caseworkers submit referrals through the gateway to the matching
engine and subscribe to its stream of availability updates. All the core logic
is in the concurrent transactions of the matching engine: every gRPC call of
`MatchReferral` runs `submit_referral` in a task of its own, the consumer runs
`apply_bed_status_event`, and both run `allocate_for_bed`. They share nothing but
the database, so their statements interleave freely, constrained by row locks
and transactions alone.

What is hard about it: calls that award beds to each other's referrals; a row
skipped because it is locked; reads outside a transaction acted on later;
duplicated, reordered and retried events; offsets that are high-water marks and
are committed asynchronously; a commit whose reply is lost; crashes between the
apply, the allocation, the publication and the offset commit; updates published
after the fact; work that nothing triggers again; pods that start in no order.
`PROJECT.json` lists these hazards at the lines where they bite, those no
property covers yet included.

What makes each part correct:

* eligibility: the three formulations agree, and a value survives its way from
  request to database and back;
* allocation: no double booking, the three tables agree after any failure, the
  order of vulnerability is kept, an answer is true when it is given, no bed
  stands empty while somebody who waits could have it, every call ends;
* event application: idempotent, never backwards, releases what a status change
  invalidates, never blocks for ever on one event;
* intake and topic: a report that was accepted takes effect, none is passed over
  or made up, whatever fails, is repeated or moves to another consumer;
* notifications: every change is announced, and announcing disturbs nobody;
* start-up: nobody finds half a system, no failure stays invisible, in the end
  everything serves.

## Modules

`A <- B` reads "A EXTENDS B":

    Eligibility <- MatchingEngine <- EngineProperties <- MCMatchingEngine
    Wire <- Eligibility, Intake        EngineProperties: INSTANCE BedBooking
    EngineProperties <- EngineHistory <- MCEngineHistory
    MatchingEngine <- EventPipeline    EventPipeline: INSTANCE Intake
    EventPipeline, EngineProperties <- PipelineProperties <- MCEventPipeline
    PipelineProperties, EngineHistory <- PipelineHistory
    MCEventPipeline <- MCPipelineHistory: INSTANCE PipelineHistory
    PipelineProperties <- BookingHistory <- MCBookingHistory
    MatchingEngine <- LiveUpdates <- MCLiveUpdates
    StartUp stands alone

* **`Wire`** - the spellings of a unit type and a bed status in requests, in Rust
  and in the database, and the conversions between them.
* **`Eligibility`** - attributes and the three formulations of the rule, without
  variables. A bed row is the `beds` row joined with the region of its shelter.
* **`MatchingEngine`** - the core. A *submission* process is one call of
  `submit_referral` and bears the name of its referral; a *consumer* process is
  one Kafka consumer task.
* **`EngineProperties`** - what `MatchingEngine` must satisfy, the refinement
  mapping to `BedBooking` included.
* **`EngineHistory`** - the engine with one more variable, `missed`: which free beds
  a referral missed by losing another. **`PipelineHistory`** is the same for the
  pipeline. Both only watch: no action reads `missed`.
* **`BedBooking`** - the abstract specification: statuses, holders, the waiting.
* **`Intake`** - terminals, the handler of intake-ingestion, its producer and the
  appends of the broker.
* **`EventPipeline`** - composes `Intake`, the topic with its consumer group, and
  the engine, whose consumers now receive from partitions instead of receiving
  any event at any time. **`PipelineProperties`** has its properties.
* **`BookingHistory`** - the pipeline with a memory of what had been reported when
  a bed was booked.
* **`LiveUpdates`** - composes the engine's calls with the updates they owe, the
  broadcast channel and its subscribers.
* **`StartUp`** - the pods from nothing to service: engine, simulator Job, and the
  environment that starts and stops around them.
* **`MC...`** - values of the constants for TLC.
* **`...Proofs`** - theorems and proofs, see below.

Correspondence of `MatchingEngine` and the code:

| In the model | In the code |
|---|---|
| `bedStatus`, `lastSeq`, `refStatus`, `createdAt`, `reservations`, `appliedEvents` | the columns of `migrations/0001_init.sql`. Released reservations are dropped: no code reads them. `createdAt` is a rank, `now()` of successive INSERTs |
| `pc`, `target`, `queue`, `passed`, `chosen`, `tries`, `current`, `answer` | the locals of one call and where it stands |
| `BedLocked`, `ReferralLocked` | row locks of PostgreSQL. A lock is held from the statement that takes it to the end of the transaction, so it is a function of `pc` |
| `InsertReferral`, `FindCandidate`, `StopSearching`, `resolve_final_outcome` | the statements of `submit_referral`, each of them a transaction of its own |
| `LockBed` / `BedUnavailable` | `SELECT ... FOR UPDATE` on the bed, which waits while the row is locked |
| `ScanReferrals`, `PickReferral`, `SkipReferral`, `NoneEligible` | the second SELECT: it takes a snapshot, walks it in priority order, skips rows that are locked, checks again rows that changed, locks the first that is left |
| `CommitAllocation` | the three writes and the commit; writes are invisible to others before it |
| `Receive`, `ApplyDuplicate`, `ApplyUnknownBed`, `ApplyStale`, `ApplyFresh`, `Ack` | `run` and `apply_and_notify` with the outcomes of `apply_bed_status_event`. The apply transaction is one step: it decides under the bed's lock and is visible at its commit only |
| `DbError`, `CommitReplyLost`, `Crash` | a `?` that returns Err, a commit that took effect unknown to the caller, a stop and restart of the engine with all its calls and consumers. (Of several engines only all stop at once here; that one consumer loses its work and another repeats it is what errors and, in `EventPipeline`, rebalances do.) |

Correspondence of `Intake` and `EventPipeline`:

| In the model | In the code |
|---|---|
| `reported`, `Script` | the loop of one bed's task in `simulator/src/events.rs`: a report, its answer whatever it is, the next report with the next sequence |
| `Refuse`, `Send`, `Accept`, `TimeOut` | the returns of `submit_bed_status`: validation, the awaited send, its delivery report, its error |
| `inFlight`, `Deliver`, `Lose` | the producer and the broker (external): a record is appended, perhaps more than once since the producer is not idempotent, perhaps after the handler gave up, perhaps never |
| `PartitionsFor` | the record's key, `shelter_id` |
| `committed`, `position`, `owner`, `source` | the group's committed offsets; where a consumer reads; who owns a partition; which message a consumer is handling |
| `Poll`, `SkipMalformed`, `Finish` | `recv`, decode and `parse_ids` of `run`; the `Err` arm that logs and commits; the end of the handler and the asynchronous commit, which may be lost or late |
| `Rebalance`, `Restart` | a partition changes hands while its old owner may still be at work; a new process that starts from the committed offsets |

Correspondence of `LiveUpdates`:

| In the model | In the code |
|---|---|
| `owed` | the updates a call will publish: `side_allocations` and its own award in `match_referral`, `applied_shelter_id` or the award in `apply_and_notify` |
| `counted`, `CountBeds`, `DropUpdate`, `Send` | `publish_bed_update`: the two queries, its early returns, the send. Updates carry the status of the commit and a count that is read later |
| `CallFails` | every path that returns Err, or a handler that tonic drops: what is owed is lost |
| `sent`, `cursor`, `NextUpdate`, `TakeUpdate` | the broadcast channel; a receiver that lags goes on with the oldest update still kept |
| `Receives`, `Reconnect`, `LiveCrash` | the region filter; a stream opened again; the channel dies with the process |

Correspondence of `StartUp`: `connect_with_retry`, `run_migrations`,
`SpawnConsumer`, `AddressRefused` or `Listen`, `subscribe_with_retry` and `SelectEnds`
are the lines of `run` in `lib.rs` in their order; `HalfEnded` is what its `select!`
waits for, the end of the consumer task or of the server (`ServerEnds`: the port
cannot be bound, or `serve` fails later); `address` is whether `GRPC_ADDR` parses, the
same for every start; `Exit` is each return of `run`; `WaitForPort` is the
init container of `k8s/20-simulator-job.yaml`, `JobConnects` and `seed` the start of
the simulator's `main`; `Start`, `Crash` and `Environment` are what Kubernetes does.

Modelling decisions:

* A SELECT of PostgreSQL at READ COMMITTED sees one snapshot; `ScanReferrals`
  takes it and the walk over it is one row per step, because what happens
  between the snapshot and the lock is where the surprises are.
* The engine's own documentation calls `SKIP LOCKED` harmless; the model makes no
  such assumption.
* In `MatchingEngine` events carry the three statuses that intake-ingestion
  accepts (`intake-ingestion/src/grpc.rs:43-50`) and may be delivered in any order,
  any number of times, to any consumer. `EventPipeline` shows, and
  `PipelineImplementsEngine` proves, that this is no less than what terminals,
  producer and group can do.
* Beds start `available` or `occupied` with sequence 0, as the simulator's seed
  and the column default make them.
* An INSERT of a referral that fails leaves nothing, as if the call had never
  been made, so it is not a step.
* A terminal reports about one bed, in one shelter's name, with sequences that
  count upwards from 1, as `simulator/src/events.rs` does and
  `proto/shelterbed.proto:43` asks for (`SequenceAssumption`). What an engine makes
  of a terminal that starts again at 1 is not a question the code can answer.
* The broker keeps what it has appended.
* In `StartUp`, PostgreSQL may stop and come back but keeps its data. (A replaced
  pod loses it: the volume of `k8s/02-postgres.yaml` is an emptyDir.)

The sections "Broken versions" are variants used by no specification. Each is
what one wrong edit of the code would give; putting it in the place of its
definition must make a run fail, which shows that the property could fail
(`PROJECT.json`, "mutants").

## Runs

| Run | Instance | Shows |
|---|---|---|
| `engine_safety` | 2 beds, 2 submissions, 2 consumers, 4 events, all failures; 817,916 states | `TypeOK`, `NoDoubleBooking`, `BooksBalance`, `InsertNeverConflicts`, `HoldersEligible`, `NewestEventWins`, and that the engine implements `BedBooking` |
| `engine_priority` | 3 beds, two of them freed by events, one perhaps under its holder; 3 submissions, two of the same score; 1 consumer, database errors and lost replies; 2,487,350 states | `PriorityKept`, `NoStrandedBed`, `PendingAnswerFinal` |
| `engine_liveness` | 2 beds, 2 submissions, 1 consumer, 4 events, no failures; 31,416 states | `SubmitAnswers`, `EventsHandled` |
| `redelivery` | 1 terminal with 3 reports (one without a status), 2 partitions, 2 consumers, 2 copies of a message, all failures; 1,262,514 states | `PipelineTypeOK`, `CommittedHandled`, `AcceptedApplied`, `NothingMadeUp`, and that the pipeline implements the engine's own specification |
| `pipeline_liveness` | 1 terminal whose first message never parses and whose second frees a bed, a referral, 2 copies, errors and restarts; 296,183 states | `FreedBedServed`, `AcceptedTakesEffect` |
| `live_safety` | 2 beds in 2 regions, 2 submissions, 2 events, 2 subscribers (one with a filter), a channel of 1, all failures and failing lookups; 1,078,869 states | `LiveTypeOK`, `LagLosesOldest`, and that publishing leaves the engine what it is |
| `live_progress` | lossless steps (see below): 2 beds, 2 submissions, an event, a subscriber, database errors; 950,246 states | `ChangesAnnounced`, `UpdatesGoOut` |
| `start_up` | 2 retries, 2 kills or failures of the server, an address that parses or not; 55,008 states | `SeedFindsSchema`, `FailuresShow`, `ServesInTheEnd` |
| `skipped_by_failure` | 3 beds, 3 submissions of different scores, 1 consumer, database errors | `NoJumpAhead` is violated |
| `check_out` | one check-in, one check-out | `CheckOutEndsStay` is violated |
| `old_reports` | a free bed whose terminal reports it free, one submission | `OldReportsSpareBookings` is violated |
| `updates_reordered` | one bed freed by an event, one submission, one subscriber, no lag | `LastUpdateTrue` is violated |

Deadlock is checked in `start_up` only: elsewhere the system rests when every
referral is answered and every report is handled.

**Bounds.** Every set of ids, messages and processes is a constant, and no state
is cut off by a constraint; besides, these bounds are guards:

* *Engine.* Two beds and two referrals with asymmetric needs (the more vulnerable
  referral fits only the second bed) are the least where calls award beds to each
  other; two consumers are the least where an event races itself. Bed 2, which
  both want, sees a check-in and a release, so its open reservation is met active
  and checked in; bed 1 a maintenance hold; one event names a bed that does not
  exist. Three beds are the least where a call can skip a row locked for another
  bed while a third waits; with scores that tie, arrival decides. `MaxTries` stands
  for the 500 iterations of `submit_referral`: 2 where the exhaustion of the bound
  is wanted or costs nothing, more where every bed can be tried.
* *Pipeline.* Two reports about one bed are the least where one can overtake the
  other, two partitions where a lost key shows, two consumers where a rebalance
  gives a message to a second one. `MaxCopies` limits the copies of a message in
  its partition: two is one duplicate, which may land before or after the next
  report.
* *Live.* `Capacity` of the channel is 1 instead of 1024 where subscribers are to
  lag, which they then do after two updates. With all failures at once two events and two submissions
  fit; `ChangesAnnounced` needs a side allocation, hence two referrals and a bed
  both fit.
* *Start-up.* `Retries` is the number of failed attempts a 60-second budget allows;
  only whether any are left matters, so 2 tells no more than 120 would.
  `MaxCrashes` counts kills by Kubernetes and ends of the server; failures of
  PostgreSQL and Kafka are unbounded.

**What each property excludes.**

* `PriorityKept`, `NoStrandedBed` and `FreedBedServed` are about every step, and each
  lets off the referrals that have *missed* a bed (`missed[b]`): those that lost
  another bed while this one stood free, as long as it stays free, they wait, and no
  event frees it again. A referral loses a bed when an event reports that bed free
  or out of service (an ordinary check-out included), or when its award is rolled
  back. It is pending again then, and nothing tells the beds it could have had
  meanwhile, nor the calls that have passed it over. The exception is no more than
  that: the referral is served as every other by any bed freed afterwards.
  `PriorityKept` lets a referral be overtaken only if it has missed the bed and the
  awarding call had already passed it over. Without the exception the instance of
  `engine_priority` violates both of its properties. That of `pipeline_liveness` has
  one bed, which nobody can miss: there `FreedBedServed` is checked with an empty
  `missed`, without any exception, and for more beds it is proved.
* `NoStrandedBed` and `FreedBedServed` leave out a referral that has `GivenUp`: one
  whose own call failed, or ran out of tries. The engine promises such a caller
  nothing. Under crashes `NoStrandedBed` is false for events, since
  `MatchingEngine` delivers none again: `FreedBedServed`, which is the same
  statement once the topic is caught up, takes its place in the pipeline.
* `PendingAnswerFinal` is about calls that did not run out of tries, until an
  event frees a bed that suits the referral. It holds under every failure.
* `ChangesAnnounced` is about *lossless* steps (`Lossless`): no call fails that has
  updates to publish, or an event to announce that this very attempt has applied;
  no commit loses its reply, no lookup fails, the engine does not crash (a crash
  empties the channel). Calls that fail with nothing to announce are included.

The section "Where the properties stop" says what happens beyond.

**Fairness.**

* `FairSpec` has weak fairness of the steps of each call in progress (the runtime
  polls every task, the database answers every statement) and strong fairness of
  getting a bed row's lock (PostgreSQL queues the waiters of a row). Arrivals of
  referrals and events, and failures, are not fair.
* `FairPipelineSpec` has the same, and a consumer that is idle receives what its
  partitions hold (librdkafka polls in the background). It assumes that
  rebalances, restarts and errors cease at some point, `<>[][~ Disruption]`: the
  retry in place has no limit, so that under errors for ever nothing need ever be
  applied. Nothing is assumed of terminals, producer or broker.
* `FairLosslessSpec` schedules publishers only. Nobody has to read his stream: that
  `UpdatesGoOut` holds all the same is its point.
* `StartUp` has weak fairness of the steps of each program, of the kubelet's
  restart (`restartPolicy` Always) and of the init container's loop.
  `ServesInTheEnd` is conditional on PostgreSQL and Kafka that stay up.

## Disagreements between the code and its documentation

1. `skipped_by_failure`. `README.md:87-89` promises that nobody jumps ahead of a
   more vulnerable referral. One that is skipped because another transaction
   has its row locked is passed over for good if that transaction fails.
2. `check_out`. `README.md:118-121` and `matcher.rs:332-339` describe the release
   of a reservation for a client who did not stay. The code does the same after
   an ordinary check-out: the client who has left competes for beds again.
3. `old_reports`. `matcher.rs:329-339` releases a reservation for "a no-show, a
   cancellation before check-in, or a maintenance hold". A report that the bed is
   available, made before the booking and applied after it, does the same: its
   sequence is new, and nothing relates it to the booking. With the simulator it
   happens every day: `seed.rs:43-47` seeds 30% of the beds available, and the
   first report of every terminal is `AVAILABLE` with sequence 1.
4. `updates_reordered`. `grpc.rs:107-109` counts on the next update to correct what
   a subscriber missed. Updates are published after the commits, each after two
   queries, so that the last update of a bed may be the one of an earlier commit:
   every subscriber then shows a reserved bed as available, until it changes again.

## Where the properties stop

Reading the code against its comments showed some more limits, which no run is
about.

* *Tries without a memory.* `matcher.rs:64-65` speaks of one iteration per matching
  bed. The candidate query does not know which beds were tried: a call whose
  referral another call has matched gets `Ok(None)` for a bed that stays available
  and tries it again, up to 500 times.
* *Displaced referrals.* `matcher.rs:337-339` puts a displaced referral back to
  pending "so it can be matched to a different bed", but the only pass made then is
  for the bed of the event (`kafka_consumer.rs:164`): another free bed stays empty
  until something tries it. `missed` records exactly these pairs.
* *Updates lost by errors.* `notify.rs:16-20` argues that an error after the commit
  must not lead to a retry, since the event would then be a duplicate and its
  update lost. The `?` of the allocation pass (`kafka_consumer.rs:164`) does just
  that. Likewise `submit_referral` forgets side allocations already committed when
  a later statement fails (`matcher.rs:27-31` wants every one published).
  `Lossless` names the steps that cost an update.
* *Lag.* `LagLosesOldest` says that a subscriber who falls behind loses only what the
  channel has dropped. That may be the last update of a bed. `grpc.rs:107-109` counts
  on "the next update", but an update is about one bed: the next one need not be
  about that bed, and the subscriber shows it as it was until it changes again.
* *Errors of `recv`* are logged and ignored (`kafka_consumer.rs:117`): once
  subscribed, `run` never returns Err, so that `FailuresShow` covers the failures
  before that only.

## Proofs

`EligibilityProofs`: the SQL filter of `allocate_for_bed` equals `is_eligible()`
plus equal regions (`ReferralFilterAgrees`), and the candidate query of
`submit_referral` equals that filter (`FiltersAgree`), for all attribute values.
Whatever unit type a request carries satisfies the CHECK constraint of its column
(`UnitTypeWritable`) and is read back as the one that was written
(`UnitTypeRoundTrip`).

`EngineProofs`: for any beds, referrals, consumers, events and failures,
`TypeOK`, `NoDoubleBooking`, `BooksBalance`, `InsertNeverConflicts`,
`HoldersEligible` and `NewestEventWins` are invariants of `Spec`. Assumed are the
named assumptions of `MatchingEngine` only: ids and rows have their types, the
two kinds of process are distinct, event ids are unique, the referrals are
finitely many (for the rank of arrival).

None of the safety properties is inductive. `NoDoubleBooking` survives a commit
only because the bed is then available and the referral pending, which has to
have stayed true since they were read. The invariant `IInv` therefore has three
parts:

* `Typed` - types, and where each kind of call can be;
* `LocksOK` - a row is locked by one call at a time (`LocksExclusive`); what a
  call read under its locks is still so (`LocksProtect`); no referral exists
  before its INSERT (`NewIsAbsent`);
* `RowsOK` - the four properties of the rows.

The proof has a lemma for each way rows change (`AwardRows`, `ApplyRows` with
`CheckInKeepsRows`, `ReleaseKeepsRows` and `ApplyNewest`), one for each way they
leave locked rows alone (`AwardKeepsLocks`, `ApplyTouchesNoLock`,
`OthersKeepLocks`), and a case for each action. `InsertNeverConflicts` follows
from `IInv`: books that balance have no open reservation for an available bed or
for a pending referral.

`AllocationProofs`: who gets which bed, for any beds, referrals and consumers.
`EngineProofs` splits `Next` into the steps of one call and a crash (`StepsOfNext`) and
says what such a step can do to the other calls (`StepAlone`); this module says what
it can do to the tables (`StepTables`), to one bed (`BedChanges`) and to one referral
(`ReferralChanges`), and adds to `IInv`:

* `SearchExhaustive` - a search that found no candidate bed has none until an event
  frees one that suits it (`CandidatesShrink`), and a referral answered "pending"
  is. What would break it, an award that commits between the last look and the
  answer, is what the re-read of `resolve_final_outcome` is for
  (`PendingAnswers`). Hence `PendingAnswersFinal`, for every failure, crashes
  included: `Spec => []PendingAnswerFinal`.
* `WalkOrdered` - whatever the walk over the second SELECT has passed over has a bed
  or is locked by the call that is giving it one, and what it has chosen comes
  first among the rest. A row passed over stays so, or has missed the bed
  (`PassedStays`): without the memory the proof fails here, and
  `skipped_by_failure` is the counterexample. Hence `PriorityAlwaysKept`:
  `RememberingSpec => PriorityKept`, crashes included.
* `PassAfterApply` - a consumer that makes a pass has applied its event, and a retry
  will find it a duplicate.
* `NobodyForgotten` - while a bed stands empty that a referral could have and has not
  missed, whose search is over and did not fail (`Waits`), some consumer still has its pass on
  that bed to make (`PassDue`). A search that ends with a candidate in sight has
  given up (`SearchEnds`); a bed becomes free through an event only, whose consumer
  then owes the pass (`PassBegins`) until it has awarded the bed, whatever
  statement fails (`PassKept`). Hence `NoBedIsStranded`, for `Faults` without
  "crash": `RememberingSpec => []NoStrandedBed`.

`BookingProofs`: the engine implements `BedBooking` (`ImplementsBooking`, that is
`Spec => BookingSpec`) under the mapping of `EngineProperties`: a bed's holder is
the referral of its open row, those who wait are the pending referrals. `IInv`
before and after the step is all it needs. `InsertReferral` is an arrival
(`InsertArrives`), a commit with or without its reply a booking (`AwardBooks`), a
fresh event an `Occupy` or a `Vacate` (`ApplyOccupiesOrVacates`); every other step
leaves beds, rows and referrals alone. That a row is the only one of its bed
makes the holder well defined (`HolderOfRow`).

`PipelineProofs`: every step of the pipeline is a step of the engine or leaves
its variables alone (`StepMapped`), so that `PipelineSpec => EngineSpec`
(`PipelineImplementsEngine`) and `IInv` holds in the pipeline too. The invariant
of the topic and the group is `PInv`:

* `PipelineTypeOK` - types, and offsets within their partitions;
* `TopicValid` - the topic holds valid messages only;
* `HandlesItsMessage` - a consumer at work handles the message its source points
  at, and past the apply that message has had its effect;
* `NothingSkipped` - below a committed offset, below a position and below a
  message in hand every message has had its effect, except the one its
  partition's owner has in hand. Commits lost, late or by a former owner are
  harmless because each of these marks is.

That an effect is never undone (`EffectStays`) rests on the ledger and the
sequence numbers growing only (`EngineGrows`). `CommittedAlwaysHandled` and
`PipelineTypeCorrect` follow.

`DeliveryProofs`: with `DInv`, no accepted report is lost or made stale
(`AcceptedAlwaysApplied`) and nothing is applied that was not reported
(`NothingEverMadeUp`). The argument goes by the order in a partition:

* `TopicReported` - the topic holds reports, in the partition of their key, and
  everything that was accepted;
* `InOrder` - a report is in the log behind every earlier one about its bed that
  was accepted, since a terminal waits for the answer before its next report;
* `LedgerReported` - the ledger holds reports, and a bed's sequence number is that
  of one of them;
* `NotOvertaken` - a bed has not moved past an accepted report that is not applied:
  whoever applies a later one has it behind the accepted one in its partition
  (`InOrder`), and everything below a message in hand has had its effect
  (`NothingSkipped`, in `ApplyOvertakesNobody`).

`DeliveryProofs` also carries `NobodyForgotten` over to crashes. `NobodyLost` says
that while a referral `Waits` for an empty bed, some message about that bed, already
applied, is still to be passed by its partition's committed offset, will be
received by whoever owns the partition now or later, and whoever is handling it has
`PassDue` (`PassOwed`). A crash or a rebalance loses the pass but not the message
(`RewindKeepsOwed`), a late or lost commit cannot pass it (`FinishKeepsOwed`), and
what is received again is a duplicate, which makes a pass all the same. Hence
`FreedBedsServed`, under every failure:
`RememberingPipelineSpec => []FreedBedServed`. Steps that part a referral and a bed
make the referral miss it, so that it no longer `Waits` for it; a referral that has
not missed a bed keeps its message.

Besides those of the engine this module uses `TerminalAssumption`, `SequenceAssumption` and
`PartitionAssumption`.

`LiveProofs`: with publication, failing or not, the calls are those of the engine
(`LiveImplementsEngine`, that is `LiveSpec => EngineUndisturbed`), so that
everything proved of the engine holds with subscribers too. `LiveTypeCorrect`
proves `LiveTypeOK`, of which `LInv` only spells out what it takes for granted
(`owed` is a function into sequences, `sent` a sequence); that a call owes nothing
but updates of beds rests on `IInv`, and a count is a number because the beds are
finitely many (`LiveAssumption`). `LagCostsOldestOnly` proves `LagLosesOldest`: whoever
jumps ahead jumps over updates that are no longer kept (`TakeKeepsLag`), and a new
update drops an old one for everybody (`SendKeepsLag`).

`ChangesAlwaysAnnounced` proves `LosslessSpec => []ChangesAnnounced`. Its invariant
`NothingUntold` traces the last change of a bed: a bed that has changed is `Known`,
which means that an update with its present status is in the channel, or is owed by
some call, or is the event of a consumer that has just applied it and not ended its
pass. The status may change at any time under an update that is owed; whoever
changes it then makes the bed known again, so no order of publication matters
(which is why `LastUpdateTrue` may still be false). `KnownStays` says what a step
of one call must not do for this; publication only moves an update on (`SendKnown`).

`StartUpProofs`: `SeedFindsSchema` holds for any retry budget and any number of
kills (`SeedAlwaysFindsSchema`). `SchemaInv` adds why: whoever listens has migrated,
and a Job that has found two ports open has found the engine's.

Every invariant and every action property of the runs that pass is a theorem. Only
model-checked is liveness, which is out of reach of the prover: `SubmitAnswers`,
`EventsHandled`, `AcceptedTakesEffect`, `UpdatesGoOut`, `FailuresShow`,
`ServesInTheEnd`. So is what a violated property shows: that a counterexample
exists.

`RememberingSpec` and `RememberingPipelineSpec` add a variable that no action reads and
whose next value every step determines, so that they have the behaviours of `Spec`
and `PipelineSpec`: their theorems restrict no step. `LosslessSpec` does: its theorem
says that as long as a behaviour has made lossless steps only, the property holds.
It excludes crashes, lost replies and failing lookups, and of the errors those that
cost an update.

## Plan

1. The safety half of the liveness properties: what a call has to be waiting for
   whenever it cannot take a step, so that no two wait for each other.
2. Which pass makes up for a bed that a referral has missed, and how soon.
3. What a subscriber who keeps up has seen, when the updates of a bed happen to be
   published in the order of their commits.

## Running

    tlc -workers 2 -config EngineSafety.cfg MCMatchingEngine
    tlc -workers 2 -config Redelivery.cfg MCEventPipeline
    tlc -workers 2 -config LiveSafety.cfg MCLiveUpdates
    tlc -workers 2 -config StartUp.cfg StartUp
    tlapm DeliveryProofs.tla    # and each other module that ends in Proofs

## Not modelled

String and protobuf encodings beyond the enums of `Wire` (identities on the values
kept), the texts of errors, logging, back-off times, pool sizes (a pool that is
exhausted is a `DbError`), `family_size` (stored and never read), the statuses
`expired` and `cancelled` (never written), the simulator's random choices and
statistics, and the configuration. The gateway keeps no state and passes every
call on; a client that submits again after a lost reply is a second referral to
every component, because a request carries no key to tell it by.
