------------------------------ MODULE StartUp ------------------------------
(***************************************************************************)
(* Start-up and supervision on Kubernetes: the matching engine from its    *)
(* first connection to the exit of its process, the kubelet that restarts  *)
(* it, and the simulator Job, whose init container waits for ports.  All   *)
(* pods start at once and PostgreSQL and Kafka come and go.  PostgreSQL    *)
(* keeps its data: the pod may restart but is not replaced.                *)
(***************************************************************************)
EXTENDS Naturals, Sequences

CONSTANT
    Retries,        \* failed attempts within a retry budget (60 s, every
                    \* half second)
    MaxCrashes      \* bound: how often the engine's container is killed or its
                    \* gRPC server fails

ASSUME BoundsAssumption == Retries \in Nat /\ MaxCrashes \in Nat

VARIABLES
    postgres, kafka,    \* whether they accept connections
    schema,             \* whether the migration has been applied
    engine,             \* "down", "connect", "migrate", "spawn", "listening",
                        \* "unserved"
    consumer,           \* "none", "subscribe", "receive", "ended"
    failed,             \* failed attempts of each retry loop
    up,                 \* which of Service listen
    job,                \* "init", "connect", "seed", "simulate", "failed"
    waits,              \* ports the init container has found open
    crashes,            \* how often Crash or ServerEnds has happened
    address             \* whether GRPC_ADDR parses, on every start alike

pod == <<job, waits>>
vars ==
    <<postgres, kafka, schema, engine, consumer, failed, up, pod, crashes,
      address>>

Service == {"intake-ingestion", "caseworker-gateway"}

Loop == {"engine", "consumer", "job"}

Init ==
    /\ postgres = FALSE /\ kafka = FALSE /\ schema = FALSE
    /\ engine = "down" /\ consumer = "none"
    /\ failed = [l \in Loop |-> 0]
    /\ up = {}
    /\ job = "init" /\ waits = 0
    /\ crashes = 0 /\ address \in BOOLEAN

-----------------------------------------------------------------------------
(* A retry loop: an attempt fails and is repeated, until the budget is
   used up and the error is returned. *)
TryAgain(l) ==
    /\ failed[l] < Retries
    /\ failed' = [failed EXCEPT ![l] = @ + 1]

GiveUp(l) == failed[l] >= Retries

-----------------------------------------------------------------------------
(* The engine: run() of lib.rs *)

(* The process ends, with everything in it. *)
Exit ==
    /\ engine' = "down" /\ consumer' = "none"
    /\ failed' = [failed EXCEPT !["engine"] = 0, !["consumer"] = 0]

(* Broken versions, for the run that has to notice. *)
ListenFirst == engine \in {"connect", "migrate", "spawn"}
MigrateFromScratch ==                        \* CREATE TABLE, unversioned
    /\ engine = "migrate"
    /\ \/ /\ postgres /\ ~ schema
          /\ schema' = TRUE /\ engine' = "spawn"
          /\ UNCHANGED <<failed, consumer>>
       \/ /\ ~ postgres \/ schema
          /\ Exit /\ UNCHANGED schema
    /\ UNCHANGED <<postgres, kafka, up, pod, crashes, address>>
NothingEnds == FALSE                         \* the consumer task detached

(* The kubelet starts the container, for the first time or again. *)
Start ==
    /\ engine = "down"
    /\ engine' = "connect"
    /\ UNCHANGED <<postgres, kafka, schema, consumer, failed, up, pod,
                   crashes, address>>

connect_with_retry ==
    /\ engine = "connect"
    /\ \/ postgres /\ engine' = "migrate" /\ UNCHANGED <<failed, consumer>>
       \/ ~ postgres /\ TryAgain("engine") /\ UNCHANGED <<engine, consumer>>
       \/ ~ postgres /\ GiveUp("engine") /\ Exit
    /\ UNCHANGED <<postgres, kafka, schema, up, pod, crashes, address>>

(* One transaction: it takes effect or not, and the engine goes on only when
   it knows that it did.  An applied migration is not applied again. *)
run_migrations ==
    /\ engine = "migrate"
    /\ \/ /\ postgres
          /\ schema' = TRUE /\ engine' = "spawn"
          /\ UNCHANGED <<failed, consumer>>
       \/ /\ ~ postgres
          /\ schema' \in {schema, TRUE}
          /\ Exit
    /\ UNCHANGED <<postgres, kafka, up, pod, crashes, address>>

SpawnConsumer ==
    /\ engine = "spawn" /\ consumer = "none"
    /\ consumer' = "subscribe"
    /\ UNCHANGED <<postgres, kafka, schema, engine, failed, up, pod, crashes,
                   address>>

MayListen == engine = "spawn" /\ consumer # "none"

(* grpc_addr.parse()? *)
AddressRefused ==
    /\ MayListen /\ ~ address
    /\ Exit
    /\ UNCHANGED <<postgres, kafka, schema, up, pod, crashes, address>>

Listen ==
    /\ MayListen /\ address
    /\ engine' = "listening"
    /\ UNCHANGED <<postgres, kafka, schema, consumer, failed, up, pod,
                   crashes, address>>

(* The future of the gRPC server is over: the port can not be bound, or serve
   returns an error later. *)
ServerEnds ==
    /\ (MayListen /\ address) \/ engine = "listening"
    /\ crashes < MaxCrashes
    /\ engine' = "unserved"
    /\ crashes' = crashes + 1
    /\ UNCHANGED <<postgres, kafka, schema, consumer, failed, up, pod, address>>

(* Creating a client and subscribing need no broker, but may fail without. *)
subscribe_with_retry ==
    /\ consumer = "subscribe"
    /\ \/ consumer' = "receive" /\ UNCHANGED failed
       \/ ~ kafka /\ TryAgain("consumer") /\ UNCHANGED consumer
       \/ ~ kafka /\ GiveUp("consumer") /\ consumer' = "ended"
                  /\ UNCHANGED failed
    /\ UNCHANGED <<postgres, kafka, schema, engine, up, pod, crashes, address>>

(* select! over the server and the consumer task. *)
HalfEnded == consumer = "ended" \/ engine = "unserved"

SelectEnds ==
    /\ engine \in {"listening", "unserved"} /\ HalfEnded
    /\ Exit
    /\ UNCHANGED <<postgres, kafka, schema, up, pod, crashes, address>>

Crash ==
    /\ engine # "down" /\ crashes < MaxCrashes
    /\ Exit
    /\ crashes' = crashes + 1
    /\ UNCHANGED <<postgres, kafka, schema, up, pod, address>>

-----------------------------------------------------------------------------
(* The simulator's pod: its init container and the begin of its main. *)

WaitOrder == <<"postgres", "matching-engine", "intake-ingestion",
               "caseworker-gateway">>

(* What "nc -z" finds. *)
Open(port) == \/ port = "postgres" /\ postgres
              \/ port = "matching-engine" /\ engine = "listening"
              \/ port \in up

WaitForPort ==
    /\ job = "init"
    /\ Open(WaitOrder[waits + 1])
    /\ waits' = waits + 1
    /\ job' = IF waits' = Len(WaitOrder) THEN "connect" ELSE job
    /\ UNCHANGED <<postgres, kafka, schema, engine, consumer, failed, up,
                   crashes, address>>

(* restartPolicy Never, backoffLimit 0: a failure of main is final. *)
JobConnects ==
    /\ job = "connect"
    /\ \/ postgres /\ job' = "seed" /\ UNCHANGED failed
       \/ ~ postgres /\ TryAgain("job") /\ UNCHANGED job
       \/ ~ postgres /\ GiveUp("job") /\ job' = "failed" /\ UNCHANGED failed
    /\ UNCHANGED <<postgres, kafka, schema, engine, consumer, up, waits,
                   crashes, address>>

(* One INSERT after another, without a transaction. *)
seed ==
    /\ job = "seed"
    /\ job' = IF postgres /\ schema THEN "simulate" ELSE "failed"
    /\ UNCHANGED <<postgres, kafka, schema, engine, consumer, failed, up,
                   waits, crashes, address>>

-----------------------------------------------------------------------------
(* What the pods do that this repository does not decide. *)
Environment ==
    /\ \/ postgres' = ~ postgres /\ UNCHANGED <<kafka, up>>
       \/ kafka' = ~ kafka /\ UNCHANGED <<postgres, up>>
       \/ \E s \in Service : /\ up' \in {up \cup {s}, up \ {s}} \ {up}
                             /\ UNCHANGED <<postgres, kafka>>
    /\ UNCHANGED <<schema, engine, consumer, failed, pod, crashes, address>>

EngineStep == connect_with_retry \/ run_migrations \/ SpawnConsumer
                  \/ AddressRefused \/ Listen \/ SelectEnds

Next == Start \/ EngineStep \/ subscribe_with_retry \/ ServerEnds \/ Crash
            \/ WaitForPort \/ JobConnects \/ seed \/ Environment

Spec ==
    /\ Init /\ [][Next]_vars
    /\ WF_vars(Start) /\ WF_vars(EngineStep) /\ WF_vars(subscribe_with_retry)
    /\ WF_vars(WaitForPort) /\ WF_vars(JobConnects) /\ WF_vars(seed)

-----------------------------------------------------------------------------
(* The simulator never meets a database without tables, "relation shelters
   does not exist": "this can't happen", whatever restarts in between. *)
SeedFindsSchema == job \in {"connect", "seed", "simulate"} => schema

(* No failure stays invisible behind a process that is up: an engine on its way
   listens or exits, and one of which either half has ended, the server or the
   consumer, exits. *)
FailuresShow ==
    /\ engine \in {"connect", "migrate", "spawn", "unserved"}
           ~> engine \in {"listening", "down"}
    /\ consumer = "ended" ~> engine = "down"

(* Once PostgreSQL and Kafka stay up, nobody kills the engine and its server
   does not fail any more, it serves with both halves for good, wherever it was
   interrupted before, if its address is one at all. *)
Serving == engine = "listening" /\ consumer = "receive"

ServesInTheEnd ==
    address /\ <>[]postgres /\ <>[]kafka => <>[]Serving

=============================================================================
