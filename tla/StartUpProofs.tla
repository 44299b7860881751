---------------------------- MODULE StartUpProofs ----------------------------
(***************************************************************************)
(* The simulator's Job finds the tables, for any retry budget and however  *)
(* often the engine is killed.                                             *)
(***************************************************************************)
EXTENDS StartUp, TLAPS

(* Whoever listens has migrated, and the second port the init container waits
   for is the engine's.  Tables stay. *)
SchemaInv ==
    /\ up \subseteq Service
    /\ waits \in 0 .. Len(WaitOrder)
    /\ job = "init" => waits < Len(WaitOrder)
    /\ engine \in {"spawn", "listening", "unserved"} => schema
    /\ waits >= 2 => schema
    /\ job # "init" => waits >= 2

LEMMA InitSchema == Init => SchemaInv
BY DEF Init, SchemaInv, WaitOrder

(* The Job's pod gets past the engine's port only when that port is open. *)
LEMMA WaitKeepsSchema == SchemaInv /\ WaitForPort => SchemaInv'
<1> SUFFICES ASSUME SchemaInv, WaitForPort PROVE SchemaInv'
  OBVIOUS
<1>1. /\ waits \in 0 .. 3 /\ waits' = waits + 1
      /\ Open(WaitOrder[waits + 1])
      /\ UNCHANGED <<up, engine, schema>>
      /\ job' = IF waits' = 4 THEN "connect" ELSE job
      /\ job = "init"
  BY DEF SchemaInv, WaitForPort, WaitOrder
<1>2. CASE waits = 1
  <2>1. WaitOrder[waits + 1] = "matching-engine"
    BY <1>2 DEF WaitOrder
  <2>2. engine = "listening"
    BY <1>1, <2>1 DEF Open, SchemaInv, Service
  <2> QED
    BY <1>1, <1>2, <2>2 DEF SchemaInv, WaitOrder
<1>3. CASE waits # 1
  BY <1>1, <1>3 DEF SchemaInv, WaitOrder
<1> QED
  BY <1>2, <1>3

LEMMA NextSchema == SchemaInv /\ [Next]_vars => SchemaInv'
<1> SUFFICES ASSUME SchemaInv, [Next]_vars PROVE SchemaInv'
  OBVIOUS
<1> USE DEF SchemaInv, pod
<1>1. CASE Start
  BY <1>1 DEF Start
<1>2. CASE connect_with_retry
  BY <1>2 DEF connect_with_retry, Exit
<1>3. CASE run_migrations
  BY <1>3 DEF run_migrations, Exit
<1>4. CASE SpawnConsumer
  BY <1>4 DEF SpawnConsumer
<1>5. CASE Listen \/ ServerEnds
  BY <1>5 DEF Listen, ServerEnds, MayListen
<1>6. CASE SelectEnds \/ AddressRefused
  BY <1>6 DEF SelectEnds, AddressRefused, Exit
<1>7. CASE subscribe_with_retry
  BY <1>7 DEF subscribe_with_retry
<1>8. CASE Crash
  BY <1>8 DEF Crash, Exit
<1>9. CASE WaitForPort
  BY <1>9, WaitKeepsSchema
<1>10. CASE JobConnects
  BY <1>10 DEF JobConnects
<1>11. CASE seed
  BY <1>11 DEF seed
<1>12. CASE Environment
  BY <1>12 DEF Environment
<1>13. CASE UNCHANGED vars
  BY <1>13 DEF vars
<1> QED
  BY <1>1, <1>2, <1>3, <1>4, <1>5, <1>6, <1>7, <1>8, <1>9, <1>10, <1>11, <1>12,
     <1>13 DEF Next, EngineStep

(* No seed ever runs before the migration, in whatever order the pods come up
   and go down. *)
THEOREM SeedAlwaysFindsSchema == Spec => []SeedFindsSchema
<1>1. SchemaInv => SeedFindsSchema
  BY DEF SchemaInv, SeedFindsSchema
<1> QED
  BY <1>1, InitSchema, NextSchema, PTL DEF Spec

=============================================================================
