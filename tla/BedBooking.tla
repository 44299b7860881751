----------------------------- MODULE BedBooking -----------------------------
(***************************************************************************)
(* What the matching engine promises, without its calls, locks, retries    *)
(* and failures: beds, the client who holds each of them, and the clients  *)
(* who wait.  A bed is booked whole, for one waiting client it suits, while *)
(* it is free; a client leaves a bed only when the shelter's terminal says *)
(* so about that very bed, and then waits again.                           *)
(***************************************************************************)
CONSTANTS Bed, Referral, Suits(_, _), SeedStatus, Nobody

VARIABLES
    status,     \* [Bed -> a bed status]
    holder,     \* [Bed -> the referral that holds it, or Nobody]
    waiting     \* the referrals without a bed

vars == <<status, holder, waiting>>

Held == {holder[b] : b \in Bed} \ {Nobody}

Init ==
    /\ status \in SeedStatus
    /\ holder = [b \in Bed |-> Nobody]
    /\ waiting = {}

Arrive(r) ==
    /\ r \notin waiting \cup Held
    /\ waiting' = waiting \cup {r}
    /\ UNCHANGED <<status, holder>>

Book(b, r) ==
    /\ status[b] = "available" /\ holder[b] = Nobody
    /\ r \in waiting /\ Suits(b, r)
    /\ status' = [status EXCEPT ![b] = "reserved"]
    /\ holder' = [holder EXCEPT ![b] = r]
    /\ waiting' = waiting \ {r}

(* The terminal reports the bed occupied: whoever holds it keeps it. *)
Occupy(b) ==
    /\ status' = [status EXCEPT ![b] = "occupied"]
    /\ UNCHANGED <<holder, waiting>>

(* The terminal reports the bed free or out of service. *)
Vacate(b) ==
    /\ \E s \in {"available", "maintenance"} :
          status' = [status EXCEPT ![b] = s]
    /\ holder' = [holder EXCEPT ![b] = Nobody]
    /\ waiting' = waiting \cup ({holder[b]} \ {Nobody})

Next ==
    \/ \E r \in Referral : Arrive(r)
    \/ \E b \in Bed, r \in Referral : Book(b, r)
    \/ \E b \in Bed : Occupy(b) \/ Vacate(b)

Spec == Init /\ [][Next]_vars

=============================================================================
