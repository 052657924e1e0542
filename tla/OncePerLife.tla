---------------------------- MODULE OncePerLife ----------------------------
(***************************************************************************)
(* What an idempotency key promises, with no request, delivery or database *)
(* in sight, as app/core/idempotency.py tells it: "retrying create_booking *)
(* must never create a second booking".  A key that is begun is worked on  *)
(* by one request, which secures something with the airline, then acts and *)
(* completes, or abandons the key before it has acted.  A completed key    *)
(* stays so for the life of the process; what the airline holds outlives   *)
(* it.                                                                     *)
(***************************************************************************)
EXTENDS Naturals

CONSTANT Keys

VARIABLES phase, acts, held, lives

onceVars == <<phase, acts, held, lives>>

Init == /\ phase = [k \in Keys |-> "absent"]
        /\ acts = [k \in Keys |-> 0]
        /\ held = {}
        /\ lives = 0

Turn(k, from, to) == /\ phase[k] = from
                     /\ phase' = [phase EXCEPT ![k] = to]
                     /\ UNCHANGED lives

Begin(k) == Turn(k, "absent", "in_progress") /\ UNCHANGED <<acts, held>>

Hold(k) == /\ phase[k] = "in_progress"
           /\ held' = held \cup {k}
           /\ UNCHANGED <<phase, acts, lives>>

Act(k) == /\ Turn(k, "in_progress", "acted")
          /\ k \in held
          /\ acts' = [acts EXCEPT ![k] = @ + 1]
          /\ UNCHANGED held

Complete(k) == Turn(k, "acted", "completed") /\ UNCHANGED <<acts, held>>

(* The airline may have answered a request that gave up waiting.           *)
Abandon(k) == /\ Turn(k, "in_progress", "absent")
              /\ held' \in {held, held \cup {k}}
              /\ UNCHANGED acts

Crash == /\ phase' = [k \in Keys |-> "absent"]
         /\ lives' = lives + 1
         /\ UNCHANGED <<acts, held>>

Next == Crash \/ \E k \in Keys :
          Begin(k) \/ Hold(k) \/ Act(k) \/ Complete(k) \/ Abandon(k)

Spec == Init /\ [][Next]_onceVars
=============================================================================
