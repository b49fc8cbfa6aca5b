----------------------------- MODULE TurnContract -----------------------------
(***************************************************************************)
(* What a campaign promises its player about turns, with neither workers   *)
(* nor leases: one turn at a time is decided once and told once, and the   *)
(* canonical state moves only by a turn that is committed.                 *)
(***************************************************************************)
EXTENDS Naturals

CONSTANT Requests

VARIABLES outcome,  \* of each request: "absent", "open", "committed",
                    \* "not_applied" or "failed"
          told,     \* the player was told
          version   \* of the canonical state

cvars == <<outcome, told, version>>

Init == /\ outcome = [r \in Requests |-> "absent"]
        /\ told = [r \in Requests |-> FALSE]
        /\ version = 0

Settled(r) == outcome[r] = "absent" \/ (outcome[r] # "open" /\ told[r])

\* A turn is accepted only when every earlier one is decided and told.
Submit(r) == /\ outcome[r] = "absent"
             /\ \A q \in Requests : Settled(q)
             /\ outcome' = [outcome EXCEPT ![r] = "open"]
             /\ UNCHANGED <<told, version>>

\* A mechanical result is applied first and told later.
Apply(r) == /\ outcome[r] = "open"
            /\ outcome' = [outcome EXCEPT ![r] = "committed"]
            /\ version' \in {version, version + 1}
            /\ UNCHANGED told

\* A narrative answer and a refusal are decided and told at once; they change
\* no canonical state.
Answer(r) == /\ outcome[r] = "open"
             /\ \E o \in {"committed", "not_applied"} :
                    outcome' = [outcome EXCEPT ![r] = o]
             /\ told' = [told EXCEPT ![r] = TRUE]
             /\ UNCHANGED version

GiveUp(r) == /\ outcome[r] = "open"
             /\ outcome' = [outcome EXCEPT ![r] = "failed"]
             /\ UNCHANGED <<told, version>>

\* Telling never undoes or repeats what was decided.
Tell(r) == /\ outcome[r] \in {"committed", "failed"}
           /\ ~told[r]
           /\ told' = [told EXCEPT ![r] = TRUE]
           /\ UNCHANGED <<outcome, version>>

Next == \E r \in Requests : Submit(r) \/ Apply(r) \/ Answer(r) \/ GiveUp(r) \/ Tell(r)

Spec == Init /\ [][Next]_cvars
=============================================================================
