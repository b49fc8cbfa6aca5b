----------------------------- MODULE JobContract ------------------------------
(***************************************************************************)
(* What the authoring queue promises an author, with neither workers nor   *)
(* leases: a job is paid for at most once and ends at most once, a result  *)
(* exists only for a request that was paid for, and an author never has    *)
(* more than MaxActive jobs waiting.                                       *)
(***************************************************************************)
EXTENDS Naturals, FiniteSets

CONSTANTS Jobs, Owners, Owner, MaxActive

VARIABLES outcome,  \* of each job: "absent", "waiting", "succeeded", "failed"
                    \* or "cancelled"
          asked     \* the provider request was reserved

cvars == <<outcome, asked>>

Init == /\ outcome = [j \in Jobs |-> "absent"]
        /\ asked = [j \in Jobs |-> FALSE]

Waiting(o) == {j \in Jobs : Owner[j] = o /\ outcome[j] = "waiting"}

Submit(j) == /\ outcome[j] = "absent"
             /\ Cardinality(Waiting(Owner[j])) < MaxActive
             /\ outcome' = [outcome EXCEPT ![j] = "waiting"]
             /\ UNCHANGED asked

Ask(j) == /\ outcome[j] = "waiting"
          /\ ~asked[j]
          /\ asked' = [asked EXCEPT ![j] = TRUE]
          /\ UNCHANGED outcome

Deliver(j) == /\ outcome[j] = "waiting"
              /\ asked[j]
              /\ outcome' = [outcome EXCEPT ![j] = "succeeded"]
              /\ UNCHANGED asked

Withdraw(j) == /\ outcome[j] = "waiting"
               /\ outcome' = [outcome EXCEPT ![j] = "cancelled"]
               /\ UNCHANGED asked

\* One pass over the queue may give up several jobs.
GiveUp(S) == /\ \A j \in S : outcome[j] = "waiting"
             /\ outcome' = [j \in Jobs |-> IF j \in S THEN "failed" ELSE outcome[j]]
             /\ UNCHANGED asked

Next == \/ \E j \in Jobs : Submit(j) \/ Ask(j) \/ Deliver(j) \/ Withdraw(j)
        \/ \E S \in SUBSET Jobs : GiveUp(S)

Spec == Init /\ [][Next]_cvars
=============================================================================
