---------------------------- MODULE TurnLifecycle ----------------------------
(***************************************************************************)
(* The life of a player's turn in one campaign: accepted by the API,       *)
(* leased, resolved and narrated by worker processes that may crash, stall *)
(* past their lease, or lose a race, while an administrator may stop the   *)
(* story and the player's right to the actor may be withdrawn.             *)
(*                                                                         *)
(* Every action is one database transaction, or one step of a worker       *)
(* between two transactions.  Transactions that take the Campaign row lock *)
(* (or, for acquire_lease, the Turn row) are atomic towards one another.   *)
(*                                                                         *)
(* Wall-clock time is abstracted to what a statement can read of it: a     *)
(* lease is "live" or "lapsed", a deadline "ahead" or "passed".            *)
(***************************************************************************)
EXTENDS Integers, Sequences, FiniteSets

CONSTANTS Requests,        \* request ids; a row of "turns" is keyed by one
          NoTurn,          \* stands for "no turn"
          Resolvers,       \* resolution worker processes
          Narrators,       \* narration worker processes
          InputKinds,      \* kinds of content the client submits
          OpenScenario,    \* the run's scenario accepts open actions (mvp_v2)
          MaxAttempts,     \* WorkerPhasePolicy.max_attempts
          Budget,          \* turns.llm_call_budget
          MaxFaults        \* bound: crashes, stalls, stops and revocations

ASSUME NoTurnAssumption == NoTurn \notin Requests
ASSUME KindsAssumption ==
          InputKinds \subseteq {"free", "choice", "registered", "confirm"}
ASSUME ScenarioAssumption == OpenScenario \in BOOLEAN
ASSUME BoundsAssumption ==
          /\ MaxAttempts \in Nat \ {0}
          /\ Budget \in Nat
          /\ MaxFaults \in Nat

VARIABLES turns,      \* resolution columns of the "turns" rows
          narrations, \* narration columns of the same rows
          campaign,   \* state_version, scenario status, story lifecycle, actor rights
          events,     \* the campaign's "events" rows in sequence order
          resolver,   \* control state of each resolution worker
          narrator,   \* control state of each narration worker
          physical,   \* history: provider requests sent for each turn
          faults      \* bound: faults so far

vars == <<turns, narrations, campaign, events, resolver, narrator, physical, faults>>

-----------------------------------------------------------------------------
(* Rows and worker states *)

Leases    == {"none", "live", "lapsed"}
Deadlines == {"none", "ahead", "passed"}
Routes    == {"none", "narrative", "mechanical"}

ResolverPCs == {"idle", "load", "route", "reserve", "call", "bind", "preview",
                "promote", "commitNarrative", "commit", "finalize", "fail",
                "terminal", "fallback"}
NarratorPCs == {"idle", "load", "reserve", "call", "save", "fail", "fallback"}

TurnRow == [status    : {"absent", "pending", "resolving",
                         "committed", "not_applied", "failed"},
            epoch     : Nat,              \* worker_epoch
            lease     : Leases,           \* lease_until
            attempts  : Nat,              \* resolution_attempt_count
            deadline  : Deadlines,        \* resolution_deadline
            route     : Routes,
            calls     : Nat,              \* llm_call_count
            expected  : Nat,              \* expected_state_version
            committed : Nat,              \* committed_state_version
            input     : {"free", "registered", "confirm"},
            confirms  : Requests \cup {NoTurn}, \* source of the confirmed proposal
            proposal  : BOOLEAN]          \* a risk proposal was saved for it

NarrationRow == [status   : {"absent", "pending", "generating", "completed", "fallback"},
                 epoch    : Nat,          \* narration_worker_epoch
                 lease    : Leases,
                 attempts : Nat,
                 deadline : Deadlines,
                 offers   : BOOLEAN]      \* its turn_choices are not invalidated

Campaign == [version : Nat,               \* campaigns.state_version
             ended   : BOOLEAN,           \* the scenario run is completed
             blocked : BOOLEAN,           \* stories.lifecycle = 'blocked'
             actorOK : BOOLEAN]           \* membership and control of the actor

Event == [turn : Requests, type : {"resolved", "narrated"}, version : Nat]

ResolverState == [pc      : ResolverPCs,
                  turn    : Requests \cup {NoTurn},
                  epoch   : Nat,
                  base    : Nat,          \* snapshot.state_version
                  cleanup : BOOLEAN,      \* lease.terminal_cleanup
                  route   : Routes,
                  again   : BOOLEAN]      \* second pass of "for attempt in range(2)"

NarratorState == [pc      : NarratorPCs,
                  turn    : Requests \cup {NoTurn},
                  epoch   : Nat,
                  cleanup : BOOLEAN]

NoRow == [status |-> "absent", epoch |-> 0, lease |-> "none", attempts |-> 0,
          deadline |-> "none", route |-> "none", calls |-> 0, expected |-> 0,
          committed |-> 0, input |-> "free", confirms |-> NoTurn, proposal |-> FALSE]

NoNarration == [status |-> "absent", epoch |-> 0, lease |-> "none",
                attempts |-> 0, deadline |-> "none", offers |-> FALSE]

IdleResolver == [pc |-> "idle", turn |-> NoTurn, epoch |-> 0, base |-> 0,
                 cleanup |-> FALSE, route |-> "none", again |-> FALSE]

IdleNarrator == [pc |-> "idle", turn |-> NoTurn, epoch |-> 0, cleanup |-> FALSE]

Init == /\ turns = [t \in Requests |-> NoRow]
        /\ narrations = [t \in Requests |-> NoNarration]
        /\ campaign = [version |-> 0, ended |-> FALSE, blocked |-> FALSE, actorOK |-> TRUE]
        /\ events = << >>
        /\ resolver = [w \in Resolvers |-> IdleResolver]
        /\ narrator = [n \in Narrators |-> IdleNarrator]
        /\ physical = [t \in Requests |-> 0]
        /\ faults = 0

-----------------------------------------------------------------------------
(* Conditions of the SQL statements *)

Unresolved(t) == turns[t].status \in {"pending", "resolving"}
Untold(t)     == narrations[t].status \in {"pending", "generating"}
Open(t)       == Unresolved(t) \/ Untold(t)

\* the open_turn query of accept_pending
NoOpenTurn == \A r \in Requests : ~Open(r)

ResolutionOver(t) == turns[t].status \in {"committed", "not_applied", "failed"}

\* Mutant: any worker that once leased the turn owns it.
OwnsTurnAnyEpoch(t, e) == turns[t].status = "resolving"

\* resolution_status='resolving' AND worker_epoch=:epoch
OwnsTurn(t, e) == turns[t].status = "resolving" /\ turns[t].epoch = e

\* ... AND lease_until>clock_timestamp()
HoldsTurn(t, e) == OwnsTurn(t, e) /\ turns[t].lease = "live"

\* narration_status='generating' AND narration_worker_epoch=:epoch
\* AND narration_lease_until>clock_timestamp()
HoldsNarration(t, e) == /\ narrations[t].status = "generating"
                        /\ narrations[t].epoch = e
                        /\ narrations[t].lease = "live"

\* llm_call_count<llm_call_budget
\* AND (route IS DISTINCT FROM 'narrative' OR llm_call_count<1)
CallAllowed(t) == /\ turns[t].calls < Budget
                  /\ turns[t].route # "narrative" \/ turns[t].calls < 1

\* terminal_cleanup of a candidate row of either phase
Exhausted(row) == /\ row.deadline # "none"
                  /\ row.attempts >= MaxAttempts \/ row.deadline = "passed"

Attemptable(row) == row.attempts < MaxAttempts /\ row.deadline # "passed"

\* the columns acquire_lease assigns, the same in both phases
Leased(row, status) ==
    [row EXCEPT !.status   = status,
                !.epoch    = @ + 1,
                !.lease    = "live",
                !.attempts = IF Exhausted(row) THEN @ ELSE @ + 1,
                !.deadline = IF @ = "none" THEN "ahead" ELSE @]

\* Mutant: a lapsed lease is never taken over.
PendingOnly(t) == /\ ~campaign.blocked
                  /\ turns[t].status = "pending"

ResolutionCandidate(t) ==
    /\ ~campaign.blocked
    /\ turns[t].status = "pending" \/ (turns[t].status = "resolving" /\ turns[t].lease = "lapsed")
    /\ Attemptable(turns[t]) \/ Exhausted(turns[t])

\* Mutant: a narration that is over may be leased again.
AnyNarration(t) == /\ ~campaign.blocked
                   /\ ResolutionOver(t)
                   /\ narrations[t].lease # "live"

NarrationCandidate(t) ==
    /\ ~campaign.blocked
    /\ ResolutionOver(t)
    /\ \/ narrations[t].status = "pending"
       \/ narrations[t].status = "generating" /\ narrations[t].lease = "lapsed"
    /\ Attemptable(narrations[t]) \/ Exhausted(narrations[t])

\* turn_choices that accept_pending would take for the current version
ChoiceAvailable(t) == /\ narrations[t].offers
                      /\ turns[t].status = "committed"
                      /\ narrations[t].status \in {"completed", "fallback"}
                      /\ turns[t].committed = campaign.version

\* Mutant: a proposal outlives the state it warned about.
ProposalNeverStale(source, version) == turns[source].proposal

\* mvp_action_proposals rows carry the version their source turn expected
ProposalStands(source, version) == /\ turns[source].proposal
                                   /\ turns[source].expected = version

-----------------------------------------------------------------------------
(* The API: PostgresTurnRepository.accept_pending.  A replayed request id  *)
(* finds its row and changes nothing, so it is a stuttering step.          *)

\* Mutant: earlier choices are not invalidated.
AcceptKeepingChoices(t, input, source) ==
    /\ turns' = [turns EXCEPT ![t] =
                    [NoRow EXCEPT !.status   = "pending",
                                  !.expected = campaign.version,
                                  !.input    = input,
                                  !.confirms = source]]
    /\ narrations' = [narrations EXCEPT ![t].status = "pending"]

AcceptRow(t, input, source) ==
    /\ turns' = [turns EXCEPT ![t] =
                    [NoRow EXCEPT !.status   = "pending",
                                  !.expected = campaign.version,
                                  !.input    = input,
                                  !.confirms = source]]
    /\ narrations' = [r \in Requests |->
                        IF r = t THEN [NoNarration EXCEPT !.status = "pending"]
                                 ELSE [narrations[r] EXCEPT !.offers = FALSE]]

Accept(t) ==
    /\ ~campaign.blocked
    /\ turns[t].status = "absent"
    /\ ~campaign.ended
    /\ campaign.actorOK
    /\ NoOpenTurn
    /\ \/ /\ "free" \in InputKinds
          /\ AcceptRow(t, "free", NoTurn)
       \/ /\ "choice" \in InputKinds
          /\ \E r \in Requests : ChoiceAvailable(r)
          /\ AcceptRow(t, "free", NoTurn)
       \/ /\ "registered" \in InputKinds
          /\ AcceptRow(t, "registered", NoTurn)
       \/ /\ "confirm" \in InputKinds
          /\ \E s \in Requests :
                /\ turns[s].status = "not_applied"
                /\ ProposalStands(s, campaign.version)
                /\ AcceptRow(t, "confirm", s)
    /\ UNCHANGED <<campaign, events, resolver, narrator, physical, faults>>

-----------------------------------------------------------------------------
(* The resolution worker: SkillCheckResolutionWorker *)

GoTo(w, pc) == resolver' = [resolver EXCEPT ![w].pc = pc]
Rest(w)     == resolver' = [resolver EXCEPT ![w] = IdleResolver]

\* acquire_lease for a resolution
AcquireTurn(w, t) ==
    /\ resolver[w].pc = "idle"
    /\ ResolutionCandidate(t)
    /\ turns' = [turns EXCEPT ![t] = Leased(@, "resolving")]
    /\ resolver' = [resolver EXCEPT ![w] =
                        [IdleResolver EXCEPT !.pc      = "load",
                                             !.turn    = t,
                                             !.epoch   = turns[t].epoch + 1,
                                             !.cleanup = Exhausted(turns[t])]]
    /\ UNCHANGED <<narrations, campaign, events, narrator, physical, faults>>

\* Where _run_once goes once the route is known.
FirstStep(t, route) ==
    IF route = "narrative" \/ turns[t].input = "free" THEN "reserve" ELSE "bind"

\* The snapshot keeps the Campaign row locked while get_resolution_work reads.
LoadWork(w) ==
    LET t == resolver[w].turn
        held == HoldsTurn(t, resolver[w].epoch)
        Proceed(pc) == resolver' =
            [resolver EXCEPT ![w] = [@ EXCEPT !.pc      = pc,
                                              !.base    = campaign.version,
                                              !.route   = turns[t].route,
                                              !.cleanup = FALSE]]
    IN  /\ resolver[w].pc = "load"
        /\ \/ /\ ~held
              /\ Rest(w)
           \/ /\ held /\ ~campaign.actorOK
              /\ Proceed("finalize")
           \/ /\ held /\ campaign.actorOK /\ resolver[w].cleanup
              /\ Proceed("fail")
           \/ /\ held /\ campaign.actorOK /\ ~resolver[w].cleanup
              /\ turns[t].expected # campaign.version
              /\ Proceed("finalize")
           \/ /\ held /\ campaign.actorOK /\ ~resolver[w].cleanup
              /\ turns[t].expected = campaign.version
              /\ Proceed(IF turns[t].route = "none" THEN "route"
                                                    ELSE FirstStep(t, turns[t].route))
        /\ UNCHANGED <<turns, narrations, campaign, events, narrator, physical, faults>>

\* The router decides for free text; the database keeps the first decision.
ChooseRoute(w) ==
    LET t == resolver[w].turn
    IN  /\ resolver[w].pc = "route"
        /\ \/ \E route \in {"narrative", "mechanical"} :
                /\ turns[t].input = "free" \/ route = "mechanical"
                /\ HoldsTurn(t, resolver[w].epoch)
                /\ turns' = [turns EXCEPT ![t].route = route]
                /\ resolver' = [resolver EXCEPT
                        ![w] = [@ EXCEPT !.pc = FirstStep(t, route), !.route = route]]
           \/ /\ ~HoldsTurn(t, resolver[w].epoch)
              /\ Rest(w)
              /\ UNCHANGED turns
        /\ UNCHANGED <<narrations, campaign, events, narrator, physical, faults>>

\* LLMCallRepository.reserve, in its own transaction.  The refusal stands
\* also for an exhausted daily quota and a timeout, so it is always possible.
ReserveCall(w) ==
    LET t == resolver[w].turn
    IN  /\ resolver[w].pc = "reserve"
        /\ \/ /\ ~campaign.blocked
              /\ HoldsTurn(t, resolver[w].epoch)
              /\ turns[t].deadline = "ahead"
              /\ CallAllowed(t)
              /\ turns' = [turns EXCEPT ![t].calls = @ + 1]
              /\ GoTo(w, "call")
           \/ /\ GoTo(w, "fail")
              /\ UNCHANGED turns
        /\ UNCHANGED <<narrations, campaign, events, narrator, physical, faults>>

\* validate_player_request refuses text that leaves an open scenario.
RefuseBoundary(w) ==
    /\ resolver[w].pc = "reserve"
    /\ OpenScenario
    /\ resolver[w].route = "mechanical"
    /\ ~resolver[w].again
    /\ GoTo(w, "finalize")
    /\ UNCHANGED <<turns, narrations, campaign, events, narrator, physical, faults>>

\* Mutant: the second pass of the loop skips the reservation.
AskAgain(w) == resolver' = [resolver EXCEPT ![w] = [@ EXCEPT !.pc = "call", !.again = TRUE]]

\* The plan is rejected once, with feedback to the model.
Reconsider(w) == resolver' = [resolver EXCEPT ![w] = [@ EXCEPT !.pc = "reserve", !.again = TRUE]]

\* One provider request and what the worker does with the reply.
CallModel(w) ==
    LET t == resolver[w].turn
        route == resolver[w].route
    IN  /\ resolver[w].pc = "call"
        /\ physical' = [physical EXCEPT ![t] = @ + 1]
        /\ \/ GoTo(w, "fail")        \* timeout, refusal, broken output, transport
           \/ GoTo(w, "finalize")    \* clarification, or a plan that cannot be bound
           \/ /\ OpenScenario        \* a plan the preflight rejects
              /\ route = "mechanical"
              /\ ~resolver[w].again
              /\ Reconsider(w)
           \/ /\ OpenScenario        \* _risk_for_actions
              /\ GoTo(w, "preview")
           \/ /\ route = "mechanical"
              /\ GoTo(w, "commit")
           \/ /\ route = "narrative"
              /\ GoTo(w, "commitNarrative")
           \/ /\ route = "narrative" \* the model proposed actions after all
              /\ GoTo(w, "promote")
        /\ UNCHANGED <<turns, narrations, campaign, events, narrator, faults>>

\* Registered and confirmed actions are bound without the model.
BindAction(w) ==
    LET t == resolver[w].turn
        confirmed == turns[t].input = "confirm"
    IN  /\ resolver[w].pc = "bind"
        /\ \/ GoTo(w, "fail")
           \/ GoTo(w, "finalize")
           \/ /\ OpenScenario /\ ~confirmed
              /\ GoTo(w, "preview")
           \/ /\ confirmed => ProposalStands(turns[t].confirms, turns[t].expected)
              /\ GoTo(w, "commit")
        /\ UNCHANGED <<turns, narrations, campaign, events, narrator, physical, faults>>

\* promote_to_mechanical commits on its own, before the actions are resolved.
Promote(w) ==
    LET t == resolver[w].turn
    IN  /\ resolver[w].pc = "promote"
        /\ \/ /\ HoldsTurn(t, resolver[w].epoch)
              /\ turns[t].route = "narrative"
              /\ turns' = [turns EXCEPT ![t].route = "mechanical"]
              /\ \E pc \in {"commit", "finalize", "fail"} : GoTo(w, pc)
           \/ /\ ~(HoldsTurn(t, resolver[w].epoch) /\ turns[t].route = "narrative")
              /\ Rest(w)
              /\ UNCHANGED turns
        /\ UNCHANGED <<narrations, campaign, events, narrator, physical, faults>>

Tell(t, version)   == [turn |-> t, type |-> "narrated", version |-> version]
Result(t, version) == [turn |-> t, type |-> "resolved", version |-> version]

\* Mutant: the refusal is told but the narration stays due.
WriteNotAppliedUntold(t, proposal) ==
    /\ turns' = [turns EXCEPT ![t] = [@ EXCEPT !.status   = "not_applied",
                                               !.lease    = "none",
                                               !.proposal = proposal]]
    /\ events' = Append(events, Tell(t, campaign.version))
    /\ UNCHANGED narrations

\* The writes of finalize_not_applied; proposal says save_risk_proposal ran first.
WriteNotApplied(t, proposal) ==
    /\ turns' = [turns EXCEPT ![t] = [@ EXCEPT !.status   = "not_applied",
                                               !.lease    = "none",
                                               !.proposal = proposal]]
    /\ narrations' = [narrations EXCEPT ![t].status = "completed"]
    /\ events' = Append(events, Tell(t, campaign.version))

\* _finalize_not_applied: an unauthorized or expired owner leaves the row alone.
FinalizeNotApplied(w) ==
    LET t == resolver[w].turn
        owns == OwnsTurn(t, resolver[w].epoch)
        live == turns[t].lease = "live"
    IN  /\ resolver[w].pc = "finalize"
        /\ \/ /\ ~campaign.blocked
              /\ owns /\ live /\ turns[t].deadline = "ahead"
              /\ WriteNotApplied(t, FALSE)
              /\ Rest(w)
           \/ /\ campaign.blocked \/ ~owns \/ ~live
              /\ Rest(w)
              /\ UNCHANGED <<turns, narrations, events>>
           \/ /\ ~campaign.blocked
              /\ owns /\ live /\ turns[t].deadline = "passed"
              /\ GoTo(w, "fail")
              /\ UNCHANGED <<turns, narrations, events>>
        /\ UNCHANGED <<campaign, narrator, physical, faults>>

\* _preview_risk: the proposal and the not_applied answer, in one transaction.
PreviewRisk(w) ==
    LET t == resolver[w].turn
        owns == OwnsTurn(t, resolver[w].epoch)
        live == turns[t].lease = "live"
        unchanged == campaign.version = turns[t].expected /\ campaign.actorOK
    IN  /\ resolver[w].pc = "preview"
        /\ \/ /\ owns /\ live /\ turns[t].deadline = "ahead"
              /\ unchanged /\ ~campaign.blocked
              /\ WriteNotApplied(t, TRUE)
              /\ Rest(w)
           \/ /\ owns /\ ~live
              /\ Rest(w)
              /\ UNCHANGED <<turns, narrations, events>>
           \/ /\ owns /\ live /\ turns[t].deadline = "passed"
              /\ GoTo(w, "fail")
              /\ UNCHANGED <<turns, narrations, events>>
           \/ /\ ~owns \/ (live /\ turns[t].deadline = "ahead"
                                /\ (~unchanged \/ campaign.blocked))
              /\ GoTo(w, "finalize")
              /\ UNCHANGED <<turns, narrations, events>>
        /\ UNCHANGED <<campaign, narrator, physical, faults>>

\* The checks both commits share once the turn is known to be the worker's:
\* authorization and version first, then the lease, then the deadline.
Committable(w) ==
    /\ campaign.actorOK
    /\ campaign.version = resolver[w].base

CommitRefused(w, owns) ==
    LET t == resolver[w].turn
    IN  \/ /\ campaign.blocked
           /\ GoTo(w, "finalize")
        \/ /\ ~campaign.blocked /\ ~owns        \* already committed, or fenced off
           /\ Rest(w)
        \/ /\ ~campaign.blocked /\ owns /\ ~Committable(w)
           /\ GoTo(w, "finalize")
        \/ /\ ~campaign.blocked /\ owns /\ Committable(w)
           /\ turns[t].lease = "lapsed"
           /\ Rest(w)
        \/ /\ ~campaign.blocked /\ owns /\ Committable(w)
           /\ turns[t].lease = "live" /\ turns[t].deadline = "passed"
           /\ GoTo(w, "fail")

\* Mutant: the stop of the story is not read again at the commit.
MayCommitStopped(w, owns) ==
    LET t == resolver[w].turn
    IN  /\ owns /\ Committable(w)
        /\ turns[t].lease = "live" /\ turns[t].deadline = "ahead"

MayCommit(w, owns) ==
    LET t == resolver[w].turn
    IN  /\ ~campaign.blocked /\ owns /\ Committable(w)
        /\ turns[t].lease = "live" /\ turns[t].deadline = "ahead"

\* Mutant: the new version is read off the event sequence.
VersionFromSequence(changed) == IF changed THEN Len(events) + 1 ELSE campaign.version

\* ResolutionProjection.committed_state_version
NextVersion(changed) == campaign.version + (IF changed THEN 1 ELSE 0)

\* commit_resolution.  An open action always changes the scenario; another may
\* leave the canonical state, and then the version, as it was.
CommitResolution(w) ==
    LET t == resolver[w].turn
        owns == OwnsTurn(t, resolver[w].epoch)
    IN  /\ resolver[w].pc = "commit"
        /\ \/ \E changed \in BOOLEAN, ends \in BOOLEAN :
                /\ MayCommit(w, owns)
                /\ OpenScenario \/ ends => changed
                /\ LET version == NextVersion(changed)
                   IN  /\ campaign' = [campaign EXCEPT !.version = version,
                                                       !.ended   = @ \/ ends]
                       /\ turns' = [turns EXCEPT ![t] = [@ EXCEPT !.status    = "committed",
                                                                  !.route     = "mechanical",
                                                                  !.committed = version]]
                       /\ events' = Append(events, Result(t, version))
                /\ Rest(w)
           \/ /\ CommitRefused(w, owns)
              /\ UNCHANGED <<turns, campaign, events>>
           \/ /\ ~campaign.blocked /\ owns      \* InvalidCommitBundleError
              /\ Rest(w)
              /\ UNCHANGED <<turns, campaign, events>>
        /\ UNCHANGED <<narrations, narrator, physical, faults>>

\* commit_narrative: resolution and narration become final together.
CommitNarrative(w) ==
    LET t == resolver[w].turn
        owns == OwnsTurn(t, resolver[w].epoch) /\ turns[t].route = "narrative"
    IN  /\ resolver[w].pc = "commitNarrative"
        /\ \/ \E offers \in BOOLEAN :
                /\ MayCommit(w, owns)
                /\ turns' = [turns EXCEPT ![t] = [@ EXCEPT !.status    = "committed",
                                                           !.committed = campaign.version,
                                                           !.lease     = "none"]]
                /\ narrations' = [narrations EXCEPT ![t] = [@ EXCEPT !.status = "completed",
                                                                     !.offers = offers]]
                /\ events' = Append(events, Tell(t, campaign.version))
                /\ Rest(w)
           \/ /\ CommitRefused(w, owns)
              /\ UNCHANGED <<turns, narrations, events>>
        /\ UNCHANGED <<campaign, narrator, physical, faults>>

\* Mutant: a failed attempt gives its reservation back.
RequeueRefunding(t) ==
    turns' = [turns EXCEPT ![t] = [@ EXCEPT !.status = "pending", !.lease = "none",
                                            !.calls = @ - 1]]

Requeue(t) == turns' = [turns EXCEPT ![t] = [@ EXCEPT !.status = "pending", !.lease = "none"]]

\* record_failure for a resolution.
RecordFailure(w) ==
    LET t == resolver[w].turn
        held == HoldsTurn(t, resolver[w].epoch)
        retry == /\ turns[t].attempts < MaxAttempts
                 /\ turns[t].deadline = "ahead"
                 /\ CallAllowed(t)
    IN  /\ resolver[w].pc = "fail"
        /\ \/ /\ campaign.blocked \/ ~held
              /\ Rest(w)
              /\ UNCHANGED turns
           \/ /\ ~campaign.blocked /\ held /\ retry
              /\ Requeue(t)
              /\ Rest(w)
           \/ /\ ~campaign.blocked /\ held /\ ~retry
              /\ turns' = [turns EXCEPT ![t] = [@ EXCEPT !.status = "failed", !.lease = "none"]]
              /\ GoTo(w, "terminal")
        /\ UNCHANGED <<narrations, campaign, events, narrator, physical, faults>>

\* _save_terminal_narration, first transaction: lease the failed turn's narration.
AcquireTerminal(w) ==
    LET t == resolver[w].turn
    IN  /\ resolver[w].pc = "terminal"
        /\ \/ /\ NarrationCandidate(t)
              /\ narrations' = [narrations EXCEPT ![t] = Leased(@, "generating")]
              /\ resolver' = [resolver EXCEPT
                      ![w] = [@ EXCEPT !.pc = "fallback", !.epoch = narrations[t].epoch + 1]]
           \/ /\ ~NarrationCandidate(t)
              /\ Rest(w)
              /\ UNCHANGED narrations
        /\ UNCHANGED <<turns, campaign, events, narrator, physical, faults>>

\* The writes of save_conditionally.  A turn without committed_state_version is
\* told at the campaign's current one.
WriteNarration(t, status, offers) ==
    /\ narrations' = [narrations EXCEPT ![t] = [@ EXCEPT !.status = status,
                                                         !.lease  = "none",
                                                         !.offers = offers]]
    /\ events' = Append(events,
                        Tell(t, IF turns[t].status = "committed"
                                THEN turns[t].committed ELSE campaign.version))

\* Mutant: the narration is saved whoever holds the lease by now.
MayTellUnconditionally(t, e) == ~campaign.blocked

MayTell(t, e) == ~campaign.blocked /\ HoldsNarration(t, e)

\* _save_terminal_narration, second transaction.
SaveTerminal(w) ==
    LET t == resolver[w].turn
    IN  /\ resolver[w].pc = "fallback"
        /\ \/ /\ MayTell(t, resolver[w].epoch)
              /\ WriteNarration(t, "fallback", FALSE)
           \/ /\ ~MayTell(t, resolver[w].epoch)
              /\ UNCHANGED <<narrations, events>>
        /\ Rest(w)
        /\ UNCHANGED <<turns, campaign, narrator, physical, faults>>

-----------------------------------------------------------------------------
(* The narration worker: NarrationWorker *)

NGoTo(n, pc) == narrator' = [narrator EXCEPT ![n].pc = pc]
NRest(n)     == narrator' = [narrator EXCEPT ![n] = IdleNarrator]

AcquireNarration(n, t) ==
    /\ narrator[n].pc = "idle"
    /\ NarrationCandidate(t)
    /\ narrations' = [narrations EXCEPT ![t] = Leased(@, "generating")]
    /\ narrator' = [narrator EXCEPT ![n] = [pc      |-> "load",
                                            turn    |-> t,
                                            epoch   |-> narrations[t].epoch + 1,
                                            cleanup |-> Exhausted(narrations[t])]]
    /\ UNCHANGED <<turns, campaign, events, resolver, physical, faults>>

\* get_work; a turn that never committed has no narration_input.
LoadNarration(n) ==
    LET t == narrator[n].turn
        held == HoldsNarration(t, narrator[n].epoch)
        hasInput == turns[t].status = "committed"
    IN  /\ narrator[n].pc = "load"
        /\ \/ /\ ~held
              /\ NRest(n)
           \/ /\ held /\ ~hasInput
              /\ NGoTo(n, "fallback")
           \/ /\ held /\ hasInput /\ narrator[n].cleanup
              /\ NGoTo(n, "fail")
           \/ /\ held /\ hasInput /\ ~narrator[n].cleanup
              /\ NGoTo(n, "reserve")
        /\ UNCHANGED <<turns, narrations, campaign, events, resolver, physical, faults>>

\* A stopped story raises AuthorizationError past _handle_failure.
ReserveNarration(n) ==
    LET t == narrator[n].turn
    IN  /\ narrator[n].pc = "reserve"
        /\ \/ /\ campaign.blocked
              /\ NRest(n)
              /\ UNCHANGED turns
           \/ /\ ~campaign.blocked
              /\ HoldsNarration(t, narrator[n].epoch)
              /\ narrations[t].deadline = "ahead"
              /\ CallAllowed(t)
              /\ turns' = [turns EXCEPT ![t].calls = @ + 1]
              /\ NGoTo(n, "call")
           \/ /\ ~campaign.blocked
              /\ NGoTo(n, "fail")
              /\ UNCHANGED turns
        /\ UNCHANGED <<narrations, campaign, events, resolver, physical, faults>>

CallNarrator(n) ==
    /\ narrator[n].pc = "call"
    /\ physical' = [physical EXCEPT ![narrator[n].turn] = @ + 1]
    /\ \E pc \in {"save", "fail"} : NGoTo(n, pc)
    /\ UNCHANGED <<turns, narrations, campaign, events, resolver, faults>>

SaveNarration(n) ==
    LET t == narrator[n].turn
        saves == MayTell(t, narrator[n].epoch) /\ narrations[t].deadline = "ahead"
    IN  /\ narrator[n].pc = "save"
        /\ \/ /\ campaign.blocked
              /\ NRest(n)
              /\ UNCHANGED <<narrations, events>>
           \/ \E offers \in BOOLEAN :
                /\ saves
                /\ WriteNarration(t, "completed", offers)
                /\ NRest(n)
           \/ /\ ~campaign.blocked /\ ~saves
              /\ NGoTo(n, "fail")
              /\ UNCHANGED <<narrations, events>>
        /\ UNCHANGED <<turns, campaign, resolver, physical, faults>>

\* record_failure for a narration; the terminal outcome keeps the lease, with
\* which _save_fallback then writes.
FailNarration(n) ==
    LET t == narrator[n].turn
        held == HoldsNarration(t, narrator[n].epoch)
        retry == /\ narrations[t].attempts < MaxAttempts
                 /\ narrations[t].deadline = "ahead"
                 /\ CallAllowed(t)
    IN  /\ narrator[n].pc = "fail"
        /\ \/ /\ campaign.blocked \/ ~held
              /\ NRest(n)
              /\ UNCHANGED narrations
           \/ /\ ~campaign.blocked /\ held /\ retry
              /\ narrations' = [narrations EXCEPT ![t] = [@ EXCEPT !.status = "pending",
                                                                   !.lease  = "none"]]
              /\ NRest(n)
           \/ /\ ~campaign.blocked /\ held /\ ~retry
              /\ NGoTo(n, "fallback")
              /\ UNCHANGED narrations
        /\ UNCHANGED <<turns, campaign, events, resolver, physical, faults>>

SaveFallback(n) ==
    LET t == narrator[n].turn
    IN  /\ narrator[n].pc = "fallback"
        /\ \/ /\ MayTell(t, narrator[n].epoch)
              /\ WriteNarration(t, "fallback", FALSE)
           \/ /\ ~MayTell(t, narrator[n].epoch)
              /\ UNCHANGED <<narrations, events>>
        /\ NRest(n)
        /\ UNCHANGED <<turns, campaign, resolver, physical, faults>>

-----------------------------------------------------------------------------
(* Time, crashes and the administrator *)

\* A worker still acts under the row's current epoch.
TurnAttended(t) == \E w \in Resolvers :
    resolver[w].turn = t /\ resolver[w].epoch = turns[t].epoch

NarrationAttended(t) ==
    \/ \E n \in Narrators : narrator[n].turn = t /\ narrator[n].epoch = narrations[t].epoch
    \/ \E w \in Resolvers : /\ resolver[w].turn = t
                            /\ resolver[w].pc = "fallback"
                            /\ resolver[w].epoch = narrations[t].epoch

\* request_timeout_seconds < lease_seconds: an attended lease lapses only when
\* its worker stalls, which is a fault; an unattended one simply runs out.
Fault == faults < MaxFaults /\ faults' = faults + 1

LapseTurn(t) ==
    /\ turns[t].status = "resolving" /\ turns[t].lease = "live"
    /\ IF TurnAttended(t) THEN Fault ELSE UNCHANGED faults
    /\ turns' = [turns EXCEPT ![t].lease = "lapsed"]
    /\ UNCHANGED <<narrations, campaign, events, resolver, narrator, physical>>

LapseNarration(t) ==
    /\ narrations[t].status = "generating" /\ narrations[t].lease = "live"
    /\ IF NarrationAttended(t) THEN Fault ELSE UNCHANGED faults
    /\ narrations' = [narrations EXCEPT ![t].lease = "lapsed"]
    /\ UNCHANGED <<turns, campaign, events, resolver, narrator, physical>>

\* WorkerPhasePolicy: deadline_seconds >= lease_seconds, so the deadline cannot
\* pass while the lease taken together with it still runs.
MayExpire(row) == row.deadline = "ahead" /\ ~(row.epoch = 1 /\ row.lease = "live")

PassTurnDeadline(t) ==
    /\ Unresolved(t) /\ MayExpire(turns[t])
    /\ turns' = [turns EXCEPT ![t].deadline = "passed"]
    /\ UNCHANGED <<narrations, campaign, events, resolver, narrator, physical, faults>>

PassNarrationDeadline(t) ==
    /\ Untold(t) /\ MayExpire(narrations[t])
    /\ narrations' = [narrations EXCEPT ![t].deadline = "passed"]
    /\ UNCHANGED <<turns, campaign, events, resolver, narrator, physical, faults>>

\* A process dies, or an exception no handler names ends this pass.
CrashResolver(w) ==
    /\ resolver[w].pc # "idle"
    /\ Fault
    /\ Rest(w)
    /\ UNCHANGED <<turns, narrations, campaign, events, narrator, physical>>

CrashNarrator(n) ==
    /\ narrator[n].pc # "idle"
    /\ Fault
    /\ NRest(n)
    /\ UNCHANGED <<turns, narrations, campaign, events, resolver, physical>>

BlockStory ==
    /\ ~campaign.blocked
    /\ Fault
    /\ campaign' = [campaign EXCEPT !.blocked = TRUE]
    /\ UNCHANGED <<turns, narrations, events, resolver, narrator, physical>>

UnblockStory ==
    /\ campaign.blocked
    /\ campaign' = [campaign EXCEPT !.blocked = FALSE]
    /\ UNCHANGED <<turns, narrations, events, resolver, narrator, physical, faults>>

\* Nothing under src/ withdraws the right; every transaction re-reads it.
RevokeActor ==
    /\ campaign.actorOK
    /\ Fault
    /\ campaign' = [campaign EXCEPT !.actorOK = FALSE]
    /\ UNCHANGED <<turns, narrations, events, resolver, narrator, physical>>

\* The program may stand still only when every turn is closed.
Quiescent ==
    /\ \A t \in Requests : ~Open(t)
    /\ UNCHANGED vars

-----------------------------------------------------------------------------
ResolverStep(w) ==
    \/ \E t \in Requests : AcquireTurn(w, t)
    \/ LoadWork(w)
    \/ ChooseRoute(w)
    \/ ReserveCall(w)
    \/ RefuseBoundary(w)
    \/ CallModel(w)
    \/ BindAction(w)
    \/ Promote(w)
    \/ FinalizeNotApplied(w)
    \/ PreviewRisk(w)
    \/ CommitResolution(w)
    \/ CommitNarrative(w)
    \/ RecordFailure(w)
    \/ AcquireTerminal(w)
    \/ SaveTerminal(w)

NarratorStep(n) ==
    \/ \E t \in Requests : AcquireNarration(n, t)
    \/ LoadNarration(n)
    \/ ReserveNarration(n)
    \/ CallNarrator(n)
    \/ SaveNarration(n)
    \/ FailNarration(n)
    \/ SaveFallback(n)

TimeStep(t) ==
    \/ LapseTurn(t)
    \/ LapseNarration(t)
    \/ PassTurnDeadline(t)
    \/ PassNarrationDeadline(t)

Environment ==
    \/ \E w \in Resolvers : CrashResolver(w)
    \/ \E n \in Narrators : CrashNarrator(n)
    \/ BlockStory
    \/ UnblockStory
    \/ RevokeActor

Next == \/ \E t \in Requests : Accept(t)
        \/ \E w \in Resolvers : ResolverStep(w)
        \/ \E n \in Narrators : NarratorStep(n)
        \/ \E t \in Requests : TimeStep(t)
        \/ Environment
        \/ Quiescent

Spec == Init /\ [][Next]_vars

\* Worker loops poll forever, and an unattended lease runs out.
Fairness ==
    /\ \A w \in Resolvers : WF_vars(ResolverStep(w))
    /\ \A n \in Narrators : WF_vars(NarratorStep(n))
    /\ \A t \in Requests : WF_vars(LapseTurn(t) /\ ~TurnAttended(t))
                           /\ WF_vars(LapseNarration(t) /\ ~NarrationAttended(t))

FairSpec == Spec /\ Fairness

-----------------------------------------------------------------------------
(* Properties *)

TypeOK == /\ turns \in [Requests -> TurnRow]
          /\ narrations \in [Requests -> NarrationRow]
          /\ campaign \in Campaign
          /\ events \in Seq(Event)
          /\ resolver \in [Resolvers -> ResolverState]
          /\ narrator \in [Narrators -> NarratorState]
          /\ physical \in [Requests -> Nat]
          /\ faults \in 0..MaxFaults

\* A campaign has at most one turn that is unresolved or not yet told, however
\* requests, retries and fallbacks interleave (contracts-v0.2.md:15).
OneOpenTurn == \A r, t \in Requests : Open(r) /\ Open(t) => r = t

ResolutionHolders(t) ==
    {w \in Resolvers : resolver[w].turn = t /\ HoldsTurn(t, resolver[w].epoch)}
NarrationHolders(t) ==
    {n \in Narrators : narrator[n].turn = t /\ HoldsNarration(t, narrator[n].epoch)}
FallbackHolders(t) ==
    {w \in Resolvers : /\ resolver[w].turn = t /\ resolver[w].pc = "fallback"
                       /\ HoldsNarration(t, resolver[w].epoch)}

\* Fencing: two workers never both pass the lease checks for the same phase of
\* the same turn, also when one was presumed dead and another took over; a
\* narration worker and a resolution worker that is writing the fallback of a
\* failed turn count as one phase.
OneHolder ==
    \A t \in Requests :
        /\ \A v, w \in ResolutionHolders(t) : v = w
        /\ \A m, n \in NarrationHolders(t) : m = n
        /\ \A v, w \in FallbackHolders(t) : v = w
        /\ NarrationHolders(t) = {} \/ FallbackHolders(t) = {}

At(t, type) == {i \in DOMAIN events : events[i].turn = t /\ events[i].type = type}

\* What the player reads is exactly what happened: a turn's result is written
\* at most once and only by a mechanical commit, its narration exactly once and
\* only when it is closed, after the result; nobody who lost the lease adds a
\* second one.
EventsMatchTurns ==
    \A t \in Requests :
        /\ Cardinality(At(t, "resolved")) =
              IF turns[t].status = "committed" /\ turns[t].route = "mechanical" THEN 1 ELSE 0
        /\ Cardinality(At(t, "narrated")) =
              IF narrations[t].status \in {"completed", "fallback"} THEN 1 ELSE 0
        /\ \A i \in At(t, "resolved"), j \in At(t, "narrated") : i < j

\* Every provider request was paid for by its own reservation, through crashes,
\* retries and the second pass of the proposal loop, and the reservations stay
\* within the turn's budget; a turn that stays narrative uses one.
CallsWithinBudget ==
    \A t \in Requests :
        /\ physical[t] <= turns[t].calls
        /\ turns[t].calls <= Budget
        /\ turns[t].route = "narrative" => turns[t].calls <= 1

\* A risky action the player confirmed is applied at most once, and to the very
\* state its warning described.
ProposalAppliedOnce ==
    \A s, t \in Requests :
        turns[t].status = "committed" /\ turns[t].confirms = s =>
            /\ turns[t].committed = turns[s].expected + 1
            /\ \A r \in Requests :
                  turns[r].status = "committed" /\ turns[r].confirms = s => r = t

\* Choices still on offer were made for the state now in force, by one turn, and
\* no later turn is under way (accept_pending would accept them).
OffersAreCurrent ==
    \A t \in Requests : narrations[t].offers =>
        /\ ChoiceAvailable(t)
        /\ \A r \in Requests : ~Open(r)
        /\ \A r \in Requests : narrations[r].offers => r = t

\* The outcome of a turn is final: no late worker, retry or fallback changes a
\* resolution or a narration once it is decided (contracts-v0.2.md:910-916).
OutcomeIsFinal ==
    [][\A t \in Requests :
          /\ ResolutionOver(t) =>
                /\ turns'[t].status = turns[t].status
                /\ turns'[t].committed = turns[t].committed
                /\ turns'[t].route = turns[t].route
          /\ narrations[t].status \in {"completed", "fallback"} =>
                narrations'[t].status = narrations[t].status]_vars

\* The canonical state moves only by a turn that commits on the very version the
\* player's request named, one version at a time.
AppliesToExpectedState ==
    [][campaign'.version # campaign.version =>
          /\ campaign'.version = campaign.version + 1
          /\ \E t \in Requests : /\ turns[t].status = "resolving"
                                /\ turns'[t].status = "committed"
                                /\ turns[t].expected = campaign.version]_vars

\* While the administrator's stop or the loss of the actor is in force no step
\* commits a turn; while the story is stopped none tells one or starts a call,
\* whatever the worker had read before.
StopIsObeyed ==
    [][/\ campaign.blocked \/ ~campaign.actorOK =>
             \A t \in Requests : turns'[t].status = "committed" => turns[t].status = "committed"
       /\ campaign.blocked =>
             /\ events' = events
             /\ \A t \in Requests : turns'[t].calls <= turns[t].calls]_vars

\* Unless the story stays stopped, every accepted turn is closed with something
\* told to the player: committed, refused or given up.
EveryTurnCloses ==
    <>[](~campaign.blocked) => \A t \in Requests : Open(t) ~> ~Open(t)


-----------------------------------------------------------------------------
(* What the turn promises, as TurnContract states it *)

Outcome == [t \in Requests |->
              CASE Unresolved(t) -> "open"
                [] OTHER -> turns[t].status]

Told == [t \in Requests |-> narrations[t].status \in {"completed", "fallback"}]

Contract == INSTANCE TurnContract
              WITH outcome <- Outcome, told <- Told, version <- campaign.version

\* Two-phase processing by competing workers implements the contract: each turn
\* is decided once and told once, in the order the contract allows.
ImplementsContract == Contract!Spec

=============================================================================
