------------------------- MODULE TurnLifecycleProofs -------------------------
(***************************************************************************)
(* Proofs about TurnLifecycle for any number of requests and workers, any  *)
(* budget, any number of attempts and any bound on the faults.  In order:  *)
(* types; the rows - one open turn per campaign, final outcomes, obedience *)
(* to a stop, the implementation of TurnContract, the event log and the    *)
(* choices on offer; the fences - no two workers ever hold the same phase  *)
(* of a turn, turns are applied to the state version their requests named, *)
(* a confirmed proposal is applied once, no turn outspends its budget.     *)
(***************************************************************************)
EXTENDS TurnLifecycle, FiniteSetTheorems, TLAPS

-----------------------------------------------------------------------------
(* Types *)

\* A worker works on a turn exactly while it is not idle.
ResolversTyped ==
    /\ resolver \in [Resolvers -> ResolverState]
    /\ \A w \in Resolvers : resolver[w].pc = "idle" <=> resolver[w].turn = NoTurn
NarratorsTyped ==
    /\ narrator \in [Narrators -> NarratorState]
    /\ \A n \in Narrators : narrator[n].pc = "idle" <=> narrator[n].turn = NoTurn
TurnsTyped == turns \in [Requests -> TurnRow]
NarrationsTyped == narrations \in [Requests -> NarrationRow]
LogTyped == campaign \in Campaign /\ events \in Seq(Event)
CountsTyped == physical \in [Requests -> Nat] /\ faults \in 0..MaxFaults

Typed == /\ ResolversTyped /\ NarratorsTyped /\ TurnsTyped /\ NarrationsTyped
         /\ LogTyped /\ CountsTyped

USE NoTurnAssumption, KindsAssumption, ScenarioAssumption, BoundsAssumption

LEMMA TypedIsTypeOK == Typed => TypeOK
  BY DEF Typed, TypeOK, ResolversTyped, NarratorsTyped, TurnsTyped, NarrationsTyped,
         LogTyped, CountsTyped

LEMMA TypedInit == Init => Typed
  BY DEF Init, Typed, ResolversTyped, NarratorsTyped, TurnsTyped, NarrationsTyped,
         LogTyped, CountsTyped, NoRow, NoNarration, IdleResolver, IdleNarrator,
         TurnRow, NarrationRow, Campaign, Event, ResolverState, NarratorState,
         Leases, Deadlines, Routes, ResolverPCs, NarratorPCs

LEMMA GoToTyped ==
  ASSUME ResolversTyped, NEW w \in Resolvers, resolver[w].pc # "idle",
         NEW pc \in ResolverPCs \ {"idle"}, GoTo(w, pc)
  PROVE  ResolversTyped'
  BY DEF GoTo, ResolversTyped, ResolverState

LEMMA RestTyped ==
  ASSUME ResolversTyped, NEW w \in Resolvers, Rest(w)
  PROVE  ResolversTyped'
  BY DEF Rest, IdleResolver, ResolversTyped, ResolverState, ResolverPCs, Routes

LEMMA NGoToTyped ==
  ASSUME NarratorsTyped, NEW n \in Narrators, narrator[n].pc # "idle",
         NEW pc \in NarratorPCs \ {"idle"}, NGoTo(n, pc)
  PROVE  NarratorsTyped'
  BY DEF NGoTo, NarratorsTyped, NarratorState

LEMMA NRestTyped ==
  ASSUME NarratorsTyped, NEW n \in Narrators, NRest(n)
  PROVE  NarratorsTyped'
  BY DEF NRest, IdleNarrator, NarratorsTyped, NarratorState, NarratorPCs

LEMMA LeasedTurn ==
  ASSUME NEW row \in TurnRow PROVE Leased(row, "resolving") \in TurnRow
  <1>1. (IF Exhausted(row) THEN row.attempts ELSE row.attempts + 1) \in Nat
    BY DEF TurnRow
  <1>2. (IF row.deadline = "none" THEN "ahead" ELSE row.deadline) \in Deadlines
    BY DEF TurnRow, Deadlines
  <1>3. row.epoch + 1 \in Nat
    BY DEF TurnRow
  <1>. QED BY <1>1, <1>2, <1>3 DEF Leased, TurnRow, Leases

LEMMA LeasedNarration ==
  ASSUME NEW row \in NarrationRow PROVE Leased(row, "generating") \in NarrationRow
  <1>1. (IF Exhausted(row) THEN row.attempts ELSE row.attempts + 1) \in Nat
    BY DEF NarrationRow
  <1>2. (IF row.deadline = "none" THEN "ahead" ELSE row.deadline) \in Deadlines
    BY DEF NarrationRow, Deadlines
  <1>3. row.epoch + 1 \in Nat
    BY DEF NarrationRow
  <1>. QED BY <1>1, <1>2, <1>3 DEF Leased, NarrationRow, Leases

\* Writing a well-typed row keeps a table well typed.
LEMMA WriteTurn ==
  ASSUME TurnsTyped, NEW t \in Requests, NEW row \in TurnRow, turns' = [turns EXCEPT ![t] = row]
  PROVE  TurnsTyped'
  BY DEF TurnsTyped

LEMMA WriteNarrationRow ==
  ASSUME NarrationsTyped, NEW t \in Requests, NEW row \in NarrationRow,
         narrations' = [narrations EXCEPT ![t] = row]
  PROVE  NarrationsTyped'
  BY DEF NarrationsTyped

LEMMA WriteResolver ==
  ASSUME ResolversTyped, NEW w \in Resolvers, NEW state \in ResolverState,
         state.pc # "idle", state.turn # NoTurn, resolver' = [resolver EXCEPT ![w] = state]
  PROVE  ResolversTyped'
  BY DEF ResolversTyped

\* The rows the actions write.
LEMMA RoutedRow ==
  ASSUME NEW row \in TurnRow, NEW route \in Routes
  PROVE  [row EXCEPT !.route = route] \in TurnRow
  BY DEF TurnRow

LEMMA ReservedRow ==
  ASSUME NEW row \in TurnRow PROVE [row EXCEPT !.calls = row.calls + 1] \in TurnRow
  BY DEF TurnRow

LEMMA NotAppliedRow ==
  ASSUME NEW row \in TurnRow, NEW proposal \in BOOLEAN
  PROVE  [row EXCEPT !.status = "not_applied", !.lease = "none", !.proposal = proposal] \in TurnRow
  BY DEF TurnRow, Leases

LEMMA CommittedRow ==
  ASSUME NEW row \in TurnRow, NEW v \in Nat
  PROVE  [row EXCEPT !.status = "committed", !.route = "mechanical", !.committed = v] \in TurnRow
  BY DEF TurnRow, Routes

LEMMA AnsweredRow ==
  ASSUME NEW row \in TurnRow, NEW v \in Nat
  PROVE  [row EXCEPT !.status = "committed", !.committed = v, !.lease = "none"] \in TurnRow
  BY DEF TurnRow, Leases

LEMMA FailedRow ==
  ASSUME NEW row \in TurnRow, NEW status \in {"pending", "failed"}
  PROVE  [row EXCEPT !.status = status, !.lease = "none"] \in TurnRow
  BY DEF TurnRow, Leases

LEMMA ToldRow ==
  ASSUME NEW row \in NarrationRow, NEW status \in {"completed", "fallback"}, NEW offers \in BOOLEAN
  PROVE  [row EXCEPT !.status = status, !.lease = "none", !.offers = offers] \in NarrationRow
  BY DEF NarrationRow, Leases

LEMMA AcceptRowTyped ==
  ASSUME Typed, NEW t \in Requests, NEW input \in {"free", "registered", "confirm"},
         NEW s \in Requests \cup {NoTurn}, AcceptRow(t, input, s)
  PROVE  TurnsTyped' /\ NarrationsTyped'
  <1>1. [NoRow EXCEPT !.status = "pending", !.expected = campaign.version,
                      !.input = input, !.confirms = s] \in TurnRow
    BY DEF NoRow, TurnRow, Leases, Deadlines, Routes, Typed, LogTyped, Campaign
  <1>2. TurnsTyped'
    BY <1>1 DEF AcceptRow, Typed, TurnsTyped
  <1>3. [NoNarration EXCEPT !.status = "pending"] \in NarrationRow
    BY DEF NoNarration, NarrationRow, Leases, Deadlines
  <1>4. \A r \in Requests : [narrations[r] EXCEPT !.offers = FALSE] \in NarrationRow
    BY DEF NarrationRow, Typed, NarrationsTyped
  <1>5. NarrationsTyped'
    BY <1>3, <1>4 DEF AcceptRow, NarrationsTyped
  <1>. QED BY <1>2, <1>5

LEMMA TypedAccept ==
  ASSUME Typed, NEW t \in Requests, Accept(t) PROVE Typed'
  <1>1. TurnsTyped' /\ NarrationsTyped'
    BY AcceptRowTyped DEF Accept
  <1>. QED BY <1>1 DEF Accept, Typed, ResolversTyped, NarratorsTyped, LogTyped, CountsTyped

LEMMA ResolverTurn ==
  ASSUME ResolversTyped, NEW w \in Resolvers, resolver[w].pc # "idle"
  PROVE  resolver[w].turn \in Requests
  BY DEF ResolversTyped, ResolverState

LEMMA NarratorTurn ==
  ASSUME NarratorsTyped, NEW n \in Narrators, narrator[n].pc # "idle"
  PROVE  narrator[n].turn \in Requests
  BY DEF NarratorsTyped, NarratorState

\* Steps that only move a resolution worker.
LEMMA MoveTyped ==
  ASSUME Typed, NEW w \in Resolvers, resolver[w].pc # "idle",
         Rest(w) \/ \E pc \in ResolverPCs \ {"idle"} : GoTo(w, pc)
  PROVE  ResolversTyped'
  BY GoToTyped, RestTyped DEF Typed

LEMMA NMoveTyped ==
  ASSUME Typed, NEW n \in Narrators, narrator[n].pc # "idle",
         NRest(n) \/ \E pc \in NarratorPCs \ {"idle"} : NGoTo(n, pc)
  PROVE  NarratorsTyped'
  BY NGoToTyped, NRestTyped DEF Typed

LEMMA TellTyped ==
  ASSUME Typed, NEW t \in Requests, NEW v \in Nat, events' = Append(events, Tell(t, v))
  PROVE  events' \in Seq(Event)
  BY DEF Typed, LogTyped, Tell, Event

LEMMA TypedAcquireTurn ==
  ASSUME Typed, NEW w \in Resolvers, NEW t \in Requests, AcquireTurn(w, t) PROVE Typed'
  <1>1. turns[t] \in TurnRow
    BY DEF Typed, TurnsTyped
  <1>2. TurnsTyped'
    BY <1>1, LeasedTurn DEF AcquireTurn, Typed, TurnsTyped
  <1>3. turns[t].epoch + 1 \in Nat /\ Exhausted(turns[t]) \in BOOLEAN
    BY <1>1 DEF TurnRow, Exhausted
  <1>4. [IdleResolver EXCEPT !.pc = "load", !.turn = t, !.epoch = turns[t].epoch + 1,
                             !.cleanup = Exhausted(turns[t])] \in ResolverState
    BY <1>3 DEF IdleResolver, ResolverState, ResolverPCs, Routes
  <1>5. ResolversTyped'
    BY <1>4 DEF AcquireTurn, Typed, ResolversTyped, IdleResolver
  <1>. QED BY <1>2, <1>5
       DEF AcquireTurn, Typed, NarratorsTyped, NarrationsTyped, LogTyped, CountsTyped

LEMMA TypedLoadWork ==
  ASSUME Typed, NEW w \in Resolvers, LoadWork(w) PROVE Typed'
  <1>0. resolver[w].pc = "load" /\ ResolversTyped
    BY DEF LoadWork, Typed
  <1>1. CASE Rest(w)
    BY <1>0, <1>1, MoveTyped
       DEF LoadWork, Typed, NarratorsTyped, TurnsTyped, NarrationsTyped, LogTyped, CountsTyped
  <1>2. CASE ~Rest(w)
    <2>1. PICK pc \in ResolverPCs \ {"idle"} :
            resolver' = [resolver EXCEPT ![w] =
                           [@ EXCEPT !.pc = pc, !.base = campaign.version,
                                     !.route = turns[resolver[w].turn].route,
                                     !.cleanup = FALSE]]
      BY <1>2 DEF LoadWork, ResolverPCs, FirstStep
    <2>2. campaign.version \in Nat /\ turns[resolver[w].turn].route \in Routes
      BY <1>0, ResolverTurn DEF Typed, LogTyped, Campaign, TurnsTyped, TurnRow
    <2>3. [resolver[w] EXCEPT !.pc = pc, !.base = campaign.version,
                              !.route = turns[resolver[w].turn].route,
                              !.cleanup = FALSE] \in ResolverState
      BY ZenonT(60), <1>0, <2>2 DEF ResolversTyped, ResolverState
    <2>4. ResolversTyped'
      BY <1>0, <2>1, <2>3 DEF ResolversTyped, ResolverState
    <2>. QED BY <2>4
         DEF LoadWork, Typed, NarratorsTyped, TurnsTyped, NarrationsTyped, LogTyped, CountsTyped
  <1>. QED BY <1>1, <1>2

LEMMA TypedChooseRoute ==
  ASSUME Typed, NEW w \in Resolvers, ChooseRoute(w) PROVE Typed'
  <1>0. resolver[w].pc = "route" /\ ResolversTyped
    BY DEF ChooseRoute, Typed
  <1>1. CASE Rest(w) /\ UNCHANGED turns
    BY <1>0, <1>1, MoveTyped
       DEF ChooseRoute, Typed, NarratorsTyped, TurnsTyped, NarrationsTyped, LogTyped, CountsTyped
  <1>2. CASE ~(Rest(w) /\ UNCHANGED turns)
    <2>1. PICK route \in {"narrative", "mechanical"} :
            /\ turns' = [turns EXCEPT ![resolver[w].turn].route = route]
            /\ resolver' = [resolver EXCEPT ![w] =
                   [@ EXCEPT !.pc = FirstStep(resolver[w].turn, route), !.route = route]]
      BY <1>2 DEF ChooseRoute
    <2>2. /\ FirstStep(resolver[w].turn, route) \in ResolverPCs \ {"idle"}
          /\ route \in Routes
      BY DEF FirstStep, ResolverPCs, Routes
    <2>3. ResolversTyped'
      BY ZenonT(60), <1>0, <2>1, <2>2 DEF ResolversTyped, ResolverState
    <2>4. TurnsTyped'
      BY <2>1, <2>2, RoutedRow DEF Typed, TurnsTyped
    <2>. QED BY <2>3, <2>4
         DEF ChooseRoute, Typed, NarratorsTyped, NarrationsTyped, LogTyped, CountsTyped
  <1>. QED BY <1>1, <1>2

LEMMA TypedReserveCall ==
  ASSUME Typed, NEW w \in Resolvers, ReserveCall(w) PROVE Typed'
  <1>1. ResolversTyped'
    BY MoveTyped DEF ReserveCall, ResolverPCs
  <1>2. TurnsTyped'
    BY DEF ReserveCall, Typed, TurnsTyped, TurnRow
  <1>. QED BY <1>1, <1>2
       DEF ReserveCall, Typed, NarratorsTyped, NarrationsTyped, LogTyped, CountsTyped

LEMMA TypedMoves ==
  ASSUME Typed, NEW w \in Resolvers, RefuseBoundary(w) \/ BindAction(w) PROVE Typed'
  <1>1. ResolversTyped'
    BY MoveTyped DEF RefuseBoundary, BindAction, ResolverPCs
  <1>. QED BY <1>1 DEF RefuseBoundary, BindAction, Typed, NarratorsTyped, TurnsTyped,
                       NarrationsTyped, LogTyped, CountsTyped

LEMMA TypedPromote ==
  ASSUME Typed, NEW w \in Resolvers, Promote(w) PROVE Typed'
  <1>1. ResolversTyped'
    BY MoveTyped DEF Promote, ResolverPCs
  <1>2. TurnsTyped'
    BY DEF Promote, Typed, TurnsTyped, TurnRow, Routes
  <1>. QED BY <1>1, <1>2
       DEF Promote, Typed, NarratorsTyped, NarrationsTyped, LogTyped, CountsTyped

LEMMA WriteNotAppliedTyped ==
  ASSUME Typed, NEW t \in Requests, NEW proposal \in BOOLEAN, WriteNotApplied(t, proposal)
  PROVE  TurnsTyped' /\ NarrationsTyped' /\ events' \in Seq(Event)
  <1>1. TurnsTyped'
    BY NotAppliedRow DEF WriteNotApplied, Typed, TurnsTyped
  <1>2. NarrationsTyped'
    BY DEF WriteNotApplied, Typed, NarrationsTyped, NarrationRow
  <1>3. campaign.version \in Nat
    BY DEF Typed, LogTyped, Campaign
  <1>. QED BY <1>1, <1>2, <1>3, TellTyped DEF WriteNotApplied

LEMMA TypedFinalize ==
  ASSUME Typed, NEW w \in Resolvers, FinalizeNotApplied(w) \/ PreviewRisk(w) PROVE Typed'
  <1>0. resolver[w].turn \in Requests
    BY ResolverTurn DEF FinalizeNotApplied, PreviewRisk, Typed
  <1>1. ResolversTyped'
    BY MoveTyped DEF FinalizeNotApplied, PreviewRisk, ResolverPCs
  <1>2. TurnsTyped' /\ NarrationsTyped' /\ events' \in Seq(Event)
    <2>1. CASE UNCHANGED <<turns, narrations, events>>
      BY <2>1 DEF Typed, TurnsTyped, NarrationsTyped, LogTyped
    <2>2. CASE \E proposal \in BOOLEAN : WriteNotApplied(resolver[w].turn, proposal)
      BY <1>0, <2>2, WriteNotAppliedTyped
    <2>. QED BY <2>1, <2>2 DEF FinalizeNotApplied, PreviewRisk
  <1>. QED BY <1>1, <1>2
       DEF FinalizeNotApplied, PreviewRisk, Typed, NarratorsTyped, LogTyped, CountsTyped

LEMMA TypedCallModel ==
  ASSUME Typed, NEW w \in Resolvers, CallModel(w) PROVE Typed'
  <1>0. resolver[w].pc = "call" /\ ResolversTyped
    BY DEF CallModel, Typed
  <1>1. ResolversTyped'
    <2>1. CASE Reconsider(w)
      BY ZenonT(60), <1>0, <2>1 DEF Reconsider, ResolversTyped, ResolverState, ResolverPCs
    <2>2. CASE \E pc \in ResolverPCs \ {"idle"} : GoTo(w, pc)
      BY <1>0, <2>2, GoToTyped
    <2>. QED BY <2>1, <2>2 DEF CallModel, ResolverPCs
  <1>2. CountsTyped'
    BY <1>0, ResolverTurn DEF CallModel, Typed, CountsTyped
  <1>. QED BY <1>1, <1>2 DEF CallModel, Typed, NarratorsTyped, TurnsTyped, NarrationsTyped, LogTyped

LEMMA TypedCommitResolution ==
  ASSUME Typed, NEW w \in Resolvers, CommitResolution(w) PROVE Typed'
  <1>0. resolver[w].pc = "commit" /\ ResolversTyped
    BY DEF CommitResolution, Typed
  <1>1. ResolversTyped'
    <2>1. Rest(w) \/ GoTo(w, "finalize") \/ GoTo(w, "fail")
      BY DEF CommitResolution, CommitRefused
    <2>. QED BY <1>0, <2>1, RestTyped, GoToTyped DEF ResolverPCs
  <1>2. TurnsTyped' /\ LogTyped'
    <2>1. CASE UNCHANGED <<turns, campaign, events>>
      BY <2>1 DEF Typed, TurnsTyped, LogTyped
    <2>2. CASE ~UNCHANGED <<turns, campaign, events>>
      <3>1. PICK changed \in BOOLEAN, ends \in BOOLEAN :
              /\ campaign' = [campaign EXCEPT !.version = NextVersion(changed),
                                              !.ended   = @ \/ ends]
              /\ turns' = [turns EXCEPT ![resolver[w].turn] =
                              [@ EXCEPT !.status = "committed", !.route = "mechanical",
                                        !.committed = NextVersion(changed)]]
              /\ events' = Append(events, Result(resolver[w].turn, NextVersion(changed)))
        BY <2>2 DEF CommitResolution
      <3>2. NextVersion(changed) \in Nat
        BY DEF NextVersion, Typed, LogTyped, Campaign
      <3>3. Result(resolver[w].turn, NextVersion(changed)) \in Event
        BY <1>0, <3>2, ResolverTurn DEF Result, Event
      <3>4. TurnsTyped'
        BY <3>1, <3>2, CommittedRow DEF Typed, TurnsTyped
      <3>5. campaign' \in Campaign
        BY <3>1, <3>2 DEF Typed, LogTyped, Campaign
      <3>6. events' \in Seq(Event)
        BY <3>1, <3>3 DEF Typed, LogTyped
      <3>. QED BY <3>4, <3>5, <3>6 DEF LogTyped
    <2>. QED BY <2>1, <2>2
  <1>. QED BY <1>1, <1>2 DEF CommitResolution, Typed, NarratorsTyped, NarrationsTyped, CountsTyped

LEMMA TypedCommitNarrative ==
  ASSUME Typed, NEW w \in Resolvers, CommitNarrative(w) PROVE Typed'
  <1>0. resolver[w].pc = "commitNarrative" /\ resolver[w].turn \in Requests
    BY ResolverTurn DEF CommitNarrative, Typed
  <1>1. ResolversTyped'
    <2>1. Rest(w) \/ GoTo(w, "finalize") \/ GoTo(w, "fail")
      BY DEF CommitNarrative, CommitRefused
    <2>. QED BY <1>0, <2>1, MoveTyped DEF ResolverPCs
  <1>2. TurnsTyped' /\ NarrationsTyped' /\ events' \in Seq(Event)
    <2>1. CASE UNCHANGED <<turns, narrations, events>>
      BY <2>1 DEF Typed, TurnsTyped, NarrationsTyped, LogTyped
    <2>2. CASE ~UNCHANGED <<turns, narrations, events>>
      <3>1. PICK offers \in BOOLEAN :
              /\ turns' = [turns EXCEPT ![resolver[w].turn] =
                             [@ EXCEPT !.status = "committed", !.committed = campaign.version,
                                       !.lease = "none"]]
              /\ narrations' = [narrations EXCEPT ![resolver[w].turn] =
                                  [@ EXCEPT !.status = "completed", !.offers = offers]]
              /\ events' = Append(events, Tell(resolver[w].turn, campaign.version))
        BY <2>2 DEF CommitNarrative
      <3>2. campaign.version \in Nat
        BY DEF Typed, LogTyped, Campaign
      <3>3. TurnsTyped'
        BY <3>1, <3>2, AnsweredRow DEF Typed, TurnsTyped
      <3>4. narrations[resolver[w].turn] \in NarrationRow
        BY <1>0 DEF Typed, NarrationsTyped
      <3>5. [narrations[resolver[w].turn] EXCEPT !.status = "completed", !.offers = offers]
                \in NarrationRow
        BY <3>4 DEF NarrationRow
      <3>6. NarrationsTyped'
        BY <1>0, <3>1, <3>5, WriteNarrationRow DEF Typed
      <3>. QED BY <1>0, <3>1, <3>2, <3>3, <3>6, TellTyped
    <2>. QED BY <2>1, <2>2
  <1>. QED BY <1>1, <1>2 DEF CommitNarrative, Typed, NarratorsTyped, LogTyped, CountsTyped

LEMMA TypedRecordFailure ==
  ASSUME Typed, NEW w \in Resolvers, RecordFailure(w) PROVE Typed'
  <1>1. ResolversTyped'
    BY MoveTyped DEF RecordFailure, ResolverPCs
  <1>2. TurnsTyped'
    <2>1. CASE UNCHANGED turns
      BY <2>1 DEF Typed, TurnsTyped
    <2>2. CASE \E status \in {"pending", "failed"} :
                 turns' = [turns EXCEPT ![resolver[w].turn] =
                             [@ EXCEPT !.status = status, !.lease = "none"]]
      <3>1. resolver[w].turn \in Requests
        BY ResolverTurn DEF RecordFailure, Typed
      <3>2. turns[resolver[w].turn] \in TurnRow
        BY <3>1 DEF Typed, TurnsTyped
      <3>. QED BY <2>2, <3>1, <3>2, FailedRow, WriteTurn DEF Typed
    <2>. QED BY <2>1, <2>2 DEF RecordFailure, Requeue
  <1>. QED BY <1>1, <1>2
       DEF RecordFailure, Typed, NarratorsTyped, NarrationsTyped, LogTyped, CountsTyped

LEMMA TypedAcquireTerminal ==
  ASSUME Typed, NEW w \in Resolvers, AcquireTerminal(w) PROVE Typed'
  <1>0. resolver[w].pc = "terminal" /\ resolver[w].turn \in Requests
    BY ResolverTurn DEF AcquireTerminal, Typed
  <1>1. narrations[resolver[w].turn] \in NarrationRow
    BY <1>0 DEF Typed, NarrationsTyped
  <1>2. NarrationsTyped'
    BY <1>0, <1>1, LeasedNarration DEF AcquireTerminal, Typed, NarrationsTyped
  <1>3. ResolversTyped'
    <2>1. CASE Rest(w)
      BY <1>0, <2>1, MoveTyped
    <2>2. CASE ~Rest(w)
      <3>1. resolver' = [resolver EXCEPT ![w] =
                [@ EXCEPT !.pc = "fallback", !.epoch = narrations[resolver[w].turn].epoch + 1]]
        BY <2>2 DEF AcquireTerminal
      <3>2. narrations[resolver[w].turn].epoch + 1 \in Nat
        BY <1>1 DEF NarrationRow
      <3>3. [resolver[w] EXCEPT !.pc = "fallback",
                                !.epoch = narrations[resolver[w].turn].epoch + 1]
               \in ResolverState
        BY ZenonT(60), <3>2 DEF Typed, ResolversTyped, ResolverState, ResolverPCs
      <3>. QED BY <1>0, <3>1, <3>3 DEF Typed, ResolversTyped, ResolverState
    <2>. QED BY <2>1, <2>2
  <1>. QED BY <1>2, <1>3
       DEF AcquireTerminal, Typed, NarratorsTyped, TurnsTyped, LogTyped, CountsTyped

LEMMA WriteNarrationTyped ==
  ASSUME Typed, NEW t \in Requests, NEW status \in {"completed", "fallback"},
         NEW offers \in BOOLEAN, WriteNarration(t, status, offers)
  PROVE  NarrationsTyped' /\ events' \in Seq(Event)
  <1>1. NarrationsTyped'
    BY ToldRow DEF WriteNarration, Typed, NarrationsTyped
  <1>2. (IF turns[t].status = "committed" THEN turns[t].committed ELSE campaign.version) \in Nat
    BY DEF Typed, TurnsTyped, TurnRow, LogTyped, Campaign
  <1>. QED BY <1>1, <1>2, TellTyped DEF WriteNarration

LEMMA TypedSaveTerminal ==
  ASSUME Typed, NEW w \in Resolvers, SaveTerminal(w) PROVE Typed'
  <1>0. resolver[w].turn \in Requests
    BY ResolverTurn DEF SaveTerminal, Typed
  <1>1. NarrationsTyped' /\ events' \in Seq(Event)
    <2>1. CASE UNCHANGED <<narrations, events>>
      BY <2>1 DEF Typed, NarrationsTyped, LogTyped
    <2>2. CASE WriteNarration(resolver[w].turn, "fallback", FALSE)
      BY <1>0, <2>2, WriteNarrationTyped
    <2>. QED BY <2>1, <2>2 DEF SaveTerminal
  <1>2. ResolversTyped'
    BY RestTyped DEF SaveTerminal, Typed
  <1>. QED BY <1>1, <1>2
       DEF SaveTerminal, Typed, NarratorsTyped, TurnsTyped, LogTyped, CountsTyped

LEMMA TypedAcquireNarration ==
  ASSUME Typed, NEW n \in Narrators, NEW t \in Requests, AcquireNarration(n, t) PROVE Typed'
  <1>1. narrations[t] \in NarrationRow
    BY DEF Typed, NarrationsTyped
  <1>2. NarrationsTyped'
    BY <1>1, LeasedNarration DEF AcquireNarration, Typed, NarrationsTyped
  <1>3. narrations[t].epoch + 1 \in Nat /\ Exhausted(narrations[t]) \in BOOLEAN
    BY <1>1 DEF NarrationRow, Exhausted
  <1>4. [pc |-> "load", turn |-> t, epoch |-> narrations[t].epoch + 1,
         cleanup |-> Exhausted(narrations[t])] \in NarratorState
    BY <1>3 DEF NarratorState, NarratorPCs
  <1>5. NarratorsTyped'
    BY <1>4 DEF AcquireNarration, Typed, NarratorsTyped
  <1>. QED BY <1>2, <1>5
       DEF AcquireNarration, Typed, ResolversTyped, TurnsTyped, LogTyped, CountsTyped

LEMMA TypedLoadNarration ==
  ASSUME Typed, NEW n \in Narrators, LoadNarration(n) PROVE Typed'
  <1>1. NarratorsTyped'
    BY NMoveTyped DEF LoadNarration, NarratorPCs
  <1>. QED BY <1>1 DEF LoadNarration, Typed, ResolversTyped, TurnsTyped, NarrationsTyped,
                       LogTyped, CountsTyped

LEMMA TypedReserveNarration ==
  ASSUME Typed, NEW n \in Narrators, ReserveNarration(n) PROVE Typed'
  <1>1. NarratorsTyped'
    BY NMoveTyped DEF ReserveNarration, NarratorPCs
  <1>2. TurnsTyped'
    BY ReservedRow DEF ReserveNarration, Typed, TurnsTyped
  <1>. QED BY <1>1, <1>2
       DEF ReserveNarration, Typed, ResolversTyped, NarrationsTyped, LogTyped, CountsTyped

LEMMA TypedCallNarrator ==
  ASSUME Typed, NEW n \in Narrators, CallNarrator(n) PROVE Typed'
  <1>1. NarratorsTyped'
    BY NMoveTyped DEF CallNarrator, NarratorPCs
  <1>2. CountsTyped'
    BY NarratorTurn DEF CallNarrator, Typed, CountsTyped
  <1>. QED BY <1>1, <1>2
       DEF CallNarrator, Typed, ResolversTyped, TurnsTyped, NarrationsTyped, LogTyped

LEMMA TypedSaves ==
  ASSUME Typed, NEW n \in Narrators, SaveNarration(n) \/ SaveFallback(n) PROVE Typed'
  <1>0. narrator[n].turn \in Requests
    BY NarratorTurn DEF SaveNarration, SaveFallback, Typed
  <1>1. NarratorsTyped'
    BY NMoveTyped DEF SaveNarration, SaveFallback, NarratorPCs
  <1>2. NarrationsTyped' /\ events' \in Seq(Event)
    <2>1. CASE UNCHANGED <<narrations, events>>
      BY <2>1 DEF Typed, NarrationsTyped, LogTyped
    <2>2. CASE \E status \in {"completed", "fallback"}, offers \in BOOLEAN :
                  WriteNarration(narrator[n].turn, status, offers)
      BY <1>0, <2>2, WriteNarrationTyped
    <2>. QED BY <2>1, <2>2 DEF SaveNarration, SaveFallback
  <1>. QED BY <1>1, <1>2 DEF SaveNarration, SaveFallback, Typed, ResolversTyped, TurnsTyped,
                             LogTyped, CountsTyped

LEMMA TypedFailNarration ==
  ASSUME Typed, NEW n \in Narrators, FailNarration(n) PROVE Typed'
  <1>1. NarratorsTyped'
    BY NMoveTyped DEF FailNarration, NarratorPCs
  <1>2. ASSUME NEW row \in NarrationRow
        PROVE  [row EXCEPT !.status = "pending", !.lease = "none"] \in NarrationRow
    BY DEF NarrationRow, Leases
  <1>3. NarrationsTyped'
    <2>1. CASE UNCHANGED narrations
      BY <2>1 DEF Typed, NarrationsTyped
    <2>2. CASE narrations' = [narrations EXCEPT ![narrator[n].turn] =
                                [@ EXCEPT !.status = "pending", !.lease = "none"]]
      BY <1>2, <2>2 DEF Typed, NarrationsTyped
    <2>. QED BY <2>1, <2>2 DEF FailNarration
  <1>. QED BY <1>1, <1>3
       DEF FailNarration, Typed, ResolversTyped, TurnsTyped, LogTyped, CountsTyped

LEMMA TypedTime ==
  ASSUME Typed, NEW t \in Requests, TimeStep(t) PROVE Typed'
  <1>1. ASSUME NEW row \in TurnRow
        PROVE  /\ [row EXCEPT !.lease = "lapsed"] \in TurnRow
               /\ [row EXCEPT !.deadline = "passed"] \in TurnRow
    BY DEF TurnRow, Leases, Deadlines
  <1>2. ASSUME NEW row \in NarrationRow
        PROVE  /\ [row EXCEPT !.lease = "lapsed"] \in NarrationRow
               /\ [row EXCEPT !.deadline = "passed"] \in NarrationRow
    BY DEF NarrationRow, Leases, Deadlines
  <1>3. TurnsTyped'
    <2>1. CASE UNCHANGED turns
      BY <2>1 DEF Typed, TurnsTyped
    <2>2. CASE turns' = [turns EXCEPT ![t].lease = "lapsed"]
      BY <1>1, <2>2 DEF Typed, TurnsTyped
    <2>3. CASE turns' = [turns EXCEPT ![t].deadline = "passed"]
      BY <1>1, <2>3 DEF Typed, TurnsTyped
    <2>. QED BY <2>1, <2>2, <2>3
         DEF TimeStep, LapseTurn, LapseNarration, PassTurnDeadline, PassNarrationDeadline
  <1>4. NarrationsTyped'
    <2>1. CASE UNCHANGED narrations
      BY <2>1 DEF Typed, NarrationsTyped
    <2>2. CASE narrations' = [narrations EXCEPT ![t].lease = "lapsed"]
      BY <1>2, <2>2 DEF Typed, NarrationsTyped
    <2>3. CASE narrations' = [narrations EXCEPT ![t].deadline = "passed"]
      BY <1>2, <2>3 DEF Typed, NarrationsTyped
    <2>. QED BY <2>1, <2>2, <2>3
         DEF TimeStep, LapseTurn, LapseNarration, PassTurnDeadline, PassNarrationDeadline
  <1>5. CountsTyped'
    BY DEF TimeStep, LapseTurn, LapseNarration, PassTurnDeadline, PassNarrationDeadline,
           Fault, Typed, CountsTyped
  <1>. QED BY <1>3, <1>4, <1>5
       DEF TimeStep, LapseTurn, LapseNarration, PassTurnDeadline, PassNarrationDeadline,
           Typed, ResolversTyped, NarratorsTyped, LogTyped

LEMMA TypedEnvironment ==
  ASSUME Typed, Environment PROVE Typed'
  <1>1. ResolversTyped'
    <2>1. CASE UNCHANGED resolver
      BY <2>1 DEF Typed, ResolversTyped
    <2>2. CASE \E w \in Resolvers : Rest(w)
      BY <2>2, RestTyped DEF Typed
    <2>. QED BY <2>1, <2>2
         DEF Environment, CrashResolver, CrashNarrator, BlockStory, UnblockStory, RevokeActor
  <1>2. NarratorsTyped'
    <2>1. CASE UNCHANGED narrator
      BY <2>1 DEF Typed, NarratorsTyped
    <2>2. CASE \E n \in Narrators : NRest(n)
      BY <2>2, NRestTyped DEF Typed
    <2>. QED BY <2>1, <2>2
         DEF Environment, CrashResolver, CrashNarrator, BlockStory, UnblockStory, RevokeActor
  <1>3. LogTyped'
    BY DEF Environment, CrashResolver, CrashNarrator, BlockStory, UnblockStory, RevokeActor,
           Typed, LogTyped, Campaign
  <1>4. CountsTyped'
    BY DEF Environment, CrashResolver, CrashNarrator, BlockStory, UnblockStory, RevokeActor,
           Fault, Typed, CountsTyped
  <1>. QED BY <1>1, <1>2, <1>3, <1>4
       DEF Environment, CrashResolver, CrashNarrator, BlockStory, UnblockStory, RevokeActor,
           Typed, TurnsTyped, NarrationsTyped

LEMMA TypedNext ==
  ASSUME Typed, [Next]_vars PROVE Typed'
  <1>1. CASE UNCHANGED vars
    BY <1>1 DEF vars, Typed, ResolversTyped, NarratorsTyped, TurnsTyped, NarrationsTyped,
                LogTyped, CountsTyped
  <1>2. ASSUME NEW t \in Requests, Accept(t) PROVE Typed'
    BY <1>2, TypedAccept
  <1>3. ASSUME NEW w \in Resolvers, ResolverStep(w) PROVE Typed'
    BY <1>3, TypedAcquireTurn, TypedLoadWork, TypedChooseRoute, TypedReserveCall, TypedMoves,
       TypedCallModel, TypedPromote, TypedFinalize, TypedCommitResolution,
       TypedCommitNarrative, TypedRecordFailure, TypedAcquireTerminal, TypedSaveTerminal
       DEF ResolverStep
  <1>4. ASSUME NEW n \in Narrators, NarratorStep(n) PROVE Typed'
    BY <1>4, TypedAcquireNarration, TypedLoadNarration, TypedReserveNarration,
       TypedCallNarrator, TypedSaves, TypedFailNarration
       DEF NarratorStep
  <1>5. ASSUME NEW t \in Requests, TimeStep(t) PROVE Typed'
    BY <1>5, TypedTime
  <1>6. CASE Environment
    BY <1>6, TypedEnvironment
  <1>7. CASE Quiescent
    BY <1>1, <1>7 DEF Quiescent
  <1>. QED BY <1>1, <1>2, <1>3, <1>4, <1>5, <1>6, <1>7 DEF Next

\* Every reachable state is well typed, for any number of requests and workers.
THEOREM TypeCorrect == Spec => []TypeOK
  <1>1. Spec => []Typed
    BY TypedInit, TypedNext, PTL DEF Spec
  <1>. QED BY <1>1, TypedIsTypeOK, PTL

-----------------------------------------------------------------------------
(* What a step does to the rows: the vocabulary of the proofs below.  Every *)
(* step either keeps every row in its phase or takes one turn through one   *)
(* of six transitions.                                                      *)

Constant(r) ==
    /\ turns'[r].expected = turns[r].expected
    /\ turns'[r].confirms = turns[r].confirms
    /\ turns'[r].input = turns[r].input

Keeps(r) ==
    /\ \/ turns'[r].status = turns[r].status
       \/ Unresolved(r) /\ turns'[r].status \in {"pending", "resolving"}
    /\ \/ narrations'[r].status = narrations[r].status
       \/ /\ ResolutionOver(r) /\ Untold(r)
          /\ narrations'[r].status \in {"pending", "generating"}
    /\ turns'[r].committed = turns[r].committed
    /\ turns'[r].proposal = turns[r].proposal
    /\ ResolutionOver(r) => turns'[r].route = turns[r].route
    /\ turns'[r].route = "narrative" => turns[r].route = "narrative" \/ turns[r].input = "free"
    /\ narrations'[r].offers => narrations[r].offers
    /\ Constant(r)

KeepsVersion == campaign'.version = campaign.version

KeepsAll == (\A r \in Requests : Keeps(r)) /\ KeepsVersion /\ events' = events

\* What a transition of turn t adds to the log.
Tells(t)   == \E v \in Nat : events' = Append(events, Tell(t, v))
Results(t) == \E v \in Nat : events' = Append(events, Result(t, v))

Accepted(t) ==
    /\ NoOpenTurn /\ KeepsVersion /\ events' = events
    /\ ~campaign.blocked
    /\ \A r \in Requests : ~narrations'[r].offers
    /\ turns[t].status = "absent"
    /\ turns'[t].status = "pending"
    /\ turns'[t].expected = campaign.version
    /\ turns'[t].route = "none" /\ ~turns'[t].proposal
    /\ \/ turns'[t].confirms = NoTurn
       \/ \E s \in Requests : /\ turns'[t].confirms = s /\ turns'[t].input = "confirm"
                              /\ turns[s].status = "not_applied"
                              /\ ProposalStands(s, campaign.version)
    /\ narrations'[t].status = "pending"

Decided(t, status) ==
    /\ ~campaign.blocked
    /\ turns[t].status = "resolving"
    /\ turns'[t].status = status
    /\ Constant(t)

\* A worker commits only to the version of its snapshot.
BoundPCs == {"route", "reserve", "call", "bind", "preview", "promote",
             "commitNarrative", "commit"}
CommitsAtBase(w, t) == /\ resolver[w].turn = t
                       /\ resolver[w].pc \in BoundPCs
                       /\ resolver[w].base = campaign.version

Applied(t) ==
    /\ Decided(t, "committed") /\ campaign.actorOK /\ Results(t)
    /\ \E w \in Resolvers : CommitsAtBase(w, t)
    /\ turns'[t].route = "mechanical"
    /\ turns'[t].committed = campaign'.version
    /\ turns'[t].proposal = turns[t].proposal
    /\ narrations'[t] = narrations[t]
    /\ campaign'.version \in {campaign.version, campaign.version + 1}
    /\ OpenScenario => campaign'.version # campaign.version

Answered(t) ==
    /\ Decided(t, "committed") /\ campaign.actorOK /\ KeepsVersion /\ Tells(t)
    /\ turns[t].route = "narrative" /\ turns'[t].route = "narrative"
    /\ turns'[t].committed = campaign.version
    /\ turns'[t].proposal = turns[t].proposal
    /\ narrations'[t].status = "completed"

Declined(t) ==
    /\ Decided(t, "not_applied") /\ KeepsVersion /\ Tells(t)
    /\ narrations'[t].offers = narrations[t].offers
    /\ turns'[t].proposal => \E w \in Resolvers : resolver[w].pc = "preview"
    /\ narrations'[t].status = "completed"

GivenUp(t) ==
    /\ Decided(t, "failed") /\ KeepsVersion /\ events' = events
    /\ turns'[t].proposal = turns[t].proposal
    /\ narrations'[t] = narrations[t]

ToldLater(t) ==
    /\ ResolutionOver(t) /\ Untold(t) /\ KeepsVersion /\ Tells(t)
    /\ ~campaign.blocked
    /\ narrations'[t].offers =>
          \E n \in Narrators : narrator[n].pc = "save" /\ narrator[n].turn = t
    /\ turns'[t] = turns[t]
    /\ narrations'[t].status \in {"completed", "fallback"}

OthersKept(t) == \A r \in Requests \ {t} : Keeps(r)

RowStep ==
    \/ KeepsAll
    \/ \E t \in Requests :
          /\ OthersKept(t)
          /\ \/ Accepted(t) \/ Applied(t) \/ Answered(t)
             \/ Declined(t) \/ GivenUp(t) \/ ToldLater(t)

\* The two phases of a row never contradict one another.
RowsAgree ==
    \A t \in Requests :
        /\ turns[t].status = "absent" <=> narrations[t].status = "absent"
        /\ Unresolved(t) => narrations[t].status = "pending"
        /\ turns[t].status = "not_applied" => narrations[t].status = "completed"

LEMMA LeasedTurnFields ==
  ASSUME NEW row \in TurnRow
  PROVE  LET new == Leased(row, "resolving")
         IN  /\ new.status = "resolving"
             /\ new.epoch = row.epoch + 1
             /\ new.committed = row.committed /\ new.proposal = row.proposal
             /\ new.expected = row.expected /\ new.confirms = row.confirms
             /\ new.input = row.input /\ new.route = row.route /\ new.calls = row.calls
  BY DEF Leased, TurnRow

LEMMA LeasedNarrationFields ==
  ASSUME NEW row \in NarrationRow
  PROVE  LET new == Leased(row, "generating")
         IN  /\ new.status = "generating"
             /\ new.epoch = row.epoch + 1
             /\ new.offers = row.offers
  BY DEF Leased, NarrationRow

\* Steps that touch neither table nor the campaign nor the log.
LEMMA StillKeeps ==
  ASSUME UNCHANGED <<turns, narrations, campaign, events>>
  PROVE  KeepsAll
  BY DEF KeepsAll, KeepsVersion, Keeps, Constant

LEMMA AcceptRowStep ==
  ASSUME Typed, NEW t \in Requests, Accept(t)
  PROVE  Accepted(t) /\ OthersKept(t)
  <1>1. PICK input \in {"free", "registered", "confirm"}, s \in Requests \cup {NoTurn} :
           /\ AcceptRow(t, input, s)
           /\ \/ s = NoTurn
              \/ /\ s \in Requests /\ input = "confirm"
                 /\ turns[s].status = "not_applied" /\ ProposalStands(s, campaign.version)
    BY DEF Accept
  <1>2. /\ turns' = [turns EXCEPT ![t] =
                      [NoRow EXCEPT !.status = "pending", !.expected = campaign.version,
                                    !.input = input, !.confirms = s]]
        /\ narrations' = [r \in Requests |->
                            IF r = t THEN [NoNarration EXCEPT !.status = "pending"]
                                     ELSE [narrations[r] EXCEPT !.offers = FALSE]]
    BY <1>1 DEF AcceptRow
  <1>3. /\ turns'[t] = [NoRow EXCEPT !.status = "pending", !.expected = campaign.version,
                                     !.input = input, !.confirms = s]
        /\ narrations'[t] = [NoNarration EXCEPT !.status = "pending"]
    BY <1>2 DEF Typed, TurnsTyped
  <1>4. /\ turns'[t].status = "pending" /\ turns'[t].expected = campaign.version
        /\ turns'[t].input = input /\ turns'[t].confirms = s
        /\ turns'[t].route = "none" /\ ~turns'[t].proposal
        /\ narrations'[t].status = "pending" /\ ~narrations'[t].offers
    BY <1>3 DEF NoRow, NoNarration
  <1>5. ASSUME NEW r \in Requests PROVE ~narrations'[r].offers
    <2>1. narrations[r] \in NarrationRow
      BY DEF Typed, NarrationsTyped
    <2>2. [narrations[r] EXCEPT !.offers = FALSE].offers = FALSE
      BY <2>1 DEF NarrationRow
    <2>. QED BY <1>2, <1>4, <2>2
  <1>7. Accepted(t)
    BY <1>1, <1>4, <1>5 DEF Accept, Accepted, KeepsVersion
  <1>6. ASSUME NEW r \in Requests \ {t} PROVE Keeps(r)
    <2>1. turns'[r] = turns[r]
      BY <1>2, <1>6 DEF Typed, TurnsTyped
    <2>2. narrations[r] \in NarrationRow
      BY DEF Typed, NarrationsTyped
    <2>3. narrations'[r].status = narrations[r].status
      BY <1>2, <1>6, <2>2 DEF NarrationRow
    <2>. QED BY <1>5, <2>1, <2>3 DEF Keeps, Constant
  <1>. QED BY <1>6, <1>7 DEF OthersKept

LEMMA AcquireTurnRowStep ==
  ASSUME Typed, NEW w \in Resolvers, NEW t \in Requests, AcquireTurn(w, t)
  PROVE  KeepsAll
  <1>1. turns[t] \in TurnRow
    BY DEF Typed, TurnsTyped
  <1>. QED BY <1>1, LeasedTurnFields
       DEF AcquireTurn, ResolutionCandidate, KeepsAll, KeepsVersion, Keeps, Constant,
           Unresolved, Untold, ResolutionOver, Typed, TurnsTyped

LEMMA AcquireNarrationRowStep ==
  ASSUME Typed, NEW t \in Requests, NarrationCandidate(t),
         UNCHANGED <<turns, campaign, events>>,
         narrations' = [narrations EXCEPT ![t] = Leased(@, "generating")]
  PROVE  KeepsAll
  <1>1. narrations[t] \in NarrationRow
    BY DEF Typed, NarrationsTyped
  <1>. QED BY <1>1, LeasedNarrationFields
       DEF NarrationCandidate, KeepsAll, KeepsVersion, Keeps, Constant,
           Unresolved, Untold, ResolutionOver, Typed, NarrationsTyped

LEMMA ChooseRouteRowStep ==
  ASSUME Typed, NEW w \in Resolvers, ChooseRoute(w) \/ Promote(w)
  PROVE  KeepsAll
  <1>. DEFINE t == resolver[w].turn
  <1>0. t \in Requests /\ UNCHANGED <<narrations, campaign, events>>
    BY ResolverTurn DEF ChooseRoute, Promote, Typed
  <1>1. CASE UNCHANGED turns
    BY <1>0, <1>1, StillKeeps
  <1>2. ASSUME NEW route \in Routes, turns[t].status = "resolving",
               route = "narrative" => turns[t].input = "free",
               turns' = [turns EXCEPT ![t].route = route]
        PROVE  KeepsAll
    <2>1. turns[t] \in TurnRow
      BY <1>0 DEF Typed, TurnsTyped
    <2>. QED BY <1>0, <1>2, <2>1
         DEF KeepsAll, KeepsVersion, Keeps, Constant, ResolutionOver, Typed, TurnsTyped, TurnRow
  <1>3. UNCHANGED turns \/ \E route \in Routes :
           /\ turns[t].status = "resolving"
           /\ route = "narrative" => turns[t].input = "free"
           /\ turns' = [turns EXCEPT ![t].route = route]
    BY DEF ChooseRoute, Promote, HoldsTurn, OwnsTurn, Routes
  <1>. QED BY <1>1, <1>2, <1>3

LEMMA ReserveRowStep ==
  ASSUME Typed, NEW t \in Requests, UNCHANGED <<narrations, campaign, events>>,
         turns' = [turns EXCEPT ![t].calls = @ + 1]
  PROVE  KeepsAll
  <1>1. turns[t] \in TurnRow
    BY DEF Typed, TurnsTyped
  <1>. QED BY <1>1 DEF KeepsAll, KeepsVersion, Keeps, Constant, Unresolved, Untold,
                       ResolutionOver, Typed, TurnsTyped, TurnRow

LEMMA WriteNotAppliedRowStep ==
  ASSUME Typed, NEW t \in Requests, NEW proposal \in BOOLEAN, turns[t].status = "resolving",
         ~campaign.blocked,
         proposal => \E w \in Resolvers : resolver[w].pc = "preview",
         UNCHANGED campaign, WriteNotApplied(t, proposal)
  PROVE  Declined(t) /\ OthersKept(t)
  <1>1. turns[t] \in TurnRow /\ narrations[t] \in NarrationRow
    BY DEF Typed, TurnsTyped, NarrationsTyped
  <1>2. LET new == [turns[t] EXCEPT !.status = "not_applied", !.lease = "none",
                                    !.proposal = proposal]
        IN  /\ new.status = "not_applied" /\ new.expected = turns[t].expected
            /\ new.confirms = turns[t].confirms /\ new.input = turns[t].input
            /\ new.proposal = proposal
    BY <1>1 DEF TurnRow
  <1>3. [narrations[t] EXCEPT !.status = "completed"].offers = narrations[t].offers
    BY <1>1 DEF NarrationRow
  <1>5. Tells(t)
    BY DEF WriteNotApplied, Tells, Typed, LogTyped, Campaign
  <1>6. Declined(t)
    BY <1>1, <1>2, <1>3, <1>5
       DEF WriteNotApplied, Declined, Decided, Constant, KeepsVersion,
           Typed, TurnsTyped, NarrationsTyped, NarrationRow
  <1>4. OthersKept(t)
    BY DEF WriteNotApplied, OthersKept, Keeps, Constant, Typed, TurnsTyped, NarrationsTyped
  <1>. QED BY <1>4, <1>6

LEMMA FinalizeRowStep ==
  ASSUME Typed, NEW w \in Resolvers, FinalizeNotApplied(w) \/ PreviewRisk(w)
  PROVE  KeepsAll \/ (Declined(resolver[w].turn) /\ OthersKept(resolver[w].turn))
  <1>1. resolver[w].turn \in Requests
    BY ResolverTurn DEF FinalizeNotApplied, PreviewRisk, Typed
  <1>2. CASE UNCHANGED <<turns, narrations, events>>
    BY <1>2, StillKeeps DEF FinalizeNotApplied, PreviewRisk
  <1>3. CASE ~UNCHANGED <<turns, narrations, events>>
    <2>1. PICK proposal \in BOOLEAN : /\ WriteNotApplied(resolver[w].turn, proposal)
                                      /\ proposal => resolver[w].pc = "preview"
      BY <1>3 DEF FinalizeNotApplied, PreviewRisk
    <2>2. /\ turns[resolver[w].turn].status = "resolving" /\ UNCHANGED campaign
          /\ ~campaign.blocked
      BY <1>3 DEF FinalizeNotApplied, PreviewRisk, OwnsTurn
    <2>. QED BY <1>1, <2>1, <2>2, WriteNotAppliedRowStep
  <1>. QED BY <1>2, <1>3

LEMMA CommitResolutionRowStep ==
  ASSUME Typed, NEW w \in Resolvers, CommitResolution(w)
  PROVE  KeepsAll \/ (Applied(resolver[w].turn) /\ OthersKept(resolver[w].turn))
  <1>. DEFINE t == resolver[w].turn
  <1>1. t \in Requests
    BY ResolverTurn DEF CommitResolution, Typed
  <1>2. CASE UNCHANGED <<turns, campaign, events>>
    BY <1>2, StillKeeps DEF CommitResolution
  <1>3. CASE ~UNCHANGED <<turns, campaign, events>>
    <2>1. PICK changed \in BOOLEAN, ends \in BOOLEAN :
            /\ campaign' = [campaign EXCEPT !.version = NextVersion(changed),
                                            !.ended   = @ \/ ends]
            /\ turns' = [turns EXCEPT ![t] =
                            [@ EXCEPT !.status = "committed", !.route = "mechanical",
                                      !.committed = NextVersion(changed)]]
            /\ OpenScenario => changed
            /\ events' = Append(events, Result(t, NextVersion(changed)))
      BY <1>3 DEF CommitResolution
    <2>2. /\ turns[t].status = "resolving" /\ UNCHANGED narrations
          /\ ~campaign.blocked /\ campaign.actorOK
      BY <1>3 DEF CommitResolution, MayCommit, Committable, OwnsTurn
    <2>3. /\ campaign'.version = NextVersion(changed)
          /\ NextVersion(changed) \in {campaign.version, campaign.version + 1}
          /\ OpenScenario => NextVersion(changed) # campaign.version
          /\ NextVersion(changed) \in Nat
      BY <2>1 DEF NextVersion, Typed, LogTyped, Campaign
    <2>4. turns[t] \in TurnRow
      BY <1>1 DEF Typed, TurnsTyped
    <2>5. LET new == [turns[t] EXCEPT !.status = "committed", !.route = "mechanical",
                                      !.committed = NextVersion(changed)]
          IN  /\ new.status = "committed" /\ new.route = "mechanical"
              /\ new.committed = NextVersion(changed) /\ new.proposal = turns[t].proposal
              /\ new.expected = turns[t].expected
              /\ new.confirms = turns[t].confirms /\ new.input = turns[t].input
      BY <2>4 DEF TurnRow
    <2>6. CommitsAtBase(w, t)
      BY <1>3 DEF CommitResolution, MayCommit, Committable, CommitsAtBase, BoundPCs
    <2>7. turns'[t] = [turns[t] EXCEPT !.status = "committed", !.route = "mechanical",
                                       !.committed = NextVersion(changed)]
      BY <1>1, <2>1 DEF Typed, TurnsTyped
    <2>8. Applied(t)
      <3>1. Results(t)
        BY <2>1, <2>3 DEF Results
      <3>. QED BY <2>2, <2>3, <2>5, <2>6, <2>7, <3>1 DEF Applied, Decided, Constant
    <2>9. OthersKept(t)
      BY <2>1, <2>2 DEF OthersKept, Keeps, Constant, Typed, TurnsTyped
    <2>. QED BY <2>9, <2>8
  <1>. QED BY <1>2, <1>3

LEMMA CommitNarrativeRowStep ==
  ASSUME Typed, NEW w \in Resolvers, CommitNarrative(w)
  PROVE  KeepsAll \/ (Answered(resolver[w].turn) /\ OthersKept(resolver[w].turn))
  <1>. DEFINE t == resolver[w].turn
  <1>1. t \in Requests
    BY ResolverTurn DEF CommitNarrative, Typed
  <1>2. CASE UNCHANGED <<turns, narrations, events>>
    BY <1>2, StillKeeps DEF CommitNarrative
  <1>3. CASE ~UNCHANGED <<turns, narrations, events>>
    <2>1. PICK offers \in BOOLEAN :
            /\ turns' = [turns EXCEPT ![t] =
                           [@ EXCEPT !.status = "committed", !.committed = campaign.version,
                                     !.lease = "none"]]
            /\ narrations' = [narrations EXCEPT ![t] =
                                [@ EXCEPT !.status = "completed", !.offers = offers]]
            /\ events' = Append(events, Tell(t, campaign.version))
      BY <1>3 DEF CommitNarrative
    <2>2. /\ turns[t].status = "resolving" /\ turns[t].route = "narrative"
          /\ UNCHANGED campaign /\ ~campaign.blocked /\ campaign.actorOK
      BY <1>3 DEF CommitNarrative, MayCommit, Committable, OwnsTurn
    <2>3. turns[t] \in TurnRow /\ narrations[t] \in NarrationRow
      BY <1>1 DEF Typed, TurnsTyped, NarrationsTyped
    <2>4. LET new == [turns[t] EXCEPT !.status = "committed", !.committed = campaign.version,
                                      !.lease = "none"]
          IN  /\ new.status = "committed" /\ new.route = turns[t].route
              /\ new.committed = campaign.version /\ new.proposal = turns[t].proposal
              /\ new.expected = turns[t].expected
              /\ new.confirms = turns[t].confirms /\ new.input = turns[t].input
      BY <2>3 DEF TurnRow
    <2>5. [narrations[t] EXCEPT !.status = "completed", !.offers = offers].status = "completed"
      BY <2>3 DEF NarrationRow
    <2>6. Answered(t)
      <3>1. Tells(t)
        BY <2>1 DEF Tells, Typed, LogTyped, Campaign
      <3>. QED BY <1>1, <2>1, <2>2, <2>4, <2>5, <3>1
           DEF Answered, Decided, Constant, KeepsVersion, Typed, TurnsTyped, NarrationsTyped
    <2>7. OthersKept(t)
      BY <2>1, <2>2 DEF OthersKept, Keeps, Constant, Typed, TurnsTyped, NarrationsTyped
    <2>. QED BY <2>6, <2>7
  <1>. QED BY <1>2, <1>3

LEMMA RecordFailureRowStep ==
  ASSUME Typed, NEW w \in Resolvers, RecordFailure(w)
  PROVE  KeepsAll \/ (GivenUp(resolver[w].turn) /\ OthersKept(resolver[w].turn))
  <1>. DEFINE t == resolver[w].turn
  <1>1. t \in Requests
    BY ResolverTurn DEF RecordFailure, Typed
  <1>2. CASE UNCHANGED turns
    BY <1>2, StillKeeps DEF RecordFailure
  <1>3. CASE ~UNCHANGED turns
    <2>1. PICK status \in {"pending", "failed"} :
            turns' = [turns EXCEPT ![t] = [@ EXCEPT !.status = status, !.lease = "none"]]
      BY <1>3 DEF RecordFailure, Requeue
    <2>2. /\ turns[t].status = "resolving" /\ UNCHANGED <<narrations, campaign, events>>
          /\ ~campaign.blocked
      BY <1>3 DEF RecordFailure, HoldsTurn, OwnsTurn
    <2>3. turns[t] \in TurnRow
      BY <1>1 DEF Typed, TurnsTyped
    <2>4. LET new == [turns[t] EXCEPT !.status = status, !.lease = "none"]
          IN  /\ new.status = status /\ new.route = turns[t].route
              /\ new.committed = turns[t].committed /\ new.proposal = turns[t].proposal
              /\ new.expected = turns[t].expected
              /\ new.confirms = turns[t].confirms /\ new.input = turns[t].input
      BY <2>3 DEF TurnRow
    <2>5. turns'[t] = [turns[t] EXCEPT !.status = status, !.lease = "none"]
      BY <1>1, <2>1 DEF Typed, TurnsTyped
    <2>6. OthersKept(t)
      BY <2>1, <2>2 DEF OthersKept, Keeps, Constant, Typed, TurnsTyped
    <2>7. CASE status = "pending"
      <3>1. Keeps(t)
        <4>1. Unresolved(t) /\ turns'[t].status = "pending" /\ ~ResolutionOver(t)
          BY <2>2, <2>4, <2>5, <2>7 DEF Unresolved, ResolutionOver
        <4>. QED BY <2>2, <2>4, <2>5, <4>1 DEF Keeps, Constant
      <3>. QED BY <2>2, <2>6, <3>1 DEF KeepsAll, KeepsVersion, OthersKept
    <2>8. CASE status = "failed"
      BY <2>2, <2>4, <2>5, <2>6, <2>8 DEF GivenUp, Decided, Constant, KeepsVersion
    <2>. QED BY <2>7, <2>8
  <1>. QED BY <1>2, <1>3

LEMMA WriteNarrationRowStep ==
  ASSUME Typed, RowsAgree, NEW t \in Requests, NEW e, HoldsNarration(t, e),
         NEW status \in {"completed", "fallback"}, NEW offers \in BOOLEAN,
         WriteNarration(t, status, offers), UNCHANGED <<turns, campaign>>,
         ~campaign.blocked,
         offers => \E n \in Narrators : narrator[n].pc = "save" /\ narrator[n].turn = t
  PROVE  ToldLater(t) /\ OthersKept(t)
  <1>1. narrations[t].status = "generating"
    BY DEF HoldsNarration
  <1>2. ResolutionOver(t) /\ Untold(t)
    BY <1>1 DEF RowsAgree, Unresolved, Untold, ResolutionOver, Typed, TurnsTyped, TurnRow
  <1>3. narrations[t] \in NarrationRow
    BY DEF Typed, NarrationsTyped
  <1>4. narrations'[t].status = status /\ narrations'[t].offers = offers
    BY <1>3 DEF WriteNarration, Typed, NarrationsTyped, NarrationRow
  <1>6. Tells(t)
    <2>1. turns[t].committed \in Nat /\ campaign.version \in Nat
      BY DEF Typed, TurnsTyped, TurnRow, LogTyped, Campaign
    <2>. QED BY <2>1 DEF WriteNarration, Tells
  <1>5. OthersKept(t)
    BY DEF WriteNarration, OthersKept, Keeps, Constant, Typed, NarrationsTyped
  <1>. QED BY <1>2, <1>4, <1>5, <1>6 DEF ToldLater, KeepsVersion

LEMMA TerminalRowStep ==
  ASSUME Typed, RowsAgree, NEW w \in Resolvers, AcquireTerminal(w) \/ SaveTerminal(w)
  PROVE  RowStep
  <1>1. resolver[w].turn \in Requests
    BY ResolverTurn DEF AcquireTerminal, SaveTerminal, Typed
  <1>2. CASE AcquireTerminal(w)
    BY <1>1, <1>2, StillKeeps, AcquireNarrationRowStep DEF AcquireTerminal, RowStep
  <1>3. CASE SaveTerminal(w)
    BY <1>1, <1>3, StillKeeps, WriteNarrationRowStep DEF SaveTerminal, MayTell, RowStep
  <1>. QED BY <1>2, <1>3

LEMMA FailNarrationRowStep ==
  ASSUME Typed, RowsAgree, NEW n \in Narrators, FailNarration(n)
  PROVE  KeepsAll
  <1>. DEFINE t == narrator[n].turn
  <1>1. t \in Requests
    BY NarratorTurn DEF FailNarration, Typed
  <1>2. CASE UNCHANGED narrations
    BY <1>2, StillKeeps DEF FailNarration
  <1>3. CASE ~UNCHANGED narrations
    <2>1. /\ narrations' = [narrations EXCEPT ![t] =
                              [@ EXCEPT !.status = "pending", !.lease = "none"]]
          /\ narrations[t].status = "generating"
          /\ UNCHANGED <<turns, campaign, events>>
      BY <1>3 DEF FailNarration, HoldsNarration
    <2>2. narrations[t] \in NarrationRow
      BY <1>1 DEF Typed, NarrationsTyped
    <2>3. narrations'[t].status = "pending"
      BY <1>1, <2>1, <2>2 DEF Typed, NarrationsTyped, NarrationRow
    <2>4. ResolutionOver(t)
      BY <1>1, <2>1 DEF RowsAgree, Unresolved, ResolutionOver, Typed, TurnsTyped, TurnRow
    <2>. QED BY <2>1, <2>3, <2>4
         DEF KeepsAll, KeepsVersion, Keeps, Constant, Untold, Typed, NarrationsTyped
  <1>. QED BY <1>2, <1>3

LEMMA NarratorRowStep ==
  ASSUME Typed, RowsAgree, NEW n \in Narrators, NarratorStep(n)
  PROVE  RowStep
  <1>1. ASSUME NEW t \in Requests, AcquireNarration(n, t) PROVE RowStep
    BY <1>1, AcquireNarrationRowStep DEF AcquireNarration, RowStep
  <1>2. CASE LoadNarration(n) \/ CallNarrator(n)
    BY <1>2, StillKeeps DEF LoadNarration, CallNarrator, RowStep
  <1>3. CASE ReserveNarration(n)
    BY <1>3, StillKeeps, ReserveRowStep, NarratorTurn DEF ReserveNarration, RowStep, Typed
  <1>4. CASE SaveNarration(n) \/ SaveFallback(n)
    <2>1. narrator[n].turn \in Requests
      BY <1>4, NarratorTurn DEF SaveNarration, SaveFallback, Typed
    <2>. QED BY <1>4, <2>1, StillKeeps, WriteNarrationRowStep
         DEF SaveNarration, SaveFallback, MayTell, RowStep
  <1>5. CASE FailNarration(n)
    BY <1>5, FailNarrationRowStep DEF RowStep
  <1>. QED BY <1>1, <1>2, <1>3, <1>4, <1>5 DEF NarratorStep

LEMMA ResolverRowStep ==
  ASSUME Typed, RowsAgree, NEW w \in Resolvers, ResolverStep(w)
  PROVE  RowStep
  <1>1. CASE \E t \in Requests : AcquireTurn(w, t)
    BY <1>1, AcquireTurnRowStep DEF RowStep
  <1>2. CASE LoadWork(w) \/ RefuseBoundary(w) \/ CallModel(w) \/ BindAction(w)
    BY <1>2, StillKeeps DEF LoadWork, RefuseBoundary, CallModel, BindAction, RowStep
  <1>3. CASE ChooseRoute(w) \/ Promote(w)
    BY <1>3, ChooseRouteRowStep DEF RowStep
  <1>4. CASE ReserveCall(w)
    BY <1>4, StillKeeps, ReserveRowStep, ResolverTurn DEF ReserveCall, RowStep, Typed
  <1>5. CASE FinalizeNotApplied(w) \/ PreviewRisk(w)
    BY <1>5, FinalizeRowStep, ResolverTurn DEF FinalizeNotApplied, PreviewRisk, RowStep, Typed
  <1>6. CASE CommitResolution(w)
    BY <1>6, CommitResolutionRowStep, ResolverTurn DEF CommitResolution, RowStep, Typed
  <1>7. CASE CommitNarrative(w)
    BY <1>7, CommitNarrativeRowStep, ResolverTurn DEF CommitNarrative, RowStep, Typed
  <1>8. CASE RecordFailure(w)
    BY <1>8, RecordFailureRowStep, ResolverTurn DEF RecordFailure, RowStep, Typed
  <1>9. CASE AcquireTerminal(w) \/ SaveTerminal(w)
    BY <1>9, TerminalRowStep
  <1>. QED BY <1>1, <1>2, <1>3, <1>4, <1>5, <1>6, <1>7, <1>8, <1>9 DEF ResolverStep

LEMMA TimeRowStep ==
  ASSUME Typed, NEW t \in Requests, TimeStep(t)
  PROVE  KeepsAll
  <1>. USE DEF KeepsAll, KeepsVersion, Keeps, Constant, Typed
  <1>1. ASSUME NEW row \in TurnRow, NEW lease, NEW deadline
        PROVE  LET new == [row EXCEPT !.lease = lease]
                   late == [row EXCEPT !.deadline = deadline]
               IN  /\ new.status = row.status /\ late.status = row.status
                   /\ new.expected = row.expected /\ late.expected = row.expected
                   /\ new.confirms = row.confirms /\ late.confirms = row.confirms
                   /\ new.input = row.input /\ late.input = row.input
                   /\ new.committed = row.committed /\ late.committed = row.committed
                   /\ new.proposal = row.proposal /\ late.proposal = row.proposal
                   /\ new.route = row.route /\ late.route = row.route
    BY DEF TurnRow
  <1>2. ASSUME NEW row \in NarrationRow, NEW lease, NEW deadline
        PROVE  /\ [row EXCEPT !.lease = lease].status = row.status
               /\ [row EXCEPT !.lease = lease].offers = row.offers
               /\ [row EXCEPT !.deadline = deadline].status = row.status
               /\ [row EXCEPT !.deadline = deadline].offers = row.offers
    BY DEF NarrationRow
  <1>3. CASE LapseTurn(t)
    BY <1>1, <1>3 DEF LapseTurn, TurnsTyped
  <1>4. CASE LapseNarration(t)
    BY <1>2, <1>4 DEF LapseNarration, NarrationsTyped
  <1>5. CASE PassTurnDeadline(t)
    BY <1>1, <1>5 DEF PassTurnDeadline, TurnsTyped
  <1>6. CASE PassNarrationDeadline(t)
    BY <1>2, <1>6 DEF PassNarrationDeadline, NarrationsTyped
  <1>. QED BY <1>3, <1>4, <1>5, <1>6 DEF TimeStep

LEMMA EnvironmentRowStep ==
  ASSUME Typed, Environment
  PROVE  KeepsAll
  BY DEF Environment, CrashResolver, CrashNarrator, BlockStory, UnblockStory, RevokeActor,
         KeepsAll, KeepsVersion, Keeps, Constant, Typed, LogTyped, Campaign

LEMMA NextRowStep ==
  ASSUME Typed, RowsAgree, [Next]_vars
  PROVE  RowStep
  <1>1. CASE UNCHANGED vars \/ Quiescent
    BY <1>1, StillKeeps DEF vars, Quiescent, RowStep
  <1>2. CASE \E t \in Requests : Accept(t)
    BY <1>2, AcceptRowStep DEF RowStep
  <1>3. CASE \E w \in Resolvers : ResolverStep(w)
    BY <1>3, ResolverRowStep
  <1>4. CASE \E n \in Narrators : NarratorStep(n)
    BY <1>4, NarratorRowStep
  <1>5. CASE \E t \in Requests : TimeStep(t)
    BY <1>5, TimeRowStep DEF RowStep
  <1>6. CASE Environment
    BY <1>6, EnvironmentRowStep DEF RowStep
  <1>. QED BY <1>1, <1>2, <1>3, <1>4, <1>5, <1>6 DEF Next

-----------------------------------------------------------------------------
(* One open turn *)

RowInv == Typed /\ RowsAgree /\ OneOpenTurn

LEMMA RowsAgreeStep ==
  ASSUME Typed, Typed', RowsAgree, RowStep PROVE RowsAgree'
  <1>. USE DEF RowsAgree, Unresolved, Untold, ResolutionOver
  <1>1. ASSUME NEW r \in Requests, Keeps(r)
        PROVE  /\ turns'[r].status = "absent" <=> narrations'[r].status = "absent"
               /\ turns'[r].status \in {"pending", "resolving"} => narrations'[r].status = "pending"
               /\ turns'[r].status = "not_applied" => narrations'[r].status = "completed"
    BY <1>1 DEF Keeps
  <1>2. CASE KeepsAll
    BY <1>1, <1>2 DEF KeepsAll
  <1>3. ASSUME NEW t \in Requests, OthersKept(t),
               \/ Accepted(t) \/ Applied(t) \/ Answered(t)
               \/ Declined(t) \/ GivenUp(t) \/ ToldLater(t)
        PROVE  RowsAgree'
    <2>1. /\ turns'[t].status = "absent" <=> narrations'[t].status = "absent"
          /\ turns'[t].status \in {"pending", "resolving"} => narrations'[t].status = "pending"
          /\ turns'[t].status = "not_applied" => narrations'[t].status = "completed"
      BY <1>3 DEF Accepted, Applied, Answered, Declined, GivenUp, ToldLater, Decided
    <2>. QED BY <1>1, <1>3, <2>1 DEF OthersKept
  <1>. QED BY <1>2, <1>3 DEF RowStep

LEMMA OneOpenTurnStep ==
  ASSUME RowsAgree, OneOpenTurn, RowStep PROVE OneOpenTurn'
  <1>. USE DEF Open, Unresolved, Untold, ResolutionOver
  <1>1. ASSUME NEW r \in Requests, Keeps(r), Open(r)' PROVE Open(r)
    BY <1>1 DEF Keeps
  <1>2. CASE KeepsAll
    BY <1>1, <1>2 DEF KeepsAll, OneOpenTurn
  <1>3. ASSUME NEW t \in Requests, OthersKept(t), Accepted(t) PROVE OneOpenTurn'
    BY <1>1, <1>3 DEF OthersKept, Accepted, NoOpenTurn, OneOpenTurn
  <1>4. ASSUME NEW t \in Requests, OthersKept(t), Open(t) PROVE OneOpenTurn'
    BY <1>1, <1>4 DEF OthersKept, OneOpenTurn
  <1>. QED BY <1>2, <1>3, <1>4
       DEF RowStep, Applied, Answered, Declined, GivenUp, ToldLater, Decided

LEMMA RowInvInit == Init => RowInv
  BY TypedInit DEF Init, RowInv, RowsAgree, OneOpenTurn, Open, Unresolved, Untold, NoRow,
                   NoNarration

LEMMA RowInvNext ==
  ASSUME RowInv, [Next]_vars PROVE RowInv' /\ RowStep
  BY TypedNext, NextRowStep, RowsAgreeStep, OneOpenTurnStep DEF RowInv

LEMMA RowInvAlways == Spec => []RowInv
  BY RowInvInit, RowInvNext, PTL DEF Spec

\* However requests, retries, takeovers and fallbacks interleave, a campaign never
\* has two turns that are undecided or untold.
THEOREM OneOpenTurnCorrect == Spec => []OneOpenTurn
  <1>1. RowInv => OneOpenTurn
    BY DEF RowInv
  <1>. QED BY <1>1, RowInvAlways, PTL

-----------------------------------------------------------------------------
(* Final outcomes *)

FinalStep ==
    \A t \in Requests :
        /\ ResolutionOver(t) =>
              /\ turns'[t].status = turns[t].status
              /\ turns'[t].committed = turns[t].committed
              /\ turns'[t].route = turns[t].route
        /\ narrations[t].status \in {"completed", "fallback"} =>
              narrations'[t].status = narrations[t].status

LEMMA FinalRowStep ==
  ASSUME RowInv, RowStep PROVE FinalStep
  <1>. USE DEF Unresolved, Untold, ResolutionOver
  <1>1. ASSUME NEW r \in Requests, Keeps(r)
        PROVE  /\ ResolutionOver(r) =>
                    /\ turns'[r].status = turns[r].status
                    /\ turns'[r].committed = turns[r].committed
                    /\ turns'[r].route = turns[r].route
               /\ narrations[r].status \in {"completed", "fallback"} =>
                    narrations'[r].status = narrations[r].status
    BY <1>1 DEF Keeps
  <1>2. ASSUME NEW t \in Requests,
               \/ Accepted(t) \/ Applied(t) \/ Answered(t)
               \/ Declined(t) \/ GivenUp(t) \/ ToldLater(t)
        PROVE  /\ ResolutionOver(t) =>
                    /\ turns'[t].status = turns[t].status
                    /\ turns'[t].committed = turns[t].committed
                    /\ turns'[t].route = turns[t].route
               /\ narrations[t].status \in {"completed", "fallback"} =>
                    narrations'[t].status = narrations[t].status
    BY <1>2 DEF Accepted, Applied, Answered, Declined, GivenUp, ToldLater, Decided,
                RowInv, RowsAgree
  <1>. QED BY <1>1, <1>2 DEF RowStep, KeepsAll, OthersKept, FinalStep

\* A decided resolution and a finished narration are never changed again, by no
\* late worker, retry or fallback.
THEOREM OutcomeFinal == Spec => OutcomeIsFinal
  <1>1. RowInv /\ [Next]_vars => [FinalStep]_vars
    BY RowInvNext, FinalRowStep
  <1>2. OutcomeIsFinal <=> [][FinalStep]_vars
    BY DEF OutcomeIsFinal, FinalStep
  <1>. QED BY <1>1, <1>2, RowInvAlways, PTL DEF Spec

-----------------------------------------------------------------------------
(* The administrator's stop *)

ObeysStop ==
    /\ campaign.blocked \/ ~campaign.actorOK =>
          \A t \in Requests : turns'[t].status = "committed" => turns[t].status = "committed"
    /\ campaign.blocked =>
          /\ events' = events
          /\ \A t \in Requests : turns'[t].calls <= turns[t].calls

\* While the story is stopped no step reserves a call.
LEMMA StoppedCalls ==
  ASSUME Typed, [Next]_vars, campaign.blocked, NEW r \in Requests
  PROVE  turns'[r].calls = turns[r].calls
  <1>. USE DEF Typed
  <1>0. ASSUME NEW row \in TurnRow, NEW a
        PROVE  /\ [row EXCEPT !.route = a].calls = row.calls
               /\ [row EXCEPT !.lease = a].calls = row.calls
               /\ [row EXCEPT !.deadline = a].calls = row.calls
    BY DEF TurnRow
  <1>1. turns \in [Requests -> TurnRow]
    BY DEF TurnsTyped
  <1>2. CASE UNCHANGED turns
    BY <1>2
  <1>3. ASSUME NEW t \in Requests, NEW a,
               \/ turns' = [turns EXCEPT ![t].route = a]
               \/ turns' = [turns EXCEPT ![t].lease = a]
               \/ turns' = [turns EXCEPT ![t].deadline = a]
        PROVE  turns'[r].calls = turns[r].calls
    <2>1. \/ turns'[r] = turns[r]
          \/ turns'[r] = [turns[r] EXCEPT !.route = a]
          \/ turns'[r] = [turns[r] EXCEPT !.lease = a]
          \/ turns'[r] = [turns[r] EXCEPT !.deadline = a]
      BY <1>1, <1>3
    <2>2. turns[r] \in TurnRow
      BY <1>1
    <2>3. /\ [turns[r] EXCEPT !.route = a].calls = turns[r].calls
          /\ [turns[r] EXCEPT !.lease = a].calls = turns[r].calls
          /\ [turns[r] EXCEPT !.deadline = a].calls = turns[r].calls
      BY <1>0, <2>2
    <2>. QED BY <2>1, <2>3
  <1>4. ASSUME NEW w \in Resolvers, ResolverStep(w)
        PROVE  turns'[r].calls = turns[r].calls
    <2>1. CASE ChooseRoute(w) \/ Promote(w)
      BY <1>2, <1>3, <2>1, ResolverTurn DEF ChooseRoute, Promote
    <2>2. CASE \/ LoadWork(w) \/ RefuseBoundary(w) \/ CallModel(w) \/ BindAction(w)
               \/ AcquireTerminal(w) \/ SaveTerminal(w)
      BY <1>2, <2>2 DEF LoadWork, RefuseBoundary, CallModel, BindAction, AcquireTerminal,
                        SaveTerminal
    <2>3. CASE \/ \E t \in Requests : AcquireTurn(w, t)
               \/ ReserveCall(w) \/ FinalizeNotApplied(w) \/ RecordFailure(w)
      BY <1>2, <2>3 DEF AcquireTurn, ResolutionCandidate, ReserveCall, FinalizeNotApplied,
                        RecordFailure
    <2>4. CASE PreviewRisk(w) \/ CommitResolution(w) \/ CommitNarrative(w)
      BY <1>2, <2>4 DEF PreviewRisk, CommitResolution, CommitNarrative, MayCommit
    <2>. QED BY <1>4, <2>1, <2>2, <2>3, <2>4 DEF ResolverStep
  <1>5. ASSUME NEW n \in Narrators, NarratorStep(n) PROVE UNCHANGED turns
    BY <1>5 DEF NarratorStep, AcquireNarration, LoadNarration, ReserveNarration, CallNarrator,
                SaveNarration, FailNarration, SaveFallback
  <1>6. ASSUME NEW t \in Requests, TimeStep(t) PROVE turns'[r].calls = turns[r].calls
    BY <1>2, <1>3, <1>6 DEF TimeStep, LapseTurn, LapseNarration, PassTurnDeadline,
                            PassNarrationDeadline
  <1>7. ASSUME NEW t \in Requests, Accept(t) PROVE FALSE
    BY <1>7 DEF Accept
  <1>8. CASE Environment
    BY <1>2, <1>8 DEF Environment, CrashResolver, CrashNarrator, BlockStory, UnblockStory,
                      RevokeActor
  <1>. QED BY <1>2, <1>4, <1>5, <1>6, <1>7, <1>8 DEF Next, vars, Quiescent

LEMMA StopStep ==
  ASSUME RowInv, [Next]_vars PROVE ObeysStop
  <1>1. Typed /\ RowStep
    BY RowInvNext DEF RowInv
  <1>2. ASSUME NEW r \in Requests, Keeps(r)
        PROVE  turns'[r].status = "committed" => turns[r].status = "committed"
    BY <1>2 DEF Keeps
  <1>3. ASSUME NEW t \in Requests,
               \/ Accepted(t) \/ Applied(t) \/ Answered(t)
               \/ Declined(t) \/ GivenUp(t) \/ ToldLater(t)
        PROVE  /\ ~campaign.blocked
               /\ \/ campaign.actorOK
                  \/ turns'[t].status = "committed" => turns[t].status = "committed"
    BY <1>3 DEF Accepted, Applied, Answered, Declined, GivenUp, ToldLater, Decided
  <1>4. campaign.blocked => KeepsAll
    BY <1>1, <1>3 DEF RowStep
  <1>5. campaign.blocked \/ ~campaign.actorOK =>
           \A t \in Requests : turns'[t].status = "committed" => turns[t].status = "committed"
    BY <1>1, <1>2, <1>3 DEF RowStep, KeepsAll, OthersKept
  <1>6. ASSUME campaign.blocked, NEW t \in Requests PROVE turns'[t].calls <= turns[t].calls
    <2>1. turns[t].calls \in Nat
      BY <1>1 DEF Typed, TurnsTyped, TurnRow
    <2>. QED BY <1>1, <1>6, <2>1, StoppedCalls
  <1>. QED BY <1>4, <1>5, <1>6 DEF ObeysStop, KeepsAll

\* A stop, or the loss of the actor, takes effect at once: no worker commits
\* afterwards what it had prepared before, tells it, or starts another call.
THEOREM StopObeyed == Spec => StopIsObeyed
  <1>1. RowInv /\ [Next]_vars => [ObeysStop]_vars
    BY StopStep
  <1>2. StopIsObeyed <=> [][ObeysStop]_vars
    BY DEF StopIsObeyed, ObeysStop
  <1>. QED BY <1>1, <1>2, RowInvAlways, PTL DEF Spec

-----------------------------------------------------------------------------
(* The contract *)

LEMMA ContractInit == Init => Contract!Init
  <1>. SUFFICES ASSUME Init PROVE Contract!Init
    OBVIOUS
  <1>1. \A r \in Requests : turns[r].status = "absent" /\ narrations[r].status = "absent"
    BY DEF Init, NoRow, NoNarration
  <1>2. Outcome = [r \in Requests |-> "absent"]
    BY <1>1 DEF Outcome, Unresolved
  <1>3. Told = [r \in Requests |-> FALSE]
    <2>1. \A r \in Requests : (narrations[r].status \in {"completed", "fallback"}) = FALSE
      BY <1>1
    <2>. QED BY <2>1, Zenon DEF Told
  <1>4. campaign.version = 0
    BY DEF Init
  <1>. QED BY <1>2, <1>3, <1>4 DEF Contract!Init

LEMMA ContractKeeps ==
  ASSUME NEW r \in Requests, Keeps(r)
  PROVE  Outcome'[r] = Outcome[r] /\ Told'[r] = Told[r]
  <1>1. Outcome'[r] = Outcome[r]
    BY DEF Keeps, Outcome, Unresolved
  <1>2. Told'[r] = Told[r]
    BY DEF Keeps, Told, Untold
  <1>. QED BY <1>1, <1>2

LEMMA ContractStep ==
  ASSUME RowInv, RowStep PROVE [Contract!Next]_(Contract!cvars)
  <1>0. /\ Outcome = [r \in Requests |-> Outcome[r]] /\ Told = [r \in Requests |-> Told[r]]
        /\ Outcome' = [r \in Requests |-> Outcome'[r]] /\ Told' = [r \in Requests |-> Told'[r]]
    BY DEF Outcome, Told
  <1>1. CASE KeepsAll
    <2>1. Outcome' = Outcome /\ Told' = Told
      BY <1>0, <1>1, ContractKeeps DEF KeepsAll
    <2>. QED BY <1>1, <2>1 DEF KeepsAll, KeepsVersion, Contract!cvars
  <1>2. ASSUME NEW t \in Requests, OthersKept(t),
               \/ Accepted(t) \/ Applied(t) \/ Answered(t)
               \/ Declined(t) \/ GivenUp(t) \/ ToldLater(t)
        PROVE  Contract!Next
    <2>1. /\ Outcome' = [Outcome EXCEPT ![t] = Outcome'[t]]
          /\ Told' = [Told EXCEPT ![t] = Told'[t]]
      <3>1. \A r \in Requests \ {t} : Outcome'[r] = Outcome[r] /\ Told'[r] = Told[r]
        BY <1>2, ContractKeeps DEF OthersKept
      <3>. QED BY <1>0, <3>1
    <2>2. /\ Outcome[t] = IF Unresolved(t) THEN "open" ELSE turns[t].status
          /\ Outcome'[t] = IF turns'[t].status \in {"pending", "resolving"} THEN "open"
                           ELSE turns'[t].status
          /\ Told[t] = (narrations[t].status \in {"completed", "fallback"})
          /\ Told'[t] = (narrations'[t].status \in {"completed", "fallback"})
      BY DEF Outcome, Told, Unresolved
    <2>3. CASE Accepted(t)
      <3>1. ASSUME NEW r \in Requests PROVE Contract!Settled(r)
        <4>1. ~Unresolved(r) /\ ~Untold(r)
          BY <2>3 DEF Accepted, NoOpenTurn, Open
        <4>2. /\ narrations[r].status \in {"absent", "pending", "generating",
                                           "completed", "fallback"}
              /\ turns[r].status = "absent" <=> narrations[r].status = "absent"
          BY DEF RowInv, RowsAgree, Typed, NarrationsTyped, NarrationRow
        <4>3. Outcome[r] = turns[r].status
          BY <4>1 DEF Outcome
        <4>4. Told[r] <=> narrations[r].status \in {"completed", "fallback"}
          BY DEF Told
        <4>5. turns[r].status # "open"
          BY DEF RowInv, Typed, TurnsTyped, TurnRow
        <4>6. \/ Outcome[r] = "absent"
              \/ Outcome[r] # "open" /\ Told[r]
          BY <4>1, <4>2, <4>3, <4>4, <4>5 DEF Untold
        <4>. QED BY <4>6 DEF Contract!Settled
      <3>2. Told'[t] = Told[t]
        BY <2>2, <2>3 DEF Accepted, RowInv, RowsAgree
      <3>3. Outcome[t] = "absent" /\ Outcome'[t] = "open"
        BY <2>2, <2>3 DEF Accepted, Unresolved
      <3>4. Told' = Told
        BY <1>0, <2>1, <3>2
      <3>5. Contract!Submit(t)
        BY <2>1, <2>3, <3>1, <3>3, <3>4 DEF Contract!Submit, Accepted, KeepsVersion
      <3>. QED BY <3>5 DEF Contract!Next
    <2>4. CASE Applied(t)
      <3>1. Outcome[t] = "open" /\ Outcome'[t] = "committed" /\ Told'[t] = Told[t]
        BY <2>2, <2>4 DEF Applied, Decided, Unresolved
      <3>2. Told' = Told
        BY <1>0, <2>1, <3>1
      <3>3. Contract!Apply(t)
        BY <2>1, <2>4, <3>1, <3>2 DEF Contract!Apply, Applied
      <3>. QED BY <3>3 DEF Contract!Next
    <2>5. CASE Answered(t) \/ Declined(t)
      <3>1. /\ Outcome[t] = "open" /\ Outcome'[t] \in {"committed", "not_applied"}
            /\ Told'[t] = TRUE
        BY <2>2, <2>5 DEF Answered, Declined, Decided, Unresolved
      <3>2. Contract!Answer(t)
        BY <2>1, <2>5, <3>1 DEF Contract!Answer, Answered, Declined, KeepsVersion
      <3>. QED BY <3>2 DEF Contract!Next
    <2>6. CASE GivenUp(t)
      <3>1. Outcome[t] = "open" /\ Outcome'[t] = "failed" /\ Told'[t] = Told[t]
        BY <2>2, <2>6 DEF GivenUp, Decided, Unresolved
      <3>2. Told' = Told
        BY <1>0, <2>1, <3>1
      <3>3. Contract!GiveUp(t)
        BY <2>1, <2>6, <3>1, <3>2 DEF Contract!GiveUp, GivenUp, KeepsVersion
      <3>. QED BY <3>3 DEF Contract!Next
    <2>7. CASE ToldLater(t)
      <3>1. turns[t].status \in {"committed", "failed"}
        BY <2>7 DEF ToldLater, ResolutionOver, Untold, RowInv, RowsAgree
      <3>2. /\ Outcome[t] \in {"committed", "failed"} /\ Outcome'[t] = Outcome[t]
            /\ ~Told[t] /\ Told'[t] = TRUE
        BY <2>2, <2>7, <3>1 DEF ToldLater, Untold, Unresolved
      <3>3. Outcome' = Outcome
        BY <1>0, <2>1, <3>2
      <3>4. Contract!Tell(t)
        BY <2>1, <2>7, <3>2, <3>3 DEF Contract!Tell, ToldLater, KeepsVersion
      <3>. QED BY <3>4 DEF Contract!Next
    <2>. QED BY <1>2, <2>3, <2>4, <2>5, <2>6, <2>7
  <1>. QED BY <1>1, <1>2 DEF RowStep

\* Any number of workers that crash, stall and lose races implement the contract
\* that decides each turn once and tells it once.
THEOREM ContractImplemented == Spec => ImplementsContract
  <1>1. RowInv /\ [Next]_vars => [Contract!Next]_(Contract!cvars)
    BY RowInvNext, ContractStep
  <1>. QED BY <1>1, ContractInit, RowInvAlways, PTL DEF Spec, ImplementsContract, Contract!Spec
-----------------------------------------------------------------------------
(* The log *)

Resulted(t) == turns[t].status = "committed" /\ turns[t].route = "mechanical"
HasTold(t)  == narrations[t].status \in {"completed", "fallback"}

\* What EventsMatchTurns counts, without counting.
LogRow(t) ==
    /\ IF Resulted(t) THEN \E i \in DOMAIN events : At(t, "resolved") = {i}
                      ELSE At(t, "resolved") = {}
    /\ IF HasTold(t)  THEN \E i \in DOMAIN events : At(t, "narrated") = {i}
                      ELSE At(t, "narrated") = {}
    /\ \A i \in At(t, "resolved"), j \in At(t, "narrated") : i < j

LogInv == RowInv /\ \A t \in Requests : LogRow(t)

LEMMA LogInit == Init => LogInv
  BY RowInvInit DEF LogInv, LogRow, Resulted, HasTold, At, Init, NoRow, NoNarration

\* An event is counted for its own turn and type only.
LEMMA AtAppended ==
  ASSUME Typed, NEW e \in Event, events' = Append(events, e), NEW t, NEW type
  PROVE  /\ At(t, type)' = IF e.turn = t /\ e.type = type
                           THEN At(t, type) \cup {Len(events) + 1} ELSE At(t, type)
         /\ Len(events) + 1 \in DOMAIN events'
         /\ \A i \in At(t, type) : i \in DOMAIN events' /\ i \in Nat /\ i < Len(events) + 1
  <1>1. events \in Seq(Event)
    BY DEF Typed, LogTyped
  <1>2. /\ DOMAIN events' = DOMAIN events \cup {Len(events) + 1}
        /\ \A i \in DOMAIN events : events'[i] = events[i]
        /\ events'[Len(events) + 1] = e
        /\ DOMAIN events = 1..Len(events) /\ Len(events) \in Nat
    BY <1>1
  <1>. QED BY <1>2 DEF At

LEMMA AtKept ==
  ASSUME events' = events, NEW t, NEW type PROVE At(t, type)' = At(t, type)
  BY DEF At

\* A row that keeps its phases keeps its events, if the log gains none of its own.
LEMMA LogRowKept ==
  ASSUME Typed, NEW r \in Requests, LogRow(r), Resulted(r)' = Resulted(r), HasTold(r)' = HasTold(r),
         \/ events' = events
         \/ \E e \in Event : e.turn # r /\ events' = Append(events, e)
  PROVE  LogRow(r)'
  <1>1. /\ At(r, "resolved")' = At(r, "resolved") /\ At(r, "narrated")' = At(r, "narrated")
        /\ DOMAIN events \subseteq DOMAIN events'
    <2>1. CASE events' = events
      BY <2>1, AtKept
    <2>2. CASE events' # events
      <3>1. PICK e \in Event : e.turn # r /\ events' = Append(events, e)
        BY <2>2
      <3>2. DOMAIN events \subseteq DOMAIN events'
        BY <3>1 DEF Typed, LogTyped
      <3>. QED BY <3>1, <3>2, AtAppended
    <2>. QED BY <2>1, <2>2
  <1>2. /\ IF Resulted(r)' THEN \E i \in DOMAIN events' : At(r, "resolved")' = {i}
                           ELSE At(r, "resolved")' = {}
        /\ IF HasTold(r)'  THEN \E i \in DOMAIN events' : At(r, "narrated")' = {i}
                           ELSE At(r, "narrated")' = {}
    BY <1>1, Zenon DEF LogRow
  <1>3. \A i \in At(r, "resolved")', j \in At(r, "narrated")' : i < j
    BY <1>1 DEF LogRow
  <1>. QED BY <1>2, <1>3 DEF LogRow

LEMMA KeepsPhases ==
  ASSUME NEW r \in Requests, Keeps(r)
  PROVE  Resulted(r)' = Resulted(r) /\ HasTold(r)' = HasTold(r)
  BY DEF Keeps, Unresolved, Untold, ResolutionOver, Resulted, HasTold

LEMMA EventsTyped ==
  ASSUME NEW t \in Requests, NEW v \in Nat PROVE Tell(t, v) \in Event /\ Result(t, v) \in Event
  BY DEF Tell, Result, Event

LEMMA TellsEvent ==
  ASSUME NEW t \in Requests, Tells(t)
  PROVE  \E e \in Event : e.turn = t /\ e.type = "narrated" /\ events' = Append(events, e)
  BY EventsTyped DEF Tells, Tell

LEMMA ResultsEvent ==
  ASSUME NEW t \in Requests, Results(t)
  PROVE  \E e \in Event : e.turn = t /\ e.type = "resolved" /\ events' = Append(events, e)
  BY EventsTyped DEF Results, Result

\* A narration is logged for a turn that was not told, after its result.
LEMMA TellingRow ==
  ASSUME Typed, NEW t \in Requests, LogRow(t), ~HasTold(t), HasTold(t)', Tells(t),
         Resulted(t)' = Resulted(t)
  PROVE  LogRow(t)'
  <1>1. PICK e \in Event : e.turn = t /\ e.type = "narrated" /\ events' = Append(events, e)
    BY TellsEvent
  <1>. DEFINE last == Len(events) + 1
  <1>2. /\ At(t, "resolved")' = At(t, "resolved")
        /\ At(t, "narrated")' = At(t, "narrated") \cup {last}
        /\ last \in DOMAIN events'
        /\ \A i \in At(t, "resolved") : i \in DOMAIN events' /\ i < last
    BY <1>1, AtAppended
  <1>3. At(t, "narrated")' = {last}
    BY <1>2 DEF LogRow
  <1>4. IF Resulted(t)' THEN \E i \in DOMAIN events' : At(t, "resolved")' = {i}
                        ELSE At(t, "resolved")' = {}
    <2>1. CASE Resulted(t)
      <3>1. PICK i : At(t, "resolved") = {i}
        BY <2>1 DEF LogRow
      <3>. QED BY <1>2, <2>1, <3>1
    <2>2. CASE ~Resulted(t)
      BY <1>2, <2>2 DEF LogRow
    <2>. QED BY <2>1, <2>2
  <1>5. \A i \in At(t, "resolved")', j \in At(t, "narrated")' : i < j
    BY <1>2, <1>3
  <1>. QED BY <1>2, <1>3, <1>4, <1>5 DEF LogRow

LEMMA ResultingRow ==
  ASSUME Typed, NEW t \in Requests, LogRow(t), ~Resulted(t), Resulted(t)', Results(t),
         ~HasTold(t), ~HasTold(t)'
  PROVE  LogRow(t)'
  <1>1. PICK e \in Event : e.turn = t /\ e.type = "resolved" /\ events' = Append(events, e)
    BY ResultsEvent
  <1>. DEFINE last == Len(events) + 1
  <1>2. /\ At(t, "resolved")' = At(t, "resolved") \cup {last}
        /\ At(t, "narrated")' = At(t, "narrated")
        /\ last \in DOMAIN events'
    BY <1>1, AtAppended
  <1>3. At(t, "resolved")' = {last} /\ At(t, "narrated")' = {}
    BY <1>2 DEF LogRow
  <1>. QED BY <1>2, <1>3 DEF LogRow

LEMMA LogStep ==
  ASSUME LogInv, RowStep PROVE \A r \in Requests : LogRow(r)'
  <1>0. Typed /\ RowsAgree /\ \A r \in Requests : LogRow(r)
    BY DEF LogInv, RowInv
  <1>1. CASE KeepsAll
    BY <1>0, <1>1, KeepsPhases, LogRowKept DEF KeepsAll
  <1>2. ASSUME NEW t \in Requests, OthersKept(t),
               \/ Accepted(t) \/ Applied(t) \/ Answered(t)
               \/ Declined(t) \/ GivenUp(t) \/ ToldLater(t)
        PROVE  \A r \in Requests : LogRow(r)'
    <2>1. events' = events \/ Tells(t) \/ Results(t)
      BY <1>2 DEF Accepted, Applied, Answered, Declined, GivenUp, ToldLater
    <2>2. \/ events' = events
          \/ \E e \in Event : e.turn = t /\ events' = Append(events, e)
      BY <2>1, TellsEvent, ResultsEvent
    <2>3. ASSUME NEW r \in Requests \ {t} PROVE LogRow(r)'
      BY <1>0, <1>2, <2>2, KeepsPhases, LogRowKept DEF OthersKept
    <2>4. CASE Accepted(t) \/ GivenUp(t)
      <3>1. /\ ~Resulted(t) /\ ~Resulted(t)' /\ ~HasTold(t) /\ ~HasTold(t)'
            /\ events' = events
        BY <1>0, <2>4
           DEF Accepted, GivenUp, Decided, RowsAgree, Unresolved, Resulted, HasTold
      <3>2. Resulted(t)' = Resulted(t) /\ HasTold(t)' = HasTold(t)
        BY <3>1 DEF Resulted, HasTold
      <3>3. LogRow(t)'
        BY <1>0, <3>1, <3>2, LogRowKept
      <3>. QED BY <2>3, <3>3
    <2>5. CASE Applied(t)
      <3>1. ~Resulted(t) /\ Resulted(t)' /\ ~HasTold(t) /\ ~HasTold(t)' /\ Results(t)
        BY <1>0, <2>5 DEF Applied, Decided, RowsAgree, Unresolved, Resulted, HasTold
      <3>2. LogRow(t)'
        BY <1>0, <3>1, ResultingRow
      <3>. QED BY <2>3, <3>2
    <2>6. CASE Answered(t) \/ Declined(t) \/ ToldLater(t)
      <3>1. ~HasTold(t) /\ HasTold(t)' /\ Tells(t)
        BY <1>0, <2>6
           DEF Answered, Declined, ToldLater, Decided, RowsAgree, Unresolved, Untold, HasTold
      <3>2. Resulted(t)' = Resulted(t)
        BY <2>6 DEF Answered, Declined, ToldLater, Decided, Resulted
      <3>3. LogRow(t)'
        BY <1>0, <3>1, <3>2, TellingRow
      <3>. QED BY <2>3, <3>3
    <2>. QED BY <1>2, <2>4, <2>5, <2>6
  <1>. QED BY <1>1, <1>2 DEF RowStep

LEMMA LogRowsMatch ==
  ASSUME \A t \in Requests : LogRow(t) PROVE EventsMatchTurns
  <1>1. ASSUME NEW t \in Requests
        PROVE  /\ Cardinality(At(t, "resolved")) = IF Resulted(t) THEN 1 ELSE 0
               /\ Cardinality(At(t, "narrated")) = IF HasTold(t) THEN 1 ELSE 0
    BY FS_EmptySet, FS_Singleton DEF LogRow
  <1>. QED BY <1>1 DEF EventsMatchTurns, LogRow, Resulted, HasTold

\* A result is written once, by the commit alone, and a turn is told once, after its
\* result, whoever writes it: worker, takeover, fallback or refusal.
THEOREM EventsMatch == Spec => []EventsMatchTurns
  <1>1. LogInv /\ [Next]_vars => LogInv'
    BY RowInvNext, LogStep DEF LogInv
  <1>2. LogInv => EventsMatchTurns
    BY LogRowsMatch DEF LogInv
  <1>. QED BY <1>1, <1>2, LogInit, PTL DEF Spec
-----------------------------------------------------------------------------
(* Choices on offer *)

\* A worker tells in its own words only what was committed.
Informed(n) == narrator[n].pc \in {"reserve", "call", "save"} =>
                   turns[narrator[n].turn].status = "committed"

\* What is committed and still to be told was committed last.
CommittedLast(t) == turns[t].status = "committed" /\ Untold(t) =>
                        turns[t].committed = campaign.version

OfferInv == /\ RowInv /\ OffersAreCurrent
            /\ \A n \in Narrators : Informed(n)
            /\ \A t \in Requests : CommittedLast(t)

LEMMA OfferInit == Init => OfferInv
  BY RowInvInit DEF OfferInv, OffersAreCurrent, Informed, CommittedLast, Init, NoRow, NoNarration,
                    IdleNarrator

\* Where a narration worker may be after a step.
NarratorMoved(n) ==
    narrator'[n].pc \in {"reserve", "call", "save"} =>
        \/ turns[narrator'[n].turn].status = "committed" /\ narrator'[n].turn \in Requests
        \/ /\ narrator[n].pc \in {"reserve", "call", "save"}
           /\ narrator'[n].turn = narrator[n].turn /\ narrator[n].turn \in Requests

LEMMA NarratorStepMoves ==
  ASSUME Typed, NEW n \in Narrators, NEW pc, NGoTo(n, pc) \/ NRest(n),
         narrator[n].pc # "idle",
         pc \in {"reserve", "call", "save"} =>
            \/ turns[narrator[n].turn].status = "committed"
            \/ narrator[n].pc \in {"reserve", "call", "save"}
  PROVE  \A m \in Narrators : NarratorMoved(m)
  <1>1. narrator \in [Narrators -> NarratorState]
    BY DEF Typed, NarratorsTyped
  <1>2. \A m \in Narrators : narrator[m].pc \in {"reserve", "call", "save"} =>
                                 narrator[m].turn \in Requests
    BY NarratorTurn DEF Typed
  <1>3. ASSUME NEW m \in Narrators \ {n} PROVE NarratorMoved(m)
    <2>1. narrator'[m] = narrator[m]
      BY <1>1 DEF NGoTo, NRest
    <2>. QED BY <1>2, <2>1 DEF NarratorMoved
  <1>4. NarratorMoved(n)
    <2>1. CASE NRest(n)
      BY <1>1, <2>1 DEF NRest, IdleNarrator, NarratorMoved
    <2>2. CASE NGoTo(n, pc)
      <3>1. narrator'[n] = [narrator[n] EXCEPT !.pc = pc]
        BY <1>1, <2>2 DEF NGoTo
      <3>2. narrator'[n].pc = pc /\ narrator'[n].turn = narrator[n].turn
        BY <1>1, <3>1 DEF NarratorState
      <3>3. narrator[n].turn \in Requests
        BY NarratorTurn DEF Typed
      <3>. QED BY <1>2, <3>2, <3>3 DEF NarratorMoved
    <2>. QED BY <2>1, <2>2
  <1>. QED BY <1>3, <1>4

LEMMA NarratorsMove ==
  ASSUME Typed, [Next]_vars PROVE \A n \in Narrators : NarratorMoved(n)
  <1>1. CASE UNCHANGED narrator
    BY <1>1, NarratorTurn DEF NarratorMoved, Typed
  <1>2. ASSUME NEW n \in Narrators, NarratorStep(n) PROVE \A m \in Narrators : NarratorMoved(m)
    <2>1. ASSUME NEW t \in Requests, AcquireNarration(n, t)
          PROVE  \A m \in Narrators : NarratorMoved(m)
      <3>1. \A m \in Narrators : narrator'[m] = narrator[m] \/ narrator'[m].pc = "load"
        BY <2>1 DEF AcquireNarration, Typed, NarratorsTyped
      <3>. QED BY <3>1, NarratorTurn DEF NarratorMoved, Typed
    <2>2. CASE LoadNarration(n)
      BY <2>2, NarratorStepMoves DEF LoadNarration
    <2>3. CASE ReserveNarration(n)
      BY <2>3, NarratorStepMoves DEF ReserveNarration
    <2>4. CASE CallNarrator(n)
      BY <2>4, NarratorStepMoves DEF CallNarrator
    <2>5. CASE SaveNarration(n)
      BY <2>5, NarratorStepMoves DEF SaveNarration
    <2>6. CASE FailNarration(n) \/ SaveFallback(n)
      BY <2>6, NarratorStepMoves DEF FailNarration, SaveFallback
    <2>. QED BY <1>2, <2>1, <2>2, <2>3, <2>4, <2>5, <2>6 DEF NarratorStep
  <1>3. ASSUME NEW n \in Narrators, CrashNarrator(n) PROVE \A m \in Narrators : NarratorMoved(m)
    BY <1>3, NarratorStepMoves DEF CrashNarrator
  <1>4. ASSUME NEW w \in Resolvers, ResolverStep(w) PROVE UNCHANGED narrator
    BY <1>4 DEF ResolverStep, AcquireTurn, LoadWork, ChooseRoute, ReserveCall, RefuseBoundary,
                CallModel, BindAction, Promote, FinalizeNotApplied, PreviewRisk, CommitResolution,
                CommitNarrative, RecordFailure, AcquireTerminal, SaveTerminal
  <1>5. ASSUME NEW t \in Requests, Accept(t) \/ TimeStep(t) PROVE UNCHANGED narrator
    BY <1>5 DEF Accept, TimeStep, LapseTurn, LapseNarration, PassTurnDeadline,
                PassNarrationDeadline
  <1>6. CASE Environment
    BY <1>1, <1>3, <1>6 DEF Environment, CrashResolver, BlockStory, UnblockStory, RevokeActor
  <1>. QED BY <1>1, <1>2, <1>3, <1>4, <1>5, <1>6 DEF Next, vars, Quiescent

LEMMA InformedStep ==
  ASSUME OfferInv, RowStep, [Next]_vars PROVE \A n \in Narrators : Informed(n)'
  <1>1. Typed /\ RowInv /\ FinalStep
    BY FinalRowStep DEF OfferInv, RowInv
  <1>2. \A t \in Requests : turns[t].status = "committed" => turns'[t].status = "committed"
    BY <1>1 DEF FinalStep, ResolutionOver
  <1>. QED BY <1>1, <1>2, NarratorsMove DEF OfferInv, Informed, NarratorMoved

\* While a turn is open nothing is on offer, and nothing else is still to be told.
LEMMA OpenTurnAlone ==
  ASSUME OfferInv, NEW t \in Requests, Open(t)
  PROVE  /\ \A r \in Requests : ~narrations[r].offers
         /\ \A r \in Requests \ {t} : ~Open(r)
  BY DEF OfferInv, OffersAreCurrent, RowInv, OneOpenTurn

LEMMA OffersStep ==
  ASSUME OfferInv, RowStep
  PROVE  OffersAreCurrent' /\ \A r \in Requests : CommittedLast(r)'
  <1>0. /\ RowsAgree /\ OneOpenTurn /\ OffersAreCurrent
        /\ \A r \in Requests : CommittedLast(r)
        /\ \A n \in Narrators : Informed(n)
    BY DEF OfferInv, RowInv
  <1>. USE DEF Open, Unresolved, Untold, ResolutionOver
  <1>1. ASSUME NEW r \in Requests, Keeps(r)
        PROVE  /\ Open(r)' => Open(r)
               /\ narrations'[r].offers => narrations[r].offers
               /\ KeepsVersion /\ ChoiceAvailable(r) /\ narrations'[r].offers => ChoiceAvailable(r)'
               /\ KeepsVersion => CommittedLast(r)'
    BY <1>0, <1>1 DEF Keeps, KeepsVersion, ChoiceAvailable, CommittedLast
  <1>2. CASE KeepsAll
    BY <1>0, <1>1, <1>2 DEF KeepsAll, OffersAreCurrent
  <1>3. ASSUME NEW t \in Requests, OthersKept(t), Accepted(t)
        PROVE  OffersAreCurrent' /\ \A r \in Requests : CommittedLast(r)'
    BY <1>1, <1>3 DEF OthersKept, Accepted, OffersAreCurrent, CommittedLast
  <1>4. ASSUME NEW t \in Requests, OthersKept(t), Open(t),
               \/ Applied(t) \/ Answered(t) \/ Declined(t) \/ GivenUp(t) \/ ToldLater(t)
        PROVE  OffersAreCurrent' /\ \A r \in Requests : CommittedLast(r)'
    <2>1. /\ \A r \in Requests : ~narrations[r].offers
          /\ \A r \in Requests \ {t} : ~Open(r)
      BY <1>4, OpenTurnAlone
    <2>2. \A r \in Requests \ {t} : ~Open(r)' /\ ~narrations'[r].offers
      BY <1>1, <1>4, <2>1 DEF OthersKept
    <2>3. \A r \in Requests \ {t} : CommittedLast(r)'
      BY <2>2 DEF CommittedLast
    <2>4. CommittedLast(t)'
      BY <1>0, <1>4 DEF Applied, Answered, Declined, GivenUp, ToldLater, Decided, CommittedLast
    <2>5. ASSUME narrations'[t].offers PROVE ChoiceAvailable(t)' /\ ~Open(t)'
      <3>1. Answered(t) \/ ToldLater(t)
        BY <1>4, <2>1, <2>5 DEF Applied, Declined, GivenUp
      <3>2. CASE Answered(t)
        BY <2>5, <3>2 DEF Answered, Decided, KeepsVersion, ChoiceAvailable
      <3>3. CASE ToldLater(t)
        <4>1. turns[t].status = "committed" /\ turns[t].committed = campaign.version
          BY <1>0, <2>5, <3>3 DEF ToldLater, Informed, CommittedLast
        <4>. QED BY <2>5, <3>3, <4>1 DEF ToldLater, KeepsVersion, ChoiceAvailable
      <3>. QED BY <3>1, <3>2, <3>3
    <2>. QED BY <2>2, <2>3, <2>4, <2>5 DEF OffersAreCurrent
  <1>. QED BY <1>2, <1>3, <1>4
       DEF RowStep, Applied, Answered, Declined, GivenUp, ToldLater, Decided

LEMMA OfferNext ==
  ASSUME OfferInv, [Next]_vars PROVE OfferInv'
  <1>1. RowInv' /\ RowStep
    BY RowInvNext DEF OfferInv
  <1>. QED BY <1>1, InformedStep, OffersStep DEF OfferInv

\* Whatever is still on offer belongs to the state in force and to one turn, the last.
THEOREM OffersCurrent == Spec => []OffersAreCurrent
  <1>1. OfferInv => OffersAreCurrent
    BY DEF OfferInv
  <1>. QED BY <1>1, OfferInit, OfferNext, PTL DEF Spec

-----------------------------------------------------------------------------
(* What a step does to the epochs.  Every step either keeps the epochs of   *)
(* the rows and of the workers, or one worker takes one row under a new one. *)

EpochsKept ==
    \A r \in Requests :
        /\ turns[r].status # "absent" => turns'[r].epoch = turns[r].epoch
        /\ narrations[r].status # "absent" => narrations'[r].epoch = narrations[r].epoch

ResolverKept(v) ==
    \/ resolver'[v] = IdleResolver
    \/ /\ resolver'[v].turn = resolver[v].turn
       /\ resolver'[v].epoch = resolver[v].epoch
       /\ resolver'[v].pc = "fallback" <=> resolver[v].pc = "fallback"
       /\ resolver'[v].pc = "terminal" =>
             resolver[v].pc = "terminal" \/ turns'[resolver[v].turn].status = "failed"
       /\ resolver'[v].pc = "preview" => resolver[v].pc = "preview" \/ OpenScenario
       /\ resolver'[v].pc \in BoundPCs =>
             \/ resolver[v].pc \in BoundPCs /\ resolver'[v].base = resolver[v].base
             \/ /\ resolver'[v].base = turns[resolver[v].turn].expected
                /\ resolver'[v].base = turns'[resolver[v].turn].expected

NarratorKept(n) ==
    \/ narrator'[n] = IdleNarrator
    \/ narrator'[n].turn = narrator[n].turn /\ narrator'[n].epoch = narrator[n].epoch

ResolversKept == \A v \in Resolvers : ResolverKept(v)
NarratorsKept == \A n \in Narrators : NarratorKept(n)

TakesTurn(w, t) ==
    /\ turns[t].status # "absent"
    /\ turns'[t].epoch = turns[t].epoch + 1
    /\ \A r \in Requests \ {t} : turns'[r].epoch = turns[r].epoch
    /\ narrations' = narrations /\ narrator' = narrator
    /\ resolver'[w].pc = "load" /\ resolver'[w].turn = t
    /\ resolver'[w].epoch = turns[t].epoch + 1
    /\ \A v \in Resolvers \ {w} : resolver'[v] = resolver[v]

TakesNarrationRow(t) ==
    /\ narrations[t].status # "absent"
    /\ narrations'[t].epoch = narrations[t].epoch + 1
    /\ \A r \in Requests \ {t} : narrations'[r].epoch = narrations[r].epoch
    /\ turns' = turns

TakesNarration(n, t) ==
    /\ TakesNarrationRow(t)
    /\ resolver' = resolver
    /\ narrator'[n].turn = t /\ narrator'[n].epoch = narrations[t].epoch + 1
    /\ \A m \in Narrators \ {n} : narrator'[m] = narrator[m]

TakesFallback(w, t) ==
    /\ TakesNarrationRow(t)
    /\ narrator' = narrator
    /\ resolver[w].pc = "terminal" /\ resolver[w].turn = t
    /\ resolver'[w].pc = "fallback" /\ resolver'[w].turn = t
    /\ resolver'[w].epoch = narrations[t].epoch + 1
    /\ \A v \in Resolvers \ {w} : resolver'[v] = resolver[v]

EpochStep ==
    \/ EpochsKept /\ ResolversKept /\ NarratorsKept
    \/ \E w \in Resolvers, t \in Requests : TakesTurn(w, t) \/ TakesFallback(w, t)
    \/ \E n \in Narrators, t \in Requests : TakesNarration(n, t)

\* The updates of a row that leave its epoch alone.
LEMMA TurnEpochs ==
  ASSUME NEW row \in TurnRow, NEW a
  PROVE  /\ [row EXCEPT !.route = a].epoch = row.epoch
         /\ [row EXCEPT !.calls = a].epoch = row.epoch
         /\ [row EXCEPT !.lease = a].epoch = row.epoch
         /\ [row EXCEPT !.deadline = a].epoch = row.epoch
  BY DEF TurnRow

LEMMA NarrationEpochs ==
  ASSUME NEW row \in NarrationRow, NEW a
  PROVE  /\ [row EXCEPT !.lease = a].epoch = row.epoch
         /\ [row EXCEPT !.deadline = a].epoch = row.epoch
  BY DEF NarrationRow

LEMMA SameRowsEpochs ==
  ASSUME UNCHANGED <<turns, narrations>> PROVE EpochsKept
  BY DEF EpochsKept

\* Rewriting one row of each table without its epoch.
LEMMA TurnRewritten ==
  ASSUME Typed, NEW t \in Requests, NEW row, turns' = [turns EXCEPT ![t] = row],
         row.epoch = turns[t].epoch, NEW u \in Requests, NEW told,
         narrations' = narrations
            \/ (narrations' = [narrations EXCEPT ![u] = told] /\ told.epoch = narrations[u].epoch)
  PROVE  EpochsKept
  BY DEF EpochsKept, Typed, TurnsTyped, NarrationsTyped

LEMMA NarrationRewritten ==
  ASSUME Typed, NEW t \in Requests, NEW row, UNCHANGED turns,
         narrations' = [narrations EXCEPT ![t] = row], row.epoch = narrations[t].epoch
  PROVE  EpochsKept
  BY DEF EpochsKept, Typed, NarrationsTyped

LEMMA SameResolvers == ASSUME UNCHANGED resolver PROVE ResolversKept
  BY DEF ResolversKept, ResolverKept

LEMMA SameNarrators == ASSUME UNCHANGED narrator PROVE NarratorsKept
  BY DEF NarratorsKept, NarratorKept

LEMMA RestKept == ASSUME Typed, NEW w \in Resolvers, Rest(w) PROVE ResolversKept
  BY DEF Rest, ResolversKept, ResolverKept, Typed, ResolversTyped

LEMMA NRestKept == ASSUME Typed, NEW n \in Narrators, NRest(n) PROVE NarratorsKept
  BY DEF NRest, NarratorsKept, NarratorKept, Typed, NarratorsTyped

LEMMA GoToKept ==
  ASSUME Typed, NEW w \in Resolvers, NEW pc, GoTo(w, pc),
         pc # "fallback", resolver[w].pc # "fallback",
         pc = "terminal" => turns'[resolver[w].turn].status = "failed",
         pc = "preview" => OpenScenario,
         pc \in BoundPCs => resolver[w].pc \in BoundPCs
  PROVE  ResolversKept
  <1>1. resolver[w] \in ResolverState
    BY DEF Typed, ResolversTyped
  <1>2. LET new == [resolver[w] EXCEPT !.pc = pc]
        IN  /\ new.pc = pc /\ new.turn = resolver[w].turn
            /\ new.epoch = resolver[w].epoch /\ new.base = resolver[w].base
    BY <1>1 DEF ResolverState
  <1>3. /\ resolver'[w] = [resolver[w] EXCEPT !.pc = pc]
        /\ \A v \in Resolvers \ {w} : resolver'[v] = resolver[v]
    BY DEF GoTo, Typed, ResolversTyped
  <1>4. ResolverKept(w)
    BY <1>2, <1>3 DEF ResolverKept
  <1>5. \A v \in Resolvers \ {w} : ResolverKept(v)
    BY <1>3 DEF ResolverKept
  <1>. QED BY <1>4, <1>5 DEF ResolversKept

LEMMA NGoToKept ==
  ASSUME Typed, NEW n \in Narrators, NEW pc, NGoTo(n, pc) PROVE NarratorsKept
  BY DEF NGoTo, NarratorsKept, NarratorKept, Typed, NarratorsTyped, NarratorState

LEMMA AcceptEpochs ==
  ASSUME Typed, RowsAgree, NEW t \in Requests, Accept(t) PROVE EpochStep
  <1>1. turns[t].status = "absent" /\ narrations[t].status = "absent"
    BY DEF Accept, RowsAgree
  <1>2. \A r \in Requests \ {t} : turns'[r] = turns[r]
    BY DEF Accept, AcceptRow, Typed, TurnsTyped
  <1>3. \A r \in Requests \ {t} : narrations'[r] = [narrations[r] EXCEPT !.offers = FALSE]
    BY DEF Accept, AcceptRow
  <1>4. \A r \in Requests \ {t} : narrations'[r].epoch = narrations[r].epoch
    <2>1. \A r \in Requests : [narrations[r] EXCEPT !.offers = FALSE].epoch = narrations[r].epoch
      BY DEF Typed, NarrationsTyped, NarrationRow
    <2>. QED BY <1>3, <2>1
  <1>5. EpochsKept
    BY <1>1, <1>2, <1>4 DEF EpochsKept
  <1>. QED BY <1>5, SameResolvers, SameNarrators DEF Accept, EpochStep

LEMMA AcquireTurnEpochs ==
  ASSUME Typed, NEW w \in Resolvers, NEW t \in Requests, AcquireTurn(w, t)
  PROVE  TakesTurn(w, t)
  <1>1. turns[t] \in TurnRow
    BY DEF Typed, TurnsTyped
  <1>2. resolver'[w] = [IdleResolver EXCEPT !.pc = "load", !.turn = t,
                                            !.epoch = turns[t].epoch + 1,
                                            !.cleanup = Exhausted(turns[t])]
    BY DEF AcquireTurn, Typed, ResolversTyped
  <1>3. \A v \in Resolvers \ {w} : resolver'[v] = resolver[v]
    BY DEF AcquireTurn, Typed, ResolversTyped
  <1>4. /\ turns'[t].epoch = turns[t].epoch + 1
        /\ \A r \in Requests \ {t} : turns'[r] = turns[r]
    BY <1>1, LeasedTurnFields DEF AcquireTurn, Typed, TurnsTyped
  <1>5. turns[t].status # "absent" /\ UNCHANGED <<narrations, narrator>>
    BY DEF AcquireTurn, ResolutionCandidate
  <1>. QED BY <1>2, <1>3, <1>4, <1>5 DEF TakesTurn, IdleResolver

LEMMA TakenNarration ==
  ASSUME Typed, NEW t \in Requests, NarrationCandidate(t), UNCHANGED turns,
         narrations' = [narrations EXCEPT ![t] = Leased(@, "generating")]
  PROVE  TakesNarrationRow(t)
  <1>1. narrations[t] \in NarrationRow
    BY DEF Typed, NarrationsTyped
  <1>. QED BY <1>1, LeasedNarrationFields
       DEF NarrationCandidate, TakesNarrationRow, Typed, NarrationsTyped

LEMMA AcquireNarrationEpochs ==
  ASSUME Typed, NEW n \in Narrators, NEW t \in Requests, AcquireNarration(n, t)
  PROVE  TakesNarration(n, t)
  <1>1. TakesNarrationRow(t)
    BY TakenNarration DEF AcquireNarration
  <1>. QED BY <1>1 DEF AcquireNarration, TakesNarration, Typed, NarratorsTyped

LEMMA TerminalEpochs ==
  ASSUME Typed, NEW w \in Resolvers, AcquireTerminal(w)
  PROVE  EpochStep
  <1>. DEFINE t == resolver[w].turn
  <1>1. t \in Requests /\ resolver[w] \in ResolverState
    BY ResolverTurn DEF AcquireTerminal, Typed, ResolversTyped
  <1>2. CASE Rest(w) /\ UNCHANGED narrations
    BY <1>2, RestKept, SameRowsEpochs, SameNarrators DEF AcquireTerminal, EpochStep
  <1>3. CASE ~(Rest(w) /\ UNCHANGED narrations)
    <2>1. TakesNarrationRow(t)
      BY <1>1, <1>3, TakenNarration DEF AcquireTerminal
    <2>2. resolver'[w] = [resolver[w] EXCEPT !.pc = "fallback",
                                             !.epoch = narrations[t].epoch + 1]
      BY <1>3 DEF AcquireTerminal, Typed, ResolversTyped
    <2>3. /\ resolver'[w].pc = "fallback" /\ resolver'[w].turn = t
          /\ resolver'[w].epoch = narrations[t].epoch + 1
      BY <1>1, <2>2 DEF ResolverState
    <2>4. \A v \in Resolvers \ {w} : resolver'[v] = resolver[v]
      BY <1>3 DEF AcquireTerminal, Typed, ResolversTyped
    <2>5. TakesFallback(w, t)
      BY <2>1, <2>3, <2>4 DEF AcquireTerminal, TakesFallback
    <2>. QED BY <1>1, <2>5 DEF EpochStep
  <1>. QED BY <1>2, <1>3 DEF AcquireTerminal


\* Moves that carry the snapshot along.
LEMMA CarryKept ==
  ASSUME Typed, NEW w \in Resolvers, NEW state \in ResolverState,
         resolver' = [resolver EXCEPT ![w] = state],
         state.turn = resolver[w].turn, state.epoch = resolver[w].epoch,
         state.pc \notin {"fallback", "terminal", "preview"}, resolver[w].pc # "fallback",
         state.pc \in BoundPCs =>
            \/ resolver[w].pc \in BoundPCs /\ state.base = resolver[w].base
            \/ /\ state.base = turns[resolver[w].turn].expected
               /\ state.base = turns'[resolver[w].turn].expected
  PROVE  ResolversKept
  BY DEF ResolversKept, ResolverKept, Typed, ResolversTyped

LEMMA LoadEpochs ==
  ASSUME Typed, NEW w \in Resolvers, LoadWork(w) PROVE EpochStep
  <1>. DEFINE t == resolver[w].turn
  <1>1. /\ resolver[w].pc = "load" /\ t \in Requests /\ resolver[w] \in ResolverState
        /\ UNCHANGED <<turns, narrations, narrator>>
    BY ResolverTurn DEF LoadWork, Typed, ResolversTyped
  <1>2. ResolversKept
    <2>1. CASE Rest(w)
      BY <2>1, RestKept
    <2>2. CASE ~Rest(w)
      <3>1. PICK pc \in {"finalize", "fail", "route", "reserve", "bind"} :
              /\ resolver' = [resolver EXCEPT ![w] =
                                [resolver[w] EXCEPT !.pc = pc, !.base = campaign.version,
                                                    !.route = turns[t].route,
                                                    !.cleanup = FALSE]]
              /\ pc \in BoundPCs => turns[t].expected = campaign.version
        BY <2>2 DEF LoadWork, FirstStep, BoundPCs
      <3>2. campaign.version \in Nat /\ turns[t].route \in Routes
        BY <1>1 DEF Typed, LogTyped, Campaign, TurnsTyped, TurnRow
      <3>3. LET new == [resolver[w] EXCEPT !.pc = pc, !.base = campaign.version,
                                           !.route = turns[t].route, !.cleanup = FALSE]
            IN  /\ new \in ResolverState
                /\ new.pc = pc /\ new.base = campaign.version
                /\ new.turn = t /\ new.epoch = resolver[w].epoch
        BY <1>1, <3>2 DEF ResolverState, ResolverPCs
      <3>. QED BY <1>1, <3>1, <3>3, CarryKept
    <2>. QED BY <2>1, <2>2
  <1>. QED BY <1>1, <1>2, SameRowsEpochs, SameNarrators DEF EpochStep

LEMMA ChooseRouteEpochs ==
  ASSUME Typed, NEW w \in Resolvers, ChooseRoute(w) PROVE EpochStep
  <1>. DEFINE t == resolver[w].turn
  <1>1. /\ resolver[w].pc = "route" /\ t \in Requests /\ resolver[w] \in ResolverState
        /\ turns[t] \in TurnRow /\ UNCHANGED <<narrations, narrator>>
    BY ResolverTurn DEF ChooseRoute, Typed, ResolversTyped, TurnsTyped
  <1>2. CASE Rest(w) /\ UNCHANGED turns
    BY <1>1, <1>2, RestKept, SameRowsEpochs, SameNarrators DEF EpochStep
  <1>3. CASE ~(Rest(w) /\ UNCHANGED turns)
    <2>1. PICK route \in {"narrative", "mechanical"} :
            /\ turns' = [turns EXCEPT ![t] = [turns[t] EXCEPT !.route = route]]
            /\ resolver' = [resolver EXCEPT ![w] =
                   [resolver[w] EXCEPT !.pc = FirstStep(t, route), !.route = route]]
      BY <1>3 DEF ChooseRoute
    <2>2. FirstStep(t, route) \in {"reserve", "bind"}
      BY DEF FirstStep
    <2>3. LET new == [resolver[w] EXCEPT !.pc = FirstStep(t, route), !.route = route]
          IN  /\ new \in ResolverState /\ new.pc \in {"reserve", "bind"}
              /\ new.turn = t /\ new.epoch = resolver[w].epoch /\ new.base = resolver[w].base
      BY <1>1, <2>2 DEF ResolverState, ResolverPCs, Routes
    <2>4. ResolversKept
      BY <1>1, <2>1, <2>3, CarryKept DEF BoundPCs
    <2>5. EpochsKept
      BY <1>1, <2>1, TurnEpochs, TurnRewritten
    <2>. QED BY <1>1, <2>4, <2>5, SameNarrators DEF EpochStep
  <1>. QED BY <1>2, <1>3

LEMMA ReserveEpochs ==
  ASSUME Typed, NEW w \in Resolvers, ReserveCall(w) \/ RefuseBoundary(w) PROVE EpochStep
  <1>. DEFINE t == resolver[w].turn
  <1>1. /\ resolver[w].pc = "reserve" /\ t \in Requests /\ turns[t] \in TurnRow
        /\ UNCHANGED <<narrations, narrator>>
    BY ResolverTurn DEF ReserveCall, RefuseBoundary, Typed, TurnsTyped
  <1>2. ResolversKept
    BY <1>1, GoToKept DEF ReserveCall, RefuseBoundary, BoundPCs
  <1>3. turns' = turns \/ turns' = [turns EXCEPT ![t] = [turns[t] EXCEPT !.calls = @ + 1]]
    BY DEF ReserveCall, RefuseBoundary
  <1>4. EpochsKept
    <2>1. CASE turns' = turns
      BY <1>1, <2>1, SameRowsEpochs
    <2>2. CASE turns' = [turns EXCEPT ![t] = [turns[t] EXCEPT !.calls = @ + 1]]
      <3>1. [turns[t] EXCEPT !.calls = @ + 1].epoch = turns[t].epoch
        BY <1>1 DEF TurnRow
      <3>. QED BY <1>1, <2>2, <3>1, TurnRewritten
    <2>. QED BY <1>3, <2>1, <2>2
  <1>. QED BY <1>1, <1>2, <1>4, SameNarrators DEF EpochStep

LEMMA CallEpochs ==
  ASSUME Typed, NEW w \in Resolvers, CallModel(w) PROVE EpochStep
  <1>1. /\ resolver[w].pc = "call" /\ resolver[w] \in ResolverState
        /\ UNCHANGED <<turns, narrations, narrator>>
    BY DEF CallModel, Typed, ResolversTyped
  <1>2. ResolversKept
    <2>1. CASE Reconsider(w)
      <3>1. LET new == [resolver[w] EXCEPT !.pc = "reserve", !.again = TRUE]
            IN  /\ new \in ResolverState /\ new.pc = "reserve" /\ new.base = resolver[w].base
                /\ new.turn = resolver[w].turn /\ new.epoch = resolver[w].epoch
        BY <1>1 DEF ResolverState, ResolverPCs
      <3>. QED BY <1>1, <2>1, <3>1, CarryKept DEF Reconsider, BoundPCs
    <2>2. CASE ~Reconsider(w)
      <3>1. PICK pc \in {"fail", "finalize", "preview", "commit", "commitNarrative", "promote"} :
              GoTo(w, pc) /\ (pc = "preview" => OpenScenario)
        BY <2>2 DEF CallModel
      <3>. QED BY <1>1, <3>1, GoToKept DEF BoundPCs
    <2>. QED BY <2>1, <2>2
  <1>. QED BY <1>1, <1>2, SameRowsEpochs, SameNarrators DEF EpochStep

LEMMA BindEpochs ==
  ASSUME Typed, NEW w \in Resolvers, BindAction(w) PROVE EpochStep
  <1>1. PICK pc \in {"fail", "finalize", "preview", "commit"} :
          /\ resolver[w].pc = "bind" /\ UNCHANGED <<turns, narrations, narrator>>
          /\ GoTo(w, pc) /\ (pc = "preview" => OpenScenario)
    BY DEF BindAction
  <1>2. ResolversKept
    BY <1>1, GoToKept DEF BoundPCs
  <1>. QED BY <1>1, <1>2, SameRowsEpochs, SameNarrators DEF EpochStep

LEMMA PromoteEpochs ==
  ASSUME Typed, NEW w \in Resolvers, Promote(w) PROVE EpochStep
  <1>. DEFINE t == resolver[w].turn
  <1>1. /\ resolver[w].pc = "promote" /\ t \in Requests /\ turns[t] \in TurnRow
        /\ UNCHANGED <<narrations, narrator>>
    BY ResolverTurn DEF Promote, Typed, TurnsTyped
  <1>2. CASE Rest(w) /\ UNCHANGED turns
    BY <1>1, <1>2, RestKept, SameRowsEpochs, SameNarrators DEF EpochStep
  <1>3. CASE ~(Rest(w) /\ UNCHANGED turns)
    <2>1. PICK pc \in {"commit", "finalize", "fail"} :
            /\ turns' = [turns EXCEPT ![t] = [turns[t] EXCEPT !.route = "mechanical"]]
            /\ GoTo(w, pc)
      BY <1>3 DEF Promote
    <2>2. ResolversKept
      BY <1>1, <2>1, GoToKept DEF BoundPCs
    <2>3. EpochsKept
      BY <1>1, <2>1, TurnEpochs, TurnRewritten
    <2>. QED BY <1>1, <2>2, <2>3, SameNarrators DEF EpochStep
  <1>. QED BY <1>2, <1>3

\* Steps of a worker that ends with nothing to do, a refusal or a failure.
LEMMA LeaveKept ==
  ASSUME Typed, NEW w \in Resolvers, resolver[w].pc # "fallback",
         Rest(w) \/ GoTo(w, "finalize") \/ GoTo(w, "fail")
  PROVE  ResolversKept
  BY RestKept, GoToKept DEF BoundPCs

LEMMA FinalizeEpochs ==
  ASSUME Typed, NEW w \in Resolvers, FinalizeNotApplied(w) \/ PreviewRisk(w) PROVE EpochStep
  <1>. DEFINE t == resolver[w].turn
  <1>1. /\ resolver[w].pc \in {"finalize", "preview"} /\ t \in Requests
        /\ turns[t] \in TurnRow /\ narrations[t] \in NarrationRow /\ UNCHANGED narrator
    BY ResolverTurn DEF FinalizeNotApplied, PreviewRisk, Typed, TurnsTyped, NarrationsTyped
  <1>2. ResolversKept
    BY <1>1, LeaveKept DEF FinalizeNotApplied, PreviewRisk
  <1>3. EpochsKept
    <2>1. CASE UNCHANGED <<turns, narrations>>
      BY <2>1, SameRowsEpochs
    <2>2. CASE ~UNCHANGED <<turns, narrations>>
      <3>1. PICK proposal \in BOOLEAN : WriteNotApplied(t, proposal)
        BY <2>2 DEF FinalizeNotApplied, PreviewRisk
      <3>2. /\ turns' = [turns EXCEPT ![t] = [turns[t] EXCEPT !.status = "not_applied",
                                                              !.lease = "none",
                                                              !.proposal = proposal]]
            /\ narrations' = [narrations EXCEPT ![t] =
                                [narrations[t] EXCEPT !.status = "completed"]]
        BY <3>1 DEF WriteNotApplied
      <3>3. /\ [turns[t] EXCEPT !.status = "not_applied", !.lease = "none",
                                !.proposal = proposal].epoch = turns[t].epoch
            /\ [narrations[t] EXCEPT !.status = "completed"].epoch = narrations[t].epoch
        BY <1>1 DEF TurnRow, NarrationRow
      <3>. QED BY <1>1, <3>2, <3>3, TurnRewritten
    <2>. QED BY <2>1, <2>2
  <1>. QED BY <1>1, <1>2, <1>3, SameNarrators DEF EpochStep

LEMMA CommitResolutionEpochs ==
  ASSUME Typed, NEW w \in Resolvers, CommitResolution(w) PROVE EpochStep
  <1>. DEFINE t == resolver[w].turn
  <1>1. /\ resolver[w].pc = "commit" /\ t \in Requests /\ turns[t] \in TurnRow
        /\ UNCHANGED <<narrations, narrator>>
    BY ResolverTurn DEF CommitResolution, Typed, TurnsTyped
  <1>2. ResolversKept
    BY <1>1, LeaveKept DEF CommitResolution, CommitRefused
  <1>3. turns' = turns \/ \E version :
           turns' = [turns EXCEPT ![t] = [turns[t] EXCEPT !.status = "committed",
                                                          !.route = "mechanical",
                                                          !.committed = version]]
    BY DEF CommitResolution
  <1>4. EpochsKept
    <2>1. \A version : [turns[t] EXCEPT !.status = "committed", !.route = "mechanical",
                                        !.committed = version].epoch = turns[t].epoch
      BY <1>1 DEF TurnRow
    <2>. QED BY <1>1, <1>3, <2>1, TurnRewritten, SameRowsEpochs
  <1>. QED BY <1>1, <1>2, <1>4, SameNarrators DEF EpochStep

LEMMA CommitNarrativeEpochs ==
  ASSUME Typed, NEW w \in Resolvers, CommitNarrative(w) PROVE EpochStep
  <1>. DEFINE t == resolver[w].turn
  <1>1. /\ resolver[w].pc = "commitNarrative" /\ t \in Requests /\ turns[t] \in TurnRow
        /\ narrations[t] \in NarrationRow /\ UNCHANGED narrator
    BY ResolverTurn DEF CommitNarrative, Typed, TurnsTyped, NarrationsTyped
  <1>2. ResolversKept
    BY <1>1, LeaveKept DEF CommitNarrative, CommitRefused
  <1>3. CASE UNCHANGED <<turns, narrations>>
    BY <1>1, <1>2, <1>3, SameRowsEpochs, SameNarrators DEF EpochStep
  <1>4. CASE ~UNCHANGED <<turns, narrations>>
    <2>1. PICK offers \in BOOLEAN :
            /\ turns' = [turns EXCEPT ![t] = [turns[t] EXCEPT !.status = "committed",
                                                              !.committed = campaign.version,
                                                              !.lease = "none"]]
            /\ narrations' = [narrations EXCEPT ![t] =
                                [narrations[t] EXCEPT !.status = "completed",
                                                      !.offers = offers]]
      BY <1>4 DEF CommitNarrative
    <2>2. /\ [turns[t] EXCEPT !.status = "committed", !.committed = campaign.version,
                              !.lease = "none"].epoch = turns[t].epoch
          /\ [narrations[t] EXCEPT !.status = "completed", !.offers = offers].epoch
                = narrations[t].epoch
      BY <1>1 DEF TurnRow, NarrationRow
    <2>3. EpochsKept
      BY <1>1, <2>1, <2>2, TurnRewritten
    <2>. QED BY <1>1, <1>2, <2>3, SameNarrators DEF EpochStep
  <1>. QED BY <1>3, <1>4

LEMMA RecordFailureEpochs ==
  ASSUME Typed, NEW w \in Resolvers, RecordFailure(w) PROVE EpochStep
  <1>. DEFINE t == resolver[w].turn
  <1>1. /\ resolver[w].pc = "fail" /\ t \in Requests /\ turns[t] \in TurnRow
        /\ UNCHANGED <<narrations, narrator>>
    BY ResolverTurn DEF RecordFailure, Typed, TurnsTyped
  <1>2. CASE Rest(w) /\ UNCHANGED turns
    BY <1>1, <1>2, RestKept, SameRowsEpochs, SameNarrators DEF EpochStep
  <1>3. CASE ~(Rest(w) /\ UNCHANGED turns)
    <2>1. PICK status \in {"pending", "failed"} :
            /\ turns' = [turns EXCEPT ![t] = [turns[t] EXCEPT !.status = status,
                                                              !.lease = "none"]]
            /\ Rest(w) \/ (GoTo(w, "terminal") /\ status = "failed")
      BY <1>3 DEF RecordFailure, Requeue
    <2>2. LET new == [turns[t] EXCEPT !.status = status, !.lease = "none"]
          IN  new.epoch = turns[t].epoch /\ new.status = status
      BY <1>1 DEF TurnRow
    <2>3. EpochsKept /\ turns'[t].status = status
      BY <1>1, <2>1, <2>2, TurnRewritten DEF Typed, TurnsTyped
    <2>4. ResolversKept
      BY <1>1, <2>1, <2>3, RestKept, GoToKept DEF BoundPCs
    <2>. QED BY <1>1, <2>3, <2>4, SameNarrators DEF EpochStep
  <1>. QED BY <1>2, <1>3 DEF RecordFailure

LEMMA WriteNarrationEpochs ==
  ASSUME Typed, NEW t \in Requests, NEW status, NEW offers, UNCHANGED turns,
         WriteNarration(t, status, offers) \/ UNCHANGED narrations
  PROVE  EpochsKept
  <1>1. narrations[t] \in NarrationRow
    BY DEF Typed, NarrationsTyped
  <1>2. UNCHANGED narrations \/ narrations' = [narrations EXCEPT ![t] =
           [narrations[t] EXCEPT !.status = status, !.lease = "none", !.offers = offers]]
    BY DEF WriteNarration
  <1>3. [narrations[t] EXCEPT !.status = status, !.lease = "none", !.offers = offers].epoch
           = narrations[t].epoch
    BY <1>1 DEF NarrationRow
  <1>. QED BY <1>2, <1>3, NarrationRewritten, SameRowsEpochs

LEMMA SaveTerminalEpochs ==
  ASSUME Typed, NEW w \in Resolvers, SaveTerminal(w) PROVE EpochStep
  <1>1. resolver[w].turn \in Requests
    BY ResolverTurn DEF SaveTerminal, Typed
  <1>2. EpochsKept
    BY <1>1, WriteNarrationEpochs DEF SaveTerminal
  <1>. QED BY <1>2, RestKept, SameNarrators DEF SaveTerminal, EpochStep

LEMMA NarratorEpochs ==
  ASSUME Typed, NEW n \in Narrators, NarratorStep(n) PROVE EpochStep
  <1>. DEFINE t == narrator[n].turn
  <1>1. CASE \E r \in Requests : AcquireNarration(n, r)
    BY <1>1, AcquireNarrationEpochs DEF EpochStep
  <1>2. CASE LoadNarration(n) \/ CallNarrator(n)
    BY <1>2, NRestKept, NGoToKept, SameRowsEpochs, SameResolvers
       DEF LoadNarration, CallNarrator, EpochStep
  <1>3. CASE ReserveNarration(n)
    <2>1. t \in Requests /\ turns[t] \in TurnRow /\ UNCHANGED <<narrations, resolver>>
      BY <1>3, NarratorTurn DEF ReserveNarration, Typed, TurnsTyped
    <2>2. turns' = turns \/ turns' = [turns EXCEPT ![t] = [turns[t] EXCEPT !.calls = @ + 1]]
      BY <1>3 DEF ReserveNarration
    <2>3. EpochsKept
      BY <2>1, <2>2, TurnEpochs, TurnRewritten, SameRowsEpochs
    <2>. QED BY <1>3, <2>1, <2>3, NRestKept, NGoToKept, SameResolvers
         DEF ReserveNarration, EpochStep
  <1>4. CASE SaveNarration(n) \/ SaveFallback(n)
    <2>1. t \in Requests /\ UNCHANGED <<turns, resolver>>
      BY <1>4, NarratorTurn DEF SaveNarration, SaveFallback, Typed
    <2>2. EpochsKept
      BY <1>4, <2>1, WriteNarrationEpochs DEF SaveNarration, SaveFallback
    <2>. QED BY <1>4, <2>1, <2>2, NRestKept, NGoToKept, SameResolvers
         DEF SaveNarration, SaveFallback, EpochStep
  <1>5. CASE FailNarration(n)
    <2>1. t \in Requests /\ narrations[t] \in NarrationRow /\ UNCHANGED <<turns, resolver>>
      BY <1>5, NarratorTurn DEF FailNarration, Typed, NarrationsTyped
    <2>2. narrations' = narrations \/ narrations' = [narrations EXCEPT ![t] =
             [narrations[t] EXCEPT !.status = "pending", !.lease = "none"]]
      BY <1>5 DEF FailNarration
    <2>3. [narrations[t] EXCEPT !.status = "pending", !.lease = "none"].epoch
             = narrations[t].epoch
      BY <2>1 DEF NarrationRow
    <2>4. EpochsKept
      BY <2>1, <2>2, <2>3, NarrationRewritten, SameRowsEpochs
    <2>. QED BY <1>5, <2>1, <2>4, NRestKept, NGoToKept, SameResolvers
         DEF FailNarration, EpochStep
  <1>. QED BY <1>1, <1>2, <1>3, <1>4, <1>5 DEF NarratorStep

LEMMA TimeEpochs ==
  ASSUME Typed, NEW t \in Requests, TimeStep(t) PROVE EpochStep
  <1>1. turns[t] \in TurnRow /\ narrations[t] \in NarrationRow
    BY DEF Typed, TurnsTyped, NarrationsTyped
  <1>2. CASE LapseTurn(t) \/ PassTurnDeadline(t)
    <2>1. /\ UNCHANGED <<narrations, resolver, narrator>>
          /\ \/ turns' = [turns EXCEPT ![t] = [turns[t] EXCEPT !.lease = "lapsed"]]
             \/ turns' = [turns EXCEPT ![t] = [turns[t] EXCEPT !.deadline = "passed"]]
      BY <1>2 DEF LapseTurn, PassTurnDeadline
    <2>2. EpochsKept
      BY <1>1, <2>1, TurnEpochs, TurnRewritten
    <2>. QED BY <2>1, <2>2, SameResolvers, SameNarrators DEF EpochStep
  <1>3. CASE LapseNarration(t) \/ PassNarrationDeadline(t)
    <2>1. /\ UNCHANGED <<turns, resolver, narrator>>
          /\ \/ narrations' = [narrations EXCEPT ![t] = [narrations[t] EXCEPT !.lease = "lapsed"]]
             \/ narrations' = [narrations EXCEPT ![t] =
                                 [narrations[t] EXCEPT !.deadline = "passed"]]
      BY <1>3 DEF LapseNarration, PassNarrationDeadline
    <2>2. EpochsKept
      BY <1>1, <2>1, NarrationEpochs, NarrationRewritten
    <2>. QED BY <2>1, <2>2, SameResolvers, SameNarrators DEF EpochStep
  <1>. QED BY <1>2, <1>3 DEF TimeStep

LEMMA EnvironmentEpochs ==
  ASSUME Typed, Environment PROVE EpochStep
  <1>1. EpochsKept
    BY SameRowsEpochs
       DEF Environment, CrashResolver, CrashNarrator, BlockStory, UnblockStory, RevokeActor
  <1>2. ResolversKept /\ NarratorsKept
    BY RestKept, NRestKept, SameResolvers, SameNarrators
       DEF Environment, CrashResolver, CrashNarrator, BlockStory, UnblockStory, RevokeActor
  <1>. QED BY <1>1, <1>2 DEF EpochStep

LEMMA ResolverEpochs ==
  ASSUME Typed, NEW w \in Resolvers, ResolverStep(w) PROVE EpochStep
  <1>1. CASE \E t \in Requests : AcquireTurn(w, t)
    BY <1>1, AcquireTurnEpochs DEF EpochStep
  <1>. QED BY <1>1, LoadEpochs, ChooseRouteEpochs, ReserveEpochs, CallEpochs, BindEpochs,
              PromoteEpochs, FinalizeEpochs, CommitResolutionEpochs, CommitNarrativeEpochs,
              RecordFailureEpochs, TerminalEpochs, SaveTerminalEpochs
       DEF ResolverStep

LEMMA NextEpochs ==
  ASSUME Typed, RowsAgree, [Next]_vars PROVE EpochStep
  <1>1. CASE UNCHANGED vars \/ Quiescent
    BY <1>1, SameRowsEpochs, SameResolvers, SameNarrators DEF vars, Quiescent, EpochStep
  <1>. QED BY <1>1, AcceptEpochs, ResolverEpochs, NarratorEpochs, TimeEpochs, EnvironmentEpochs
       DEF Next


-----------------------------------------------------------------------------
(* Fencing: no worker has an epoch above its row's, no two workers of one   *)
(* phase the same one, and a worker in a terminal step sees a failed turn.  *)

InFallback(w) == resolver[w].pc = "fallback"

WorkersFenced ==
    /\ \A w \in Resolvers : resolver[w].turn \in Requests =>
          /\ turns[resolver[w].turn].status # "absent"
          /\ resolver[w].pc \in {"terminal", "fallback"} =>
                turns[resolver[w].turn].status = "failed"
          /\ IF InFallback(w) THEN resolver[w].epoch <= narrations[resolver[w].turn].epoch
                              ELSE resolver[w].epoch <= turns[resolver[w].turn].epoch
    /\ \A n \in Narrators : narrator[n].turn \in Requests =>
          /\ narrations[narrator[n].turn].status # "absent"
          /\ narrator[n].epoch <= narrations[narrator[n].turn].epoch

EpochsDistinct ==
    /\ \A v, w \in Resolvers :
          /\ v # w /\ resolver[v].turn \in Requests /\ resolver[w].turn = resolver[v].turn
          /\ InFallback(v) <=> InFallback(w)
          => resolver[v].epoch # resolver[w].epoch
    /\ \A m, n \in Narrators :
          m # n /\ narrator[m].turn \in Requests /\ narrator[n].turn = narrator[m].turn
          => narrator[m].epoch # narrator[n].epoch
    /\ \A w \in Resolvers, n \in Narrators :
          InFallback(w) /\ narrator[n].turn \in Requests /\ narrator[n].turn = resolver[w].turn
          => resolver[w].epoch # narrator[n].epoch

FenceInv == RowInv /\ WorkersFenced /\ EpochsDistinct

\* A row that was inserted stays, its request is never rewritten, and a turn that
\* was given up stays so.
RowsStay ==
    \A r \in Requests :
        /\ turns[r].status # "absent" => turns'[r].status # "absent" /\ Constant(r)
        /\ narrations[r].status # "absent" => narrations'[r].status # "absent"
        /\ turns[r].status = "failed" => turns'[r].status = "failed"

LEMMA RowsStayStep ==
  ASSUME RowInv, RowStep PROVE RowsStay
  <1>. USE DEF Unresolved, Untold, ResolutionOver, RowInv
  <1>1. ASSUME NEW r \in Requests, Keeps(r)
        PROVE  /\ turns[r].status # "absent" => turns'[r].status # "absent" /\ Constant(r)
               /\ narrations[r].status # "absent" => narrations'[r].status # "absent"
               /\ turns[r].status = "failed" => turns'[r].status = "failed"
    BY <1>1 DEF Keeps
  <1>2. ASSUME NEW t \in Requests,
               \/ Accepted(t) \/ Applied(t) \/ Answered(t)
               \/ Declined(t) \/ GivenUp(t) \/ ToldLater(t)
        PROVE  /\ turns[t].status # "absent" => turns'[t].status # "absent" /\ Constant(t)
               /\ narrations[t].status # "absent" => narrations'[t].status # "absent"
               /\ turns[t].status = "failed" => turns'[t].status = "failed"
    BY <1>2 DEF Accepted, Applied, Answered, Declined, GivenUp, ToldLater, Decided, Constant
  <1>. QED BY <1>1, <1>2 DEF RowStep, KeepsAll, OthersKept, RowsStay

LEMMA EpochTypes ==
  ASSUME Typed
  PROVE  /\ \A r \in Requests : turns[r].epoch \in Nat /\ narrations[r].epoch \in Nat
         /\ \A w \in Resolvers : /\ resolver[w].epoch \in Nat
                                 /\ resolver[w].turn \in Requests \cup {NoTurn}
         /\ \A n \in Narrators : /\ narrator[n].epoch \in Nat
                                 /\ narrator[n].turn \in Requests \cup {NoTurn}
  BY DEF Typed, TurnsTyped, NarrationsTyped, ResolversTyped, NarratorsTyped,
         TurnRow, NarrationRow, ResolverState, NarratorState

LEMMA FenceInit == Init => FenceInv
  <1>. SUFFICES ASSUME Init PROVE FenceInv
    OBVIOUS
  <1>1. /\ \A w \in Resolvers : resolver[w].turn = NoTurn /\ resolver[w].pc = "idle"
        /\ \A n \in Narrators : narrator[n].turn = NoTurn
    BY DEF Init, IdleResolver, IdleNarrator
  <1>2. WorkersFenced /\ EpochsDistinct
    BY <1>1 DEF WorkersFenced, EpochsDistinct
  <1>. QED BY <1>2, RowInvInit DEF FenceInv

LEMMA KeptFence ==
  ASSUME FenceInv, Typed', RowsStay, EpochsKept, ResolversKept, NarratorsKept
  PROVE  WorkersFenced' /\ EpochsDistinct'
  <1>. USE DEF InFallback
  <1>1. ASSUME NEW w \in Resolvers, resolver'[w].turn \in Requests
        PROVE  /\ resolver'[w].turn = resolver[w].turn
               /\ resolver'[w].epoch = resolver[w].epoch
               /\ resolver'[w].pc = "fallback" <=> resolver[w].pc = "fallback"
               /\ resolver'[w].pc = "terminal" =>
                     resolver[w].pc = "terminal" \/ turns'[resolver[w].turn].status = "failed"
    <2>1. resolver'[w] # IdleResolver
      BY <1>1 DEF IdleResolver
    <2>. QED BY <2>1 DEF ResolversKept, ResolverKept
  <1>2. ASSUME NEW n \in Narrators, narrator'[n].turn \in Requests
        PROVE  narrator'[n].turn = narrator[n].turn /\ narrator'[n].epoch = narrator[n].epoch
    <2>1. narrator'[n] # IdleNarrator
      BY <1>2 DEF IdleNarrator
    <2>. QED BY <2>1 DEF NarratorsKept, NarratorKept
  <1>3. WorkersFenced'
    <2>1. ASSUME NEW w \in Resolvers, resolver'[w].turn \in Requests
          PROVE  /\ turns'[resolver'[w].turn].status # "absent"
                 /\ resolver'[w].pc \in {"terminal", "fallback"} =>
                       turns'[resolver'[w].turn].status = "failed"
                 /\ IF resolver'[w].pc = "fallback"
                    THEN resolver'[w].epoch <= narrations'[resolver'[w].turn].epoch
                    ELSE resolver'[w].epoch <= turns'[resolver'[w].turn].epoch
      <3>1. turns[resolver[w].turn].status # "absent"
        BY <1>1, <2>1 DEF FenceInv, WorkersFenced
      <3>2. narrations[resolver[w].turn].status # "absent"
        BY <1>1, <2>1, <3>1 DEF FenceInv, RowInv, RowsAgree
      <3>. QED BY <1>1, <2>1, <3>1, <3>2 DEF FenceInv, WorkersFenced, RowsStay, EpochsKept
    <2>2. ASSUME NEW n \in Narrators, narrator'[n].turn \in Requests
          PROVE  /\ narrations'[narrator'[n].turn].status # "absent"
                 /\ narrator'[n].epoch <= narrations'[narrator'[n].turn].epoch
      BY <1>2, <2>2 DEF FenceInv, WorkersFenced, RowsStay, EpochsKept
    <2>. QED BY <2>1, <2>2 DEF WorkersFenced
  <1>4. EpochsDistinct'
    BY <1>1, <1>2 DEF FenceInv, EpochsDistinct
  <1>. QED BY <1>3, <1>4

LEMMA TakesTurnFence ==
  ASSUME FenceInv, Typed', RowsStay, NEW w \in Resolvers, NEW t \in Requests, TakesTurn(w, t)
  PROVE  WorkersFenced' /\ EpochsDistinct'
  <1>. USE DEF InFallback
  <1>1. Typed
    BY DEF FenceInv, RowInv
  <1>2. \A r \in Requests : turns'[r].epoch >= turns[r].epoch
    BY <1>1, EpochTypes DEF TakesTurn
  <1>3. WorkersFenced'
    BY <1>1, <1>2, EpochTypes DEF FenceInv, WorkersFenced, RowsStay, TakesTurn
  <1>4. \A v \in Resolvers \ {w} : resolver[v].turn = t /\ ~InFallback(v) =>
           resolver[v].epoch < resolver'[w].epoch
    BY <1>1, EpochTypes DEF FenceInv, WorkersFenced, TakesTurn
  <1>5. EpochsDistinct'
    BY <1>1, <1>4, EpochTypes DEF FenceInv, EpochsDistinct, TakesTurn
  <1>. QED BY <1>3, <1>5

LEMMA TakesFallbackFence ==
  ASSUME FenceInv, Typed', RowsStay, NEW w \in Resolvers, NEW t \in Requests, TakesFallback(w, t)
  PROVE  WorkersFenced' /\ EpochsDistinct'
  <1>. USE DEF InFallback
  <1>1. Typed
    BY DEF FenceInv, RowInv
  <1>2. \A r \in Requests : narrations'[r].epoch >= narrations[r].epoch
    BY <1>1, EpochTypes DEF TakesFallback, TakesNarrationRow
  <1>3. WorkersFenced'
    BY <1>1, <1>2, EpochTypes
       DEF FenceInv, WorkersFenced, RowsStay, TakesFallback, TakesNarrationRow
  <1>4. /\ \A v \in Resolvers \ {w} : resolver[v].turn = t /\ InFallback(v) =>
              resolver[v].epoch < resolver'[w].epoch
        /\ \A n \in Narrators : narrator[n].turn = t => narrator[n].epoch < resolver'[w].epoch
    BY <1>1, EpochTypes DEF FenceInv, WorkersFenced, TakesFallback
  <1>5. EpochsDistinct'
    BY <1>1, <1>4, EpochTypes DEF FenceInv, EpochsDistinct, TakesFallback
  <1>. QED BY <1>3, <1>5

LEMMA TakesNarrationFence ==
  ASSUME FenceInv, Typed', RowsStay, NEW n \in Narrators, NEW t \in Requests, TakesNarration(n, t)
  PROVE  WorkersFenced' /\ EpochsDistinct'
  <1>. USE DEF InFallback
  <1>1. Typed
    BY DEF FenceInv, RowInv
  <1>2. \A r \in Requests : narrations'[r].epoch >= narrations[r].epoch
    BY <1>1, EpochTypes DEF TakesNarration, TakesNarrationRow
  <1>3. WorkersFenced'
    BY <1>1, <1>2, EpochTypes
       DEF FenceInv, WorkersFenced, RowsStay, TakesNarration, TakesNarrationRow
  <1>4. /\ \A w \in Resolvers : resolver[w].turn = t /\ InFallback(w) =>
              resolver[w].epoch < narrator'[n].epoch
        /\ \A m \in Narrators \ {n} : narrator[m].turn = t =>
              narrator[m].epoch < narrator'[n].epoch
    BY <1>1, EpochTypes DEF FenceInv, WorkersFenced, TakesNarration
  <1>5. EpochsDistinct'
    BY <1>1, <1>4, EpochTypes DEF FenceInv, EpochsDistinct, TakesNarration
  <1>. QED BY <1>3, <1>5

LEMMA FenceNext ==
  ASSUME FenceInv, [Next]_vars PROVE FenceInv'
  <1>1. RowInv' /\ RowStep /\ RowsStay /\ EpochStep /\ Typed'
    BY RowInvNext, RowsStayStep, NextEpochs DEF FenceInv, RowInv
  <1>2. WorkersFenced' /\ EpochsDistinct'
    BY <1>1, KeptFence, TakesTurnFence, TakesFallbackFence, TakesNarrationFence DEF EpochStep
  <1>. QED BY <1>1, <1>2 DEF FenceInv

LEMMA FenceAlways == Spec => []FenceInv
  BY FenceInit, FenceNext, PTL DEF Spec

LEMMA FencedHolders == FenceInv => OneHolder
  <1>. SUFFICES ASSUME FenceInv, NEW t \in Requests
                PROVE  /\ \A v, w \in ResolutionHolders(t) : v = w
                       /\ \A m, n \in NarrationHolders(t) : m = n
                       /\ \A v, w \in FallbackHolders(t) : v = w
                       /\ NarrationHolders(t) = {} \/ FallbackHolders(t) = {}
    BY DEF OneHolder
  <1>1. \A w \in ResolutionHolders(t) : ~InFallback(w) /\ resolver[w].turn = t
                                        /\ resolver[w].epoch = turns[t].epoch
    BY DEF ResolutionHolders, HoldsTurn, OwnsTurn, FenceInv, WorkersFenced, InFallback
  <1>2. \A n \in NarrationHolders(t) : narrator[n].turn = t
                                       /\ narrator[n].epoch = narrations[t].epoch
    BY DEF NarrationHolders, HoldsNarration
  <1>3. \A w \in FallbackHolders(t) : InFallback(w) /\ resolver[w].turn = t
                                      /\ resolver[w].epoch = narrations[t].epoch
    BY DEF FallbackHolders, HoldsNarration, InFallback
  <1>4. /\ ResolutionHolders(t) \subseteq Resolvers /\ FallbackHolders(t) \subseteq Resolvers
        /\ NarrationHolders(t) \subseteq Narrators
    BY DEF ResolutionHolders, FallbackHolders, NarrationHolders
  <1>5. \A v, w \in ResolutionHolders(t) : v = w
    BY <1>1, <1>4 DEF FenceInv, EpochsDistinct
  <1>6. \A m, n \in NarrationHolders(t) : m = n
    BY <1>2, <1>4 DEF FenceInv, EpochsDistinct
  <1>7. \A v, w \in FallbackHolders(t) : v = w
    BY <1>3, <1>4 DEF FenceInv, EpochsDistinct
  <1>8. ASSUME NEW n \in NarrationHolders(t), NEW w \in FallbackHolders(t) PROVE FALSE
    BY <1>2, <1>3, <1>4 DEF FenceInv, EpochsDistinct
  <1>. QED BY <1>5, <1>6, <1>7, <1>8

\* However many workers are presumed dead and taken over, at most one at a time
\* passes the lease checks of a phase of a turn.
THEOREM OneHolderCorrect == Spec => []OneHolder
  BY FenceAlways, FencedHolders, PTL

-----------------------------------------------------------------------------
(* Versions: a worker bound to a snapshot is bound to the version its turn   *)
(* expects, so what it commits applies to that version.                      *)

SnapshotsExpected ==
    \A w \in Resolvers :
        /\ resolver[w].pc \in BoundPCs => resolver[w].base = turns[resolver[w].turn].expected
        /\ resolver[w].pc = "preview" => OpenScenario

SnapshotInv == FenceInv /\ SnapshotsExpected

LEMMA SnapshotInit == Init => SnapshotInv
  BY FenceInit DEF Init, SnapshotInv, SnapshotsExpected, IdleResolver, BoundPCs

LEMMA SnapshotNext ==
  ASSUME SnapshotInv, [Next]_vars PROVE SnapshotInv' /\ RowStep /\ RowsStay
  <1>1. /\ FenceInv /\ FenceInv' /\ Typed /\ RowStep /\ RowsStay /\ EpochStep
    BY FenceNext, RowInvNext, RowsStayStep, NextEpochs DEF SnapshotInv, FenceInv, RowInv
  <1>2. ASSUME NEW v \in Resolvers, ResolverKept(v)
        PROVE  /\ resolver'[v].pc \in BoundPCs =>
                     resolver'[v].base = turns'[resolver'[v].turn].expected
               /\ resolver'[v].pc = "preview" => OpenScenario
    <2>1. CASE resolver'[v] = IdleResolver
      BY <2>1 DEF IdleResolver, BoundPCs
    <2>2. CASE resolver[v].turn = NoTurn
      <3>1. resolver[v].pc = "idle"
        BY <1>1, <2>2 DEF Typed, ResolversTyped
      <3>2. CASE resolver'[v].turn = NoTurn
        BY <1>1, <3>2 DEF FenceInv, RowInv, Typed, ResolversTyped, BoundPCs
      <3>. QED BY <2>1, <2>2, <3>2, <1>2 DEF ResolverKept
    <2>3. CASE resolver'[v] # IdleResolver /\ resolver[v].turn # NoTurn
      <3>1. resolver[v].turn \in Requests
        BY <1>1, <2>3, EpochTypes
      <3>2. turns'[resolver[v].turn].expected = turns[resolver[v].turn].expected
        BY <1>1, <3>1 DEF FenceInv, WorkersFenced, RowsStay, Constant
      <3>. QED BY <1>2, <2>3, <3>2 DEF ResolverKept, SnapshotInv, SnapshotsExpected
    <2>. QED BY <2>1, <2>2, <2>3
  <1>3. ASSUME NEW v \in Resolvers, resolver'[v] = resolver[v] PROVE ResolverKept(v)
    <2>1. resolver[v].pc \in BoundPCs => resolver'[v].base = resolver[v].base
      BY <1>3
    <2>. QED BY <1>3 DEF ResolverKept
  <1>4. ASSUME NEW v \in Resolvers, resolver'[v].pc \in {"load", "fallback"}
        PROVE  resolver'[v].pc \notin BoundPCs /\ resolver'[v].pc # "preview"
    BY <1>4 DEF BoundPCs
  <1>5. SnapshotsExpected'
    BY <1>1, <1>2, <1>3, <1>4
       DEF SnapshotsExpected, EpochStep, ResolversKept, TakesTurn, TakesFallback, TakesNarration
  <1>. QED BY <1>1, <1>5 DEF SnapshotInv

LEMMA SnapshotAlways == Spec => []SnapshotInv
  BY SnapshotInit, SnapshotNext, PTL DEF Spec

LEMMA AppliedToExpected ==
  ASSUME SnapshotInv, NEW t \in Requests, Applied(t)
  PROVE  turns[t].expected = campaign.version
  BY DEF Applied, CommitsAtBase, SnapshotInv, SnapshotsExpected

AppliesStep ==
    campaign'.version # campaign.version =>
        /\ campaign'.version = campaign.version + 1
        /\ \E t \in Requests : /\ turns[t].status = "resolving"
                              /\ turns'[t].status = "committed"
                              /\ turns[t].expected = campaign.version

LEMMA AppliesRowStep ==
  ASSUME SnapshotInv, RowStep PROVE AppliesStep
  <1>1. ASSUME campaign'.version # campaign.version
        PROVE  \E t \in Requests : Applied(t)
    BY <1>1 DEF RowStep, KeepsAll, KeepsVersion, Accepted, Answered, Declined, GivenUp, ToldLater
  <1>2. ASSUME NEW t \in Requests, Applied(t)
        PROVE  /\ campaign'.version \in {campaign.version, campaign.version + 1}
               /\ turns[t].status = "resolving" /\ turns'[t].status = "committed"
               /\ turns[t].expected = campaign.version
    BY <1>2, AppliedToExpected DEF Applied, Decided
  <1>. QED BY <1>1, <1>2 DEF AppliesStep

\* The canonical state moves one version at a time, and only by a turn that is
\* committed on the version its request named.
THEOREM AppliesToExpected == Spec => AppliesToExpectedState
  <1>1. SnapshotInv /\ [Next]_vars => [AppliesStep]_vars
    BY SnapshotNext, AppliesRowStep
  <1>2. AppliesToExpectedState <=> [][AppliesStep]_vars
    BY DEF AppliesToExpectedState, AppliesStep
  <1>. QED BY <1>1, <1>2, SnapshotAlways, PTL DEF Spec

-----------------------------------------------------------------------------
(* Confirmed proposals *)

\* A confirming turn names a refused turn whose proposal was made for the same
\* version, in an open scenario, and never becomes narrative.
ConfirmsStand ==
    \A s, t \in Requests : turns[t].confirms = s =>
        /\ turns[t].input = "confirm"
        /\ Unresolved(t) => turns[t].route # "narrative"
        /\ turns[s].status = "not_applied"
        /\ turns[s].proposal
        /\ turns[s].expected = turns[t].expected

ProposalsOpen == \A t \in Requests : turns[t].proposal => OpenScenario

\* What it applied is in the past of the campaign.
ConfirmsApplied ==
    \A s, t \in Requests : turns[t].status = "committed" /\ turns[t].confirms = s =>
        /\ turns[t].committed = turns[s].expected + 1
        /\ campaign.version >= turns[t].committed

ConfirmInv == /\ SnapshotInv /\ ConfirmsStand /\ ProposalsOpen /\ ConfirmsApplied
              /\ ProposalAppliedOnce

LEMMA ConfirmInit == Init => ConfirmInv
  <1>. SUFFICES ASSUME Init PROVE ConfirmInv
    OBVIOUS
  <1>1. \A t \in Requests : /\ turns[t].confirms = NoTurn /\ ~turns[t].proposal
                           /\ turns[t].status = "absent"
    BY DEF Init, NoRow
  <1>. QED BY <1>1, SnapshotInit
       DEF ConfirmInv, ConfirmsStand, ProposalsOpen, ConfirmsApplied, ProposalAppliedOnce

LEMMA VersionTypes ==
  ASSUME Typed
  PROVE  /\ campaign.version \in Nat
         /\ \A t \in Requests : turns[t].expected \in Nat /\ turns[t].committed \in Nat
                                /\ turns[t].confirms \in Requests \cup {NoTurn}
  BY DEF Typed, LogTyped, Campaign, TurnsTyped, TurnRow

ProposalsKept(r) ==
    /\ turns'[r].confirms = turns[r].confirms
    /\ turns'[r].expected = turns[r].expected
    /\ turns'[r].input = turns[r].input
    /\ turns[r].status = "not_applied" =>
          turns'[r].status = "not_applied" /\ turns'[r].proposal = turns[r].proposal
    /\ turns'[r].status \in {"pending", "resolving"} =>
          /\ Unresolved(r)
          /\ turns'[r].route = "narrative" =>
                turns[r].route = "narrative" \/ turns[r].input = "free"
    /\ turns'[r].proposal => turns[r].proposal \/ OpenScenario

NotNewlyConfirmed(r) ==
    turns'[r].status = "committed" /\ turns'[r].confirms \in Requests =>
        turns[r].status = "committed" /\ turns'[r].committed = turns[r].committed

LEMMA StandKept ==
  ASSUME ConfirmInv, \A r \in Requests : ProposalsKept(r)
  PROVE  ConfirmsStand' /\ ProposalsOpen'
  <1>1. ProposalsOpen'
    BY DEF ConfirmInv, ProposalsOpen, ProposalsKept
  <1>2. ASSUME NEW s \in Requests, NEW t \in Requests, turns'[t].confirms = s
        PROVE  /\ turns'[t].input = "confirm"
               /\ turns'[t].status \in {"pending", "resolving"} => turns'[t].route # "narrative"
               /\ turns'[s].status = "not_applied"
               /\ turns'[s].proposal
               /\ turns'[s].expected = turns'[t].expected
    <2>1. ProposalsKept(s) /\ ProposalsKept(t) /\ turns[t].confirms = s
      BY <1>2 DEF ProposalsKept
    <2>2. /\ turns[t].input = "confirm" /\ (Unresolved(t) => turns[t].route # "narrative")
          /\ turns[s].status = "not_applied" /\ turns[s].proposal
          /\ turns[s].expected = turns[t].expected
      BY <2>1 DEF ConfirmInv, ConfirmsStand
    <2>. QED BY <2>1, <2>2 DEF ProposalsKept
  <1>. QED BY <1>1, <1>2 DEF ConfirmsStand, Unresolved

LEMMA AppliedKept ==
  ASSUME ConfirmInv, Typed', campaign'.version >= campaign.version,
         \A r \in Requests : /\ turns'[r].confirms = turns[r].confirms
                             /\ turns'[r].expected = turns[r].expected
                             /\ NotNewlyConfirmed(r)
  PROVE  ConfirmsApplied' /\ ProposalAppliedOnce'
  <1>1. Typed
    BY DEF ConfirmInv, SnapshotInv, FenceInv, RowInv
  <1>2. ConfirmsApplied'
    <2>1. campaign'.version \in Nat
      BY DEF Typed, LogTyped, Campaign
    <2>2. ASSUME NEW s \in Requests, NEW t \in Requests,
                 turns'[t].status = "committed", turns'[t].confirms = s
          PROVE  /\ turns'[t].committed = turns'[s].expected + 1
                 /\ campaign'.version >= turns'[t].committed
      <3>1. /\ turns[t].status = "committed" /\ turns[t].confirms = s
            /\ turns'[t].committed = turns[t].committed
        BY <2>2 DEF NotNewlyConfirmed
      <3>2. /\ turns[t].committed = turns[s].expected + 1
            /\ campaign.version >= turns[t].committed
        BY <3>1 DEF ConfirmInv, ConfirmsApplied
      <3>. QED BY <1>1, <2>1, <3>1, <3>2, VersionTypes
    <2>. QED BY <2>2 DEF ConfirmsApplied
  <1>3. ProposalAppliedOnce'
    BY DEF ConfirmInv, ProposalAppliedOnce, NotNewlyConfirmed
  <1>. QED BY <1>2, <1>3

LEMMA KeepsProposals ==
  ASSUME NEW r \in Requests, Keeps(r) PROVE ProposalsKept(r) /\ NotNewlyConfirmed(r)
  BY DEF Keeps, Constant, Unresolved, ProposalsKept, NotNewlyConfirmed

ConfirmParts == ConfirmsStand /\ ProposalsOpen /\ ConfirmsApplied /\ ProposalAppliedOnce

\* Steps that neither accept nor apply a turn.
LEMMA SettleConfirm ==
  ASSUME ConfirmInv, Typed', NEW t \in Requests, OthersKept(t),
         Answered(t) \/ Declined(t) \/ GivenUp(t) \/ ToldLater(t)
  PROVE  ConfirmParts'
  <1>1. turns'[t].proposal => turns[t].proposal \/ OpenScenario
    BY DEF Answered, Declined, GivenUp, ToldLater, ConfirmInv, SnapshotInv, SnapshotsExpected
  <1>2. ProposalsKept(t)
    BY <1>1 DEF Answered, Declined, GivenUp, ToldLater, Decided, Constant, ProposalsKept,
                ResolutionOver
  <1>3. NotNewlyConfirmed(t)
    BY DEF Answered, Declined, GivenUp, ToldLater, Decided, Constant, ConfirmInv, ConfirmsStand,
           Unresolved, NotNewlyConfirmed
  <1>4. \A r \in Requests : ProposalsKept(r) /\ NotNewlyConfirmed(r)
    BY <1>2, <1>3, KeepsProposals DEF OthersKept
  <1>5. campaign'.version = campaign.version /\ campaign.version \in Nat
    BY VersionTypes DEF Answered, Declined, GivenUp, ToldLater, KeepsVersion, ConfirmInv,
                        SnapshotInv, FenceInv, RowInv
  <1>. QED BY <1>4, <1>5, StandKept, AppliedKept DEF ConfirmParts, ProposalsKept

LEMMA KeepConfirm ==
  ASSUME ConfirmInv, Typed', KeepsAll
  PROVE  ConfirmParts'
  <1>1. \A r \in Requests : ProposalsKept(r) /\ NotNewlyConfirmed(r)
    BY KeepsProposals DEF KeepsAll
  <1>2. campaign'.version = campaign.version /\ campaign.version \in Nat
    BY VersionTypes DEF KeepsAll, KeepsVersion, ConfirmInv, SnapshotInv, FenceInv, RowInv
  <1>. QED BY <1>1, <1>2, StandKept, AppliedKept DEF ConfirmParts, ProposalsKept

LEMMA AcceptConfirm ==
  ASSUME ConfirmInv, Typed', NEW t \in Requests, OthersKept(t), Accepted(t)
  PROVE  ConfirmParts'
  <1>1. ASSUME NEW r \in Requests \ {t}
        PROVE  ProposalsKept(r) /\ NotNewlyConfirmed(r)
    BY KeepsProposals DEF OthersKept
  <1>2. /\ turns[t].status = "absent" /\ turns'[t].status = "pending"
        /\ turns'[t].expected = campaign.version
        /\ turns'[t].route = "none" /\ ~turns'[t].proposal
    BY DEF Accepted
  <1>3. \A r \in Requests : turns[r].status = "not_applied" => r # t
    BY <1>2
  <1>4. ProposalsOpen'
    BY <1>1, <1>2 DEF ConfirmInv, ProposalsOpen, ProposalsKept
  <1>5. ASSUME NEW s \in Requests, NEW r \in Requests \ {t}, turns'[r].confirms = s
        PROVE  /\ turns'[r].input = "confirm"
               /\ turns'[r].status \in {"pending", "resolving"} => turns'[r].route # "narrative"
               /\ turns'[s].status = "not_applied"
               /\ turns'[s].proposal
               /\ turns'[s].expected = turns'[r].expected
               /\ turns[r].confirms = s
    <2>1. ProposalsKept(r) /\ turns[r].confirms = s
      BY <1>1, <1>5 DEF ProposalsKept
    <2>2. /\ turns[r].input = "confirm" /\ (Unresolved(r) => turns[r].route # "narrative")
          /\ turns[s].status = "not_applied" /\ turns[s].proposal
          /\ turns[s].expected = turns[r].expected
      BY <2>1 DEF ConfirmInv, ConfirmsStand
    <2>3. ProposalsKept(s)
      BY <1>1, <1>3, <2>2
    <2>. QED BY <2>1, <2>2, <2>3 DEF ProposalsKept
  <1>6. ASSUME NEW s \in Requests, turns'[t].confirms = s
        PROVE  /\ turns'[t].input = "confirm"
               /\ turns'[s].status = "not_applied"
               /\ turns'[s].proposal
               /\ turns'[s].expected = turns'[t].expected
    <2>1. /\ turns'[t].input = "confirm" /\ turns[s].status = "not_applied"
          /\ turns[s].proposal /\ turns[s].expected = campaign.version
      BY <1>6 DEF Accepted, ProposalStands
    <2>2. ProposalsKept(s)
      BY <1>1, <1>3, <2>1
    <2>. QED BY <1>2, <2>1, <2>2 DEF ProposalsKept
  <1>7. ConfirmsStand'
    BY <1>2, <1>5, <1>6 DEF ConfirmsStand, Unresolved
  <1>8. ASSUME NEW s \in Requests, NEW r \in Requests,
               turns'[r].status = "committed", turns'[r].confirms = s
        PROVE  /\ turns[r].status = "committed" /\ turns[r].confirms = s /\ s # t
               /\ turns'[r].committed = turns[r].committed
               /\ turns'[s].expected = turns[s].expected
    <2>1. r # t
      BY <1>2, <1>8
    <2>2. /\ turns[r].status = "committed" /\ turns'[r].committed = turns[r].committed
          /\ turns[r].confirms = s
      BY <1>1, <1>8, <2>1 DEF NotNewlyConfirmed, ProposalsKept
    <2>3. s # t
      BY <1>3, <2>2 DEF ConfirmInv, ConfirmsStand
    <2>. QED BY <1>1, <2>2, <2>3 DEF ProposalsKept
  <1>9. ConfirmsApplied'
    BY <1>8 DEF ConfirmInv, ConfirmsApplied, Accepted, KeepsVersion
  <1>10. ProposalAppliedOnce'
    BY <1>8 DEF ConfirmInv, ProposalAppliedOnce
  <1>. QED BY <1>4, <1>7, <1>9, <1>10 DEF ConfirmParts

LEMMA ApplyConfirm ==
  ASSUME ConfirmInv, Typed', NEW t \in Requests, OthersKept(t), Applied(t)
  PROVE  ConfirmParts'
  <1>1. ProposalsKept(t)
    BY DEF Applied, Decided, Constant, ProposalsKept
  <1>2. \A r \in Requests : ProposalsKept(r)
    BY <1>1, KeepsProposals DEF OthersKept
  <1>3. \A r \in Requests \ {t} : NotNewlyConfirmed(r)
    BY KeepsProposals DEF OthersKept
  <1>4. /\ campaign.version \in Nat /\ turns[t].expected = campaign.version
        /\ campaign'.version \in {campaign.version, campaign.version + 1}
        /\ turns'[t].committed = campaign'.version
    BY VersionTypes, AppliedToExpected
       DEF Applied, ConfirmInv, SnapshotInv, FenceInv, RowInv
  <1>5. ASSUME NEW s \in Requests, turns'[t].confirms = s
        PROVE  /\ turns'[t].committed = turns'[s].expected + 1
               /\ campaign'.version = turns'[t].committed
               /\ turns[s].expected = campaign.version
    <2>1. turns[t].confirms = s
      BY <1>1, <1>5 DEF ProposalsKept
    <2>2. turns[s].proposal /\ turns[s].expected = turns[t].expected
      BY <2>1 DEF ConfirmInv, ConfirmsStand
    <2>3. OpenScenario
      BY <2>2 DEF ConfirmInv, ProposalsOpen
    <2>4. campaign'.version = campaign.version + 1
      BY <1>4, <2>3 DEF Applied
    <2>. QED BY <1>2, <1>4, <2>2, <2>4 DEF ProposalsKept
  <1>6. ASSUME NEW s \in Requests, NEW r \in Requests \ {t},
               turns'[r].status = "committed", turns'[r].confirms = s
        PROVE  /\ turns[r].status = "committed" /\ turns[r].confirms = s
               /\ turns'[r].committed = turns[r].committed
               /\ turns'[s].expected = turns[s].expected
               /\ turns[r].committed = turns[s].expected + 1
               /\ campaign.version >= turns[r].committed
    <2>1. /\ turns[r].status = "committed" /\ turns'[r].committed = turns[r].committed
          /\ turns[r].confirms = s
      BY <1>2, <1>3, <1>6 DEF NotNewlyConfirmed, ProposalsKept
    <2>. QED BY <1>2, <2>1 DEF ProposalsKept, ConfirmInv, ConfirmsApplied
  <1>7. Typed
    BY DEF ConfirmInv, SnapshotInv, FenceInv, RowInv
  <1>8. ConfirmsApplied'
    <2>1. ASSUME NEW s \in Requests, NEW r \in Requests,
                 turns'[r].status = "committed", turns'[r].confirms = s
          PROVE  /\ turns'[r].committed = turns'[s].expected + 1
                 /\ campaign'.version >= turns'[r].committed
      <3>1. CASE r = t
        BY <1>4, <1>5, <2>1, <3>1
      <3>2. CASE r # t
        BY <1>4, <1>6, <1>7, <2>1, <3>2, VersionTypes
      <3>. QED BY <3>1, <3>2
    <2>. QED BY <2>1 DEF ConfirmsApplied
  <1>9. ProposalAppliedOnce'
    <2>1. ASSUME NEW s \in Requests, NEW r \in Requests, NEW q \in Requests,
                 turns'[r].status = "committed", turns'[r].confirms = s,
                 turns'[q].status = "committed", turns'[q].confirms = s
          PROVE  q = r
      <3>1. CASE r # t /\ q # t
        BY <1>6, <2>1, <3>1 DEF ConfirmInv, ProposalAppliedOnce
      <3>2. CASE r = t /\ q # t
        BY <1>4, <1>5, <1>6, <2>1, <3>2
      <3>3. CASE q = t /\ r # t
        BY <1>4, <1>5, <1>6, <2>1, <3>3
      <3>. QED BY <3>1, <3>2, <3>3
    <2>2. ASSUME NEW s \in Requests, NEW r \in Requests,
                 turns'[r].status = "committed", turns'[r].confirms = s
          PROVE  turns'[r].committed = turns'[s].expected + 1
      BY <1>8, <2>2 DEF ConfirmsApplied
    <2>. QED BY <2>1, <2>2 DEF ProposalAppliedOnce
  <1>10. ConfirmsStand' /\ ProposalsOpen'
    BY <1>2, StandKept
  <1>. QED BY <1>8, <1>9, <1>10 DEF ConfirmParts

LEMMA ConfirmNext ==
  ASSUME ConfirmInv, [Next]_vars PROVE ConfirmInv'
  <1>1. SnapshotInv' /\ RowStep /\ Typed'
    BY SnapshotNext DEF ConfirmInv, SnapshotInv, FenceInv, RowInv
  <1>2. ConfirmParts'
    BY <1>1, KeepConfirm, AcceptConfirm, ApplyConfirm, SettleConfirm DEF RowStep
  <1>. QED BY <1>1, <1>2 DEF ConfirmInv, ConfirmParts

\* A risky action the player confirmed is applied at most once, and to the state
\* its warning described, whatever is retried, taken over or confirmed again.
THEOREM ProposalAppliedOnceCorrect == Spec => []ProposalAppliedOnce
  <1>1. Spec => []ConfirmInv
    BY ConfirmInit, ConfirmNext, PTL DEF Spec
  <1>2. ConfirmInv => ProposalAppliedOnce
    BY DEF ConfirmInv
  <1>. QED BY <1>1, <1>2, PTL
-----------------------------------------------------------------------------
(* The budget: what was sent and what is about to be sent never exceeds what *)
(* was reserved, and a reservation is made only for a turn with a route.     *)

Callers(t) == {w \in Resolvers : resolver[w].pc = "call" /\ resolver[w].turn = t}
Tellers(t) == {n \in Narrators : narrator[n].pc = "call" /\ narrator[n].turn = t}

RowSpent(r) ==
    /\ turns[r].calls <= Budget
    /\ turns[r].route = "narrative" => turns[r].calls <= 1
    /\ turns[r].route = "none" => turns[r].calls = 0
    /\ turns[r].status = "absent" => turns[r].route = "none"
    /\ turns[r].status = "committed" => turns[r].route # "none"

RowPaid(r) ==
    /\ IsFiniteSet(Callers(r)) /\ IsFiniteSet(Tellers(r))
    /\ physical[r] + Cardinality(Callers(r)) + Cardinality(Tellers(r)) <= turns[r].calls

\* A worker asks the model only once its turn has a route, and while it still
\* owns a turn it is to route nobody else has routed it.
Routed(w) ==
    LET t == resolver[w].turn
    IN  /\ resolver[w].pc \in {"reserve", "call"} => turns[t].route # "none"
        /\ resolver[w].pc = "route" /\ turns[t].epoch = resolver[w].epoch /\ Unresolved(t) =>
              turns[t].route = "none"

SpendInv == /\ FenceInv /\ OfferInv
            /\ \A r \in Requests : RowSpent(r) /\ RowPaid(r)
            /\ \A w \in Resolvers : Routed(w)

\* What a step may do to a row without reserving a call for it.
RowMoves(r) ==
    /\ turns'[r].calls = turns[r].calls
    /\ turns[r].route # "none" => turns'[r].route # "none"
    /\ turns'[r].route = "narrative" => turns[r].route \in {"none", "narrative"}
    /\ turns'[r].status = "absent" => turns[r].status = "absent" /\ turns'[r].route = turns[r].route
    /\ turns'[r].status = "committed" => turns[r].status = "committed" \/ turns'[r].route # "none"
    /\ turns[r].route = "none" =>
          \/ turns'[r].route = "none"
          \/ turns'[r].status = "committed"
          \/ \E v \in Resolvers : /\ resolver[v].pc = "route" /\ resolver[v].turn = r
                                  /\ resolver[v].epoch = turns[r].epoch
                                  /\ resolver'[v].pc # "route"

Reserves(t) ==
    /\ turns'[t].calls = turns[t].calls + 1
    /\ turns[t].calls < Budget
    /\ turns[t].route = "narrative" => turns[t].calls < 1
    /\ turns[t].route # "none" /\ turns'[t].route = turns[t].route
    /\ turns'[t].status = turns[t].status

\* Where a worker may be after a step.
ResolverRouted(v) ==
    /\ resolver'[v].pc \in {"reserve", "call"} =>
          /\ resolver'[v].turn \in Requests
          /\ \/ turns'[resolver'[v].turn].route # "none"
             \/ /\ resolver[v].pc \in {"reserve", "call"}
                /\ resolver'[v].turn = resolver[v].turn
    /\ resolver'[v].pc = "route" =>
          /\ resolver'[v].turn \in Requests
          /\ \/ turns'[resolver'[v].turn].route = "none"
             \/ /\ resolver[v].pc = "route"
                /\ resolver'[v].turn = resolver[v].turn
                /\ resolver'[v].epoch = resolver[v].epoch

ResolversRouted == \A v \in Resolvers : ResolverRouted(v)

FewerCallers == \A r \in Requests : Callers(r)' \subseteq Callers(r)
FewerTellers == \A r \in Requests : Tellers(r)' \subseteq Tellers(r)

SpendsNothing ==
    /\ \A r \in Requests : RowMoves(r)
    /\ physical' = physical /\ FewerCallers /\ FewerTellers

ReservesCall(t) ==
    /\ Reserves(t) /\ \A r \in Requests \ {t} : RowMoves(r)
    /\ physical' = physical
    /\ \/ /\ FewerTellers
          /\ \E w \in Resolvers : \A r \in Requests :
                Callers(r)' \subseteq IF r = t THEN Callers(r) \cup {w} ELSE Callers(r)
       \/ /\ FewerCallers
          /\ \E n \in Narrators : \A r \in Requests :
                Tellers(r)' \subseteq IF r = t THEN Tellers(r) \cup {n} ELSE Tellers(r)

SendsCall(t) ==
    /\ \A r \in Requests : RowMoves(r)
    /\ physical' = [physical EXCEPT ![t] = @ + 1]
    /\ FewerCallers /\ FewerTellers
    /\ \/ \E w \in Callers(t) : w \notin Callers(t)'
       \/ \E n \in Tellers(t) : n \notin Tellers(t)'

SpendStep ==
    /\ ResolversRouted
    /\ \/ SpendsNothing
       \/ \E t \in Requests : ReservesCall(t) \/ SendsCall(t)

LEMMA SpendInit == Init => SpendInv
  <1>. SUFFICES ASSUME Init PROVE SpendInv
    OBVIOUS
  <1>1. FenceInv /\ OfferInv
    BY FenceInit, OfferInit
  <1>2. ASSUME NEW r \in Requests PROVE RowSpent(r) /\ RowPaid(r)
    <2>1. Callers(r) = {} /\ Tellers(r) = {}
      BY DEF Init, IdleResolver, IdleNarrator, Callers, Tellers
    <2>2. turns[r].calls = 0 /\ turns[r].route = "none" /\ turns[r].status = "absent"
          /\ physical[r] = 0
      BY DEF Init, NoRow
    <2>3. RowSpent(r)
      BY <2>2, BoundsAssumption DEF RowSpent
    <2>4. IsFiniteSet({}) /\ Cardinality({}) = 0
      BY FS_EmptySet
    <2>. QED BY <2>1, <2>2, <2>3, <2>4 DEF RowPaid
  <1>3. \A w \in Resolvers : Routed(w)
    BY DEF Init, IdleResolver, Routed
  <1>. QED BY <1>1, <1>2, <1>3 DEF SpendInv

LEMMA SpentKept ==
  ASSUME NEW r \in Requests, Typed, RowSpent(r), RowMoves(r) \/ Reserves(r)
  PROVE  RowSpent(r)'
  <1>1. turns[r].calls \in Nat
    BY DEF Typed, TurnsTyped, TurnRow
  <1>2. CASE RowMoves(r)
    BY <1>1, <1>2 DEF RowSpent, RowMoves
  <1>3. CASE Reserves(r)
    BY <1>1, <1>3, BoundsAssumption DEF RowSpent, Reserves
  <1>. QED BY <1>2, <1>3

LEMMA PaidSum ==
  ASSUME NEW r \in Requests, Typed, RowPaid(r), Typed',
         NEW S \in SUBSET Resolvers, NEW T \in SUBSET Narrators, IsFiniteSet(S), IsFiniteSet(T),
         Callers(r)' \subseteq S, Tellers(r)' \subseteq T,
         physical'[r] + Cardinality(S) + Cardinality(T) <= turns'[r].calls
  PROVE  RowPaid(r)'
  <1>1. /\ IsFiniteSet(Callers(r)') /\ IsFiniteSet(Tellers(r)')
        /\ Cardinality(Callers(r)') <= Cardinality(S)
        /\ Cardinality(Tellers(r)') <= Cardinality(T)
    BY FS_Subset
  <1>2. /\ Cardinality(Callers(r)') \in Nat /\ Cardinality(Tellers(r)') \in Nat
        /\ Cardinality(S) \in Nat /\ Cardinality(T) \in Nat
    BY <1>1, FS_CardinalityType
  <1>3. physical'[r] \in Nat /\ turns'[r].calls \in Nat
    BY DEF Typed, CountsTyped, TurnsTyped, TurnRow
  <1>4. physical'[r] + Cardinality(Callers(r)') + Cardinality(Tellers(r)') <= turns'[r].calls
    BY <1>1, <1>2, <1>3
  <1>. QED BY <1>1, <1>4 DEF RowPaid
LEMMA PaidStep ==
  ASSUME SpendInv, Typed', SpendStep, NEW r \in Requests
  PROVE  RowPaid(r)'
  <1>1. /\ Typed /\ RowPaid(r)
        /\ IsFiniteSet(Callers(r)) /\ IsFiniteSet(Tellers(r))
        /\ physical[r] + Cardinality(Callers(r)) + Cardinality(Tellers(r)) <= turns[r].calls
    BY DEF SpendInv, FenceInv, RowInv, RowPaid
  <1>2. /\ Cardinality(Callers(r)) \in Nat /\ Cardinality(Tellers(r)) \in Nat
        /\ physical[r] \in Nat /\ turns[r].calls \in Nat
    BY <1>1, FS_CardinalityType DEF Typed, CountsTyped, TurnsTyped, TurnRow
  <1>3. Callers(r) \in SUBSET Resolvers /\ Tellers(r) \in SUBSET Narrators
    BY DEF Callers, Tellers
  <1>4. ASSUME Callers(r)' \subseteq Callers(r), Tellers(r)' \subseteq Tellers(r),
               physical'[r] = physical[r], turns'[r].calls = turns[r].calls
        PROVE  RowPaid(r)'
    BY <1>1, <1>2, <1>3, <1>4, PaidSum
  <1>5. CASE SpendsNothing
    BY <1>4, <1>5 DEF SpendsNothing, FewerCallers, FewerTellers, RowMoves
  <1>6. ASSUME NEW t \in Requests, ReservesCall(t) PROVE RowPaid(r)'
    <2>1. CASE r # t
      BY <1>4, <1>6, <2>1 DEF ReservesCall, FewerCallers, FewerTellers, RowMoves
    <2>2. CASE r = t
      <3>1. physical'[r] = physical[r] /\ turns'[r].calls = turns[r].calls + 1
        BY <1>6, <2>2 DEF ReservesCall, Reserves
      <3>2. ASSUME NEW w \in Resolvers, Callers(r)' \subseteq Callers(r) \cup {w},
                   Tellers(r)' \subseteq Tellers(r)
            PROVE  RowPaid(r)'
        <4>1. /\ IsFiniteSet(Callers(r) \cup {w})
              /\ Cardinality(Callers(r) \cup {w}) \in
                    {Cardinality(Callers(r)), Cardinality(Callers(r)) + 1}
          BY <1>1, FS_AddElement
        <4>2. Callers(r) \cup {w} \in SUBSET Resolvers
          BY <1>3
        <4>3. physical'[r] + Cardinality(Callers(r) \cup {w}) + Cardinality(Tellers(r))
                <= turns'[r].calls
          BY <1>1, <1>2, <3>1, <4>1
        <4>. QED BY <1>1, <1>3, <3>2, <4>1, <4>2, <4>3, PaidSum
      <3>3. ASSUME NEW n \in Narrators, Tellers(r)' \subseteq Tellers(r) \cup {n},
                   Callers(r)' \subseteq Callers(r)
            PROVE  RowPaid(r)'
        <4>1. /\ IsFiniteSet(Tellers(r) \cup {n})
              /\ Cardinality(Tellers(r) \cup {n}) \in
                    {Cardinality(Tellers(r)), Cardinality(Tellers(r)) + 1}
          BY <1>1, FS_AddElement
        <4>2. Tellers(r) \cup {n} \in SUBSET Narrators
          BY <1>3
        <4>3. physical'[r] + Cardinality(Callers(r)) + Cardinality(Tellers(r) \cup {n})
                <= turns'[r].calls
          BY <1>1, <1>2, <3>1, <4>1
        <4>. QED BY <1>1, <1>3, <3>3, <4>1, <4>2, <4>3, PaidSum
      <3>. QED BY <1>6, <2>2, <3>2, <3>3 DEF ReservesCall, FewerCallers, FewerTellers
    <2>. QED BY <2>1, <2>2
  <1>7. ASSUME NEW t \in Requests, SendsCall(t) PROVE RowPaid(r)'
    <2>1. turns'[r].calls = turns[r].calls
      BY <1>7 DEF SendsCall, RowMoves
    <2>2. Callers(r)' \subseteq Callers(r) /\ Tellers(r)' \subseteq Tellers(r)
      BY <1>7 DEF SendsCall, FewerCallers, FewerTellers
    <2>3. CASE r # t
      BY <1>1, <1>4, <1>7, <2>1, <2>2, <2>3 DEF SendsCall, Typed, CountsTyped
    <2>4. CASE r = t
      <3>1. physical'[r] = physical[r] + 1
        BY <1>1, <1>7, <2>4 DEF SendsCall, Typed, CountsTyped
      <3>2. ASSUME NEW w \in Callers(r), w \notin Callers(r)' PROVE RowPaid(r)'
        <4>1. /\ IsFiniteSet(Callers(r) \ {w})
              /\ Cardinality(Callers(r) \ {w}) = Cardinality(Callers(r)) - 1
          BY <1>1, FS_RemoveElement
        <4>2. Callers(r) \ {w} \in SUBSET Resolvers /\ Callers(r)' \subseteq Callers(r) \ {w}
          BY <1>3, <2>2, <3>2
        <4>3. physical'[r] + Cardinality(Callers(r) \ {w}) + Cardinality(Tellers(r))
                <= turns'[r].calls
          BY <1>1, <1>2, <2>1, <3>1, <4>1
        <4>. QED BY <1>1, <1>3, <2>2, <4>1, <4>2, <4>3, PaidSum
      <3>3. ASSUME NEW n \in Tellers(r), n \notin Tellers(r)' PROVE RowPaid(r)'
        <4>1. /\ IsFiniteSet(Tellers(r) \ {n})
              /\ Cardinality(Tellers(r) \ {n}) = Cardinality(Tellers(r)) - 1
          BY <1>1, FS_RemoveElement
        <4>2. Tellers(r) \ {n} \in SUBSET Narrators /\ Tellers(r)' \subseteq Tellers(r) \ {n}
          BY <1>3, <2>2, <3>3
        <4>3. physical'[r] + Cardinality(Callers(r)) + Cardinality(Tellers(r) \ {n})
                <= turns'[r].calls
          BY <1>1, <1>2, <2>1, <3>1, <4>1
        <4>. QED BY <1>1, <1>3, <2>2, <4>1, <4>2, <4>3, PaidSum
      <3>. QED BY <1>7, <2>4, <3>2, <3>3 DEF SendsCall
    <2>. QED BY <2>3, <2>4
  <1>. QED BY <1>5, <1>6, <1>7 DEF SpendStep

\* Under a step no worker that is still to route a turn finds it routed.
LEMMA RoutedStep ==
  ASSUME SpendInv, RowInv', RowsStay, RowStep, EpochStep, SpendStep, NEW w \in Resolvers
  PROVE  Routed(w)'
  <1>. DEFINE t == resolver[w].turn
  <1>1. /\ FenceInv /\ Typed /\ Routed(w) /\ ResolverRouted(w)
        /\ \A r \in Requests : RowMoves(r) \/ Reserves(r)
    BY DEF SpendInv, FenceInv, RowInv, SpendStep, ResolversRouted, SpendsNothing, ReservesCall,
           SendsCall
  <1>2. ASSUME resolver'[w].pc \in {"reserve", "call"}
        PROVE  turns'[resolver'[w].turn].route # "none"
    BY <1>1, <1>2 DEF ResolverRouted, Routed, RowMoves, Reserves
  <1>3. ASSUME resolver'[w].pc = "route", turns'[resolver'[w].turn].epoch = resolver'[w].epoch,
               turns'[resolver'[w].turn].status \in {"pending", "resolving"}
        PROVE  turns'[resolver'[w].turn].route = "none"
    <2>1. CASE turns'[resolver'[w].turn].route = "none"
      BY <2>1
    <2>2. CASE resolver[w].pc = "route" /\ resolver'[w].turn = resolver[w].turn
               /\ resolver'[w].epoch = resolver[w].epoch
      <3>1. t \in Requests /\ resolver'[w].turn = t
        BY <1>1, <2>2, ResolverTurn DEF Typed
      <3>2. /\ turns[t].status # "absent" /\ resolver[w].epoch <= turns[t].epoch
            /\ turns[t].epoch \in Nat /\ resolver[w].epoch \in Nat
        BY <1>1, <2>2, <3>1, EpochTypes DEF FenceInv, WorkersFenced, InFallback
      <3>3. turns'[t].epoch \in {turns[t].epoch, turns[t].epoch + 1}
        BY <3>1, <3>2 DEF EpochStep, EpochsKept, TakesTurn, TakesFallback, TakesNarration,
                          TakesNarrationRow
      <3>4. turns[t].epoch = resolver[w].epoch
        BY <1>3, <2>2, <3>1, <3>2, <3>3
      <3>5. Unresolved(t)
        <4>1. RowInv /\ turns[t].status \in {"absent", "pending", "resolving", "committed",
                                             "not_applied", "failed"}
          BY <1>1, <3>1 DEF FenceInv, RowInv, Typed, TurnsTyped, TurnRow
        <4>2. ResolutionOver(t) => turns'[t].status = turns[t].status
          BY <3>1, <4>1, FinalRowStep DEF FinalStep
        <4>. QED BY <1>3, <3>1, <3>2, <4>1, <4>2 DEF Unresolved, ResolutionOver
      <3>6. turns[t].route = "none"
        BY <1>1, <2>2, <3>4, <3>5 DEF Routed
      <3>7. ~Reserves(t)
        BY <3>6 DEF Reserves
      <3>8. CASE turns'[t].route # "none"
        <4>1. PICK v \in Resolvers : /\ resolver[v].pc = "route" /\ resolver[v].turn = t
                                     /\ resolver[v].epoch = turns[t].epoch
                                     /\ resolver'[v].pc # "route"
          BY <1>1, <1>3, <3>1, <3>6, <3>7, <3>8 DEF RowMoves
        <4>2. v # w
          BY <1>3, <4>1
        <4>. QED BY <1>1, <2>2, <3>1, <3>4, <4>1, <4>2 DEF FenceInv, EpochsDistinct, InFallback
      <3>. QED BY <3>1, <3>8
    <2>. QED BY <1>1, <1>3, <2>1, <2>2 DEF ResolverRouted
  <1>. QED BY <1>2, <1>3 DEF Routed, Unresolved
-----------------------------------------------------------------------------
(* Every step is a SpendStep *)

SameRowsSpend == \A r \in Requests : RowMoves(r)

\* What a worker's step does to the workers when it reserves nothing.
ResolversMove(w) ==
    /\ ResolversRouted
    /\ \A r \in Requests : Callers(r)' \subseteq Callers(r) \ {w}

LEMMA SameTurnsSpend ==
  ASSUME UNCHANGED turns PROVE SameRowsSpend
  BY DEF SameRowsSpend, RowMoves

LEMMA SameWorkersSpend ==
  ASSUME Typed, UNCHANGED resolver, SameRowsSpend \/ \E t \in Requests : Reserves(t)
  PROVE  ResolversRouted /\ FewerCallers
  <1>1. \A v \in Resolvers : resolver[v].pc # "idle" => resolver[v].turn \in Requests
    BY ResolverTurn DEF Typed
  <1>. QED BY <1>1 DEF ResolversRouted, ResolverRouted, FewerCallers, Callers

LEMMA SameTellers ==
  ASSUME UNCHANGED narrator PROVE FewerTellers
  BY DEF FewerTellers, Tellers

LEMMA MovedResolver ==
  ASSUME Typed, NEW w \in Resolvers, NEW state, resolver' = [resolver EXCEPT ![w] = state],
         state.pc \in {"reserve", "call"} =>
            /\ state.turn \in Requests
            /\ \/ turns'[state.turn].route # "none"
               \/ resolver[w].pc \in {"reserve", "call"} /\ state.turn = resolver[w].turn,
         state.pc = "route" => state.turn \in Requests /\ turns'[state.turn].route = "none"
  PROVE  /\ ResolversRouted
         /\ state.pc # "call" => ResolversMove(w)
         /\ \A r \in Requests : Callers(r)' \subseteq
               IF r = state.turn THEN Callers(r) \cup {w} ELSE Callers(r)
  <1>1. /\ resolver'[w] = state
        /\ \A v \in Resolvers \ {w} : resolver'[v] = resolver[v]
        /\ \A v \in Resolvers : resolver[v].pc # "idle" => resolver[v].turn \in Requests
    BY ResolverTurn DEF Typed, ResolversTyped
  <1>2. ASSUME NEW v \in Resolvers PROVE ResolverRouted(v)
    <2>1. CASE v = w
      BY <1>1, <2>1 DEF ResolverRouted
    <2>2. CASE v # w
      BY <1>1, <2>2 DEF ResolverRouted
    <2>. QED BY <2>1, <2>2
  <1>. QED BY <1>1, <1>2 DEF ResolversRouted, ResolversMove, Callers

LEMMA LeftSpends ==
  ASSUME Typed, NEW w \in Resolvers, resolver[w].pc # "idle",
         NEW pc, pc \notin {"reserve", "call", "route"}, GoTo(w, pc) \/ Rest(w)
  PROVE  ResolversMove(w)
  <1>1. CASE GoTo(w, pc)
    <2>. DEFINE state == [resolver[w] EXCEPT !.pc = pc]
    <2>1. state.pc = pc /\ resolver' = [resolver EXCEPT ![w] = state]
      BY <1>1 DEF GoTo, Typed, ResolversTyped, ResolverState
    <2>. HIDE DEF state
    <2>. QED BY <2>1, MovedResolver
  <1>2. CASE Rest(w)
    <2>1. IdleResolver.pc = "idle"
      BY DEF IdleResolver
    <2>. QED BY <1>2, <2>1, MovedResolver DEF Rest
  <1>. QED BY <1>1, <1>2

\* Rewriting one row without a reservation.
LEMMA RewrittenRow ==
  ASSUME Typed, NEW t \in Requests, NEW row, turns' = [turns EXCEPT ![t] = row],
         row.calls = turns[t].calls,
         \/ row.route = turns[t].route
         \/ row.route = "mechanical" /\ turns[t].route # "none"
         \/ row.route = "mechanical" /\ row.status = "committed",
         row.status # "absent",
         row.status = "committed" => row.route # "none"
  PROVE  SameRowsSpend
  <1>1. turns'[t] = row /\ \A r \in Requests \ {t} : turns'[r] = turns[r]
    BY DEF Typed, TurnsTyped
  <1>2. RowMoves(t)
    BY <1>1 DEF RowMoves
  <1>3. ASSUME NEW r \in Requests \ {t} PROVE RowMoves(r)
    BY <1>1 DEF RowMoves
  <1>. QED BY <1>2, <1>3 DEF SameRowsSpend

LEMMA QuietSpend ==
  ASSUME SameRowsSpend, ResolversRouted, FewerCallers, FewerTellers, UNCHANGED physical
  PROVE  SpendStep
  BY DEF SpendStep, SpendsNothing, SameRowsSpend

LEMMA AcceptSpends ==
  ASSUME SpendInv, NEW t \in Requests, Accept(t) PROVE SpendStep
  <1>1. /\ Typed /\ RowSpent(t) /\ turns[t].status = "absent"
        /\ UNCHANGED <<resolver, narrator, physical>>
    BY DEF SpendInv, FenceInv, RowInv, Accept
  <1>2. PICK input, s : AcceptRow(t, input, s)
    BY DEF Accept
  <1>3. turns' = [turns EXCEPT ![t] = [NoRow EXCEPT !.status = "pending",
                                                    !.expected = campaign.version,
                                                    !.input = input, !.confirms = s]]
    BY <1>2 DEF AcceptRow
  <1>4. /\ turns'[t].status = "pending" /\ turns'[t].route = "none" /\ turns'[t].calls = 0
        /\ \A r \in Requests \ {t} : turns'[r] = turns[r]
    BY <1>1, <1>3 DEF Typed, TurnsTyped, NoRow
  <1>5. SameRowsSpend
    BY <1>1, <1>4 DEF SameRowsSpend, RowMoves, RowSpent
  <1>. QED BY <1>1, <1>5, SameWorkersSpend, SameTellers, QuietSpend

LEMMA AcquireSpends ==
  ASSUME SpendInv, NEW w \in Resolvers, NEW t \in Requests, AcquireTurn(w, t) PROVE SpendStep
  <1>1. Typed /\ turns[t] \in TurnRow
    BY DEF SpendInv, FenceInv, RowInv, Typed, TurnsTyped
  <1>2. /\ Leased(turns[t], "resolving").calls = turns[t].calls
        /\ Leased(turns[t], "resolving").route = turns[t].route
        /\ Leased(turns[t], "resolving").status = "resolving"
    BY <1>1, LeasedTurnFields
  <1>3. SameRowsSpend
    <2>. DEFINE row == Leased(turns[t], "resolving")
    <2>1. turns' = [turns EXCEPT ![t] = row]
      BY <1>1 DEF AcquireTurn, Typed, TurnsTyped
    <2>. HIDE DEF row
    <2>2. row.calls = turns[t].calls /\ row.route = turns[t].route /\ row.status = "resolving"
      BY <1>2 DEF row
    <2>. QED BY <1>1, <2>1, <2>2, RewrittenRow
  <1>4. ResolversMove(w)
    <2>. DEFINE state == [IdleResolver EXCEPT !.pc = "load", !.turn = t,
                                              !.epoch = turns[t].epoch + 1,
                                              !.cleanup = Exhausted(turns[t])]
    <2>1. state.pc = "load" /\ resolver' = [resolver EXCEPT ![w] = state]
      BY DEF AcquireTurn, IdleResolver
    <2>. HIDE DEF state
    <2>. QED BY <1>1, <2>1, MovedResolver
  <1>. QED BY <1>3, <1>4, SameTellers, QuietSpend DEF AcquireTurn, ResolversMove, FewerCallers

LEMMA LoadSpends ==
  ASSUME SpendInv, NEW w \in Resolvers, LoadWork(w) PROVE SpendStep
  <1>. DEFINE t == resolver[w].turn
  <1>1. /\ Typed /\ t \in Requests /\ resolver[w].pc = "load"
        /\ UNCHANGED <<turns, narrator, physical>>
    BY ResolverTurn DEF SpendInv, FenceInv, RowInv, LoadWork, Typed
  <1>2. ResolversMove(w)
    <2>1. CASE Rest(w)
      BY <1>1, <2>1, LeftSpends
    <2>2. ASSUME NEW pc \in {"finalize", "fail", "route", "reserve", "bind"},
                 pc = "route" => turns[t].route = "none",
                 pc = "reserve" => turns[t].route # "none",
                 resolver' = [resolver EXCEPT ![w] = [@ EXCEPT !.pc = pc, !.base = campaign.version,
                                                              !.route = turns[t].route,
                                                              !.cleanup = FALSE]]
          PROVE  ResolversMove(w)
      <3>. DEFINE state == [resolver[w] EXCEPT !.pc = pc, !.base = campaign.version,
                                               !.route = turns[t].route, !.cleanup = FALSE]
      <3>1. resolver[w] \in ResolverState /\ resolver' = [resolver EXCEPT ![w] = state]
        BY <1>1, <2>2 DEF Typed, ResolversTyped
      <3>2. state.pc = pc /\ state.turn = t
        BY <3>1 DEF ResolverState
      <3>. HIDE DEF state
      <3>3. turns'[state.turn] = turns[t]
        BY <1>1, <3>2
      <3>. QED BY <1>1, <2>2, <3>1, <3>2, <3>3, MovedResolver
    <2>. QED BY <2>1, <2>2 DEF LoadWork, FirstStep
  <1>. QED BY <1>1, <1>2, SameTurnsSpend, SameTellers, QuietSpend DEF ResolversMove, FewerCallers
LEMMA ChooseRouteSpends ==
  ASSUME SpendInv, NEW w \in Resolvers, ChooseRoute(w) PROVE SpendStep
  <1>. DEFINE t == resolver[w].turn
  <1>1. /\ Typed /\ t \in Requests /\ resolver[w].pc = "route" /\ Routed(w) /\ RowSpent(t)
        /\ UNCHANGED <<narrator, physical>>
    BY ResolverTurn DEF SpendInv, FenceInv, RowInv, ChooseRoute, Typed
  <1>2. CASE Rest(w) /\ UNCHANGED turns
    <2>1. ResolversMove(w)
      BY <1>1, <1>2, LeftSpends
    <2>2. SameRowsSpend /\ FewerTellers
      BY <1>1, <1>2, SameTurnsSpend, SameTellers
    <2>. QED BY <1>1, <2>1, <2>2, QuietSpend DEF ResolversMove, FewerCallers
  <1>3. ASSUME NEW route \in {"narrative", "mechanical"}, HoldsTurn(t, resolver[w].epoch),
               turns' = [turns EXCEPT ![t].route = route],
               resolver' = [resolver EXCEPT ![w] = [@ EXCEPT !.pc = FirstStep(t, route),
                                                             !.route = route]]
        PROVE  SpendStep
    <2>1. /\ turns[t].route = "none" /\ turns[t].epoch = resolver[w].epoch
          /\ turns[t].status = "resolving"
      BY <1>1, <1>3 DEF HoldsTurn, OwnsTurn, Routed, Unresolved
    <2>2. turns[t] \in TurnRow /\ turns'[t] = [turns[t] EXCEPT !.route = route]
          /\ \A r \in Requests \ {t} : turns'[r] = turns[r]
      BY <1>1, <1>3 DEF Typed, TurnsTyped
    <2>3. turns'[t].route = route /\ turns'[t].calls = turns[t].calls
          /\ turns'[t].status = turns[t].status
      BY <2>2 DEF TurnRow
    <2>. DEFINE state == [resolver[w] EXCEPT !.pc = FirstStep(t, route), !.route = route]
    <2>4. resolver[w] \in ResolverState /\ resolver' = [resolver EXCEPT ![w] = state]
      BY <1>1, <1>3 DEF Typed, ResolversTyped
    <2>5. state.pc \in {"reserve", "bind"} /\ state.turn = t
      BY <2>4 DEF ResolverState, FirstStep
    <2>. HIDE DEF state
    <2>6. ResolversMove(w)
      BY <1>1, <1>3, <2>3, <2>4, <2>5, MovedResolver
    <2>7. resolver'[w].pc # "route"
      BY <1>1, <2>4, <2>5 DEF Typed, ResolversTyped
    <2>8. SameRowsSpend
      <3>1. RowMoves(t)
        BY <1>1, <1>3, <2>1, <2>3, <2>7 DEF RowMoves
      <3>2. ASSUME NEW r \in Requests \ {t} PROVE RowMoves(r)
        BY <2>2 DEF RowMoves
      <3>. QED BY <3>1, <3>2 DEF SameRowsSpend
    <2>. QED BY <1>1, <2>6, <2>8, SameTellers, QuietSpend DEF ResolversMove, FewerCallers
  <1>. QED BY <1>2, <1>3 DEF ChooseRoute

\* A reserved call: the row pays for it before the worker sends it.
LEMMA PaidForRow ==
  ASSUME Typed, NEW t \in Requests, turns' = [turns EXCEPT ![t].calls = @ + 1], CallAllowed(t),
         turns[t].route # "none"
  PROVE  Reserves(t) /\ (\A r \in Requests \ {t} : RowMoves(r))
  <1>1. turns[t] \in TurnRow /\ turns'[t] = [turns[t] EXCEPT !.calls = turns[t].calls + 1]
        /\ \A r \in Requests \ {t} : turns'[r] = turns[r]
    BY DEF Typed, TurnsTyped
  <1>2. /\ turns'[t].calls = turns[t].calls + 1 /\ turns'[t].route = turns[t].route
        /\ turns'[t].status = turns[t].status
    BY <1>1 DEF TurnRow
  <1>3. Reserves(t)
    BY <1>2 DEF Reserves, CallAllowed
  <1>4. \A r \in Requests \ {t} : RowMoves(r)
    BY <1>1 DEF RowMoves
  <1>. QED BY <1>3, <1>4

LEMMA ReserveSpends ==
  ASSUME SpendInv, NEW w \in Resolvers, ReserveCall(w) \/ RefuseBoundary(w) PROVE SpendStep
  <1>1. PICK t \in Requests : t = resolver[w].turn
    BY ResolverTurn DEF SpendInv, FenceInv, RowInv, ReserveCall, RefuseBoundary, Typed
  <1>2. /\ Typed /\ resolver[w].pc = "reserve" /\ turns[t].route # "none"
        /\ UNCHANGED <<narrator, physical>>
    BY <1>1 DEF SpendInv, FenceInv, RowInv, ReserveCall, RefuseBoundary, Routed
  <1>3. CASE (GoTo(w, "fail") \/ GoTo(w, "finalize")) /\ UNCHANGED turns
    BY <1>2, <1>3, LeftSpends, SameTurnsSpend, SameTellers, QuietSpend
       DEF ResolversMove, FewerCallers
  <1>4. CASE CallAllowed(t) /\ turns' = [turns EXCEPT ![t].calls = @ + 1] /\ GoTo(w, "call")
    <2>. DEFINE state == [resolver[w] EXCEPT !.pc = "call"]
    <2>1. resolver[w] \in ResolverState /\ resolver' = [resolver EXCEPT ![w] = state]
      BY <1>2, <1>4 DEF GoTo, Typed, ResolversTyped
    <2>2. state.pc = "call" /\ state.turn = t
      BY <1>1, <2>1 DEF ResolverState
    <2>. HIDE DEF state
    <2>3. /\ ResolversRouted
          /\ \A r \in Requests : Callers(r)' \subseteq
                IF r = t THEN Callers(r) \cup {w} ELSE Callers(r)
      <3>1. /\ state.turn \in Requests /\ state.pc # "route"
            /\ resolver[w].pc \in {"reserve", "call"} /\ state.turn = resolver[w].turn
        BY <1>1, <1>2, <2>2
      <3>. QED BY <1>2, <2>1, <2>2, <3>1, MovedResolver
    <2>4. Reserves(t) /\ (\A r \in Requests \ {t} : RowMoves(r))
      BY <1>2, <1>4, PaidForRow
    <2>5. FewerTellers
      BY <1>2, SameTellers
    <2>6. ReservesCall(t)
      BY <1>2, <2>3, <2>4, <2>5 DEF ReservesCall
    <2>. QED BY <2>3, <2>6 DEF SpendStep
  <1>. QED BY <1>1, <1>3, <1>4 DEF ReserveCall, RefuseBoundary

LEMMA CallSpends ==
  ASSUME SpendInv, NEW w \in Resolvers, CallModel(w) PROVE SpendStep
  <1>1. PICK t \in Requests : t = resolver[w].turn
    BY ResolverTurn DEF SpendInv, FenceInv, RowInv, CallModel, Typed
  <1>2. /\ Typed /\ resolver[w].pc = "call" /\ UNCHANGED <<turns, narrator>>
        /\ physical' = [physical EXCEPT ![t] = @ + 1]
    BY <1>1 DEF SpendInv, FenceInv, RowInv, CallModel
  <1>3. ResolversMove(w)
    <2>1. CASE Reconsider(w)
      <3>. DEFINE state == [resolver[w] EXCEPT !.pc = "reserve", !.again = TRUE]
      <3>1. resolver[w] \in ResolverState /\ resolver' = [resolver EXCEPT ![w] = state]
        BY <1>2, <2>1 DEF Reconsider, Typed, ResolversTyped
      <3>2. state.pc = "reserve" /\ state.turn = t
        BY <1>1, <3>1 DEF ResolverState
      <3>. HIDE DEF state
      <3>. QED BY <1>1, <1>2, <3>1, <3>2, MovedResolver
    <2>2. ASSUME NEW pc \in {"fail", "finalize", "preview", "commit", "commitNarrative", "promote"},
                 GoTo(w, pc)
          PROVE  ResolversMove(w)
      BY <1>2, <2>2, LeftSpends
    <2>. QED BY <2>1, <2>2 DEF CallModel
  <1>4. w \in Callers(t) /\ w \notin Callers(t)'
    BY <1>1, <1>2, <1>3 DEF Callers, ResolversMove
  <1>5. SendsCall(t)
    BY <1>2, <1>3, <1>4, SameTurnsSpend, SameTellers
       DEF SendsCall, SameRowsSpend, ResolversMove, FewerCallers
  <1>. QED BY <1>3, <1>5 DEF SpendStep, ResolversMove

\* Steps of a busy worker that neither ask nor reserve, and rewrite at most its row.
LEMMA LeavesSpends ==
  ASSUME Typed, NEW w \in Resolvers, resolver[w].pc # "idle",
         NEW pc, pc \notin {"reserve", "call", "route"}, GoTo(w, pc) \/ Rest(w),
         SameRowsSpend, UNCHANGED <<narrator, physical>>
  PROVE  SpendStep
  BY LeftSpends, SameTellers, QuietSpend DEF ResolversMove, FewerCallers

LEMMA BindSpends ==
  ASSUME SpendInv, NEW w \in Resolvers, BindAction(w) PROVE SpendStep
  <1>1. PICK pc \in {"fail", "finalize", "preview", "commit"} :
          /\ resolver[w].pc = "bind" /\ GoTo(w, pc) /\ UNCHANGED <<turns, narrator, physical>>
    BY DEF BindAction
  <1>. QED BY <1>1, LeavesSpends, SameTurnsSpend DEF SpendInv, FenceInv, RowInv

LEMMA PromoteSpends ==
  ASSUME SpendInv, NEW w \in Resolvers, Promote(w) PROVE SpendStep
  <1>. DEFINE t == resolver[w].turn
  <1>1. /\ Typed /\ t \in Requests /\ resolver[w].pc = "promote" /\ turns[t] \in TurnRow
        /\ UNCHANGED <<narrator, physical>>
    BY ResolverTurn DEF SpendInv, FenceInv, RowInv, Promote, Typed, TurnsTyped
  <1>2. CASE Rest(w) /\ UNCHANGED turns
    BY <1>1, <1>2, LeavesSpends, SameTurnsSpend
  <1>3. ASSUME HoldsTurn(t, resolver[w].epoch), turns[t].route = "narrative",
               turns' = [turns EXCEPT ![t].route = "mechanical"],
               NEW pc \in {"commit", "finalize", "fail"}, GoTo(w, pc)
        PROVE  SpendStep
    <2>. DEFINE row == [turns[t] EXCEPT !.route = "mechanical"]
    <2>1. turns' = [turns EXCEPT ![t] = row]
      BY <1>1, <1>3 DEF Typed, TurnsTyped
    <2>2. row.route = "mechanical" /\ row.calls = turns[t].calls /\ row.status = "resolving"
      BY <1>1, <1>3 DEF TurnRow, HoldsTurn, OwnsTurn
    <2>. HIDE DEF row
    <2>3. SameRowsSpend
      BY <1>1, <1>3, <2>1, <2>2, RewrittenRow
    <2>. QED BY <1>1, <1>3, <2>3, LeavesSpends
  <1>. QED BY <1>2, <1>3 DEF Promote

LEMMA FinalizeSpends ==
  ASSUME SpendInv, NEW w \in Resolvers, FinalizeNotApplied(w) \/ PreviewRisk(w) PROVE SpendStep
  <1>. DEFINE t == resolver[w].turn
  <1>1. /\ Typed /\ t \in Requests /\ resolver[w].pc \in {"finalize", "preview"}
        /\ turns[t] \in TurnRow /\ UNCHANGED <<narrator, physical>>
    BY ResolverTurn DEF SpendInv, FenceInv, RowInv, FinalizeNotApplied, PreviewRisk, Typed,
                        TurnsTyped
  <1>2. ASSUME NEW proposal, WriteNotApplied(t, proposal) PROVE SameRowsSpend
    <2>. DEFINE row == [turns[t] EXCEPT !.status = "not_applied", !.lease = "none",
                                        !.proposal = proposal]
    <2>1. turns' = [turns EXCEPT ![t] = row]
      BY <1>1, <1>2 DEF WriteNotApplied, Typed, TurnsTyped
    <2>2. row.route = turns[t].route /\ row.calls = turns[t].calls /\ row.status = "not_applied"
      BY <1>1 DEF TurnRow
    <2>. HIDE DEF row
    <2>. QED BY <1>1, <2>1, <2>2, RewrittenRow
  <1>3. SameRowsSpend
    BY <1>2, SameTurnsSpend DEF FinalizeNotApplied, PreviewRisk
  <1>4. PICK pc \in {"fail", "finalize"} : GoTo(w, pc) \/ Rest(w)
    BY DEF FinalizeNotApplied, PreviewRisk
  <1>. QED BY <1>1, <1>3, <1>4, LeavesSpends
LEMMA CommitSpends ==
  ASSUME SpendInv, NEW w \in Resolvers, CommitResolution(w) PROVE SpendStep
  <1>. DEFINE t == resolver[w].turn
  <1>1. /\ Typed /\ t \in Requests /\ resolver[w].pc = "commit"
        /\ turns[t] \in TurnRow /\ UNCHANGED <<narrator, physical>>
    BY ResolverTurn DEF SpendInv, FenceInv, RowInv, CommitResolution, Typed, TurnsTyped
  <1>2. ASSUME NEW version,
               turns' = [turns EXCEPT ![t] = [@ EXCEPT !.status = "committed",
                                                       !.route = "mechanical",
                                                       !.committed = version]]
        PROVE  SameRowsSpend
    <2>. DEFINE row == [turns[t] EXCEPT !.status = "committed", !.route = "mechanical",
                                        !.committed = version]
    <2>1. turns' = [turns EXCEPT ![t] = row]
      BY <1>1, <1>2 DEF Typed, TurnsTyped
    <2>2. row.route = "mechanical" /\ row.calls = turns[t].calls /\ row.status = "committed"
      BY <1>1 DEF TurnRow
    <2>. HIDE DEF row
    <2>. QED BY <1>1, <2>1, <2>2, RewrittenRow
  <1>3. SameRowsSpend
    BY <1>2, SameTurnsSpend DEF CommitResolution
  <1>4. PICK pc \in {"fail", "finalize"} : GoTo(w, pc) \/ Rest(w)
    BY DEF CommitResolution, CommitRefused
  <1>. QED BY <1>1, <1>3, <1>4, LeavesSpends

LEMMA NarrativeSpends ==
  ASSUME SpendInv, NEW w \in Resolvers, CommitNarrative(w) PROVE SpendStep
  <1>. DEFINE t == resolver[w].turn
  <1>1. /\ Typed /\ t \in Requests /\ resolver[w].pc = "commitNarrative"
        /\ turns[t] \in TurnRow /\ UNCHANGED <<narrator, physical>>
    BY ResolverTurn DEF SpendInv, FenceInv, RowInv, CommitNarrative, Typed, TurnsTyped
  <1>2. ASSUME turns[t].route = "narrative",
               turns' = [turns EXCEPT ![t] = [@ EXCEPT !.status = "committed",
                                                       !.committed = campaign.version,
                                                       !.lease = "none"]]
        PROVE  SameRowsSpend
    <2>. DEFINE row == [turns[t] EXCEPT !.status = "committed", !.committed = campaign.version,
                                        !.lease = "none"]
    <2>1. turns' = [turns EXCEPT ![t] = row]
      BY <1>1, <1>2 DEF Typed, TurnsTyped
    <2>2. row.route = "narrative" /\ row.calls = turns[t].calls /\ row.status = "committed"
      BY <1>1, <1>2 DEF TurnRow
    <2>. HIDE DEF row
    <2>. QED BY <1>1, <1>2, <2>1, <2>2, RewrittenRow
  <1>3. SameRowsSpend
    BY <1>2, SameTurnsSpend DEF CommitNarrative, MayCommit
  <1>4. PICK pc \in {"fail", "finalize"} : GoTo(w, pc) \/ Rest(w)
    BY DEF CommitNarrative, CommitRefused
  <1>. QED BY <1>1, <1>3, <1>4, LeavesSpends

LEMMA FailureSpends ==
  ASSUME SpendInv, NEW w \in Resolvers, RecordFailure(w) PROVE SpendStep
  <1>. DEFINE t == resolver[w].turn
  <1>1. /\ Typed /\ t \in Requests /\ resolver[w].pc = "fail"
        /\ turns[t] \in TurnRow /\ UNCHANGED <<narrator, physical>>
    BY ResolverTurn DEF SpendInv, FenceInv, RowInv, RecordFailure, Typed, TurnsTyped
  <1>2. ASSUME NEW status \in {"pending", "failed"},
               turns' = [turns EXCEPT ![t] = [@ EXCEPT !.status = status, !.lease = "none"]]
        PROVE  SameRowsSpend
    <2>. DEFINE row == [turns[t] EXCEPT !.status = status, !.lease = "none"]
    <2>1. turns' = [turns EXCEPT ![t] = row]
      BY <1>1, <1>2 DEF Typed, TurnsTyped
    <2>2. row.route = turns[t].route /\ row.calls = turns[t].calls /\ row.status = status
      BY <1>1 DEF TurnRow
    <2>. HIDE DEF row
    <2>. QED BY <1>1, <1>2, <2>1, <2>2, RewrittenRow
  <1>3. SameRowsSpend
    BY <1>2, SameTurnsSpend DEF RecordFailure, Requeue
  <1>4. Rest(w) \/ GoTo(w, "terminal")
    BY DEF RecordFailure
  <1>. QED BY <1>1, <1>3, <1>4, LeavesSpends

LEMMA TerminalSpends ==
  ASSUME SpendInv, NEW w \in Resolvers, AcquireTerminal(w) \/ SaveTerminal(w) PROVE SpendStep
  <1>1. /\ Typed /\ resolver[w].pc \in {"terminal", "fallback"}
        /\ UNCHANGED <<turns, narrator, physical>>
    BY DEF SpendInv, FenceInv, RowInv, AcquireTerminal, SaveTerminal
  <1>2. ASSUME NEW e, resolver' = [resolver EXCEPT ![w] = [@ EXCEPT !.pc = "fallback", !.epoch = e]]
        PROVE  SpendStep
    <2>. DEFINE state == [resolver[w] EXCEPT !.pc = "fallback", !.epoch = e]
    <2>1. resolver[w] \in ResolverState /\ resolver' = [resolver EXCEPT ![w] = state]
      BY <1>1, <1>2 DEF Typed, ResolversTyped
    <2>2. state.pc = "fallback"
      BY <2>1 DEF ResolverState
    <2>. HIDE DEF state
    <2>3. ResolversMove(w)
      BY <1>1, <2>1, <2>2, MovedResolver
    <2>. QED BY <1>1, <2>3, SameTurnsSpend, SameTellers, QuietSpend
         DEF ResolversMove, FewerCallers
  <1>3. CASE Rest(w)
    BY <1>1, <1>3, SameTurnsSpend, LeavesSpends
  <1>. QED BY <1>2, <1>3 DEF AcquireTerminal, SaveTerminal

LEMMA ResolverSpends ==
  ASSUME SpendInv, NEW w \in Resolvers, ResolverStep(w) PROVE SpendStep
  BY AcquireSpends, LoadSpends, ChooseRouteSpends, ReserveSpends, CallSpends, BindSpends,
     PromoteSpends, FinalizeSpends, CommitSpends, NarrativeSpends, FailureSpends, TerminalSpends
     DEF ResolverStep

\* What a narrator's step does to the narrators when it reserves nothing.
LEMMA MovedNarrator ==
  ASSUME Typed, NEW n \in Narrators, NEW state, narrator' = [narrator EXCEPT ![n] = state]
  PROVE  /\ state.pc # "call" => \A r \in Requests : Tellers(r)' \subseteq Tellers(r) \ {n}
         /\ \A r \in Requests : Tellers(r)' \subseteq
               IF r = state.turn THEN Tellers(r) \cup {n} ELSE Tellers(r)
  <1>1. /\ narrator'[n] = state
        /\ \A m \in Narrators \ {n} : narrator'[m] = narrator[m]
    BY DEF Typed, NarratorsTyped
  <1>. QED BY <1>1 DEF Tellers

LEMMA NLeft ==
  ASSUME Typed, NEW n \in Narrators, NEW pc, pc # "call", NGoTo(n, pc) \/ NRest(n)
  PROVE  \A r \in Requests : Tellers(r)' \subseteq Tellers(r) \ {n}
  <1>1. CASE NGoTo(n, pc)
    <2>. DEFINE state == [narrator[n] EXCEPT !.pc = pc]
    <2>1. state.pc = pc /\ narrator' = [narrator EXCEPT ![n] = state]
      BY <1>1 DEF NGoTo, Typed, NarratorsTyped, NarratorState
    <2>. HIDE DEF state
    <2>. QED BY <2>1, MovedNarrator
  <1>2. CASE NRest(n)
    <2>1. IdleNarrator.pc = "idle"
      BY DEF IdleNarrator
    <2>. QED BY <1>2, <2>1, MovedNarrator DEF NRest
  <1>. QED BY <1>1, <1>2

LEMMA NQuietSpends ==
  ASSUME Typed, NEW n \in Narrators, NEW pc, pc # "call", NGoTo(n, pc) \/ NRest(n),
         UNCHANGED <<turns, resolver, physical>>
  PROVE  SpendStep
  <1>1. FewerTellers
    BY NLeft DEF FewerTellers
  <1>. QED BY <1>1, SameTurnsSpend, SameWorkersSpend, QuietSpend

LEMMA NReserveSpends ==
  ASSUME SpendInv, NEW n \in Narrators, ReserveNarration(n) PROVE SpendStep
  <1>1. PICK t \in Requests : t = narrator[n].turn
    BY NarratorTurn DEF SpendInv, FenceInv, RowInv, ReserveNarration, Typed
  <1>2. /\ Typed /\ turns[t].route # "none" /\ UNCHANGED <<resolver, physical>>
    BY <1>1 DEF SpendInv, FenceInv, RowInv, OfferInv, Informed, ReserveNarration, RowSpent
  <1>3. CASE (NRest(n) \/ NGoTo(n, "fail")) /\ UNCHANGED turns
    BY <1>2, <1>3, NQuietSpends
  <1>4. CASE CallAllowed(t) /\ turns' = [turns EXCEPT ![t].calls = @ + 1] /\ NGoTo(n, "call")
    <2>. DEFINE state == [narrator[n] EXCEPT !.pc = "call"]
    <2>1. narrator[n] \in NarratorState /\ narrator' = [narrator EXCEPT ![n] = state]
      BY <1>2, <1>4 DEF NGoTo, Typed, NarratorsTyped
    <2>2. state.turn = t
      BY <1>1, <2>1 DEF NarratorState
    <2>. HIDE DEF state
    <2>3. \A r \in Requests : Tellers(r)' \subseteq
             IF r = t THEN Tellers(r) \cup {n} ELSE Tellers(r)
      BY <1>2, <2>1, <2>2, MovedNarrator
    <2>4. Reserves(t) /\ (\A r \in Requests \ {t} : RowMoves(r))
      BY <1>2, <1>4, PaidForRow
    <2>5. ResolversRouted /\ FewerCallers
      BY <1>2, <2>4, SameWorkersSpend
    <2>6. ReservesCall(t)
      BY <1>2, <2>3, <2>4, <2>5 DEF ReservesCall
    <2>. QED BY <2>5, <2>6 DEF SpendStep
  <1>. QED BY <1>1, <1>3, <1>4 DEF ReserveNarration

LEMMA NCallSpends ==
  ASSUME SpendInv, NEW n \in Narrators, CallNarrator(n) PROVE SpendStep
  <1>1. PICK t \in Requests : t = narrator[n].turn
    BY NarratorTurn DEF SpendInv, FenceInv, RowInv, CallNarrator, Typed
  <1>2. /\ Typed /\ narrator[n].pc = "call" /\ UNCHANGED <<turns, resolver>>
        /\ physical' = [physical EXCEPT ![t] = @ + 1]
    BY <1>1 DEF SpendInv, FenceInv, RowInv, CallNarrator
  <1>3. \A r \in Requests : Tellers(r)' \subseteq Tellers(r) \ {n}
    BY <1>2, NLeft DEF CallNarrator
  <1>4. n \in Tellers(t) /\ n \notin Tellers(t)' /\ FewerTellers
    BY <1>1, <1>2, <1>3 DEF Tellers, FewerTellers
  <1>5. SameRowsSpend /\ ResolversRouted /\ FewerCallers
    BY <1>2, SameTurnsSpend, SameWorkersSpend
  <1>6. SendsCall(t)
    BY <1>2, <1>4, <1>5 DEF SendsCall, SameRowsSpend
  <1>. QED BY <1>5, <1>6 DEF SpendStep

LEMMA NarratorSpends ==
  ASSUME SpendInv, NEW n \in Narrators, NarratorStep(n) PROVE SpendStep
  <1>0. Typed
    BY DEF SpendInv, FenceInv, RowInv
  <1>1. ASSUME NEW t \in Requests, AcquireNarration(n, t) PROVE SpendStep
    <2>. DEFINE state == [pc |-> "load", turn |-> t, epoch |-> narrations[t].epoch + 1,
                          cleanup |-> Exhausted(narrations[t])]
    <2>2. state.pc = "load" /\ narrator' = [narrator EXCEPT ![n] = state]
      BY <1>1 DEF AcquireNarration
    <2>. HIDE DEF state
    <2>1. FewerTellers
      BY <1>0, <2>2, MovedNarrator DEF FewerTellers
    <2>. QED BY <1>0, <1>1, <2>1, SameTurnsSpend, SameWorkersSpend, QuietSpend
         DEF AcquireNarration
  <1>2. CASE LoadNarration(n)
    BY <1>0, <1>2, NQuietSpends DEF LoadNarration
  <1>3. CASE SaveNarration(n)
    BY <1>0, <1>3, NQuietSpends DEF SaveNarration
  <1>4. CASE FailNarration(n) \/ SaveFallback(n)
    BY <1>0, <1>4, NQuietSpends DEF FailNarration, SaveFallback
  <1>. QED BY <1>1, <1>2, <1>3, <1>4, NReserveSpends, NCallSpends DEF NarratorStep

LEMMA TimeSpends ==
  ASSUME SpendInv, NEW t \in Requests, TimeStep(t) PROVE SpendStep
  <1>1. /\ Typed /\ turns[t] \in TurnRow /\ UNCHANGED <<resolver, narrator, physical>>
    BY DEF SpendInv, FenceInv, RowInv, Typed, TurnsTyped, TimeStep, LapseTurn, LapseNarration,
           PassTurnDeadline, PassNarrationDeadline
  <1>2. ASSUME NEW a, Unresolved(t),
               \/ turns' = [turns EXCEPT ![t].lease = a]
               \/ turns' = [turns EXCEPT ![t].deadline = a]
        PROVE  SameRowsSpend
    <2>1. PICK row \in {[turns[t] EXCEPT !.lease = a], [turns[t] EXCEPT !.deadline = a]} :
             turns' = [turns EXCEPT ![t] = row]
      BY <1>1, <1>2 DEF Typed, TurnsTyped
    <2>2. row.route = turns[t].route /\ row.calls = turns[t].calls
          /\ row.status = turns[t].status
      BY <1>1, <2>1 DEF TurnRow
    <2>. QED BY <1>1, <1>2, <2>1, <2>2, RewrittenRow DEF Unresolved
  <1>3. SameRowsSpend
    BY <1>2, SameTurnsSpend DEF TimeStep, LapseTurn, LapseNarration, PassTurnDeadline,
                                PassNarrationDeadline, Unresolved
  <1>. QED BY <1>1, <1>3, SameWorkersSpend, SameTellers, QuietSpend

LEMMA EnvironmentSpends ==
  ASSUME SpendInv, Environment PROVE SpendStep
  <1>0. Typed /\ UNCHANGED <<turns, physical>>
    BY DEF SpendInv, FenceInv, RowInv, Environment, CrashResolver, CrashNarrator, BlockStory,
           UnblockStory, RevokeActor
  <1>1. ASSUME NEW w \in Resolvers, CrashResolver(w) PROVE SpendStep
    BY <1>0, <1>1, SameTurnsSpend, LeavesSpends DEF CrashResolver
  <1>2. ASSUME NEW n \in Narrators, CrashNarrator(n) PROVE SpendStep
    BY <1>0, <1>2, NQuietSpends DEF CrashNarrator
  <1>3. CASE UNCHANGED <<resolver, narrator>>
    BY <1>0, <1>3, SameTurnsSpend, SameWorkersSpend, SameTellers, QuietSpend
  <1>. QED BY <1>1, <1>2, <1>3 DEF Environment, BlockStory, UnblockStory, RevokeActor

LEMMA NextSpends ==
  ASSUME SpendInv, [Next]_vars PROVE SpendStep
  <1>1. CASE UNCHANGED vars
    BY <1>1, SameTurnsSpend, SameWorkersSpend, SameTellers, QuietSpend
       DEF vars, SpendInv, FenceInv, RowInv
  <1>. QED BY <1>1, AcceptSpends, ResolverSpends, NarratorSpends, TimeSpends, EnvironmentSpends
       DEF Next, Quiescent

LEMMA SpendNext ==
  ASSUME SpendInv, [Next]_vars PROVE SpendInv'
  <1>1. /\ SpendStep /\ FenceInv /\ Typed /\ RowInv' /\ Typed' /\ RowStep /\ RowsStay
        /\ EpochStep
    BY NextSpends, RowInvNext, RowsStayStep, NextEpochs DEF SpendInv, FenceInv, RowInv
  <1>2. FenceInv' /\ OfferInv'
    BY FenceNext, OfferNext DEF SpendInv
  <1>3. \A r \in Requests : RowMoves(r) \/ Reserves(r)
    BY <1>1 DEF SpendStep, SpendsNothing, ReservesCall, SendsCall
  <1>4. \A r \in Requests : RowSpent(r)' /\ RowPaid(r)'
    BY <1>1, <1>3, SpentKept, PaidStep DEF SpendInv
  <1>5. \A w \in Resolvers : Routed(w)'
    BY <1>1, RoutedStep
  <1>. QED BY <1>2, <1>4, <1>5 DEF SpendInv

\* Also with workers that were fenced off and still wait for an answer: every call
\* sent was reserved, and a turn never reserves more than its budget, nor a turn that
\* stays narrative more than one.
THEOREM CallsWithinBudgetCorrect == Spec => []CallsWithinBudget
  <1>1. SpendInv => CallsWithinBudget
    <2>. SUFFICES ASSUME SpendInv, NEW t \in Requests
                  PROVE  /\ physical[t] <= turns[t].calls
                         /\ turns[t].calls <= Budget
                         /\ turns[t].route = "narrative" => turns[t].calls <= 1
      BY DEF CallsWithinBudget
    <2>1. /\ RowSpent(t) /\ RowPaid(t)
          /\ physical[t] \in Nat /\ turns[t].calls \in Nat
      BY DEF SpendInv, FenceInv, RowInv, Typed, CountsTyped, TurnsTyped, TurnRow
    <2>2. Cardinality(Callers(t)) \in Nat /\ Cardinality(Tellers(t)) \in Nat
      BY <2>1, FS_CardinalityType DEF RowPaid
    <2>3. physical[t] <= turns[t].calls
      BY <2>1, <2>2 DEF RowPaid
    <2>. QED BY <2>1, <2>3 DEF RowSpent
  <1>. QED BY <1>1, SpendInit, SpendNext, PTL DEF Spec
==============================================================================
