# Verification of the AI RPG server

TLA+ models of the parts of `ai_rpg` where several processes share rows of one
PostgreSQL database, model-checked with TLC on small instances, with the main
safety results proved for every instance with TLAPS.

## 1. The system

`ai_rpg` is a text role-playing server.  An API process accepts a player's
turn; worker processes poll the database, ask a language model, resolve the
turn with a deterministic rule engine, and narrate it.  A second kind of worker
drafts stories for authors.  All coordination goes through the database: row
locks, advisory locks, leases with an epoch, and version columns.

| Component | State it keeps | Operations | What makes it correct |
|---|---|---|---|
| Turn acceptance (`repositories.py` `accept_pending`) | `turns`, `turn_choices`, `mvp_action_proposals` | accept free text, a choice, a registered action, a confirmation; replay | one open turn per campaign; only current choices and proposals accepted |
| Resolution worker (`workers.py` `SkillCheckResolutionWorker`) | lease and route columns of `turns`; local snapshot | lease, load, route, reserve, call, preview, promote, commit, refuse, fail | one owner at a time, result applied once and on the state it was computed for |
| Narration worker (`workers.py` `NarrationWorker`) | narration columns of `turns` | lease, load, reserve, call, save, fail, fallback | told exactly once, never alters the outcome |
| Leases and call budget (`acquire_lease`, `reserve`, `record_failure`) | epochs, leases, attempts, deadlines, `llm_call_count` | claim, take over, clean up, reserve, retry | every provider request reserved, budget kept, every turn eventually closed |
| Event log (`events`) | sequence, version, type | append, replay over SSE | what is told is what happened, once and in order |
| Moderation (`community.py` `moderate`) | `stories.lifecycle` | stop, lift | a stop holds at every later transaction |
| AI authoring jobs (`story_jobs.py`) | `authoring_jobs`, attempts, proposals | enqueue, claim, reserve, succeed, fail, cancel, outline, apply | one provider request per job, limits kept, results of lost leases dropped |
| Story drafts and publishing (`stories.py`) | draft, revisions, reports, versions, request ledger | save, restore, validate, playtest, publish, prune | optimistic revisions, published = validated = played, pruning keeps what is referenced |
| Story validation (`application/stories.py` `compile_draft`, `_explore`) | none (a search in memory) | check, explore, report | reports a dead end exactly when there is one |
| Usage quotas (`community.py` `reserve_usage`) | `usage_reservations` | reserve, pause | daily limits over all processes, nothing paid for and not done |
| Scenario progress, combat, rules (`scenarios.py`, `combat.py`, `engine/`) | run, flags, scenes, HP, facts | bind, apply effects, react | one active scene, endings earned by their flags, worker and commit agree |
| Resolution projection (`resolution.py`) | none (pure) | results to mutations and events | mutations equal what the results say, version +1 only for a change |
| Adventure start (`adventures.py`, `scenario_source.py`) | start requests, campaign, run, playtest record | look up, create, replay | one campaign per request, of the version that was on offer |
| Event stream, sessions, identities (`event_stream.py`, `auth.py`, ...) | cursors, sessions | replay, login, refresh | no event skipped, sessions expire |
| LLM adapters, HTTP layer, configuration, client | none shared | — | not modelled: see section 8 |

Interaction: the API and the workers meet only in the rows of `turns`, under
the Campaign row lock (`SELECT ... FOR UPDATE`, taken first by every
transaction that changes canonical state).  Workers do not talk to one
another; a worker that stalls loses its lease to a claim that raises
`worker_epoch`.  No transaction is held over a model call, so everything read
before one is stale when it is used.

## 2. Modules

| Module | What it is |
|---|---|
| `TurnContract` | abstract: what a campaign promises its player about turns |
| `TurnLifecycle` | the turn engine: acceptance, both workers, leases, moderation |
| `MCTurnLifecycle` | its small instances for TLC |
| `TurnLifecycleProofs` | types; one open turn, finality of outcomes, stops, the event log, offers, refinement of `TurnContract`; lease fencing, expected versions, proposals applied once, call budget |
| `JobContract` | abstract: what the authoring queue promises an author |
| `AuthoringJobs` | the queue of AI jobs: API, workers, leases, outlines, adoption |
| `MCAuthoringJobs` | its small instances for TLC |
| `AuthoringJobsProofs` | types, one request per job, limits, refinement of `JobContract`, outlines and adoption, attempts agree with their job, usage is recorded |
| `StoryContract` | abstract: what the public may rely on about a release |
| `StoryPublishing` | drafts, reports, versions, playtests, publication, stops, pruning |
| `MCStoryPublishing` | its small instance for TLC |
| `StoryPublishingProofs` | all properties of `StoryPublishing` |
| `StoryGraph` | an authored story as a graph: well-formed definitions, moves, endings (no state) |
| `StoryGraphProofs` | what its recursive functions compute: `Without`, and `Explored` as the least closed set of positions |
| `StoryValidation` | the validator: its search within a budget and its verdict |
| `MCStoryValidation` | several hundred definitions for TLC |
| `StoryValidationProofs` | the verdict and the budget are exact; a story that passes has no certain dead end |
| `ScenarioPlay` | the play of a story: plan, dice, progress, reaction, commit |
| `MCScenarioPlay` | eight stories for TLC |
| `ScenarioPlayProofs` | all safety properties of `ScenarioPlay` |
| `UsageQuota` | the ledger of daily limits and the locks of everyone who uses it |
| `MCUsageQuota` | its small instance for TLC |
| `UsageQuotaProofs` | limits, pause, no reservation without its effect, no circle of waiting |
| `AdventureStart` | starts against releases, settings, moderation and import |
| `MCAdventureStart` | its small instance for TLC |
| `AdventureStartProofs` | all properties of `AdventureStart` |

`StoryValidation` and `ScenarioPlay` share `StoryGraph`, and `PlayIsExplored`
says that a story without fights and free actions is played within the graph
the validator explored.  `PassedIsSound` (proved) says that a story whose search
finished without an error is `Sound`, and `Sound` is all that `PlaysGoOn` takes
of the validator.  The other
families share little state and are not composed; what one does to the rows of
another is an action in each.  A story is stopped by `BlockStory`, `StopStory`,
`Moderate` and the `"block"` items of `UsageQuota`; a draft is saved by
`SaveDraft` and `Save`; a playtest ends by `FinishPlaytest`.  A reservation of
`UsageQuota` is a refusal that is always possible in the models of its callers,
and what a turn does to the scenario is one outcome among several in
`TurnLifecycle`.

### TurnLifecycle

One action is one database transaction, or one step of a worker between two
transactions; a worker's program counter (`resolver[w].pc`, `narrator[n].pc`)
is the point of `_run_once` it has reached.

| Code | Model |
|---|---|
| `turns` row: resolution columns / narration columns | `turns[r]` / `narrations[r]`, keyed by request id |
| `campaigns.state_version`, run completed, `stories.lifecycle='blocked'`, membership and control of the actor | `campaign` |
| `events` rows in sequence order | `events`; the events of one commit are one `"resolved"` |
| `accept_pending` | `Accept`; a replayed request id finds its row and changes nothing |
| `acquire_lease` of either phase | `AcquireTurn`, `AcquireNarration`, `AcquireTerminal` (`Exhausted` is `terminal_cleanup`) |
| `snapshot` + `get_resolution_work` | `LoadWork` |
| `record_initial_route`, `promote_to_mechanical` | `ChooseRoute`, `Promote` |
| `reserve`, then the provider request | `ReserveCall`, `CallModel`; `ReserveNarration`, `CallNarrator` |
| second pass of the proposal loop | `Reconsider` |
| registered and confirmed actions | `BindAction` |
| `save_risk_proposal` + `finalize_not_applied` | `PreviewRisk` |
| `finalize_not_applied` | `FinalizeNotApplied` |
| `commit_resolution`, `commit_narrative` | `CommitResolution`, `CommitNarrative` (`CommitRefused`: every exception of the commit and where the worker goes) |
| `record_failure` | `RecordFailure`, `FailNarration` |
| `save_conditionally` | `SaveNarration`, `SaveFallback`, `SaveTerminal` |
| process death, stall, `moderate` | `CrashResolver`, `CrashNarrator`, `LapseTurn`, `LapseNarration`, `BlockStory`, `UnblockStory` |

Abstractions.  One campaign with one player and one actor; what a model
answers, what the dice say and whether a plan binds are nondeterministic.
Wall-clock time is what a statement can read of it: a lease is live or
lapsed, a deadline ahead or passed.  `WorkerPhasePolicy` demands
`deadline_seconds >= lease_seconds`, hence `MayExpire`.  A choice is stored as
free text once accepted.  `*_next_attempt_at` is always the present and is
left out.  The daily quota and a timeout are a refusal that is always possible
in `ReserveCall`.  Candidates are taken in any order, which allows every order
`ORDER BY created_at` yields.

### AuthoringJobs

One action is one transaction of `PostgresStoryJobStore`, or the provider call
between two; `worker[w].pc` is the point of `run_once` a worker has reached.

| Code | Model |
|---|---|
| `authoring_jobs` / `authoring_attempts` / `authoring_proposals` rows | `jobs[j]` / `attempts[j]` / `proposals[j]` |
| `stories.lifecycle` and draft revision | `stories[o]`, one story per author |
| `enqueue` (limit, outline approval) | `Enqueue` |
| `cancel`, `edit_outline` (edit or approval), `apply` | `Cancel`, `EditOutline`, `ApproveOutline`, `Apply` |
| `PostgresStoryStore.save` | `SaveDraft` |
| `claim`: requeue or give up expired jobs, count the running, take one | `Claim` (`Requeued`, `Closed`, `SlotFree`, `Taken`) |
| `_fenced` | `Fenced` |
| prompt preparation and `reserve_call` | `ReserveCall` |
| provider request and validation of its answer | `CallModel` |
| `succeed`; `fail`; `record_usage` in the `finally` | `Succeed`; `Fail`; `RecordUsage` |
| process death, stall, stop of the story | `Crash`, `Lapse`, `StopStory`, `ResumeStory` |

Abstractions.  A replayed request id returns the stored answer.  The quota of
`reserve_usage` is a refusal that is always possible.  A `check` is a `fill`:
they differ in the prompt alone.  Usage is one bit: recorded or not, and not
zero once a provider was called.  The configuration demands
`timeout_seconds < lease_seconds`, hence `MayLapse`: an attended lease runs out
only when its worker stalls.  A commit whose answer is lost sends its worker to
`fail`, as the `except` branch does.  `SKIP LOCKED` means a claim may pass over
any of the expired rows, so `Expirable` is every subset of them.  Queued jobs
are taken in any order.

### StoryPublishing

One action is one transaction of `PostgresStoryStore`; `handler[h].pc` is the
point a call of several transactions has reached.

| Code | Model |
|---|---|
| `stories`, `story_drafts`, `story_draft_revisions`, `story_validation_reports`, `story_versions` rows | `story`, `draft`, `history`, `reports`, `versions` |
| `story_requests` rows of playtest and publish calls | the `request` of the version they made |
| `mvp_scenario_runs` and `story_playtest_records` rows of the author | `runs` |
| `save`, `restore`, adoption of a proposal | `Save`, `Restore` (`_revise` is `Revise`) |
| `validate` | `Begin`, `CachedValidation`, `ReadDraft`, `SaveValidation` |
| `create_playtest_version` | the same, then `ReadDraft` again and `CreatePlaytestVersion` |
| `publish` | `Begin` (`replay`), `ReadDraft`, `CachedValidation`, `SaveValidation`, `Publish` (`UpToDate`, `Played`, `NumberAfterLast`) |
| an exception or the death of the process at any point | `Abandon` |
| `prune_draft_history --apply` | `Prune` |
| start and end of a playtest | `StartPlaytest`, `FinishPlaytest` |
| `settings`, `moderate` | `Settings`, `Moderate` |

Abstractions.  One story of one author.  Contents are compared by what they
are, as the code compares hashes; the validator finds errors in the definitions
that are not `Valid`.  A `current_release_id` and a visibility other than
"private" are all that publication shows.  Warnings, acknowledgements, quotas
and conflicts are refusals (`Abandon`).  A completed playtest has an ending of
its own definition, and its player stays the author.  Which unreferenced
revisions are old enough, and which an authoring job still holds back, is a
choice of `Prune`.  A call for another revision than the present one is not
begun: it would be refused at its first read.

### StoryGraph and StoryValidation

| Code | Model |
|---|---|
| a `ScenarioDefinition` | a record; its fields are listed at the head of `StoryGraph` |
| `ScenarioDefinition.valid_graph` and the validators of its parts | `ValidGraph` |
| effects of `RegisteredAction`, ending overrides | `Effect`, `Effects`, `EndingOf`, `Moves`, `Endings` |
| `compile_draft`: refusals, size limits, errors and warnings | `Refuse`, `Explore`, `Judge` |
| `_explore`, forwards: queue, seen, reverse edges, budget | `Visit`, `GiveUp` |
| `_explore`, backwards from the positions that can end | `Turn`, `Mark` |

Abstractions.  References are model values.  A queue is a set: the order in
which it is served decides only what a search that gives up had seen, and
`GiveUp` allows every order.  Limits on lengths of texts and numbers of
characters are left out.

### ScenarioPlay

One action is one step of the worker in memory, or the commit.

| Code | Model |
|---|---|
| `mvp_scenario_runs` row, its flags and generated facts | `run` |
| status of the `scenes` rows; `current_hp`; quantity of the potion | `scenes`; `hp`; `potions` |
| preflight of a plan against the saved run | `Decide` (`Preflight`, `IntentIsValid`, `Bound`) |
| `_resolve_actions`, one action after the other | `Resolve` (`ResolveDirect`, `ResolveSkill`, `ResolveAttack`, `ResolvePotion`, `ResolveOpen`, `NotApplicable`) |
| `ScenarioProgressor.progress_for`, `progress_open` | `Fits`, `ProgressFor`; `OpenFits`, `ProgressOpen` |
| rolls of `engine/` | `D20`, `Wounded`, `Healed`, `Struck` |
| `resolve_enemy_reaction` | `Provoked`, `AfterReaction`, `Conclude` |
| `project_resolution` and `commit_resolution` | `BundleIsValid`, `UpdateIsValid`, `Applied`, `Commit` |
| a turn that fails, is refused, or loses its worker | `Drop` |

Abstractions.  One worker: what a second one may do is the subject of
`TurnLifecycle`, where a commit on another version is refused.  What a model
proposes for a free action and its modifier are choices.  The kind of a fact
is determined by its reference, the difficulty of a check by its skill.
Protected facts without an acquisition flag are left out.  `Stories` are
definitions that can be read and say which entities there are
(`AcceptedAssumption`); that is less than what the validator demands, because a
story whose search exceeds the budget passes with a warning only.  The
catalogue alone has stories of schema 1: they play the same way, but `Fits` asks
for the flags of an ending only under schema 2.

### UsageQuota

One action is one lock taken, or the end of a transaction.

| Code | Model |
|---|---|
| `usage_reservations` rows | `ledger`: the day of each, by the item paid for |
| `service_controls.usage_paused`; `stories.lifecycle='blocked'`; the effects | `paused`; `blocked`; `done` |
| `reserve_usage` | `Admitted`, `Reserve`, under the lock `Ledger` |
| locks of `accept_pending`; of the LLM repository's `reserve`; of `create`, `duplicate`, `cached_validation`, `enqueue`, `reserve_call` | `ToAccept`; `ToReserve`; `ToCreate`, `ToDuplicate`, `ToValidate`, `ToEnqueue`, `ToCall` |
| locks of `save_conditionally`, `cancel`, `claim`, `moderate`, `pause_usage` | `ToConclude`, `ToCancel`, `ToClaim`, `ToModerate`, `ToPause` |
| checks before the reservation | `Declined` |
| commit; rollback, of the savepoint in the LLM repository's `reserve` | `Commit`, `Finish`; `Leave` |
| lost connection, death of the process, lapse of the lease | `Fail` |
| `save_validation`; the clock of the database | `SaveReport`; `Midnight` |

Abstractions.  A turn and its calls are known by their campaign, a job by its
story.  The rows of members and entities are locked below the campaign row and
by no one else, and are left out, as are the key-share locks of foreign keys,
which block none of the updates here.  Other changes of a story (`settings`,
`save`) lock as `moderate` does and are left out.

### AdventureStart

One action is one transaction, or one statement of one that waits.

| Code | Model |
|---|---|
| `stories`: lifecycle, visibility, current release | `story` |
| `story_versions`; `adventure_start_requests`; `mvp_scenario_runs` and their pinned version; `story_playtest_records` | `existing`; `starts`; `runs`; `recorded` |
| `for_start`: the request row, then the story without a lock | `Look`, `Resolve` (`Refusal`, `Visible`, `Offered` are `resolve_start`) |
| `create`: insert of the claim | `Claim` (`Claimable`: the unique key makes it wait) |
| a claim that exists | `Replay` |
| `resolve_start` again, under a share lock of the story | `Lock` |
| campaign, run and playtest record, commit | `Create` |
| publication, playtest version, `settings`, `moderate`, `import_builtin_stories` | `Release`, `MakePlaytest`, `Settings`, `Moderate`, `Import` |
| answer sent or lost; death of the process | `Return`; `Fail` |

Abstractions.  The two reads of the request row in `for_start` are taken as
one.  The answers about a version that changed or is corrupt under a pinned run
cannot occur, since versions are never updated.  A membership is never
deactivated by the code.  Ability points are a check of the payload alone.

## 3. Properties

Of `TurnLifecycle`:

- `TypeOK`: rows, workers and the log are well typed.
- `OneHolder`: never two workers that both pass the lease checks of a phase.
- `EventsMatchTurns`: result and narration events match the row, once each and in order.
- `CallsWithinBudget`: provider requests are reserved; reservations stay within the budget.
- `ProposalAppliedOnce`: a confirmed warning is applied at most once, on the state it described.
- `OffersAreCurrent`: choices on offer belong to the state in force.
- `OutcomeIsFinal`, `AppliesToExpectedState`, `StopIsObeyed`: what no step may do.
- `ImplementsContract`: `TurnLifecycle` implements `TurnContract`.
- `EveryTurnCloses`: every accepted turn is told, unless the story stays stopped.
- `OneOpenTurn` (proved, not run: `ImplementsContract` implies it): at most one turn
  unresolved or untold.

Of `AuthoringJobs`:

- `TypeOK`: rows and workers are well typed; attempts stay within `max_attempts`.
- `WithinLimits`: jobs running, and jobs open per author, over all processes.
- `OneRequestPerJob`: a job costs at most one provider request.
- `AttemptsMatchJob`: the attempt rows tell the history of their job.
- `UsageIsRecorded`: charged tokens reach the job even if its lease was lost.
- `OutlineWasApproved`: only a text the author saw and approved is concretized.
- `AdoptedOnItsBase`: proposals for one draft revision exclude one another.
- `ImplementsJobContract`: `AuthoringJobs` implements `JobContract`.
- `EveryJobEnds`: every enqueued job ends.

Of `StoryPublishing`:

- `TypeOK`: rows and handlers are well typed.
- `VersionIsItsRevision`: a version is the revision it names; pruning keeps that revision.
- `ReleasedWasPlayed`: released is validated, and played by its author to an end.
- `OneVersionPerRequest`: a repeated request makes no second version.
- `StoppedStoryIsFrozen`: a stop holds at every later transaction of a call.
- `ImplementsStoryContract`: `StoryPublishing` implements `StoryContract`.
- `CurrentIsNewest` (proved, not run): release numbers
  are unique and the current one is the highest.

Of `StoryValidation`:

- `VerdictIsExact`: a finished search reports a dead end exactly when the
  player can walk into positions without a way to an ending; as an error only
  where neither fights nor free actions can help.
- `BudgetIsExact`: "partial" is reported exactly when there are more positions
  than the budget; otherwise the scenes and endings reached are exactly those
  that can be.

Of `ScenarioPlay`:

- `RunIsWhole`: types and ranges; one active scene while the run lasts and none
  after; under schema 2 an ending was earned with its flags or is the defeat of a
  fallen hero; protected items were taken where they were, but for an item whose
  flag is that of a fight; facts are not told differently
  later.
- `PlayIsExplored`: a position of a play is one the validator explored.
- `ForwardPlaysGoOn`: in a story that leads only forward and names no flag
  twice, some registered action always leads on.
- `BundlesAreAccepted`: what the worker resolved the commit accepts, but for a
  way back under `mvp_v1` and a flag named twice.
- `StepsAreCounted`: state and version change together and by one, but for an
  action of `mvp_v1` that sets nothing and still takes a version; in an open
  story so does the time.
- `PlaysGoOn` (violated, see section 4): the same as `ForwardPlaysGoOn` for
  every story in which the validator finds no dead end.

Of `UsageQuota`:

- `WithinQuota`: no principal exceeds a limit of a day, all together not that of
  the service, whenever their transactions began.
- `PaidIsDone`: what is counted is done and what is done is counted, but for a
  validation whose process died.
- `PauseHolds`: no reservation commits after a pause was answered.
- `SomeCallGoesOn` (proved, not run: `EveryCallEnds` would fail without it): of the
  transactions under way one at least waits for no other.
- `EveryCallEnds`: transactions that lock in different orders never wait for one
  another for ever.

Of `AdventureStart`:

- `AnswersAgree`: a request names one adventure, that of its first payload; who
  asks again after it was pinned is not told the story changed.
- `StartsAreWhole`: claim, campaign, run and playtest record stand or fall
  together.
- `StartedAsOffered`: at its commit an adventure's story is active, visible to
  the player, and offers that version.

## 4. Runs and bounds

| Run | Instance | Question |
|---|---|---|
| `turn_fencing` | 1 turn, open scenario, 2+2 workers, 2 attempts, budget 2, 2 faults, fair | who may write when workers crash, stall and are taken over; does every turn close |
| `turn_sequence` | 2 turns, 2+1 workers, 2 attempts, budget 2, 1 fault | a stale worker of turn one during turn two; versions, choices, refinement |
| `turn_open_scenario` | 3 turns, open scenario, 1+1 workers, 1 attempt | warning, confirmation, second confirmation of the same warning |
| `job_fencing` | 2 jobs of 1 author, 2 workers, 2 attempts, 2 faults | what a worker that lost its lease may still write |
| `job_limits` | 3 jobs of 1 author, 1 worker, 2 slots, 1 running, 3 draft and 2 outline revisions | limits, approval and adoption when submissions, claims, edits and expiries race |
| `job_liveness` | 2 jobs, 1 worker, 2 faults, fair | every job ends |
| `story_publishing` | 4 draft contents, 2 revisions, 3 versions, 3 requests, 1 playtest, 2 handlers | saves, stops and other calls between the transactions of a call |
| `story_validation` | several hundred definitions of 3 scenes, 2 flags, 2 endings; budget 6 | is the report what the graph of the story is |
| `scenario_play` | 8 stories, plans of up to 3 actions, 6 committed changes | do worker, commit and validator agree on every outcome of the dice |
| `scenario_return` | 1 story | expected violation, see below |
| `usage_quota` | 2 connections, 3 of 16 requests, limits 1, over midnight, fair | limits, pause and lock orders of all handlers that reserve |
| `adventure_start` | 2 callers, 2 campaigns, 5 versions of 2 stories, 2 changes | repeated and lost calls while the stories change |

Turns.  Two workers of a phase are what fencing needs: an owner and its successor.
Two attempts give a first try, a takeover and a terminal cleanup.  A budget of
two is the first call and the one that is refused after a retry.  Two turns
give a stale worker of the earlier one; three are needed to confirm a warning
twice.  `MaxFaults` bounds crashes, stalls past a held lease, stops and loss of
the actor together; every finite stretch of a run of the program fits some
bound, and the proofs are for all of them.  Deadlock is checked: the system may
stand still only when no turn is open (`Quiescent`).

Jobs.  Two workers are an owner and its successor, two attempts a first
try and the last; a lapse of an attended lease, a crash and a stop are faults.
`job_limits` has none: an unattended lease still lapses, and limits do not
depend on why a job returns to the queue.  It has three draft revisions, so
that two proposals compete for one base, and an outline that is edited after
its approval.  The queue may stand still only when no job is open
(`Quiescent`).

Stories.  Three versions are a playtest and two releases; two
revisions suffice for a draft that moves under a call, a restore and a prune;
the four contents are one, the same with other metadata, another definition and
one with an error; two handlers race for a request id.  The story may be edited
no further than `MaxRevision`, which the proofs leave open.  The definitions of
`story_validation` are every choice of up to five of a pool of actions, with
loops, one-way moves, flags that bar, overrides, faulty actions, worlds and fights;
their graphs have up to twelve positions, so the budget of six is both met
and exceeded.  The search ends, so deadlock is not checked there.

Play.  The eight stories are one that leads only forward under each schema, one
with a fight, the same fight in a world of free actions, a fight that guards an
item, a way back under each ruleset, and an action that names a flag twice.  A plan of three holds an attack that defeats,
an attack on the defeated, and a potion.  Play stops when the run is completed
or after `MaxVersion` changes; deadlock is not checked for this reason.
`scenario_return` is a disagreement between code and document: the validator
follows an effect back to a scene that was left (`application/stories.py:393`),
but `commit_resolution` enters a scene only while its row is "planned", or
"closed" under `mvp_v2` (`repositories.py:1287`).  In a `mvp_v1` story that sends the
player for a key and back, nothing else can be done and every attempt is
refused, although `docs/story-authoring-design.md:158` says that stories which
are certainly stuck are blocked.

Quotas.  Limits of one make every limit meet its second use; two connections are
a holder and a waiter; three transactions are two that race and one that
prepared or follows.  The turn and the job of the day before are there so that
their calls are possible at once.  Starts: two callers race for one request id
or for the same story; two changes are enough to replace or hide a version between the
two looks at it and back.  Both are cut off by a bound on calls or changes, so
deadlock is not checked; that transactions do not wait for each other for ever
is `EveryCallEnds`.

Fairness.  `turn_fencing` and `job_liveness` assume weak fairness of each worker's step, since
`run_worker` polls forever and survives exceptions, and of the lapse of a lease
nobody attends, since time passes.  That only finitely many faults happen is
the bound `MaxFaults`; with infinitely many crashes nothing can be promised.
Acceptance, stops, deadlines, authors and moderators are not fair: nothing makes them act.
`usage_quota` assumes weak fairness of a transaction that can take its next
step: PostgreSQL grants a free lock.  That every lock becomes free is
what the run shows, not an assumption.

## 5. Proofs

Of `TurnLifecycle`, for all `Requests`, `Resolvers`, `Narrators`, `InputKinds`, `MaxAttempts`,
`Budget`, `MaxFaults` under the assumptions named in `TurnLifecycle`:

- `TypeCorrect`: `Spec => []TypeOK`, inductive as it stands.
- `OneOpenTurnCorrect`, `OutcomeFinal`, `ContractImplemented`, `StopObeyed`.  Each action is
  first shown to be one of a few row steps (accepted, applied, answered,
  declined, given up, told later, or keeping both statuses); the theorems
  then follow per row step, not per action.  The invariant is `RowInv`: types,
  `RowsAgree` (an absent turn has an absent narration, an unresolved one a
  pending narration) and `OneOpenTurn`.  `RowsAgree` is needed because telling
  a turn is decided in `narrations` alone.
- `EventsMatch`.  `LogInv` adds to `RowInv` where the events of each turn stand;
  a row step appends exactly what its status asks for.
- `OffersCurrent`.  `OfferInv`: a narrator that is about to tell a turn loaded it
  when it was the last one committed, and no other can be committed before it is told.
- `OneHolderCorrect`.  `OneHolder` is not inductive: it must be known that a
  worker's epoch never exceeds its row's and that two workers of one turn never
  share an epoch (`FenceInv`), because claiming is the only way to get the
  newest.
- `AppliesToExpected`, `ProposalAppliedOnceCorrect`.  `SnapshotInv`: the base
  version of a worker that reached a commit is the version its turn expected,
  so the comparison at the commit compares the present with the request.
  `ConfirmInv`: a turn that confirms a warning expects the version the warning
  was made for; together with the version bump of every open-scenario commit
  this is why a proposal needs no "used" flag.
- `CallsWithinBudgetCorrect`.  `SpendInv`: requests sent, and the workers that
  reserved one and are about to send it, are together no more than what the row
  counts; an unrouted turn has reserved nothing; a worker that still owns
  the turn it is to route finds it unrouted, which is where fencing is needed.
  Each step reserves, sends, or does neither (`SpendStep`).  `Resolvers` and
  `Narrators` need not be finite.

Of `AuthoringJobs`, for all `Jobs` (finite), `Owners`, `Workers` and every
value of the limits and bounds, under `JobsAssumption`, `OwnerAssumption` and
`LimitsAssumption`:

- `JobTypesCorrect`.  The invariant `Typed` adds `QueuedIsFresh`: a queued job
  has an attempt left and no request reserved.  Without it a claim could exceed
  `max_attempts`, for `claim` checks them only when it requeues.
- `OneRequestCorrect`.  `PaidInv`: requests sent are covered by the reservation
  on the row, and a worker about to call is the only one, with nothing sent.
- `JobContractImplemented`, `LimitsCorrect`.  Each step is first classified by
  what it does to the states of jobs (`StateSteps`): one opens, starts, ends, or
  a sweep puts expired jobs back or fails them.  The abstract step and the
  cardinalities follow from the class, not from the action.
- `OutlineApprovalCorrect`.  `ApprovalInv`: an outline marked approved at its
  current revision is in the history of approvals, because an edit raises the
  revision and clears the mark in one step.
- `AdoptionCorrect`.  `AdoptionInv`: an applied proposal became `base + 1`, which
  is not beyond the draft, and drafts only grow.
- `AttemptsCorrect`.  `Agree` strengthens `AttemptsMatchJob` by: no attempt is
  newer than its job's epoch, and a reserved attempt of a running job is the
  current one.
- `UsageCorrect`.  `LeaseInv`: epochs of workers never exceed their job's, no two
  workers share one, and whoever called holds a reserved attempt.  `BillInv`:
  unrecorded usage of a live worker is known to a worker that still has its last
  step before it, and a running job shows none its holder could overwrite.

Of `StoryPublishing`, for all contents, versions, requests, playtests, handlers
and every `MaxRevision`, under its three assumptions: every property of the run
and `CurrentIsNewest`
(`StoryTypesCorrect`, `VersionsCorrect`, `ReleasedCorrect`, `OneVersionCorrect`,
`NewestCorrect`, `FrozenCorrect`, `StoryContractImplemented`).  The invariant
`Typed` adds to the types what the commit relies on: `HistoryInv`, the newest
revision is the draft's; `CallInv`, what a handler read *is* the draft as long
as the draft has the revision it asked for, and a report that lets it go on has
no error; `RunInv`, a run keeps the playtest version it was started with.
`CallInv` is why comparing revision numbers under the lock is enough, although
the definition was read before it.  Each step is then classified (`StepClass`:
the draft is revised, history pruned, a report stored, a version made, a
release published, ...), and the properties follow per class.

Of `StoryValidation`, for all definitions and limits: `VerdictCorrect`.  `VInv`
holds of the search forwards that visited positions have all their moves
recorded and nothing else is recorded (`Forwards`), and backwards that no trap
contains a marked position and the sources of a marked one are marked or due
(`Backwards`).  Nothing is used of what a move is, so the proof is about any
finite or infinite graph.  What `_explore` found out is compared with the graph
itself by two more theorems:

- `ExploredIsLeast` (`StoryGraphProofs`): for a finite story, `Explored` holds the
  start, is closed under moves and is within every set that does and is.  The
  induction is on least elements (`Least`, `Climb`); the bound suffices because
  each round either adds a position or closes the set, and positions are pairs
  of a scene and a set of flags (`PositionsAreFew`).
- `BudgetCorrect`.  `Counted`: what was seen is within `Explored` and the budget, and
  the scenes and endings reported are those of the positions visited.  A search
  with an empty queue is closed and hence all of `Explored`.
- `PassedIsSound`: `VerdictCorrect` and `BudgetCorrect` together say that no set of
  positions that can be reached is a trap in a story that passed its search.

Of `ScenarioPlay`, for all stories, heroes, foes, effects of free actions and
`MaxVersion`, under `HeroAssumption` (a preset has hit points),
`DefinitionAssumption` (the types of a definition), `AcceptedAssumption` and
`ProposalAssumption` (a free action moves or ends, as `OpenEffect` demands): every
property of the run (`RunStaysWhole`, `PlayOnExploredGround`, `BundlesAccepted`,
`StepsCounted`, `ForwardGoesOn`).  The rows do not change while a plan is
resolved, so the invariant speaks of them: `Resolving` and `Bundled` say that the
update so far is `Proper` for the saved run (all that the commit asks, but for the
two exceptions) and `Earned`, that what waits in the plan is still available, and
that hit points and potions have only been `Worn`.  `Worn` is why the worker's
"changed" and the projection's comparison of old with new agree: a foe never
gains, the hero gains only for a potion, so what changed stays changed.  The
merge of an enemy's reaction into an update is where `Proper` is easily lost
(`ReactionIsProper`).  `Behind` says that in a story whose actions follow an
order, scenes that were left rank below the present one; together with
`PassedIsSound` it gives `ForwardGoesOn`.

Of `UsageQuota`, for all connections, requests (finite), limits, days and calls,
under `QuotaAssumption`: `TypesCorrect`, `QuotaHolds`, `PauseKept`, `PaidCorrect`,
`NoCircleOfWaiting`.
The invariant is `OneLedger`, at most one transaction has the lock of the ledger, and
`Counted`, one that has reserved holds it, saw the service open, and still has
room under every limit: nobody else can add a row before it commits.  Counting
"since the day on which the transaction began" is enough, since its own row is
of that day and later ones count for it too.  The lists of locks of the handlers
differ, but all rise through the same seven kinds (`Awaited`): of the transactions
that wait, one for the highest kind waits for one that goes on.

Of `AdventureStart`, for all callers, wants, campaigns, versions and changes, under
`StartAssumption` and `NameAssumption` (names are distinct): every property of the
run (`AnswersCorrect`, `StartsWhole`, `OfferedCorrect`).  `RowsAgree`: a campaign belongs to one
start, its run is pinned to the version asked for, and it is recorded exactly if
that is a playtest.  `CallAgrees`: whoever claims a request has it to
itself (the unique key), whoever is about to create has the story as it was
offered (the share lock), and a run that was seen pinned stays so.

## 6. Only model-checked

Liveness under fairness is out of the prover's reach: `EveryTurnCloses`,
`EveryJobEnds`, `EveryCallEnds`.  Every other property of a passing run is proved
for all values of the constants.  The bounds `MaxVersion`, `MaxRevision`, `MaxFaults`
and the like limit what the actions do in the models themselves; the
theorems hold for every value of them.

## 7. Plan

Done: turns, authoring jobs and publishing with their contracts; validation of
stories and their play; quotas; starts; the proofs of all of them.  Left:

1. `LeaseTiming`: an integer clock with phase deadline, lease and request timeout,
   in place of live/lapsed.
2. The event stream as a reader with a cursor, and browser sessions.
3. A bound on turns in process when stops are lifted (section 8).

## 8. Not modelled

- Wording and grounding of texts, prompt construction, provider protocols, HTTP
  routing and serialisation, configuration, schema migrations and the browser
  client: no state shared between actors, or formatting only.
- Community pages and reports: single statements that read or insert one row.
  Moderation and the pause are actions of other modules.
- Authentication and browser sessions: single-row statements around tokens,
  apart from the game and its queues.
- Of the event log the SSE cursor (a reader of committed rows), and of the resolution
  projection the shape of canonical events and narration input.
- A row that can never be read again (a `get_resolution_work` that raises on every
  claim): loading comes before terminal cleanup, so such a turn would stay open.
- A bound on turns in process: `reserve_usage` limits admission, not the number.
  Turns of a stopped story are not counted, so after the stop is lifted a
  principal may have more than `AIRPG_CONCURRENT_TURN_LIMIT`
  (`docs/development.md:158`).

Observed while modelling, and kept in the models as the code has it:

- `add_flags` may name a flag twice.  No validator asks for uniqueness, and the
  second insert violates the primary key of `mvp_scenario_flags`
  (`repositories.py:1422`): the action fails at every attempt (`NamesFlagTwice`).
- `_explore` sets `combat.started_flag` for an attack, `progress_for` does not;
  the enemy's reaction does.
- `progress_for` does not check the scene of the world's goal flag, only that of
  protected items; `progress_open` checks both.
- The flags a defeat ending requires are not checked when the hero falls, and
  the flag a reaction sets is not checked against protected items.
- A registered action of `mvp_v1` with nothing to set takes a state version:
  `resolution.py:341` asks only whether there is a scenario update, while
  `docs/ai-trpg-contracts-v0.2.md:872` has the version rise only if canonical state
  or progress changed (`StepsAreCounted` allows for it).
- A story with more positions than the budget passes with the warning
  `exploration_limit`: nothing is known of its dead ends, hence `Sound` in `PlaysGoOn`.
