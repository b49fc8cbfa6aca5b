---------------------------- MODULE AuthoringJobs ----------------------------
(***************************************************************************)
(* The queue of AI jobs for authors: enqueued by the API, claimed by       *)
(* worker processes under a lease with an epoch, one provider request per  *)
(* job, outlines the author edits and approves, and proposals adopted into *)
(* the draft the job was made for.                                         *)
(*                                                                         *)
(* Every action is one database transaction, or one step of a worker       *)
(* between two.  Each owner has one story.  A replayed request id returns  *)
(* the stored answer and changes nothing.  A lease is "live" or "lapsed";  *)
(* the quota of reserve_usage is a refusal that is always possible.        *)
(***************************************************************************)
EXTENDS Integers, FiniteSets

CONSTANTS Jobs,         \* job ids
          NoJob,        \* stands for "no job"
          Owners,       \* authors
          Owner,        \* the author of each job
          Workers,      \* authoring worker processes
          MaxAttempts,  \* AuthoringLimits.max_attempts
          MaxActive,    \* AuthoringLimits.max_active_per_owner
          MaxRunning,   \* AuthoringLimits.max_running
          MaxRevision,  \* bound: revisions of an outline
          MaxDraft,     \* bound: revisions of a draft
          MaxFaults     \* bound: crashes, stalls and stops

ASSUME JobsAssumption == IsFiniteSet(Jobs) /\ NoJob \notin Jobs
ASSUME OwnerAssumption == Owner \in [Jobs -> Owners]
ASSUME LimitsAssumption ==
          /\ {MaxAttempts, MaxActive, MaxRunning, MaxRevision, MaxDraft} \subseteq Nat \ {0}
          /\ MaxFaults \in Nat

VARIABLES jobs,       \* "authoring_jobs" rows
          attempts,   \* "authoring_attempts" rows of each job
          proposals,  \* "authoring_proposals" row of each job
          stories,    \* lifecycle and draft revision of each owner's story
          worker,     \* control state of each worker
          sent,       \* history: provider requests sent for each job
          approvals,  \* history: <<job, outline revision>> the author approved
          lost,       \* history: jobs whose worker died with usage unrecorded
          faults      \* bound: faults so far

vars == <<jobs, attempts, proposals, stories, worker, sent, approvals, lost, faults>>

-----------------------------------------------------------------------------
(* Rows and worker states *)

JobStates == {"absent", "queued", "running", "succeeded", "failed", "cancelled"}
OpenAttempt == {"claimed", "requested"}
WorkerPCs == {"idle", "reserve", "call", "succeed", "fail", "usage"}

JobRow == [state    : JobStates,
           kind     : {"fill", "outline", "concretize"},  \* a "check" runs as a "fill"
           base     : Nat,                    \* base_revision
           source   : Jobs \cup {NoJob},      \* the outline it concretizes
           read     : Nat,                    \* revision of that outline
           attempts : 0..MaxAttempts,
           epoch    : Nat,                    \* lease_epoch
           lease    : {"none", "live", "lapsed"},
           requests : {0, 1},                 \* physical_requests
           billed   : BOOLEAN,                \* tokens were recorded
           outline  : Nat,                    \* outline_revision
           approved : Nat]                    \* approved_outline_revision, 0 for NULL

AttemptRow == [epoch    : Nat,
               state    : OpenAttempt \cup {"succeeded", "failed", "cancelled", "expired"},
               reserved : BOOLEAN]            \* request_reserved

ProposalRow == [decision : {"none", "pending", "applied"},
                revision : Nat]               \* applied_revision

Story == [editable : BOOLEAN,                 \* neither blocked nor archived
          revision : Nat]                     \* of the draft

WorkerState == [pc     : WorkerPCs,
                job    : Jobs \cup {NoJob},
                epoch  : Nat,
                called : BOOLEAN]             \* the usage it would report is not zero

NoRow == [state |-> "absent", kind |-> "fill", base |-> 0, source |-> NoJob, read |-> 0,
          attempts |-> 0, epoch |-> 0, lease |-> "none", requests |-> 0,
          billed |-> FALSE, outline |-> 0, approved |-> 0]

Idle == [pc |-> "idle", job |-> NoJob, epoch |-> 0, called |-> FALSE]

Init == /\ jobs = [j \in Jobs |-> NoRow]
        /\ attempts = [j \in Jobs |-> {}]
        /\ proposals = [j \in Jobs |-> [decision |-> "none", revision |-> 0]]
        /\ stories = [o \in Owners |-> [editable |-> TRUE, revision |-> 1]]
        /\ worker = [w \in Workers |-> Idle]
        /\ sent = [j \in Jobs |-> 0]
        /\ approvals = {}
        /\ lost = {}
        /\ faults = 0

Active == {"queued", "running"}
Editable(j) == stories[Owner[j]].editable
Running(rows) == {j \in Jobs : rows[j].state = "running"}

ActiveOf(o) == {j \in Jobs : Owner[j] = o /\ jobs[j].state \in Active}

\* Mutant: the lease is checked, the epoch is not.
FencedAnyEpoch(j, e) == jobs[j].state = "running" /\ jobs[j].lease = "live"

\* _fenced
Fenced(j, e) == /\ jobs[j].state = "running"
                /\ jobs[j].epoch = e
                /\ jobs[j].lease = "live"

\* _end_attempt
Ended(rows, e, state) ==
    {IF a.epoch = e THEN [a EXCEPT !.state = state] ELSE a : a \in rows}

-----------------------------------------------------------------------------
(* The API: PostgresStoryJobStore *)

Enqueued(j, kind, source, read) ==
    jobs' = [jobs EXCEPT ![j] =
                [NoRow EXCEPT !.state = "queued", !.kind = kind,
                              !.base = stories[Owner[j]].revision,
                              !.source = source, !.read = read]]

\* outline_not_approved is raised unless
OutlineApproved(s, j, r) ==
    /\ Owner[s] = Owner[j]
    /\ jobs[s].base = stories[Owner[j]].revision
    /\ jobs[s].kind = "outline" /\ jobs[s].state = "succeeded"
    /\ jobs[s].approved = r /\ jobs[s].outline = r

Enqueue(j) ==
    /\ jobs[j].state = "absent"
    /\ Editable(j)
    /\ Cardinality(ActiveOf(Owner[j])) < MaxActive
    /\ \/ \E kind \in {"fill", "outline"} : Enqueued(j, kind, NoJob, 0)
       \/ \E s \in Jobs, r \in 1..MaxRevision :
             OutlineApproved(s, j, r) /\ Enqueued(j, "concretize", s, r)
    /\ UNCHANGED <<attempts, proposals, stories, worker, sent, approvals, lost, faults>>

\* Mutant: a job that already ended can be cancelled.
CancelAny(j) == jobs[j].state # "absent"

MayCancel(j) == jobs[j].state \in Active

\* cancel, also in a stopped story
Cancel(j) ==
    /\ MayCancel(j)
    /\ jobs' = [jobs EXCEPT ![j].state = "cancelled",
                            ![j].lease = "none",
                            ![j].epoch = @ + 1]
    /\ attempts' = [attempts EXCEPT ![j] = Ended(@, jobs[j].epoch, "cancelled")]
    /\ UNCHANGED <<proposals, stories, worker, sent, approvals, lost, faults>>

OutlineAvailable(j) == /\ Editable(j)
                       /\ jobs[j].kind = "outline" /\ jobs[j].state = "succeeded"

EditOutline(j) ==
    /\ OutlineAvailable(j)
    /\ jobs[j].outline < MaxRevision
    /\ jobs' = [jobs EXCEPT ![j].outline = @ + 1, ![j].approved = 0]
    /\ UNCHANGED <<attempts, proposals, stories, worker, sent, approvals, lost, faults>>

\* Mutant: whatever outline is stored by now is approved.
AnyOutline(j, seen) == TRUE

ExpectedOutline(j, seen) == jobs[j].outline = seen

\* The author approves the revision shown to him, which may have been edited since.
ApproveOutline(j, seen) ==
    /\ OutlineAvailable(j)
    /\ seen <= jobs[j].outline
    /\ ExpectedOutline(j, seen)
    /\ jobs' = [jobs EXCEPT ![j].approved = jobs[j].outline]
    /\ approvals' = approvals \cup {<<j, seen>>}
    /\ UNCHANGED <<attempts, proposals, stories, worker, sent, lost, faults>>

\* Mutant: the draft may have moved on since the job read it.
StillPending(j) == proposals[j].decision = "pending"

Adoptable(j) == /\ proposals[j].decision = "pending"
                /\ jobs[j].base = stories[Owner[j]].revision

\* apply: the proposal is adopted as the draft's next revision.
Apply(j) ==
    /\ Editable(j)
    /\ Adoptable(j)
    /\ stories[Owner[j]].revision < MaxDraft
    /\ stories' = [stories EXCEPT ![Owner[j]].revision = @ + 1]
    /\ proposals' = [proposals EXCEPT
            ![j] = [decision |-> "applied", revision |-> stories[Owner[j]].revision + 1]]
    /\ UNCHANGED <<jobs, attempts, worker, sent, approvals, lost, faults>>

\* PostgresStoryStore.save, the author's own edit
SaveDraft(o) ==
    /\ stories[o].editable
    /\ stories[o].revision < MaxDraft
    /\ stories' = [stories EXCEPT ![o].revision = @ + 1]
    /\ UNCHANGED <<jobs, attempts, proposals, worker, sent, approvals, lost, faults>>

-----------------------------------------------------------------------------
(* StoryAuthoringWorker *)

GoTo(w, pc) == worker' = [worker EXCEPT ![w].pc = pc]

Expired == {j \in Jobs : jobs[j].state = "running" /\ jobs[j].lease = "lapsed"}

\* Mutant: a job that never reserved a request is retried forever.
ReservedOnly(row) == row.requests > 0

Exhausted(row) == row.requests > 0 \/ row.attempts >= MaxAttempts

\* The rows after the expired jobs in S were given up or put back.
Requeued(S) ==
    [j \in Jobs |->
        IF j \in S
        THEN [jobs[j] EXCEPT !.state = IF Exhausted(jobs[j]) THEN "failed" ELSE "queued",
                             !.lease = "none",
                             !.epoch = @ + 1]
        ELSE jobs[j]]

Closed(S) ==
    [j \in Jobs |-> IF j \in S THEN Ended(attempts[j], jobs[j].epoch, "expired")
                               ELSE attempts[j]]

\* Mutant: a job whose lease ran out no longer counts as running.
SlotFreeOfLive(rows) == Cardinality({j \in Running(rows) : rows[j].lease = "live"}) < MaxRunning

SlotFree(rows) == Cardinality(Running(rows)) < MaxRunning

\* Mutant: lapsed leases are left to their owners.
NothingExpired == {{}}

\* SKIP LOCKED: rows another transaction holds are passed over.
Expirable == SUBSET Expired

\* the lease a claim gives to its worker
Taken(w, j, rows, ended) ==
    /\ jobs' = [rows EXCEPT ![j].state = "running",
                            ![j].lease = "live",
                            ![j].attempts = @ + 1,
                            ![j].epoch = @ + 1]
    /\ attempts' = [ended EXCEPT ![j] = @ \cup
            {[epoch |-> rows[j].epoch + 1, state |-> "claimed", reserved |-> FALSE]}]
    /\ worker' = [worker EXCEPT ![w] =
            [pc |-> "reserve", job |-> j, epoch |-> rows[j].epoch + 1, called |-> FALSE]]

\* claim
Claim(w) ==
    /\ worker[w].pc = "idle"
    /\ \E S \in Expirable :
        \/ /\ SlotFree(Requeued(S))
           /\ \E j \in Jobs : /\ Requeued(S)[j].state = "queued"
                              /\ Taken(w, j, Requeued(S), Closed(S))
        \/ /\ S # {}
           /\ jobs' = Requeued(S)
           /\ attempts' = Closed(S)
           /\ UNCHANGED worker
    /\ UNCHANGED <<proposals, stories, sent, approvals, lost, faults>>

\* Mutant: the reservation is entered in the attempt only.
ReservedUncounted(j, e) ==
    /\ attempts' = [attempts EXCEPT ![j] =
            {IF a.epoch = e THEN [a EXCEPT !.state = "requested", !.reserved = TRUE]
                            ELSE a : a \in @}]
    /\ UNCHANGED jobs

Reserved(j, e) ==
    /\ attempts' = [attempts EXCEPT ![j] =
            {IF a.epoch = e THEN [a EXCEPT !.state = "requested", !.reserved = TRUE]
                            ELSE a : a \in @}]
    /\ jobs' = [jobs EXCEPT ![j].requests = 1]

\* prepare and reserve_call.  "fail" stands for a prompt too long, a spent
\* quota, a lease that ran out meanwhile, a stopped story, a cancelled process.
ReserveCall(w) ==
    LET j == worker[w].job
        mine == Fenced(j, worker[w].epoch) /\ jobs[j].requests = 0
    IN  /\ worker[w].pc = "reserve"
        /\ \/ /\ Editable(j) /\ mine
              /\ Reserved(j, worker[w].epoch)
              /\ \E pc \in {"call", "fail"} : GoTo(w, pc)  \* "fail": answer of the commit lost
           \/ /\ Editable(j) /\ ~mine
              /\ GoTo(w, "usage")
              /\ UNCHANGED <<jobs, attempts>>
           \/ /\ GoTo(w, "fail")
              /\ UNCHANGED <<jobs, attempts>>
        /\ UNCHANGED <<proposals, stories, sent, approvals, lost, faults>>

\* generate and prepare_proposal
CallModel(w) ==
    /\ worker[w].pc = "call"
    /\ sent' = [sent EXCEPT ![worker[w].job] = @ + 1]
    /\ \E pc \in {"succeed", "fail"} :
          worker' = [worker EXCEPT ![w].pc = pc, ![w].called = TRUE]
    /\ UNCHANGED <<jobs, attempts, proposals, stories, approvals, lost, faults>>

\* _finish
Finished(w, state, outline) ==
    LET j == worker[w].job
    IN  /\ jobs' = [jobs EXCEPT ![j].state = state,
                                ![j].lease = "none",
                                ![j].billed = worker[w].called,
                                ![j].outline = IF outline THEN 1 ELSE @]
        /\ attempts' = [attempts EXCEPT ![j] = Ended(@, jobs[j].epoch, state)]

\* succeed; an outline may bring findings, another kind always brings a proposal
Succeed(w) ==
    LET j == worker[w].job
        mine == Fenced(j, worker[w].epoch)
        outline == jobs[j].kind = "outline"
    IN  /\ worker[w].pc = "succeed"
        /\ \/ /\ Editable(j) /\ mine
              /\ Finished(w, "succeeded", outline)
              /\ \E proposed \in BOOLEAN :
                    /\ ~outline => proposed
                    /\ proposals' = [proposals EXCEPT
                            ![j].decision = IF proposed THEN "pending" ELSE @]
              /\ \E pc \in {"usage", "fail"} : GoTo(w, pc)  \* "fail": answer of the commit lost
           \/ /\ Editable(j) /\ ~mine
              /\ GoTo(w, "usage")
              /\ UNCHANGED <<jobs, attempts, proposals>>
           \/ /\ GoTo(w, "fail")      \* stopped story, process or connection
              /\ UNCHANGED <<jobs, attempts, proposals>>
        /\ UNCHANGED <<stories, sent, approvals, lost, faults>>

\* fail; its own failure still reaches record_usage, in the "finally"
Fail(w) ==
    LET j == worker[w].job
    IN  /\ worker[w].pc = "fail"
        /\ \/ /\ Fenced(j, worker[w].epoch)
              /\ Finished(w, "failed", FALSE)
           \/ UNCHANGED <<jobs, attempts>>
        /\ GoTo(w, "usage")
        /\ UNCHANGED <<proposals, stories, sent, approvals, lost, faults>>

\* Mutant: usage is recorded only while the lease is held.
UsageOfLeaseHolder(j, e) == Fenced(j, e)

\* the attempt of this lease reserved a request
UsageKnown(j, e) == \E a \in attempts[j] : a.epoch = e /\ a.reserved

\* record_usage, whatever became of the job
RecordUsage(w) ==
    LET j == worker[w].job
    IN  /\ worker[w].pc = "usage"
        /\ jobs' = [jobs EXCEPT ![j].billed =
                        @ \/ (UsageKnown(j, worker[w].epoch) /\ worker[w].called)]
        /\ worker' = [worker EXCEPT ![w] = Idle]
        /\ UNCHANGED <<attempts, proposals, stories, sent, approvals, lost, faults>>

-----------------------------------------------------------------------------
(* Time, crashes and stops *)

Fault == faults < MaxFaults /\ faults' = faults + 1

Attended(j) == \E w \in Workers : worker[w].job = j /\ worker[w].epoch = jobs[j].epoch

\* timeout_seconds < lease_seconds: an attended lease runs out only when its
\* worker stalls.
MayLapse(j) == IF Attended(j) THEN Fault ELSE UNCHANGED faults

Lapse(j) ==
    /\ jobs[j].state = "running" /\ jobs[j].lease = "live"
    /\ MayLapse(j)
    /\ jobs' = [jobs EXCEPT ![j].lease = "lapsed"]
    /\ UNCHANGED <<attempts, proposals, stories, worker, sent, approvals, lost>>

Crash(w) ==
    /\ worker[w].pc # "idle"
    /\ Fault
    /\ worker' = [worker EXCEPT ![w] = Idle]
    /\ lost' = IF worker[w].called THEN lost \cup {worker[w].job} ELSE lost
    /\ UNCHANGED <<jobs, attempts, proposals, stories, sent, approvals>>

\* moderate, or settings with lifecycle "archived"
StopStory(o) ==
    /\ stories[o].editable
    /\ Fault
    /\ stories' = [stories EXCEPT ![o].editable = FALSE]
    /\ UNCHANGED <<jobs, attempts, proposals, worker, sent, approvals, lost>>

ResumeStory(o) ==
    /\ ~stories[o].editable
    /\ stories' = [stories EXCEPT ![o].editable = TRUE]
    /\ UNCHANGED <<jobs, attempts, proposals, worker, sent, approvals, lost, faults>>

\* The queue may stand still only when it is empty.
Quiescent == /\ \A j \in Jobs : jobs[j].state \notin Active
             /\ UNCHANGED vars

-----------------------------------------------------------------------------
WorkerStep(w) == \/ Claim(w)
                 \/ ReserveCall(w)
                 \/ CallModel(w)
                 \/ Succeed(w)
                 \/ Fail(w)
                 \/ RecordUsage(w)

JobStep(j) == \/ Enqueue(j)
              \/ Cancel(j)
              \/ EditOutline(j)
              \/ \E seen \in 1..MaxRevision : ApproveOutline(j, seen)
              \/ Apply(j)
              \/ Lapse(j)

StoryStep(o) == SaveDraft(o) \/ StopStory(o) \/ ResumeStory(o)

Next == \/ \E w \in Workers : WorkerStep(w)
        \/ \E j \in Jobs : JobStep(j)
        \/ \E o \in Owners : StoryStep(o)
        \/ \E w \in Workers : Crash(w)
        \/ Quiescent

Spec == Init /\ [][Next]_vars

\* Worker loops poll forever, and an unattended lease runs out.
Fairness == /\ \A w \in Workers : WF_vars(WorkerStep(w))
            /\ \A j \in Jobs : WF_vars(Lapse(j) /\ ~Attended(j))

FairSpec == Spec /\ Fairness

-----------------------------------------------------------------------------
(* Properties *)

TypeOK == /\ jobs \in [Jobs -> JobRow]
          /\ attempts \in [Jobs -> SUBSET AttemptRow]
          /\ proposals \in [Jobs -> ProposalRow]
          /\ stories \in [Owners -> Story]
          /\ worker \in [Workers -> WorkerState]
          /\ sent \in [Jobs -> Nat]
          /\ approvals \subseteq Jobs \X Nat
          /\ lost \subseteq Jobs
          /\ faults \in 0..MaxFaults

\* The limits hold over all processes: claims race for the last slot, expired
\* jobs return to the queue, authors submit from several windows.
WithinLimits == /\ Cardinality(Running(jobs)) <= MaxRunning
                /\ \A o \in Owners : Cardinality(ActiveOf(o)) <= MaxActive

\* No job costs more than one provider request, whoever lost a lease between
\* the reservation and the call (story_jobs.py: "A reserved request is never
\* reclaimed for another physical request").
OneRequestPerJob == \A j \in Jobs : sent[j] <= 1

\* The attempts tell the history of the job: one row per lease, open exactly
\* while that lease runs the job, at most one of them paid, and a success in
\* the row that won.
AttemptsMatchJob ==
    \A j \in Jobs :
        /\ \A a, b \in attempts[j] : a.epoch = b.epoch => a = b
        /\ \A a \in attempts[j] :
              a.state \in OpenAttempt <=> jobs[j].state = "running" /\ jobs[j].epoch = a.epoch
        /\ jobs[j].state = "running" => \E a \in attempts[j] : a.epoch = jobs[j].epoch
        /\ jobs[j].requests = 1 <=> \E a \in attempts[j] : a.reserved
        /\ \A a, b \in attempts[j] : a.reserved /\ b.reserved => a = b
        /\ jobs[j].state = "succeeded" <=>
              \E a \in attempts[j] : a.state = "succeeded" /\ a.reserved

\* Tokens the provider charged appear on the job, also when it was cancelled or
\* its lease ran out meanwhile, unless the worker died before it could say so.
UsageIsRecorded ==
    \A j \in Jobs :
        sent[j] > 0 /\ j \notin lost /\ (\A w \in Workers : worker[w].job # j) => jobs[j].billed

\* A job concretizes only an outline text its author saw and approved.
OutlineWasApproved ==
    \A j \in Jobs : jobs[j].source # NoJob => <<jobs[j].source, jobs[j].read>> \in approvals

\* Proposals made for one revision exclude one another, and an adopted one
\* became the revision right after the one it was made for.
AdoptedOnItsBase ==
    \A j, k \in Jobs :
        proposals[j].decision = "applied" =>
            /\ proposals[j].revision = jobs[j].base + 1
            /\ proposals[k].decision = "applied" /\ Owner[k] = Owner[j]
               /\ proposals[k].revision = proposals[j].revision => k = j

\* Every job ends, whatever step a worker dies at and however often stories stop.
EveryJobEnds == \A j \in Jobs : jobs[j].state \in Active ~> jobs[j].state \notin Active

-----------------------------------------------------------------------------
(* What the queue promises, as JobContract states it *)

Outcome == [j \in Jobs |-> IF jobs[j].state \in Active THEN "waiting" ELSE jobs[j].state]
Asked == [j \in Jobs |-> jobs[j].requests = 1]

Contract == INSTANCE JobContract WITH outcome <- Outcome, asked <- Asked

\* Claims, takeovers and late results implement the contract: a job ends once,
\* succeeds only if paid for, and is paid for once.
ImplementsJobContract == Contract!Spec
=============================================================================
