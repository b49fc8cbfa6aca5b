------------------------- MODULE AuthoringJobsProofs -------------------------
(***************************************************************************)
(* Proofs about AuthoringJobs for any number of jobs, authors, workers and *)
(* attempts and any limits: types, one provider request per job, limits,   *)
(* the refinement of JobContract, outlines and adoption, the history the   *)
(* attempts tell, and that usage is recorded whoever lost the lease.       *)
(***************************************************************************)
EXTENDS AuthoringJobs, FiniteSetTheorems, TLAPS

USE JobsAssumption, OwnerAssumption, LimitsAssumption

-----------------------------------------------------------------------------
(* Types *)

JobsTyped == jobs \in [Jobs -> JobRow]

\* A waiting job has an attempt left and its request unspent.
QueuedIsFresh ==
    \A j \in Jobs : /\ jobs[j].state = "queued" => jobs[j].attempts < MaxAttempts
                    /\ jobs[j].state \in {"absent", "queued"} => jobs[j].requests = 0

\* A worker has a job exactly while it is not idle.
WorkersTyped == /\ worker \in [Workers -> WorkerState]
                /\ \A w \in Workers : worker[w].pc = "idle" <=> worker[w].job = NoJob

AttemptsTyped == attempts \in [Jobs -> SUBSET AttemptRow]

OthersTyped == /\ proposals \in [Jobs -> ProposalRow]
               /\ stories \in [Owners -> Story]
               /\ sent \in [Jobs -> Nat]
               /\ approvals \subseteq Jobs \X Nat
               /\ lost \subseteq Jobs
               /\ faults \in 0..MaxFaults

Typed == JobsTyped /\ QueuedIsFresh /\ WorkersTyped /\ AttemptsTyped /\ OthersTyped

LEMMA TypedIsTypeOK == Typed => TypeOK
  BY DEF Typed, JobsTyped, WorkersTyped, AttemptsTyped, OthersTyped, TypeOK

LEMMA NoRowTyped == NoRow \in JobRow
  BY DEF NoRow, JobRow, JobStates

LEMMA TypedInit == Init => Typed
  <1>. SUFFICES ASSUME Init PROVE Typed
    OBVIOUS
  <1>1. JobsTyped
    BY NoRowTyped DEF Init, JobsTyped
  <1>2. QueuedIsFresh
    BY DEF Init, QueuedIsFresh, NoRow
  <1>3. WorkersTyped
    BY DEF Init, WorkersTyped, WorkerState, WorkerPCs, Idle
  <1>4. AttemptsTyped
    BY DEF Init, AttemptsTyped
  <1>5. OthersTyped
    BY DEF Init, OthersTyped, ProposalRow, Story
  <1>. QED BY <1>1, <1>2, <1>3, <1>4, <1>5 DEF Typed

LEMMA EndedTyped ==
  ASSUME NEW rows \in SUBSET AttemptRow, NEW e,
         NEW state \in {"succeeded", "failed", "cancelled", "expired"}
  PROVE  Ended(rows, e, state) \in SUBSET AttemptRow
  BY DEF Ended, AttemptRow

\* Who works on a job.
LEMMA BusyHasJob ==
  ASSUME WorkersTyped, NEW w \in Workers, worker[w].pc # "idle"
  PROVE  /\ worker[w].job \in Jobs /\ worker[w].epoch \in Nat
         /\ worker[w].called \in BOOLEAN
  BY DEF WorkersTyped, WorkerState

LEMMA GoToTyped ==
  ASSUME WorkersTyped, NEW w \in Workers, worker[w].pc # "idle",
         NEW pc \in WorkerPCs \ {"idle"}, GoTo(w, pc)
  PROVE  WorkersTyped'
  BY DEF GoTo, WorkersTyped, WorkerState

\* The row a finished attempt leaves.
LEMMA FinishedRow ==
  ASSUME NEW row \in JobRow, NEW state \in {"succeeded", "failed"},
         NEW billed \in BOOLEAN, NEW outline \in BOOLEAN
  PROVE  [row EXCEPT !.state = state, !.lease = "none", !.billed = billed,
                     !.outline = IF outline THEN 1 ELSE @] \in JobRow
  BY ZenonT(60) DEF JobRow, JobStates

LEMMA FinishedTyped ==
  ASSUME Typed, NEW w \in Workers, worker[w].pc # "idle",
         NEW state \in {"succeeded", "failed"}, NEW outline \in BOOLEAN,
         Finished(w, state, outline)
  PROVE  JobsTyped' /\ QueuedIsFresh' /\ AttemptsTyped'
  <1>. DEFINE j == worker[w].job
              row == [jobs[j] EXCEPT !.state = state, !.lease = "none",
                                     !.billed = worker[w].called,
                                     !.outline = IF outline THEN 1 ELSE @]
  <1>1. j \in Jobs /\ worker[w].called \in BOOLEAN
    BY BusyHasJob DEF Typed
  <1>2. jobs \in [Jobs -> JobRow]
    BY DEF Typed, JobsTyped
  <1>3. jobs' = [jobs EXCEPT ![j] = row]
    BY <1>1, <1>2 DEF Finished
  <1>4. jobs[j] \in JobRow
    BY <1>1, <1>2
  <1>5. row \in JobRow
    BY <1>1, <1>4, FinishedRow
  <1>6. row.state = state
    BY <1>4 DEF JobRow
  <1>7. jobs' \in [Jobs -> JobRow]
    <2>. HIDE DEF row
    <2>. QED BY <1>1, <1>2, <1>3, <1>5
  <1>8. QueuedIsFresh'
    <2>. HIDE DEF row
    <2>. QED BY <1>1, <1>2, <1>3, <1>6 DEF Typed, QueuedIsFresh
  <1>9. AttemptsTyped'
    BY <1>1, EndedTyped DEF Typed, AttemptsTyped, Finished
  <1>. QED BY <1>7, <1>8, <1>9 DEF JobsTyped

\* What Finished and Reserved leave alone.
LEMMA FinishedKeeps ==
  ASSUME Typed, NEW w \in Workers, worker[w].pc # "idle", NEW state, NEW outline \in BOOLEAN,
         Finished(w, state, outline)
  PROVE  LET j == worker[w].job
         IN  /\ \A k \in Jobs \ {j} : jobs'[k] = jobs[k]
             /\ jobs'[j].state = state /\ jobs'[j].billed = worker[w].called
             /\ jobs'[j].base = jobs[j].base /\ jobs'[j].source = jobs[j].source
             /\ jobs'[j].read = jobs[j].read /\ jobs'[j].approved = jobs[j].approved
             /\ jobs'[j].requests = jobs[j].requests /\ jobs'[j].epoch = jobs[j].epoch
  <1>1. worker[w].job \in Jobs
    BY BusyHasJob DEF Typed
  <1>2. jobs[worker[w].job] \in JobRow
    BY <1>1 DEF Typed, JobsTyped
  <1>. DEFINE j == worker[w].job
              new == [jobs[j] EXCEPT !.state = state, !.lease = "none",
                                     !.billed = worker[w].called,
                                     !.outline = IF outline THEN 1 ELSE @]
  <1>3. jobs'[j] = new /\ \A k \in Jobs \ {j} : jobs'[k] = jobs[k]
    BY <1>1 DEF Finished, Typed, JobsTyped
  <1>4. /\ new.state = state /\ new.billed = worker[w].called
        /\ new.base = jobs[j].base /\ new.source = jobs[j].source /\ new.read = jobs[j].read
        /\ new.approved = jobs[j].approved /\ new.requests = jobs[j].requests
        /\ new.epoch = jobs[j].epoch
    BY <1>2 DEF JobRow
  <1>. HIDE DEF new
  <1>. QED BY <1>3, <1>4

LEMMA ReservedKeeps ==
  ASSUME Typed, NEW j \in Jobs, NEW e, Reserved(j, e)
  PROVE  /\ \A k \in Jobs \ {j} : jobs'[k] = jobs[k]
         /\ jobs'[j].requests = 1
         /\ jobs'[j].state = jobs[j].state /\ jobs'[j].epoch = jobs[j].epoch
         /\ jobs'[j].billed = jobs[j].billed /\ jobs'[j].base = jobs[j].base
         /\ jobs'[j].source = jobs[j].source /\ jobs'[j].read = jobs[j].read
         /\ jobs'[j].approved = jobs[j].approved
  <1>1. jobs[j] \in JobRow
    BY DEF Typed, JobsTyped
  <1>2. /\ \A k \in Jobs \ {j} : jobs'[k] = jobs[k]
        /\ jobs'[j] = [jobs[j] EXCEPT !.requests = 1]
    BY DEF Reserved, Typed, JobsTyped
  <1>. QED BY <1>1, <1>2 DEF JobRow

-----------------------------------------------------------------------------
(* Rows that are written *)

LEMMA PutBackRow ==
  ASSUME NEW row \in JobRow, NEW state \in {"queued", "failed", "cancelled"}
  PROVE  [row EXCEPT !.state = state, !.lease = "none", !.epoch = @ + 1] \in JobRow
  <1>1. row.epoch + 1 \in Nat
    BY DEF JobRow
  <1>. QED BY <1>1 DEF JobRow, JobStates

LEMMA LeasedRow ==
  ASSUME NEW row \in JobRow, row.attempts < MaxAttempts
  PROVE  [row EXCEPT !.state = "running", !.lease = "live",
                     !.attempts = @ + 1, !.epoch = @ + 1] \in JobRow
  <1>1. row.epoch + 1 \in Nat /\ row.attempts + 1 \in 0..MaxAttempts
    BY DEF JobRow
  <1>. QED BY <1>1 DEF JobRow, JobStates

LEMMA EditedRow ==
  ASSUME NEW row \in JobRow
  PROVE  [row EXCEPT !.outline = @ + 1, !.approved = 0] \in JobRow
  <1>1. row.outline + 1 \in Nat
    BY DEF JobRow
  <1>. QED BY <1>1 DEF JobRow

LEMMA QueuedRow ==
  ASSUME NEW kind \in {"fill", "outline", "concretize"}, NEW base \in Nat,
         NEW s \in Jobs \cup {NoJob}, NEW r \in Nat
  PROVE  [NoRow EXCEPT !.state = "queued", !.kind = kind, !.base = base,
                       !.source = s, !.read = r] \in JobRow
  BY NoRowTyped DEF JobRow, JobStates

LEMMA NewWorker ==
  ASSUME NEW pc \in WorkerPCs, NEW j \in Jobs, NEW e \in Nat, NEW called \in BOOLEAN
  PROVE  [pc |-> pc, job |-> j, epoch |-> e, called |-> called] \in WorkerState
  BY DEF WorkerState

-----------------------------------------------------------------------------
(* Rows of a claim *)

LEMMA RequeuedTyped ==
  ASSUME Typed, NEW S \in SUBSET Expired
  PROVE  /\ Requeued(S) \in [Jobs -> JobRow]
         /\ \A j \in Jobs :
               /\ Requeued(S)[j].state = "queued" => /\ Requeued(S)[j].attempts < MaxAttempts
                                                     /\ Requeued(S)[j].requests = 0
               /\ Requeued(S)[j].state = "absent" => Requeued(S)[j].requests = 0
               /\ Requeued(S)[j].requests = jobs[j].requests
  <1>. SUFFICES ASSUME NEW j \in Jobs
       PROVE  /\ Requeued(S)[j] \in JobRow
              /\ Requeued(S)[j].state = "queued" => /\ Requeued(S)[j].attempts < MaxAttempts
                                                    /\ Requeued(S)[j].requests = 0
              /\ Requeued(S)[j].state = "absent" => Requeued(S)[j].requests = 0
              /\ Requeued(S)[j].requests = jobs[j].requests
    BY DEF Requeued
  <1>1. jobs[j] \in JobRow
    BY DEF Typed, JobsTyped
  <1>2. CASE j \in S
    <2>1. Requeued(S)[j] = [jobs[j] EXCEPT
                !.state = IF Exhausted(jobs[j]) THEN "failed" ELSE "queued",
                !.lease = "none", !.epoch = @ + 1]
      BY <1>2 DEF Requeued
    <2>2. jobs[j].requests \in {0, 1} /\ jobs[j].attempts \in 0..MaxAttempts
      BY <1>1 DEF JobRow
    <2>3. ~Exhausted(jobs[j]) => jobs[j].requests = 0 /\ jobs[j].attempts < MaxAttempts
      BY <2>2 DEF Exhausted
    <2>4. Requeued(S)[j] \in JobRow
      BY ZenonT(60), <1>1, <2>1, PutBackRow
    <2>5. /\ Requeued(S)[j].requests = jobs[j].requests
          /\ Requeued(S)[j].attempts = jobs[j].attempts
          /\ Requeued(S)[j].state = IF Exhausted(jobs[j]) THEN "failed" ELSE "queued"
      BY <1>1, <2>1 DEF JobRow
    <2>. QED BY <2>3, <2>4, <2>5
  <1>3. CASE j \notin S
    BY <1>1, <1>3 DEF Requeued, Typed, QueuedIsFresh
  <1>. QED BY <1>2, <1>3

LEMMA ClosedTyped ==
  ASSUME Typed, NEW S \in SUBSET Expired
  PROVE  Closed(S) \in [Jobs -> SUBSET AttemptRow]
  BY EndedTyped DEF Closed, Typed, AttemptsTyped

-----------------------------------------------------------------------------
(* Types are preserved: one step per action *)

LEMMA TakenTyped ==
  ASSUME Typed, NEW w \in Workers, NEW j \in Jobs,
         NEW rows \in [Jobs -> JobRow], NEW ended \in [Jobs -> SUBSET AttemptRow],
         \A k \in Jobs : /\ rows[k].state = "queued" => rows[k].attempts < MaxAttempts
                         /\ rows[k].state \in {"absent", "queued"} => rows[k].requests = 0,
         rows[j].state = "queued",
         Taken(w, j, rows, ended)
  PROVE  JobsTyped' /\ QueuedIsFresh' /\ AttemptsTyped' /\ WorkersTyped'
  <1>. DEFINE row == [rows[j] EXCEPT !.state = "running", !.lease = "live",
                                     !.attempts = @ + 1, !.epoch = @ + 1]
              attempt == [epoch |-> rows[j].epoch + 1, state |-> "claimed", reserved |-> FALSE]
              state == [pc |-> "reserve", job |-> j, epoch |-> rows[j].epoch + 1, called |-> FALSE]
  <1>1. rows[j].epoch + 1 \in Nat
    BY DEF JobRow
  <1>2. row \in JobRow /\ row.state = "running"
    <2>1. row \in JobRow
      BY LeasedRow
    <2>. QED BY <2>1 DEF JobRow
  <1>3. attempt \in AttemptRow
    BY <1>1 DEF AttemptRow, OpenAttempt
  <1>4. state \in WorkerState /\ state.pc = "reserve" /\ state.job = j
    BY <1>1, NewWorker DEF WorkerPCs
  <1>5. /\ jobs' = [rows EXCEPT ![j] = row]
        /\ attempts' = [ended EXCEPT ![j] = @ \cup {attempt}]
        /\ worker' = [worker EXCEPT ![w] = state]
    BY DEF Taken
  <1>. HIDE DEF row, attempt, state
  <1>6. JobsTyped' /\ QueuedIsFresh'
    BY <1>2, <1>5 DEF JobsTyped, QueuedIsFresh
  <1>7. AttemptsTyped'
    BY <1>3, <1>5 DEF AttemptsTyped
  <1>8. WorkersTyped'
    BY <1>4, <1>5 DEF Typed, WorkersTyped
  <1>. QED BY <1>6, <1>7, <1>8

LEMMA TypedClaim ==
  ASSUME Typed, NEW w \in Workers, Claim(w) PROVE Typed'
  <1>. PICK S \in Expirable :
        \/ \E j \in Jobs : Requeued(S)[j].state = "queued" /\ Taken(w, j, Requeued(S), Closed(S))
        \/ jobs' = Requeued(S) /\ attempts' = Closed(S) /\ UNCHANGED worker
    BY DEF Claim
  <1>1. S \in SUBSET Expired
    BY DEF Expirable
  <1>2. OthersTyped'
    BY DEF Typed, OthersTyped, Claim
  <1>3. CASE jobs' = Requeued(S) /\ attempts' = Closed(S) /\ UNCHANGED worker
    <2>1. JobsTyped' /\ QueuedIsFresh'
      BY <1>1, <1>3, RequeuedTyped DEF JobsTyped, QueuedIsFresh
    <2>2. AttemptsTyped'
      BY <1>1, <1>3, ClosedTyped DEF AttemptsTyped
    <2>3. WorkersTyped'
      BY <1>3 DEF Typed, WorkersTyped
    <2>. QED BY <1>2, <2>1, <2>2, <2>3 DEF Typed
  <1>4. ASSUME NEW j \in Jobs, Requeued(S)[j].state = "queued",
               Taken(w, j, Requeued(S), Closed(S))
        PROVE  Typed'
    BY <1>1, <1>2, <1>4, RequeuedTyped, ClosedTyped, TakenTyped DEF Typed
  <1>. QED BY <1>3, <1>4

LEMMA ReservedTyped ==
  ASSUME Typed, NEW j \in Jobs, NEW e, jobs[j].state = "running", Reserved(j, e)
  PROVE  JobsTyped' /\ QueuedIsFresh' /\ AttemptsTyped'
  <1>1. JobsTyped' /\ QueuedIsFresh'
    <2>1. [jobs[j] EXCEPT !.requests = 1] \in JobRow
          /\ [jobs[j] EXCEPT !.requests = 1].state = "running"
      BY DEF Typed, JobsTyped, JobRow
    <2>. QED BY <2>1 DEF Typed, JobsTyped, QueuedIsFresh, Reserved
  <1>2. {IF a.epoch = e THEN [a EXCEPT !.state = "requested", !.reserved = TRUE] ELSE a :
            a \in attempts[j]} \in SUBSET AttemptRow
    <2>1. \A a \in AttemptRow : [a EXCEPT !.state = "requested", !.reserved = TRUE] \in AttemptRow
      BY DEF AttemptRow, OpenAttempt
    <2>. QED BY <2>1 DEF Typed, AttemptsTyped
  <1>3. AttemptsTyped'
    BY <1>2 DEF Reserved, Typed, AttemptsTyped
  <1>. QED BY <1>1, <1>3

LEMMA TypedReserveCall ==
  ASSUME Typed, NEW w \in Workers, ReserveCall(w) PROVE Typed'
  <1>1. worker[w].pc # "idle" /\ worker[w].job \in Jobs
    BY BusyHasJob DEF ReserveCall, Typed
  <1>2. OthersTyped'
    BY DEF Typed, OthersTyped, ReserveCall
  <1>3. PICK pc \in {"call", "fail", "usage"} : GoTo(w, pc)
    BY DEF ReserveCall
  <1>4. WorkersTyped'
    BY <1>1, <1>3, GoToTyped DEF Typed, WorkerPCs
  <1>5. JobsTyped' /\ QueuedIsFresh' /\ AttemptsTyped'
    <2>1. CASE UNCHANGED <<jobs, attempts>>
      BY <2>1 DEF Typed, JobsTyped, QueuedIsFresh, AttemptsTyped
    <2>2. CASE Fenced(worker[w].job, worker[w].epoch) /\ Reserved(worker[w].job, worker[w].epoch)
      BY <1>1, <2>2, ReservedTyped DEF Fenced
    <2>. QED BY <2>1, <2>2 DEF ReserveCall
  <1>. QED BY <1>2, <1>4, <1>5 DEF Typed

LEMMA TypedCallModel ==
  ASSUME Typed, NEW w \in Workers, CallModel(w) PROVE Typed'
  <1>1. worker[w].job \in Jobs
    BY BusyHasJob DEF CallModel, Typed
  <1>2. OthersTyped'
    BY <1>1 DEF CallModel, Typed, OthersTyped
  <1>3. WorkersTyped'
    <2>1. \A pc \in {"succeed", "fail"} :
            /\ [worker[w] EXCEPT !.pc = pc, !.called = TRUE] \in WorkerState
            /\ [worker[w] EXCEPT !.pc = pc, !.called = TRUE].pc = pc
            /\ [worker[w] EXCEPT !.pc = pc, !.called = TRUE].job = worker[w].job
      BY DEF Typed, WorkersTyped, WorkerState, WorkerPCs
    <2>2. PICK pc \in {"succeed", "fail"} :
            worker' = [worker EXCEPT ![w] = [worker[w] EXCEPT !.pc = pc, !.called = TRUE]]
      BY DEF CallModel
    <2>. QED BY <1>1, <2>1, <2>2 DEF Typed, WorkersTyped
  <1>4. JobsTyped' /\ QueuedIsFresh' /\ AttemptsTyped'
    BY DEF CallModel, Typed, JobsTyped, QueuedIsFresh, AttemptsTyped
  <1>. QED BY <1>2, <1>3, <1>4 DEF Typed

LEMMA TypedSucceed ==
  ASSUME Typed, NEW w \in Workers, Succeed(w) PROVE Typed'
  <1>1. worker[w].pc # "idle" /\ worker[w].job \in Jobs
    BY BusyHasJob DEF Succeed, Typed
  <1>2. PICK pc \in {"usage", "fail"} : GoTo(w, pc)
    BY DEF Succeed
  <1>3. WorkersTyped'
    BY <1>1, <1>2, GoToTyped DEF Typed, WorkerPCs
  <1>4. \/ UNCHANGED <<jobs, attempts, proposals>>
        \/ /\ Finished(w, "succeeded", jobs[worker[w].job].kind = "outline")
           /\ \E proposed \in BOOLEAN :
                proposals' = [proposals EXCEPT ![worker[w].job].decision =
                                 IF proposed THEN "pending" ELSE @]
    BY DEF Succeed
  <1>5. JobsTyped' /\ QueuedIsFresh' /\ AttemptsTyped'
    <2>1. CASE UNCHANGED <<jobs, attempts, proposals>>
      BY <2>1 DEF Typed, JobsTyped, QueuedIsFresh, AttemptsTyped
    <2>2. CASE Finished(w, "succeeded", jobs[worker[w].job].kind = "outline")
      BY <1>1, <2>2, FinishedTyped
    <2>. QED BY <1>4, <2>1, <2>2
  <1>6. proposals' \in [Jobs -> ProposalRow]
    <2>1. \A p \in ProposalRow, d \in {"none", "pending", "applied"} :
            [p EXCEPT !.decision = d] \in ProposalRow
      BY DEF ProposalRow
    <2>2. proposals[worker[w].job].decision \in {"none", "pending", "applied"}
      BY <1>1 DEF Typed, OthersTyped, ProposalRow
    <2>3. CASE UNCHANGED proposals
      BY <2>3 DEF Typed, OthersTyped
    <2>4. ASSUME NEW proposed \in BOOLEAN,
                 proposals' = [proposals EXCEPT ![worker[w].job].decision =
                                 IF proposed THEN "pending" ELSE @]
          PROVE  proposals' \in [Jobs -> ProposalRow]
      BY <1>1, <2>1, <2>2, <2>4 DEF Typed, OthersTyped
    <2>. QED BY <1>4, <2>3, <2>4
  <1>7. OthersTyped'
    BY <1>6 DEF Succeed, Typed, OthersTyped
  <1>. QED BY <1>3, <1>5, <1>7 DEF Typed

LEMMA TypedFail ==
  ASSUME Typed, NEW w \in Workers, Fail(w) PROVE Typed'
  <1>1. worker[w].pc # "idle"
    BY DEF Fail
  <1>2. WorkersTyped'
    BY <1>1, GoToTyped DEF Fail, Typed, WorkerPCs
  <1>3. OthersTyped'
    BY DEF Fail, Typed, OthersTyped
  <1>4. JobsTyped' /\ QueuedIsFresh' /\ AttemptsTyped'
    <2>1. CASE UNCHANGED <<jobs, attempts>>
      BY <2>1 DEF Typed, JobsTyped, QueuedIsFresh, AttemptsTyped
    <2>2. CASE Finished(w, "failed", FALSE)
      BY <1>1, <2>2, FinishedTyped
    <2>. QED BY <2>1, <2>2 DEF Fail
  <1>. QED BY <1>2, <1>3, <1>4 DEF Typed

LEMMA TypedRecordUsage ==
  ASSUME Typed, NEW w \in Workers, RecordUsage(w) PROVE Typed'
  <1>1. worker[w].job \in Jobs /\ worker[w].called \in BOOLEAN
    BY BusyHasJob DEF RecordUsage, Typed
  <1>. DEFINE j == worker[w].job
              billed == jobs[j].billed \/ (UsageKnown(j, worker[w].epoch) /\ worker[w].called)
  <1>2. billed \in BOOLEAN
    BY Zenon
  <1>3. jobs' = [jobs EXCEPT ![j].billed = billed]
    BY DEF RecordUsage
  <1>. HIDE DEF billed
  <1>4. JobsTyped' /\ QueuedIsFresh'
    BY <1>1, <1>2, <1>3 DEF Typed, JobsTyped, QueuedIsFresh, JobRow
  <1>5. WorkersTyped'
    BY DEF RecordUsage, Typed, WorkersTyped, WorkerState, WorkerPCs, Idle
  <1>6. AttemptsTyped' /\ OthersTyped'
    BY DEF RecordUsage, Typed, AttemptsTyped, OthersTyped
  <1>. QED BY <1>4, <1>5, <1>6 DEF Typed

LEMMA EnqueueRow ==
  ASSUME Typed, NEW j \in Jobs, Enqueue(j)
  PROVE  \E row \in JobRow :
            /\ row.state = "queued" /\ row.attempts = 0 /\ row.requests = 0 /\ row.approved = 0
            /\ row.base = stories[Owner[j]].revision
            /\ row.source # NoJob =>
                  /\ row.source \in Jobs /\ row.read \in 1..MaxRevision
                  /\ OutlineApproved(row.source, j, row.read)
            /\ jobs' = [jobs EXCEPT ![j] = row]
  <1>1. PICK kind \in {"fill", "outline", "concretize"}, s \in Jobs \cup {NoJob}, r \in Nat :
           /\ Enqueued(j, kind, s, r)
           /\ s # NoJob => s \in Jobs /\ r \in 1..MaxRevision /\ OutlineApproved(s, j, r)
    <2>1. ASSUME NEW kind \in {"fill", "outline"}, Enqueued(j, kind, NoJob, 0)
          PROVE  \E k \in {"fill", "outline", "concretize"}, s \in Jobs \cup {NoJob}, r \in Nat :
                    /\ Enqueued(j, k, s, r)
                    /\ s # NoJob => s \in Jobs /\ r \in 1..MaxRevision /\ OutlineApproved(s, j, r)
      <3>1. kind \in {"fill", "outline", "concretize"} /\ NoJob \in Jobs \cup {NoJob} /\ 0 \in Nat
        OBVIOUS
      <3>. QED BY <2>1, <3>1, Zenon
    <2>2. ASSUME NEW t \in Jobs, NEW q \in 1..MaxRevision, OutlineApproved(t, j, q),
                 Enqueued(j, "concretize", t, q)
          PROVE  \E k \in {"fill", "outline", "concretize"}, s \in Jobs \cup {NoJob}, r \in Nat :
                    /\ Enqueued(j, k, s, r)
                    /\ s # NoJob => s \in Jobs /\ r \in 1..MaxRevision /\ OutlineApproved(s, j, r)
      <3>1. "concretize" \in {"fill", "outline", "concretize"} /\ t \in Jobs \cup {NoJob} /\ q \in Nat
        OBVIOUS
      <3>. QED BY <2>2, <3>1, Zenon
    <2>. QED BY <2>1, <2>2, Zenon DEF Enqueue
  <1>. DEFINE row == [NoRow EXCEPT !.state = "queued", !.kind = kind,
                                   !.base = stories[Owner[j]].revision,
                                   !.source = s, !.read = r]
  <1>2. stories[Owner[j]].revision \in Nat
    BY DEF Typed, OthersTyped, Story
  <1>3. row \in JobRow
    BY <1>2, QueuedRow
  <1>4. /\ row.state = "queued" /\ row.attempts = 0 /\ row.requests = 0 /\ row.approved = 0
        /\ row.base = stories[Owner[j]].revision
        /\ row.source = s /\ row.read = r
    BY DEF NoRow
  <1>5. jobs' = [jobs EXCEPT ![j] = row]
    BY <1>1 DEF Enqueued
  <1>. HIDE DEF row
  <1>. QED BY <1>1, <1>3, <1>4, <1>5

LEMMA TypedJobStep ==
  ASSUME Typed, NEW j \in Jobs, JobStep(j) PROVE Typed'
  <1>0. jobs[j] \in JobRow /\ stories[Owner[j]] \in Story
    BY DEF Typed, JobsTyped, OthersTyped
  <1>1. CASE Enqueue(j)
    <2>1. JobsTyped' /\ QueuedIsFresh'
      BY <1>1, EnqueueRow DEF Typed, JobsTyped, QueuedIsFresh
    <2>2. WorkersTyped' /\ AttemptsTyped' /\ OthersTyped'
      BY <1>1 DEF Enqueue, Typed, WorkersTyped, AttemptsTyped, OthersTyped
    <2>. QED BY <2>1, <2>2 DEF Typed
  <1>2. CASE Cancel(j)
    <2>1. JobsTyped' /\ QueuedIsFresh'
      BY <1>2 DEF Cancel, Typed, JobsTyped, QueuedIsFresh, JobRow, JobStates
    <2>2. AttemptsTyped'
      BY <1>2, EndedTyped DEF Cancel, Typed, AttemptsTyped
    <2>3. WorkersTyped' /\ OthersTyped'
      BY <1>2 DEF Cancel, Typed, WorkersTyped, OthersTyped
    <2>. QED BY <2>1, <2>2, <2>3 DEF Typed
  <1>3. CASE EditOutline(j)
    <2>1. JobsTyped' /\ QueuedIsFresh'
      <3>1. [jobs[j] EXCEPT !.outline = @ + 1, !.approved = 0] \in JobRow
            /\ [jobs[j] EXCEPT !.outline = @ + 1, !.approved = 0].state = "succeeded"
        BY <1>0, <1>3, EditedRow DEF EditOutline, OutlineAvailable, JobRow
      <3>2. jobs' = [jobs EXCEPT ![j] = [jobs[j] EXCEPT !.outline = @ + 1, !.approved = 0]]
        BY <1>3 DEF EditOutline
      <3>. QED BY <3>1, <3>2 DEF Typed, JobsTyped, QueuedIsFresh
    <2>2. WorkersTyped' /\ AttemptsTyped' /\ OthersTyped'
      BY <1>3 DEF EditOutline, Typed, WorkersTyped, AttemptsTyped, OthersTyped
    <2>. QED BY <2>1, <2>2 DEF Typed
  <1>4. ASSUME NEW seen \in 1..MaxRevision, ApproveOutline(j, seen) PROVE Typed'
    <2>1. JobsTyped' /\ QueuedIsFresh'
      BY <1>4 DEF ApproveOutline, OutlineAvailable, Typed, JobsTyped, QueuedIsFresh, JobRow,
                  JobStates
    <2>2. WorkersTyped' /\ AttemptsTyped' /\ OthersTyped'
      BY <1>4 DEF ApproveOutline, Typed, WorkersTyped, AttemptsTyped, OthersTyped
    <2>. QED BY <2>1, <2>2 DEF Typed
  <1>5. CASE Apply(j)
    <2>1. proposals' \in [Jobs -> ProposalRow] /\ stories' \in [Owners -> Story]
      BY <1>0, <1>5 DEF Apply, Typed, OthersTyped, ProposalRow, Story
    <2>2. JobsTyped' /\ QueuedIsFresh' /\ WorkersTyped' /\ AttemptsTyped' /\ OthersTyped'
      BY <1>5, <2>1 DEF Apply, Typed, JobsTyped, QueuedIsFresh, WorkersTyped, AttemptsTyped,
                        OthersTyped
    <2>. QED BY <2>2 DEF Typed
  <1>6. CASE Lapse(j)
    <2>1. faults' \in 0..MaxFaults
      BY <1>6 DEF Lapse, MayLapse, Fault, Typed, OthersTyped
    <2>2. JobsTyped' /\ QueuedIsFresh'
      BY <1>6 DEF Lapse, Typed, JobsTyped, QueuedIsFresh, JobRow
    <2>3. WorkersTyped' /\ AttemptsTyped' /\ OthersTyped'
      BY <1>6, <2>1 DEF Lapse, Typed, WorkersTyped, AttemptsTyped, OthersTyped
    <2>. QED BY <2>2, <2>3 DEF Typed
  <1>. QED BY <1>1, <1>2, <1>3, <1>4, <1>5, <1>6 DEF JobStep

LEMMA TypedStoryStep ==
  ASSUME Typed, NEW o \in Owners, StoryStep(o) PROVE Typed'
  <1>1. OthersTyped'
    <2>1. stories' \in [Owners -> Story]
      <3>1. stories[o].revision + 1 \in Nat
        BY DEF Typed, OthersTyped, Story
      <3>2. \A story \in Story :
               /\ story.revision + 1 \in Nat => [story EXCEPT !.revision = @ + 1] \in Story
               /\ \A b \in BOOLEAN : [story EXCEPT !.editable = b] \in Story
        BY DEF Story
      <3>3. CASE SaveDraft(o)
        BY <3>1, <3>2, <3>3 DEF SaveDraft, Typed, OthersTyped
      <3>4. CASE StopStory(o)
        BY <3>2, <3>4 DEF StopStory, Typed, OthersTyped
      <3>5. CASE ResumeStory(o)
        BY <3>2, <3>5 DEF ResumeStory, Typed, OthersTyped
      <3>. QED BY <3>3, <3>4, <3>5 DEF StoryStep
    <2>2. faults' \in 0..MaxFaults
      BY DEF StoryStep, SaveDraft, StopStory, ResumeStory, Fault, Typed, OthersTyped
    <2>. QED BY <2>1, <2>2 DEF StoryStep, SaveDraft, StopStory, ResumeStory, Typed, OthersTyped
  <1>2. JobsTyped' /\ QueuedIsFresh' /\ WorkersTyped' /\ AttemptsTyped'
    BY DEF StoryStep, SaveDraft, StopStory, ResumeStory, Typed, JobsTyped, QueuedIsFresh,
           WorkersTyped, AttemptsTyped
  <1>. QED BY <1>1, <1>2 DEF Typed

LEMMA TypedCrash ==
  ASSUME Typed, NEW w \in Workers, Crash(w) PROVE Typed'
  <1>1. worker[w].job \in Jobs
    BY BusyHasJob DEF Crash, Typed
  <1>2. OthersTyped'
    BY <1>1 DEF Crash, Fault, Typed, OthersTyped
  <1>3. WorkersTyped'
    BY DEF Crash, Typed, WorkersTyped, WorkerState, WorkerPCs, Idle
  <1>4. JobsTyped' /\ QueuedIsFresh' /\ AttemptsTyped'
    BY DEF Crash, Typed, JobsTyped, QueuedIsFresh, AttemptsTyped
  <1>. QED BY <1>2, <1>3, <1>4 DEF Typed

LEMMA TypedStutter == Typed /\ UNCHANGED vars => Typed'
  BY DEF vars, Typed, JobsTyped, QueuedIsFresh, WorkersTyped, AttemptsTyped, OthersTyped

LEMMA TypedNext == Typed /\ [Next]_vars => Typed'
  BY TypedClaim, TypedReserveCall, TypedCallModel, TypedSucceed, TypedFail, TypedRecordUsage,
     TypedJobStep, TypedStoryStep, TypedCrash, TypedStutter
     DEF Next, WorkerStep, Quiescent

LEMMA AlwaysTyped == Spec => []Typed
  BY TypedInit, TypedNext, PTL DEF Spec

\* Every reachable state of the queue is well typed; in particular no job is
\* attempted more often than max_attempts (claim, story_jobs.py:317).
THEOREM JobTypesCorrect == Spec => []TypeOK
  BY AlwaysTyped, TypedIsTypeOK, PTL

-----------------------------------------------------------------------------
(* One provider request per job *)

\* Whoever is at the call, or has called, holds the only reservation.
PaidInv ==
    /\ \A j \in Jobs : sent[j] <= jobs[j].requests
    /\ \A w \in Workers : worker[w].pc \in {"call", "succeed"} => jobs[worker[w].job].requests = 1
    /\ \A w \in Workers : worker[w].pc = "call" => sent[worker[w].job] = 0
    /\ \A v, w \in Workers : /\ worker[v].pc = "call" /\ worker[w].pc = "call"
                             /\ worker[v].job = worker[w].job
                             => v = w

\* A step that leaves the reservations alone and sends nobody to the call.
Unpaid == /\ sent' = sent
          /\ \A j \in Jobs : jobs'[j].requests = jobs[j].requests
          /\ \A w \in Workers : worker'[w] = worker[w] \/ worker'[w].pc \notin {"call", "succeed"}

LEMMA PaidKept == ASSUME Typed, PaidInv, Unpaid PROVE PaidInv'
  <1>1. \A w \in Workers : worker[w].pc \in {"call", "succeed"} => worker[w].job \in Jobs
    BY BusyHasJob DEF Typed
  <1>. QED BY <1>1 DEF PaidInv, Unpaid

LEMMA UnpaidGoTo ==
  ASSUME Typed, NEW w \in Workers, NEW pc \in {"fail", "usage"}, GoTo(w, pc)
  PROVE  \A v \in Workers : worker'[v] = worker[v] \/ worker'[v].pc \notin {"call", "succeed"}
  BY DEF GoTo, Typed, WorkersTyped, WorkerState

LEMMA FinishedRequests ==
  ASSUME Typed, NEW w \in Workers, worker[w].pc # "idle",
         NEW state \in {"succeeded", "failed"}, NEW outline \in BOOLEAN,
         Finished(w, state, outline)
  PROVE  /\ \A k \in Jobs : jobs'[k].requests = jobs[k].requests
         /\ \A k \in Jobs \ {worker[w].job} : jobs'[k] = jobs[k]
         /\ jobs'[worker[w].job].state = state
  BY FinishedKeeps

LEMMA TakenRequests ==
  ASSUME NEW w \in Workers, NEW j \in Jobs, NEW rows \in [Jobs -> JobRow], NEW ended,
         Taken(w, j, rows, ended)
  PROVE  /\ \A k \in Jobs : jobs'[k].requests = rows[k].requests
         /\ \A k \in Jobs \ {j} : jobs'[k] = rows[k]
         /\ jobs'[j].state = "running"
  BY DEF Taken, JobRow

LEMMA UnpaidClaim ==
  ASSUME Typed, NEW w \in Workers, Claim(w) PROVE Unpaid
  <1>. PICK S \in SUBSET Expired :
        \/ \E j \in Jobs : Requeued(S)[j].state = "queued" /\ Taken(w, j, Requeued(S), Closed(S))
        \/ jobs' = Requeued(S) /\ attempts' = Closed(S) /\ UNCHANGED worker
    BY DEF Claim, Expirable
  <1>1. CASE jobs' = Requeued(S) /\ attempts' = Closed(S) /\ UNCHANGED worker
    BY <1>1, RequeuedTyped DEF Unpaid, Claim
  <1>2. ASSUME NEW j \in Jobs, Taken(w, j, Requeued(S), Closed(S)) PROVE Unpaid
    <2>1. \A k \in Jobs : jobs'[k].requests = jobs[k].requests
      BY <1>2, RequeuedTyped, TakenRequests
    <2>2. \A v \in Workers : worker'[v] = worker[v] \/ worker'[v].pc = "reserve"
      BY <1>2 DEF Taken, Typed, WorkersTyped
    <2>. QED BY <2>1, <2>2 DEF Unpaid, Claim
  <1>. QED BY <1>1, <1>2

LEMMA UnpaidJobStep ==
  ASSUME Typed, NEW j \in Jobs, JobStep(j) PROVE Unpaid
  <1>1. sent' = sent /\ worker' = worker
    BY DEF JobStep, Enqueue, Cancel, EditOutline, ApproveOutline, Apply, Lapse
  <1>2. CASE Enqueue(j)
    <2>1. jobs'[j].requests = 0 /\ \A k \in Jobs \ {j} : jobs'[k] = jobs[k]
      BY <1>2, EnqueueRow DEF Typed, JobsTyped
    <2>2. jobs[j].requests = 0
      BY <1>2 DEF Enqueue, Typed, QueuedIsFresh
    <2>. QED BY <1>1, <2>1, <2>2 DEF Unpaid
  <1>3. CASE ~Enqueue(j)
    <2>1. \A k \in Jobs : jobs'[k].requests = jobs[k].requests
      BY <1>3 DEF JobStep, Cancel, EditOutline, ApproveOutline, Apply, Lapse, Typed, JobsTyped,
                  JobRow
    <2>. QED BY <1>1, <2>1 DEF Unpaid
  <1>. QED BY <1>2, <1>3

LEMMA UnpaidOthers ==
  ASSUME Typed,
         \/ \E w \in Workers : Succeed(w) \/ Fail(w) \/ RecordUsage(w) \/ Crash(w)
         \/ \E o \in Owners : StoryStep(o)
         \/ UNCHANGED vars
  PROVE  Unpaid
  <1>1. ASSUME NEW w \in Workers, Succeed(w) PROVE Unpaid
    <2>1. PICK pc \in {"usage", "fail"} : GoTo(w, pc)
      BY <1>1 DEF Succeed
    <2>2. \A k \in Jobs : jobs'[k].requests = jobs[k].requests
      BY <1>1, FinishedRequests DEF Succeed
    <2>. QED BY <1>1, <2>1, <2>2, UnpaidGoTo DEF Unpaid, Succeed
  <1>2. ASSUME NEW w \in Workers, Fail(w) PROVE Unpaid
    <2>1. \A k \in Jobs : jobs'[k].requests = jobs[k].requests
      BY <1>2, FinishedRequests DEF Fail
    <2>. QED BY <1>2, <2>1, UnpaidGoTo DEF Unpaid, Fail
  <1>3. ASSUME NEW w \in Workers, RecordUsage(w) PROVE Unpaid
    <2>1. \A k \in Jobs : jobs'[k].requests = jobs[k].requests
      BY <1>3 DEF RecordUsage, Typed, JobsTyped, JobRow
    <2>. QED BY <1>3, <2>1 DEF Unpaid, RecordUsage, Typed, WorkersTyped, Idle
  <1>4. ASSUME NEW w \in Workers, Crash(w) PROVE Unpaid
    BY <1>4 DEF Unpaid, Crash, Typed, WorkersTyped, Idle
  <1>5. ASSUME NEW o \in Owners, StoryStep(o) PROVE Unpaid
    BY <1>5 DEF Unpaid, StoryStep, SaveDraft, StopStory, ResumeStory
  <1>6. CASE UNCHANGED vars
    BY <1>6 DEF Unpaid, vars
  <1>. QED BY <1>1, <1>2, <1>3, <1>4, <1>5, <1>6

LEMMA PaidReserveCall ==
  ASSUME Typed, PaidInv, NEW w \in Workers, ReserveCall(w) PROVE PaidInv'
  <1>. DEFINE j == worker[w].job
  <1>1. j \in Jobs
    BY BusyHasJob DEF ReserveCall, Typed
  <1>2. CASE UNCHANGED jobs
    <2>1. Unpaid \/ (jobs[j].requests = 0 /\ Reserved(j, worker[w].epoch))
      BY <1>2, UnpaidGoTo DEF ReserveCall, Unpaid
    <2>2. ~(jobs[j].requests = 0 /\ Reserved(j, worker[w].epoch))
      <3>1. Reserved(j, worker[w].epoch) => jobs' = [jobs EXCEPT ![j] = [jobs[j] EXCEPT !.requests = 1]]
        BY DEF Reserved
      <3>2. [jobs[j] EXCEPT !.requests = 1].requests = 1
        BY <1>1 DEF Typed, JobsTyped, JobRow
      <3>3. Reserved(j, worker[w].epoch) => jobs'[j].requests = 1
        BY <1>1, <3>1, <3>2 DEF Typed, JobsTyped
      <3>. QED BY <1>2, <3>3
    <2>. QED BY <2>1, <2>2, PaidKept
  <1>3. CASE /\ jobs[j].requests = 0 /\ Reserved(j, worker[w].epoch)
             /\ \E pc \in {"call", "fail"} : GoTo(w, pc)
    <2>1. jobs'[j].requests = 1 /\ \A k \in Jobs \ {j} : jobs'[k] = jobs[k]
      BY <1>1, <1>3, ReservedKeeps
    <2>2. \A k \in Jobs : jobs'[k].requests \in {0, 1} /\ jobs[k].requests <= jobs'[k].requests
      BY <1>1, <1>3, <2>1 DEF Typed, JobsTyped, JobRow
    <2>3. sent[j] = 0 /\ sent' = sent
      BY <1>1, <1>3 DEF PaidInv, ReserveCall, Typed, OthersTyped
    <2>4. \A v \in Workers : worker[v].pc \in {"call", "succeed"} =>
             worker[v].job \in Jobs \ {j}
      BY <1>3, BusyHasJob DEF PaidInv, Typed
    <2>5. /\ \A v \in Workers \ {w} : worker'[v] = worker[v]
          /\ worker'[w].job = j /\ worker'[w].pc \in {"call", "fail"}
      BY <1>3 DEF GoTo, Typed, WorkersTyped, WorkerState
    <2>6. \A k \in Jobs : sent'[k] <= jobs'[k].requests
      BY <2>1, <2>2, <2>3 DEF PaidInv
    <2>7. \A v \in Workers : worker'[v].pc \in {"call", "succeed"} =>
             jobs'[worker'[v].job].requests = 1
      BY <2>1, <2>4, <2>5 DEF PaidInv
    <2>8. \A v \in Workers : worker'[v].pc = "call" => sent'[worker'[v].job] = 0
      BY <2>3, <2>5 DEF PaidInv
    <2>9. \A u, v \in Workers : /\ worker'[u].pc = "call" /\ worker'[v].pc = "call"
                                /\ worker'[u].job = worker'[v].job
                                => u = v
      BY <2>4, <2>5 DEF PaidInv
    <2>. QED BY <2>6, <2>7, <2>8, <2>9 DEF PaidInv
  <1>. QED BY <1>2, <1>3 DEF ReserveCall

LEMMA PaidCallModel ==
  ASSUME Typed, PaidInv, NEW w \in Workers, CallModel(w) PROVE PaidInv'
  <1>. DEFINE j == worker[w].job
  <1>1. j \in Jobs /\ jobs' = jobs
    BY BusyHasJob DEF CallModel, Typed
  <1>2. sent[j] = 0 /\ jobs[j].requests = 1
    BY DEF CallModel, PaidInv
  <1>3. sent'[j] = 1 /\ \A k \in Jobs \ {j} : sent'[k] = sent[k]
    BY <1>1, <1>2 DEF CallModel, Typed, OthersTyped
  <1>4. /\ \A v \in Workers \ {w} : worker'[v] = worker[v]
        /\ worker'[w].job = j /\ worker'[w].pc \in {"succeed", "fail"}
    BY DEF CallModel, Typed, WorkersTyped, WorkerState
  <1>5. \A v \in Workers \ {w} : worker[v].pc = "call" => worker[v].job \in Jobs \ {j}
    BY BusyHasJob DEF CallModel, PaidInv, Typed
  <1>6. \A k \in Jobs : sent'[k] <= jobs'[k].requests
    BY <1>1, <1>2, <1>3 DEF PaidInv
  <1>7. \A v \in Workers : worker'[v].pc \in {"call", "succeed"} =>
           jobs'[worker'[v].job].requests = 1
    BY <1>1, <1>2, <1>4 DEF PaidInv
  <1>8. \A v \in Workers : worker'[v].pc = "call" => sent'[worker'[v].job] = 0
    BY <1>3, <1>4, <1>5 DEF PaidInv
  <1>9. \A u, v \in Workers : /\ worker'[u].pc = "call" /\ worker'[v].pc = "call"
                              /\ worker'[u].job = worker'[v].job
                              => u = v
    BY <1>4 DEF PaidInv
  <1>. QED BY <1>6, <1>7, <1>8, <1>9 DEF PaidInv

LEMMA PaidInit == Init => PaidInv
  BY DEF Init, PaidInv, NoRow, Idle

LEMMA PaidNext == Typed /\ PaidInv /\ [Next]_vars => PaidInv'
  BY PaidKept, UnpaidClaim, UnpaidJobStep, UnpaidOthers, PaidReserveCall, PaidCallModel
     DEF Next, WorkerStep, Quiescent

LEMMA AlwaysPaid == Spec => []PaidInv
  BY AlwaysTyped, PaidInit, PaidNext, PTL DEF Spec

\* A job costs at most one provider request, for any number of workers, attempts
\* and faults (reserve_call, story_jobs.py:396).
THEOREM OneRequestCorrect == Spec => []OneRequestPerJob
  <1>1. Typed /\ PaidInv => OneRequestPerJob
    BY DEF Typed, JobsTyped, OthersTyped, JobRow, PaidInv, OneRequestPerJob
  <1>. QED BY <1>1, AlwaysTyped, AlwaysPaid, PTL

-----------------------------------------------------------------------------
(* What a step does to the states of jobs *)

RequestsKept == \A k \in Jobs : jobs'[k].requests = jobs[k].requests
OtherStatesKept(j) == \A k \in Jobs \ {j} : jobs'[k].state = jobs[k].state

Quiet == RequestsKept /\ \A k \in Jobs : jobs'[k].state = jobs[k].state

Submitted(j) == /\ Enqueue(j)
                /\ jobs[j].state = "absent" /\ jobs'[j].state = "queued"
                /\ OtherStatesKept(j) /\ RequestsKept

Asks(j) == /\ jobs[j].state = "running" /\ jobs[j].requests = 0 /\ jobs'[j].requests = 1
           /\ \A k \in Jobs : jobs'[k].state = jobs[k].state
           /\ \A k \in Jobs \ {j} : jobs'[k].requests = jobs[k].requests

EndsAs(j, state) == /\ jobs[j].state \in Active /\ jobs'[j].state = state
                    /\ state = "succeeded" => jobs[j].requests = 1
                    /\ OtherStatesKept(j) /\ RequestsKept

\* A pass over the expired jobs S that fails those in G, then takes a queued job.
Swept(S, G) == /\ G \subseteq S
               /\ \A k \in S : jobs[k].state = "running"
               /\ \A k \in G : jobs'[k].state = "failed"
               /\ \A k \in S \ G : jobs'[k].state \in Active
               /\ \A k \in Jobs \ S : \/ jobs'[k].state = jobs[k].state
                                      \/ jobs[k].state = "queued" /\ jobs'[k].state = "running"
               /\ \/ \A k \in Jobs : jobs'[k].state = "running" => jobs[k].state = "running"
                  \/ Cardinality(Running(jobs)') <= MaxRunning
               /\ RequestsKept

LEMMA SweptByClaim ==
  ASSUME Typed, NEW w \in Workers, Claim(w)
  PROVE  \E S, G \in SUBSET Jobs : Swept(S, G)
  <1>. PICK S \in SUBSET Expired :
        \/ /\ SlotFree(Requeued(S))
           /\ \E j \in Jobs :
                Requeued(S)[j].state = "queued" /\ Taken(w, j, Requeued(S), Closed(S))
        \/ jobs' = Requeued(S) /\ attempts' = Closed(S) /\ UNCHANGED worker
    BY DEF Claim, Expirable
  <1>. DEFINE G == {k \in S : Exhausted(jobs[k])}
  <1>1. /\ S \subseteq Jobs /\ G \subseteq S
        /\ \A k \in S : jobs[k].state = "running"
    BY DEF Expired
  <1>2. /\ \A k \in G : Requeued(S)[k].state = "failed"
        /\ \A k \in S \ G : Requeued(S)[k].state = "queued"
        /\ \A k \in Jobs \ S : Requeued(S)[k] = jobs[k]
    <2>1. ASSUME NEW k \in S
          PROVE  Requeued(S)[k].state = IF Exhausted(jobs[k]) THEN "failed" ELSE "queued"
      <3>1. Requeued(S)[k] = [jobs[k] EXCEPT
                  !.state = IF Exhausted(jobs[k]) THEN "failed" ELSE "queued",
                  !.lease = "none", !.epoch = @ + 1]
        BY <1>1 DEF Requeued
      <3>2. jobs[k] \in JobRow
        BY <1>1 DEF Typed, JobsTyped
      <3>. QED BY <3>1, <3>2 DEF JobRow
    <2>2. \A k \in Jobs \ S : Requeued(S)[k] = jobs[k]
      BY DEF Requeued
    <2>. QED BY <2>1, <2>2
  <1>3. /\ Requeued(S) \in [Jobs -> JobRow]
        /\ \A k \in Jobs : Requeued(S)[k].requests = jobs[k].requests
    BY RequeuedTyped
  <1>4. CASE jobs' = Requeued(S)
    <2>1. \A k \in Jobs : jobs'[k].state = "running" => jobs[k].state = "running"
      BY <1>1, <1>2, <1>4
    <2>2. Swept(S, G)
      BY <1>1, <1>2, <1>3, <1>4, <2>1 DEF Swept, RequestsKept, Active
    <2>. QED BY <1>1, <2>2
  <1>5. ASSUME SlotFree(Requeued(S)), NEW j \in Jobs, Requeued(S)[j].state = "queued",
               Taken(w, j, Requeued(S), Closed(S))
        PROVE  \E R, H \in SUBSET Jobs : Swept(R, H)
    <2>1. /\ \A k \in Jobs : jobs'[k].requests = jobs[k].requests
          /\ \A k \in Jobs \ {j} : jobs'[k].state = Requeued(S)[k].state
          /\ jobs'[j].state = "running"
      BY <1>3, <1>5, TakenRequests
    <2>2. j \notin G
      BY <1>2, <1>5
    <2>3. Running(jobs)' = Running(Requeued(S)) \cup {j} /\ j \notin Running(Requeued(S))
      BY <1>5, <2>1 DEF Running
    <2>4. Cardinality(Running(jobs)') <= MaxRunning
      <3>1. IsFiniteSet(Running(Requeued(S)))
        BY FS_Subset DEF Running
      <3>2. Cardinality(Running(jobs)') = Cardinality(Running(Requeued(S))) + 1
        BY <2>3, <3>1, FS_AddElement
      <3>3. Cardinality(Running(Requeued(S))) \in Nat
        BY <3>1, FS_CardinalityType
      <3>. QED BY <1>5, <3>2, <3>3 DEF SlotFree
    <2>5. Swept(S, G)
      BY <1>1, <1>2, <1>5, <2>1, <2>2, <2>4 DEF Swept, RequestsKept, Active
    <2>. QED BY <1>1, <2>5
  <1>. QED BY <1>4, <1>5

LEMMA WorkerSteps ==
  ASSUME Typed, PaidInv, NEW w \in Workers,
         ReserveCall(w) \/ CallModel(w) \/ Succeed(w) \/ Fail(w) \/ RecordUsage(w) \/ Crash(w)
  PROVE  Quiet \/ \E j \in Jobs : Asks(j) \/ \E state \in {"succeeded", "failed"} : EndsAs(j, state)
  <1>. DEFINE j == worker[w].job
  <1>1. worker[w].pc # "idle" /\ j \in Jobs
    BY BusyHasJob DEF ReserveCall, CallModel, Succeed, Fail, RecordUsage, Crash, Typed
  <1>2. CASE UNCHANGED jobs
    BY <1>2 DEF Quiet, RequestsKept
  <1>3. CASE /\ ReserveCall(w) /\ Fenced(j, worker[w].epoch) /\ jobs[j].requests = 0
             /\ Reserved(j, worker[w].epoch)
    <2>1. Asks(j)
      <3>1. jobs' = [jobs EXCEPT ![j] = [jobs[j] EXCEPT !.requests = 1]]
        BY <1>3 DEF Reserved
      <3>2. [jobs[j] EXCEPT !.requests = 1].requests = 1
            /\ [jobs[j] EXCEPT !.requests = 1].state = jobs[j].state
        BY <1>1 DEF Typed, JobsTyped, JobRow
      <3>. QED BY <1>1, <1>3, <3>1, <3>2 DEF Asks, Fenced, Typed, JobsTyped
    <2>. QED BY <1>1, <2>1
  <1>4. ASSUME NEW state \in {"succeeded", "failed"}, NEW outline \in BOOLEAN,
               Fenced(j, worker[w].epoch), Finished(w, state, outline),
               state = "succeeded" => worker[w].pc = "succeed"
        PROVE  EndsAs(j, state)
    <2>1. state = "succeeded" => jobs[j].requests = 1
      BY <1>4 DEF PaidInv
    <2>. QED BY <1>1, <1>4, <2>1, FinishedRequests
             DEF EndsAs, RequestsKept, OtherStatesKept, Fenced, Active
  <1>5. CASE Succeed(w)
    <2>1. \/ UNCHANGED jobs
          \/ /\ Fenced(j, worker[w].epoch)
             /\ Finished(w, "succeeded", jobs[j].kind = "outline")
      BY <1>5 DEF Succeed
    <2>2. Quiet \/ EndsAs(j, "succeeded")
      BY <1>2, <1>4, <1>5, <2>1 DEF Succeed, Quiet, RequestsKept
    <2>. QED BY <1>1, <2>2
  <1>6. CASE Fail(w)
    <2>1. Quiet \/ EndsAs(j, "failed")
      BY <1>4, <1>6 DEF Fail, Quiet, RequestsKept
    <2>. QED BY <1>1, <2>1
  <1>7. CASE RecordUsage(w)
    BY <1>1, <1>7 DEF RecordUsage, Quiet, RequestsKept, Typed, JobsTyped, JobRow
  <1>. QED BY <1>2, <1>3, <1>5, <1>6, <1>7 DEF ReserveCall, CallModel, Crash

LEMMA JobSteps ==
  ASSUME Typed, NEW j \in Jobs, JobStep(j)
  PROVE  Quiet \/ Submitted(j) \/ EndsAs(j, "cancelled")
  <1>1. CASE Enqueue(j)
    BY <1>1, EnqueueRow DEF Submitted, Enqueue, OtherStatesKept, RequestsKept, Typed, JobsTyped,
                            QueuedIsFresh
  <1>2. CASE Cancel(j)
    BY <1>2 DEF Cancel, MayCancel, EndsAs, OtherStatesKept, RequestsKept, Typed, JobsTyped, JobRow
  <1>3. CASE ~Enqueue(j) /\ ~Cancel(j)
    BY <1>3 DEF JobStep, EditOutline, ApproveOutline, Apply, Lapse, Quiet, RequestsKept, Typed,
                JobsTyped, JobRow
  <1>. QED BY <1>1, <1>2, <1>3

StateStep == \/ Quiet
             \/ \E j \in Jobs : \/ Submitted(j) \/ Asks(j)
                                \/ \E state \in {"succeeded", "failed", "cancelled"} : EndsAs(j, state)
             \/ \E S, G \in SUBSET Jobs : Swept(S, G)

LEMMA StateSteps == Typed /\ PaidInv /\ [Next]_vars => StateStep
  <1>. SUFFICES ASSUME Typed, PaidInv, [Next]_vars PROVE StateStep
    OBVIOUS
  <1>1. ASSUME NEW w \in Workers, WorkerStep(w) \/ Crash(w) PROVE StateStep
    BY <1>1, SweptByClaim, WorkerSteps DEF WorkerStep, StateStep
  <1>2. ASSUME NEW j \in Jobs, JobStep(j) PROVE StateStep
    BY <1>2, JobSteps DEF StateStep
  <1>3. ASSUME NEW o \in Owners, StoryStep(o) PROVE StateStep
    BY <1>3 DEF StoryStep, SaveDraft, StopStory, ResumeStory, StateStep, Quiet, RequestsKept
  <1>4. CASE UNCHANGED vars
    BY <1>4 DEF vars, StateStep, Quiet, RequestsKept
  <1>. QED BY <1>1, <1>2, <1>3, <1>4 DEF Next, Quiescent

-----------------------------------------------------------------------------
(* The limits *)

LEMMA LimitsKept ==
  ASSUME WithinLimits,
         \A k \in Jobs : jobs'[k].state \in Active => jobs[k].state \in Active,
         \/ \A k \in Jobs : jobs'[k].state = "running" => jobs[k].state = "running"
         \/ Cardinality(Running(jobs)') <= MaxRunning
  PROVE  WithinLimits'
  <1>1. Cardinality(Running(jobs)') <= MaxRunning
    <2>1. CASE \A k \in Jobs : jobs'[k].state = "running" => jobs[k].state = "running"
      <3>1. Running(jobs)' \subseteq Running(jobs) /\ Running(jobs) \subseteq Jobs
        BY <2>1 DEF Running
      <3>2. /\ IsFiniteSet(Running(jobs)) /\ IsFiniteSet(Running(jobs)')
            /\ Cardinality(Running(jobs)') <= Cardinality(Running(jobs))
        BY <3>1, FS_Subset
      <3>3. Cardinality(Running(jobs)) \in Nat /\ Cardinality(Running(jobs)') \in Nat
        BY <3>2, FS_CardinalityType
      <3>. QED BY <3>2, <3>3 DEF WithinLimits
    <2>. QED BY <2>1
  <1>2. ASSUME NEW o \in Owners PROVE Cardinality(ActiveOf(o)') <= MaxActive
    <2>1. ActiveOf(o)' \subseteq ActiveOf(o) /\ ActiveOf(o) \subseteq Jobs
      BY DEF ActiveOf
    <2>2. /\ IsFiniteSet(ActiveOf(o)) /\ IsFiniteSet(ActiveOf(o)')
          /\ Cardinality(ActiveOf(o)') <= Cardinality(ActiveOf(o))
      BY <2>1, FS_Subset
    <2>3. Cardinality(ActiveOf(o)) \in Nat /\ Cardinality(ActiveOf(o)') \in Nat
      BY <2>2, FS_CardinalityType
    <2>. QED BY <2>2, <2>3 DEF WithinLimits
  <1>. QED BY <1>1, <1>2 DEF WithinLimits

LEMMA LimitsSubmitted ==
  ASSUME WithinLimits, NEW j \in Jobs, Submitted(j) PROVE WithinLimits'
  <1>1. Running(jobs)' = Running(jobs)
    BY DEF Submitted, OtherStatesKept, Running
  <1>2. ASSUME NEW o \in Owners PROVE Cardinality(ActiveOf(o)') <= MaxActive
    <2>1. CASE o = Owner[j]
      <3>1. ActiveOf(o)' = ActiveOf(o) \cup {j} /\ j \notin ActiveOf(o)
        BY <2>1 DEF Submitted, OtherStatesKept, ActiveOf, Active
      <3>2. IsFiniteSet(ActiveOf(o))
        BY FS_Subset DEF ActiveOf
      <3>3. /\ Cardinality(ActiveOf(o)') = Cardinality(ActiveOf(o)) + 1
            /\ Cardinality(ActiveOf(o)) \in Nat
        BY <3>1, <3>2, FS_AddElement, FS_CardinalityType
      <3>. QED BY <2>1, <3>3 DEF Submitted, Enqueue
    <2>2. CASE o # Owner[j]
      <3>1. ActiveOf(o)' = ActiveOf(o)
        BY <2>2 DEF Submitted, OtherStatesKept, ActiveOf
      <3>. QED BY <3>1 DEF WithinLimits
    <2>. QED BY <2>1, <2>2
  <1>. QED BY <1>1, <1>2 DEF WithinLimits

LEMMA LimitsNext == WithinLimits /\ StateStep => WithinLimits'
  <1>. SUFFICES ASSUME WithinLimits, StateStep PROVE WithinLimits'
    OBVIOUS
  <1>1. CASE Quiet
    BY <1>1, LimitsKept DEF Quiet
  <1>2. ASSUME NEW j \in Jobs, Submitted(j) PROVE WithinLimits'
    BY <1>2, LimitsSubmitted
  <1>3. ASSUME NEW j \in Jobs, Asks(j) PROVE WithinLimits'
    BY <1>3, LimitsKept DEF Asks
  <1>4. ASSUME NEW j \in Jobs, NEW state \in {"succeeded", "failed", "cancelled"},
               EndsAs(j, state)
        PROVE  WithinLimits'
    <2>1. \A k \in Jobs : jobs'[k].state \in Active => jobs'[k].state = jobs[k].state
      BY <1>4 DEF EndsAs, OtherStatesKept, Active
    <2>. QED BY <2>1, LimitsKept DEF Active
  <1>5. ASSUME NEW S \in SUBSET Jobs, NEW G \in SUBSET Jobs, Swept(S, G) PROVE WithinLimits'
    <2>1. \A k \in Jobs : jobs'[k].state \in Active => jobs[k].state \in Active
      BY <1>5 DEF Swept, Active
    <2>. QED BY <1>5, <2>1, LimitsKept DEF Swept
  <1>. QED BY <1>1, <1>2, <1>3, <1>4, <1>5 DEF StateStep

LEMMA LimitsInit == Init => WithinLimits
  <1>. SUFFICES ASSUME Init PROVE WithinLimits
    OBVIOUS
  <1>1. Running(jobs) = {} /\ \A o \in Owners : ActiveOf(o) = {}
    BY DEF Init, NoRow, Running, ActiveOf, Active
  <1>. QED BY <1>1, FS_EmptySet DEF WithinLimits

\* max_running and max_active_per_owner hold over any number of workers and
\* submissions (claim and enqueue, story_jobs.py:335 and 154).
THEOREM LimitsCorrect == Spec => []WithinLimits
  <1>1. Typed /\ PaidInv /\ WithinLimits /\ [Next]_vars => WithinLimits'
    BY StateSteps, LimitsNext
  <1>. QED BY <1>1, LimitsInit, AlwaysTyped, AlwaysPaid, PTL DEF Spec

-----------------------------------------------------------------------------
(* The refinement *)

LEMMA ContractStart == Init => Contract!Init
  <1>. SUFFICES ASSUME Init PROVE Contract!Init
    OBVIOUS
  <1>1. \A j \in Jobs : jobs[j].state = "absent" /\ jobs[j].requests = 0
    BY DEF Init, NoRow
  <1>2. Outcome = [j \in Jobs |-> "absent"]
    BY <1>1 DEF Outcome, Active
  <1>3. Asked = [j \in Jobs |-> FALSE]
    <2>1. \A j \in Jobs : (jobs[j].requests = 1) = FALSE
      BY <1>1
    <2>. QED BY <2>1, Zenon DEF Asked
  <1>. QED BY <1>2, <1>3 DEF Contract!Init

LEMMA ContractStep == Typed /\ StateStep => [Contract!Next]_(Contract!cvars)
  <1>. SUFFICES ASSUME Typed, StateStep PROVE [Contract!Next]_(Contract!cvars)
    OBVIOUS
  <1>0. /\ Outcome = [k \in Jobs |-> Outcome[k]] /\ Asked = [k \in Jobs |-> Asked[k]]
        /\ Outcome' = [k \in Jobs |-> Outcome'[k]] /\ Asked' = [k \in Jobs |-> Asked'[k]]
    BY DEF Outcome, Asked
  <1>1. \A k \in Jobs :
          /\ Outcome[k] = IF jobs[k].state \in Active THEN "waiting" ELSE jobs[k].state
          /\ Outcome'[k] = IF jobs'[k].state \in Active THEN "waiting" ELSE jobs'[k].state
          /\ Asked[k] = (jobs[k].requests = 1) /\ Asked'[k] = (jobs'[k].requests = 1)
    BY DEF Outcome, Asked
  <1>2. RequestsKept => Asked' = Asked
    BY DEF RequestsKept, Asked
  <1>3. CASE Quiet
    <2>1. Outcome' = Outcome
      BY <1>3 DEF Quiet, Outcome
    <2>. QED BY <1>2, <1>3, <2>1 DEF Quiet, Contract!cvars
  <1>4. ASSUME NEW j \in Jobs, OtherStatesKept(j)
        PROVE  Outcome' = [Outcome EXCEPT ![j] = Outcome'[j]]
    <2>1. \A k \in Jobs \ {j} : Outcome'[k] = Outcome[k]
      BY <1>1, <1>4 DEF OtherStatesKept
    <2>. QED BY <1>0, <2>1
  <1>5. ASSUME NEW j \in Jobs, Submitted(j) PROVE Contract!Next
    <2>1. Contract!Waiting(Owner[j]) = ActiveOf(Owner[j])
      BY <1>1 DEF Contract!Waiting, ActiveOf, Active, Typed, JobsTyped, JobRow, JobStates
    <2>2. Outcome[j] = "absent" /\ Outcome'[j] = "waiting"
      BY <1>1, <1>5 DEF Submitted, Active
    <2>3. Outcome' = [Outcome EXCEPT ![j] = "waiting"] /\ Asked' = Asked
      BY <1>2, <1>4, <1>5, <2>2 DEF Submitted
    <2>4. Contract!Cardinality(Contract!Waiting(Owner[j])) < MaxActive
      <3>1. Contract!Cardinality(ActiveOf(Owner[j])) = Cardinality(ActiveOf(Owner[j]))
        BY Zenon DEF Contract!Cardinality, Cardinality
      <3>. QED BY <1>5, <2>1, <3>1 DEF Submitted, Enqueue
    <2>5. Contract!Submit(j)
      BY <2>2, <2>3, <2>4 DEF Contract!Submit
    <2>. QED BY <2>5 DEF Contract!Next
  <1>6. ASSUME NEW j \in Jobs, Asks(j) PROVE Contract!Next
    <2>1. Outcome' = Outcome
      BY <1>6 DEF Asks, Outcome
    <2>2. Asked' = [Asked EXCEPT ![j] = TRUE]
      <3>1. \A k \in Jobs \ {j} : Asked'[k] = Asked[k]
        BY <1>1, <1>6 DEF Asks
      <3>2. Asked'[j] = TRUE
        BY <1>1, <1>6 DEF Asks
      <3>. QED BY <1>0, <3>1, <3>2
    <2>3. Outcome[j] = "waiting" /\ ~Asked[j]
      <3>1. Outcome[j] = "waiting" /\ jobs[j].requests # 1
        BY <1>1, <1>6 DEF Asks, Active
      <3>. QED BY <1>1, <3>1, Zenon
    <2>4. Contract!Ask(j)
      BY <2>1, <2>2, <2>3 DEF Contract!Ask
    <2>. QED BY <2>4 DEF Contract!Next
  <1>7. ASSUME NEW j \in Jobs, EndsAs(j, "succeeded") PROVE Contract!Next
    <2>1. Contract!Deliver(j)
      BY ZenonT(60), <1>1, <1>2, <1>4, <1>7 DEF Contract!Deliver, EndsAs, Active
    <2>. QED BY <2>1 DEF Contract!Next
  <1>8. ASSUME NEW j \in Jobs, EndsAs(j, "cancelled") PROVE Contract!Next
    <2>1. Contract!Withdraw(j)
      BY <1>1, <1>2, <1>4, <1>8 DEF Contract!Withdraw, EndsAs, Active
    <2>. QED BY <2>1 DEF Contract!Next
  <1>9. ASSUME NEW j \in Jobs, EndsAs(j, "failed") PROVE Contract!Next
    <2>1. Outcome' = [k \in Jobs |-> IF k \in {j} THEN "failed" ELSE Outcome[k]]
      BY <1>0, <1>1, <1>4, <1>9 DEF EndsAs, Active
    <2>2. Contract!GiveUp({j})
      BY <1>1, <1>2, <1>9, <2>1 DEF Contract!GiveUp, EndsAs
    <2>. QED BY <2>2 DEF Contract!Next
  <1>10. ASSUME NEW S \in SUBSET Jobs, NEW G \in SUBSET Jobs, Swept(S, G) PROVE Contract!Next
    <2>1. \A k \in Jobs : Outcome'[k] = IF k \in G THEN "failed" ELSE Outcome[k]
      BY <1>1, <1>10 DEF Swept, Active
    <2>2. \A k \in G : Outcome[k] = "waiting"
      BY <1>1, <1>10 DEF Swept, Active
    <2>3. Contract!GiveUp(G)
      BY <1>0, <1>2, <1>10, <2>1, <2>2 DEF Contract!GiveUp, Swept
    <2>. QED BY <2>3 DEF Contract!Next
  <1>. QED BY <1>3, <1>5, <1>6, <1>7, <1>8, <1>9, <1>10 DEF StateStep

\* Claims, takeovers, cancellations and late results implement the contract: a
\* job ends once, succeeds only if paid for, and is paid for once.
THEOREM JobContractImplemented == Spec => ImplementsJobContract
  <1>1. Typed /\ PaidInv /\ [Next]_vars => [Contract!Next]_(Contract!cvars)
    BY StateSteps, ContractStep
  <1>. QED BY <1>1, ContractStart, AlwaysTyped, AlwaysPaid, PTL
           DEF Spec, ImplementsJobContract, Contract!Spec

-----------------------------------------------------------------------------
(* Outlines and proposals *)

SameOrigin(row, old) == /\ row.base = old.base /\ row.source = old.source /\ row.read = old.read

OriginKept == \A k \in Jobs : SameOrigin(jobs'[k], jobs[k]) /\ jobs'[k].approved = jobs[k].approved

LEMMA OriginRequeued ==
  ASSUME Typed, NEW S \in SUBSET Expired, NEW k \in Jobs
  PROVE  SameOrigin(Requeued(S)[k], jobs[k]) /\ Requeued(S)[k].approved = jobs[k].approved
  <1>1. \/ Requeued(S)[k] = jobs[k]
        \/ Requeued(S)[k] = [jobs[k] EXCEPT
                !.state = IF Exhausted(jobs[k]) THEN "failed" ELSE "queued",
                !.lease = "none", !.epoch = @ + 1]
    BY DEF Requeued
  <1>2. jobs[k] \in JobRow
    BY DEF Typed, JobsTyped
  <1>. QED BY <1>1, <1>2 DEF SameOrigin, JobRow

LEMMA OriginClaim ==
  ASSUME Typed, NEW w \in Workers, Claim(w) PROVE OriginKept
  <1>. PICK S \in SUBSET Expired :
        \/ \E j \in Jobs : Taken(w, j, Requeued(S), Closed(S))
        \/ jobs' = Requeued(S)
    BY DEF Claim, Expirable
  <1>1. CASE jobs' = Requeued(S)
    BY <1>1, OriginRequeued DEF OriginKept
  <1>2. ASSUME NEW j \in Jobs, Taken(w, j, Requeued(S), Closed(S)) PROVE OriginKept
    <2>1. Requeued(S) \in [Jobs -> JobRow]
      BY RequeuedTyped
    <2>2. \A k \in Jobs : SameOrigin(jobs'[k], Requeued(S)[k])
                          /\ jobs'[k].approved = Requeued(S)[k].approved
      <3>1. \A k \in Jobs \ {j} : jobs'[k] = Requeued(S)[k]
        BY <1>2, <2>1, TakenRequests
      <3>2. jobs'[j] = [Requeued(S)[j] EXCEPT !.state = "running", !.lease = "live",
                                              !.attempts = @ + 1, !.epoch = @ + 1]
        BY <1>2, <2>1 DEF Taken
      <3>3. Requeued(S)[j] \in JobRow
        BY <2>1
      <3>4. SameOrigin(jobs'[j], Requeued(S)[j]) /\ jobs'[j].approved = Requeued(S)[j].approved
        BY <3>2, <3>3 DEF SameOrigin, JobRow
      <3>. QED BY <3>1, <3>4 DEF SameOrigin
    <2>. QED BY <2>2, OriginRequeued DEF OriginKept, SameOrigin
  <1>. QED BY <1>1, <1>2

LEMMA OriginFinished ==
  ASSUME Typed, NEW w \in Workers, worker[w].pc # "idle", NEW state, NEW outline \in BOOLEAN,
         Finished(w, state, outline)
  PROVE  OriginKept
  <1>1. worker[w].job \in Jobs
    BY BusyHasJob DEF Typed
  <1>. QED BY <1>1, FinishedKeeps DEF OriginKept, SameOrigin

LEMMA OriginWorker ==
  ASSUME Typed, NEW w \in Workers, WorkerStep(w) \/ Crash(w) PROVE OriginKept
  <1>1. CASE UNCHANGED jobs
    BY <1>1 DEF OriginKept, SameOrigin
  <1>2. CASE Claim(w)
    BY <1>2, OriginClaim
  <1>3. CASE Succeed(w)
    BY <1>1, <1>3, OriginFinished DEF Succeed
  <1>4. CASE Fail(w)
    BY <1>1, <1>4, OriginFinished DEF Fail
  <1>5. CASE RecordUsage(w)
    BY <1>5 DEF RecordUsage, OriginKept, SameOrigin, Typed, JobsTyped, JobRow
  <1>6. CASE ReserveCall(w)
    <2>0. worker[w].job \in Jobs
      BY <1>6, BusyHasJob DEF ReserveCall, Typed
    <2>1. ASSUME Reserved(worker[w].job, worker[w].epoch) PROVE OriginKept
      BY <2>0, <2>1, ReservedKeeps DEF OriginKept, SameOrigin
    <2>. QED BY <1>1, <1>6, <2>1 DEF ReserveCall
  <1>. QED BY <1>1, <1>2, <1>3, <1>4, <1>5, <1>6 DEF WorkerStep, CallModel, Crash

LEMMA OriginJobStep ==
  ASSUME Typed, NEW j \in Jobs, Cancel(j) \/ Apply(j) \/ Lapse(j) PROVE OriginKept
  BY DEF Cancel, Apply, Lapse, OriginKept, SameOrigin, Typed, JobsTyped, JobRow

LEMMA OriginStory ==
  ASSUME (\E o \in Owners : StoryStep(o)) \/ UNCHANGED vars PROVE OriginKept
  BY DEF StoryStep, SaveDraft, StopStory, ResumeStory, vars, OriginKept, SameOrigin

\* An approval in force was given for the text in force.
ApprovalInv == /\ \A j \in Jobs : jobs[j].approved # 0 => <<j, jobs[j].approved>> \in approvals
               /\ OutlineWasApproved

LEMMA ApprovalKept ==
  ASSUME ApprovalInv, OriginKept, approvals \subseteq approvals' PROVE ApprovalInv'
  BY DEF ApprovalInv, OutlineWasApproved, OriginKept, SameOrigin

LEMMA ApprovalNext == Typed /\ ApprovalInv /\ [Next]_vars => ApprovalInv'
  <1>. SUFFICES ASSUME Typed, ApprovalInv, [Next]_vars PROVE ApprovalInv'
    OBVIOUS
  <1>1. ASSUME NEW w \in Workers, WorkerStep(w) \/ Crash(w) PROVE ApprovalInv'
    <2>1. approvals' = approvals
      BY <1>1 DEF WorkerStep, Claim, ReserveCall, CallModel, Succeed, Fail, RecordUsage, Crash
    <2>. QED BY <1>1, <2>1, OriginWorker, ApprovalKept
  <1>2. ASSUME NEW j \in Jobs, Enqueue(j) PROVE ApprovalInv'
    <2>1. approvals' = approvals
      BY <1>2 DEF Enqueue
    <2>2. PICK row \in JobRow :
            /\ row.approved = 0
            /\ row.source # NoJob =>
                  /\ row.source \in Jobs /\ row.read \in 1..MaxRevision
                  /\ OutlineApproved(row.source, j, row.read)
            /\ jobs' = [jobs EXCEPT ![j] = row]
      BY <1>2, EnqueueRow
    <2>3. row.source # NoJob => <<row.source, row.read>> \in approvals
      BY <2>2 DEF OutlineApproved, ApprovalInv
    <2>. QED BY <2>1, <2>2, <2>3 DEF ApprovalInv, OutlineWasApproved, Typed, JobsTyped
  <1>3. ASSUME NEW j \in Jobs, EditOutline(j) PROVE ApprovalInv'
    <2>1. /\ jobs'[j].approved = 0 /\ SameOrigin(jobs'[j], jobs[j])
          /\ \A k \in Jobs \ {j} : jobs'[k] = jobs[k]
          /\ approvals' = approvals
      BY <1>3 DEF EditOutline, SameOrigin, Typed, JobsTyped, JobRow
    <2>. QED BY <2>1 DEF ApprovalInv, OutlineWasApproved, SameOrigin
  <1>4. ASSUME NEW j \in Jobs, NEW seen \in 1..MaxRevision, ApproveOutline(j, seen)
        PROVE  ApprovalInv'
    <2>1. /\ jobs'[j].approved = seen /\ SameOrigin(jobs'[j], jobs[j])
          /\ \A k \in Jobs \ {j} : jobs'[k] = jobs[k]
          /\ approvals' = approvals \cup {<<j, seen>>}
      BY <1>4 DEF ApproveOutline, ExpectedOutline, SameOrigin, Typed, JobsTyped, JobRow
    <2>. QED BY <2>1 DEF ApprovalInv, OutlineWasApproved, SameOrigin
  <1>5. ASSUME NEW j \in Jobs, Cancel(j) \/ Apply(j) \/ Lapse(j) PROVE ApprovalInv'
    <2>1. approvals' = approvals
      BY <1>5 DEF Cancel, Apply, Lapse
    <2>. QED BY <1>5, <2>1, OriginJobStep, ApprovalKept
  <1>6. CASE (\E o \in Owners : StoryStep(o)) \/ UNCHANGED vars
    <2>1. approvals' = approvals
      BY <1>6 DEF StoryStep, SaveDraft, StopStory, ResumeStory, vars
    <2>. QED BY <1>6, <2>1, OriginStory, ApprovalKept
  <1>. QED BY <1>1, <1>2, <1>3, <1>4, <1>5, <1>6 DEF Next, JobStep, Quiescent

\* A job concretizes only an outline text its author saw and approved
\* (enqueue and edit_outline, story_jobs.py:142 and 252).
THEOREM OutlineApprovalCorrect == Spec => []OutlineWasApproved
  <1>1. Init => ApprovalInv
    BY DEF Init, NoRow, ApprovalInv, OutlineWasApproved
  <1>2. ApprovalInv => OutlineWasApproved
    BY DEF ApprovalInv
  <1>. QED BY <1>1, <1>2, ApprovalNext, AlwaysTyped, PTL DEF Spec

\* An adopted proposal became the revision after its base, and no later draft
\* has that number again.
AdoptionInv ==
    /\ \A j \in Jobs : proposals[j].decision # "none" => jobs[j].state = "succeeded"
    /\ \A j \in Jobs : proposals[j].decision = "applied" =>
          /\ proposals[j].revision = jobs[j].base + 1
          /\ proposals[j].revision <= stories[Owner[j]].revision
    /\ AdoptedOnItsBase

LEMMA StaysSucceeded ==
  ASSUME StateStep PROVE \A k \in Jobs : jobs[k].state = "succeeded" => jobs'[k].state = "succeeded"
  BY DEF StateStep, Quiet, Submitted, Asks, EndsAs, Swept, OtherStatesKept, Active

LEMMA AdoptionKept ==
  ASSUME Typed, AdoptionInv, StateStep,
         \A k \in Jobs : jobs[k].state # "absent" => jobs'[k].base = jobs[k].base,
         \A k \in Jobs : \/ proposals'[k] = proposals[k]
                         \/ /\ proposals'[k].decision # "applied"
                            /\ jobs'[k].state = "succeeded",
         \A o \in Owners : stories'[o].revision \in Nat
                           /\ stories[o].revision <= stories'[o].revision
  PROVE  AdoptionInv'
  <1>1. \A k \in Jobs : jobs[k].state = "succeeded" => jobs'[k].state = "succeeded"
    BY StaysSucceeded
  <1>2. \A k \in Jobs : proposals'[k].decision = "applied" =>
           /\ proposals'[k] = proposals[k] /\ jobs'[k].base = jobs[k].base
    BY DEF AdoptionInv
  <1>3. \A k \in Jobs : /\ proposals[k].revision \in Nat /\ stories[Owner[k]].revision \in Nat
                        /\ stories'[Owner[k]].revision \in Nat
                        /\ stories[Owner[k]].revision <= stories'[Owner[k]].revision
    BY DEF Typed, OthersTyped, ProposalRow, Story
  <1>4. \A k \in Jobs : proposals'[k].decision # "none" => jobs'[k].state = "succeeded"
    BY <1>1 DEF AdoptionInv
  <1>5. \A k \in Jobs : proposals'[k].decision = "applied" =>
           /\ proposals'[k].revision = jobs'[k].base + 1
           /\ proposals'[k].revision <= stories'[Owner[k]].revision
    BY <1>2, <1>3 DEF AdoptionInv
  <1>6. AdoptedOnItsBase'
    BY <1>2 DEF AdoptionInv, AdoptedOnItsBase
  <1>. QED BY <1>4, <1>5, <1>6 DEF AdoptionInv

LEMMA AdoptionApply ==
  ASSUME Typed, AdoptionInv, NEW j \in Jobs, Apply(j) PROVE AdoptionInv'
  <1>. DEFINE r == stories[Owner[j]].revision
  <1>1. r \in Nat /\ Owner[j] \in Owners
    BY DEF Typed, OthersTyped, Story
  <1>2. /\ proposals'[j].decision = "applied" /\ proposals'[j].revision = r + 1
        /\ \A k \in Jobs \ {j} : proposals'[k] = proposals[k]
    BY DEF Apply, Typed, OthersTyped
  <1>3. /\ stories'[Owner[j]].revision = r + 1
        /\ \A o \in Owners \ {Owner[j]} : stories'[o] = stories[o]
    BY <1>1 DEF Apply, Typed, OthersTyped, Story
  <1>4. jobs' = jobs /\ jobs[j].base = r /\ proposals[j].decision = "pending"
    BY DEF Apply, Adoptable
  <1>5. \A k \in Jobs \ {j} : proposals[k].decision = "applied" =>
           /\ proposals[k].revision = jobs[k].base + 1
           /\ proposals[k].revision <= stories[Owner[k]].revision
           /\ proposals[k].revision \in Nat
    BY DEF AdoptionInv, Typed, OthersTyped, ProposalRow
  <1>6. \A k \in Jobs \ {j} : proposals[k].decision = "applied" /\ Owner[k] = Owner[j] =>
           proposals[k].revision # r + 1
    BY <1>1, <1>5
  <1>7. \A k \in Jobs : proposals'[k].decision # "none" => jobs'[k].state = "succeeded"
    BY <1>2, <1>4 DEF AdoptionInv
  <1>8. \A k \in Jobs : proposals'[k].decision = "applied" =>
           /\ proposals'[k].revision = jobs'[k].base + 1
           /\ proposals'[k].revision <= stories'[Owner[k]].revision
    <2>1. ASSUME NEW k \in Jobs \ {j}, proposals'[k].decision = "applied"
          PROVE  /\ proposals'[k].revision = jobs'[k].base + 1
                 /\ proposals'[k].revision <= stories'[Owner[k]].revision
      <3>1. CASE Owner[k] = Owner[j]
        BY <1>1, <1>2, <1>3, <1>4, <1>5, <2>1, <3>1
      <3>2. CASE Owner[k] # Owner[j]
        BY <1>2, <1>3, <1>4, <1>5, <2>1, <3>2
      <3>. QED BY <3>1, <3>2
    <2>. QED BY <1>1, <1>2, <1>3, <1>4, <2>1
  <1>9. ASSUME NEW i \in Jobs, NEW k \in Jobs, proposals'[i].decision = "applied",
               proposals'[k].decision = "applied", Owner[k] = Owner[i],
               proposals'[k].revision = proposals'[i].revision
        PROVE  k = i
    BY <1>2, <1>6, <1>9 DEF AdoptionInv, AdoptedOnItsBase
  <1>10. AdoptedOnItsBase'
    BY <1>8, <1>9 DEF AdoptedOnItsBase
  <1>. QED BY <1>7, <1>8, <1>10 DEF AdoptionInv

LEMMA AdoptionNext == Typed /\ PaidInv /\ AdoptionInv /\ [Next]_vars => AdoptionInv'
  <1>. SUFFICES ASSUME Typed, PaidInv, AdoptionInv, [Next]_vars PROVE AdoptionInv'
    OBVIOUS
  <1>0. StateStep /\ \A o \in Owners : stories[o].revision \in Nat
    BY StateSteps DEF Typed, OthersTyped, Story
  <1>1. ASSUME NEW w \in Workers, WorkerStep(w) \/ Crash(w) PROVE AdoptionInv'
    <2>1. stories' = stories
      BY <1>1 DEF WorkerStep, Claim, ReserveCall, CallModel, Succeed, Fail, RecordUsage, Crash
    <2>2. CASE proposals' = proposals
      BY <1>0, <1>1, <2>1, <2>2, OriginWorker, AdoptionKept DEF OriginKept, SameOrigin
    <2>3. CASE Succeed(w) /\ proposals' # proposals
      <3>. DEFINE j == worker[w].job
      <3>1. j \in Jobs /\ jobs[j].state = "running" /\ jobs'[j].state = "succeeded"
        BY <2>3, BusyHasJob, FinishedRequests DEF Succeed, Fenced, Typed
      <3>2. PICK d \in {"pending", proposals[j].decision} :
              proposals' = [proposals EXCEPT ![j].decision = d]
        BY <2>3 DEF Succeed
      <3>3. proposals[j].decision = "none"
        BY <3>1 DEF AdoptionInv
      <3>4. /\ \A k \in Jobs \ {j} : proposals'[k] = proposals[k]
            /\ proposals'[j].decision # "applied"
        BY <3>1, <3>2, <3>3 DEF Typed, OthersTyped, ProposalRow
      <3>. QED BY <1>0, <1>1, <2>1, <3>1, <3>4, OriginWorker, AdoptionKept
               DEF OriginKept, SameOrigin
    <2>. QED BY <1>1, <2>2, <2>3
             DEF WorkerStep, Claim, ReserveCall, CallModel, Fail, RecordUsage, Crash
  <1>2. ASSUME NEW j \in Jobs, Enqueue(j) \/ EditOutline(j) \/ (\E seen \in 1..MaxRevision : ApproveOutline(j, seen))
        PROVE  AdoptionInv'
    <2>1. proposals' = proposals /\ stories' = stories
      BY <1>2 DEF Enqueue, EditOutline, ApproveOutline
    <2>2. \A k \in Jobs : jobs[k].state # "absent" => jobs'[k].base = jobs[k].base
      <3>1. CASE Enqueue(j)
        <4>1. jobs[j].state = "absent" /\ \A k \in Jobs \ {j} : jobs'[k] = jobs[k]
          BY <3>1, EnqueueRow DEF Enqueue, Typed, JobsTyped
        <4>. QED BY <4>1
      <3>2. CASE ~Enqueue(j)
        BY <1>2, <3>2 DEF EditOutline, ApproveOutline, Typed, JobsTyped, JobRow
      <3>. QED BY <3>1, <3>2
    <2>. QED BY <1>0, <2>1, <2>2, AdoptionKept
  <1>3. ASSUME NEW j \in Jobs, Apply(j) PROVE AdoptionInv'
    BY <1>3, AdoptionApply
  <1>4. ASSUME NEW j \in Jobs, Cancel(j) \/ Lapse(j) PROVE AdoptionInv'
    <2>1. proposals' = proposals /\ stories' = stories
      BY <1>4 DEF Cancel, Lapse
    <2>. QED BY <1>0, <1>4, <2>1, OriginJobStep, AdoptionKept DEF OriginKept, SameOrigin
  <1>5. ASSUME NEW o \in Owners, StoryStep(o) PROVE AdoptionInv'
    <2>1. proposals' = proposals
      BY <1>5 DEF StoryStep, SaveDraft, StopStory, ResumeStory
    <2>2. \A p \in Owners : stories'[p].revision \in Nat
                            /\ stories[p].revision <= stories'[p].revision
      <3>1. stories \in [Owners -> Story] /\ \A p \in Owners : stories[p].revision \in Nat
        BY <1>0 DEF Typed, OthersTyped, Story
      <3>2. CASE SaveDraft(o)
        BY <3>1, <3>2 DEF SaveDraft, Story
      <3>3. CASE StopStory(o) \/ ResumeStory(o)
        BY <3>1, <3>3 DEF StopStory, ResumeStory, Story
      <3>. QED BY <1>5, <3>2, <3>3 DEF StoryStep
    <2>. QED BY <1>0, <1>5, <2>1, <2>2, OriginStory, AdoptionKept DEF OriginKept, SameOrigin
  <1>6. CASE UNCHANGED vars
    <2>1. proposals' = proposals /\ stories' = stories
      BY <1>6 DEF vars
    <2>. QED BY <1>0, <1>6, <2>1, OriginStory, AdoptionKept DEF OriginKept, SameOrigin
  <1>. QED BY <1>1, <1>2, <1>3, <1>4, <1>5, <1>6 DEF Next, JobStep, Quiescent

\* An adopted proposal became the revision right after the one it was made for,
\* and no two became the same one (apply, story_jobs.py:287).
THEOREM AdoptionCorrect == Spec => []AdoptedOnItsBase
  <1>1. Init => AdoptionInv
    BY DEF Init, NoRow, AdoptionInv, AdoptedOnItsBase
  <1>2. AdoptionInv => AdoptedOnItsBase
    BY DEF AdoptionInv
  <1>. QED BY <1>1, <1>2, AdoptionNext, AlwaysTyped, AlwaysPaid, PTL DEF Spec

-----------------------------------------------------------------------------
(* One job and its attempts *)

LeaseRows(row, rows) ==
    /\ \A a, b \in rows : a.epoch = b.epoch => a = b
    /\ \A a \in rows : a.epoch <= row.epoch
    /\ \A a \in rows : a.state \in OpenAttempt <=> row.state = "running" /\ row.epoch = a.epoch
    /\ row.state = "running" => \E a \in rows : a.epoch = row.epoch
    /\ row.state = "absent" => rows = {}

PaidRows(row, rows) ==
    /\ row.requests = 1 <=> \E a \in rows : a.reserved
    /\ \A a, b \in rows : a.reserved /\ b.reserved => a = b
    /\ \A a \in rows : a.reserved /\ row.state = "running" => a.epoch = row.epoch
    /\ row.state = "succeeded" <=> \E a \in rows : a.state = "succeeded" /\ a.reserved

Agree(row, rows) == LeaseRows(row, rows) /\ PaidRows(row, rows)

LEMMA AgreeSame ==
  ASSUME NEW row \in JobRow, NEW new \in JobRow, NEW rows \in SUBSET AttemptRow,
         Agree(row, rows),
         new.state = row.state, new.epoch = row.epoch, new.requests = row.requests
  PROVE  Agree(new, rows)
  BY DEF Agree, LeaseRows, PaidRows

\* The rows Ended leaves.
EndedFrom(rows, e, state, ended) ==
    /\ \A b \in ended : \E a \in rows : /\ b.epoch = a.epoch /\ b.reserved = a.reserved
                                        /\ b.state = IF a.epoch = e THEN state ELSE a.state
    /\ \A a \in rows : \E b \in ended : /\ b.epoch = a.epoch /\ b.reserved = a.reserved
                                        /\ b.state = IF a.epoch = e THEN state ELSE a.state
    /\ (\A a, b \in rows : a.epoch = b.epoch => a = b) =>
          \A a, b \in ended : a.epoch = b.epoch => a = b

LEMMA EndedRows ==
  ASSUME NEW rows \in SUBSET AttemptRow, NEW e \in Nat,
         NEW state \in {"succeeded", "failed", "cancelled", "expired"}
  PROVE  EndedFrom(rows, e, state, Ended(rows, e, state))
  <1>. DEFINE closed(a) == [a EXCEPT !.state = state]
              ended == {IF a.epoch = e THEN closed(a) ELSE a : a \in rows}
  <1>1. \A a \in rows : /\ closed(a).state = state /\ closed(a).epoch = a.epoch
                        /\ closed(a).reserved = a.reserved
    BY DEF AttemptRow
  <1>2. Ended(rows, e, state) = ended
    BY DEF Ended
  <1>. HIDE DEF closed
  <1>3. /\ \A b \in ended : \E a \in rows : b = IF a.epoch = e THEN closed(a) ELSE a
        /\ \A a \in rows : (IF a.epoch = e THEN closed(a) ELSE a) \in ended
    OBVIOUS
  <1>. HIDE DEF ended
  <1>4. \A b \in ended : \E a \in rows : /\ b.epoch = a.epoch /\ b.reserved = a.reserved
                                         /\ b.state = IF a.epoch = e THEN state ELSE a.state
    BY <1>1, <1>3
  <1>5. \A a \in rows : \E b \in ended : /\ b.epoch = a.epoch /\ b.reserved = a.reserved
                                         /\ b.state = IF a.epoch = e THEN state ELSE a.state
    BY <1>1, <1>3
  <1>6. ASSUME \A a, b \in rows : a.epoch = b.epoch => a = b,
               NEW a \in ended, NEW b \in ended, a.epoch = b.epoch
        PROVE  a = b
    <2>1. PICK c \in rows : a = IF c.epoch = e THEN closed(c) ELSE c
      BY <1>3
    <2>2. PICK d \in rows : b = IF d.epoch = e THEN closed(d) ELSE d
      BY <1>3
    <2>3. c = d
      BY <1>1, <1>6, <2>1, <2>2
    <2>. QED BY <2>1, <2>2, <2>3
  <1>7. EndedFrom(rows, e, state, ended)
    BY <1>4, <1>5, <1>6 DEF EndedFrom
  <1>. QED BY <1>2, <1>7

LEMMA AgreeEnded ==
  ASSUME NEW row \in JobRow, NEW new \in JobRow, NEW rows \in SUBSET AttemptRow,
         NEW state \in {"succeeded", "failed", "cancelled", "expired"},
         Agree(row, rows), row.state \in Active,
         new.state \notin {"absent", "running"},
         new.requests = row.requests, row.epoch <= new.epoch,
         new.state = "succeeded" <=> state = "succeeded",
         state = "succeeded" => row.state = "running" /\ row.requests = 1
  PROVE  Agree(new, Ended(rows, row.epoch, state))
  <1>. DEFINE ended == Ended(rows, row.epoch, state)
  <1>0. row.epoch \in Nat /\ new.epoch \in Nat /\ \A a \in rows : a.epoch \in Nat
    BY DEF JobRow, AttemptRow
  <1>. HIDE DEF ended
  <1>1. EndedFrom(rows, row.epoch, state, ended)
    BY <1>0, EndedRows DEF ended
  <1>2. \A a, b \in ended : a.epoch = b.epoch => a = b
    BY <1>1 DEF EndedFrom, Agree, LeaseRows
  <1>3. \A b \in ended : b.epoch <= new.epoch
    BY <1>0, <1>1 DEF EndedFrom, Agree, LeaseRows
  <1>4. \A b \in ended : b.state \notin OpenAttempt
    BY <1>1 DEF EndedFrom, Agree, LeaseRows, OpenAttempt
  <1>5. LeaseRows(new, ended)
    BY <1>2, <1>3, <1>4 DEF LeaseRows
  <1>6. new.requests = 1 <=> \E b \in ended : b.reserved
    BY <1>1 DEF EndedFrom, Agree, PaidRows
  <1>7. \A a, b \in ended : a.reserved /\ b.reserved => a = b
    <2>. SUFFICES ASSUME NEW a \in ended, NEW b \in ended, a.reserved, b.reserved
         PROVE  a.epoch = b.epoch
      BY <1>2
    <2>. QED BY <1>1 DEF EndedFrom, Agree, PaidRows
  <1>8. new.state = "succeeded" <=> \E b \in ended : b.state = "succeeded" /\ b.reserved
    <2>1. CASE state = "succeeded"
      <3>1. PICK a \in rows : a.reserved
        BY <2>1 DEF Agree, PaidRows
      <3>2. a.epoch = row.epoch
        BY <2>1, <3>1 DEF Agree, PaidRows
      <3>3. \E b \in ended : b.state = "succeeded" /\ b.reserved
        BY <1>1, <2>1, <3>1, <3>2 DEF EndedFrom
      <3>. QED BY <2>1, <3>3
    <2>2. CASE state # "succeeded"
      <3>1. row.state # "succeeded"
        BY DEF Active
      <3>2. \A a \in rows : ~(a.state = "succeeded" /\ a.reserved)
        BY <3>1 DEF Agree, PaidRows
      <3>3. ~ \E b \in ended : b.state = "succeeded" /\ b.reserved
        BY <1>1, <2>2, <3>2 DEF EndedFrom
      <3>. QED BY <2>2, <3>3
    <2>. QED BY <2>1, <2>2
  <1>9. PaidRows(new, ended)
    BY <1>6, <1>7, <1>8 DEF PaidRows
  <1>. QED BY <1>5, <1>9 DEF Agree, ended

LEMMA AgreeTaken ==
  ASSUME NEW row \in JobRow, NEW new \in JobRow, NEW rows \in SUBSET AttemptRow,
         Agree(row, rows), row.state = "queued", row.requests = 0,
         new.state = "running", new.epoch = row.epoch + 1, new.requests = 0
  PROVE  Agree(new, rows \cup {[epoch |-> row.epoch + 1, state |-> "claimed",
                                reserved |-> FALSE]})
  <1>. DEFINE a0 == [epoch |-> row.epoch + 1, state |-> "claimed", reserved |-> FALSE]
  <1>0. row.epoch \in Nat /\ \A a \in rows : a.epoch \in Nat
    BY DEF JobRow, AttemptRow
  <1>1. a0.epoch = row.epoch + 1 /\ a0.state = "claimed" /\ ~a0.reserved
    OBVIOUS
  <1>2. \A a \in rows : a.epoch < a0.epoch /\ a.state \notin OpenAttempt /\ ~a.reserved
    BY <1>0, <1>1 DEF Agree, LeaseRows, PaidRows
  <1>. HIDE DEF a0
  <1>3. LeaseRows(new, rows \cup {a0})
    BY <1>0, <1>1, <1>2 DEF Agree, LeaseRows, OpenAttempt
  <1>4. PaidRows(new, rows \cup {a0})
    BY <1>0, <1>1, <1>2 DEF Agree, PaidRows
  <1>. QED BY <1>3, <1>4 DEF Agree, a0

\* The rows Reserved leaves.
PaidFor(rows, e) == {IF a.epoch = e THEN [a EXCEPT !.state = "requested", !.reserved = TRUE]
                                    ELSE a : a \in rows}

LEMMA AgreeReserved ==
  ASSUME NEW row \in JobRow, NEW new \in JobRow, NEW rows \in SUBSET AttemptRow,
         Agree(row, rows), row.state = "running", row.requests = 0,
         new.state = "running", new.epoch = row.epoch, new.requests = 1
  PROVE  Agree(new, PaidFor(rows, row.epoch))
  <1>. DEFINE paid(a) == [a EXCEPT !.state = "requested", !.reserved = TRUE]
              new_rows == {IF a.epoch = row.epoch THEN paid(a) ELSE a : a \in rows}
  <1>0. PaidFor(rows, row.epoch) = new_rows
    BY DEF PaidFor
  <1>1. \A a \in rows : /\ paid(a).epoch = a.epoch /\ paid(a).state = "requested"
                        /\ paid(a).reserved
    BY DEF AttemptRow
  <1>. HIDE DEF paid
  <1>2. /\ \A b \in new_rows : \E a \in rows :
              \/ a.epoch = row.epoch /\ b = paid(a)
              \/ a.epoch # row.epoch /\ b = a
        /\ \A a \in rows : a.epoch = row.epoch => paid(a) \in new_rows
    OBVIOUS
  <1>. HIDE DEF new_rows
  <1>3. \A a \in rows : ~a.reserved
    BY DEF Agree, PaidRows
  <1>4. PICK a0 \in rows : a0.epoch = row.epoch
    BY DEF Agree, LeaseRows
  <1>5. /\ paid(a0) \in new_rows
        /\ \A b \in new_rows : b = paid(a0) \/ (b \in rows /\ b.epoch # row.epoch)
    BY <1>2, <1>4 DEF Agree, LeaseRows
  <1>6. paid(a0).epoch = row.epoch /\ paid(a0).state = "requested" /\ paid(a0).reserved
    BY <1>1, <1>4
  <1>7. LeaseRows(new, new_rows)
    BY <1>4, <1>5, <1>6 DEF Agree, LeaseRows, OpenAttempt
  <1>8. PaidRows(new, new_rows)
    BY <1>3, <1>5, <1>6 DEF Agree, PaidRows
  <1>. QED BY <1>0, <1>7, <1>8 DEF Agree

-----------------------------------------------------------------------------
(* Every step keeps each job in agreement with its attempts *)

AttemptsInv == \A j \in Jobs : Agree(jobs[j], attempts[j])

LEMMA RowsOf ==
  ASSUME Typed, NEW j \in Jobs
  PROVE  jobs[j] \in JobRow /\ attempts[j] \in SUBSET AttemptRow
  BY DEF Typed, JobsTyped, AttemptsTyped

\* One job changes, or only columns Agree does not read.
LEMMA AttemptsKept ==
  ASSUME Typed, Typed', AttemptsInv, attempts' = attempts,
         \A k \in Jobs : /\ jobs'[k].state = jobs[k].state /\ jobs'[k].epoch = jobs[k].epoch
                         /\ jobs'[k].requests = jobs[k].requests
  PROVE  AttemptsInv'
  <1>. SUFFICES ASSUME NEW k \in Jobs PROVE Agree(jobs'[k], attempts'[k])
    BY DEF AttemptsInv
  <1>1. jobs[k] \in JobRow /\ jobs'[k] \in JobRow /\ attempts[k] \in SUBSET AttemptRow
    BY DEF Typed, JobsTyped, AttemptsTyped
  <1>. QED BY <1>1, AgreeSame DEF AttemptsInv

LEMMA AttemptsOne ==
  ASSUME AttemptsInv, NEW j \in Jobs, Agree(jobs'[j], attempts'[j]),
         \A k \in Jobs \ {j} : jobs'[k] = jobs[k] /\ attempts'[k] = attempts[k]
  PROVE  AttemptsInv'
  <1>. SUFFICES ASSUME NEW k \in Jobs PROVE Agree(jobs'[k], attempts'[k])
    BY DEF AttemptsInv
  <1>1. CASE k = j
    BY <1>1
  <1>2. CASE k # j
    <2>1. jobs'[k] = jobs[k] /\ attempts'[k] = attempts[k] /\ Agree(jobs[k], attempts[k])
      BY <1>2 DEF AttemptsInv
    <2>. QED BY <2>1
  <1>. QED BY <1>1, <1>2

LEMMA AttemptsFinished ==
  ASSUME Typed, Typed', AttemptsInv, NEW w \in Workers, worker[w].pc # "idle",
         NEW state \in {"succeeded", "failed"}, NEW outline \in BOOLEAN,
         Fenced(worker[w].job, worker[w].epoch), Finished(w, state, outline),
         state = "succeeded" => jobs[worker[w].job].requests = 1
  PROVE  AttemptsInv'
  <1>. DEFINE j == worker[w].job
  <1>1. j \in Jobs
    BY BusyHasJob DEF Typed
  <1>2. jobs[j] \in JobRow /\ jobs'[j] \in JobRow /\ attempts[j] \in SUBSET AttemptRow
    BY <1>1 DEF Typed, JobsTyped, AttemptsTyped
  <1>3. /\ jobs'[j].state = state /\ jobs'[j].epoch = jobs[j].epoch
        /\ jobs'[j].requests = jobs[j].requests
        /\ \A k \in Jobs \ {j} : jobs'[k] = jobs[k]
    BY <1>1 DEF Finished, Typed, JobsTyped, JobRow
  <1>4. /\ attempts'[j] = Ended(attempts[j], jobs[j].epoch, state)
        /\ \A k \in Jobs \ {j} : attempts'[k] = attempts[k]
    BY <1>1 DEF Finished, Typed, AttemptsTyped
  <1>5. Agree(jobs[j], attempts[j]) /\ jobs[j].state = "running" /\ jobs[j].epoch \in Nat
    BY <1>1, <1>2 DEF AttemptsInv, Fenced, JobRow
  <1>6. Agree(jobs'[j], Ended(attempts[j], jobs[j].epoch, state))
    BY <1>2, <1>3, <1>5, AgreeEnded DEF Active
  <1>7. Agree(jobs'[j], attempts'[j])
    BY <1>4, <1>6
  <1>. QED BY <1>1, <1>3, <1>4, <1>7, AttemptsOne

\* The rows a claim finds after it swept the expired jobs.
LEMMA AgreeSwept ==
  ASSUME Typed, AttemptsInv, NEW S \in SUBSET Expired, NEW k \in Jobs
  PROVE  Agree(Requeued(S)[k], Closed(S)[k])
  <1>1. jobs[k] \in JobRow /\ attempts[k] \in SUBSET AttemptRow /\ Agree(jobs[k], attempts[k])
    BY RowsOf DEF AttemptsInv
  <1>2. CASE k \notin S
    BY <1>1, <1>2 DEF Requeued, Closed
  <1>3. CASE k \in S
    <2>. DEFINE new == [jobs[k] EXCEPT
                  !.state = IF Exhausted(jobs[k]) THEN "failed" ELSE "queued",
                  !.lease = "none", !.epoch = @ + 1]
    <2>1. Requeued(S)[k] = new /\ Closed(S)[k] = Ended(attempts[k], jobs[k].epoch, "expired")
      BY <1>3 DEF Requeued, Closed
    <2>2. /\ new.state \in {"failed", "queued"} /\ new.epoch = jobs[k].epoch + 1
          /\ new.requests = jobs[k].requests
      BY <1>1 DEF JobRow
    <2>3. new \in JobRow
      BY <1>1, PutBackRow
    <2>4. jobs[k].state = "running" /\ jobs[k].epoch \in Nat
      BY <1>1, <1>3 DEF Expired, JobRow
    <2>. HIDE DEF new
    <2>5. jobs[k].epoch <= new.epoch
      BY <2>2, <2>4
    <2>6. Agree(new, Ended(attempts[k], jobs[k].epoch, "expired"))
      BY <1>1, <2>2, <2>3, <2>4, <2>5, AgreeEnded DEF Active
    <2>. QED BY <2>1, <2>6
  <1>. QED BY <1>2, <1>3

LEMMA AttemptsClaim ==
  ASSUME Typed, AttemptsInv, NEW w \in Workers, Claim(w) PROVE AttemptsInv'
  <1>. PICK S \in SUBSET Expired :
        \/ \E j \in Jobs : Requeued(S)[j].state = "queued" /\ Taken(w, j, Requeued(S), Closed(S))
        \/ jobs' = Requeued(S) /\ attempts' = Closed(S)
    BY DEF Claim, Expirable
  <1>1. CASE jobs' = Requeued(S) /\ attempts' = Closed(S)
    <2>1. \A k \in Jobs : Agree(jobs'[k], attempts'[k])
      BY <1>1, AgreeSwept
    <2>. QED BY <2>1 DEF AttemptsInv
  <1>2. ASSUME NEW j \in Jobs, Requeued(S)[j].state = "queued",
               Taken(w, j, Requeued(S), Closed(S))
        PROVE  AttemptsInv'
    <2>. DEFINE row == Requeued(S)[j]
                new == [row EXCEPT !.state = "running", !.lease = "live",
                                   !.attempts = @ + 1, !.epoch = @ + 1]
    <2>1. /\ Requeued(S) \in [Jobs -> JobRow] /\ Closed(S) \in [Jobs -> SUBSET AttemptRow]
          /\ row.requests = 0 /\ row.attempts < MaxAttempts
      BY <1>2, RequeuedTyped, ClosedTyped
    <2>2. /\ jobs'[j] = new
          /\ attempts'[j] = Closed(S)[j] \cup {[epoch |-> row.epoch + 1, state |-> "claimed",
                                                reserved |-> FALSE]}
          /\ \A k \in Jobs \ {j} : jobs'[k] = Requeued(S)[k] /\ attempts'[k] = Closed(S)[k]
      BY <1>2, <2>1 DEF Taken
    <2>3. row \in JobRow /\ Closed(S)[j] \in SUBSET AttemptRow /\ Agree(row, Closed(S)[j])
      BY <2>1, AgreeSwept
    <2>4. new \in JobRow
      BY <2>1, <2>3, LeasedRow
    <2>5. new.state = "running" /\ new.epoch = row.epoch + 1 /\ new.requests = row.requests
      BY <2>3 DEF JobRow
    <2>. HIDE DEF new, row
    <2>6. row.state = "queued"
      BY <1>2 DEF row
    <2>7. Agree(new, Closed(S)[j] \cup {[epoch |-> row.epoch + 1, state |-> "claimed",
                                         reserved |-> FALSE]})
      BY <2>1, <2>3, <2>4, <2>5, <2>6, AgreeTaken
    <2>8. Agree(jobs'[j], attempts'[j])
      BY <2>2, <2>7
    <2>9. \A k \in Jobs \ {j} : Agree(jobs'[k], attempts'[k])
      BY <2>2, AgreeSwept
    <2>. QED BY <2>8, <2>9 DEF AttemptsInv
  <1>. QED BY <1>1, <1>2

LEMMA AttemptsReserved ==
  ASSUME Typed, Typed', AttemptsInv, NEW j \in Jobs, NEW e \in Nat,
         Fenced(j, e), jobs[j].requests = 0, Reserved(j, e)
  PROVE  AttemptsInv'
  <1>1. jobs[j] \in JobRow /\ jobs'[j] \in JobRow /\ attempts[j] \in SUBSET AttemptRow
    BY DEF Typed, JobsTyped, AttemptsTyped
  <1>2. /\ jobs'[j] = [jobs[j] EXCEPT !.requests = 1]
        /\ \A k \in Jobs \ {j} : jobs'[k] = jobs[k] /\ attempts'[k] = attempts[k]
        /\ attempts'[j] = PaidFor(attempts[j], e)
    BY DEF Reserved, PaidFor, Typed, JobsTyped, AttemptsTyped
  <1>3. /\ jobs'[j].state = jobs[j].state /\ jobs'[j].epoch = jobs[j].epoch
        /\ jobs'[j].requests = 1
    BY <1>1, <1>2 DEF JobRow
  <1>4. Agree(jobs[j], attempts[j]) /\ jobs[j].state = "running" /\ jobs[j].epoch = e
    BY DEF AttemptsInv, Fenced
  <1>5. Agree(jobs'[j], PaidFor(attempts[j], jobs[j].epoch))
    BY <1>1, <1>3, <1>4, AgreeReserved
  <1>6. Agree(jobs'[j], attempts'[j])
    BY <1>2, <1>4, <1>5
  <1>. QED BY <1>2, <1>6, AttemptsOne

LEMMA AttemptsJobStep ==
  ASSUME Typed, Typed', AttemptsInv, NEW j \in Jobs, JobStep(j) PROVE AttemptsInv'
  <1>1. CASE Enqueue(j)
    <2>1. PICK row \in JobRow : /\ row.state = "queued" /\ row.requests = 0
                                /\ jobs' = [jobs EXCEPT ![j] = row]
      BY <1>1, EnqueueRow
    <2>2. attempts' = attempts /\ attempts[j] = {}
      BY <1>1 DEF Enqueue, AttemptsInv, Agree, LeaseRows
    <2>3. jobs'[j] = row /\ \A k \in Jobs \ {j} : jobs'[k] = jobs[k]
      BY <2>1 DEF Typed, JobsTyped
    <2>4. Agree(row, {})
      BY <2>1 DEF Agree, LeaseRows, PaidRows
    <2>5. Agree(jobs'[j], attempts'[j])
      BY <2>2, <2>3, <2>4
    <2>. QED BY <2>2, <2>3, <2>5, AttemptsOne
  <1>2. CASE Cancel(j)
    <2>1. jobs[j] \in JobRow /\ jobs'[j] \in JobRow /\ attempts[j] \in SUBSET AttemptRow
      BY DEF Typed, JobsTyped, AttemptsTyped
    <2>2. /\ jobs'[j].state = "cancelled" /\ jobs'[j].epoch = jobs[j].epoch + 1
          /\ jobs'[j].requests = jobs[j].requests
          /\ \A k \in Jobs \ {j} : jobs'[k] = jobs[k]
      BY <1>2 DEF Cancel, Typed, JobsTyped, JobRow
    <2>3. /\ attempts'[j] = Ended(attempts[j], jobs[j].epoch, "cancelled")
          /\ \A k \in Jobs \ {j} : attempts'[k] = attempts[k]
      BY <1>2 DEF Cancel, Typed, AttemptsTyped
    <2>4. Agree(jobs[j], attempts[j]) /\ jobs[j].state \in Active /\ jobs[j].epoch \in Nat
      BY <1>2, <2>1 DEF Cancel, MayCancel, AttemptsInv, JobRow
    <2>5. jobs[j].epoch <= jobs'[j].epoch
      BY <2>2, <2>4
    <2>6. Agree(jobs'[j], Ended(attempts[j], jobs[j].epoch, "cancelled"))
      BY <2>1, <2>2, <2>4, <2>5, AgreeEnded
    <2>7. Agree(jobs'[j], attempts'[j])
      BY <2>3, <2>6
    <2>. QED BY <2>2, <2>3, <2>7, AttemptsOne
  <1>3. CASE ~Enqueue(j) /\ ~Cancel(j)
    <2>1. attempts' = attempts
      BY <1>3 DEF JobStep, EditOutline, ApproveOutline, Apply, Lapse
    <2>2. \A k \in Jobs : /\ jobs'[k].state = jobs[k].state /\ jobs'[k].epoch = jobs[k].epoch
                          /\ jobs'[k].requests = jobs[k].requests
      BY <1>3 DEF JobStep, EditOutline, ApproveOutline, Apply, Lapse, Typed, JobsTyped, JobRow
    <2>. QED BY <2>1, <2>2, AttemptsKept
  <1>. QED BY <1>1, <1>2, <1>3

LEMMA AttemptsNext ==
  Typed /\ Typed' /\ PaidInv /\ AttemptsInv /\ [Next]_vars => AttemptsInv'
  <1>. SUFFICES ASSUME Typed, Typed', PaidInv, AttemptsInv, [Next]_vars PROVE AttemptsInv'
    OBVIOUS
  <1>1. CASE UNCHANGED <<jobs, attempts>>
    BY <1>1, AttemptsKept
  <1>2. ASSUME NEW w \in Workers, Claim(w) PROVE AttemptsInv'
    BY <1>2, AttemptsClaim
  <1>3. ASSUME NEW w \in Workers, ReserveCall(w) PROVE AttemptsInv'
    <2>1. worker[w].job \in Jobs /\ worker[w].epoch \in Nat
      BY <1>3, BusyHasJob DEF ReserveCall, Typed
    <2>. QED BY <1>1, <1>3, <2>1, AttemptsReserved DEF ReserveCall
  <1>4. ASSUME NEW w \in Workers, Succeed(w) PROVE AttemptsInv'
    <2>1. worker[w].pc = "succeed" /\ jobs[worker[w].job].requests = 1
      BY <1>4 DEF Succeed, PaidInv
    <2>. QED BY <1>1, <1>4, <2>1, AttemptsFinished DEF Succeed
  <1>5. ASSUME NEW w \in Workers, Fail(w) PROVE AttemptsInv'
    BY <1>1, <1>5, AttemptsFinished DEF Fail
  <1>6. ASSUME NEW w \in Workers, RecordUsage(w) PROVE AttemptsInv'
    <2>1. attempts' = attempts
      BY <1>6 DEF RecordUsage
    <2>2. \A k \in Jobs : /\ jobs'[k].state = jobs[k].state /\ jobs'[k].epoch = jobs[k].epoch
                          /\ jobs'[k].requests = jobs[k].requests
      BY <1>6 DEF RecordUsage, Typed, JobsTyped, JobRow
    <2>. QED BY <2>1, <2>2, AttemptsKept
  <1>7. ASSUME NEW j \in Jobs, JobStep(j) PROVE AttemptsInv'
    BY <1>7, AttemptsJobStep
  <1>. QED BY <1>1, <1>2, <1>3, <1>4, <1>5, <1>6, <1>7
           DEF Next, WorkerStep, CallModel, Crash, StoryStep, SaveDraft, StopStory, ResumeStory,
               Quiescent, vars

LEMMA AlwaysAttempts == Spec => []AttemptsInv
  <1>1. Init => AttemptsInv
    BY DEF Init, NoRow, AttemptsInv, Agree, LeaseRows, PaidRows
  <1>. QED BY <1>1, AttemptsNext, AlwaysTyped, AlwaysPaid, PTL DEF Spec

\* The attempts tell the history of the job, for any number of workers and takeovers
\* (claim, _finish and _end_attempt, story_jobs.py:301, 483 and 105).
THEOREM AttemptsCorrect == Spec => []AttemptsMatchJob
  <1>1. AttemptsInv => AttemptsMatchJob
    BY DEF AttemptsInv, Agree, LeaseRows, PaidRows, AttemptsMatchJob
  <1>. QED BY <1>1, AlwaysAttempts, PTL

-----------------------------------------------------------------------------
(* Workers, their epochs and their reservations *)

PaidAttempt(rows, e) == \E a \in rows : a.epoch = e /\ a.reserved

LeaseInv ==
    /\ \A w \in Workers : worker[w].pc # "idle" =>
          worker[w].epoch <= jobs[worker[w].job].epoch /\ jobs[worker[w].job].state # "absent"
    /\ \A v, w \in Workers : /\ worker[v].pc # "idle" /\ worker[w].pc # "idle"
                             /\ worker[v].job = worker[w].job /\ worker[v].epoch = worker[w].epoch
                             => v = w
    /\ \A w \in Workers : worker[w].pc = "call" \/ worker[w].called =>
          worker[w].pc # "idle" /\ PaidAttempt(attempts[worker[w].job], worker[w].epoch)
    /\ \A w \in Workers : worker[w].pc = "succeed" => worker[w].called

EpochsGrow == \A k \in Jobs : jobs[k].state # "absent" =>
                  jobs[k].epoch <= jobs'[k].epoch /\ jobs'[k].state # "absent"

ReservedStay == \A k \in Jobs : \A e \in Nat :
                    PaidAttempt(attempts[k], e) => PaidAttempt(attempts'[k], e)

LEMMA PaidEnded ==
  ASSUME NEW rows \in SUBSET AttemptRow, NEW e \in Nat, NEW f \in Nat,
         NEW state \in {"succeeded", "failed", "cancelled", "expired"}, PaidAttempt(rows, f)
  PROVE  PaidAttempt(Ended(rows, e, state), f)
  <1>1. EndedFrom(rows, e, state, Ended(rows, e, state))
    BY EndedRows
  <1>2. PICK a \in rows : a.epoch = f /\ a.reserved
    BY DEF PaidAttempt
  <1>3. PICK b \in Ended(rows, e, state) : b.epoch = a.epoch /\ b.reserved = a.reserved
    BY <1>1 DEF EndedFrom
  <1>. QED BY <1>2, <1>3 DEF PaidAttempt

LEMMA GrowClaim ==
  ASSUME Typed, NEW w \in Workers, Claim(w) PROVE EpochsGrow /\ ReservedStay
  <1>. PICK S \in SUBSET Expired :
        \/ \E j \in Jobs : Requeued(S)[j].state = "queued" /\ Taken(w, j, Requeued(S), Closed(S))
        \/ jobs' = Requeued(S) /\ attempts' = Closed(S)
    BY DEF Claim, Expirable
  <1>1. /\ Requeued(S) \in [Jobs -> JobRow] /\ Closed(S) \in [Jobs -> SUBSET AttemptRow]
    BY RequeuedTyped, ClosedTyped
  <1>2. ASSUME NEW k \in Jobs, jobs[k].state # "absent"
        PROVE  jobs[k].epoch <= Requeued(S)[k].epoch /\ Requeued(S)[k].state # "absent"
    <2>1. jobs[k] \in JobRow /\ jobs[k].epoch \in Nat
      BY DEF Typed, JobsTyped, JobRow
    <2>2. CASE k \notin S
      <3>1. Requeued(S)[k] = jobs[k]
        BY <2>2 DEF Requeued
      <3>. QED BY <1>2, <2>1, <3>1
    <2>3. CASE k \in S
      <3>1. Requeued(S)[k] = [jobs[k] EXCEPT
                  !.state = IF Exhausted(jobs[k]) THEN "failed" ELSE "queued",
                  !.lease = "none", !.epoch = @ + 1]
        BY <2>3 DEF Requeued
      <3>2. Requeued(S)[k].epoch = jobs[k].epoch + 1
            /\ Requeued(S)[k].state \in {"failed", "queued"}
        BY <2>1, <3>1 DEF JobRow
      <3>. QED BY <2>1, <3>2
    <2>. QED BY <2>2, <2>3
  <1>3. ASSUME NEW k \in Jobs, NEW e \in Nat, PaidAttempt(attempts[k], e)
        PROVE  PaidAttempt(Closed(S)[k], e)
    <2>1. attempts[k] \in SUBSET AttemptRow /\ jobs[k].epoch \in Nat
      BY DEF Typed, AttemptsTyped, JobsTyped, JobRow
    <2>2. Closed(S)[k] = IF k \in S THEN Ended(attempts[k], jobs[k].epoch, "expired")
                                    ELSE attempts[k]
      BY DEF Closed
    <2>. QED BY <1>3, <2>1, <2>2, PaidEnded
  <1>4. CASE jobs' = Requeued(S) /\ attempts' = Closed(S)
    BY <1>2, <1>3, <1>4 DEF EpochsGrow, ReservedStay
  <1>5. ASSUME NEW j \in Jobs, Taken(w, j, Requeued(S), Closed(S))
        PROVE  EpochsGrow /\ ReservedStay
    <2>1. /\ jobs'[j] = [Requeued(S)[j] EXCEPT !.state = "running", !.lease = "live",
                                               !.attempts = @ + 1, !.epoch = @ + 1]
          /\ \A k \in Jobs \ {j} : jobs'[k] = Requeued(S)[k]
          /\ \A k \in Jobs : Closed(S)[k] \subseteq attempts'[k]
      BY <1>1, <1>5 DEF Taken
    <2>2. jobs'[j].epoch = Requeued(S)[j].epoch + 1 /\ jobs'[j].state = "running"
          /\ Requeued(S)[j].epoch \in Nat
      BY <1>1, <2>1 DEF JobRow
    <2>3. jobs[j].state # "absent" => jobs[j].epoch <= jobs'[j].epoch
      <3>1. jobs[j].epoch \in Nat
        BY DEF Typed, JobsTyped, JobRow
      <3>. QED BY <1>2, <2>2, <3>1
    <2>4. EpochsGrow
      BY <1>2, <2>1, <2>2, <2>3 DEF EpochsGrow
    <2>5. ReservedStay
      BY <1>3, <2>1 DEF ReservedStay, PaidAttempt
    <2>. QED BY <2>4, <2>5
  <1>. QED BY <1>4, <1>5

LEMMA GrowQuiet ==
  ASSUME Typed, \A k \in Jobs : jobs'[k].state = jobs[k].state /\ jobs'[k].epoch = jobs[k].epoch,
         attempts' = attempts
  PROVE  EpochsGrow /\ ReservedStay
  <1>1. \A k \in Jobs : jobs[k].epoch \in Nat
    BY DEF Typed, JobsTyped, JobRow
  <1>. QED BY <1>1 DEF EpochsGrow, ReservedStay

LEMMA GrowFinished ==
  ASSUME Typed, NEW w \in Workers, worker[w].pc # "idle",
         NEW state \in {"succeeded", "failed"}, NEW outline \in BOOLEAN, Finished(w, state, outline)
  PROVE  EpochsGrow /\ ReservedStay
  <1>. DEFINE j == worker[w].job
  <1>1. j \in Jobs /\ \A k \in Jobs : jobs[k].epoch \in Nat /\ attempts[k] \in SUBSET AttemptRow
    BY BusyHasJob DEF Typed, JobsTyped, AttemptsTyped, JobRow
  <1>2. /\ jobs'[j].state = state /\ jobs'[j].epoch = jobs[j].epoch
        /\ \A k \in Jobs \ {j} : jobs'[k] = jobs[k]
    BY <1>1, FinishedKeeps
  <1>3. /\ attempts'[j] = Ended(attempts[j], jobs[j].epoch, state)
        /\ \A k \in Jobs \ {j} : attempts'[k] = attempts[k]
    BY <1>1 DEF Finished, Typed, AttemptsTyped
  <1>4. EpochsGrow
    BY <1>1, <1>2 DEF EpochsGrow
  <1>5. ReservedStay
    BY <1>1, <1>3, PaidEnded DEF ReservedStay
  <1>. QED BY <1>4, <1>5

LEMMA GrowReserved ==
  ASSUME Typed, NEW j \in Jobs, NEW e \in Nat, Reserved(j, e)
  PROVE  EpochsGrow /\ ReservedStay
  <1>1. \A k \in Jobs : /\ jobs'[k].state = jobs[k].state /\ jobs'[k].epoch = jobs[k].epoch
                        /\ jobs[k].epoch \in Nat
    BY ReservedKeeps DEF Typed, JobsTyped, JobRow
  <1>2. EpochsGrow
    BY <1>1 DEF EpochsGrow
  <1>. DEFINE paid(a) == [a EXCEPT !.state = "requested", !.reserved = TRUE]
  <1>3. \A a \in attempts[j] : paid(a).epoch = a.epoch /\ paid(a).reserved
    BY DEF Typed, AttemptsTyped, AttemptRow
  <1>4. /\ \A k \in Jobs \ {j} : attempts'[k] = attempts[k]
        /\ attempts'[j] = {IF a.epoch = e THEN paid(a) ELSE a : a \in attempts[j]}
    BY DEF Reserved, Typed, AttemptsTyped
  <1>. HIDE DEF paid
  <1>5. \A a \in attempts[j] : (IF a.epoch = e THEN paid(a) ELSE a) \in attempts'[j]
    BY <1>4
  <1>6. ReservedStay
    BY <1>3, <1>4, <1>5 DEF ReservedStay, PaidAttempt
  <1>. QED BY <1>2, <1>6

LEMMA GrowJobStep ==
  ASSUME Typed, NEW j \in Jobs, JobStep(j) PROVE EpochsGrow /\ ReservedStay
  <1>0. \A k \in Jobs : jobs[k].epoch \in Nat /\ attempts[k] \in SUBSET AttemptRow
    BY DEF Typed, JobsTyped, AttemptsTyped, JobRow
  <1>1. CASE Enqueue(j)
    <2>1. /\ jobs[j].state = "absent" /\ attempts' = attempts
          /\ \A k \in Jobs \ {j} : jobs'[k] = jobs[k]
      BY <1>1, EnqueueRow DEF Enqueue, Typed, JobsTyped
    <2>. QED BY <1>0, <2>1 DEF EpochsGrow, ReservedStay
  <1>2. CASE Cancel(j)
    <2>1. /\ jobs'[j].state = "cancelled" /\ jobs'[j].epoch = jobs[j].epoch + 1
          /\ \A k \in Jobs \ {j} : jobs'[k] = jobs[k]
      BY <1>2 DEF Cancel, Typed, JobsTyped, JobRow
    <2>2. /\ attempts'[j] = Ended(attempts[j], jobs[j].epoch, "cancelled")
          /\ \A k \in Jobs \ {j} : attempts'[k] = attempts[k]
      BY <1>2 DEF Cancel, Typed, AttemptsTyped
    <2>3. EpochsGrow
      BY <1>0, <2>1 DEF EpochsGrow
    <2>4. ReservedStay
      BY <1>0, <2>2, PaidEnded DEF ReservedStay
    <2>. QED BY <2>3, <2>4
  <1>3. CASE ~Enqueue(j) /\ ~Cancel(j)
    <2>1. attempts' = attempts
      BY <1>3 DEF JobStep, EditOutline, ApproveOutline, Apply, Lapse
    <2>2. \A k \in Jobs : jobs'[k].state = jobs[k].state /\ jobs'[k].epoch = jobs[k].epoch
      BY <1>3 DEF JobStep, EditOutline, ApproveOutline, Apply, Lapse, Typed, JobsTyped, JobRow
    <2>. QED BY <2>1, <2>2, GrowQuiet
  <1>. QED BY <1>1, <1>2, <1>3

\* A worker that goes on with its job, under the same lease.
GoesOn(w) ==
    /\ worker[w].pc # "idle" /\ worker'[w].pc # "idle"
    /\ worker'[w].job = worker[w].job /\ worker'[w].epoch = worker[w].epoch
    /\ worker'[w].pc = "call" \/ worker'[w].called =>
          PaidAttempt(attempts'[worker[w].job], worker[w].epoch)
    /\ worker'[w].pc = "succeed" => worker'[w].called

Rests(w) == worker'[w].pc = "idle" /\ ~worker'[w].called

LEMMA LeaseKept ==
  ASSUME Typed, Typed', LeaseInv, EpochsGrow, \A w \in Workers : GoesOn(w) \/ Rests(w)
  PROVE  LeaseInv'
  <1>1. \A w \in Workers : worker'[w].pc # "idle" => GoesOn(w) /\ worker[w].job \in Jobs
                                                     /\ worker[w].epoch \in Nat
    BY BusyHasJob DEF Rests, GoesOn, Typed
  <1>2. \A k \in Jobs : jobs[k].epoch \in Nat
    BY DEF Typed, JobsTyped, JobRow
  <1>3. \A w \in Workers : worker'[w].pc # "idle" =>
           worker'[w].epoch <= jobs'[worker'[w].job].epoch /\ jobs'[worker'[w].job].state # "absent"
    <2>. SUFFICES ASSUME NEW w \in Workers, worker'[w].pc # "idle"
         PROVE  /\ worker'[w].epoch <= jobs'[worker'[w].job].epoch
                /\ jobs'[worker'[w].job].state # "absent"
      OBVIOUS
    <2>1. /\ worker'[w].job = worker[w].job /\ worker'[w].epoch = worker[w].epoch
          /\ worker[w].job \in Jobs /\ worker[w].epoch \in Nat /\ worker[w].pc # "idle"
      BY <1>1 DEF GoesOn
    <2>2. worker[w].epoch <= jobs[worker[w].job].epoch /\ jobs[worker[w].job].state # "absent"
      BY <2>1 DEF LeaseInv
    <2>3. /\ jobs[worker[w].job].epoch <= jobs'[worker[w].job].epoch
          /\ jobs'[worker[w].job].state # "absent"
      BY <2>1, <2>2 DEF EpochsGrow
    <2>4. jobs'[worker[w].job].epoch \in Nat
      BY <2>1 DEF Typed, JobsTyped, JobRow
    <2>. QED BY <1>2, <2>1, <2>2, <2>3, <2>4
  <1>4. \A v, w \in Workers : /\ worker'[v].pc # "idle" /\ worker'[w].pc # "idle"
                              /\ worker'[v].job = worker'[w].job
                              /\ worker'[v].epoch = worker'[w].epoch
                              => v = w
    BY <1>1 DEF GoesOn, LeaseInv
  <1>5. \A w \in Workers : worker'[w].pc = "call" \/ worker'[w].called =>
           worker'[w].pc # "idle" /\ PaidAttempt(attempts'[worker'[w].job], worker'[w].epoch)
    BY DEF GoesOn, Rests
  <1>6. \A w \in Workers : worker'[w].pc = "succeed" => worker'[w].called
    BY DEF GoesOn, Rests
  <1>. QED BY <1>3, <1>4, <1>5, <1>6 DEF LeaseInv, PaidAttempt

\* Workers that do nothing in a step.
LEMMA OthersGoOn ==
  ASSUME Typed, LeaseInv, ReservedStay, NEW v \in Workers, worker'[v] = worker[v]
  PROVE  GoesOn(v) \/ Rests(v)
  <1>1. CASE worker[v].pc = "idle"
    <2>1. ~worker[v].called
      BY <1>1 DEF LeaseInv
    <2>. QED BY <1>1, <2>1 DEF Rests
  <1>2. CASE worker[v].pc # "idle"
    BY <1>2, BusyHasJob DEF GoesOn, LeaseInv, ReservedStay, Typed
  <1>. QED BY <1>1, <1>2

LEMMA LeaseClaim ==
  ASSUME Typed, Typed', LeaseInv, NEW w \in Workers, Claim(w) PROVE LeaseInv'
  <1>. PICK S \in SUBSET Expired :
        \/ \E j \in Jobs : Requeued(S)[j].state = "queued" /\ Taken(w, j, Requeued(S), Closed(S))
        \/ jobs' = Requeued(S) /\ attempts' = Closed(S) /\ UNCHANGED worker
    BY DEF Claim, Expirable
  <1>0. EpochsGrow /\ ReservedStay /\ worker[w].pc = "idle"
    BY GrowClaim DEF Claim
  <1>1. CASE UNCHANGED worker
    BY <1>0, <1>1, OthersGoOn, LeaseKept
  <1>2. ASSUME NEW j \in Jobs, Requeued(S)[j].state = "queued",
               Taken(w, j, Requeued(S), Closed(S))
        PROVE  LeaseInv'
    <2>1. Requeued(S)[j] \in JobRow /\ Requeued(S) \in [Jobs -> JobRow]
      BY RequeuedTyped
    <2>2. /\ worker'[w].pc = "reserve" /\ worker'[w].job = j /\ ~worker'[w].called
          /\ worker'[w].epoch = Requeued(S)[j].epoch + 1
          /\ \A v \in Workers \ {w} : worker'[v] = worker[v]
      BY <1>2 DEF Taken, Typed, WorkersTyped
    <2>3. jobs'[j].epoch = Requeued(S)[j].epoch + 1 /\ jobs'[j].state = "running"
      <3>1. jobs'[j] = [Requeued(S)[j] EXCEPT !.state = "running", !.lease = "live",
                                              !.attempts = @ + 1, !.epoch = @ + 1]
        BY <1>2, <2>1 DEF Taken
      <3>. QED BY <2>1, <3>1 DEF JobRow
    <2>4. jobs[j].epoch \in Nat /\ Requeued(S)[j].epoch \in Nat
          /\ jobs[j].epoch <= Requeued(S)[j].epoch
      <3>1. Requeued(S)[j].epoch \in Nat /\ jobs[j].epoch \in Nat /\ jobs[j] \in JobRow
        BY <2>1 DEF Typed, JobsTyped, JobRow
      <3>2. CASE j \notin S
        <4>1. Requeued(S)[j] = jobs[j]
          BY <3>2 DEF Requeued
        <4>. QED BY <3>1, <4>1
      <3>3. CASE j \in S
        <4>1. Requeued(S)[j] = [jobs[j] EXCEPT
                    !.state = IF Exhausted(jobs[j]) THEN "failed" ELSE "queued",
                    !.lease = "none", !.epoch = @ + 1]
          BY <3>3 DEF Requeued
        <4>2. Requeued(S)[j].epoch = jobs[j].epoch + 1
          BY <3>1, <4>1 DEF JobRow
        <4>. QED BY <3>1, <4>2
      <3>. QED BY <3>2, <3>3
    <2>5. \A v \in Workers \ {w} : GoesOn(v) \/ Rests(v)
      BY <1>0, <2>2, OthersGoOn
    <2>6. \A v \in Workers \ {w} : worker'[v].pc # "idle" =>
             /\ GoesOn(v) /\ worker[v].job \in Jobs /\ worker[v].epoch \in Nat
             /\ jobs[worker[v].job].epoch \in Nat /\ jobs'[worker[v].job].epoch \in Nat
      BY <2>5, BusyHasJob DEF Rests, GoesOn, Typed, JobsTyped, JobRow
    <2>7. \A v \in Workers \ {w} : worker'[v].pc # "idle" /\ worker'[v].job = j =>
             worker'[v].epoch < worker'[w].epoch
      BY <2>2, <2>4, <2>6 DEF GoesOn, LeaseInv
    <2>8. \A v \in Workers : worker'[v].pc # "idle" =>
             worker'[v].epoch <= jobs'[worker'[v].job].epoch
             /\ jobs'[worker'[v].job].state # "absent"
      <3>1. ASSUME NEW v \in Workers \ {w}, worker'[v].pc # "idle"
            PROVE  /\ worker'[v].epoch <= jobs'[worker'[v].job].epoch
                   /\ jobs'[worker'[v].job].state # "absent"
        <4>1. worker[v].epoch <= jobs[worker[v].job].epoch /\ jobs[worker[v].job].state # "absent"
          BY <2>6, <3>1 DEF LeaseInv, GoesOn
        <4>2. /\ jobs[worker[v].job].epoch <= jobs'[worker[v].job].epoch
              /\ jobs'[worker[v].job].state # "absent"
          BY <1>0, <2>6, <3>1, <4>1 DEF EpochsGrow
        <4>. QED BY <2>2, <2>6, <3>1, <4>1, <4>2
      <3>2. worker'[w].epoch <= jobs'[worker'[w].job].epoch
        BY <2>2, <2>3, <2>4
      <3>. QED BY <2>2, <2>3, <3>1, <3>2
    <2>9. \A u, v \in Workers : /\ worker'[u].pc # "idle" /\ worker'[v].pc # "idle"
                                /\ worker'[u].job = worker'[v].job
                                /\ worker'[u].epoch = worker'[v].epoch
                                => u = v
      <3>1. \A u, v \in Workers \ {w} : /\ worker'[u].pc # "idle" /\ worker'[v].pc # "idle"
                                        /\ worker'[u].job = worker'[v].job
                                        /\ worker'[u].epoch = worker'[v].epoch
                                        => u = v
        BY <2>6 DEF GoesOn, LeaseInv
      <3>2. \A v \in Workers \ {w} : ~ (/\ worker'[v].pc # "idle" /\ worker'[v].job = worker'[w].job
                                        /\ worker'[v].epoch = worker'[w].epoch)
        <4>1. \A v \in Workers \ {w} : worker'[v].pc # "idle" => worker'[v].epoch \in Nat
          BY <2>6 DEF GoesOn
        <4>2. worker'[w].epoch \in Nat
          BY <2>2, <2>4
        <4>. QED BY <2>2, <2>7, <4>1, <4>2
      <3>. QED BY <3>1, <3>2
    <2>10. \A v \in Workers : worker'[v].pc = "call" \/ worker'[v].called =>
              worker'[v].pc # "idle" /\ PaidAttempt(attempts'[worker'[v].job], worker'[v].epoch)
      BY <2>2, <2>5 DEF GoesOn, Rests
    <2>11. \A v \in Workers : worker'[v].pc = "succeed" => worker'[v].called
      BY <2>2, <2>5 DEF GoesOn, Rests
    <2>. QED BY <2>8, <2>9, <2>10, <2>11 DEF LeaseInv, PaidAttempt
  <1>. QED BY <1>1, <1>2

\* A worker that goes to "fail" or "usage".
LEMMA GoesToEnd ==
  ASSUME Typed, LeaseInv, ReservedStay, NEW w \in Workers, worker[w].pc # "idle",
         NEW pc \in {"fail", "usage"}, GoTo(w, pc)
  PROVE  /\ GoesOn(w) /\ worker'[w].called = worker[w].called
         /\ \A v \in Workers \ {w} : worker'[v] = worker[v]
  <1>1. /\ worker'[w].pc = pc /\ worker'[w].job = worker[w].job
        /\ worker'[w].epoch = worker[w].epoch /\ worker'[w].called = worker[w].called
        /\ \A v \in Workers \ {w} : worker'[v] = worker[v]
    BY DEF GoTo, Typed, WorkersTyped, WorkerState
  <1>2. worker[w].job \in Jobs /\ worker[w].epoch \in Nat
    BY BusyHasJob DEF Typed
  <1>. QED BY <1>1, <1>2 DEF GoesOn, LeaseInv, ReservedStay

LEMMA LeaseNext ==
  Typed /\ Typed' /\ AttemptsInv /\ LeaseInv /\ [Next]_vars => LeaseInv'
  <1>. SUFFICES ASSUME Typed, Typed', AttemptsInv, LeaseInv, [Next]_vars PROVE LeaseInv'
    OBVIOUS
  <1>1. ASSUME EpochsGrow, ReservedStay, worker' = worker PROVE LeaseInv'
    BY <1>1, OthersGoOn, LeaseKept
  <1>2. ASSUME EpochsGrow, ReservedStay, NEW w \in Workers, GoesOn(w) \/ Rests(w),
               \A v \in Workers \ {w} : worker'[v] = worker[v]
        PROVE  LeaseInv'
    BY <1>2, OthersGoOn, LeaseKept
  <1>3. UNCHANGED <<jobs, attempts>> => EpochsGrow /\ ReservedStay
    BY GrowQuiet
  <1>4. ASSUME NEW w \in Workers, ReserveCall(w) PROVE LeaseInv'
    <2>. DEFINE j == worker[w].job
                e == worker[w].epoch
    <2>1. worker[w].pc # "idle" /\ j \in Jobs /\ e \in Nat
      BY <1>4, BusyHasJob DEF ReserveCall, Typed
    <2>2. CASE UNCHANGED <<jobs, attempts>> /\ \E pc \in {"fail", "usage"} : GoTo(w, pc)
      BY <1>2, <1>3, <2>1, <2>2, GoesToEnd
    <2>3. ASSUME Fenced(j, e), Reserved(j, e), NEW pc \in {"call", "fail"}, GoTo(w, pc)
          PROVE  LeaseInv'
      <3>1. EpochsGrow /\ ReservedStay
        BY <2>1, <2>3, GrowReserved
      <3>2. PICK a \in attempts[j] : a.epoch = e
        BY <2>1, <2>3 DEF AttemptsInv, Agree, LeaseRows, Fenced
      <3>3. PaidAttempt(attempts'[j], e)
        <4>. DEFINE paid == [a EXCEPT !.state = "requested", !.reserved = TRUE]
        <4>1. attempts'[j] = PaidFor(attempts[j], e)
          BY <2>1, <2>3 DEF Reserved, PaidFor, Typed, AttemptsTyped
        <4>2. paid \in PaidFor(attempts[j], e)
          BY <3>2 DEF PaidFor
        <4>3. paid.epoch = e /\ paid.reserved
          BY <2>1, <3>2 DEF Typed, AttemptsTyped, AttemptRow
        <4>. QED BY <4>1, <4>2, <4>3 DEF PaidAttempt
      <3>4. /\ worker'[w].pc = pc /\ worker'[w].job = j /\ worker'[w].epoch = e
            /\ \A v \in Workers \ {w} : worker'[v] = worker[v]
        BY <2>3 DEF GoTo, Typed, WorkersTyped, WorkerState
      <3>5. GoesOn(w)
        BY <2>1, <3>3, <3>4 DEF GoesOn
      <3>. QED BY <1>2, <3>1, <3>4, <3>5
    <2>. QED BY <1>4, <2>2, <2>3 DEF ReserveCall
  <1>5. ASSUME NEW w \in Workers, CallModel(w) PROVE LeaseInv'
    <2>1. worker[w].pc = "call" /\ worker[w].job \in Jobs /\ UNCHANGED <<jobs, attempts>>
      BY <1>5, BusyHasJob DEF CallModel, Typed
    <2>2. /\ worker'[w].pc \in {"succeed", "fail"} /\ worker'[w].job = worker[w].job
          /\ worker'[w].epoch = worker[w].epoch /\ worker'[w].called
          /\ \A v \in Workers \ {w} : worker'[v] = worker[v]
      BY <1>5 DEF CallModel, Typed, WorkersTyped, WorkerState
    <2>3. GoesOn(w)
      BY <2>1, <2>2 DEF GoesOn, LeaseInv
    <2>. QED BY <1>2, <1>3, <2>1, <2>2, <2>3
  <1>6. ASSUME NEW w \in Workers, Succeed(w) PROVE LeaseInv'
    <2>1. worker[w].pc # "idle" /\ \E pc \in {"fail", "usage"} : GoTo(w, pc)
      BY <1>6 DEF Succeed
    <2>2. EpochsGrow /\ ReservedStay
      BY <1>3, <1>6, <2>1, GrowFinished DEF Succeed
    <2>. QED BY <1>2, <2>1, <2>2, GoesToEnd
  <1>7. ASSUME NEW w \in Workers, Fail(w) PROVE LeaseInv'
    <2>1. worker[w].pc # "idle" /\ GoTo(w, "usage")
      BY <1>7 DEF Fail
    <2>2. EpochsGrow /\ ReservedStay
      BY <1>3, <1>7, <2>1, GrowFinished DEF Fail
    <2>. QED BY <1>2, <2>1, <2>2, GoesToEnd
  <1>8. ASSUME NEW w \in Workers, RecordUsage(w) \/ Crash(w) PROVE LeaseInv'
    <2>1. Rests(w) /\ \A v \in Workers \ {w} : worker'[v] = worker[v]
      BY <1>8 DEF RecordUsage, Crash, Rests, Idle, Typed, WorkersTyped
    <2>2. \A k \in Jobs : jobs'[k].state = jobs[k].state /\ jobs'[k].epoch = jobs[k].epoch
      BY <1>8 DEF RecordUsage, Crash, Typed, JobsTyped, JobRow
    <2>3. EpochsGrow /\ ReservedStay
      BY <1>8, <2>2, GrowQuiet DEF RecordUsage, Crash
    <2>. QED BY <1>2, <2>1, <2>3
  <1>9. ASSUME NEW j \in Jobs, JobStep(j) PROVE LeaseInv'
    <2>1. worker' = worker
      BY <1>9 DEF JobStep, Enqueue, Cancel, EditOutline, ApproveOutline, Apply, Lapse
    <2>. QED BY <1>1, <1>9, <2>1, GrowJobStep
  <1>10. ASSUME NEW o \in Owners, StoryStep(o) PROVE LeaseInv'
    BY <1>1, <1>3, <1>10 DEF StoryStep, SaveDraft, StopStory, ResumeStory
  <1>11. CASE UNCHANGED vars
    BY <1>1, <1>3, <1>11 DEF vars
  <1>. QED BY <1>4, <1>5, <1>6, <1>7, <1>8, <1>9, <1>10, <1>11, LeaseClaim
           DEF Next, WorkerStep, Quiescent

LEMMA AlwaysLease == Spec => []LeaseInv
  <1>1. Init => LeaseInv
    BY DEF Init, Idle, LeaseInv
  <1>. QED BY <1>1, LeaseNext, AlwaysTyped, AlwaysAttempts, PTL DEF Spec

-----------------------------------------------------------------------------
(* Usage *)

\* Tokens not yet on the job are known to a worker that will record them, and
\* a running job has none yet that its holder could overwrite.
BillInv ==
    /\ \A j \in Jobs : jobs[j].billed => jobs[j].requests = 1
    /\ \A w \in Workers : /\ worker[w].pc # "idle"
                          /\ jobs[worker[w].job].state = "running"
                          /\ worker[w].epoch = jobs[worker[w].job].epoch
                          => ~jobs[worker[w].job].billed
    /\ \A j \in Jobs : sent[j] > 0 /\ j \notin lost /\ ~jobs[j].billed =>
          \E w \in Workers : worker[w].job = j /\ worker[w].called

\* What a step leaves of the bills when it neither claims nor records.
BillKept ==
    /\ sent' = sent /\ lost \subseteq lost'
    /\ \A k \in Jobs : /\ jobs'[k].billed = jobs[k].billed
                       /\ jobs[k].requests = 1 => jobs'[k].requests = 1
                       /\ jobs'[k].state = "running" =>
                             jobs[k].state = "running" /\ jobs'[k].epoch = jobs[k].epoch
    /\ \A w \in Workers : worker'[w].pc # "idle" =>
          /\ worker[w].pc # "idle" /\ worker'[w].job = worker[w].job
          /\ worker'[w].epoch = worker[w].epoch
    /\ \A w \in Workers : worker[w].called /\ worker[w].job \notin lost' =>
          worker'[w].job = worker[w].job /\ worker'[w].called

LEMMA BillsKept == ASSUME Typed, BillInv, BillKept PROVE BillInv'
  <1>1. \A w \in Workers : worker[w].pc # "idle" => worker[w].job \in Jobs
    BY BusyHasJob DEF Typed
  <1>2. \A k \in Jobs : jobs'[k].billed => jobs'[k].requests = 1
    BY DEF BillInv, BillKept
  <1>3. \A w \in Workers : /\ worker'[w].pc # "idle"
                           /\ jobs'[worker'[w].job].state = "running"
                           /\ worker'[w].epoch = jobs'[worker'[w].job].epoch
                           => ~jobs'[worker'[w].job].billed
    BY <1>1 DEF BillInv, BillKept
  <1>4. \A k \in Jobs : sent'[k] > 0 /\ k \notin lost' /\ ~jobs'[k].billed =>
           \E w \in Workers : worker'[w].job = k /\ worker'[w].called
    BY DEF BillInv, BillKept
  <1>. QED BY <1>2, <1>3, <1>4 DEF BillInv

LEMMA WorkerGoTo ==
  ASSUME Typed, NEW w \in Workers, NEW pc, GoTo(w, pc)
  PROVE  /\ worker'[w].pc = pc /\ worker'[w].job = worker[w].job
         /\ worker'[w].epoch = worker[w].epoch /\ worker'[w].called = worker[w].called
         /\ \A v \in Workers \ {w} : worker'[v] = worker[v]
  BY DEF GoTo, Typed, WorkersTyped, WorkerState

LEMMA BillGoTo ==
  ASSUME Typed, BillInv, NEW w \in Workers, worker[w].pc # "idle",
         NEW pc \in {"call", "fail", "usage"}, GoTo(w, pc), sent' = sent, lost' = lost,
         \A k \in Jobs : /\ jobs'[k].billed = jobs[k].billed
                         /\ jobs[k].requests = 1 => jobs'[k].requests = 1
                         /\ jobs'[k].state = jobs[k].state /\ jobs'[k].epoch = jobs[k].epoch
  PROVE  BillInv'
  BY BillsKept, WorkerGoTo DEF BillKept

LEMMA BillIdleStep ==
  ASSUME Typed, BillInv, sent' = sent, lost' = lost, worker' = worker,
         \A k \in Jobs : /\ jobs'[k].billed = jobs[k].billed
                         /\ jobs'[k].requests = jobs[k].requests
                         /\ jobs'[k].state = "running" =>
                               jobs[k].state = "running" /\ jobs'[k].epoch = jobs[k].epoch
  PROVE  BillInv'
  BY BillsKept DEF BillKept

LEMMA BillReserveCall ==
  ASSUME Typed, BillInv, NEW w \in Workers, ReserveCall(w) PROVE BillInv'
  <1>1. /\ worker[w].pc # "idle" /\ worker[w].job \in Jobs
        /\ sent' = sent /\ lost' = lost /\ \E pc \in {"call", "fail", "usage"} : GoTo(w, pc)
    BY BusyHasJob DEF ReserveCall, Typed
  <1>2. \A k \in Jobs : /\ jobs'[k].billed = jobs[k].billed
                        /\ jobs[k].requests = 1 => jobs'[k].requests = 1
                        /\ jobs'[k].state = jobs[k].state /\ jobs'[k].epoch = jobs[k].epoch
    <2>1. CASE UNCHANGED jobs
      BY <2>1
    <2>2. CASE Reserved(worker[w].job, worker[w].epoch)
      BY <1>1, <2>2, ReservedKeeps
    <2>. QED BY <2>1, <2>2 DEF ReserveCall
  <1>. QED BY <1>1, <1>2, BillGoTo

LEMMA BillCallModel ==
  ASSUME Typed, BillInv, NEW w \in Workers, CallModel(w) PROVE BillInv'
  <1>. DEFINE j == worker[w].job
  <1>1. worker[w].pc = "call" /\ j \in Jobs /\ jobs' = jobs /\ lost' = lost
    BY BusyHasJob DEF CallModel, Typed
  <1>2. /\ worker'[w].pc \in {"succeed", "fail"} /\ worker'[w].job = j
        /\ worker'[w].epoch = worker[w].epoch /\ worker'[w].called
        /\ \A v \in Workers \ {w} : worker'[v] = worker[v]
    BY DEF CallModel, Typed, WorkersTyped, WorkerState
  <1>3. \A k \in Jobs \ {j} : sent'[k] = sent[k]
    BY <1>1 DEF CallModel, Typed, OthersTyped
  <1>4. \A k \in Jobs : jobs'[k].billed => jobs'[k].requests = 1
    BY <1>1 DEF BillInv
  <1>5. \A v \in Workers : /\ worker'[v].pc # "idle"
                           /\ jobs'[worker'[v].job].state = "running"
                           /\ worker'[v].epoch = jobs'[worker'[v].job].epoch
                           => ~jobs'[worker'[v].job].billed
    BY <1>1, <1>2 DEF BillInv
  <1>6. \A k \in Jobs : sent'[k] > 0 /\ k \notin lost' /\ ~jobs'[k].billed =>
           \E v \in Workers : worker'[v].job = k /\ worker'[v].called
    BY <1>1, <1>2, <1>3 DEF BillInv
  <1>. QED BY <1>4, <1>5, <1>6 DEF BillInv

\* The holder of a job that ends is the only one who may have called for it.
LEMMA OnlyHolderCalled ==
  ASSUME Typed, AttemptsInv, LeaseInv, NEW w \in Workers, worker[w].pc # "idle",
         Fenced(worker[w].job, worker[w].epoch),
         NEW v \in Workers, worker[v].called, worker[v].job = worker[w].job
  PROVE  v = w
  <1>. DEFINE j == worker[w].job
  <1>1. j \in Jobs /\ jobs[j].state = "running" /\ jobs[j].epoch = worker[w].epoch
    BY BusyHasJob DEF Fenced, Typed
  <1>2. worker[v].pc # "idle" /\ PaidAttempt(attempts[j], worker[v].epoch)
    BY DEF LeaseInv
  <1>3. worker[v].epoch = jobs[j].epoch
    BY <1>1, <1>2 DEF AttemptsInv, Agree, PaidRows, PaidAttempt
  <1>. QED BY <1>1, <1>2, <1>3 DEF LeaseInv

LEMMA CalledIsPaid ==
  ASSUME Typed, AttemptsInv, LeaseInv, NEW w \in Workers, worker[w].called
  PROVE  worker[w].job \in Jobs /\ jobs[worker[w].job].requests = 1
  <1>1. worker[w].pc # "idle" /\ PaidAttempt(attempts[worker[w].job], worker[w].epoch)
    BY DEF LeaseInv
  <1>2. worker[w].job \in Jobs
    BY <1>1, BusyHasJob DEF Typed
  <1>. QED BY <1>1, <1>2 DEF AttemptsInv, Agree, PaidRows, PaidAttempt

LEMMA BillFinished ==
  ASSUME Typed, AttemptsInv, LeaseInv, BillInv, NEW w \in Workers, worker[w].pc # "idle",
         NEW state \in {"succeeded", "failed"}, NEW outline \in BOOLEAN,
         Fenced(worker[w].job, worker[w].epoch), Finished(w, state, outline),
         NEW pc \in {"fail", "usage"}, GoTo(w, pc), sent' = sent, lost' = lost
  PROVE  BillInv'
  <1>. DEFINE j == worker[w].job
  <1>1. j \in Jobs /\ worker[w].called \in BOOLEAN
        /\ jobs[j].state = "running" /\ jobs[j].epoch = worker[w].epoch
    BY BusyHasJob DEF Typed, Fenced
  <1>2. /\ jobs'[j].state = state /\ jobs'[j].billed = worker[w].called
        /\ jobs'[j].requests = jobs[j].requests
        /\ \A k \in Jobs \ {j} : jobs'[k] = jobs[k]
    BY <1>1, FinishedKeeps
  <1>3. /\ worker'[w].pc = pc /\ worker'[w].job = j /\ worker'[w].called = worker[w].called
        /\ worker'[w].epoch = worker[w].epoch
        /\ \A v \in Workers \ {w} : worker'[v] = worker[v]
    BY WorkerGoTo
  <1>4. \A k \in Jobs : jobs'[k].billed => jobs'[k].requests = 1
    BY <1>2, CalledIsPaid DEF BillInv
  <1>5. \A v \in Workers : /\ worker'[v].pc # "idle"
                           /\ jobs'[worker'[v].job].state = "running"
                           /\ worker'[v].epoch = jobs'[worker'[v].job].epoch
                           => ~jobs'[worker'[v].job].billed
    <2>1. \A v \in Workers : worker'[v].pc # "idle" =>
             worker'[v].job \in Jobs /\ worker'[v].job = worker[v].job
             /\ worker'[v].epoch = worker[v].epoch /\ worker[v].pc # "idle"
      BY <1>1, <1>3, BusyHasJob DEF Typed
    <2>. QED BY <1>2, <2>1 DEF BillInv
  <1>6. ~jobs[j].billed
    BY <1>1 DEF BillInv
  <1>7. \A k \in Jobs : sent'[k] > 0 /\ k \notin lost' /\ ~jobs'[k].billed =>
           \E v \in Workers : worker'[v].job = k /\ worker'[v].called
    <2>1. ASSUME sent[j] > 0, j \notin lost, ~jobs'[j].billed PROVE FALSE
      <3>1. PICK v \in Workers : worker[v].job = j /\ worker[v].called
        BY <1>1, <1>6, <2>1 DEF BillInv
      <3>2. v = w
        BY <3>1, OnlyHolderCalled
      <3>. QED BY <1>2, <2>1, <3>1, <3>2
    <2>. QED BY <1>2, <1>3, <2>1 DEF BillInv
  <1>. QED BY <1>4, <1>5, <1>7 DEF BillInv

LEMMA BillRecordUsage ==
  ASSUME Typed, AttemptsInv, LeaseInv, BillInv, NEW w \in Workers, RecordUsage(w)
  PROVE  BillInv'
  <1>. DEFINE j == worker[w].job
              now == jobs[j].billed \/ (UsageKnown(j, worker[w].epoch) /\ worker[w].called)
  <1>1. /\ worker[w].pc # "idle" /\ j \in Jobs /\ worker[w].called \in BOOLEAN
        /\ sent' = sent /\ lost' = lost
    BY BusyHasJob DEF RecordUsage, Typed
  <1>2. UsageKnown(j, worker[w].epoch) <=> PaidAttempt(attempts[j], worker[w].epoch)
    BY DEF UsageKnown, PaidAttempt
  <1>3. worker[w].called => UsageKnown(j, worker[w].epoch)
    BY <1>2 DEF LeaseInv
  <1>4. now <=> jobs[j].billed \/ worker[w].called
    BY <1>3
  <1>5. jobs' = [jobs EXCEPT ![j].billed = now]
    BY DEF RecordUsage
  <1>6. /\ jobs'[j].billed <=> now
        /\ jobs'[j].state = jobs[j].state /\ jobs'[j].epoch = jobs[j].epoch
        /\ jobs'[j].requests = jobs[j].requests
        /\ \A k \in Jobs \ {j} : jobs'[k] = jobs[k]
    <2>. HIDE DEF now
    <2>. QED BY <1>1, <1>5 DEF Typed, JobsTyped, JobRow
  <1>7. /\ worker'[w].pc = "idle" /\ \A v \in Workers \ {w} : worker'[v] = worker[v]
    BY DEF RecordUsage, Idle, Typed, WorkersTyped
  <1>. HIDE DEF now
  <1>8. \A k \in Jobs : jobs'[k].billed => jobs'[k].requests = 1
    BY <1>4, <1>6, CalledIsPaid DEF BillInv
  <1>9. ASSUME NEW v \in Workers, worker'[v].pc # "idle",
               jobs'[worker'[v].job].state = "running",
               worker'[v].epoch = jobs'[worker'[v].job].epoch
        PROVE  ~jobs'[worker'[v].job].billed
    <2>1. v # w /\ worker'[v] = worker[v] /\ worker[v].job \in Jobs /\ worker[v].pc # "idle"
      BY <1>7, <1>9, BusyHasJob DEF Typed
    <2>2. /\ jobs[worker[v].job].state = "running"
          /\ worker[v].epoch = jobs[worker[v].job].epoch
      BY <1>6, <1>9, <2>1
    <2>3. ~jobs[worker[v].job].billed
      BY <2>1, <2>2 DEF BillInv
    <2>4. CASE worker[v].job # j
      BY <1>6, <2>1, <2>3, <2>4
    <2>5. CASE worker[v].job = j
      <3>1. /\ j \in Jobs /\ jobs[j].state = "running" /\ jobs[j].epoch = worker[v].epoch
            /\ ~jobs[j].billed
        BY <1>1, <2>2, <2>3, <2>5
      <3>2. ~worker[w].called
        <4>. SUFFICES ASSUME worker[w].called PROVE FALSE
          OBVIOUS
        <4>1. PaidAttempt(attempts[j], worker[w].epoch)
          BY DEF LeaseInv
        <4>2. worker[w].epoch = jobs[j].epoch
          BY <3>1, <4>1 DEF AttemptsInv, Agree, PaidRows, PaidAttempt
        <4>. QED BY <1>1, <2>1, <2>5, <3>1, <4>2 DEF LeaseInv
      <3>. QED BY <1>4, <1>6, <2>1, <2>5, <3>1, <3>2
    <2>. QED BY <2>4, <2>5
  <1>10. \A k \in Jobs : sent'[k] > 0 /\ k \notin lost' /\ ~jobs'[k].billed =>
            \E v \in Workers : worker'[v].job = k /\ worker'[v].called
    <2>. SUFFICES ASSUME NEW k \in Jobs, sent[k] > 0, k \notin lost, ~jobs'[k].billed
         PROVE  \E v \in Workers : worker'[v].job = k /\ worker'[v].called
      BY <1>1
    <2>1. ~jobs[k].billed
      BY <1>4, <1>6
    <2>2. PICK v \in Workers : worker[v].job = k /\ worker[v].called
      BY <2>1 DEF BillInv
    <2>3. v # w
      BY <1>4, <1>6, <2>2
    <2>. QED BY <1>7, <2>2, <2>3
  <1>. QED BY <1>8, <1>9, <1>10 DEF BillInv

\* What a sweep leaves of each row.
LEMMA SweptRow ==
  ASSUME Typed, NEW S \in SUBSET Expired, NEW k \in Jobs
  PROVE  /\ Requeued(S)[k].billed = jobs[k].billed
         /\ Requeued(S)[k].requests = jobs[k].requests
         /\ Requeued(S)[k].state = "running" => Requeued(S)[k] = jobs[k]
  <1>1. jobs[k] \in JobRow
    BY DEF Typed, JobsTyped
  <1>2. CASE k \notin S
    BY <1>2 DEF Requeued
  <1>3. CASE k \in S
    <2>1. Requeued(S)[k] = [jobs[k] EXCEPT
                !.state = IF Exhausted(jobs[k]) THEN "failed" ELSE "queued",
                !.lease = "none", !.epoch = @ + 1]
      BY <1>3 DEF Requeued
    <2>. QED BY <1>1, <2>1 DEF JobRow
  <1>. QED BY <1>2, <1>3

LEMMA BillClaim ==
  ASSUME Typed, LeaseInv, BillInv, NEW w \in Workers, Claim(w) PROVE BillInv'
  <1>. PICK S \in SUBSET Expired :
        \/ \E j \in Jobs : Requeued(S)[j].state = "queued" /\ Taken(w, j, Requeued(S), Closed(S))
        \/ jobs' = Requeued(S) /\ UNCHANGED worker
    BY DEF Claim, Expirable
  <1>0. sent' = sent /\ lost' = lost /\ worker[w].pc = "idle" /\ ~worker[w].called
    BY DEF Claim, LeaseInv
  <1>1. CASE jobs' = Requeued(S) /\ UNCHANGED worker
    BY <1>0, <1>1, SweptRow, BillIdleStep
  <1>2. ASSUME NEW j \in Jobs, Requeued(S)[j].state = "queued",
               Taken(w, j, Requeued(S), Closed(S))
        PROVE  BillInv'
    <2>1. Requeued(S) \in [Jobs -> JobRow] /\ Requeued(S)[j].requests = 0
      BY <1>2, RequeuedTyped
    <2>2. /\ jobs'[j] = [Requeued(S)[j] EXCEPT !.state = "running", !.lease = "live",
                                               !.attempts = @ + 1, !.epoch = @ + 1]
          /\ \A k \in Jobs \ {j} : jobs'[k] = Requeued(S)[k]
          /\ worker'[w].job = j /\ \A v \in Workers \ {w} : worker'[v] = worker[v]
      BY <1>2, <2>1 DEF Taken, Typed, WorkersTyped
    <2>3. jobs'[j].billed = Requeued(S)[j].billed /\ jobs'[j].requests = 0
      BY <2>1, <2>2 DEF JobRow
    <2>4. ~jobs[j].billed
      BY <2>1, SweptRow DEF BillInv
    <2>5. ~jobs'[j].billed
      BY <2>3, <2>4, SweptRow
    <2>6. \A k \in Jobs : /\ jobs'[k].billed = jobs[k].billed
                          /\ jobs'[k].requests = jobs[k].requests
      <3>1. jobs'[j].billed = jobs[j].billed /\ jobs'[j].requests = jobs[j].requests
        BY <2>1, <2>3, SweptRow
      <3>2. ASSUME NEW k \in Jobs \ {j}
            PROVE  jobs'[k].billed = jobs[k].billed /\ jobs'[k].requests = jobs[k].requests
        BY <2>2, SweptRow
      <3>. QED BY <3>1, <3>2
    <2>7. \A k \in Jobs \ {j} : jobs'[k].state = "running" => jobs'[k] = jobs[k]
      BY <2>2, SweptRow
    <2>8. \A k \in Jobs : jobs'[k].billed => jobs'[k].requests = 1
      BY <2>6 DEF BillInv
    <2>9. \A v \in Workers : /\ worker'[v].pc # "idle"
                             /\ jobs'[worker'[v].job].state = "running"
                             /\ worker'[v].epoch = jobs'[worker'[v].job].epoch
                             => ~jobs'[worker'[v].job].billed
      <3>. SUFFICES ASSUME NEW v \in Workers, worker'[v].pc # "idle", worker'[v].job # j,
                           jobs'[worker'[v].job].state = "running",
                           worker'[v].epoch = jobs'[worker'[v].job].epoch
           PROVE  ~jobs'[worker'[v].job].billed
        BY <2>5
      <3>1. worker'[v] = worker[v]
        BY <2>2
      <3>2. worker[v].pc # "idle" /\ worker[v].job \in Jobs \ {j}
        BY <3>1, BusyHasJob DEF Typed
      <3>. QED BY <2>7, <3>1, <3>2 DEF BillInv
    <2>10. \A k \in Jobs : sent'[k] > 0 /\ k \notin lost' /\ ~jobs'[k].billed =>
              \E v \in Workers : worker'[v].job = k /\ worker'[v].called
      BY <1>0, <2>2, <2>6 DEF BillInv
    <2>. QED BY <2>8, <2>9, <2>10 DEF BillInv
  <1>. QED BY <1>1, <1>2

LEMMA BillEnqueue ==
  ASSUME Typed, PaidInv, BillInv, NEW j \in Jobs, Enqueue(j) PROVE BillInv'
  <1>1. /\ ~jobs'[j].billed /\ jobs[j].state = "absent"
        /\ \A k \in Jobs \ {j} : jobs'[k] = jobs[k]
        /\ sent' = sent /\ lost' = lost /\ worker' = worker
    BY ZenonT(60) DEF Enqueue, Enqueued, NoRow, Typed, JobsTyped
  <1>2. ~(sent[j] > 0)
    <2>1. sent[j] \in Nat /\ sent[j] <= jobs[j].requests /\ jobs[j].requests = 0
      BY <1>1 DEF Typed, OthersTyped, QueuedIsFresh, PaidInv
    <2>. QED BY <2>1
  <1>3. \A k \in Jobs : jobs'[k].billed => jobs'[k].requests = 1
    BY <1>1 DEF BillInv
  <1>4. \A v \in Workers : /\ worker'[v].pc # "idle"
                           /\ jobs'[worker'[v].job].state = "running"
                           /\ worker'[v].epoch = jobs'[worker'[v].job].epoch
                           => ~jobs'[worker'[v].job].billed
    BY <1>1, BusyHasJob DEF BillInv, Typed
  <1>5. \A k \in Jobs : sent'[k] > 0 /\ k \notin lost' /\ ~jobs'[k].billed =>
           \E v \in Workers : worker'[v].job = k /\ worker'[v].called
    BY <1>1, <1>2 DEF BillInv
  <1>. QED BY <1>3, <1>4, <1>5 DEF BillInv

LEMMA BillJobStep ==
  ASSUME Typed, PaidInv, BillInv, NEW j \in Jobs, JobStep(j) PROVE BillInv'
  <1>1. CASE ~Enqueue(j)
    <2>1. sent' = sent /\ lost' = lost /\ worker' = worker
      BY <1>1 DEF JobStep, Cancel, EditOutline, ApproveOutline, Apply, Lapse
    <2>2. \A k \in Jobs : /\ jobs'[k].billed = jobs[k].billed
                          /\ jobs'[k].requests = jobs[k].requests
                          /\ jobs'[k].state = "running" =>
                                jobs[k].state = "running" /\ jobs'[k].epoch = jobs[k].epoch
      BY <1>1 DEF JobStep, Cancel, EditOutline, ApproveOutline, Apply, Lapse,
                  Typed, JobsTyped, JobRow
    <2>. QED BY <2>1, <2>2, BillIdleStep
  <1>. QED BY <1>1, BillEnqueue

LEMMA BillCrash ==
  ASSUME Typed, BillInv, NEW w \in Workers, Crash(w) PROVE BillInv'
  <1>1. /\ jobs' = jobs /\ sent' = sent /\ lost \subseteq lost'
        /\ worker[w].called => worker[w].job \in lost'
    BY DEF Crash
  <1>2. worker'[w].pc = "idle" /\ \A v \in Workers \ {w} : worker'[v] = worker[v]
    BY DEF Crash, Idle, Typed, WorkersTyped
  <1>. QED BY <1>1, <1>2, BillsKept DEF BillKept

LEMMA BillNext ==
  Typed /\ PaidInv /\ AttemptsInv /\ LeaseInv /\ BillInv /\ [Next]_vars => BillInv'
  <1>. SUFFICES ASSUME Typed, PaidInv, AttemptsInv, LeaseInv, BillInv, [Next]_vars
       PROVE  BillInv'
    OBVIOUS
  <1>1. ASSUME UNCHANGED <<jobs, worker, sent, lost>> PROVE BillInv'
    BY <1>1, BillIdleStep
  <1>2. ASSUME NEW w \in Workers, Succeed(w) \/ Fail(w) PROVE BillInv'
    <2>1. /\ worker[w].pc # "idle" /\ sent' = sent /\ lost' = lost
          /\ \E pc \in {"fail", "usage"} : GoTo(w, pc)
      BY <1>2 DEF Succeed, Fail
    <2>2. CASE UNCHANGED jobs
      BY <2>1, <2>2, BillGoTo
    <2>3. CASE \E state \in {"succeeded", "failed"}, outline \in BOOLEAN :
                  Fenced(worker[w].job, worker[w].epoch) /\ Finished(w, state, outline)
      BY <2>1, <2>3, BillFinished
    <2>. QED BY <1>2, <2>2, <2>3 DEF Succeed, Fail
  <1>3. ASSUME NEW w \in Workers, WorkerStep(w) PROVE BillInv'
    BY <1>2, <1>3, BillClaim, BillReserveCall, BillCallModel, BillRecordUsage DEF WorkerStep
  <1>4. ASSUME NEW j \in Jobs, JobStep(j) PROVE BillInv'
    BY <1>4, BillJobStep
  <1>5. ASSUME NEW w \in Workers, Crash(w) PROVE BillInv'
    BY <1>5, BillCrash
  <1>. QED BY <1>1, <1>3, <1>4, <1>5
           DEF Next, StoryStep, SaveDraft, StopStory, ResumeStory, Quiescent, vars

LEMMA AlwaysBill == Spec => []BillInv
  <1>1. Init => BillInv
    BY DEF Init, NoRow, Idle, BillInv
  <1>. QED BY <1>1, BillNext, AlwaysTyped, AlwaysPaid, AlwaysAttempts, AlwaysLease, PTL DEF Spec

\* What the provider charged is on the job once no worker holds it, for any number of
\* workers, takeovers and cancellations, unless the worker died before it could record
\* it (record_usage, story_jobs.py:415).
THEOREM UsageCorrect == Spec => []UsageIsRecorded
  <1>1. BillInv => UsageIsRecorded
    BY DEF BillInv, UsageIsRecorded
  <1>. QED BY <1>1, AlwaysBill, PTL

=============================================================================
