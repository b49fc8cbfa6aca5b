------------------------------ MODULE UsageQuota ------------------------------
(***************************************************************************)
(* The ledger of what each player used today, and the transactions that    *)
(* reserve in it: a turn accepted, a request to a language model, a story  *)
(* created or validated, an authoring job.  They run in many processes.    *)
(*                                                                         *)
(* A transaction takes the locks of its handler one after the other and    *)
(* waits where another transaction holds one.  The lock of the ledger is   *)
(* the last.  It keeps them all until it commits or is rolled back, and it *)
(* counts from the day on which it began, which may be over by then.       *)
(***************************************************************************)
EXTENDS Integers, Sequences, FiniteSets

CONSTANTS Txns,         \* connections to the database
          Items,        \* what is asked for: a request by its id, a call by its number
          NoItem,       \* stands for "no item"
          Needs,        \* of each item: the items to be done before
          Eve,          \* turns and jobs accepted the day before
          Limit,        \* usage_limits: what one principal may use on a day
          GlobalLimit,  \* daily_global_llm_limit
          TurnLimit,    \* concurrent_turn_limit
          MaxDay,       \* bound: days
          MaxCalls      \* bound: transactions begun

VARIABLES today,    \* the day of the database's clock
          ledger,   \* day of each row of usage_reservations, 0 where there is none
          done,     \* items whose effect is committed
          blocked,  \* stories stopped by an administrator
          paused,   \* service_controls.usage_paused
          calls,    \* transactions begun so far
          txn       \* the transaction of each connection

vars == <<today, ledger, done, blocked, paused, calls, txn>>

-----------------------------------------------------------------------------
(* Handlers: what they reserve and what they lock *)

\* the purpose of each handler that reserves
Purpose == [accept    |-> "turn",         reserve  |-> "llm_game",
            create    |-> "story_create", duplicate |-> "story_create",
            enqueue   |-> "authoring_job", call    |-> "llm_authoring",
            validate  |-> "story_validation"]

Reserving == DOMAIN Purpose
Purposes == {Purpose[h] : h \in Reserving}
ForModel(u) == u \in {"llm_game", "llm_authoring"}

\* Handlers that reserve nothing and wait for the same locks.
Others == {"conclude", "cancel", "claim", "block", "withdraw", "pause", "resume"}

\* A turn and its calls are known by their campaign, a job by its story.
Item == [handler : Reserving \cup Others, owner : Nat, story : Nat, campaign : Nat,
         number : Nat]

Alone(kind, id)  == [kind |-> kind, id |-> id, shared |-> FALSE]  \* FOR UPDATE
Shared(kind, id) == [kind |-> kind, id |-> id, shared |-> TRUE]   \* FOR SHARE

\* _request_lock
Request(i) == Alone("request", <<i.owner, i.number>>)

\* _owned
Story(i) == Alone("story", <<i.story>>)

\* authorize_story_run
Run(i) == Shared("story", <<i.story>>)

Campaign(i) == Alone("campaign", <<i.campaign>>)
Turn(i)     == Alone("turn", <<i.campaign>>)
Job(i)      == Alone("job", <<i.story>>)
Admission   == Alone("admission", <<>>)
Ledger      == Alone("ledger", <<>>)

\* Mutant: the ledger first.
LedgerFirst(i) == <<Ledger, Campaign(i), Run(i)>>

\* accept_pending
ToAccept(i) == <<Campaign(i), Run(i), Ledger>>

\* PostgresLLMCallRepository.reserve
ToReserve(i) == <<Campaign(i), Run(i), Turn(i), Ledger>>

ToCreate(i) == <<Request(i), Ledger>>

\* _mutation, then _insert_story
ToDuplicate(i) == <<Request(i), Story(i), Ledger>>

\* cached_validation
ToValidate(i) == <<Story(i), Ledger>>

\* PostgresStoryJobStore.enqueue, with the row of the outline it continues
ToEnqueue(i) == <<Request(i), Story(i), Job(i), Admission, Ledger>>

\* PostgresStoryJobStore.reserve_call
ToCall(i) == <<Story(i), Job(i), Ledger>>

\* save_conditionally, the last transaction of a turn
ToConclude(i) == <<Campaign(i), Run(i), Turn(i)>>

\* PostgresStoryJobStore.cancel
ToCancel(i) == <<Story(i), Job(i)>>

\* PostgresStoryJobStore.claim, which passes over jobs that are locked
ToClaim(i) == <<Admission>>

ToModerate(i) == <<Request(i), Story(i)>>

\* Mutant: without the lock of the ledger.
ToPauseAtOnce(i) == <<Request(i)>>

\* pause_usage
ToPause(i) == <<Request(i), Ledger>>

Locks(i) == CASE i.handler = "accept"                -> ToAccept(i)
              [] i.handler = "reserve"               -> ToReserve(i)
              [] i.handler = "create"                -> ToCreate(i)
              [] i.handler = "duplicate"             -> ToDuplicate(i)
              [] i.handler = "validate"              -> ToValidate(i)
              [] i.handler = "enqueue"               -> ToEnqueue(i)
              [] i.handler = "call"                  -> ToCall(i)
              [] i.handler = "conclude"              -> ToConclude(i)
              [] i.handler = "cancel"                -> ToCancel(i)
              [] i.handler = "claim"                 -> ToClaim(i)
              [] i.handler \in {"block", "withdraw"} -> ToModerate(i)
              [] i.handler \in {"pause", "resume"}   -> ToPause(i)

Idle == [pc |-> "idle", item |-> NoItem, day |-> 0, got |-> 0]

ASSUME QuotaAssumption ==
    /\ Items \subseteq Item
    /\ IsFiniteSet(Items)
    /\ NoItem \notin Items
    /\ Eve \subseteq {i \in Items : i.handler \in {"accept", "enqueue"}}
    /\ Needs \in [Items -> SUBSET Items]
    /\ Limit \in [Purposes -> Nat]
    /\ GlobalLimit \in Nat
    /\ TurnLimit \in Nat
    /\ MaxDay \in Nat
    /\ MaxCalls \in Nat

\* The second day.
Init == /\ today = 2
        /\ ledger = [i \in Items |-> IF i \in Eve THEN 1 ELSE 0]
        /\ done = Eve
        /\ blocked = {}
        /\ paused = FALSE
        /\ calls = 0
        /\ txn = [t \in Txns |-> Idle]

-----------------------------------------------------------------------------
(* Locks *)

\* the locks a transaction has: the first `got' of its handler
Held(t) == IF txn[t].pc = "idle" THEN {}
           ELSE {Locks(txn[t].item)[k] : k \in 1..txn[t].got}

\* A lock that is not shared, or not shared by its holder, is waited for.
Free(lock, t) ==
    \A u \in Txns \ {t} : \A other \in Held(u) :
        other.kind = lock.kind /\ other.id = lock.id => other.shared /\ lock.shared

Locking(t) == txn[t].pc = "locking"

Locked(t) == txn[t].got = Len(Locks(txn[t].item))

NextLock(t) == Locks(txn[t].item)[txn[t].got + 1]

\* Has the locks of all the rows it uses; only that of the ledger may be missing.
HasRows(t) == LET locks == Locks(txn[t].item) IN
              \A k \in (txn[t].got + 1)..Len(locks) : locks[k] = Ledger

-----------------------------------------------------------------------------
(* What a handler checks under its locks, and reserve_usage under that of the ledger *)

Concluded(i) == \E j \in done :
    j.handler = "conclude" /\ j.campaign = i.campaign /\ j.number = i.number

\* turns still to be resolved or narrated
OpenTurns == {i \in done : i.handler = "accept" /\ ~Concluded(i)}

Playing(i) == \E j \in OpenTurns : j.campaign = i.campaign

Cancelled(i) == \E j \in done : j.handler = "cancel" /\ j.story = i.story

\* It was done before (_replay, _audit_replay, a cached report), or its story is
\* stopped, or the campaign has a turn or none, or the job is cancelled.
Declined(i) ==
    \/ i \in done
    \/ i.handler \in (Reserving \ {"create"}) \cup {"conclude"} /\ i.story \in blocked
    \/ i.handler = "accept" /\ Playing(i)
    \/ i.handler = "reserve" /\ ~Playing(i)
    \/ i.handler = "call" /\ Cancelled(i)

\* Mutant: the rows of the present day.
RowsToday(t) == {i \in Items : ledger[i] = today}

\* created_at >= day, the day on which the transaction began
Rows(t) == {i \in Items : ledger[i] # 0 /\ ledger[i] >= txn[t].day}

Using(rows, p, u) == {i \in rows : i.owner = p /\ Purpose[i.handler] = u}
Calls(rows) == {i \in rows : ForModel(Purpose[i.handler])}

Active(p) == {i \in OpenTurns : i.owner = p /\ i.story \notin blocked}

\* A row that is there is used again.
Admitted(t) ==
    LET i == txn[t].item  u == Purpose[i.handler] IN
    \/ ledger[i] # 0
    \/ /\ ~paused
       /\ Cardinality(Using(Rows(t), i.owner, u)) < Limit[u]
       /\ ForModel(u) => Cardinality(Calls(Rows(t))) < GlobalLimit
       /\ u = "turn" => Cardinality(Active(i.owner)) < TurnLimit

-----------------------------------------------------------------------------
(* Transactions *)

Begin(t, i) ==
    /\ txn[t].pc = "idle"
    /\ calls < MaxCalls
    /\ Needs[i] \subseteq done
    /\ calls' = calls + 1
    /\ txn' = [txn EXCEPT ![t] = [pc |-> "locking", item |-> i, day |-> today, got |-> 0]]
    /\ UNCHANGED <<today, ledger, done, blocked, paused>>

TakeLock(t) ==
    /\ Locking(t)
    /\ ~Locked(t)
    /\ HasRows(t) => ~Declined(txn[t].item)
    /\ Free(NextLock(t), t)
    /\ txn' = [txn EXCEPT ![t].got = @ + 1]
    /\ UNCHANGED <<today, ledger, done, blocked, paused, calls>>

Reserve(t) ==
    /\ Locking(t)
    /\ Locked(t)
    /\ txn[t].item.handler \in Reserving
    /\ Admitted(t)
    /\ txn' = [txn EXCEPT ![t].pc = "reserved"]
    /\ UNCHANGED <<today, ledger, done, blocked, paused, calls>>

Close(t) == txn' = [txn EXCEPT ![t] = Idle]

\* The row and what it pays for are committed together.  A validation runs after
\* the commit and is done when its report is saved.
Commit(t) ==
    LET i == txn[t].item IN
    /\ txn[t].pc = "reserved"
    /\ ledger' = [ledger EXCEPT ![i] = IF @ = 0 THEN txn[t].day ELSE @]
    /\ done' = IF i.handler = "validate" THEN done ELSE done \cup {i}
    /\ Close(t)
    /\ UNCHANGED <<today, blocked, paused, calls>>

\* The transactions that reserve nothing.
Finish(t) ==
    LET i == txn[t].item IN
    /\ Locking(t)
    /\ Locked(t)
    /\ i.handler \in Others
    /\ ~Declined(i)
    /\ done' = IF i.handler = "claim" THEN done ELSE done \cup {i}
    /\ blocked' = CASE i.handler = "block"    -> blocked \cup {i.story}
                    [] i.handler = "withdraw" -> blocked \ {i.story}
                    [] OTHER                  -> blocked
    /\ paused' = (i.handler = "pause" \/ (paused /\ i.handler # "resume"))
    /\ Close(t)
    /\ UNCHANGED <<today, ledger, calls>>

\* Nothing to do, or a limit is reached.
Refused(t) ==
    /\ Locking(t)
    /\ HasRows(t)
    /\ \/ Declined(txn[t].item)
       \/ Locked(t) /\ txn[t].item.handler \in Reserving /\ ~Admitted(t)

\* Mutant: without rolling back the savepoint.
LeaveCounted(t) ==
    /\ Refused(t)
    /\ done' = done \cup {txn[t].item}
    /\ Close(t)
    /\ UNCHANGED <<today, ledger, blocked, paused, calls>>

\* Rolled back to where it began, a call's savepoint with it.
Leave(t) ==
    /\ Refused(t)
    /\ Close(t)
    /\ UNCHANGED <<today, ledger, done, blocked, paused, calls>>

\* The process stops, the connection breaks, or the lease ran out while it waited.
Fail(t) ==
    /\ txn[t].pc # "idle"
    /\ Close(t)
    /\ UNCHANGED <<today, ledger, done, blocked, paused, calls>>

\* save_validation
SaveReport(i) ==
    /\ i.handler = "validate"
    /\ ledger[i] # 0
    /\ i \notin done
    /\ i.story \notin blocked
    /\ \A t \in Txns : Story(i) \notin Held(t) /\ Run(i) \notin Held(t)
    /\ done' = done \cup {i}
    /\ UNCHANGED <<today, ledger, blocked, paused, calls, txn>>

\* The clock of the database passes midnight.
Midnight ==
    /\ today < MaxDay
    /\ today' = today + 1
    /\ UNCHANGED <<ledger, done, blocked, paused, calls, txn>>

Step(t) == TakeLock(t) \/ Reserve(t) \/ Commit(t) \/ Finish(t) \/ Leave(t)

Next == \/ \E t \in Txns, i \in Items : Begin(t, i)
        \/ \E t \in Txns : Step(t)
        \/ \E t \in Txns : Fail(t)
        \/ \E i \in Items : SaveReport(i)
        \/ Midnight

Spec == Init /\ [][Next]_vars

\* A transaction that has the locks it needs goes on.  Nothing else must happen.
FairSpec == Spec /\ \A t \in Txns : WF_vars(Step(t))

-----------------------------------------------------------------------------
(* Properties *)

TxnState ==
    [pc : {"idle", "locking", "reserved"}, item : Items \cup {NoItem}, day : Nat, got : Nat]

\* The types of the variables; a transaction has no more locks than its handler
\* takes, and counts from a day that was (current_timestamp of its begin).
TypeOK ==
    /\ today \in Nat
    /\ ledger \in [Items -> 0..today]
    /\ done \in SUBSET Items
    /\ blocked \in SUBSET Nat
    /\ paused \in BOOLEAN
    /\ calls \in Nat
    /\ txn \in [Txns -> TxnState]
    /\ \A t \in Txns : txn[t].pc # "idle" =>
        /\ txn[t].item \in Items
        /\ txn[t].day \in 2..today
        /\ txn[t].got \in 0..Len(Locks(txn[t].item))

\* Whatever runs together, and whenever it began, no principal has more rows of a
\* purpose on a day than its limit, and all of them have no more rows for
\* language models than the limit of the service (reserve_usage).
WithinQuota ==
    \A d \in 2..today : LET rows == {i \in Items : ledger[i] = d} IN
        /\ \A i \in Items : i.handler \in Reserving =>
            Cardinality(Using(rows, i.owner, Purpose[i.handler])) <= Limit[Purpose[i.handler]]
        /\ Cardinality(Calls(rows)) <= GlobalLimit

\* What is done is paid for, and what is paid for is done: a call refused after it
\* was counted is not counted, and no row outlives what it was for (the
\* savepoint of reserve, the single commit of the others).  Only a validation
\* may be paid for and not done, when its process stopped.
PaidIsDone ==
    \A i \in Items : i.handler \in Reserving =>
        /\ i \in done => ledger[i] # 0
        /\ ledger[i] # 0 => i \in done \/ i.handler = "validate"

\* From the moment a pause is answered no row is added until it is lifted: no
\* reservation that saw the service open commits afterwards (pause_usage takes the
\* lock of the ledger).
PauseHolds == [][paused /\ paused' => ledger' = ledger]_vars

\* It has its locks, or can take the next.
GoesOn(t) == \/ txn[t].pc = "reserved"
             \/ Locking(t) /\ (Locked(t) \/ Free(NextLock(t), t))

\* Of the transactions under way one at least waits for no other: the handlers,
\* each with its own list of locks, never wait for one another in a circle.
SomeCallGoesOn == (\E t \in Txns : txn[t].pc # "idle") => \E t \in Txns : GoesOn(t)

\* Transactions that lock in different orders do not wait for each other for ever:
\* each ends, done or refused.
EveryCallEnds == \A t \in Txns : txn[t].pc # "idle" ~> txn[t].pc = "idle"
=============================================================================
