--------------------------- MODULE UsageQuotaProofs ---------------------------
(***************************************************************************)
(* Proofs about UsageQuota for any connections, requests, limits, number   *)
(* of days and number of calls.                                            *)
(***************************************************************************)
EXTENDS UsageQuota, FiniteSetTheorems, TLAPS

USE QuotaAssumption

-----------------------------------------------------------------------------
(* Handlers and their locks *)

LEMMA ReservingIs ==
  Reserving = {"accept", "reserve", "create", "duplicate", "enqueue", "call", "validate"}
  BY DEF Reserving, Purpose

LEMMA PurposeOf ==
  ASSUME NEW h \in Reserving PROVE Purpose[h] \in Purposes
  BY DEF Purposes

\* The lock of the ledger is the last of every handler that counts or pauses.
LEMMA LocksOf ==
  ASSUME NEW i \in Items
  PROVE  /\ Len(Locks(i)) \in Nat \ {0}
         /\ i.handler \in Reserving \cup {"pause", "resume"} => Locks(i)[Len(Locks(i))] = Ledger
  <1>1. i.handler \in Reserving \cup Others
    BY DEF Item
  <1>2. CASE i.handler = "accept"
    <2>1. Locks(i) = ToAccept(i)
      BY <1>2 DEF Locks
    <2>. QED BY <1>2, <2>1, ReservingIs DEF ToAccept
  <1>3. CASE i.handler = "reserve"
    <2>1. Locks(i) = ToReserve(i)
      BY <1>3 DEF Locks
    <2>. QED BY <1>3, <2>1, ReservingIs DEF ToReserve
  <1>4. CASE i.handler = "create"
    <2>1. Locks(i) = ToCreate(i)
      BY <1>4 DEF Locks
    <2>. QED BY <1>4, <2>1, ReservingIs DEF ToCreate
  <1>5. CASE i.handler = "duplicate"
    <2>1. Locks(i) = ToDuplicate(i)
      BY <1>5 DEF Locks
    <2>. QED BY <1>5, <2>1, ReservingIs DEF ToDuplicate
  <1>6. CASE i.handler = "validate"
    <2>1. Locks(i) = ToValidate(i)
      BY <1>6 DEF Locks
    <2>. QED BY <1>6, <2>1, ReservingIs DEF ToValidate
  <1>7. CASE i.handler = "enqueue"
    <2>1. Locks(i) = ToEnqueue(i)
      BY <1>7 DEF Locks
    <2>. QED BY <1>7, <2>1, ReservingIs DEF ToEnqueue
  <1>8. CASE i.handler = "call"
    <2>1. Locks(i) = ToCall(i)
      BY <1>8 DEF Locks
    <2>. QED BY <1>8, <2>1, ReservingIs DEF ToCall
  <1>9. CASE i.handler = "conclude"
    <2>1. Locks(i) = ToConclude(i)
      BY <1>9 DEF Locks
    <2>. QED BY <1>9, <2>1, ReservingIs DEF ToConclude
  <1>10. CASE i.handler = "cancel"
    <2>1. Locks(i) = ToCancel(i)
      BY <1>10 DEF Locks
    <2>. QED BY <1>10, <2>1, ReservingIs DEF ToCancel
  <1>11. CASE i.handler = "claim"
    <2>1. Locks(i) = ToClaim(i)
      BY <1>11 DEF Locks
    <2>. QED BY <1>11, <2>1, ReservingIs DEF ToClaim
  <1>12. CASE i.handler \in {"block", "withdraw"}
    <2>1. Locks(i) = ToModerate(i)
      BY <1>12 DEF Locks
    <2>. QED BY <1>12, <2>1, ReservingIs DEF ToModerate
  <1>13. CASE i.handler \in {"pause", "resume"}
    <2>1. Locks(i) = ToPause(i)
      BY <1>13 DEF Locks
    <2>. QED BY <1>13, <2>1, ReservingIs DEF ToPause
  <1>. QED BY <1>1, <1>2, <1>3, <1>4, <1>5, <1>6, <1>7, <1>8, <1>9, <1>10, <1>11, <1>12, <1>13, ReservingIs DEF Others

-----------------------------------------------------------------------------
(* Types *)

Typed == TypeOK /\ today >= 2

LEMMA TypedInit == Init => Typed
  <1>. SUFFICES ASSUME Init PROVE Typed
    OBVIOUS
  <1>1. ledger \in [Items -> 0..today]
    BY DEF Init
  <1>2. txn \in [Txns -> TxnState]
    BY DEF Init, Idle, TxnState
  <1>3. \A t \in Txns : txn[t].pc = "idle"
    BY DEF Init, Idle, TxnState
  <1>4. today = 2 /\ calls = 0 /\ paused = FALSE /\ blocked = {} /\ done \subseteq Items
    BY DEF Init
  <1>5. \A t \in Txns : txn[t].pc # "idle" => /\ txn[t].item \in Items
                                            /\ txn[t].day \in 2..today
                                            /\ txn[t].got \in 0..Len(Locks(txn[t].item))
    BY <1>3
  <1>6. TypeOK
    BY <1>1, <1>2, <1>4, <1>5 DEF TypeOK
  <1>. QED BY <1>4, <1>6 DEF Typed

\* What a step does to the transaction of one connection.
Moved(t) ==
  \E x \in TxnState :
    /\ txn' = [txn EXCEPT ![t] = x]
    /\ x.pc # "idle" => /\ x.item \in Items
                        /\ x.day \in 2..today
                        /\ x.got \in 0..Len(Locks(x.item))

LEMMA TxnKept ==
  ASSUME Typed, NEW t \in Txns, Moved(t), today' = today
  PROVE  /\ txn' \in [Txns -> TxnState]
         /\ \A u \in Txns : txn'[u].pc # "idle" =>
               /\ txn'[u].item \in Items
               /\ txn'[u].day \in 2..today'
               /\ txn'[u].got \in 0..Len(Locks(txn'[u].item))
  BY DEF Moved, Typed, TypeOK

LEMMA ClosedIs ==
  ASSUME NEW t \in Txns, Close(t) PROVE Moved(t)
  <1>1. Idle \in TxnState
    BY DEF Idle, TxnState
  <1>2. Idle.pc = "idle"
    BY DEF Idle, TxnState
  <1>. QED BY <1>1, <1>2 DEF Close, Moved

LEMMA BegunIs ==
  ASSUME Typed, NEW t \in Txns, NEW i \in Items, Begin(t, i) PROVE Moved(t)
  <1>. DEFINE x == [pc |-> "locking", item |-> i, day |-> today, got |-> 0]
  <1>1. txn' = [txn EXCEPT ![t] = x]
    BY DEF Begin
  <1>2. x.day \in 2..today /\ today \in Nat
    BY DEF Typed, TypeOK
  <1>3. Len(Locks(i)) \in Nat
    BY LocksOf
  <1>4. x \in TxnState
    BY <1>2 DEF TxnState
  <1>5. x.item = i /\ x.day = today /\ x.got = 0
    OBVIOUS
  <1>6. x.got \in 0..Len(Locks(x.item))
    BY <1>3, <1>5
  <1>. QED BY <1>1, <1>2, <1>4, <1>5, <1>6 DEF Moved

LEMMA TakenIs ==
  ASSUME Typed, NEW t \in Txns, TakeLock(t) PROVE Moved(t)
  <1>. DEFINE x == [txn[t] EXCEPT !.got = @ + 1]
  <1>1. txn' = [txn EXCEPT ![t] = x]
    BY DEF TakeLock
  <1>2. /\ txn[t] \in TxnState
        /\ txn[t].pc = "locking" /\ txn[t].item \in Items /\ txn[t].day \in 2..today
        /\ txn[t].got \in 0..Len(Locks(txn[t].item))
        /\ txn[t].got # Len(Locks(txn[t].item))
    BY DEF TakeLock, Locking, Locked, Typed, TypeOK
  <1>3. Len(Locks(txn[t].item)) \in Nat
    BY <1>2, LocksOf
  <1>4. x.pc = "locking" /\ x.item = txn[t].item /\ x.day = txn[t].day /\ x.got = txn[t].got + 1
    BY <1>2 DEF TxnState
  <1>5. x.got \in 0..Len(Locks(x.item))
    BY <1>2, <1>3, <1>4
  <1>6. x \in TxnState
    BY <1>2 DEF TxnState
  <1>. QED BY <1>1, <1>2, <1>4, <1>5, <1>6 DEF Moved

LEMMA ReservedIs ==
  ASSUME Typed, NEW t \in Txns, Reserve(t) PROVE Moved(t)
  <1>. DEFINE x == [txn[t] EXCEPT !.pc = "reserved"]
  <1>1. txn' = [txn EXCEPT ![t] = x]
    BY DEF Reserve
  <1>2. /\ txn[t] \in TxnState
        /\ txn[t].pc = "locking" /\ txn[t].item \in Items /\ txn[t].day \in 2..today
        /\ txn[t].got \in 0..Len(Locks(txn[t].item))
    BY DEF Reserve, Locking, Typed, TypeOK
  <1>3. x.item = txn[t].item /\ x.day = txn[t].day /\ x.got = txn[t].got
    BY <1>2 DEF TxnState
  <1>4. x \in TxnState
    BY <1>2 DEF TxnState
  <1>. QED BY <1>1, <1>2, <1>3, <1>4 DEF Moved

\* Every step of a connection.
OfTxn(t) == \/ \E i \in Items : Begin(t, i)
            \/ Step(t)
            \/ Fail(t)

LEMMA StepsOf ==
  ASSUME Typed, NEW t \in Txns, OfTxn(t) PROVE Moved(t) /\ today' = today
  <1>1. CASE \E i \in Items : Begin(t, i)
    BY <1>1, BegunIs DEF Begin
  <1>2. CASE TakeLock(t)
    BY <1>2, TakenIs DEF TakeLock
  <1>3. CASE Reserve(t)
    BY <1>3, ReservedIs DEF Reserve
  <1>4. CASE Commit(t) \/ Finish(t) \/ Leave(t) \/ Fail(t)
    BY <1>4, ClosedIs DEF Commit, Finish, Leave, Fail
  <1>. QED BY <1>1, <1>2, <1>3, <1>4 DEF OfTxn, Step

LEMMA LedgerKept ==
  ASSUME Typed, NEW t \in Txns, OfTxn(t)
  PROVE  ledger' \in [Items -> 0..today] /\ done' \subseteq Items
  <1>1. CASE Commit(t)
    <2>1. txn[t].item \in Items /\ txn[t].day \in 2..today
      BY <1>1 DEF Commit, Typed, TypeOK
    <2>. QED BY <1>1, <2>1 DEF Commit, Typed, TypeOK
  <1>2. CASE Finish(t)
    <2>1. txn[t].item \in Items
      BY <1>2 DEF Finish, Locking, Typed, TypeOK
    <2>. QED BY <1>2, <2>1 DEF Finish, Typed, TypeOK
  <1>3. CASE (\E i \in Items : Begin(t, i)) \/ TakeLock(t) \/ Reserve(t) \/ Leave(t) \/ Fail(t)
    BY <1>3 DEF Begin, TakeLock, Reserve, Leave, Fail, Typed, TypeOK
  <1>. QED BY <1>1, <1>2, <1>3 DEF OfTxn, Step

LEMMA ControlsKept ==
  ASSUME Typed, NEW t \in Txns, OfTxn(t)
  PROVE  blocked' \subseteq Nat /\ paused' \in BOOLEAN /\ calls' \in Nat
  <1>1. CASE Finish(t)
    <2>1. txn[t].item \in Item
      BY <1>1 DEF Finish, Locking, Typed, TypeOK
    <2>2. txn[t].item.story \in Nat
      BY <2>1 DEF Item
    <2>3. calls' \in Nat /\ paused' \in BOOLEAN
      BY <1>1 DEF Finish, Typed, TypeOK
    <2>. QED BY <1>1, <2>2, <2>3 DEF Finish, Typed, TypeOK
  <1>2. CASE (\E i \in Items : Begin(t, i)) \/ TakeLock(t) \/ Reserve(t) \/ Commit(t)
             \/ Leave(t) \/ Fail(t)
    BY <1>2 DEF Begin, TakeLock, Reserve, Commit, Leave, Fail, Typed, TypeOK
  <1>. QED BY <1>1, <1>2 DEF OfTxn, Step

LEMMA TypedStep == Typed /\ [Next]_vars => Typed'
  <1>. SUFFICES ASSUME Typed, [Next]_vars PROVE Typed'
    OBVIOUS
  <1>1. ASSUME NEW t \in Txns, OfTxn(t) PROVE Typed'
    BY <1>1, StepsOf, TxnKept, LedgerKept, ControlsKept DEF Typed, TypeOK
  <1>2. ASSUME NEW i \in Items, SaveReport(i) PROVE Typed'
    BY <1>2 DEF SaveReport, Typed, TypeOK
  <1>3. CASE Midnight
    BY <1>3 DEF Midnight, Typed, TypeOK
  <1>4. CASE UNCHANGED vars
    BY <1>4 DEF vars, Typed, TypeOK
  <1>. QED BY <1>1, <1>2, <1>3, <1>4 DEF Next, OfTxn

\* Every reachable state is well typed.
THEOREM TypesCorrect == Spec => []TypeOK
  <1>1. Typed => TypeOK
    BY DEF Typed
  <1>. QED BY <1>1, TypedInit, TypedStep, PTL DEF Spec

-----------------------------------------------------------------------------
(* The inductive invariant: who counts is alone, and what was counted still holds *)

\* has the lock of the ledger
Has(t) == txn[t].pc # "idle" /\ \E k \in 1..txn[t].got : Locks(txn[t].item)[k] = Ledger

OneLedger == \A t, u \in Txns : Has(t) /\ Has(u) => t = u

\* What Admitted found and nobody else can change before the commit; the number of
\* open turns is not part of it.
Room(t) ==
  LET i == txn[t].item  u == Purpose[i.handler] IN
  \/ ledger[i] # 0
  \/ /\ ~paused
     /\ Cardinality(Using(Rows(t), i.owner, u)) < Limit[u]
     /\ ForModel(u) => Cardinality(Calls(Rows(t))) < GlobalLimit

Counted == \A t \in Txns : txn[t].pc = "reserved" =>
             txn[t].item.handler \in Reserving /\ Locked(t) /\ Room(t)

IInv == Typed /\ OneLedger /\ Counted

LEMMA LockedHas ==
  ASSUME Typed, NEW t \in Txns, txn[t].pc # "idle", Locked(t),
         txn[t].item.handler \in Reserving \cup {"pause", "resume"}
  PROVE  Has(t)
  <1>1. txn[t].item \in Items /\ txn[t].got = Len(Locks(txn[t].item))
    BY DEF Typed, TypeOK, Locked
  <1>2. /\ Len(Locks(txn[t].item)) \in Nat \ {0}
        /\ Locks(txn[t].item)[Len(Locks(txn[t].item))] = Ledger
    BY <1>1, LocksOf
  <1>3. txn[t].got \in 1..txn[t].got
    BY <1>1, <1>2
  <1>. QED BY <1>1, <1>2, <1>3 DEF Has

LEMMA ReservedHas ==
  ASSUME Typed, Counted, NEW t \in Txns, txn[t].pc = "reserved"
  PROVE  Has(t)
  BY LockedHas DEF Counted

\* A step of one connection leaves the others alone.
LEMMA OthersKept ==
  ASSUME Typed, NEW t \in Txns, OfTxn(t), NEW u \in Txns, u # t
  PROVE  txn'[u] = txn[u]
  BY StepsOf DEF Moved, Typed, TypeOK

LEMMA HeldLedger ==
  ASSUME NEW u \in Txns, Has(u) PROVE Ledger \in Held(u)
  BY DEF Has, Held

LEMMA LedgerTaken ==
  ASSUME Typed, NEW t \in Txns, TakeLock(t), Has(t)'
  PROVE  Has(t) \/ \A u \in Txns \ {t} : ~Has(u)
  <1>1. /\ txn[t].pc = "locking" /\ txn[t].item \in Items
        /\ txn[t].got \in Nat /\ txn[t] \in TxnState
    BY DEF TakeLock, Locking, Typed, TypeOK, TxnState
  <1>2. txn'[t] = [txn[t] EXCEPT !.got = @ + 1]
    BY DEF TakeLock, Typed, TypeOK
  <1>3. txn'[t].item = txn[t].item /\ txn'[t].got = txn[t].got + 1
    BY <1>1, <1>2 DEF TxnState
  <1>4. PICK k \in 1..(txn[t].got + 1) : Locks(txn[t].item)[k] = Ledger
    BY <1>3 DEF Has
  <1>5. CASE k <= txn[t].got
    <2>1. k \in 1..txn[t].got
      BY <1>1, <1>5
    <2>. QED BY <1>1, <1>4, <2>1 DEF Has
  <1>6. CASE k = txn[t].got + 1
    <2>1. Free(Ledger, t)
      BY <1>4, <1>6 DEF TakeLock, NextLock
    <2>2. ASSUME NEW u \in Txns \ {t}, Has(u) PROVE FALSE
      <3>1. Ledger \in Held(u)
        BY <2>2, HeldLedger
      <3>2. Ledger.kind = Ledger.kind /\ Ledger.id = Ledger.id => Ledger.shared
        BY <2>1, <2>2, <3>1 DEF Free
      <3>. QED BY <3>2 DEF Ledger, Alone
    <2>. QED BY <2>2
  <1>. QED BY <1>1, <1>5, <1>6

LEMMA LedgerOfStep ==
  ASSUME Typed, NEW t \in Txns, OfTxn(t), Has(t)'
  PROVE  Has(t) \/ \A u \in Txns \ {t} : ~Has(u)
  <1>1. CASE TakeLock(t)
    BY <1>1, LedgerTaken
  <1>2. ASSUME NEW i \in Items, Begin(t, i) PROVE FALSE
    <2>1. txn'[t].got = 0
      BY <1>2 DEF Begin, Typed, TypeOK
    <2>. QED BY <2>1 DEF Has
  <1>3. CASE Reserve(t)
    <2>1. txn'[t] = [txn[t] EXCEPT !.pc = "reserved"] /\ txn[t] \in TxnState
      BY <1>3 DEF Reserve, Typed, TypeOK
    <2>2. txn'[t].item = txn[t].item /\ txn'[t].got = txn[t].got
      BY <2>1 DEF TxnState
    <2>3. txn[t].pc # "idle"
      BY <1>3 DEF Reserve, Locking
    <2>. QED BY <2>2, <2>3 DEF Has
  <1>4. CASE Commit(t) \/ Finish(t) \/ Leave(t) \/ Fail(t)
    <2>1. Close(t)
      BY <1>4 DEF Commit, Finish, Leave, Fail
    <2>2. txn'[t].pc = "idle"
      BY <2>1 DEF Close, Idle, Typed, TypeOK
    <2>. QED BY <2>2 DEF Has
  <1>. QED BY <1>1, <1>2, <1>3, <1>4 DEF OfTxn, Step

LEMMA OneLedgerStep ==
  ASSUME Typed, OneLedger, NEW t \in Txns, OfTxn(t)
  PROVE  OneLedger'
  <1>1. \A u \in Txns \ {t} : Has(u)' => Has(u)
    BY OthersKept DEF Has
  <1>2. Has(t)' => Has(t) \/ \A u \in Txns \ {t} : ~Has(u)
    BY LedgerOfStep
  <1>. QED BY <1>1, <1>2 DEF OneLedger

\* Only who has the lock changes what is counted.
LEMMA CountsMoved ==
  ASSUME Typed, Counted, NEW t \in Txns, OfTxn(t)
  PROVE  (ledger' = ledger /\ paused' = paused) \/ Has(t)
  <1>1. CASE Commit(t)
    BY <1>1, ReservedHas DEF Commit
  <1>2. CASE Finish(t)
    <2>1. CASE txn[t].item.handler \in {"pause", "resume"}
      <3>1. txn[t].pc # "idle" /\ Locked(t)
        BY <1>2 DEF Finish, Locking
      <3>. QED BY <2>1, <3>1, LockedHas
    <2>2. CASE txn[t].item.handler \notin {"pause", "resume"}
      BY <1>2, <2>2 DEF Finish, Typed, TypeOK
    <2>. QED BY <2>1, <2>2
  <1>3. CASE (\E i \in Items : Begin(t, i)) \/ TakeLock(t) \/ Reserve(t) \/ Leave(t) \/ Fail(t)
    BY <1>3 DEF Begin, TakeLock, Reserve, Leave, Fail
  <1>. QED BY <1>1, <1>2, <1>3 DEF OfTxn, Step

LEMMA RoomKept ==
  ASSUME NEW u \in Txns, txn'[u].item = txn[u].item, txn'[u].day = txn[u].day,
         ledger' = ledger, paused' = paused, Room(u)
  PROVE  Room(u)'
  <1>1. Rows(u)' = Rows(u)
    BY DEF Rows
  <1>. QED BY <1>1 DEF Room

LEMMA CountedStep ==
  ASSUME IInv, NEW t \in Txns, OfTxn(t)
  PROVE  Counted'
  <1>. SUFFICES ASSUME NEW u \in Txns, txn'[u].pc = "reserved"
                PROVE  txn'[u].item.handler \in Reserving /\ Locked(u)' /\ Room(u)'
    BY DEF Counted
  <1>1. CASE u # t
    <2>1. txn'[u] = txn[u]
      BY <1>1, OthersKept DEF IInv
    <2>2. txn[u].item.handler \in Reserving /\ Locked(u) /\ Room(u)
      BY <2>1 DEF IInv, Counted
    <2>3. Has(u)
      BY <2>1, ReservedHas DEF IInv
    <2>4. ledger' = ledger /\ paused' = paused
      BY <1>1, <2>3, CountsMoved DEF IInv, OneLedger
    <2>. QED BY <2>1, <2>2, <2>4, RoomKept DEF Locked
  <1>2. CASE u = t /\ Reserve(t)
    <2>1. txn'[t] = [txn[t] EXCEPT !.pc = "reserved"] /\ txn[t] \in TxnState
      BY <1>2 DEF Reserve, IInv, Typed, TypeOK
    <2>2. txn'[t].item = txn[t].item /\ txn'[t].got = txn[t].got /\ txn'[t].day = txn[t].day
      BY <2>1 DEF TxnState
    <2>3. txn[t].item.handler \in Reserving /\ Locked(t) /\ Admitted(t)
      BY <1>2 DEF Reserve
    <2>4. Room(t)
      BY <2>3 DEF Admitted, Room
    <2>5. ledger' = ledger /\ paused' = paused
      BY <1>2 DEF Reserve
    <2>. QED BY <1>2, <2>2, <2>3, <2>4, <2>5, RoomKept DEF Locked
  <1>3. CASE u = t /\ TakeLock(t)
    <2>1. txn'[t] = [txn[t] EXCEPT !.got = @ + 1] /\ txn[t] \in TxnState /\ txn[t].pc = "locking"
      BY <1>3 DEF TakeLock, Locking, IInv, Typed, TypeOK
    <2>2. txn'[t].pc = "locking"
      BY <2>1 DEF TxnState
    <2>. QED BY <1>3, <2>2
  <1>4. CASE u = t /\ \E i \in Items : Begin(t, i)
    <2>1. txn'[t].pc = "locking"
      BY <1>4 DEF Begin, IInv, Typed, TypeOK
    <2>. QED BY <1>4, <2>1
  <1>5. CASE u = t /\ (Commit(t) \/ Finish(t) \/ Leave(t) \/ Fail(t))
    <2>1. Close(t)
      BY <1>5 DEF Commit, Finish, Leave, Fail
    <2>2. txn'[t].pc = "idle"
      BY <2>1 DEF Close, Idle, IInv, Typed, TypeOK
    <2>. QED BY <1>5, <2>2
  <1>. QED BY <1>1, <1>2, <1>3, <1>4, <1>5 DEF OfTxn, Step

LEMMA IInvInit == Init => IInv
  <1>. SUFFICES ASSUME Init PROVE IInv
    OBVIOUS
  <1>1. \A t \in Txns : txn[t].pc = "idle"
    BY DEF Init, Idle
  <1>. QED BY <1>1, TypedInit DEF IInv, OneLedger, Counted, Has

LEMMA IInvStep == IInv /\ [Next]_vars => IInv'
  <1>. SUFFICES ASSUME IInv, [Next]_vars PROVE IInv'
    OBVIOUS
  <1>0. Typed'
    BY TypedStep DEF IInv
  <1>1. ASSUME NEW t \in Txns, OfTxn(t) PROVE IInv'
    BY <1>0, <1>1, OneLedgerStep, CountedStep DEF IInv
  <1>2. ASSUME UNCHANGED <<txn, ledger, paused>> PROVE IInv'
    <2>1. OneLedger'
      BY <1>2 DEF IInv, OneLedger, Has
    <2>2. Counted'
      BY <1>2, RoomKept DEF IInv, Counted, Locked
    <2>. QED BY <1>0, <2>1, <2>2 DEF IInv
  <1>3. ASSUME NEW i \in Items, SaveReport(i) PROVE IInv'
    BY <1>2, <1>3 DEF SaveReport
  <1>4. CASE Midnight
    BY <1>2, <1>4 DEF Midnight
  <1>5. CASE UNCHANGED vars
    BY <1>2, <1>5 DEF vars
  <1>. QED BY <1>1, <1>3, <1>4, <1>5 DEF Next, OfTxn

LEMMA IInvCorrect == Spec => []IInv
  BY IInvInit, IInvStep, PTL DEF Spec

-----------------------------------------------------------------------------
(* Quotas *)

\* the rows of a day
RowsOf(d) == {i \in Items : ledger[i] = d}

\* WithinQuota, with its rows named.
QuotaOn(d) ==
  /\ \A i \in Items : i.handler \in Reserving =>
       Cardinality(Using(RowsOf(d), i.owner, Purpose[i.handler])) <= Limit[Purpose[i.handler]]
  /\ Cardinality(Calls(RowsOf(d))) <= GlobalLimit

LEMMA QuotaIs == WithinQuota <=> \A d \in 2..today : QuotaOn(d)
  BY DEF WithinQuota, QuotaOn, RowsOf

LEMMA QuotaIsNext == WithinQuota' <=> \A d \in 2..today' : QuotaOn(d)'
  BY DEF WithinQuota, QuotaOn, RowsOf

LEMMA NoRows ==
  ASSUME NEW d, RowsOf(d) = {} PROVE QuotaOn(d)
  <1>1. Calls(RowsOf(d)) = {} /\ \A p, u : Using(RowsOf(d), p, u) = {}
    BY DEF Calls, Using
  <1>2. \A i \in Items : i.handler \in Reserving => Limit[Purpose[i.handler]] \in Nat
    BY PurposeOf
  <1>3. Cardinality({}) = 0
    BY FS_EmptySet
  <1>4. \A i \in Items : i.handler \in Reserving =>
          Cardinality(Using(RowsOf(d), i.owner, Purpose[i.handler])) <= Limit[Purpose[i.handler]]
    BY <1>1, <1>2, <1>3
  <1>5. Cardinality(Calls(RowsOf(d))) <= GlobalLimit
    BY <1>1, <1>3
  <1>. QED BY <1>4, <1>5 DEF QuotaOn

\* What a set of items smaller than a limit may grow by.
LEMMA OneMore ==
  ASSUME NEW T \in SUBSET Items, NEW i, NEW U \in SUBSET (T \cup {i}), NEW n \in Nat,
         Cardinality(T) < n
  PROVE  Cardinality(U) <= n
  <1>1. IsFiniteSet(T)
    BY FS_Subset
  <1>0. Cardinality(T) \in Nat
    BY <1>1, FS_CardinalityType
  <1>2. IsFiniteSet(T \cup {i}) /\ Cardinality(T \cup {i}) <= Cardinality(T) + 1
    <2>1. /\ IsFiniteSet(T \cup {i})
          /\ Cardinality(T \cup {i}) = IF i \in T THEN Cardinality(T) ELSE Cardinality(T) + 1
      BY <1>1, FS_AddElement
    <2>. QED BY <1>0, <2>1
  <1>3. U \subseteq T \cup {i}
    OBVIOUS
  <1>4. Cardinality(U) <= Cardinality(T \cup {i}) /\ Cardinality(U) \in Nat
        /\ Cardinality(T \cup {i}) \in Nat
    BY <1>2, <1>3, FS_Subset, FS_CardinalityType
  <1>. QED BY <1>0, <1>2, <1>4

\* The row a commit adds, where there was none, is of the day the transaction
\* began, and the transaction counted all rows of that day.
LEMMA QuotaOfCommit ==
  ASSUME IInv, NEW t \in Txns, Commit(t), ledger[txn[t].item] = 0,
         NEW d, d = txn[t].day, QuotaOn(d)
  PROVE  QuotaOn(d)'
  <1>. DEFINE i == txn[t].item  u == Purpose[i.handler]
              old == RowsOf(d)  new == {j \in Items : ledger'[j] = d}
  <1>1. i \in Items /\ d \in 2..today /\ today \in Nat /\ i.handler \in Reserving
    BY DEF Commit, IInv, Typed, TypeOK, Counted
  <1>2. new \subseteq old \cup {i}
    BY <1>1 DEF Commit, RowsOf, IInv, Typed, TypeOK
  <1>3. old \subseteq Rows(t)
    BY <1>1 DEF RowsOf, Rows
  <1>4. Room(t)
    BY DEF Commit, IInv, Counted
  <1>. HIDE DEF new, old
  <1>5. Cardinality(Using(Rows(t), i.owner, u)) < Limit[u] /\ Limit[u] \in Nat
    BY <1>1, <1>4, PurposeOf DEF Room
  <1>51. ForModel(u) => Cardinality(Calls(Rows(t))) < GlobalLimit
    BY <1>1, <1>4 DEF Room
  <1>. HIDE DEF i, u
  <1>6. ASSUME NEW j \in Items, j.handler \in Reserving
        PROVE  Cardinality(Using(new, j.owner, Purpose[j.handler])) <= Limit[Purpose[j.handler]]
    <2>1. CASE j.owner = i.owner /\ Purpose[j.handler] = u
      <3>1. Using(new, i.owner, u) \subseteq Using(old, i.owner, u) \cup {i}
        BY <1>2 DEF Using
      <3>2. Using(old, i.owner, u) \subseteq Using(Rows(t), i.owner, u)
        BY <1>3 DEF Using
      <3>3. Using(Rows(t), i.owner, u) \subseteq Items
        BY DEF Using, Rows
      <3>4. Cardinality(Using(new, i.owner, u)) <= Limit[u]
        <4>1. Using(new, i.owner, u) \in SUBSET (Using(Rows(t), i.owner, u) \cup {i})
          BY <3>1, <3>2
        <4>. QED BY <1>5, <3>3, <4>1, OneMore
      <3>. QED BY <2>1, <3>4
    <2>2. CASE ~(j.owner = i.owner /\ Purpose[j.handler] = u)
      <3>1. Using(new, j.owner, Purpose[j.handler]) \subseteq Using(old, j.owner, Purpose[j.handler])
        BY <1>2, <2>2 DEF Using, u
      <3>2. Using(old, j.owner, Purpose[j.handler]) \subseteq Items
        BY DEF Using, old, RowsOf
      <3>3. Cardinality(Using(new, j.owner, Purpose[j.handler]))
              <= Cardinality(Using(old, j.owner, Purpose[j.handler]))
        BY <3>1, <3>2, FS_Subset
      <3>4. Cardinality(Using(old, j.owner, Purpose[j.handler])) <= Limit[Purpose[j.handler]]
        BY <1>6 DEF QuotaOn, old
      <3>5. /\ Cardinality(Using(new, j.owner, Purpose[j.handler])) \in Nat
            /\ Cardinality(Using(old, j.owner, Purpose[j.handler])) \in Nat
        BY <3>1, <3>2, FS_Subset, FS_CardinalityType
      <3>6. Limit[Purpose[j.handler]] \in Nat
        BY <1>6, PurposeOf
      <3>. QED BY <3>3, <3>4, <3>5, <3>6
    <2>. QED BY <2>1, <2>2
  <1>7. Cardinality(Calls(new)) <= GlobalLimit
    <2>1. CASE ForModel(u)
      <3>1. Calls(new) \subseteq Calls(old) \cup {i} /\ Calls(old) \subseteq Calls(Rows(t))
        BY <1>2, <1>3 DEF Calls
      <3>2. Calls(Rows(t)) \subseteq Items
        BY DEF Calls, Rows
      <3>3. Cardinality(Calls(Rows(t))) < GlobalLimit
        BY <1>51, <2>1
      <3>4. GlobalLimit \in Nat
        OBVIOUS
      <3>5. Calls(new) \in SUBSET (Calls(Rows(t)) \cup {i})
        BY <3>1
      <3>. QED BY <3>2, <3>3, <3>4, <3>5, OneMore
    <2>2. CASE ~ForModel(u)
      <3>1. Calls(new) \subseteq Calls(old)
        BY <1>2, <2>2 DEF Calls, u
      <3>2. Calls(old) \subseteq Items
        BY DEF Calls, old, RowsOf
      <3>3. Cardinality(Calls(new)) <= Cardinality(Calls(old))
        BY <3>1, <3>2, FS_Subset
      <3>4. Cardinality(Calls(old)) <= GlobalLimit
        BY DEF QuotaOn, old
      <3>5. Cardinality(Calls(new)) \in Nat /\ Cardinality(Calls(old)) \in Nat
        BY <3>1, <3>2, FS_Subset, FS_CardinalityType
      <3>. QED BY <3>3, <3>4, <3>5
    <2>. QED BY <2>1, <2>2
  <1>. QED BY <1>6, <1>7 DEF QuotaOn, RowsOf, new

LEMMA QuotaKept ==
  ASSUME ledger' = ledger, NEW d, QuotaOn(d)
  PROVE  QuotaOn(d)'
  <1>1. RowsOf(d)' = RowsOf(d)
    BY DEF RowsOf
  <1>. QED BY <1>1 DEF QuotaOn

LEMMA QuotaStep ==
  ASSUME IInv, WithinQuota, [Next]_vars
  PROVE  WithinQuota'
  <1>1. \A d \in 2..today : QuotaOn(d)
    BY QuotaIs
  <1>2. CASE ledger' = ledger /\ today' = today
    <2>1. \A d \in 2..today' : QuotaOn(d)'
      BY <1>1, <1>2, QuotaKept
    <2>. QED BY <2>1, QuotaIsNext
  <1>3. ASSUME NEW t \in Txns, Commit(t), ledger[txn[t].item] = 0
        PROVE  WithinQuota'
    <2>1. /\ txn[t].item \in Items /\ txn[t].day \in 2..today /\ today' = today
          /\ ledger' = [ledger EXCEPT ![txn[t].item] = txn[t].day]
      BY <1>3 DEF Commit, IInv, Typed, TypeOK
    <2>2. ASSUME NEW d \in 2..today PROVE QuotaOn(d)'
      <3>1. CASE d = txn[t].day
        BY <1>1, <1>3, <3>1, QuotaOfCommit
      <3>2. CASE d # txn[t].day
        <4>1. RowsOf(d)' = RowsOf(d)
          BY <1>3, <2>1, <2>2, <3>2 DEF RowsOf, IInv, Typed, TypeOK
        <4>2. QuotaOn(d)
          BY <1>1
        <4>. QED BY <4>1, <4>2 DEF QuotaOn
      <3>. QED BY <3>1, <3>2
    <2>3. \A d \in 2..today' : QuotaOn(d)'
      BY <2>1, <2>2
    <2>. QED BY <2>3, QuotaIsNext
  <1>4. ASSUME NEW t \in Txns, Commit(t), ledger[txn[t].item] # 0
        PROVE  ledger' = ledger /\ today' = today
    BY <1>4 DEF Commit, IInv, Typed, TypeOK
  <1>5. ASSUME Midnight PROVE WithinQuota'
    <2>1. RowsOf(today + 1) = {}
      BY DEF RowsOf, IInv, Typed, TypeOK
    <2>2. today' = today + 1 /\ ledger' = ledger /\ today \in Nat
      BY <1>5 DEF Midnight, IInv, Typed, TypeOK
    <2>3. QuotaOn(today + 1)
      BY <2>1, NoRows
    <2>4. \A d \in 2..today' : QuotaOn(d)
      BY <1>1, <2>2, <2>3
    <2>5. \A d \in 2..today' : QuotaOn(d)'
      BY <2>2, <2>4, QuotaKept
    <2>. QED BY <2>5, QuotaIsNext
  <1>6. \/ ledger' = ledger /\ today' = today
        \/ \E t \in Txns : Commit(t)
        \/ Midnight
    BY DEF Next, Begin, Step, TakeLock, Reserve, Finish, Leave, Fail, SaveReport, vars
  <1>. QED BY <1>2, <1>3, <1>4, <1>5, <1>6

\* No principal uses more than its limit on a day, and all of them together no
\* more model calls than the service allows, whatever runs together.
THEOREM QuotaHolds == Spec => []WithinQuota
  <1>1. Init => WithinQuota
    <2>. SUFFICES ASSUME Init PROVE WithinQuota
      OBVIOUS
    <2>1. today = 2 /\ RowsOf(2) = {}
      BY DEF Init, RowsOf
    <2>2. \A d \in 2..today : QuotaOn(d)
      BY <2>1, NoRows
    <2>. QED BY <2>2, QuotaIs
  <1>2. IInv /\ WithinQuota /\ [Next]_vars => WithinQuota'
    BY QuotaStep
  <1>. QED BY <1>1, <1>2, IInvCorrect, PTL DEF Spec

-----------------------------------------------------------------------------
(* The pause, and what is paid for *)

\* While usage stays paused no row is added.
THEOREM PauseKept == Spec => PauseHolds
  <1>1. IInv /\ [Next]_vars => [paused /\ paused' => ledger' = ledger]_vars
    <2>. SUFFICES ASSUME IInv, Next, paused PROVE ledger' = ledger
      OBVIOUS
    <2>1. ASSUME NEW t \in Txns, Commit(t) PROVE ledger' = ledger
      <3>1. Room(t) /\ txn[t].item \in Items
        BY <2>1 DEF Commit, IInv, Counted, Typed, TypeOK
      <3>2. ledger[txn[t].item] # 0
        BY <3>1 DEF Room
      <3>. QED BY <2>1, <3>1, <3>2 DEF Commit, IInv, Typed, TypeOK
    <2>2. ledger' = ledger \/ \E t \in Txns : Commit(t)
      BY DEF Next, Begin, Step, TakeLock, Reserve, Finish, Leave, Fail, SaveReport, Midnight
    <2>. QED BY <2>1, <2>2
  <1>. QED BY <1>1, IInvCorrect, PTL DEF Spec, PauseHolds

LEMMA PaidStep ==
  ASSUME IInv, PaidIsDone, [Next]_vars
  PROVE  PaidIsDone'
  <1>1. ASSUME NEW t \in Txns, Commit(t) PROVE PaidIsDone'
    <2>. DEFINE i == txn[t].item
    <2>1. /\ i \in Items /\ txn[t].day \in 2..today /\ today \in Nat
          /\ ledger \in [Items -> 0..today]
      BY <1>1 DEF Commit, IInv, Typed, TypeOK
    <2>2. ledger'[i] # 0 /\ (i \in done' \/ i.handler = "validate")
      BY <1>1, <2>1 DEF Commit
    <2>3. \A j \in Items \ {i} : ledger'[j] = ledger[j] /\ (j \in done' <=> j \in done)
      BY <1>1, <2>1 DEF Commit
    <2>. QED BY <2>2, <2>3 DEF PaidIsDone
  <1>2. ASSUME NEW t \in Txns, Finish(t) PROVE PaidIsDone'
    <2>1. txn[t].item.handler \notin Reserving
      BY <1>2, ReservingIs DEF Finish, Others
    <2>. QED BY <1>2, <2>1 DEF Finish, PaidIsDone
  <1>3. ASSUME NEW i \in Items, SaveReport(i) PROVE PaidIsDone'
    BY <1>3 DEF SaveReport, PaidIsDone
  <1>4. CASE UNCHANGED <<ledger, done>>
    BY <1>4 DEF PaidIsDone
  <1>5. \/ UNCHANGED <<ledger, done>>
        \/ \E t \in Txns : Commit(t) \/ Finish(t)
        \/ \E i \in Items : SaveReport(i)
    BY DEF Next, Begin, Step, TakeLock, Reserve, Leave, Fail, Midnight, vars
  <1>. QED BY <1>1, <1>2, <1>3, <1>4, <1>5

\* What is done was paid for, and what was paid for is done or is a validation
\* under way.
THEOREM PaidCorrect == Spec => []PaidIsDone
  <1>1. Init => PaidIsDone
    BY ReservingIs DEF Init, PaidIsDone
  <1>2. IInv /\ PaidIsDone /\ [Next]_vars => PaidIsDone'
    BY PaidStep
  <1>. QED BY <1>1, <1>2, IInvCorrect, PTL DEF Spec

-----------------------------------------------------------------------------
(* No circle of waiting *)

\* Every handler takes its locks in the order of their kinds.
Rank == [request |-> 1, campaign |-> 2, story |-> 3, turn |-> 4, job |-> 5,
         admission |-> 6, ledger |-> 7]

Ranked(locks) ==
  /\ \A k \in 1..Len(locks) : Rank[locks[k].kind] \in 1..7
  /\ \A k, n \in 1..Len(locks) : k < n => Rank[locks[k].kind] < Rank[locks[n].kind]

LEMMA LocksRanked ==
  ASSUME NEW i \in Items PROVE Ranked(Locks(i))
  <1>. USE DEF Ranked, Rank, Alone, Shared, Request, Story, Run, Campaign, Turn, Job, Admission, Ledger
  <1>1. i.handler \in Reserving \cup Others
    BY DEF Item
  <1>2. CASE i.handler = "accept"
    <2>1. Locks(i) = ToAccept(i)
      BY <1>2 DEF Locks
    <2>. QED BY <2>1 DEF ToAccept
  <1>3. CASE i.handler = "reserve"
    <2>1. Locks(i) = ToReserve(i)
      BY <1>3 DEF Locks
    <2>. QED BY <2>1 DEF ToReserve
  <1>4. CASE i.handler = "create"
    <2>1. Locks(i) = ToCreate(i)
      BY <1>4 DEF Locks
    <2>. QED BY <2>1 DEF ToCreate
  <1>5. CASE i.handler = "duplicate"
    <2>1. Locks(i) = ToDuplicate(i)
      BY <1>5 DEF Locks
    <2>. QED BY <2>1 DEF ToDuplicate
  <1>6. CASE i.handler = "validate"
    <2>1. Locks(i) = ToValidate(i)
      BY <1>6 DEF Locks
    <2>. QED BY <2>1 DEF ToValidate
  <1>7. CASE i.handler = "enqueue"
    <2>1. Locks(i) = ToEnqueue(i)
      BY <1>7 DEF Locks
    <2>. QED BY <2>1 DEF ToEnqueue
  <1>8. CASE i.handler = "call"
    <2>1. Locks(i) = ToCall(i)
      BY <1>8 DEF Locks
    <2>. QED BY <2>1 DEF ToCall
  <1>9. CASE i.handler = "conclude"
    <2>1. Locks(i) = ToConclude(i)
      BY <1>9 DEF Locks
    <2>. QED BY <2>1 DEF ToConclude
  <1>10. CASE i.handler = "cancel"
    <2>1. Locks(i) = ToCancel(i)
      BY <1>10 DEF Locks
    <2>. QED BY <2>1 DEF ToCancel
  <1>11. CASE i.handler = "claim"
    <2>1. Locks(i) = ToClaim(i)
      BY <1>11 DEF Locks
    <2>. QED BY <2>1 DEF ToClaim
  <1>12. CASE i.handler \in {"block", "withdraw"}
    <2>1. Locks(i) = ToModerate(i)
      BY <1>12 DEF Locks
    <2>. QED BY <2>1 DEF ToModerate
  <1>13. CASE i.handler \in {"pause", "resume"}
    <2>1. Locks(i) = ToPause(i)
      BY <1>13 DEF Locks
    <2>. QED BY <2>1 DEF ToPause
  <1>. QED BY <1>1, <1>2, <1>3, <1>4, <1>5, <1>6, <1>7, <1>8, <1>9, <1>10, <1>11, <1>12, <1>13, ReservingIs DEF Others

Waits(t) == txn[t].pc # "idle" /\ ~GoesOn(t)

\* the rank of the lock a transaction waits for
Awaited(t) == Rank[NextLock(t).kind]

LEMMA WaitingIs ==
  ASSUME Typed, NEW t \in Txns, Waits(t)
  PROVE  /\ txn[t].item \in Items /\ txn[t].got + 1 \in 1..Len(Locks(txn[t].item))
         /\ NextLock(t) = Locks(txn[t].item)[txn[t].got + 1]
         /\ ~Free(NextLock(t), t)
         /\ Awaited(t) \in 1..7
  <1>1. /\ txn[t].pc = "locking" /\ txn[t].item \in Items
        /\ txn[t].got \in 0..Len(Locks(txn[t].item))
        /\ txn[t].got # Len(Locks(txn[t].item)) /\ ~Free(NextLock(t), t)
    BY DEF Waits, GoesOn, Locking, Locked, Typed, TypeOK, TxnState
  <1>2. Len(Locks(txn[t].item)) \in Nat
    BY <1>1, LocksOf
  <1>3. txn[t].got + 1 \in 1..Len(Locks(txn[t].item))
    BY <1>1, <1>2
  <1>4. Awaited(t) \in 1..7
    BY <1>1, <1>3, LocksRanked DEF Awaited, NextLock, Ranked
  <1>. QED BY <1>1, <1>3, <1>4 DEF NextLock

\* Whoever is waited for goes on, or waits for a lock of a higher rank.
LEMMA WaitedForIs ==
  ASSUME Typed, NEW t \in Txns, Waits(t)
  PROVE  \E u \in Txns : txn[u].pc # "idle" /\ (GoesOn(u) \/ Awaited(t) < Awaited(u))
  <1>1. PICK u \in Txns \ {t} : \E lock \in Held(u) : lock.kind = NextLock(t).kind
    BY WaitingIs DEF Free
  <1>2. txn[u].pc # "idle"
    BY <1>1 DEF Held
  <1>3. PICK k \in 1..txn[u].got : Locks(txn[u].item)[k].kind = NextLock(t).kind
    BY <1>1, <1>2 DEF Held
  <1>4. CASE ~GoesOn(u)
    <2>. DEFINE i == txn[u].item  n == txn[u].got + 1
    <2>1. Waits(u)
      BY <1>2, <1>4 DEF Waits
    <2>2. i \in Items /\ n \in 1..Len(Locks(i)) /\ NextLock(u) = Locks(i)[n]
      BY <2>1, WaitingIs
    <2>3. Len(Locks(i)) \in Nat /\ txn[u].got \in 0..Len(Locks(i))
      BY <1>2, <2>2, LocksOf DEF Typed, TypeOK
    <2>4. k \in 1..Len(Locks(i)) /\ k < n
      BY <2>2, <2>3
    <2>5. Rank[Locks(i)[k].kind] < Rank[Locks(i)[n].kind]
      BY <2>2, <2>4, LocksRanked DEF Ranked
    <2>. QED BY <1>2, <1>3, <2>2, <2>5 DEF Awaited
  <1>. QED BY <1>2, <1>4

LEMMA Highest ==
  ASSUME NEW ranks \in SUBSET (1..7), ranks # {}
  PROVE  \E r \in ranks : \A q \in ranks : ~(r < q)
  <1>1. \E r \in 1..7 : r \in ranks
    OBVIOUS
  <1>2. CASE 7 \in ranks
    BY <1>2
  <1>3. CASE 7 \notin ranks /\ 6 \in ranks
    BY <1>3
  <1>4. CASE {6, 7} \cap ranks = {} /\ 5 \in ranks
    BY <1>4
  <1>5. CASE {5, 6, 7} \cap ranks = {} /\ 4 \in ranks
    BY <1>5
  <1>6. CASE {4, 5, 6, 7} \cap ranks = {} /\ 3 \in ranks
    BY <1>6
  <1>7. CASE {3, 4, 5, 6, 7} \cap ranks = {}
    <2>1. \A q \in ranks : q = 1 \/ q = 2
      BY <1>7
    <2>2. CASE 2 \in ranks
      BY <2>1, <2>2
    <2>3. CASE 2 \notin ranks
      BY <1>1, <2>1, <2>3
    <2>. QED BY <2>2, <2>3
  <1>. QED BY <1>2, <1>3, <1>4, <1>5, <1>6, <1>7

\* At any moment some transaction under way waits for no other, however many
\* there are: of those that wait, the one for the highest kind of lock waits for
\* one that goes on.
THEOREM NoCircleOfWaiting == Spec => []SomeCallGoesOn
  <1>1. ASSUME Typed, \A t \in Txns : ~GoesOn(t), NEW t \in Txns, txn[t].pc # "idle"
        PROVE  FALSE
    <2>. DEFINE ranks == {Awaited(u) : u \in {v \in Txns : Waits(v)}}
    <2>1. ranks \subseteq 1..7 /\ ranks # {}
      BY <1>1, WaitingIs DEF Waits
    <2>2. PICK r \in ranks : \A q \in ranks : ~(r < q)
      <3>. HIDE DEF ranks
      <3>. QED BY <2>1, Highest
    <2>3. PICK u \in Txns : Waits(u) /\ r = Awaited(u)
      BY <2>2
    <2>4. PICK v \in Txns : txn[v].pc # "idle" /\ Awaited(u) < Awaited(v)
      BY <1>1, <2>3, WaitedForIs
    <2>5. Waits(v)
      BY <1>1, <2>4 DEF Waits
    <2>. QED BY <2>2, <2>3, <2>4, <2>5
  <1>2. Typed => SomeCallGoesOn
    BY <1>1 DEF SomeCallGoesOn
  <1>. QED BY <1>2, TypedInit, TypedStep, PTL DEF Spec

===============================================================================
