------------------------- MODULE AdventureStartProofs -------------------------
(***************************************************************************)
(* Proofs about AdventureStart for any callers, players, request ids,      *)
(* stories, versions and campaigns: answers agree, starts are whole, and   *)
(* what was started was on offer.                                          *)
(***************************************************************************)
EXTENDS AdventureStart, FiniteSetTheorems, TLAPS

USE StartAssumption, NameAssumption

-----------------------------------------------------------------------------
(* Types *)

StoryRow == [lifecycle : {"active", "withdrawn", "archived", "blocked"},
             public : BOOLEAN, current : Versions \cup {NoOne}]

StartRow == [want : Wants, campaign : Campaigns]

Steps == {"idle", "looking", "resolving", "claiming", "replaying", "claimed", "creating",
          "answered"}

CallRow == [pc : Steps, slot : Slots \cup {NoOne}, want : Wants \cup {NoOne},
            pinned : BOOLEAN, replay : Versions \cup {NoOne, "unpinned"},
            answer : Campaigns \cup Refusals \cup {NoOne}]

CallTyped(x) == x.pc # "idle" => x.slot \in Slots /\ x.want \in Wants

Typed ==
    /\ story \in [Stories -> StoryRow]
    /\ existing \in SUBSET Versions
    /\ starts \in [Slots -> {NoStart} \cup StartRow]
    /\ runs \in [Campaigns -> Versions \cup {"none", "unpinned"}]
    /\ recorded \in SUBSET Campaigns
    /\ call \in [Callers -> CallRow]
    /\ \A p \in Callers : CallTyped(call[p])
    /\ changes \in Nat

-----------------------------------------------------------------------------
(* The rows of starts and runs agree *)

Started(slot) == starts[slot] # NoStart

\* A campaign belongs to one start, and a start has its campaign; the run is
\* that of the version asked for, or not pinned yet, as those of old starts of
\* the built-in story are.
RowsAgree ==
    /\ \A s, t \in Slots : Started(s) /\ Started(t) /\ starts[s].campaign = starts[t].campaign
                           => s = t
    /\ \A c \in Campaigns : runs[c] # "none" => \E s \in Slots : starts[s].campaign = c
    /\ \A s \in Slots : Started(s) =>
          LET run == runs[starts[s].campaign]  want == starts[s].want IN
          /\ run \in {"unpinned", want.version}
          /\ run = "unpinned" => want.by = "ref"
    /\ \A c \in Campaigns : c \in recorded <=> runs[c] \in Playtests

\* What a call knows of its start: the unique key keeps others from the request
\* it claims, and a run that was pinned stays so.
CallAgrees(p) ==
    /\ Claiming(p) => ~Started(call[p].slot)
    /\ Claiming(p) => \A q \in Callers \ {p} : Claiming(q) => call[q].slot # call[p].slot
    /\ At(p, "replaying") => Started(call[p].slot) /\ SameRequest(p)
    /\ call[p].pinned /\ ~At(p, "idle") =>
          Started(call[p].slot) /\ runs[Start(p).campaign] \in Versions
    /\ call[p].pinned /\ call[p].pc \in {"resolving", "claiming"} => call[p].replay \in Versions
    /\ At(p, "creating") => Refusal(Principal(p), call[p].want, NoOne) = "none"

CallsAgree == \A p \in Callers : CallAgrees(p)

IInv == Typed /\ RowsAgree /\ CallsAgree /\ AnswersAgree

LEMMA IInvInit == Init => IInv
  <1>. SUFFICES ASSUME Init PROVE IInv
    OBVIOUS
  <1>1. PICK old \in {[s \in Slots |-> NoStart]} \cup
                  {[s \in Slots |-> IF s = slot THEN [want |-> want, campaign |-> c] ELSE NoStart] :
                      slot \in Slots, want \in {w \in Wants : w.by = "ref"}, c \in Campaigns} :
          /\ starts = old
          /\ runs = [c \in Campaigns |->
                       IF \E s \in Slots : old[s].campaign = c THEN "unpinned" ELSE "none"]
    BY DEF Init
  <1>2. /\ starts \in [Slots -> {NoStart} \cup StartRow]
        /\ \A s, t \in Slots : Started(s) /\ Started(t) => s = t
        /\ \A s \in Slots : Started(s) => starts[s].want.by = "ref"
    <2>1. CASE old = [s \in Slots |-> NoStart]
      BY <1>1, <2>1 DEF Started
    <2>2. ASSUME NEW slot \in Slots, NEW want \in Wants, want.by = "ref", NEW c \in Campaigns,
                 old = [s \in Slots |-> IF s = slot THEN [want |-> want, campaign |-> c] ELSE NoStart]
          PROVE  <1>2!2 /\ <1>2!3 /\ <1>2!1
      <3>1. /\ \A s \in Slots \ {slot} : starts[s] = NoStart
            /\ starts[slot] = [want |-> want, campaign |-> c]
        BY <1>1, <2>2
      <3>2. starts \in [Slots -> {NoStart} \cup StartRow]
        BY <1>1, <2>2 DEF StartRow
      <3>. QED BY <2>2, <3>1, <3>2 DEF Started
    <2>. QED BY <1>1, <2>1, <2>2
  <1>3. \A c \in Campaigns : runs[c] = IF \E s \in Slots : starts[s].campaign = c THEN "unpinned" ELSE "none"
    BY <1>1
  <1>4. Typed
    <2>1. story \in [Stories -> StoryRow]
      BY DEF Init, StoryRow
    <2>2. call \in [Callers -> CallRow] /\ \A p \in Callers : call[p].pc = "idle"
      BY DEF Init, Idle, CallRow, Steps
    <2>3. runs \in [Campaigns -> Versions \cup {"none", "unpinned"}]
      BY <1>1
    <2>. QED BY <1>2, <2>1, <2>2, <2>3 DEF Init, Typed, CallTyped
  <1>5. RowsAgree
    <2>1. \A s \in Slots : Started(s) => starts[s].campaign \in Campaigns /\ runs[starts[s].campaign] = "unpinned"
      BY <1>2, <1>3 DEF Started, StartRow
    <2>2. \A c \in Campaigns : runs[c] \notin Playtests
      BY <1>3
    <2>3. recorded = {}
      BY DEF Init
    <2>. QED BY <1>2, <1>3, <2>1, <2>2, <2>3 DEF RowsAgree
  <1>6. CallsAgree /\ AnswersAgree
    BY DEF Init, Idle, CallsAgree, CallAgrees, AnswersAgree, Claiming, At
  <1>. QED BY <1>4, <1>5, <1>6 DEF IInv

-----------------------------------------------------------------------------
(* resolve_start *)

\* It refuses for a reason, never an earlier start for what befell the story since.
LEMMA RefusalIs ==
  ASSUME NEW principal, NEW want, NEW replay
  PROVE  /\ Refusal(principal, want, replay) \in Refusals \cup {"none"}
         /\ replay \in Versions => Refusal(principal, want, replay) \notin {"unavailable", "changed"}
  BY DEF Refusal, Refusals

LEMMA AllowedIs ==
  ASSUME NEW principal, NEW want
  PROVE  Refusal(principal, want, NoOne) = "none" <=>
            /\ want.version \in existing
            /\ story[StoryOf[want.version]].lifecycle # "blocked"
            /\ Visible(want.version, principal)
            /\ Offered(want.version, want)
  BY DEF Refusal

-----------------------------------------------------------------------------
(* Steps of a call that write nothing *)

\* What may become of a call without a row being written.
Sound(p, x) ==
    LET slot == x.slot IN
    /\ x \in CallRow /\ CallTyped(x)
    /\ x.pc \in {"claimed", "creating"} =>
          /\ ~Started(slot)
          /\ \A q \in Callers \ {p} : Claiming(q) => call[q].slot # slot
    /\ x.pc = "replaying" => Started(slot) /\ starts[slot].want = x.want
    /\ x.pinned /\ x.pc # "idle" => Started(slot) /\ runs[starts[slot].campaign] \in Versions
    /\ x.pinned /\ x.pc \in {"resolving", "claiming"} => x.replay \in Versions
    /\ x.pc = "creating" => Refusal(slot[1], x.want, NoOne) = "none"
    /\ x.pc = "answered" =>
          /\ x.answer \notin Refusals => starts[slot] = [want |-> x.want, campaign |-> x.answer]
          /\ x.answer \in {"changed", "unavailable"} => ~x.pinned

LEMMA CallMoves ==
  ASSUME IInv, NEW p \in Callers, NEW x, Sound(p, x), RowsUnchanged,
         call' = [call EXCEPT ![p] = x]
  PROVE  IInv'
  <1>1. call \in [Callers -> CallRow] /\ x \in CallRow
    BY DEF IInv, Typed, Sound
  <1>2. call'[p] = x /\ \A q \in Callers \ {p} : call'[q] = call[q]
    BY <1>1
  <1>3. Typed'
    <2>1. call' \in [Callers -> CallRow]
      BY <1>1
    <2>2. \A q \in Callers : CallTyped(call'[q])
      BY <1>2 DEF IInv, Typed, Sound
    <2>. QED BY <2>1, <2>2 DEF IInv, Typed, RowsUnchanged, CallTyped
  <1>4. RowsAgree'
    BY DEF IInv, RowsAgree, Started, RowsUnchanged
  <1>5. \A q \in Callers : Claiming(q)' <=> call'[q].pc \in {"claimed", "creating"}
    BY DEF Claiming
  <1>6. ASSUME NEW q \in Callers \ {p} PROVE CallAgrees(q)'
    <2>1. CallAgrees(q)
      BY DEF IInv, CallsAgree
    <2>2. Claiming(q)' => \A r \in Callers \ {q} : Claiming(r)' => call'[r].slot # call'[q].slot
      BY <1>2, <1>5, <2>1 DEF CallAgrees, Sound, Claiming
    <2>3. \A principal, want : Refusal(principal, want, NoOne)' = Refusal(principal, want, NoOne)
      BY DEF Refusal, Visible, Offered, Mine, RowsUnchanged
    <2>4. Principal(q)' = Principal(q)
      BY <1>2 DEF Principal
    <2>. HIDE DEF Refusal, Principal
    <2>5. At(q, "creating")' => Refusal(Principal(q), call[q].want, NoOne)' = "none"
      BY <1>2, <2>1, <2>3, <2>4 DEF CallAgrees, At
    <2>6. call'[q] = call[q] /\ UNCHANGED <<starts, runs>>
      BY <1>2 DEF RowsUnchanged
    <2>. QED BY <2>1, <2>2, <2>5, <2>6
             DEF CallAgrees, Claiming, Started, At, Start, SameRequest
  <1>7. CallAgrees(p)'
    <2>1. call'[p] = x /\ UNCHANGED <<starts, runs>>
      BY <1>2 DEF RowsUnchanged
    <2>2. Claiming(p)' => ~Started(call[p].slot)'
                          /\ \A q \in Callers \ {p} : Claiming(q)' => call'[q].slot # call'[p].slot
      BY <1>2, <1>5, <2>1 DEF Sound, Claiming, Started
    <2>3. At(p, "creating")' => Refusal(Principal(p), call[p].want, NoOne)' = "none"
      <3>1. Refusal(x.slot[1], x.want, NoOne)' = Refusal(x.slot[1], x.want, NoOne)
        BY DEF Refusal, Visible, Offered, Mine, RowsUnchanged
      <3>2. Refusal(Principal(p), call[p].want, NoOne)' = Refusal(x.slot[1], x.want, NoOne)'
        BY <2>1 DEF Principal, Refusal, Visible, Offered, Mine, RowsUnchanged
      <3>. QED BY <2>1, <3>1, <3>2 DEF At, Sound
    <2>. QED BY <2>1, <2>2, <2>3 DEF Sound, CallAgrees, Started, At, Start, SameRequest
  <1>8. AnswersAgree'
    BY <1>2 DEF Sound, IInv, AnswersAgree, At, Start, RowsUnchanged
  <1>. QED BY <1>3, <1>4, <1>6, <1>7, <1>8 DEF IInv, CallsAgree

Answered(p, answer) == [call[p] EXCEPT !.pc = "answered", !.answer = answer]

Gone(p, pc) == [call[p] EXCEPT !.pc = pc]

LEMMA CallIs ==
  ASSUME IInv, NEW p \in Callers
  PROVE  /\ call[p] \in CallRow /\ CallTyped(call[p])
         /\ \A answer : Answer(p, answer) => call' = [call EXCEPT ![p] = Answered(p, answer)]
         /\ \A pc : Goto(p, pc) => call' = [call EXCEPT ![p] = Gone(p, pc)]
  <1>1. call \in [Callers -> CallRow] /\ CallTyped(call[p])
    BY DEF IInv, Typed
  <1>2. call[p] \in CallRow
    BY <1>1
  <1>. QED BY <1>1, <1>2 DEF Answer, Goto, Answered, Gone

LEMMA AnsweredIs ==
  ASSUME IInv, NEW p \in Callers, NEW answer \in Campaigns \cup Refusals
  PROVE  LET x == Answered(p, answer) IN
         /\ x \in CallRow /\ x.pc = "answered" /\ x.slot = call[p].slot /\ x.want = call[p].want
         /\ x.pinned = call[p].pinned /\ x.replay = call[p].replay /\ x.answer = answer
  <1>1. call[p] \in CallRow
    BY CallIs
  <1>. QED BY <1>1 DEF CallRow, Steps, Answered

LEMMA GoneIs ==
  ASSUME IInv, NEW p \in Callers, NEW pc \in Steps
  PROVE  LET x == Gone(p, pc) IN
         /\ x \in CallRow /\ x.pc = pc /\ x.slot = call[p].slot /\ x.want = call[p].want
         /\ x.pinned = call[p].pinned /\ x.replay = call[p].replay /\ x.answer = call[p].answer
  <1>1. call[p] \in CallRow
    BY CallIs
  <1>. QED BY <1>1 DEF CallRow, Gone

\* A refusal may be given to who has no pinned start, or is not about the story's release.
LEMMA Refuses ==
  ASSUME IInv, NEW p \in Callers, ~At(p, "idle"), RowsUnchanged,
         NEW refusal \in Refusals, Answer(p, refusal),
         refusal \in {"changed", "unavailable"} => ~call[p].pinned
  PROVE  IInv'
  <1>1. call' = [call EXCEPT ![p] = Answered(p, refusal)]
    BY CallIs
  <1>2. Sound(p, Answered(p, refusal))
    BY CallIs, AnsweredIs DEF Sound, CallTyped, IInv, CallsAgree, CallAgrees, At, Start
  <1>. QED BY <1>1, <1>2, CallMoves

LEMMA BeginKeeps ==
  ASSUME IInv, NEW p \in Callers, NEW slot \in Slots, NEW want \in Wants, Begin(p, slot, want)
  PROVE  IInv'
  <1>. DEFINE pinned == starts[slot] # NoStart /\ runs[starts[slot].campaign] \in Versions
              x == [Idle EXCEPT !.pc = "looking", !.slot = slot, !.want = want, !.pinned = pinned]
  <1>1. call' = [call EXCEPT ![p] = x] /\ RowsUnchanged
    BY DEF Begin
  <1>2. x.pc = "looking" /\ x.slot = slot /\ x.want = want /\ x.pinned = pinned
    BY DEF Idle
  <1>3. x \in CallRow
    BY DEF Idle, CallRow, Steps
  <1>. HIDE DEF x
  <1>4. Sound(p, x)
    BY <1>2, <1>3 DEF Sound, CallTyped, Started
  <1>. QED BY <1>1, <1>4, CallMoves

\* the version of an earlier start
LEMMA PinnedIs ==
  ASSUME IInv, NEW p \in Callers, call[p].slot \in Slots
  PROVE  /\ Pinned(p) \in Versions \cup {NoOne, "unpinned"}
         /\ Started(call[p].slot) => Pinned(p) = runs[Start(p).campaign]
  BY DEF Pinned, Start, Started, IInv, RowsAgree, Typed, StartRow, StartAssumption, Want

LEMMA LookKeeps ==
  ASSUME IInv, NEW p \in Callers, Look(p) PROVE IInv'
  <1>1. At(p, "looking") /\ RowsUnchanged /\ call[p].slot \in Slots /\ call[p].want \in Wants
    BY CallIs DEF Look, At, CallTyped
  <1>2. CASE Start(p) # NoStart /\ ~SameRequest(p)
    <2>1. Answer(p, "conflict") /\ "conflict" \in Refusals
      BY <1>2 DEF Look, Refusals
    <2>. QED BY <1>1, <2>1, Refuses DEF At
  <1>3. CASE ~(Start(p) # NoStart /\ ~SameRequest(p))
    <2>. DEFINE x == [call[p] EXCEPT !.pc = "resolving", !.replay = Pinned(p)]
    <2>1. call' = [call EXCEPT ![p] = x]
      BY <1>3 DEF Look, IInv, Typed
    <2>2. call[p] \in CallRow /\ Pinned(p) \in Versions \cup {NoOne, "unpinned"}
      BY <1>1, CallIs, PinnedIs
    <2>3. /\ x \in CallRow /\ x.pc = "resolving" /\ x.slot = call[p].slot /\ x.want = call[p].want
          /\ x.pinned = call[p].pinned /\ x.replay = Pinned(p)
      BY <2>2 DEF CallRow, Steps
    <2>. HIDE DEF x
    <2>4. Sound(p, x)
      BY <1>1, <2>3, PinnedIs DEF Sound, CallTyped, IInv, CallsAgree, CallAgrees, At, Start
    <2>. QED BY <1>1, <2>1, <2>4, CallMoves
  <1>. QED BY <1>2, <1>3

LEMMA ResolveKeeps ==
  ASSUME IInv, NEW p \in Callers, Resolve(p) PROVE IInv'
  <1>. DEFINE refusal == Refusal(Principal(p), call[p].want, call[p].replay)
  <1>1. At(p, "resolving") /\ RowsUnchanged /\ call[p].slot \in Slots /\ call[p].want \in Wants
    BY CallIs DEF Resolve, At, CallTyped
  <1>2. CASE refusal # "none"
    <2>1. refusal \in Refusals /\ Answer(p, refusal)
      BY <1>2, RefusalIs DEF Resolve
    <2>2. refusal \in {"changed", "unavailable"} => ~call[p].pinned
      BY <1>1, RefusalIs DEF IInv, CallsAgree, CallAgrees, At
    <2>. HIDE DEF refusal
    <2>. QED BY <1>1, <2>1, <2>2, Refuses DEF At
  <1>3. CASE refusal = "none"
    <2>1. call' = [call EXCEPT ![p] = Gone(p, "claiming")]
      BY <1>3, CallIs DEF Resolve
    <2>2. Sound(p, Gone(p, "claiming"))
      BY <1>1, GoneIs DEF Sound, Steps, CallTyped, IInv, CallsAgree, CallAgrees, At, Start
    <2>. QED BY <1>1, <2>1, <2>2, CallMoves
  <1>. QED BY <1>2, <1>3

LEMMA ClaimKeeps ==
  ASSUME IInv, NEW p \in Callers, Claim(p) PROVE IInv'
  <1>1. At(p, "claiming") /\ RowsUnchanged /\ call[p].slot \in Slots /\ call[p].want \in Wants
    BY CallIs DEF Claim, At, CallTyped
  <1>2. CASE Start(p) = NoStart
    <2>1. call' = [call EXCEPT ![p] = Gone(p, "claimed")]
      BY <1>2, CallIs DEF Claim
    <2>2. \A q \in Callers \ {p} : Claiming(q) => call[q].slot # call[p].slot
      BY DEF Claim, Claimable
    <2>3. Sound(p, Gone(p, "claimed"))
      BY <1>1, <1>2, <2>2, GoneIs
         DEF Sound, Steps, CallTyped, IInv, CallsAgree, CallAgrees, At, Start, Started
    <2>. QED BY <1>1, <2>1, <2>3, CallMoves
  <1>3. CASE Start(p) # NoStart /\ ~SameRequest(p)
    <2>1. Answer(p, "conflict") /\ "conflict" \in Refusals
      BY <1>3 DEF Claim, Refusals
    <2>. QED BY <1>1, <2>1, Refuses DEF At
  <1>4. CASE Start(p) # NoStart /\ SameRequest(p)
    <2>1. call' = [call EXCEPT ![p] = Gone(p, "replaying")]
      BY <1>4, CallIs DEF Claim
    <2>2. Sound(p, Gone(p, "replaying"))
      BY <1>1, <1>4, GoneIs
         DEF Sound, Steps, CallTyped, IInv, CallsAgree, CallAgrees, At, Start,
             Started, SameRequest
    <2>. QED BY <1>1, <2>1, <2>2, CallMoves
  <1>. QED BY <1>2, <1>3, <1>4

LEMMA ReplayKeeps ==
  ASSUME IInv, NEW p \in Callers, Replay(p) PROVE IInv'
  <1>. DEFINE refusal == Refusal(Principal(p), call[p].want, Pinned(p))
  <1>1. /\ At(p, "replaying") /\ RowsUnchanged /\ call[p].slot \in Slots /\ call[p].want \in Wants
        /\ Started(call[p].slot) /\ SameRequest(p)
    BY CallIs DEF Replay, At, CallTyped, IInv, CallsAgree, CallAgrees
  <1>2. CASE refusal # "none"
    <2>1. refusal \in Refusals /\ Answer(p, refusal)
      BY <1>2, RefusalIs DEF Replay
    <2>2. refusal \in {"changed", "unavailable"} => ~call[p].pinned
      BY <1>1, RefusalIs, PinnedIs DEF IInv, CallsAgree, CallAgrees, At
    <2>. HIDE DEF refusal
    <2>. QED BY <1>1, <2>1, <2>2, Refuses DEF At
  <1>3. CASE refusal = "none"
    <2>. DEFINE c == Start(p).campaign
    <2>1. Answer(p, c)
      BY <1>3 DEF Replay
    <2>2. Start(p) = [want |-> call[p].want, campaign |-> c] /\ c \in Campaigns
      BY <1>1 DEF Start, SameRequest, Started, IInv, Typed, StartRow
    <2>3. /\ starts[call[p].slot] = [want |-> call[p].want, campaign |-> c]
          /\ c \notin {"changed", "unavailable"}
          /\ call[p].pinned => runs[starts[call[p].slot].campaign] \in Versions
      BY <1>1, <2>2 DEF Refusals, Start, IInv, CallsAgree, CallAgrees, At
    <2>4. Sound(p, Answered(p, c))
      <3>. HIDE DEF c
      <3>. QED BY <1>1, <2>2, <2>3, AnsweredIs DEF Sound, CallTyped
    <2>. QED BY <1>1, <2>1, <2>4, CallIs, CallMoves
  <1>. QED BY <1>2, <1>3

LEMMA LockKeeps ==
  ASSUME IInv, NEW p \in Callers, Lock(p) PROVE IInv'
  <1>. DEFINE refusal == Refusal(Principal(p), call[p].want, NoOne)
  <1>1. /\ At(p, "claimed") /\ RowsUnchanged /\ call[p].slot \in Slots /\ call[p].want \in Wants
        /\ ~Started(call[p].slot)
        /\ \A q \in Callers \ {p} : Claiming(q) => call[q].slot # call[p].slot
    BY CallIs DEF Lock, At, CallTyped, IInv, CallsAgree, CallAgrees, Claiming
  <1>2. CASE refusal # "none"
    <2>1. refusal \in Refusals /\ Answer(p, refusal)
      BY <1>2, RefusalIs DEF Lock
    <2>2. ~call[p].pinned
      BY <1>1 DEF IInv, CallsAgree, CallAgrees, At
    <2>. HIDE DEF refusal
    <2>. QED BY <1>1, <2>1, <2>2, Refuses DEF At
  <1>3. CASE refusal = "none"
    <2>1. call' = [call EXCEPT ![p] = Gone(p, "creating")]
      BY <1>3, CallIs DEF Lock
    <2>2. Sound(p, Gone(p, "creating"))
      BY <1>1, <1>3, GoneIs
         DEF Sound, Steps, CallTyped, IInv, CallsAgree, CallAgrees, At, Start, Principal
    <2>. QED BY <1>1, <2>1, <2>2, CallMoves
  <1>. QED BY <1>2, <1>3

LEMMA EndKeeps ==
  ASSUME IInv, NEW p \in Callers, Return(p) \/ Fail(p) PROVE IInv'
  <1>1. call' = [call EXCEPT ![p] = Idle] /\ RowsUnchanged
    BY DEF Return, Fail
  <1>2. Sound(p, Idle)
    BY DEF Sound, Idle, CallRow, Steps, CallTyped
  <1>. QED BY <1>1, <1>2, CallMoves

-----------------------------------------------------------------------------
(* The commit of a start *)

LEMMA CreateKeeps ==
  ASSUME IInv, NEW p \in Callers, Create(p) PROVE IInv'
  <1>. DEFINE slot == call[p].slot  want == call[p].want
  <1>1. PICK c \in Campaigns :
          /\ runs[c] = "none"
          /\ starts' = [starts EXCEPT ![slot] = [want |-> want, campaign |-> c]]
          /\ runs' = [runs EXCEPT ![c] = want.version]
          /\ recorded' = Recorded(p, c)
          /\ call' = [call EXCEPT ![p] = Answered(p, c)]
    BY CallIs DEF Create
  <1>2. /\ At(p, "creating") /\ slot \in Slots /\ want \in Wants /\ want.version \in Versions
        /\ ~Started(slot)
        /\ \A q \in Callers \ {p} : Claiming(q) => call[q].slot # slot
        /\ UNCHANGED <<story, existing, changes>>
    BY CallIs DEF Create, At, CallTyped, IInv, CallsAgree, CallAgrees, Claiming, Want
  <1>3. /\ starts'[slot] = [want |-> want, campaign |-> c]
        /\ \A s \in Slots \ {slot} : starts'[s] = starts[s]
        /\ runs'[c] = want.version /\ \A d \in Campaigns \ {c} : runs'[d] = runs[d]
    BY <1>1, <1>2 DEF IInv, Typed
  <1>4. \A s \in Slots : Started(s) => starts[s].campaign \in Campaigns \ {c}
    BY <1>1, <1>2 DEF IInv, Typed, RowsAgree, Started, StartRow, Want
  <1>5. [want |-> want, campaign |-> c] \in StartRow /\ [want |-> want, campaign |-> c] # NoStart
    BY <1>2 DEF StartRow, NoStart
  <1>6. call'[p] = Answered(p, c) /\ \A q \in Callers \ {p} : call'[q] = call[q]
    BY <1>1 DEF IInv, Typed
  <1>. HIDE DEF slot, want
  <1>7. Typed'
    <2>1. starts' \in [Slots -> {NoStart} \cup StartRow] /\ runs' \in [Campaigns -> Versions \cup {"none", "unpinned"}]
      BY <1>1, <1>2, <1>5 DEF IInv, Typed
    <2>2. recorded' \in SUBSET Campaigns
      BY <1>1 DEF Recorded, IInv, Typed
    <2>3. call' \in [Callers -> CallRow] /\ \A q \in Callers : CallTyped(call'[q])
      BY <1>1, <1>2, <1>6, AnsweredIs DEF IInv, Typed, CallTyped, slot, want
    <2>. QED BY <1>2, <2>1, <2>2, <2>3 DEF IInv, Typed, CallTyped
  <1>8. RowsAgree'
    <2>1. \A s \in Slots : Started(s)' <=> s = slot \/ Started(s)
      BY <1>2, <1>3, <1>5 DEF Started
    <2>2. \A s, t \in Slots : /\ Started(s)' /\ Started(t)' /\ starts'[s].campaign = starts'[t].campaign
                              => s = t
      BY <1>3, <1>4, <2>1 DEF IInv, RowsAgree
    <2>3. \A d \in Campaigns : runs'[d] # "none" => \E s \in Slots : starts'[s].campaign = d
      <3>1. ASSUME NEW d \in Campaigns \ {c}, runs[d] # "none"
            PROVE  \E s \in Slots \ {slot} : starts[s].campaign = d
        BY <1>2, <3>1 DEF IInv, RowsAgree, Started, NoStart
      <3>. QED BY <1>2, <1>3, <3>1
    <2>4. ASSUME NEW s \in Slots, Started(s)'
          PROVE  LET run == runs'[starts'[s].campaign]  w == starts'[s].want IN
                 /\ run \in {"unpinned", w.version}
                 /\ run = "unpinned" => w.by = "ref"
      <3>1. CASE s = slot
        BY <1>2, <1>3, <3>1
      <3>2. CASE s # slot
        BY <1>3, <1>4, <2>1, <2>4, <3>2 DEF IInv, RowsAgree
      <3>. QED BY <3>1, <3>2
    <2>5. \A d \in Campaigns : d \in recorded' <=> runs'[d] \in Playtests
      BY <1>1, <1>2, <1>3 DEF Recorded, IInv, RowsAgree, want
    <2>. QED BY <2>2, <2>3, <2>4, <2>5 DEF RowsAgree, Started
  <1>9. ASSUME NEW q \in Callers PROVE CallAgrees(q)'
    <2>1. CASE q = p
      <3>1. At(p, "answered")'
        BY <1>1, <1>6, AnsweredIs DEF At
      <3>2. call'[p].pinned = call[p].pinned /\ ~call[p].pinned
        BY <1>1, <1>2, <1>6, AnsweredIs DEF IInv, CallsAgree, CallAgrees, At, slot
      <3>. QED BY <2>1, <3>1, <3>2 DEF CallAgrees, At, Claiming
    <2>2. CASE q # p
      <3>1. call'[q] = call[q] /\ CallAgrees(q) /\ CallTyped(call[q])
        BY <1>6, <2>2 DEF IInv, CallsAgree, Typed
      <3>2. Claiming(q)' => /\ ~Started(call[q].slot)'
                            /\ \A r \in Callers \ {q} : Claiming(r)' => call'[r].slot # call'[q].slot
        BY <1>2, <1>3, <1>1, <1>6, <2>2, <3>1, AnsweredIs DEF CallAgrees, Claiming, Started, CallTyped
      <3>3. Started(call[q].slot) /\ ~At(q, "idle") =>
                                 /\ Started(call[q].slot)' /\ starts'[call[q].slot] = starts[call[q].slot]
                                 /\ runs'[starts[call[q].slot].campaign] = runs[starts[call[q].slot].campaign]
        BY <1>2, <1>3, <1>4, <3>1 DEF Started, CallTyped, At
      <3>. QED BY <1>2, <3>1, <3>2, <3>3
               DEF CallAgrees, At, Start, SameRequest, Principal, Refusal, Visible, Offered, Mine
    <2>. QED BY <2>1, <2>2
  <1>10. AnswersAgree'
    <2>1. ASSUME NEW q \in Callers, At(q, "answered")'
          PROVE  /\ call'[q].answer \notin Refusals =>
                       starts'[call'[q].slot] = [want |-> call'[q].want, campaign |-> call'[q].answer]
                 /\ call'[q].answer \in {"changed", "unavailable"} => ~call'[q].pinned
      <3>1. CASE q = p
        <4>1. call'[p].slot = slot /\ call'[p].want = want /\ call'[p].answer = c
          BY <1>6, AnsweredIs DEF slot, want
        <4>2. c \notin {"changed", "unavailable"}
          BY DEF Refusals
        <4>. QED BY <1>3, <3>1, <4>1, <4>2
      <3>2. CASE q # p
        <4>1. /\ call'[q] = call[q] /\ At(q, "answered")
              /\ call[q].slot \in Slots /\ call[q].want \in Wants
          BY <1>6, <2>1, <3>2 DEF At, IInv, Typed, CallTyped
        <4>2. call[q].answer \notin Refusals => starts[call[q].slot] # NoStart
          <5>1. NoStart.want = NoOne /\ call[q].want # NoOne
            BY <4>1 DEF NoStart
          <5>2. call[q].answer \notin Refusals =>
                   starts[call[q].slot] = [want |-> call[q].want, campaign |-> call[q].answer]
            BY <4>1 DEF IInv, AnswersAgree, Start
          <5>3. call[q].answer \notin Refusals => starts[call[q].slot].want = call[q].want
            BY <5>2
          <5>. QED BY <5>1, <5>3
        <4>. QED BY <1>2, <1>3, <4>1, <4>2 DEF IInv, AnswersAgree, Start, Started
      <3>. QED BY <3>1, <3>2
    <2>. QED BY <2>1 DEF AnswersAgree, At, Start
  <1>. QED BY <1>7, <1>8, <1>9, <1>10 DEF IInv, CallsAgree

-----------------------------------------------------------------------------
(* Changes to the stories *)

\* A change of stories leaves the story of every start alone that is about to commit.
Shielded == \A p \in Callers : At(p, "creating") =>
                LET s == StoryOf[call[p].want.version] IN s \in Stories /\ story'[s] = story[s]

LEMMA StoriesKeep ==
  ASSUME IInv, UNCHANGED <<starts, recorded, call>>, changes' \in Nat,
         story' \in [Stories -> StoryRow], existing \subseteq existing', existing' \in SUBSET Versions,
         runs' \in [Campaigns -> Versions \cup {"none", "unpinned"}],
         \A c \in Campaigns : runs[c] \in Versions => runs'[c] = runs[c],
         RowsAgree', Shielded
  PROVE  IInv'
  <1>1. Typed'
    BY DEF IInv, Typed, CallTyped
  <1>2. \A s \in Slots : Started(s) => starts[s].campaign \in Campaigns
    BY DEF IInv, Typed, Started, StartRow
  <1>3. ASSUME NEW p \in Callers PROVE CallAgrees(p)'
    <2>1. CallAgrees(p)
      BY DEF IInv, CallsAgree
    <2>2. At(p, "creating") => (Refusal(Principal(p), call[p].want, NoOne) = "none")'
      <3>. SUFFICES ASSUME At(p, "creating")
                    PROVE  (Refusal(Principal(p), call[p].want, NoOne) = "none")'
        OBVIOUS
      <3>. DEFINE want == call[p].want  s == StoryOf[want.version]
      <3>1. /\ want.version \in existing /\ story[s].lifecycle # "blocked"
            /\ Visible(want.version, Principal(p)) /\ Offered(want.version, want)
        BY <2>1, AllowedIs DEF CallAgrees
      <3>2. story'[s] = story[s]
        BY DEF Shielded
      <3>3. /\ want.version \in existing' /\ story'[s].lifecycle # "blocked"
            /\ Visible(want.version, Principal(p))' /\ Offered(want.version, want)'
        BY <3>1, <3>2 DEF Visible, Mine, Offered, Principal
      <3>. QED BY <3>3 DEF Refusal, Principal
    <2>3. call[p].slot \in Slots \/ At(p, "idle")
      BY DEF IInv, Typed, CallTyped, At
    <2>. QED BY <1>2, <2>1, <2>2, <2>3 DEF CallAgrees, Claiming, Started, At, Start, SameRequest
  <1>4. AnswersAgree'
    BY DEF IInv, AnswersAgree, At, Start
  <1>. QED BY <1>1, <1>3, <1>4 DEF IInv, CallsAgree

LEMMA RowsStay ==
  ASSUME IInv, UNCHANGED <<starts, runs, recorded, call>>
  PROVE  RowsAgree' /\ runs' \in [Campaigns -> Versions \cup {"none", "unpinned"}]
  BY DEF IInv, Typed, RowsAgree, Started

\* A change waits for the starts that hold the lock of its story.
LEMMA ChangeShields ==
  ASSUME IInv, NEW s \in Stories, NEW row \in StoryRow, Change(s),
         story' = [story EXCEPT ![s] = row]
  PROVE  Shielded /\ story' \in [Stories -> StoryRow] /\ changes' \in Nat
  <1>1. story \in [Stories -> StoryRow] /\ changes \in Nat
    BY DEF IInv, Typed
  <1>2. ASSUME NEW p \in Callers, At(p, "creating")
        PROVE  LET r == StoryOf[call[p].want.version] IN r \in Stories \ {s}
    <2>1. call[p].want \in Wants
      BY <1>2 DEF IInv, Typed, CallTyped, At
    <2>2. call[p].want.version \in Versions
      BY <2>1 DEF Want
    <2>. QED BY <1>2, <2>2 DEF Change, ShareLocked
  <1>. QED BY <1>1, <1>2 DEF Shielded, Change

LEMMA StoryStepKeeps ==
  ASSUME IInv,
         \/ \E v \in Versions : Release(v) \/ MakePlaytest(v)
         \/ \E s \in Stories : Settings(s) \/ Moderate(s)
  PROVE  IInv'
  <1>1. story \in [Stories -> StoryRow] /\ existing \in SUBSET Versions /\ changes \in Nat
    BY DEF IInv, Typed
  <1>2. ASSUME NEW v \in Versions, Release(v) PROVE IInv'
    <2>. DEFINE s == StoryOf[v]
    <2>1. PICK public \in BOOLEAN : story' = [story EXCEPT ![s].current = v, ![s].public = public]
      BY <1>2 DEF Release
    <2>2. story' = [story EXCEPT ![s] = [@ EXCEPT !.current = v, !.public = public]]
      BY <2>1
    <2>3. s \in Stories /\ [story[s] EXCEPT !.current = v, !.public = public] \in StoryRow
      <3>1. s \in Stories
        OBVIOUS
      <3>2. story[s] \in StoryRow
        BY <1>1, <3>1
      <3>. HIDE DEF s
      <3>. QED BY <3>1, <3>2 DEF StoryRow
    <2>4. Change(s) /\ existing' = existing \cup {v} /\ runs' = runs
      BY <1>2 DEF Release
    <2>5. Shielded /\ story' \in [Stories -> StoryRow] /\ changes' \in Nat
      BY <2>2, <2>3, <2>4, ChangeShields
    <2>. QED BY <1>1, <2>4, <2>5, RowsStay, StoriesKeep DEF Change
  <1>3. ASSUME NEW v \in Versions, MakePlaytest(v) PROVE IInv'
    <2>. DEFINE s == StoryOf[v]
    <2>1. Change(s) /\ existing' = existing \cup {v} /\ UNCHANGED <<story, runs>> /\ s \in Stories
      BY <1>3 DEF MakePlaytest
    <2>2. Shielded /\ story' \in [Stories -> StoryRow] /\ changes' \in Nat
      <3>1. story' = [story EXCEPT ![s] = story[s]] /\ story[s] \in StoryRow
        BY <1>1, <2>1
      <3>. QED BY <2>1, <3>1, ChangeShields
    <2>. QED BY <1>1, <2>1, <2>2, RowsStay, StoriesKeep DEF Change
  <1>4. ASSUME NEW s \in Stories, Settings(s) PROVE IInv'
    <2>1. PICK lifecycle \in {"active", "withdrawn", "archived"}, public \in BOOLEAN :
            story' = [story EXCEPT ![s].lifecycle = lifecycle, ![s].public = public]
      BY <1>4 DEF Settings
    <2>2. story' = [story EXCEPT ![s] = [@ EXCEPT !.lifecycle = lifecycle, !.public = public]]
      BY <2>1
    <2>3. [story[s] EXCEPT !.lifecycle = lifecycle, !.public = public] \in StoryRow
      <3>1. story[s] \in StoryRow
        BY <1>1
      <3>. QED BY <3>1 DEF StoryRow
    <2>4. Change(s) /\ UNCHANGED <<existing, runs>>
      BY <1>4 DEF Settings
    <2>5. Shielded /\ story' \in [Stories -> StoryRow] /\ changes' \in Nat
      BY <2>2, <2>3, <2>4, ChangeShields
    <2>. QED BY <1>1, <2>4, <2>5, RowsStay, StoriesKeep DEF Change
  <1>5. ASSUME NEW s \in Stories, Moderate(s) PROVE IInv'
    <2>1. PICK lifecycle \in {"blocked", "withdrawn"} : story' = [story EXCEPT ![s].lifecycle = lifecycle]
      BY <1>5 DEF Moderate
    <2>2. story' = [story EXCEPT ![s] = [@ EXCEPT !.lifecycle = lifecycle]]
      BY <2>1
    <2>3. [story[s] EXCEPT !.lifecycle = lifecycle] \in StoryRow
      <3>1. story[s] \in StoryRow
        BY <1>1
      <3>. QED BY <3>1 DEF StoryRow
    <2>4. Change(s) /\ UNCHANGED <<existing, runs>>
      BY <1>5 DEF Moderate
    <2>5. Shielded /\ story' \in [Stories -> StoryRow] /\ changes' \in Nat
      BY <2>2, <2>3, <2>4, ChangeShields
    <2>. QED BY <1>1, <2>4, <2>5, RowsStay, StoriesKeep DEF Change
  <1>. QED BY <1>2, <1>3, <1>4, <1>5

\* The import pins a run of before versions to the version its start asked for.
LEMMA ImportKeeps ==
  ASSUME IInv, Import PROVE IInv'
  <1>. DEFINE L == StoryOf[Latest]
              row == [story[L] EXCEPT !.current = IF @ = NoOne THEN Latest ELSE @]
  <1>1. /\ story \in [Stories -> StoryRow] /\ existing \in SUBSET Versions /\ changes \in Nat
        /\ Builtin \subseteq Versions /\ L \in Stories
    BY DEF IInv, Typed
  <1>2. story' = [story EXCEPT ![L] = row]
    BY DEF Import
  <1>3. row \in StoryRow
    <2>1. story[L] \in StoryRow
      BY <1>1
    <2>. HIDE DEF L
    <2>. QED BY <1>1, <2>1 DEF StoryRow
  <1>4. story' \in [Stories -> StoryRow] /\ \A s \in Stories \ {L} : story'[s] = story[s]
    <2>. HIDE DEF row
    <2>. QED BY <1>1, <1>2, <1>3
  <1>5. Shielded
    <2>1. ASSUME NEW p \in Callers, At(p, "creating")
          PROVE  LET r == StoryOf[call[p].want.version] IN r \in Stories \ {L}
      <3>1. call[p].want \in Wants
        BY <2>1 DEF IInv, Typed, CallTyped, At
      <3>2. call[p].want.version \in Versions
        BY <3>1 DEF Want
      <3>. QED BY <2>1, <3>2 DEF Import, ShareLocked
    <2>. QED BY <1>4, <2>1 DEF Shielded
  <1>6. ASSUME NEW s \in Slots, Started(s), runs[starts[s].campaign] = "unpinned"
        PROVE  /\ runs'[starts[s].campaign] = starts[s].want.version
               /\ starts[s].want.version \in Versions \ Playtests
    <2>. DEFINE c == starts[s].campaign
                x == CHOOSE y \in {starts[t] : t \in Slots} : y.campaign = c
    <2>1. c \in Campaigns /\ starts[s].want \in Wants
      BY <1>6 DEF IInv, Typed, Started, StartRow
    <2>2. x \in {starts[t] : t \in Slots} /\ x.campaign = c
      OBVIOUS
    <2>3. PICK t \in Slots : x = starts[t]
      BY <2>2
    <2>4. t = s
      BY <1>6, <2>1, <2>2, <2>3 DEF IInv, RowsAgree, Started, NoStart
    <2>5. runs'[c] = starts[s].want.version
      BY <1>6, <2>1, <2>3, <2>4 DEF Import
    <2>6. starts[s].want.by = "ref"
      BY <1>6 DEF IInv, RowsAgree
    <2>. QED BY <2>1, <2>5, <2>6
  <1>7. /\ runs' \in [Campaigns -> Versions \cup {"none", "unpinned"}]
        /\ \A c \in Campaigns : runs[c] # "unpinned" => runs'[c] = runs[c]
        /\ \A c \in Campaigns : runs[c] = "unpinned" => runs'[c] \in Versions \ Playtests
    <2>1. ASSUME NEW c \in Campaigns, runs[c] = "unpinned" PROVE runs'[c] \in Versions \ Playtests
      <3>1. PICK s \in Slots : starts[s].campaign = c
        BY <2>1 DEF IInv, RowsAgree
      <3>2. Started(s)
        BY <3>1 DEF Started, NoStart
      <3>. QED BY <1>6, <2>1, <3>1, <3>2
    <2>2. /\ \A c \in Campaigns : runs[c] # "unpinned" => runs'[c] = runs[c]
          /\ runs' = [c \in Campaigns |-> runs'[c]]
      BY DEF Import
    <2>3. \A c \in Campaigns : runs[c] \in Versions \cup {"none", "unpinned"}
      BY DEF IInv, Typed
    <2>. QED BY <2>1, <2>2, <2>3
  <1>8. RowsAgree'
    <2>1. ASSUME NEW s \in Slots, Started(s)
          PROVE  /\ runs'[starts[s].campaign] \in {"unpinned", starts[s].want.version}
                 /\ runs'[starts[s].campaign] # "unpinned"
      <3>1. starts[s].campaign \in Campaigns /\ starts[s].want.version \in Versions
        BY <2>1 DEF IInv, Typed, Started, StartRow, Want
      <3>. QED BY <1>6, <1>7, <2>1, <3>1 DEF IInv, RowsAgree
    <2>2. \A c \in Campaigns : runs'[c] # "none" => runs[c] # "none"
      BY <1>7
    <2>3. \A c \in Campaigns : c \in recorded <=> runs'[c] \in Playtests
      BY <1>7 DEF IInv, RowsAgree
    <2>4. UNCHANGED <<starts, recorded>>
      BY DEF Import
    <2>. QED BY <2>1, <2>2, <2>3, <2>4 DEF IInv, RowsAgree, Started
  <1>9. /\ UNCHANGED <<starts, recorded, call, changes>>
        /\ existing \subseteq existing' /\ existing' \in SUBSET Versions
    BY <1>1 DEF Import
  <1>10. \A c \in Campaigns : runs[c] \in Versions => runs'[c] = runs[c]
    BY <1>7
  <1>. QED BY <1>1, <1>4, <1>5, <1>7, <1>8, <1>9, <1>10, StoriesKeep

-----------------------------------------------------------------------------
(* Theorems *)

LEMMA IInvStep == IInv /\ [Next]_vars => IInv'
  <1>. SUFFICES ASSUME IInv, [Next]_vars PROVE IInv'
    OBVIOUS
  <1>1. CASE UNCHANGED vars
    <2>1. UNCHANGED <<story, existing, starts, runs, recorded, call, changes>>
      BY <1>1 DEF vars
    <2>2. Typed' /\ RowsAgree'
      BY <2>1 DEF IInv, Typed, CallTyped, RowsAgree, Started
    <2>3. ASSUME NEW p \in Callers PROVE CallAgrees(p)'
      <3>1. CallAgrees(p)
        BY DEF IInv, CallsAgree
      <3>2. Refusal(Principal(p), call[p].want, NoOne)' = Refusal(Principal(p), call[p].want, NoOne)
        BY <2>1 DEF Principal, Refusal, Visible, Offered, Mine
      <3>. QED BY <2>1, <3>1, <3>2 DEF CallAgrees, Claiming, At, Started, Start, SameRequest
    <2>4. AnswersAgree'
      BY <2>1 DEF IInv, AnswersAgree, At, Start
    <2>. QED BY <2>2, <2>3, <2>4 DEF IInv, CallsAgree
  <1>2. ASSUME NEW p \in Callers,
               \/ \E slot \in Slots, want \in Wants : Begin(p, slot, want)
               \/ Step(p) \/ Return(p) \/ Fail(p)
        PROVE  IInv'
    BY <1>2, BeginKeeps, LookKeeps, ResolveKeeps, ClaimKeeps, ReplayKeeps, LockKeeps, CreateKeeps,
       EndKeeps DEF Step
  <1>3. CASE \/ \E v \in Versions : Release(v) \/ MakePlaytest(v)
             \/ \E s \in Stories : Settings(s) \/ Moderate(s)
    BY <1>3, StoryStepKeeps
  <1>4. CASE Import
    BY <1>4, ImportKeeps
  <1>. QED BY <1>1, <1>2, <1>3, <1>4 DEF Next

\* Whoever answers a start, and however often it is asked for, the answer is the
\* one campaign of that request, made for that payload; who asks again after
\* the run was pinned is never refused for a new release or a withdrawal.
THEOREM AnswersCorrect == Spec => []AnswersAgree
  <1>1. IInv => AnswersAgree
    BY DEF IInv
  <1>. QED BY <1>1, IInvInit, IInvStep, PTL DEF Spec

LEMMA WholeIs == IInv => StartsAreWhole
  <1>. SUFFICES ASSUME IInv, NEW c \in Campaigns, runs[c] # "none"
                PROVE  /\ Cardinality({slot \in Slots : starts[slot].campaign = c}) = 1
                       /\ \A slot \in Slots : starts[slot].campaign = c =>
                             runs[c] \in {"unpinned", starts[slot].want.version}
                       /\ c \in recorded <=> runs[c] \in Playtests
    BY DEF StartsAreWhole
  <1>1. \A s \in Slots : starts[s].campaign = c => Started(s)
    BY DEF Started, NoStart
  <1>2. PICK s \in Slots : starts[s].campaign = c
    BY DEF IInv, RowsAgree
  <1>3. {slot \in Slots : starts[slot].campaign = c} = {s}
    BY <1>1, <1>2 DEF IInv, RowsAgree
  <1>. QED BY <1>1, <1>3, FS_Singleton DEF IInv, RowsAgree

\* Every campaign was asked for by exactly one request, runs the version that
\* one named, and is recorded as a playtest exactly if that version is on trial.
THEOREM StartsWhole == Spec => []StartsAreWhole
  BY WholeIs, IInvInit, IInvStep, PTL DEF Spec

LEMMA StartsOnlyAreCreated ==
  ASSUME IInv, [Next]_vars, NEW slot \in Slots, starts[slot] = NoStart, starts'[slot] # NoStart
  PROVE  \E p \in Callers : /\ At(p, "creating") /\ call[p].slot = slot
                            /\ starts'[slot].want = call[p].want
  <1>1. PICK p \in Callers : Create(p)
    BY DEF Next, vars, Step, Begin, Look, Resolve, Claim, Replay, Lock, Return, Fail, RowsUnchanged,
           Release, MakePlaytest, Settings, Moderate, Import, Change
  <1>2. PICK c \in Campaigns :
          starts' = [starts EXCEPT ![call[p].slot] = [want |-> call[p].want, campaign |-> c]]
    BY <1>1 DEF Create
  <1>. QED BY <1>1, <1>2 DEF Create, IInv, Typed

\* When an adventure is committed, its version exists, its story is active and
\* shown to the player, and offers that version still, although the story was
\* looked up in an earlier step.
THEOREM OfferedCorrect == Spec => StartedAsOffered
  <1>1. ASSUME IInv, [Next]_vars, NEW slot \in Slots, starts[slot] = NoStart, starts'[slot] # NoStart
        PROVE  LET want == starts'[slot].want IN
               /\ want.version \in existing
               /\ Visible(want.version, slot[1])
               /\ story[StoryOf[want.version]].lifecycle = "active"
               /\ \/ want.by = "ref"
                  \/ want.version \in Playtests
                  \/ story[StoryOf[want.version]].current = want.version
    <2>1. PICK p \in Callers : /\ At(p, "creating") /\ call[p].slot = slot
                               /\ starts'[slot].want = call[p].want
      BY <1>1, StartsOnlyAreCreated
    <2>2. Refusal(slot[1], call[p].want, NoOne) = "none"
      BY <1>1, <2>1 DEF IInv, CallsAgree, CallAgrees, Principal
    <2>. QED BY <2>1, <2>2, AllowedIs DEF Offered
  <1>2. IInv /\ [Next]_vars =>
          [\A slot \in Slots : starts[slot] = NoStart /\ starts'[slot] # NoStart =>
             LET want == starts'[slot].want IN
             /\ want.version \in existing
             /\ Visible(want.version, slot[1])
             /\ story[StoryOf[want.version]].lifecycle = "active"
             /\ \/ want.by = "ref"
                \/ want.version \in Playtests
                \/ story[StoryOf[want.version]].current = want.version]_vars
    BY <1>1
  <1>. QED BY <1>2, IInvInit, IInvStep, PTL DEF Spec, StartedAsOffered
===============================================================================
