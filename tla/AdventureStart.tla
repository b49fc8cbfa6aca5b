---------------------------- MODULE AdventureStart ----------------------------
(***************************************************************************)
(* Starting an adventure.  A call resolves the story without a lock, then  *)
(* in a second transaction claims its request, resolves again under the    *)
(* lock of the story and writes the campaign.  The browser repeats a call  *)
(* whose answer it did not get, also to another process, while the story   *)
(* is released anew, hidden, withdrawn or stopped.                         *)
(***************************************************************************)
EXTENDS Integers, FiniteSets

CONSTANTS Callers,     \* calls being served
          Principals, Keys,  \* players; request ids
          Stories, Versions, Campaigns,
          StoryOf,     \* of each version
          Owner,       \* of each story, NoOne for the built-in one
          NoOne,
          Playtests,   \* versions made to try a draft; the others are releases
          Builtin,     \* the releases of the built-in story
          Latest,      \* the one of Builtin that is first made current
          First,       \* the release a written story has already
          Wants,       \* payloads: what is asked for
          MaxChanges   \* bound: changes to stories

VARIABLES story,      \* rows of stories
          existing,   \* versions that were made
          starts,     \* adventure_start_requests by principal and request id
          runs,       \* of each campaign: the version it is pinned to, "none" if there
                      \* is no campaign, "unpinned" if it is older than versions
          recorded,   \* campaigns with a playtest record
          call,       \* of each caller: how far its call has come
          changes     \* changes to stories so far

vars == <<story, existing, starts, runs, recorded, call, changes>>

\* By a version's id, or by the reference and number of a built-in scenario.
Want == [by : {"id", "ref"}, version : Versions]

Slots == Principals \X Keys

NoStart == [want |-> NoOne, campaign |-> NoOne]

Refusals == {"conflict", "stopped", "not found", "unavailable", "changed"}

Idle == [pc |-> "idle", slot |-> NoOne, want |-> NoOne, pinned |-> FALSE,
         replay |-> NoOne, answer |-> NoOne]

ASSUME StartAssumption ==
    /\ StoryOf \in [Versions -> Stories]
    /\ Owner \in [Stories -> Principals \cup {NoOne}]
    /\ Playtests \subseteq Versions
    /\ Builtin \subseteq Versions \ Playtests
    /\ \A v \in Versions : v \in Builtin <=> Owner[StoryOf[v]] = NoOne
    /\ Latest \in Builtin
    /\ First \in Versions \ (Playtests \cup Builtin)
    /\ Wants \subseteq Want
    /\ \A want \in Wants : want.by = "ref" => want.version \in Builtin
    /\ MaxChanges \in Nat

\* What stands for nothing, for no run or for a refusal is no name of anything.
ASSUME NameAssumption ==
    /\ \A names \in {Principals, Versions, Campaigns, Wants, Refusals} : NoOne \notin names
    /\ {"none", "unpinned"} \cap Versions = {}
    /\ Refusals \cap Campaigns = {}

\* A written story is public.  One campaign may come from before versions were
\* stored; the built-in story is imported by the first process that starts.
Init ==
    /\ story = [s \in Stories |->
                  [lifecycle |-> "active", public |-> TRUE,
                   current |-> IF s = StoryOf[First] THEN First ELSE NoOne]]
    /\ existing = {First}
    /\ \E old \in {[s \in Slots |-> NoStart]} \cup
                  {[s \in Slots |-> IF s = slot THEN [want |-> want, campaign |-> c] ELSE NoStart] :
                      slot \in Slots, want \in {w \in Wants : w.by = "ref"}, c \in Campaigns} :
          /\ starts = old
          /\ runs = [c \in Campaigns |->
                       IF \E s \in Slots : old[s].campaign = c THEN "unpinned" ELSE "none"]
    /\ recorded = {}
    /\ call = [p \in Callers |-> Idle]
    /\ changes = 0

-----------------------------------------------------------------------------
(* resolve_start *)

Mine(s, principal) == Owner[s] = principal

Visible(v, principal) ==
    \/ Mine(StoryOf[v], principal)
    \/ v \notin Playtests /\ story[StoryOf[v]].public

\* A built-in version named by its reference may be an old one.
Offered(v, want) ==
    /\ story[StoryOf[v]].lifecycle = "active"
    /\ want.by = "ref" \/ v \in Playtests \/ story[StoryOf[v]].current = v

\* The first reason to refuse, or "none".
Refusal(principal, want, replay) ==
    LET v == want.version  s == StoryOf[v] IN
    CASE v \notin existing                                   -> "not found"
      [] v \in existing /\ story[s].lifecycle = "blocked"    -> "stopped"
      [] v \in existing /\ story[s].lifecycle # "blocked" /\ ~Visible(v, principal)
                                                             -> "not found"
      [] OTHER -> IF replay \in Versions \/ Offered(v, want) THEN "none"
                  ELSE IF story[s].lifecycle # "active" THEN "unavailable" ELSE "changed"

-----------------------------------------------------------------------------
(* A call *)

Principal(p) == call[p].slot[1]

Start(p) == starts[call[p].slot]

At(p, pc) == call[p].pc = pc

Goto(p, pc) == call' = [call EXCEPT ![p].pc = pc]

Answer(p, answer) == call' = [call EXCEPT ![p].pc = "answered", ![p].answer = answer]

RowsUnchanged == UNCHANGED <<story, existing, starts, runs, recorded, changes>>

Begin(p, slot, want) ==
    /\ At(p, "idle")
    /\ call' = [call EXCEPT ![p] =
          [Idle EXCEPT !.pc = "looking", !.slot = slot, !.want = want,
                       !.pinned = starts[slot] # NoStart /\ runs[starts[slot].campaign] \in Versions]]
    /\ RowsUnchanged

\* the payload is that of the start
SameRequest(p) == Start(p).want = call[p].want

\* Mutant: the version of the run is not passed on.
Forgotten(p) == NoOne

\* the version of the run that was started before, if it has one
Pinned(p) == IF Start(p) # NoStart THEN runs[Start(p).campaign] ELSE NoOne

\* for_start, its first statements
Look(p) ==
    /\ At(p, "looking")
    /\ IF Start(p) # NoStart /\ ~SameRequest(p)
       THEN Answer(p, "conflict")
       ELSE call' = [call EXCEPT ![p].pc = "resolving", ![p].replay = Pinned(p)]
    /\ RowsUnchanged

\* for_start, its last statement, without a lock
Resolve(p) ==
    LET refusal == Refusal(Principal(p), call[p].want, call[p].replay) IN
    /\ At(p, "resolving")
    /\ IF refusal = "none" THEN Goto(p, "claiming") ELSE Answer(p, refusal)
    /\ RowsUnchanged

Claiming(p) == call[p].pc \in {"claimed", "creating"}

\* Mutant: does not wait for another claim of the request.
ClaimableAtOnce(p) == TRUE

\* The unique key makes the insert wait for another transaction's.
Claimable(p) == \A other \in Callers \ {p} :
                    Claiming(other) => call[other].slot # call[p].slot

\* create: on_conflict_do_nothing
Claim(p) ==
    /\ At(p, "claiming")
    /\ Claimable(p)
    /\ IF Start(p) = NoStart THEN Goto(p, "claimed")
       ELSE IF ~SameRequest(p) THEN Answer(p, "conflict")
       ELSE Goto(p, "replaying")
    /\ RowsUnchanged

\* create, with an earlier start: it is authorised again
Replay(p) ==
    LET refusal == Refusal(Principal(p), call[p].want, Pinned(p)) IN
    /\ At(p, "replaying")
    /\ Answer(p, IF refusal = "none" THEN Start(p).campaign ELSE refusal)
    /\ RowsUnchanged

\* create, with a new start: resolved again, with the lock of the story.  A refusal
\* rolls the claim back.
Lock(p) ==
    LET refusal == Refusal(Principal(p), call[p].want, NoOne) IN
    /\ At(p, "claimed")
    /\ IF refusal = "none" THEN Goto(p, "creating") ELSE Answer(p, refusal)
    /\ RowsUnchanged

\* Authors' plays of a version on trial are recorded as playtests.
Recorded(p, c) == IF call[p].want.version \in Playtests THEN recorded \cup {c} ELSE recorded

\* The start, the campaign and its run are committed together.
Create(p) ==
    /\ At(p, "creating")
    /\ \E c \in {free \in Campaigns : runs[free] = "none"} :
          /\ starts' = [starts EXCEPT ![call[p].slot] = [want |-> call[p].want, campaign |-> c]]
          /\ runs' = [runs EXCEPT ![c] = call[p].want.version]
          /\ recorded' = Recorded(p, c)
          /\ Answer(p, c)
    /\ UNCHANGED <<story, existing, changes>>

\* The answer was sent, or lost on the way.
Return(p) ==
    /\ At(p, "answered")
    /\ call' = [call EXCEPT ![p] = Idle]
    /\ RowsUnchanged

\* The process stops before it commits.
Fail(p) ==
    /\ call[p].pc \notin {"idle", "answered"}
    /\ call' = [call EXCEPT ![p] = Idle]
    /\ RowsUnchanged

-----------------------------------------------------------------------------
(* Changes to the stories *)

\* Mutant: a start does not lock the story.
NeverShared(s) == FALSE

\* held by a start from its second look at the story to its commit
ShareLocked(s) == \E p \in Callers : At(p, "creating") /\ StoryOf[call[p].want.version] = s

Change(s) == /\ changes < MaxChanges
             /\ ~ShareLocked(s)
             /\ changes' = changes + 1
             /\ UNCHANGED <<starts, recorded, call>>

\* publish
Release(v) ==
    LET s == StoryOf[v] IN
    /\ v \notin existing \cup Playtests \cup Builtin
    /\ story[s].lifecycle = "active"
    /\ existing' = existing \cup {v}
    /\ \E public \in BOOLEAN :
          story' = [story EXCEPT ![s].current = v, ![s].public = public]
    /\ Change(s)
    /\ UNCHANGED runs

\* create_playtest_version
MakePlaytest(v) ==
    LET s == StoryOf[v] IN
    /\ v \in Playtests \ existing
    /\ story[s].lifecycle \notin {"blocked", "archived"}
    /\ existing' = existing \cup {v}
    /\ Change(s)
    /\ UNCHANGED <<story, runs>>

\* settings, by the owner
Settings(s) ==
    /\ Owner[s] # NoOne
    /\ story[s].lifecycle # "blocked"
    /\ \E lifecycle \in {"active", "withdrawn", "archived"}, public \in BOOLEAN :
          story' = [story EXCEPT ![s].lifecycle = lifecycle, ![s].public = public]
    /\ Change(s)
    /\ UNCHANGED <<existing, runs>>

\* moderate
Moderate(s) ==
    /\ \E lifecycle \in {"blocked", "withdrawn"} :
          story' = [story EXCEPT ![s].lifecycle = lifecycle]
    /\ Change(s)
    /\ UNCHANGED <<existing, runs>>

\* import_builtin_stories, by each process that starts
Import ==
    /\ existing' = existing \cup Builtin
    /\ ~ShareLocked(StoryOf[Latest])
    /\ story' = [story EXCEPT ![StoryOf[Latest]].current = IF @ = NoOne THEN Latest ELSE @]
    /\ runs' = [c \in Campaigns |->
                  IF runs[c] = "unpinned"
                  THEN (CHOOSE s \in {starts[slot] : slot \in Slots} : s.campaign = c).want.version
                  ELSE runs[c]]
    /\ UNCHANGED <<starts, recorded, call, changes>>

Step(p) == \/ Look(p) \/ Resolve(p) \/ Claim(p) \/ Replay(p)
           \/ Lock(p) \/ Create(p)

Next ==
    \/ \E p \in Callers, slot \in Slots, want \in Wants : Begin(p, slot, want)
    \/ \E p \in Callers : Step(p) \/ Return(p) \/ Fail(p)
    \/ \E v \in Versions : Release(v) \/ MakePlaytest(v)
    \/ \E s \in Stories : Settings(s) \/ Moderate(s)
    \/ Import

Spec == Init /\ [][Next]_vars

-----------------------------------------------------------------------------
(* Properties *)

\* Whichever process answers, and however often the browser asks, a request names
\* one adventure, that of the payload it was first made with; and who asks again
\* after it was pinned is never told that the story was released anew or withdrawn
\* (docs/story-authoring-design.md:106).
AnswersAgree ==
    \A p \in Callers : At(p, "answered") =>
        /\ call[p].answer \notin Refusals =>
              Start(p) = [want |-> call[p].want, campaign |-> call[p].answer]
        /\ call[p].answer \in {"changed", "unavailable"} => ~call[p].pinned

\* Claim, campaign, run and playtest record stand or fall together: every campaign
\* was asked for by exactly one request, runs the version that one named, and is a
\* playtest exactly if that is one on trial.
StartsAreWhole ==
    \A c \in Campaigns : runs[c] # "none" =>
        /\ Cardinality({slot \in Slots : starts[slot].campaign = c}) = 1
        /\ \A slot \in Slots : starts[slot].campaign = c =>
              runs[c] \in {"unpinned", starts[slot].want.version}
        /\ c \in recorded <=> runs[c] \in Playtests

\* At the moment an adventure is there its story is open, shown to the player, and
\* offers that version, though both were looked up long before the commit.
StartedAsOffered ==
    [][\A slot \in Slots : starts[slot] = NoStart /\ starts'[slot] # NoStart =>
          LET want == starts'[slot].want IN
          /\ want.version \in existing
          /\ Visible(want.version, slot[1])
          /\ story[StoryOf[want.version]].lifecycle = "active"
          /\ \/ want.by = "ref"
             \/ want.version \in Playtests
             \/ story[StoryOf[want.version]].current = want.version]_vars
===============================================================================
