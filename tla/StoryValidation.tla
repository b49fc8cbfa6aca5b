---------------------------- MODULE StoryValidation ----------------------------
(***************************************************************************)
(* The validator of authored stories: compile_draft and the search         *)
(* _explore of application/stories.py.  A definition is checked, its       *)
(* (scene, flags) positions are explored forwards from the start within a  *)
(* budget of positions, and the positions that can still end are found by  *)
(* walking the recorded moves backwards.  One step is one pass of a loop;  *)
(* a queue is a set here, for no result depends on the order it is served  *)
(* in, except which positions a search that exceeds its budget has seen.   *)
(***************************************************************************)
EXTENDS StoryGraph

CONSTANTS Drafts,         \* definitions the validator is given
          StateLimit,     \* positions explored before the search gives up
          SceneLimit, FlagLimit, ActionLimit    \* largest definition explored

\* Definitions are finite.
ASSUME DraftAssumption ==
          \A story \in Drafts : IsFiniteSet(story.scenes) /\ IsFiniteSet(story.flags)

ASSUME LimitAssumption ==
          /\ StateLimit \in Nat \ {0}
          /\ SceneLimit \in Nat /\ FlagLimit \in Nat /\ ActionLimit \in Nat

VARIABLES draft,      \* the definition
          phase,      \* "check", "explore", "trace" or "done"
          queue,      \* positions to visit
          seen,       \* positions found
          reverse,    \* recorded moves, as pairs <<target, source>>
          canEnd,     \* visited positions with an action that ends the story
          reached,    \* [endings, scenes] reached
          exhausted,  \* the budget is spent
          pending,    \* positions whose sources are still to be marked
          winning,    \* positions from which an ending is reached
          errors,     \* codes that refuse the definition
          warnings    \* codes that only inform the author

vars == <<draft, phase, queue, seen, reverse, canEnd, reached, exhausted,
          pending, winning, errors, warnings>>

search == <<queue, seen, reverse, canEnd, reached, exhausted>>
marks  == <<pending, winning>>

Init ==
  /\ draft \in Drafts
  /\ phase = "check"
  /\ queue = {} /\ seen = {} /\ reverse = {} /\ canEnd = {}
  /\ reached = [endings |-> {}, scenes |-> {}]
  /\ exhausted = FALSE
  /\ pending = {} /\ winning = {}
  /\ errors = {} /\ warnings = {}

-----------------------------------------------------------------------------
(* compile_draft *)

TooLarge ==
  \/ Cardinality(draft.scenes) > SceneLimit
  \/ Cardinality(draft.flags) > FlagLimit
  \/ \E scene \in draft.scenes : Cardinality(ActionsAt(draft, scene)) > ActionLimit

\* Warnings every readable definition gets, whatever the search finds.
Standing ==
  {"narrative_review_required"}
    \cup (IF draft.bounded THEN {"freeform_unverified"} ELSE {})

\* New stories must be explicit; others are explored all the same.
Inexplicit == IF draft.schema = 2 /\ draft.initialized THEN {} ELSE {"explicit_initialization_required"}

\* A definition that cannot be read, or is too large, is not explored.
Refuse ==
  /\ phase = "check"
  /\ \/ /\ ~ValidGraph(draft)
        /\ errors' = {"invalid_definition"} /\ warnings' = {}
     \/ /\ ValidGraph(draft) /\ TooLarge
        /\ errors' = Inexplicit \cup {"scenario_size_limit"} /\ warnings' = Standing
  /\ phase' = "done"
  /\ UNCHANGED <<draft, search, marks>>

Explore ==
  /\ phase = "check"
  /\ ValidGraph(draft) /\ ~TooLarge
  /\ queue' = {Start(draft)} /\ seen' = {Start(draft)}
  /\ warnings' = Standing \cup (IF Fights(draft) THEN {"combat_unverified"} ELSE {})
  /\ errors' = Inexplicit
  /\ phase' = "explore"
  /\ UNCHANGED <<draft, reverse, canEnd, reached, exhausted, marks>>

-----------------------------------------------------------------------------
(* _explore: forwards *)

\* Mutant: only moves to positions not seen before are recorded.
RecordedNew(at) == (Moves(draft, at) \ seen) \X {at}

\* what a visit records of the moves of a position
Recorded(at) == Moves(draft, at) \X {at}

\* Mutant: the last position of the budget is not used.
WithinSmallerBudget(positions) == Cardinality(positions) < StateLimit

WithinBudget(positions) == Cardinality(positions) <= StateLimit

\* The next position is taken from the queue and every target of it is within
\* the budget.
Visit ==
  /\ phase = "explore"
  /\ \E at \in queue :
       LET moves == Moves(draft, at)
           ends  == Endings(draft, at)
       IN  /\ WithinBudget(seen \cup moves)
           /\ queue' = (queue \ {at}) \cup (moves \ seen)
           /\ seen' = seen \cup moves
           /\ reverse' = reverse \cup Recorded(at)
           /\ canEnd' = IF ends = {} THEN canEnd ELSE canEnd \cup {at}
           /\ reached' = [endings |-> reached.endings \cup ends,
                          scenes  |-> reached.scenes \cup {at.scene}]
  /\ UNCHANGED <<draft, phase, exhausted, marks, errors, warnings>>

\* A new target is found when the budget is spent: the search stops at once.
\* What it had found by then is reported as partial.
GiveUp ==
  /\ phase = "explore"
  /\ \E at \in queue :
       LET moves == Moves(draft, at)
       IN  \E found \in SUBSET (moves \ seen) :
             /\ Cardinality(seen \cup found) = StateLimit
             /\ ~WithinBudget(seen \cup moves)
             /\ seen' = seen \cup found
             /\ \E ends \in SUBSET Endings(draft, at) :
                  reached' = [endings |-> reached.endings \cup ends,
                              scenes  |-> reached.scenes \cup {at.scene}]
  /\ exhausted' = TRUE
  /\ warnings' = warnings \cup {"exploration_limit"}
  /\ phase' = "done"
  /\ UNCHANGED <<draft, queue, reverse, canEnd, marks, errors>>

-----------------------------------------------------------------------------
(* _explore: backwards, and the verdict *)

Turn ==
  /\ phase = "explore" /\ queue = {}
  /\ winning' = canEnd /\ pending' = canEnd
  /\ phase' = "trace"
  /\ UNCHANGED <<draft, search, errors, warnings>>

Unmarked(at) == {move[2] : move \in {m \in reverse : m[1] = at}} \ winning

Mark ==
  /\ phase = "trace"
  /\ \E at \in pending :
       LET sources == Unmarked(at)
       IN  /\ winning' = winning \cup sources
           /\ pending' = (pending \ {at}) \cup sources
  /\ UNCHANGED <<draft, phase, search, errors, warnings>>

DeadEnds == reached.endings = {} \/ seen \ winning # {}

Unreached ==
  draft.scenes \ reached.scenes # {} \/ draft.endings \ reached.endings # {}

Judge ==
  /\ phase = "trace" /\ pending = {}
  /\ errors' = errors
       \cup (IF DeadEnds /\ ~Uncertain(draft) THEN {"unreachable_ending"} ELSE {})
  /\ warnings' = warnings
       \cup (IF DeadEnds /\ Uncertain(draft) THEN {"registered_path_dead_end"} ELSE {})
       \cup (IF Unreached THEN {"unreached_content"} ELSE {})
  /\ phase' = "done"
  /\ UNCHANGED <<draft, search, marks>>

Next == Refuse \/ Explore \/ Visit \/ GiveUp \/ Turn \/ Mark \/ Judge

Spec == Init /\ [][Next]_vars

-----------------------------------------------------------------------------
(* Properties *)

\* a definition the search went over to its end
Searched == phase = "done" /\ ValidGraph(draft) /\ ~TooLarge /\ ~exhausted

Reported == "unreachable_ending" \in errors \/ "registered_path_dead_end" \in warnings

\* The verdict is right both ways: a search that finished has found every
\* position, and it reports a dead end exactly when the player can walk into
\* positions from which no sequence of registered actions ends the story - an
\* error where nothing else can help, a warning where fights or free actions can.
VerdictIsExact ==
  Searched =>
    /\ Start(draft) \in seen
    /\ \A at \in seen : Moves(draft, at) \subseteq seen
    /\ Reported <=> \E positions \in SUBSET seen : IsTrap(draft, positions)
    /\ "unreachable_ending" \in errors => ~Uncertain(draft)

\* The report says "partial" exactly when there are more positions than the
\* budget, and otherwise names exactly the scenes and endings a player can
\* reach: the last position within the budget is not taken for one too many.
BudgetIsExact ==
  phase = "done" /\ ValidGraph(draft) /\ ~TooLarge =>
    LET explored == Explored(draft)
    IN  /\ exhausted <=> Cardinality(explored) > StateLimit
        /\ exhausted => Cardinality(seen) = StateLimit /\ seen \subseteq explored
        /\ ~exhausted =>
             /\ reached.scenes = {at.scene : at \in explored}
             /\ reached.endings = UNION {Endings(draft, at) : at \in explored}
===============================================================================
