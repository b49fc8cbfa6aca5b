------------------------ MODULE StoryValidationProofs ------------------------
(***************************************************************************)
(* The search of StoryValidation is exact for every story and every        *)
(* budget.  VerdictCorrect uses nothing of Moves and Endings: the verdict  *)
(* is right for any graph.  BudgetCorrect compares the search with the     *)
(* definition of the positions that can be reached (ExploredIsLeast).      *)
(***************************************************************************)
EXTENDS StoryValidation, StoryGraphProofs

-----------------------------------------------------------------------------
(* The inductive invariant *)

\* Forwards: what was visited has all its moves recorded, and nothing else is.
Forwards ==
  /\ Start(draft) \in seen
  /\ queue \subseteq seen
  /\ reverse \subseteq seen \X seen
  /\ \A move \in reverse : move[1] \in Moves(draft, move[2])
  /\ \A at \in seen \ queue :
       /\ Moves(draft, at) \subseteq seen
       /\ \A to \in Moves(draft, at) : <<to, at>> \in reverse
       /\ Endings(draft, at) # {} => at \in canEnd
  /\ canEnd \subseteq {at \in seen : Endings(draft, at) # {}}
  /\ reached.endings = {} <=> canEnd = {}

\* Backwards: a marked position is in no trap, and its sources are marked or due.
Backwards ==
  /\ queue = {}
  /\ canEnd \subseteq winning /\ winning \subseteq seen /\ pending \subseteq winning
  /\ \A move \in reverse : move[1] \in winning \ pending => move[2] \in winning
  /\ \A positions \in SUBSET seen : IsTrap(draft, positions) => positions \cap winning = {}

VInv ==
  /\ phase \in {"check", "explore", "trace", "done"}
  /\ phase # "done" => "unreachable_ending" \notin errors /\ "registered_path_dead_end" \notin warnings
  /\ phase = "check" => reverse = {} /\ canEnd = {} /\ reached.endings = {}
  /\ phase \in {"explore", "trace"} => Forwards
  /\ phase = "trace" => Backwards
  /\ VerdictIsExact

LEMMA VInvInit == Init => VInv
  BY DEF Init, VInv, VerdictIsExact, Searched

-----------------------------------------------------------------------------
(* Forwards *)

LEMMA ForwardsBegin ==
  ASSUME VInv, Explore PROVE Forwards'
  <1>1. reverse = {} /\ canEnd = {} /\ reached.endings = {}
    BY DEF VInv, Explore
  <1>. QED BY <1>1 DEF Explore, Forwards

LEMMA VisitKeeps ==
  ASSUME Forwards, Visit PROVE Forwards'
  <1>1. PICK at \in queue :
          /\ queue' = (queue \ {at}) \cup (Moves(draft, at) \ seen)
          /\ seen' = seen \cup Moves(draft, at)
          /\ reverse' = reverse \cup (Moves(draft, at) \X {at})
          /\ canEnd' = IF Endings(draft, at) = {} THEN canEnd ELSE canEnd \cup {at}
          /\ reached' = [endings |-> reached.endings \cup Endings(draft, at),
                         scenes  |-> reached.scenes \cup {at.scene}]
    BY DEF Visit, Recorded
  <1>2. draft' = draft /\ at \in seen
    BY <1>1 DEF Visit, Forwards
  <1>3. Start(draft') \in seen' /\ queue' \subseteq seen'
    BY <1>1, <1>2 DEF Forwards
  <1>4. reverse' \subseteq seen' \X seen'
    BY <1>1, <1>2 DEF Forwards
  <1>5. \A move \in reverse' : move[1] \in Moves(draft', move[2])
    <2>. SUFFICES ASSUME NEW move \in reverse' PROVE move[1] \in Moves(draft, move[2])
      BY <1>2
    <2>1. CASE move \in reverse
      BY <2>1 DEF Forwards
    <2>2. CASE move \in Moves(draft, at) \X {at}
      BY <2>2
    <2>. QED BY <1>1, <2>1, <2>2
  <1>6. ASSUME NEW b \in seen' \ queue'
        PROVE  /\ Moves(draft', b) \subseteq seen'
               /\ \A to \in Moves(draft', b) : <<to, b>> \in reverse'
               /\ Endings(draft', b) # {} => b \in canEnd'
    <2>1. CASE b = at
      BY <1>1, <1>2, <2>1
    <2>2. CASE b # at
      <3>1. b \in seen \ queue
        BY <1>1, <2>2
      <3>. QED BY <1>1, <1>2, <3>1 DEF Forwards
    <2>. QED BY <2>1, <2>2
  <1>7. canEnd' \subseteq {b \in seen' : Endings(draft', b) # {}}
    BY <1>1, <1>2 DEF Forwards
  <1>8. reached'.endings = {} <=> canEnd' = {}
    <2>1. reached'.endings = reached.endings \cup Endings(draft, at)
      BY <1>1
    <2>. QED BY <1>1, <2>1 DEF Forwards
  <1>. QED BY <1>3, <1>4, <1>5, <1>6, <1>7, <1>8 DEF Forwards

LEMMA ForwardsKept ==
  ASSUME Forwards, UNCHANGED <<draft, search>> PROVE Forwards'
  BY DEF Forwards, search

-----------------------------------------------------------------------------
(* Backwards *)

LEMMA TurnBegins ==
  ASSUME Forwards, Turn PROVE Backwards'
  <1>1. queue = {} /\ winning' = canEnd /\ pending' = canEnd /\ UNCHANGED <<draft, search>>
    BY DEF Turn
  <1>2. ASSUME NEW positions \in SUBSET seen, IsTrap(draft, positions)
        PROVE  positions \cap canEnd = {}
    BY <1>2 DEF IsTrap, Forwards
  <1>3. \A positions \in SUBSET seen' : IsTrap(draft, positions)' => positions \cap winning' = {}
    BY <1>1, <1>2 DEF IsTrap, search
  <1>. QED BY <1>1, <1>3 DEF Backwards, Forwards, search

LEMMA MarkKeeps ==
  ASSUME Forwards, Backwards, Mark PROVE Backwards'
  <1>1. PICK at \in pending :
          /\ winning' = winning \cup Unmarked(at)
          /\ pending' = (pending \ {at}) \cup Unmarked(at)
    BY DEF Mark
  <1>2. UNCHANGED <<draft, queue, seen, reverse, canEnd>>
    BY DEF Mark, search
  <1>3. Unmarked(at) \cap winning = {} /\ Unmarked(at) \subseteq seen
    BY DEF Unmarked, Forwards
  <1>4. ASSUME NEW move \in reverse, move[1] \in winning' \ pending'
        PROVE  move[2] \in winning'
    <2>1. CASE move[1] = at
      BY <1>1, <2>1 DEF Unmarked
    <2>2. CASE move[1] # at
      <3>1. move[1] \in winning \ pending
        BY <1>1, <1>4, <2>2
      <3>. QED BY <1>1, <3>1 DEF Backwards
    <2>. QED BY <2>1, <2>2
  <1>5. ASSUME NEW positions \in SUBSET seen, IsTrap(draft, positions)
        PROVE  positions \cap winning' = {}
    <2>1. at \notin positions /\ positions \cap winning = {}
      BY <1>1, <1>5 DEF Backwards
    <2>2. ASSUME NEW source \in Unmarked(at) PROVE source \notin positions
      <3>1. PICK move \in reverse : move[1] = at /\ move[2] = source
        BY DEF Unmarked
      <3>2. at \in Moves(draft, source)
        BY <3>1 DEF Forwards
      <3>. QED BY <1>5, <2>1, <3>2 DEF IsTrap
    <2>. QED BY <1>1, <2>1, <2>2
  <1>6. \A positions \in SUBSET seen' : IsTrap(draft, positions)' => positions \cap winning' = {}
    BY <1>2, <1>5 DEF IsTrap
  <1>. QED BY <1>1, <1>2, <1>3, <1>4, <1>6 DEF Backwards

\* With nothing pending, what is not marked is a trap, and every trap is not marked.
LEMMA DeadEndsAreTraps ==
  ASSUME Forwards, Backwards, pending = {}
  PROVE  DeadEnds <=> \E positions \in SUBSET seen : IsTrap(draft, positions)
  <1>1. ASSUME seen \ winning # {} PROVE IsTrap(draft, seen \ winning)
    <2>. SUFFICES ASSUME NEW at \in seen \ winning
                  PROVE  Moves(draft, at) \subseteq seen \ winning /\ Endings(draft, at) = {}
      BY <1>1 DEF IsTrap
    <2>1. /\ Moves(draft, at) \subseteq seen
          /\ \A to \in Moves(draft, at) : <<to, at>> \in reverse
          /\ Endings(draft, at) # {} => at \in canEnd
      BY DEF Forwards, Backwards
    <2>2. ASSUME NEW to \in Moves(draft, at), to \in winning PROVE FALSE
      <3>1. <<to, at>> \in reverse
        BY <2>1
      <3>2. <<to, at>>[1] = to /\ <<to, at>>[2] = at
        OBVIOUS
      <3>3. at \in winning
        BY <2>2, <3>1, <3>2 DEF Backwards
      <3>. QED BY <3>3
    <2>. QED BY <2>1, <2>2 DEF Backwards
  <1>2. ASSUME reached.endings = {} PROVE IsTrap(draft, seen)
    BY <1>2 DEF IsTrap, Forwards, Backwards
  <1>3. ASSUME NEW positions \in SUBSET seen, IsTrap(draft, positions) PROVE seen \ winning # {}
    BY <1>3 DEF IsTrap, Backwards
  <1>. QED BY <1>1, <1>2, <1>3 DEF DeadEnds

LEMMA JudgeIsRight ==
  ASSUME VInv, Judge PROVE VerdictIsExact'
  <1>1. Forwards /\ Backwards /\ pending = {}
        /\ "unreachable_ending" \notin errors /\ "registered_path_dead_end" \notin warnings
    BY DEF VInv, Judge
  <1>2. draft' = draft /\ seen' = seen
    BY DEF Judge, search
  <1>3. DeadEnds <=> \E positions \in SUBSET seen : IsTrap(draft, positions)
    BY <1>1, DeadEndsAreTraps
  <1>4. "unreachable_ending" \in errors' <=> DeadEnds /\ ~Uncertain(draft)
    BY <1>1 DEF Judge
  <1>5. "registered_path_dead_end" \in warnings' <=> DeadEnds /\ Uncertain(draft)
    BY <1>1 DEF Judge
  <1>6. Reported' <=> DeadEnds
    BY <1>4, <1>5 DEF Reported
  <1>7. Start(draft) \in seen /\ \A at \in seen : Moves(draft, at) \subseteq seen
    BY <1>1 DEF Forwards, Backwards
  <1>8. (\E positions \in SUBSET seen' : IsTrap(draft, positions)')
          <=> \E positions \in SUBSET seen : IsTrap(draft, positions)
    BY <1>2 DEF IsTrap
  <1>. QED BY <1>2, <1>3, <1>4, <1>6, <1>7, <1>8 DEF VerdictIsExact

-----------------------------------------------------------------------------
(* The theorem *)

LEMMA VInvStep ==
  ASSUME VInv, [Next]_vars PROVE VInv'
  <1>1. CASE Refuse
    BY <1>1 DEF Refuse, VInv, VerdictIsExact, Searched, TooLarge
  <1>2. CASE Explore
    <2>1. Forwards'
      BY <1>2, ForwardsBegin
    <2>2. /\ phase' = "explore"
          /\ "unreachable_ending" \notin errors' /\ "registered_path_dead_end" \notin warnings'
      BY <1>2 DEF Explore, Inexplicit, Standing
    <2>. QED BY <2>1, <2>2 DEF VInv, VerdictIsExact, Searched
  <1>3. CASE Visit
    <2>1. phase = "explore" /\ phase' = phase /\ errors' = errors /\ warnings' = warnings
      BY <1>3 DEF Visit
    <2>2. Forwards'
      BY <1>3, <2>1, VisitKeeps DEF VInv
    <2>. QED BY <2>1, <2>2 DEF VInv, VerdictIsExact, Searched
  <1>4. CASE GiveUp
    BY <1>4 DEF GiveUp, VInv, VerdictIsExact, Searched
  <1>5. CASE Turn
    <2>1. /\ phase = "explore" /\ phase' = "trace" /\ errors' = errors /\ warnings' = warnings
          /\ UNCHANGED <<draft, search>>
      BY <1>5 DEF Turn
    <2>2. Forwards' /\ Backwards'
      BY <1>5, <2>1, TurnBegins, ForwardsKept DEF VInv
    <2>. QED BY <2>1, <2>2 DEF VInv, VerdictIsExact, Searched
  <1>6. CASE Mark
    <2>1. /\ phase = "trace" /\ phase' = phase /\ errors' = errors /\ warnings' = warnings
          /\ UNCHANGED <<draft, search>>
      BY <1>6 DEF Mark
    <2>2. Forwards' /\ Backwards'
      BY <1>6, <2>1, MarkKeeps, ForwardsKept DEF VInv
    <2>. QED BY <2>1, <2>2 DEF VInv, VerdictIsExact, Searched
  <1>7. CASE Judge
    <2>1. phase' = "done"
      BY <1>7 DEF Judge
    <2>. QED BY <1>7, <2>1, JudgeIsRight DEF VInv
  <1>8. CASE UNCHANGED vars
    <2>1. UNCHANGED <<draft, search>> /\ UNCHANGED <<draft, phase, queue, seen, reverse, canEnd,
            reached, exhausted, pending, winning, errors, warnings>>
      BY <1>8 DEF vars, search
    <2>2. phase \in {"explore", "trace"} => Forwards'
      BY <2>1, ForwardsKept DEF VInv
    <2>3. phase = "trace" => Backwards'
      BY <2>1 DEF VInv, Backwards, IsTrap
    <2>4. VerdictIsExact'
      BY <2>1 DEF VInv, VerdictIsExact, Searched, TooLarge, Reported, IsTrap
    <2>. QED BY <2>1, <2>2, <2>3, <2>4 DEF VInv
  <1>. QED BY <1>1, <1>2, <1>3, <1>4, <1>5, <1>6, <1>7, <1>8 DEF Next

\* A search that finished has found every position, and reports a dead end
\* exactly when there is a trap, for every story and every budget.
THEOREM VerdictCorrect == Spec => []VerdictIsExact
  <1>1. VInv => VerdictIsExact
    BY DEF VInv
  <1>. QED BY <1>1, VInvInit, VInvStep, PTL DEF Spec

-----------------------------------------------------------------------------
(* The budget *)

\* What has been found can be reached, is within the budget, and what is reported
\* is that of the positions visited.
Counted ==
  /\ draft \in Drafts /\ ValidGraph(draft) /\ ~exhausted
  /\ seen \subseteq Explored(draft)
  /\ IsFiniteSet(seen) /\ Cardinality(seen) <= StateLimit
  /\ reached.scenes = {at.scene : at \in seen \ queue}
  /\ reached.endings = UNION {Endings(draft, at) : at \in seen \ queue}

BInv ==
  /\ VInv
  /\ draft \in Drafts
  /\ phase = "check" => ~exhausted /\ reached = [endings |-> {}, scenes |-> {}]
  /\ phase \in {"explore", "trace"} => Counted
  /\ BudgetIsExact

LEMMA BInvInit == Init => BInv
  BY VInvInit DEF Init, BInv, BudgetIsExact

LEMMA CountingBegins ==
  ASSUME BInv, Explore PROVE Counted'
  <1>1. /\ draft' = draft /\ draft \in Drafts /\ ValidGraph(draft) /\ FiniteStory(draft)
        /\ queue' = {Start(draft)} /\ seen' = {Start(draft)} /\ ~exhausted'
        /\ reached' = reached /\ reached = [endings |-> {}, scenes |-> {}]
    BY DraftAssumption DEF BInv, Explore, FiniteStory
  <1>2. Start(draft) \in Explored(draft)
    BY <1>1, ExploredIsLeast
  <1>3. IsFiniteSet({Start(draft)}) /\ Cardinality({Start(draft)}) = 1
    BY FS_Singleton
  <1>4. Cardinality({Start(draft)}) <= StateLimit
    BY <1>3, LimitAssumption
  <1>5. seen' \ queue' = {} /\ reached'.scenes = {} /\ reached'.endings = {}
    BY <1>1
  <1>. QED BY <1>1, <1>2, <1>3, <1>4, <1>5 DEF Counted

LEMMA VisitCounts ==
  ASSUME Forwards, Counted, Visit PROVE Counted'
  <1>1. PICK at \in queue :
          /\ WithinBudget(seen \cup Moves(draft, at))
          /\ queue' = (queue \ {at}) \cup (Moves(draft, at) \ seen)
          /\ seen' = seen \cup Moves(draft, at)
          /\ reached' = [endings |-> reached.endings \cup Endings(draft, at),
                         scenes  |-> reached.scenes \cup {at.scene}]
    BY DEF Visit
  <1>2. /\ draft' = draft /\ draft \in Drafts /\ ValidGraph(draft) /\ FiniteStory(draft) /\ ~exhausted'
        /\ at \in seen /\ queue \subseteq seen /\ seen \subseteq Explored(draft)
    BY <1>1, DraftAssumption DEF Visit, Forwards, Counted, FiniteStory
  <1>3. seen' \subseteq Explored(draft)
    BY <1>1, <1>2, ExploredIsLeast
  <1>4. IsFiniteSet(seen')
    BY <1>2, <1>3, ExploredIsLeast, FS_Subset
  <1>5. Cardinality(seen') <= StateLimit
    BY <1>1 DEF WithinBudget
  <1>6. seen' \ queue' = (seen \ queue) \cup {at}
    BY <1>1, <1>2
  <1>7. reached'.scenes = {b.scene : b \in seen' \ queue'}
    BY <1>1, <1>6 DEF Counted
  <1>8. reached'.endings = UNION {Endings(draft, b) : b \in seen' \ queue'}
    BY <1>1, <1>6 DEF Counted
  <1>. QED BY <1>2, <1>3, <1>4, <1>5, <1>7, <1>8 DEF Counted

\* A search that gives up has filled its budget and left a position out.
LEMMA GivesUpRightly ==
  ASSUME Forwards, Counted, GiveUp PROVE BudgetIsExact'
  <1>1. PICK at \in queue : \E found \in SUBSET (Moves(draft, at) \ seen) :
          /\ Cardinality(seen \cup found) = StateLimit
          /\ ~WithinBudget(seen \cup Moves(draft, at))
          /\ seen' = seen \cup found
    BY DEF GiveUp
  <1>2. /\ draft' = draft /\ ValidGraph(draft) /\ FiniteStory(draft) /\ exhausted'
        /\ at \in seen /\ seen \subseteq Explored(draft)
    BY <1>1, DraftAssumption DEF GiveUp, Forwards, Counted, FiniteStory
  <1>3. seen \cup Moves(draft, at) \subseteq Explored(draft)
    BY <1>2, ExploredIsLeast
  <1>4. IsFiniteSet(Explored(draft)) /\ Cardinality(Explored(draft)) \in Nat
    BY <1>2, ExploredIsLeast
  <1>5. /\ IsFiniteSet(seen \cup Moves(draft, at))
        /\ Cardinality(seen \cup Moves(draft, at)) <= Cardinality(Explored(draft))
        /\ Cardinality(seen \cup Moves(draft, at)) \in Nat
    BY <1>3, <1>4, FS_Subset, FS_CardinalityType
  <1>6. Cardinality(Explored(draft)) > StateLimit
    BY <1>1, <1>4, <1>5, LimitAssumption DEF WithinBudget
  <1>7. seen' \subseteq Explored(draft) /\ Cardinality(seen') = StateLimit
    BY <1>1, <1>3
  <1>. QED BY <1>2, <1>6, <1>7 DEF BudgetIsExact

\* With an empty queue what was seen is closed, so it is all there is.
LEMMA FinishedIsAll ==
  ASSUME Forwards, Counted, queue = {}
  PROVE  /\ seen = Explored(draft)
         /\ ~(Cardinality(Explored(draft)) > StateLimit)
         /\ reached.scenes = {at.scene : at \in Explored(draft)}
         /\ reached.endings = UNION {Endings(draft, at) : at \in Explored(draft)}
  <1>1. ValidGraph(draft) /\ FiniteStory(draft) /\ seen \subseteq Explored(draft) /\ seen \ queue = seen
    BY DraftAssumption DEF Counted, FiniteStory
  <1>2. Start(draft) \in seen /\ Nexts(draft, seen) \subseteq seen
    BY <1>1 DEF Forwards, Nexts
  <1>3. Explored(draft) \subseteq seen
    BY <1>1, <1>2, ExploredIsLeast
  <1>4. seen = Explored(draft)
    BY <1>1, <1>3
  <1>5. Cardinality(seen) \in Nat /\ Cardinality(seen) <= StateLimit
    BY FS_CardinalityType DEF Counted
  <1>6. ~(Cardinality(Explored(draft)) > StateLimit)
    BY <1>4, <1>5, LimitAssumption
  <1>. QED BY <1>1, <1>4, <1>6 DEF Counted

LEMMA BInvStep ==
  ASSUME BInv, [Next]_vars PROVE BInv'
  <1>1. VInv'
    BY VInvStep DEF BInv
  <1>2. draft' \in Drafts /\ draft' = draft
    BY DEF BInv, Next, vars, Refuse, Explore, Visit, GiveUp, Turn, Mark, Judge
  <1>3. CASE Refuse
    <2>1. phase' = "done" /\ ~(ValidGraph(draft) /\ ~TooLarge)
      BY <1>3 DEF Refuse
    <2>2. TooLarge' <=> TooLarge
      BY <1>2 DEF TooLarge
    <2>. QED BY <1>1, <1>2, <2>1, <2>2 DEF BInv, BudgetIsExact
  <1>4. CASE Explore
    <2>1. phase' = "explore"
      BY <1>4 DEF Explore
    <2>. QED BY <1>1, <1>2, <1>4, <2>1, CountingBegins DEF BInv, BudgetIsExact
  <1>5. CASE Visit
    <2>1. phase = "explore" /\ phase' = "explore"
      BY <1>5 DEF Visit
    <2>2. Forwards /\ Counted
      BY <2>1 DEF BInv, VInv
    <2>. QED BY <1>1, <1>2, <1>5, <2>1, <2>2, VisitCounts DEF BInv, BudgetIsExact
  <1>6. CASE GiveUp
    <2>1. phase = "explore" /\ phase' = "done"
      BY <1>6 DEF GiveUp
    <2>2. Forwards /\ Counted
      BY <2>1 DEF BInv, VInv
    <2>. QED BY <1>1, <1>2, <1>6, <2>1, <2>2, GivesUpRightly DEF BInv
  <1>7. CASE Turn \/ Mark
    <2>1. /\ phase \in {"explore", "trace"} /\ phase' = "trace"
          /\ UNCHANGED <<draft, queue, seen, reached, exhausted>>
      BY <1>7 DEF Turn, Mark, search
    <2>2. Counted'
      BY <2>1 DEF BInv, Counted
    <2>. QED BY <1>1, <1>2, <2>1, <2>2 DEF BInv, BudgetIsExact
  <1>8. CASE Judge
    <2>1. phase = "trace" /\ phase' = "done" /\ UNCHANGED <<draft, queue, seen, reached, exhausted>>
      BY <1>8 DEF Judge, search
    <2>2. Forwards /\ Counted /\ queue = {}
      BY <2>1 DEF BInv, VInv, Backwards
    <2>3. ~exhausted
      BY <2>2 DEF Counted
    <2>4. BudgetIsExact'
      BY <2>1, <2>2, <2>3, FinishedIsAll DEF BudgetIsExact
    <2>. QED BY <1>1, <1>2, <2>1, <2>4 DEF BInv
  <1>9. CASE UNCHANGED vars
    <2>1. UNCHANGED <<draft, phase, queue, seen, reached, exhausted>>
      BY <1>9 DEF vars
    <2>2. Counted => Counted'
      BY <2>1 DEF Counted
    <2>3. BudgetIsExact'
      BY <2>1 DEF BInv, BudgetIsExact, TooLarge
    <2>. QED BY <1>1, <1>2, <2>1, <2>2, <2>3 DEF BInv
  <1>. QED BY <1>3, <1>4, <1>5, <1>6, <1>7, <1>8, <1>9 DEF Next

\* The report is partial exactly when there are more positions than the budget,
\* and otherwise names exactly the scenes and endings a player can reach, for
\* every story and every budget.
THEOREM BudgetCorrect == Spec => []BudgetIsExact
  <1>1. BInv => BudgetIsExact
    BY DEF BInv
  <1>. QED BY <1>1, BInvInit, BInvStep, PTL DEF Spec

-----------------------------------------------------------------------------
(* What the verdict means for a play *)

SInv ==
  /\ BInv
  /\ "registered_path_dead_end" \in warnings => Uncertain(draft)

LEMMA SInvStep ==
  ASSUME SInv, [Next]_vars PROVE SInv'
  <1>1. BInv'
    BY BInvStep DEF SInv
  <1>2. draft' = draft
    BY DEF Next, vars, Refuse, Explore, Visit, GiveUp, Turn, Mark, Judge
  <1>3. "registered_path_dead_end" \in warnings' => Uncertain(draft)
    BY DEF SInv, Next, vars, Refuse, Explore, Visit, GiveUp, Turn, Mark, Judge, Standing
  <1>. QED BY <1>1, <1>2, <1>3 DEF SInv

\* A story the validator has searched to the end without an error has no certain
\* dead end anywhere: this is what ScenarioPlay takes of it (Sound).
THEOREM PassedIsSound ==
  Spec => [](Searched /\ "unreachable_ending" \notin errors => IsSound(draft))
  <1>1. Init => SInv
    BY BInvInit DEF Init, SInv
  <1>2. SInv => (Searched /\ "unreachable_ending" \notin errors => IsSound(draft))
    <2>. SUFFICES ASSUME SInv, Searched, "unreachable_ending" \notin errors, ~Uncertain(draft),
                         NEW positions \in SUBSET Explored(draft), IsTrap(draft, positions)
                  PROVE  FALSE
      BY DEF IsSound
    <2>1. /\ Start(draft) \in seen /\ \A at \in seen : Moves(draft, at) \subseteq seen
          /\ Reported <=> \E trap \in SUBSET seen : IsTrap(draft, trap)
      BY DEF SInv, BInv, VInv, VerdictIsExact
    <2>2. ValidGraph(draft) /\ FiniteStory(draft)
      BY DraftAssumption DEF SInv, BInv, Searched, FiniteStory
    <2>3. Explored(draft) \subseteq seen
      <3>1. Nexts(draft, seen) \subseteq seen
        BY <2>1 DEF Nexts
      <3>. QED BY <2>1, <2>2, <3>1, ExploredIsLeast
    <2>4. ~Reported
      BY DEF SInv, Reported
    <2>. QED BY <2>1, <2>3, <2>4
  <1>. QED BY <1>1, <1>2, SInvStep, PTL DEF Spec

===============================================================================
