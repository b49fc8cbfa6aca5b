-------------------------- MODULE ScenarioPlayProofs --------------------------
(***************************************************************************)
(* The properties of ScenarioPlay, for every story, every plan and every   *)
(* outcome of the dice.  While a turn is resolved the rows of the play do  *)
(* not change, so what an update may hold (Proper, Earned) and how the hit *)
(* points and potions of the worker relate to the saved ones (Worn) are    *)
(* stated of the saved rows; the commit then only has to apply them.       *)
(***************************************************************************)
EXTENDS ScenarioPlay, StoryGraphProofs

-----------------------------------------------------------------------------
(* The inductive invariant *)

Bindings(s, here, intent) ==
  IF intent.kind \in {"scenario_action", "skill_check", "attack"}
  THEN Matching(s, here, intent.kind, intent.key)
  ELSE {}

\* An intent of a plan that was checked, for as long as it waits.
Ready(s, r, here, intent) ==
  /\ intent.kind \in {"scenario_action", "skill_check"} => Bindings(s, here, intent) # {}
  /\ \A action \in Bindings(s, here, intent) : IsAvailable(action, r.flags)
  /\ intent.kind = "open_action" => IsOpen(s)

\* Where an update takes the player, as the validator sees it.
Reaches(r, here, u) ==
  Position(IF u.to = NoRef THEN here ELSE u.to, r.flags \cup Listed(u.adds))

\* An update that may be made of a run: all that the commit asks of it, but for the
\* two exceptions, and all that the invariants of the run rest on.
Proper(s, r, here, u) ==
  /\ u \in Updates(s)
  /\ u.to = NoRef \/ u.ending = NoRef
  /\ Listed(u.adds) \cap r.flags = {}
  /\ r.alert + u.alert \in 0..5
  /\ s.ruleset # "mvp_v2" => u.elapsed = 0 /\ u.alert = 0 /\ u.facts = {}
  /\ s.ruleset = "mvp_v2" => u.elapsed = 1 \/ u.adds # <<>> \/ u.ending # NoRef
  /\ IsOpen(s) => u.elapsed = 1
  /\ \A f \in u.facts : /\ \A known \in r.facts : known.ref # f.ref
                        /\ \A g \in u.facts : f.ref = g.ref => f = g
  /\ \A item \in s.protected : item.flag \in Listed(u.adds) =>
        \/ here = item.scene
        \/ s.combat[here] # NoRef /\ s.combat[here].started = item.flag
  /\ ~Uncertain(s) =>
        /\ u.ending = NoRef => Reaches(r, here, u) \in Explored(s)
        /\ u.to # NoRef =>
             \E action \in ActionsAt(s, here) : \E effect \in Effects(action) : effect.next = u.to

DefeatsOf(s) == {s.combat[scene].defeat : scene \in {c \in s.scenes : s.combat[c] # NoRef}}

\* The ending of an update is earned with its flags, or by a hero who fell.
Earned(s, r, u, fallen) ==
  s.schema = 2 /\ u.ending # NoRef =>
    \/ s.required[u.ending] \subseteq r.flags \cup Listed(u.adds)
    \/ fallen /\ u.ending \in DefeatsOf(s)

\* Hit points and potions after some actions, against those before: others only
\* lose hit points, the hero gains some only for a potion, so that what changed
\* stays changed.
Worn(points, left, points2, left2, changed) ==
  /\ points2 \in Points /\ left2 \in Nat /\ left2 <= left
  /\ \A foe \in Foes : points2[foe] <= points[foe]
  /\ points2[Hero] \in points[Hero]..MaxHp(Hero)
  /\ points2[Hero] # points[Hero] => left2 < left
  /\ changed <=> left2 < left \/ \E foe \in Foes : points2[foe] # points[foe]

\* While the worker resolves the plan.
Resolving ==
  work.pc = "resolving" =>
    /\ run.status = "active"
    /\ \A i \in 1..Len(work.plan) : Ready(story, run, Here, work.plan[i])
    /\ Worn(hp, potions, work.hp, work.potions, work.changed)
    /\ work.changed => work.applied
    /\ work.update # NoRef =>
         Proper(story, run, Here, work.update) /\ Earned(story, run, work.update, FALSE)

\* The bundle that is asked to be committed.
Bundled ==
  work.pc = "bundled" =>
    /\ run.status = "active"
    /\ work.hp \in Points /\ \A who \in Foes \cup {Hero} : work.hp[who] <= MaxHp(who)
    /\ work.potions \in Nat
    /\ work.changed <=> NetChange
    /\ work.hp[Hero] > 0 \/ (work.update # NoRef /\ work.update.ending # NoRef)
    /\ IsOpen(story) /\ work.update = NoRef => work.hp = hp /\ work.potions = potions
    /\ work.update # NoRef =>
         Proper(story, run, Here, work.update) /\ Earned(story, run, work.update, work.hp[Hero] = 0)

\* A scene once left lies behind the player, whatever order the actions follow.
IsOrder(s, rank) ==
  \A action \in s.actions : \A effect \in Effects(action) :
    effect.next # NoRef => rank[action.scene] < rank[effect.next]

Behind ==
  run.status = "active" /\ ~Uncertain(story) =>
    \A rank \in [story.scenes -> 1..Cardinality(story.scenes)] :
      IsOrder(story, rank) =>
        \A scene \in story.scenes : scenes[scene] = "closed" => rank[scene] < rank[Here]

IInv == RunIsWhole /\ PlayIsExplored /\ Behind /\ Resolving /\ Bundled

-----------------------------------------------------------------------------
(* What is known of a story that may be played *)

LEMMA StoryFacts ==
  ASSUME NEW s \in Stories
  PROVE  /\ FiniteStory(s) /\ ValidGraph(s) /\ InitializationIsValid(s)
         /\ NoRef \notin s.scenes /\ NoRef \notin s.endings /\ NoRef \notin Updates(s)
         /\ s.bounded \/ s.protected = {}
         /\ s.potions \in Nat
  BY DefinitionAssumption, AcceptedAssumption DEF ValidGraph, FiniteStory

LEMMA EffectFacts ==
  ASSUME NEW s \in Stories, NEW action \in s.actions, NEW effect \in Effects(action), NEW flags
  PROVE  /\ effect.next \in s.scenes \cup {NoRef}
         /\ effect.adds \in Seq(s.flags)
         /\ EndingOf(effect, flags) \in s.endings \cup {NoRef}
         /\ effect.next = NoRef \/ EndingOf(effect, flags) = NoRef
  <1>1. EffectIsValid(s, effect)
    BY StoryFacts DEF ValidGraph, ActionIsValid
  <1>2. effect.adds \in Seq(s.flags) /\ effect.overrides \in Seq([requires : SUBSET s.flags, ending : s.endings])
    BY DefinitionAssumption
  <1>3. Len(effect.overrides) \in Nat
    BY <1>2
  <1>. QED BY <1>1, <1>2, <1>3, EndingOfIsRight DEF EffectIsValid

\* the enemy of a fight is one of the others, its flag and its ending are the story's
LEMMA CombatFacts ==
  ASSUME NEW s \in Stories, NEW scene \in s.scenes, s.combat[scene] # NoRef
  PROVE  /\ s.combat[scene].enemy \in Foes
         /\ s.combat[scene].started \in s.flags
         /\ s.combat[scene].defeat \in s.endings
         /\ s.combat[scene].defeat \in DefeatsOf(s)
         /\ s.combat[scene].sides \in Nat /\ s.combat[scene].bonus \in Nat
         /\ Uncertain(s)
  <1>. DEFINE combat == s.combat[scene]
  <1>1. /\ Matching(s, scene, "attack", combat.enemy) # {}
        /\ combat.started \in s.flags /\ combat.defeat \in s.endings
    BY StoryFacts DEF ValidGraph, CombatIsValid
  <1>2. PICK action \in s.actions : action.scene = scene /\ action.kind = "attack" /\ action.key = combat.enemy
    BY <1>1 DEF Matching, ActionsAt
  <1>3. combat.enemy \in s.foes[scene]
    BY <1>2, StoryFacts DEF InitializationIsValid
  <1>4. s.foes[scene] \subseteq Foes /\ combat.sides \in Nat /\ combat.bonus \in Nat
    BY DefinitionAssumption
  <1>5. combat.defeat \in DefeatsOf(s)
    BY DEF DefeatsOf
  <1>6. Uncertain(s)
    BY DEF Uncertain, Fights
  <1>. QED BY <1>1, <1>3, <1>4, <1>5, <1>6

\* the player is in one scene
LEMMA PlayerIsHere ==
  ASSUME TypeOK, OneScene, run.status = "active"
  PROVE  /\ Here \in story.scenes /\ scenes[Here] = "active" /\ ActiveScenes = {Here}
         /\ run.ending = NoRef /\ hp[Hero] > 0
  <1>1. IsFiniteSet(ActiveScenes)
    BY StoryFacts, FS_Subset DEF TypeOK, ActiveScenes, FiniteStory
  <1>2. Cardinality(ActiveScenes) = 1 /\ run.ending = NoRef /\ hp[Hero] > 0
    BY DEF OneScene
  <1>3. PICK scene : ActiveScenes = {scene}
    BY <1>1, <1>2, FS_Singleton
  <1>4. \E here \in story.scenes : scenes[here] = "active"
    BY <1>3 DEF ActiveScenes
  <1>5. Here \in story.scenes /\ scenes[Here] = "active"
    BY <1>4 DEF Here
  <1>6. Here \in ActiveScenes
    BY <1>5 DEF ActiveScenes
  <1>. QED BY <1>2, <1>3, <1>5, <1>6

LEMMA RunFacts ==
  ASSUME TypeOK
  PROVE  /\ story \in Stories
         /\ run.status \in {"active", "completed"} /\ run.ending \in story.endings \cup {NoRef}
         /\ run.flags \subseteq story.flags /\ run.alert \in 0..5 /\ run.elapsed \in Nat
         /\ run.facts \subseteq [ref : FactRefs, text : Texts, scene : story.scenes]
  BY DEF TypeOK, Run

-----------------------------------------------------------------------------
(* What the progressor proposes is proper *)

\* The flags that are not held yet: with those held they are those of the effect.
LEMMA NewFlagsFacts ==
  ASSUME TypeOK, NEW effect, effect.adds \in Seq(story.flags)
  PROVE  /\ NewFlags(effect) \in Seq(story.flags)
         /\ Listed(NewFlags(effect)) = Listed(effect.adds) \ run.flags
         /\ run.flags \cup Listed(NewFlags(effect)) = run.flags \cup Listed(effect.adds)
         /\ ~NamesTwice(effect.adds) => ~NamesTwice(NewFlags(effect))
  BY WithoutIsRight DEF NewFlags

\* The update of a registered effect that fits is proper and earned.
LEMMA RegisteredIsProper ==
  ASSUME TypeOK, OneScene, PlayIsExplored, run.status = "active",
         NEW action \in ActionsAt(story, Here), NEW effect \in Effects(action),
         IsAvailable(action, run.flags), Fits(effect)
  PROVE  /\ Proper(story, run, Here, ProgressFor(effect))
         /\ Earned(story, run, ProgressFor(effect), FALSE)
  <1>. DEFINE u == ProgressFor(effect)
              ending == EndingOf(effect, run.flags)
  <1>1. /\ Here \in story.scenes /\ story \in Stories
        /\ action \in story.actions /\ action.scene = Here
    BY PlayerIsHere, RunFacts DEF ActionsAt
  <1>2. /\ effect.next \in story.scenes \cup {NoRef}
        /\ effect.adds \in Seq(story.flags)
        /\ ending \in story.endings \cup {NoRef}
        /\ effect.next = NoRef \/ ending = NoRef
    BY <1>1, EffectFacts
  <1>3. /\ u.to = effect.next /\ u.adds = NewFlags(effect) /\ u.ending = ending
        /\ u.elapsed = (IF story.ruleset = "mvp_v2" THEN 1 ELSE 0) /\ u.alert = 0 /\ u.facts = {}
    BY DEF ProgressFor
  <1>4. /\ u.adds \in Seq(story.flags) /\ Listed(u.adds) \cap run.flags = {}
        /\ Listed(u.adds) \subseteq Listed(effect.adds) \ run.flags
        /\ run.flags \cup Listed(u.adds) = run.flags \cup Listed(effect.adds)
    BY <1>2, <1>3, NewFlagsFacts
  <1>5. u \in Updates(story)
    BY <1>2, <1>3, <1>4 DEF Updates, ProgressFor
  <1>6. ~(story.bounded /\ Misplaced(story, Here, run.flags, Listed(effect.adds)))
        /\ (story.schema = 2 /\ ending # NoRef =>
              story.required[ending] \subseteq run.flags \cup Listed(effect.adds))
    BY DEF Fits
  <1>7. ASSUME NEW item \in story.protected, item.flag \in Listed(u.adds) PROVE Here = item.scene
    <2>1. story.bounded
      BY <1>1, StoryFacts
    <2>. QED BY <1>4, <1>6, <1>7, <2>1 DEF Misplaced
  <1>8. ASSUME ~Uncertain(story), ending = NoRef PROVE Reaches(run, Here, u) \in Explored(story)
    <2>. DEFINE at == Position(Here, run.flags)
    <2>1. at \in Explored(story) /\ at.scene = Here /\ at.flags = run.flags
      BY <1>1, <1>8 DEF PlayIsExplored, Found, Position
    <2>2. ~story.bounded /\ story.combat[Here] = NoRef
      BY <1>1, <1>8 DEF Uncertain, Fights
    <2>3. <<action, effect>> \in Offered(story, at)
      BY <2>1, <2>2, MakesOffer DEF PassedOver
    <2>4. Target(story, at, <<action, effect>>) \in Moves(story, at)
      BY <1>8, <2>1, <2>3 DEF Moves
    <2>5. Target(story, at, <<action, effect>>) = Reaches(run, Here, u)
      BY <1>3, <1>4, <2>1, <2>2 DEF Target, Resulting, Reaches
    <2>. QED BY <1>1, <2>1, <2>4, <2>5, StoryFacts, ExploredIsLeast
  <1>9. run.alert \in 0..5 /\ run.alert + u.alert \in 0..5
    BY <1>3, RunFacts
  <1>10. IsOpen(story) => u.elapsed = 1
    BY <1>3 DEF IsOpen
  <1>11. Proper(story, run, Here, u)
    <2>. HIDE DEF u, ending
    <2>. QED BY <1>1, <1>2, <1>3, <1>4, <1>5, <1>7, <1>8, <1>9, <1>10 DEF Proper
  <1>12. Earned(story, run, u, FALSE)
    <2>. HIDE DEF u, ending
    <2>. QED BY <1>3, <1>4, <1>6 DEF Earned
  <1>. QED BY <1>11, <1>12

LEMMA SaturatedFacts ==
  ASSUME TypeOK, NEW delta \in Int
  PROVE  Saturated(delta) \in -5..5 /\ run.alert + Saturated(delta) \in 0..5
  <1>1. run.alert \in 0..5
    BY RunFacts
  <1>. QED BY <1>1 DEF Saturated

\* The same for the effect of a free action.
LEMMA OpenIsProper ==
  ASSUME TypeOK, OneScene, run.status = "active", IsOpen(story),
         NEW effect \in OpenEffects, OpenFits(effect)
  PROVE  /\ Proper(story, run, Here, ProgressOpen(effect))
         /\ Earned(story, run, ProgressOpen(effect), FALSE)
  <1>. DEFINE u == ProgressOpen(effect)
  <1>1. /\ Here \in story.scenes /\ story \in Stories /\ ValidGraph(story)
        /\ story.bounded /\ story.ruleset = "mvp_v2"
    BY PlayerIsHere, RunFacts, StoryFacts DEF IsOpen
  <1>2. story.openFlags[Here] \subseteq story.flags /\ story.openTo[Here] \subseteq story.scenes
    BY <1>1 DEF ValidGraph, WorldIsValid
  <1>3. /\ effect.next = NoRef \/ effect.ending = NoRef
        /\ effect.adds \in Seq(Listed(effect.adds))
        /\ effect.alert \in Int
        /\ effect.facts \subseteq [ref : FactRefs, text : Texts]
    BY ProposalAssumption
  <1>4. /\ Listed(effect.adds) \subseteq story.flags
        /\ ~Misplaced(story, Here, run.flags, Listed(effect.adds))
        /\ effect.ending # NoRef =>
             /\ effect.ending \in story.endings
             /\ story.required[effect.ending] \subseteq run.flags \cup Listed(effect.adds)
        /\ effect.next # NoRef => effect.next \in story.scenes
        /\ \A fact, other \in effect.facts : other.ref = fact.ref => other = fact
    BY <1>2 DEF OpenFits
  <1>5. effect.adds \in Seq(story.flags)
    BY <1>3, <1>4
  <1>6. /\ u.to = (IF effect.next = Here THEN NoRef ELSE effect.next)
        /\ u.adds = NewFlags(effect) /\ u.ending = effect.ending
        /\ u.elapsed = 1 /\ u.alert = Saturated(effect.alert)
        /\ u.facts = {[ref |-> fact.ref, text |-> fact.text, scene |-> Here] :
                        fact \in {f \in effect.facts : \A known \in run.facts : known.ref # f.ref}}
    BY DEF ProgressOpen
  <1>7. /\ u.adds \in Seq(story.flags) /\ Listed(u.adds) \cap run.flags = {}
        /\ Listed(u.adds) \subseteq Listed(effect.adds) \ run.flags
        /\ run.flags \cup Listed(u.adds) = run.flags \cup Listed(effect.adds)
    BY <1>5, <1>6, NewFlagsFacts
  <1>8. u.alert \in -5..5 /\ run.alert + u.alert \in 0..5
    BY <1>3, <1>6, SaturatedFacts
  <1>9. u.facts \subseteq [ref : FactRefs, text : Texts, scene : story.scenes]
    BY <1>1, <1>3, <1>6
  <1>10. u \in Updates(story)
    <2>1. u.to \in story.scenes \cup {NoRef} /\ u.ending \in story.endings \cup {NoRef}
      BY <1>4, <1>6
    <2>. QED BY <1>6, <1>7, <1>8, <1>9, <2>1 DEF Updates, ProgressOpen
  <1>11. ASSUME NEW f \in u.facts
         PROVE  /\ \A known \in run.facts : known.ref # f.ref
                /\ \A g \in u.facts : f.ref = g.ref => f = g
    <2>1. PICK fact \in effect.facts :
            /\ f = [ref |-> fact.ref, text |-> fact.text, scene |-> Here]
            /\ \A known \in run.facts : known.ref # fact.ref
      BY <1>6, <1>11
    <2>2. ASSUME NEW g \in u.facts, f.ref = g.ref PROVE f = g
      <3>1. PICK other \in effect.facts : g = [ref |-> other.ref, text |-> other.text, scene |-> Here]
        BY <1>6, <2>2
      <3>2. fact = other
        BY <1>4, <2>1, <2>2, <3>1
      <3>. QED BY <2>1, <3>1, <3>2
    <2>. QED BY <2>1, <2>2
  <1>12. ASSUME NEW item \in story.protected, item.flag \in Listed(u.adds) PROVE Here = item.scene
    BY <1>4, <1>7, <1>12 DEF Misplaced
  <1>13. Uncertain(story)
    BY <1>1 DEF Uncertain
  <1>14. u.to = NoRef \/ u.ending = NoRef
    BY <1>3, <1>6
  <1>15. Proper(story, run, Here, u)
    <2>. HIDE DEF u
    <2>. QED BY <1>1, <1>6, <1>7, <1>8, <1>10, <1>11, <1>12, <1>13, <1>14 DEF Proper
  <1>16. Earned(story, run, u, FALSE)
    <2>. HIDE DEF u
    <2>. QED BY <1>4, <1>6, <1>7 DEF Earned
  <1>. QED BY <1>15, <1>16

-----------------------------------------------------------------------------
(* The reaction keeps it proper *)

LEMMA NoUpdateFacts ==
  ASSUME TypeOK
  PROVE  /\ NoUpdate \in Updates(story)
         /\ [NoUpdate EXCEPT !.elapsed = 1] \in Updates(story)
         /\ Listed(NoUpdate.adds) = {}
  <1>1. /\ NoRef \in story.scenes \cup {NoRef} /\ NoRef \in story.endings \cup {NoRef}
        /\ <<>> \in Seq(story.flags) /\ 0 \in 0..1 /\ 1 \in 0..1 /\ 0 \in -5..5
        /\ {} \in SUBSET [ref : FactRefs, text : Texts, scene : story.scenes]
    OBVIOUS
  <1>2. NoUpdate \in Updates(story)
    BY <1>1 DEF NoUpdate, Updates
  <1>3. [NoUpdate EXCEPT !.elapsed = 1] \in Updates(story)
    BY <1>1, <1>2 DEF Updates
  <1>4. NoUpdate.adds = <<>>
    BY DEF NoUpdate
  <1>. QED BY <1>2, <1>3, <1>4, ListedOfEmpty

\* Time passes in an open story, also when nothing else happens.
LEMMA PassedIsProper ==
  ASSUME TypeOK, OneScene, Resolving, work.pc = "resolving"
  PROVE  /\ Passed # NoRef =>
              Proper(story, run, Here, Passed) /\ Earned(story, run, Passed, FALSE)
         /\ IsOpen(story) /\ work.applied => Passed # NoRef
  <1>1. CASE work.update = NoRef /\ IsOpen(story) /\ work.applied
    <2>1. Passed = [NoUpdate EXCEPT !.elapsed = 1]
      BY <1>1 DEF Passed
    <2>2. /\ Passed \in Updates(story) /\ Passed.to = NoRef /\ Passed.ending = NoRef
          /\ Passed.adds = <<>> /\ Passed.elapsed = 1 /\ Passed.alert = 0 /\ Passed.facts = {}
      BY <2>1, NoUpdateFacts DEF NoUpdate
    <2>3. Listed(Passed.adds) = {}
      BY <2>2, ListedOfEmpty
    <2>4. run.alert \in 0..5 /\ run.alert + Passed.alert \in 0..5
      BY <2>2, RunFacts
    <2>5. Uncertain(story) /\ story.ruleset = "mvp_v2" /\ NoRef \notin Updates(story)
      BY <1>1, RunFacts, StoryFacts DEF IsOpen, Uncertain
    <2>. QED BY <2>2, <2>3, <2>4, <2>5 DEF Proper, Earned
  <1>2. CASE ~(work.update = NoRef /\ IsOpen(story) /\ work.applied)
    <2>1. Passed = work.update
      BY <1>2 DEF Passed
    <2>. QED BY <1>2, <2>1 DEF Resolving
  <1>. QED BY <1>1, <1>2

\* The blow back adds the flag of the fight, or the defeat, to what the action did.
LEMMA ReactionIsProper ==
  ASSUME TypeOK, OneScene, Resolving, work.pc = "resolving",
         Provoked(story.combat[Here]), NEW points \in Nat
  PROVE  LET u == AfterReaction(story.combat[Here], points)
         IN  /\ u # NoRef => Proper(story, run, Here, u) /\ Earned(story, run, u, points = 0)
             /\ points = 0 => u # NoRef /\ u.ending # NoRef
             /\ IsOpen(story) => u # NoRef
  <1>. DEFINE combat == story.combat[Here]
              before == IF Passed = NoRef THEN NoUpdate ELSE Passed
              adds   == IF combat.started \in run.flags \cup Listed(before.adds)
                        THEN before.adds
                        ELSE Append(before.adds, combat.started)
              u      == AfterReaction(combat, points)
  <1>1. /\ run.status = "active" /\ Here \in story.scenes /\ story \in Stories
        /\ combat # NoRef /\ work.applied /\ Stays(Passed)
        /\ NoRef \notin story.endings /\ NoRef \notin Updates(story)
    BY PlayerIsHere, RunFacts, StoryFacts DEF Resolving, Provoked
  <1>2. /\ combat.started \in story.flags /\ combat.defeat \in story.endings
        /\ combat.defeat \in DefeatsOf(story) /\ Uncertain(story)
    BY <1>1, CombatFacts
  <1>3. /\ Passed # NoRef => Proper(story, run, Here, Passed) /\ Earned(story, run, Passed, FALSE)
        /\ IsOpen(story) => Passed # NoRef
    BY <1>1, PassedIsProper
  <1>4. CASE adds = <<>> /\ points > 0
    <2>1. u = Passed
      BY <1>4 DEF AfterReaction
    <2>2. u # NoRef => Proper(story, run, Here, u) /\ Earned(story, run, u, points = 0)
      BY <1>3, <2>1 DEF Earned
    <2>3. points # 0
      BY <1>4
    <2>. HIDE DEF u, adds, before
    <2>. QED BY <1>3, <2>1, <2>2, <2>3 DEF u
  <1>5. CASE ~(adds = <<>> /\ points > 0)
    <2>1. u = [before EXCEPT !.adds = adds, !.ending = IF points = 0 THEN combat.defeat ELSE NoRef]
      BY <1>5 DEF AfterReaction
    <2>2. /\ before \in Updates(story) /\ before.to = NoRef /\ before.ending = NoRef
          /\ Listed(before.adds) \cap run.flags = {}
          /\ run.alert + before.alert \in 0..5
          /\ story.ruleset # "mvp_v2" => before.elapsed = 0 /\ before.alert = 0 /\ before.facts = {}
          /\ IsOpen(story) => before.elapsed = 1
          /\ \A f \in before.facts : /\ \A known \in run.facts : known.ref # f.ref
                                     /\ \A g \in before.facts : f.ref = g.ref => f = g
          /\ \A item \in story.protected : item.flag \in Listed(before.adds) =>
                Here = item.scene \/ combat.started = item.flag
      <3>1. CASE Passed = NoRef
        <4>1. before = NoUpdate
          BY <3>1
        <4>2. /\ NoUpdate.to = NoRef /\ NoUpdate.ending = NoRef /\ NoUpdate.alert = 0
              /\ NoUpdate.elapsed = 0 /\ NoUpdate.facts = {} /\ Listed(NoUpdate.adds) = {}
              /\ NoUpdate \in Updates(story)
          BY NoUpdateFacts DEF NoUpdate
        <4>3. run.alert \in 0..5 /\ run.alert + 0 = run.alert
          BY RunFacts
        <4>. HIDE DEF before, adds, u
        <4>. QED BY <1>3, <3>1, <4>1, <4>2, <4>3
      <3>2. CASE Passed # NoRef
        <4>1. before = Passed /\ Passed.to = NoRef /\ Passed.ending = NoRef
          BY <1>1, <3>2 DEF Stays
        <4>. HIDE DEF before, adds, u
        <4>. QED BY <1>3, <3>2, <4>1 DEF Proper
      <3>. QED BY <3>1, <3>2
    <2>3. before.adds \in Seq(story.flags)
      <3>. HIDE DEF before
      <3>. QED BY <2>2 DEF Updates
    <2>4. /\ adds \in Seq(story.flags)
          /\ Listed(adds) \cap run.flags = {}
          /\ Listed(adds) \subseteq Listed(before.adds) \cup {combat.started}
      <3>1. CASE combat.started \in run.flags \cup Listed(before.adds)
        <4>1. adds = before.adds
          BY <3>1
        <4>. HIDE DEF before, adds
        <4>. QED BY <2>2, <2>3, <4>1
      <3>2. CASE combat.started \notin run.flags \cup Listed(before.adds)
        <4>1. adds = Append(before.adds, combat.started)
          BY <3>2
        <4>. HIDE DEF before, adds
        <4>2. ASSUME NEW list \in Seq(story.flags), NEW x \in story.flags
              PROVE  Append(list, x) \in Seq(story.flags) /\ Listed(Append(list, x)) = Listed(list) \cup {x}
          BY Appended
        <4>3. combat.started \in story.flags
          BY <1>2
        <4>. HIDE DEF combat
        <4>4. adds \in Seq(story.flags) /\ Listed(adds) = Listed(before.adds) \cup {combat.started}
          BY <2>3, <4>1, <4>2, <4>3
        <4>. QED BY <2>2, <3>2, <4>4
      <3>. QED BY <3>1, <3>2
    <2>. HIDE DEF before, adds, u
    <2>5. /\ u \in Updates(story) /\ u.to = before.to /\ u.adds = adds
          /\ u.ending = (IF points = 0 THEN combat.defeat ELSE NoRef)
          /\ u.elapsed = before.elapsed /\ u.alert = before.alert /\ u.facts = before.facts
      BY <1>2, <2>1, <2>2, <2>4 DEF Updates
    <2>6. u.ending # NoRef \/ u.adds # <<>>
      BY <1>1, <1>2, <1>5, <2>5
    <2>7. Proper(story, run, Here, u)
      BY <1>1, <1>2, <2>2, <2>4, <2>5, <2>6 DEF Proper
    <2>8. Earned(story, run, u, points = 0)
      BY <1>2, <2>5 DEF Earned
    <2>9. u # NoRef /\ (points = 0 => u.ending # NoRef)
      BY <1>1, <1>2, <2>5
    <2>. QED BY <2>7, <2>8, <2>9 DEF u
  <1>. QED BY <1>4, <1>5

-----------------------------------------------------------------------------
(* Hit points and potions *)

LEMMA StruckWithin ==
  ASSUME NEW points \in Nat, NEW attacker, NEW target, NEW dice, dice.sides \in Nat, dice.bonus \in Nat,
         NEW after \in Struck(points, attacker, target, dice)
  PROVE  after \in 0..points
  <1>1. ASSUME NEW value \in Wounded(points, dice) PROVE value \in 0..points
    <2>1. PICK roll \in 1..dice.sides :
            value = IF roll + dice.bonus > points THEN 0 ELSE points - (roll + dice.bonus)
      BY <1>1 DEF Wounded
    <2>. QED BY <2>1
  <1>2. after \in Wounded(points, dice) \/ after = points
    BY DEF Struck
  <1>. QED BY <1>1, <1>2

LEMMA HealedWithin ==
  ASSUME NEW points \in Nat, NEW most \in Nat, points < most, NEW after \in Healed(points, most)
  PROVE  after \in points..most
  <1>1. PICK roll \in 1..6 : after = IF points + roll + 2 > most THEN most ELSE points + roll + 2
    BY DEF Healed
  <1>. QED BY <1>1

\* What is saved of hit points, and the bounds of all.
LEMMA PointsFacts ==
  ASSUME TypeOK
  PROVE  /\ hp \in Points /\ potions \in Nat
         /\ hp[Hero] \in Nat /\ \A foe \in Foes : hp[foe] \in Nat
         /\ \A who \in Foes \cup {Hero} : hp[who] <= MaxHp(who) /\ MaxHp(who) \in Nat
         /\ Hero \notin Foes
  <1>1. hp \in Points /\ \A who \in Foes \cup {Hero} : hp[who] <= MaxHp(who)
    BY DEF TypeOK, Points
  <1>2. \A who \in Foes \cup {Hero} : MaxHp(who) \in Nat
    BY HeroAssumption DEF MaxHp
  <1>. QED BY <1>1, <1>2, HeroAssumption DEF TypeOK, Points

LEMMA WornFacts ==
  ASSUME TypeOK, NEW points, NEW left, NEW changed, Worn(hp, potions, points, left, changed)
  PROVE  /\ points \in Points /\ left \in Nat
         /\ points[Hero] \in Nat /\ points[Hero] >= hp[Hero]
         /\ \A foe \in Foes : points[foe] \in Nat
         /\ \A who \in Foes \cup {Hero} : points[who] <= MaxHp(who)
         /\ changed <=> points # hp \/ left # potions
  <1>1. points \in Points /\ left \in Nat /\ points[Hero] \in hp[Hero]..MaxHp(Hero)
        /\ \A foe \in Foes : points[foe] <= hp[foe]
    BY DEF Worn
  <1>2. /\ \A foe \in Foes : points[foe] \in Nat /\ hp[foe] \in Nat /\ hp[foe] <= MaxHp(foe) /\ MaxHp(foe) \in Nat
        /\ hp[Hero] \in Nat /\ MaxHp(Hero) \in Nat /\ potions \in Nat
    BY <1>1, PointsFacts DEF Points
  <1>3. points = hp <=> (\A foe \in Foes : points[foe] = hp[foe]) /\ points[Hero] = hp[Hero]
    BY <1>1, PointsFacts DEF Points
  <1>4. left <= potions /\ (points[Hero] # hp[Hero] => left < potions)
        /\ (changed <=> left < potions \/ \E foe \in Foes : points[foe] # hp[foe])
    BY DEF Worn
  <1>5. left # potions <=> left < potions
    BY <1>1, <1>2, <1>4
  <1>6. changed <=> points # hp \/ left # potions
    BY <1>3, <1>4, <1>5
  <1>. QED BY <1>1, <1>2, <1>6

\* A blow of the hero takes hit points of another, or none.
LEMMA WornByAttack ==
  ASSUME TypeOK, NEW points, NEW left, NEW changed \in BOOLEAN, Worn(hp, potions, points, left, changed),
         NEW foe \in Foes, NEW after \in 0..points[foe]
  PROVE  LET struck == [points EXCEPT ![foe] = after]
         IN  Worn(hp, potions, struck, left, changed \/ struck # points \/ left # left)
  <1>. DEFINE struck == [points EXCEPT ![foe] = after]
  <1>1. /\ points \in [Foes \cup {Hero} -> Nat] /\ left \in Nat /\ left <= potions
        /\ \A other \in Foes : points[other] <= hp[other] /\ points[other] \in Nat /\ hp[other] \in Nat
        /\ points[Hero] \in hp[Hero]..MaxHp(Hero)
        /\ points[Hero] # hp[Hero] => left < potions
        /\ changed <=> left < potions \/ \E other \in Foes : points[other] # hp[other]
        /\ Hero \notin Foes
    BY PointsFacts DEF Worn, Points
  <1>2. after \in Nat /\ after <= points[foe] /\ after <= hp[foe]
    BY <1>1
  <1>3. /\ struck \in [Foes \cup {Hero} -> Nat] /\ struck[foe] = after /\ struck[Hero] = points[Hero]
        /\ \A other \in Foes \ {foe} : struck[other] = points[other]
        /\ struck # points <=> after # points[foe]
    BY <1>1, <1>2
  <1>. HIDE DEF struck
  <1>4. \A other \in Foes : struck[other] <= hp[other]
    BY <1>1, <1>2, <1>3
  <1>5. (changed \/ struck # points) <=> left < potions \/ \E other \in Foes : struck[other] # hp[other]
    <2>1. CASE after = points[foe]
      <3>1. \A other \in Foes : struck[other] = points[other]
        BY <1>3, <2>1
      <3>. QED BY <1>1, <1>3, <2>1, <3>1
    <2>2. CASE after # points[foe]
      <3>1. struck[foe] # hp[foe]
        BY <1>1, <1>2, <1>3, <2>2
      <3>. QED BY <1>3, <2>2, <3>1
    <2>. QED BY <2>1, <2>2
  <1>6. Worn(hp, potions, struck, left, changed \/ struck # points \/ left # left)
    BY <1>1, <1>3, <1>4, <1>5 DEF Worn, Points
  <1>. QED BY <1>6 DEF struck

\* A potion gives the hero hit points.
LEMMA WornByPotion ==
  ASSUME TypeOK, NEW points, NEW left, NEW changed \in BOOLEAN, Worn(hp, potions, points, left, changed),
         left > 0, NEW after \in points[Hero]..MaxHp(Hero)
  PROVE  LET healed == [points EXCEPT ![Hero] = after]
         IN  Worn(hp, potions, healed, left - 1, changed \/ healed # points \/ left - 1 # left)
  <1>. DEFINE healed == [points EXCEPT ![Hero] = after]
  <1>1. /\ points \in [Foes \cup {Hero} -> Nat] /\ left \in Nat /\ left <= potions
        /\ potions \in Nat /\ hp[Hero] \in Nat /\ MaxHp(Hero) \in Nat
        /\ \A other \in Foes : points[other] <= hp[other]
        /\ points[Hero] \in hp[Hero]..MaxHp(Hero)
        /\ Hero \notin Foes
    BY PointsFacts DEF Worn, Points
  <1>2. after \in Nat /\ after \in hp[Hero]..MaxHp(Hero)
    BY <1>1
  <1>3. /\ healed \in [Foes \cup {Hero} -> Nat] /\ healed[Hero] = after
        /\ \A other \in Foes : healed[other] = points[other]
    BY <1>1, <1>2
  <1>. HIDE DEF healed
  <1>4. left - 1 \in Nat /\ left - 1 < potions /\ left - 1 <= potions /\ left - 1 # left
    BY <1>1
  <1>5. Worn(hp, potions, healed, left - 1, changed \/ healed # points \/ left - 1 # left)
    BY <1>1, <1>2, <1>3, <1>4 DEF Worn, Points
  <1>. QED BY <1>5 DEF healed

\* What the enemy strikes is the hero alone: the net change is still known.
LEMMA NetAfterReaction ==
  ASSUME TypeOK, NEW points, NEW left, NEW changed, Worn(hp, potions, points, left, changed),
         NEW after \in 0..points[Hero]
  PROVE  LET struck == [points EXCEPT ![Hero] = after]
         IN  /\ struck \in Points /\ struck[Hero] = after
             /\ \A who \in Foes \cup {Hero} : struck[who] <= MaxHp(who)
             /\ changed \/ after # points[Hero] <=> struck # hp \/ left # potions
  <1>. DEFINE struck == [points EXCEPT ![Hero] = after]
  <1>1. /\ points \in [Foes \cup {Hero} -> Nat] /\ hp \in [Foes \cup {Hero} -> Nat]
        /\ left \in Nat /\ potions \in Nat /\ left <= potions
        /\ \A foe \in Foes : points[foe] <= hp[foe]
        /\ points[Hero] # hp[Hero] => left < potions
        /\ changed <=> left < potions \/ \E foe \in Foes : points[foe] # hp[foe]
        /\ Hero \notin Foes
    BY PointsFacts DEF Worn, Points
  <1>2. /\ \A who \in Foes \cup {Hero} : points[who] <= MaxHp(who) /\ MaxHp(who) \in Nat /\ points[who] \in Nat
    BY WornFacts, PointsFacts
  <1>3. after \in Nat /\ after <= points[Hero]
    BY <1>2
  <1>4. /\ struck \in [Foes \cup {Hero} -> Nat] /\ struck[Hero] = after
        /\ \A foe \in Foes : struck[foe] = points[foe]
    BY <1>1, <1>3
  <1>. HIDE DEF struck
  <1>5. \A who \in Foes \cup {Hero} : struck[who] <= MaxHp(who)
    BY <1>2, <1>3, <1>4
  <1>6. struck = hp <=> after = hp[Hero] /\ \A foe \in Foes : points[foe] = hp[foe]
    BY <1>1, <1>4
  <1>7. left # potions <=> left < potions
    BY <1>1
  <1>8. changed \/ after # points[Hero] <=> struck # hp \/ left # potions
    BY <1>1, <1>6, <1>7
  <1>. QED BY <1>4, <1>5, <1>8 DEF struck, Points

-----------------------------------------------------------------------------
(* The worker *)

LEMMA BoundIsBindings == \A intent : Bound(intent) = Bindings(story, Here, intent)
  BY DEF Bound, Bindings

LEMMA IntentFacts ==
  ASSUME TypeOK, NEW intent \in Intents
  PROVE  /\ intent.kind = "attack" =>
              intent.key \in Foes /\ intent.dice.sides \in Nat /\ intent.dice.bonus \in Nat
         /\ intent.kind = "open_action" =>
              intent.won \in OpenEffects /\ intent.lost \in OpenEffects \cup {NoRef}
  <1>1. \A weapon \in story.weapons \cup {Fists} : weapon.sides \in Nat /\ weapon.bonus \in Nat
    <2>1. \A weapon \in story.weapons : weapon.sides \in Nat /\ weapon.bonus \in Nat
      BY RunFacts, DefinitionAssumption
    <2>2. Fists.sides \in Nat /\ Fists.bonus \in Nat
      BY DEF Fists
    <2>. QED BY <2>1, <2>2
  <1>2. intent.kind = "attack" => intent.key \in Foes /\ intent.dice \in story.weapons \cup {Fists}
    BY DEF Intents, OpenIntents
  <1>3. intent.kind = "open_action" =>
          intent.won \in OpenEffects /\ intent.lost \in OpenEffects \cup {NoRef}
    BY DEF Intents, OpenIntents
  <1>. QED BY <1>1, <1>2, <1>3

\* the work of a worker that resolves
Working ==
  [pc : {"resolving"}, plan : Seq(Intents), hp : Points, potions : Nat,
   update : Updates(story) \cup {NoRef}, applied : BOOLEAN, changed : BOOLEAN,
   attacked : SUBSET Foes]

Asking ==
  [pc : {"bundled"}, hp : Points, potions : Nat,
   update : Updates(story) \cup {NoRef}, changed : BOOLEAN]

LEMMA WorkFacts ==
  ASSUME TypeOK
  PROVE  /\ work.pc = "resolving" => work \in Working
         /\ work.pc = "bundled" => work \in Asking
         /\ work.pc \in {"idle", "resolving", "bundled"}
         /\ WorkState = {Idle} \cup Working \cup Asking
  <1>1. WorkState = {Idle} \cup Working \cup Asking
    BY DEF WorkState, Working, Asking
  <1>2. work \in {Idle} \cup Working \cup Asking
    BY <1>1 DEF TypeOK
  <1>3. Idle.pc = "idle"
    BY DEF Idle
  <1>4. (work \in Working => work.pc = "resolving") /\ (work \in Asking => work.pc = "bundled")
    BY DEF Working, Asking
  <1>. QED BY <1>1, <1>2, <1>3, <1>4

\* Steps of the worker leave the rows alone.
LEMMA RowsKept ==
  ASSUME IInv, UNCHANGED <<story, canonical, version, origin>>,
         work' \in WorkState, Resolving', Bundled'
  PROVE  IInv'
  <1>1. UNCHANGED <<story, run, scenes, hp, potions, version, origin>>
    BY DEF canonical
  <1>2. WorkState' = WorkState /\ Run' = Run /\ Here' = Here /\ ActiveScenes' = ActiveScenes
    <2>1. Intents' = Intents
      BY <1>1 DEF Intents, OpenIntents
    <2>2. WorkState' = WorkState
      BY <1>1, <2>1 DEF WorkState
    <2>. QED BY <1>1, <2>2 DEF Run, Here, ActiveScenes
  <1>3. TypeOK'
    BY <1>1, <1>2 DEF IInv, RunIsWhole, TypeOK
  <1>4. OneScene' /\ EndingIsEarned' /\ ItemsTakenInPlace' /\ FactsAgree'
    BY <1>1, <1>2 DEF IInv, RunIsWhole, OneScene, EndingIsEarned, ItemsTakenInPlace, FactsAgree, Defeats
  <1>5. PlayIsExplored' /\ Behind'
    BY <1>1, <1>2 DEF IInv, PlayIsExplored, Behind
  <1>. QED BY <1>3, <1>4, <1>5 DEF IInv, RunIsWhole

LEMMA DropKeeps ==
  ASSUME IInv, Drop PROVE IInv'
  <1>1. work' = Idle /\ UNCHANGED <<story, canonical, version, origin>>
    BY DEF Drop
  <1>2. work' \in WorkState /\ work'.pc = "idle"
    BY <1>1 DEF WorkState, Idle
  <1>3. Resolving' /\ Bundled'
    BY <1>2 DEF Resolving, Bundled
  <1>. QED BY <1>1, <1>2, <1>3, RowsKept

LEMMA DecideKeeps ==
  ASSUME IInv, Decide PROVE IInv'
  <1>1. TypeOK /\ OneScene /\ run.status = "active" /\ UNCHANGED <<story, canonical, version, origin>>
    BY DEF Decide, IInv, RunIsWhole
  <1>2. UNCHANGED <<story, run, scenes, hp, potions>> /\ Here' = Here
    BY <1>1 DEF canonical, Here
  <1>3. PICK n \in 1..MaxActions : \E plan \in [1..n -> {i \in Intents : IntentIsValid(i)}] :
          /\ Preflight(plan)
          /\ work' = [pc |-> "resolving", plan |-> plan, hp |-> hp, potions |-> potions,
                      update |-> NoRef, applied |-> FALSE, changed |-> FALSE, attacked |-> {}]
    BY DEF Decide
  <1>4. PICK plan \in [1..n -> {i \in Intents : IntentIsValid(i)}] :
          /\ Preflight(plan)
          /\ work' = [pc |-> "resolving", plan |-> plan, hp |-> hp, potions |-> potions,
                      update |-> NoRef, applied |-> FALSE, changed |-> FALSE, attacked |-> {}]
    BY <1>3
  <1>5. plan \in Seq(Intents) /\ Len(plan) = n /\ n \in Nat
    BY BoundAssumption, <1>4
  <1>6. work' \in Working
    BY <1>1, <1>4, <1>5, PointsFacts DEF Working
  <1>7. Worn(hp, potions, hp, potions, FALSE)
    BY <1>1, PointsFacts DEF Worn, Points
  <1>8. ASSUME NEW i \in 1..Len(plan) PROVE Ready(story, run, Here, plan[i])
    <2>1. IntentIsValid(plan[i]) /\ \A action \in Bound(plan[i]) : IsAvailable(action, run.flags)
      BY <1>4, <1>5 DEF Preflight
    <2>2. plan[i].kind \in {"scenario_action", "skill_check"} => Bound(plan[i]) # {}
      BY <2>1 DEF IntentIsValid
    <2>3. plan[i].kind = "open_action" => IsOpen(story)
      BY <2>1 DEF IntentIsValid
    <2>. QED BY <2>1, <2>2, <2>3, BoundIsBindings DEF Ready
  <1>9. Resolving'
    <2>1. /\ work'.pc = "resolving" /\ work'.plan = plan /\ work'.hp = hp /\ work'.potions = potions
          /\ work'.update = NoRef /\ work'.changed = FALSE
      BY <1>4
    <2>. QED BY <1>1, <1>2, <1>7, <1>8, <2>1 DEF Resolving
  <1>10. Bundled'
    BY <1>6 DEF Bundled, Working
  <1>. QED BY <1>1, <1>6, <1>9, <1>10, RowsKept, WorkFacts

\* One result of an action, when what it leaves is in order.
LEMMA ResultKeeps ==
  ASSUME IInv, work.pc = "resolving", work.plan # <<>>, UNCHANGED <<story, canonical, version, origin>>,
         NEW intent \in Intents, NEW points, NEW left, NEW update, Resolved(intent, points, left, update),
         Worn(hp, potions, points, left, work.changed \/ points # work.hp \/ left # work.potions),
         update # NoRef => /\ Proper(story, run, Here, update)
                           /\ Earned(story, run, update, FALSE)
  PROVE  IInv'
  <1>1. TypeOK /\ run.status = "active" /\ UNCHANGED <<story, run, scenes, hp, potions>>
    BY DEF IInv, RunIsWhole, Resolving, canonical
  <1>2. Here' = Here
    BY <1>1 DEF Here
  <1>3. work \in Working
    BY <1>1, WorkFacts
  <1>4. /\ work'.plan = Tail(work.plan) /\ work'.hp = points /\ work'.potions = left
        /\ work'.update = update /\ work'.applied = TRUE /\ work'.pc = "resolving"
        /\ work'.changed = (work.changed \/ points # work.hp \/ left # work.potions)
        /\ work'.attacked = (IF intent.kind = "attack" THEN work.attacked \cup {intent.key} ELSE work.attacked)
    BY <1>3 DEF Resolved, Working
  <1>5. work.plan \in Seq(Intents) /\ Tail(work.plan) \in Seq(Intents)
        /\ \A i \in 1..Len(Tail(work.plan)) :
             i + 1 \in 1..Len(work.plan) /\ Tail(work.plan)[i] = work.plan[i + 1]
    BY <1>3 DEF Working
  <1>6. points \in Points /\ left \in Nat /\ update \in Updates(story) \cup {NoRef}
    BY DEF Worn, Proper
  <1>7. work'.attacked \subseteq Foes
    BY <1>1, <1>3, <1>4, IntentFacts DEF Working
  <1>8. work' \in Working
    <2>1. work.changed \in BOOLEAN
      BY <1>3 DEF Working
    <2>2. work' = [pc |-> "resolving", plan |-> Tail(work.plan), hp |-> points, potions |-> left,
                   update |-> update, applied |-> TRUE, changed |-> work'.changed, attacked |-> work'.attacked]
      BY <1>3, <1>4 DEF Resolved, Working
    <2>3. work'.changed \in BOOLEAN
      BY <1>4, <2>1
    <2>4. ASSUME NEW plan \in Seq(Intents), NEW changed \in BOOLEAN, NEW attacked \in SUBSET Foes
          PROVE  [pc |-> "resolving", plan |-> plan, hp |-> points, potions |-> left,
                  update |-> update, applied |-> TRUE, changed |-> changed, attacked |-> attacked] \in Working
      BY <1>6, <2>4 DEF Working
    <2>. QED BY <1>5, <1>7, <2>2, <2>3, <2>4
  <1>9. Resolving'
    <2>1. \A i \in 1..Len(work'.plan) : Ready(story, run, Here, work'.plan[i])
      BY <1>4, <1>5 DEF IInv, Resolving
    <2>2. Worn(hp, potions, work'.hp, work'.potions, work'.changed)
      BY <1>4
    <2>. QED BY <1>1, <1>2, <1>4, <2>1, <2>2 DEF Resolving
  <1>10. Bundled'
    BY <1>4 DEF Bundled
  <1>. QED BY <1>1, <1>8, <1>9, <1>10, RowsKept, WorkFacts

\* The intent whose turn it is was checked; what it is bound to is an action here.
LEMMA HeadIsReady ==
  ASSUME IInv, work.pc = "resolving", work.plan # <<>>
  PROVE  /\ Head(work.plan) \in Intents
         /\ Ready(story, run, Here, Head(work.plan))
         /\ TypeOK /\ OneScene /\ PlayIsExplored /\ run.status = "active"
         /\ work \in Working
         /\ Worn(hp, potions, work.hp, work.potions, work.changed)
         /\ work.update # NoRef =>
              Proper(story, run, Here, work.update) /\ Earned(story, run, work.update, FALSE)
  <1>1. TypeOK /\ work \in Working
    BY WorkFacts DEF IInv, RunIsWhole
  <1>2. Head(work.plan) = work.plan[1] /\ 1 \in 1..Len(work.plan) /\ Head(work.plan) \in Intents
    BY <1>1 DEF Working
  <1>. QED BY <1>1, <1>2 DEF IInv, RunIsWhole, Resolving

LEMMA BoundIsHere ==
  ASSUME NEW intent, Ready(story, run, Here, intent), Bound(intent) # {}
  PROVE  /\ The(Bound(intent)) \in ActionsAt(story, Here)
         /\ The(Bound(intent)).kind = intent.kind
         /\ IsAvailable(The(Bound(intent)), run.flags)
  <1>1. The(Bound(intent)) \in Bindings(story, Here, intent)
    BY BoundIsBindings DEF The
  <1>. QED BY <1>1 DEF Bindings, Matching, Ready

LEMMA DirectKeeps ==
  ASSUME IInv, work.pc = "resolving", work.plan # <<>>, UNCHANGED <<story, canonical, version, origin>>,
         NEW intent, intent = Head(work.plan), ResolveDirect(intent)
  PROVE  IInv'
  <1>. DEFINE action == The(Bound(intent))
              u == ProgressFor(action.won)
  <1>1. Ready(story, run, Here, intent) /\ intent.kind = "scenario_action" /\ Bound(intent) # {}
    BY HeadIsReady, BoundIsBindings DEF ResolveDirect, Ready
  <1>2. action \in ActionsAt(story, Here) /\ action.won \in Effects(action) /\ IsAvailable(action, run.flags)
    BY <1>1, BoundIsHere DEF Effects
  <1>3. Fits(action.won) /\ Resolved(intent, work.hp, work.potions, u)
    BY DEF ResolveDirect
  <1>4. Proper(story, run, Here, u) /\ Earned(story, run, u, FALSE)
    BY <1>2, <1>3, HeadIsReady, RegisteredIsProper
  <1>5. Worn(hp, potions, work.hp, work.potions,
             work.changed \/ work.hp # work.hp \/ work.potions # work.potions)
    BY HeadIsReady DEF Worn
  <1>. HIDE DEF u
  <1>. QED BY <1>3, <1>4, <1>5, HeadIsReady, ResultKeeps

LEMMA SkillKeeps ==
  ASSUME IInv, work.pc = "resolving", work.plan # <<>>, UNCHANGED <<story, canonical, version, origin>>,
         NEW intent, intent = Head(work.plan), ResolveSkill(intent)
  PROVE  IInv'
  <1>. DEFINE action == The(Bound(intent))
  <1>1. PICK effect \in {action.won, action.lost} :
          Fits(effect) /\ Resolved(intent, work.hp, work.potions, ProgressFor(effect))
    BY DEF ResolveSkill
  <1>2. Ready(story, run, Here, intent) /\ intent.kind = "skill_check" /\ Bound(intent) # {}
    BY HeadIsReady, BoundIsBindings DEF ResolveSkill, Ready
  <1>3. action \in ActionsAt(story, Here) /\ effect \in Effects(action) /\ IsAvailable(action, run.flags)
    BY <1>2, BoundIsHere DEF Effects
  <1>. DEFINE u == ProgressFor(effect)
  <1>4. Proper(story, run, Here, u) /\ Earned(story, run, u, FALSE)
    BY <1>1, <1>3, HeadIsReady, RegisteredIsProper
  <1>5. Worn(hp, potions, work.hp, work.potions,
             work.changed \/ work.hp # work.hp \/ work.potions # work.potions)
    BY HeadIsReady DEF Worn
  <1>6. Resolved(intent, work.hp, work.potions, u)
    BY <1>1
  <1>. HIDE DEF u
  <1>. QED BY <1>4, <1>5, <1>6, HeadIsReady, ResultKeeps

LEMMA AttackKeeps ==
  ASSUME IInv, work.pc = "resolving", work.plan # <<>>, UNCHANGED <<story, canonical, version, origin>>,
         NEW intent, intent = Head(work.plan), ResolveAttack(intent)
  PROVE  IInv'
  <1>. DEFINE action == The(Bound(intent))
  <1>1. /\ intent \in Intents /\ intent.kind = "attack" /\ Ready(story, run, Here, intent)
        /\ TypeOK /\ work \in Working /\ Worn(hp, potions, work.hp, work.potions, work.changed)
    BY HeadIsReady DEF ResolveAttack
  <1>2. intent.key \in Foes /\ intent.dice.sides \in Nat /\ intent.dice.bonus \in Nat
        /\ work.hp[intent.key] \in Nat /\ work.changed \in BOOLEAN
    BY <1>1, IntentFacts, WornFacts DEF Working
  <1>3. PICK after \in Struck(work.hp[intent.key], Hero, intent.key, intent.dice) :
          LET left == [work.hp EXCEPT ![intent.key] = after]
          IN  IF after > 0 \/ Bound(intent) = {}
              THEN Resolved(intent, left, work.potions, work.update)
              ELSE /\ Fits(action.won)
                   /\ Resolved(intent, left, work.potions, ProgressFor(action.won))
    BY DEF ResolveAttack
  <1>4. after \in 0..work.hp[intent.key]
    BY <1>2, StruckWithin
  <1>. DEFINE struck == [work.hp EXCEPT ![intent.key] = after]
  <1>5. Worn(hp, potions, struck, work.potions,
             work.changed \/ struck # work.hp \/ work.potions # work.potions)
    BY <1>1, <1>2, <1>4, WornByAttack
  <1>6. CASE after > 0 \/ Bound(intent) = {}
    <2>1. Resolved(intent, struck, work.potions, work.update)
      BY <1>3, <1>6
    <2>. HIDE DEF struck
    <2>. QED BY <1>1, <1>5, <2>1, HeadIsReady, ResultKeeps
  <1>7. CASE ~(after > 0 \/ Bound(intent) = {})
    <2>. DEFINE u == ProgressFor(action.won)
    <2>1. Fits(action.won) /\ Resolved(intent, struck, work.potions, u)
      BY <1>3, <1>7
    <2>2. action \in ActionsAt(story, Here) /\ action.won \in Effects(action) /\ IsAvailable(action, run.flags)
      BY <1>1, <1>7, BoundIsHere DEF Effects
    <2>3. Proper(story, run, Here, u) /\ Earned(story, run, u, FALSE)
      BY <2>1, <2>2, HeadIsReady, RegisteredIsProper
    <2>. HIDE DEF struck, u
    <2>. QED BY <1>1, <1>5, <2>1, <2>3, ResultKeeps
  <1>. QED BY <1>6, <1>7

LEMMA PotionKeeps ==
  ASSUME IInv, work.pc = "resolving", work.plan # <<>>, UNCHANGED <<story, canonical, version, origin>>,
         NEW intent, intent = Head(work.plan), ResolvePotion(intent)
  PROVE  IInv'
  <1>1. /\ intent \in Intents /\ TypeOK /\ work \in Working
        /\ Worn(hp, potions, work.hp, work.potions, work.changed)
    BY HeadIsReady
  <1>2. work.potions > 0 /\ work.hp[Hero] < MaxHp(Hero) /\ work.changed \in BOOLEAN
        /\ work.hp[Hero] \in Nat /\ MaxHp(Hero) \in Nat
    BY <1>1, WornFacts, PointsFacts DEF ResolvePotion, Working
  <1>3. PICK after \in Healed(work.hp[Hero], MaxHp(Hero)) :
          Resolved(intent, [work.hp EXCEPT ![Hero] = after], work.potions - 1, work.update)
    BY DEF ResolvePotion
  <1>4. after \in work.hp[Hero]..MaxHp(Hero)
    BY <1>2, HealedWithin
  <1>. DEFINE healed == [work.hp EXCEPT ![Hero] = after]
              left == work.potions - 1
  <1>5. Worn(hp, potions, healed, left, work.changed \/ healed # work.hp \/ left # work.potions)
    BY <1>1, <1>2, <1>4, WornByPotion
  <1>6. Resolved(intent, healed, left, work.update)
    BY <1>3
  <1>. HIDE DEF healed, left
  <1>. QED BY <1>1, <1>5, <1>6, HeadIsReady, ResultKeeps

LEMMA OpenKeeps ==
  ASSUME IInv, work.pc = "resolving", work.plan # <<>>, UNCHANGED <<story, canonical, version, origin>>,
         NEW intent, intent = Head(work.plan), ResolveOpen(intent)
  PROVE  IInv'
  <1>1. /\ intent \in Intents /\ TypeOK /\ IsOpen(story)
        /\ intent.won \in OpenEffects /\ intent.lost \in OpenEffects \cup {NoRef}
    BY HeadIsReady, IntentFacts DEF ResolveOpen, Ready
  <1>2. PICK effect \in {intent.won} \cup ({intent.lost} \ {NoRef}) :
          OpenFits(effect) /\ Resolved(intent, work.hp, work.potions, ProgressOpen(effect))
    BY DEF ResolveOpen
  <1>3. effect \in OpenEffects
    BY <1>1, <1>2
  <1>. DEFINE u == ProgressOpen(effect)
  <1>4. Proper(story, run, Here, u) /\ Earned(story, run, u, FALSE)
    BY <1>1, <1>2, <1>3, HeadIsReady, OpenIsProper
  <1>5. Worn(hp, potions, work.hp, work.potions,
             work.changed \/ work.hp # work.hp \/ work.potions # work.potions)
    BY HeadIsReady DEF Worn
  <1>6. Resolved(intent, work.hp, work.potions, u)
    BY <1>2
  <1>. HIDE DEF u
  <1>. QED BY <1>1, <1>4, <1>5, <1>6, HeadIsReady, ResultKeeps

LEMMA PassingKeeps ==
  ASSUME IInv, work.pc = "resolving", work.plan # <<>>, UNCHANGED <<story, canonical, version, origin>>,
         NEW intent, intent = Head(work.plan), NotApplicable(intent)
  PROVE  IInv'
  <1>1. /\ TypeOK /\ work \in Working /\ UNCHANGED <<story, run, scenes, hp, potions>>
        /\ work' = [work EXCEPT !.plan = Tail(work.plan)]
    BY HeadIsReady DEF NotApplicable, canonical
  <1>2. Here' = Here
    BY <1>1 DEF Here
  <1>3. /\ Tail(work.plan) \in Seq(Intents)
        /\ \A i \in 1..Len(Tail(work.plan)) :
             i + 1 \in 1..Len(work.plan) /\ Tail(work.plan)[i] = work.plan[i + 1]
    BY <1>1 DEF Working
  <1>4. work' \in Working
    BY <1>1, <1>3 DEF Working
  <1>5. /\ work'.plan = Tail(work.plan) /\ work'.pc = "resolving"
        /\ work'.hp = work.hp /\ work'.potions = work.potions /\ work'.update = work.update
        /\ work'.applied = work.applied /\ work'.changed = work.changed
    BY <1>1 DEF Working
  <1>6. Resolving'
    <2>1. \A i \in 1..Len(work'.plan) : Ready(story, run, Here, work'.plan[i])
      BY <1>3, <1>5 DEF IInv, Resolving
    <2>. QED BY <1>1, <1>2, <1>5, <2>1 DEF IInv, Resolving
  <1>7. Bundled'
    BY <1>5 DEF Bundled
  <1>. QED BY <1>1, <1>4, <1>6, <1>7, RowsKept, WorkFacts

LEMMA ResolveKeeps ==
  ASSUME IInv, Resolve PROVE IInv'
  <1>1. /\ work.pc = "resolving" /\ work.plan # <<>> /\ UNCHANGED <<story, canonical, version, origin>>
        /\ \/ ResolveDirect(Head(work.plan)) \/ ResolveSkill(Head(work.plan))
           \/ ResolveAttack(Head(work.plan)) \/ ResolvePotion(Head(work.plan))
           \/ ResolveOpen(Head(work.plan)) \/ NotApplicable(Head(work.plan))
    BY DEF Resolve
  <1>. QED BY <1>1, DirectKeeps, SkillKeeps, AttackKeeps, PotionKeeps, OpenKeeps, PassingKeeps

LEMMA ConcludeKeeps ==
  ASSUME IInv, Conclude PROVE IInv'
  <1>1. /\ TypeOK /\ OneScene /\ Resolving /\ work.pc = "resolving" /\ work \in Working
        /\ UNCHANGED <<story, canonical, version, origin>>
    BY WorkFacts DEF Conclude, IInv, RunIsWhole
  <1>2. /\ UNCHANGED <<story, run, scenes, hp, potions>> /\ Here' = Here
    BY <1>1 DEF canonical, Here
  <1>3. /\ run.status = "active" /\ Worn(hp, potions, work.hp, work.potions, work.changed)
        /\ work.changed => work.applied
        /\ work.changed \in BOOLEAN
    BY <1>1 DEF Resolving, Working
  <1>4. /\ work.hp \in Points /\ work.potions \in Nat /\ work.hp[Hero] \in Nat /\ work.hp[Hero] > 0
    BY <1>1, <1>3, WornFacts, PointsFacts, PlayerIsHere
  \* what is common to both ways to conclude
  <1>5. ASSUME NEW points \in 0..work.hp[Hero], NEW u, Bundle(points, u),
               u # NoRef => Proper(story, run, Here, u) /\ Earned(story, run, u, points = 0),
               points > 0 \/ (u # NoRef /\ u.ending # NoRef),
               IsOpen(story) /\ work.applied => u # NoRef,
               points # work.hp[Hero] => work.applied
        PROVE  IInv'
    <2>. DEFINE struck == [work.hp EXCEPT ![Hero] = points]
    <2>1. /\ struck \in Points /\ struck[Hero] = points
          /\ \A who \in Foes \cup {Hero} : struck[who] <= MaxHp(who)
          /\ work.changed \/ points # work.hp[Hero] <=> struck # hp \/ work.potions # potions
      BY <1>1, <1>3, NetAfterReaction
    <2>2. /\ work'.pc = "bundled" /\ work'.hp = struck /\ work'.potions = work.potions /\ work'.update = u
          /\ work'.changed = (work.changed \/ points # work.hp[Hero] \/ u # NoRef)
          /\ work' = [pc |-> "bundled", hp |-> struck, potions |-> work.potions, update |-> u,
                      changed |-> (work.changed \/ points # work.hp[Hero] \/ u # NoRef)]
      BY <1>5 DEF Bundle
    <2>. HIDE DEF struck
    <2>3. u \in Updates(story) \cup {NoRef}
      BY <1>5 DEF Proper
    <2>4. work' \in Asking
      BY <1>3, <1>4, <2>1, <2>2, <2>3 DEF Asking
    <2>5. work'.changed <=> NetChange'
      BY <1>2, <2>1, <2>2 DEF NetChange
    <2>6. IsOpen(story) /\ u = NoRef => work'.hp = hp /\ work'.potions = potions
      BY <1>3, <1>5, <2>1, <2>2
    <2>7. Bundled'
      BY <1>2, <1>3, <1>4, <1>5, <2>1, <2>2, <2>5, <2>6 DEF Bundled
    <2>8. Resolving'
      BY <2>2 DEF Resolving
    <2>. QED BY <1>1, <2>4, <2>7, <2>8, RowsKept, WorkFacts
  <1>6. CASE Provoked(story.combat[Here])
    <2>1. PICK points \in Struck(work.hp[Hero], story.combat[Here].enemy, Hero, story.combat[Here]) :
            Bundle(points, AfterReaction(story.combat[Here], points))
      BY <1>6 DEF Conclude
    <2>2. story.combat[Here].sides \in Nat /\ story.combat[Here].bonus \in Nat
      BY <1>1, <1>3, <1>6, PlayerIsHere, RunFacts, CombatFacts DEF Provoked
    <2>3. points \in 0..work.hp[Hero]
      BY <1>4, <2>1, <2>2, StruckWithin
    <2>. DEFINE u == AfterReaction(story.combat[Here], points)
    <2>4. /\ u # NoRef => Proper(story, run, Here, u) /\ Earned(story, run, u, points = 0)
          /\ points = 0 => u # NoRef /\ u.ending # NoRef
          /\ IsOpen(story) => u # NoRef
      BY <1>1, <1>6, <2>3, ReactionIsProper
    <2>5. work.applied /\ Bundle(points, u)
      BY <1>6, <2>1 DEF Provoked
    <2>6. points > 0 \/ points = 0
      BY <2>3
    <2>. HIDE DEF u
    <2>. QED BY <1>5, <2>3, <2>4, <2>5, <2>6
  <1>7. CASE ~Provoked(story.combat[Here])
    <2>1. Bundle(work.hp[Hero], Passed)
      BY <1>7 DEF Conclude
    <2>2. /\ Passed # NoRef => Proper(story, run, Here, Passed) /\ Earned(story, run, Passed, FALSE)
          /\ IsOpen(story) /\ work.applied => Passed # NoRef
      BY <1>1, PassedIsProper
    <2>3. Passed # NoRef => Earned(story, run, Passed, work.hp[Hero] = 0)
      BY <2>2 DEF Earned
    <2>. DEFINE u == Passed
                points == work.hp[Hero]
    <2>4. points \in 0..work.hp[Hero] /\ points > 0 /\ points = work.hp[Hero] /\ Bundle(points, u)
      BY <1>4, <2>1
    <2>5. /\ u # NoRef => Proper(story, run, Here, u) /\ Earned(story, run, u, points = 0)
          /\ IsOpen(story) /\ work.applied => u # NoRef
      BY <2>2, <2>3
    <2>. HIDE DEF u, points
    <2>. QED BY <1>5, <2>4, <2>5
  <1>. QED BY <1>6, <1>7

-----------------------------------------------------------------------------
(* The start and the commit *)

LEMMA IInvInit == Init => IInv
  <1>. SUFFICES ASSUME Init PROVE IInv
    OBVIOUS
  <1>1. /\ story \in Stories /\ FiniteStory(story) /\ ValidGraph(story)
        /\ story.start \in story.scenes /\ NoRef \notin story.scenes /\ story.potions \in Nat
    BY StoryFacts DEF Init, ValidGraph
  <1>2. /\ run.status = "active" /\ run.ending = NoRef /\ run.flags = {} /\ run.facts = {}
        /\ scenes = [scene \in story.scenes |-> IF scene = story.start THEN "active" ELSE "planned"]
        /\ hp = [who \in Foes \cup {Hero} |-> MaxHp(who)]
        /\ potions = story.potions /\ version = 0 /\ work = Idle
        /\ origin = [flag \in story.flags |-> NoRef]
    BY DEF Init
  <1>3. \A who \in Foes \cup {Hero} : MaxHp(who) \in Nat
    BY HeroAssumption DEF MaxHp
  <1>4. run \in Run
    BY DEF Init, Run
  <1>5. TypeOK
    <2>1. \A who \in DOMAIN hp : hp[who] <= MaxHp(who)
      BY <1>2, <1>3
    <2>2. hp \in [Foes \cup {Hero} -> Nat]
      BY <1>2, <1>3
    <2>3. work \in WorkState
      BY <1>2 DEF WorkState
    <2>4. potions \in Nat /\ version \in Nat
      BY <1>1, <1>2
    <2>. QED BY <1>1, <1>2, <1>4, <2>1, <2>2, <2>3, <2>4 DEF TypeOK
  <1>6. ActiveScenes = {story.start} /\ Here = story.start
    <2>1. \A scene \in story.scenes : scenes[scene] = "active" <=> scene = story.start
      BY <1>1, <1>2
    <2>. QED BY <1>1, <2>1 DEF ActiveScenes, Here
  <1>7. hp[Hero] > 0
    BY <1>2, HeroAssumption DEF MaxHp
  <1>8. OneScene
    BY <1>2, <1>6, <1>7, FS_Singleton DEF OneScene
  <1>9. EndingIsEarned /\ ItemsTakenInPlace /\ FactsAgree
    BY <1>2 DEF EndingIsEarned, ItemsTakenInPlace, FactsAgree
  <1>10. PlayIsExplored
    <2>1. Position(Here, run.flags) \in Explored(story)
      BY <1>1, <1>2, <1>6, ExploredIsLeast DEF Start
    <2>. QED BY <1>1, <2>1 DEF PlayIsExplored, Found
  <1>11. Behind
    <2>1. \A scene \in story.scenes : scenes[scene] # "closed"
      BY <1>2
    <2>. QED BY <2>1 DEF Behind
  <1>12. Resolving /\ Bundled
    BY <1>2 DEF Resolving, Bundled, Idle
  <1>. QED BY <1>5, <1>8, <1>9, <1>10, <1>11, <1>12 DEF IInv, RunIsWhole

\* What is committed was bundled, and what was bundled is in order.
LEMMA CommitMeans ==
  ASSUME IInv, Commit
  PROVE  /\ TypeOK /\ OneScene /\ EndingIsEarned /\ ItemsTakenInPlace /\ FactsAgree
         /\ PlayIsExplored /\ Behind
         /\ story' = story /\ story \in Stories /\ run.status = "active"
         /\ work.hp \in Points /\ \A who \in Foes \cup {Hero} : work.hp[who] <= MaxHp(who)
         /\ work.potions \in Nat
         /\ hp' = work.hp /\ potions' = work.potions /\ work' = Idle
         /\ version' \in Nat /\ version' = IF NetChange THEN version + 1 ELSE version
         /\ work.hp[Hero] > 0 \/ (work.update # NoRef /\ work.update.ending # NoRef)
         /\ work.update = NoRef => UNCHANGED <<run, scenes, origin>>
         /\ work.update # NoRef =>
              /\ Proper(story, run, Here, work.update)
              /\ Earned(story, run, work.update, work.hp[Hero] = 0)
              /\ UpdateIsValid(work.update) /\ Applied(work.update)
  <1>1. IInv /\ work.pc = "bundled" /\ Bundled
    BY DEF Commit, IInv
  <1>2. TypeOK /\ version \in Nat
    BY DEF IInv, RunIsWhole, TypeOK
  <1>3. version' = (IF NetChange THEN version + 1 ELSE version) /\ version' \in Nat
    BY <1>2 DEF Commit
  <1>. QED BY <1>1, <1>2, <1>3, RunFacts DEF IInv, RunIsWhole, Commit, Bundled, BundleIsValid

\* A commit without an update leaves the run where it is.
LEMMA BareCommitKeeps ==
  ASSUME IInv, Commit, work.update = NoRef PROVE IInv'
  <1>1. /\ UNCHANGED <<story, run, scenes, origin>> /\ work.hp[Hero] > 0
        /\ hp' = work.hp /\ potions' = work.potions /\ work' = Idle /\ version' \in Nat
        /\ run.status = "active" /\ story \in Stories
    BY CommitMeans
  <1>2. Here' = Here /\ ActiveScenes' = ActiveScenes /\ Run' = Run
    BY <1>1 DEF Here, ActiveScenes, Run
  <1>3. TypeOK'
    <2>1. /\ hp' \in [Foes \cup {Hero} -> Nat] /\ \A who \in DOMAIN hp' : hp'[who] <= MaxHp(who)
          /\ potions' \in Nat
      BY <1>1, CommitMeans DEF Points
    <2>2. work' \in WorkState'
      BY <1>1 DEF WorkState
    <2>3. /\ run \in Run /\ scenes \in [story.scenes -> {"planned", "active", "closed"}]
          /\ origin \in [story.flags -> story.scenes \cup {NoRef}]
      BY CommitMeans DEF TypeOK
    <2>. QED BY <1>1, <1>2, <2>1, <2>2, <2>3 DEF TypeOK
  <1>4. OneScene' /\ EndingIsEarned'
    <2>1. run.ending = NoRef /\ Cardinality(ActiveScenes) = 1
      BY <1>1, CommitMeans DEF OneScene
    <2>. QED BY <1>1, <1>2, <2>1 DEF OneScene, EndingIsEarned
  <1>5. ItemsTakenInPlace' /\ FactsAgree' /\ PlayIsExplored' /\ Behind'
    BY <1>1, <1>2, CommitMeans DEF ItemsTakenInPlace, FactsAgree, PlayIsExplored, Behind
  <1>6. Resolving' /\ Bundled'
    BY <1>1 DEF Resolving, Bundled, Idle
  <1>. QED BY <1>3, <1>4, <1>5, <1>6 DEF IInv, RunIsWhole

\* The rows after an update.
LEMMA AppliedMeans ==
  ASSUME IInv, Commit, work.update # NoRef
  PROVE  LET u == work.update
         IN  /\ run'.status = (IF u.ending = NoRef THEN "active" ELSE "completed")
             /\ run'.ending = (IF u.ending = NoRef THEN NoRef ELSE u.ending)
             /\ run'.flags = run.flags \cup Listed(u.adds)
             /\ run'.alert = run.alert + u.alert /\ run'.elapsed = run.elapsed + u.elapsed
             /\ run'.facts = run.facts \cup u.facts
             /\ run' \in Run'
             /\ Here \in story.scenes /\ u.to # Here
             /\ \A scene \in story.scenes :
                  scenes'[scene] = IF scene = u.to THEN "active"
                                   ELSE IF scene = Here /\ (u.to # NoRef \/ u.ending # NoRef) THEN "closed"
                                   ELSE scenes[scene]
             /\ scenes' \in [story.scenes -> {"planned", "active", "closed"}]
             /\ \A flag \in story.flags :
                  origin'[flag] = IF flag \in Listed(u.adds) THEN Here ELSE origin[flag]
             /\ origin' \in [story.flags -> story.scenes \cup {NoRef}]
  <1>. DEFINE u == work.update
  <1>1. /\ TypeOK /\ OneScene /\ run.status = "active" /\ story' = story /\ story \in Stories
        /\ Proper(story, run, Here, u) /\ UpdateIsValid(u) /\ Applied(u)
    BY CommitMeans
  <1>2. Here \in story.scenes /\ scenes[Here] = "active" /\ run.ending = NoRef /\ NoRef \notin story.scenes
    BY <1>1, PlayerIsHere, StoryFacts
  <1>3. /\ run.flags \subseteq story.flags /\ run.alert \in 0..5 /\ run.elapsed \in Nat
        /\ run.facts \subseteq [ref : FactRefs, text : Texts, scene : story.scenes]
        /\ run \in Run
    BY <1>1, RunFacts DEF TypeOK
  <1>4. /\ u.to \in story.scenes \cup {NoRef} /\ u.adds \in Seq(story.flags)
        /\ u.ending \in story.endings \cup {NoRef} /\ u.elapsed \in 0..1
        /\ u.facts \subseteq [ref : FactRefs, text : Texts, scene : story.scenes]
        /\ run.alert + u.alert \in 0..5
    BY <1>1 DEF Proper, Updates
  <1>5. Listed(u.adds) \subseteq story.flags
    BY <1>4, ListedWithin
  <1>6. u.to # Here
    BY <1>1, <1>2 DEF UpdateIsValid, Enterable
  <1>7. run' = [run EXCEPT !.flags = @ \cup Listed(u.adds),
                           !.status = IF u.ending = NoRef THEN @ ELSE "completed",
                           !.ending = IF u.ending = NoRef THEN @ ELSE u.ending,
                           !.alert = @ + u.alert, !.elapsed = @ + u.elapsed,
                           !.facts = @ \cup u.facts]
    BY <1>1 DEF Applied
  <1>8. /\ run'.status = (IF u.ending = NoRef THEN "active" ELSE "completed")
        /\ run'.ending = (IF u.ending = NoRef THEN NoRef ELSE u.ending)
        /\ run'.flags = run.flags \cup Listed(u.adds)
        /\ run'.alert = run.alert + u.alert /\ run'.elapsed = run.elapsed + u.elapsed
        /\ run'.facts = run.facts \cup u.facts
    <2>. HIDE DEF u
    <2>. QED BY <1>1, <1>2, <1>3, <1>7 DEF Run
  <1>9. run' \in Run'
    <2>1. run' = [status |-> run'.status, ending |-> run'.ending, flags |-> run'.flags,
                  alert |-> run'.alert, elapsed |-> run'.elapsed, facts |-> run'.facts]
      <3>. HIDE DEF u
      <3>. QED BY <1>3, <1>7 DEF Run
    <2>2. /\ run'.status \in {"active", "completed"} /\ run'.ending \in story.endings \cup {NoRef}
          /\ run'.flags \in SUBSET story.flags /\ run'.alert \in 0..5 /\ run'.elapsed \in Nat
          /\ run'.facts \in SUBSET [ref : FactRefs, text : Texts, scene : story.scenes]
      <3>. HIDE DEF u
      <3>. QED BY <1>3, <1>4, <1>5, <1>8
    <2>. QED BY <1>1, <2>1, <2>2 DEF Run
  <1>10. scenes' = [scene \in story.scenes |->
                      IF scene = u.to THEN "active"
                      ELSE IF scene = Here /\ ~Stays(u) THEN "closed"
                      ELSE scenes[scene]]
         /\ origin' = [flag \in story.flags |-> IF flag \in Listed(u.adds) THEN Here ELSE origin[flag]]
    BY <1>1 DEF Applied
  <1>11. ~Stays(u) <=> u.to # NoRef \/ u.ending # NoRef
    BY DEF Stays
  <1>12. /\ scenes \in [story.scenes -> {"planned", "active", "closed"}]
         /\ origin \in [story.flags -> story.scenes \cup {NoRef}]
    BY <1>1 DEF TypeOK
  <1>. HIDE DEF u
  <1>13. /\ \A scene \in story.scenes :
              scenes'[scene] = IF scene = u.to THEN "active"
                               ELSE IF scene = Here /\ (u.to # NoRef \/ u.ending # NoRef) THEN "closed"
                               ELSE scenes[scene]
         /\ scenes' \in [story.scenes -> {"planned", "active", "closed"}]
    BY <1>10, <1>11, <1>12
  <1>14. /\ \A flag \in story.flags :
              origin'[flag] = IF flag \in Listed(u.adds) THEN Here ELSE origin[flag]
         /\ origin' \in [story.flags -> story.scenes \cup {NoRef}]
    BY <1>2, <1>10, <1>12
  <1>. QED BY <1>2, <1>6, <1>8, <1>9, <1>13, <1>14 DEF u

\* Where the player is after an update.
LEMMA WhereAfter ==
  ASSUME IInv, Commit, work.update # NoRef
  PROVE  LET u == work.update
         IN  /\ u.to # NoRef => ActiveScenes' = {u.to} /\ Here' = u.to
             /\ u.to = NoRef /\ u.ending = NoRef => ActiveScenes' = {Here} /\ Here' = Here
             /\ u.ending # NoRef => ActiveScenes' = {}
             /\ \A scene \in story.scenes : scenes'[scene] = "closed" =>
                  scenes[scene] = "closed" \/ (scene = Here /\ (u.to # NoRef \/ u.ending # NoRef))
  <1>. DEFINE u == work.update
  <1>1. /\ story' = story /\ NoRef \notin story.scenes /\ ActiveScenes = {Here}
        /\ u.to \in story.scenes \cup {NoRef} /\ (u.to = NoRef \/ u.ending = NoRef)
    BY CommitMeans, PlayerIsHere, StoryFacts DEF Proper, Updates
  <1>2. /\ Here \in story.scenes /\ u.to # Here
        /\ \A scene \in story.scenes :
             scenes'[scene] = IF scene = u.to THEN "active"
                              ELSE IF scene = Here /\ (u.to # NoRef \/ u.ending # NoRef) THEN "closed"
                              ELSE scenes[scene]
    BY AppliedMeans
  <1>. HIDE DEF u
  <1>3. \A scene \in story.scenes : scenes[scene] = "active" <=> scene = Here
    BY <1>1 DEF ActiveScenes
  <1>4. u.to # NoRef => \A scene \in story.scenes : scenes'[scene] = "active" <=> scene = u.to
    BY <1>1, <1>2, <1>3
  <1>5. u.to = NoRef /\ u.ending = NoRef =>
          \A scene \in story.scenes : scenes'[scene] = "active" <=> scene = Here
    BY <1>1, <1>2, <1>3
  <1>6. u.ending # NoRef => \A scene \in story.scenes : scenes'[scene] # "active"
    BY <1>1, <1>2, <1>3
  <1>7. u.to # NoRef => ActiveScenes' = {u.to} /\ Here' = u.to
    BY <1>1, <1>4 DEF ActiveScenes, Here
  <1>8. u.to = NoRef /\ u.ending = NoRef => ActiveScenes' = {Here} /\ Here' = Here
    <2>. SUFFICES ASSUME u.to = NoRef, u.ending = NoRef PROVE ActiveScenes' = {Here} /\ Here' = Here
      OBVIOUS
    <2>1. \A scene \in story'.scenes : scenes'[scene] = "active" <=> scene = Here
      BY <1>1, <1>5
    <2>2. \A scene \in story.scenes : scenes'[scene] = "active" <=> scenes[scene] = "active"
      BY <1>1, <1>3, <2>1
    <2>3. ActiveScenes' = {Here}
      BY <1>1, <1>2, <2>1 DEF ActiveScenes
    <2>4. scenes' = scenes
      <3>1. /\ scenes \in [story.scenes -> {"planned", "active", "closed"}]
            /\ scenes' \in [story.scenes -> {"planned", "active", "closed"}]
        BY AppliedMeans, CommitMeans DEF TypeOK
      <3>2. \A scene \in story.scenes : scenes'[scene] = scenes[scene]
        BY <1>1, <1>2
      <3>. QED BY <3>1, <3>2
    <2>. QED BY <1>1, <2>3, <2>4 DEF Here
  <1>9. u.ending # NoRef => ActiveScenes' = {}
    BY <1>1, <1>6 DEF ActiveScenes
  <1>10. \A scene \in story.scenes : scenes'[scene] = "closed" =>
           scenes[scene] = "closed" \/ (scene = Here /\ (u.to # NoRef \/ u.ending # NoRef))
    BY <1>1, <1>2
  <1>. QED BY <1>7, <1>8, <1>9, <1>10 DEF u

\* A commit with an update keeps the run whole, on explored ground and going forward.
LEMMA UpdateCommitKeeps ==
  ASSUME IInv, Commit, work.update # NoRef PROVE IInv'
  <1>. DEFINE u == work.update
  <1>1. /\ story' = story /\ story \in Stories /\ run.status = "active"
        /\ hp' = work.hp /\ potions' = work.potions /\ work' = Idle /\ version' \in Nat
        /\ NoRef \notin story.scenes /\ NoRef \notin story.endings
        /\ Proper(story, run, Here, u) /\ Earned(story, run, u, work.hp[Hero] = 0)
        /\ TypeOK
    BY CommitMeans, StoryFacts
  <1>2. /\ run'.status = (IF u.ending = NoRef THEN "active" ELSE "completed")
        /\ run'.ending = (IF u.ending = NoRef THEN NoRef ELSE u.ending)
        /\ run'.flags = run.flags \cup Listed(u.adds)
        /\ run'.facts = run.facts \cup u.facts
    BY AppliedMeans
  <1>3. TypeOK'
    <2>1. /\ hp' \in [Foes \cup {Hero} -> Nat] /\ \A who \in DOMAIN hp' : hp'[who] <= MaxHp(who)
          /\ potions' \in Nat
      BY <1>1, CommitMeans DEF Points
    <2>2. work' \in WorkState'
      BY <1>1 DEF WorkState
    <2>3. /\ run' \in Run' /\ scenes' \in [story.scenes -> {"planned", "active", "closed"}]
          /\ origin' \in [story.flags -> story.scenes \cup {NoRef}]
      BY AppliedMeans
    <2>. QED BY <1>1, <2>1, <2>2, <2>3 DEF TypeOK
  <1>4. OneScene'
    <2>1. u.to = NoRef \/ u.ending = NoRef
      BY <1>1 DEF Proper
    <2>2. CASE u.ending = NoRef
      <3>1. Cardinality(ActiveScenes') = 1
        BY <2>2, WhereAfter, FS_Singleton
      <3>2. hp'[Hero] > 0
        BY <1>1, <2>2, CommitMeans
      <3>. QED BY <1>2, <2>2, <3>1, <3>2 DEF OneScene
    <2>3. CASE u.ending # NoRef
      <3>1. ActiveScenes' = {}
        BY <2>3, WhereAfter
      <3>. QED BY <1>2, <2>3, <3>1 DEF OneScene
    <2>. QED BY <2>2, <2>3
  <1>5. EndingIsEarned'
    <2>1. DefeatsOf(story) = Defeats'
      BY <1>1 DEF DefeatsOf, Defeats
    <2>. HIDE DEF u
    <2>. QED BY <1>1, <1>2, <2>1 DEF EndingIsEarned, Earned
  <1>6. ItemsTakenInPlace'
    <2>. SUFFICES ASSUME NEW item \in story.protected, item.flag \in run'.flags
                  PROVE  LET scene == origin'[item.flag]
                         IN  \/ scene = item.scene
                             \/ story.combat[scene] # NoRef /\ story.combat[scene].started = item.flag
      BY <1>1 DEF ItemsTakenInPlace
    <2>1. run'.flags \subseteq story.flags
      BY <1>1, AppliedMeans DEF Run
    <2>2. origin'[item.flag] = IF item.flag \in Listed(u.adds) THEN Here ELSE origin[item.flag]
      BY <2>1, AppliedMeans
    <2>3. CASE item.flag \in Listed(u.adds)
      BY <1>1, <2>2, <2>3 DEF Proper
    <2>4. CASE item.flag \notin Listed(u.adds)
      <3>1. item.flag \in run.flags
        BY <1>2, <2>4
      <3>. QED BY <2>2, <2>4, <3>1, CommitMeans DEF ItemsTakenInPlace
    <2>. QED BY <2>3, <2>4
  <1>7. FactsAgree'
    <2>. SUFFICES ASSUME NEW f \in run'.facts, NEW g \in run'.facts, f.ref = g.ref PROVE f = g
      BY DEF FactsAgree
    <2>1. \A a \in u.facts : /\ \A known \in run.facts : known.ref # a.ref
                             /\ \A b \in u.facts : a.ref = b.ref => a = b
      BY <1>1 DEF Proper
    <2>2. \A a, b \in run.facts : a.ref = b.ref => a = b
      BY CommitMeans DEF FactsAgree
    <2>. HIDE DEF u
    <2>. QED BY <1>2, <2>1, <2>2
  <1>8. PlayIsExplored'
    <2>. SUFFICES ASSUME run'.status = "active", ~Uncertain(story)
                  PROVE  Position(Here', run'.flags) \in Explored(story)
      BY <1>1 DEF PlayIsExplored, Found
    <2>1. u.ending = NoRef
      BY <1>2
    <2>2. Reaches(run, Here, u) \in Explored(story)
      BY <1>1, <2>1 DEF Proper
    <2>3. Here' = IF u.to = NoRef THEN Here ELSE u.to
      BY <2>1, WhereAfter
    <2>. HIDE DEF u
    <2>. QED BY <1>2, <2>2, <2>3 DEF Reaches
  <1>9. Behind'
    <2>. SUFFICES ASSUME run'.status = "active", ~Uncertain(story),
                         NEW rank \in [story.scenes -> 1..Cardinality(story.scenes)],
                         IsOrder(story, rank), NEW scene \in story.scenes, scenes'[scene] = "closed"
                  PROVE  rank[scene] < rank[Here']
      BY <1>1 DEF Behind
    <2>1. u.ending = NoRef /\ Here \in story.scenes
      BY <1>2, AppliedMeans
    <2>2. scenes[scene] = "closed" => rank[scene] < rank[Here]
      BY <1>1, CommitMeans DEF Behind
    <2>3. CASE u.to = NoRef
      BY <2>1, <2>2, <2>3, WhereAfter
    <2>4. CASE u.to # NoRef
      <3>1. PICK action \in ActionsAt(story, Here) : \E effect \in Effects(action) : effect.next = u.to
        BY <1>1, <2>4 DEF Proper
      <3>2. rank[Here] < rank[u.to]
        BY <2>4, <3>1 DEF IsOrder, ActionsAt
      <3>3. Here' = u.to /\ u.to \in story.scenes
        BY <1>1, <2>4, WhereAfter DEF Proper, Updates
      <3>4. \A s \in story.scenes : rank[s] \in Nat
        <4>1. Cardinality(story.scenes) \in Nat
          BY <1>1, StoryFacts, FS_CardinalityType DEF FiniteStory
        <4>. QED BY <4>1
      <3>5. scenes[scene] = "closed" \/ scene = Here
        BY WhereAfter
      <3>. HIDE DEF u
      <3>. QED BY <2>1, <2>2, <3>2, <3>3, <3>4, <3>5
    <2>. QED BY <2>3, <2>4
  <1>10. Resolving' /\ Bundled'
    BY <1>1 DEF Resolving, Bundled, Idle
  <1>. QED BY <1>3, <1>4, <1>5, <1>6, <1>7, <1>8, <1>9, <1>10 DEF IInv, RunIsWhole

LEMMA IInvStep ==
  ASSUME IInv, [Next]_vars PROVE IInv'
  <1>1. CASE UNCHANGED vars
    <2>1. UNCHANGED <<story, canonical, version, origin, work>>
      BY <1>1 DEF vars, canonical
    <2>2. UNCHANGED <<story, run, scenes, hp, potions>> /\ Here' = Here
      BY <2>1 DEF canonical, Here
    <2>3. work' \in WorkState
      BY <2>1 DEF IInv, RunIsWhole, TypeOK
    <2>4. Resolving' /\ Bundled'
      BY <2>1, <2>2 DEF IInv, Resolving, Bundled, NetChange
    <2>. QED BY <2>1, <2>3, <2>4, RowsKept
  <1>2. CASE Commit
    BY <1>2, BareCommitKeeps, UpdateCommitKeeps
  <1>. QED BY <1>1, <1>2, DecideKeeps, ResolveKeeps, ConcludeKeeps, DropKeeps DEF Next

-----------------------------------------------------------------------------
(* The theorems *)

THEOREM PlayInvariant == Spec => []IInv
  BY IInvInit, IInvStep, PTL DEF Spec

\* Whatever the story, the plans and the dice: scene rows, run row, hit points, flags
\* and facts agree, an ending is earned, items are taken where they are.
THEOREM RunStaysWhole == Spec => []RunIsWhole
  <1>1. IInv => RunIsWhole
    BY DEF IInv
  <1>. QED BY <1>1, PlayInvariant, PTL

\* A play of registered actions alone stays on positions the validator explored.
THEOREM PlayOnExploredGround == Spec => []PlayIsExplored
  <1>1. IInv => PlayIsExplored
    BY DEF IInv
  <1>. QED BY <1>1, PlayInvariant, PTL

\* After an update there is one active scene at most.
LEMMA ActiveAfterIsOne ==
  ASSUME TypeOK, OneScene, run.status = "active", NEW u, u.to = NoRef \/ u.ending = NoRef
  PROVE  Cardinality(ActiveAfter(u)) <= 1
  <1>1. ActiveScenes = {Here}
    BY PlayerIsHere
  <1>2. ActiveAfter(u) = {} \/ \E scene : ActiveAfter(u) = {scene}
    <2>1. CASE u.to # NoRef
      <3>1. ActiveAfter(u) = {u.to}
        BY <1>1, <2>1 DEF ActiveAfter, ActiveScenes
      <3>. QED BY <3>1
    <2>2. CASE u.to = NoRef
      <3>1. ActiveAfter(u) \subseteq {Here}
        BY <1>1, <2>2 DEF ActiveAfter, ActiveScenes
      <3>. QED BY <3>1
    <2>. QED BY <2>1, <2>2
  <1>3. Cardinality({}) = 0 /\ \A scene : Cardinality({scene}) = 1
    BY FS_EmptySet, FS_Singleton
  <1>4. Cardinality(ActiveAfter(u)) = 0 \/ Cardinality(ActiveAfter(u)) = 1
    BY <1>2, <1>3
  <1>. QED BY <1>4

\* What is proper the commit accepts, but for the two exceptions.
LEMMA ProperIsValid ==
  ASSUME TypeOK, OneScene, run.status = "active", NEW u, Proper(story, run, Here, u),
         u.to # NoRef => Enterable(u.to), ~NamesFlagTwice(u)
  PROVE  UpdateIsValid(u)
  BY ActiveAfterIsOne DEF Proper, UpdateIsValid

\* The worker asks for nothing the commit refuses, but for the two exceptions: they
\* agree on what changed, whatever the plan, the story and the dice.
THEOREM BundlesAccepted == Spec => []BundlesAreAccepted
  <1>1. IInv => BundlesAreAccepted
    <2>. SUFFICES ASSUME IInv, work.pc = "bundled",
                         work.update # NoRef =>
                           /\ work.update.to # NoRef => Enterable(work.update.to)
                           /\ ~NamesFlagTwice(work.update)
                  PROVE  BundleIsValid
      BY DEF BundlesAreAccepted
    <2>1. TypeOK /\ OneScene /\ Bundled /\ run.status = "active" /\ work \in Asking
      BY WorkFacts DEF IInv, RunIsWhole, Bundled
    <2>2. work.update # NoRef => UpdateIsValid(work.update)
      BY <2>1, ProperIsValid DEF Bundled
    <2>3. work.changed = NetChange
      <3>1. work.changed \in BOOLEAN /\ NetChange \in BOOLEAN
        BY <2>1 DEF Asking, NetChange
      <3>2. work.changed <=> NetChange
        BY <2>1 DEF Bundled
      <3>. QED BY <3>1, <3>2
    <2>4. ASSUME NEW who \in DOMAIN hp PROVE work.hp[who] \in 0..MaxHp(who)
      <3>1. who \in Foes \cup {Hero}
        BY <2>1 DEF TypeOK
      <3>2. work.hp[who] \in Nat /\ work.hp[who] <= MaxHp(who) /\ MaxHp(who) \in Nat
        BY <2>1, <3>1, PointsFacts DEF Bundled, Points
      <3>. QED BY <3>2
    <2>5. work.potions >= 0
      BY <2>1 DEF Bundled
    <2>. QED BY <2>2, <2>3, <2>4, <2>5 DEF BundleIsValid
  <1>. QED BY <1>1, PlayInvariant, PTL

\* The version moves by one with every change, and only then; an action in an open
\* story takes one unit of time, whatever it does.
THEOREM StepsCounted == Spec => StepsAreCounted
  <1>. DEFINE Counts == /\ canonical' # canonical => version' = version + 1
                        /\ version' # version /\ canonical' = canonical =>
                             work.update # NoRef /\ story.ruleset # "mvp_v2"
                        /\ IsOpen(story) => run'.elapsed - run.elapsed = version' - version
  <1>1. IInv /\ [Next]_vars => [Counts]_vars
    <2>. SUFFICES ASSUME IInv, Next PROVE Counts
      OBVIOUS
    <2>1. TypeOK /\ run.elapsed \in Nat /\ version \in Nat
      BY RunFacts DEF IInv, RunIsWhole, TypeOK
    <2>2. CASE UNCHANGED <<canonical, version>>
      <3>1. run' = run
        BY <2>2 DEF canonical
      <3>. QED BY <2>1, <2>2, <3>1
    <2>3. CASE Commit
      <3>. DEFINE u == work.update
      <3>1. /\ run.status = "active" /\ hp' = work.hp /\ potions' = work.potions
            /\ version' = (IF NetChange THEN version + 1 ELSE version)
            /\ u = NoRef => UNCHANGED <<run, scenes>>
            /\ u # NoRef => Proper(story, run, Here, u)
        BY <2>3, CommitMeans
      <3>2. u # NoRef =>
              /\ run'.status = (IF u.ending = NoRef THEN "active" ELSE "completed")
              /\ run'.flags = run.flags \cup Listed(u.adds)
              /\ run'.elapsed = run.elapsed + u.elapsed
        BY <2>3, AppliedMeans
      <3>3. NetChange <=> hp' # hp \/ potions' # potions \/ u # NoRef
        BY <3>1 DEF NetChange
      <3>4. IsOpen(story) /\ u = NoRef => hp' = hp /\ potions' = potions
        BY <2>3, <3>1 DEF Commit, IInv, Bundled
      <3>. HIDE DEF u
      <3>5. canonical' # canonical => version' = version + 1
        BY <3>1, <3>3 DEF canonical
      <3>6. ASSUME version' # version, canonical' = canonical PROVE u # NoRef /\ story.ruleset # "mvp_v2"
        <4>1. u # NoRef /\ run' = run
          BY <3>1, <3>3, <3>6 DEF canonical
        <4>2. u.ending = NoRef /\ Listed(u.adds) \subseteq run.flags /\ u.elapsed # 1
          <5>1. u.ending = NoRef /\ Listed(u.adds) \subseteq run.flags
            BY <3>1, <3>2, <4>1
          <5>2. run.elapsed = run.elapsed + u.elapsed
            BY <3>2, <4>1
          <5>3. u.elapsed # 1
            BY <2>1, <5>2
          <5>. QED BY <5>1, <5>3
        <4>3. Listed(u.adds) = {} /\ u.adds \in Seq(story.flags)
          BY <3>1, <4>1, <4>2 DEF Proper, Updates
        <4>4. u.adds = <<>>
          BY <4>3 DEF Listed
        <4>. QED BY <3>1, <4>1, <4>2, <4>4 DEF Proper
      <3>7. ASSUME IsOpen(story) PROVE run'.elapsed - run.elapsed = version' - version
        <4>1. CASE u = NoRef
          <5>1. run' = run /\ version' = version
            BY <3>1, <3>3, <3>4, <3>7, <4>1
          <5>. QED BY <2>1, <5>1
        <4>2. CASE u # NoRef
          <5>1. u.elapsed = 1 /\ version' = version + 1 /\ run'.elapsed = run.elapsed + 1
            BY <3>1, <3>2, <3>3, <3>7, <4>2 DEF Proper
          <5>. QED BY <2>1, <5>1
        <4>. QED BY <4>1, <4>2
      <3>. QED BY <3>5, <3>6, <3>7 DEF u
    <2>. HIDE DEF Counts
    <2>. QED BY <2>2, <2>3 DEF Next, Decide, Resolve, Conclude, Drop
  <1>. QED BY <1>1, PlayInvariant, PTL DEF Spec, StepsAreCounted

\* Where the validator finds no dead end, the graph leads forward and no flag is
\* named twice, the player is never stuck: some registered action can be tried and one of its outcomes is committed.
THEOREM ForwardGoesOn == Spec => []ForwardPlaysGoOn
  <1>1. IInv => ForwardPlaysGoOn
    <2>. SUFFICES ASSUME IInv, NoWayBack(story), NoFlagTwice(story), run.status = "active",
                         ~Uncertain(story), story \in Sound
                  PROVE  \E action \in ActionsAt(story, Here) : \E effect \in Effects(action) :
                           LeadsOn(action, effect)
      BY DEF ForwardPlaysGoOn, PlaysGoOn
    <2>. DEFINE at == Position(Here, run.flags)
    <2>1. TypeOK /\ OneScene /\ PlayIsExplored /\ story \in Stories
          /\ Here \in story.scenes /\ NoRef \notin story.endings
      BY PlayerIsHere, RunFacts, StoryFacts DEF IInv, RunIsWhole
    <2>2. at \in Explored(story) /\ at.scene = Here /\ at.flags = run.flags
      BY <2>1 DEF PlayIsExplored, Found, Position
    <2>3. ~IsTrap(story, {at})
      BY <2>2 DEF Sound, IsSound
    <2>4. (\E to \in Moves(story, at) : to # at) \/ Endings(story, at) # {}
      BY <2>3 DEF IsTrap
    \* an offer that moves or ends is one that leads on
    <2>5. PICK offer \in Offered(story, at) :
            \/ EndingOf(offer[2], at.flags) = NoRef /\ Target(story, at, offer) # at
            \/ /\ EndingOf(offer[2], at.flags) \in story.endings
               /\ story.required[EndingOf(offer[2], at.flags)]
                    \subseteq Resulting(story, at, offer[1], offer[2])
      <3>. HIDE DEF at
      <3>1. CASE \E to \in Moves(story, at) : to # at
        BY <3>1 DEF Moves
      <3>2. CASE Endings(story, at) # {}
        BY <3>2 DEF Endings
      <3>. QED BY <2>4, <3>1, <3>2
    <2>. DEFINE action == offer[1]
                effect == offer[2]
                u == ProgressFor(effect)
    <2>6. /\ action \in ActionsAt(story, Here) /\ action \in story.actions /\ action.scene = Here
          /\ effect \in Effects(action) /\ IsAvailable(action, run.flags)
      BY <2>2, OfferMeans DEF ActionsAt
    <2>. HIDE DEF action, effect
    <2>7. ~story.bounded /\ story.combat[Here] = NoRef
      BY <2>1 DEF Uncertain, Fights
    <2>8. Resulting(story, at, action, effect) = run.flags \cup Listed(effect.adds)
      BY <2>2, <2>7 DEF Resulting
    <2>9. effect.adds \in Seq(story.flags) /\ (effect.next = NoRef \/ EndingOf(effect, run.flags) = NoRef)
          /\ effect.next \in story.scenes \cup {NoRef}
      BY <2>1, <2>6, EffectFacts
    <2>10. \/ EndingOf(effect, run.flags) = NoRef /\ Target(story, at, <<action, effect>>) # at
           \/ /\ EndingOf(effect, run.flags) \in story.endings
              /\ story.required[EndingOf(effect, run.flags)] \subseteq run.flags \cup Listed(effect.adds)
      <3>1. Target(story, at, offer) = Target(story, at, <<action, effect>>)
        BY DEF Target, action, effect
      <3>2. \/ EndingOf(effect, run.flags) = NoRef /\ Target(story, at, offer) # at
            \/ /\ EndingOf(effect, run.flags) \in story.endings
               /\ story.required[EndingOf(effect, run.flags)] \subseteq Resulting(story, at, action, effect)
        BY <2>2, <2>5 DEF action, effect
      <3>. QED BY <2>8, <3>1, <3>2
    <2>11. Fits(effect)
      BY <2>1, <2>7, <2>10 DEF Fits
    <2>12. Proper(story, run, Here, u)
      BY <2>1, <2>6, <2>11, RegisteredIsProper
    <2>13. /\ u.to = effect.next /\ u.adds = NewFlags(effect) /\ u.ending = EndingOf(effect, run.flags)
      BY DEF ProgressFor
    <2>14. ~NamesFlagTwice(u)
      BY <2>1, <2>6, <2>9, <2>13, NewFlagsFacts DEF NoFlagTwice, NamesFlagTwice
    <2>15. ASSUME u.to # NoRef PROVE Enterable(u.to)
      <3>1. PICK rank \in [story.scenes -> 1..Cardinality(story.scenes)] : IsOrder(story, rank)
        BY DEF NoWayBack, IsOrder
      <3>2. rank[Here] < rank[u.to] /\ u.to \in story.scenes
        BY <2>6, <2>9, <2>13, <2>15, <3>1 DEF IsOrder
      <3>3. rank[Here] \in Nat /\ rank[u.to] \in Nat
        <4>1. Cardinality(story.scenes) \in Nat
          BY <2>1, StoryFacts, FS_CardinalityType DEF FiniteStory
        <4>. HIDE DEF u
        <4>. QED BY <2>1, <3>2, <4>1
      <3>4. scenes[u.to] # "closed"
        <4>1. scenes[u.to] = "closed" => rank[u.to] < rank[Here]
          BY <3>1, <3>2 DEF IInv, Behind
        <4>. HIDE DEF u
        <4>. QED BY <3>2, <3>3, <4>1
      <3>5. scenes[u.to] # "active"
        <4>1. u.to # Here
          <5>. HIDE DEF u
          <5>. QED BY <3>2, <3>3
        <4>2. ActiveScenes = {Here}
          BY <2>1, PlayerIsHere
        <4>. HIDE DEF u
        <4>. QED BY <3>2, <4>1, <4>2 DEF ActiveScenes
      <3>6. scenes[u.to] \in {"planned", "active", "closed"}
        BY <2>1, <3>2 DEF TypeOK
      <3>. QED BY <3>4, <3>5, <3>6 DEF Enterable
    <2>16. u.adds # <<>> \/ ~Stays(u)
      <3>. SUFFICES ASSUME u.adds = <<>>, Stays(u) PROVE FALSE
        OBVIOUS
      <3>1. Stays(u) /\ u # NoRef => u.to = NoRef /\ u.ending = NoRef
        BY DEF Stays
      <3>2. u # NoRef
        BY <2>1, <2>12, StoryFacts DEF Proper
      <3>3. effect.next = NoRef /\ EndingOf(effect, run.flags) = NoRef
        BY <2>13, <3>1, <3>2
      <3>4. Listed(NewFlags(effect)) = {}
        BY <2>13, ListedOfEmpty
      <3>5. run.flags \cup Listed(effect.adds) = run.flags
        BY <2>1, <2>9, <3>4, NewFlagsFacts
      <3>6. Target(story, at, <<action, effect>>) = at
        <4>1. <<action, effect>>[1] = action /\ <<action, effect>>[2] = effect
          OBVIOUS
        <4>. QED BY <2>2, <2>8, <3>3, <3>5, <4>1 DEF Target, Position
      <3>. QED BY <2>1, <2>10, <3>3, <3>6
    <2>17. UpdateIsValid(u)
      BY <2>1, <2>12, <2>14, <2>15, ProperIsValid
    <2>18. LeadsOn(action, effect)
      BY <2>6, <2>11, <2>16, <2>17 DEF LeadsOn
    <2>. QED BY <2>6, <2>18
  <1>. QED BY <1>1, PlayInvariant, PTL

===============================================================================
