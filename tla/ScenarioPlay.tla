----------------------------- MODULE ScenarioPlay -----------------------------
(***************************************************************************)
(* The play of one authored story, turn by turn, under the rulesets mvp_v1 *)
(* and mvp_v2: a plan of intents is checked against the saved run, its     *)
(* actions are resolved with dice one after the other in the memory of the *)
(* worker, an enemy may strike back, and the bundle of results is either   *)
(* committed as a whole or leaves nothing.  The story is one that can be   *)
(* read (ValidGraph); leases, retries and what else may happen to a turn   *)
(* are the subject of TurnLifecycle, here a turn that fails for whatever   *)
(* reason is Drop.                                                         *)
(*                                                                         *)
(* Dice are choices of what the die can show.  Texts, ids and the wording  *)
(* of intents are left out; a character is its reference.                  *)
(***************************************************************************)
EXTENDS StoryGraph

CONSTANTS Stories,      \* definitions that may be played
          Hero,         \* the character of the player
          Preset,       \* max_hp, defense, attack_bonus, skills of the hero
          Foes,         \* other characters of the stories
          FoeStats,     \* max_hp, defense, attack_bonus of each foe
          Difficulty,   \* difficulty of the checks of each skill
          OpenEffects,  \* effects a free action may propose
          FactRefs,     \* references of facts a free action may note
          LocalFacts,   \* those of places and persons
          MaxActions,   \* intents in a plan
          MaxVersion    \* bound: committed changes of a play

ASSUME BoundAssumption == MaxActions \in Nat \ {0} /\ MaxVersion \in Nat

\* The hero is healthy at first and is none of the others.
ASSUME HeroAssumption ==
  /\ Hero \notin Foes
  /\ Preset.max_hp \in Nat \ {0}
  /\ \A foe \in Foes : FoeStats[foe].max_hp \in Nat

Texts == {fact.text : fact \in UNION {effect.facts : effect \in OpenEffects}}

\* what a turn may do to the scenario, "ScenarioProgressUpdate"
Updates(s) ==
  [to : s.scenes \cup {NoRef}, adds : Seq(s.flags), ending : s.endings \cup {NoRef},
   elapsed : 0..1, alert : -5..5,
   facts : SUBSET [ref : FactRefs, text : Texts, scene : s.scenes]]

\* What a definition is made of; one without a world protects nothing.
ASSUME DefinitionAssumption ==
  \A s \in Stories :
    /\ IsFiniteSet(s.scenes) /\ IsFiniteSet(s.flags)
    /\ NoRef \notin s.scenes \cup s.endings \cup Updates(s)
    /\ \A action \in s.actions : \A effect \in Effects(action) :
         /\ effect.adds \in Seq(s.flags)
         /\ effect.overrides \in Seq([requires : SUBSET s.flags, ending : s.endings])
    /\ \A scene \in s.scenes :
         /\ s.foes[scene] \subseteq Foes
         /\ LET combat == s.combat[scene]
            IN  combat # NoRef => combat.sides \in Nat /\ combat.bonus \in Nat
    /\ s.bounded \/ s.protected = {}
    /\ s.potions \in Nat
    /\ \A weapon \in s.weapons : weapon.sides \in Nat /\ weapon.bonus \in Nat

\* Only what can be read and says which entities there are is played.
ASSUME AcceptedAssumption == \A s \in Stories : ValidGraph(s) /\ s.initialized

\* A free action moves the player or ends the adventure, not both.
ASSUME ProposalAssumption ==
  \A effect \in OpenEffects :
    /\ effect.next = NoRef \/ effect.ending = NoRef
    /\ effect.adds \in Seq(Listed(effect.adds))
    /\ effect.alert \in Int
    /\ effect.facts \in SUBSET [ref : FactRefs, text : Texts]

VARIABLES story,      \* the pinned definition
          run,        \* "mvp_scenario_runs" row, its flags and generated facts
          scenes,     \* status of each "scenes" row
          hp,         \* current_hp of each "mvp_characters" row
          potions,    \* quantity of the hero's healing potion
          version,    \* state_version of the campaign
          origin,     \* history: the scene in which each flag was set
          work        \* the worker that resolves the open turn

vars == <<story, run, scenes, hp, potions, version, origin, work>>
canonical == <<run, scenes, hp, potions>>

-----------------------------------------------------------------------------
(* Rows *)

Run == [status : {"active", "completed"}, ending : story.endings \cup {NoRef},
        flags : SUBSET story.flags, alert : 0..5, elapsed : Nat,
        facts : SUBSET [ref : FactRefs, text : Texts, scene : story.scenes]]

MaxHp(who) == IF who = Hero THEN Preset.max_hp ELSE FoeStats[who].max_hp
Defense(who) == IF who = Hero THEN Preset.defense ELSE FoeStats[who].defense
AttackBonus(who) == IF who = Hero THEN Preset.attack_bonus ELSE FoeStats[who].attack_bonus

Idle == [pc |-> "idle"]

\* What an adventure start writes: the first scene is active, all are healthy.
Init ==
  /\ story \in Stories
  /\ run = [status |-> "active", ending |-> NoRef, flags |-> {}, alert |-> 0,
            elapsed |-> 0, facts |-> {}]
  /\ scenes = [scene \in story.scenes |-> IF scene = story.start THEN "active" ELSE "planned"]
  /\ hp = [who \in Foes \cup {Hero} |-> MaxHp(who)]
  /\ potions = story.potions
  /\ version = 0
  /\ origin = [flag \in story.flags |-> NoRef]
  /\ work = Idle

\* the scene the player is in, while the run is active
Here == CHOOSE scene \in story.scenes : scenes[scene] = "active"

-----------------------------------------------------------------------------
(* Dice and rules: engine/dice.py, engine/ruleset.py *)

DifficultyClass == [easy |-> 8, normal |-> 12, hard |-> 16]

\* outcomes of a d20 with a modifier against a number to reach
D20(modifier, goal) ==
  {IF roll + modifier >= goal THEN "success" ELSE "failure" : roll \in 1..20}

\* hit points left after damage from one die, never below zero
Wounded(points, dice) ==
  {IF roll + dice.bonus > points THEN 0 ELSE points - (roll + dice.bonus) : roll \in 1..dice.sides}

\* hit points after a potion (1d6+2), never above the maximum
Healed(points, most) ==
  {IF points + roll + 2 > most THEN most ELSE points + roll + 2 : roll \in 1..6}

\* what an attack of one on the other can do to the hit points
Struck(points, attacker, target, dice) ==
  UNION {IF outcome = "success" THEN Wounded(points, dice) ELSE {points} :
         outcome \in D20(AttackBonus(attacker), Defense(target))}

Fists == [sides |-> 2, bonus |-> 0]

-----------------------------------------------------------------------------
(* Intents and their bindings *)

\* Free actions: a check has two effects, an action without a check one; the
\* action may be about a fact noted before.
OpenIntents ==
  [kind : {"open_action"}, about : FactRefs \cup {NoRef},
   won : OpenEffects, lost : OpenEffects \cup {NoRef}]

Intents ==
  [kind : {"scenario_action"}, key : {a.key : a \in {b \in story.actions : b.kind = "scenario_action"}}]
    \cup [kind : {"skill_check"}, key : SupportedSkills]
    \cup [kind : {"attack"}, key : Foes, dice : story.weapons \cup {Fists}]
    \cup [kind : {"use_item"}]
    \cup OpenIntents

\* The registered action an intent means here, if any.
Bound(intent) ==
  IF intent.kind \in {"scenario_action", "skill_check", "attack"}
  THEN Matching(story, Here, intent.kind, intent.key)
  ELSE {}

-----------------------------------------------------------------------------
(* What an action does to the scenario: ScenarioProgressor *)

NoUpdate == [to |-> NoRef, adds |-> <<>>, ending |-> NoRef, elapsed |-> 0, alert |-> 0, facts |-> {}]

\* Mutant: a registered action may take an item anywhere.
FitsAnywhere(effect) ==
  LET ending == EndingOf(effect, run.flags)
  IN  story.schema = 2 /\ ending # NoRef => story.required[ending] \subseteq run.flags \cup Listed(effect.adds)

\* Mutant: an ending is not earned by the flags its own action sets.
FitsBefore(effect) ==
  LET ending == EndingOf(effect, run.flags)
  IN  /\ ~(story.bounded /\ Misplaced(story, Here, run.flags, Listed(effect.adds)))
      /\ story.schema = 2 /\ ending # NoRef => story.required[ending] \subseteq run.flags

\* A registered effect is applied unless it takes an item elsewhere than where
\* it is, or reaches an ending whose flags are not held; definitions of schema 1
\* are not held to the latter.
Fits(effect) ==
  LET ending == EndingOf(effect, run.flags)
  IN  /\ ~(story.bounded /\ Misplaced(story, Here, run.flags, Listed(effect.adds)))
      /\ story.schema = 2 /\ ending # NoRef =>
           story.required[ending] \subseteq run.flags \cup Listed(effect.adds)

\* Mutant: flags that are held are added again.
AllFlags(effect) == effect.adds

NewFlags(effect) == Without(effect.adds, run.flags)

ProgressFor(effect) ==
  [to |-> effect.next, adds |-> NewFlags(effect),
   ending |-> EndingOf(effect, run.flags),
   elapsed |-> IF story.ruleset = "mvp_v2" THEN 1 ELSE 0, alert |-> 0, facts |-> {}]

Defeats == {story.combat[scene].defeat : scene \in {s \in story.scenes : story.combat[s] # NoRef}}

\* A free action stays within what its scene leaves open.
OpenFits(effect) ==
  /\ Listed(effect.adds) \subseteq story.openFlags[Here]
  /\ story.goal.flag \in Listed(effect.adds) => Here = story.goal.scene
  /\ ~Misplaced(story, Here, run.flags, Listed(effect.adds))
  /\ effect.ending # NoRef =>
       /\ effect.ending \in story.endings \ Defeats
       /\ story.required[effect.ending] \subseteq run.flags \cup Listed(effect.adds)
  /\ effect.next # NoRef => effect.next \in story.openTo[Here]
  /\ \A fact \in effect.facts :
       /\ fact.ref \notin story.reserved
       /\ \A known \in run.facts :
            known.ref = fact.ref => known.text = fact.text /\ known.scene = Here
       /\ \A other \in effect.facts : other.ref = fact.ref => other = fact

\* It may be about a fact that is known, a place or a person only where it is.
Mentionable(about) ==
  about # NoRef =>
    \E fact \in run.facts :
       fact.ref = about /\ (about \in LocalFacts => fact.scene = Here)

\* The alert meter saturates at its ends.
Saturated(delta) ==
  (IF run.alert + delta < 0 THEN 0 ELSE IF run.alert + delta > 5 THEN 5 ELSE run.alert + delta)
    - run.alert

ProgressOpen(effect) ==
  [to |-> IF effect.next = Here THEN NoRef ELSE effect.next,
   adds |-> NewFlags(effect), ending |-> effect.ending,
   elapsed |-> 1, alert |-> Saturated(effect.alert),
   facts |-> {[ref |-> fact.ref, text |-> fact.text, scene |-> Here] :
                fact \in {f \in effect.facts : \A known \in run.facts : known.ref # f.ref}}]

-----------------------------------------------------------------------------
(* The plan is checked as a whole against the saved run *)

IntentIsValid(intent) ==
  \/ /\ intent.kind \in {"scenario_action", "skill_check"}
     /\ Bound(intent) # {}
  \/ /\ intent.kind = "attack"
     /\ intent.key \in story.foes[Here]
     /\ hp[intent.key] > 0
  \/ /\ intent.kind = "use_item"
     /\ potions > 0 /\ hp[Hero] < MaxHp(Hero)
  \/ /\ intent.kind = "open_action"
     /\ IsOpen(story)
     /\ Mentionable(intent.about)
     /\ OpenFits(intent.won)
     /\ intent.lost # NoRef => OpenFits(intent.lost)

\* Mutant: the flag conditions of registered actions are not checked.
PreflightUnflagged(plan) ==
  /\ hp[Hero] > 0
  /\ IsOpen(story) => Len(plan) = 1
  /\ \A i \in 1..Len(plan) :
       IntentIsValid(plan[i]) /\ (plan[i].kind = "open_action" => Len(plan) = 1)
  /\ \A i, k \in 1..Len(plan) : Bound(plan[i]) # {} /\ Bound(plan[k]) # {} => i = k

Preflight(plan) ==
  /\ hp[Hero] > 0
  /\ IsOpen(story) => Len(plan) = 1
  /\ \A i \in 1..Len(plan) :
       /\ IntentIsValid(plan[i])
       /\ \A action \in Bound(plan[i]) : IsAvailable(action, run.flags)
       /\ plan[i].kind = "open_action" => Len(plan) = 1
  /\ \A i, k \in 1..Len(plan) : Bound(plan[i]) # {} /\ Bound(plan[k]) # {} => i = k

Decide ==
  /\ work.pc = "idle"
  /\ run.status = "active"
  /\ version < MaxVersion
  /\ \E n \in 1..MaxActions : \E plan \in [1..n -> {i \in Intents : IntentIsValid(i)}] :
       /\ Preflight(plan)
       /\ work' = [pc |-> "resolving", plan |-> plan, hp |-> hp, potions |-> potions,
                   update |-> NoRef, applied |-> FALSE, changed |-> FALSE, attacked |-> {}]
  /\ UNCHANGED <<story, canonical, version, origin>>

-----------------------------------------------------------------------------
(* Actions are resolved one after the other: _resolve_actions *)

\* The action of the plan whose turn it is had a result; some of it may matter
\* to the scenario.
Resolved(intent, points, left, update) ==
  work' = [work EXCEPT !.plan = Tail(work.plan), !.hp = points, !.potions = left,
                       !.update = update, !.applied = TRUE,
                       !.changed = @ \/ points # work.hp \/ left # work.potions,
                       !.attacked = IF intent.kind = "attack" THEN @ \cup {intent.key} ELSE @]

The(set) == CHOOSE element \in set : TRUE

ResolveDirect(intent) ==
  /\ intent.kind = "scenario_action"
  /\ LET effect == The(Bound(intent)).won
     IN  /\ Fits(effect)
         /\ Resolved(intent, work.hp, work.potions, ProgressFor(effect))

ResolveSkill(intent) ==
  /\ intent.kind = "skill_check"
  /\ \E outcome \in D20(Preset.skills[intent.key], DifficultyClass[Difficulty[intent.key]]) :
       LET action == The(Bound(intent))
           effect == IF outcome = "success" THEN action.won ELSE action.lost
       IN  /\ Fits(effect)
           /\ Resolved(intent, work.hp, work.potions, ProgressFor(effect))

\* Only the blow that defeats the target of a registered attack moves the story.
ResolveAttack(intent) ==
  /\ intent.kind = "attack" /\ work.hp[intent.key] > 0
  /\ \E points \in Struck(work.hp[intent.key], Hero, intent.key, intent.dice) :
       LET left == [work.hp EXCEPT ![intent.key] = points]
       IN  IF points > 0 \/ Bound(intent) = {}
           THEN Resolved(intent, left, work.potions, work.update)
           ELSE LET effect == The(Bound(intent)).won
                IN  /\ Fits(effect)
                    /\ Resolved(intent, left, work.potions, ProgressFor(effect))

ResolvePotion(intent) ==
  /\ intent.kind = "use_item"
  /\ work.potions > 0 /\ work.hp[Hero] < MaxHp(Hero)
  /\ \E points \in Healed(work.hp[Hero], MaxHp(Hero)) :
       Resolved(intent, [work.hp EXCEPT ![Hero] = points], work.potions - 1, work.update)

ResolveOpen(intent) ==
  /\ intent.kind = "open_action"
  /\ \E effect \in {intent.won} \cup ({intent.lost} \ {NoRef}) :
       /\ OpenFits(effect)
       /\ Resolved(intent, work.hp, work.potions, ProgressOpen(effect))

\* An earlier action of the plan has taken what this one needs.
NotApplicable(intent) ==
  /\ \/ intent.kind = "attack" /\ work.hp[intent.key] = 0
     \/ intent.kind = "use_item" /\ (work.potions = 0 \/ work.hp[Hero] >= MaxHp(Hero))
  /\ work' = [work EXCEPT !.plan = Tail(work.plan)]

Resolve ==
  /\ work.pc = "resolving" /\ work.plan # <<>>
  /\ LET intent == Head(work.plan)
     IN  \/ ResolveDirect(intent)
         \/ ResolveSkill(intent)
         \/ ResolveAttack(intent)
         \/ ResolvePotion(intent)
         \/ ResolveOpen(intent)
         \/ NotApplicable(intent)
  /\ UNCHANGED <<story, canonical, version, origin>>

-----------------------------------------------------------------------------
(* The enemy strikes back: resolve_enemy_reaction *)

\* In an open story every action that was carried out takes time.
Passed ==
  IF work.update = NoRef /\ IsOpen(story) /\ work.applied
  THEN [NoUpdate EXCEPT !.elapsed = 1]
  ELSE work.update

Stays(update) == update = NoRef \/ (update.to = NoRef /\ update.ending = NoRef)

Provoked(combat) ==
  /\ combat # NoRef
  /\ work.applied /\ Stays(Passed)
  /\ combat.started \in run.flags \/ combat.enemy \in work.attacked
  /\ work.hp[combat.enemy] > 0 /\ work.hp[Hero] > 0

\* Mutant: the update is made anew, without the time and the facts of the action.
ReactionAlone(combat, points) ==
  LET adds == IF combat.started \in run.flags THEN <<>> ELSE <<combat.started>>
  IN  IF adds = <<>> /\ points > 0
      THEN Passed
      ELSE [NoUpdate EXCEPT !.adds = adds,
                            !.ending = IF points = 0 THEN combat.defeat ELSE NoRef]

\* The fight has started; the hero who falls ends the run in defeat.  What the
\* action itself did to the scenario is kept.
AfterReaction(combat, points) ==
  LET before == IF Passed = NoRef THEN NoUpdate ELSE Passed
      adds   == IF combat.started \in run.flags \cup Listed(before.adds)
                THEN before.adds
                ELSE Append(before.adds, combat.started)
  IN  IF adds = <<>> /\ points > 0
      THEN Passed
      ELSE [before EXCEPT !.adds = adds,
                          !.ending = IF points = 0 THEN combat.defeat ELSE NoRef]

\* The bundle: what the worker will ask the database to commit.
Bundle(points, update) ==
  work' = [pc |-> "bundled", hp |-> [work.hp EXCEPT ![Hero] = points],
           potions |-> work.potions, update |-> update,
           changed |-> work.changed \/ points # work.hp[Hero] \/ update # NoRef]

Conclude ==
  /\ work.pc = "resolving" /\ work.plan = <<>>
  /\ LET combat == story.combat[Here]
     IN  IF Provoked(combat)
         THEN \E points \in Struck(work.hp[Hero], combat.enemy, Hero, combat) :
                Bundle(points, AfterReaction(combat, points))
         ELSE Bundle(work.hp[Hero], Passed)
  /\ UNCHANGED <<story, canonical, version, origin>>

-----------------------------------------------------------------------------
(* The commit: project_resolution, commit_resolution *)

\* Scenes that can be entered: one that was left only under mvp_v2.
Enterable(scene) ==
  \/ scenes[scene] = "planned"
  \/ scenes[scene] = "closed" /\ story.ruleset = "mvp_v2"

ActiveAfter(update) ==
  ({scene \in story.scenes : scenes[scene] = "active"}
     \ (IF update.to # NoRef \/ update.ending # NoRef THEN {Here} ELSE {}))
  \cup ({update.to} \ {NoRef})

\* Flags are inserted one by one under the primary key of "mvp_scenario_flags".
NamesFlagTwice(update) == NamesTwice(update.adds)

UpdateIsValid(update) ==
  /\ run.status = "active"
  /\ update.to # NoRef => Enterable(update.to)
  /\ update.to = NoRef \/ update.ending = NoRef
  /\ run.alert + update.alert \in 0..5
  /\ story.ruleset # "mvp_v2" =>
       update.elapsed = 0 /\ update.alert = 0 /\ update.facts = {}
  /\ Cardinality(ActiveAfter(update)) <= 1
  /\ ~NamesFlagTwice(update) /\ Listed(update.adds) \cap run.flags = {}

\* what the projection of the bundle finds changed: the net difference
NetChange == work.hp # hp \/ work.potions # potions \/ work.update # NoRef

BundleIsValid ==
  /\ work.update # NoRef => UpdateIsValid(work.update)
  /\ work.changed = NetChange     \* the version the narration was promised
  /\ \A who \in DOMAIN hp : work.hp[who] \in 0..MaxHp(who)
  /\ work.potions >= 0

Applied(update) ==
  /\ run' = [run EXCEPT !.flags = @ \cup Listed(update.adds),
                        !.status = IF update.ending = NoRef THEN @ ELSE "completed",
                        !.ending = IF update.ending = NoRef THEN @ ELSE update.ending,
                        !.alert = @ + update.alert, !.elapsed = @ + update.elapsed,
                        !.facts = @ \cup update.facts]
  /\ scenes' = [scene \in story.scenes |->
                  IF scene = update.to THEN "active"
                  ELSE IF scene = Here /\ ~Stays(update) THEN "closed"
                  ELSE scenes[scene]]
  /\ origin' = [flag \in story.flags |-> IF flag \in Listed(update.adds) THEN Here ELSE origin[flag]]

Commit ==
  /\ work.pc = "bundled"
  /\ BundleIsValid
  /\ IF work.update = NoRef THEN UNCHANGED <<run, scenes, origin>> ELSE Applied(work.update)
  /\ hp' = work.hp /\ potions' = work.potions
  /\ version' = IF NetChange THEN version + 1 ELSE version
  /\ work' = Idle
  /\ UNCHANGED story

\* The turn fails, is refused, or its worker dies: nothing was written.
Drop ==
  /\ work.pc # "idle"
  /\ work' = Idle
  /\ UNCHANGED <<story, canonical, version, origin>>

Next == Decide \/ Resolve \/ Conclude \/ Commit \/ Drop

Spec == Init /\ [][Next]_vars

-----------------------------------------------------------------------------
(* Properties *)

Points == [Foes \cup {Hero} -> Nat]

WorkState ==
  {Idle}
    \cup [pc : {"resolving"}, plan : Seq(Intents), hp : Points, potions : Nat,
          update : Updates(story) \cup {NoRef}, applied : BOOLEAN, changed : BOOLEAN,
          attacked : SUBSET Foes]
    \cup [pc : {"bundled"}, hp : Points, potions : Nat,
          update : Updates(story) \cup {NoRef}, changed : BOOLEAN]

\* The rows keep their types, hit points their bounds.
TypeOK ==
  /\ story \in Stories
  /\ run \in Run
  /\ scenes \in [story.scenes -> {"planned", "active", "closed"}]
  /\ hp \in [Foes \cup {Hero} -> Nat] /\ \A who \in DOMAIN hp : hp[who] <= MaxHp(who)
  /\ potions \in Nat /\ version \in Nat
  /\ origin \in [story.flags -> story.scenes \cup {NoRef}]
  /\ work \in WorkState

ActiveScenes == {scene \in story.scenes : scenes[scene] = "active"}

\* The player is in one scene while the run lasts, and in none after it; a hero
\* who has fallen does not play on.
OneScene ==
  IF run.status = "active"
  THEN Cardinality(ActiveScenes) = 1 /\ run.ending = NoRef /\ hp[Hero] > 0
  ELSE ActiveScenes = {} /\ run.ending # NoRef

\* An ending was earned with its flags, or is the defeat of a hero who fell.  The
\* registered actions of a definition of schema 1 are not asked for the flags.
EndingIsEarned ==
  story.schema = 2 /\ run.ending # NoRef =>
    \/ story.required[run.ending] \subseteq run.flags
    \/ hp[Hero] = 0 /\ run.ending \in Defeats

\* Whatever named the flag - a registered action, a free one - a protected item
\* was taken where its author put it, unless its flag is also the one with which a
\* fight starts: a reaction does not ask where items are.
ItemsTakenInPlace ==
  \A item \in story.protected : item.flag \in run.flags =>
    LET scene == origin[item.flag] IN
    \/ scene = item.scene
    \/ story.combat[scene] # NoRef /\ story.combat[scene].started = item.flag

\* A fact noted once is not told differently later.
FactsAgree == \A f, g \in run.facts : f.ref = g.ref => f = g

\* Scene rows, run row, hit points, flags and facts are written together by
\* several paths (registered, free, attack, reaction), keep their ranges and always agree.
RunIsWhole == TypeOK /\ OneScene /\ EndingIsEarned /\ ItemsTakenInPlace /\ FactsAgree

\* The positions the validator finds in each story.
Found == [s \in Stories |-> Explored(s)]

\* The stories it refuses nothing of, when its search can finish.
Sound == {s \in Stories : IsSound(s)}

\* A position of a play is one the validator has explored, so that what it found
\* out about the story holds for the game.
PlayIsExplored ==
  run.status = "active" /\ ~Uncertain(story) =>
    Position(Here, run.flags) \in Found[story]

\* Some registered action can be tried here, and some outcome of it would be
\* committed and would lead on: to another position or to an ending.
LeadsOn(action, effect) ==
  LET update == ProgressFor(effect)
  IN  /\ IsAvailable(action, run.flags) /\ Fits(effect)
      /\ UpdateIsValid(update)
      /\ update.adds # <<>> \/ ~Stays(update)

\* The validator lets no story pass in which the player is certainly stuck: where
\* it finds no dead end and nothing but registered actions counts, one of them
\* always leads on.
PlaysGoOn ==
  run.status = "active" /\ ~Uncertain(story) /\ story \in Sound =>
    \E action \in ActionsAt(story, Here) : \E effect \in Effects(action) : LeadsOn(action, effect)

\* Scenes can be ordered so that every registered action leads forward.
NoWayBack(s) ==
  \E rank \in [s.scenes -> 1..Cardinality(s.scenes)] :
    \A action \in s.actions : \A effect \in Effects(action) :
      effect.next # NoRef => rank[action.scene] < rank[effect.next]

NoFlagTwice(s) ==
  \A action \in s.actions : \A effect \in Effects(action) :
    ~NamesTwice(effect.adds)

\* The promise of PlaysGoOn is kept for stories that never lead back to a scene
\* (where ruleset mvp_v1 does not let the player go) and name no flag twice.
ForwardPlaysGoOn == NoWayBack(story) /\ NoFlagTwice(story) => PlaysGoOn

\* What the worker resolved, the commit accepts: worker and projection agree on
\* what changed, a reaction does not spoil the update it is merged into, no flag
\* is set again.  The two exceptions are the ones the code leaves open: a way
\* back under mvp_v1 (or into the same scene), and a flag named twice.
BundlesAreAccepted ==
  work.pc = "bundled" =>
    \/ BundleIsValid
    \/ /\ work.update # NoRef
       /\ \/ work.update.to # NoRef /\ ~Enterable(work.update.to)
          \/ NamesFlagTwice(work.update)

\* No state changes without its version moving by one, so that a choice or a
\* confirmation made for a version never meets another state; a version is spent
\* for nothing only by an action of a mvp_v1 story that had nothing left to set;
\* and in an open story a turn that changes anything takes exactly one unit of
\* time, also when it is a fight.
StepsAreCounted ==
  [][/\ canonical' # canonical => version' = version + 1
     /\ version' # version /\ canonical' = canonical =>
          work.update # NoRef /\ story.ruleset # "mvp_v2"
     /\ IsOpen(story) =>
          run'.elapsed - run.elapsed = version' - version]_vars
===============================================================================
