------------------------------ MODULE StoryGraph ------------------------------
(***************************************************************************)
(* An authored story as a finite graph: its scenes, registered actions,    *)
(* flags and endings, the rules a definition must satisfy to be read at    *)
(* all, and the graph of (scene, flags) positions that the validator       *)
(* explores.  There is no state here: StoryValidation runs the search of   *)
(* the validator over these definitions, ScenarioPlay plays the story.     *)
(*                                                                         *)
(* A story is a record                                                     *)
(*    scenes, flags, endings   its sets of references                      *)
(*    start                    the scene of sequence 1                     *)
(*    required[e]              flags an ending asks for                    *)
(*    actions                  registered actions, see Action              *)
(*    combat[s]                the fight of a scene, see Combat, or NoRef  *)
(*    foes[s]                  characters that can be attacked in a scene  *)
(*    bounded                  the story has a "world"                     *)
(*    ruleset                  "mvp_v1" or "mvp_v2"                        *)
(*    schema                   1 or 2                                      *)
(*    initialized              it says which entities there are; those     *)
(*                             that do not can be read but not played      *)
(*    goal                     flag and scene of the object of the world   *)
(*    protected                flag and scene of the protected items       *)
(*    openFlags[s], openTo[s]  what a free action may set, where it leads  *)
(*    capabilities             what the author declares the story needs    *)
(*    potions, weapons         what the hero starts with; a weapon is the  *)
(*                             die and the bonus of its damage             *)
(*    reserved                 references a generated fact may not take    *)
(***************************************************************************)
EXTENDS Integers, FiniteSets, Sequences

CONSTANT NoRef      \* stands for an absent reference

\* what a list names
Listed(list) == {list[i] : i \in 1..Len(list)}

NamesTwice(list) == \E i, k \in 1..Len(list) : i # k /\ list[i] = list[k]

\* what a list names that is not in a set, in the same order
Without(list, set) ==
  LET kept[n \in 0..Len(list)] ==
        IF n = 0 THEN <<>>
        ELSE IF list[n] \in set THEN kept[n - 1] ELSE Append(kept[n - 1], list[n])
  IN  kept[Len(list)]

-----------------------------------------------------------------------------
(* Actions and what they do *)

\* Effects name a scene to go to or an ending to reach, not both, and list the
\* flags to set; nothing keeps a list from naming a flag twice.
Effect(next, ending, adds, overrides) ==
  [next |-> next, ending |-> ending, adds |-> adds, overrides |-> overrides]

\* "won" is the effect of a success (of a defeat, for an attack), "lost" of a
\* failed skill check; "key" is the skill of a check, the target of an attack
\* and the reference itself of a direct scenario action.
Action(ref, scene, kind, key, needs, bars, won, lost) ==
  [ref |-> ref, scene |-> scene, kind |-> kind, key |-> key,
   needs |-> needs, bars |-> bars, won |-> won, lost |-> lost]

ActionsAt(story, scene) == {action \in story.actions : action.scene = scene}

\* the actions a request for this kind and key could mean
Matching(story, scene, kind, key) ==
  {action \in ActionsAt(story, scene) : action.kind = kind /\ action.key = key}

IsAvailable(action, flags) ==
  /\ action.needs \subseteq flags
  /\ action.bars \cap flags = {}

Effects(action) ==
  IF action.kind = "skill_check" THEN {action.won, action.lost} ELSE {action.won}

\* The first override whose flags are held replaces the ending of the effect.
EndingOf(effect, flags) ==
  LET held == {i \in 1..Len(effect.overrides) : effect.overrides[i].requires \subseteq flags}
  IN  IF held = {}
      THEN effect.ending
      ELSE effect.overrides[CHOOSE i \in held : \A k \in held : i <= k].ending

\* A protected item is taken only where its author placed it.
Misplaced(story, scene, flags, adds) ==
  \E fact \in story.protected :
     fact.flag \in adds \ flags /\ fact.scene # scene

Fights(story) == \E scene \in story.scenes : story.combat[scene] # NoRef

\* The rules of a story with a world under mvp_v2: free actions are accepted.
IsOpen(story) == story.bounded /\ story.ruleset = "mvp_v2"

-----------------------------------------------------------------------------
(* What a definition must satisfy: ScenarioDefinition.valid_graph *)

SupportedSkills == {"perception", "persuasion", "stealth"}

EffectIsValid(story, effect) ==
  /\ effect.next = NoRef \/ effect.ending = NoRef
  /\ effect.next \in story.scenes \cup {NoRef}
  /\ effect.ending \in story.endings \cup {NoRef}
  /\ Listed(effect.adds) \subseteq story.flags
  /\ effect.overrides # <<>> => effect.ending # NoRef
  /\ \A i \in 1..Len(effect.overrides) :
        /\ effect.overrides[i].requires \subseteq story.flags
        /\ effect.overrides[i].ending \in story.endings

ActionIsValid(story, action) ==
  /\ action.scene \in story.scenes
  /\ action.needs \cup action.bars \subseteq story.flags
  /\ action.needs \cap action.bars = {}
  /\ action.kind = "skill_check" => action.key \in SupportedSkills
  /\ \A effect \in Effects(action) : EffectIsValid(story, effect)

CombatIsValid(story, scene) ==
  LET combat == story.combat[scene]
  IN  combat # NoRef =>
        /\ Matching(story, scene, "attack", combat.enemy) # {}
        /\ combat.started \in story.flags
        /\ combat.defeat \in story.endings

WorldIsValid(story) ==
  /\ story.bounded =>
       /\ story.goal.scene \in story.scenes
       /\ story.goal.flag \in story.flags
       /\ \A fact \in story.protected : fact.scene \in story.scenes
  /\ \A scene \in story.scenes :
       /\ story.openFlags[scene] \subseteq story.flags
       /\ story.openTo[scene] \subseteq story.scenes

Kinds(story) == {action.kind : action \in story.actions}

\* Capabilities the content needs; the author must have declared each.
Needed(story) ==
  {need \in {"skill_checks", "combat", "item_use", "open_actions", "protected_facts"} :
     \/ need = "skill_checks" /\ "skill_check" \in Kinds(story)
     \/ need = "combat" /\ "attack" \in Kinds(story)
     \/ need = "item_use" /\ story.potions > 0
     \/ need = "open_actions" /\ IsOpen(story)
     \/ need = "protected_facts" /\ story.protected # {}}

\* Skills and targets mean one action in their scene, targets are there, and under
\* schema 2 the author has declared what the story needs.
InitializationIsValid(story) ==
  /\ \A a, b \in story.actions :
        a.kind # "scenario_action" /\ a # b =>
          <<a.scene, a.kind, a.key>> # <<b.scene, b.kind, b.key>>
  /\ \A action \in story.actions :
        action.kind = "attack" => action.key \in story.foes[action.scene]
  /\ story.bounded => \A fact \in story.protected : fact.flag \in story.flags
  /\ story.schema = 2 => Needed(story) \subseteq story.capabilities
  /\ "open_actions" \in story.capabilities => IsOpen(story)

ValidGraph(story) ==
  /\ story.start \in story.scenes
  /\ \A a, b \in story.actions : a.ref = b.ref => a = b
  /\ \A ending \in story.endings : story.required[ending] \subseteq story.flags
  /\ \A action \in story.actions : ActionIsValid(story, action)
  /\ \A scene \in story.scenes : CombatIsValid(story, scene)
  /\ WorldIsValid(story)
  /\ story.schema = 2 => story.initialized
  /\ story.initialized => InitializationIsValid(story)

-----------------------------------------------------------------------------
(* The graph the validator explores *)

Position(scene, flags) == [scene |-> scene, flags |-> flags]

Start(story) == Position(story.start, {})

\* Flags after an effect; an attack in a scene with a fight starts the fight.
Resulting(story, at, action, effect) ==
  LET combat == story.combat[at.scene]
  IN  at.flags \cup Listed(effect.adds)
        \cup (IF action.kind = "attack" /\ combat # NoRef THEN {combat.started} ELSE {})

\* Effects that are passed over: the goal object or an item is not here.
PassedOver(story, at, effect) ==
  \/ story.bounded /\ story.goal.flag \in Listed(effect.adds) /\ at.scene # story.goal.scene
  \/ story.bounded /\ Misplaced(story, at.scene, at.flags, Listed(effect.adds))

\* What can be tried at a position: pairs of an action and one of its effects.
Offered(story, at) ==
  {offer \in UNION {{action} \X Effects(action) : action \in ActionsAt(story, at.scene)} :
     IsAvailable(offer[1], at.flags) /\ ~PassedOver(story, at, offer[2])}

\* the position an offer that reaches no ending leads to
Target(story, at, offer) ==
  Position(IF offer[2].next = NoRef THEN at.scene ELSE offer[2].next,
           Resulting(story, at, offer[1], offer[2]))

Moves(story, at) ==
  {Target(story, at, offer) :
     offer \in {o \in Offered(story, at) : EndingOf(o[2], at.flags) = NoRef}}

\* endings reached from a position, with the flags they ask for
Endings(story, at) ==
  {ending \in story.endings :
     \E offer \in Offered(story, at) :
        /\ EndingOf(offer[2], at.flags) = ending
        /\ story.required[ending] \subseteq Resulting(story, at, offer[1], offer[2])}

\* Positions within n moves of the start, by definition and not by search; there
\* are no more than those of a scene and a set of flags.
Explored(story) ==
  LET bound == Cardinality(story.scenes) * 2^Cardinality(story.flags)
      within[n \in 0..bound] ==
        IF n = 0
        THEN {Start(story)}
        ELSE LET nearer == within[n - 1]
             IN  nearer \cup UNION {Moves(story, at) : at \in nearer}
  IN  within[bound]

\* Positions without a way on: every move stays among them, none ends the story.
IsTrap(story, positions) ==
  /\ positions # {}
  /\ \A at \in positions : Moves(story, at) \subseteq positions /\ Endings(story, at) = {}

\* Open actions and HP can change these paths, so a dead end is no certain error.
Uncertain(story) == story.bounded \/ Fights(story)

\* There is no certain dead end among the positions that can be reached.
IsSound(story) ==
  Uncertain(story) \/ ~\E positions \in SUBSET Explored(story) : IsTrap(story, positions)
===============================================================================
