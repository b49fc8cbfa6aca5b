-------------------------- MODULE MCStoryValidation ---------------------------
(***************************************************************************)
(* Small definitions for the validator: every choice of up to five of a    *)
(* pool of actions over three scenes, two flags and two endings, and the   *)
(* same with a world or a fight.                                           *)
(***************************************************************************)
EXTENDS StoryValidation

CONSTANT none

Stay(adds)         == Effect(none, none, adds, <<>>)
GoTo(scene, adds)  == Effect(scene, none, adds, <<>>)
EndWith(ending)    == Effect(none, ending, <<>>, <<>>)
EndOr(ending, flags, other) ==
  Effect(none, ending, <<>>, <<[requires |-> flags, ending |-> other]>>)

Do(ref, scene, needs, bars, won) ==
  Action(ref, scene, "scenario_action", ref, needs, bars, won, won)
Try(ref, scene, skill, needs, won, lost) ==
  Action(ref, scene, "skill_check", skill, needs, {}, won, lost)
Strike(ref, scene, needs, won) ==
  Action(ref, scene, "attack", "wolf", needs, {}, won, won)

Pool ==
  {Do("enter", "gate", {}, {}, GoTo("hall", <<>>)),
   Do("return", "hall", {}, {}, GoTo("gate", <<>>)),
   Do("descend", "hall", {"key"}, {}, GoTo("vault", <<>>)),
   Do("take_key", "hall", {}, {"key"}, Stay(<<"key">>)),
   Do("leave", "gate", {"key"}, {}, EndOr("out", {"alarm"}, "caught")),
   Do("flee", "vault", {}, {"alarm"}, EndWith("out")),
   Try("sneak", "hall", "stealth", {}, GoTo("vault", <<>>), Stay(<<"alarm", "alarm">>)),
   Strike("hit_wolf", "gate", {}, EndWith("out"))}

\* actions whose definition is not in order
Faulty ==
  {Do("jump", "gate", {}, {}, GoTo("moon", <<>>)),
   Do("wish", "gate", {"key"}, {"key"}, Stay(<<>>)),
   Strike("hit_door", "vault", {}, EndWith("out"))}

Base ==
  [scenes |-> {"gate", "hall", "vault"}, start |-> "gate",
   flags |-> {"key", "alarm"},
   endings |-> {"out", "caught"},
   required |-> [out |-> {}, caught |-> {"alarm"}],
   actions |-> {},
   combat |-> [gate |-> none, hall |-> none, vault |-> none],
   foes |-> [gate |-> {"wolf"}, hall |-> {}, vault |-> {}],
   bounded |-> FALSE, ruleset |-> "mvp_v1",
   goal |-> [flag |-> "key", scene |-> "hall"],
   protected |-> {},
   openFlags |-> [gate |-> {}, hall |-> {}, vault |-> {}],
   openTo |-> [gate |-> {}, hall |-> {}, vault |-> {}],
   capabilities |-> {"skill_checks", "combat"},
   schema |-> 2, initialized |-> TRUE, reserved |-> {}, potions |-> 0, weapons |-> {}]

Fight == [enemy |-> "wolf", started |-> "alarm", defeat |-> "caught",
          sides |-> 4, bonus |-> 0]

InAWorld(story) ==
  [story EXCEPT !.bounded = TRUE,
                !.protected = {[flag |-> "alarm", scene |-> "vault"]},
                !.capabilities = @ \cup {"protected_facts"}]

WithAFight(story) == [story EXCEPT !.combat["gate"] = Fight]

Plain == {[Base EXCEPT !.actions = chosen] : chosen \in {c \in SUBSET Pool : Cardinality(c) <= 5}}

SomeDrafts ==
  Plain
    \cup {InAWorld(story) : story \in Plain}
    \cup {WithAFight(story) : story \in Plain}
    \cup {[Base EXCEPT !.actions = {action}] : action \in Faulty}
    \cup {[Base EXCEPT !.actions = Pool, !.schema = schema, !.initialized = initialized] :
           schema \in {1, 2}, initialized \in BOOLEAN}
    \cup {[story EXCEPT !.schema = 1, !.initialized = FALSE] : story \in {s \in Plain : Cardinality(s.actions) = 4}}
===============================================================================
