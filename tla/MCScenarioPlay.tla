---------------------------- MODULE MCScenarioPlay ----------------------------
(***************************************************************************)
(* Small stories for ScenarioPlay.                                         *)
(***************************************************************************)
EXTENDS ScenarioPlay

CONSTANT none

Go(scene, adds)   == Effect(scene, none, adds, <<>>)
Stay(adds)        == Effect(none, none, adds, <<>>)
EndWith(ending)   == Effect(none, ending, <<>>, <<>>)

Do(ref, scene, needs, bars, won) ==
  Action(ref, scene, "scenario_action", ref, needs, bars, won, won)

Scenes3(gate, hall, vault) == [gate |-> gate, hall |-> hall, vault |-> vault]
All3(value) == Scenes3(value, value, value)

\* Sneak in, or be heard; the ending depends on it.  Leads only forward.
Heist ==
  [scenes |-> {"gate", "hall", "vault"}, start |-> "gate", flags |-> {"key", "heard", "loot"},
   endings |-> {"rich", "caught"}, required |-> [rich |-> {"loot"}, caught |-> {}],
   actions |->
     {Do("enter", "gate", {}, {}, Go("hall", <<>>)),
      Do("take_key", "hall", {}, {"key"}, Stay(<<"key">>)),
      Action("sneak", "hall", "skill_check", "stealth", {"key"}, {},
             Go("vault", <<>>), Go("vault", <<"heard">>)),
      Action("listen", "hall", "skill_check", "perception", {}, {}, Stay(<<>>), Stay(<<>>)),
      Do("grab", "vault", {}, {},
         Effect(none, "rich", <<"loot">>, <<[requires |-> {"heard"}, ending |-> "caught"]>>))},
   combat |-> All3(none), foes |-> All3({}),
   bounded |-> FALSE, ruleset |-> "mvp_v1", schema |-> 2, initialized |-> TRUE,
   goal |-> [flag |-> "key", scene |-> "hall"], protected |-> {}, reserved |-> {},
   openFlags |-> All3({}), openTo |-> All3({}),
   capabilities |-> {"skill_checks"}, potions |-> 0, weapons |-> {}]

\* The same of an older schema, where one may leave without the loot and be rich.
OldHeist == [Heist EXCEPT !.schema = 1, !.actions = @ \cup {Do("leave", "gate", {}, {}, EndWith("rich"))}]

\* A wolf bars the way.
Hunt ==
  [Heist EXCEPT
     !.actions = {Do("enter", "gate", {}, {}, Go("hall", <<>>)),
                  Action("kill", "hall", "attack", "wolf", {}, {},
                         Stay(<<"key">>), Stay(<<"key">>)),
                  Do("pass", "hall", {"key"}, {}, EndWith("rich")),
                  Do("slip", "hall", {}, {"heard"}, Stay(<<"heard">>))},
     !.combat = Scenes3(none, [enemy |-> "wolf", started |-> "heard", defeat |-> "caught",
                               sides |-> 4, bonus |-> 0], none),
     !.foes = Scenes3({}, {"wolf"}, {}),
     !.required = [rich |-> {"key"}, caught |-> {}],
     !.capabilities = {"combat", "item_use"},
     !.potions = 1, !.weapons = {[sides |-> 4, bonus |-> 1]}]

\* The same wolf in a world of free actions.
Wilds ==
  [Hunt EXCEPT
     !.bounded = TRUE, !.ruleset = "mvp_v2",
     !.goal = [flag |-> "loot", scene |-> "vault"],
     !.protected = {[flag |-> "key", scene |-> "vault"]},
     !.reserved = {"relic"},
     !.actions = {Action("kill", "hall", "attack", "wolf", {}, {},
                         Stay(<<>>), Stay(<<>>)),
                  Do("take", "vault", {}, {"key"}, Stay(<<"key">>)),
                  Do("steal", "gate", {}, {"key"}, Stay(<<"key">>)),
                  Do("sell", "gate", {"key"}, {}, EndWith("rich"))},
     !.openFlags = Scenes3({}, {"heard", "key", "loot"}, {"key", "loot"}),
     !.openTo = Scenes3({"hall"}, {"gate", "vault"}, {"hall", "vault"}),
     !.capabilities = {"combat", "item_use", "open_actions", "protected_facts"}]

\* The errand: the key that opens the gate lies behind a scene one leaves for it.
Errand ==
  [Heist EXCEPT
     !.actions = {Do("search", "gate", {}, {"key"}, Go("hall", <<>>)),
                  Do("take_key", "hall", {}, {}, Go("gate", <<"key">>)),
                  Do("open", "gate", {"key"}, {}, EndWith("rich"))},
     !.scenes = {"gate", "hall"},
     !.combat = [gate |-> none, hall |-> none],
     !.foes = [gate |-> {}, hall |-> {}],
     !.openFlags = [gate |-> {}, hall |-> {}],
     !.openTo = [gate |-> {}, hall |-> {}],
     !.endings = {"rich"}, !.required = [rich |-> {}],
     !.capabilities = {}]

\* The errand under mvp_v2, which lets the player go back.
LongErrand == [Errand EXCEPT !.ruleset = "mvp_v2"]

\* An action that names its flag twice.
Stutter ==
  [Errand EXCEPT
     !.actions = {Do("take_key", "gate", {}, {"key"}, Stay(<<"key", "key">>)),
                  Do("open", "gate", {"key"}, {}, EndWith("rich"))}]

\* The wolf guards the item, and to fight it is to take it.
Guarded ==
  [Wilds EXCEPT
     !.combat = [@ EXCEPT !["hall"].started = "key"],
     !.openFlags = All3({}), !.openTo = All3({"hall"})]

SomeStories == {Heist, OldHeist, Hunt, Wilds, Guarded, Errand, LongErrand, Stutter}
ErrandOnly  == {Errand}

Open(next, ending, adds, alert, facts) ==
  [next |-> next, ending |-> ending, adds |-> adds, alert |-> alert, facts |-> facts]

Proposals ==
  {Open(none, none, <<>>, 2, {}),
   Open("vault", none, <<"heard">>, 0, {}),
   Open("hall", none, <<>>, -1, {[ref |-> "guide", text |-> "old"]}),
   Open(none, none, <<"key", "key">>, 0, {[ref |-> "guide", text |-> "young"]}),
   Open(none, none, <<"loot">>, 2, {[ref |-> "relic", text |-> "old"]}),
   Open("hall", none, <<"loot">>, 2, {}),
   Open(none, "rich", <<"key">>, 0, {})}

HeroPreset == [max_hp |-> 4, defense |-> 12, attack_bonus |-> 2,
               skills |-> [perception |-> 3, persuasion |-> 1, stealth |-> 3]]
Wolf == [wolf |-> [max_hp |-> 3, defense |-> 10, attack_bonus |-> 1]]
Checks == [perception |-> "easy", persuasion |-> "normal", stealth |-> "hard"]
===============================================================================
