\* The one story in which a player must go back to a scene that was left.
CONSTANTS
  none = none
  NoRef <- none
  Stories <- ErrandOnly
  Hero = "hero"
  Preset <- HeroPreset
  Foes = {"wolf"}
  FoeStats <- Wolf
  Difficulty <- Checks
  OpenEffects <- Proposals
  FactRefs = {"guide", "relic"}
  LocalFacts = {"guide"}
  MaxActions = 1
  MaxVersion = 4
SPECIFICATION Spec
INVARIANTS
  PlaysGoOn
CHECK_DEADLOCK FALSE
