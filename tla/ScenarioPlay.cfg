\* Eight stories: forward under either schema, with a fight, with free actions,
\* with a fight that guards an item, with ways back, with a flag named twice.
CONSTANTS
  none = none
  NoRef <- none
  Stories <- SomeStories
  Hero = "hero"
  Preset <- HeroPreset
  Foes = {"wolf"}
  FoeStats <- Wolf
  Difficulty <- Checks
  OpenEffects <- Proposals
  FactRefs = {"guide", "relic"}
  LocalFacts = {"guide"}
  MaxActions = 3
  MaxVersion = 6
SPECIFICATION Spec
INVARIANTS
  RunIsWhole
  PlayIsExplored
  ForwardPlaysGoOn
  BundlesAreAccepted
PROPERTIES
  StepsAreCounted
CHECK_DEADLOCK FALSE
