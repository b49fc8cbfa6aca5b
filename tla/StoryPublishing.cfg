\* One story, two handlers, three versions: publication.
CONSTANTS
  d1 = d1
  d2 = d2
  d3 = d3
  d4 = d4
  s1 = s1
  s2 = s2
  s3 = s3
  m1 = m1
  m2 = m2
  v1 = v1
  v2 = v2
  v3 = v3
  q1 = q1
  q2 = q2
  q3 = q3
  c1 = c1
  h1 = h1
  h2 = h2
  none = none
  noRequest = noRequest
  gone = gone
  Drafts <- FourDrafts
  Templates <- OneTemplate
  Scenarios <- ThreeScenarios
  Metadata <- TwoMetadata
  Scenario <- DefinitionOf
  About <- MetadataOf
  Valid <- TwoValid
  Versions <- ThreeVersions
  NoVersion <- none
  Gone <- gone
  Requests <- ThreeRequests
  NoRequest <- noRequest
  Campaigns <- OneCampaign
  Handlers <- TwoHandlers
  MaxRevision = 2
SPECIFICATION Spec
SYMMETRY Interchangeable
INVARIANTS
  TypeOK
  VersionIsItsRevision
  ReleasedWasPlayed
  OneVersionPerRequest
PROPERTIES
  StoppedStoryIsFrozen
  ImplementsStoryContract
