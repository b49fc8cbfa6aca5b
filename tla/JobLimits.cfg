\* Three jobs of one author, one running slot, three draft revisions: limits,
\* outlines, adoption.
CONSTANTS
  j1 = j1
  j2 = j2
  j3 = j3
  o1 = o1
  o2 = o2
  w1 = w1
  w2 = w2
  none = none
  NoJob <- none
  Jobs <- ThreeJobs
  Owners <- OneOwner
  Owner <- AllOfOne
  Workers <- OneWorker
  MaxAttempts = 1
  MaxActive = 2
  MaxRunning = 1
  MaxRevision = 2
  MaxDraft = 3
  MaxFaults = 0
SPECIFICATION Spec
SYMMETRY JobWorkerSymmetry
INVARIANTS
  WithinLimits
  OutlineWasApproved
  AdoptedOnItsBase
