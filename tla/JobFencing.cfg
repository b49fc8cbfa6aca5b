\* Two jobs, two workers, faults: fencing, attempts, usage.
CONSTANTS
  j1 = j1
  j2 = j2
  j3 = j3
  o1 = o1
  o2 = o2
  w1 = w1
  w2 = w2
  none = none
  NoJob <- none
  Jobs <- TwoJobs
  Owners <- OneOwner
  Owner <- AllOfOne
  Workers <- TwoWorkers
  MaxAttempts = 2
  MaxActive = 2
  MaxRunning = 2
  MaxRevision = 1
  MaxDraft = 1
  MaxFaults = 2
SPECIFICATION Spec
SYMMETRY JobWorkerSymmetry
INVARIANTS
  TypeOK
  OneRequestPerJob
  AttemptsMatchJob
  UsageIsRecorded
PROPERTIES
  ImplementsJobContract
