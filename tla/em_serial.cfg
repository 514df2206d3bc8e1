SPECIFICATION Spec
CONSTANTS
    j1 = j1
    j2 = j2
    h1 = h1
    h2 = h2
    e1 = e1
    e2 = e2
    Sched = sched
    Nil = Nil
    Jobs <- TwoJobs
    Handlers <- TwoHandlers
    Tees <- TwoTees
    Artifacts <- ThreeFiles
    Commitments <- OptionalPreprocessing
    SerialUploads = TRUE
    MaxQueue = 2
    MaxCrashes = 0
    MaxLostReplies = 0
    MaxTeeCrashes = 1
    MaxFalseProbes = 0
SYMMETRY Symmetric
INVARIANTS
    RunsAtMostOnce
    OneEvaluationAtATime
    NoPartialPayload
    TornIsTransient
    NoStaleSave
    PayloadHasRequired
PROPERTY KeepsLifecycle
