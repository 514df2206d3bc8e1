SPECIFICATION Spec
CONSTANTS
    j1 = j1
    j2 = j2
    h1 = h1
    h2 = h2
    e1 = e1
    e2 = e2
    Sched = sched
    Nil = Nil
    Jobs <- TwoJobs
    Handlers <- OneHandler
    Tees <- TwoTees
    Artifacts <- TwoFiles
    Commitments <- NoCommitment
    SerialUploads = TRUE
    MaxQueue = 2
    MaxCrashes = 1
    MaxLostReplies = 1
    MaxTeeCrashes = 1
    MaxFalseProbes = 1
SYMMETRY Symmetric
INVARIANTS
    TypeOK
    AtMostOneDispatched
    AcceptedBeforeComplete
