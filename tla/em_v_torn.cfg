SPECIFICATION Spec
CONSTANTS
    j1 = j1
    j2 = j2
    h1 = h1
    h2 = h2
    e1 = e1
    e2 = e2
    Sched = sched
    Nil = Nil
    Jobs <- TwoJobs
    Handlers <- OneHandler
    Tees <- OneTee
    Artifacts <- TwoFiles
    Commitments <- NoCommitment
    SerialUploads = TRUE
    MaxQueue = 2
    MaxCrashes = 0
    MaxLostReplies = 0
    MaxTeeCrashes = 0
    MaxFalseProbes = 0
INVARIANT TornQueueIsTransient
