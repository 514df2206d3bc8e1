SPECIFICATION LiveSpec
CONSTANTS
    j1 = j1
    j2 = j2
    h1 = h1
    h2 = h2
    e1 = e1
    e2 = e2
    Sched = sched
    Nil = Nil
    Jobs <- TwoJobs
    Handlers <- OneHandler
    Tees <- OneTee
    Artifacts <- TwoFiles
    Commitments <- NoCommitment
    SerialUploads = TRUE
    MaxQueue = 2
    MaxCrashes = 0
    MaxLostReplies = 1
    MaxTeeCrashes = 1
    MaxFalseProbes = 0
PROPERTIES
    NoJobWaitsForever
    DispatchedCompletes
