SPECIFICATION MCSpec
CONSTANTS
    None = None
    Week = 4
    Grace = 1
    Handlers = {x1, x2}
    MaxWidth = 2
    Projects = {"p1", "p2"}
    QueueIds = {"q1", "q2"}
    PlanIds = {"l1", "l2"}
    QueueRecords <- MCQueueRecords
    PlanRecords <- MCPlanRecords
    ProfileRecords <- MCProfileRecords
    InitQueues <- MCInitQueues
    InitPlans <- MCInitPlans
    InitProjects <- MCInitProjects
    InitProfiles <- MCInitProfiles
    UserQuotas <- MCUserQuotas
    Caps <- MCCaps
    ImageRules <- MCImageRules
    Requests <- MCRequests
    Times <- MCTimes
    MaxJobs = 2
    MaxChanges = 2
    MaxFaults = 1
    DispatchJobs = {dj1, dj2}
    SecondJob = dj2
    NameA = NameA
    NameB = NameB
    NameC = NameC
    NoOwner = NoOwner
    DispatchShapes <- MCShapes
    PreemptCallers = {pc1, pc2}
    FirstCaller = pc1
    pj1 = pj1
    pj2 = pj2
    pj3 = pj3
    pr1 = pr1
    pk1 = pk1
    pk2 = pk2
    NoJob = NoJob
    NoRecord = NoRecord
    PreemptJobs <- MCPreemptJobs
    PreemptAsks <- MCPreemptAsks
    GPUJobs = {uj1, uj2}
    uj1 = uj1
    uj2 = uj2
    up1 = up1
    GPUProjects = {up1}
    GPUProjectOf <- MCGPUProjectOf
    GPUReserved <- MCGPUReserved
    GPUs = {dev1}
    NoGPU = NoGPU
    GPUUnits = {0, 50}
    SnapshotWindow = 0
    Retention = 1
    MaxTick = 3
    MaxGPUFaults = 1
    HourPods = {hp1, hp2}
    SecondPod = hp2
    HourCollectors = {hc1, hc2}
    SecondCollector = hc2
    MaxHour = 3
    MaxHourFaults = 1
SYMMETRY MCSymmetry
CHECK_DEADLOCK FALSE
PROPERTY QuotaAlwaysKept
