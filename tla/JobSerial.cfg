SPECIFICATION FairSpec
CONSTANTS
    j1 = j1
    j2 = j2
    Jobs = {j1}
    NoJob = none
    Replicas = {r1}
    PlanReapers = {}
    Preemptors = {}
    Priority <- MCPriority
    MaxJobsPerRun = 1
    RetryMax = 3
    MaxFaults = 0
PROPERTIES TerminalIsFinal SubmittedLeavesQueue ImplementsContract
