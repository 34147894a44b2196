CONSTANTS
    BuildCallers = {c1}
    BuildRunners = {w1, w2}
    FirstRunner = w1
    BuildKeys = {k1}
    BuildSizes = {1, 2}
    SizeLimit = 1
    ActiveLimit = 1
    MaxBuilds = 1
    MaxPushes = 2
    ImageProjects = {p1}
    MaxReviews = 2
    NoKey = NoKey
    NoBuild = NoBuild
    NoTag = NoTag
    NoRule = NoRule
    IdNames = {n1, n2}
    IdCallers = {q1, q2}
    MaxAccounts = 3
    MaxPairs = 3
    MaxTokens = 2
    TokenLimit = 1
    LoginLimit = 1
    MaxFailedLogins = 3
    MaxOutages = 1
    NoAccount = NoAccount
    OrgUsers = {u1}
    OrgGroups = {g1}
    OrgCallers = {o1, o2}
    Root = Root
    NoUser = NoUser
    NoProject = NoProject
    FormCallers = {f1, f2}
    FormAdmins = {f1, f2}
    FirstAdmin = f1
    MaxForms = 2
    MaxNotices = 3
    NoticeIds = {nt1, nt2}
    PinLimit = 1
    TransferProjects = {tp1, tp2}
    TransferNames = {tn1}
    TransferCallers = {tc1, tc2}
    Canceller = tc2
    MaxTransfers = 2
    Unnamed = Unnamed
    NoTransfer = NoTransfer
    VolumeGroups = {vg1, vg2}
    FirstGroup = vg1
    MountJobs = {mj1, mj2}
    FirstJob = mj1
    MountWants <- MCWants
    NoGroup = NoGroup
    cc1 = cc1
    cc2 = cc2
    cp1 = cp1
    cp2 = cp2
    ConfigCallers = {cc1, cc2}
    ProjectsOf <- MCProjectsOf
    Contents = {ct1}
    NoContent = NoContent
    KeepContent = KeepContent
    NoProjectId = NoProjectId
    NoConfig = NoConfig
    CancelKeys = {ck1}
    NoCancelKey = NoCancelKey
    CancelBodies = {cb1, cb2}
    MaxBorn = 2
    MaxCancels = 2
    PolicyCallers = {pc1, pc2}
    PolicyIds = {po1, po2}
    DefaultPolicy = po1
    SecondPolicy = po2
    PolicyNames = {pn1, pn2}
    DefaultName = pn1
    SecondName = pn2
    ProxyRoleIds = {pr1}
    DefaultRole = pr1
    PolicyUsers = {pu1}
    NoPolicy = NoPolicy
    MaxPolicyRows = 2
    Releases <- MCReleases
    MigrationServices = {1, 2}
    PlatformSum = 1
    Migrators = {mg1, mg2}
    NoMigrator = NoMigrator
    MaxMigrations = 4
    MaxMigrationFaults = 2
SPECIFICATION Spec
INVARIANT AdminRemains
CHECK_DEADLOCK FALSE
