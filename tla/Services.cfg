SPECIFICATION Spec
CONSTANTS
    c1 = c1
    c2 = c2
    p1 = p1
    own = own
    r1 = r1
    r2 = r2
    s1 = s1
    g1 = g1
    g2 = g2
    t1 = t1
    t2 = t2
    w1 = w1
    w2 = w2
    k1 = k1
    k2 = k2
    a1 = a1
    a2 = a2
    u1 = u1
    n1 = n1
    n2 = n2
    m1 = m1
    b1 = b1
    h1 = h1
    h2 = h2
    l1 = l1
    l2 = l2
    e1 = e1
    NoSource = NoSource
    NoStream = NoStream
    NoPause = NoPause
    NoScript = NoScript
    Unset = Unset
    Call <- TwoCalls
    Peer <- OnePeer
    Source <- OneSource
    Request <- TwoRequests
    Stream <- OneStream
    Gated <- TwoGated
    Task <- TwoTasks
    Pause <- TwoPauses
    Script <- TwoScripts
    Roles <- SomeRoles
    Skill <- TwoSkills
    MaxAttempts = 2
    MaxFetches = 2
    QueueMax = 1
    MaxCaptures = 2
    MaxChanges = 1
    MaxEdits = 2
    MaxRoles = 2
    MaxNotes = 1
    Upload <- OneUpload
    PartName <- TwoNames
    Made <- OneMade
    MaxTurns = 2
    MaxVersions = 2
    Branch <- OneBranch
    Hook <- TwoHooks
    MaxCommits = 1
    Lane <- TwoLanes
    Caller <- OneCaller
    MaxBytes = 2
    MaxChunks = 3
INVARIANTS
    TwiceHasCause
    ReplyIsReal
    AnsweredOnce
    RunsOnlyApproved
    ReadyIsObserved
    NothingLeaks
    SkillsAreServed
    PromptIsWhole
    NothingIsGarbled
CHECK_DEADLOCK FALSE
