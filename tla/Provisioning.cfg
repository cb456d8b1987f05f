SPECIFICATION Spec
CONSTANTS
    A = A
    B = B
    x = x
    y = y
    a = "a"
    b = "b"
    s = s
    f = f
    h = h
    NoBundle = NoBundle
    Bundle <- TwoBundles
    File <- TwoFiles
    Plugin <- TwoPlugins
    Troubles <- OneAtATime
    MaxWake = 2
    MaxWrites = 4
    MaxBoots = 4
    MaxAttempts = 2
    Name <- AllNames
    Shared <- OneShared
    Pinned <- OnePinned
    Moving <- Declarable
    Bad <- SecondOfB
    MaxUpstream = 2
    Contributor <- TwoPlugins
    Rank <- Order
    Privileged <- OnlyB
    Mcp <- OnlyA
    MaxRev = 2
    MaxEvents = 2
    SkillDir <- OneSkill
    Path <- TwoPaths
    DirOf <- DirectoryOf
    Handler <- OneHandler
    Ships <- Files
    Hooks <- Handlers
INVARIANTS
    WholeConfig
    LatestIsServed
    UserIsTold
    PlatformIsServed
    KeepsInstalled
    TreeIsDeclared
    StaleHasCause
    HooksSettle
PROPERTIES
    SwapIsJust
    OwnsItsFiles
CHECK_DEADLOCK FALSE
