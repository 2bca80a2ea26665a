SPECIFICATION UseSpec
CONSTANTS
    a = a
    j1 = j1
    j2 = j2
    n = n
    r1 = r1
    ga = ga
    gp = gp
    p1 = p1
    c1 = c1
    c2 = c2
    Facts = {a, j1, n}
    Revisions = {}
    Grants = {ga, gp}
    Projections = {p1}
    Callers = {c1, c2}
    Judgments = {j1}
    Roles <- MCRoles
    Edited = {a}
    Texts = {"t1", "t2"}
    Opinions = {"supported", "contested"}
    OldOf <- MCOldOf
    NewOf <- MCNewOf
    BornAs <- MCBornAs
    Terms <- MCTerms
    AssertionsOf <- MCAssertionsOf
    JudgmentsOf <- MCJudgmentsOf
    GrantOf <- MCGrantOf
    AlsoCites <- MCAlsoCites
    PromoterOf <- MCPromoterOf
    Promotable = {p1}
    Refuted = {}
    FirstText = "t1"
    Given = {a, n, ga, gp}
    Revocable = {gp}
    SqliteBackend = FALSE
    Requirements <- MCRequirements
    ScopeOf <- MCScopeOf
    EnvOf <- MCEnvOf
    VersionsOf <- MCVersionsOf
    NegativesOf <- MCNegativesOf
    Edges <- MCEdges
    LimitsOf <- MCLimitsOf
    None = None
    Never = 9
    Horizon = 1
    MaxVersion = 2
    MaxOps = 4
    MaxUses = 1
INVARIANTS
    UseTypeOK
    RelianceWasSound
PROPERTIES
    BoundAsEvaluated
    ReliedOnce
CHECK_DEADLOCK FALSE
