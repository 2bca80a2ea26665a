SPECIFICATION Spec
CONSTANTS
    a = a
    b = b
    r1 = r1
    r2 = r2
    ga = ga
    gw = gw
    gp = gp
    p1 = p1
    c1 = c1
    c2 = c2
    Facts = {a, b}
    Revisions = {r1, r2}
    Grants = {ga, gw, gp}
    Projections = {p1}
    Callers = {c1, c2}
    Roles <- MCRoles
    Edited = {a}
    Texts = {"t1", "t2"}
    Opinions = {"supported", "contested"}
    OldOf <- MCOldOf
    NewOf <- MCNewOf
    BornAs <- MCBornAs
    Terms <- MCTerms
    AssertionsOf <- MCAssertionsOf
    JudgmentsOf <- MCJudgmentsOf
    GrantOf <- MCGrantOf
    AlsoCites <- MCAlsoCites
    PromoterOf <- MCPromoterOf
    Promotable = {p1}
    Refuted = {}
    FirstText = "t1"
    Given = {a, ga, gp}
    Revocable = {}
    SqliteBackend = FALSE
    None = None
    Never = 9
    Horizon = 1
    MaxVersion = 3
    MaxOps = 3
    MaxUses = 2
INVARIANTS
    JournalMatches
    LineageDetermined
    OfficialIsSupported
PROPERTIES
    UseSpentOnce
    AppliedOnce
CHECK_DEADLOCK FALSE
