CONSTANTS
    a = a
    b = b
    d = d
    x = x
    y = y
    t = t
    c1 = c1
    c2 = c2
    Client = {c1, c2}
    Attempts <- MCAttempts
    PoolSize = 2
    Title = {a, b, d}
    Tag = {x, y}
    Task = {t}
    Omitted = Omitted
    NoRow = NoRow
    NoAnswer = NoAnswer
    NoKey = NoKey
    Scenario <- MCScenario
    Verdicts <- MCVerdicts
    TitleOf <- MCTitleOf
SPECIFICATION Spec
INVARIANTS
    TypeOK
    AnswersTrue
    TitleClashIs409
    NothingLeaks
    RepeatsNeedRelease
PROPERTIES
    AtomicWrites
    HandlersEnd
CHECK_DEADLOCK FALSE
