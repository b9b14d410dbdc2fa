CONSTANTS
    x = x
    y = y
    x1 = x1
    x2 = x2
    y1 = y1
    unknown = unknown
    Id = {1, 2, 3}
    Row <- MCRow
    Unborn = Unborn
    Gone = Gone
    Tag = {x, y}
    Name = {x1, x2, y1, unknown}
    KeyOf <- MCKeyOf
    NoTag = NoTag
    Queries <- MCQueries
    AnyTask = AnyTask
    MaxWrites = 2
SPECIFICATION Spec
INVARIANTS
    TypeOK
    ListingExact
    SkipsBounded
    RepeatsBounded
CHECK_DEADLOCK FALSE
