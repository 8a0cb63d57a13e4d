SPECIFICATION FairSpec
CONSTANTS
    Nodes = {"a", "b", "c"}
    Spots = 2
    Hash <- SpotHashes
    Size = 16
    Low = 4
    MaxPoints = 6
    size = 10
    Indexes <- BitIndexes
    Width = 5
    Shift = 2
    Elements = {"x", "y"}
    HashFuncs = 2
    Product <- Words
    Users = {u1, u2, u3}
    Clients = {c1, c2}
    Objects = {"o1", "o2"}
    Sizes = {1, 2}
    thresholdsOfPool <- PoolThresholds
    MaxGets = 2
    Callers = {"d1", "d2"}
    Buffers = {"b1", "b2"}
    Lengths = {0, 1, 4}
    DefaultThresholds <- Defaults
    Settings <- ValidAndNot
    Setters = {s1, s2}
    Formatters = {f}
    Languages = {"en", "jp", "kr"}
    English = "en"
    Invalid = "xx"
    Gos = {g}
    Timeouts = {t1, t2}
INVARIANTS
    TypeOK
    OwnerIsClosest
    NoFalseNegative
    ObjectsAreFresh
    PutsWereHits
    ResultsStay
    TextInOneLanguage
    FailuresAccountedFor
PROPERTIES
    OnlyItsKeysMove
    ImplementsBitSet
    NobodyIsStuck
CHECK_DEADLOCK FALSE
