SPECIFICATION MCSpec
CONSTANTS
    Pids = {p1, p2}
    First = p1
    Writers = {w}
    Readers = {r}
    Nobody = Nobody
    NoConfig = NoConfig
    Files <- MCFiles
    Samples <- MCSamples
    SampleKeys = {"a", "b"}
CHECK_DEADLOCK FALSE
INVARIANTS
    TypeOK
    ListenersOwnTheirData
    PidfileStaysWhileHeld
    ConfigMeansItsText
PROPERTIES
    QuitReleases
    StartsAlone
