SPECIFICATION Spec
CONSTANTS
    c1 = c1
    c2 = c2
    Clients = {c1, c2}
    Candidates = {"x", "y", "z"}
    Dictionary <- MCDictionary
    NoList = NoList
    NothingPicked = NothingPicked
    Urls = {"u1", "u2", "u3"}
    Absent = Absent
    Junk = Junk
    ReleaseLists <- MCReleaseLists
    Installable <- MCInstallable
    MaxClock = 2
    Words <- MCWords
    Defaults <- MCDefaults
    Stops = {"per", "channel"}
    Worlds <- MCWorlds
INVARIANTS
    TypeOK
    CaughtUp
    KeptUnlessWritten
    FollowsConfig
    BindingsSurvive
    HostAgrees
    CursorOnItem
    ListShowsThePage
    CheckedIsRight
PROPERTIES
    PicksWhatIsShown
    ListSpec
    CheckSpec
CHECK_DEADLOCK FALSE
