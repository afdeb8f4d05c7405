SPECIFICATION FairSpec
CONSTANTS
    Client = {tab, scheduler}
    e1 = e1
    e2 = e2
    e3 = e3
    Edit <- MCEdit
    MAX_CONFIG_BACKUPS = 1
    Missing = Missing
    Torn = Torn
    NoRevision = NoRevision
    Nothing = Nothing
    MaxBoot = 1
    Kinds = {"patch", "import", "restore", "remove"}
INVARIANTS
    RestartsFindWhatWasSaved
    ReplacedConfigIsBackedUp
PROPERTIES
    PatchesLandOnWhatTheirAuthorSaw
    ImplementsRegister
    EveryEditIsAnswered
