SPECIFICATION Spec
CONSTANTS
    MaxSessions = 2
    MaxGens = 2
    MaxOut = 1
    Updaters = {1, 2}
    Whole = 2
    MaxFiles = 4
    Words = {"a", "b"}
    MaxText = 2
    MaxMemories = 3
    Limit = 1
    MaxBody = 2
    MaxOpened = 3
    MaxChunks = 3
    MaxIngests = 4
    Terminals = {1, 2}
    MaxChains = 2
    MaxCommands = 3
    Members <- CheckMembers
    Contents <- CheckContents
    Checks <- Listable
    Packed <- AlwaysPacked
    Variants <- ComponentSets
    Operations <- DeclaredOperations
    Families <- SourceOrSpeech
    MaxChars = 2
    MaxList = 2
    MaxEdits = 1
    MaxAudio = 3
    FileNames <- TreeNames
    Dirs <- TreeDirs
    Clashes <- TreeClashes
    Versions <- TreeVersions
    Hosts <- TreeHosts
    Windows = FALSE
    MaxWrites = 2
    Tools = {"t"}
    MaxTools = 1
    MaxCases = 1
    MaxChecks = 2
INVARIANTS
    EngineSpeaksTrue
    
    DataComesBack
    ReleasesAreTrue
    PackagesAreTrue
    ArchiveIsAsListed
    TestsAreHonest
CONSTRAINT Bounded
CHECK_DEADLOCK FALSE
