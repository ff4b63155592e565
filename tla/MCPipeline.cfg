SPECIFICATION FairPipelineSpec
CONSTANTS
    p1 = p1
    p2 = p2
    p3 = p3
    NoPlayer = NoPlayer
    Players <- One
    Lineup <- Empty
    MaxClients = 8
    Hooks <- PipelineHooks
    CvarValues = {0, 3, 7}
    SettingsState = 0
    AssistanceDmg = 1
    Damages = {1}
    FriendlyFire = FALSE
    MaxRounds = 1
    MaxEvents = 1
    MaxDamage = 1
    MaxCount = 1
    MaxChat = 1
    MaxRequests = 2
    MaxChunks = 1
    WritesFail = TRUE
    NoCommand = NoCommand
    CommandValues = {3, 7}
    SettingsApi = FALSE
INVARIANT OldCommandsEnd
PROPERTIES
    ExportsAnswered
    ImplementsRemote
