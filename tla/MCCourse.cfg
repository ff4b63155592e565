SPECIFICATION FairSpec
CONSTANTS
    p1 = p1
    p2 = p2
    p3 = p3
    NoPlayer = NoPlayer
    Players <- One
    Lineup <- Empty
    MaxClients = 4
    Hooks <- MortalHooks
    CvarValues = {0, 2, 3, 4, 5, 8}
    SettingsState = 0
    AssistanceDmg = 1
    Damages = {1}
    FriendlyFire = FALSE
    MaxRounds = 2
    MaxEvents = 2
    MaxDamage = 1
    MaxCount = 1
    MaxChat = 1
INVARIANTS
    TypeOK
    ScoreIsRounds
    LogIsChronicle
    StateFollowsCvar
    RoundsPlayed
    StatsInLog
PROPERTIES
    LogGrows
    PastHalvesKept
    KeepsScore
    SettingsTakeEffect
