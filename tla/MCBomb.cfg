SPECIFICATION Spec
CONSTANTS
    p1 = p1
    p2 = p2
    p3 = p3
    NoPlayer = NoPlayer
    Players <- Two
    Lineup <- OneAgainstAll
    MaxClients = 8
    Hooks <- BombHooks
    CvarValues = {3, 7}
    SettingsState = 0
    AssistanceDmg = 1
    Damages = {1}
    FriendlyFire = FALSE
    MaxRounds = 1
    MaxEvents = 3
    MaxDamage = 1
    MaxCount = 1
    MaxChat = 1
INVARIANTS
    StatsInLog
    RoundInLog
    RoundsPlayed
    EventsHaveRecords
    ExportIsConsistent
