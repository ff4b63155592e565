SPECIFICATION AuditSpec
CONSTANTS
    p1 = p1
    p2 = p2
    p3 = p3
    NoPlayer = NoPlayer
    Players <- Three
    Lineup <- OneAgainstAll
    MaxClients = 8
    Hooks <- CombatHooks
    CvarValues = {3}
    SettingsState = 0
    AssistanceDmg = 1
    Damages = {1}
    FriendlyFire = FALSE
    MaxRounds = 2
    MaxEvents = 4
    MaxDamage = 1
    MaxCount = 1
    MaxChat = 1
SYMMETRY OthersAlike
PROPERTY AssistsOfRound
