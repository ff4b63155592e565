SPECIFICATION Spec
CONSTANTS
    p1 = p1
    p2 = p2
    p3 = p3
    NoPlayer = NoPlayer
    Players <- Two
    Lineup <- OneAgainstAll
    MaxClients = 8
    Hooks <- CourseHooks
    CvarValues = {3, 4, 7}
    SettingsState = 0
    AssistanceDmg = 1
    Damages = {1}
    FriendlyFire = FALSE
    MaxRounds = 1
    MaxEvents = 1
    MaxDamage = 1
    MaxCount = 1
    MaxChat = 1
INVARIANT ExportMarksWinners
