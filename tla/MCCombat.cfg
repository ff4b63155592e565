SPECIFICATION ShareSpec
CONSTANTS
    p1 = p1
    p2 = p2
    p3 = p3
    NoPlayer = NoPlayer
    Players <- Three
    Lineup <- OneAgainstAll
    MaxClients = 6
    Hooks <- ShareHooks
    CvarValues = {3}
    SettingsState = 0
    AssistanceDmg = 1
    Damages = {1}
    FriendlyFire = FALSE
    MaxRounds = 2
    MaxEvents = 4
    MaxDamage = 1
    MaxCount = 0
    MaxChat = 1
    TotalPoints = 50
    DefusedPoints = 30
    ExplodePoints = 30
    Unit = 2
SYMMETRY OthersAlike
INVARIANTS
    Balanced
    StatsInLog
    RoundInLog
    StreaksOfHalf
    ClutchesOfHalf
    ShareOfRoundsWon
PROPERTIES
    BombRoundPaysOut
    SharesOfRound
