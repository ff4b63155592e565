------------------------------ MODULE MatchStats ------------------------------
(***************************************************************************)
(* CMatchStats: the recorder behind the game hooks. The game calls one      *)
(* handler at a time, so a handler is one action; what is left open is the  *)
(* order of the calls. The game itself (players, teams, rounds, the bomb)   *)
(* is an environment that makes every order of calls it can make.           *)
(***************************************************************************)
EXTENDS MatchData

CONSTANTS
    Lineup,         \* teams of the players who are in the game at the start
    Hooks,          \* the callbacks the environment makes in this instance
    CvarValues,     \* values ms_state is set to
    SettingsState,  \* the ms_state line of matchstats.cfg
    AssistanceDmg,  \* ms_assistance_dmg
    Damages,        \* damage of one hit
    FriendlyFire,   \* may team mates damage each other
    MaxRounds,      \* bound: rounds won in a match
    MaxEvents,      \* bound: events recorded
    MaxDamage,      \* bound: damage of one player to another, in all rounds
    MaxCount,       \* bound: counts of a player that no event accompanies
    MaxChat         \* bound: chat entries of a player

ASSUME LineupAssumption == Lineup \in [Players -> {UNASSIGNED} \cup Sides]

ASSUME SettingsAssumption ==
    /\ CvarValues \subseteq Int
    /\ SettingsState \in Int
    /\ AssistanceDmg \in Int
    /\ Damages \subseteq Nat
    /\ FriendlyFire \in BOOLEAN

ASSUME BoundsAssumption ==
    {MaxRounds, MaxEvents, MaxDamage, MaxCount, MaxChat} \subseteq Nat

VARIABLES
    ms_state,      \* value of the cvar
    m_State,       \* value the recorder acts on
    m_stats_state, \* has ServerActivate registered the cvar
    settings,      \* "exec matchstats.cfg" is in the command buffer
    m_Match,       \* score, leader, rounds
    m_RoundEvent,  \* event log
    m_Player,      \* keys of the player map; the fields of its values follow,
    Team,          \* each the default value for a player that has no record
    Winner,
    Stats,
    Tally,         \* Stats' KillStreak and Versus arrays
    Round,
    PlayerDamage,  \* Round.PlayerDamage
    ChatLog,       \* state each chat line was recorded in
    dataFile,      \* the documents this step wrote to disk: {} or one
    here,          \* game: players in the game
    team,          \* game: m_iTeam of the player's entity
    alive,         \* game: players whose deadflag is DEAD_NO
    round,         \* game: "over", "freeze", "live" or "aborted" (over in the freeze)
    bomb,          \* game: "none", "planted", "defused" or "exploded"
    planter,       \* game: owner of the planted bomb
    pending        \* game: the <<victim, attacker>> whose TakeDamage is open

cvarVars   == <<ms_state, m_State, m_stats_state, settings>>
matchVars  == <<m_Match, m_RoundEvent>>
recordVars == <<m_Player, Team, Winner>>
statsVars  == <<Stats, Tally, Round, PlayerDamage>>
gameVars   == <<here, team, alive, round, bomb, planter, pending>>
vars == <<cvarVars, matchVars, recordVars, statsVars, ChatLog, dataFile,
          gameVars>>

\* Behaviours begin when the plugin is loaded, before the first map; or, when
\* Lineup names players, after a map has started, its settings were executed and
\* those players joined.
Joined == {p \in Players : Lineup[p] # UNASSIGNED}

Init ==
    /\ ms_state = STATE_DEAD /\ m_State = STATE_DEAD
    /\ m_stats_state = (Joined # {}) /\ settings = FALSE
    /\ m_Match = ZeroMatch /\ m_RoundEvent = << >>
    /\ m_Player = Joined
    /\ Team = Lineup /\ Winner = [p \in Players |-> 0]
    /\ Stats = ZeroStats /\ Tally = ZeroTally
    /\ Round = [p \in Players |-> ZeroRound] /\ PlayerDamage = NoDamage
    /\ ChatLog = [p \in Players |-> << >>] /\ dataFile = {}
    /\ here = Joined /\ team = Lineup /\ alive = {}
    /\ round = "over" /\ bomb = "none" /\ planter = NoPlayer /\ pending = {}

-----------------------------------------------------------------------------
(* Operators of the handlers *)

Recording == m_State \in PlayStates

NoExport == dataFile' = {}

\* The game calls hook h while no TakeDamage is open.
Called(h) == h \in Hooks /\ pending = {}

\* The game calls hook h while no TakeDamage is open, or one of <<victim, attacker>>
\* pairs, from inside of which it makes this call too.
CalledWithin(h, pairs) == h \in Hooks /\ pending \subseteq pairs

\* n added to the counters named by pairs <<player, counter>>, in m_State.
Earned(stats, pairs, n) ==
    [p \in Players |-> [s \in PlayStates |-> [c \in Counters |->
        IF s = m_State /\ <<p, c>> \in pairs
        THEN stats[p][s][c] + n ELSE stats[p][s][c]]]]

\* The counter c of player p in m_State goes up by one and the record exists.
Count(p, c) ==
    /\ Stats' = Earned(Stats, {<<p, c>>}, 1)
    /\ m_Player' = m_Player \cup {p}

\* The counters no event bounds are, together, below the bound of the instance.
Countable(p) ==
    LET n == Stats[p][m_State]
    IN  n["Shots"] + n["Money"] + n["BombSpawn"] + n["BombDrop"] + n["BombDefusing"]
            < MaxCount

OnEvent(type, killer, victim) ==
    Append(m_RoundEvent, [Round |-> m_Match.Score[TERRORIST] + m_Match.Score[CT] + 1,
                          Type |-> type, Killer |-> killer, Victim |-> victim])

RoomForEvent == Len(m_RoundEvent) < MaxEvents

\* Entities of a side. A player who left keeps a dormant entity with its team.
OnTeam(t) == {p \in Players : team[p] = t}
InPlay == {p \in Players : team[p] \in Sides}

\* InitializePlayerCounts: dormant entities are not counted.
NumAlive(t) == Cardinality(OnTeam(t) \cap here \cap alive)
NumDead(t)  == Cardinality((OnTeam(t) \cap here) \ alive)

FPlayerCanTakeDamage(v, k) == FriendlyFire \/ team[v] # team[k]

\* As resets of every half, and of none.
ResetStats_All(s) == Stats' = ZeroStats /\ Tally' = ZeroTally
ResetStats_None(s) == UNCHANGED <<Stats, Tally>>

\* As a Reset() of the round stats never called, or blind to the bomb's flags.
ResetRound_None == UNCHANGED Round
ResetRound_KeepBomb ==
    Round' = [p \in Players |->
                [ZeroRound EXCEPT !.BombDefused = Round[p].BombDefused,
                                  !.BombExploded = Round[p].BombExploded]]

\* As a match reset without its log, and a log emptied without its match.
ClearMatch_KeepLog == m_Match' = ZeroMatch /\ UNCHANGED m_RoundEvent
ClearMatch_LogOnly == m_RoundEvent' = << >> /\ UNCHANGED m_Match

\* Resets that Cvar_DirectSet, RoundRestart and RoundFreezeEnd loop over the
\* records; a player without a record already has the value they set.
ResetStats(s) ==
    /\ Stats' = [p \in Players |-> [Stats[p] EXCEPT ![s] = ZeroStats[p][s]]]
    /\ Tally' = [p \in Players |-> [Tally[p] EXCEPT ![s] = ZeroTally[p][s]]]
ResetRound == Round' = [p \in Players |-> ZeroRound]
ClearChat == ChatLog' = [p \in Players |-> << >>]
ClearMatch == m_Match' = ZeroMatch /\ m_RoundEvent' = << >>

\* As an export of the players still in the game.
ExportData_Present(W) ==
    [Match  |-> m_Match,
     Stats  |-> [p \in m_Player \cap here |->
                    [Team |-> Team[p], Winner |-> W[p], Chat |-> ChatLog[p],
                     Total |-> [c \in Counters |-> Total(Stats, p, c)]]],
     Events |-> m_RoundEvent]

\* The document ExportData writes, with the players' Winner flags W.
ExportData(W) ==
    [Match  |-> m_Match,
     Stats  |-> [p \in m_Player |->
                    [Team |-> Team[p], Winner |-> W[p], Chat |-> ChatLog[p],
                     Total |-> [c \in Counters |-> Total(Stats, p, c)]]],
     Events |-> m_RoundEvent]

-----------------------------------------------------------------------------
(* Cvar_DirectSet: the state machine the cvar drives *)

SetDead ==
    /\ ClearMatch
    /\ m_Player' = {}
    /\ Team' = [p \in Players |-> UNASSIGNED] /\ Winner' = [p \in Players |-> 0]
    /\ Stats' = ZeroStats /\ Tally' = ZeroTally
    /\ ResetRound /\ PlayerDamage' = NoDamage
    /\ ClearChat
    /\ NoExport

SetWarmup ==
    /\ ClearMatch
    /\ ClearChat
    /\ ResetRound
    /\ UNCHANGED <<recordVars, Stats, Tally, PlayerDamage>>
    /\ NoExport

SetStart ==
    /\ ClearMatch
    /\ UNCHANGED <<recordVars, statsVars, ChatLog>>
    /\ NoExport

SetFirstHalf ==
    /\ ClearMatch
    /\ ResetStats(STATE_FIRST_HALF)
    /\ ClearChat
    /\ ResetRound
    /\ UNCHANGED <<recordVars, PlayerDamage>>
    /\ NoExport

SetHalftime ==
    /\ m_Match' = SwapScores(m_Match)
    /\ UNCHANGED <<m_RoundEvent, recordVars, statsVars, ChatLog>>
    /\ NoExport

SetSecondHalf ==
    /\ ResetStats(STATE_SECOND_HALF)
    /\ ResetRound
    /\ UNCHANGED <<matchVars, recordVars, PlayerDamage, ChatLog>>
    /\ NoExport

SetOvertime ==
    /\ ResetStats(STATE_OVERTIME)
    /\ ResetRound
    /\ UNCHANGED <<matchVars, recordVars, PlayerDamage, ChatLog>>
    /\ NoExport

SetEnd ==
    /\ Winner' = [p \in Players |->
                    IF p \in m_Player /\ Team[p] = m_Match.Winner THEN 1 ELSE 0]
    /\ dataFile' = {ExportData(Winner')}
    /\ UNCHANGED <<matchVars, m_Player, Team, statsVars, ChatLog>>

\* A value with no case only moves m_State.
SetOther ==
    /\ UNCHANGED <<matchVars, recordVars, statsVars, ChatLog>>
    /\ NoExport

Cvar_DirectSet(v) ==
    /\ m_stats_state
    /\ ms_state' = v
    /\ m_State' = v
    /\ \/ v = STATE_DEAD        /\ SetDead
       \/ v = STATE_WARMUP      /\ SetWarmup
       \/ v = STATE_START       /\ SetStart
       \/ v = STATE_FIRST_HALF  /\ SetFirstHalf
       \/ v = STATE_HALFTIME    /\ SetHalftime
       \/ v = STATE_SECOND_HALF /\ SetSecondHalf
       \/ v = STATE_OVERTIME    /\ SetOvertime
       \/ v = STATE_END         /\ SetEnd
       \/ v \notin STATE_DEAD .. STATE_END /\ SetOther
    /\ UNCHANGED <<m_stats_state, gameVars>>

\* The console or a match plugin sets ms_state; a plugin may do so from its own
\* RoundEnd hook, while the TakeDamage of the last kill is still open.
SetState(v) == Cvar_DirectSet(v) /\ UNCHANGED settings

\* As a settings file that does not set ms_state.
ExecSettings_NoState ==
    /\ settings
    /\ pending = {}
    /\ settings' = FALSE
    /\ UNCHANGED <<ms_state, m_State, m_stats_state, matchVars, recordVars,
                   statsVars, ChatLog, gameVars>>
    /\ NoExport

\* The engine runs the "exec" that ServerActivate queued, between two frames.
ExecSettings ==
    /\ settings
    /\ pending = {}
    /\ settings' = FALSE
    /\ Cvar_DirectSet(SettingsState)

-----------------------------------------------------------------------------
(* ServerActivate and the players *)

\* A map starts. The records stay; every client has to join again.
ServerActivate ==
    /\ Called("ServerActivate")
    /\ m_State' = STATE_DEAD
    /\ m_stats_state' = TRUE
    /\ settings' = TRUE
    /\ here' = {} /\ team' = [p \in Players |-> UNASSIGNED] /\ alive' = {}
    /\ round' = "over" /\ bomb' = "none" /\ planter' = NoPlayer
    /\ UNCHANGED <<ms_state, matchVars, recordVars, statsVars, ChatLog, pending>>
    /\ NoExport

\* A client enters the game on side t; it spawns in the freeze time.
PlayerGetIntoGame(p, t) ==
    /\ Called("PlayerGetIntoGame")
    /\ p \notin here
    /\ here' = here \cup {p}
    /\ team' = [team EXCEPT ![p] = t]
    /\ alive' = IF round = "freeze" THEN alive \cup {p} ELSE alive
    /\ m_Player' = m_Player \cup {p}
    /\ Team' = [Team EXCEPT ![p] = t]
    /\ UNCHANGED <<cvarVars, matchVars, Winner, statsVars, ChatLog,
                   round, bomb, planter, pending>>
    /\ NoExport

\* As a handler that is called before the game's own code.
PlayerSwitchTeam_Before(p, t) ==
    /\ Called("PlayerSwitchTeam")
    /\ t = UNASSIGNED => p \notin here
    /\ team' = [team EXCEPT ![p] = t]
    /\ alive' = IF t \in Sides THEN alive ELSE alive \ {p}
    /\ m_Player' = m_Player \cup {p}
    /\ Team' = [Team EXCEPT ![p] = team[p]]
    /\ UNCHANGED <<cvarVars, matchVars, Winner, statsVars, ChatLog,
                   here, round, bomb, planter, pending>>
    /\ NoExport

\* SwitchTeam and the team menu: p is on team t afterwards. The menu is open to a
\* client before it enters the game, and may leave it without a team.
PlayerSwitchTeam(p, t) ==
    /\ Called("PlayerSwitchTeam")
    /\ t = UNASSIGNED => p \notin here
    /\ team' = [team EXCEPT ![p] = t]
    /\ alive' = IF t \in Sides THEN alive ELSE alive \ {p}
    /\ m_Player' = m_Player \cup {p}
    /\ Team' = [Team EXCEPT ![p] = t]
    /\ UNCHANGED <<cvarVars, matchVars, Winner, statsVars, ChatLog,
                   here, round, bomb, planter, pending>>
    /\ NoExport

\* As a record erased when its client leaves.
PlayerDisconnect_Erase(p) ==
    /\ Called("PlayerDisconnect")
    /\ m_Player' = m_Player \ {p}
    /\ here' = here \ {p} /\ alive' = alive \ {p}
    /\ team' = [team EXCEPT ![p] = UNASSIGNED]
    /\ UNCHANGED <<cvarVars, matchVars, Team, Winner, statsVars, ChatLog,
                   round, bomb, planter, pending>>
    /\ NoExport

\* A client is dropped, possibly before it joined a side. Its entity goes
\* dormant, or is taken by another client.
PlayerDisconnect(p) ==
    /\ Called("PlayerDisconnect")
    /\ m_Player' = m_Player \cup {p}
    /\ here' = here \ {p} /\ alive' = alive \ {p}
    /\ \E t \in {team[p], UNASSIGNED} : team' = [team EXCEPT ![p] = t]
    /\ UNCHANGED <<cvarVars, matchVars, Team, Winner, statsVars, ChatLog,
                   round, bomb, planter, pending>>
    /\ NoExport

\* A handler that counts and leaves everything else alone.
Counted(p, c) ==
    /\ Recording
    /\ Countable(p)
    /\ Count(p, c)
    /\ UNCHANGED <<cvarVars, matchVars, Team, Winner, Tally, Round, PlayerDamage,
                   ChatLog, gameVars>>
    /\ NoExport

\* An attack with a weapon that fires or strikes.
PlayerSetAnimation(p) ==
    /\ Called("PlayerSetAnimation")
    /\ p \in here \cap alive
    /\ Counted(p, "Shots")

\* A reward of one of the six types that count; one unit stands for the amount.
\* The one for a kill comes before the attacker's TakeDamage returns.
PlayerAddAccount(p) ==
    /\ CalledWithin("PlayerAddAccount", Players \X {p})
    /\ p \in here
    /\ Counted(p, "Money")

PlayerMakeBomber(p) ==
    /\ Called("PlayerMakeBomber")
    /\ p \in here \cap alive
    /\ Counted(p, "BombSpawn")

\* Only a drop by a dead player counts; the dying drop the bomb in their TakeDamage.
PlayerDropItem(p) ==
    /\ CalledWithin("PlayerDropItem", {p} \X Players)
    /\ p \in here \ alive
    /\ Counted(p, "BombDrop")

\* As chat recorded whatever the state.
PlayerSayText_Always(p) ==
    /\ Called("PlayerSayText")
    /\ p \in here /\ team[p] \in Sides
    /\ Len(ChatLog[p]) < MaxChat
    /\ m_Player' = m_Player \cup {p}
    /\ ChatLog' = [ChatLog EXCEPT ![p] = Append(@, m_State)]
    /\ UNCHANGED <<cvarVars, matchVars, Team, Winner, statsVars, gameVars>>
    /\ NoExport

\* A "for all" chat line; p is the client the message is delivered to.
PlayerSayText(p) ==
    /\ Called("PlayerSayText")
    /\ p \in here /\ team[p] \in Sides
    /\ m_State # STATE_DEAD
    /\ Len(ChatLog[p]) < MaxChat
    /\ m_Player' = m_Player \cup {p}
    /\ ChatLog' = [ChatLog EXCEPT ![p] = Append(@, m_State)]
    /\ UNCHANGED <<cvarVars, matchVars, Team, Winner, statsVars, gameVars>>
    /\ NoExport

-----------------------------------------------------------------------------
(* Combat. The handler of TakeDamage runs after the game's own code, so the  *)
(* hit that kills is recorded after the kill, and after the end of the round *)
(* the kill may bring: pending holds it meanwhile.                           *)

\* As a hit that credits the attacker only.
RecordHit_OneSided(v, k, d) ==
    /\ Stats' = Earned(Earned(Stats, {<<k, "Hits">>}, 1), {<<k, "Damage">>}, d)
    /\ Round' = [Round EXCEPT ![k].Damage = @ + d]
    /\ PlayerDamage' = [PlayerDamage EXCEPT ![k][v] = @ + d]
    /\ m_Player' = m_Player \cup {v, k}

\* In the freeze time nobody can shoot; players may still die and leave.
Unfrozen == {"live", "over"}

\* What PlayerDamage adds for a hit of d by k on v.
RecordHit(v, k, d) ==
    /\ Stats' = Earned(Earned(Stats, {<<k, "Hits">>, <<v, "HitsReceived">>}, 1),
                       {<<k, "Damage">>, <<v, "DamageReceived">>}, d)
    /\ Round' = [Round EXCEPT ![k].Damage = @ + d]
    /\ PlayerDamage' = [PlayerDamage EXCEPT ![k][v] = @ + d]
    /\ m_Player' = m_Player \cup {v, k}

\* A hit the victim survives.
PlayerDamage_Hit(v, k, d) ==
    /\ Called("PlayerDamage")
    /\ Recording
    /\ v \in here \cap alive /\ k \in here /\ v # k /\ round \in Unfrozen
    /\ FPlayerCanTakeDamage(v, k)
    /\ PlayerDamage[k][v] + d <= MaxDamage
    /\ RecordHit(v, k, d)
    /\ UNCHANGED <<cvarVars, matchVars, Team, Winner, Tally, ChatLog, gameVars>>
    /\ NoExport

\* The hit that killed, recorded when its TakeDamage returns.
PlayerDamage_Lethal(v, k, d) ==
    /\ pending = {<<v, k>>}
    /\ pending' = {}
    /\ \/ Recording /\ FPlayerCanTakeDamage(v, k) /\ RecordHit(v, k, d)
       \/ ~(Recording /\ FPlayerCanTakeDamage(v, k))
          /\ UNCHANGED <<m_Player, Stats, Round, PlayerDamage>>
    /\ UNCHANGED <<cvarVars, matchVars, Team, Winner, Tally, ChatLog,
                   here, team, alive, round, bomb, planter>>
    /\ NoExport

\* Players who dealt enough damage to v, as the loop over the entities sees it.
Assistants(v, k) ==
    {p \in (here \cap InPlay) \ {k} : PlayerDamage[p][v] >= AssistanceDmg}

\* Nobody counts as dead yet: the hook runs before the victim does.
FirstBlood == NumDead(TERRORIST) = 0 /\ NumDead(CT) = 0

Versus(p) ==
    IF p \in alive \cap InPlay /\ NumAlive(team[p]) = 1
    THEN NumAlive(Enemy(team[p])) ELSE Round[p].Versus

RecordFrag(v, k) ==
    /\ Stats' = Earned(Stats,
            {<<k, "Frags">>, <<v, "Deaths">>}
            \cup {<<p, "Assists">> : p \in Assistants(v, k)}
            \cup (IF FirstBlood THEN {<<k, "EntryFrags">>, <<v, "EntryDeaths">>}
                  ELSE {}), 1)
    /\ Round' = [p \in Players |->
            [Round[p] EXCEPT !.Frags = IF p = k THEN @ + 1 ELSE @,
                             !.Versus = Versus(p)]]
    /\ m_Player' = m_Player \cup {v, k} \cup (here \cap InPlay)

\* As a suicide taken for a frag.
RecordSuicide_AsFrag(v) ==
    /\ Count(v, "Frags")
    /\ UNCHANGED Round

RecordSuicide(v) ==
    /\ Count(v, "Suicides")
    /\ UNCHANGED Round

\* The game kills v and calls the hook while v still counts as alive.
PlayerKilled(v, k) ==
    /\ Called("PlayerKilled")
    /\ Recording
    /\ v \in here \cap alive /\ k \in here
    /\ RoomForEvent
    /\ \/ /\ v # k /\ round \in Unfrozen /\ FPlayerCanTakeDamage(v, k)
          /\ \A d \in Damages : PlayerDamage[k][v] + d <= MaxDamage
          /\ RecordFrag(v, k)
          /\ pending' = IF "PlayerDamage" \in Hooks THEN {<<v, k>>} ELSE {}
       \/ v = k /\ "Suicide" \in Hooks /\ RecordSuicide(v) /\ UNCHANGED pending
    /\ m_RoundEvent' = OnEvent(EVENT_PLAYER_DIED, k, v)
    /\ alive' = alive \ {v}
    /\ UNCHANGED <<cvarVars, m_Match, Team, Winner, Tally, PlayerDamage,
                   ChatLog, here, team, round, bomb, planter>>
    /\ NoExport

\* A death the handler returns early from: the bomb or the world killed v, or
\* no half is being played.
PlayerKilled_Ignored(v) ==
    /\ Called("OtherDeath")
    /\ v \in here \cap alive
    /\ alive' = alive \ {v}
    /\ UNCHANGED <<cvarVars, matchVars, recordVars, statsVars, ChatLog,
                   here, team, round, bomb, planter, pending>>
    /\ NoExport

-----------------------------------------------------------------------------
(* Rounds *)

\* Everybody on a side respawns, some time after the end of a round or when the
\* game is restarted: complete is m_bCompleteReset, read after the game's
\* RestartRound has returned.
RoundRestart(complete) ==
    /\ Called(IF complete THEN "CompleteRestart" ELSE "RoundRestart")
    /\ round \in {"over", "aborted"} \/ complete
    /\ round' = "freeze" /\ alive' = here \cap InPlay
    /\ bomb' = "none" /\ planter' = NoPlayer
    /\ \/ Recording /\ complete /\ ResetStats(m_State) /\ ResetRound
       \/ ~(Recording /\ complete) /\ UNCHANGED <<Stats, Tally, Round>>
    /\ UNCHANGED <<cvarVars, matchVars, recordVars, PlayerDamage, ChatLog,
                   here, team, pending>>
    /\ NoExport

\* The freeze time runs out, of a round that may be over already.
RoundFreezeEnd ==
    /\ Called("RoundFreezeEnd")
    /\ \/ round = "freeze" /\ round' = "live"
       \/ round = "aborted" /\ round' = "over"
    /\ \/ Recording /\ ResetRound
       \/ ~Recording /\ UNCHANGED Round
    /\ UNCHANGED <<cvarVars, matchVars, recordVars, Stats, Tally, PlayerDamage,
                   ChatLog, here, team, alive, bomb, planter, pending>>
    /\ NoExport

\* When the game gives the round to side w: the other side is dead or gone (and
\* left no bomb), in the freeze time too; the bomb went its way; or the time ran
\* out. 0 is a draw.
Decided(w) ==
    CASE w = TERRORIST -> bomb = "exploded" \/ (bomb # "defused" /\ NumAlive(CT) = 0)
      [] w = CT -> bomb = "defused"
                   \/ (bomb = "none" /\ (round = "live" \/ NumAlive(TERRORIST) = 0))
      [] OTHER -> "Draw" \in Hooks

\* As a round the winners lose too, for want of an "else".
RoundCounters_NoElse(w) ==
    {<<p, "RoundPlay">> : p \in InPlay}
    \cup {<<p, "RoundWin">> : p \in OnTeam(w)}
    \cup {<<p, "RoundLose">> : p \in InPlay}

\* The counters of a round won by w: the loop has no test for dormant entities.
RoundCounters(w) ==
    {<<p, "RoundPlay">> : p \in InPlay}
    \cup {<<p, "RoundWin">> : p \in OnTeam(w)}
    \cup {<<p, "RoundLose">> : p \in OnTeam(Enemy(w))}

\* As a streak counted one kill too long.
Bumps_OffByOne(p, i, w) ==
    IF p \in InPlay /\ Round[p].Frags > 0 /\ i = KillStreakCell(Round[p].Frags + 1)
    THEN 1 ELSE 0

\* As clutches counted for the side that lost, too.
Bumps_Losers(p, i, w) ==
    (IF p \in InPlay /\ Round[p].Frags > 0 /\ i = KillStreakCell(Round[p].Frags)
     THEN 1 ELSE 0)
    + (IF p \in InPlay /\ Round[p].Versus > 0 /\ i = VersusCell(Round[p].Versus)
       THEN 1 ELSE 0)

\* How often player p bumps histogram cell i at the end of a round won by w.
Bumps(p, i, w) ==
    (IF p \in InPlay /\ Round[p].Frags > 0 /\ i = KillStreakCell(Round[p].Frags)
     THEN 1 ELSE 0)
    + (IF p \in OnTeam(w) /\ Round[p].Versus > 0 /\ i = VersusCell(Round[p].Versus)
       THEN 1 ELSE 0)

RecordRound(w) ==
    /\ m_RoundEvent' = OnEvent(IF w = TERRORIST THEN EVENT_TERRORISTS_WIN
                               ELSE EVENT_CTS_WIN, NoPlayer, NoPlayer)
    /\ m_Match' = LET score == [m_Match.Score EXCEPT ![w] = @ + 1]
                  IN  [Score |-> score, Winner |-> WhoLeads(score),
                       Rounds |-> m_Match.Rounds + 1]
    /\ Stats' = Earned(Stats, RoundCounters(w), 1)
    /\ Tally' = [p \in Players |-> [s \in PlayStates |-> [i \in Cells |->
                    Tally[p][s][i] + (IF s = m_State THEN Bumps(p, i, w) ELSE 0)]]]
    /\ m_Player' = m_Player \cup InPlay

\* The game ends the round; a kill may bring this before its TakeDamage returns.
RoundEnd(w) ==
    /\ "RoundEnd" \in Hooks
    /\ Decided(w)
    /\ \/ round = "live" /\ round' = "over"
       \/ round = "freeze" /\ round' = "aborted"
    /\ \/ Recording /\ w \in Sides /\ RoomForEvent /\ m_Match.Rounds < MaxRounds
          /\ RecordRound(w)
       \/ ~(Recording /\ w \in Sides)
          /\ UNCHANGED <<matchVars, m_Player, Stats, Tally>>
    /\ UNCHANGED <<cvarVars, Team, Winner, Round, PlayerDamage, ChatLog,
                   here, team, alive, bomb, planter, pending>>
    /\ NoExport

-----------------------------------------------------------------------------
(* The bomb *)

\* The wrapper calls PlantBomb before and after the game plants the bomb.
PlantBomb(p) ==
    /\ Called("PlantBomb")
    /\ round = "live" /\ bomb = "none"
    /\ p \in here \cap alive /\ team[p] = TERRORIST
    /\ bomb' = "planted" /\ planter' = p
    /\ \/ /\ Recording /\ RoomForEvent
          /\ Stats' = Earned(Stats, {<<p, "BombPlanting">>, <<p, "BombPlanted">>}, 1)
          /\ m_RoundEvent' = OnEvent(EVENT_BOMB_PLANTED, p, NoPlayer)
          /\ m_Player' = m_Player \cup {p}
       \/ ~Recording /\ UNCHANGED <<Stats, m_RoundEvent, m_Player>>
    /\ UNCHANGED <<cvarVars, m_Match, Team, Winner, Tally, Round, PlayerDamage,
                   ChatLog, here, team, alive, round, pending>>
    /\ NoExport

DefuseBombStart(p) ==
    /\ Called("DefuseBomb")
    /\ bomb = "planted"
    /\ p \in here \cap alive /\ team[p] = CT
    /\ Counted(p, "BombDefusing")

\* The handler runs before the game's own code; an abandoned attempt
\* (Defused FALSE) changes nothing.
DefuseBombEnd(p) ==
    /\ Called("DefuseBomb")
    /\ bomb = "planted"
    /\ p \in here \cap alive /\ team[p] = CT
    /\ bomb' = "defused"
    /\ \/ /\ Recording /\ RoomForEvent
          /\ Count(p, "BombDefused")
          /\ Round' = [Round EXCEPT ![p].BombDefused = TRUE]
          /\ m_RoundEvent' = OnEvent(EVENT_BOMB_DEFUSED, p, NoPlayer)
       \/ ~Recording /\ UNCHANGED <<Stats, m_Player, Round, m_RoundEvent>>
    /\ UNCHANGED <<cvarVars, m_Match, Team, Winner, Tally, PlayerDamage,
                   ChatLog, here, team, alive, round, planter, pending>>
    /\ NoExport

\* The planter is credited, in the game or not. The blast kills unrecorded.
ExplodeBomb ==
    /\ Called("ExplodeBomb")
    /\ bomb = "planted"
    /\ bomb' = "exploded"
    /\ \/ /\ Recording /\ RoomForEvent
          /\ Count(planter, "BombExploded")
          /\ Round' = [Round EXCEPT ![planter].BombExploded = TRUE]
          /\ m_RoundEvent' = OnEvent(EVENT_BOMB_EXPLODED, planter, NoPlayer)
       \/ ~Recording /\ UNCHANGED <<Stats, m_Player, Round, m_RoundEvent>>
    /\ UNCHANGED <<cvarVars, m_Match, Team, Winner, Tally, PlayerDamage,
                   ChatLog, here, team, alive, round, planter, pending>>
    /\ NoExport

-----------------------------------------------------------------------------
PlayerStep(p) ==
    \/ \E t \in Sides : PlayerGetIntoGame(p, t)
    \/ \E t \in Teams : PlayerSwitchTeam(p, t)
    \/ PlayerDisconnect(p)
    \/ PlayerSetAnimation(p)
    \/ PlayerAddAccount(p)
    \/ PlayerMakeBomber(p)
    \/ PlayerDropItem(p)
    \/ PlayerSayText(p)

CombatStep(v) ==
    \/ \E k \in Players : \E d \in Damages :
          PlayerDamage_Hit(v, k, d) \/ PlayerDamage_Lethal(v, k, d)
    \/ \E k \in Players : PlayerKilled(v, k)
    \/ PlayerKilled_Ignored(v)

RoundStep ==
    \/ \E complete \in BOOLEAN : RoundRestart(complete)
    \/ RoundFreezeEnd
    \/ \E w \in Sides \cup {0} : RoundEnd(w)

BombStep ==
    \/ \E p \in Players : PlantBomb(p) \/ DefuseBombStart(p) \/ DefuseBombEnd(p)
    \/ ExplodeBomb

Next ==
    \/ ServerActivate
    \/ ExecSettings
    \/ \E v \in CvarValues : SetState(v)
    \/ \E p \in Players : PlayerStep(p) \/ CombatStep(p)
    \/ RoundStep
    \/ BombStep

Spec == Init /\ [][Next]_vars

\* The engine runs its command buffer in every frame.
FairSpec == Spec /\ WF_vars(ExecSettings)
=============================================================================
