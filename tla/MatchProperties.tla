--------------------------- MODULE MatchProperties ---------------------------
(***************************************************************************)
(* What the recorder promises: its records, log, score and exported         *)
(* document agree with each other whatever the order of the game's calls.   *)
(***************************************************************************)
EXTENDS MatchStats

HowMany(log, Test(_)) == Cardinality({i \in DOMAIN log : Test(log[i])})

CvarTypes ==
    /\ ms_state \in Int /\ m_State \in Int
    /\ m_stats_state \in BOOLEAN /\ settings \in BOOLEAN

LogTypes ==
    /\ m_Match \in MatchType
    /\ m_RoundEvent \in Seq(EventType)

RecordTypes ==
    /\ m_Player \subseteq Players
    /\ Team \in [Players -> Teams] /\ Winner \in [Players -> {0, 1}]
    /\ ChatLog \in [Players -> Seq(Int)]

CounterTypes ==
    /\ Stats \in StatsType /\ Tally \in TallyType
    /\ Round \in [Players -> RoundStats]
    /\ PlayerDamage \in [Players -> [Players -> Nat]]

GameTypes ==
    /\ here \subseteq Players /\ alive \subseteq here
    /\ team \in [Players -> Teams]
    /\ round \in {"over", "freeze", "live", "aborted"}
    /\ bomb \in {"none", "planted", "defused", "exploded"}
    /\ planter \in Players \cup {NoPlayer}
    /\ bomb = "planted" => planter \in Players
    /\ pending \subseteq Players \X Players

\* Every variable keeps its type; the living are in the game, and a planted bomb
\* has a planter to credit.
TypeOK == CvarTypes /\ LogTypes /\ RecordTypes /\ CounterTypes /\ GameTypes

IsWin(e) == e.Type \in WinEvents

\* The two scores add up to the rounds played, through halftime swaps, resets
\* and overtime: RoundEnd moves both, and they are only ever cleared together.
ScoreIsRounds ==
    m_Match.Score[TERRORIST] + m_Match.Score[CT] = m_Match.Rounds

\* The event log is a chronicle of the match: events carry the number of a round
\* begun, in order; a round is over after its win event; every round played has
\* one. OnEvent numbers events from the scores, which halftime exchanges.
LogIsChronicle ==
    /\ \A i \in DOMAIN m_RoundEvent :
          LET e == m_RoundEvent[i]
          IN  e.Round \in 1 .. m_Match.Rounds + (IF IsWin(e) THEN 0 ELSE 1)
    /\ \A i, j \in DOMAIN m_RoundEvent : i < j =>
          /\ m_RoundEvent[i].Round <= m_RoundEvent[j].Round
          /\ IsWin(m_RoundEvent[i]) => m_RoundEvent[i].Round < m_RoundEvent[j].Round
    /\ \A n \in 1 .. m_Match.Rounds :
          \E i \in DOMAIN m_RoundEvent :
             IsWin(m_RoundEvent[i]) /\ m_RoundEvent[i].Round = n

\* Whoever the log names has a record: the map is cleared with the log only.
EventsHaveRecords ==
    \A i \in DOMAIN m_RoundEvent :
       {m_RoundEvent[i].Killer, m_RoundEvent[i].Victim} \subseteq m_Player \cup {NoPlayer}

\* A record never speaks of a team the player has left: of a player in the game it holds
\* the team the player is on, or none when the record was dropped by ms_state 0 and made
\* again since, whatever joins, switches, leaves and map changes came between.
TeamOfRecord ==
    \A p \in here \cap m_Player : Team[p] \in {UNASSIGNED, team[p]}

\* The recorder acts on the value the cvar has, except between the start of a
\* map, which silences it, and the settings file, which sets the cvar again.
StateFollowsCvar ==
    m_stats_state => m_State = ms_state \/ (settings /\ m_State = STATE_DEAD)

\* Rounds of the half being played are won or lost, and none is counted twice:
\* per player no more than the match has played.
RoundsPlayed ==
    /\ \A p \in Players, s \in PlayStates :
          Stats[p][s]["RoundPlay"] = Stats[p][s]["RoundWin"] + Stats[p][s]["RoundLose"]
    /\ Recording => \A p \in Players : Stats[p][m_State]["RoundPlay"] <= m_Match.Rounds

\* The counters of the half being played are backed by events of the log, which
\* a reset of the counters may outlive but never the other way round.
StatsInLog ==
    Recording => \A p \in Players :
       LET Times(type) == HowMany(m_RoundEvent, LAMBDA e :
                              e.Type = type /\ e.Killer = p /\ e.Victim # p)
           Suicides == HowMany(m_RoundEvent, LAMBDA e : e.Killer = p /\ e.Victim = p)
           Deaths == HowMany(m_RoundEvent, LAMBDA e : e.Killer # p /\ e.Victim = p)
       IN  /\ Stats[p][m_State]["Frags"] <= Times(EVENT_PLAYER_DIED)
           /\ Stats[p][m_State]["Deaths"] <= Deaths
           /\ Stats[p][m_State]["Suicides"] <= Suicides
           /\ Stats[p][m_State]["BombPlanted"] <= Times(EVENT_BOMB_PLANTED)
           /\ Stats[p][m_State]["BombDefused"] <= Times(EVENT_BOMB_DEFUSED)
           /\ Stats[p][m_State]["BombExploded"] <= Times(EVENT_BOMB_EXPLODED)

\* While a round is live the round stats speak of this round: what RoundEnd will
\* credit (streak, bomb shares) happened under the current round number.
RoundInLog ==
    Recording /\ round = "live" => \A p \in Players :
       LET Times(type) == HowMany(m_RoundEvent, LAMBDA e :
                              /\ e.Type = type /\ e.Killer = p /\ e.Victim # p
                              /\ e.Round = m_Match.Rounds + 1)
       IN  /\ Round[p].Frags <= Times(EVENT_PLAYER_DIED)
           /\ Round[p].BombDefused => Times(EVENT_BOMB_DEFUSED) > 0
           /\ Round[p].BombExploded => Times(EVENT_BOMB_EXPLODED) > 0

-----------------------------------------------------------------------------
(* What a step may never do *)

\* The log only grows, or is emptied together with the score it is numbered by.
LogGrows ==
    [][\/ \E n \in 0 .. Len(m_RoundEvent') :
             m_RoundEvent = SubSeq(m_RoundEvent', 1, n)
       \/ m_RoundEvent' = << >> /\ m_Match' = ZeroMatch]_vars

\* A half that is not being played is never written: its counters change only
\* when ms_state enters it, or is set to 0, and then to nothing.
PastHalvesKept ==
    [][\A p \in Players, s \in PlayStates :
          \/ Stats'[p][s] = Stats[p][s] /\ Tally'[p][s] = Tally[p][s]
          \/ s = m_State /\ m_State' = m_State
          \/ /\ m_State' \in {s, STATE_DEAD}
             /\ Stats'[p][s] = ZeroStats[p][s] /\ Tally'[p][s] = ZeroTally[p][s]]_vars

\* The recorder implements the scoreboard: what it promises of a match, with the
\* rounds counted apart and events numbered by them.
Board == INSTANCE Scoreboard WITH
    Opponent <- [t \in Sides |-> Enemy(t)],
    Names <- Players \cup {NoPlayer},
    Nobody <- NoPlayer,
    Wins <- [w \in Sides |-> IF w = TERRORIST THEN EVENT_TERRORISTS_WIN
                             ELSE EVENT_CTS_WIN],
    Happenings <- EventTypes \ WinEvents,
    score <- m_Match.Score, rounds <- m_Match.Rounds, log <- m_RoundEvent

\* A match is chronicled as the scoreboard says, through halftime swaps, resets in
\* the middle of a round, map changes and states that are set in any order.
KeepsScore == Board!BoardSpec

\* After a map change the recorder comes to act on the cvar again.
SettingsTakeEffect == settings ~> m_State = ms_state
=============================================================================
