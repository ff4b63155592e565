----------------------------- MODULE MatchProofs -----------------------------
(***************************************************************************)
(* Proofs that the recorder keeps its types and its first safety            *)
(* properties, for any set of players, any settings and any bounds.         *)
(***************************************************************************)
EXTENDS MatchProperties, FiniteSetTheorems, TLAPS

\* Counting keeps the type of the counters.
LEMMA EarnedType ==
    ASSUME NEW stats \in StatsType, NEW pairs, NEW n \in Nat
    PROVE  Earned(stats, pairs, n) \in StatsType
  BY DEF Earned, StatsType

\* Players can be counted.
LEMMA CountPlayers ==
    ASSUME NEW S \in SUBSET Players
    PROVE  Cardinality(S) \in Nat
  <1>1. IsFiniteSet(S)
    BY PlayersAssumption, FS_Subset DEF PlayersAssumption
  <1> QED
    BY <1>1, FS_CardinalityType

\* So can those alive on a side.
LEMMA NumAliveType ==
    ASSUME NEW t
    PROVE  NumAlive(t) \in Nat
  <1>1. OnTeam(t) \cap here \cap alive \in SUBSET Players
    BY DEF OnTeam
  <1> QED
    BY <1>1, CountPlayers DEF NumAlive

\* So can those a player faces alone.
LEMMA VersusType ==
    ASSUME CounterTypes, NEW p \in Players
    PROVE  Versus(p) \in Nat
  BY NumAliveType DEF Versus, CounterTypes, RoundStats

\* The values Reset() leaves have the type.
LEMMA ZeroTypes ==
    /\ ZeroStats \in StatsType
    /\ ZeroTally \in TallyType
    /\ ZeroRound \in RoundStats
    /\ ZeroMatch \in MatchType
    /\ NoDamage \in [Players -> [Players -> Nat]]
  BY DEF ZeroStats, StatsType, ZeroTally, TallyType, ZeroRound, RoundStats,
         ZeroMatch, MatchType, NoDamage

\* The state before the first callback has the types.
LEMMA InitTypes == Init => TypeOK
  <1> SUFFICES ASSUME Init PROVE TypeOK
    OBVIOUS
  <1>1. CvarTypes
    <2>1. m_stats_state \in BOOLEAN /\ settings \in BOOLEAN
      BY Zenon DEF Init
    <2>2. ms_state \in Int /\ m_State \in Int
      BY DEF Init, STATE_DEAD
    <2> QED
      BY <2>1, <2>2, Zenon DEF CvarTypes
  <1>2. LogTypes
    BY ZeroTypes DEF Init, LogTypes
  <1>3. RecordTypes
    BY LineupAssumption DEF LineupAssumption, Init, RecordTypes, Joined, Teams, Sides, UNASSIGNED
  <1>4. CounterTypes
    BY ZeroTypes DEF Init, CounterTypes
  <1>5. GameTypes
    BY LineupAssumption DEF LineupAssumption, Init, GameTypes, Joined, Teams, Sides, UNASSIGNED
  <1> QED
    BY <1>1, <1>2, <1>3, <1>4, <1>5 DEF TypeOK

-----------------------------------------------------------------------------
(* Parts of the state a step leaves alone keep their types. *)

LEMMA CvarSame == CvarTypes /\ UNCHANGED cvarVars => CvarTypes'
  BY DEF CvarTypes, cvarVars

LEMMA LogSame == LogTypes /\ UNCHANGED matchVars => LogTypes'
  BY DEF LogTypes, matchVars

LEMMA RecordSame == RecordTypes /\ UNCHANGED <<recordVars, ChatLog>> => RecordTypes'
  BY DEF RecordTypes, recordVars

LEMMA CounterSame == CounterTypes /\ UNCHANGED statsVars => CounterTypes'
  BY DEF CounterTypes, statsVars

LEMMA GameSame == GameTypes /\ UNCHANGED gameVars => GameTypes'
  BY DEF GameTypes, gameVars

\* An event numbered by OnEvent is an event of the log.
LEMMA EventLogged ==
    ASSUME LogTypes, NEW type \in EventTypes, NEW k \in Players \cup {NoPlayer},
           NEW v \in Players \cup {NoPlayer}
    PROVE  OnEvent(type, k, v) \in Seq(EventType)
  <1>1. m_Match.Score[TERRORIST] + m_Match.Score[CT] + 1 \in Nat
    BY DEF LogTypes, MatchType, TERRORIST, CT, Sides
  <1>2. [Round |-> m_Match.Score[TERRORIST] + m_Match.Score[CT] + 1,
         Type |-> type, Killer |-> k, Victim |-> v] \in EventType
    BY <1>1 DEF EventType
  <1> QED
    BY <1>2 DEF OnEvent, LogTypes

\* Emptying the counters of one half keeps their types.
LEMMA ResetTypes ==
    ASSUME CounterTypes, NEW s \in PlayStates, ResetStats(s)
    PROVE  Stats' \in StatsType /\ Tally' \in TallyType
  <1>1. Stats' \in StatsType
    <2>1. ASSUME NEW p \in Players
          PROVE  [Stats[p] EXCEPT ![s] = ZeroStats[p][s]] \in [PlayStates -> [Counters -> Nat]]
      BY ZeroTypes DEF CounterTypes, StatsType
    <2> QED
      BY <2>1 DEF ResetStats, StatsType
  <1>2. Tally' \in TallyType
    <2>1. ASSUME NEW p \in Players
          PROVE  [Tally[p] EXCEPT ![s] = ZeroTally[p][s]] \in [PlayStates -> [Cells -> Nat]]
      BY ZeroTypes DEF CounterTypes, TallyType
    <2> QED
      BY <2>1 DEF ResetStats, TallyType
  <1> QED
    BY <1>1, <1>2

LEMMA ResetRoundType ==
    ASSUME ResetRound
    PROVE  Round' \in [Players -> RoundStats]
  BY ZeroTypes DEF ResetRound

-----------------------------------------------------------------------------
(* The handler of the cvar *)

LEMMA DirectSetTypes ==
    ASSUME TypeOK, NEW v \in Int, Cvar_DirectSet(v)
    PROVE  /\ ms_state' \in Int /\ m_State' \in Int
           /\ LogTypes' /\ RecordTypes' /\ CounterTypes' /\ GameTypes'
  <1> USE DEF TypeOK
  <1>1. ms_state' \in Int /\ m_State' \in Int
    BY DEF Cvar_DirectSet
  <1>2. GameTypes'
    BY GameSame DEF Cvar_DirectSet
  <1>3. ASSUME SetDead PROVE LogTypes' /\ RecordTypes' /\ CounterTypes'
    BY <1>3, ZeroTypes
    DEF SetDead, ClearMatch, ResetRound, ClearChat, LogTypes, RecordTypes,
        CounterTypes, Teams, UNASSIGNED
  <1>4. ASSUME SetWarmup PROVE LogTypes' /\ RecordTypes' /\ CounterTypes'
    BY <1>4, ZeroTypes
    DEF SetWarmup, ClearMatch, ResetRound, ClearChat, LogTypes, RecordTypes,
        CounterTypes, recordVars
  <1>5. ASSUME SetStart PROVE LogTypes' /\ RecordTypes' /\ CounterTypes'
    BY <1>5, ZeroTypes, RecordSame, CounterSame
    DEF SetStart, ClearMatch, LogTypes
  <1>6. ASSUME SetFirstHalf PROVE LogTypes' /\ RecordTypes' /\ CounterTypes'
    <2>1. LogTypes' /\ RecordTypes'
      BY <1>6, ZeroTypes
      DEF SetFirstHalf, ClearMatch, ClearChat, LogTypes, RecordTypes, recordVars
    <2>2. CounterTypes'
      BY <1>6, ResetTypes, ResetRoundType
      DEF SetFirstHalf, CounterTypes, PlayStates
    <2> QED
      BY <2>1, <2>2
  <1>7. ASSUME SetHalftime PROVE LogTypes' /\ RecordTypes' /\ CounterTypes'
    <2>1. SwapScores(m_Match) \in MatchType
      BY DEF LogTypes, SwapScores, MatchType, Enemy, Sides
    <2> QED
      BY <1>7, <2>1, RecordSame, CounterSame DEF SetHalftime, LogTypes
  <1>8. ASSUME SetSecondHalf PROVE LogTypes' /\ RecordTypes' /\ CounterTypes'
    <2>1. CounterTypes'
      BY <1>8, ResetTypes, ResetRoundType
      DEF SetSecondHalf, CounterTypes, PlayStates
    <2> QED
      BY <1>8, <2>1, LogSame, RecordSame DEF SetSecondHalf
  <1>9. ASSUME SetOvertime PROVE LogTypes' /\ RecordTypes' /\ CounterTypes'
    <2>1. CounterTypes'
      BY <1>9, ResetTypes, ResetRoundType
      DEF SetOvertime, CounterTypes, PlayStates
    <2> QED
      BY <1>9, <2>1, LogSame, RecordSame DEF SetOvertime
  <1>10. ASSUME SetEnd PROVE LogTypes' /\ RecordTypes' /\ CounterTypes'
    <2>1. RecordTypes'
      BY <1>10 DEF SetEnd, RecordTypes
    <2> QED
      BY <1>10, <2>1, LogSame, CounterSame DEF SetEnd
  <1>11. ASSUME SetOther PROVE LogTypes' /\ RecordTypes' /\ CounterTypes'
    BY <1>11, LogSame, RecordSame, CounterSame DEF SetOther
  <1> QED
    BY <1>1, <1>2, <1>3, <1>4, <1>5, <1>6, <1>7, <1>8, <1>9, <1>10, <1>11
    DEF Cvar_DirectSet

-----------------------------------------------------------------------------
(* The players *)

\* A counter that is bumped keeps its type.
LEMMA BumpTypes ==
    ASSUME CounterTypes, RecordTypes, NEW p \in Players, NEW c, Count(p, c)
    PROVE  Stats' \in StatsType /\ m_Player' \subseteq Players
  BY EarnedType DEF Count, CounterTypes, RecordTypes

\* A handler that counts keeps the types of the counters and the records.
LEMMA CountTypes ==
    ASSUME TypeOK, NEW p \in Players, NEW c, Counted(p, c)
    PROVE  TypeOK'
  <1> USE DEF TypeOK
  <1>1. Stats' \in StatsType /\ m_Player' \subseteq Players
    BY BumpTypes DEF Counted
  <1>2. CounterTypes'
    BY <1>1 DEF Counted, CounterTypes
  <1>3. RecordTypes'
    BY <1>1 DEF Counted, RecordTypes
  <1> QED
    BY <1>2, <1>3, CvarSame, LogSame, GameSame DEF Counted

LEMMA PlayerTypes ==
    ASSUME TypeOK, NEW p \in Players, PlayerStep(p)
    PROVE  TypeOK'
  <1> USE DEF TypeOK
  <1>1. ASSUME NEW t \in Sides, PlayerGetIntoGame(p, t) PROVE TypeOK'
    <2>1. RecordTypes'
      BY <1>1 DEF PlayerGetIntoGame, RecordTypes, Sides, Teams
    <2>2. GameTypes'
      BY <1>1 DEF PlayerGetIntoGame, GameTypes, Sides, Teams
    <2> QED
      BY <1>1, <2>1, <2>2, CvarSame, LogSame, CounterSame DEF PlayerGetIntoGame
  <1>2. ASSUME NEW t \in Teams, PlayerSwitchTeam(p, t) PROVE TypeOK'
    <2>1. RecordTypes'
      BY <1>2 DEF PlayerSwitchTeam, RecordTypes
    <2>2. GameTypes'
      BY <1>2 DEF PlayerSwitchTeam, GameTypes
    <2> QED
      BY <1>2, <2>1, <2>2, CvarSame, LogSame, CounterSame DEF PlayerSwitchTeam
  <1>3. ASSUME PlayerDisconnect(p) PROVE TypeOK'
    <2>1. RecordTypes'
      BY <1>3 DEF PlayerDisconnect, RecordTypes
    <2>2. GameTypes'
      BY <1>3 DEF PlayerDisconnect, GameTypes, Teams
    <2> QED
      BY <1>3, <2>1, <2>2, CvarSame, LogSame, CounterSame DEF PlayerDisconnect
  <1>4. ASSUME PlayerSayText(p) PROVE TypeOK'
    <2>1. Append(ChatLog[p], m_State) \in Seq(Int)
      BY DEF CvarTypes, RecordTypes
    <2>2. RecordTypes'
      BY <1>4, <2>1 DEF PlayerSayText, RecordTypes
    <2> QED
      BY <1>4, <2>2, CvarSame, LogSame, CounterSame, GameSame DEF PlayerSayText
  <1>5. ASSUME NEW c, Counted(p, c) PROVE TypeOK'
    BY <1>5, CountTypes
  <1> QED
    BY <1>1, <1>2, <1>3, <1>4, <1>5
    DEF PlayerStep, PlayerSetAnimation, PlayerAddAccount, PlayerMakeBomber, PlayerDropItem

-----------------------------------------------------------------------------
(* Combat *)

LEMMA RecordHitTypes ==
    ASSUME TypeOK, NEW v \in Players, NEW k \in Players, NEW d \in Damages,
           RecordHit(v, k, d), UNCHANGED <<Team, Winner, Tally, ChatLog>>
    PROVE  RecordTypes' /\ CounterTypes'
  <1> USE DEF TypeOK
  <1>1. d \in Nat
    BY SettingsAssumption DEF SettingsAssumption
  <1>2. Stats' \in StatsType
    <2> DEFINE hits == Earned(Stats, {<<k, "Hits">>, <<v, "HitsReceived">>}, 1)
    <2>1. hits \in StatsType
      BY EarnedType DEF CounterTypes
    <2> HIDE DEF hits
    <2>2. Earned(hits, {<<k, "Damage">>, <<v, "DamageReceived">>}, d) \in StatsType
      BY <2>1, <1>1, EarnedType
    <2> QED
      BY <2>2 DEF RecordHit, hits
  <1>3. Round' \in [Players -> RoundStats]
    <2>1. [Round[k] EXCEPT !.Damage = @ + d] \in RoundStats
      <3>1. Round[k] \in RoundStats
        BY DEF CounterTypes
      <3> QED
        BY <1>1, <3>1 DEF RoundStats
    <2> QED
      BY <2>1 DEF RecordHit, CounterTypes
  <1>4. PlayerDamage' \in [Players -> [Players -> Nat]]
    BY <1>1 DEF RecordHit, CounterTypes
  <1>5. RecordTypes'
    BY DEF RecordHit, RecordTypes
  <1>6. Tally' \in TallyType
    BY DEF CounterTypes
  <1> QED
    BY <1>2, <1>3, <1>4, <1>5, <1>6 DEF CounterTypes

LEMMA RecordFragTypes ==
    ASSUME TypeOK, NEW v \in Players, NEW k \in Players, RecordFrag(v, k)
    PROVE  /\ Stats' \in StatsType
           /\ Round' \in [Players -> RoundStats]
           /\ m_Player' \subseteq Players
  <1> USE DEF TypeOK
  <1>1. Stats' \in StatsType
    BY EarnedType DEF RecordFrag, CounterTypes
  <1>2. Round' \in [Players -> RoundStats]
    <2>1. ASSUME NEW p \in Players
          PROVE  [Round[p] EXCEPT !.Frags = IF p = k THEN @ + 1 ELSE @,
                                  !.Versus = Versus(p)] \in RoundStats
      <3>1. Round[p] \in RoundStats
        BY DEF CounterTypes
      <3>2. Versus(p) \in Nat
        BY VersusType
      <3>3. (IF p = k THEN Round[p].Frags + 1 ELSE Round[p].Frags) \in Nat
        BY <3>1 DEF RoundStats
      <3> QED
        BY <3>1, <3>2, <3>3 DEF RoundStats
    <2> QED
      BY <2>1 DEF RecordFrag
  <1>3. m_Player' \subseteq Players
    BY DEF RecordFrag, RecordTypes, GameTypes
  <1> QED
    BY <1>1, <1>2, <1>3

LEMMA CombatTypes ==
    ASSUME TypeOK, NEW v \in Players, CombatStep(v)
    PROVE  TypeOK'
  <1> USE DEF TypeOK
  <1>1. ASSUME NEW k \in Players, NEW d \in Damages, PlayerDamage_Hit(v, k, d)
        PROVE  TypeOK'
    BY <1>1, RecordHitTypes, CvarSame, LogSame, GameSame DEF PlayerDamage_Hit
  <1>2. ASSUME NEW k \in Players, NEW d \in Damages, PlayerDamage_Lethal(v, k, d)
        PROVE  TypeOK'
    <2>1. RecordTypes' /\ CounterTypes'
      <3>1. CASE RecordHit(v, k, d)
        BY <1>2, <3>1, RecordHitTypes DEF PlayerDamage_Lethal
      <3>2. CASE UNCHANGED <<m_Player, Stats, Round, PlayerDamage>>
        BY <1>2, <3>2, RecordSame, CounterSame
        DEF PlayerDamage_Lethal, recordVars, statsVars
      <3> QED
        BY <1>2, <3>1, <3>2 DEF PlayerDamage_Lethal
    <2>2. GameTypes'
      BY <1>2 DEF PlayerDamage_Lethal, GameTypes
    <2> QED
      BY <1>2, <2>1, <2>2, CvarSame, LogSame DEF PlayerDamage_Lethal
  <1>3. ASSUME NEW k \in Players, PlayerKilled(v, k) PROVE TypeOK'
    <2>1. LogTypes'
      BY <1>3, EventLogged DEF PlayerKilled, LogTypes, EventTypes
    <2>2. /\ Stats' \in StatsType /\ Round' \in [Players -> RoundStats]
          /\ m_Player' \subseteq Players
      <3>1. CASE RecordFrag(v, k)
        BY <3>1, RecordFragTypes
      <3>2. CASE RecordSuicide(v)
        BY <3>2, BumpTypes DEF RecordSuicide, CounterTypes
      <3> QED
        BY <1>3, <3>1, <3>2 DEF PlayerKilled
    <2>3. RecordTypes' /\ CounterTypes'
      <3>1. UNCHANGED <<Team, Winner, Tally, PlayerDamage, ChatLog>>
        BY <1>3 DEF PlayerKilled
      <3>2. RecordTypes'
        BY <2>2, <3>1 DEF RecordTypes
      <3>3. CounterTypes'
        BY <2>2, <3>1 DEF CounterTypes
      <3> QED
        BY <3>2, <3>3
    <2>4. pending' \subseteq Players \X Players
      BY <1>3 DEF PlayerKilled, GameTypes
    <2>5. GameTypes'
      BY <1>3, <2>4 DEF PlayerKilled, GameTypes
    <2> QED
      BY <1>3, <2>1, <2>3, <2>5, CvarSame DEF PlayerKilled
  <1>4. ASSUME PlayerKilled_Ignored(v) PROVE TypeOK'
    <2>1. GameTypes'
      BY <1>4 DEF PlayerKilled_Ignored, GameTypes
    <2> QED
      BY <1>4, <2>1, CvarSame, LogSame, RecordSame, CounterSame
      DEF PlayerKilled_Ignored
  <1> QED
    BY <1>1, <1>2, <1>3, <1>4 DEF CombatStep

-----------------------------------------------------------------------------
(* Rounds and the bomb *)

\* A round won keeps the score, the histograms and the log in their types.
LEMMA RecordRoundTypes ==
    ASSUME TypeOK, NEW w \in Sides, RecordRound(w)
    PROVE  /\ LogTypes'
           /\ Stats' \in StatsType /\ Tally' \in TallyType
           /\ m_Player' \subseteq Players
  <1> USE DEF TypeOK
  <1>1. m_RoundEvent' \in Seq(EventType)
    BY EventLogged DEF RecordRound, EventTypes, WinEvents
  <1>2. m_Match' \in MatchType
    <2> DEFINE score == [m_Match.Score EXCEPT ![w] = @ + 1]
    <2>1. score \in [Sides -> Nat] /\ m_Match.Rounds + 1 \in Nat
      BY DEF LogTypes, MatchType
    <2>2. WhoLeads(score) \in {0, 1, 2}
      BY DEF WhoLeads, TERRORIST, CT
    <2>3. m_Match' = [Score |-> score, Winner |-> WhoLeads(score),
                      Rounds |-> m_Match.Rounds + 1]
      BY DEF RecordRound
    <2> QED
      BY <2>1, <2>2, <2>3 DEF MatchType
  <1>3. Stats' \in StatsType
    BY EarnedType DEF RecordRound, CounterTypes
  <1>4. Tally' \in TallyType
    <2>1. ASSUME NEW p \in Players, NEW s \in PlayStates, NEW i \in Cells
          PROVE  Tally[p][s][i] + (IF s = m_State THEN Bumps(p, i, w) ELSE 0) \in Nat
      <3>1. Bumps(p, i, w) \in Nat
        BY DEF Bumps
      <3>2. Tally[p][s][i] \in Nat
        BY DEF CounterTypes, TallyType
      <3> QED
        BY <3>1, <3>2
    <2> QED
      BY <2>1 DEF RecordRound, TallyType
  <1>5. m_Player' \subseteq Players
    BY DEF RecordRound, RecordTypes, InPlay
  <1> QED
    BY <1>1, <1>2, <1>3, <1>4, <1>5 DEF LogTypes

LEMMA RoundTypes ==
    ASSUME TypeOK, RoundStep
    PROVE  TypeOK'
  <1> USE DEF TypeOK
  <1>1. ASSUME NEW complete \in BOOLEAN, RoundRestart(complete) PROVE TypeOK'
    <2>1. CounterTypes'
      <3>1. CASE Recording /\ ResetStats(m_State) /\ ResetRound
        <4>1. Stats' \in StatsType /\ Tally' \in TallyType
          BY <3>1, ResetTypes DEF Recording
        <4>2. Round' \in [Players -> RoundStats]
          BY <3>1, ResetRoundType
        <4>3. UNCHANGED PlayerDamage
          BY <1>1 DEF RoundRestart
        <4> QED
          BY <4>1, <4>2, <4>3 DEF CounterTypes
      <3>2. CASE UNCHANGED <<Stats, Tally, Round>>
        <4>1. UNCHANGED PlayerDamage
          BY <1>1 DEF RoundRestart
        <4> QED
          BY <3>2, <4>1 DEF CounterTypes
      <3> QED
        BY <1>1, <3>1, <3>2, Zenon DEF RoundRestart
    <2>2. GameTypes'
      BY <1>1 DEF RoundRestart, GameTypes, InPlay
    <2>3. UNCHANGED <<cvarVars, matchVars, recordVars, ChatLog>>
      BY <1>1 DEF RoundRestart
    <2> QED
      BY <2>1, <2>2, <2>3, CvarSame, LogSame, RecordSame
  <1>2. ASSUME RoundFreezeEnd PROVE TypeOK'
    <2>1. Round' \in [Players -> RoundStats]
      BY <1>2, ResetRoundType DEF RoundFreezeEnd, CounterTypes
    <2>2. CounterTypes'
      BY <1>2, <2>1 DEF RoundFreezeEnd, CounterTypes
    <2>3. GameTypes'
      BY <1>2 DEF RoundFreezeEnd, GameTypes
    <2> QED
      BY <1>2, <2>2, <2>3, CvarSame, LogSame, RecordSame DEF RoundFreezeEnd
  <1>3. ASSUME NEW w \in Sides \cup {0}, RoundEnd(w) PROVE TypeOK'
    <2>1. /\ LogTypes' /\ Stats' \in StatsType /\ Tally' \in TallyType
          /\ m_Player' \subseteq Players
      <3>1. CASE w \in Sides /\ RecordRound(w)
        BY <3>1, RecordRoundTypes
      <3>2. CASE UNCHANGED <<matchVars, m_Player, Stats, Tally>>
        BY <3>2, LogSame DEF CounterTypes, RecordTypes
      <3> QED
        BY <1>3, <3>1, <3>2, Zenon DEF RoundEnd
    <2>2. UNCHANGED <<Team, Winner, Round, PlayerDamage, ChatLog>>
      BY <1>3 DEF RoundEnd
    <2>3. RecordTypes'
      BY <2>1, <2>2 DEF RecordTypes
    <2>4. CounterTypes'
      BY <2>1, <2>2 DEF CounterTypes
    <2>5. GameTypes'
      BY <1>3 DEF RoundEnd, GameTypes
    <2> QED
      BY <1>3, <2>1, <2>3, <2>4, <2>5, CvarSame DEF RoundEnd
  <1> QED
    BY <1>1, <1>2, <1>3 DEF RoundStep

\* Setting a flag of the round stats keeps their type.
LEMMA FlagTypes ==
    ASSUME CounterTypes, NEW p \in Players,
           \/ Round' = [Round EXCEPT ![p].BombDefused = TRUE]
           \/ Round' = [Round EXCEPT ![p].BombExploded = TRUE]
    PROVE  Round' \in [Players -> RoundStats]
  <1>1. Round[p] \in RoundStats
    BY DEF CounterTypes
  <1>2. [Round[p] EXCEPT !.BombDefused = TRUE] \in RoundStats
    BY <1>1 DEF RoundStats
  <1>3. [Round[p] EXCEPT !.BombExploded = TRUE] \in RoundStats
    BY <1>1 DEF RoundStats
  <1> QED
    BY <1>2, <1>3 DEF CounterTypes

LEMMA BombTypes ==
    ASSUME TypeOK, BombStep
    PROVE  TypeOK'
  <1> USE DEF TypeOK
  <1>1. ASSUME NEW p \in Players, PlantBomb(p) PROVE TypeOK'
    <2>1. LogTypes'
      BY <1>1, EventLogged DEF PlantBomb, LogTypes, EventTypes
    <2>2. Stats' \in StatsType /\ m_Player' \subseteq Players
      BY <1>1, EarnedType DEF PlantBomb, CounterTypes, RecordTypes
    <2>3. UNCHANGED <<Team, Winner, Tally, Round, PlayerDamage, ChatLog>>
      BY <1>1 DEF PlantBomb
    <2>4. RecordTypes' /\ CounterTypes'
      BY <2>2, <2>3 DEF RecordTypes, CounterTypes
    <2>5. GameTypes'
      BY <1>1 DEF PlantBomb, GameTypes
    <2> QED
      BY <1>1, <2>1, <2>4, <2>5, CvarSame DEF PlantBomb
  <1>2. ASSUME NEW p \in Players, DefuseBombStart(p) PROVE TypeOK'
    BY <1>2, CountTypes DEF DefuseBombStart
  <1>3. ASSUME NEW p \in Players, DefuseBombEnd(p) PROVE TypeOK'
    <2>1. LogTypes'
      <3>1. OnEvent(EVENT_BOMB_DEFUSED, p, NoPlayer) \in Seq(EventType)
        BY EventLogged DEF EventTypes
      <3>2. m_RoundEvent' \in Seq(EventType)
        BY <1>3, <3>1 DEF DefuseBombEnd, LogTypes
      <3>3. UNCHANGED m_Match
        BY <1>3 DEF DefuseBombEnd
      <3> QED
        BY <3>2, <3>3 DEF LogTypes
    <2>2. Stats' \in StatsType /\ m_Player' \subseteq Players
      <3>1. CASE Count(p, "BombDefused")
        BY <3>1, BumpTypes
      <3>2. CASE UNCHANGED <<Stats, m_Player>>
        BY <3>2 DEF CounterTypes, RecordTypes
      <3> QED
        BY <1>3, <3>1, <3>2 DEF DefuseBombEnd
    <2>3. Round' \in [Players -> RoundStats]
      BY <1>3, FlagTypes DEF DefuseBombEnd, CounterTypes
    <2>4. UNCHANGED <<Team, Winner, Tally, PlayerDamage, ChatLog>>
      BY <1>3 DEF DefuseBombEnd
    <2>5. RecordTypes' /\ CounterTypes'
      BY <2>2, <2>3, <2>4 DEF RecordTypes, CounterTypes
    <2>6. GameTypes'
      BY <1>3 DEF DefuseBombEnd, GameTypes
    <2> QED
      BY <1>3, <2>1, <2>5, <2>6, CvarSame DEF DefuseBombEnd
  <1>4. ASSUME ExplodeBomb PROVE TypeOK'
    <2>1. planter \in Players
      BY <1>4 DEF ExplodeBomb, GameTypes
    <2>2. LogTypes'
      <3>1. OnEvent(EVENT_BOMB_EXPLODED, planter, NoPlayer) \in Seq(EventType)
        BY <2>1, EventLogged DEF EventTypes
      <3>2. m_RoundEvent' \in Seq(EventType)
        BY <1>4, <3>1 DEF ExplodeBomb, LogTypes
      <3>3. UNCHANGED m_Match
        BY <1>4 DEF ExplodeBomb
      <3> QED
        BY <3>2, <3>3 DEF LogTypes
    <2>3. Stats' \in StatsType /\ m_Player' \subseteq Players
      <3>1. CASE Count(planter, "BombExploded")
        BY <2>1, <3>1, BumpTypes
      <3>2. CASE UNCHANGED <<Stats, m_Player>>
        BY <3>2 DEF CounterTypes, RecordTypes
      <3> QED
        BY <1>4, <3>1, <3>2 DEF ExplodeBomb
    <2>4. Round' \in [Players -> RoundStats]
      BY <1>4, <2>1, FlagTypes DEF ExplodeBomb, CounterTypes
    <2>5. UNCHANGED <<Team, Winner, Tally, PlayerDamage, ChatLog>>
      BY <1>4 DEF ExplodeBomb
    <2>6. RecordTypes' /\ CounterTypes'
      BY <2>3, <2>4, <2>5 DEF RecordTypes, CounterTypes
    <2>7. GameTypes'
      BY <1>4 DEF ExplodeBomb, GameTypes
    <2> QED
      BY <1>4, <2>2, <2>6, <2>7, CvarSame DEF ExplodeBomb
  <1> QED
    BY <1>1, <1>2, <1>3, <1>4 DEF BombStep

-----------------------------------------------------------------------------
(* The cvar and the map *)

LEMMA SettingsTypes ==
    ASSUME TypeOK, ServerActivate \/ ExecSettings \/ \E v \in CvarValues : SetState(v)
    PROVE  TypeOK'
  <1> USE DEF TypeOK
  <1>1. CASE ServerActivate
    <2>1. GameTypes'
      BY <1>1 DEF ServerActivate, GameTypes, Teams
    <2>2. ms_state' \in Int /\ m_State' \in Int
      BY <1>1 DEF ServerActivate, CvarTypes, STATE_DEAD
    <2>3. m_stats_state' \in BOOLEAN /\ settings' \in BOOLEAN
      BY <1>1, Zenon DEF ServerActivate
    <2>4. CvarTypes'
      BY <2>2, <2>3, Zenon DEF CvarTypes
    <2> QED
      BY <1>1, <2>1, <2>4, LogSame, RecordSame, CounterSame DEF ServerActivate
  <1>2. ASSUME NEW v \in Int, Cvar_DirectSet(v), settings' \in BOOLEAN PROVE TypeOK'
    <2>1. m_stats_state' \in BOOLEAN
      BY <1>2 DEF Cvar_DirectSet, CvarTypes
    <2> QED
      BY <1>2, <2>1, DirectSetTypes DEF CvarTypes
  <1>3. CASE ExecSettings
    <2>1. settings' \in BOOLEAN /\ Cvar_DirectSet(SettingsState)
      BY <1>3, Zenon DEF ExecSettings
    <2> QED
      BY <1>2, <2>1, SettingsAssumption DEF SettingsAssumption
  <1>4. ASSUME NEW v \in CvarValues, SetState(v) PROVE TypeOK'
    <2>1. settings' \in BOOLEAN
      BY <1>4 DEF SetState, CvarTypes
    <2> QED
      BY <1>2, <1>4, <2>1, SettingsAssumption DEF SettingsAssumption, SetState
  <1> QED
    BY <1>1, <1>3, <1>4

\* Whatever order the game calls the handlers in, every record keeps its type,
\* the living are in the game and a bomb that explodes has a planter to credit.
THEOREM TypeCorrect == Spec => []TypeOK
  <1>1. TypeOK /\ [Next]_vars => TypeOK'
    <2> SUFFICES ASSUME TypeOK, [Next]_vars PROVE TypeOK'
      OBVIOUS
    <2>1. CASE UNCHANGED vars
      BY <2>1, CvarSame, LogSame, RecordSame, CounterSame, GameSame DEF vars, TypeOK
    <2>2. CASE Next
      BY <2>2, SettingsTypes, PlayerTypes, CombatTypes, RoundTypes, BombTypes DEF Next
    <2> QED
      BY <2>1, <2>2
  <1> QED
    BY InitTypes, <1>1, PTL DEF Spec
=============================================================================
