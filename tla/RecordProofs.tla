----------------------------- MODULE RecordProofs -----------------------------
(***************************************************************************)
(* Proofs about the counters of the players: which half a step may write,   *)
(* how the rounds of a player relate to those of the match, which team a    *)
(* record speaks of, and that the event log backs what was counted. For any *)
(* players, settings and bounds.                                            *)
(***************************************************************************)
EXTENDS MatchSafety

(* What a step can do to the counters *)

RoundCounterNames == {"RoundPlay", "RoundWin", "RoundLose"}

\* Only the half being played is written, and not its rounds.
Writes(old, new) ==
    \A p \in Players, s \in PlayStates :
       /\ s # m_State => new[p][s] = old[p][s]
       /\ \A c \in RoundCounterNames : new[p][s][c] = old[p][s][c]

HalfIdle == UNCHANGED <<m_State, Stats, Tally, m_Match>>
HalfPlayed ==
    /\ UNCHANGED <<m_State, Tally, m_Match>> /\ Recording
    /\ Writes(Stats, Stats')
HalfEntered == m_State' \in PlayStates /\ ResetStats(m_State')
HalfLeft ==
    /\ m_State' \notin PlayStates
    /\ \/ UNCHANGED <<Stats, Tally>>
       \/ m_State' = STATE_DEAD /\ Stats' = ZeroStats /\ Tally' = ZeroTally

LEMMA EarnedWrites ==
    ASSUME NEW stats \in StatsType, NEW pairs, NEW n,
           \A pair \in pairs : pair[2] \notin RoundCounterNames
    PROVE  Writes(stats, Earned(stats, pairs, n))
  <1> SUFFICES ASSUME NEW p \in Players, NEW s \in PlayStates
               PROVE  /\ s # m_State => Earned(stats, pairs, n)[p][s] = stats[p][s]
                      /\ \A c \in RoundCounterNames :
                            Earned(stats, pairs, n)[p][s][c] = stats[p][s][c]
    BY DEF Writes
  <1>1. /\ stats[p][s] \in [Counters -> Nat] /\ RoundCounterNames \subseteq Counters
        /\ Earned(stats, pairs, n)[p][s] =
              [c \in Counters |-> IF s = m_State /\ <<p, c>> \in pairs
                                  THEN stats[p][s][c] + n ELSE stats[p][s][c]]
    BY DEF StatsType, Earned, RoundCounterNames, Counters
  <1>2. ASSUME s # m_State PROVE Earned(stats, pairs, n)[p][s] = stats[p][s]
    BY <1>1, <1>2
  <1>3. \A c \in RoundCounterNames : <<p, c>> \notin pairs
    <2> SUFFICES ASSUME NEW c \in RoundCounterNames, <<p, c>> \in pairs PROVE FALSE
      OBVIOUS
    <2>1. <<p, c>>[2] \notin RoundCounterNames
      OBVIOUS
    <2> QED
      BY <2>1
  <1>4. \A c \in RoundCounterNames : Earned(stats, pairs, n)[p][s][c] = stats[p][s][c]
    BY <1>1, <1>3
  <1> QED
    BY <1>2, <1>4

LEMMA CountWrites ==
    ASSUME TypeOK, NEW p \in Players, NEW c, c \notin RoundCounterNames, Count(p, c)
    PROVE  Writes(Stats, Stats')
  <1>1. \A pair \in {<<p, c>>} : pair[2] \notin RoundCounterNames
    OBVIOUS
  <1> QED
    BY <1>1, EarnedWrites DEF Count, TypeOK, CounterTypes

LEMMA SettingsHalves ==
    ASSUME NEW v, Cvar_DirectSet(v)
    PROVE  HalfEntered \/ HalfLeft
  <1>1. m_State' = v
    BY DEF Cvar_DirectSet
  <1>2. CASE v = STATE_DEAD /\ SetDead
    BY <1>1, <1>2 DEF SetDead, HalfLeft, PlayStates, STATE_DEAD, STATE_FIRST_HALF,
       STATE_SECOND_HALF, STATE_OVERTIME
  <1>3. CASE \/ v = STATE_FIRST_HALF /\ SetFirstHalf
             \/ v = STATE_SECOND_HALF /\ SetSecondHalf
             \/ v = STATE_OVERTIME /\ SetOvertime
    BY <1>1, <1>3 DEF SetFirstHalf, SetSecondHalf, SetOvertime, HalfEntered, PlayStates
  <1>4. CASE \/ v = STATE_WARMUP /\ SetWarmup
             \/ v = STATE_START /\ SetStart
             \/ v = STATE_HALFTIME /\ SetHalftime
             \/ v = STATE_END /\ SetEnd
             \/ v \notin STATE_DEAD .. STATE_END /\ SetOther
    <2>1. UNCHANGED <<Stats, Tally>>
      BY <1>4 DEF SetWarmup, SetStart, SetHalftime, SetEnd, SetOther, statsVars
    <2>2. v \notin PlayStates
      BY <1>4 DEF PlayStates, STATE_DEAD, STATE_WARMUP, STATE_START, STATE_FIRST_HALF,
         STATE_HALFTIME, STATE_SECOND_HALF, STATE_OVERTIME, STATE_END
    <2> QED
      BY <1>1, <2>1, <2>2 DEF HalfLeft
  <1> QED
    BY <1>2, <1>3, <1>4 DEF Cvar_DirectSet

LEMMA CountedHalves ==
    ASSUME TypeOK, NEW p \in Players, NEW c, c \notin RoundCounterNames, Counted(p, c)
    PROVE  HalfPlayed
  <1>1. Count(p, c)
    BY DEF Counted
  <1> QED
    BY <1>1, CountWrites DEF Counted, HalfPlayed, cvarVars, matchVars

LEMMA PlayerHalves ==
    ASSUME TypeOK, NEW p \in Players, PlayerStep(p)
    PROVE  HalfIdle \/ HalfPlayed
  <1>1. CASE \/ \E t \in Sides : PlayerGetIntoGame(p, t)
             \/ \E t \in Teams : PlayerSwitchTeam(p, t)
             \/ PlayerDisconnect(p) \/ PlayerSayText(p)
    BY <1>1 DEF PlayerGetIntoGame, PlayerSwitchTeam, PlayerDisconnect, PlayerSayText,
       HalfIdle, cvarVars, matchVars, statsVars
  <1>2. CASE \/ Counted(p, "Shots") \/ Counted(p, "Money") \/ Counted(p, "BombSpawn")
             \/ Counted(p, "BombDrop")
    BY <1>2, CountedHalves DEF RoundCounterNames
  <1> QED
    BY <1>1, <1>2 DEF PlayerStep, PlayerSetAnimation, PlayerAddAccount, PlayerMakeBomber,
       PlayerDropItem

LEMMA HitHalves ==
    ASSUME TypeOK, NEW v \in Players, NEW k \in Players, NEW d \in Damages,
           RecordHit(v, k, d)
    PROVE  Writes(Stats, Stats')
  <1> DEFINE hits == Earned(Stats, {<<k, "Hits">>, <<v, "HitsReceived">>}, 1)
             harm == {<<k, "Damage">>, <<v, "DamageReceived">>}
  <1>1. Stats \in StatsType
    BY DEF TypeOK, CounterTypes
  <1>2. hits \in StatsType
    BY <1>1, EarnedType
  <1>3. Writes(Stats, hits)
    BY <1>1, EarnedWrites DEF RoundCounterNames
  <1> HIDE DEF hits
  <1>4. Writes(hits, Earned(hits, harm, d))
    <2>1. \A pair \in harm : pair[2] \notin RoundCounterNames
      BY DEF RoundCounterNames
    <2> HIDE DEF harm
    <2> QED
      BY <1>2, <2>1, EarnedWrites
  <1>5. Stats' = Earned(hits, harm, d)
    BY DEF RecordHit, hits
  <1>6. ASSUME NEW p \in Players, NEW s \in PlayStates
        PROVE  /\ s # m_State => Stats'[p][s] = Stats[p][s]
               /\ \A c \in RoundCounterNames : Stats'[p][s][c] = Stats[p][s][c]
    <2>1. /\ s # m_State => hits[p][s] = Stats[p][s]
          /\ \A c \in RoundCounterNames : hits[p][s][c] = Stats[p][s][c]
      BY <1>3, Zenon DEF Writes
    <2>2. /\ s # m_State => Stats'[p][s] = hits[p][s]
          /\ \A c \in RoundCounterNames : Stats'[p][s][c] = hits[p][s][c]
      BY <1>4, <1>5, Zenon DEF Writes
    <2> QED
      BY <2>1, <2>2, Zenon
  <1> QED
    BY <1>6, Zenon DEF Writes

LEMMA FragHalves ==
    ASSUME TypeOK, NEW v \in Players, NEW k \in Players, RecordFrag(v, k)
    PROVE  Writes(Stats, Stats')
  <1> DEFINE pairs == {<<k, "Frags">>, <<v, "Deaths">>}
                      \cup {<<p, "Assists">> : p \in Assistants(v, k)}
                      \cup (IF FirstBlood THEN {<<k, "EntryFrags">>, <<v, "EntryDeaths">>}
                            ELSE {})
  <1>1. \A pair \in pairs : pair[2] \notin RoundCounterNames
    BY DEF RoundCounterNames
  <1>2. Stats' = Earned(Stats, pairs, 1) /\ Stats \in StatsType
    BY DEF RecordFrag, TypeOK, CounterTypes
  <1> HIDE DEF pairs
  <1> QED
    BY <1>1, <1>2, EarnedWrites

LEMMA CombatHalves ==
    ASSUME TypeOK, NEW v \in Players, CombatStep(v)
    PROVE  HalfIdle \/ HalfPlayed
  <1>1. ASSUME NEW k \in Players, NEW d \in Damages, PlayerDamage_Hit(v, k, d)
        PROVE  HalfPlayed
    BY <1>1, HitHalves DEF PlayerDamage_Hit, HalfPlayed, cvarVars, matchVars
  <1>2. ASSUME NEW k \in Players, NEW d \in Damages, PlayerDamage_Lethal(v, k, d)
        PROVE  HalfIdle \/ HalfPlayed
    <2>1. UNCHANGED <<m_State, Tally, m_Match>>
      BY <1>2 DEF PlayerDamage_Lethal, cvarVars, matchVars
    <2>2. (Recording /\ RecordHit(v, k, d)) \/ UNCHANGED Stats
      BY <1>2 DEF PlayerDamage_Lethal
    <2> QED
      BY <2>1, <2>2, HitHalves DEF HalfPlayed, HalfIdle
  <1>3. ASSUME NEW k \in Players, PlayerKilled(v, k) PROVE HalfPlayed
    <2>1. RecordFrag(v, k) \/ Count(v, "Suicides")
      BY <1>3 DEF PlayerKilled, RecordSuicide
    <2>2. Writes(Stats, Stats')
      BY <2>1, FragHalves, CountWrites DEF RoundCounterNames
    <2> QED
      BY <1>3, <2>2 DEF PlayerKilled, HalfPlayed, cvarVars
  <1>4. ASSUME PlayerKilled_Ignored(v) PROVE HalfIdle
    BY <1>4 DEF PlayerKilled_Ignored, HalfIdle, cvarVars, matchVars, statsVars
  <1> QED
    BY <1>1, <1>2, <1>3, <1>4 DEF CombatStep

LEMMA RoundHalves ==
    ASSUME RoundStep
    PROVE  HalfIdle \/ HalfEntered \/ Ended
  <1>1. ASSUME NEW complete \in BOOLEAN, RoundRestart(complete)
        PROVE  HalfIdle \/ HalfEntered
    <2>1. UNCHANGED <<m_State, m_Match>>
      BY <1>1 DEF RoundRestart, cvarVars, matchVars
    <2>2. (Recording /\ ResetStats(m_State)) \/ UNCHANGED <<Stats, Tally>>
      BY <1>1 DEF RoundRestart
    <2> QED
      BY <2>1, <2>2 DEF HalfIdle, HalfEntered, Recording
  <1>2. ASSUME RoundFreezeEnd PROVE HalfIdle
    BY <1>2 DEF RoundFreezeEnd, HalfIdle, cvarVars, matchVars
  <1>3. ASSUME NEW w \in Sides \cup {0}, RoundEnd(w) PROVE HalfIdle \/ Ended
    BY <1>3 DEF RoundEnd, HalfIdle, Ended, cvarVars, matchVars
  <1> QED
    BY <1>1, <1>2, <1>3 DEF RoundStep

LEMMA BombHalves ==
    ASSUME TypeOK, BombStep
    PROVE  HalfIdle \/ HalfPlayed
  <1>1. ASSUME NEW p \in Players, PlantBomb(p) PROVE HalfIdle \/ HalfPlayed
    <2>1. UNCHANGED <<m_State, Tally, m_Match>>
      BY <1>1 DEF PlantBomb, cvarVars
    <2>2. ASSUME Stats' = Earned(Stats, {<<p, "BombPlanting">>, <<p, "BombPlanted">>}, 1)
          PROVE  Writes(Stats, Stats')
      <3>1. \A pair \in {<<p, "BombPlanting">>, <<p, "BombPlanted">>} :
               pair[2] \notin RoundCounterNames
        BY DEF RoundCounterNames
      <3> QED
        BY <2>2, <3>1, EarnedWrites DEF TypeOK, CounterTypes
    <2> QED
      BY <1>1, <2>1, <2>2 DEF PlantBomb, HalfIdle, HalfPlayed
  <1>2. ASSUME NEW p \in Players, DefuseBombStart(p) PROVE HalfPlayed
    BY <1>2, CountedHalves DEF DefuseBombStart, RoundCounterNames
  <1>3. ASSUME NEW p \in Players, DefuseBombEnd(p) PROVE HalfIdle \/ HalfPlayed
    <2>1. UNCHANGED <<m_State, Tally, m_Match>>
      BY <1>3 DEF DefuseBombEnd, cvarVars
    <2>2. (Recording /\ Count(p, "BombDefused")) \/ UNCHANGED Stats
      BY <1>3 DEF DefuseBombEnd
    <2> QED
      BY <2>1, <2>2, CountWrites DEF HalfIdle, HalfPlayed, RoundCounterNames
  <1>4. ASSUME ExplodeBomb PROVE HalfIdle \/ HalfPlayed
    <2>1. UNCHANGED <<m_State, Tally, m_Match>> /\ planter \in Players
      BY <1>4 DEF ExplodeBomb, cvarVars, TypeOK, GameTypes
    <2>2. (Recording /\ Count(planter, "BombExploded")) \/ UNCHANGED Stats
      BY <1>4 DEF ExplodeBomb
    <2> QED
      BY <2>1, <2>2, CountWrites DEF HalfIdle, HalfPlayed, RoundCounterNames
  <1> QED
    BY <1>1, <1>2, <1>3, <1>4 DEF BombStep

LEMMA StepHalves ==
    ASSUME TypeOK, [Next]_vars
    PROVE  HalfIdle \/ HalfPlayed \/ HalfEntered \/ HalfLeft \/ Ended
  <1>1. CASE UNCHANGED vars
    BY <1>1 DEF vars, cvarVars, matchVars, statsVars, HalfIdle
  <1>2. CASE ServerActivate
    BY <1>2 DEF ServerActivate, statsVars, HalfLeft, PlayStates, STATE_DEAD,
       STATE_FIRST_HALF, STATE_SECOND_HALF, STATE_OVERTIME
  <1>3. CASE ExecSettings \/ \E v \in CvarValues : SetState(v)
    BY <1>3, SettingsHalves DEF ExecSettings, SetState
  <1> QED
    BY <1>1, <1>2, <1>3, PlayerHalves, CombatHalves, RoundHalves, BombHalves DEF Next

-----------------------------------------------------------------------------
(* Past halves *)

LEMMA ResetHalf ==
    ASSUME TypeOK, NEW h \in PlayStates, ResetStats(h),
           NEW p \in Players, NEW s \in PlayStates
    PROVE  IF s = h THEN /\ Stats'[p][s] = ZeroStats[p][s]
                         /\ Tally'[p][s] = ZeroTally[p][s]
                    ELSE Stats'[p][s] = Stats[p][s] /\ Tally'[p][s] = Tally[p][s]
  BY DEF ResetStats, TypeOK, CounterTypes, StatsType, TallyType

\* The end of a round writes the half being played.
LEMMA EndedHalf ==
    ASSUME TypeOK, NEW w \in Sides, RecordRound(w),
           NEW p \in Players, NEW s \in PlayStates, s # m_State
    PROVE  Stats'[p][s] = Stats[p][s] /\ Tally'[p][s] = Tally[p][s]
  <1>1. Stats[p][s] \in [Counters -> Nat] /\ Tally[p][s] \in [Cells -> Nat]
    BY DEF TypeOK, CounterTypes, StatsType, TallyType
  <1>2. Stats'[p][s] = [c \in Counters |-> Stats[p][s][c]]
    BY DEF RecordRound, Earned
  <1>3. Tally'[p][s] = [i \in Cells |-> Tally[p][s][i] + 0]
    BY DEF RecordRound
  <1> QED
    BY <1>1, <1>2, <1>3

\* Once a half is over its counters stay as they are until it is entered again, or
\* ms_state is set to 0, and then they are empty.
THEOREM PastHalvesSafe == Spec => PastHalvesKept
  <1> DEFINE Keeps ==
        \A p \in Players, s \in PlayStates :
           \/ Stats'[p][s] = Stats[p][s] /\ Tally'[p][s] = Tally[p][s]
           \/ s = m_State /\ m_State' = m_State
           \/ /\ m_State' \in {s, STATE_DEAD}
              /\ Stats'[p][s] = ZeroStats[p][s] /\ Tally'[p][s] = ZeroTally[p][s]
  <1>1. TypeOK /\ [Next]_vars => Keeps
    <2> SUFFICES ASSUME TypeOK, [Next]_vars, NEW p \in Players, NEW s \in PlayStates
                 PROVE  \/ Stats'[p][s] = Stats[p][s] /\ Tally'[p][s] = Tally[p][s]
                        \/ s = m_State /\ m_State' = m_State
                        \/ /\ m_State' \in {s, STATE_DEAD}
                           /\ Stats'[p][s] = ZeroStats[p][s]
                           /\ Tally'[p][s] = ZeroTally[p][s]
      OBVIOUS
    <2>1. CASE HalfIdle
      BY <2>1 DEF HalfIdle
    <2>2. CASE HalfPlayed
      BY <2>2 DEF HalfPlayed, Writes
    <2>3. CASE HalfEntered
      BY <2>3, ResetHalf DEF HalfEntered
    <2>4. CASE HalfLeft
      BY <2>4 DEF HalfLeft
    <2>5. CASE Ended
      BY <2>5, EndedHalf DEF Ended
    <2> QED
      BY <2>1, <2>2, <2>3, <2>4, <2>5, StepHalves
  <1>2. TypeOK /\ [Next]_vars => [Keeps]_vars
    BY <1>1
  <1> QED
    BY TypeCorrect, <1>2, PTL DEF Spec, PastHalvesKept

-----------------------------------------------------------------------------
(* Rounds of the players *)

\* A player who is on a side when a round is won plays it, and wins it or loses it.
LEMMA RoundOfPlayer ==
    ASSUME TypeOK, Recording, NEW w \in Sides, RecordRound(w), NEW p \in Players
    PROVE  LET old == Stats[p][m_State]
               new == Stats'[p][m_State]
           IN  \/ \A c \in RoundCounterNames : new[c] = old[c]
               \/ /\ new["RoundPlay"] = old["RoundPlay"] + 1
                  /\ new["RoundWin"] + new["RoundLose"]
                        = old["RoundWin"] + old["RoundLose"] + 1
  <1> DEFINE old == Stats[p][m_State]
             new == Stats'[p][m_State]
  <1>1. m_State \in PlayStates /\ RoundCounterNames \subseteq Counters
    BY DEF Recording, RoundCounterNames, Counters
  <1>2. /\ old["RoundPlay"] \in Nat /\ old["RoundWin"] \in Nat
        /\ old["RoundLose"] \in Nat
    BY <1>1 DEF TypeOK, CounterTypes, StatsType, Counters
  <1>3. Enemy(w) \in Sides \ {w} /\ Sides = {w, Enemy(w)}
    BY DEF Enemy, Sides, TERRORIST, CT
  <1>4. \A c \in Counters :
           new[c] = IF <<p, c>> \in RoundCounters(w) THEN old[c] + 1 ELSE old[c]
    BY <1>1 DEF RecordRound, Earned
  <1>5. /\ <<p, "RoundPlay">> \in RoundCounters(w) <=> team[p] \in Sides
        /\ <<p, "RoundWin">> \in RoundCounters(w) <=> team[p] = w
        /\ <<p, "RoundLose">> \in RoundCounters(w) <=> team[p] = Enemy(w)
    BY DEF RoundCounters, InPlay, OnTeam
  <1>6. /\ new["RoundPlay"] = IF team[p] \in Sides THEN old["RoundPlay"] + 1
                              ELSE old["RoundPlay"]
        /\ new["RoundWin"] = IF team[p] = w THEN old["RoundWin"] + 1
                             ELSE old["RoundWin"]
        /\ new["RoundLose"] = IF team[p] = Enemy(w) THEN old["RoundLose"] + 1
                              ELSE old["RoundLose"]
    BY <1>4, <1>5 DEF Counters
  <1> HIDE DEF old, new
  <1>7. \/ \A c \in RoundCounterNames : new[c] = old[c]
        \/ /\ new["RoundPlay"] = old["RoundPlay"] + 1
           /\ new["RoundWin"] + new["RoundLose"]
                 = old["RoundWin"] + old["RoundLose"] + 1
    <2>1. CASE team[p] \notin Sides
      BY <1>3, <1>6, <2>1 DEF RoundCounterNames
    <2>2. CASE team[p] = w
      BY <1>2, <1>3, <1>6, <2>2
    <2>3. CASE team[p] = Enemy(w)
      BY <1>2, <1>3, <1>6, <2>3
    <2> QED
      BY <1>3, <2>1, <2>2, <2>3
  <1> QED
    BY <1>7 DEF old, new

LEMMA RoundsStep == TypeOK /\ TypeOK' /\ RoundsPlayed /\ [Next]_vars => RoundsPlayed'
  <1> SUFFICES ASSUME TypeOK, TypeOK', RoundsPlayed, [Next]_vars PROVE RoundsPlayed'
    OBVIOUS
  <1>1. \A p \in Players, s \in PlayStates :
           /\ Stats[p][s] \in [Counters -> Nat] /\ Stats'[p][s] \in [Counters -> Nat]
           /\ ZeroStats[p][s] = [c \in Counters |-> 0]
    BY DEF TypeOK, CounterTypes, StatsType, ZeroStats
  <1>2. m_Match.Rounds \in Nat /\ m_Match'.Rounds \in Nat
    BY DEF TypeOK, LogTypes, MatchType
  <1>3. RoundCounterNames \subseteq Counters
    BY DEF RoundCounterNames, Counters
  <1>4. CASE HalfIdle
    BY <1>4 DEF HalfIdle, RoundsPlayed, Recording
  <1>5. CASE HalfPlayed
    <2>1. \A p \in Players, s \in PlayStates, c \in RoundCounterNames :
             Stats'[p][s][c] = Stats[p][s][c]
      BY <1>5 DEF HalfPlayed, Writes
    <2> QED
      BY <1>5, <2>1 DEF HalfPlayed, RoundsPlayed, Recording, RoundCounterNames
  <1>6. CASE HalfEntered
    <2>1. \A p \in Players, s \in PlayStates :
             IF s = m_State' THEN Stats'[p][s] = ZeroStats[p][s]
             ELSE Stats'[p][s] = Stats[p][s]
      BY <1>6, ResetHalf DEF HalfEntered
    <2> QED
      BY <1>1, <1>2, <2>1 DEF RoundsPlayed, Recording, Counters
  <1>7. CASE HalfLeft
    <2>1. \A p \in Players, s \in PlayStates :
             Stats'[p][s] \in {Stats[p][s], ZeroStats[p][s]}
      BY <1>7 DEF HalfLeft
    <2> QED
      BY <1>1, <1>7, <2>1 DEF HalfLeft, RoundsPlayed, Recording, Counters
  <1>8. CASE Ended
    <2>1. PICK w \in Sides : RecordRound(w)
      BY <1>8 DEF Ended
    <2>2. /\ m_State' = m_State /\ m_State \in PlayStates
          /\ m_Match'.Rounds = m_Match.Rounds + 1
      BY <1>8, <2>1 DEF Ended, Recording, RecordRound
    <2>3. ASSUME NEW p \in Players, NEW s \in PlayStates
          PROVE  Stats'[p][s]["RoundPlay"]
                    = Stats'[p][s]["RoundWin"] + Stats'[p][s]["RoundLose"]
      <3>1. CASE s = m_State
        BY <1>1, <1>8, <2>1, <2>2, <3>1, RoundOfPlayer
           DEF Ended, RoundsPlayed, RoundCounterNames, Counters
      <3>2. CASE s # m_State
        BY <2>1, <3>2, EndedHalf DEF RoundsPlayed
      <3> QED
        BY <3>1, <3>2
    <2>4. ASSUME NEW p \in Players
          PROVE  Stats'[p][m_State]["RoundPlay"] <= m_Match'.Rounds
      <3>1. Stats[p][m_State]["RoundPlay"] <= m_Match.Rounds
        BY <1>8 DEF Ended, RoundsPlayed
      <3>2. \/ Stats'[p][m_State]["RoundPlay"] = Stats[p][m_State]["RoundPlay"]
            \/ Stats'[p][m_State]["RoundPlay"] = Stats[p][m_State]["RoundPlay"] + 1
        BY <1>8, <2>1, RoundOfPlayer DEF Ended, RoundCounterNames
      <3>3. Stats[p][m_State]["RoundPlay"] \in Nat
        BY <1>1, <2>2 DEF Counters
      <3> QED
        BY <1>2, <2>2, <3>1, <3>2, <3>3
    <2> QED
      BY <2>2, <2>3, <2>4 DEF RoundsPlayed
  <1> QED
    BY <1>4, <1>5, <1>6, <1>7, <1>8, StepHalves

\* The rounds a player played in a half are won or lost, and in the half being
\* played no more than the match has.
THEOREM RoundsCorrect == Spec => []RoundsPlayed
  <1>1. Init => RoundsPlayed
    BY DEF Init, RoundsPlayed, ZeroStats, ZeroMatch, Counters, PlayStates, Recording,
       STATE_DEAD, STATE_FIRST_HALF, STATE_SECOND_HALF, STATE_OVERTIME
  <1> QED
    BY TypeCorrect, RoundsStep, <1>1, PTL DEF Spec

-----------------------------------------------------------------------------
(* Traces of a player *)

NoStats(p) == Stats[p] = ZeroStats[p] /\ Tally[p] = ZeroTally[p]
NoRound(p) ==
    /\ Round[p] = ZeroRound
    /\ \A q \in Players : PlayerDamage[p][q] = 0 /\ PlayerDamage[q][p] = 0
NoMark(p) == Team[p] = UNASSIGNED /\ Winner[p] = 0 /\ ChatLog[p] = << >>
NoTrace(p) == NoMark(p) /\ NoStats(p) /\ NoRound(p)

\* The fields of a record lie in the map: where there is none, the variables that hold
\* them have their default values.
RecordsHoldAll == \A p \in Players \ m_Player : NoTrace(p)

LEMMA EarnedByOthers ==
    ASSUME NEW stats \in StatsType, NEW pairs, NEW n, NEW p \in Players,
           \A pair \in pairs : pair[1] # p
    PROVE  Earned(stats, pairs, n)[p] = stats[p]
  <1>1. \A c \in Counters : <<p, c>> \notin pairs
    <2> SUFFICES ASSUME NEW c \in Counters, <<p, c>> \in pairs PROVE FALSE
      OBVIOUS
    <2>1. <<p, c>>[1] # p
      OBVIOUS
    <2> QED
      BY <2>1
  <1>2. Earned(stats, pairs, n)[p]
           = [s \in PlayStates |-> [c \in Counters |-> stats[p][s][c]]]
    BY <1>1 DEF Earned
  <1>3. stats[p] \in [PlayStates -> [Counters -> Nat]]
    BY DEF StatsType
  <1>4. \A s \in PlayStates : [c \in Counters |-> stats[p][s][c]] = stats[p][s]
    BY <1>3
  <1> QED
    BY <1>2, <1>3, <1>4

LEMMA ResetLeavesNone ==
    ASSUME NEW s, ResetStats(s), NEW p \in Players, NoStats(p)
    PROVE  NoStats(p)'
  <1>1. ZeroStats[p] \in [PlayStates -> [Counters -> Nat]]
        /\ ZeroTally[p] \in [PlayStates -> [Cells -> Nat]]
    BY ZeroTypes DEF StatsType, TallyType
  <1>2. /\ [ZeroStats[p] EXCEPT ![s] = ZeroStats[p][s]] = ZeroStats[p]
        /\ [ZeroTally[p] EXCEPT ![s] = ZeroTally[p][s]] = ZeroTally[p]
    BY <1>1
  <1>3. /\ Stats'[p] = [Stats[p] EXCEPT ![s] = ZeroStats[p][s]]
        /\ Tally'[p] = [Tally[p] EXCEPT ![s] = ZeroTally[p][s]]
    BY DEF ResetStats
  <1> QED
    BY <1>2, <1>3 DEF NoStats

LEMMA SettingsTraces ==
    ASSUME NEW v, Cvar_DirectSet(v), NEW p \in Players \ m_Player', RecordsHoldAll
    PROVE  NoTrace(p)'
  <1>1. CASE SetDead
    <2>1. NoMark(p)' /\ NoStats(p)'
      BY <1>1 DEF SetDead, ClearChat, NoMark, NoStats
    <2>2. Round'[p] = ZeroRound /\ PlayerDamage' = NoDamage
      BY <1>1 DEF SetDead, ResetRound
    <2> QED
      BY <2>1, <2>2 DEF NoTrace, NoRound, NoDamage
  <1>2. CASE ~SetDead
    <2>1. /\ UNCHANGED <<m_Player, Team, PlayerDamage>>
          /\ UNCHANGED ChatLog \/ ClearChat
          /\ UNCHANGED Winner \/ SetEnd
          /\ UNCHANGED Round \/ ResetRound
          /\ UNCHANGED <<Stats, Tally>> \/ \E s \in PlayStates : ResetStats(s)
      <3>1. CASE SetWarmup \/ SetStart \/ SetHalftime \/ SetEnd \/ SetOther
        BY <3>1 DEF SetWarmup, SetStart, SetHalftime, SetEnd, SetOther, recordVars,
           statsVars
      <3>2. CASE SetFirstHalf \/ SetSecondHalf \/ SetOvertime
        BY <3>2 DEF SetFirstHalf, SetSecondHalf, SetOvertime, recordVars, PlayStates
      <3> QED
        BY <1>2, <3>1, <3>2 DEF Cvar_DirectSet
    <2>2. NoTrace(p)
      BY <2>1 DEF RecordsHoldAll, NoTrace, NoMark, NoStats, NoRound
    <2>3. NoStats(p)'
      BY <2>1, <2>2, ResetLeavesNone DEF NoTrace, NoStats
    <2>4. NoMark(p)'
      BY <2>1, <2>2 DEF NoTrace, NoMark, ClearChat, SetEnd
    <2>5. NoRound(p)'
      BY <2>1, <2>2 DEF NoTrace, NoRound, ResetRound
    <2> QED
      BY <2>3, <2>4, <2>5 DEF NoTrace
  <1> QED
    BY <1>1, <1>2

\* A step that passes a player by.
Passes(p) ==
    /\ Kept
    /\ Team'[p] = Team[p] /\ Winner'[p] = Winner[p] /\ ChatLog'[p] = ChatLog[p]
    /\ Stats'[p] = Stats[p] /\ Tally'[p] = Tally[p] /\ Round'[p] = Round[p]
    /\ \A q \in Players : /\ PlayerDamage'[p][q] = PlayerDamage[p][q]
                          /\ PlayerDamage'[q][p] = PlayerDamage[q][p]

LEMMA PassedBy ==
    ASSUME NEW p \in Players \ m_Player', RecordsHoldAll, Passes(p)
    PROVE  NoTrace(p)'
  <1>1. NoTrace(p)
    BY DEF Passes, Kept, RecordsHoldAll, NoTrace, NoMark, NoStats, NoRound
  <1>2. NoMark(p)' /\ NoStats(p)'
    BY <1>1 DEF Passes, NoTrace, NoMark, NoStats
  <1>3. NoRound(p)'
    BY <1>1 DEF Passes, NoTrace, NoRound
  <1> QED
    BY <1>2, <1>3 DEF NoTrace

\* A player who has no record afterwards is none of those a count makes one for.
LEMMA CountPasses ==
    ASSUME TypeOK, NEW k \in Players, NEW c, Count(k, c), NEW p \in Players \ m_Player'
    PROVE  Kept /\ Stats'[p] = Stats[p]
  <1>1. \A pair \in {<<k, c>>} : pair[1] # p
    BY DEF Count
  <1> QED
    BY <1>1, EarnedByOthers DEF Count, Kept, TypeOK, CounterTypes

LEMMA PlayerPasses ==
    ASSUME TypeOK, NEW k \in Players, PlayerStep(k), NEW p \in Players \ m_Player'
    PROVE  Passes(p)
  <1> USE DEF Passes
  <1>1. ASSUME NEW t, PlayerGetIntoGame(k, t) \/ PlayerSwitchTeam(k, t) PROVE Passes(p)
    BY <1>1 DEF PlayerGetIntoGame, PlayerSwitchTeam, Kept, statsVars, TypeOK, RecordTypes
  <1>2. CASE PlayerDisconnect(k)
    BY <1>2 DEF PlayerDisconnect, Kept, statsVars
  <1>3. CASE PlayerSayText(k)
    BY <1>3 DEF PlayerSayText, Kept, statsVars, TypeOK, RecordTypes
  <1>4. ASSUME NEW c, Counted(k, c) PROVE Passes(p)
    BY <1>4, CountPasses DEF Counted
  <1> QED
    BY <1>1, <1>2, <1>3, <1>4 DEF PlayerStep, PlayerSetAnimation, PlayerAddAccount,
       PlayerMakeBomber, PlayerDropItem

LEMMA HitPasses ==
    ASSUME TypeOK, NEW v \in Players, NEW k \in Players, NEW d \in Damages,
           RecordHit(v, k, d), UNCHANGED <<Team, Winner, Tally, ChatLog>>,
           NEW p \in Players \ m_Player'
    PROVE  Passes(p)
  <1> DEFINE hits == Earned(Stats, {<<k, "Hits">>, <<v, "HitsReceived">>}, 1)
             harm == {<<k, "Damage">>, <<v, "DamageReceived">>}
  <1>1. p # k /\ p # v /\ Kept
    BY DEF RecordHit, Kept
  <1>2. hits \in StatsType
    BY EarnedType DEF TypeOK, CounterTypes
  <1>3. hits[p] = Stats[p]
    BY <1>1, EarnedByOthers DEF TypeOK, CounterTypes
  <1> HIDE DEF hits
  <1>4. Earned(hits, harm, d)[p] = hits[p]
    <2>1. \A pair \in harm : pair[1] # p
      BY <1>1
    <2> HIDE DEF harm
    <2> QED
      BY <1>2, <2>1, EarnedByOthers
  <1>5. Stats' = Earned(hits, harm, d)
    BY DEF RecordHit, hits
  <1>6. Round'[p] = Round[p]
        /\ \A q \in Players : /\ PlayerDamage'[p][q] = PlayerDamage[p][q]
                              /\ PlayerDamage'[q][p] = PlayerDamage[q][p]
    BY <1>1 DEF RecordHit, TypeOK, CounterTypes
  <1> QED
    BY <1>1, <1>3, <1>4, <1>5, <1>6 DEF Passes

LEMMA FragPasses ==
    ASSUME TypeOK, NEW v \in Players, NEW k \in Players, RecordFrag(v, k),
           NEW p \in Players \ m_Player'
    PROVE  Kept /\ Stats'[p] = Stats[p] /\ Round'[p] = Round[p]
  <1> DEFINE pairs == {<<k, "Frags">>, <<v, "Deaths">>}
                      \cup {<<q, "Assists">> : q \in Assistants(v, k)}
                      \cup (IF FirstBlood THEN {<<k, "EntryFrags">>, <<v, "EntryDeaths">>}
                            ELSE {})
  <1>1. p # k /\ p # v /\ p \notin here \cap InPlay /\ Kept
    BY DEF RecordFrag, Kept
  <1>2. \A pair \in pairs : pair[1] # p
    BY <1>1 DEF Assistants
  <1>3. Stats' = Earned(Stats, pairs, 1)
    BY DEF RecordFrag
  <1> HIDE DEF pairs
  <1>4. Stats'[p] = Stats[p]
    BY <1>2, <1>3, EarnedByOthers DEF TypeOK, CounterTypes
  <1>5. Versus(p) = Round[p].Versus
    BY <1>1 DEF Versus, TypeOK, GameTypes
  <1>6. Round'[p] = [Round[p] EXCEPT !.Frags = Round[p].Frags,
                                     !.Versus = Round[p].Versus]
    BY <1>1, <1>5 DEF RecordFrag
  <1>7. Round[p] \in RoundStats
    BY DEF TypeOK, CounterTypes
  <1> QED
    BY <1>1, <1>4, <1>6, <1>7 DEF RoundStats

LEMMA CombatPasses ==
    ASSUME TypeOK, NEW v \in Players, CombatStep(v), NEW p \in Players \ m_Player'
    PROVE  Passes(p)
  <1>1. ASSUME NEW k \in Players, NEW d \in Damages, PlayerDamage_Hit(v, k, d)
        PROVE  Passes(p)
    BY <1>1, HitPasses DEF PlayerDamage_Hit
  <1>2. ASSUME NEW k \in Players, NEW d \in Damages, PlayerDamage_Lethal(v, k, d)
        PROVE  Passes(p)
    <2>1. CASE RecordHit(v, k, d)
      BY <1>2, <2>1, HitPasses DEF PlayerDamage_Lethal
    <2>2. CASE UNCHANGED <<m_Player, Stats, Round, PlayerDamage>>
      BY <1>2, <2>2 DEF PlayerDamage_Lethal, Passes, Kept
    <2> QED
      BY <1>2, <2>1, <2>2 DEF PlayerDamage_Lethal
  <1>3. ASSUME NEW k \in Players, PlayerKilled(v, k) PROVE Passes(p)
    <2>1. Kept /\ Stats'[p] = Stats[p] /\ Round'[p] = Round[p]
      <3>1. CASE RecordFrag(v, k)
        BY <3>1, FragPasses
      <3>2. CASE RecordSuicide(v)
        BY <3>2, CountPasses DEF RecordSuicide
      <3> QED
        BY <1>3, <3>1, <3>2 DEF PlayerKilled
    <2> QED
      BY <1>3, <2>1 DEF PlayerKilled, Passes
  <1>4. CASE PlayerKilled_Ignored(v)
    BY <1>4 DEF PlayerKilled_Ignored, Passes, Kept, recordVars, statsVars
  <1> QED
    BY <1>1, <1>2, <1>3, <1>4 DEF CombatStep

\* Everybody on a side has a record after the round is won.
LEMMA EndedPasses ==
    ASSUME TypeOK, NEW w \in Sides, RecordRound(w), NEW p \in Players \ m_Player'
    PROVE  Kept /\ Stats'[p] = Stats[p] /\ Tally'[p] = Tally[p]
  <1>1. Kept /\ p \notin InPlay
    BY DEF RecordRound, Kept
  <1>2. OnTeam(w) \subseteq InPlay /\ OnTeam(Enemy(w)) \subseteq InPlay
    BY DEF OnTeam, InPlay, Enemy, Sides
  <1>3. \A pair \in RoundCounters(w) : pair[1] # p
    BY <1>1, <1>2 DEF RoundCounters
  <1>4. Stats'[p] = Stats[p]
    BY <1>3, EarnedByOthers DEF RecordRound, TypeOK, CounterTypes
  <1>5. \A i \in Cells : Bumps(p, i, w) = 0
    BY <1>1, <1>2 DEF Bumps
  <1>6. Tally[p] \in [PlayStates -> [Cells -> Nat]]
    BY DEF TypeOK, CounterTypes, TallyType
  <1>7. Tally'[p] = [s \in PlayStates |-> [i \in Cells |-> Tally[p][s][i] + 0]]
    BY <1>5 DEF RecordRound
  <1>8. \A s \in PlayStates : [i \in Cells |-> Tally[p][s][i] + 0] = Tally[p][s]
    BY <1>6
  <1> QED
    BY <1>1, <1>4, <1>6, <1>7, <1>8

LEMMA RoundTraces ==
    ASSUME TypeOK, RecordsHoldAll, RoundStep, NEW p \in Players \ m_Player'
    PROVE  NoTrace(p)'
  <1>1. ASSUME NEW complete \in BOOLEAN, RoundRestart(complete) PROVE NoTrace(p)'
    <2>1. UNCHANGED <<recordVars, PlayerDamage, ChatLog>>
      BY <1>1 DEF RoundRestart
    <2>2. NoTrace(p)
      BY <2>1 DEF recordVars, RecordsHoldAll, NoTrace, NoMark, NoStats, NoRound
    <2>3. NoMark(p)'
      BY <2>1, <2>2 DEF recordVars, NoTrace, NoMark
    <2>4. CASE ResetStats(m_State) /\ ResetRound
      <3>1. NoStats(p)'
        BY <2>2, <2>4, ResetLeavesNone DEF NoTrace
      <3>2. NoRound(p)'
        BY <2>1, <2>2, <2>4 DEF NoTrace, NoRound, ResetRound
      <3> QED
        BY <2>3, <3>1, <3>2 DEF NoTrace
    <2>5. CASE UNCHANGED <<Stats, Tally, Round>>
      BY <2>1, <2>2, <2>3, <2>5 DEF NoTrace, NoStats, NoRound
    <2> QED
      BY <1>1, <2>4, <2>5 DEF RoundRestart
  <1>2. CASE RoundFreezeEnd
    <2>1. /\ UNCHANGED <<recordVars, Stats, Tally, PlayerDamage, ChatLog>>
          /\ UNCHANGED Round \/ ResetRound
      BY <1>2 DEF RoundFreezeEnd
    <2>2. NoTrace(p)
      BY <2>1 DEF recordVars, RecordsHoldAll, NoTrace, NoMark, NoStats, NoRound
    <2>3. NoMark(p)' /\ NoStats(p)'
      BY <2>1, <2>2 DEF recordVars, NoTrace, NoMark, NoStats
    <2>4. NoRound(p)'
      BY <2>1, <2>2 DEF NoTrace, NoRound, ResetRound
    <2> QED
      BY <2>3, <2>4 DEF NoTrace
  <1>3. ASSUME NEW w \in Sides \cup {0}, RoundEnd(w) PROVE NoTrace(p)'
    <2>1. Kept /\ Stats'[p] = Stats[p] /\ Tally'[p] = Tally[p]
      <3>1. CASE w \in Sides /\ RecordRound(w)
        BY <3>1, EndedPasses
      <3>2. CASE UNCHANGED <<matchVars, m_Player, Stats, Tally>>
        BY <3>2 DEF Kept
      <3> QED
        BY <1>3, <3>1, <3>2, Zenon DEF RoundEnd
    <2>2. Passes(p)
      BY <1>3, <2>1 DEF RoundEnd, Passes
    <2> QED
      BY <2>2, PassedBy
  <1> QED
    BY <1>1, <1>2, <1>3 DEF RoundStep

LEMMA BombPasses ==
    ASSUME TypeOK, BombStep, NEW p \in Players \ m_Player'
    PROVE  Passes(p)
  <1>1. ASSUME NEW k \in Players, PlantBomb(k) PROVE Passes(p)
    <2>1. UNCHANGED <<Team, Winner, Tally, Round, PlayerDamage, ChatLog>>
      BY <1>1 DEF PlantBomb
    <2>2. CASE /\ Stats' = Earned(Stats, {<<k, "BombPlanting">>, <<k, "BombPlanted">>}, 1)
               /\ m_Player' = m_Player \cup {k}
      <3>1. \A pair \in {<<k, "BombPlanting">>, <<k, "BombPlanted">>} : pair[1] # p
        BY <2>2
      <3>2. Stats'[p] = Stats[p]
        BY <2>2, <3>1, EarnedByOthers DEF TypeOK, CounterTypes
      <3> QED
        BY <2>1, <2>2, <3>2 DEF Passes, Kept
    <2>3. CASE UNCHANGED <<Stats, m_Player>>
      BY <2>1, <2>3 DEF Passes, Kept
    <2> QED
      BY <1>1, <2>2, <2>3 DEF PlantBomb
  <1>2. ASSUME NEW k \in Players, DefuseBombStart(k) PROVE Passes(p)
    BY <1>2, CountPasses DEF DefuseBombStart, Counted, Passes
  <1>3. ASSUME NEW k \in Players, \/ DefuseBombEnd(k)
                                  \/ ExplodeBomb /\ k = planter
        PROVE  Passes(p)
    <2>1. UNCHANGED <<Team, Winner, Tally, PlayerDamage, ChatLog>>
      BY <1>3 DEF DefuseBombEnd, ExplodeBomb
    <2>2. ASSUME NEW c, Count(k, c),
                 \/ Round' = [Round EXCEPT ![k].BombDefused = TRUE]
                 \/ Round' = [Round EXCEPT ![k].BombExploded = TRUE]
          PROVE  Passes(p)
      <3>1. Kept /\ Stats'[p] = Stats[p] /\ p # k
        BY <2>2, CountPasses DEF Count
      <3>2. Round'[p] = Round[p]
        BY <2>2, <3>1 DEF TypeOK, CounterTypes
      <3> QED
        BY <2>1, <3>1, <3>2 DEF Passes
    <2>3. CASE UNCHANGED <<Stats, m_Player, Round>>
      BY <2>1, <2>3 DEF Passes, Kept
    <2> QED
      BY <1>3, <2>2, <2>3 DEF DefuseBombEnd, ExplodeBomb
  <1>4. ExplodeBomb => planter \in Players
    BY DEF ExplodeBomb, TypeOK, GameTypes
  <1> QED
    BY <1>1, <1>2, <1>3, <1>4 DEF BombStep

\* Whoever has no record has left no trace: the variables are an encoding of the map.
LEMMA NoTraceWithoutRecord == Spec => []RecordsHoldAll
  <1>1. Init => RecordsHoldAll
    BY LineupAssumption DEF LineupAssumption, Init, RecordsHoldAll, Joined, NoDamage,
       NoTrace, NoMark, NoStats, NoRound
  <1>2. TypeOK /\ RecordsHoldAll /\ [Next]_vars => RecordsHoldAll'
    <2> SUFFICES ASSUME TypeOK, RecordsHoldAll, [Next]_vars, NEW p \in Players \ m_Player'
                 PROVE  NoTrace(p)'
      BY DEF RecordsHoldAll, NoTrace, NoMark, NoStats, NoRound
    <2>1. CASE UNCHANGED vars \/ ServerActivate
      BY <2>1, PassedBy DEF vars, recordVars, statsVars, ServerActivate, Passes, Kept
    <2>2. CASE ExecSettings \/ \E v \in CvarValues : SetState(v)
      BY <2>2, SettingsTraces DEF ExecSettings, SetState
    <2>3. ASSUME NEW k \in Players, PlayerStep(k) \/ CombatStep(k) PROVE NoTrace(p)'
      BY <2>3, PlayerPasses, CombatPasses, PassedBy
    <2>4. CASE RoundStep
      BY <2>4, RoundTraces
    <2>5. CASE BombStep
      BY <2>5, BombPasses, PassedBy
    <2> QED
      BY <2>1, <2>2, <2>3, <2>4, <2>5 DEF Next
  <1> QED
    BY TypeCorrect, <1>1, <1>2, PTL DEF Spec

-----------------------------------------------------------------------------
(* The team a record speaks of *)

\* With or without a record, the team noted is the team played for, or none.
TeamNoted == \A p \in here : Team[p] \in {UNASSIGNED, team[p]}

SameTeams == UNCHANGED <<Team, team, here>>

LEMMA SettingsTeams ==
    ASSUME NEW v, Cvar_DirectSet(v)
    PROVE  SameTeams \/ (UNCHANGED <<team, here>> /\ Team' = [p \in Players |-> UNASSIGNED])
  <1>1. CASE SetDead
    BY <1>1 DEF Cvar_DirectSet, gameVars, SetDead
  <1>2. CASE SetWarmup \/ SetStart \/ SetFirstHalf \/ SetHalftime
    BY <1>2 DEF Cvar_DirectSet, gameVars, SameTeams, recordVars, SetWarmup, SetStart,
       SetFirstHalf, SetHalftime
  <1>3. CASE SetSecondHalf \/ SetOvertime \/ SetEnd \/ SetOther
    BY <1>3 DEF Cvar_DirectSet, gameVars, SameTeams, recordVars, SetSecondHalf,
       SetOvertime, SetEnd, SetOther
  <1> QED
    BY <1>1, <1>2, <1>3 DEF Cvar_DirectSet

LEMMA PlayerTeams ==
    ASSUME TypeOK, TeamNoted, NEW p \in Players, PlayerStep(p)
    PROVE  TeamNoted'
  <1> USE DEF TypeOK, RecordTypes, GameTypes
  <1>1. ASSUME NEW t \in Sides, PlayerGetIntoGame(p, t) PROVE TeamNoted'
    BY <1>1 DEF PlayerGetIntoGame, TeamNoted
  <1>2. ASSUME NEW t \in Teams, PlayerSwitchTeam(p, t) PROVE TeamNoted'
    BY <1>2 DEF PlayerSwitchTeam, TeamNoted
  <1>3. ASSUME PlayerDisconnect(p) PROVE TeamNoted'
    BY <1>3 DEF PlayerDisconnect, TeamNoted
  <1>4. ASSUME \/ PlayerSetAnimation(p) \/ PlayerAddAccount(p) \/ PlayerMakeBomber(p)
               \/ PlayerDropItem(p) \/ PlayerSayText(p)
        PROVE  SameTeams
    BY <1>4 DEF PlayerSetAnimation, PlayerAddAccount, PlayerMakeBomber, PlayerDropItem,
       PlayerSayText, Counted, gameVars, SameTeams
  <1> QED
    BY <1>1, <1>2, <1>3, <1>4 DEF PlayerStep, SameTeams, TeamNoted

LEMMA PlayTeams ==
    ASSUME \/ \E p \in Players : CombatStep(p)
           \/ RoundStep \/ BombStep
    PROVE  SameTeams
  <1>1. ASSUME NEW v \in Players, CombatStep(v) PROVE SameTeams
    BY <1>1 DEF CombatStep, PlayerDamage_Hit, PlayerDamage_Lethal, PlayerKilled,
       PlayerKilled_Ignored, gameVars, recordVars, SameTeams
  <1>2. ASSUME RoundStep PROVE SameTeams
    BY <1>2 DEF RoundStep, RoundRestart, RoundFreezeEnd, RoundEnd, recordVars, SameTeams
  <1>3. ASSUME BombStep PROVE SameTeams
    BY <1>3 DEF BombStep, PlantBomb, DefuseBombStart, DefuseBombEnd, ExplodeBomb, Counted,
       gameVars, SameTeams
  <1> QED
    BY <1>1, <1>2, <1>3

\* A record speaks of the team its player is on, or of none, whatever switches, leaves,
\* drops of the records and map changes came before.
THEOREM TeamsCorrect == Spec => []TeamOfRecord
  <1>1. Init => TeamNoted
    BY DEF Init, TeamNoted
  <1>2. TypeOK /\ TeamNoted /\ [Next]_vars => TeamNoted'
    <2> SUFFICES ASSUME TypeOK, TeamNoted, [Next]_vars PROVE TeamNoted'
      OBVIOUS
    <2>1. CASE UNCHANGED vars
      BY <2>1 DEF vars, recordVars, gameVars, TeamNoted
    <2>2. CASE ServerActivate
      BY <2>2 DEF ServerActivate, TeamNoted
    <2>3. CASE ExecSettings \/ \E v \in CvarValues : SetState(v)
      <3>1. here \subseteq Players
        BY DEF TypeOK, GameTypes
      <3> QED
        BY <2>3, <3>1, SettingsTeams DEF ExecSettings, SetState, SameTeams, TeamNoted
    <2>4. CASE (\E p \in Players : CombatStep(p)) \/ RoundStep \/ BombStep
      BY <2>4, PlayTeams DEF SameTeams, TeamNoted
    <2> QED
      BY <2>1, <2>2, <2>3, <2>4, PlayerTeams DEF Next
  <1>3. TeamNoted => TeamOfRecord
    BY DEF TeamNoted, TeamOfRecord
  <1> QED
    BY TypeCorrect, <1>1, <1>2, <1>3, PTL DEF Spec

-----------------------------------------------------------------------------
(* How many entries of a log are of a kind *)

Where(log, kind) == {i \in DOMAIN log : log[i] \in kind}

LEMMA WhereFinite ==
    ASSUME NEW S, NEW log \in Seq(S), NEW kind
    PROVE  IsFiniteSet(Where(log, kind)) /\ Cardinality(Where(log, kind)) \in Nat
  <1>1. DOMAIN log = 1 .. Len(log) /\ Len(log) \in Nat
    OBVIOUS
  <1>2. IsFiniteSet(1 .. Len(log))
    BY <1>1, FS_Interval
  <1>3. Where(log, kind) \in SUBSET (1 .. Len(log))
    BY <1>1 DEF Where
  <1> QED
    BY <1>2, <1>3, FS_Subset, FS_CardinalityType

LEMMA WhereAppended ==
    ASSUME NEW S, NEW log \in Seq(S), NEW e \in S, NEW kind
    PROVE  Cardinality(Where(Append(log, e), kind))
              = Cardinality(Where(log, kind)) + (IF e \in kind THEN 1 ELSE 0)
  <1> DEFINE n == Len(log) + 1
             old == Where(log, kind)
             new == Where(Append(log, e), kind)
  <1>1. /\ DOMAIN log = 1 .. Len(log) /\ Len(log) \in Nat
        /\ DOMAIN Append(log, e) = 1 .. n /\ Append(log, e)[n] = e
        /\ \A i \in 1 .. Len(log) : Append(log, e)[i] = log[i]
    OBVIOUS
  <1>2. new = IF e \in kind THEN old \cup {n} ELSE old
    BY <1>1 DEF Where
  <1>3. n \notin old
    BY <1>1 DEF Where
  <1>4. IsFiniteSet(old) /\ Cardinality(old) \in Nat
    BY WhereFinite
  <1> HIDE DEF old, new, n
  <1>5. Cardinality(old \cup {n}) = Cardinality(old) + 1
    BY <1>3, <1>4, FS_AddElement
  <1> QED
    BY <1>2, <1>4, <1>5 DEF old, new

-----------------------------------------------------------------------------
(* The events behind a counter *)

LogCounters == {"Frags", "Deaths", "Suicides", "BombPlanted", "BombDefused",
                "BombExploded"}

Deeds(type, p) == {e \in EventType : e.Type = type /\ e.Killer = p /\ e.Victim # p}

Evidence(c, p) ==
    CASE c = "Frags" -> Deeds(EVENT_PLAYER_DIED, p)
      [] c = "Deaths" -> {e \in EventType : e.Killer # p /\ e.Victim = p}
      [] c = "Suicides" -> {e \in EventType : e.Killer = p /\ e.Victim = p}
      [] c = "BombPlanted" -> Deeds(EVENT_BOMB_PLANTED, p)
      [] c = "BombDefused" -> Deeds(EVENT_BOMB_DEFUSED, p)
      [] OTHER -> Deeds(EVENT_BOMB_EXPLODED, p)

\* The part of the evidence that is of round n.
Fresh(c, p, n) == {e \in Evidence(c, p) : e.Round = n}

Times(kind) == Cardinality(Where(m_RoundEvent, kind))

Backed ==
    \A p \in Players, c \in LogCounters :
       Stats[p][m_State][c] <= Times(Evidence(c, p))

RoundBacked(n) ==
    \A p \in Players :
       /\ Round[p].Frags <= Times(Fresh("Frags", p, n))
       /\ Round[p].BombDefused => Times(Fresh("BombDefused", p, n)) > 0
       /\ Round[p].BombExploded => Times(Fresh("BombExploded", p, n)) > 0

LEMMA StatsInLogMeaning == ASSUME TypeOK PROVE StatsInLog <=> (Recording => Backed)
  <1>1. \A i \in DOMAIN m_RoundEvent : m_RoundEvent[i] \in EventType
    BY DEF TypeOK, LogTypes
  <1> DEFINE log == m_RoundEvent
  <1>2. ASSUME NEW p \in Players
        PROVE  /\ \A type : HowMany(log, LAMBDA e :
                               e.Type = type /\ e.Killer = p /\ e.Victim # p)
                     = Times(Deeds(type, p))
               /\ HowMany(log, LAMBDA e : e.Killer = p /\ e.Victim = p)
                     = Times(Evidence("Suicides", p))
               /\ HowMany(log, LAMBDA e : e.Killer # p /\ e.Victim = p)
                     = Times(Evidence("Deaths", p))
    <2>1. ASSUME NEW type
          PROVE  {i \in DOMAIN log : log[i].Type = type /\ log[i].Killer = p
                                      /\ log[i].Victim # p}
                   = Where(log, Deeds(type, p))
      BY <1>1 DEF Where, Deeds
    <2>2. {i \in DOMAIN log : log[i].Killer = p /\ log[i].Victim = p}
             = Where(log, Evidence("Suicides", p))
      BY <1>1 DEF Where, Evidence
    <2>3. {i \in DOMAIN log : log[i].Killer # p /\ log[i].Victim = p}
             = Where(log, Evidence("Deaths", p))
      BY <1>1 DEF Where, Evidence
    <2> QED
      BY <2>1, <2>2, <2>3 DEF HowMany, Times
  <1>3. ASSUME NEW p \in Players
        PROVE  /\ Evidence("Frags", p) = Deeds(EVENT_PLAYER_DIED, p)
               /\ Evidence("BombPlanted", p) = Deeds(EVENT_BOMB_PLANTED, p)
               /\ Evidence("BombDefused", p) = Deeds(EVENT_BOMB_DEFUSED, p)
               /\ Evidence("BombExploded", p) = Deeds(EVENT_BOMB_EXPLODED, p)
    BY DEF Evidence
  <1> QED
    BY <1>2, <1>3 DEF StatsInLog, Backed, LogCounters

LEMMA RoundInLogMeaning ==
    ASSUME TypeOK
    PROVE  RoundInLog <=> (Recording /\ round = "live" => RoundBacked(m_Match.Rounds + 1))
  <1>1. \A i \in DOMAIN m_RoundEvent : m_RoundEvent[i] \in EventType
    BY DEF TypeOK, LogTypes
  <1> DEFINE log == m_RoundEvent
             now(type, p) == {e \in Deeds(type, p) : e.Round = m_Match.Rounds + 1}
  <1>2. ASSUME NEW p \in Players, NEW type
        PROVE  HowMany(log, LAMBDA e : /\ e.Type = type /\ e.Killer = p /\ e.Victim # p
                                       /\ e.Round = m_Match.Rounds + 1)
                  = Times(now(type, p))
    <2>1. {i \in DOMAIN log : /\ log[i].Type = type /\ log[i].Killer = p
                              /\ log[i].Victim # p /\ log[i].Round = m_Match.Rounds + 1}
             = Where(log, now(type, p))
      BY <1>1 DEF Where, Deeds
    <2> QED
      BY <2>1 DEF HowMany, Times
  <1>3. ASSUME NEW p \in Players
        PROVE  /\ Fresh("Frags", p, m_Match.Rounds + 1) = now(EVENT_PLAYER_DIED, p)
               /\ Fresh("BombDefused", p, m_Match.Rounds + 1) = now(EVENT_BOMB_DEFUSED, p)
               /\ Fresh("BombExploded", p, m_Match.Rounds + 1) = now(EVENT_BOMB_EXPLODED, p)
    BY DEF Evidence, Fresh
  <1> QED
    BY <1>2, <1>3 DEF RoundInLog, RoundBacked

-----------------------------------------------------------------------------
(* What a step adds to the log and to the counters *)

\* The events a step logs: none, or one under the number of the round.
Logs(news) ==
    \/ news = {} /\ m_RoundEvent' = m_RoundEvent
    \/ \E e \in EventType : /\ news = {e} /\ e.Round = m_Match.Rounds + 1
                            /\ m_RoundEvent' = Append(m_RoundEvent, e)

Seen(news, kind) == news \cap kind # {}

\* Each counter goes up by no more than the events logged say.
CountsWhatItLogs(news) ==
    /\ \A p \in Players, c \in LogCounters :
          Stats'[p][m_State][c] <= Stats[p][m_State][c]
                                     + (IF Seen(news, Evidence(c, p)) THEN 1 ELSE 0)
    /\ \A p \in Players :
          /\ Round'[p].Frags <= Round[p].Frags
                                  + (IF Seen(news, Evidence("Frags", p)) THEN 1 ELSE 0)
          /\ Round'[p].BombDefused => \/ Round[p].BombDefused
                                      \/ Seen(news, Evidence("BombDefused", p))
          /\ Round'[p].BombExploded => \/ Round[p].BombExploded
                                       \/ Seen(news, Evidence("BombExploded", p))

\* A step within a round.
GoesOn ==
    /\ UNCHANGED <<m_State, round, m_Match>>
    /\ \E news : Logs(news) /\ (Recording => CountsWhatItLogs(news))

LEMMA TimesGrow ==
    ASSUME TypeOK, NEW news, Logs(news), NEW kind
    PROVE  /\ Times(kind) \in Nat
           /\ Times(kind)' = Times(kind) + (IF Seen(news, kind) THEN 1 ELSE 0)
  <1>1. m_RoundEvent \in Seq(EventType)
    BY DEF TypeOK, LogTypes
  <1>2. Times(kind) \in Nat
    BY <1>1, WhereFinite DEF Times
  <1>3. CASE news = {} /\ m_RoundEvent' = m_RoundEvent
    BY <1>2, <1>3 DEF Times, Seen
  <1>4. ASSUME NEW e \in EventType, news = {e}, m_RoundEvent' = Append(m_RoundEvent, e)
        PROVE  Times(kind)' = Times(kind) + (IF Seen(news, kind) THEN 1 ELSE 0)
    <2>1. Times(kind)' = Times(kind) + (IF e \in kind THEN 1 ELSE 0)
      BY <1>1, <1>4, WhereAppended DEF Times
    <2> QED
      BY <1>4, <2>1 DEF Seen
  <1> QED
    BY <1>2, <1>3, <1>4 DEF Logs

LEMMA EarnedAt ==
    ASSUME NEW stats \in StatsType, NEW pairs, NEW n \in Nat, Recording,
           NEW p \in Players, NEW c \in LogCounters
    PROVE  /\ stats[p][m_State][c] \in Nat
           /\ Earned(stats, pairs, n)[p][m_State][c]
                 = stats[p][m_State][c] + (IF <<p, c>> \in pairs THEN n ELSE 0)
  <1>1. m_State \in PlayStates /\ c \in Counters
    BY DEF Recording, LogCounters, Counters
  <1>2. stats[p][m_State][c] \in Nat
    BY <1>1 DEF StatsType
  <1> QED
    BY <1>1, <1>2 DEF Earned

\* A step that counts nothing the log has to back.
LEMMA CountsApart ==
    ASSUME TypeOK, Recording, NEW pairs, NEW news,
           Stats' = Earned(Stats, pairs, 1),
           \A p \in Players, c \in LogCounters : <<p, c>> \notin pairs,
           UNCHANGED Round
    PROVE  CountsWhatItLogs(news)
  <1>1. Stats \in StatsType /\ Round \in [Players -> RoundStats]
    BY DEF TypeOK, CounterTypes
  <1>2. ASSUME NEW p \in Players, NEW c \in LogCounters
        PROVE  Stats'[p][m_State][c] <= Stats[p][m_State][c]
                                     + (IF Seen(news, Evidence(c, p)) THEN 1 ELSE 0)
    <2>1. /\ Stats[p][m_State][c] \in Nat
          /\ Stats'[p][m_State][c]
                = Stats[p][m_State][c] + (IF <<p, c>> \in pairs THEN 1 ELSE 0)
      BY <1>1, EarnedAt
    <2>2. <<p, c>> \notin pairs
      BY Zenon
    <2> QED
      BY <2>1, <2>2
  <1>3. \A p \in Players : Round[p].Frags \in Nat
    BY <1>1 DEF RoundStats
  <1> QED
    BY <1>2, <1>3 DEF CountsWhatItLogs

LEMMA CountsNothing ==
    ASSUME TypeOK, UNCHANGED <<Stats, Round>>, NEW news, Recording
    PROVE  CountsWhatItLogs(news)
  <1>1. Stats \in StatsType /\ Round \in [Players -> RoundStats]
    BY DEF TypeOK, CounterTypes
  <1>2. ASSUME NEW p \in Players, NEW c \in LogCounters
        PROVE  Stats[p][m_State][c] \in Nat
    BY <1>1, EarnedAt
  <1>3. \A p \in Players : Round[p].Frags \in Nat
    BY <1>1 DEF RoundStats
  <1> QED
    BY <1>2, <1>3 DEF CountsWhatItLogs

LEMMA CountedGoesOn ==
    ASSUME TypeOK, NEW p \in Players, NEW c, c \notin LogCounters, Counted(p, c)
    PROVE  GoesOn
  <1>1. Stats' = Earned(Stats, {<<p, c>>}, 1) /\ UNCHANGED Round /\ Recording
    BY DEF Counted, Count
  <1>2. \A q \in Players, d \in LogCounters : <<q, d>> \notin {<<p, c>>}
    OBVIOUS
  <1>3. CountsWhatItLogs({})
    BY <1>1, <1>2, CountsApart
  <1>4. UNCHANGED <<m_State, round, m_Match, m_RoundEvent>>
    BY DEF Counted, cvarVars, matchVars, gameVars
  <1> QED
    BY <1>3, <1>4 DEF GoesOn, Logs

LEMMA IdleGoesOn ==
    ASSUME TypeOK, UNCHANGED <<m_State, round, matchVars, Stats, Round>>
    PROVE  GoesOn
  BY CountsNothing DEF GoesOn, Logs, matchVars

LEMMA PlayerGoesOn ==
    ASSUME TypeOK, NEW p \in Players, PlayerStep(p)
    PROVE  GoesOn
  <1>1. CASE \/ \E t \in Sides : PlayerGetIntoGame(p, t)
             \/ \E t \in Teams : PlayerSwitchTeam(p, t)
             \/ PlayerDisconnect(p) \/ PlayerSayText(p)
    BY <1>1, IdleGoesOn DEF PlayerGetIntoGame, PlayerSwitchTeam, PlayerDisconnect,
       PlayerSayText, cvarVars, statsVars, gameVars
  <1>2. CASE \/ Counted(p, "Shots") \/ Counted(p, "Money") \/ Counted(p, "BombSpawn")
             \/ Counted(p, "BombDrop")
    BY <1>2, CountedGoesOn DEF LogCounters
  <1> QED
    BY <1>1, <1>2 DEF PlayerStep, PlayerSetAnimation, PlayerAddAccount, PlayerMakeBomber,
       PlayerDropItem

\* A hit counts nothing that the log has to back.
LEMMA HitCounts ==
    ASSUME TypeOK, Recording, NEW v \in Players, NEW k \in Players, NEW d \in Damages,
           RecordHit(v, k, d)
    PROVE  CountsWhatItLogs({})
  <1> DEFINE hits == Earned(Stats, {<<k, "Hits">>, <<v, "HitsReceived">>}, 1)
             harm == {<<k, "Damage">>, <<v, "DamageReceived">>}
  <1>1. Stats \in StatsType /\ Round \in [Players -> RoundStats] /\ d \in Nat
    BY SettingsAssumption DEF SettingsAssumption, TypeOK, CounterTypes
  <1>2. hits \in StatsType
    BY <1>1, EarnedType
  <1>3. ASSUME NEW p \in Players, NEW c \in LogCounters
        PROVE  Stats[p][m_State][c] \in Nat /\ Stats'[p][m_State][c] = Stats[p][m_State][c]
    <2>1. c \notin {"Hits", "HitsReceived", "Damage", "DamageReceived"}
      BY DEF LogCounters
    <2>2. <<p, c>> \notin {<<k, "Hits">>, <<v, "HitsReceived">>} /\ <<p, c>> \notin harm
      BY <2>1
    <2>3. Stats[p][m_State][c] \in Nat /\ hits[p][m_State][c] = Stats[p][m_State][c]
      <3> DEFINE pairs == {<<k, "Hits">>, <<v, "HitsReceived">>}
      <3> HIDE DEF pairs
      <3>1. /\ Stats[p][m_State][c] \in Nat
            /\ Earned(Stats, pairs, 1)[p][m_State][c]
                 = Stats[p][m_State][c] + (IF <<p, c>> \in pairs THEN 1 ELSE 0)
        BY <1>1, EarnedAt
      <3> QED
        BY <2>2, <3>1 DEF pairs
    <2> HIDE DEF hits, harm
    <2>4. Earned(hits, harm, d)[p][m_State][c] = hits[p][m_State][c]
      <3>1. /\ hits[p][m_State][c] \in Nat
            /\ Earned(hits, harm, d)[p][m_State][c]
                 = hits[p][m_State][c] + (IF <<p, c>> \in harm THEN d ELSE 0)
        BY <1>1, <1>2, EarnedAt
      <3> QED
        BY <2>2, <3>1
    <2>5. Stats' = Earned(hits, harm, d)
      BY DEF RecordHit, hits, harm
    <2> QED
      BY <2>3, <2>4, <2>5
  <1>4. ASSUME NEW p \in Players
        PROVE  /\ Round[p].Frags \in Nat /\ Round'[p].Frags = Round[p].Frags
               /\ Round'[p].BombDefused = Round[p].BombDefused
               /\ Round'[p].BombExploded = Round[p].BombExploded
    BY <1>1 DEF RecordHit, RoundStats
  <1> QED
    BY <1>3, <1>4 DEF CountsWhatItLogs

\* A kill counts one frag and one death, and is logged as both.
LEMMA FragCounts ==
    ASSUME TypeOK, Recording, NEW v \in Players, NEW k \in Players, v # k,
           RecordFrag(v, k), NEW e \in EventType,
           e.Type = EVENT_PLAYER_DIED, e.Killer = k, e.Victim = v
    PROVE  CountsWhatItLogs({e})
  <1> DEFINE pairs == {<<k, "Frags">>, <<v, "Deaths">>}
                      \cup {<<p, "Assists">> : p \in Assistants(v, k)}
                      \cup (IF FirstBlood THEN {<<k, "EntryFrags">>, <<v, "EntryDeaths">>}
                            ELSE {})
  <1>1. Stats \in StatsType /\ Round \in [Players -> RoundStats]
    BY DEF TypeOK, CounterTypes
  <1>2. Stats' = Earned(Stats, pairs, 1)
    BY DEF RecordFrag
  <1>3. \A p \in Players, c \in LogCounters :
           <<p, c>> \in pairs <=> (c = "Frags" /\ p = k) \/ (c = "Deaths" /\ p = v)
    BY DEF LogCounters
  <1>4. Seen({e}, Evidence("Frags", k)) /\ Seen({e}, Evidence("Deaths", v))
    BY DEF Seen, Evidence, Deeds
  <1> HIDE DEF pairs
  <1>5. ASSUME NEW p \in Players, NEW c \in LogCounters
        PROVE  Stats'[p][m_State][c] <= Stats[p][m_State][c]
                                     + (IF Seen({e}, Evidence(c, p)) THEN 1 ELSE 0)
    <2>1. /\ Stats[p][m_State][c] \in Nat
          /\ Stats'[p][m_State][c]
                = Stats[p][m_State][c] + (IF <<p, c>> \in pairs THEN 1 ELSE 0)
      BY <1>1, <1>2, EarnedAt
    <2>2. <<p, c>> \in pairs => Seen({e}, Evidence(c, p))
      BY <1>3, <1>4
    <2> QED
      BY <2>1, <2>2
  <1>6. ASSUME NEW p \in Players
        PROVE  /\ Round[p].Frags \in Nat
               /\ Round'[p].Frags = Round[p].Frags + (IF p = k THEN 1 ELSE 0)
               /\ Round'[p].BombDefused = Round[p].BombDefused
               /\ Round'[p].BombExploded = Round[p].BombExploded
    <2>1. Round[p] \in RoundStats
      BY <1>1
    <2>2. Round'[p] = [Round[p] EXCEPT !.Frags = IF p = k THEN @ + 1 ELSE @,
                                       !.Versus = Versus(p)]
      BY DEF RecordFrag
    <2>3. CASE p = k
      BY <2>1, <2>2, <2>3 DEF RoundStats
    <2>4. CASE p # k
      BY <2>1, <2>2, <2>4 DEF RoundStats
    <2> QED
      BY <2>3, <2>4
  <1>7. ASSUME NEW p \in Players
        PROVE  Round'[p].Frags <= Round[p].Frags
                                   + (IF Seen({e}, Evidence("Frags", p)) THEN 1 ELSE 0)
    <2>1. p = k => Seen({e}, Evidence("Frags", p))
      BY <1>4
    <2> QED
      BY <1>6, <2>1
  <1> QED
    BY <1>5, <1>6, <1>7 DEF CountsWhatItLogs

\* A count of one of these counters by its own event.
LEMMA DeedCounts ==
    ASSUME TypeOK, Recording, NEW p \in Players, NEW c \in LogCounters,
           NEW e \in Evidence(c, p), NEW pairs,
           Stats' = Earned(Stats, pairs, 1),
           \A q \in Players, d \in LogCounters :
              <<q, d>> \in pairs => q = p /\ d = c,
           \/ UNCHANGED Round
           \/ c = "BombDefused" /\ Round' = [Round EXCEPT ![p].BombDefused = TRUE]
           \/ c = "BombExploded" /\ Round' = [Round EXCEPT ![p].BombExploded = TRUE]
    PROVE  CountsWhatItLogs({e})
  <1>1. Stats \in StatsType /\ Round \in [Players -> RoundStats]
    BY DEF TypeOK, CounterTypes
  <1>2. Seen({e}, Evidence(c, p))
    BY DEF Seen
  <1>3. ASSUME NEW q \in Players, NEW d \in LogCounters
        PROVE  Stats'[q][m_State][d] <= Stats[q][m_State][d]
                                     + (IF Seen({e}, Evidence(d, q)) THEN 1 ELSE 0)
    <2>1. /\ Stats[q][m_State][d] \in Nat
          /\ Stats'[q][m_State][d]
                = Stats[q][m_State][d] + (IF <<q, d>> \in pairs THEN 1 ELSE 0)
      BY <1>1, EarnedAt
    <2>2. <<q, d>> \in pairs => Seen({e}, Evidence(d, q))
      BY <1>2
    <2> QED
      BY <2>1, <2>2
  <1>4. ASSUME NEW q \in Players
        PROVE  /\ Round[q].Frags \in Nat /\ Round'[q].Frags = Round[q].Frags
               /\ Round'[q].BombDefused => \/ Round[q].BombDefused
                                           \/ c = "BombDefused" /\ q = p
               /\ Round'[q].BombExploded => \/ Round[q].BombExploded
                                            \/ c = "BombExploded" /\ q = p
    BY <1>1 DEF RoundStats
  <1>5. ASSUME NEW q \in Players
        PROVE  /\ Round'[q].Frags <= Round[q].Frags
                                   + (IF Seen({e}, Evidence("Frags", q)) THEN 1 ELSE 0)
               /\ Round'[q].BombDefused => \/ Round[q].BombDefused
                                           \/ Seen({e}, Evidence("BombDefused", q))
               /\ Round'[q].BombExploded => \/ Round[q].BombExploded
                                            \/ Seen({e}, Evidence("BombExploded", q))
    BY <1>2, <1>4
  <1> QED
    BY <1>3, <1>5, Zenon DEF CountsWhatItLogs

Named(x) == x \in Players \cup {NoPlayer}

\* A step logs e: a happening of the type, by k to v.
News(e, type, k, v) == Logs({e}) /\ e.Type = type /\ e.Killer = k /\ e.Victim = v

\* OnEvent logs one event, under the number of the round being played.
LEMMA EventIsNews ==
    ASSUME TypeOK, ScoreIsRounds, NEW type \in EventTypes,
           NEW k, NEW v, Named(k), Named(v),
           m_RoundEvent' = OnEvent(type, k, v)
    PROVE  \E e \in EventType : News(e, type, k, v)
  <1> DEFINE e == [Round |-> m_Match.Rounds + 1, Type |-> type, Killer |-> k,
                   Victim |-> v]
  <1>1. m_RoundEvent' = Append(m_RoundEvent, e)
    BY EventNumber
  <1>2. e \in EventType
    BY DEF TypeOK, LogTypes, MatchType, EventType, Named
  <1>3. e.Round = m_Match.Rounds + 1
    OBVIOUS
  <1>4. Logs({e})
    BY <1>1, <1>2, <1>3, Zenon DEF Logs
  <1>5. News(e, type, k, v)
    BY <1>4 DEF News
  <1> QED
    BY <1>2, <1>5, Zenon

LEMMA CombatGoesOn ==
    ASSUME TypeOK, ScoreIsRounds, NEW v \in Players, CombatStep(v)
    PROVE  GoesOn
  <1>1. ASSUME NEW k \in Players, NEW d \in Damages,
               PlayerDamage_Hit(v, k, d) \/ PlayerDamage_Lethal(v, k, d)
        PROVE  GoesOn
    <2>1. UNCHANGED <<m_State, round, matchVars>>
      BY <1>1 DEF PlayerDamage_Hit, PlayerDamage_Lethal, cvarVars, gameVars
    <2>2. (Recording /\ RecordHit(v, k, d)) \/ UNCHANGED <<Stats, Round>>
      BY <1>1 DEF PlayerDamage_Hit, PlayerDamage_Lethal
    <2>3. Recording => CountsWhatItLogs({})
      BY <2>2, HitCounts, CountsNothing
    <2>4. Logs({})
      BY <2>1 DEF Logs, matchVars
    <2> QED
      BY <2>1, <2>3, <2>4 DEF GoesOn, matchVars
  <1>2. ASSUME NEW k \in Players, PlayerKilled(v, k) PROVE GoesOn
    <2>1. /\ UNCHANGED <<m_State, round, m_Match>> /\ Recording
          /\ m_RoundEvent' = OnEvent(EVENT_PLAYER_DIED, k, v)
          /\ \/ v # k /\ RecordFrag(v, k)
             \/ v = k /\ RecordSuicide(v)
      BY <1>2 DEF PlayerKilled, cvarVars
    <2>2. PICK e \in EventType : News(e, EVENT_PLAYER_DIED, k, v)
      <3>1. Named(k) /\ Named(v) /\ EVENT_PLAYER_DIED \in EventTypes
        BY DEF EventTypes, Named
      <3> QED
        BY <2>1, <3>1, EventIsNews
    <2>3. CASE v # k /\ RecordFrag(v, k)
      BY <2>1, <2>2, <2>3, FragCounts DEF GoesOn, News
    <2>4. CASE v = k /\ RecordSuicide(v)
      <3>1. e \in Evidence("Suicides", v) /\ "Suicides" \in LogCounters
        BY <2>2, <2>4 DEF Evidence, LogCounters, News
      <3>2. Stats' = Earned(Stats, {<<v, "Suicides">>}, 1) /\ UNCHANGED Round
        BY <2>4 DEF RecordSuicide, Count
      <3>3. \A q \in Players, d \in LogCounters :
               <<q, d>> \in {<<v, "Suicides">>} => q = v /\ d = "Suicides"
        OBVIOUS
      <3>4. CountsWhatItLogs({e})
        BY <2>1, <3>1, <3>2, <3>3, DeedCounts
      <3> QED
        BY <2>1, <2>2, <3>4 DEF GoesOn, News
    <2> QED
      BY <2>1, <2>3, <2>4
  <1>3. ASSUME PlayerKilled_Ignored(v) PROVE GoesOn
    BY <1>3, IdleGoesOn DEF PlayerKilled_Ignored, cvarVars, statsVars
  <1> QED
    BY <1>1, <1>2, <1>3 DEF CombatStep

\* A bomb event is logged with the counter it backs.
LEMMA BombGoesOn ==
    ASSUME TypeOK, ScoreIsRounds, BombStep
    PROVE  GoesOn
  <1>1. ASSUME NEW p \in Players, NEW c \in LogCounters, NEW type \in EventTypes, NEW pairs,
               Evidence(c, p) = Deeds(type, p), Recording,
               m_RoundEvent' = OnEvent(type, p, NoPlayer),
               UNCHANGED <<m_State, round, m_Match>>,
               Stats' = Earned(Stats, pairs, 1),
               \A q \in Players, d \in LogCounters :
                  <<q, d>> \in pairs => q = p /\ d = c,
               \/ UNCHANGED Round
               \/ c = "BombDefused" /\ Round' = [Round EXCEPT ![p].BombDefused = TRUE]
               \/ c = "BombExploded" /\ Round' = [Round EXCEPT ![p].BombExploded = TRUE]
        PROVE  GoesOn
    <2>0. Named(p) /\ Named(NoPlayer)
      BY DEF Named
    <2>1. PICK e \in EventType : News(e, type, p, NoPlayer)
      BY <1>1, <2>0, EventIsNews
    <2>2. e \in Evidence(c, p)
      BY <1>1, <2>1, PlayersAssumption DEF PlayersAssumption, Deeds, News
    <2>3. CountsWhatItLogs({e})
      BY <1>1, <2>2, DeedCounts
    <2> QED
      BY <1>1, <2>1, <2>3 DEF GoesOn, News
  <1>2. ASSUME NEW p \in Players, PlantBomb(p) PROVE GoesOn
    <2>1. UNCHANGED <<m_State, round, m_Match, Round>>
      BY <1>2 DEF PlantBomb, cvarVars
    <2>2. CASE ~Recording /\ UNCHANGED <<Stats, m_RoundEvent, m_Player>>
      BY <2>1, <2>2, IdleGoesOn DEF matchVars
    <2>3. CASE /\ Recording
               /\ Stats' = Earned(Stats, {<<p, "BombPlanting">>, <<p, "BombPlanted">>}, 1)
               /\ m_RoundEvent' = OnEvent(EVENT_BOMB_PLANTED, p, NoPlayer)
      <3> DEFINE pairs == {<<p, "BombPlanting">>, <<p, "BombPlanted">>}
      <3>1. \A q \in Players, d \in LogCounters :
               <<q, d>> \in pairs => q = p /\ d = "BombPlanted"
        BY DEF LogCounters
      <3>2. /\ Evidence("BombPlanted", p) = Deeds(EVENT_BOMB_PLANTED, p)
            /\ "BombPlanted" \in LogCounters /\ EVENT_BOMB_PLANTED \in EventTypes
        BY DEF Evidence, LogCounters, EventTypes
      <3> HIDE DEF pairs
      <3> QED
        BY <1>1, <2>1, <2>3, <3>1, <3>2 DEF pairs
    <2> QED
      BY <1>2, <2>2, <2>3 DEF PlantBomb
  <1>3. ASSUME NEW p \in Players, DefuseBombStart(p) PROVE GoesOn
    BY <1>3, CountedGoesOn DEF DefuseBombStart, LogCounters
  <1>4. ASSUME NEW p \in Players, DefuseBombEnd(p) PROVE GoesOn
    <2>1. UNCHANGED <<m_State, round, m_Match>>
      BY <1>4 DEF DefuseBombEnd, cvarVars
    <2>2. CASE ~Recording /\ UNCHANGED <<Stats, m_Player, Round, m_RoundEvent>>
      BY <2>1, <2>2, IdleGoesOn DEF matchVars
    <2>3. CASE /\ Recording /\ Count(p, "BombDefused")
               /\ Round' = [Round EXCEPT ![p].BombDefused = TRUE]
               /\ m_RoundEvent' = OnEvent(EVENT_BOMB_DEFUSED, p, NoPlayer)
      <3>1. \A q \in Players, d \in LogCounters :
               <<q, d>> \in {<<p, "BombDefused">>} => q = p /\ d = "BombDefused"
        OBVIOUS
      <3>2. /\ Evidence("BombDefused", p) = Deeds(EVENT_BOMB_DEFUSED, p)
            /\ "BombDefused" \in LogCounters /\ EVENT_BOMB_DEFUSED \in EventTypes
        BY DEF Evidence, LogCounters, EventTypes
      <3> QED
        BY <1>1, <2>1, <2>3, <3>1, <3>2 DEF Count
    <2> QED
      BY <1>4, <2>2, <2>3 DEF DefuseBombEnd
  <1>5. ASSUME ExplodeBomb PROVE GoesOn
    <2>1. UNCHANGED <<m_State, round, m_Match>> /\ planter \in Players
      BY <1>5 DEF ExplodeBomb, cvarVars, TypeOK, GameTypes
    <2>2. CASE ~Recording /\ UNCHANGED <<Stats, m_Player, Round, m_RoundEvent>>
      BY <2>1, <2>2, IdleGoesOn DEF matchVars
    <2>3. CASE /\ Recording /\ Count(planter, "BombExploded")
               /\ Round' = [Round EXCEPT ![planter].BombExploded = TRUE]
               /\ m_RoundEvent' = OnEvent(EVENT_BOMB_EXPLODED, planter, NoPlayer)
      <3> PICK p \in Players : p = planter
        BY <2>1
      <3>1. \A q \in Players, d \in LogCounters :
               <<q, d>> \in {<<p, "BombExploded">>} => q = p /\ d = "BombExploded"
        OBVIOUS
      <3>2. /\ Evidence("BombExploded", p) = Deeds(EVENT_BOMB_EXPLODED, p)
            /\ "BombExploded" \in LogCounters /\ EVENT_BOMB_EXPLODED \in EventTypes
        BY DEF Evidence, LogCounters, EventTypes
      <3> QED
        BY <1>1, <2>1, <2>3, <3>1, <3>2 DEF Count
    <2> QED
      BY <1>5, <2>2, <2>3 DEF ExplodeBomb
  <1> QED
    BY <1>2, <1>3, <1>4, <1>5 DEF BombStep

-----------------------------------------------------------------------------
(* The half being played *)

\* A state set to a half starts its round stats afresh.
LEMMA HalfSetResets ==
    ASSUME NEW v, Cvar_DirectSet(v), Recording'
    PROVE  HalfEntered /\ ResetRound
  <1>1. m_State' = v /\ v \in PlayStates
    BY DEF Cvar_DirectSet, Recording
  <1>2. \/ v = STATE_FIRST_HALF /\ SetFirstHalf
        \/ v = STATE_SECOND_HALF /\ SetSecondHalf
        \/ v = STATE_OVERTIME /\ SetOvertime
    BY <1>1 DEF Cvar_DirectSet, PlayStates, STATE_DEAD, STATE_WARMUP, STATE_START,
       STATE_FIRST_HALF, STATE_HALFTIME, STATE_SECOND_HALF, STATE_OVERTIME, STATE_END
  <1> QED
    BY <1>1, <1>2 DEF SetFirstHalf, SetSecondHalf, SetOvertime, HalfEntered

\* A step that enters a half, starts the counters of the half afresh; one that
\* ends a round counts what no event has to back.
LEMMA StepCounts ==
    ASSUME TypeOK, ScoreIsRounds, [Next]_vars
    PROVE  \/ GoesOn
           \/ ~Recording'
           \/ HalfEntered /\ ResetRound
           \/ RoundFreezeEnd
           \/ \E complete \in BOOLEAN : RoundRestart(complete)
           \/ \E w \in Sides \cup {0} : RoundEnd(w)
  <1>1. CASE UNCHANGED vars
    BY <1>1, IdleGoesOn DEF vars, cvarVars, statsVars, gameVars
  <1>2. CASE ServerActivate
    BY <1>2 DEF ServerActivate, Recording, PlayStates, STATE_DEAD,
       STATE_FIRST_HALF, STATE_SECOND_HALF, STATE_OVERTIME
  <1>3. CASE ExecSettings \/ \E v \in CvarValues : SetState(v)
    BY <1>3, HalfSetResets DEF ExecSettings, SetState
  <1> QED
    BY <1>1, <1>2, <1>3, PlayerGoesOn, CombatGoesOn, BombGoesOn DEF Next, RoundStep

LEMMA HalfEnteredCounts ==
    ASSUME TypeOK, HalfEntered, NEW p \in Players, NEW c \in LogCounters
    PROVE  Stats'[p][m_State'][c] = 0
  <1>1. m_State' \in PlayStates /\ c \in Counters
    BY DEF HalfEntered, LogCounters, Counters
  <1>2. Stats'[p][m_State'] = ZeroStats[p][m_State']
    BY <1>1, ResetHalf DEF HalfEntered
  <1> QED
    BY <1>1, <1>2 DEF ZeroStats

\* The end of a round counts rounds only, and may log the win.
LEMMA EndCounts ==
    ASSUME TypeOK, ScoreIsRounds, Recording, NEW w \in Sides \cup {0}, RoundEnd(w)
    PROVE  /\ m_State' = m_State
           /\ \A p \in Players, c \in LogCounters :
                 Stats'[p][m_State][c] = Stats[p][m_State][c]
           /\ \/ m_RoundEvent' = m_RoundEvent
              \/ \E e \in EventType : m_RoundEvent' = Append(m_RoundEvent, e)
  <1>1. m_State' = m_State
    BY DEF RoundEnd, cvarVars
  <1>2. CASE UNCHANGED <<matchVars, m_Player, Stats, Tally>>
    BY <1>1, <1>2 DEF matchVars
  <1>3. CASE w \in Sides /\ RecordRound(w)
    <2>1. \A p \in Players, c \in LogCounters : <<p, c>> \notin RoundCounters(w)
      BY DEF LogCounters, RoundCounters
    <2>2. Stats \in StatsType /\ Stats' = Earned(Stats, RoundCounters(w), 1)
      BY <1>3 DEF TypeOK, CounterTypes, RecordRound
    <2>3. ASSUME NEW p \in Players, NEW c \in LogCounters
          PROVE  Stats'[p][m_State][c] = Stats[p][m_State][c]
      <3>1. /\ Stats[p][m_State][c] \in Nat
            /\ Stats'[p][m_State][c] = Stats[p][m_State][c]
                  + (IF <<p, c>> \in RoundCounters(w) THEN 1 ELSE 0)
        BY <2>2, EarnedAt
      <3>2. <<p, c>> \notin RoundCounters(w)
        BY <2>1, Zenon
      <3> QED
        BY <3>1, <3>2
    <2> DEFINE type == IF w = TERRORIST THEN EVENT_TERRORISTS_WIN ELSE EVENT_CTS_WIN
    <2>4. /\ m_RoundEvent' = OnEvent(type, NoPlayer, NoPlayer)
          /\ type \in EventTypes /\ Named(NoPlayer)
      BY <1>3 DEF RecordRound, EventTypes, WinEvents, Named
    <2> HIDE DEF type
    <2>5. PICK e \in EventType : Logs({e})
      BY <2>4, EventIsNews DEF News
    <2>6. m_RoundEvent' = Append(m_RoundEvent, e)
      BY <2>5, Zenon DEF Logs
    <2> QED
      BY <1>1, <2>3, <2>6
  <1> QED
    BY <1>2, <1>3 DEF RoundEnd

LEMMA BackedStep ==
    ASSUME TypeOK, TypeOK', ScoreIsRounds, Recording => Backed, [Next]_vars,
           Recording', NEW p \in Players, NEW c \in LogCounters
    PROVE  Stats'[p][m_State'][c] <= Cardinality(Where(m_RoundEvent', Evidence(c, p)))
  <1> DEFINE kind == Evidence(c, p)
             now == Cardinality(Where(m_RoundEvent', kind))
  <1>1. Times(kind) \in Nat /\ now \in Nat
    BY WhereFinite DEF Times, TypeOK, LogTypes
  <1>2. ASSUME m_State' = m_State
        PROVE  Stats[p][m_State][c] \in Nat /\ Stats[p][m_State][c] <= Times(kind)
    <2>1. Recording
      BY <1>2 DEF Recording
    <2> QED
      BY <2>1, EarnedAt DEF Backed, TypeOK, CounterTypes
  <1> SUFFICES Stats'[p][m_State'][c] <= now
    OBVIOUS
  <1> HIDE DEF kind, now
  <1>3. CASE GoesOn
    <2>1. PICK news : Logs(news) /\ (Recording => CountsWhatItLogs(news))
      BY <1>3 DEF GoesOn
    <2>2. m_State' = m_State /\ Recording
      BY <1>3 DEF GoesOn, Recording
    <2>3. now = Times(kind) + (IF Seen(news, kind) THEN 1 ELSE 0)
      BY <2>1, TimesGrow DEF Times, now
    <2>4. Stats'[p][m_State][c] <= Stats[p][m_State][c]
                                     + (IF Seen(news, kind) THEN 1 ELSE 0)
      BY <2>1, <2>2 DEF CountsWhatItLogs, kind
    <2>5. Stats'[p][m_State][c] \in Nat
      BY <2>2 DEF TypeOK, CounterTypes, StatsType, Recording, LogCounters, Counters
    <2> QED
      BY <1>1, <1>2, <2>2, <2>3, <2>4, <2>5
  <1>4. CASE HalfEntered
    BY <1>1, <1>4, HalfEnteredCounts
  <1>5. ASSUME UNCHANGED <<m_State, Stats, m_RoundEvent>>
        PROVE  Stats'[p][m_State'][c] <= now
    BY <1>2, <1>5 DEF Times, now
  <1>6. CASE RoundFreezeEnd
    BY <1>5, <1>6 DEF RoundFreezeEnd, cvarVars, matchVars
  <1>7. ASSUME NEW complete \in BOOLEAN, RoundRestart(complete)
        PROVE  Stats'[p][m_State'][c] <= now
    <2>1. UNCHANGED <<m_State, m_RoundEvent>>
      BY <1>7 DEF RoundRestart, cvarVars, matchVars
    <2>2. CASE ResetStats(m_State)
      <3>1. HalfEntered
        BY <2>1, <2>2 DEF HalfEntered, Recording
      <3> QED
        BY <1>4, <3>1
    <2>3. CASE UNCHANGED <<Stats, Tally, Round>>
      BY <1>5, <2>1, <2>3
    <2> QED
      BY <1>7, <2>2, <2>3 DEF RoundRestart
  <1>8. ASSUME NEW w \in Sides \cup {0}, RoundEnd(w)
        PROVE  Stats'[p][m_State'][c] <= now
    <2>1. m_State' = m_State /\ Recording
      BY <1>8 DEF RoundEnd, cvarVars, Recording
    <2>2. /\ Stats'[p][m_State][c] = Stats[p][m_State][c]
          /\ \/ m_RoundEvent' = m_RoundEvent
             \/ \E e \in EventType : m_RoundEvent' = Append(m_RoundEvent, e)
      BY <1>8, <2>1, EndCounts
    <2>3. now >= Times(kind)
      <3>1. CASE m_RoundEvent' = m_RoundEvent
        BY <1>1, <3>1 DEF Times, now
      <3>2. ASSUME NEW e \in EventType, m_RoundEvent' = Append(m_RoundEvent, e)
            PROVE  now = Times(kind) + (IF e \in kind THEN 1 ELSE 0)
        BY <3>2, WhereAppended DEF TypeOK, LogTypes, Times, now
      <3> QED
        BY <1>1, <2>2, <3>1, <3>2
    <2> QED
      BY <1>1, <1>2, <2>1, <2>2, <2>3
  <1> QED
    BY <1>3, <1>4, <1>6, <1>7, <1>8, StepCounts

\* What the recorder has counted of a player in the half being played happened:
\* every kill, death, suicide and bomb is in the log.
THEOREM LogBacksStats == Spec => []StatsInLog
  <1> DEFINE Inv == Recording => Backed
  <1>1. Init => Inv
    BY DEF Init, Recording, PlayStates, STATE_DEAD, STATE_FIRST_HALF, STATE_SECOND_HALF,
       STATE_OVERTIME
  <1>2. TypeOK /\ TypeOK' /\ ScoreIsRounds /\ Inv /\ [Next]_vars => Inv'
    <2> SUFFICES ASSUME TypeOK, TypeOK', ScoreIsRounds, Inv, [Next]_vars, Recording'
                 PROVE  Backed'
      OBVIOUS
    <2> QED
      BY BackedStep DEF Backed, Times
  <1>3. TypeOK /\ Inv => StatsInLog
    BY StatsInLogMeaning
  <1> HIDE DEF Inv
  <1> QED
    BY TypeCorrect, ScoreCorrect, <1>1, <1>2, <1>3, PTL DEF Spec

-----------------------------------------------------------------------------
(* The round being played *)

\* Where no round stats are kept, none need be backed.
LEMMA ZeroIsBacked ==
    ASSUME TypeOK', ResetRound, NEW n
    PROVE  RoundBacked(n)'
  <1>1. \A kind : Cardinality(Where(m_RoundEvent', kind)) \in Nat
    BY WhereFinite DEF TypeOK, LogTypes
  <1>2. \A p \in Players : /\ Round'[p].Frags = 0 /\ ~Round'[p].BombDefused
                           /\ ~Round'[p].BombExploded
    BY DEF ResetRound, ZeroRound
  <1> QED
    BY <1>1, <1>2 DEF RoundBacked, Times

LEMMA RoundGoesOn ==
    ASSUME TypeOK, TypeOK', GoesOn, Recording, RoundBacked(m_Match.Rounds + 1)
    PROVE  RoundBacked(m_Match.Rounds + 1)'
  <1>1. PICK news : Logs(news) /\ CountsWhatItLogs(news)
    BY DEF GoesOn
  <1>2. PICK n \in Nat : n = m_Match.Rounds + 1
    BY DEF TypeOK, LogTypes, MatchType
  <1>3. n = m_Match'.Rounds + 1
    BY <1>2 DEF GoesOn
  <1>4. ASSUME NEW p \in Players, NEW c
        PROVE  /\ Times(Fresh(c, p, n)) \in Nat
               /\ Times(Fresh(c, p, n))' = Times(Fresh(c, p, n))
                    + (IF Seen(news, Evidence(c, p)) THEN 1 ELSE 0)
    <2>1. Seen(news, Fresh(c, p, n)) <=> Seen(news, Evidence(c, p))
      BY <1>1, <1>2 DEF Logs, Seen, Fresh
    <2> QED
      BY <1>1, <2>1, TimesGrow
  <1>5. RoundBacked(n)
    BY <1>2
  <1>6. ASSUME NEW p \in Players
        PROVE  /\ Round'[p].Frags <= Times(Fresh("Frags", p, n))'
               /\ Round'[p].BombDefused => Times(Fresh("BombDefused", p, n))' > 0
               /\ Round'[p].BombExploded => Times(Fresh("BombExploded", p, n))' > 0
    <2>1. Round[p].Frags \in Nat /\ Round'[p].Frags \in Nat
      BY DEF TypeOK, CounterTypes, RoundStats
    <2>2. Round'[p].Frags <= Times(Fresh("Frags", p, n))'
      BY <1>1, <1>4, <1>5, <2>1 DEF CountsWhatItLogs, RoundBacked
    <2>3. Round'[p].BombDefused => Times(Fresh("BombDefused", p, n))' > 0
      BY <1>1, <1>4, <1>5 DEF CountsWhatItLogs, RoundBacked
    <2>4. Round'[p].BombExploded => Times(Fresh("BombExploded", p, n))' > 0
      BY <1>1, <1>4, <1>5 DEF CountsWhatItLogs, RoundBacked
    <2> QED
      BY <2>2, <2>3, <2>4
  <1> QED
    BY <1>3, <1>6 DEF RoundBacked

\* While a round is live its round stats speak of this round: every kill of the
\* streak and the bomb's two flags are in the log under its number.
THEOREM LogBacksRound == Spec => []RoundInLog
  <1> DEFINE Inv == Recording /\ round = "live" => RoundBacked(m_Match.Rounds + 1)
  <1>1. Init => Inv
    BY DEF Init
  <1>2. TypeOK /\ TypeOK' /\ ScoreIsRounds /\ Inv /\ [Next]_vars => Inv'
    <2> SUFFICES ASSUME TypeOK, TypeOK', ScoreIsRounds, Inv, [Next]_vars,
                        Recording', round' = "live"
                 PROVE  RoundBacked(m_Match.Rounds + 1)'
      OBVIOUS
    <2>1. CASE GoesOn
      <3>1. Recording /\ round = "live"
        BY <2>1 DEF GoesOn, Recording
      <3> QED
        BY <2>1, <3>1, RoundGoesOn
    <2>2. CASE ResetRound
      <3>1. PICK n : n = m_Match'.Rounds + 1
        OBVIOUS
      <3>2. RoundBacked(n)'
        BY <2>2, ZeroIsBacked
      <3> QED
        BY <3>1, <3>2
    <2>3. CASE RoundFreezeEnd
      BY <2>2, <2>3 DEF RoundFreezeEnd, cvarVars, Recording
    <2>4. ASSUME \E complete \in BOOLEAN : RoundRestart(complete) PROVE FALSE
      BY <2>4 DEF RoundRestart
    <2>5. ASSUME \E w \in Sides \cup {0} : RoundEnd(w) PROVE FALSE
      BY <2>5 DEF RoundEnd
    <2> QED
      BY <2>1, <2>2, <2>3, <2>4, <2>5, StepCounts
  <1>3. TypeOK /\ Inv => RoundInLog
    BY RoundInLogMeaning
  <1> HIDE DEF Inv
  <1> QED
    BY TypeCorrect, ScoreCorrect, <1>1, <1>2, <1>3, PTL DEF Spec
=============================================================================
