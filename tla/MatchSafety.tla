------------------------------ MODULE MatchSafety ------------------------------
(***************************************************************************)
(* Proofs that the recorder keeps its score, its event log and its records  *)
(* in agreement, for any set of players, any settings and any bounds.       *)
(***************************************************************************)
EXTENDS MatchProofs, SequenceTheorems

(* What a step can do to the score, the log and the keys of the records *)

Kept == m_Player \subseteq m_Player'

\* Nothing is logged.
Quiet == Kept /\ UNCHANGED matchVars

\* Halftime.
Swapped == Kept /\ m_Match' = SwapScores(m_Match) /\ UNCHANGED m_RoundEvent

\* Another match.
Emptied == m_Match' = ZeroMatch /\ m_RoundEvent' = << >>

\* An event during a round, of players who have records.
Logged ==
    /\ Kept /\ UNCHANGED m_Match
    /\ \E type \in EventTypes \ WinEvents : \E k, v \in m_Player' \cup {NoPlayer} :
          m_RoundEvent' = OnEvent(type, k, v)

\* The end of a round.
Ended == Recording /\ m_State' = m_State /\ \E w \in Sides : RecordRound(w)

LEMMA SettingsEffect ==
    ASSUME NEW v, Cvar_DirectSet(v)
    PROVE  Quiet \/ Swapped \/ Emptied
  <1>1. CASE SetDead \/ SetWarmup \/ SetStart \/ SetFirstHalf
    BY <1>1 DEF SetDead, SetWarmup, SetStart, SetFirstHalf, ClearMatch, Emptied
  <1>2. CASE SetHalftime
    BY <1>2 DEF SetHalftime, Swapped, Kept, recordVars
  <1>3. CASE SetSecondHalf \/ SetOvertime \/ SetEnd \/ SetOther
    BY <1>3 DEF SetSecondHalf, SetOvertime, SetEnd, SetOther, Quiet, Kept, recordVars
  <1> QED
    BY <1>1, <1>2, <1>3 DEF Cvar_DirectSet

LEMMA PlayerEffect ==
    ASSUME NEW p \in Players, PlayerStep(p)
    PROVE  Quiet
  BY DEF PlayerStep, PlayerGetIntoGame, PlayerSwitchTeam, PlayerDisconnect,
         PlayerSetAnimation, PlayerAddAccount, PlayerMakeBomber, PlayerDropItem,
         PlayerSayText, Counted, Count, Quiet, Kept

LEMMA CombatEffect ==
    ASSUME NEW v \in Players, CombatStep(v)
    PROVE  Quiet \/ Logged
  <1>1. ASSUME NEW k \in Players, NEW d \in Damages,
               PlayerDamage_Hit(v, k, d) \/ PlayerDamage_Lethal(v, k, d)
        PROVE  Quiet
    BY <1>1 DEF PlayerDamage_Hit, PlayerDamage_Lethal, RecordHit, Quiet, Kept, matchVars
  <1>2. ASSUME NEW k \in Players, PlayerKilled(v, k) PROVE Logged
    <2>1. {v, k} \subseteq m_Player' /\ Kept
      BY <1>2 DEF PlayerKilled, RecordFrag, RecordSuicide, Count, Kept
    <2>2. EVENT_PLAYER_DIED \in EventTypes \ WinEvents
      BY DEF EventTypes, WinEvents, EVENT_PLAYER_DIED, EVENT_TERRORISTS_WIN, EVENT_CTS_WIN
    <2>3. UNCHANGED m_Match /\ m_RoundEvent' = OnEvent(EVENT_PLAYER_DIED, k, v)
      BY <1>2 DEF PlayerKilled
    <2> QED
      BY <2>1, <2>2, <2>3 DEF Logged
  <1>3. ASSUME PlayerKilled_Ignored(v) PROVE Quiet
    BY <1>3 DEF PlayerKilled_Ignored, Quiet, Kept, recordVars
  <1> QED
    BY <1>1, <1>2, <1>3 DEF CombatStep

LEMMA RoundEffect ==
    ASSUME RoundStep
    PROVE  Quiet \/ Ended
  <1>1. ASSUME NEW complete \in BOOLEAN, RoundRestart(complete) PROVE Quiet
    BY <1>1 DEF RoundRestart, Quiet, Kept, recordVars
  <1>2. ASSUME RoundFreezeEnd PROVE Quiet
    BY <1>2 DEF RoundFreezeEnd, Quiet, Kept, recordVars
  <1>3. ASSUME NEW w \in Sides \cup {0}, RoundEnd(w) PROVE Quiet \/ Ended
    <2>1. m_State' = m_State
      BY <1>3 DEF RoundEnd, cvarVars
    <2> QED
      BY <1>3, <2>1 DEF RoundEnd, Quiet, Kept, Ended
  <1> QED
    BY <1>1, <1>2, <1>3 DEF RoundStep

LEMMA BombEffect ==
    ASSUME BombStep, TypeOK
    PROVE  Quiet \/ Logged
  <1>1. {EVENT_BOMB_PLANTED, EVENT_BOMB_DEFUSED, EVENT_BOMB_EXPLODED}
           \subseteq EventTypes \ WinEvents
    BY DEF EventTypes, WinEvents, EVENT_BOMB_PLANTED, EVENT_BOMB_DEFUSED,
           EVENT_BOMB_EXPLODED, EVENT_TERRORISTS_WIN, EVENT_CTS_WIN
  <1>2. ASSUME NEW p \in Players, PlantBomb(p) PROVE Quiet \/ Logged
    BY <1>1, <1>2 DEF PlantBomb, Quiet, Logged, Kept, matchVars
  <1>3. ASSUME NEW p \in Players, DefuseBombStart(p) PROVE Quiet
    BY <1>3 DEF DefuseBombStart, Counted, Count, Quiet, Kept
  <1>4. ASSUME NEW p \in Players, DefuseBombEnd(p) PROVE Quiet \/ Logged
    BY <1>1, <1>4 DEF DefuseBombEnd, Count, Quiet, Logged, Kept, matchVars
  <1>5. ASSUME ExplodeBomb PROVE Quiet \/ Logged
    BY <1>1, <1>5 DEF ExplodeBomb, Count, Quiet, Logged, Kept, matchVars
  <1> QED
    BY <1>2, <1>3, <1>4, <1>5 DEF BombStep

LEMMA StepEffect ==
    ASSUME TypeOK, [Next]_vars
    PROVE  Quiet \/ Swapped \/ Emptied \/ Logged \/ Ended
  <1>1. CASE UNCHANGED vars
    BY <1>1 DEF vars, recordVars, Quiet, Kept
  <1>2. CASE ServerActivate
    BY <1>2 DEF ServerActivate, recordVars, Quiet, Kept
  <1>3. CASE ExecSettings \/ \E v \in CvarValues : SetState(v)
    BY <1>3, SettingsEffect DEF ExecSettings, SetState
  <1> QED
    BY <1>1, <1>2, <1>3, PlayerEffect, CombatEffect, RoundEffect, BombEffect DEF Next

-----------------------------------------------------------------------------
(* Score, log and records *)

\* The score of a round won: one more, on one side.
LEMMA RoundScore ==
    ASSUME TypeOK, NEW w \in Sides, RecordRound(w)
    PROVE  /\ m_Match'.Rounds = m_Match.Rounds + 1
           /\ m_Match'.Score[TERRORIST] + m_Match'.Score[CT]
                = m_Match.Score[TERRORIST] + m_Match.Score[CT] + 1
  <1>1. m_Match.Score \in [Sides -> Nat]
    BY DEF TypeOK, LogTypes, MatchType
  <1>2. m_Match'.Score = [m_Match.Score EXCEPT ![w] = @ + 1]
        /\ m_Match'.Rounds = m_Match.Rounds + 1
    BY DEF RecordRound
  <1> QED
    BY <1>1, <1>2 DEF Sides, TERRORIST, CT

LEMMA ScoreStep == TypeOK /\ ScoreIsRounds /\ [Next]_vars => ScoreIsRounds'
  <1> SUFFICES ASSUME TypeOK, ScoreIsRounds, [Next]_vars PROVE ScoreIsRounds'
    OBVIOUS
  <1>1. CASE UNCHANGED m_Match
    BY <1>1 DEF ScoreIsRounds
  <1>2. CASE Swapped
    <2>1. m_Match \in MatchType
      BY DEF TypeOK, LogTypes
    <2>2. /\ m_Match'.Score[TERRORIST] = m_Match.Score[CT]
          /\ m_Match'.Score[CT] = m_Match.Score[TERRORIST]
          /\ m_Match'.Rounds = m_Match.Rounds
      BY <1>2, <2>1 DEF Swapped, SwapScores, MatchType, Enemy, Sides, TERRORIST, CT
    <2>3. m_Match.Score[TERRORIST] \in Nat /\ m_Match.Score[CT] \in Nat
      BY <2>1 DEF MatchType, Sides
    <2> QED
      BY <2>2, <2>3 DEF ScoreIsRounds
  <1>3. CASE Emptied
    BY <1>3 DEF Emptied, ZeroMatch, ScoreIsRounds, Sides, TERRORIST, CT
  <1>4. CASE Ended
    BY <1>4, RoundScore DEF Ended, ScoreIsRounds
  <1> QED
    BY <1>1, <1>2, <1>3, <1>4, StepEffect DEF Quiet, Logged, matchVars

\* The two scores add up to the rounds played, whatever the order of rounds,
\* resets, halftimes and maps.
THEOREM ScoreCorrect == Spec => []ScoreIsRounds
  <1>1. Init => ScoreIsRounds
    BY DEF Init, ZeroMatch, ScoreIsRounds, Sides, TERRORIST, CT
  <1> QED
    BY TypeCorrect, ScoreStep, <1>1, PTL DEF Spec

\* Everybody the log names has a record.
THEOREM RecordsCorrect == Spec => []EventsHaveRecords
  <1>1. Init => EventsHaveRecords
    BY DEF Init, EventsHaveRecords
  <1>2. TypeOK /\ EventsHaveRecords /\ [Next]_vars => EventsHaveRecords'
    <2> SUFFICES ASSUME TypeOK, EventsHaveRecords, [Next]_vars PROVE EventsHaveRecords'
      OBVIOUS
    <2>1. m_RoundEvent \in Seq(EventType)
      BY DEF TypeOK, LogTypes
    <2>2. CASE Quiet \/ Swapped
      BY <2>2 DEF Quiet, Swapped, Kept, EventsHaveRecords, matchVars
    <2>3. CASE Emptied
      BY <2>3 DEF Emptied, EventsHaveRecords
    <2>4. ASSUME NEW e, {e.Killer, e.Victim} \subseteq m_Player' \cup {NoPlayer},
                 Kept, m_RoundEvent' = Append(m_RoundEvent, e)
          PROVE  EventsHaveRecords'
      <3>1. ASSUME NEW i \in DOMAIN m_RoundEvent'
            PROVE  \/ i \in DOMAIN m_RoundEvent /\ m_RoundEvent'[i] = m_RoundEvent[i]
                   \/ m_RoundEvent'[i] = e
        BY <2>1, <2>4, <3>1
      <3> QED
        BY <2>4, <3>1 DEF EventsHaveRecords, Kept
    <2>5. CASE Logged
      BY <2>4, <2>5 DEF Logged, OnEvent
    <2>6. CASE Ended
      BY <2>4, <2>6 DEF Ended, RecordRound, OnEvent, Kept
    <2> QED
      BY <2>2, <2>3, <2>5, <2>6, StepEffect
  <1> QED
    BY TypeCorrect, <1>1, <1>2, PTL DEF Spec

\* The recorder acts on the value of the cvar, except between the start of a map
\* and the execution of its settings.
THEOREM StateCorrect == Spec => []StateFollowsCvar
  <1>1. Init => StateFollowsCvar
    BY DEF Init, StateFollowsCvar
  <1>2. StateFollowsCvar /\ [Next]_vars => StateFollowsCvar'
    <2> SUFFICES ASSUME StateFollowsCvar, [Next]_vars PROVE StateFollowsCvar'
      OBVIOUS
    <2>1. ASSUME NEW v, Cvar_DirectSet(v) PROVE StateFollowsCvar'
      BY <2>1 DEF Cvar_DirectSet, StateFollowsCvar
    <2>2. CASE ServerActivate
      BY <2>2 DEF ServerActivate, StateFollowsCvar
    <2>3. CASE ExecSettings \/ \E v \in CvarValues : SetState(v)
      BY <2>1, <2>3 DEF ExecSettings, SetState
    <2>4. CASE UNCHANGED cvarVars
      BY <2>4 DEF cvarVars, StateFollowsCvar
    <2>5. ASSUME NEW p \in Players, PlayerStep(p) PROVE UNCHANGED cvarVars
      BY <2>5 DEF PlayerStep, PlayerGetIntoGame, PlayerSwitchTeam, PlayerDisconnect,
                  PlayerSetAnimation, PlayerAddAccount, PlayerMakeBomber,
                  PlayerDropItem, PlayerSayText, Counted
    <2>6. ASSUME NEW p \in Players, CombatStep(p) PROVE UNCHANGED cvarVars
      BY <2>6 DEF CombatStep, PlayerDamage_Hit, PlayerDamage_Lethal, PlayerKilled,
                  PlayerKilled_Ignored
    <2>7. CASE RoundStep
      BY <2>4, <2>7 DEF RoundStep, RoundRestart, RoundFreezeEnd, RoundEnd
    <2>8. CASE BombStep
      BY <2>4, <2>8 DEF BombStep, PlantBomb, DefuseBombStart, Counted, DefuseBombEnd,
                        ExplodeBomb
    <2> QED
      BY <2>2, <2>3, <2>4, <2>5, <2>6, <2>7, <2>8 DEF Next, vars
  <1> QED
    BY <1>1, <1>2, PTL DEF Spec

-----------------------------------------------------------------------------
(* The chronicle *)

\* OnEvent numbers an event with the round being played.
LEMMA EventNumber ==
    ASSUME TypeOK, ScoreIsRounds, NEW type, NEW k, NEW v
    PROVE  OnEvent(type, k, v) =
              Append(m_RoundEvent, [Round |-> m_Match.Rounds + 1, Type |-> type,
                                    Killer |-> k, Victim |-> v])
  BY DEF OnEvent, ScoreIsRounds

\* An event of the round being played continues the chronicle; a win ends the
\* round.
LEMMA ChronicleGrows ==
    ASSUME TypeOK, LogIsChronicle, NEW e, NEW rounds,
           e.Round = m_Match.Rounds + 1,
           rounds = m_Match.Rounds + (IF IsWin(e) THEN 1 ELSE 0),
           m_Match'.Rounds = rounds, m_RoundEvent' = Append(m_RoundEvent, e)
    PROVE  LogIsChronicle'
  <1> DEFINE log == m_RoundEvent
             n == Len(m_RoundEvent)
  <1>1. /\ m_Match.Rounds \in Nat /\ n \in Nat
        /\ DOMAIN log = 1 .. n /\ DOMAIN log' = 1 .. n + 1
        /\ \A i \in 1 .. n : log'[i] = log[i] /\ log[i].Round \in Nat
        /\ log'[n + 1] = e
    <2>1. m_Match.Rounds \in Nat /\ log \in Seq(EventType)
      BY DEF TypeOK, LogTypes, MatchType
    <2>2. n \in Nat /\ DOMAIN log = 1 .. n
      BY <2>1
    <2>3. Len(log') = n + 1 /\ DOMAIN log' = 1 .. Len(log')
      BY <2>1
    <2>4. \A i \in 1 .. n : log'[i] = log[i]
      BY <2>1, <2>2
    <2>5. log'[n + 1] = e
      BY <2>1
    <2>6. \A i \in 1 .. n : log[i] \in EventType
      BY <2>1, <2>2
    <2> QED
      BY <2>1, <2>2, <2>3, <2>4, <2>5, <2>6 DEF EventType
  <1>2. rounds \in Nat /\ rounds >= m_Match.Rounds /\ rounds + 1 >= e.Round
    BY <1>1
  <1>3. \A i \in 1 .. n :
           /\ log[i].Round \in 1 .. m_Match.Rounds + 1
           /\ IsWin(log[i]) => log[i].Round <= m_Match.Rounds
    BY <1>1 DEF LogIsChronicle
  <1>4. ASSUME NEW i \in DOMAIN log'
        PROVE  log'[i].Round \in 1 .. rounds + (IF IsWin(log'[i]) THEN 0 ELSE 1)
    <2>1. CASE i = n + 1
      BY <1>1, <2>1
    <2>2. CASE i \in 1 .. n
      <3>1. log'[i] = log[i] /\ log[i].Round \in Nat
        BY <1>1, <2>2
      <3>2. CASE IsWin(log[i])
        BY <1>1, <1>2, <1>3, <2>2, <3>1, <3>2
      <3>3. CASE ~IsWin(log[i])
        BY <1>1, <1>2, <1>3, <2>2, <3>1, <3>3
      <3> QED
        BY <3>2, <3>3
    <2> QED
      BY <1>1, <2>1, <2>2
  <1>5. ASSUME NEW i \in DOMAIN log', NEW j \in DOMAIN log', i < j
        PROVE  /\ log'[i].Round <= log'[j].Round
               /\ IsWin(log'[i]) => log'[i].Round < log'[j].Round
    <2>1. CASE j = n + 1
      BY <1>1, <1>3, <1>5, <2>1
    <2>2. CASE j \in 1 .. n
      <3>1. i \in 1 .. n
        BY <1>1, <1>5, <2>2
      <3> QED
        BY <1>1, <1>5, <2>2, <3>1 DEF LogIsChronicle
    <2> QED
      BY <1>1, <2>1, <2>2
  <1>6. ASSUME NEW r \in 1 .. rounds
        PROVE  \E i \in DOMAIN log' : IsWin(log'[i]) /\ log'[i].Round = r
    <2>1. CASE r \in 1 .. m_Match.Rounds
      <3>1. PICK i \in DOMAIN log : IsWin(log[i]) /\ log[i].Round = r
        BY <2>1 DEF LogIsChronicle
      <3> QED
        BY <1>1, <3>1
    <2>2. CASE r = m_Match.Rounds + 1
      <3>1. IsWin(e)
        BY <1>1, <2>2
      <3> QED
        BY <1>1, <2>2, <3>1
    <2> QED
      BY <1>1, <2>1, <2>2
  <1> QED
    BY <1>4, <1>5, <1>6 DEF LogIsChronicle, IsWin

LEMMA ChronicleStep ==
    TypeOK /\ ScoreIsRounds /\ LogIsChronicle /\ [Next]_vars => LogIsChronicle'
  <1> SUFFICES ASSUME TypeOK, ScoreIsRounds, LogIsChronicle, [Next]_vars
               PROVE  LogIsChronicle'
    OBVIOUS
  <1>1. CASE Quiet
    BY <1>1 DEF Quiet, matchVars, LogIsChronicle, IsWin
  <1>2. CASE Swapped
    <2>1. m_Match'.Rounds = m_Match.Rounds /\ m_RoundEvent' = m_RoundEvent
      BY <1>2 DEF Swapped, SwapScores, TypeOK, LogTypes, MatchType
    <2> QED
      BY <2>1 DEF LogIsChronicle, IsWin
  <1>3. CASE Emptied
    BY <1>3 DEF Emptied, ZeroMatch, LogIsChronicle
  <1>4. CASE Logged
    <2>1. PICK type \in EventTypes \ WinEvents,
                k \in m_Player' \cup {NoPlayer}, v \in m_Player' \cup {NoPlayer} :
             m_RoundEvent' = OnEvent(type, k, v)
      BY <1>4 DEF Logged
    <2> DEFINE e == [Round |-> m_Match.Rounds + 1, Type |-> type,
                     Killer |-> k, Victim |-> v]
    <2>2. m_RoundEvent' = Append(m_RoundEvent, e)
      BY <2>1, EventNumber
    <2>3. e.Round = m_Match.Rounds + 1 /\ ~IsWin(e)
      BY <2>1 DEF IsWin
    <2>4. m_Match'.Rounds = m_Match.Rounds + (IF IsWin(e) THEN 1 ELSE 0)
      BY <1>4, <2>3 DEF Logged, TypeOK, LogTypes, MatchType
    <2> HIDE DEF e
    <2> QED
      BY <2>2, <2>3, <2>4, ChronicleGrows
  <1>5. CASE Ended
    <2>1. PICK w \in Sides : RecordRound(w)
      BY <1>5 DEF Ended
    <2> DEFINE type == IF w = TERRORIST THEN EVENT_TERRORISTS_WIN ELSE EVENT_CTS_WIN
               e == [Round |-> m_Match.Rounds + 1, Type |-> type,
                     Killer |-> NoPlayer, Victim |-> NoPlayer]
    <2>2. m_RoundEvent' = Append(m_RoundEvent, e)
      BY <2>1, EventNumber DEF RecordRound
    <2>3. e.Round = m_Match.Rounds + 1 /\ IsWin(e)
      BY DEF IsWin, WinEvents
    <2>4. m_Match'.Rounds = m_Match.Rounds + (IF IsWin(e) THEN 1 ELSE 0)
      BY <2>1, <2>3, RoundScore
    <2> HIDE DEF e
    <2> QED
      BY <2>2, <2>3, <2>4, ChronicleGrows
  <1> QED
    BY <1>1, <1>2, <1>3, <1>4, <1>5, StepEffect

\* The event log is a chronicle of the rounds of the match, although OnEvent
\* numbers events from two scores that halftime exchanges.
THEOREM LogCorrect == Spec => []LogIsChronicle
  <1>1. Init => LogIsChronicle
    BY DEF Init, ZeroMatch, LogIsChronicle
  <1> QED
    BY TypeCorrect, ScoreCorrect, ChronicleStep, <1>1, PTL DEF Spec

\* The log only grows, or is emptied together with the score.
THEOREM LogOnlyGrows == Spec => LogGrows
  <1> DEFINE Grows ==
        \/ \E n \in 0 .. Len(m_RoundEvent') :
              m_RoundEvent = SubSeq(m_RoundEvent', 1, n)
        \/ m_RoundEvent' = << >> /\ m_Match' = ZeroMatch
  <1>1. TypeOK /\ [Next]_vars => Grows
    <2> SUFFICES ASSUME TypeOK, [Next]_vars PROVE Grows
      OBVIOUS
    <2>1. m_RoundEvent \in Seq(EventType)
      BY DEF TypeOK, LogTypes
    <2>2. CASE UNCHANGED m_RoundEvent
      <3>1. Len(m_RoundEvent) \in 0 .. Len(m_RoundEvent')
        BY <2>1, <2>2
      <3>2. m_RoundEvent = SubSeq(m_RoundEvent', 1, Len(m_RoundEvent))
        BY <2>1, <2>2
      <3> QED
        BY <3>1, <3>2
    <2>3. ASSUME NEW e, m_RoundEvent' = Append(m_RoundEvent, e) PROVE Grows
      <3>1. Len(m_RoundEvent) \in 0 .. Len(m_RoundEvent')
        BY <2>1, <2>3
      <3>2. m_RoundEvent = SubSeq(m_RoundEvent', 1, Len(m_RoundEvent))
        BY <2>1, <2>3
      <3> QED
        BY <3>1, <3>2
    <2>4. CASE Emptied
      BY <2>4 DEF Emptied
    <2>5. CASE Logged
      BY <2>3, <2>5 DEF Logged, OnEvent
    <2>6. CASE Ended
      BY <2>3, <2>6 DEF Ended, RecordRound, OnEvent
    <2> QED
      BY <2>2, <2>4, <2>5, <2>6, StepEffect DEF Quiet, Swapped, matchVars
  <1>2. TypeOK /\ [Next]_vars => [Grows]_vars
    BY <1>1
  <1> QED
    BY TypeCorrect, <1>2, PTL DEF Spec, LogGrows

-----------------------------------------------------------------------------
(* The recorder implements the scoreboard, for any players, any settings and any *)
(* bounds.                                                                       *)

\* The records are cleared with the match, so a logged name is a player's.
LEMMA LoggedHappens ==
    ASSUME TypeOK, TypeOK', ScoreIsRounds, Logged
    PROVE  Board!Happens
  <1>1. PICK type \in EventTypes \ WinEvents,
              k \in m_Player' \cup {NoPlayer}, v \in m_Player' \cup {NoPlayer} :
           m_RoundEvent' = OnEvent(type, k, v)
    BY DEF Logged
  <1>2. {k, v} \subseteq Players \cup {NoPlayer}
    BY DEF TypeOK, RecordTypes
  <1>3. m_RoundEvent' = Append(m_RoundEvent, Board!Event(type, k, v))
    BY <1>1, EventNumber DEF Board!Event
  <1>4. m_Match' = m_Match
    BY DEF Logged
  <1> QED
    BY <1>1, <1>2, <1>3, <1>4 DEF Board!Happens

LEMMA EndedWins ==
    ASSUME TypeOK, ScoreIsRounds, Ended
    PROVE  \E w \in Sides : Board!RoundWon(w)
  <1>1. PICK w \in Sides : RecordRound(w)
    BY DEF Ended
  <1> DEFINE type == IF w = TERRORIST THEN EVENT_TERRORISTS_WIN ELSE EVENT_CTS_WIN
  <1>2. m_RoundEvent' = Append(m_RoundEvent, Board!Event(type, NoPlayer, NoPlayer))
    BY <1>1, EventNumber DEF RecordRound, Board!Event
  <1>3. /\ m_Match'.Score = [m_Match.Score EXCEPT ![w] = @ + 1]
        /\ m_Match'.Rounds = m_Match.Rounds + 1
    BY <1>1 DEF RecordRound
  <1> QED
    BY <1>1, <1>2, <1>3 DEF Board!RoundWon

LEMMA SwappedChanges ==
    ASSUME TypeOK, Swapped
    PROVE  Board!ChangeOver
  <1>1. m_Match \in MatchType
    BY DEF TypeOK, LogTypes
  <1>2. m_Match'.Score = [t \in Sides |-> m_Match.Score[Enemy(t)]]
        /\ m_Match'.Rounds = m_Match.Rounds
    BY <1>1 DEF Swapped, SwapScores, MatchType
  <1>3. \A t \in Sides : [u \in Sides |-> Enemy(u)][t] = Enemy(t)
    OBVIOUS
  <1> QED
    BY <1>2, <1>3 DEF Board!ChangeOver, Swapped

\* The recorder implements the scoreboard: every step is one of its steps, or none.
THEOREM ImplementsBoard == Spec => KeepsScore
  <1>1. Init => Board!BoardInit
    BY DEF Init, ZeroMatch, Board!BoardInit
  <1>2. TypeOK /\ TypeOK' /\ ScoreIsRounds /\ [Next]_vars
           => [Board!BoardNext]_Board!boardVars
    <2> SUFFICES ASSUME TypeOK, TypeOK', ScoreIsRounds, [Next]_vars
                 PROVE  Board!BoardNext \/ UNCHANGED Board!boardVars
      OBVIOUS
    <2>1. CASE Quiet
      BY <2>1 DEF Quiet, matchVars, Board!boardVars
    <2>2. CASE Swapped
      BY <2>2, SwappedChanges DEF Board!BoardNext
    <2>3. CASE Emptied
      BY <2>3 DEF Emptied, ZeroMatch, Board!NewMatch, Board!BoardNext
    <2>4. CASE Logged
      BY <2>4, LoggedHappens DEF Board!BoardNext
    <2>5. CASE Ended
      BY <2>5, EndedWins DEF Board!BoardNext
    <2> QED
      BY <2>1, <2>2, <2>3, <2>4, <2>5, StepEffect
  <1> QED
    BY <1>1, <1>2, TypeCorrect, ScoreCorrect, PTL
       DEF Spec, KeepsScore, Board!BoardSpec
=============================================================================
