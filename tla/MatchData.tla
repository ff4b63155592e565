------------------------------ MODULE MatchData ------------------------------
(***************************************************************************)
(* The values of MatchStats: teams, match states, the counters of          *)
(* S_PLAYER_STATS, and the value a structure has after its Reset().        *)
(* A player is named by the key of m_Player: the auth id GetAuthId returns.*)
(***************************************************************************)
EXTENDS Integers, Sequences, FiniteSets

CONSTANTS
    Players,        \* auth ids (distinct players have distinct ids)
    NoPlayer,       \* the empty Killer or Victim string of an event
    MaxClients      \* MAX_CLIENTS; the histogram arrays hold half of it

ASSUME PlayersAssumption ==
    /\ IsFiniteSet(Players)
    /\ NoPlayer \notin Players

ASSUME ClientsAssumption == MaxClients \in Nat \ {0}

UNASSIGNED == 0
TERRORIST  == 1
CT         == 2
SPECTATOR  == 3
Sides == {TERRORIST, CT}
Teams == {UNASSIGNED, TERRORIST, CT, SPECTATOR}

Enemy(t) == IF t = TERRORIST THEN CT ELSE TERRORIST

STATE_DEAD        == 0
STATE_WARMUP      == 1
STATE_START       == 2
STATE_FIRST_HALF  == 3
STATE_HALFTIME    == 4
STATE_SECOND_HALF == 5
STATE_OVERTIME    == 6
STATE_END         == 7

\* The states in which the handlers record: the test every handler opens with.
PlayStates == {STATE_FIRST_HALF, STATE_SECOND_HALF, STATE_OVERTIME}

\* The counters of S_PLAYER_STATS the properties tell apart; the others are
\* bumped under the same tests as one of these.
Counters == {"Frags", "Deaths", "Assists", "Suicides", "EntryFrags",
             "EntryDeaths", "Shots", "Hits", "HitsReceived", "Damage",
             "DamageReceived", "Money", "RoundPlay", "RoundWin", "RoundLose",
             "BombSpawn", "BombDrop", "BombPlanting", "BombPlanted",
             "BombExploded", "BombDefusing", "BombDefused"}

\* KillStreak and Versus, two arrays of ArraySize integers, lie one after the
\* other in S_PLAYER_STATS: cells 0 .. ArraySize-1 and the ArraySize after them.
ArraySize == MaxClients \div 2
Cells == 0 .. 2 * ArraySize - 1
KillStreakCell(n) == n
VersusCell(n) == ArraySize + n

\* Stats of every player and state after S_PLAYER_STATS::Reset().
ZeroStats == [p \in Players |-> [s \in PlayStates |-> [c \in Counters |-> 0]]]
ZeroTally == [p \in Players |-> [s \in PlayStates |-> [i \in Cells |-> 0]]]

StatsType == [Players -> [PlayStates -> [Counters -> Nat]]]
TallyType == [Players -> [PlayStates -> [Cells -> Nat]]]

\* S_ROUND_STATS but for PlayerDamage, which Reset() leaves as it is.
RoundStats == [Frags : Nat, Damage : Nat, Versus : Nat,
               BombDefused : BOOLEAN, BombExploded : BOOLEAN]
ZeroRound == [Frags |-> 0, Damage |-> 0, Versus |-> 0,
              BombDefused |-> FALSE, BombExploded |-> FALSE]

NoDamage == [p \in Players |-> [q \in Players |-> 0]]

\* S_MATCH_STATS: the score by side, the leader and the rounds played.
MatchType == [Score : [Sides -> Nat], Winner : {0, 1, 2}, Rounds : Nat]
ZeroMatch == [Score |-> [t \in Sides |-> 0], Winner |-> 0, Rounds |-> 0]

\* As a swap that forgets to keep the first score aside.
SwapScores_Overwrite(m) ==
    [m EXCEPT !.Score = [t \in Sides |-> m.Score[CT]]]

SwapScores(m) == [m EXCEPT !.Score = [t \in Sides |-> m.Score[Enemy(t)]]]

\* As a leader left as the difference of the scores.
WhoLeads_Difference(score) == score[TERRORIST] - score[CT]

\* The leader RoundEnd computes: 0 on a draw.
WhoLeads(score) ==
    IF score[TERRORIST] = score[CT] THEN 0
    ELSE IF score[TERRORIST] > score[CT] THEN TERRORIST ELSE CT

EVENT_PLAYER_DIED    == "DIED"
EVENT_BOMB_PLANTED   == "PLANTED"
EVENT_BOMB_DEFUSED   == "DEFUSED"
EVENT_BOMB_EXPLODED  == "EXPLODED"
EVENT_TERRORISTS_WIN == "TERRORISTS_WIN"
EVENT_CTS_WIN        == "CTS_WIN"
WinEvents == {EVENT_TERRORISTS_WIN, EVENT_CTS_WIN}
EventTypes == WinEvents \cup {EVENT_PLAYER_DIED, EVENT_BOMB_PLANTED,
                              EVENT_BOMB_DEFUSED, EVENT_BOMB_EXPLODED}

EventType == [Round : Nat, Type : EventTypes,
              Killer : Players \cup {NoPlayer}, Victim : Players \cup {NoPlayer}]

\* The sum ExportData takes over the states in which the handlers record.
Total(stats, p, c) == stats[p][STATE_FIRST_HALF][c]
                    + stats[p][STATE_SECOND_HALF][c]
                    + stats[p][STATE_OVERTIME][c]
=============================================================================
