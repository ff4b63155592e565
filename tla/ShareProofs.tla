----------------------------- MODULE ShareProofs -----------------------------
(***************************************************************************)
(* Proofs about RoundWinShare: what the end of a round pays, to whom, and   *)
(* for which damage. For any players, points and fractions of a point.      *)
(***************************************************************************)
EXTENDS TotalProofs, RoundShare

(* Round shares: products and quotients *)

LEMMA TimesMore ==
    ASSUME NEW a \in Int, NEW b \in Int, NEW c \in Nat, a <= b
    PROVE  c * a <= c * b
  OBVIOUS

LEMMA Quotient ==
    ASSUME NEW x \in Int, NEW d \in Nat, d > 0
    PROVE  x \div d \in Int /\ d * (x \div d) <= x /\ x < d * (x \div d) + d
  OBVIOUS

\* The share of who dealt a of d in points k: no more of them than there are, also
\* when bonuses have made them negative.
LEMMA PartOf ==
    ASSUME NEW a \in Nat, NEW d \in Nat, a > 0, a <= d, NEW k \in Int
    PROVE  /\ (a * k) \div d \in Int
           /\ k >= 0 => 0 <= (a * k) \div d /\ (a * k) \div d <= k
           /\ k < 0 => k <= (a * k) \div d /\ (a * k) \div d <= 0
  <1> DEFINE q == (a * k) \div d
  <1>1. a * k \in Int /\ d > 0
    OBVIOUS
  <1>2. q \in Int /\ d * q <= a * k /\ a * k < d * q + d
    BY <1>1, Quotient
  <1> HIDE DEF q
  <1>3. CASE k >= 0
    <2>1. a * k >= 0 /\ a * k <= d * k
      BY <1>3
    <2>2. q >= 0
      BY <1>1, <1>2, <2>1
    <2>3. q <= k
      <3>1. d * q <= d * k
        BY <1>1, <1>2, <2>1
      <3> QED
        BY <1>1, <1>2, <3>1
    <2> QED
      BY <1>2, <1>3, <2>2, <2>3 DEF q
  <1>4. CASE k < 0
    <2>1. a * k <= 0 /\ d * k <= a * k
      BY <1>4
    <2>2. q <= 0
      BY <1>1, <1>2, <2>1
    <2>3. k <= q
      BY <1>1, <1>2, <2>1
    <2> QED
      BY <1>2, <1>4, <2>2, <2>3 DEF q
  <1> QED
    BY <1>3, <1>4

-----------------------------------------------------------------------------
(* Round shares: what a round pays *)

\* The most a round is worth, and the bonuses a player can have earned.
Most == IF TotalPoints > 100 THEN TotalPoints ELSE 100

LEMMA BonusType ==
    ASSUME NEW p \in Players
    PROVE  Bonus(p) \in Nat /\ Bonus(p) <= DefusedPoints + ExplodePoints
  BY ShareAssumption DEF ShareAssumption, Bonus

\* Who won a round has no more of the damage than the side.
LEMMA PartOfDamage ==
    ASSUME TypeOK, NEW w, NEW p \in OnTeam(w)
    PROVE  /\ Round[p].Damage \in Nat /\ TeamRoundDamage(w) \in Nat
           /\ Round[p].Damage <= TeamRoundDamage(w)
  <1> DEFINE D == OnTeam(w)
             f == [q \in D |-> Round[q].Damage]
  <1>1. IsFiniteSet(D)
    BY PlayersAssumption, FS_Subset DEF OnTeam, PlayersAssumption
  <1>2. \A q \in D : Round[q].Damage \in Nat
    BY DEF TypeOK, CounterTypes, RoundStats, OnTeam
  <1>3. f \in [D -> Nat]
    BY <1>2
  <1>4. f[p] = Round[p].Damage /\ TeamRoundDamage(w) = SumOver(f)
    BY DEF TeamRoundDamage
  <1> HIDE DEF f, D
  <1>5. p \in D
    BY DEF D
  <1>6. SumOver(f) \in Nat /\ f[p] <= SumOver(f)
    BY <1>1, <1>3, <1>5, TotalGrows, TermOfTotal
  <1> QED
    BY <1>2, <1>4, <1>5, <1>6

LEMMA PaidWithin ==
    ASSUME TypeOK, DefusedPoints + ExplodePoints <= Most, NEW w, NEW p \in OnTeam(w)
    PROVE  /\ Paid(p, w) \in Nat /\ Paid(p, w) <= Unit * Most
           /\ Round[p].Damage = 0 => Paid(p, w) = Unit * Bonus(p)
  <1> DEFINE a == Round[p].Damage
             d == TeamRoundDamage(w)
             points == IF BombDecides THEN TotalPoints - Bonus(p) ELSE 100
  <1>1. a \in Nat /\ d \in Nat /\ a <= d
    BY PartOfDamage
  <1>2. Bonus(p) \in Nat /\ Bonus(p) <= Most /\ Most \in Nat /\ Unit \in Nat
    <2>1. p \in Players
      BY DEF OnTeam
    <2> QED
      BY <2>1, BonusType, ShareAssumption DEF ShareAssumption, Most
  <1>3. points \in Int /\ Bonus(p) + points >= 0 /\ Bonus(p) + points <= Most
    BY <1>2, ShareAssumption DEF ShareAssumption, Most, Bonus
  <1>4. Paid(p, w) = Unit * Bonus(p) + (IF a > 0 THEN (a * points * Unit) \div d ELSE 0)
    BY DEF Paid
  <1> HIDE DEF points, a, d
  <1> DEFINE b == Bonus(p)
             k == points * Unit
  <1>5. /\ k \in Int /\ a * points * Unit = a * k
        /\ k >= 0 <=> (points >= 0 \/ Unit = 0)
    BY <1>1, <1>2, <1>3
  <1>6. /\ Unit * b \in Nat /\ Unit * b <= Unit * Most
        /\ Unit * b + k = Unit * (b + points)
        /\ Unit * b + k >= 0 /\ Unit * b + k <= Unit * Most
        /\ Unit * Most \in Nat
    <2>1. Unit * b + k = Unit * (b + points)
      BY <1>2, <1>3
    <2>2. Unit * b <= Unit * Most
      BY <1>2, TimesMore
    <2>3. Unit * (b + points) >= Unit * 0 /\ Unit * (b + points) <= Unit * Most
      <3>1. b + points \in Int /\ 0 <= b + points /\ b + points <= Most
        BY <1>2, <1>3
      <3> QED
        BY <1>2, <3>1, TimesMore
    <2> QED
      BY <1>2, <1>5, <2>1, <2>2, <2>3
  <1>7. CASE a = 0
    BY <1>4, <1>6, <1>7 DEF a
  <1>8. CASE a > 0
    <2> DEFINE q == (a * k) \div d
    <2> HIDE DEF k
    <2>1. /\ q \in Int
          /\ k >= 0 => 0 <= q /\ q <= k
          /\ k < 0 => k <= q /\ q <= 0
      BY <1>1, <1>5, <1>8, PartOf
    <2>2. Paid(p, w) = Unit * b + q
      BY <1>4, <1>5, <1>8
    <2> HIDE DEF q, b
    <2>3. Paid(p, w) \in Nat /\ Paid(p, w) <= Unit * Most
      BY <1>5, <1>6, <2>1, <2>2
    <2> QED
      BY <1>8, <2>3 DEF a
  <1> QED
    BY <1>1, <1>7, <1>8

\* Only the handler that records a round makes one more of them, for one side.
LEMMA WonIsRecorded ==
    ASSUME TypeOK, [Next]_vars, NEW w \in Sides, RoundWonBy(w)
    PROVE  Recording /\ RecordRound(w)
  <1>1. m_Match \in MatchType /\ m_Match.Rounds \in Nat /\ m_Match.Score \in [Sides -> Nat]
    BY DEF TypeOK, LogTypes, MatchType
  <1>2. m_Match'.Rounds = m_Match.Rounds + 1 /\ m_Match'.Score[w] = m_Match.Score[w] + 1
    BY DEF RoundWonBy
  <1>3. ~ (UNCHANGED m_Match)
    BY <1>1, <1>2
  <1>4. ~ Swapped /\ ~ Emptied
    <2>1. SwapScores(m_Match).Rounds = m_Match.Rounds
      BY <1>1 DEF SwapScores, MatchType
    <2>2. ZeroMatch.Rounds = 0
      BY DEF ZeroMatch
    <2> QED
      BY <1>1, <1>2, <2>1, <2>2 DEF Swapped, Emptied
  <1>5. Ended
    BY <1>3, <1>4, StepEffect DEF Quiet, Logged, matchVars
  <1>6. PICK v \in Sides : RecordRound(v)
    BY <1>5 DEF Ended
  <1>7. m_Match'.Score = [m_Match.Score EXCEPT ![v] = @ + 1]
    BY <1>6 DEF RecordRound
  <1>8. v = w
    BY <1>1, <1>2, <1>7
  <1> QED
    BY <1>5, <1>6, <1>8 DEF Ended

LEMMA RecordedIsWon ==
    ASSUME TypeOK, NEW w \in Sides, RecordRound(w)
    PROVE  RoundWonBy(w)
  <1>1. m_Match.Score \in [Sides -> Nat]
    BY DEF TypeOK, LogTypes, MatchType
  <1> QED
    BY <1>1 DEF RecordRound, RoundWonBy

\* What a step does to one player's share of one half.
ShareKept(p, s) == GrowsAt(p, s) /\ RoundWinShare'[p][s] \in {0, RoundWinShare[p][s]}
ShareCleared(p, s) == ClearedAt(p, s) /\ RoundWinShare'[p][s] = 0
SharePaid(p, s, w) ==
    /\ s = m_State /\ Recording /\ RecordRound(w)
    /\ RoundWinShare'[p][s]
          = RoundWinShare[p][s] + (IF p \in OnTeam(w) THEN Paid(p, w) ELSE 0)

LEMMA ShareStepAt ==
    ASSUME TypeOK, [Next]_vars, Share, NEW p \in Players, NEW s \in PlayStates,
           RoundWinShare[p][s] \in Int
    PROVE  ShareKept(p, s) \/ ShareCleared(p, s) \/ \E w \in Sides : SharePaid(p, s, w)
  <1>1. ASSUME NEW w \in Sides, RoundWonBy(w),
               RoundWinShare' = [q \in Players |-> [h \in PlayStates |->
                  RoundWinShare[q][h]
                  + (IF h = m_State /\ q \in OnTeam(w) THEN Paid(q, w) ELSE 0)]]
        PROVE  ShareKept(p, s) \/ SharePaid(p, s, w)
    <2>1. Recording /\ RecordRound(w)
      BY <1>1, WonIsRecorded
    <2>2. RoundWinShare'[p][s]
             = RoundWinShare[p][s]
               + (IF s = m_State /\ p \in OnTeam(w) THEN Paid(p, w) ELSE 0)
      BY <1>1
    <2>3. CASE s = m_State
      BY <2>1, <2>2, <2>3 DEF SharePaid
    <2>4. CASE s # m_State
      <3>1. Stats[p][s] \in [Counters -> Nat]
        BY DEF TypeOK, CounterTypes, StatsType
      <3>2. GrowsAt(p, s)
        BY <2>1, <2>4, <3>1, EndedHalf DEF GrowsAt
      <3> QED
        BY <2>2, <2>4, <3>2 DEF ShareKept
    <2> QED
      BY <2>3, <2>4
  <1>2. ASSUME \A w \in Sides : ~RoundWonBy(w),
               RoundWinShare' = [q \in Players |-> [h \in PlayStates |-> ShareAfter(q, h)]]
        PROVE  ShareKept(p, s) \/ ShareCleared(p, s)
    <2>1. RoundWinShare'[p][s] = ShareAfter(p, s)
      BY <1>2
    <2>2. ~ RoundEndsAt(s)
      BY <1>2, RecordedIsWon DEF RoundEndsAt
    <2>3. CASE GrowsAt(p, s)
      BY <2>1, <2>3 DEF ShareAfter, ShareKept
    <2>4. CASE ClearedAt(p, s)
      BY <2>1, <2>4 DEF ShareAfter, ShareCleared, ClearedAt
    <2> QED
      BY <2>2, <2>3, <2>4, StepTalliesAt
  <1> QED
    BY <1>1, <1>2 DEF Share

ShareAt(share, stats, p, s) ==
    /\ share[p][s] \in Nat
    /\ share[p][s] <= Unit * Most * stats[p][s]["RoundWin"]

LEMMA ShareMeaning ==
    ASSUME TypeOK
    PROVE  ShareOfRoundsWon
              <=> \A p \in Players, s \in PlayStates : ShareAt(RoundWinShare, Stats, p, s)
  <1>1. ASSUME NEW p \in Players, NEW s \in PlayStates
        PROVE  RoundWinShare[p][s] \in 0 .. Unit * Most * Stats[p][s]["RoundWin"]
                  <=> ShareAt(RoundWinShare, Stats, p, s)
    <2>1. Stats[p][s]["RoundWin"] \in Nat /\ Unit \in Nat /\ Most \in Nat
      BY ShareAssumption DEF ShareAssumption, Most, TypeOK, CounterTypes, StatsType, Counters
    <2>2. Unit * Most * Stats[p][s]["RoundWin"] \in Int
      BY <2>1
    <2> QED
      BY <2>2 DEF ShareAt
  <1> QED
    BY <1>1 DEF ShareOfRoundsWon, Most

LEMMA ShareOfStep ==
    ASSUME TypeOK, TypeOK', DefusedPoints + ExplodePoints <= Most, [Next]_vars, Share,
           NEW p \in Players, NEW s \in PlayStates, ShareAt(RoundWinShare, Stats, p, s)
    PROVE  ShareAt(RoundWinShare', Stats', p, s)
  <1> DEFINE most == Unit * Most
             n == Stats[p][s]["RoundWin"]
             m == Stats'[p][s]["RoundWin"]
             x == RoundWinShare[p][s]
  <1>1. n \in Nat /\ m \in Nat /\ Unit \in Nat /\ Most \in Nat
    BY ShareAssumption DEF ShareAssumption, Most, TypeOK, CounterTypes, StatsType, Counters
  <1>2. most \in Nat
    BY <1>1
  <1>3. x \in Nat /\ x <= most * n
    BY DEF ShareAt
  <1> SUFFICES RoundWinShare'[p][s] \in Nat /\ RoundWinShare'[p][s] <= most * m
    BY DEF ShareAt
  <1>4. CASE ShareKept(p, s)
    <2>1. m >= n
      BY <1>4 DEF ShareKept, GrowsAt, Counters
    <2>2. RoundWinShare'[p][s] = 0 \/ RoundWinShare'[p][s] = x
      BY <1>4 DEF ShareKept
    <2> HIDE DEF n, m, x, most
    <2>3. most * n <= most * m /\ most * n \in Nat /\ most * m \in Nat
      BY <1>1, <1>2, <2>1, TimesMore
    <2> QED
      BY <1>3, <2>2, <2>3
  <1>5. CASE ShareCleared(p, s)
    <2>1. RoundWinShare'[p][s] = 0
      BY <1>5 DEF ShareCleared
    <2> HIDE DEF m, most
    <2>2. most * m \in Nat
      BY <1>1, <1>2
    <2> QED
      BY <2>1, <2>2
  <1>6. ASSUME NEW w \in Sides, SharePaid(p, s, w)
        PROVE  RoundWinShare'[p][s] \in Nat /\ RoundWinShare'[p][s] <= most * m
    <2>1. m = n + (IF p \in OnTeam(w) THEN 1 ELSE 0)
      BY <1>6, RoundTallies DEF SharePaid
    <2>2. RoundWinShare'[p][s] = x + (IF p \in OnTeam(w) THEN Paid(p, w) ELSE 0)
      BY <1>6 DEF SharePaid
    <2>3. p \in OnTeam(w) => Paid(p, w) \in Nat /\ Paid(p, w) <= most
      BY PaidWithin
    <2> HIDE DEF n, m, x, most
    <2>4. most * (n + 1) = most * n + most /\ most * n \in Nat
      BY <1>1, <1>2
    <2> QED
      BY <1>1, <1>2, <1>3, <2>1, <2>2, <2>3, <2>4
  <1> HIDE DEF m, most, n, x
  <1> QED
    BY <1>3, <1>4, <1>5, <1>6, ShareStepAt DEF x

\* If the settings pay the bomb no more than a round is worth, then no player has
\* more points than the rounds won in the half were worth, nor fewer than none.
THEOREM SharesWithin ==
    ASSUME DefusedPoints + ExplodePoints <= Most
    PROVE  ShareSpec => []ShareOfRoundsWon
  <1> DEFINE Inv == \A p \in Players, s \in PlayStates : ShareAt(RoundWinShare, Stats, p, s)
  <1>1. ShareInit => Inv
    <2> SUFFICES ASSUME ShareInit, NEW p \in Players, NEW s \in PlayStates
                 PROVE  ShareAt(RoundWinShare, Stats, p, s)
      OBVIOUS
    <2>1. RoundWinShare[p][s] = 0
      BY DEF ShareInit
    <2>2. Stats[p][s]["RoundWin"] = 0
      BY DEF ShareInit, Init, ZeroStats, Counters
    <2>3. Unit * Most * 0 = 0
      BY ShareAssumption DEF ShareAssumption, Most
    <2> QED
      BY <2>1, <2>2, <2>3 DEF ShareAt
  <1>2. TypeOK /\ TypeOK' /\ Inv /\ [ShareNext]_shareVars => Inv'
    <2> SUFFICES ASSUME TypeOK, TypeOK', Inv, [ShareNext]_shareVars,
                        NEW p \in Players, NEW s \in PlayStates
                 PROVE  ShareAt(RoundWinShare', Stats', p, s)
      OBVIOUS
    <2>1. ShareAt(RoundWinShare, Stats, p, s)
      OBVIOUS
    <2> HIDE DEF Inv
    <2>2. CASE UNCHANGED shareVars
      BY <2>1, <2>2 DEF shareVars, vars, statsVars
    <2>3. CASE ShareNext
      BY <2>1, <2>3, ShareOfStep DEF ShareNext
    <2> QED
      BY <2>2, <2>3
  <1>3. TypeOK /\ Inv => ShareOfRoundsWon
    BY ShareMeaning
  <1>4. ShareInit => Init
    BY DEF ShareInit
  <1>5. [ShareNext]_shareVars => [Next]_vars
    BY DEF ShareNext, shareVars
  <1> HIDE DEF Inv
  <1> QED
    BY TypeCorrect, <1>1, <1>2, <1>3, <1>4, <1>5, PTL DEF Spec, ShareSpec

-----------------------------------------------------------------------------
(* Round shares: whose damage a round pays *)

\* In a live round of a half, the damage in the round stats is of this round.
DamageOfRound ==
    Recording /\ round = "live" =>
       \A p \in Players : Round[p].Damage > 0 => p \in fought

\* A hit that adds to the damage of a player shows in the player's list of damage.
LEMMA HitFights ==
    ASSUME TypeOK, NEW v \in Players, NEW k \in Players, NEW d \in Damages,
           RecordHit(v, k, d), NEW p \in Players,
           Round'[p].Damage # Round[p].Damage
    PROVE  PlayerDamage'[p] # PlayerDamage[p] /\ p \in m_Player'
  <1>1. /\ Round[k] \in RoundStats /\ Round[p] \in RoundStats
        /\ PlayerDamage \in [Players -> [Players -> Nat]] /\ Round \in [Players -> RoundStats]
    BY DEF TypeOK, CounterTypes
  <1>2. /\ Round' = [Round EXCEPT ![k].Damage = @ + d]
        /\ PlayerDamage' = [PlayerDamage EXCEPT ![k][v] = @ + d]
        /\ m_Player' = m_Player \cup {v, k}
    BY DEF RecordHit
  <1>3. p = k
    BY <1>1, <1>2
  <1>4. d \in Nat /\ d # 0
    <2>1. d \in Nat /\ Round[k].Damage \in Nat
      BY <1>1, SettingsAssumption DEF SettingsAssumption, RoundStats
    <2>2. Round'[k].Damage = Round[k].Damage + d
      BY <1>1, <1>2 DEF RoundStats
    <2> QED
      BY <1>3, <2>1, <2>2
  <1>5. PlayerDamage'[k][v] = PlayerDamage[k][v] + d /\ PlayerDamage[k][v] \in Nat
    BY <1>1, <1>2
  <1> QED
    BY <1>2, <1>3, <1>4, <1>5

\* What a step does to the damage of a live round in a half.
LEMMA StepFights ==
    ASSUME TypeOK, [Next]_vars, Recording', round' = "live"
    PROVE  \/ ResetRound
           \/ /\ Recording /\ round = "live"
              /\ \/ \A p \in Players : Round'[p].Damage = Round[p].Damage
                 \/ Hit
  <1> DEFINE Same == \A p \in Players : Round'[p].Damage = Round[p].Damage
             Goes == Recording /\ round = "live" /\ (Same \/ Hit)
  <1>1. Round \in [Players -> RoundStats]
    BY DEF TypeOK, CounterTypes
  <1> DEFINE Still == UNCHANGED <<m_State, round>>
  <1>2. Still => Recording /\ round = "live"
    BY DEF Recording
  <1>3. CASE UNCHANGED vars
    BY <1>2, <1>3 DEF vars, cvarVars, statsVars, gameVars
  <1>4. CASE ServerActivate
    BY <1>4 DEF ServerActivate
  <1>5. CASE ExecSettings \/ \E v \in CvarValues : SetState(v)
    BY <1>5, HalfSetResets DEF ExecSettings, SetState
  <1>6. ASSUME NEW q \in Players, PlayerStep(q) PROVE Goes
    <2>1. Still /\ UNCHANGED Round
      BY <1>6 DEF PlayerStep, PlayerGetIntoGame, PlayerSwitchTeam, PlayerDisconnect,
         PlayerSayText, PlayerSetAnimation, PlayerAddAccount, PlayerMakeBomber,
         PlayerDropItem, Counted, cvarVars, statsVars, gameVars
    <2> QED
      BY <1>2, <2>1
  <1>7. ASSUME NEW q \in Players, CombatStep(q) PROVE Goes
    <2>1. ASSUME NEW k \in Players, NEW d \in Damages,
                 PlayerDamage_Hit(q, k, d) \/ PlayerDamage_Lethal(q, k, d)
          PROVE  Goes
      <3>1. Still /\ (RecordHit(q, k, d) \/ UNCHANGED Round)
        BY <2>1 DEF PlayerDamage_Hit, PlayerDamage_Lethal, cvarVars, gameVars
      <3> QED
        BY <1>2, <1>7, <2>1, <3>1 DEF Hit
    <2>2. ASSUME NEW k \in Players, PlayerKilled(q, k) PROVE Goes
      <3>1. Still /\ (RecordFrag(q, k) \/ UNCHANGED Round)
        BY <2>2 DEF PlayerKilled, RecordSuicide, cvarVars
      <3>2. RecordFrag(q, k) => Same
        BY <1>1 DEF RecordFrag, RoundStats
      <3> QED
        BY <1>2, <3>1, <3>2
    <2>3. PlayerKilled_Ignored(q) => Goes
      BY <1>2 DEF PlayerKilled_Ignored, cvarVars, statsVars
    <2> QED
      BY <1>7, <2>1, <2>2, <2>3 DEF CombatStep
  <1>8. ASSUME NEW complete \in BOOLEAN PROVE ~ RoundRestart(complete)
    BY DEF RoundRestart
  <1>9. CASE RoundFreezeEnd
    BY <1>9 DEF RoundFreezeEnd, cvarVars, Recording
  <1>10. ASSUME NEW w \in Sides \cup {0} PROVE ~ RoundEnd(w)
    BY DEF RoundEnd
  <1>11. CASE BombStep
    <2>1. Still
      BY <1>11 DEF BombStep, PlantBomb, DefuseBombStart, DefuseBombEnd, ExplodeBomb,
         Counted, cvarVars, gameVars
    <2>2. \/ UNCHANGED Round
          \/ \E q \in Players : Round' = [Round EXCEPT ![q].BombDefused = TRUE]
          \/ Round' = [Round EXCEPT ![planter].BombExploded = TRUE]
      BY <1>11 DEF BombStep, PlantBomb, DefuseBombStart, DefuseBombEnd, ExplodeBomb, Counted
    <2>3. Same
      BY <1>1, <2>2 DEF RoundStats
    <2> QED
      BY <1>2, <2>1, <2>3
  <1> QED
    BY <1>3, <1>4, <1>5, <1>6, <1>7, <1>8, <1>9, <1>10, <1>11 DEF Next, RoundStep

LEMMA DamageStep ==
    TypeOK /\ DamageOfRound /\ [ShareNext]_shareVars => DamageOfRound'
  <1> SUFFICES ASSUME TypeOK, DamageOfRound, [ShareNext]_shareVars, Recording',
                      round' = "live", NEW p \in Players, Round'[p].Damage > 0
               PROVE  p \in fought'
    BY DEF DamageOfRound
  <1>1. [Next]_vars
    BY DEF ShareNext, shareVars
  <1>2. CASE UNCHANGED shareVars
    BY <1>2 DEF shareVars, vars, cvarVars, statsVars, gameVars, DamageOfRound, Recording
  <1>3. CASE ShareNext
    <2>1. ~ ResetRound
      BY DEF ResetRound, ZeroRound
    <2>2. /\ Recording /\ round = "live"
          /\ (\A q \in Players : Round'[q].Damage = Round[q].Damage) \/ Hit
      BY <1>1, <2>1, StepFights
    <2>3. fought' = fought \cup {q \in Players : PlayerDamage'[q] # PlayerDamage[q]
                                                 /\ q \in m_Player'}
      BY <1>3, <2>2 DEF ShareNext, Fought
    <2>4. CASE Round'[p].Damage = Round[p].Damage
      BY <2>2, <2>3, <2>4 DEF DamageOfRound
    <2>5. CASE Round'[p].Damage # Round[p].Damage
      BY <2>2, <2>3, <2>5, HitFights DEF Hit
    <2> QED
      BY <2>4, <2>5
  <1> QED
    BY <1>2, <1>3

\* Shares are numbers, whatever the settings.
ShareNumbers == \A p \in Players, s \in PlayStates : RoundWinShare[p][s] \in Int

LEMMA PaidIsNumber ==
    ASSUME TypeOK, NEW w, NEW p \in OnTeam(w)
    PROVE  /\ Paid(p, w) \in Int /\ Unit * Bonus(p) \in Nat
           /\ Round[p].Damage = 0 => Paid(p, w) = Unit * Bonus(p)
  <1> DEFINE a == Round[p].Damage
             d == TeamRoundDamage(w)
             points == IF BombDecides THEN TotalPoints - Bonus(p) ELSE 100
  <1>1. a \in Nat /\ d \in Nat /\ a <= d
    BY PartOfDamage
  <1>2. Bonus(p) \in Nat /\ points \in Int /\ Unit \in Nat
    <2>1. p \in Players
      BY DEF OnTeam
    <2> QED
      BY <2>1, BonusType, ShareAssumption DEF ShareAssumption
  <1>3. Paid(p, w) = Unit * Bonus(p) + (IF a > 0 THEN (a * points * Unit) \div d ELSE 0)
    BY DEF Paid
  <1> HIDE DEF points, a, d
  <1>4. a > 0 => (a * points * Unit) \div d \in Int
    <2>1. a * points * Unit \in Int
      BY <1>1, <1>2
    <2> QED
      BY <1>1, <2>1, Quotient
  <1>5. Unit * Bonus(p) \in Nat
    BY <1>2
  <1> QED
    BY <1>1, <1>3, <1>4, <1>5 DEF a

LEMMA NumbersStep ==
    TypeOK /\ ShareNumbers /\ [ShareNext]_shareVars => ShareNumbers'
  <1> SUFFICES ASSUME TypeOK, ShareNumbers, [ShareNext]_shareVars,
                      NEW p \in Players, NEW s \in PlayStates
               PROVE  RoundWinShare'[p][s] \in Int
    BY DEF ShareNumbers
  <1>1. RoundWinShare[p][s] \in Int
    BY DEF ShareNumbers
  <1>2. CASE UNCHANGED shareVars
    BY <1>1, <1>2 DEF shareVars
  <1>3. CASE ShareNext
    <2>1. ShareKept(p, s) \/ ShareCleared(p, s) \/ \E w \in Sides : SharePaid(p, s, w)
      BY <1>1, <1>3, ShareStepAt DEF ShareNext
    <2>2. ASSUME NEW w \in Sides, SharePaid(p, s, w) PROVE RoundWinShare'[p][s] \in Int
      <3>1. p \in OnTeam(w) => Paid(p, w) \in Int
        BY PaidIsNumber
      <3> QED
        BY <1>1, <2>2, <3>1 DEF SharePaid
    <2> QED
      BY <1>1, <2>1, <2>2 DEF ShareKept, ShareCleared
  <1> QED
    BY <1>2, <1>3

\* What the end of a round adds to the shares.
LEMMA SharePays ==
    ASSUME TypeOK, ShareNumbers, ShareNext, NEW w \in Sides, RoundWonBy(w), NEW p \in Players
    PROVE  /\ Recording
           /\ Gain(p, m_State) = IF p \in OnTeam(w) THEN Paid(p, w) ELSE 0
  <1>1. Recording /\ RecordRound(w)
    BY WonIsRecorded DEF ShareNext
  <1>2. PICK v \in Sides :
           /\ RoundWonBy(v)
           /\ RoundWinShare' = [q \in Players |-> [h \in PlayStates |->
                 RoundWinShare[q][h]
                 + (IF h = m_State /\ q \in OnTeam(v) THEN Paid(q, v) ELSE 0)]]
    BY DEF ShareNext, Share
  <1>3. v = w
    <2>1. m_Match.Score \in [Sides -> Nat]
      BY DEF TypeOK, LogTypes, MatchType
    <2>2. /\ m_Match'.Score = [m_Match.Score EXCEPT ![w] = @ + 1]
          /\ m_Match'.Score[v] = m_Match.Score[v] + 1
      BY <1>1, <1>2 DEF RecordRound, RoundWonBy
    <2> QED
      BY <2>1, <2>2
  <1>4. m_State \in PlayStates /\ RoundWinShare[p][m_State] \in Int
    BY <1>1 DEF Recording, ShareNumbers
  <1>5. RoundWinShare'[p][m_State]
           = RoundWinShare[p][m_State] + (IF p \in OnTeam(w) THEN Paid(p, w) ELSE 0)
    BY <1>2, <1>3, <1>4
  <1>6. p \in OnTeam(w) => Paid(p, w) \in Int
    BY PaidIsNumber
  <1> QED
    BY <1>1, <1>4, <1>5, <1>6 DEF Gain

\* A round that went live pays for damage only who dealt some since it did: what
\* earlier rounds left in the round stats is not paid for again.
THEOREM SharesFresh == ShareSpec => SharesOfRound
  <1>1. ShareInit => DamageOfRound /\ ShareNumbers
    BY DEF ShareInit, Init, DamageOfRound, ShareNumbers, Recording, PlayStates, STATE_DEAD,
       STATE_FIRST_HALF, STATE_SECOND_HALF, STATE_OVERTIME
  <1>2. TypeOK /\ DamageOfRound /\ ShareNumbers /\ [ShareNext]_shareVars
           => [\A w \in Sides : RoundWonBy(w) /\ round = "live" =>
                  \A p \in Players : Gain(p, m_State) > Unit * Bonus(p) => p \in fought]_shareVars
    <2> SUFFICES ASSUME TypeOK, DamageOfRound, ShareNumbers, ShareNext,
                        NEW w \in Sides, RoundWonBy(w), round = "live",
                        NEW p \in Players, Gain(p, m_State) > Unit * Bonus(p)
                 PROVE  p \in fought
      OBVIOUS
    <2>1. Recording /\ Gain(p, m_State) = IF p \in OnTeam(w) THEN Paid(p, w) ELSE 0
      BY SharePays
    <2>2. Bonus(p) \in Nat /\ Unit * Bonus(p) \in Nat
      BY BonusType, ShareAssumption DEF ShareAssumption
    <2>3. p \in OnTeam(w)
      BY <2>1, <2>2
    <2>4. Round[p].Damage = 0 => Paid(p, w) = Unit * Bonus(p)
      BY <2>3, PaidIsNumber
    <2>5. Round[p].Damage # 0 /\ Round[p].Damage \in Nat
      BY <2>1, <2>2, <2>3, <2>4 DEF TypeOK, CounterTypes, RoundStats
    <2> QED
      BY <2>1, <2>5 DEF DamageOfRound
  <1>3. ShareInit => Init
    BY DEF ShareInit
  <1>4. [ShareNext]_shareVars => [Next]_vars
    BY DEF ShareNext, shareVars
  <1> QED
    BY TypeCorrect, <1>1, <1>2, <1>3, <1>4, DamageStep, NumbersStep, PTL
    DEF Spec, ShareSpec, SharesOfRound

-----------------------------------------------------------------------------
(* Round shares: what a round pays out *)

Multiple(g, f, c) == \A x \in DOMAIN f : g[x] = c * f[x]

LEMMA TotalTimes ==
    ASSUME NEW D, IsFiniteSet(D), NEW f \in [D -> Int], NEW g \in [D -> Int],
           NEW c \in Int, Multiple(g, f, c)
    PROVE  SumOver(g) = c * SumOver(f) /\ SumOver(f) \in Int
  <1> DEFINE Bad == {t \in SUBSET D : Sums(g)[t] # c * Sums(f)[t]}
  <1>1. /\ SumOver(f) = Sums(f)[D] /\ SumOver(g) = Sums(g)[D]
        /\ Sums(f)[D] \in Int /\ Sums(f)[{}] = 0 /\ Sums(g)[{}] = 0
    BY SumOverIs, SumParts
  <1>2. ASSUME Bad # {} PROVE FALSE
    <2>1. PICK t \in Bad : \A u \in Bad : u \subseteq t => u = t
      <3>1. Bad \in SUBSET (SUBSET D)
        OBVIOUS
      <3> HIDE DEF Bad
      <3> QED
        BY <1>2, <3>1, SmallestSubset
    <2>2. {} \notin Bad
      BY <1>1
    <2>3. PICK x : x \in t
      BY <2>1, <2>2
    <2>4. Sums(g)[t \ {x}] = c * Sums(f)[t \ {x}]
      BY <2>1, <2>3
    <2>5. t \in SUBSET D /\ g[x] = c * f[x]
      BY <2>1, <2>3 DEF Multiple
    <2> HIDE DEF Bad
    <2>6. /\ Sums(f)[t] = f[x] + Sums(f)[t \ {x}]
          /\ f[x] \in Int /\ Sums(f)[t \ {x}] \in Int
      BY <2>3, <2>5, SumWithout
    <2>7. Sums(g)[t] = g[x] + Sums(g)[t \ {x}]
      BY <2>3, <2>5, SumWithout
    <2>8. Sums(g)[t] = c * Sums(f)[t]
      BY <2>4, <2>5, <2>6, <2>7
    <2> QED
      BY <2>1, <2>8 DEF Bad
  <1> QED
    BY <1>1, <1>2

LEMMA TotalBelow ==
    ASSUME NEW D, IsFiniteSet(D), NEW f \in [D -> Int], NEW g \in [D -> Int],
           \A x \in D : f[x] <= g[x]
    PROVE  SumOver(f) <= SumOver(g) /\ SumOver(f) \in Int /\ SumOver(g) \in Int
  <1> DEFINE rest == [x \in D |-> g[x] - f[x]]
  <1>1. /\ rest \in [D -> Nat] /\ rest \in [D -> Int]
        /\ \A x \in D : g[x] = f[x] + rest[x]
    OBVIOUS
  <1> HIDE DEF rest
  <1>2. SumOver(g) = SumOver(f) + SumOver(rest)
    BY <1>1, TotalAdds
  <1>3. SumOver(rest) \in Nat
    BY <1>1, TotalGrows
  <1>4. SumOver(f) \in Int /\ SumOver(g) \in Int
    BY SumOverIs, SumParts
  <1> QED
    BY <1>2, <1>3, <1>4

\* A quotient that leaves no rest.
LEMMA ExactPart ==
    ASSUME NEW x \in Int, NEW unit \in Nat, NEW d \in Nat, d > 0, unit % d = 0
    PROVE  /\ unit \div d \in Nat /\ d * (unit \div d) = unit
           /\ (x * unit) \div d = x * (unit \div d)
  <1> DEFINE u == unit \div d
             q == (x * unit) \div d
  <1>1. u \in Int /\ d * u = unit
    OBVIOUS
  <1> HIDE DEF u
  <1>2. u >= 0
    BY <1>1
  <1>3. x * unit = d * (x * u) /\ x * unit \in Int /\ x * u \in Int
    BY <1>1
  <1>4. q \in Int /\ d * q <= x * unit /\ x * unit < d * q + d
    BY <1>3, Quotient
  <1> HIDE DEF q
  <1>5. q = x * u
    BY <1>3, <1>4
  <1> QED
    BY <1>1, <1>2, <1>5 DEF u, q

\* The fractions are exact: Unit is a multiple of the damage a round is divided by.
ExactFractions ==
    \A w \in Sides : TeamRoundDamage(w) > 0 => Unit % TeamRoundDamage(w) = 0

\* Damage and bonuses of side w, as functions of all players.
DamageFor(w) == [p \in Players |-> IF p \in OnTeam(w) THEN Round[p].Damage ELSE 0]
BonusFor(w) == [p \in Players |-> IF p \in OnTeam(w) THEN Bonus(p) ELSE 0]

LEMMA SidesSums ==
    ASSUME TypeOK, NEW w
    PROVE  /\ DamageFor(w) \in [Players -> Nat] /\ BonusFor(w) \in [Players -> Nat]
           /\ SumOver(DamageFor(w)) = TeamRoundDamage(w)
           /\ SumOver(BonusFor(w)) = SumOver([p \in OnTeam(w) |-> Bonus(p)])
           /\ SumOver(DamageFor(w)) \in Nat /\ SumOver(BonusFor(w)) \in Nat
  <1> DEFINE E == OnTeam(w)
             damage == [p \in E |-> Round[p].Damage]
             bonus == [p \in E |-> Bonus(p)]
             damages == DamageFor(w)
             bonuses == BonusFor(w)
  <1>1. IsFiniteSet(Players) /\ E \in SUBSET Players
    BY PlayersAssumption DEF PlayersAssumption, OnTeam
  <1>2. \A p \in Players : Round[p].Damage \in Nat /\ Bonus(p) \in Nat
    BY BonusType DEF TypeOK, CounterTypes, RoundStats
  <1>3. damages \in [Players -> Nat] /\ damage \in [E -> Nat]
    BY <1>1, <1>2 DEF DamageFor
  <1>4. bonuses \in [Players -> Nat] /\ bonus \in [E -> Nat]
    BY <1>1, <1>2 DEF BonusFor
  <1>5. /\ \A p \in E : damage[p] = damages[p]
        /\ \A p \in Players \ E : damages[p] = 0
    BY <1>1 DEF DamageFor
  <1>6. /\ \A p \in E : bonus[p] = bonuses[p]
        /\ \A p \in Players \ E : bonuses[p] = 0
    BY <1>1 DEF BonusFor
  <1>7. TeamRoundDamage(w) = SumOver(damage)
    BY DEF TeamRoundDamage
  <1> HIDE DEF E, damage, bonus, damages, bonuses
  <1>8. SumOver(damage) = SumOver(damages)
    BY <1>1, <1>3, <1>5, TotalOfPart
  <1>9. SumOver(bonus) = SumOver(bonuses)
    BY <1>1, <1>4, <1>6, TotalOfPart
  <1>10. SumOver(damages) \in Nat /\ SumOver(bonuses) \in Nat
    BY <1>1, <1>3, <1>4, TotalGrows
  <1> QED
    BY <1>3, <1>4, <1>7, <1>8, <1>9, <1>10 DEF bonus, damages, bonuses, E

LEMMA GainExact ==
    ASSUME TypeOK, ShareNumbers, ShareNext, ExactFractions, NEW w \in Sides,
           RoundWonBy(w), TeamRoundDamage(w) > 0, NEW p \in Players
    PROVE  LET u == Unit \div TeamRoundDamage(w)
               points == IF BombDecides THEN TotalPoints - Bonus(p) ELSE 100
           IN  /\ u \in Nat /\ u * TeamRoundDamage(w) = Unit
               /\ Gain(p, m_State)
                     = Unit * BonusFor(w)[p] + u * (DamageFor(w)[p] * points)
  <1> DEFINE T == TeamRoundDamage(w)
             u == Unit \div T
             points == IF BombDecides THEN TotalPoints - Bonus(p) ELSE 100
             a == Round[p].Damage
             b == Bonus(p)
  <1>1. T \in Nat /\ T > 0 /\ Unit \in Nat /\ Unit % T = 0
    BY SidesSums, ShareAssumption DEF ShareAssumption, ExactFractions
  <1>2. a \in Nat /\ b \in Nat /\ points \in Int
    BY BonusType, ShareAssumption DEF ShareAssumption, TypeOK, CounterTypes, RoundStats
  <1>3. Gain(p, m_State) = IF p \in OnTeam(w) THEN Paid(p, w) ELSE 0
    BY SharePays
  <1>4. Paid(p, w) = Unit * b + (IF a > 0 THEN (a * points * Unit) \div T ELSE 0)
    BY DEF Paid
  <1>5. /\ DamageFor(w)[p] = IF p \in OnTeam(w) THEN a ELSE 0
        /\ BonusFor(w)[p] = IF p \in OnTeam(w) THEN b ELSE 0
    BY DEF DamageFor, BonusFor
  <1> HIDE DEF points, a, b, T
  <1>6. a * points \in Int
    BY <1>2
  <1>7. u \in Nat /\ T * u = Unit /\ (a * points * Unit) \div T = (a * points) * u
    BY <1>1, <1>6, ExactPart
  <1> HIDE DEF u
  <1>8. u * T = Unit
    BY <1>1, <1>7
  <1>9. CASE p \notin OnTeam(w)
    <2>1. Unit * 0 + u * (0 * points) = 0
      BY <1>1, <1>2, <1>7
    <2>2. Gain(p, m_State) = Unit * BonusFor(w)[p] + u * (DamageFor(w)[p] * points)
      BY <1>3, <1>5, <1>9, <2>1
    <2> QED
      BY <1>7, <1>8, <2>2 DEF u, T, points, b
  <1>10. CASE p \in OnTeam(w)
    <2>1. (a * points) * u = u * (a * points)
      BY <1>6, <1>7
    <2>2. a = 0 => u * (a * points) = 0
      BY <1>2, <1>7
    <2>3. Gain(p, m_State) = Unit * b + u * (a * points)
      BY <1>2, <1>3, <1>4, <1>7, <1>10, <2>1, <2>2
    <2> QED
      BY <1>5, <1>7, <1>8, <1>10, <2>3 DEF u, T, points, b
  <1> QED
    BY <1>9, <1>10

\* Gains G for damage A and bonuses B, out of total points worth unit each.
Gains(G, A, B, unit, u, total) ==
    \A q \in DOMAIN G : G[q] = unit * B[q] + u * (A[q] * (total - B[q]))

LEMMA SumOfGains ==
    ASSUME NEW D, IsFiniteSet(D), NEW G \in [D -> Int], NEW A \in [D -> Nat],
           NEW B \in [D -> Nat], NEW unit \in Nat, NEW u \in Nat, NEW total \in Nat,
           Gains(G, A, B, unit, u, total), u * SumOver(A) = unit
    PROVE  /\ SumOver(G) \in Int
           /\ unit * total <= SumOver(G)
           /\ SumOver(G) <= unit * total + unit * SumOver(B)
  <1> DEFINE bonus == [q \in D |-> unit * B[q]]
             damage == [q \in D |-> (u * total) * A[q]]
             whole == [q \in D |-> bonus[q] + damage[q]]
             both == [q \in D |-> (u * A[q]) * B[q]]
  <1>1. \A q \in D : A[q] \in Nat /\ B[q] \in Nat
    OBVIOUS
  <1>2. u * total \in Nat
    OBVIOUS
  <1>3. \A q \in D : /\ unit * B[q] \in Nat /\ (u * total) * A[q] \in Nat
                     /\ u * A[q] \in Nat /\ (u * A[q]) * B[q] \in Nat
    BY <1>1, <1>2
  <1>4. /\ bonus \in [D -> Nat] /\ damage \in [D -> Nat] /\ both \in [D -> Nat]
        /\ whole \in [D -> Nat]
        /\ Multiple(bonus, B, unit) /\ Multiple(damage, A, u * total)
        /\ \A q \in D : whole[q] = bonus[q] + damage[q]
    BY <1>3 DEF Multiple
  <1>5. ASSUME NEW q \in D PROVE whole[q] = G[q] + both[q]
    <2> DEFINE a == A[q]
               b == B[q]
    <2>1. G[q] = unit * b + u * (a * (total - b)) /\ a \in Nat /\ b \in Nat
      BY <1>1 DEF Gains
    <2>2. whole[q] = unit * b + (u * total) * a /\ both[q] = (u * a) * b
      OBVIOUS
    <2> HIDE DEF a, b
    <2>3. u * (a * (total - b)) = (u * total) * a - (u * a) * b
      BY <2>1
    <2>4. (u * total) * a \in Int /\ (u * a) * b \in Int /\ unit * b \in Int
      BY <2>1
    <2> QED
      BY <2>1, <2>2, <2>3, <2>4
  <1>6. ASSUME NEW q \in D PROVE both[q] <= bonus[q]
    <2>1. A[q] <= SumOver(A) /\ SumOver(A) \in Nat
      BY TermOfTotal, TotalGrows
    <2>2. u * A[q] <= unit
      BY <1>1, <2>1, TimesMore
    <2>3. B[q] * (u * A[q]) <= B[q] * unit
      BY <1>1, <1>3, <2>2, TimesMore
    <2> QED
      BY <1>1, <2>3
  <1> HIDE DEF bonus, damage, whole, both
  <1> DEFINE sA == SumOver(A)
             sB == SumOver(B)
  <1>7. sA \in Nat /\ sB \in Nat /\ u * sA = unit
    BY TotalGrows
  <1>8. SumOver(bonus) = unit * sB
    <2>1. bonus \in [D -> Int] /\ B \in [D -> Int] /\ unit \in Int
      BY <1>4
    <2> QED
      BY <1>4, <2>1, TotalTimes
  <1>9. SumOver(damage) = (u * total) * sA
    <2>1. damage \in [D -> Int] /\ A \in [D -> Int] /\ u * total \in Int
      BY <1>2, <1>4
    <2> QED
      BY <1>4, <2>1, TotalTimes
  <1>10. SumOver(whole) = SumOver(bonus) + SumOver(damage)
    <2>1. whole \in [D -> Int] /\ bonus \in [D -> Int] /\ damage \in [D -> Int]
      BY <1>4
    <2> QED
      BY <1>4, <2>1, TotalAdds
  <1>11. SumOver(whole) = SumOver(G) + SumOver(both)
    <2>1. whole \in [D -> Int] /\ both \in [D -> Int]
      BY <1>4
    <2> QED
      BY <1>5, <2>1, TotalAdds
  <1>12. SumOver(both) \in Nat /\ SumOver(both) <= SumOver(bonus)
    <2>1. both \in [D -> Int] /\ bonus \in [D -> Int]
      BY <1>4
    <2> QED
      BY <1>4, <1>6, <2>1, TotalGrows, TotalBelow
  <1>13. SumOver(G) \in Int
    BY SumOverIs, SumParts
  <1> HIDE DEF sA, sB
  <1>14. (u * total) * sA = unit * total /\ unit * total \in Int /\ unit * sB \in Nat
    BY <1>7
  <1> QED
    BY <1>8, <1>9, <1>10, <1>11, <1>12, <1>13, <1>14 DEF sB

LEMMA PaysOutStep ==
    ASSUME TypeOK, ShareNumbers, ShareNext, ExactFractions, NEW w \in Sides, RoundWonBy(w),
           BombDecides \/ TotalPoints = 100
    PROVE  PaysOut(w)
  <1> DEFINE gains == [p \in Players |-> Gain(p, m_State)]
             damages == DamageFor(w)
             bonuses == BonusFor(w)
             T == TeamRoundDamage(w)
             hit == \E p \in OnTeam(w) : Round[p].Damage > 0
             points == IF BombDecides THEN TotalPoints ELSE 100
  <1>1. IsFiniteSet(Players) /\ Unit \in Nat /\ points \in Nat
    BY PlayersAssumption, ShareAssumption DEF PlayersAssumption, ShareAssumption
  <1>2. /\ damages \in [Players -> Nat] /\ bonuses \in [Players -> Nat]
        /\ T = SumOver(damages) /\ T \in Nat /\ SumOver(bonuses) \in Nat
        /\ SumOver(bonuses) = SumOver([p \in OnTeam(w) |-> Bonus(p)])
    BY SidesSums
  <1>3. \A p \in Players : /\ gains[p] = IF p \in OnTeam(w) THEN Paid(p, w) ELSE 0
                           /\ gains[p] \in Int
    <2>1. \A p \in OnTeam(w) : Paid(p, w) \in Int
      BY PaidIsNumber
    <2> QED
      BY <2>1, SharePays
  <1>4. gains \in [Players -> Int]
    BY <1>3
  <1>7. ASSUME ~hit PROVE SumOver(gains) = Unit * SumOver(bonuses)
    <2>1. ASSUME NEW p \in Players PROVE gains[p] = Unit * bonuses[p]
      <3>1. CASE p \in OnTeam(w)
        <4>1. Round[p].Damage = 0
          BY <1>7, <3>1 DEF TypeOK, CounterTypes, RoundStats
        <4> QED
          BY <1>3, <3>1, <4>1, PaidIsNumber DEF BonusFor
      <3>2. CASE p \notin OnTeam(w)
        BY <1>1, <1>3, <3>2 DEF BonusFor
      <3> QED
        BY <3>1, <3>2
    <2>2. Multiple(gains, bonuses, Unit)
      BY <2>1 DEF Multiple, BonusFor
    <2>3. bonuses \in [Players -> Int] /\ Unit \in Int
      BY <1>1, <1>2
    <2> HIDE DEF gains, bonuses
    <2> QED
      BY <1>1, <1>4, <2>2, <2>3, TotalTimes
  <1>8. ASSUME hit
        PROVE  /\ SumOver(gains) \in Int
               /\ Unit * points <= SumOver(gains)
               /\ SumOver(gains) <= Unit * points + Unit * SumOver(bonuses)
    <2>1. T > 0
      <3>1. PICK p \in OnTeam(w) : Round[p].Damage > 0
        BY <1>8
      <3> QED
        BY <1>2, <3>1, PartOfDamage
    <2> DEFINE u == Unit \div T
    <2>2. u \in Nat /\ u * T = Unit
      <3>1. T \in Nat /\ Unit % T = 0
        BY <1>2, <2>1 DEF ExactFractions
      <3> HIDE DEF T
      <3>2. 0 \in Int
        OBVIOUS
      <3>3. u \in Nat /\ T * u = Unit
        BY <1>1, <2>1, <3>1, <3>2, ExactPart
      <3> QED
        BY <3>1, <3>3
    <2>3. ASSUME NEW p \in Players
          PROVE  gains[p] = Unit * bonuses[p] + u * (damages[p] * (points - bonuses[p]))
      <3>1. gains[p] = Unit * bonuses[p]
                       + u * (damages[p] * (IF BombDecides THEN TotalPoints - Bonus(p) ELSE 100))
        BY <2>1, GainExact
      <3>2. damages[p] # 0 => bonuses[p] = Bonus(p)
        BY DEF DamageFor, BonusFor
      <3>3. ~BombDecides => Bonus(p) = 0
        BY DEF Bonus
      <3>4. damages[p] \in Nat /\ bonuses[p] \in Nat /\ Bonus(p) \in Nat /\ TotalPoints \in Nat
        BY <1>2, BonusType, ShareAssumption DEF ShareAssumption
      <3> HIDE DEF gains, bonuses, damages, u
      <3>5. damages[p] * (IF BombDecides THEN TotalPoints - Bonus(p) ELSE 100)
               = damages[p] * (points - bonuses[p])
        <4>1. CASE damages[p] = 0
          BY <3>4, <4>1
        <4>2. CASE damages[p] # 0
          BY <3>2, <3>3, <3>4, <4>2
        <4> QED
          BY <4>1, <4>2
      <3> QED
        BY <3>1, <3>5
    <2>4. Gains(gains, damages, bonuses, Unit, u, points)
      BY <2>3 DEF Gains
    <2>5. u * SumOver(damages) = Unit
      BY <1>2, <2>2
    <2> HIDE DEF gains, damages, bonuses, points, u
    <2> QED
      BY <1>1, <1>2, <1>4, <2>2, <2>4, <2>5, SumOfGains
  <1> DEFINE sum == SumOver(gains)
             extra == SumOver(bonuses)
  <1>9. /\ ~hit => sum = Unit * extra
        /\ hit => sum \in Unit * TotalPoints .. Unit * (TotalPoints + extra)
    <2>1. extra \in Nat /\ TotalPoints \in Nat
      BY <1>2, ShareAssumption DEF ShareAssumption
    <2> HIDE DEF sum, extra, hit
    <2>2. /\ hit => /\ sum \in Int /\ Unit * points <= sum
                    /\ sum <= Unit * points + Unit * extra
          /\ ~hit => sum = Unit * extra
      BY <1>7, <1>8 DEF sum, extra
    <2>3. Unit * (TotalPoints + extra) = Unit * TotalPoints + Unit * extra
          /\ Unit * TotalPoints \in Int /\ Unit * extra \in Int
      BY <1>1, <2>1
    <2>4. points = TotalPoints
      OBVIOUS
    <2> QED
      BY <2>2, <2>3, <2>4
  <1> QED
    BY <1>2, <1>9 DEF PaysOut

\* As long as the fractions are exact, a round that the bomb decided pays out the points
\* of ms_rws_total_points, with no more than the bonuses on top; and the bonuses alone,
\* if nobody on the winning side has damage on record.
THEOREM RoundsPay == ShareSpec /\ []ExactFractions => BombRoundPaysOut
  <1>1. ShareInit => Init /\ ShareNumbers
    BY DEF ShareInit, Init, ShareNumbers
  <1>2. TypeOK /\ ShareNumbers /\ ExactFractions /\ [ShareNext]_shareVars
           => [\A w \in Sides : RoundWonBy(w) /\ BombDecides => PaysOut(w)]_shareVars
    BY PaysOutStep
  <1>3. [ShareNext]_shareVars => [Next]_vars
    BY DEF ShareNext, shareVars
  <1> QED
    BY TypeCorrect, <1>1, <1>2, <1>3, NumbersStep, PTL
       DEF Spec, ShareSpec, BombRoundPaysOut

\* With the default of ms_rws_total_points, which RoundEnd pays in the other rounds
\* whatever the cvar is, that goes for every round.
THEOREM DefaultPays ==
    ASSUME TotalPoints = 100
    PROVE  ShareSpec /\ []ExactFractions => RoundPaysOut
  <1>1. ShareInit => Init /\ ShareNumbers
    BY DEF ShareInit, Init, ShareNumbers
  <1>2. TypeOK /\ ShareNumbers /\ ExactFractions /\ [ShareNext]_shareVars
           => [\A w \in Sides : RoundWonBy(w) => PaysOut(w)]_shareVars
    BY PaysOutStep
  <1>3. [ShareNext]_shareVars => [Next]_vars
    BY DEF ShareNext, shareVars
  <1> QED
    BY TypeCorrect, <1>1, <1>2, <1>3, NumbersStep, PTL DEF Spec, ShareSpec, RoundPaysOut
=============================================================================
