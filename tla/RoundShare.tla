------------------------------ MODULE RoundShare ------------------------------
(***************************************************************************)
(* RoundWinShare: what RoundEnd pays the winners of a round for the damage  *)
(* they dealt and for the bomb. The recorder, with that counter and with    *)
(* one history variable, the players who fought in the round being played.  *)
(* Points are counted in fractions: Unit of them make one point.            *)
(***************************************************************************)
EXTENDS MatchTotals

CONSTANTS
    TotalPoints,    \* ms_rws_total_points
    DefusedPoints,  \* ms_rws_c4_defused
    ExplodePoints,  \* ms_rws_c4_explode
    Unit            \* fractions of a point: every side's damage divides it

ASSUME ShareAssumption ==
    /\ {TotalPoints, DefusedPoints, ExplodePoints} \subseteq Nat
    /\ Unit \in Nat \ {0}

VARIABLES
    RoundWinShare,  \* of a player in a state
    fought          \* players whose damage was recorded since the round is live

shareVars == <<vars, RoundWinShare, fought>>

ShareInit ==
    /\ Init
    /\ RoundWinShare = [p \in Players |-> [s \in PlayStates |-> 0]]
    /\ fought = {}

\* m_bBombDefused or m_bTargetBombed of the game rules.
BombDecides == bomb \in {"defused", "exploded"}

\* As a total over both sides.
TeamRoundDamage_Both(t) == SumOver([p \in InPlay |-> Round[p].Damage])

TeamRoundDamage(t) == SumOver([p \in OnTeam(t) |-> Round[p].Damage])

Bonus(p) ==
    IF ~BombDecides THEN 0
    ELSE (IF Round[p].BombDefused THEN DefusedPoints ELSE 0)
         + (IF Round[p].BombExploded THEN ExplodePoints ELSE 0)

\* As points paid out by the damage of the player, not of the side.
Paid_ToEach(p, w) ==
    Unit * (Bonus(p) + (IF BombDecides THEN TotalPoints - Bonus(p) ELSE 100))

\* Paid to p when its side w wins: the bonus, and a part of the points that is
\* p's part of the damage. Unless the bomb decided, the points are 100,
\* whatever ms_rws_total_points is.
Paid(p, w) ==
    LET points == IF BombDecides THEN TotalPoints - Bonus(p) ELSE 100
    IN  Unit * Bonus(p)
        + (IF Round[p].Damage > 0
           THEN (Round[p].Damage * points * Unit) \div TeamRoundDamage(w) ELSE 0)

RoundWonBy(w) ==
    /\ m_Match'.Rounds = m_Match.Rounds + 1
    /\ m_Match'.Score[w] = m_Match.Score[w] + 1

\* As counters that Reset() leaves out.
ShareAfter_NoReset(p, s) == RoundWinShare[p][s]

\* RoundWinShare is reset with the other counters of its state.
ShareAfter(p, s) ==
    IF Stats'[p][s] = ZeroStats[p][s] THEN 0 ELSE RoundWinShare[p][s]

Share ==
    \/ \E w \in Sides :
          /\ RoundWonBy(w)
          /\ RoundWinShare' = [p \in Players |-> [s \in PlayStates |->
                RoundWinShare[p][s]
                + (IF s = m_State /\ p \in OnTeam(w) THEN Paid(p, w) ELSE 0)]]
    \/ /\ \A w \in Sides : ~RoundWonBy(w)
       /\ RoundWinShare' = [p \in Players |-> [s \in PlayStates |-> ShareAfter(p, s)]]

Fought ==
    fought' = IF round = "freeze" /\ round' = "live" THEN {}
              ELSE fought \cup {p \in Players : PlayerDamage'[p] # PlayerDamage[p]
                                                /\ p \in m_Player'}

ShareNext == Next /\ Share /\ Fought

ShareSpec == ShareInit /\ [][ShareNext]_shareVars

-----------------------------------------------------------------------------
(* Properties *)

Gain(p, s) == RoundWinShare'[p][s] - RoundWinShare[p][s]

\* A player has no more points than the rounds won in the half were worth: nobody
\* is paid for a round lost, or twice, and a reset takes points and rounds alike.
ShareOfRoundsWon ==
    \A p \in Players, s \in PlayStates :
       LET most == IF TotalPoints > 100 THEN TotalPoints ELSE 100
       IN  RoundWinShare[p][s] \in 0 .. Unit * most * Stats[p][s]["RoundWin"]

\* What a round pays out: the points that the winners divide, with up to one bonus each
\* on top; only the bonuses when no damage of the winners is on record.
PaysOut(w) ==
    LET paid == SumOver([p \in Players |-> Gain(p, m_State)])
        bonuses == SumOver([p \in OnTeam(w) |-> Bonus(p)])
    IN  IF \E p \in OnTeam(w) : Round[p].Damage > 0
        THEN paid \in Unit * TotalPoints .. Unit * (TotalPoints + bonuses)
        ELSE paid = Unit * bonuses

\* A round that the bomb decided divides ms_rws_total_points among its winners. Both
\* loops of RoundEnd see the same players.
BombRoundPaysOut ==
    [][\A w \in Sides : RoundWonBy(w) /\ BombDecides => PaysOut(w)]_shareVars

\* ms_rws_total_points are the "points to be divided by winner team of round", whatever
\* decided it.
RoundPaysOut == [][\A w \in Sides : RoundWonBy(w) => PaysOut(w)]_shareVars

\* A round that went live pays only whoever fought in it, or handled its bomb: the
\* damage that earlier rounds left in the round stats is not paid for again.
SharesOfRound ==
    [][\A w \in Sides : RoundWonBy(w) /\ round = "live" =>
          \A p \in Players : Gain(p, m_State) > Unit * Bonus(p) => p \in fought]_shareVars
=============================================================================
