----------------------------- MODULE MatchTotals -----------------------------
(***************************************************************************)
(* Promises about sums over the players, and about the exported document,   *)
(* which is made of such sums.                                              *)
(***************************************************************************)
EXTENDS MatchProperties, FiniteSetsExt

SumOver(f) == MapThenSumSet(LAMBDA i : f[i], DOMAIN f)
Elements(seq) == {seq[i] : i \in DOMAIN seq}

\* What one player gave another received: in every half kills balance deaths,
\* damage dealt balances damage received, and entries likewise, whoever left,
\* changed team or was reset meanwhile.
Balanced ==
    \A s \in PlayStates :
       LET Sum(c) == SumOver([p \in Players |-> Stats[p][s][c]])
       IN  /\ Sum("Frags") = Sum("Deaths")
           /\ Sum("EntryFrags") = Sum("EntryDeaths")
           /\ Sum("Hits") = Sum("HitsReceived")
           /\ Sum("Damage") = Sum("DamageReceived")

\* The streaks are of this half: no more of them than rounds played, and none longer
\* than the player has kills. (RoundEnd reads Round.Frags, which other callbacks fill
\* and reset.)
StreaksOfHalf ==
    \A p \in Players, s \in PlayStates :
       /\ SumOver([n \in 0 .. ArraySize - 1 |-> Tally[p][s][KillStreakCell(n)]])
             <= Stats[p][s]["RoundPlay"]
       /\ \A n \in 0 .. ArraySize - 1 :
             Tally[p][s][KillStreakCell(n)] > 0 => n <= Stats[p][s]["Frags"]

\* The clutches are of this half: no more of them than rounds won. (RoundEnd reads
\* Round.Versus, and lets a long streak run into the cells of the clutches.)
ClutchesOfHalf ==
    \A p \in Players, s \in PlayStates :
       SumOver([n \in 0 .. ArraySize - 1 |-> Tally[p][s][VersusCell(n)]])
          <= Stats[p][s]["RoundWin"]

-----------------------------------------------------------------------------
(* The exported document *)

\* Whatever moment the match is ended at: the document's scores add up, its
\* events are numbered within its rounds and name players it lists, kills and
\* damage balance over its players, and chat was recorded during a match.
ExportIsConsistent ==
    \A doc \in dataFile :
       LET Sum(c) == SumOver([p \in DOMAIN doc.Stats |-> doc.Stats[p].Total[c]])
       IN  /\ doc.Match.Score[TERRORIST] + doc.Match.Score[CT] = doc.Match.Rounds
           /\ \A e \in Elements(doc.Events) :
                 /\ e.Round <= doc.Match.Rounds + 1
                 /\ {e.Killer, e.Victim} \subseteq DOMAIN doc.Stats \cup {NoPlayer}
           /\ Sum("Frags") = Sum("Deaths") /\ Sum("Damage") = Sum("DamageReceived")
           /\ \A p \in DOMAIN doc.Stats : \A s \in Elements(doc.Stats[p].Chat) :
                 s # STATE_DEAD

\* A player has played no more rounds than the match: FIRST_HALF starts a match
\* by clearing the player stats.
ExportOfOneMatch ==
    \A doc \in dataFile : \A p \in DOMAIN doc.Stats :
       doc.Stats[p].Total["RoundPlay"] <= doc.Match.Rounds

\* Winner marks the players of the side the document's own scores put ahead, and
\* on a draw nobody: a player is marked if it "is in winner team".
ExportMarksWinners ==
    \A doc \in dataFile : \A p \in DOMAIN doc.Stats :
       doc.Stats[p].Winner = 1 <=>
          /\ doc.Stats[p].Team \in Sides
          /\ doc.Stats[p].Team = WhoLeads(doc.Match.Score)
=============================================================================
