------------------------------- MODULE MCMatch -------------------------------
(***************************************************************************)
(* Instances of the recorder for TLC: which callbacks the game makes, and   *)
(* the symmetry of the players (no definition chooses one, and the sets of  *)
(* the configurations treat all alike).                                     *)
(***************************************************************************)
EXTENDS MatchTotals, TLC

CONSTANTS p1, p2, p3

One == {p1}
Two == {p1, p2}
Three == {p1, p2, p3}

\* Nobody has joined yet.
Empty == [p \in Players |-> UNASSIGNED]

\* p1 against the others.
OneAgainstAll == [p \in Players |-> IF p = p1 THEN TERRORIST ELSE CT]

\* Players the definitions above do not tell apart.
AllAlike == Permutations(Players)
OthersAlike == Permutations(Players \ {p1})

\* The course of a match: maps, states, rounds won and drawn, restarts.
CourseHooks == {"ServerActivate", "PlayerGetIntoGame", "RoundRestart",
                "CompleteRestart", "RoundFreezeEnd", "RoundEnd", "Draw"}

\* The same with deaths of one's own doing, which halves and logs have to hold.
MortalHooks == CourseHooks \cup {"PlayerKilled", "Suicide"}

\* Fighting in rounds.
CombatHooks == {"PlayerDamage", "PlayerKilled", "RoundRestart",
                "CompleteRestart", "RoundFreezeEnd", "RoundEnd"}

\* Bombs, hits, kills, and a match ended at any moment, with players gone.
BombHooks == {"PlayerDamage", "PlayerKilled", "PlayerDisconnect", "RoundRestart",
              "RoundFreezeEnd", "RoundEnd", "PlantBomb", "DefuseBomb",
              "ExplodeBomb"}

\* A client that comes, switches, talks, acts and leaves, and map changes.
RosterHooks == {"ServerActivate", "PlayerGetIntoGame", "PlayerSwitchTeam",
                "PlayerDisconnect", "PlayerSayText", "PlayerSetAnimation",
                "PlayerAddAccount", "PlayerMakeBomber", "PlayerDropItem",
                "OtherDeath", "RoundRestart"}
=============================================================================
