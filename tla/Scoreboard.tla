------------------------------ MODULE Scoreboard ------------------------------
(***************************************************************************)
(* What the recorder promises of a match, whatever the players do: a score  *)
(* by side, a number of rounds, and a log of events, each of the round that *)
(* was being played when it happened; a round ends with one win, which is a *)
(* point for one side and the round's last event.                           *)
(***************************************************************************)
EXTENDS Integers, Sequences

CONSTANTS
    Sides,      \* the two teams that score
    Opponent,   \* by side, the other one
    Names,      \* whom events may name
    Nobody,     \* whom a win names
    Wins,       \* by side, the event of a round it wins
    Happenings  \* the events that leave the score alone

VARIABLES score, rounds, log

boardVars == <<score, rounds, log>>

Event(type, killer, victim) ==
    [Round |-> rounds + 1, Type |-> type, Killer |-> killer, Victim |-> victim]

NewMatch == score' = [t \in Sides |-> 0] /\ rounds' = 0 /\ log' = << >>

\* Something happens in the round being played.
Happens ==
    /\ \E type \in Happenings, k, v \in Names : log' = Append(log, Event(type, k, v))
    /\ UNCHANGED <<score, rounds>>

\* Side w wins the round, and the next begins.
RoundWon(w) ==
    /\ log' = Append(log, Event(Wins[w], Nobody, Nobody))
    /\ score' = [score EXCEPT ![w] = @ + 1]
    /\ rounds' = rounds + 1

\* The sides change over, and take their scores along.
ChangeOver ==
    /\ score' = [t \in Sides |-> score[Opponent[t]]]
    /\ UNCHANGED <<rounds, log>>

BoardInit == score = [t \in Sides |-> 0] /\ rounds = 0 /\ log = << >>
BoardNext == NewMatch \/ Happens \/ (\E w \in Sides : RoundWon(w)) \/ ChangeOver

BoardSpec == BoardInit /\ [][BoardNext]_boardVars
=============================================================================
