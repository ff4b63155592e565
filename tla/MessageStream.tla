---------------------------- MODULE MessageStream ----------------------------
(***************************************************************************)
(* What the game and the engine count on when a plugin sits between them:   *)
(* the game composes one message at a time, and messages reach the clients  *)
(* whole, in order and as composed, strings up to what Arrives allows. A    *)
(* type the plugin filters may be dropped, or have the values (never the    *)
(* layout) of its parameters set.                                           *)
(***************************************************************************)
EXTENDS Naturals, Sequences

CONSTANTS
    Types, Targets, Param, Idle,
    Filtered,  \* types that a hook may change or drop
    Arrives    \* what a string may arrive as besides itself

VARIABLES
    draft,  \* the message the game is composing, or Idle
    wire    \* the messages that reached the engine whole

Init == draft = Idle /\ wire = << >>

Begin ==
    /\ draft = Idle
    /\ \E t \in Types, to \in Targets :
          draft' = [Type |-> t, To |-> to, Params |-> << >>]
    /\ UNCHANGED wire

Write ==
    /\ draft # Idle
    /\ \E p \in Param : draft' = [draft EXCEPT !.Params = Append(@, p)]
    /\ UNCHANGED wire

\* n may arrive for the message m.
MayArrive(m, n) ==
    /\ n.Type = m.Type /\ n.To = m.To
    /\ DOMAIN n.Params = DOMAIN m.Params
    /\ \A i \in DOMAIN m.Params :
          /\ n.Params[i].Type = m.Params[i].Type
          /\ \/ m.Type \in Filtered
             \/ n.Params[i].Value = m.Params[i].Value
             \/ /\ m.Params[i].Type = "STRING"
                /\ n.Params[i].Value \in Arrives[m.Params[i].Value]

End ==
    /\ draft # Idle
    /\ draft' = Idle
    /\ \/ draft.Type \in Filtered /\ UNCHANGED wire
       \/ /\ wire' = Append(wire, wire'[Len(wire) + 1])
          /\ MayArrive(draft, wire'[Len(wire) + 1])

Next == Begin \/ Write \/ End

Spec == Init /\ [][Next]_<<draft, wire>>
=============================================================================
