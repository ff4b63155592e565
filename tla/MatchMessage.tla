----------------------------- MODULE MatchMessage -----------------------------
(***************************************************************************)
(* CMatchMessage: between the game and the engine, it holds back the        *)
(* messages of the hooked types, shows each to the hook's function when it  *)
(* ends and then replays it; SayText is the hook the recorder registers.    *)
(***************************************************************************)
EXTENDS Naturals, Sequences, FiniteSets

CONSTANTS
    Types,        \* user messages
    Targets,      \* where a message goes: a client's entity, or no entity
    Values,       \* parameter values
    Fits,         \* values whose string, with its end, fits the 200 bytes of szValue
    Reads,        \* what may be read, as a string, of a field that was given a value
    Zero,         \* the value of a field nobody set
    Null,         \* nullptr
    Written,      \* bound: the parameters written at each place of a message
    Function,     \* the function to hook a type with: "SayText" or any "Filter"
    OnSide,       \* targets that are players of a side
    ForAll,       \* the formats "#Cstrike_Chat_All" and "#Cstrike_Chat_AllDead"
    Idle,         \* no message is open
    Broken,       \* the engine after a call out of place
    Settable,     \* bound: values a filter sets
    MaxMessages   \* bound: messages that reach the engine

ParamTypes == {"BYTE", "CHAR", "SHORT", "LONG", "ANGLE", "COORD", "STRING", "ENTITY"}

\* The field of P_MESSAGE_PARAM that carries a parameter of each type.
Fields == {"iValue", "flValue", "szValue"}
Field(type) ==
    CASE type \in {"ANGLE", "COORD"} -> "flValue"
      [] type = "STRING" -> "szValue"
      [] OTHER -> "iValue"

Param == [Type : ParamTypes, Value : Values]
Message == [Type : Types, To : Targets, Params : Seq(Param)]
Buffered == [Type : ParamTypes, Value : [Fields -> Values]]
Copy == [Type : Types \cup {Idle}, To : Targets \cup {Idle}, Params : Seq(Buffered)]

\* Q_strncpy is strncpy: a string of 200 bytes or more is left without an end, and
\* reading it goes on into whatever lies behind the field.
ASSUME MessageAssumption ==
    /\ Fits \subseteq Values
    /\ Reads \in [Values -> SUBSET Values \ {{}}]
    /\ \A v \in Fits : Reads[v] = {v}
    /\ \A v \in Values \ Fits : Reads[v] \cap Fits = {}
    /\ Zero \in Values /\ Null \notin Values
    /\ Written \in Seq(SUBSET Param)
    /\ DOMAIN Function \subseteq Types
    /\ \A t \in DOMAIN Function : Function[t] \in {"SayText", "Filter"}
    /\ \A s, t \in DOMAIN Function :  \* the recorder hooks one type
          Function[s] = "SayText" /\ Function[t] = "SayText" => s = t
    /\ ForAll \subseteq Fits
    /\ {Idle, Broken} \cap (Types \cup Message) = {} /\ Idle # Broken
    /\ Settable \subseteq Values /\ MaxMessages \in Nat

VARIABLES
    m_Hook,   \* hooked types
    m_MsgId,  \* the hooked type being composed, or Idle
    m_Data,   \* the message held back
    game,     \* game: the message it is composing, or Idle
    engine,   \* engine: the message it is being given, Idle, or Broken
    wire,     \* engine: the messages it was given whole
    said,     \* chat lines handed to PlayerSayText: <<player, text>>
    unheard   \* history: messages sent before the recorder's hook was registered

vars == <<m_Hook, m_MsgId, m_Data, game, engine, wire, said, unheard>>

NoData == [Type |-> Idle, To |-> Idle, Params |-> << >>]

Init ==
    /\ m_Hook = {} /\ m_MsgId = Idle /\ m_Data = NoData
    /\ game = Idle /\ engine = Idle /\ wire = << >>
    /\ said = << >> /\ unheard = 0

-----------------------------------------------------------------------------
(* The engine's own functions: it stops the server when a message is begun   *)
(* inside another, or written or ended outside one.                          *)

EngineBegin(m) == engine' = IF engine = Idle THEN m ELSE Broken

EngineWrite(p) ==
    engine' = IF engine \in {Idle, Broken} THEN Broken
              ELSE [engine EXCEPT !.Params = Append(@, p)]

EngineEnd ==
    IF engine \in {Idle, Broken} THEN engine' = Broken /\ UNCHANGED wire
    ELSE engine' = Idle /\ wire' = Append(wire, engine)

\* A whole message, begun, written and ended by the plugin.
EngineSend(m) ==
    IF engine = Idle THEN wire' = Append(wire, m) /\ UNCHANGED engine
    ELSE engine' = Broken /\ UNCHANGED wire

-----------------------------------------------------------------------------
(* CMatchMessage *)

\* The recorder's hook is registered.
Listening == \E t \in m_Hook : Function[t] = "SayText"

\* Called for each map; a type hooked before is hooked again.
RegisterHook(t) ==
    /\ game = Idle
    /\ m_Hook' = m_Hook \cup {t}
    /\ unheard' = IF Listening THEN unheard ELSE Len(wire)
    /\ UNCHANGED <<m_MsgId, m_Data, game, engine, wire, said>>

\* As a message that keeps the parameters of the one before.
Held_Stale(t, to) == [Type |-> t, To |-> to, Params |-> m_Data.Params]

\* m_Data when a hooked message begins.
Held(t, to) == [Type |-> t, To |-> to, Params |-> << >>]

MessageBegin(t, to) ==
    /\ game = Idle
    /\ Len(wire) < MaxMessages
    /\ game' = [Type |-> t, To |-> to, Params |-> << >>]
    /\ \/ t \in m_Hook /\ m_MsgId' = t /\ m_Data' = Held(t, to) /\ UNCHANGED engine
       \/ t \notin m_Hook /\ m_MsgId' = Idle /\ EngineBegin(game') /\ UNCHANGED m_Data
    /\ UNCHANGED <<m_Hook, wire, said, unheard>>

\* As a parameter whose other fields are left uninitialized.
Stored_NoZero(p) ==
    [Type |-> p.Type,
     Value |-> [f \in Fields |-> IF f = Field(p.Type) THEN p.Value ELSE Null]]

\* A parameter as the Write functions store it: one field set, the rest zero.
Stored(p) ==
    [Type |-> p.Type,
     Value |-> [f \in Fields |-> IF f = Field(p.Type) THEN p.Value ELSE Zero]]

\* As a parameter held back that also goes to the engine.
Hold_Twice(p) ==
    /\ m_Data' = [m_Data EXCEPT !.Params = Append(@, Stored(p))]
    /\ EngineWrite(p)

\* The parameter is held back, and the call to the engine superseded.
Hold(p) ==
    /\ m_Data' = [m_Data EXCEPT !.Params = Append(@, Stored(p))]
    /\ UNCHANGED engine

\* WriteByte, WriteChar, ... WriteEntity.
Write(p) ==
    /\ game # Idle
    /\ Len(game.Params) < Len(Written) /\ p \in Written[Len(game.Params) + 1]
    /\ game' = [game EXCEPT !.Params = Append(@, p)]
    /\ \/ m_MsgId # Idle /\ Hold(p)
       \/ m_MsgId = Idle /\ EngineWrite(p) /\ UNCHANGED m_Data
    /\ UNCHANGED <<m_Hook, m_MsgId, wire, said, unheard>>

\* What reading the parameter q may give: the field of its type, as it was set;
\* a string that has no end in its field, with what follows, other at each time.
Readings(q) ==
    IF q.Type = "STRING" THEN Reads[q.Value["szValue"]] ELSE {q.Value[Field(q.Type)]}

\* GetByte, GetChar, ... GetEntity: the parameter, if it is of the type asked
\* for, or else 0, or nullptr for a string; the code counts from 0.
Get(type, id) ==
    IF id + 1 \in DOMAIN m_Data.Params /\ m_Data.Params[id + 1].Type = type
    THEN Readings(m_Data.Params[id + 1])
    ELSE {IF type = "STRING" THEN Null ELSE Zero}

\* As a SetArg that makes the parameter it does not find.
SetArg_Create(params, id, f, v) ==
    IF id + 1 \notin DOMAIN params
    THEN Append(params, [Type |-> "BYTE", Value |-> [g \in Fields |-> Zero]])
    ELSE [params EXCEPT ![id + 1].Value[f] = v]

\* SetArgInt, SetArgFloat and SetArgString set a field whatever the type.
SetArg(params, id, f, v) ==
    IF id + 1 \notin DOMAIN params THEN params
    ELSE [params EXCEPT ![id + 1].Value[f] = v]

\* What is recorded of a line whose format and text are read as given.
Heard(format, text) ==
    IF m_Data.To \in OnSide /\ format \in ForAll /\ text # Null
    THEN Append(said, <<m_Data.To, text>>) ELSE said

\* As a chat line read from the parameter before the text.
SayText_Name ==
    \E format \in Get("STRING", 1), text \in Get("STRING", 2) :
       said' = Heard(format, text)

\* The recorder's hook: it looks at a chat line and never blocks it.
SayText ==
    \E format \in Get("STRING", 1), text \in Get("STRING", 3) :
       said' = Heard(format, text)

\* The message held back with the parameters params, replayed with the values read.
Replay(params, read) ==
    [Type |-> m_Data.Type, To |-> m_Data.To,
     Params |-> [i \in DOMAIN params |-> [Type |-> params[i].Type, Value |-> read[i]]]]

\* The replay: every parameter is read and written to the engine.
Send(params) ==
    \E read \in [DOMAIN params -> Values] :
       /\ \A i \in DOMAIN params : read[i] \in Readings(params[i])
       /\ EngineSend(Replay(params, read))

\* The call of a hook's function: the recorder's, or one that may set an
\* argument, and block the message.
CallHook ==
    \/ /\ Function[m_MsgId] = "SayText"
       /\ SayText
       /\ Send(m_Data.Params)
       /\ UNCHANGED m_Data
    \/ /\ Function[m_MsgId] = "Filter"
       /\ \E id \in 0 .. Len(m_Data.Params), f \in Fields, v \in Settable :
             m_Data' = [m_Data EXCEPT !.Params = SetArg(@, id, f, v)]
       /\ Send(m_Data'.Params) \/ UNCHANGED <<engine, wire>>
       /\ UNCHANGED said

MessageEnd ==
    /\ game # Idle
    /\ game' = Idle
    /\ m_MsgId' = Idle
    /\ \/ m_MsgId # Idle /\ CallHook
       \/ m_MsgId = Idle /\ EngineEnd /\ UNCHANGED <<m_Data, said>>
    /\ UNCHANGED <<m_Hook, unheard>>

Next ==
    \/ \E t \in DOMAIN Function : RegisterHook(t)
    \/ \E t \in Types, to \in Targets : MessageBegin(t, to)
    \/ \E n \in DOMAIN Written : \E p \in Written[n] : Write(p)
    \/ MessageEnd

Spec == Init /\ [][Next]_vars

-----------------------------------------------------------------------------
(* Properties *)

\* The parts have their types; a message is held only for a hooked type.
TypeOK ==
    /\ m_Hook \subseteq DOMAIN Function
    /\ m_MsgId \in DOMAIN Function \cup {Idle}
    /\ m_Data \in Copy
    /\ game \in Message \cup {Idle}
    /\ engine \in Message \cup {Idle, Broken}
    /\ wire \in Seq(Message)
    /\ unheard \in 0 .. Len(wire)

\* The engine is never given half a message, nor one inside another: every call
\* of a held message is superseded, from its Begin to its End.
EngineUnbroken == engine # Broken

\* While a message is held back the engine knows nothing of it, and the copy
\* has the type, target and layout of what the game wrote.
HeldIsComposed ==
    IF game # Idle /\ m_MsgId # Idle
    THEN /\ engine = Idle
         /\ m_MsgId = game.Type
         /\ m_Data.Type = game.Type /\ m_Data.To = game.To
         /\ Len(m_Data.Params) = Len(game.Params)
         /\ \A i \in DOMAIN game.Params : m_Data.Params[i] = Stored(game.Params[i])
    ELSE m_MsgId = Idle /\ engine = game

\* Chat lines for all that reached players of a side.
IsLine(m) ==
    /\ m.Type \in DOMAIN Function /\ Function[m.Type] = "SayText"
    /\ m.To \in OnSide
    /\ Len(m.Params) >= 4
    /\ m.Params[2].Type = "STRING" /\ m.Params[2].Value \in ForAll
    /\ m.Params[4].Type = "STRING"

\* How many such lines were sent, of the first n messages, since the hook is registered.
LinesTo(n) == Cardinality({i \in unheard + 1 .. n : IsLine(wire[i])})

\* The same text, or one that has no end in its field and is read twice.
SameText(a, b) == a = b \/ {a, b} \cap Fits = {}

\* The recorder hears what the players read: once its hook is registered, every line
\* for all that reaches a player is recorded for that player, once and in order, and
\* nothing else is; the text is the one that arrives, if it fits.
HearsWhatArrives ==
    IF Listening
    THEN /\ Len(said) = LinesTo(Len(wire))
         /\ \A i \in unheard + 1 .. Len(wire) : IsLine(wire[i]) =>
               /\ said[LinesTo(i)][1] = wire[i].To
               /\ SameText(said[LinesTo(i)][2], wire[i].Params[4].Value)
    ELSE said = << >>

\* The plugin is invisible to the game and its clients: the detailed machine implements
\* a plain stream of messages in which a string may arrive as it is read of szValue.
Stream == INSTANCE MessageStream
    WITH draft <- game, Arrives <- Reads,
         Filtered <- {t \in DOMAIN Function : Function[t] = "Filter"}
StreamSpec == Stream!Spec

\* The same with every string arriving as it was written: so it is while all strings fit.
Plain == INSTANCE MessageStream
    WITH draft <- game, Arrives <- [v \in Values |-> {v}],
         Filtered <- {t \in DOMAIN Function : Function[t] = "Filter"}
Transparent == Plain!Spec
=============================================================================
