---------------------------- MODULE MessageProofs ----------------------------
(***************************************************************************)
(* Proofs that the message hook is invisible: whatever the messages, their  *)
(* parameters and the hooks, it never breaks the engine's protocol, and it  *)
(* implements the plain stream of messages; and complete: the recorder      *)
(* hears every chat line that arrives.                                      *)
(***************************************************************************)
EXTENDS MatchMessage, FiniteSetTheorems, TLAPS

\* The strengthening: while a message is held the copy mirrors the original,
\* otherwise the engine has exactly what the game wrote.
Inv == TypeOK /\ EngineUnbroken /\ HeldIsComposed

\* A parameter as it is stored fits its field.
LEMMA StoredType ==
    ASSUME NEW p \in Param
    PROVE  Stored(p) \in Buffered
  BY MessageAssumption DEF MessageAssumption, Stored, Param, Buffered, Fields

\* The field of a type is one of the three.
LEMMA FieldType ==
    ASSUME NEW t \in ParamTypes
    PROVE  Field(t) \in Fields
  BY DEF Field, Fields, ParamTypes

\* Setting an argument keeps the layout of the parameters.
LEMMA SetArgKeeps ==
    ASSUME NEW params \in Seq(Buffered), NEW id, NEW f \in Fields, NEW v \in Values
    PROVE  /\ SetArg(params, id, f, v) \in Seq(Buffered)
           /\ Len(SetArg(params, id, f, v)) = Len(params)
           /\ \A i \in 1 .. Len(params) :
                 SetArg(params, id, f, v)[i].Type = params[i].Type
  <1>1. CASE id + 1 \notin DOMAIN params
    BY <1>1 DEF SetArg
  <1>2. CASE id + 1 \in DOMAIN params
    <2> DEFINE n == id + 1
    <2>2. n \in 1 .. Len(params) /\ params[n] \in Buffered
      BY <1>2
    <2>3. [params[n] EXCEPT !.Value[f] = v] \in Buffered
      BY <2>2 DEF Buffered
    <2>4. [params[n] EXCEPT !.Value[f] = v].Type = params[n].Type
      BY <2>2 DEF Buffered
    <2>5. SetArg(params, id, f, v) = [params EXCEPT ![n] = [params[n] EXCEPT !.Value[f] = v]]
      BY <1>2 DEF SetArg
    <2> HIDE DEF n
    <2> QED
      BY <2>2, <2>3, <2>4, <2>5
  <1> QED
    BY <1>1, <1>2

\* What is read of a string, however often, is the string, or is never one that fits.
LEMMA StringReads ==
    ASSUME NEW v \in Values, NEW a \in Reads[v], NEW b \in Reads[v]
    PROVE  /\ a \in Values /\ b \in Values
           /\ v \in Fits => a = v
           /\ SameText(a, b)
           /\ a \in ForAll <=> b \in ForAll
  <1>1. Reads[v] \subseteq Values /\ ForAll \subseteq Fits
    BY MessageAssumption DEF MessageAssumption
  <1>2. CASE v \in Fits
    <2>1. Reads[v] = {v}
      BY <1>2, MessageAssumption DEF MessageAssumption
    <2> QED
      BY <1>1, <2>1 DEF SameText
  <1>3. CASE v \notin Fits
    <2>1. Reads[v] \cap Fits = {}
      BY <1>3, MessageAssumption DEF MessageAssumption
    <2> QED
      BY <1>1, <1>3, <2>1 DEF SameText
  <1> QED
    BY <1>2, <1>3

\* What is replayed is a message with the layout of what was held.
LEMMA ReplayType ==
    ASSUME NEW params \in Seq(Buffered), m_Data.Type \in Types, m_Data.To \in Targets,
           NEW read \in [DOMAIN params -> Values]
    PROVE  LET n == Replay(params, read)
           IN  /\ n \in Message /\ n.Type = m_Data.Type /\ n.To = m_Data.To
               /\ DOMAIN n.Params = DOMAIN params
               /\ \A i \in DOMAIN params :
                     n.Params[i].Type = params[i].Type /\ n.Params[i].Value = read[i]
  <1>1. ASSUME NEW i \in 1 .. Len(params)
        PROVE  [Type |-> params[i].Type, Value |-> read[i]] \in Param
    <2>1. params[i] \in Buffered /\ read[i] \in Values
      OBVIOUS
    <2> QED
      BY <2>1 DEF Buffered, Param
  <1>2. Replay(params, read).Params \in Seq(Param)
    BY <1>1 DEF Replay
  <1> QED
    BY <1>2 DEF Replay, Message

\* Messages are told apart from the marks Idle and Broken.
LEMMA MessageApart ==
    /\ \A m \in Message : m # Idle /\ m # Broken
    /\ \A t \in Types : t # Idle
    /\ DOMAIN Function \subseteq Types
    /\ Idle # Broken
  BY MessageAssumption DEF MessageAssumption

\* A message begun, and one with a parameter more, are messages.
LEMMA NewMessage ==
    ASSUME NEW t \in Types, NEW to \in Targets
    PROVE  [Type |-> t, To |-> to, Params |-> << >>] \in Message
  BY DEF Message

LEMMA LongerMessage ==
    ASSUME NEW m \in Message, NEW p \in Param
    PROVE  /\ [m EXCEPT !.Params = Append(@, p)] \in Message
           /\ [m EXCEPT !.Params = Append(@, p)].Params = Append(m.Params, p)
           /\ [m EXCEPT !.Params = Append(@, p)].Type = m.Type
           /\ [m EXCEPT !.Params = Append(@, p)].To = m.To
  <1>1. m = [Type |-> m.Type, To |-> m.To, Params |-> m.Params]
    BY DEF Message
  <1>2. Append(m.Params, p) \in Seq(Param)
    BY DEF Message
  <1> QED
    BY <1>1, <1>2 DEF Message

\* Before the first message nothing is held and nothing is composed.
LEMMA InitInv == Init => Inv
  <1> SUFFICES ASSUME Init PROVE Inv
    OBVIOUS
  <1>1. m_Data \in Copy
    BY DEF Init, NoData, Copy
  <1>2. wire \in Seq(Message) /\ m_Hook \subseteq DOMAIN Function
    BY DEF Init
  <1>3. m_MsgId = Idle /\ game = Idle /\ engine = Idle /\ unheard \in 0 .. Len(wire)
    BY DEF Init
  <1> QED
    BY <1>1, <1>2, <1>3, MessageApart DEF Inv, TypeOK, EngineUnbroken, HeldIsComposed

LEMMA RegisterInv ==
    ASSUME Inv, NEW t \in DOMAIN Function, RegisterHook(t)
    PROVE  Inv'
  BY DEF Inv, TypeOK, EngineUnbroken, HeldIsComposed, RegisterHook, Stored

LEMMA BeginInv ==
    ASSUME Inv, NEW t \in Types, NEW to \in Targets, MessageBegin(t, to)
    PROVE  Inv'
  <1>1. game' \in Message /\ game' # Idle /\ game' # Broken
    BY NewMessage, MessageApart DEF MessageBegin
  <1>2. engine = Idle /\ m_MsgId = Idle
    BY DEF Inv, HeldIsComposed, MessageBegin
  <1>3. game' = [Type |-> t, To |-> to, Params |-> << >>]
        /\ UNCHANGED <<m_Hook, wire, unheard>>
    BY DEF MessageBegin
  <1>4. CASE t \in m_Hook
    <2>1. m_MsgId' = t /\ m_Data' = Held(t, to) /\ engine' = Idle
      BY <1>2, <1>4 DEF MessageBegin
    <2>2. t \in DOMAIN Function /\ t # Idle
      BY <1>4, MessageApart DEF Inv, TypeOK
    <2>3. m_Data' \in Copy
      BY <2>1 DEF Held, Copy
    <2>4. TypeOK'
      BY <1>1, <1>3, <2>1, <2>2, <2>3 DEF Inv, TypeOK
    <2>5. HeldIsComposed'
      <3>1. /\ m_Data'.Params = << >> /\ m_Data'.Type = t /\ m_Data'.To = to
            /\ game'.Params = << >> /\ game'.Type = t /\ game'.To = to
        BY <1>3, <2>1 DEF Held
      <3>2. DOMAIN game'.Params = {} /\ Len(m_Data'.Params) = Len(game'.Params)
        BY <3>1
      <3>3. \A i \in DOMAIN game'.Params : m_Data'.Params[i] = Stored(game'.Params[i])
        BY <3>2
      <3>4. engine' = Idle /\ m_MsgId' = game'.Type
        BY <2>1, <3>1
      <3>5. m_Data'.Type = game'.Type /\ m_Data'.To = game'.To
        BY <3>1
      <3>6. game' # Idle /\ m_MsgId' # Idle
        BY <1>1, <2>1, <2>2
      <3> QED
        BY <3>2, <3>3, <3>4, <3>5, <3>6, Zenon DEF HeldIsComposed, Stored
    <2> QED
      BY <2>1, <2>4, <2>5, MessageApart DEF Inv, EngineUnbroken
  <1>5. CASE t \notin m_Hook
    <2>1. m_MsgId' = Idle /\ engine' = game' /\ m_Data' = m_Data
      BY <1>2, <1>5 DEF MessageBegin, EngineBegin
    <2>2. TypeOK'
      BY <1>1, <1>3, <2>1 DEF Inv, TypeOK
    <2> QED
      BY <1>1, <2>1, <2>2 DEF Inv, EngineUnbroken, HeldIsComposed
  <1> QED
    BY <1>4, <1>5

\* The game writes parameters.
LEMMA WrittenParam ==
    ASSUME Inv, NEW p, Write(p)
    PROVE  p \in Param
  <1>1. game.Params \in Seq(Param)
    BY DEF Write, Inv, TypeOK, Message
  <1>2. Len(game.Params) + 1 \in 1 .. Len(Written)
    BY <1>1, MessageAssumption DEF MessageAssumption, Write
  <1> QED
    BY <1>2, MessageAssumption DEF MessageAssumption, Write

LEMMA WriteInv ==
    ASSUME Inv, NEW p, Write(p)
    PROVE  Inv'
  <1>1. p \in Param /\ game \in Message /\ game # Idle
    BY WrittenParam DEF Write, Inv, TypeOK
  <1>2. /\ game' \in Message /\ game'.Type = game.Type /\ game'.To = game.To
        /\ game'.Params = Append(game.Params, p)
        /\ game' # Idle /\ game' # Broken
    BY <1>1, LongerMessage, MessageApart DEF Write
  <1>3. UNCHANGED <<m_Hook, m_MsgId, wire, unheard>>
    BY DEF Write
  <1>4. CASE m_MsgId # Idle
    <2>1. m_Data' = [m_Data EXCEPT !.Params = Append(@, Stored(p))] /\ engine' = engine
      BY <1>4 DEF Write, Hold
    <2>2. Stored(p) \in Buffered
      BY <1>1, StoredType
    <2>3. /\ m_Data \in Copy /\ m_Data.Params \in Seq(Buffered) /\ engine = Idle
          /\ m_MsgId = game.Type /\ m_Data.Type = game.Type /\ m_Data.To = game.To
          /\ Len(m_Data.Params) = Len(game.Params)
          /\ \A i \in DOMAIN game.Params : m_Data.Params[i] = Stored(game.Params[i])
      BY <1>1, <1>4 DEF Inv, TypeOK, HeldIsComposed, Copy
    <2>4. /\ m_Data' \in Copy
          /\ m_Data'.Params = Append(m_Data.Params, Stored(p))
          /\ m_Data'.Type = m_Data.Type /\ m_Data'.To = m_Data.To
      <3>1. Append(m_Data.Params, Stored(p)) \in Seq(Buffered)
        BY <2>2, <2>3
      <3> QED
        BY <2>1, <2>3, <3>1 DEF Copy
    <2>5. game.Params \in Seq(Param)
      BY <1>1 DEF Message
    <2>6. Len(m_Data'.Params) = Len(game'.Params)
      BY <1>2, <2>2, <2>3, <2>4, <2>5
    <2>7. \A i \in DOMAIN game'.Params : m_Data'.Params[i] = Stored(game'.Params[i])
      BY <1>2, <2>2, <2>3, <2>4, <2>5
    <2>8. TypeOK'
      BY <1>2, <1>3, <2>1, <2>4 DEF Inv, TypeOK
    <2>9. HeldIsComposed'
      BY <1>2, <1>3, <1>4, <2>1, <2>3, <2>4, <2>6, <2>7 DEF HeldIsComposed, Stored
    <2> QED
      BY <2>1, <2>3, <2>8, <2>9, MessageApart DEF Inv, EngineUnbroken
  <1>5. CASE m_MsgId = Idle
    <2>1. engine = game
      BY <1>5 DEF Inv, HeldIsComposed
    <2>2. engine' = game' /\ m_Data' = m_Data
      BY <1>1, <1>5, <2>1, MessageApart DEF Write, EngineWrite
    <2>3. TypeOK'
      BY <1>2, <1>3, <2>2 DEF Inv, TypeOK
    <2> QED
      BY <1>2, <1>3, <1>5, <2>2, <2>3 DEF Inv, EngineUnbroken, HeldIsComposed
  <1> QED
    BY <1>4, <1>5


\* A parameter is read as it was written, a string up to what follows it.
LEMMA StoredRead ==
    ASSUME NEW p \in Param
    PROVE  /\ Stored(p).Type = p.Type
           /\ Readings(Stored(p)) = IF p.Type = "STRING" THEN Reads[p.Value] ELSE {p.Value}
  BY FieldType DEF Stored, Readings, Field, Fields, Param

\* The message that comes of one held back: replayed as it may arrive, or, when
\* a hook that filters says so, nothing.
LEMMA HeldEnds ==
    ASSUME Inv, game # Idle, m_MsgId # Idle, CallHook
    PROVE  /\ m_Data' \in Copy /\ engine' = Idle
           /\ \/ Function[game.Type] = "Filter" /\ wire' = wire
              \/ \E n \in Message : wire' = Append(wire, n) /\ Stream!MayArrive(game, n)
  <1>1. /\ game \in Message /\ m_Data \in Copy /\ engine = Idle
        /\ game.Type \in DOMAIN Function
        /\ m_MsgId = game.Type /\ m_Data.Type = game.Type /\ m_Data.To = game.To
        /\ Len(m_Data.Params) = Len(game.Params)
        /\ \A i \in DOMAIN game.Params : m_Data.Params[i] = Stored(game.Params[i])
    BY DEF Inv, TypeOK, HeldIsComposed
  <1>2. /\ m_Data.Params \in Seq(Buffered) /\ game.Params \in Seq(Param)
        /\ m_Data.Type \in Types /\ m_Data.To \in Targets
    BY <1>1 DEF Copy, Message
  <1>3. /\ DOMAIN m_Data.Params = DOMAIN game.Params
        /\ DOMAIN game.Params = 1 .. Len(m_Data.Params)
        /\ \A i \in DOMAIN game.Params : game.Params[i] \in Param
    BY <1>1, <1>2
  <1>4. CASE Function[m_MsgId] = "SayText"
    <2>1. Send(m_Data.Params) /\ m_Data' = m_Data
      BY <1>4 DEF CallHook
    <2>2. PICK read \in [DOMAIN m_Data.Params -> Values] :
             /\ \A i \in DOMAIN m_Data.Params : read[i] \in Readings(m_Data.Params[i])
             /\ EngineSend(Replay(m_Data.Params, read))
      BY <2>1 DEF Send
    <2> DEFINE n == Replay(m_Data.Params, read)
    <2>3. /\ n \in Message /\ n.Type = game.Type /\ n.To = game.To
          /\ DOMAIN n.Params = DOMAIN game.Params
          /\ \A i \in DOMAIN game.Params :
                n.Params[i].Type = m_Data.Params[i].Type /\ n.Params[i].Value = read[i]
      BY <1>1, <1>2, <1>3, ReplayType
    <2>4. wire' = Append(wire, n) /\ engine' = Idle
      BY <1>1, <2>2 DEF EngineSend
    <2> HIDE DEF n
    <2>5. ASSUME NEW i \in DOMAIN game.Params
          PROVE  /\ n.Params[i].Type = game.Params[i].Type
                 /\ \/ n.Params[i].Value = game.Params[i].Value
                    \/ /\ game.Params[i].Type = "STRING"
                       /\ n.Params[i].Value \in Reads[game.Params[i].Value]
      <3>1. m_Data.Params[i] = Stored(game.Params[i]) /\ game.Params[i] \in Param
        BY <1>1, <1>3
      <3>2. read[i] \in Readings(Stored(game.Params[i]))
        BY <1>3, <2>2, <3>1
      <3> QED
        BY <2>3, <3>1, <3>2, StoredRead
    <2>6. Stream!MayArrive(game, n)
      BY <2>3, <2>5 DEF Stream!MayArrive
    <2> QED
      BY <1>1, <2>1, <2>3, <2>4, <2>6
  <1>5. CASE Function[m_MsgId] = "Filter"
    <2>1. PICK id \in 0 .. Len(m_Data.Params), f \in Fields, v \in Settable :
             m_Data' = [m_Data EXCEPT !.Params = SetArg(@, id, f, v)]
      BY <1>5 DEF CallHook
    <2> DEFINE params == SetArg(m_Data.Params, id, f, v)
    <2>2. /\ params \in Seq(Buffered) /\ Len(params) = Len(m_Data.Params)
          /\ \A i \in 1 .. Len(m_Data.Params) : params[i].Type = m_Data.Params[i].Type
      BY <1>2, SetArgKeeps, MessageAssumption DEF MessageAssumption
    <2>3. m_Data' = [m_Data EXCEPT !.Params = params]
      BY <2>1
    <2> HIDE DEF params
    <2>4. m_Data' \in Copy /\ m_Data'.Params = params
      BY <1>1, <2>2, <2>3 DEF Copy
    <2>5. Send(params) \/ UNCHANGED <<engine, wire>>
      BY <1>5, <2>4 DEF CallHook
    <2>6. ASSUME Send(params)
          PROVE  /\ engine' = Idle
                 /\ \E n \in Message : wire' = Append(wire, n) /\ Stream!MayArrive(game, n)
      <3>1. PICK read \in [DOMAIN params -> Values] : EngineSend(Replay(params, read))
        BY <2>6 DEF Send
      <3> DEFINE n == Replay(params, read)
      <3>2. /\ n \in Message /\ n.Type = game.Type /\ n.To = game.To
            /\ DOMAIN n.Params = DOMAIN game.Params
            /\ \A i \in DOMAIN game.Params : n.Params[i].Type = params[i].Type
        BY <1>1, <1>2, <1>3, <2>2, ReplayType
      <3>3. wire' = Append(wire, n) /\ engine' = Idle
        BY <1>1, <3>1 DEF EngineSend
      <3> HIDE DEF n
      <3>4. \A i \in DOMAIN game.Params : params[i].Type = game.Params[i].Type
        BY <1>1, <1>3, <2>2, StoredRead
      <3>5. Stream!MayArrive(game, n)
        BY <1>1, <1>5, <3>2, <3>4 DEF Stream!MayArrive
      <3> QED
        BY <3>2, <3>3, <3>5
    <2> QED
      BY <1>1, <1>5, <2>4, <2>5, <2>6
  <1> QED
    BY <1>4, <1>5 DEF CallHook

\* A message nobody hooked arrives as it was composed.
LEMMA PlainEnds ==
    ASSUME Inv, game # Idle, m_MsgId = Idle, EngineEnd
    PROVE  engine' = Idle /\ wire' = Append(wire, game) /\ Stream!MayArrive(game, game)
  <1>1. engine = game /\ game \in Message
    BY DEF Inv, TypeOK, HeldIsComposed
  <1>2. engine' = Idle /\ wire' = Append(wire, game)
    BY <1>1, MessageApart DEF EngineEnd
  <1> QED
    BY <1>2 DEF Stream!MayArrive

LEMMA EndInv ==
    ASSUME Inv, MessageEnd
    PROVE  Inv'
  <1>1. /\ game # Idle /\ game' = Idle /\ m_MsgId' = Idle
        /\ UNCHANGED <<m_Hook, unheard>>
    BY DEF MessageEnd
  <1>2. /\ m_Data' \in Copy /\ engine' = Idle
        /\ wire' \in Seq(Message) /\ unheard \in 0 .. Len(wire')
    <2>1. wire \in Seq(Message) /\ m_Data \in Copy /\ game \in Message
          /\ unheard \in 0 .. Len(wire)
      BY <1>1 DEF Inv, TypeOK
    <2>2. ASSUME NEW n \in Message
          PROVE  Append(wire, n) \in Seq(Message) /\ unheard \in 0 .. Len(Append(wire, n))
      BY <2>1
    <2>3. CASE m_MsgId # Idle
      BY <1>1, <2>1, <2>2, <2>3, HeldEnds DEF MessageEnd
    <2>4. CASE m_MsgId = Idle
      BY <1>1, <2>1, <2>2, <2>4, PlainEnds DEF MessageEnd
    <2> QED
      BY <2>3, <2>4
  <1> QED
    BY <1>1, <1>2, MessageApart DEF Inv, TypeOK, EngineUnbroken, HeldIsComposed

LEMMA NextInv == Inv /\ [Next]_vars => Inv'
  <1> SUFFICES ASSUME Inv, [Next]_vars PROVE Inv'
    OBVIOUS
  <1>1. CASE UNCHANGED vars
    BY <1>1 DEF vars, Inv, TypeOK, EngineUnbroken, HeldIsComposed, Stored
  <1>2. CASE Next
    BY <1>2, RegisterInv, BeginInv, WriteInv, EndInv DEF Next
  <1> QED
    BY <1>1, <1>2

\* The engine is never given half a message, nor one inside another.
THEOREM EngineSafe == Spec => []EngineUnbroken
  <1>1. Inv => EngineUnbroken
    BY DEF Inv
  <1> QED
    BY InitInv, NextInv, <1>1, PTL DEF Spec

\* While a message is held the copy mirrors it, whatever the parameters.
THEOREM HeldMirrors == Spec => []HeldIsComposed
  <1>1. Inv => HeldIsComposed
    BY DEF Inv
  <1> QED
    BY InitInv, NextInv, <1>1, PTL DEF Spec

\* A step of the hook is a step of the stream, or changes nothing of it.
LEMMA StepStreams == Inv /\ [Next]_vars => [Stream!Next]_<<game, wire>>
  <1> SUFFICES ASSUME Inv, Next PROVE Stream!Next \/ UNCHANGED <<game, wire>>
    BY DEF vars
  <1>1. ASSUME NEW t \in DOMAIN Function, RegisterHook(t) PROVE UNCHANGED <<game, wire>>
    BY <1>1 DEF RegisterHook
  <1>2. ASSUME NEW t \in Types, NEW to \in Targets, MessageBegin(t, to)
        PROVE  Stream!Begin
    BY <1>2 DEF MessageBegin, Stream!Begin
  <1>3. ASSUME NEW p, Write(p) PROVE Stream!Write
    BY <1>3, WrittenParam DEF Write, Stream!Write
  <1>4. ASSUME MessageEnd PROVE Stream!End
    <2>1. game # Idle /\ game' = Idle /\ game \in Message /\ wire \in Seq(Message)
      BY <1>4 DEF MessageEnd, Inv, TypeOK
    <2>2. ASSUME NEW n \in Message, wire' = Append(wire, n), Stream!MayArrive(game, n)
          PROVE  Stream!End
      <3>1. wire'[Len(wire) + 1] = n
        BY <2>1, <2>2
      <3> QED
        BY <2>1, <2>2, <3>1 DEF Stream!End
    <2>3. CASE m_MsgId # Idle
      <3>1. \/ Function[game.Type] = "Filter" /\ wire' = wire
            \/ \E n \in Message : wire' = Append(wire, n) /\ Stream!MayArrive(game, n)
        BY <1>4, <2>1, <2>3, HeldEnds DEF MessageEnd
      <3>2. game.Type \in DOMAIN Function
        BY <2>1, <2>3 DEF Inv, TypeOK, HeldIsComposed
      <3> QED
        BY <2>1, <2>2, <3>1, <3>2 DEF Stream!End
    <2>4. CASE m_MsgId = Idle
      BY <1>4, <2>1, <2>2, <2>4, PlainEnds DEF MessageEnd
    <2> QED
      BY <2>3, <2>4
  <1> QED
    BY <1>1, <1>2, <1>3, <1>4 DEF Next, Stream!Next

\* The hook loses, doubles, reorders and mixes up nothing: every step of it is a step of
\* the plain stream of messages, or changes nothing the game and the engine see; only a
\* string may arrive as something else, if it is too long for szValue.
THEOREM Implements == Spec => StreamSpec
  <1>1. Init => Stream!Init
    BY DEF Init, Stream!Init
  <1>2. Inv /\ [Next]_vars => [Stream!Next]_<<game, wire>>
    BY StepStreams
  <1> QED
    BY InitInv, NextInv, <1>1, <1>2, PTL DEF Spec, StreamSpec, Stream!Spec

-----------------------------------------------------------------------------
(* Where strings fit *)

\* The game writes no string of 200 bytes or more.
ShortStrings ==
    \A n \in DOMAIN Written : \A p \in Written[n] : p.Type = "STRING" => p.Value \in Fits

DraftFits ==
    game # Idle => \A i \in DOMAIN game.Params :
        game.Params[i].Type = "STRING" => game.Params[i].Value \in Fits

\* Then no message being composed has one.
LEMMA DraftFitsStep ==
    ASSUME ShortStrings, Inv, DraftFits, [Next]_vars
    PROVE  DraftFits'
  <1>1. ASSUME NEW t \in DOMAIN Function, RegisterHook(t) PROVE DraftFits'
    BY <1>1 DEF RegisterHook, DraftFits
  <1>2. ASSUME NEW t \in Types, NEW to \in Targets, MessageBegin(t, to) PROVE DraftFits'
    BY <1>2 DEF MessageBegin, DraftFits
  <1>3. ASSUME NEW p, Write(p) PROVE DraftFits'
    <2>1. /\ game \in Message /\ game # Idle /\ p \in Param /\ game.Params \in Seq(Param)
          /\ game' = [game EXCEPT !.Params = Append(@, p)]
          /\ Len(game.Params) < Len(Written) /\ p \in Written[Len(game.Params) + 1]
      BY <1>3, WrittenParam DEF Write, Inv, TypeOK, Message
    <2>2. Len(game.Params) + 1 \in DOMAIN Written
      BY <2>1, MessageAssumption DEF MessageAssumption
    <2>3. p.Type = "STRING" => p.Value \in Fits
      BY <2>1, <2>2 DEF ShortStrings
    <2>4. game'.Params = Append(game.Params, p)
      BY <2>1, LongerMessage
    <2> QED
      BY <2>1, <2>3, <2>4 DEF DraftFits
  <1>4. CASE MessageEnd
    BY <1>4 DEF MessageEnd, DraftFits
  <1>5. CASE UNCHANGED vars
    BY <1>5 DEF vars, DraftFits
  <1> QED
    BY <1>1, <1>2, <1>3, <1>4, <1>5 DEF Next

\* A string that fits is read as it was written.
LEMMA FitsArrives ==
    ASSUME Inv, DraftFits, game # Idle, NEW n, Stream!MayArrive(game, n)
    PROVE  Plain!MayArrive(game, n)
  <1>1. game.Params \in Seq(Param)
    BY DEF Inv, TypeOK, Message
  <1>2. ASSUME NEW i \in DOMAIN game.Params, game.Params[i].Type = "STRING",
               n.Params[i].Value \in Reads[game.Params[i].Value]
        PROVE  n.Params[i].Value = game.Params[i].Value
    <2>1. game.Params[i].Value \in Fits
      BY <1>2 DEF DraftFits
    <2> QED
      BY <1>2, <2>1, MessageAssumption DEF MessageAssumption
  <1> QED
    BY <1>1, <1>2 DEF Stream!MayArrive, Plain!MayArrive

\* Where the game writes no string of 200 bytes or more the hook is invisible: what
\* reaches the clients is what was composed.
THEOREM ShortStringsPass == ASSUME ShortStrings PROVE Spec => Transparent
  <1>1. Init => Plain!Init /\ DraftFits
    BY DEF Init, Plain!Init, DraftFits
  <1>2. Inv /\ DraftFits /\ [Next]_vars => DraftFits'
    BY DraftFitsStep
  <1>3. Inv /\ DraftFits /\ [Next]_vars => [Plain!Next]_<<game, wire>>
    <2> SUFFICES ASSUME Inv, DraftFits, [Next]_vars PROVE [Plain!Next]_<<game, wire>>
      OBVIOUS
    <2>1. CASE Stream!Begin
      BY <2>1 DEF Stream!Begin, Plain!Begin, Plain!Next
    <2>2. CASE Stream!Write
      BY <2>2 DEF Stream!Write, Plain!Write, Plain!Next
    <2>3. CASE Stream!End
      BY <2>3, FitsArrives DEF Stream!End, Plain!End, Plain!Next
    <2>4. CASE UNCHANGED <<game, wire>>
      BY <2>4
    <2> QED
      BY <2>1, <2>2, <2>3, <2>4, StepStreams DEF Stream!Next
  <1> QED
    BY InitInv, NextInv, <1>1, <1>2, <1>3, PTL DEF Spec, Transparent, Plain!Spec

-----------------------------------------------------------------------------
(* Types *)

\* Every variable of the hook, the game and the engine keeps its type.
THEOREM MessageTypes == Spec => []TypeOK
  <1>1. Inv => TypeOK
    BY DEF Inv
  <1> QED
    BY InitInv, NextInv, <1>1, PTL DEF Spec

-----------------------------------------------------------------------------
(* What the recorder hears *)

\* Lines among the first n messages after the first b.
Lines(messages, b, n) == Cardinality({i \in b + 1 .. n : IsLine(messages[i])})

\* What is heard is the lines after the first b messages.
AllHeard(messages, lines, b) ==
    /\ Len(lines) = Lines(messages, b, Len(messages))
    /\ \A i \in b + 1 .. Len(messages) : IsLine(messages[i]) =>
          /\ lines[Lines(messages, b, i)][1] = messages[i].To
          /\ SameText(lines[Lines(messages, b, i)][2], messages[i].Params[4].Value)

LEMMA LinesCounted ==
    ASSUME NEW messages, NEW n \in Nat, NEW b \in Nat, NEW i \in 0 .. n
    PROVE  /\ IsFiniteSet({k \in b + 1 .. n : IsLine(messages[k])})
           /\ Lines(messages, b, i) \in Nat /\ Lines(messages, b, n) \in Nat
           /\ Lines(messages, b, i) <= Lines(messages, b, n)
           /\ IsLine(messages[i]) /\ i > b => Lines(messages, b, i) >= 1
  <1> DEFINE S(m) == {k \in b + 1 .. m : IsLine(messages[k])}
  <1>1. S(n) \in SUBSET (b + 1 .. n) /\ S(i) \in SUBSET S(n)
    OBVIOUS
  <1>2. IsFiniteSet(S(n))
    <2>1. IsFiniteSet(b + 1 .. n)
      BY FS_Interval
    <2> HIDE DEF S
    <2> QED
      BY <1>1, <2>1, FS_Subset
  <1>3. IsFiniteSet(S(i)) /\ Cardinality(S(i)) <= Cardinality(S(n))
    BY <1>1, <1>2, FS_Subset
  <1>4. ASSUME IsLine(messages[i]), i > b PROVE Cardinality(S(i)) >= 1
    <2>1. i \in S(i)
      BY <1>4
    <2> HIDE DEF S
    <2>2. Cardinality(S(i)) # 0 /\ Cardinality(S(i)) \in Nat
      BY <1>3, <2>1, FS_EmptySet, FS_CardinalityType
    <2> QED
      BY <2>2
  <1> QED
    BY <1>2, <1>3, <1>4, FS_CardinalityType DEF Lines

\* A message more leaves the numbers of the earlier lines, and adds one if it is a line.
LEMMA LinesAppended ==
    ASSUME NEW S, NEW messages \in Seq(S), NEW m \in S, NEW b \in 0 .. Len(messages)
    PROVE  LET n == Len(messages)
               more == Append(messages, m)
           IN  /\ n \in Nat /\ Len(more) = n + 1 /\ more[n + 1] = m
               /\ \A i \in 1 .. n : more[i] = messages[i]
               /\ \A i \in 0 .. n : Lines(more, b, i) = Lines(messages, b, i)
               /\ Lines(more, b, n + 1)
                     = Lines(messages, b, n) + (IF IsLine(m) THEN 1 ELSE 0)
  <1> DEFINE n == Len(messages)
             more == Append(messages, m)
             old == {k \in b + 1 .. n : IsLine(messages[k])}
             new == {k \in b + 1 .. n + 1 : IsLine(more[k])}
  <1>1. /\ n \in Nat /\ b \in Nat /\ b <= n
        /\ Len(more) = n + 1 /\ more[n + 1] = m
        /\ \A i \in 1 .. n : more[i] = messages[i]
    OBVIOUS
  <1> HIDE DEF n, more
  <1>2. ASSUME NEW i \in 0 .. n
        PROVE  Lines(more, b, i) = Lines(messages, b, i)
    <2>1. \A k \in b + 1 .. i : more[k] = messages[k]
      BY <1>1
    <2>2. {k \in b + 1 .. i : IsLine(more[k])} = {k \in b + 1 .. i : IsLine(messages[k])}
      BY <2>1
    <2> QED
      BY <2>2 DEF Lines
  <1>3. \A k \in b + 1 .. n + 1 : (k \in b + 1 .. n /\ k \in 1 .. n) \/ k = n + 1
    BY <1>1
  <1>4. /\ n + 1 \in b + 1 .. n + 1 /\ n + 1 \notin b + 1 .. n
        /\ b + 1 .. n \subseteq b + 1 .. n + 1
    BY <1>1
  <1>5. new = IF IsLine(m) THEN old \cup {n + 1} ELSE old
    BY <1>1, <1>3, <1>4
  <1>6. n + 1 \notin old /\ IsFiniteSet(old) /\ Cardinality(old) \in Nat
    <2>1. n \in 0 .. n
      BY <1>1
    <2>2. IsFiniteSet(old)
      BY <1>1, <2>1, LinesCounted
    <2> QED
      BY <1>4, <2>2, FS_CardinalityType
  <1> HIDE DEF old, new
  <1>7. Cardinality(new) = Cardinality(old) + (IF IsLine(m) THEN 1 ELSE 0)
    <2>1. Cardinality(old \cup {n + 1}) = Cardinality(old) + 1
      BY <1>6, FS_AddElement
    <2> QED
      BY <1>5, <1>6, <2>1
  <1> QED
    BY <1>1, <1>2, <1>7 DEF n, more, old, new, Lines

\* A message that is no line changes nothing about the lines.
LEMMA HeardOther ==
    ASSUME NEW S, NEW messages \in Seq(S), NEW m \in S, NEW lines,
           NEW b \in 0 .. Len(messages), AllHeard(messages, lines, b), ~IsLine(m)
    PROVE  AllHeard(Append(messages, m), lines, b)
  <1> DEFINE n == Len(messages)
             more == Append(messages, m)
  <1>1. /\ n \in Nat /\ Len(more) = n + 1 /\ more[n + 1] = m
        /\ \A i \in 1 .. n : more[i] = messages[i]
        /\ \A i \in 0 .. n : Lines(more, b, i) = Lines(messages, b, i)
        /\ Lines(more, b, n + 1) = Lines(messages, b, n) + 0
    BY LinesAppended
  <1>2. Lines(messages, b, n) \in Nat
    <2>1. n \in 0 .. n /\ b \in Nat
      BY <1>1
    <2> HIDE DEF n
    <2> QED
      BY <1>1, <2>1, LinesCounted
  <1>3. /\ Len(lines) = Lines(messages, b, n)
        /\ \A i \in b + 1 .. n : IsLine(messages[i]) =>
              /\ lines[Lines(messages, b, i)][1] = messages[i].To
              /\ SameText(lines[Lines(messages, b, i)][2], messages[i].Params[4].Value)
    BY DEF AllHeard
  <1>4. b \in 0 .. n
    OBVIOUS
  <1> HIDE DEF n, more
  <1>5. \A i \in b + 1 .. n + 1 : IsLine(more[i]) => i \in b + 1 .. n /\ i \in 0 .. n
                                                      /\ i \in 1 .. n
    BY <1>1, <1>4
  <1>6. \A i \in b + 1 .. Len(more) : IsLine(more[i]) =>
           /\ lines[Lines(more, b, i)][1] = more[i].To
           /\ SameText(lines[Lines(more, b, i)][2], more[i].Params[4].Value)
    BY <1>1, <1>3, <1>5
  <1> QED
    BY <1>1, <1>2, <1>3, <1>6 DEF AllHeard, more

\* A line recorded as it is sent.
LEMMA HeardLine ==
    ASSUME NEW S, NEW messages \in Seq(S), NEW m \in S, NEW T, NEW lines \in Seq(T),
           NEW b \in 0 .. Len(messages), AllHeard(messages, lines, b), IsLine(m),
           NEW line \in T, line[1] = m.To, SameText(line[2], m.Params[4].Value)
    PROVE  AllHeard(Append(messages, m), Append(lines, line), b)
  <1> DEFINE n == Len(messages)
             more == Append(messages, m)
             heard == Append(lines, line)
             len == Len(lines)
  <1>1. /\ n \in Nat /\ Len(more) = n + 1 /\ more[n + 1] = m
        /\ \A i \in 1 .. n : more[i] = messages[i]
        /\ \A i \in 0 .. n : Lines(more, b, i) = Lines(messages, b, i)
        /\ Lines(more, b, n + 1) = Lines(messages, b, n) + 1
    BY LinesAppended
  <1>2. /\ len = Lines(messages, b, n)
        /\ \A i \in b + 1 .. n : IsLine(messages[i]) =>
              /\ lines[Lines(messages, b, i)][1] = messages[i].To
              /\ SameText(lines[Lines(messages, b, i)][2], messages[i].Params[4].Value)
    BY DEF AllHeard
  <1>3. /\ len \in Nat /\ Len(heard) = len + 1 /\ heard[len + 1] = line
        /\ \A k \in 1 .. len : heard[k] = lines[k]
    OBVIOUS
  <1>4. b \in 0 .. n
    OBVIOUS
  <1> HIDE DEF n, more, heard, len
  <1>5. \A i \in 0 .. n : /\ Lines(messages, b, i) \in Nat
                          /\ Lines(messages, b, i) <= len
                          /\ IsLine(messages[i]) /\ i > b => Lines(messages, b, i) >= 1
    <2>1. b \in Nat
      BY <1>1, <1>4
    <2> QED
      BY <1>1, <1>2, <2>1, LinesCounted
  <1>6. ASSUME NEW i \in b + 1 .. n + 1, IsLine(more[i])
        PROVE  /\ heard[Lines(more, b, i)][1] = more[i].To
               /\ SameText(heard[Lines(more, b, i)][2], more[i].Params[4].Value)
    <2>1. CASE i = n + 1
      BY <1>1, <1>2, <1>3, <2>1
    <2>2. CASE i # n + 1
      <3>1. i \in b + 1 .. n /\ i \in 0 .. n /\ i \in 1 .. n /\ i > b
        BY <1>1, <1>4, <2>2
      <3>2. more[i] = messages[i] /\ Lines(more, b, i) = Lines(messages, b, i)
        BY <1>1, <3>1
      <3>3. Lines(messages, b, i) \in 1 .. len
        BY <1>3, <1>5, <1>6, <3>1, <3>2
      <3> QED
        BY <1>2, <1>3, <1>6, <3>1, <3>2, <3>3
    <2> QED
      BY <2>1, <2>2
  <1>7. Len(heard) = Lines(more, b, Len(more))
    BY <1>1, <1>2, <1>3
  <1>8. AllHeard(more, heard, b)
    BY <1>1, <1>6, <1>7 DEF AllHeard
  <1> QED
    BY <1>8 DEF more, heard

\* A hook that was just registered has heard all there was to hear.
LEMMA HeardNothing ==
    ASSUME NEW S, NEW messages \in Seq(S)
    PROVE  AllHeard(messages, << >>, Len(messages))
  <1> DEFINE n == Len(messages)
  <1>1. n \in Nat
    OBVIOUS
  <1> HIDE DEF n
  <1>2. n + 1 .. n = {}
    BY <1>1
  <1>3. Lines(messages, n, n) = 0
    BY <1>2, FS_EmptySet DEF Lines
  <1> QED
    BY <1>2, <1>3 DEF AllHeard, n

\* A message is held back for its type, and one that is not was of no type hooked when
\* it was begun.
Hearing ==
    /\ said \in Seq(Targets \X Values)
    /\ ~Listening => said = << >>
    /\ m_MsgId # Idle => m_MsgId \in m_Hook
    /\ game # Idle /\ m_MsgId = Idle => game.Type \notin m_Hook

HInv == Inv /\ Hearing /\ (Listening => AllHeard(wire, said, unheard))

\* The hook asks for what the message is sent with, though it reads apart from the replay.
LEMMA SayTextHears ==
    ASSUME HInv, game # Idle, m_MsgId # Idle, Function[m_MsgId] = "SayText", SayText,
           NEW read \in [DOMAIN m_Data.Params -> Values],
           \A i \in DOMAIN m_Data.Params : read[i] \in Readings(m_Data.Params[i])
    PROVE  LET n == Replay(m_Data.Params, read)
           IN  /\ n \in Message
               /\ IsLine(n) => \E line \in Targets \X Values :
                                 /\ said' = Append(said, line)
                                 /\ line[1] = n.To
                                 /\ SameText(line[2], n.Params[4].Value)
               /\ ~IsLine(n) => said' = said
  <1> DEFINE n == Replay(m_Data.Params, read)
             ps == m_Data.Params
  <1>1. /\ m_Data \in Copy /\ m_Data.Type = m_MsgId /\ m_MsgId \in DOMAIN Function
        /\ game \in Message /\ m_Data.To = game.To
    BY DEF HInv, Inv, TypeOK, HeldIsComposed
  <1>2. /\ ps \in Seq(Buffered) /\ m_Data.Type \in Types /\ m_Data.To \in Targets
        /\ DOMAIN ps = 1 .. Len(ps) /\ Len(ps) \in Nat
    BY <1>1, MessageApart DEF Copy, Message
  <1>3. /\ n \in Message /\ n.Type = m_MsgId /\ n.To = m_Data.To
        /\ DOMAIN n.Params = DOMAIN ps
        /\ \A i \in DOMAIN ps : n.Params[i].Type = ps[i].Type /\ n.Params[i].Value = read[i]
    BY <1>1, <1>2, ReplayType
  <1>4. Len(n.Params) = Len(ps)
    <2>1. n.Params \in Seq(Param)
      BY <1>3 DEF Message
    <2> QED
      BY <1>2, <1>3, <2>1
  <1>5. PICK format \in Get("STRING", 1), text \in Get("STRING", 3) :
           said' = Heard(format, text)
    BY DEF SayText
  <1>6. Null \notin Values /\ ForAll \subseteq Values
    BY MessageAssumption DEF MessageAssumption
  <1>7. ASSUME NEW k \in {2, 4}, NEW x \in Get("STRING", k - 1)
        PROVE  IF k \in DOMAIN ps /\ ps[k].Type = "STRING"
               THEN /\ x \in Values /\ SameText(x, read[k])
                    /\ x \in ForAll <=> read[k] \in ForAll
               ELSE x = Null
    <2>1. k - 1 + 1 = k
      OBVIOUS
    <2>2. CASE k \in DOMAIN ps /\ ps[k].Type = "STRING"
      <3>1. ps[k] \in Buffered
        BY <1>2, <2>2
      <3>2. /\ ps[k].Value["szValue"] \in Values
            /\ Readings(ps[k]) = Reads[ps[k].Value["szValue"]]
        BY <2>2, <3>1 DEF Buffered, Fields, Readings
      <3>3. x \in Readings(ps[k]) /\ read[k] \in Readings(ps[k])
        BY <1>7, <2>1, <2>2 DEF Get
      <3> QED
        BY <2>2, <3>2, <3>3, StringReads
    <2>3. CASE ~(k \in DOMAIN ps /\ ps[k].Type = "STRING")
      BY <1>7, <2>1, <2>3 DEF Get
    <2> QED
      BY <2>2, <2>3
  <1>8. /\ IF 2 \in DOMAIN ps /\ ps[2].Type = "STRING"
           THEN format \in ForAll <=> read[2] \in ForAll ELSE format = Null
        /\ IF 4 \in DOMAIN ps /\ ps[4].Type = "STRING"
           THEN text \in Values /\ SameText(text, read[4]) ELSE text = Null
    <2>1. format \in Get("STRING", 2 - 1) /\ text \in Get("STRING", 4 - 1)
      BY <1>5
    <2> QED
      BY <1>7, <2>1
  <1> HIDE DEF n, ps
  <1>9. /\ Len(n.Params) >= 4 <=> 4 \in DOMAIN ps
        /\ 4 \in DOMAIN ps => 2 \in DOMAIN ps
    BY <1>2, <1>4
  <1>10. IsLine(n) <=> n.To \in OnSide /\ format \in ForAll /\ text # Null
    BY <1>1, <1>3, <1>6, <1>8, <1>9 DEF IsLine
  <1>11. IsLine(n) => text \in Values /\ SameText(text, n.Params[4].Value)
    BY <1>3, <1>6, <1>8, <1>10
  <1>12. said' = IF n.To \in OnSide /\ format \in ForAll /\ text # Null
                 THEN Append(said, <<n.To, text>>) ELSE said
    BY <1>3, <1>5 DEF Heard
  <1>13. n.To \in Targets
    BY <1>2, <1>3
  <1>14. ASSUME IsLine(n)
         PROVE  \E line \in Targets \X Values :
                   /\ said' = Append(said, line) /\ line[1] = n.To
                   /\ SameText(line[2], n.Params[4].Value)
    <2> DEFINE line == <<n.To, text>>
    <2>1. /\ line \in Targets \X Values /\ said' = Append(said, line)
          /\ line[1] = n.To /\ line[2] = text
      BY <1>10, <1>11, <1>12, <1>13, <1>14
    <2> QED
      BY <1>11, <1>14, <2>1
  <1>15. ~IsLine(n) => said' = said
    BY <1>10, <1>12
  <1> QED
    BY <1>3, <1>14, <1>15 DEF n

\* The end of a message, heard or not.
LEMMA EndHears ==
    ASSUME HInv, MessageEnd
    PROVE  Hearing' /\ (Listening' => AllHeard(wire', said', unheard))
  <1>1. /\ game # Idle /\ game' = Idle /\ m_MsgId' = Idle /\ m_Hook' = m_Hook
        /\ game \in Message /\ unheard \in 0 .. Len(wire) /\ Listening' = Listening
        /\ wire \in Seq(Message) /\ said \in Seq(Targets \X Values)
        /\ ~Listening => said = << >>
        /\ Listening => AllHeard(wire, said, unheard)
    BY DEF MessageEnd, HInv, Inv, TypeOK, Hearing, Listening
  <1>2. CASE m_MsgId = Idle
    <2>1. wire' = Append(wire, game) /\ said' = said
      BY <1>1, <1>2, PlainEnds DEF MessageEnd, HInv
    <2>2. game.Type \notin m_Hook
      BY <1>1, <1>2 DEF HInv, Hearing
    <2>3. Listening => ~IsLine(game)
      BY <2>2, MessageAssumption DEF MessageAssumption, IsLine, Listening, HInv, Inv, TypeOK
    <2>4. Listening => AllHeard(Append(wire, game), said, unheard)
      BY <1>1, <2>3, HeardOther
    <2> QED
      BY <1>1, <2>1, <2>4 DEF Hearing
  <1>3. CASE m_MsgId # Idle /\ Function[m_MsgId] = "SayText"
    <2>1. SayText /\ Send(m_Data.Params) /\ engine = Idle
      BY <1>1, <1>3 DEF MessageEnd, CallHook, HInv, Inv, HeldIsComposed
    <2>2. PICK read \in [DOMAIN m_Data.Params -> Values] :
             /\ \A i \in DOMAIN m_Data.Params : read[i] \in Readings(m_Data.Params[i])
             /\ EngineSend(Replay(m_Data.Params, read))
      BY <2>1 DEF Send
    <2> DEFINE n == Replay(m_Data.Params, read)
    <2>3. wire' = Append(wire, n)
      BY <2>1, <2>2 DEF EngineSend
    <2>4. /\ n \in Message
          /\ IsLine(n) => \E line \in Targets \X Values :
                            /\ said' = Append(said, line)
                            /\ line[1] = n.To
                            /\ SameText(line[2], n.Params[4].Value)
          /\ ~IsLine(n) => said' = said
      BY <1>1, <1>3, <2>1, <2>2, SayTextHears
    <2>5. Listening
      BY <1>3 DEF HInv, Hearing, Listening
    <2> HIDE DEF n
    <2>6. CASE IsLine(n)
      <3>1. PICK line \in Targets \X Values :
               /\ said' = Append(said, line) /\ line[1] = n.To
               /\ SameText(line[2], n.Params[4].Value)
        BY <2>4, <2>6
      <3>2. AllHeard(Append(wire, n), Append(said, line), unheard)
        BY <1>1, <2>4, <2>5, <2>6, <3>1, HeardLine
      <3> QED
        BY <1>1, <2>3, <2>5, <3>1, <3>2 DEF Hearing
    <2>7. CASE ~IsLine(n)
      <3>1. AllHeard(Append(wire, n), said, unheard)
        BY <1>1, <2>4, <2>5, <2>7, HeardOther
      <3> QED
        BY <1>1, <2>3, <2>4, <2>5, <2>7, <3>1 DEF Hearing
    <2> QED
      BY <2>6, <2>7
  <1>4. CASE m_MsgId # Idle /\ Function[m_MsgId] = "Filter"
    <2>1. said' = said /\ game.Type = m_MsgId
      BY <1>1, <1>4 DEF MessageEnd, CallHook, HInv, Inv, HeldIsComposed
    <2>2. \/ wire' = wire
          \/ \E n \in Message : wire' = Append(wire, n) /\ Stream!MayArrive(game, n)
      BY <1>1, <1>4, HeldEnds DEF MessageEnd, HInv
    <2>3. ASSUME NEW n \in Message, wire' = Append(wire, n), Stream!MayArrive(game, n),
                 Listening
          PROVE  AllHeard(wire', said, unheard)
      <3>1. ~IsLine(n)
        BY <1>4, <2>1, <2>3 DEF IsLine, Stream!MayArrive
      <3> QED
        BY <1>1, <2>3, <3>1, HeardOther
    <2> QED
      BY <1>1, <2>1, <2>2, <2>3 DEF Hearing
  <1> QED
    BY <1>2, <1>3, <1>4 DEF MessageEnd, CallHook

\* From the moment its hook is registered, whatever came before.
LEMMA RegisterHears ==
    ASSUME HInv, NEW t \in DOMAIN Function, RegisterHook(t)
    PROVE  Hearing' /\ (Listening' => AllHeard(wire', said', unheard'))
  <1>1. /\ m_Hook' = m_Hook \cup {t} /\ game = Idle /\ m_MsgId = Idle
        /\ UNCHANGED <<m_MsgId, game, wire, said>>
        /\ unheard' = IF Listening THEN unheard ELSE Len(wire)
    BY DEF RegisterHook, HInv, Inv, HeldIsComposed
  <1>2. wire \in Seq(Message)
    BY DEF HInv, Inv, TypeOK
  <1>3. CASE Listening
    <2>1. Listening'
      BY <1>1, <1>3 DEF Listening
    <2> QED
      BY <1>1, <1>3, <2>1 DEF HInv, Hearing
  <1>4. CASE ~Listening
    <2>1. said = << >>
      BY <1>4 DEF HInv, Hearing
    <2> QED
      BY <1>1, <1>2, <1>4, <2>1, HeardNothing DEF HInv, Hearing
  <1> QED
    BY <1>3, <1>4

LEMMA InitHInv == Init => HInv
  BY InitInv DEF Init, HInv, Hearing, Listening

LEMMA StepHInv == HInv /\ [Next]_vars => HInv'
  <1> SUFFICES ASSUME HInv, [Next]_vars
               PROVE  Hearing' /\ (Listening' => AllHeard(wire', said', unheard'))
    BY NextInv DEF HInv, AllHeard, Lines, IsLine, SameText
  <1>1. CASE MessageEnd
    BY <1>1, EndHears DEF MessageEnd
  <1>2. ASSUME NEW t \in DOMAIN Function, RegisterHook(t)
        PROVE  Hearing' /\ (Listening' => AllHeard(wire', said', unheard'))
    BY <1>2, RegisterHears
  <1>3. ASSUME NEW t \in Types, NEW to \in Targets, MessageBegin(t, to)
        PROVE  Hearing' /\ (Listening' => AllHeard(wire', said', unheard'))
    <2>1. game' = [Type |-> t, To |-> to, Params |-> << >>]
          /\ UNCHANGED <<m_Hook, wire, said, unheard>>
      BY <1>3 DEF MessageBegin
    <2>2. game'.Type = t
      BY <2>1
    <2>3. \/ t \in m_Hook /\ m_MsgId' = t
          \/ t \notin m_Hook /\ m_MsgId' = Idle
      BY <1>3 DEF MessageBegin
    <2> QED
      BY <2>1, <2>2, <2>3, MessageApart DEF HInv, Hearing, Listening
  <1>4. ASSUME NEW p, Write(p)
        PROVE  Hearing' /\ (Listening' => AllHeard(wire', said', unheard'))
    <2>1. game \in Message /\ game # Idle /\ p \in Param
      BY <1>4, WrittenParam DEF Write, HInv, Inv, TypeOK
    <2>2. game'.Type = game.Type /\ UNCHANGED <<m_Hook, m_MsgId, wire, said, unheard>>
      BY <1>4, <2>1, LongerMessage DEF Write
    <2> QED
      BY <2>1, <2>2 DEF HInv, Hearing, Listening
  <1>5. CASE UNCHANGED vars
    BY <1>5 DEF vars, HInv, Hearing, Listening
  <1> QED
    BY <1>1, <1>2, <1>3, <1>4, <1>5 DEF Next

\* Whatever other messages pass, whoever they are for and whatever hooks filter them:
\* from its registration on the recorder is given every chat line for all that reaches a
\* player, and nothing else, in the order they arrive and, where it fits, with the text
\* that arrives; before, it is given nothing.
THEOREM LinesHeard == Spec => []HearsWhatArrives
  <1>1. HInv => HearsWhatArrives
    BY DEF HInv, Hearing, AllHeard, Lines, LinesTo, HearsWhatArrives
  <1> QED
    BY InitHInv, StepHInv, <1>1, PTL DEF Spec
=============================================================================
