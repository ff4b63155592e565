---------------------------- MODULE PipelineProofs ----------------------------
(***************************************************************************)
(* Proofs about the server as a whole: it runs the recorder and the remote  *)
(* service as their own modules specify them, so that what is proved of the *)
(* parts holds of it; and a map is played in no state that a command of an  *)
(* earlier map has set.                                                     *)
(***************************************************************************)
EXTENDS MatchPipeline, TotalProofs, SequenceTheorems

(* The parts *)

LEMMA ExportedStep ==
    ASSUME Exported
    PROVE  Remote!PostJSON \/ UNCHANGED remoteVars
  BY DEF Exported

LEMMA RemoteStep ==
    ASSUME [PipelineNext]_pipelineVars
    PROVE  Remote!Next \/ UNCHANGED remoteVars
  <1>1. CASE UNCHANGED pipelineVars
    BY <1>1 DEF pipelineVars
  <1>2. CASE MapStarts \/ OperatorSetsApi
    BY <1>2 DEF MapStarts, ActivateRemote, OperatorSetsApi, Remote!Next
  <1>3. CASE GameSteps \/ SettingsExecuted
    BY <1>3, ExportedStep DEF GameSteps, SettingsExecuted, Remote!Next
  <1>4. CASE FileExecuted
    BY <1>4 DEF FileExecuted, Remote!Next
  <1>5. CASE TextExecuted
    BY <1>5, ExportedStep DEF TextExecuted, Remote!Next
  <1>6. CASE FrameBegins \/ FrameGoesOn
    BY <1>6 DEF FrameBegins, FrameGoesOn, Remote!Next
  <1>7. CASE \E i \in Remote!Requests : NetworkMoves(i)
    BY <1>7 DEF NetworkMoves, Remote!Next
  <1> QED
    BY <1>1, <1>2, <1>3, <1>4, <1>5, <1>6, <1>7 DEF PipelineNext

\* The HTTP client and the command file of the server are those of RemoteApi.
THEOREM RemoteInServer == PipelineSpec => ImplementsRemote
  <1>1. PipelineInit => Remote!Init
    BY DEF PipelineInit
  <1>2. UNCHANGED remoteVars => UNCHANGED Remote!vars
    BY DEF remoteVars, Remote!vars, Remote!curlVars, Remote!netVars, Remote!engineVars
  <1>3. [PipelineNext]_pipelineVars => [Remote!Next]_Remote!vars
    BY <1>2, RemoteStep
  <1> QED
    BY <1>1, <1>3, PTL DEF PipelineSpec, ImplementsRemote, Remote!Spec

LEMMA RecorderStep ==
    ASSUME [PipelineNext]_pipelineVars
    PROVE  Next \/ UNCHANGED vars
  <1>1. CASE UNCHANGED pipelineVars
    BY <1>1 DEF pipelineVars
  <1>2. CASE MapStarts \/ OperatorSetsApi
    BY <1>2 DEF MapStarts, OperatorSetsApi, Next
  <1>3. CASE GameSteps
    BY <1>3 DEF GameSteps, Next
  <1>4. CASE SettingsExecuted
    BY <1>4 DEF SettingsExecuted, Next
  <1>5. CASE FileExecuted
    BY <1>5 DEF FileExecuted
  <1>6. CASE TextExecuted
    <2>1. (\E v \in CommandValues : SetState(v)) \/ UNCHANGED vars
      BY <1>6 DEF TextExecuted
    <2> QED
      BY <2>1, CommandAssumption DEF Next, CommandAssumption
  <1>7. CASE FrameBegins \/ FrameGoesOn
    BY <1>7 DEF FrameBegins, FrameGoesOn
  <1>8. CASE \E i \in Remote!Requests : NetworkMoves(i)
    BY <1>8 DEF NetworkMoves
  <1> QED
    BY <1>1, <1>2, <1>3, <1>4, <1>5, <1>6, <1>7, <1>8 DEF PipelineNext

\* The recorder of the server is MatchStats, although commands of the remote server
\* set its state: the theorems about the recorder hold of it.
THEOREM RecorderInServer == PipelineSpec => ImplementsRecorder
  <1>1. PipelineInit => Init
    BY DEF PipelineInit
  <1>2. [PipelineNext]_pipelineVars => [Next]_vars
    BY RecorderStep
  <1> QED
    BY <1>1, <1>2, PTL DEF PipelineSpec, ImplementsRecorder, Spec

-----------------------------------------------------------------------------
(* The command buffer *)

Old == {"old exec", "old text"}

\* What was queued before the map started runs before its settings file, of which
\* the buffer holds one exactly while the recorder waits for it.
BufferInv ==
    /\ cbuf \in Seq(Entries)
    /\ \A n \in DOMAIN cbuf : cbuf[n] \in Old =>
          \E m \in DOMAIN cbuf : n < m /\ cbuf[m] = "settings"
    /\ \A m, n \in DOMAIN cbuf :
          cbuf[m] = "settings" /\ cbuf[n] = "settings" => m = n
    /\ settings <=> \E n \in DOMAIN cbuf : cbuf[n] = "settings"

PInv == BufferInv /\ OldCommandsEnd

LEMMA BufferDomain ==
    ASSUME cbuf \in Seq(Entries)
    PROVE  /\ Len(cbuf) \in Nat /\ DOMAIN cbuf = 1 .. Len(cbuf)
           /\ \A n \in DOMAIN cbuf : cbuf[n] \in Entries
  OBVIOUS

\* What the engine does to its buffer: an entry is put behind the others, or all
\* are changed.
LEMMA AppendFacts ==
    ASSUME NEW S, NEW s \in Seq(S), NEW e \in S
    PROVE  /\ Append(s, e) \in Seq(S) /\ DOMAIN Append(s, e) = 1 .. Len(s) + 1
           /\ Append(s, e)[Len(s) + 1] = e
           /\ \A n \in 1 .. Len(s) : Append(s, e)[n] = s[n]
  BY AppendProperties

LEMMA FunctionFacts ==
    ASSUME NEW S, NEW n \in Nat, NEW f \in [1 .. n -> S]
    PROVE  f \in Seq(S) /\ Len(f) = n /\ DOMAIN f = 1 .. n
  OBVIOUS

\* Taking the head away, unless it is the settings file.
LEMMA TailInv ==
    ASSUME BufferInv, cbuf # << >>, Head(cbuf) # "settings",
           cbuf' = Tail(cbuf), settings' = settings
    PROVE  BufferInv'
  <1> DEFINE len == Len(cbuf)
  <1>1. /\ cbuf \in Seq(Entries) /\ len \in Nat /\ DOMAIN cbuf = 1 .. len /\ len > 0
        /\ Head(cbuf) = cbuf[1]
    BY BufferDomain DEF BufferInv
  <1>2. /\ cbuf' \in Seq(Entries) /\ DOMAIN cbuf' = 1 .. len - 1
        /\ \A n \in 1 .. len - 1 : cbuf'[n] = cbuf[n + 1] /\ n + 1 \in 1 .. len
    BY <1>1
  <1>3. ASSUME NEW n \in 1 .. len, cbuf[n] = "settings"
        PROVE  n - 1 \in 1 .. len - 1 /\ cbuf'[n - 1] = "settings"
    <2>1. n # 1
      BY <1>1, <1>3
    <2>2. n - 1 \in 1 .. len - 1 /\ (n - 1) + 1 = n
      BY <1>1, <2>1
    <2> QED
      BY <1>2, <1>3, <2>2
  <1>4. ASSUME NEW n \in DOMAIN cbuf', cbuf'[n] \in Old
        PROVE  \E m \in DOMAIN cbuf' : n < m /\ cbuf'[m] = "settings"
    <2>1. PICK m \in DOMAIN cbuf : n + 1 < m /\ cbuf[m] = "settings"
      BY <1>1, <1>2, <1>4 DEF BufferInv
    <2>2. m - 1 \in DOMAIN cbuf' /\ cbuf'[m - 1] = "settings" /\ n < m - 1
      BY <1>1, <1>2, <1>3, <2>1
    <2> QED
      BY <2>2
  <1>5. \A m, n \in DOMAIN cbuf' :
           cbuf'[m] = "settings" /\ cbuf'[n] = "settings" => m = n
    BY <1>1, <1>2 DEF BufferInv
  <1>6. settings' <=> \E n \in DOMAIN cbuf' : cbuf'[n] = "settings"
    BY <1>1, <1>2, <1>3 DEF BufferInv
  <1> QED
    BY <1>2, <1>4, <1>5, <1>6 DEF BufferInv

LEMMA FrameInv ==
    ASSUME BufferInv, cbuf' = cbuf \/ cbuf' = Append(cbuf, "exec"), settings' = settings
    PROVE  BufferInv'
  <1>1. CASE cbuf' = cbuf
    BY <1>1 DEF BufferInv
  <1>2. CASE cbuf' = Append(cbuf, "exec")
    <2> DEFINE len == Len(cbuf)
    <2>1. cbuf \in Seq(Entries) /\ len \in Nat /\ DOMAIN cbuf = 1 .. len
      BY BufferDomain DEF BufferInv
    <2>2. /\ cbuf' \in Seq(Entries) /\ DOMAIN cbuf' = 1 .. len + 1
          /\ cbuf'[len + 1] = "exec"
          /\ \A n \in 1 .. len : cbuf'[n] = cbuf[n]
      <3>1. "exec" \in Entries
        BY DEF Entries
      <3> QED
        BY <1>2, <2>1, <3>1, AppendFacts
    <2>3. \A n \in 1 .. len + 1 : n # len + 1 => n \in 1 .. len
      BY <2>1
    <2>4. ASSUME NEW n \in DOMAIN cbuf', cbuf'[n] \in Old
          PROVE  \E m \in DOMAIN cbuf' : n < m /\ cbuf'[m] = "settings"
      <3>1. n \in 1 .. len /\ cbuf[n] \in Old
        BY <2>2, <2>3, <2>4 DEF Old
      <3> QED
        BY <2>1, <2>2, <3>1 DEF BufferInv
    <2>5. \A m, n \in DOMAIN cbuf' :
             cbuf'[m] = "settings" /\ cbuf'[n] = "settings" => m = n
      BY <2>1, <2>2, <2>3 DEF BufferInv
    <2>6. settings' <=> \E n \in DOMAIN cbuf' : cbuf'[n] = "settings"
      BY <2>1, <2>2, <2>3 DEF BufferInv
    <2> QED
      BY <2>2, <2>4, <2>5, <2>6 DEF BufferInv
  <1> QED
    BY <1>1, <1>2

\* A map makes everything in the buffer old, and puts its settings behind it.
LEMMA MapInv ==
    ASSUME BufferInv, ~settings, MapStarts
    PROVE  BufferInv'
  <1> DEFINE len == Len(cbuf)
             aged == [n \in DOMAIN cbuf |-> Aged(cbuf[n])]
  <1>1. /\ cbuf \in Seq(Entries) /\ len \in Nat /\ DOMAIN cbuf = 1 .. len
        /\ \A n \in 1 .. len : cbuf[n] \in Entries \ {"settings"}
    BY BufferDomain DEF BufferInv
  <1>2. \A n \in 1 .. len : Aged(cbuf[n]) \in Old
    BY <1>1 DEF Aged, Entries, Old
  <1>3. aged \in Seq(Entries) /\ Len(aged) = len /\ DOMAIN aged = 1 .. len
    <2>1. aged \in [1 .. len -> Entries]
      BY <1>1, <1>2 DEF Entries, Old
    <2> HIDE DEF aged
    <2> QED
      BY <1>1, <2>1, FunctionFacts
  <1>4. cbuf' = Append(aged, "settings")
    BY DEF MapStarts, QueueSettings
  <1>5. /\ cbuf' \in Seq(Entries) /\ DOMAIN cbuf' = 1 .. len + 1
        /\ cbuf'[len + 1] = "settings"
        /\ \A n \in 1 .. len : cbuf'[n] \in Old
    <2> HIDE DEF aged
    <2>1. "settings" \in Entries
      BY DEF Entries
    <2>2. \A n \in 1 .. len : aged[n] \in Old
      BY <1>1, <1>2 DEF aged
    <2> QED
      BY <1>1, <1>3, <1>4, <2>1, <2>2, AppendFacts
  <1>6. \A n \in 1 .. len + 1 : n # len + 1 => n \in 1 .. len /\ n < len + 1
    BY <1>1
  <1>7. settings'
    BY DEF MapStarts, ServerActivate
  <1>8. \A n \in DOMAIN cbuf' : cbuf'[n] = "settings" => n = len + 1
    BY <1>5, <1>6 DEF Old
  <1>9. \A n \in DOMAIN cbuf' : cbuf'[n] \in Old => n < len + 1
    BY <1>5, <1>6 DEF Old
  <1>10. len + 1 \in DOMAIN cbuf'
    BY <1>1, <1>5
  <1> HIDE DEF len
  <1> QED
    BY <1>5, <1>7, <1>8, <1>9, <1>10 DEF BufferInv

\* When the settings file is the head, nothing old is left, and no second one.
LEMMA SettingsInv ==
    ASSUME BufferInv, SettingsExecuted
    PROVE  BufferInv'
  <1> DEFINE len == Len(cbuf)
  <1>1. /\ cbuf \in Seq(Entries) /\ len \in Nat /\ DOMAIN cbuf = 1 .. len /\ len > 0
        /\ cbuf[1] = "settings" /\ cbuf' = Tail(cbuf) /\ ~settings'
    BY BufferDomain DEF BufferInv, SettingsExecuted, Executes, ExecSettings
  <1>2. /\ cbuf' \in Seq(Entries) /\ DOMAIN cbuf' = 1 .. len - 1
        /\ \A n \in 1 .. len - 1 : cbuf'[n] = cbuf[n + 1] /\ n + 1 \in 1 .. len
                                   /\ n + 1 # 1
    BY <1>1
  <1>3. 1 \in 1 .. len /\ \A n \in 1 .. len : cbuf[n] = "settings" => n = 1
    BY <1>1 DEF BufferInv
  <1>4. \A n \in 1 .. len : cbuf[n] \notin Old
    BY <1>1, <1>3 DEF BufferInv
  <1> QED
    BY <1>1, <1>2, <1>3, <1>4 DEF BufferInv

LEMMA ReplaceFacts ==
    ASSUME NEW S, NEW s \in Seq(S), NEW e \in S, s # << >>
    PROVE  /\ <<e>> \o Tail(s) \in Seq(S) /\ DOMAIN (<<e>> \o Tail(s)) = 1 .. Len(s)
           /\ (<<e>> \o Tail(s))[1] = e
           /\ \A n \in 1 .. Len(s) : n # 1 => (<<e>> \o Tail(s))[n] = s[n]
  <1>1. <<e>> \in Seq(S) /\ Len(<<e>>) = 1 /\ Tail(s) \in Seq(S)
        /\ Len(Tail(s)) = Len(s) - 1 /\ Len(s) \in Nat \ {0}
        /\ \A n \in 1 .. Len(s) - 1 : Tail(s)[n] = s[n + 1]
    OBVIOUS
  <1> QED
    BY <1>1, ConcatProperties

LEMMA ReplaceInv ==
    ASSUME BufferInv, cbuf # << >>, NEW e \in Entries \ {"settings"},
           cbuf' = <<e>> \o Tail(cbuf), settings' = settings,
           cbuf[1] # "settings", e \in Old => cbuf[1] \in Old
    PROVE  BufferInv'
  <1> DEFINE len == Len(cbuf)
  <1>1. /\ cbuf \in Seq(Entries) /\ len \in Nat /\ DOMAIN cbuf = 1 .. len /\ len > 0
        /\ 1 \in 1 .. len
    BY BufferDomain DEF BufferInv
  <1>2. /\ cbuf' \in Seq(Entries) /\ DOMAIN cbuf' = 1 .. len /\ cbuf'[1] = e
        /\ \A n \in 1 .. len : n # 1 => cbuf'[n] = cbuf[n]
    BY <1>1, ReplaceFacts
  <1>3. \A n \in 1 .. len : cbuf'[n] \in Old => cbuf[n] \in Old
    BY <1>2
  <1>4. \A n \in 1 .. len : cbuf'[n] = "settings" <=> cbuf[n] = "settings"
    BY <1>2
  <1>5. settings' <=> \E n \in DOMAIN cbuf' : cbuf'[n] = "settings"
    BY <1>1, <1>2, <1>4 DEF BufferInv
  <1>6. \A n \in DOMAIN cbuf' : cbuf'[n] \in Old =>
           \E m \in DOMAIN cbuf' : n < m /\ cbuf'[m] = "settings"
    BY <1>1, <1>2, <1>3, <1>4 DEF BufferInv
  <1>7. \A m, n \in DOMAIN cbuf' :
           cbuf'[m] = "settings" /\ cbuf'[n] = "settings" => m = n
    BY <1>1, <1>2, <1>4 DEF BufferInv
  <1> QED
    BY <1>2, <1>5, <1>6, <1>7 DEF BufferInv

\* An "exec" becomes the text it read, as old as itself.
LEMMA FileInv ==
    ASSUME BufferInv, FileExecuted
    PROVE  BufferInv'
  <1>1. cbuf # << >> /\ UNCHANGED vars
    BY DEF FileExecuted, Executes
  <1>2. settings' = settings /\ cbuf[1] = Head(cbuf)
    BY <1>1 DEF vars, cvarVars, BufferInv
  <1>3. \/ cbuf' = <<"text">> \o Tail(cbuf) /\ cbuf[1] = "exec"
        \/ cbuf' = <<"old text">> \o Tail(cbuf) /\ cbuf[1] = "old exec"
    BY <1>2 DEF FileExecuted, Executes
  <1>4. {"text", "old text"} \subseteq Entries \ {"settings"}
    BY DEF Entries
  <1>5. "text" \notin Old /\ "old exec" \in Old
    BY DEF Old
  <1> QED
    BY <1>1, <1>2, <1>3, <1>4, <1>5, ReplaceInv

-----------------------------------------------------------------------------
(* Steps *)

LEMMA InitPInv == PipelineInit => PInv
  <1> SUFFICES ASSUME PipelineInit PROVE PInv
    OBVIOUS
  <1>1. cbuf = << >> /\ settings = FALSE /\ setter = "map"
    BY DEF PipelineInit, Init
  <1> QED
    BY <1>1 DEF PInv, BufferInv, OldCommandsEnd

LEMMA CallbacksKeepSettings ==
    ASSUME (\E p \in Players : PlayerStep(p) \/ CombatStep(p)) \/ RoundStep \/ BombStep
    PROVE  settings' = settings
  <1>1. ASSUME NEW p \in Players, PlayerStep(p) PROVE UNCHANGED cvarVars
    BY <1>1 DEF PlayerStep, PlayerGetIntoGame, PlayerSwitchTeam, PlayerDisconnect,
       PlayerSetAnimation, PlayerAddAccount, PlayerMakeBomber, PlayerDropItem,
       PlayerSayText, Counted
  <1>2. ASSUME NEW p \in Players, CombatStep(p) PROVE UNCHANGED cvarVars
    BY <1>2 DEF CombatStep, PlayerDamage_Hit, PlayerDamage_Lethal, PlayerKilled,
       PlayerKilled_Ignored
  <1>3. ASSUME RoundStep PROVE UNCHANGED cvarVars
    BY <1>3 DEF RoundStep, RoundRestart, RoundFreezeEnd, RoundEnd
  <1>4. ASSUME BombStep PROVE UNCHANGED cvarVars
    BY <1>4 DEF BombStep, PlantBomb, DefuseBombStart, DefuseBombEnd, ExplodeBomb, Counted
  <1> QED
    BY <1>1, <1>2, <1>3, <1>4 DEF cvarVars

LEMMA StepPInv == PInv /\ [PipelineNext]_pipelineVars => PInv'
  <1> SUFFICES ASSUME PInv, [PipelineNext]_pipelineVars PROVE PInv'
    OBVIOUS
  <1> USE DEF PInv
  <1>1. CASE MapStarts
    <2>1. ~settings /\ setter' = "map"
      BY <1>1 DEF MapStarts
    <2> QED
      BY <1>1, <2>1, MapInv DEF OldCommandsEnd
  <1>2. CASE GameSteps
    <2>1. settings' = settings /\ cbuf' = cbuf
      <3>1. CASE \E v \in CvarValues : SetState(v)
        BY <1>2, <3>1 DEF GameSteps, SetState
      <3>2. CASE (\E p \in Players : PlayerStep(p) \/ CombatStep(p)) \/ RoundStep
                 \/ BombStep
        BY <1>2, <3>2, CallbacksKeepSettings DEF GameSteps
      <3> QED
        BY <1>2, <3>1, <3>2 DEF GameSteps
    <2>2. setter' \in {"operator", setter}
      BY <1>2 DEF GameSteps
    <2> QED
      BY <2>1, <2>2 DEF BufferInv, OldCommandsEnd
  <1>3. CASE SettingsExecuted
    BY <1>3, SettingsInv DEF SettingsExecuted, OldCommandsEnd
  <1>4. CASE FileExecuted
    <2>1. setter' = setter /\ settings' = settings
      BY <1>4 DEF FileExecuted, vars, cvarVars
    <2> QED
      BY <1>4, <2>1, FileInv DEF OldCommandsEnd
  <1>5. CASE TextExecuted
    <2>1. /\ cbuf # << >> /\ cbuf' = Tail(cbuf) /\ Head(cbuf) \in {"text", "old text"}
          /\ settings' = settings
      BY <1>5 DEF TextExecuted, Executes, SetState, vars, cvarVars
    <2>2. BufferInv'
      BY <2>1, TailInv
    <2>3. ASSUME setter' = "old command" PROVE settings'
      <3>1. CASE setter' = setter
        BY <2>1, <2>3, <3>1 DEF OldCommandsEnd
      <3>2. CASE setter' # setter
        <4>1. Head(cbuf) = "old text"
          BY <1>5, <2>1, <2>3, <3>2 DEF TextExecuted
        <4>2. 1 \in DOMAIN cbuf /\ cbuf[1] = Head(cbuf)
          <5>1. cbuf \in Seq(Entries) /\ cbuf # << >>
            BY <2>1 DEF BufferInv
          <5> QED
            BY <5>1
        <4>3. cbuf[1] \in Old
          BY <4>1, <4>2 DEF Old
        <4> QED
          BY <2>1, <4>2, <4>3 DEF BufferInv
      <3> QED
        BY <3>1, <3>2
    <2> QED
      BY <2>2, <2>3 DEF OldCommandsEnd
  <1>6. CASE FrameBegins \/ FrameGoesOn \/ (\E i \in Remote!Requests : NetworkMoves(i))
             \/ OperatorSetsApi \/ UNCHANGED pipelineVars
    <2>1. UNCHANGED <<vars, setter>>
      BY <1>6 DEF FrameBegins, FrameGoesOn, NetworkMoves, OperatorSetsApi, pipelineVars
    <2>2. cbuf' = cbuf \/ cbuf' = Append(cbuf, "exec")
      BY <1>6 DEF FrameBegins, FrameGoesOn, CommandsQueued, NetworkMoves, OperatorSetsApi,
         pipelineVars
    <2>3. settings' = settings
      BY <2>1 DEF vars, cvarVars
    <2> QED
      BY <2>1, <2>2, <2>3, FrameInv DEF OldCommandsEnd
  <1> QED
    BY <1>1, <1>2, <1>3, <1>4, <1>5, <1>6 DEF PipelineNext

\* Whatever the remote server answers and whenever maps change, a command received
\* in an earlier map has set the state only while the settings file is to come: it
\* is behind the command in the buffer, and sets the state again.
THEOREM OldCommandsOverruled == PipelineSpec => []OldCommandsEnd
  <1>1. PInv => OldCommandsEnd
    BY DEF PInv
  <1> QED
    BY InitPInv, StepPInv, <1>1, PTL DEF PipelineSpec

-----------------------------------------------------------------------------
\* The recorder stays true to the match whatever commands come back and whenever they
\* run: score, log and counters agree, and a document that is posted is consistent.
THEOREM ServerRecordsTruly ==
    PipelineSpec => [](ScoreIsRounds /\ LogIsChronicle /\ StatsInLog /\ ExportIsConsistent)
  BY RecorderInServer, ScoreCorrect, LogCorrect, LogBacksStats, ExportsAgree, PTL
     DEF ImplementsRecorder
=============================================================================
