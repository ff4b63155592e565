---------------------------- MODULE MatchPipeline ----------------------------
(***************************************************************************)
(* The recorder and the remote service in one server. A match that ends is  *)
(* exported and posted; the answer may carry a command; the engine executes *)
(* it some time later, from the buffer that also holds the settings file of *)
(* a map that has started meanwhile, and it may set ms_state and so end or  *)
(* start a match.                                                           *)
(***************************************************************************)
EXTENDS MatchProperties

CONSTANTS
    MaxRequests, MaxChunks, WritesFail, NoCommand,  \* of RemoteApi
    CommandValues,  \* values of ms_state that commands of the remote server set
    SettingsApi     \* the ms_api_enable line of matchstats.cfg

\* A command sets what the console could.
ASSUME CommandAssumption == CommandValues \subseteq CvarValues /\ SettingsApi \in BOOLEAN

VARIABLES
    m_api_enable,  \* value of the cvar, as a condition
    m_MultiHandle, m_RequestIndex, m_Data, Memory, handles, done,
    sent, outcome, pc, HandleCount, called, file, queued, executed,
    cbuf,      \* engine: the command buffer
    setter,    \* history: who set ms_state last, or that a map started since
    exported   \* history: documents written while the API was enabled

Remote == INSTANCE RemoteApi

remoteVars == <<m_MultiHandle, m_RequestIndex, m_Data, Memory, handles, done, sent,
                outcome, pc, HandleCount, called, file, queued, executed>>
pipelineVars == <<vars, m_api_enable, remoteVars, cbuf, setter, exported>>

\* Entries of the buffer: the settings file, an "exec" of the command file, the
\* text such an "exec" has put in its place; those two also from before the map.
Entries == {"settings", "exec", "text", "old exec", "old text"}

PipelineInit ==
    /\ Init /\ Remote!Init /\ m_api_enable = FALSE
    /\ cbuf = << >> /\ setter = "map" /\ exported = 0

Idle == pc = "idle"

\* A document was written while the API is enabled. (Its address is a string, if an
\* empty one: a cvar that is registered has one.)
ToPost == dataFile' # {} /\ m_api_enable

\* As an export that is posted only if nothing is under way.
Exported_WhenFree ==
    /\ exported' = exported + (IF ToPost THEN 1 ELSE 0)
    /\ \/ ToPost /\ handles = {} /\ Remote!PostJSON
       \/ ~(ToPost /\ handles = {}) /\ UNCHANGED remoteVars

\* ExportData posts what it wrote, if that is enabled and the client has started.
Exported ==
    /\ exported' = exported + (IF ToPost THEN 1 ELSE 0)
    /\ \/ ~ToPost /\ UNCHANGED remoteVars
       \/ ToPost /\ m_MultiHandle /\ Remote!PostJSON
       \/ ToPost /\ ~m_MultiHandle /\ exported < MaxRequests /\ UNCHANGED remoteVars

-----------------------------------------------------------------------------
(* The engine *)

Aged(e) == CASE e = "exec" -> "old exec" [] e = "text" -> "old text" [] OTHER -> e

\* As settings put before what the buffer holds.
QueueSettings_First == <<"settings">> \o [n \in DOMAIN cbuf |-> Aged(cbuf[n])]

\* The settings file is executed after all the buffer holds.
QueueSettings == Append([n \in DOMAIN cbuf |-> Aged(cbuf[n])], "settings")

\* As a client started anew with every map.
ActivateRemote_Always == Remote!ServerActivate_Again

\* Only the first map starts the HTTP client.
ActivateRemote == Remote!ServerActivate \/ (m_MultiHandle /\ UNCHANGED remoteVars)

\* DLL_POST_ServerActivate: a map starts, the one before having run its settings.
MapStarts ==
    /\ Idle /\ ~settings
    /\ ServerActivate
    /\ ActivateRemote
    /\ cbuf' = QueueSettings
    /\ setter' = "map"
    /\ UNCHANGED <<m_api_enable, exported>>

\* The cvar is registered, and set to what the step says.
SetApi(b) == m_stats_state /\ m_api_enable' = b

\* The console sets ms_api_enable, at any moment.
OperatorSetsApi ==
    /\ Idle
    /\ \E b \in BOOLEAN : SetApi(b)
    /\ UNCHANGED <<vars, remoteVars, cbuf, setter, exported>>

\* A callback of the game, or a state set by hand.
GameSteps ==
    /\ Idle
    /\ \/ /\ \E v \in CvarValues : SetState(v)
          /\ setter' = "operator"
       \/ /\ (\E p \in Players : PlayerStep(p) \/ CombatStep(p)) \/ RoundStep \/ BombStep
          /\ UNCHANGED setter
    /\ Exported
    /\ UNCHANGED <<m_api_enable, cbuf>>

\* The buffer is executed from its head, between frames.
Executes(e) == Idle /\ pending = {} /\ cbuf # << >> /\ Head(cbuf) = e

\* The file sets ms_state first, and ms_api_enable after it.
SettingsExecuted ==
    /\ Executes("settings")
    /\ ExecSettings
    /\ Exported
    /\ SetApi(SettingsApi)
    /\ cbuf' = Tail(cbuf)
    /\ setter' = "settings"

\* "exec" puts the text of the file at the head of the buffer.
FileExecuted ==
    /\ \/ Executes("exec") /\ cbuf' = <<"text">> \o Tail(cbuf)
       \/ Executes("old exec") /\ cbuf' = <<"old text">> \o Tail(cbuf)
    /\ Remote!ExecFile
    /\ UNCHANGED <<vars, m_api_enable, setter, exported>>

\* The text sets ms_state or ms_api_enable, or does something else.
TextExecuted ==
    /\ Executes("text") \/ Executes("old text")
    /\ cbuf' = Tail(cbuf)
    /\ \/ /\ executed[Len(executed)] # NoCommand
          /\ \E v \in CommandValues : SetState(v)
          /\ setter' = IF Head(cbuf) = "text" THEN "command" ELSE "old command"
          /\ Exported
          /\ UNCHANGED m_api_enable
       \/ /\ executed[Len(executed)] # NoCommand
          /\ \E b \in BOOLEAN : SetApi(b)
          /\ UNCHANGED <<vars, remoteVars, setter, exported>>
       \/ UNCHANGED <<vars, m_api_enable, remoteVars, setter, exported>>

\* ServerExecute queues an "exec" behind whatever the buffer holds.
CommandsQueued == IF queued' > queued THEN Append(cbuf, "exec") ELSE cbuf

\* The frame of the HTTP client begins when the buffer is empty and goes on; what
\* it finds is queued.
FrameBegins ==
    /\ cbuf = << >> /\ pending = {}
    /\ Remote!ServerFrame
    /\ UNCHANGED <<vars, m_api_enable, cbuf, setter, exported>>

FrameGoesOn ==
    /\ Remote!FrameStep
    /\ cbuf' = CommandsQueued
    /\ UNCHANGED <<vars, m_api_enable, setter, exported>>

NetworkMoves(i) ==
    /\ Remote!Receive(i) \/ Remote!Finish(i)
    /\ UNCHANGED <<vars, m_api_enable, cbuf, setter, exported>>

PipelineNext ==
    \/ MapStarts
    \/ GameSteps \/ OperatorSetsApi
    \/ SettingsExecuted \/ FileExecuted \/ TextExecuted
    \/ FrameBegins \/ FrameGoesOn
    \/ \E i \in Remote!Requests : NetworkMoves(i)

PipelineSpec == PipelineInit /\ [][PipelineNext]_pipelineVars

\* In every frame the engine empties its buffer and then calls the plugin; libcurl's
\* timeout ends every transfer.
PipelineFairness ==
    /\ WF_pipelineVars(SettingsExecuted \/ FileExecuted \/ TextExecuted)
    /\ SF_pipelineVars(FrameBegins)
    /\ WF_pipelineVars(FrameGoesOn)
    /\ \A i \in Remote!Requests : WF_pipelineVars(Remote!Finish(i) /\ NetworkMoves(i))

FairPipelineSpec == PipelineSpec /\ PipelineFairness

-----------------------------------------------------------------------------
(* Properties *)

\* A command that was received before the map started may still be executed in it,
\* but the settings file has the last word: the state the map is played in was
\* never set by a command of an earlier map.
OldCommandsEnd == setter = "old command" => settings

\* Every document written while the API was enabled is answered by the callback, whatever
\* maps start, whatever the commands do and whoever disables the API in the meantime.
ExportsAnswered ==
    \A i \in Remote!Requests :
       exported > i ~> \E n \in DOMAIN called : called[n][1] = i

\* The HTTP client and the command file in the server are those of RemoteApi, the
\* recorder is MatchStats: the server adds neither a post nor a change of state.
ImplementsRemote == Remote!Spec
ImplementsRecorder == Spec
=============================================================================
