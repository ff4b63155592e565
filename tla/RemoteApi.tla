------------------------------ MODULE RemoteApi ------------------------------
(***************************************************************************)
(* The way of a match document to the remote server and of the answer back: *)
(* CMatchCurl posts it and collects the reply in the frames of the server,  *)
(* CallbackResult hands a command it finds to ServerExecute, which writes   *)
(* it to one file and has the engine execute that file.                     *)
(***************************************************************************)
EXTENDS Naturals, Sequences, FiniteSets

CONSTANTS
    MaxRequests,  \* bound: documents posted
    MaxChunks,    \* bound: pieces a reply comes in
    WritesFail,   \* may the command file fail to open for writing
    NoCommand     \* what the command file holds before anything is written

ASSUME RemoteAssumption ==
    /\ MaxRequests \in Nat /\ MaxChunks \in Nat
    /\ WritesFail \in BOOLEAN
    /\ NoCommand \notin Nat

VARIABLES
    m_MultiHandle,   \* has ServerActivate made the multi handle
    m_RequestIndex,  \* index of the next request
    m_Data,          \* indexes that have an entry, where the reply collects
    Memory,          \* pieces of the reply in the entry of an index
    handles,         \* libcurl: requests added to the multi handle
    sent,            \* network: pieces of a reply sent
    outcome,         \* network: "open", then "command" or "other"
    done,            \* libcurl: messages of completed transfers not read yet
    pc,              \* ServerFrame: "idle", "perform", "read" or "loop"
    HandleCount,     \* the count ServerFrame loops on
    called,          \* the callbacks made, <<index, pieces, outcome>> each
    file,            \* content of the command file: the index that sent it
    queued,          \* engine: number of "exec" in the command buffer
    executed         \* engine: the command each "exec" ran

curlVars == <<m_MultiHandle, m_RequestIndex, m_Data, Memory, handles, done>>
netVars == <<sent, outcome>>
engineVars == <<file, queued, executed>>
vars == <<curlVars, netVars, pc, HandleCount, called, engineVars>>

Requests == 0 .. MaxRequests - 1

Init ==
    /\ m_MultiHandle = FALSE /\ m_RequestIndex = 0
    /\ m_Data = {} /\ Memory = [i \in Requests |-> 0]
    /\ handles = {} /\ done = {}
    /\ sent = [i \in Requests |-> 0] /\ outcome = [i \in Requests |-> "open"]
    /\ pc = "idle" /\ HandleCount = 0
    /\ called = << >>
    /\ file = NoCommand /\ queued = 0 /\ executed = << >>

Running == handles \ done

-----------------------------------------------------------------------------
(* CMatchCurl *)

\* As a map change that starts over with transfers in the air.
ServerActivate_Again ==
    /\ pc = "idle"
    /\ m_MultiHandle' = TRUE /\ m_RequestIndex' = 0 /\ m_Data' = {}
    /\ UNCHANGED <<Memory, handles, done, netVars, pc, HandleCount, called, engineVars>>

\* A map starts; only the first makes the multi handle.
ServerActivate ==
    /\ pc = "idle"
    /\ ~m_MultiHandle
    /\ m_MultiHandle' = TRUE /\ m_RequestIndex' = 0 /\ m_Data' = {}
    /\ UNCHANGED <<Memory, handles, done, netVars, pc, HandleCount, called, engineVars>>

\* As a reply filed under the index of the next request.
PostJSON_NextIndex ==
    /\ pc = "idle"
    /\ m_MultiHandle
    /\ m_RequestIndex < MaxRequests
    /\ m_Data' = m_Data \cup {m_RequestIndex + 1}
    /\ handles' = handles \cup {m_RequestIndex}
    /\ m_RequestIndex' = m_RequestIndex + 1
    /\ UNCHANGED <<m_MultiHandle, Memory, done, netVars, pc, HandleCount, called,
                   engineVars>>

\* ExportData posts a document, with CallbackResult for the reply.
PostJSON ==
    /\ pc = "idle"
    /\ m_MultiHandle
    /\ m_RequestIndex < MaxRequests
    /\ m_Data' = m_Data \cup {m_RequestIndex}
    /\ Memory' = [Memory EXCEPT ![m_RequestIndex] = 0]
    /\ handles' = handles \cup {m_RequestIndex}
    /\ m_RequestIndex' = m_RequestIndex + 1
    /\ UNCHANGED <<m_MultiHandle, done, netVars, pc, HandleCount, called, engineVars>>

\* DLL_POST_StartFrame: the frame begins.
ServerFrame ==
    /\ pc = "idle"
    /\ m_MultiHandle
    /\ pc' = "perform" /\ HandleCount' = 0
    /\ UNCHANGED <<curlVars, netVars, called, engineVars>>

\* As a reply of which only the pieces of the last call are kept.
WriteMemoryCallback_Restart(i) == sent[i] - Memory[i]

\* The pieces that have arrived since the last call are appended.
WriteMemoryCallback(i) == Memory[i] + (sent[i] - Memory[i])

\* curl_multi_perform hands what has arrived to WriteMemoryCallback, turns the
\* transfers that ended into messages, and counts the ones still running.
Perform ==
    /\ pc = "perform"
    /\ Memory' = [i \in Requests |->
                    IF i \in Running THEN WriteMemoryCallback(i) ELSE Memory[i]]
    /\ done' = done \cup {i \in Running : outcome[i] # "open"}
    /\ HandleCount' = Cardinality(handles \ done')
    /\ pc' = "read"
    /\ UNCHANGED <<m_MultiHandle, m_RequestIndex, m_Data, handles, netVars,
                   called, engineVars>>

\* As a command executed only when the buffer is empty.
ServerExecute_Once(i) ==
    /\ file' = i
    /\ queued' = IF queued > 0 THEN queued ELSE 1
    /\ UNCHANGED executed

\* The file is written anew, if it opens, and in any case an "exec" of it goes
\* to the command buffer.
ServerExecute(i) ==
    /\ file' = i \/ (WritesFail /\ UNCHANGED file)
    /\ queued' = queued + 1
    /\ UNCHANGED executed

\* Only a reply with code 200 that parses and has a command is obeyed.
CallbackResult(i) ==
    IF outcome[i] = "command" THEN ServerExecute(i) ELSE UNCHANGED engineVars

\* curl_multi_info_read returns the message of request i and the number of the
\* messages left; messages come in any order.
InfoRead(i) ==
    /\ pc = "read"
    /\ i \in done
    /\ HandleCount' = Cardinality(done) - 1
    /\ \/ /\ i \in m_Data
          /\ CallbackResult(i)
          /\ called' = Append(called, <<i, Memory[i], outcome[i]>>)
       \/ i \notin m_Data /\ UNCHANGED <<called, engineVars>>
    /\ m_Data' = m_Data \ {i}
    /\ handles' = handles \ {i} /\ done' = done \ {i}
    /\ UNCHANGED <<m_MultiHandle, m_RequestIndex, Memory, netVars, pc>>

\* As a loop whose message count does not share the handles' variable.
InfoEmpty_OwnCount ==
    /\ pc = "read"
    /\ done = {}
    /\ HandleCount' = Cardinality(Running)
    /\ pc' = "loop"
    /\ UNCHANGED <<curlVars, netVars, called, engineVars>>

\* No message is left: the call returns NULL and sets the count to 0.
InfoEmpty ==
    /\ pc = "read"
    /\ done = {}
    /\ HandleCount' = 0
    /\ pc' = "loop"
    /\ UNCHANGED <<curlVars, netVars, called, engineVars>>

\* while (HandleCount)
FrameLoop ==
    /\ pc = "loop"
    /\ pc' = IF HandleCount = 0 THEN "idle" ELSE "perform"
    /\ UNCHANGED <<curlVars, netVars, HandleCount, called, engineVars>>

-----------------------------------------------------------------------------
(* The network and the engine *)

\* A piece of the reply arrives.
Receive(i) ==
    /\ i \in Running /\ outcome[i] = "open" /\ sent[i] < MaxChunks
    /\ sent' = [sent EXCEPT ![i] = @ + 1]
    /\ UNCHANGED <<curlVars, outcome, pc, HandleCount, called, engineVars>>

\* The transfer ends, at the latest by the timeout that PostJSON sets. Whether it ended
\* well is not asked: a command is obeyed if the code was 200 and what has arrived by then
\* parses, the last piece or not.
Finish(i) ==
    /\ i \in Running /\ outcome[i] = "open"
    /\ \E o \in {"command", "other"} :
          /\ o = "command" => sent[i] > 0
          /\ outcome' = [outcome EXCEPT ![i] = o]
    /\ UNCHANGED <<curlVars, sent, pc, HandleCount, called, engineVars>>

\* Between two frames the engine runs the next command of its buffer.
ExecFile ==
    /\ pc = "idle"
    /\ queued > 0
    /\ queued' = queued - 1
    /\ executed' = Append(executed, file)
    /\ UNCHANGED <<curlVars, netVars, pc, HandleCount, called, file>>

FrameStep == Perform \/ (\E i \in Requests : InfoRead(i)) \/ InfoEmpty \/ FrameLoop

Next ==
    \/ ServerActivate
    \/ PostJSON
    \/ ServerFrame
    \/ FrameStep
    \/ \E i \in Requests : Receive(i) \/ Finish(i)
    \/ ExecFile

Spec == Init /\ [][Next]_vars

\* The server keeps running frames, a frame begun runs on, and libcurl's timeout
\* ends every transfer.
Fairness ==
    /\ WF_vars(ServerFrame) /\ WF_vars(FrameStep)
    /\ \A i \in Requests : WF_vars(Finish(i))

FairSpec == Spec /\ Fairness

-----------------------------------------------------------------------------
(* Properties *)

Outcomes == {"open", "command", "other"}

\* Every variable keeps its type; only requests that were made have entries, and
\* only transfers not yet removed have messages.
TypeOK ==
    /\ m_MultiHandle \in BOOLEAN
    /\ m_RequestIndex \in 0 .. MaxRequests
    /\ m_Data \subseteq 0 .. m_RequestIndex - 1
    /\ handles \subseteq Requests /\ done \subseteq handles
    /\ Memory \in [Requests -> Nat] /\ sent \in [Requests -> Nat]
    /\ outcome \in [Requests -> Outcomes]
    /\ pc \in {"idle", "perform", "read", "loop"} /\ HandleCount \in Nat
    /\ called \in Seq(Requests \X Nat \X Outcomes)
    /\ file \in Requests \cup {NoCommand} /\ queued \in Nat
    /\ executed \in Seq(Requests \cup {NoCommand})

\* Which of the callbacks saw a command.
Commands == {n \in DOMAIN called : called[n][3] = "command"}

\* libcurl writes the reply to the entry m_Data had when the request was made:
\* the entry lives as long as the transfer does.
BuffersOutliveTransfers == handles \subseteq m_Data

\* A callback is made once for a request, and has the whole of its own reply:
\* what arrived before the transfer ended, however many frames it took.
CalledOnceWithReply ==
    /\ \A m, n \in DOMAIN called : called[m][1] = called[n][1] => m = n
    /\ \A n \in DOMAIN called : called[n][2] = sent[called[n][1]]

\* When a command was received; nothing comes before them.
Position(c) == IF c = NoCommand THEN 0 ELSE CHOOSE n \in Commands : called[n][1] = c

\* Every command received brings one "exec", and no "exec" runs an older command
\* after a newer one, though all read the one file, which may fail to be written.
ExecsKeepUp ==
    /\ Len(executed) + queued = Cardinality(Commands)
    /\ \A m, n \in DOMAIN executed :
          m < n => Position(executed[m]) <= Position(executed[n])

\* Every document posted is answered by a callback, if only for the timeout.
EveryPostAnswered ==
    \A i \in Requests : i \in handles ~> \E n \in DOMAIN called : called[n][1] = i

\* A frame is never held up by a transfer: it ends even if nothing arrives.
FrameReturns ==
    [][pc = "loop" => pc' # "perform"]_vars

\* "Execute command": each command the callback finds is executed.
EveryCommandExecuted ==
    queued = 0 => \A n \in Commands :
       \E m \in DOMAIN executed : executed[m] = called[n][1]
=============================================================================
