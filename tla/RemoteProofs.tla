------------------------------ MODULE RemoteProofs ------------------------------
(***************************************************************************)
(* Proofs that libcurl never writes to an entry of m_Data that is gone, and *)
(* that a callback is made once, with the whole reply, and that the command *)
(* file never takes the server back to an older command, for any number of  *)
(* documents, pieces and frames.                                            *)
(***************************************************************************)
EXTENDS RemoteApi, FiniteSetTheorems, TLAPS

\* What the code relies on without saying so: before the multi handle is made
\* nothing was posted; a completed transfer has handed over all it received; the
\* requests called back are gone from the multi handle and never reused.
Ledger ==
    /\ ~m_MultiHandle => m_RequestIndex = 0 /\ handles = {} /\ called = << >>
    /\ \A i \in done : outcome[i] # "open" /\ Memory[i] = sent[i]
    /\ \A n \in DOMAIN called :
          called[n][1] < m_RequestIndex /\ called[n][1] \notin handles

IInv == TypeOK /\ BuffersOutliveTransfers /\ CalledOnceWithReply /\ Ledger

LEMMA RequestsAreNumbers == Requests \subseteq Nat
  BY RemoteAssumption DEF RemoteAssumption, Requests

\* A callback speaks of a request.
LEMMA CallTypes ==
    ASSUME TypeOK, NEW n \in DOMAIN called
    PROVE  called[n] \in Requests \X Nat \X Outcomes /\ called[n][1] \in Requests
  <1>1. called \in Seq(Requests \X Nat \X Outcomes)
    BY DEF TypeOK
  <1>2. called[n] \in Requests \X Nat \X Outcomes
    BY <1>1
  <1> QED
    BY <1>2

LEMMA InitInv == Init => IInv
  <1> SUFFICES ASSUME Init PROVE IInv
    OBVIOUS
  <1>1. 0 \in 0 .. MaxRequests
    BY RemoteAssumption DEF RemoteAssumption
  <1>2. TypeOK
    <2>1. /\ m_MultiHandle \in BOOLEAN /\ m_RequestIndex \in 0 .. MaxRequests
          /\ m_Data \subseteq 0 .. m_RequestIndex - 1
          /\ handles \subseteq Requests /\ done \subseteq handles
      BY <1>1 DEF Init
    <2>2. /\ Memory \in [Requests -> Nat] /\ sent \in [Requests -> Nat]
          /\ outcome \in [Requests -> Outcomes]
      BY DEF Init, Outcomes
    <2>3. /\ pc \in {"idle", "perform", "read", "loop"} /\ HandleCount \in Nat
          /\ file \in Requests \cup {NoCommand} /\ queued \in Nat
      BY DEF Init
    <2>4. /\ called \in Seq(Requests \X Nat \X Outcomes)
          /\ executed \in Seq(Requests \cup {NoCommand})
      BY DEF Init
    <2> QED
      BY <2>1, <2>2, <2>3, <2>4 DEF TypeOK
  <1>3. DOMAIN called = {}
    BY DEF Init
  <1> QED
    BY <1>2, <1>3 DEF Init, IInv, BuffersOutliveTransfers, CalledOnceWithReply, Ledger

-----------------------------------------------------------------------------
(* Steps *)

LEMMA ActivateInv == IInv /\ ServerActivate => IInv'
  <1> SUFFICES ASSUME IInv, ServerActivate PROVE IInv'
    OBVIOUS
  <1>1. handles = {} /\ done = {} /\ called = << >> /\ DOMAIN called = {}
    BY DEF IInv, Ledger, ServerActivate, TypeOK
  <1>2. TypeOK'
    BY <1>1, RemoteAssumption DEF IInv, TypeOK, ServerActivate, netVars, engineVars,
       RemoteAssumption
  <1> QED
    BY <1>1, <1>2 DEF IInv, ServerActivate, netVars, BuffersOutliveTransfers,
       CalledOnceWithReply, Ledger

LEMMA PostInv == IInv /\ PostJSON => IInv'
  <1> SUFFICES ASSUME IInv, PostJSON PROVE IInv'
    OBVIOUS
  <1> DEFINE i == m_RequestIndex
  <1>1. /\ i \in Nat /\ MaxRequests \in Nat /\ i < MaxRequests
        /\ i \in Requests /\ i + 1 \in 0 .. MaxRequests
    BY RemoteAssumption DEF RemoteAssumption, Requests, IInv, TypeOK, PostJSON
  <1>2. TypeOK'
    BY <1>1 DEF IInv, TypeOK, PostJSON, netVars, engineVars
  <1>3. BuffersOutliveTransfers'
    BY DEF IInv, BuffersOutliveTransfers, PostJSON
  <1>4. CalledOnceWithReply'
    BY DEF IInv, CalledOnceWithReply, PostJSON, netVars
  <1>5. i \notin handles
    BY <1>1 DEF IInv, BuffersOutliveTransfers, TypeOK
  <1>6. \A n \in DOMAIN called : called[n][1] \in Nat
    BY RequestsAreNumbers, CallTypes DEF IInv
  <1>7. Ledger'
    BY <1>1, <1>5, <1>6 DEF IInv, Ledger, TypeOK, PostJSON, netVars
  <1> QED
    BY <1>2, <1>3, <1>4, <1>7 DEF IInv

\* HandleCount is a number: there are finitely many transfers.
LEMMA Countable ==
    ASSUME IInv, NEW S, S \subseteq handles
    PROVE  IsFiniteSet(S) /\ Cardinality(S) \in Nat
  <1>1. IsFiniteSet(Requests)
    BY FS_Interval, RemoteAssumption DEF Requests, RemoteAssumption
  <1>2. S \subseteq Requests
    BY DEF IInv, TypeOK
  <1> QED
    BY <1>1, <1>2, FS_Subset, FS_CardinalityType

LEMMA PerformInv == IInv /\ Perform => IInv'
  <1> SUFFICES ASSUME IInv, Perform PROVE IInv'
    OBVIOUS
  <1>1. \A i \in Requests :
           Memory'[i] = IF i \in Running THEN sent[i] ELSE Memory[i]
    BY DEF Perform, WriteMemoryCallback, IInv, TypeOK
  <1>2. Memory' \in [Requests -> Nat]
    BY <1>1 DEF Perform, IInv, TypeOK
  <1>3. done' \subseteq handles
    BY DEF Perform, Running, IInv, TypeOK
  <1>4. HandleCount' \in Nat
    BY Countable DEF Perform
  <1>5. TypeOK'
    BY <1>2, <1>3, <1>4 DEF IInv, TypeOK, Perform, netVars, engineVars
  <1>6. \A i \in done' : outcome[i] # "open" /\ Memory'[i] = sent[i]
    <2> SUFFICES ASSUME NEW i \in done'
                 PROVE  outcome[i] # "open" /\ Memory'[i] = sent[i]
      OBVIOUS
    <2>1. i \in Requests
      BY <1>3 DEF IInv, TypeOK
    <2>2. CASE i \in done
      BY <1>1, <2>1, <2>2 DEF IInv, Ledger, Running
    <2>3. CASE i \in Running
      BY <1>1, <2>1, <2>3 DEF Perform, Running
    <2> QED
      BY <2>2, <2>3 DEF Perform
  <1>7. Ledger'
    BY <1>6 DEF IInv, Ledger, Perform, netVars
  <1> QED
    BY <1>5, <1>7 DEF IInv, Perform, BuffersOutliveTransfers, CalledOnceWithReply, netVars

\* A callback adds its request, with the whole reply, to those called.
LEMMA CallbackInv ==
    ASSUME IInv, NEW i \in done, called' = Append(called, <<i, Memory[i], outcome[i]>>),
           UNCHANGED sent
    PROVE  /\ CalledOnceWithReply'
           /\ \A n \in DOMAIN called' : called'[n][1] \in {i} \cup
                                           {called[m][1] : m \in DOMAIN called}
  <1> DEFINE n == Len(called)
  <1>1. called \in Seq(Requests \X Nat \X Outcomes) /\ n \in Nat
        /\ DOMAIN called = 1 .. n
    BY DEF IInv, TypeOK
  <1>2. DOMAIN called' = 1 .. n + 1
    BY <1>1
  <1>3. \A m \in 1 .. n : called'[m] = called[m]
    BY <1>1
  <1>4. called'[n + 1] = <<i, Memory[i], outcome[i]>>
    BY <1>1
  <1>5. called'[n + 1][1] = i /\ called'[n + 1][2] = sent[i]
    BY <1>4 DEF IInv, Ledger
  <1>6. \A m \in 1 .. n : called[m][1] # i
    BY <1>1 DEF IInv, Ledger, TypeOK
  <1>7. ASSUME NEW m \in 1 .. n + 1, NEW k \in 1 .. n + 1, called'[m][1] = called'[k][1]
        PROVE  m = k
    <2>1. CASE m \in 1 .. n /\ k \in 1 .. n
      <3>1. called[m][1] = called[k][1] /\ m \in DOMAIN called /\ k \in DOMAIN called
        BY <1>1, <1>3, <1>7, <2>1
      <3> QED
        BY <3>1 DEF IInv, CalledOnceWithReply
    <2>2. CASE m = n + 1 /\ k \in 1 .. n
      BY <1>3, <1>5, <1>6, <1>7, <2>2
    <2>3. CASE m \in 1 .. n /\ k = n + 1
      BY <1>3, <1>5, <1>6, <1>7, <2>3
    <2>4. CASE m = n + 1 /\ k = n + 1
      BY <2>4
    <2> QED
      BY <1>1, <2>1, <2>2, <2>3, <2>4
  <1>8. ASSUME NEW m \in 1 .. n + 1
        PROVE  /\ called'[m][2] = sent'[called'[m][1]]
               /\ called'[m][1] \in {i} \cup {called[k][1] : k \in DOMAIN called}
    <2>1. CASE m \in 1 .. n
      BY <1>1, <1>3, <2>1 DEF IInv, CalledOnceWithReply
    <2>2. CASE m = n + 1
      BY <1>5, <2>2
    <2> QED
      BY <1>1, <2>1, <2>2
  <1> HIDE DEF n
  <1> QED
    BY <1>2, <1>7, <1>8 DEF CalledOnceWithReply

LEMMA CommandTypes ==
    ASSUME IInv, NEW i \in Requests, CallbackResult(i) \/ UNCHANGED engineVars
    PROVE  /\ file' \in Requests \cup {NoCommand} /\ queued' \in Nat
           /\ executed' \in Seq(Requests \cup {NoCommand})
  <1>1. file \in Requests \cup {NoCommand} /\ queued \in Nat
        /\ executed \in Seq(Requests \cup {NoCommand})
    BY DEF IInv, TypeOK
  <1> QED
    BY <1>1 DEF CallbackResult, ServerExecute, engineVars

LEMMA InfoReadInv == ASSUME IInv, NEW i \in Requests, InfoRead(i) PROVE IInv'
  <1>1. i \in done /\ UNCHANGED <<sent, outcome, Memory, m_RequestIndex, m_MultiHandle>>
    BY DEF InfoRead, netVars
  <1>2. HandleCount' \in Nat
    <2>1. IsFiniteSet(done) /\ Cardinality(done) \in Nat
      BY Countable DEF IInv, TypeOK
    <2>2. Cardinality(done) # 0
      BY <1>1, <2>1, FS_EmptySet
    <2> QED
      BY <2>1, <2>2 DEF InfoRead
  <1>3. \/ called' = called
        \/ called' = Append(called, <<i, Memory[i], outcome[i]>>)
    BY DEF InfoRead
  <1>4. called' \in Seq(Requests \X Nat \X Outcomes)
    <2>1. <<i, Memory[i], outcome[i]>> \in Requests \X Nat \X Outcomes
      BY DEF IInv, TypeOK
    <2>2. called \in Seq(Requests \X Nat \X Outcomes)
      BY DEF IInv, TypeOK
    <2> HIDE DEF Outcomes
    <2>3. \A e \in Requests \X Nat \X Outcomes :
             Append(called, e) \in Seq(Requests \X Nat \X Outcomes)
      BY <2>2
    <2> QED
      BY <1>3, <2>1, <2>2, <2>3
  <1>5. TypeOK'
    <2>1. CallbackResult(i) \/ UNCHANGED engineVars
      BY DEF InfoRead
    <2>2. /\ file' \in Requests \cup {NoCommand} /\ queued' \in Nat
          /\ executed' \in Seq(Requests \cup {NoCommand})
      BY <2>1, CommandTypes
    <2> QED
      BY <1>1, <1>2, <1>4, <2>2 DEF IInv, TypeOK, InfoRead
  <1>6. BuffersOutliveTransfers'
    BY DEF IInv, BuffersOutliveTransfers, InfoRead
  <1>7. /\ CalledOnceWithReply'
        /\ \A n \in DOMAIN called' :
              called'[n][1] \in {i} \cup {called[m][1] : m \in DOMAIN called}
    <2>1. CASE called' = called
      BY <1>1, <2>1 DEF IInv, CalledOnceWithReply
    <2>2. CASE called' = Append(called, <<i, Memory[i], outcome[i]>>)
      BY <1>1, <2>2, CallbackInv
    <2> QED
      BY <1>3, <2>1, <2>2
  <1>8. i < m_RequestIndex /\ i \notin handles' /\ handles' \subseteq handles
    BY <1>1 DEF InfoRead, IInv, BuffersOutliveTransfers, TypeOK
  <1>9. Ledger'
    <2>1. ASSUME ~m_MultiHandle' PROVE FALSE
      BY <1>1, <2>1 DEF IInv, Ledger, TypeOK
    <2>2. \A j \in done' : outcome'[j] # "open" /\ Memory'[j] = sent'[j]
      BY <1>1 DEF InfoRead, IInv, Ledger
    <2>3. \A n \in DOMAIN called' :
             called'[n][1] < m_RequestIndex' /\ called'[n][1] \notin handles'
      BY <1>1, <1>7, <1>8 DEF IInv, Ledger
    <2> QED
      BY <2>1, <2>2, <2>3 DEF Ledger
  <1> QED
    BY <1>5, <1>6, <1>7, <1>9 DEF IInv

\* The network adds to transfers that still run.
LEMMA NetworkInv ==
    ASSUME IInv, NEW i \in Requests, Receive(i) \/ Finish(i) PROVE IInv'
  <1>1. i \in handles /\ i \notin done
    BY DEF Receive, Finish, Running
  <1>2. sent' \in [Requests -> Nat] /\ \A j \in Requests \ {i} : sent'[j] = sent[j]
    <2>1. sent \in [Requests -> Nat]
      BY DEF IInv, TypeOK
    <2>2. sent' = [sent EXCEPT ![i] = sent[i] + 1] \/ sent' = sent
      BY DEF Receive, Finish
    <2>3. sent[i] + 1 \in Nat
      BY <2>1
    <2> QED
      BY <2>1, <2>2, <2>3
  <1>3. /\ outcome' \in [Requests -> Outcomes]
        /\ \A j \in Requests \ {i} : outcome'[j] = outcome[j]
    BY DEF Receive, Finish, IInv, TypeOK, Outcomes
  <1>4. TypeOK'
    BY <1>2, <1>3 DEF Receive, Finish, IInv, TypeOK, curlVars, engineVars
  <1>5. \A j \in done : j \in Requests \ {i}
    BY <1>1 DEF IInv, TypeOK
  <1>6. \A n \in DOMAIN called : called[n][1] \in Requests \ {i}
    BY <1>1, CallTypes DEF IInv, Ledger
  <1>7. UNCHANGED <<curlVars, called>>
    BY DEF Receive, Finish
  <1> QED
    BY <1>2, <1>3, <1>4, <1>5, <1>6, <1>7
       DEF IInv, BuffersOutliveTransfers, CalledOnceWithReply, Ledger, curlVars

LEMMA OtherInv ==
    ASSUME IInv, ServerFrame \/ InfoEmpty \/ FrameLoop \/ ExecFile \/ UNCHANGED vars
    PROVE  IInv'
  <1>1. UNCHANGED <<curlVars, netVars, called>>
    BY DEF ServerFrame, InfoEmpty, FrameLoop, ExecFile, vars
  <1>2. /\ pc' \in {"idle", "perform", "read", "loop"} /\ HandleCount' \in Nat
    BY DEF ServerFrame, InfoEmpty, FrameLoop, ExecFile, vars, IInv, TypeOK
  <1>3. /\ file' \in Requests \cup {NoCommand} /\ queued' \in Nat
        /\ executed' \in Seq(Requests \cup {NoCommand})
    <2>1. file \in Requests \cup {NoCommand} /\ queued \in Nat
          /\ executed \in Seq(Requests \cup {NoCommand})
      BY DEF IInv, TypeOK
    <2>2. CASE ExecFile
      <3>1. Append(executed, file) \in Seq(Requests \cup {NoCommand})
        BY <2>1
      <3> QED
        BY <2>1, <2>2, <3>1 DEF ExecFile
    <2>3. CASE UNCHANGED engineVars
      BY <2>1, <2>3 DEF engineVars
    <2> QED
      BY <2>2, <2>3 DEF ServerFrame, InfoEmpty, FrameLoop, vars
  <1>4. TypeOK'
    BY <1>1, <1>2, <1>3 DEF IInv, TypeOK, curlVars, netVars
  <1> QED
    BY <1>1, <1>4 DEF IInv, BuffersOutliveTransfers, CalledOnceWithReply, Ledger,
       curlVars, netVars

LEMMA StepInv == IInv /\ [Next]_vars => IInv'
  BY ActivateInv, PostInv, PerformInv, InfoReadInv, NetworkInv, OtherInv
     DEF Next, FrameStep

-----------------------------------------------------------------------------
\* The entry a reply is written to lives as long as its transfer: m_Data is not
\* cleared by a map change, and InfoRead erases an entry with its handle.
THEOREM BuffersSafe == Spec => []BuffersOutliveTransfers
  <1>1. IInv => BuffersOutliveTransfers
    BY DEF IInv
  <1> QED
    BY InitInv, StepInv, <1>1, PTL DEF Spec

\* However the pieces of replies spread over the frames, a request is called
\* back at most once, and then with all that it received.
THEOREM CallbacksSafe == Spec => []CalledOnceWithReply
  <1>1. IInv => CalledOnceWithReply
    BY DEF IInv
  <1> QED
    BY InitInv, StepInv, <1>1, PTL DEF Spec

\* Every variable of the client, the network and the engine keeps its type, and
\* only requests that were made have entries.
THEOREM RemoteTypes == Spec => []TypeOK
  <1>1. IInv => TypeOK
    BY DEF IInv
  <1> QED
    BY InitInv, StepInv, <1>1, PTL DEF Spec

\* The count that the loop of ServerFrame tests, once the messages are read.
LoopEnds == pc = "loop" => HandleCount = 0

\* A frame never goes round its loop: whatever curl_multi_perform counted, the
\* reading of the messages has left the count at 0.
THEOREM FramesReturn == Spec => FrameReturns
  <1>1. Init => LoopEnds
    BY DEF Init, LoopEnds
  <1>2. LoopEnds /\ [Next]_vars => LoopEnds'
    BY DEF LoopEnds, Next, vars, ServerActivate, PostJSON, ServerFrame, FrameStep, Perform,
       InfoRead, InfoEmpty, FrameLoop, Receive, Finish, ExecFile
  <1>3. LoopEnds /\ [Next]_vars => [pc = "loop" => pc' # "perform"]_vars
    BY DEF LoopEnds, Next, vars, ServerActivate, PostJSON, ServerFrame, FrameStep, Perform,
       InfoRead, InfoEmpty, FrameLoop, Receive, Finish, ExecFile
  <1> QED
    BY <1>1, <1>2, <1>3, PTL DEF Spec, FrameReturns

-----------------------------------------------------------------------------
(* The command file *)

\* The commands of a list of callbacks, where one of them is, and whether it is
\* there or nothing.
CommandsOf(calls) == {n \in DOMAIN calls : calls[n][3] = "command"}
Place(calls, c) ==
    IF c = NoCommand THEN 0 ELSE CHOOSE n \in CommandsOf(calls) : calls[n][1] = c
Known(calls, c) == c = NoCommand \/ \E n \in CommandsOf(calls) : calls[n][1] = c

\* The callbacks of two lists have requests of their own, and the second list goes on
\* where the first ends.
Unique(calls) == \A m, n \in DOMAIN calls : calls[m][1] = calls[n][1] => m = n
GoesOn(calls, more) ==
    /\ CommandsOf(calls) \subseteq CommandsOf(more)
    /\ \A n \in CommandsOf(calls) : more[n] = calls[n]

LEMMA Chosen ==
    ASSUME NEW calls, NEW n \in CommandsOf(calls), Unique(calls), calls[n][1] # NoCommand
    PROVE  Place(calls, calls[n][1]) = n
  <1>1. \A m \in CommandsOf(calls) : calls[m][1] = calls[n][1] => m = n
    BY DEF CommandsOf, Unique
  <1> QED
    BY <1>1 DEF Place

\* A command that was received stays where it is.
LEMMA PlaceStays ==
    ASSUME NEW calls, NEW more, Unique(calls), Unique(more), GoesOn(calls, more),
           NEW c, Known(calls, c)
    PROVE  /\ Known(more, c) /\ Place(more, c) = Place(calls, c)
           /\ Place(calls, c) \in {0} \cup DOMAIN calls
  <1>1. CASE c = NoCommand
    BY <1>1 DEF Place, Known
  <1>2. CASE c # NoCommand
    <2>1. PICK n \in CommandsOf(calls) : calls[n][1] = c
      BY <1>2 DEF Known
    <2>2. n \in CommandsOf(more) /\ more[n][1] = c
      BY <2>1 DEF GoesOn
    <2>3. Place(calls, c) = n
      BY <1>2, <2>1, Chosen
    <2>4. Place(more, c) = n
      BY <1>2, <2>2, Chosen
    <2> QED
      BY <2>1, <2>2, <2>3, <2>4 DEF Known, CommandsOf
  <1> QED
    BY <1>1, <1>2

\* Commands executed in the order of the callbacks, none after the place last.
Sorted(calls, run, last) ==
    /\ \A m \in DOMAIN run : Known(calls, run[m]) /\ Place(calls, run[m]) <= last
    /\ \A m, n \in DOMAIN run :
          m < n => Place(calls, run[m]) <= Place(calls, run[n])

LEMMA SortedStays ==
    ASSUME NEW calls, NEW more, Unique(calls), Unique(more), GoesOn(calls, more),
           NEW run, NEW last, Sorted(calls, run, last)
    PROVE  Sorted(more, run, last)
  <1>1. \A m \in DOMAIN run : /\ Known(more, run[m])
                              /\ Place(more, run[m]) = Place(calls, run[m])
    BY PlaceStays DEF Sorted
  <1> QED
    BY <1>1 DEF Sorted

\* What is executed next is the newest.
LEMMA SortedAppend ==
    ASSUME NEW calls, NEW S, NEW run \in Seq(S), NEW c \in S, Known(calls, c),
           Place(calls, c) \in Nat, Sorted(calls, run, Place(calls, c))
    PROVE  Sorted(calls, Append(run, c), Place(calls, c))
  <1> DEFINE len == Len(run)
             next == Append(run, c)
             P(x) == Place(calls, x)
  <1>1. /\ len \in Nat /\ DOMAIN run = 1 .. len /\ DOMAIN next = 1 .. len + 1
        /\ next[len + 1] = c /\ \A m \in 1 .. len : next[m] = run[m]
    OBVIOUS
  <1>2. \A m \in 1 .. len + 1 : m \in 1 .. len \/ m = len + 1
    BY <1>1
  <1>3. /\ \A m \in 1 .. len : Known(calls, run[m]) /\ P(run[m]) <= P(c)
        /\ \A m, n \in 1 .. len : m < n => P(run[m]) <= P(run[n])
        /\ P(c) \in Nat
    BY <1>1 DEF Sorted
  <1> HIDE DEF next, P, len
  <1>4. \A m \in 1 .. len + 1 : Known(calls, next[m]) /\ P(next[m]) <= P(c)
    BY <1>1, <1>2, <1>3
  <1>5. ASSUME NEW m \in 1 .. len + 1, NEW n \in 1 .. len + 1, m < n
        PROVE  P(next[m]) <= P(next[n])
    <2>1. CASE n = len + 1
      BY <1>1, <1>4, <2>1
    <2>2. CASE n \in 1 .. len
      <3>1. m \in 1 .. len
        BY <1>1, <1>5, <2>2
      <3> QED
        BY <1>1, <1>3, <1>5, <2>2, <3>1
    <2> QED
      BY <1>2, <2>1, <2>2
  <1> QED
    BY <1>1, <1>4, <1>5 DEF Sorted, next, P

\* Where no command is newer than the last, none is newer than a later one.
LEMMA SortedLater ==
    ASSUME NEW calls, Unique(calls), DOMAIN calls \subseteq Nat, NEW run,
           NEW last \in Nat, NEW later \in Nat, last <= later, Sorted(calls, run, last)
    PROVE  Sorted(calls, run, later)
  <1>1. ASSUME NEW m \in DOMAIN run
        PROVE  Place(calls, run[m]) <= later
    <2>1. Known(calls, run[m]) /\ Place(calls, run[m]) <= last
      BY DEF Sorted
    <2>2. Place(calls, run[m]) \in {0} \cup DOMAIN calls
      BY <2>1, PlaceStays DEF GoesOn
    <2> QED
      BY <2>1, <2>2
  <1> QED
    BY <1>1 DEF Sorted

\* Every command brings one "exec"; the file and all that was executed was received,
\* and nothing executed is newer than the file.
FileInv ==
    /\ Len(executed) + queued = Cardinality(CommandsOf(called))
    /\ Known(called, file)
    /\ Sorted(called, executed, Place(called, file))

KInv == IInv /\ FileInv

LEMMA CallsUnique ==
    ASSUME IInv
    PROVE  /\ Unique(called) /\ Place(called, NoCommand) = 0
           /\ DOMAIN called = 1 .. Len(called) /\ Len(called) \in Nat
           /\ IsFiniteSet(CommandsOf(called)) /\ Cardinality(CommandsOf(called)) \in Nat
  <1>1. DOMAIN called = 1 .. Len(called) /\ Len(called) \in Nat
    BY DEF IInv, TypeOK
  <1>2. IsFiniteSet(1 .. Len(called))
    BY <1>1, FS_Interval
  <1>3. CommandsOf(called) \in SUBSET (1 .. Len(called))
    BY <1>1 DEF CommandsOf
  <1>4. IsFiniteSet(CommandsOf(called)) /\ Cardinality(CommandsOf(called)) \in Nat
    BY <1>2, <1>3, FS_Subset, FS_CardinalityType
  <1> QED
    BY <1>1, <1>4 DEF IInv, CalledOnceWithReply, Unique, Place

LEMMA PlaceOfFile ==
    ASSUME KInv
    PROVE  Place(called, file) \in 0 .. Len(called)
  <1>1. Place(called, file) \in {0} \cup DOMAIN called
    BY CallsUnique, PlaceStays DEF KInv, FileInv, GoesOn
  <1> QED
    BY <1>1, CallsUnique DEF KInv

LEMMA InitKInv == Init => KInv
  <1> SUFFICES ASSUME Init PROVE KInv
    OBVIOUS
  <1>1. IInv
    BY InitInv
  <1>2. /\ CommandsOf(called) = {} /\ DOMAIN executed = {} /\ Len(executed) = 0
        /\ queued = 0 /\ file = NoCommand
    BY DEF Init, CommandsOf
  <1>3. Cardinality({}) = 0
    BY FS_EmptySet
  <1> QED
    BY <1>1, <1>2, <1>3 DEF KInv, FileInv, Known, Sorted

\* A callback is one more, and one more command if it saw one.
LEMMA CallAdds ==
    ASSUME IInv, NEW i \in done, called' = Append(called, <<i, Memory[i], outcome[i]>>)
    PROVE  /\ GoesOn(called, called')
           /\ CommandsOf(called')
                 = CommandsOf(called) \cup
                      (IF outcome[i] = "command" THEN {Len(called) + 1} ELSE {})
           /\ called'[Len(called) + 1][1] = i
  <1> DEFINE n == Len(called)
  <1>1. called \in Seq(Requests \X Nat \X Outcomes) /\ n \in Nat
        /\ DOMAIN called = 1 .. n
    BY DEF IInv, TypeOK
  <1>2. DOMAIN called' = 1 .. n + 1 /\ \A m \in 1 .. n : called'[m] = called[m]
    BY <1>1
  <1>3. called'[n + 1] = <<i, Memory[i], outcome[i]>>
    BY <1>1
  <1>4. called'[n + 1][1] = i /\ called'[n + 1][3] = outcome[i]
    BY <1>3
  <1>5. \A m \in 1 .. n + 1 : m \in 1 .. n \/ m = n + 1
    BY <1>1
  <1>6. n + 1 \in 1 .. n + 1 /\ 1 .. n \subseteq 1 .. n + 1
    BY <1>1
  <1>7. \A m : m \in CommandsOf(called') <=>
               \/ m \in CommandsOf(called)
               \/ m = n + 1 /\ outcome[i] = "command"
    <2> HIDE DEF n
    <2> QED
      BY <1>1, <1>2, <1>4, <1>5, <1>6, Zenon DEF CommandsOf
  <1>8. \A m \in CommandsOf(called) : called'[m] = called[m]
    BY <1>1, <1>2 DEF CommandsOf
  <1> QED
    BY <1>4, <1>7, <1>8 DEF GoesOn

\* Steps that receive no command; one of them executes what the file holds.
LEMMA NothingReceived ==
    ASSUME KInv, IInv', GoesOn(called, called'), CommandsOf(called') = CommandsOf(called),
           file' = file, ExecFile \/ UNCHANGED <<queued, executed>>
    PROVE  FileInv'
  <1> DEFINE place == Place(called, file)
  <1>1. /\ Unique(called) /\ Unique(called') /\ place \in Nat
        /\ Known(called, file) /\ Sorted(called, executed, place)
        /\ Len(executed) + queued = Cardinality(CommandsOf(called))
    BY CallsUnique, PlaceOfFile DEF KInv, FileInv, Unique, IInv, CalledOnceWithReply
  <1>2. Known(called', file) /\ Place(called', file) = place
    BY <1>1, PlaceStays
  <1>3. /\ executed \in Seq(Requests \cup {NoCommand}) /\ queued \in Nat
        /\ Len(executed) \in Nat /\ file \in Requests \cup {NoCommand}
    BY DEF KInv, IInv, TypeOK
  <1>4. CASE ExecFile
    <2>1. queued > 0 /\ queued' = queued - 1 /\ executed' = Append(executed, file)
      BY <1>4 DEF ExecFile
    <2>2. Len(executed') + queued' = Len(executed) + queued
      BY <1>3, <2>1
    <2>3. Sorted(called, executed', place)
      BY <1>1, <1>3, <2>1, SortedAppend
    <2>4. Sorted(called', executed', place)
      BY <1>1, <2>3, SortedStays
    <2> QED
      BY <1>1, <1>2, <2>2, <2>4 DEF FileInv
  <1>5. CASE UNCHANGED <<queued, executed>>
    <2>1. Sorted(called', executed, place)
      BY <1>1, SortedStays
    <2> QED
      BY <1>1, <1>2, <1>5, <2>1 DEF FileInv
  <1> QED
    BY <1>4, <1>5

\* A command received is the newest, whether or not the file can be written.
LEMMA CommandReceived ==
    ASSUME KInv, IInv', NEW i \in done, outcome[i] = "command",
           called' = Append(called, <<i, Memory[i], outcome[i]>>), ServerExecute(i)
    PROVE  FileInv'
  <1> DEFINE n == Len(called)
             place == Place(called, file)
  <1>1. /\ Unique(called) /\ Unique(called') /\ place \in 0 .. n /\ n \in Nat
        /\ Known(called, file) /\ Sorted(called, executed, place)
        /\ Len(executed) + queued = Cardinality(CommandsOf(called))
        /\ IsFiniteSet(CommandsOf(called)) /\ CommandsOf(called) \subseteq 1 .. n
    BY CallsUnique, PlaceOfFile
       DEF KInv, FileInv, Unique, IInv, CalledOnceWithReply, CommandsOf
  <1>2. /\ GoesOn(called, called') /\ CommandsOf(called') = CommandsOf(called) \cup {n + 1}
        /\ called'[n + 1][1] = i
    BY CallAdds DEF KInv
  <1>3. /\ queued \in Nat /\ Len(executed) \in Nat /\ i \in Requests
        /\ DOMAIN called' \subseteq Nat
    <2>1. queued \in Nat /\ executed \in Seq(Requests \cup {NoCommand}) /\ i \in Requests
      BY DEF KInv, IInv, TypeOK
    <2>2. called' \in Seq(Requests \X Nat \X Outcomes')
      BY DEF IInv, TypeOK, Outcomes
    <2>3. Len(executed) \in Nat
      BY <2>1
    <2>4. DOMAIN called' = 1 .. Len(called')
      BY <2>2
    <2> QED
      BY <2>1, <2>3, <2>4
  <1>4. Len(executed') + queued' = Cardinality(CommandsOf(called'))
    <2>1. n + 1 \notin CommandsOf(called)
      BY <1>1
    <2>2. Cardinality(CommandsOf(called')) = Cardinality(CommandsOf(called)) + 1
      BY <1>1, <1>2, <2>1, FS_AddElement
    <2>3. queued' = queued + 1 /\ executed' = executed
      BY DEF ServerExecute
    <2> QED
      BY <1>1, <1>3, <2>2, <2>3
  <1>5. Sorted(called', executed, place) /\ executed' = executed
    BY <1>1, <1>2, SortedStays DEF ServerExecute
  <1>6. CASE file' = file
    <2>1. Known(called', file) /\ Place(called', file) = place
      BY <1>1, <1>2, PlaceStays
    <2> QED
      BY <1>4, <1>5, <1>6, <2>1 DEF FileInv
  <1>7. CASE file' = i
    <2>1. i # NoCommand
      BY <1>3, RequestsAreNumbers, RemoteAssumption DEF RemoteAssumption
    <2>2. Place(called', i) = n + 1 /\ Known(called', i)
      BY <1>1, <1>2, <2>1, Chosen DEF Known
    <2>3. place \in Nat /\ n + 1 \in Nat /\ place <= n + 1
      BY <1>1
    <2>4. Sorted(called', executed, n + 1)
      BY <1>1, <1>3, <1>5, <2>3, SortedLater
    <2> QED
      BY <1>4, <1>5, <1>7, <2>2, <2>4 DEF FileInv
  <1> QED
    BY <1>6, <1>7 DEF ServerExecute

LEMMA StepKInv == KInv /\ [Next]_vars => KInv'
  <1> SUFFICES ASSUME KInv, [Next]_vars PROVE FileInv'
    BY StepInv DEF KInv
  <1>1. IInv'
    BY StepInv DEF KInv
  <1>2. CASE called' = called /\ file' = file /\ (ExecFile \/ UNCHANGED <<queued, executed>>)
    BY <1>1, <1>2, NothingReceived DEF GoesOn
  <1>3. ASSUME NEW i \in Requests, InfoRead(i) PROVE FileInv'
    <2>1. i \in done
      BY <1>3 DEF InfoRead
    <2>2. CASE called' = Append(called, <<i, Memory[i], outcome[i]>>) /\ CallbackResult(i)
      <3>1. CASE outcome[i] = "command"
        BY <1>1, <2>1, <2>2, <3>1, CommandReceived DEF CallbackResult
      <3>2. CASE outcome[i] # "command"
        <4>1. UNCHANGED <<file, queued, executed>>
          BY <2>2, <3>2 DEF CallbackResult, engineVars
        <4>2. GoesOn(called, called') /\ CommandsOf(called') = CommandsOf(called)
          BY <2>1, <2>2, <3>2, CallAdds DEF KInv
        <4> QED
          BY <1>1, <4>1, <4>2, NothingReceived
      <3> QED
        BY <3>1, <3>2
    <2>3. CASE UNCHANGED <<called, engineVars>>
      BY <1>2, <2>3 DEF engineVars
    <2> QED
      BY <1>3, <2>2, <2>3 DEF InfoRead
  <1>4. CASE \/ ServerActivate \/ PostJSON \/ ServerFrame \/ Perform \/ InfoEmpty \/ FrameLoop
             \/ (\E i \in Requests : Receive(i) \/ Finish(i)) \/ ExecFile \/ UNCHANGED vars
    <2>1. called' = called /\ file' = file /\ (ExecFile \/ UNCHANGED <<queued, executed>>)
      BY <1>4 DEF ServerActivate, PostJSON, ServerFrame, Perform, InfoEmpty, FrameLoop,
         Receive, Finish, ExecFile, vars, engineVars
    <2> QED
      BY <1>2, <2>1
  <1> QED
    BY <1>3, <1>4 DEF Next, FrameStep

\* Whatever order the replies complete in, and even if the command file cannot be
\* written: as many "exec" were queued as commands came, and as they all read the one
\* file, none runs an older command after a newer one.
THEOREM CommandsInOrder == Spec => []ExecsKeepUp
  <1>1. \A c : Position(c) = Place(called, c)
    BY DEF Position, Place, Commands, CommandsOf
  <1>2. KInv => ExecsKeepUp
    BY <1>1 DEF KInv, FileInv, Sorted, ExecsKeepUp, Commands, CommandsOf
  <1> QED
    BY InitKInv, StepKInv, <1>2, PTL DEF Spec
=============================================================================
