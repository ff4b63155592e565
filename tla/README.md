# MatchStats: a TLA+ model of the match recorder

MatchStats is a Metamod plugin for Counter-Strike servers. It hooks the game
library (ReGameDLL) and the engine (ReHLDS), records what the players of a match
do, writes the match as a JSON document when it ends and, if configured, posts
the document to a web service whose answer may carry a command for the server.
Everything runs in the server's thread. What is hard is therefore not parallelism
but **order**: some twenty callbacks that the game may make in nearly any order,
a state cvar that operators and other plugins set whenever they like, hooks that
run before or inside other hooks, and replies and commands that arrive frames
later.

## Inventory

| part | state | operations | lives in |
|---|---|---|---|
| match state machine | `ms_state`, `m_State`, `m_Match` | `ServerActivate`, `Cvar_DirectSet` (eight states) | `MatchStats.cpp`, `ReAPI.cpp` |
| roster and records | `m_Player`: team, winner, stats per state, chat, round stats | join, leave, switch team, shots, money, bomb carrying, chat | `MatchStats.cpp`, `ReGameDLL.cpp` |
| combat | `Stats`, `Round`, `Round.PlayerDamage` | `PlayerDamage`, `PlayerKilled` | `MatchStats.cpp` |
| rounds | score, `KillStreak`, `Versus`, `RoundWinShare` | `RoundRestart`, `RoundFreezeEnd`, `RoundEnd` | `MatchStats.cpp` |
| bomb | flags of the round, log | `PlantBomb`, `DefuseBombStart`, `DefuseBombEnd`, `ExplodeBomb` | `MatchStats.cpp` |
| event log | `m_RoundEvent` | `OnEvent`, called by the three parts above | `MatchStats.cpp` |
| export | the document | `ExportData`, at `STATE_END` | `MatchStats.cpp` |
| message hook | `m_Hook`, `m_MsgId`, `m_Data` | `RegisterHook`, `MessageBegin`, `Write*`, `Get*`, `SetArg*`, `MessageEnd` | `MatchMessage.cpp`, `MetaEngine.cpp` |
| HTTP client | `m_MultiHandle`, `m_RequestIndex`, `m_Data` | `ServerActivate`, `PostJSON`, `ServerFrame`, `WriteMemoryCallback` | `MatchCurl.cpp` |
| remote commands | one command file | `CallbackResult`, `ServerExecute` | `MatchStats.cpp`, `MatchUtil.cpp` |

How they interact: the hooks of ReGameDLL and ReAPI call the recorder, most after
the game's own code, but `RoundEnd`, `DefuseBombEnd`, `ExplodeBomb` and the
dropping of a client before it, and `PlantBomb` on both sides of it. The message
hook calls `SayText`, which records chat. `STATE_END` calls `ExportData`, which
calls `PostJSON`; the frame of the server later calls `CallbackResult`, which may
queue an `exec` that can set `ms_state` and so start all over. That `exec` waits in
the same buffer of the engine as the settings file that every map start queues.

What makes each part correct:

* *state machine*: the recorder acts on the cvar's value; score, log and rounds
  are cleared together; a half that is not being played is not written.
* *records*: nothing is recorded without a record, and records do not go before
  the log that names them.
* *combat*: what one player gives another receives, though the lethal hit is
  recorded last; assists and clutches are those of the round.
* *rounds, bomb, log*: score, rounds and win events agree; no counter claims what
  the log does not tell; the round stats used at the end of a round are of that
  round; a round pays its points once, to the winners who fought in it.
* *export*: the document is consistent in itself, of one match, gives each player's
  side and marks the winners.
* *message hook*: invisible to the game and its clients, and hears every line that
  is sent once it is registered.
* *HTTP client*: each document is answered once, with all that arrived for it, and no
  frame waits; *commands*: each is executed, in order, and none outlives its map.

## Modules

| module | what it holds |
|---|---|
| `MatchData` | teams, states, counters, the value of each structure after its `Reset()`, the document's sums |
| `MatchStats` | the recorder and the game as its environment: one action for each handler |
| `MatchProperties` | type invariant, safety, action and liveness properties of the recorder |
| `MatchTotals` | properties over sums of players and over the exported document |
| `Scoreboard` | abstract: what the recorder promises of a match, a score, rounds and a log |
| `RoundShare` | the recorder with `RoundWinShare`, and who fought in the round |
| `MatchAudit` | the recorder with a history variable: the damage of the round |
| `MatchProofs` | the recorder keeps its types |
| `MatchSafety` | proofs about score, log, records and state, and that the recorder implements `Scoreboard` |
| `RecordProofs` | proofs about the counters of each player, and that the log backs them |
| `TotalProofs` | sums over players and cells; proofs about `MatchTotals` |
| `ShareProofs` | proofs about the points of a round |
| `MessageStream` | abstract: messages reach the clients whole, in order and as composed, but for strings that have no end |
| `MatchMessage` | the message hook, between the game and the engine, with `SayText` |
| `MessageProofs` | proofs about it, among them the refinement |
| `RemoteApi` | HTTP client, callback, command file and command buffer |
| `RemoteProofs` | proofs about it |
| `MatchPipeline` | recorder, `RemoteApi` and the engine's command buffer in one server |
| `PipelineProofs` | proofs about it |
| `MCMatch`, `MCAudit`, `MCShare`, `MCMessage`, `MCPipeline` | instances for TLC |

### The recorder

The variables named as in the source are the source's. `Stats`, `Tally`, `Round`,
`PlayerDamage`, `Team`, `Winner` and `ChatLog` are the fields of `m_Player`'s
values, as functions of the player; a player who is not a key of `m_Player` has
the default values. That no handler of the model leaves a trace of a player without
a record is a lemma about the encoding (`RecordProofs!NoTraceWithoutRecord`). `Tally` is
`KillStreak` and `Versus`, adjacent arrays, as one row of cells. Of the
counters of `S_PLAYER_STATS` the model has those that properties distinguish; hit
boxes, weapon tables and the flavour counters change under the same tests as one
of them. `m_stats_state` is the cvar pointer: null or not. `settings` says that
the `exec` that `ServerActivate` queues has not run. `dataFile` is what a step
wrote to disk.

`here`, `team`, `alive`, `round`, `bomb`, `planter` and `pending` are the game.
The game is not in the repository: its guards are as loose as what the handlers
see allows (a player is hit or killed while alive and not in the freeze time, a
bomb is planted in a live round, a side wins when the other is dead or gone, the
bomb went its way or time ran out). A round may end in its freeze time, when a
player leaves or dies by itself: `round` is then "aborted", until the freeze time
runs out or the next round begins. The team menu is open before a client enters the
game, so a team may change, to none also, while the player is not in `here`. A handler is one action, since nothing else runs meanwhile, with one
exception: `TakeDamage` calls `Killed`, which calls `PlayerKilled`'s hook and may
end the round, all before the hook of `TakeDamage` itself records. `pending` holds
that open call, so `PlayerKilled`, `RoundEnd` and `PlayerDamage_Lethal` are three
steps, and only what the game or an operator may do from inside the call comes between
them (`CalledWithin`): a change of `ms_state`, the killer's reward, the drop of the
victim's bomb. `PlantBomb` does something before and after the game's code, in
which no hook is called; the two are one step. `DefuseBombEnd` with `Defused`
false and callbacks outside the three recorded states change nothing and are not
actions. `team` keeps the team of a dormant entity, since the loops of `RoundEnd`
do not skip it.

Values: `DamageTaken` is any member of `Damages`; money is one unit a time; a chat
line is the state it was recorded in. Times, names, origins and items are left out.

### The points of a round

`RoundShare` adds the counter `RoundWinShare`, which nothing reads but the export,
as a conjunct (`Share`) to every step of the recorder, and one history variable,
`fought`. `RoundEnd` adds up the damage of both sides in a first loop and pays the
winners in a second; the model computes both from the state before the step, which
`RoundEnd` does not change before it reads it. Floats are integers in fractions of a
point: `Unit` is a multiple of every damage that a side may have dealt in the
instance, so that `\div` loses nothing there.

### The scoreboard

`Scoreboard` says in four actions what a reader of a document may believe of a match:
a new match, something happens in the round being played, a side wins the round, the
sides change over. It numbers events by the rounds. The recorder keeps no such
number; `OnEvent` adds two scores, which halftime exchanges and four states clear.
`KeepsScore` is the refinement, for any order of callbacks and states.

### The message hook

`game` is what the game composes, `engine` what the engine was given, `wire` what
it was given whole. A parameter is held with three fields (`iValue`, `flValue`,
`szValue`), of which the replay sends the one of its type. `Q_strncpy` is `strncpy`
(`strtools.h:112`): a string that fits the 200 bytes of `szValue` together with its end
(`Fits`) is read back as it was; a longer one has no end in the field, and each time
the field is read something else may come out (`Reads`), which is never the string.
`Get` and the replay both read (`Readings`). `SayText` is the only hook the plugin
registers, in every map; `unheard` counts what went by before the first time. It
records a line for the client it is delivered to (`To`); who speaks is in the first
byte, which it does not look at. The
"Filter" function stands for the rest of the class's interface: a hook that sets
an argument and blocks the message. The plugin has none today.

### The remote service

`ServerFrame` is split at each call of libcurl, since the network moves between
them: `ServerFrame`, `Perform`, `InfoRead`, `InfoEmpty`, `FrameLoop`. `HandleCount`
is the one variable to which both libcurl functions write their count. `sent`
counts the pieces of a reply that arrived, `Memory` those in its entry. `Finish` ends a
transfer, whole or cut off. `CallbackResult` looks at the response code and at whether
what it has parses, not at the result of the transfer: a reply that was timed out may
be a command as well, if anything of it arrived.
`ServerExecute` writes the one file, if it opens, and queues one `exec`; `ExecFile`
is the engine running it between frames.

### The whole server

`MatchPipeline` has the variables of both models and `cbuf`, the command buffer of
the engine. An export is `PostJSON` in the same step (`Exported`) if `m_api_enable` says
so (`ToPost`), and before the first map not even then, since the multi handle is null.
The cvar starts at 0, and operators, commands and the settings file set it, the file
behind its `ms_state` line (`SettingsApi`: the shipped file says 0). The other test,
of `m_api_address`, is of a pointer the engine never leaves null; an empty address
fails in libcurl and is answered like any transfer that fails. Handlers of the game run while no
frame of the HTTP client is open (`Idle`). `DLL_POST_ServerActivate` starts the
recorder's map, starts the client once and queues the settings file. The engine
empties its buffer from the head, between frames; `exec` puts the text of the file
in its own place. The text of a command sets `ms_state`, or something else.
Marks on the entries (`old`) and `setter` tell, for the properties only, from which
map a command is. That a new map starts only when the settings file of the one
before has run, and that `StartFrame` comes after the buffer is emptied, is the engine's.

## Runs

| run | configuration | checks | bounds |
|---|---|---|---|
| course | `MCCourse` | `TypeOK`, `ScoreIsRounds`, `LogIsChronicle`, `StateFollowsCvar`, `RoundsPlayed`, `StatsInLog`, `LogGrows`, `PastHalvesKept`, `KeepsScore`, `SettingsTakeEffect` | 1 player, 2 rounds, suicides, states 0, 2-5 and the undefined 8 |
| combat | `MCCombat` | `Balanced`, `StatsInLog`, `RoundInLog`, `StreaksOfHalf`, `ClutchesOfHalf`, `ShareOfRoundsWon`, `BombRoundPaysOut`, `SharesOfRound` | 1 against 2, 2 rounds, 4 events, complete restarts, a bomb that may be defused, 50 points and a bonus of 30 |
| bomb | `MCBomb` | `StatsInLog`, `RoundInLog`, `RoundsPlayed`, `EventsHaveRecords`, `ExportIsConsistent` | 1 against 1, 3 events, states 3 and 7, hits, kills, players leave |
| roster | `MCRoster` | `TeamOfRecord`, `ExportIsConsistent` | 1 player, states 0, 1, 3, 7, maps, chat, sides switched |
| message | `MCMessage` | `TypeOK`, `EngineUnbroken`, `HeldIsComposed`, `HearsWhatArrives`, `StreamSpec` | 2 messages of 2 types, 4 parameters each, strings that fit and one that does not |
| remote | `MCRemote` | `TypeOK`, `BuffersOutliveTransfers`, `CalledOnceWithReply`, `ExecsKeepUp`, `EveryPostAnswered`, `FrameReturns` | 3 documents, 2 pieces |
| pipeline | `MCPipeline` | `OldCommandsEnd`, `ExportsAnswered`, `ImplementsRemote` | 1 client that comes, 2 documents, states 0, 3, 7, posting enabled and disabled, commands that set 3 and 7 |
| stale_stats | `MCStaleStats` | `ExportOfOneMatch` is violated | 1 player, 1 round |
| winners | `MCWinners` | `ExportMarksWinners` is violated | 1 against 1, 1 round |
| points | `MCPoints` | `RoundPaysOut` is violated | 1 against 2, 1 round, 50 points |
| assists | `MCAssists` | `AssistsOfRound` is violated | 1 against 2 |
| remote_lost | `MCRemoteLost` | `EveryCommandExecuted` is violated | 2 documents |

The bounds are small since the hazards are: a stale value needs one reset too few
and two rounds, halves or matches; a lethal hit across the end of a round needs
two players; a streak, a clutch and a round whose points are divided need one
against two; a command that outlives its map needs two maps and one document, a
command that is overtaken two documents. `Hooks` gives each
instance the callbacks its question is about; between them the runs take every
action, and the proved properties do not depend on `Hooks`. `OthersAlike` is sound: the players besides `p1` are in no
definition, all start on the same side, and no temporal property is checked under
it but the action properties over the history variable and the points, which are safety
properties of single steps and treat all players alike.

The bounds `MaxRounds`, `MaxEvents`, `MaxDamage`, `MaxCount`, `MaxChat`,
`MaxMessages`, `MaxRequests` and `MaxChunks` are guards of the actions
that count (`MaxCount` bounds the counters that no event bounds, together); they make the models finite and, when all are reached, still leave
moves: deadlock is checked in every run.
`Written` (what is written at each place of a message) and `Settable` (what a filter
sets) bound the messages.

### What the violations show

* **stale_stats**: `STATE_FIRST_HALF` clears the counters of the first half only.
  A match ended before its own second half exports the one of the match before.
* **winners**: halftime swaps the scores and leaves `Winner`, so a match that ends
  there marks the side that the document shows as behind.
* **points**: `ms_rws_total_points`, "Total of Round Win Share points to be divided by
  winner team of round" (`matchstats.cfg:22`), is read only in rounds that the bomb
  decided; in the others `RoundEnd` divides a literal 100 (`MatchStats.cpp:683`).
  `BombRoundPaysOut` states what holds for the rounds of the bomb, and `DefaultPays`
  proves all of it for the default, 100. The literal is also why `ShareOfRoundsWon` bounds
  what a player gets by the larger of 100 and the cvar.
* **assists**: `Round.Reset()` leaves `PlayerDamage`; damage adds up over rounds
  until it makes an assist.
* **remote_lost**: two replies in one frame: the second command overwrites the
  file before the first `exec` runs.

Some disagreements have no run of their own:

* The round stats are reset when the freeze time runs out, so a round that ends in its
  freeze time (a side leaves) counts the streak and the shares of the round before
  again; `StreaksOfHalf`, `ClutchesOfHalf` and `SharesOfRound` say what holds nevertheless.
* `Round.Versus` is overwritten at every kill. Alone against two, a player kills one
  (`Versus` 2), then the other (`Versus` 1) and wins: one against one is counted, for a
  histogram documented "1 vs X win situations" (`MatchStats.h:193`).
* `STATE_DEAD` drops the records of players in the game, and only joining and switching
  set `Team`: the record that a chat line makes again has team 0, and so it is exported.
  `TeamOfRecord` says that 0 is the only wrong team a record can have.
* `STATE_END` marks every record whose team is `Winner`. On a draw that is 0, the
  team of the records of the item before: all of them win.
* `SayText` records a line for the client the message goes to, with that player's side
  and life, and not for the speaker; `HearsWhatArrives` says so.
* A hooked message with a string of 200 bytes or more does not arrive as composed,
  though `SayText` does not block it (`MatchStats.cpp:879`). `StreamSpec` lets such a
  string arrive as anything, and `ShortStringsPass` proves that the others do not need it.

### Fairness

`FairSpec` of the recorder asks weak fairness of `ExecSettings` only: the engine
empties its command buffer in every frame, and no `TakeDamage` stays open over a
frame. `Fairness` of `RemoteApi` asks it of `ServerFrame` (the server runs
frames), of `FrameStep` (a call that was begun goes on) and of `Finish`, because
`PostJSON` sets `CURLOPT_TIMEOUT`. `PipelineFairness` asks weak fairness of the
execution of the buffer, of a frame that was begun and of the end of a transfer, and
strong fairness of `FrameBegins`: a frame begins again and again, though callbacks and
commands come between. Nothing is assumed of the web service or the players.

## Proofs

All for any constants that meet the assumptions; the assumptions are those named
`...Assumption` in `MatchData`, `MatchStats`, `MatchMessage`, `RemoteApi` and
`MatchPipeline`, and TLC evaluates them in the runs.

* `MatchProofs!TypeCorrect`: `TypeOK` is inductive. The proof has one lemma for
  each group of handlers; a step keeps the type of the parts it leaves alone.
* `MatchSafety` shows first (`StepEffect`) that for score, log and the keys of the
  records a step is one of five: *quiet*, *swapped* (halftime), *emptied* (another
  match), *logged* (an event of the round) or *ended* (a round). With that:
  * `ScoreCorrect`: swaps keep the sum, a round adds one to both sides of it.
  * `LogCorrect`: inductive with `TypeOK /\ ScoreIsRounds`. The score is needed
    because `OnEvent` numbers events from it and not from `Rounds`.
  * `LogOnlyGrows`, `RecordsCorrect` from the same five cases; `StateCorrect` alone.
  * `ImplementsBoard`: the refinement of `Scoreboard`. The five effects map to its
    actions; `ScoreIsRounds` makes the recorder's round numbers the scoreboard's.
* `RecordProofs` shows first (`StepHalves`) what a step does to the counters of the
  halves: nothing, play in the half of `m_State`, enter one, drop all, or end a round.
  * `PastHalvesSafe` follows from the cases.
  * `RoundsCorrect`: the invariant compares each player's rounds of the half with
    `m_Match.Rounds`, which only ever falls in a step that leaves the half.
  * `TeamsCorrect`: a record has team 0 or the player's. `TeamNoted` says it of whoever is
    in the game: joining and switching note the team after the change, and nothing
    else changes it.
  * `NoTraceWithoutRecord`, a lemma about the encoding: every handler that writes a field
    of a player makes the player's record in the same step.
  * `LogBacksStats`, `LogBacksRound`: `Where` is the set of the events of a kind in a
    log, and its size grows by one with an event of the kind (`WhereAppended`). A step
    that counts something for a player logs it in the same step; a step that logs
    nothing counts nothing that the log should back. For the round the events are those
    numbered `Rounds + 1`, of which `LogIsChronicle` says that none is there when a
    round begins.
* `TotalProofs`: sums over players are folds over a set, and a fold picks its elements
  in no known order. Induction on the set is beyond the prover; the proofs take a
  smallest subset for which the claim fails instead, which exists in every finite set
  (`SmallestSubset`), and show that a smaller one fails too. So `TotalAdds` and
  `TotalGrows`: a sum grows by what its terms grow by. With those:
  * `BooksBalance`: every handler that gives one player something takes it down for the
    other in the same step (`Trade`), or drops the counters of all.
  * `ExportsAgree`: the document lists every player with a record, and who has none
    has only zeroes (`NoTraceWithoutRecord`), so the sums over the document are those over
    all players, which `Balanced` compares.
  * `FragsCorrect`: what `RoundEnd` reads as frags of the round are frags of the half.
    It is why a streak is never longer than the player's kills (`StreaksSafe`).
  * `ClutchesSafe` assumes `ShortStreaks`: nobody makes `ArraySize` kills in a round.
    The code does not test the index, the arrays have `MAX_CLIENTS / 2` = 16 cells, and
    the 16th kill of a round is counted in the first cell of `Versus`. It takes a full
    server and all of the enemies; without the assumption the claim is false, as the
    clutches of a player then count rounds that were not won: TLC finds it at once in
    the instance of `combat` with `MaxClients = 2`, which has arrays of one cell.
* `ShareProofs`:
  * `SharesWithin` assumes that the bonuses for the bomb together are at most the points
    of a round. The defaults are 30 and 30 of 100; `RoundEnd` does not test the cvars,
    and with larger bonuses a planter without damage gets more than the round is worth.
  * `SharesFresh`: the damage on record in a live round was dealt in it by somebody in
    `fought` (`DamageOfRound`), and a player without damage gets the bonus only.
  * `RoundsPay` assumes that the fractions are exact (`ExactFractions`), as floats
    very nearly are and as `\div` is in the instance that TLC checks: then the parts of
    the winners add up to the whole in the rounds of the bomb (`BombRoundPaysOut`).
    `DefaultPays` assumes 100 points besides and has it for every round (`RoundPaysOut`).
* `MessageProofs`: the inductive invariant is `TypeOK /\ EngineUnbroken /\
  HeldIsComposed`: the engine stays unbroken because it is idle while a message
  is held, and the replay is right because the copy mirrors the draft. From it
  `EngineSafe`, `HeldMirrors`, `MessageTypes` and `Implements`, the refinement of
  `MessageStream`, where a string that does not fit may arrive as anything it reads as.
  `ShortStringsPass` assumes that only strings that fit are written (`ShortStrings`):
  then what no filter touches arrives as composed (`Transparent`), which without it is
  false. `LinesHeard`: from the registration of the hook on, who is recorded, in
  which order and with which text is decided by the lines on the wire, line by line, up
  to what a string without an end reads as; nothing is missed and nothing added.
* `RemoteProofs`: the invariant adds `Ledger`: requests called back are gone from
  the multi handle and never numbered again, and a completed transfer has handed
  over all it received. From it `RemoteTypes`, `BuffersSafe` and `CallbacksSafe`;
  `FramesReturn` rests on `LoopEnds`: the loop is left with the count of unread
  messages, which is zero, and not with that of running transfers. `CommandsInOrder`
  adds `FileInv`: the file and all that was executed came in a callback, and nothing
  executed is newer than the file, which only a newer command overwrites.
* `PipelineProofs`: `RemoteInServer` and `RecorderInServer` map every step of the server
  to a step or a stutter of each part, so the theorems about the parts hold in it.
  `OldCommandsOverruled`: inductive with `BufferInv`, which says that in the buffer
  everything of an earlier map stands before the settings file of this one.
  `ServerRecordsTruly`
  collects what the recorder keeps while commands set its state.

Every invariant and every action property that a passing run checks is stated by one of
these theorems. Only model-checked: liveness (`SettingsTakeEffect`, `EveryPostAnswered`,
`ExportsAnswered`), which is beyond the prover. The runs also keep the theorems honest:
the hypotheses of `ClutchesSafe`, `SharesWithin` and `RoundsPay` hold in the instance of
`combat`, where all three properties have rounds to speak of. `DefaultPays`
says under which condition what `points` refutes does hold.

## Not modelled

* Most of the repository's lines are not the plugin: the JSON library, libcurl's
  headers and the game's SDK under `include/`. The plugin's own source, under
  `MatchStats/`, is some 3,700 lines, most of which the models stand for.
* `MatchEvent.cpp`: nothing calls it. `PlayerIsVisible`: geometry.
* Installing and removing the hooks: straight-line code that runs once.
* What lies behind a string without an end in memory: it reads as some other value.
* JSON, file names, headers of the request, memory of libcurl.
* The clock: `KillTime` and so `DoubleKill`, two exports within a second.
* Auth ids shared by several clients, the reuse of an entity slot by another client.
* A histogram past the last cell of both rows: the write leaves the arrays.
* The flavour frags, which are bumped with `Frags` under tests of the victim alone.
* A document that cannot be written to disk (it is posted all the same).

## What is left

1. The histogram of clutches against the enemies a last player was left with, as a
   second history variable of `MatchAudit`.
2. Proofs: a condition under which assists belong to the round; the theorems of the
   remote service collected for the whole server.
3. Entities: slots that clients take over, and auth ids that several share, as a
   refinement of the recorder's `here` and `team`; the planter's slot reused.
4. A clock, for `DoubleKill` over rounds and maps.
