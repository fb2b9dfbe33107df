# A TLA+ model of robot_ddz

`robot_ddz` is a client that plays Dou Dizhu ("fight the landlord") against a
game server: one process keeps a pool of robots, sends as many of them into a
room or a match as the room lacks players, and plays for each of them. This
directory models the current client, `src/new_robot_client`, checks the models
with TLC and proves the pool, the header robot, the session, the cards, the hands,
the splits and the records of whole games with TLAPS. Paths below are
relative to `src/new_robot_client/`.

## 1. The system

| part | state | operations | works with |
|---|---|---|---|
| Event loop (`TcpEventServer.cpp`) | `mapConn_`, bufferevents, timers | create, close, read and event callbacks, heartbeat | pool, by callbacks |
| Pool (`EventProcess.cpp`) | `taskRobotList_`, `untaskRobotList_`, timing wheel, retry timers | start, add, give back, retire, connect, close, read, wheel step, SIGINT | event loop, robots |
| Robot (`RobotBase.cpp`) | `status_`, `needKeepPlay_` | VERIFY, INIT_GAME, dispatch of messages | pool, server |
| Reading (`EventProcess::OnReadEvent`) | the read buffer | takes frames apart: length, id, body | robots |
| Header robot (`RobotHeader.cpp`) | status, polling timer | logs in, asks how many players a room lacks | pool (adds robots), lobby |
| Task robot (`RobotTask.cpp`) | seat, scores, delayed messages | sign-up, quick start, keep-play, call, take out, end of game | server, AI |
| AI, records (`OGLordRobotAI.cpp`) | cards, points, counters, history | take in deal, lord, cards taken out | task robot |
| AI, choice (`OGLordRobotAI.cpp`) | `handsMap`, summary, `lowestControl` | choose call and hand, as lord, upper or lower farmer | records, hands |
| Hands (`AIUtils.cpp`) | none | recognise, count, compare, split, judge and search hands | AI |
| Server (not in the repository) | lobby, tables | answers and notices | task robot |

Everything runs on one libevent loop: no two callbacks overlap, and there are no
locks. What is hard lies elsewhere:

* **Lifetimes.** A `Conn` is held by `mapConn_`, by delayed messages and by the
  polling timer, watched by weak pointers in the wheel, and closed on four paths
  (peer, failed handler, silence, retirement). Each path must give the robot back
  exactly once.
* **Order.** Notices of a game overtake answers of the lobby. A robot
  answers after a delay of seconds, and the table may have moved on.
* **Lost connections.** A robot that connects again asks for its game and takes
  up cards, seats and turn from one answer.
* **Two records of the cards.** The robot removes chosen cards before the table
  accepts them, puts them back on a refusal, and is also played for by the system.
* **Arithmetic on point counts** when cards are split into hands.
* **A decision in many branches.** What a robot takes out depends on its role,
  whose hand is on the table, how many cards each player has left and five
  splits of its cards; a wrong branch sends a hand it does not hold or passes a
  game it has won, and shows up only in the middle of a game.
* **A byte stream read as if it were messages.**

`PROJECT.json` lists these as hazards, each at its line.

What makes each part correct: a robot is in one list at most and works if and
only if it has a connection (pool); handlers refuse no message of a correct
server, turns are answered, seats are known when used (task robot); the robot's
hand is the table's hand (AI records); the table accepts what it sends, and it takes
a win it has in its hand (AI choice); a split puts every card into one legal hand
(AIUtils); a room that lacks players gets robots, and never too many (header robot).

## 2. Modules

| module | models |
|---|---|
| `RobotLedger` | abstract: a queue of waiting and a set of working robots |
| `RobotPool` | event loop, pool, wheel, delayed messages, header connection |
| `RobotPoolProofs` | inductive invariant, safety and refinement of `RobotPool` |
| `RobotSession` | the protocol of one task robot, its lobby and its table |
| `SessionRobotProofs` | the inductive invariant of `RobotSession`, views and traces, and the robot's steps |
| `RobotSessionProofs` | the server's steps keep it, and the seven properties that follow |
| `CardTable` | the cards of a game as the robot and the table see them |
| `ReadFraming` | the read loop on a byte stream that may be cut anywhere |
| `FrameChannel` | abstract: messages whole, in order, each once |
| `HeaderRobot` | the header robot on its connection (extends `ReadFraming`) |
| `HeaderRobotProofs` | types, the robots sent, and the read loop's refinement |
| `CardTableProofs` | the inductive invariant of `CardTable` and its four properties |
| `HandTypes` | the hands, recognition, counting and the order of hands |
| `HandTypesProofs` | the order of hands is strict and transitive; what `getHand` returns is a hand |
| `HandSplit` | the five splits of cards into hands and their kickers |
| `SplitCards` | a split as it runs, routine by routine, over all small deals |
| `SplitCardsProofs` | its inductive invariant: no routine loses a card, but behind a pair chain |
| `HandChoice` | control, charge and the judgement between the splits |
| `HandSearch` | the searches: lowest, higher, most cards, kickers from bare points |
| `RobotChoice`, `FarmerChoice` | what a lord and what a farmer takes out |
| `HighLevel` | the split and the lord's free turn from level 2 on |
| `RobotLevels` | levels 0 and 1, and which level a robot is of |
| `RobotGame` | games of three players with these robots |
| `RobotGameProofs` | what holds of these games whatever the robots choose, or if they choose well |
| `MCRobotPool`, `MCCardTable`, `MCRobotGame` | symmetry, a view and deals for TLC |

`HandTypes` <- `HandSplit` <- `HandChoice` <- `HandSearch` <- `RobotChoice` <-
`FarmerChoice` <- `HighLevel` <- `RobotLevels` is one chain of pure operators. `RobotGame`
is parametrised with the choice, `TakesOut`, and `MCRobotGame` gives it the one of
`RobotLevels`. `RobotPool` takes the header robot's need and its polling as free
choices; `HeaderRobot` has them in detail with the pool as three counts.

### RobotPool

Robots are numbered in creation order; the header robot is 0. A `Conn` is a
model value with `fd_`, `robot_`, what `bev_` points to (a live bufferevent, a
freed one, null), the protocol state that the pool depends on, and `age`, the
wheel cell its `Entry` is in. A callback that loops is one action per turn of the
loop: `reading`, `toAdd` and `expiring` hold the callback in progress, and no
other callback starts meanwhile (`LoopIdle`). `OnReadEvent` starts the loop over
messages; `HandleMessage`, `RecvVerifyAck`, `KeepPlayTestOver`,
`RecvInitGameAck`, `RecvQueryRoomStatusAck`, `HandlerFails` and `RetireRobot` are
its turns, by what the message does to the pool. A `Conn` lives as long as
something holds it; the last reference frees its slot, so slots are reused as
descriptors and addresses are. A use of freed memory may go unnoticed or crash.

`ImplementsLedger` maps `taskRobotList` and `untaskRobotList` to the ledger.

### RobotSession

Each `Recv...` action is the handler of the message at the head of the
connection with everything `RobotProcess` does around it: the answer sent at once
or left in a `DelaySendMsgTimer` event, the refusal that disconnects, the
disconnect at the end of a game. What the AI decides is a free choice, except the
comparison that decides a call (`ChosenScore`). The server's actions
(`ServeVerify` to `SystemActs`) are external: they are what the handlers expect,
and they send each message the handlers have a case for. Each notice that gives
the robot a turn carries the turn's number (a history value no handler reads), so
that a property can tell for which turn an answer was made. `failed` is a history
variable: the last handler that refused a message which was not a refusal itself.

Three constants state what is assumed of the server; each is TRUE in the runs.

* `LobbyFirst`: in a match, the lobby's answer comes before any notice of a
  game. Without it a game that begins before the sign-up answer finds the robot
  in `CANSINGUP`, and `RecvEnterGameSceneNotify` throws it out
  (`RobotTask.cpp:445`). In a room the game may begin first, always.
* `Settled`: no game begins or ends while a robot rejoins one. Without it a scene
  notice makes the robot `GAMMING`, and `RecvKeepPlayAck` refuses the answer to
  its request (`RobotTask.cpp:370`).
* `Patient`: the table's clock is longer than the robot's delays. Without it an
  answer can arrive in a later turn: nothing in the message or in
  `DelaySendMsgTimer` tells which turn it is for.

### CardTable

A vector of cards is a bag (how often each card occurs), for putting cards back
twice is one of the questions. Cards of the same point are alike and are dealt,
found and played from the lowest on. Hands are of one point: whether a hand is
legal or higher is not the question here, and the robot's choice is free. Each
handler is one action with what it does to `aiCardsVec`,
`vecLastTakeOutCards`, the points and the counters. The table is external. How
it tells of a refusal is the constant `Refusal`, a set of policies:

* `ack`: a negative answer, and the system plays at the end of the clock;
* `trust`: a trust notice before the cards the system plays;
* `ack_and_trust`: both;
* `trust_last`: the notice after the cards.

With `ack` and `trust` the robot's hand stays exact. With `ack_and_trust` it
puts the same cards back twice (`RobotTask.cpp:724` and `:942`, nothing clears
`vecLastTakeOutCards`), and with `trust_last` it puts back cards after
`RemoveExtraCards` looked for them: `OwnHandIsExact` fails under either. Which
policy a server has cannot be told from this repository.

A lord robot's `otherPoints` counts its own three base cards as cards of the
others, because `RbtInInitCard` computes it before they are dealt
(`OGLordRobotAI.cpp:184`); `CountersAreExact` says that nothing adds to that.

### ReadFraming and HeaderRobot

The stream is counted in units of half a length field, so that it can be cut
inside a field, between fields and inside a body. `Arrive` is libevent calling
`OnReadEvent`; each turn of its loop is a step: `BufferEmpty`, `FieldCut`,
`LengthZero`, or `HandOver`, which hands a message to the robot and is a conjunct
of each of the header robot's handlers. What the code reads of a frame that is not all there
is `Garbled`; a length read from the middle of a frame is any number.
`ImplementsChannel` maps reading to `FrameChannel` as long as the network cuts no
frame (`delivery = "whole"`): the assumption on which `RobotPool` and `RobotSession`
take whole messages.

`HeaderRobot` has the retry, the login, the polling timer, each handler with
its refusals, and `AddRobot` with the arithmetic of the need, where a negative number
means "all". `HandlerFails` does what the code does: `HeaderRobotDisconnect` leaves
the connection as it is, `RobotProcess` sets the status to `INIT`, the polling timer
goes on. The lobby and the robots it sends are external.

### HandTypes, HandSplit and SplitCards

A set of cards is an array of how often each point occurs. `getHand` is
written by cases on how many points occur once, twice, three and four times, as
the code is. `HandSplit` folds the routines of a split over the cards;
`SplitCards` runs one routine a step, so that its properties hold between
routines too. The constants `LastChain`, `SoloLen` and `PairLen` scale the game
down: 11, 5 and 3 in the code.

### HandChoice to RobotGame

The AI's searches are operators with the code's names, on a record `ai` of the
members the search reads. A branch that writes a member (`getBomb` empties
the points it finds; `sortHandMap` refills `handsMap`) gives a new record.
`HighLevel` is far shorter than its code: from level 2 on the AI judges
its hands by `playerInfo` of the other players, which is -1 throughout, as nothing
calls `RbtInNtfCardInfo`. So `findOppHighestPoint` and `findOppHighestChain` always
give -1, `countHighHand` counts every hand as a safe one, `isDangerLvl` is
false, the conditions `lowSoloCount > 0` and `effectiveHandsCount == 1` are never
met, and what stands behind them (`findChargeHandFirstLvl`, the splitting of trios) is
never reached.

The modules from `HandTypes` to `RobotGame` were compared with the code compiled:
`OGLordRobotAI.cpp` and `AIUtils.cpp`, without logging, played out the deals of all 53
shuffles of `MCRobotGame` with each of the three lords and the 27 tables of
robots of levels 0 to 2. In these 4293 games the model takes out the same cards at
each of the 125,314 turns.

`RobotGame` plays whole games: a robot's turn is two steps, for what it sends is
taken off `aiCardsVec` before the table sees it. The table takes whatever is a
hand by the robots' own rules; a player who is no robot (level -1) takes out any
front hand of its natural split, or passes. What every robot counts alike
(`remainPoints`, `total`, `curHand`) is kept once.

## 3. Runs

| run | instance | question | result |
|---|---|---|---|
| `pool_safety` | 2 robots, 3 `Conn`s, 3 descriptors, wheel of 3, delays of 1 tick | lists, map, timers and wheel agree; the ledger is implemented | holds |
| `pool_liveness` | 1 robot, 2 `Conn`s | silent connections are dropped, the header robot reconnects | holds |
| `delayed_message` | as `pool_safety` | does a delayed message know whether its connection exists? | no |
| `read_loop` | as `pool_safety` | does the read loop end when its robot is disconnected? | no |
| `session_safety` | 2 games, 2 turns, rooms and matches | no message refused for its order, answers meet their turn, seats known, calls legal, no mutual wait | holds |
| `session_liveness` | 1 game, 2 turns | a robot leaves a finished game and answers its turns | holds |
| `table_safety` | 7 cards, 3 points, 2 cards a hand, 1 lost connection | hand and counters are exact, cards sent are held | holds |
| `split_safety` | chains over 6 points, every deal of up to 7 cards, all splits | every card in one hand, hands playable | holds |
| `header_safety` | 2 robots, 2 seats, frames cut or whole, 2 frames on the wire | polls on every connection, serves a room that lacks players, never too many; reading is a channel | holds |
| `header_stuck` | as above, the lobby may refuse the login | does the header robot come to poll again? | no |
| `cut_frames` | as above, frames cut anywhere | are messages handed over whole? | no |
| `game_safety` | 2 deals of 54 cards, 3 lords, 31 tables | sends legal hands, keeps its records, takes its wins, spares its partner | holds |

The four that do not hold, with the shape of the counterexample:

* **`delayed_message`**: a robot is given its turn, its answer waits, the server
  closes. `EventCb` frees the bufferevent, clears a local copy of the pointer, and
  `DelaySendMsgTimer` finds `bev_` set and writes (`TcpEventServer.cpp:119`).
* **`read_loop`**: the answer to VERIFY of a robot under the keep-play test
  erases the connection and reports success (`RobotTask.cpp:59`).
* **`header_stuck`**: the lobby refuses VERIFY; `RobotProcess` says that the robot
  will exit and `HeaderRobotDisconnect` does nothing. The connection stays, no
  timer is armed, and no request goes out on it again (`EventProcess.cpp:370`).
* **`cut_frames`**: a frame comes in two pieces; `OnReadEvent` reads a length, an id and
  a body without asking whether they are there (`EventProcess.cpp:230`).

What else was met while modelling, and how the properties speak of it. None of it
contradicts a text of the repository:

* A robot that rejoins while the players call does not know the calls made, and
  may call a score that is too low (`RobotTask.cpp:418`). `CallIsLegal` leaves
  such a robot out.
* A lord robot's `otherPoints` has its base cards in it (`CountersAreExact`).
* `getPairChain` takes two cards of the point behind the chain
  (`AIUtils.cpp:359`): `LostCardsFollowPairChains` allows exactly these two.
* `optimizeSoloChain` cuts the upper end by the length of the lower
  (`AIUtils.cpp:496`): at 15 cards and more a chain can become too short.
  `HandsArePlayable` leaves solo chains out, and in whole games `NeverRefused`
  covers what is sent of them.
* A lord of level 1 or 2 passes with a last hand that would win when a farmer has
  two cards left and no pair is on the table (`OGLordRobotAI.cpp:1129`): `LordPasses` in
  `TakesItsWins`.
* A farmer who minds another player's last card may split its own last hand, and
  four with two kickers and pair chains are split on purpose:
  `MindsLastCard`, `SplitAtTheEnd` in `TakesItsWins`.
* `sortHandMapLvl` makes three splits but counts and summarises the first one each
  time (`OGLordRobotAI.cpp:498`, `:512`), so that a robot of level 2 never chooses
  another; and without the other players' cards its judgement is that all is
  well. It plays weaker than meant, not wrongly: the properties hold of it too.
* `downFarmerTakeOutUpFarmerOnly1Card` has `getBomb` empty the bombs in the
  robot's own points (`OGLordRobotAI.cpp:2204`): `Emptied` in `RecordsAreExact`.

### Bounds, and why they are enough

*Pool.* Two robots are needed for the order of the queue and for one robot in the
other's place; three `Conn`s for a closed one kept by a delayed message, its
successor, and the header's. A wheel of three cells has a newest, a middle and an
oldest one, and delays shorter than it. The proofs cover every other size.

*Session.* Two games let a message of the first meet the second, with a sign-up
or a rejoin between; two turns let an answer of one meet the next. Connections
may be lost any number of times.

*Table.* Two cards a hand allow a pair, a split pair and a hand left over; a
seventh card makes a lord. Games follow one another without bound; `MaxUnread`
bounds what the server has under way to two messages more than are read.
`MCCardTable`'s view drops the counters of a robot that rejoined: they are wrong
until the next deal, as `CountersAreExact` says by leaving such a robot out, and
nothing in the model reads them.

*Splits.* On the small scale, seven cards make two chains that touch, a chain
over spare cards, kickers of both kinds, bombs and the two jokers.

*Header.* Two frames on the wire are the two that one read can hold and one can
be cut; two robots and two seats tell "one", "all" and "more than lacked" apart.
The room's need changes at any time.

*Game.* The scale and the deck are the real ones, so what is bounded is the
deals: two shuffles, with which every action and nearly every branch of all
levels is taken, for each of three lords, all 27 tables of robots of levels 0 to 2,
and four of two robots with a free player, who makes each
table of that kind a tree of games. It is a sample of deals, not all; the properties are
checked in every state of 47,311.

### Fairness

One turn of the libevent loop runs every due timer and every callback to its
end. `RobotPool` takes strong fairness for the timers (they become due again and
again), and for the last message of a buffer, which the loop reaches because
nothing refills the buffer meanwhile; weak fairness for the loops in progress.
The peers promise nothing, except, in `HeaderReconnects`, that a connect tried
again and again succeeds once. `RobotSession` takes weak fairness for reading and
for timers, for the server's answers and for its noticing a close; the table's
clock has none, so `RobotAnswers` holds by the robot alone.

`HeaderRobot` takes weak fairness for the network, the reading loop, the polling and
retry timers and for robots sent signing up. Two assumptions are strong: `Grants`, the lobby
does not deny every request for ever; `RobotsAreSent`, creating a robot's
connection does not fail for ever. `Prompt` says that the polling interval (3 seconds
as configured) is longer than a robot takes to sign up, which it does without delay: without it a
room asked about twice gets the same need twice, and `NeverTooMany` is false.

That a game ends is not stated as liveness: it follows from `NeverRefused`, since a
player that leads takes out at least a card.

Deadlock is checked in all runs but `split_safety` and `game_safety`, where a split
returns and a game ends; what a robot sends being refused, the only other stop of
a game, is `NeverRefused`.
In `RobotPool` a stopped or crashed process, and in `RobotSession` a retired
robot, stutters by an action of its own.

## 4. Proofs

`RobotPoolProofs` holds for every number of robots, `Conn`s and descriptors,
and every wheel with more cells than the ticks a delayed message waits
(`PoolAssumption`; the deployed values are 30 and 1).

The pool's invariants are not inductive alone. `IInv` adds: only task connections have
an `Entry`; a delayed message is at least as old as the last message its
connection received, so that no `Entry` dies while one keeps its `Conn`; while a
connection is read its `Entry` is in the newest cell; and a callback in progress
excludes the others. `NodeOutlivedByEntry` is the heart: without it a `Conn` that
lives on after `EventCb`, with its stale `bev_`, would reach `Entry::~Entry`, pass
`BIsBufferExist`, and give its robot back a second time. `ReadRefreshedEntry`
is what makes it inductive, since a handler may add a delayed message during a
read. There is one lemma per action; the lemmas that close a connection rest on
`EraseRemovesConn`, those that open one on `CreateAddsConn`.

`HeaderRobotProofs` holds for every number of robots, seats and frames on the
wire and every set of refusable requests (`HeaderAssumption`,
`FramingAssumption`, `MessageAssumption`). `FramingNext` classifies the robot's
steps by what they are to the bytes, so that the framing is proved once. `WholeFrames`
(no frame is half read where none is cut) gives the refinement. `NeverTooMany`
needs `OneNeed`: a polling request and its answer are one token, and while it is
under way no robot is, so that what the answer says is still what `asked` holds.
It rests on two things the code does not enforce, and the theorem names them:
polling is slower than signing up (`Prompt`), and `maxPlayerNum` is not negative.
Whole or cut frames make no difference to it: a frame that is cut is lost.

`RobotSessionProofs` holds for any number of games and turns
(`SessionAssumption`), any losses of the connection and any order of the robot, the
lobby, the table, the other players and the timers, for servers that are `Orderly`:
`LobbyFirst`, `Settled` and `Patient` (section 2 says what the code does without each).
All seven invariants of the run `session_safety` follow from one `IInv`. The robot and
the server never see each other's state, only what is under way, so `IInv` is about
that:

* `Views`: a *view* is a state of the robot as far as the messages change it. There
  is a `Trace`, one view for each message not read yet; the first view is the
  robot (`IsRobot`), each message leads from one to the next (`Link`, one
  disjunct for each case of a handler that does not refuse), and the last is one
  the server may expect (`Expected`). Since no `Link` is a refusal, no
  handler refuses a message.
* `Expected` says how far the session is and, once initialised, two things.
  `Exchange`: by `status_`, which request or answer of the lobby is under way
  (at most one), so that the answer finds the status it is for. `Player`: by the
  status the robot is going to have, where the lobby and the table have the player, and
  that it plays with the table's seat, lord and calls (`InTune`).
* `Tags`: the turn that the table gives the robot is told, being answered or
  answered, once; what is told of it is about the running turn. `Waits` is the
  converse: a turn the robot is not excused from is under way somewhere.
* `TableFits`, `LineFits`, `Typed`: the step of the game against place, session and
  turn; the requests that a session may have on its line; types.

`Context` is what links need to know of the table while a turn is announced:
whether the robot is expected to hear it, and the calls so far if it heard all
of them. It may forget at any time, and changes otherwise only while nothing tagged is under
way (`ContextTrace`); for the system's moves that is `Patient`. `Settled` makes the links of a robot that rejoins a game plain:
all it is told before `keep_ack` it passes over (`IgnoredTrace`).
`LobbyFirst` is used once, in `QuietMatch`: a game that begins finds no robot of a
match in `INITGAME` or `CANSINGUP`. Reading drops the first view
(`ReadTrace`), what the server sends appends views (`SendTrace`, `ConcatTrace`); there
is one lemma for each handler and each step of the server. Table moves rest on
`TurnPasses` (somebody gets the turn) and `GameMoveKeeps`.

`CardTableProofs` holds for every deck of at most four cards a point, every hand
size that leaves base cards, any number of games, lost connections and messages
under way (`TableAssumption`), and for tables that tell the robot of a refusal
once and before the cards the system plays (`ToldOnce`: a negative answer or a
trust notice). Tables that do both, or give the notice last, are outside: there the
robot puts its cards back twice or too late, and its hand is wrong.

What the robot believes and what the table holds differ while messages are under
way, so none of the properties is inductive. A *view* is a state of the game as
one side may see it: the hands, the cards the robot took out, the phase, the lord,
and the cards counted as the others' that are not. `Link` says how one message
leads from a view to the next, and `Trace` that there is one view for each message
not read yet. `IInv` has three parts:

* `Agreed`: there is a trace along `toRobot` from what the robot believes
  (`Believes`: `aiCardsVec`, the points and the counters are those of the view, the
  first without the cards taken out) to the table (`IsTable`);
* `Turns`: at most one answer of the robot is waiting or under way, in its
  turn, unrefused, with nothing for it to read, and it is `lastTakeOut`; a
  refused hand is `lastTakeOut` too; the robot away has nothing under way;
* `Typed`: types, and the messages are well formed.

`Turns` is what makes the traces robust: nothing follows a message that gives the
robot the turn until it has been read, so `lastTakeOut`, which `Link`
needs, changes only with an empty queue behind it. `Pending` says when the table
knows of cards that the robot still counts as taken out. Reading drops the first
view (`ReadTrace`), a notice appends one (`SendTrace`); there is one lemma for each
handler and each step of the table. With nothing under way the two ends of
the trace are one view, which gives the properties.

`HandTypesProofs` and `SplitCardsProofs` hold for every size of the game that satisfies
`HandAssumption` and `SplitAssumption` (the code's is `LastChain` 11, `SoloLen` 5,
`PairLen` 3), every deal of at most four of a point and one of a joker, and all five
splits with and without kickers. The claim is one of bookkeeping: what a routine takes
off the cards is what it puts into hands. The lemmas build it up:

* a sum over a finite set (`SumOfUnion`, `SumOfRenamed`), the count of a point in a list
  of hands (`InListOfTwo`, `InListReplaced`, `InListRemoved`), in a map of lists (`MapChange`);
* the routines: for each, which lists it changes and that it keeps, for every point,
  `Kept`, the cards in hands plus those left (`KeepsBut`). `getSoloChain`
  is the long one: its passes cut, expand, merge and trim chains of a list that
  changes under the loop, and each turn must put back what it takes off
  (`CutTurn`, `ExpandTurn`, `MergeTurn`, `ShortenTurn`, `OptimizeTurn`);
* the two loops of `findKicker`: a kicker of a point of its own body would be
  counted once, not added (`KickTrio`, `KickTrioChain`).

The properties are not inductive. `IInv` is `Sound`, which says of the cards dealt, the
routines still to run (`Order`) and the split in work:

* `Accounted` and `Covered`: a point is kept, or lost two cards behind a pair chain; a
  count below zero is one of a point that lost two. `getPairChain` loses cards only once
  because it runs once: `Untouched`, the lists of routines still to run are empty;
* `TriosAlone`: no card of a trio's point is left, or in a solo chain that could put it back, until
  `getNormalHand` has run. Otherwise that point would be a solo too, and a trio could
  carry its own point as a kicker. The fifth split needs it, which looks for
  trios before solo chains;
* `AllTaken`: after `getNormalHand` nothing is left, each point is in one list of
  single hands, and a point has at most four cards, so that no pair is of a point of a
  trio (`Ready`, what `findKicker` relies on and keeps);
* `NoPairChains` of the last-card splits, from which they are complete.

The last conjunct of `SplitAssumption` came out of the proof: `Optimize` may cut both ends of
a chain, the upper one by the length of the lower, and where twice `SoloLen + PairLen`
is less than the points of a chain it could cut the chain to less than nothing and put back
cards that it never had. At the code's sizes (12 and 16) it cannot.

`RobotGameProofs` holds for every deck, deal, table of players and AI (`GameAssumption`).
`GameInv` gives the types and `SendsHeldAndHigher` whatever `TakesOut` returns: it adds that the deck stays dealt
once (`totals` and `remainPoints` count what the players hold, so that nothing is
subtracted below zero), and that `aiCardsVec` and `lastTakeOut` are among a robot's cards.
`NeverRefused` and `RecordsAreExact` do depend on the AI, whose rules are no matter for a
proof. The theorems state what is needed of it, `ChoosesWell`: the hand it
chooses is a hand the robot holds, or a pass where it may pass, and what it does to the
points is one of the cases of `Emptied`. `game_safety` checks `ChoosesWell` of the AI of all
levels; `RecordsInv` is the invariant that, with it, gives both. Its crux is the moment
between choice and acceptance, when `aiCardsVec` already lacks the cards and `points` has them.

Functions defined by recursion or by a fold, and the induction that speaks of them, are within reach in
set form: a nonempty set of counterexamples has a smallest one (`SmallestFinite`,
`LeastOfNat`), and a fold unfolds to a function on sets (`FoldExists`, `LoopExists`), whose
existence is proved the same way.

| theorem | says |
|---|---|
| `Invariance` | `IInv` always holds |
| `TypeCorrect` | types |
| `RobotsListedOnce` | no robot is listed twice |
| `WorkMatchesConnections` | robots at work are those with open connections, one each |
| `MapIsExact` | `mapConn_` is the open sockets |
| `HeaderIsKept` | the header robot has one connection or one retry |
| `TimerDiesWithConnection` | its polling timer goes with its connection |
| `EveryRobotIsWatched` | connected robots have an `Entry` in the wheel |
| `EntryFindsItsConnection` | a dying `Entry` finds its connection open |
| `Retirement` | a retired robot never comes back |
| `LedgerRefinement` | every step of the pool is a step of the ledger or a stutter |
| `TypeCorrect` (header) | types |
| `ReadingIsAChannel` | where no frame is cut, the read loop is a lossless channel |
| `RobotsAreNeverTooMany` | no more robots are on their way than the room lacked |
| `Invariance` (session) | robot and server agree up to what is under way |
| `SessionTypes` | types |
| `MessagesAreAccepted` | no status guard refuses a message that carries no error |
| `NoAnswerIsStale` | an answer that arrives is for the running turn |
| `NobodyWaitsForBoth` | the table waits only while the notice or the answer is under way |
| `CallsAreAccepted` | a robot that heard the auction calls nothing or more than all before |
| `NoticesFindTheSeats` | `playerInfo` is indexed by known seats, `aiSeat` the right one |
| `WaitingHasAPlace` | a robot that waits for a game has a place |
| `Invariance` (cards) | the robot's view leads to the table's across the messages under way |
| `RobotTypes` | types |
| `OwnHandStaysExact` | both records of the own hand are exact when nothing is under way |
| `OnlyHeldCardsAreSent` | cards sent arrive in the robot's turn and are in its hand |
| `CountersStayExact` | the card counters are exact, but for the base cards of a lord |
| `HigherIsStrict`, `HigherIsTransitive` | `isHandHigherThan` is a strict order on all hands, so a round of plays cannot cycle |
| `GetHandIsHand` | what `getHand` returns is a hand, whatever the counts of the points |
| `SplitInvariant` | `IInv` of a split always holds |
| `SplitTypeCorrect` | types: every hand found is a hand, on the list of its type |
| `CardsAreConserved` | no routine loses or doubles a card, but for two behind a pair chain |
| `LastCardSplitsTakeAll` | a last-card split ends with every card in a hand |
| `GameInvariant` | the deck stays dealt once, and robots' records are among their cards |
| `TypeCorrect` (game) | types, whatever the AI chooses |
| `NeverSendsLower` | what is sent is held and no lower than what it must beat, whatever the AI chooses |
| `NothingIsRefused` | while the AI chooses well, the table refuses nothing |
| `RecordsStayExact` | while the AI chooses well, both records of a robot's cards are exact |

Only model-checked: `ChoosesWell`, `TakesItsWins` and `SparesPartner`, which are about what the AI's rules
find in given cards, some 1,500 lines of cases with no invariant behind them; and
`HandsArePlayable`. Liveness
(`FinishedRobotLeaves`, `RobotAnswers`, and the pool's) needs fairness and ENABLED,
which are beyond the prover. What the proofs assume of the server (`Orderly`,
`ToldOnce`) no code in the repository ensures.

## 5. Not modelled

* The functions with `Lvl` in their names that are not in `HighLevel`
  (`OGLordRobotAI.cpp` 2557-2737, 2807-3997, 4497-4638 and what `countHighHand` searches):
  nothing calls them, or only under a condition that is never met (see section 2).
* Values that undefined behaviour leaves: the kickers `findHigherHandFromPoints`
  leaves unset for four with kickers (no robot of the runs gets there), and
  `SOLO_CHAIN_CHARGE_LEN[-1]`.
* The heartbeat and the sign-up cancel sent on SIGINT, which change nothing that
  is kept; `RecvQuerySignUpCondAck` and `IsTimeToQueryRoomStatus` of the header
  robot, which no request it sends leads to; a negative `maxPlayerNum` is in the
  model and in no run.
* `costId_`, `matchId_`, texts and other data no branch depends on.
* The first client (`src/robot_client`), which the current one replaced and whose AI
  files are nearly the same; configuration and logging.
* Generated and vendored code: about nine tenths of the repository's lines are protobuf
  output, in both clients, and the first client. There is no behaviour of
  this program in the former, so the share of lines a model can stand for is low.

## 6. Plan

Done: the pool, reading and the header robot, the session and the cards, each with
its proofs; hands and splits, with the order of hands and the conservation of cards proved;
the choice of a hand at all levels and whole games, with what holds of them whatever is
chosen proved. In this order, next:

1. `HandsArePlayable` of every deal: `getHand(handToPointsArray(h)) = h` for the hands a
   split finds, which needs the kickers of a hand told apart by `getHand`.
2. The session with a table that is not `Settled`: which of the seven
   invariants hold without it, since only `RecvKeepPlayAck` and the scene notice need it.
3. The parts of `ChoosesWell` that do not depend on the rules: a hand found among the
   points given is a hand that can be paid from them.
