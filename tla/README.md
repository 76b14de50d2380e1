# Battleship: TLA+ models, checks and proofs

The program is a two-player Battleship game: a single-threaded server
(`src/src/server`) that runs up to five games, a client (`src/src/client`, two
processes: the ncurses interface and the connection to the server) and a core
library (`src/src/core`) used by both. `src/src/libs/ncurses-6.4` is a vendored
library and is left aside. Paths below are relative to `src/src`.

- [Inventory](#inventory)
- [Modules and how they correspond to the code](#modules)
- [Runs](#runs)
- [Proofs](#proofs)
- [What is not modelled](#what-is-not-modelled)
- [Plan](#plan)

## Inventory

| part | state | operations | interacts with |
|---|---|---|---|
| Board: `core/game_field`, `core/ship`, `core/point` | a 10 x 10 array of cell states | `register_shot` (with `_ship_destroyed`, `_mark_destroyed_ship_boundary`), `get_for_enemy`, `is_valid_start_field` (with `_is_valid_field`), `all_ships_destroyed`, `set_state` | sessions, messages, the interface |
| Timeout handler: `core/timeout_handler` | seconds and microseconds left | `process`, `elapsed`, `stop` | the server's pass over its handlers; events call the session |
| Turn clock: `core/timer` | start time, duration | `start`, `stop`, `set_duration`, `remain`, `is_active` | shown by the interface |
| Session: `server/game_session`, `server/preparation_timeout` | state, two players, two fields, player in turn, last shot, pointer to the turn's timeout | joining and leaving, fields, preparation, turns, results, end | added to by `ClientData`, called back by six timeout events, sends to the players' queues, asks the server to disconnect |
| Server loop: `server/bs_server`, `server/client_array` | two fixed arrays of clients, sessions, timeout handlers, descriptor sets | `run`: select, timeouts, accept, visits to the clients | everything in the server |
| Connection: `server/client_data` | descriptor, session, receive and send queues, delivery control | `read_msg`, `write_msg`, `process_msg` and its handlers | loop, session |
| Delivery: `core/msg_delivery_control` | messages sent and not acknowledged | `add`, `remove`, `decrease`, `resend`, `process_check` | shares message pointers with the send queue |
| Buffer: `core/msg_buffer` | bytes read, messages cut out | `read_msg`, `extract` | connection |
| Messages: `core/message` | none | fixed-size records to bytes and back | all |
| Client process: `client/server` | two connections and their queues, `has_server_connection` | connecting, relaying in both directions, reconnecting with what is queued | server, interface |
| Interface: `client/game`, `client/interface`, `client/ncurses` | mode, shown state, two fields, cursor, last shot, clock | reacting to announcements, keys | client process, user |

**What is hard.** The server is one thread, so nothing runs at the same time;
what is hard is the *order* of its callbacks. Timeout handlers outlive the
match that started them: `disconnect_player` cancels none, so any of them may
fire into the next match on the same session. The handlers' events change the
list of handlers that is being walked. Players leave in any state; the member
functions dereference `players[0]` and `players[1]` without a test and trust
`state` to say that they are there. `turn_timeout` is left dangling. The visits
after select remove clients from the arrays that are being walked, and use
descriptors that a timeout may have closed in between. A move and the timeout of
its turn race. The interface works on what it was told: its boards, mode and
cursor outlive a match, a connection and the turn they were for. The messages
travel over a byte stream that the programs re-assemble, acknowledge and resend by
hand. `PROJECT.json` lists these hazards
at their lines with the properties that cover them.

What makes each part correct: the *board* follows the rules of the game in
whatever order shots come; the *handler* loses no time and fires once; the
*session* keeps its state, its players, its timeouts and what it has told the
players consistent, records one shot a turn, names the right winner and always
comes to an end; the *loop* keeps every client in one list and one seat, never
walks past a list and never waits for a silent client; *delivery* hands over each
message once and in order; the *interface* shows the boards and is in the mode
that the session is in, and lets a player aim only where a shot counts.

## Modules

### GameField, FieldRules: the board

`GameField` translates the operations of a board into operators on functions
from cells to cell states: `shot_result`/`register_shot`, `ship_destroyed` (the
walk in four directions from the last hit), `mark_destroyed_ship_boundary`,
`get_for_enemy`, `all_ships_destroyed`, and the scan `scan_ships` /
`is_valid_field` that cuts ships out of a copy of the board row by row (a
recursive function of the number of cells passed, `scanned`, not a recursive
operator, so that it can be proved about).
`FLD_SZ` (10 in the code) and `Fleet` (how many ships of each length; 2, 2, 1, 1,
1 in the code) are constants. `FieldRules` states the rules without an algorithm:
`LegalStart` (the fleet as separate straight segments) and `BoardAfter` (the
board as a function of the start and the *set* of cells shot at).

`FieldShots` is the life of one board: the player prepares it cell by cell
(`process_enter_input`), the server accepts it (`Accept`), and then it is under
fire (`Shot`), with the accepted field and the set of shots as history.

### TimeoutHandler, Timer: time

`TimeoutHandler` is one handler with the loop's measurement of time around
select (`passed_time`); both borrow a second by hand. `USEC`, the microseconds
in a second, is a constant; nothing depends on its being 1000000. `duration`,
`total`, `fired` and `stopped` are history. The clock is assumed not to be set
back. `Timer` is the client's clock with the time of day as a variable.

### GameSession: a match

Variables: the members of `GameSession` (`state`, `players`, `fields`,
`cur_turn_player_idx`, `last_shot`, `turn_timeout`), the announcement last put
in each player's send queue (`told`), the heap of this session's handlers
(`timers`), the server's list of them, and the pass of `_process_timeouts`
(`tmp`, `handler`, `passed`, `pc`). A step is one message handler of
`ClientData`, or one handler of the pass:

| action | code |
|---|---|
| `JoinFirst`, `JoinSecond` | `_process_game_session_req_msg`, `set_player`, `start_preparation` |
| `Leave` | `read_msg` on a broken connection, `disconnect_player` |
| `SendField` | `_process_game_field_msg`, `set_field` |
| `Move`, `LateMove` | `_process_game_move_msg`, `set_last_shot`, `end_turn` |
| `Select`, `TakeHandler`, `EndPass` | `_process_select_result`, `_process_timeouts`, `TimeoutHandler::process` |
| `PreparationTimeout` ... `EndGameTimeout` | the six `timeoutEvent`s with the whole member function each calls |

A handler whose event runs (`handler`) is deleted after the event, as in the
code, so the event allocates while it is still alive. Random choices (who
begins, random shots) are nondeterministic. With no cell left to hit
`_register_shot` would loop for ever; the model then has no step, which TLC's
deadlock check would report.

*Abstractions.* Time is counted in ticks; that seconds and microseconds behave
so is what `TimeoutHandler` shows. `told` keeps the last announcement only. The
fields sent with every turn, receipts, error messages and the answer to a client
that asks again while it has a game change no state of the session and are left
out. The handlers of other sessions are left out: they share the list but touch
only their own session. A client that is disconnected may come back: it is then
another `ClientData`, and `Client` its address.

### Match: what a session promises

`Match` is the abstract specification of `GameSession`: who sits where, the two
boards, the stage of the match and whose turn it is; no timeouts, pointers,
announcements or messages. `TakeSeat`, `BreakUp`, `Prepare`, `ClosePreparation`,
`Begin`, `EndTurn` and `RecordShot` may come at any time. Its rules of a board are
parameters. `GameSession` instantiates it:

    M == INSTANCE Match WITH LegalField <- ..., boards <- fields,
                             stage <- Stage, turn <- cur_turn_player_idx

where `Stage` reads the stage off `state` and, in `PROCESS_TURN`, off the result
that has been announced or not. `MatchSpec` is `M!Spec`. Writing it down showed
one step that nobody would have put in: when several abandoned preparations
time out together, a change of turn of their making can run after the result
and mark one more miss on the loser's board (`MarkAfterwards`). It changes
neither the result nor the winner.

### Interface, Play: the players

`Interface` has no state: an interface is a record of the members that decide
what happens (mode, shown state, fields, last shot, cursor, clock), and the
handlers of messages (`Handled`, `Reply`), the keys (`CursorMoved`,
`CellPrepared`, `ShotSent`) and `Cursor` are operators on it. What is drawn
follows from the record.

`Play` EXTENDS `GameSession` and `Interface` and puts the two together: two
interfaces, one queue in each direction for each client, and for every step of
the session the messages that its `send_msg` calls queue.

| action | code |
|---|---|
| `ServeSessionReq`, `ServeField`, `ServeMove` | `ClientData::process_msg`: the session's step with what it answers, also when it refuses |
| `Wait`, `Pass`, `SessionEvent` | `Select`, the pass, the six events with what they send |
| `Deliver` | `BattleshipGame::_process_msg_from_server` |
| `PressArrow`, `PrepareCell`, `Shoot`, `AskForGame` | `NcursesInterface::process_input` and the reactions that send |
| `Connect`, `Break` | `ClientServer`: a connection is made, or breaks at any time and the client process tells the interface |

*Abstractions.* When a connection ends, any part of what is under way in either
direction is lost, and what is kept for the next connection goes on; this happens
in one step with the server's noticing it. Connecting succeeds at once. A message
is delivered once: sending again, also over a new connection, is left to
`Delivery`. `Prompt` says whether every message is processed before the server
waits again; `MaxInFlight`, `MaxRequests` and `MaxBreaks` are bounds.

### BattleshipServer: the loop and its lists

One turn of `run`: `Select`, `TimeoutDisconnects`/`TimeoutsDone`,
`Accept`/`AcceptNone`, then the visits to `clients_in_game` (`ProcessInGame`) and
to `clients_queue` (`ProcessQueue`), one client a step, with the loop's own
`i` and `unprocessed_cnt`. Clients are addresses of `ClientData`, reused like
their descriptors, of which the kernel hands out the smallest. A read with
nothing to read has no step: the server waits there. A peer asks for a game or
closes; everything else that it may send changes nothing here. What goes on in a
game is in `GameSession`: here a timeout may disconnect any player at any time,
more often than the code does (`check_start_fields` and `end_game` are the only
ones that do). What a peer sends while the loop is at work is noticed only by the
next select, or by a read that blocks, so `PeerSends` is enabled in these two
cases only.

### Delivery: what is sent, resent, confirmed and given up

One end of a connection: the send queue (`to_send_msg` in `ClientData`,
`to_server_msg` in `ClientServer`), `MsgDeliveryControl` and the receipts. Both
programs have the same `write_msg`; they differ in the order of a turn (the
server writes before it processes what it has read, the client afterwards) and in
what a broken connection does, so the variable `program` says which one is
looked at. A message is an address: the queue and the control list share
messages, a deleted address is handed out again, and an entry of the queue may
outlive its message.

| action | code |
|---|---|
| `send_msg` | `send_msg`, `_redirect_to_server`: somebody queues a message |
| `Select` | select and reading all that has come |
| `WriteOne`, `WriteFails`, `WriteDeleted` | one message of `write_msg`: written in full, not, or deleted before |
| `Resend` | the end of `write_msg`: `MsgDeliveryControl::resend` |
| `ProcessReceipt`, `ProcessMsg`, `ProcessField`, `ProcessDone` | `process_msg` and the confirmations it queues (a field is confirmed twice by the server) |
| `Tick` | time between two visits |
| `Break` | the server deletes the `ClientData`, the client connects again with what it has |
| `PeerReads`, `PeerSends` | the peer |

`_rm_all_exhausted` reads the next pointer of an item it has just deleted:
`Removals` lets the walk go on or end there. `write_msg` using a deleted message
(`WriteDeleted`) is undefined behaviour, after which the model stops. The peer's
own queue is not modelled: receipts are confirmed at once or late, as `prompt`
says.

### MsgBuffer: the stream cut into messages

A message is a sequence of a few abstract bytes: the start mark, its type, the
upper bytes of the type, and data. The stream is a sequence of *pieces*: whole
messages, and beginnings of messages whose write was short. `Read` takes any
number of pieces and a part of the next one (as `reads` says), then `NewReading` and
`FinishingReading` are the turns of the loop in `_gain_msg`. The size that
`_finishing_reading` computes comes from bytes taken for an object: it is -1 or
the size of any object. Copying a negative or too large number of bytes ends the
program in the model. `MixedAreCutOnce` and `SplitArePlain` say which streams the
promises on mixed and split reads are about: `MCMsgBuffer` asserts both of its
instance (`StreamsFit`), and the proofs take them as hypotheses.

### Variants

An operator named like another one with a suffix and introduced by "Variant:"
(`Heap_leaking`, `start_new_turn_forgetful`, ...) is a plausible mistake in the
operator that follows it. No specification uses them; putting one in place of
the original shows that a property would notice.

## Runs

| run | instance | question |
|---|---|---|
| `session_churn` | board 1 x 1, one ship; 2 clients, 5 handlers; durations 4, 3, 2; up to 4 ticks a select | do the session, its handlers and its announcements survive every order of departures, joins and old timeouts, and is it a match (`MatchSpec`) all the while? |
| `session_match` | board 2 x 2, a ship of two; durations 1, 2, 2; 1 tick a select; matches do not overlap | are turns, shots and results right in matches of several turns, and does every match end? |
| `server_full` | 4 clients, queue of 2, one game | lists, seats, descriptors and loops when the game and the queue are full |
| `field_shots` | 4 x 4, ships of one, two and three: all 65536 boards, then up to 4 different cells shot | does the scan agree with the rules, and do boards under fire? |
| `timeout_handler` | 3 microseconds a second, up to 2 seconds, 10 microseconds in total | arithmetic and firing |
| `timer_doc` | durations -1, 0, 2, 5; clock up to 10 | refutes a sentence of `core/timer.h`, see below |
| `delivery` | 2 messages, one of the peer, room for two on the way, sent again twice, a failed write; receipts in time, or at any time and with a broken connection; both programs | who owns a message, how often is it sent, what can delete a queued one, is each delivered once? |
| `delivery_liveness` | 2 messages, room for one on the way, a failed write, receipts in time | is every message read, confirmed and deleted? |
| `buffer` | three ways of reading: reads end where pieces end (3 pieces, data that may look like a start mark), they also go on behind short writes, they end anywhere (2 messages); messages of 5 and 6 bytes | does what was sent come out, and how much does a short write or a split spoil? |
| `buffer_parts` | 2 messages, reads end anywhere | a message in two reads is lost, see below |
| `play` | board 1 x 1; messages of any delay, a connection that breaks, 4 requests for a game | does a player who has processed everything see what the session is doing? |
| `play_shots` | board 2 x 2, one ship; an arrow key that moves over the edge; messages do not outlive a wait; 2 requests | cursor, clock and aim; is the session used as `GameSession` describes (`SessionSpec`)? |

**Properties of the session.** `StateCountsPlayers`: `state` says how many seats
are taken, which is all that stands between the unchecked pointers and a crash.
`TurnTimeoutLive`: whenever `end_turn` may follow `turn_timeout`, it points to a
live turn timeout. `HandlersOwned`: each live handler is in one place of the
pass. `MatchHasTimeout`: each phase has under way the timeout that ends it.
`PlayersAgree`: the two players are told the same story. `WinnerDestroyedAll`,
`ResultIsFinal`: results. `TurnRecordsOneShot`: from turn to turn one shot, on
the right field. `MatchSpec`: each step that a player can see is a step of `Match`,
none skipped or done twice. `MatchesEnd`: again and again the session has a free
seat. That a change of turn may run after the result means that `_register_shot`
may draw once more for a cell that can be hit (`game_session.cpp:361`); if there
were none it would not end. The deadlock check of `session_churn` shows that
there is one with the handlers allowed there, and no property promises it.

**Properties of the loop.** `ClientsListedOnce`, `SeatedInGame`, `LoopsEnd`, and
`BlocksOnlyOnReusedFd`. The last one says when the server *can* wait in a read
for a client that has sent nothing: a timeout closes a descriptor that select had
reported, accept gets the same number for a new client in the same turn, and the
stale bit makes the loop read from it. The property shows that this is the only
way.

**Properties of the players.** `InterfaceFollowsSession`: a player who has processed
all he was sent is in the mode that the session's state calls for. Two things are
*not* promised, and the property says so by what it leaves out: a player whose
partner has left is not told that he waits again (`game_session.cpp:65` changes
the state and returns), so in `WAIT_PLAYER` it says nothing; and a shot that was
left behind by a turn in which a match broke off makes the session refuse the
first shot of the next, so the player in turn may be left waiting.
`ShownBoardsAgree`: in a turn a player who is up to date sees the enemy's board as
the session has it, and his own too once it has been shot at. The boards are sent
when the fields are checked, and twice that is not enough, which the property
leaves out:

- A field that an earlier player left in the slot passes the check and is sent to
  the new player as his own. His own field, if it is under way until after the
  check, is still taken (`set_field` accepts it in `WAIT_START`,
  `game_session.cpp:94`) and not sent back, so until the first shot at it he looks
  at his predecessor's. Both fields are ready for the game.
- When matches overlap, the start timeout of an abandoned match can fire between
  the end of the next preparation and its check. `start_game` then begins the first
  turn with boards that nobody has checked or sent. The runs exclude it with
  `MaxTimers` = 1, the theorem with the hypothesis `OneStart`.

The run `play` has a board of one cell, on which the first shot at a ship decides the
match, and no overlapping matches: it shows that the boards of the start and of the
result arrive under any delay, not what a predecessor's field or an overlapping match
does to them. That the board after a shot comes before the next turn is what
`ShotsCount` needs on the four cells of `play_shots`.

`CursorAndClockFit`: the cursor is on a cell of the field that is worked on, and
the count-down runs as long as a deadline is due. `ShotsCount`: a shot that is
taken is at a cell that counts, so that no player loses his shot to a random
one; this needs `Prompt`, for a shot that arrives in a later turn of the same
player is taken for that turn. `SessionSpec`: the composition moves the session
only as `GameSession` says, so that whatever is shown there holds for players at
their keys.

**Properties of delivery.** `QueueSound` and `DeliveredOnceInOrder` hold as long
as receipts are processed within `RESEND_TIME` (10 s in the code), whatever write
fails. Without that assumption a receipt can delete a message that is queued
again: `OnlyLateReceiptsDelete` says that nothing else can, unless a write
fails. `Owned`: every message alive is in the queue or under control, and what is
under control is alive, once, and has its own number. `AttemptsBounded`,
`GivenUpLast`: a message is sent at most 1 + `RESEND_CNT` times, and not given up
before. Each failed write may cost one more: `write_msg` puts the message back
and `resend`, right after, puts it in the queue once more, as it is still
overdue; `resend_cnt` then goes below zero.
The control list of a disconnected client is freed without its messages
(`msg_delivery_control.cpp:17`); `Owned` excludes that moment. Resending happens
only in `write_msg`, which runs only if there is something else to write.

**Properties of the buffer.** `AllExtracted`: what was written in full comes
out. `Resynchronises`: a short write spoils only what is read together with it.
With data that look like a start mark this fails, as the search for the next
message stops at such a byte; the streams with mixed reads have none. `ReadInOrder`: what
comes out is what was sent, in order, as far as the program gets.

**Bounds and why they are enough.** Two clients are enough for a session: it has
two seats, and who leaves can come back at the other one. The durations of
`session_churn` keep the order of the code's (preparation longer than a turn
longer than a wait), and `MaxPassed` = 4 makes a whole preparation fit in one
select, so that several timeouts fire in one pass. `MaxTimers` bounds how many
handlers an abandoned match may leave when the next begins; with 3, handlers of
two earlier matches meet a third. `Handle` has two addresses more, because each
joining starts a single chain of timeouts with one live handler, besides a stopped
turn timeout that is not yet deleted and the one an event allocates before its own
is deleted: the pool is never exhausted, and TLC would report a deadlock if it were.
Addresses are reused, which is what makes `turn_timeout` interesting.
In `session_match`, `play` and `play_shots` a match begins when the one before has
left no handler (`MaxTimers` = 1). That timeouts of other matches cannot end the
chain of a match is `MatchHasTimeout`, checked with overlapping matches and
proved. A handler that is added during a pass is charged with the time of that
pass (`bs_server.cpp:277`), so there a turn and a wait are longer than `MaxPassed`:
otherwise each would be over in the pass in which it began. The board of one cell makes
every shot decide a match; the board of four has hits and misses and off-board
shots. With four peers, one game and a queue of two, both the game and the queue
can be full, a queued client can ask for a game that has no seat, and a
connection can wait for a place in the queue. Only one game is looked at: with
more, a newcomer takes the first free seat; the theorems hold for any number.
4 x 4 with ships of one, two and three has ships at edges, in corners, and
touching or not in all ways; four different shots sink the largest ship with
one to spare, in every order. `BoardFollowsRules` is a property of sets of
shots, so repeated shots need no bound.

In `play` four requests make two matches: a rematch after one that broke off, and
a request out of turn. One break at any moment covers each state of
the match and of the queues. A message under way to each side beside those that
a step sends together is enough for every overtaking, as queues keep their order.
On the one cell of `play` no arrow key is needed. In `play_shots` the one arrow
key moves along a row and over its edge; the cells of the other row are shot at
by the random shots of players who do not shoot. `CHECK_DEADLOCK FALSE` in these
two: once nobody may ask for a game any more and no timeout is pending, the
system idles, which is the bound on requests. That boards are right is
checked on the one cell of `play`, where each shot decides; boards of any size, with
their many shots, are left to the theorem `BoardsAreShown`.

Two messages of which one is resent while the other, or a receipt, is in the queue
show every overlap of queue and control list; two resendings (3 in the code)
have a first, a repeated and a last attempt. `Addr` has an
address for every message and receipt alive at a time. In `delivery_liveness`
room for one on the way makes `write` block. Three pieces give a short write with a
whole message before and behind it, or two; messages of two sizes make a wrong
size visible, and `MIN_SIZE` = 3 leaves a position for the upper bytes of a
type. `BUFF_SIZE` = 18 holds three messages: the code's 4096 bytes hold many.

**Fairness.** `FairSpec` of `GameSession` assumes that the server goes on with a
pass that it has begun (weak fairness of `TakeHandler`, the events and `EndPass`: one thread, no
other work in between), and that time passes: infinitely often, if it is again
and again about to wait in select, at least one tick goes by there (strong
fairness, as the clients' actions may come between). Only time *inside* select
counts in the code, so this is an assumption on the load: a server that is never
idle would time nothing out. Nothing is assumed of the clients.
`FairSpec` of `Delivery` assumes that the steps of the program's loop are taken
(it is one thread that waits nowhere but in select and write) and that the peer
goes on reading, which both programs' loops do; not that anybody sends, that time
passes or that a write fails.

**Disagreements between code and documentation.** 1. `core/timer.h:44-46` says that
`is_active` is true "if the timer is started and the duration time hasn't
passed". `timer.cpp:50` looks only at whether it was started with a positive
duration; after the time is over it stays true until `stop`. `timer_doc` shows
it.

2. `core/msg_buffer.h:48-52` keeps the beginning of a message over reads
(`readed`, `is_too_small`) so that the rest can be added. `_gain_msg` resets
`is_too_small` before it is looked at, and otherwise the size is taken from the
raw bytes as if they were a `Message` object (`msg_buffer.cpp:297`), so the rest
is copied by a wrong size, or to a wrong place, and the message never comes out.
`buffer_parts` shows it. The messages are small and sent with one `write` each,
so that TCP hardly ever splits them.

## Proofs

`tlapm` checks the eight proof modules; the theorems hold for every value of the
constants that satisfies the modules' assumptions (`SessionAssumption`,
`PlayAssumption`, `ServerAssumption`, `ShotsAssumption`, `TimeAssumption`,
`FieldAssumption`, `InterfaceAssumption`, `DeliveryAssumption`, `BufferAssumption`,
`StreamAssumption`: types of the constants, positive durations and capacities, null
different from every address, finitely many peers, sent fields are fields, the start
mark is no type and a type is not one of the two answers that there is none, what is
read are messages and beginnings of messages). The bounds of the runs are constants as well, so
the theorems hold whatever their values.

- **Counting**: the induction that the other proofs use. The library's induction
  theorems take an operator and cannot be instantiated by the installed provers;
  here the least number of a set (`Smallest`) is obtained from the well-founded
  order on finite sets, and induction over a *set* of numbers (`ByCounting`) from
  it. That a recursive function is what its equation says is proved with it as
  well (`ScanByCells`, `ShipsUpToByLength`; `MovedToStart` for the search of the
  buffer, `JoinsExist` for the library's `FlattenSeq`).
- **GameFieldProofs**: the operators of `GameField` against the rules of
  `FieldRules`, for every size of the board and every fleet.
  - A shot leaves a board, turns only water into boundary marks and changes at most
    one ship cell; a board without ships stays so (`DestroyedForGood`).
  - `ShotFollowsRules`: one shot at `BoardAfter(start, shots)` makes the board after
    one more shot. The point is `WalksFindShip`: the four walks from a hit stay on
    the ship (`WalkStaysOnShip`, because its neighbours are water), find an
    unharmed cell exactly if there is one left, and otherwise cover the ship.
  - `AcceptedFieldsAreLegal`: `ScanInv` says that what the scan has removed is
    shared out among the ships noted. In the end all cells are, and the neighbour
    check makes them separate, so they are *all* the ships of the board
    (`ShipsAreSeparate`, `SharedOut`) and counting them by length is counting
    ships.
  - `LegalFieldsAreAccepted`: on a legal start the cell of a ship that the row by
    row order reaches first is its head (`FirstIsHead`), the runs from there end
    with the ship (`RunIsOnShip`, `HeadFindsShip`), and the ships noted are an
    injection into the others of the fleet (`RoomForShip`), so that neither early
    exit of the scan is taken.
- **FieldShotsProofs**: `TypeOK`, `EnemyTargetsAreOpen` and `MarksAreFinal` from the
  first of these, `ScanAcceptsLegalFields` from the last two, and
  `BoardFollowsRules` by the invariant that the start is legal and the board
  follows the rules: all five properties of `field_shots` hold for every board,
  fleet and number of shots.
- **TimeoutHandlerProofs**: `TimeInv`, the conjunction of the invariants with
  "a stopped handler has elapsed", is inductive; the work is in `PassedTime` and
  `RemainingTime`, where the borrow is shown exact by cases. All four properties
  of the run follow for every `USEC`.
- **PlayProofs**, part 1, is about `GameSession`: first `TypeCorrect`. The inductive invariant is

      IInv == TypeOK /\ NoEventDue /\ StateCountsPlayers
              /\ TurnTimeoutLive /\ MatchHasTimeout

  None of the last three is inductive alone. That `end_turn` keeps a timeout
  pending needs the stopped handler not to be the new one, hence
  `TurnTimeoutLive`; that a chain of timeouts goes on needs the event to do
  something in the state in which it is needed, hence `state` to fit; and
  `NoEventDue` (no event is due between two passes) is what lets a message
  handler allocate without freeing. A stale timeout does no harm (`IgnoredEffect`)
  because it is never the one that `MatchHasTimeout` counts on. From `IInv`
  follow `StateFits`, the announcements (`PlayersAreToldTheSame`, by an
  invariant relative to `IInv`) and the action properties `ResultStands` and
  `OneShotATurn`. `HandlersAreOwned` is inductive relative to `IInv`: each
  event leaves the lists alone or puts one new handler at the end (`HeapStep`,
  `Allocates`), and the pass moves one handler from a list to the other.

  The last section of this part is the refinement: `Implements`, `Spec => MatchSpec`. Each
  action of the session is mapped to one of `Match` or to a stutter. A timeout of
  an earlier match must stutter, which is why the invariants above are needed:
  `PlayersAgree` tells the stages `between` and `over` apart, `WinnerDestroyedAll`
  leaves `MarkAfterwards` as the only step after the result.
- **PlayProofs**, part 2, is about `Play`: first lemmas about `Interface`: every message and key keeps an
  interface an interface, with its cursor on the field of its mode and its clock
  as the mode demands; what it sends is a board, a cell of it or a request.
  `PlayInv` is the types of the session and of the queues with
  `CursorAndClockFit`. Because the cursor is on a cell, a shot is a cell of the
  board; hence every step of `Play` is one of `GameSession` (`GameUsesSession`),
  and with `Implements` the whole game is a match whose players are told the same
  and whose winner is right (`GameIsMatch`).

  Then what the players see. The invariant behind `ModesFollowSession` is

      PlayInv /\ OneSeat /\ ModesFit

  A client's mode is right only when he is up to date, so `ModesFit` says it of the
  mode that he *will* be in: `EndsIn` looks for the last message of his queue that
  sets a mode, and for the end of a preparation behind it. Putting a message at
  the end, processing one at the head, and losing all of them when a connection
  breaks then each have one lemma, whatever else is in the queue. The player in turn
  needs two cases: he leaves his turn himself when he shoots, and until the
  session has the shot it is under way (`ShotUnderWay`).

  The boards go the same way: `BoardsFit` says that from the check of the fields on
  the last board in the queue, or on the screen if none is under way, is that of the
  session (`Sees`, `ShownBy`). `BoardsAreShown` has the hypothesis `[]OneStart`: of
  preparation, check and start there is never more than one timeout alive, that is
  no match starts while an earlier one is still about to. Without it the statement
  is false (see the properties of the players). `StartsOverlapOnlyByJoining` says who
  breaks it: the steps of the session, stale timeouts included, replace a start
  or leave it alone (`StartMovesOn`, `StartsNothing`), so that two starts are under
  way only after a match has been joined during the start of an abandoned one
  (`StartsAlone` excludes it). The code does not: players who leave and join
  quickly enough can do it, as `disconnect_player` stops no timeout.
- **BattleshipServerProofs**: the invariant is

      ServerInv == ListsInv /\ LoopTypes /\ ReportsFit /\ VisitsEnd
                   /\ BlocksOnlyOnReusedFd

  The counts are the cardinalities of the occupied positions of the arrays
  (`Removing`, `Adding`), so that a loop that has clients left to visit has a
  position ahead of it. Two pigeonhole arguments carry the capacities: there is a
  place on `clients_in_game` for everyone who takes a seat (`RoomInGame`), and a
  free descriptor for everyone who is accepted (`FreeDescriptor`). That a smallest
  free descriptor exists is `Smallest`. The five
  properties of `server_full` follow for every number of games, peers and places.
- **DeliveryProofs**: the invariant is

      IInv == TypeOK /\ Counters /\ Distinct /\ ControlSound /\ Held /\ Numbered
              /\ AttemptsWritten /\ NoResend /\ InOrder /\ OverdueQueued

  The lists are cut by positions (`Sublist`); `SublistTakes` says that the items of
  the result are those at the positions wanted, each once, and is all that the
  steps need to know of it. `Numbered` relates both ends: a number on the way is
  the number of that message, and a receipt with the number of a message alive
  means that the peer has read it, also over a new connection. With
  `AttemptsWritten` (each attempt used up was a write) it gives
  `NothingGivenUpEarly`. `NoResend` (while receipts come in time nothing is overdue,
  and what is queued has never been written) gives `QueueIsSound` and half of
  `OnceInOrder`; the other half is `InOrder`, by which the first message of the
  queue that is not a receipt is the next one of all. `OverdueQueued`, which does
  not hold inside `write_msg`, gives `LateReceiptsOnly`; `Deletions` lists who
  deletes a message.

  `WrittenWithinBounds` (`AttemptsBounded`) needs a budget: for every message, the
  number of places that it has in the queue and the attempts it has used are
  together at most 1 + `RESEND_CNT` + the failed writes, and one less while `resend`
  is about to queue what is overdue. `Positions` are counted as a finite set, and a
  deleted message leaves its budget behind: a pointer to it in the queue may
  become a pointer to a new message at the same address, so a stale pointer counts
  as an attempt already used.

- **MsgBufferProofs**: for every number and length of messages, types, sizes and
  `BUFF_SIZE`. `BufferTypeOK` (`Types` adds to `TypeOK` that the parts of messages
  are sequences of bytes) shows that no copy goes out of bounds: the guard of
  `FinishingReading` that ends the program is the only place where it could.
  The other three theorems say what comes out. They need invariants about
  bytes, from which the search for marks has to be reconstructed:

  - `EverythingExtracted`, `ReadsResynchronise`: the invariant is `WholeReads`. As
    long as no read goes on behind a short write, the buffer is `Clean`: messages and
    at most the beginning of another one at its end, whatever data look like a
    start mark, and what has been extracted followed by the messages in the buffer is
    what is due (`Kept`). Reading behind a short write leaves `Clean` for `Sound`:
    every start mark in the buffer is followed by as many bytes as a header. So the
    loop ends with an empty buffer either way, and a part of a message that is kept is
    given up when the next read begins with a start mark. `ReadsResynchronise` has the hypothesis
    `MixedAreCutOnce` (data do not look like a start mark, one short write). With
    two short writes in a row the code may lose more: a start mark and nothing else
    of the second one stays in the buffer and spoils the next read.
  - `SplitReadsInOrder`: the invariant is `SplitReads`. What is extracted, what
    is kept of a message, the buffer and the stream always lie on one `Line`: the
    messages sent, from the next one on (`Ahead`). The size of what was allocated is
    that of the message as soon as its type has been read (`Sized`), so that a copy
    can stop early or end the program but never go on into the next message. The
    hypothesis is `SplitArePlain`: nothing is cut, no data look like a start mark.

Model-checked only:

- `ShotsCount`: it needs that messages do not outlive a turn (`Prompt`) and that a
  wait is longer than what passes in one select, so its invariant would have to
  order the remaining times of all handlers against the queues of both players.
- `MatchesEnd`, `AllAcknowledged`: liveness.

`PartsJoined` and `ActiveUntilDurationPassed` are the properties of the two runs that
expect a violation.

## What is not modelled

- Of the client: the relay loop of `ClientServer` (which messages it passes on, keeps
  or answers is in `Play`, how it writes and confirms in `Delivery`), the list of
  messages that `BattleshipGame` has not written yet and a failed write between
  the two processes, the status request that no key sends.
- Two ends of a connection composed, with both their queues: `Delivery` is one end
  and a peer that reads and confirms. Two ends that wait in `write` for each other
  are therefore not excluded.
- A read error or a full buffer (`read_msg` leaves what it has), and most fields of
  the messages.
- `accept` that fails (`bs_server.cpp:123`): the loop goes on as if nobody had
  connected, which is what `AcceptNone` does.
- The wall clock being set back, and the time lost when select is interrupted
  (`bs_server.cpp:199`): timeouts only become longer. No property of the models
  depends on real time.
- That the server spins when the queue is full and a connection waits
  (`bs_server.cpp:112`): select returns at once as long as nobody leaves. The
  model contains these turns; they change nothing.
- Two clients who wait alone in two sessions are never brought together
  (`bs_server.cpp:304` only looks for a seat for a newcomer). The code promises
  nothing else.
- A shot that comes after the last turn of a match, or whose player leaves before
  it is processed, stays in `last_shot` and is used for the first turn of the
  next match. The models contain this; `TurnRecordsOneShot` says only that one
  shot is recorded, whoever aimed it.
- A field of a player who left stays in `fields` and is used for one who sends
  none. The models contain this too.
- Creating sockets, signals, logging, drawing, command lines and `ncurses-6.4`,
  which is nearly all of the lines in the repository and none of its own logic.

## Plan

Done, in this order: the board, time, the session, the server's loop, delivery
and the buffer; then the abstract match and its refinement, the interface, the
composition of players and session, and the proofs of the session's heap, the
refinement, the composition, the server's lists and delivery with its attempts,
what the players see, and the buffer. What is left:

1. Two ends of a connection composed: `Delivery` of a client and of the server over
   one stream, with both queues, for writes that block each other and for what is
   sent again on a new connection; then `Play` over such connections.
2. `ClientServer` as a module: select over both descriptors, a connection that is
   not made, and `BattleshipGame`'s writing.
