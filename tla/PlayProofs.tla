----------------------------- MODULE PlayProofs -----------------------------
(***************************************************************************)
(* Proofs about GameSession and about Play, for every board and fleet, any *)
(* number of clients, handlers, requests and broken connections, and all   *)
(* durations and delays of messages.  The session keeps its promise to the *)
(* players whoever calls it; then the session in Play is one, the          *)
(* interfaces stay in order, and a player who is up to date is in the mode *)
(* and sees the boards that the session has.                               *)
(***************************************************************************)
EXTENDS Play, GameFieldProofs, FiniteSetTheorems, SequenceTheorems

-----------------------------------------------------------------------------
(***************************************************************************)
(* PART 1.  The session: whatever handlers call it, and when               *)
(***************************************************************************)

-----------------------------------------------------------------------------
(***************************************************************************)
(* Lemmas about the operators of the model                                 *)
(***************************************************************************)

\* The announcements the actions make are announcements.
LEMMA ToldTypes ==
    ASSUME told \in [PlayerNumber -> Announcement]
    PROVE  /\ \A ps, what : what \in Announcement =>
                  TellAll(ps, what) \in [PlayerNumber -> Announcement]
           /\ \A cur, own, enemy : own \in Announcement /\ enemy \in Announcement =>
                  TellTurn(cur, own, enemy) \in [PlayerNumber -> Announcement]
           /\ \A gone : ToldWithout(gone) \in [PlayerNumber -> Announcement]
  BY DEF TellAll, TellTurn, ToldWithout, Announcement

\* Players who are taken out of the game leave a state that is one.
LEMMA LeavingTypes ==
    ASSUME state \in GameState, players \in [PlayerNumber -> Client \cup {None}]
    PROVE  \A gone : /\ StateWithout(gone) \in GameState
                     /\ Remaining(gone) \in [PlayerNumber -> Client \cup {None}]
  BY DEF StateWithout, AfterLeaving, Remaining, GameState

\* Deleting the handler whose event runs keeps the heap a heap.
LEMMA HeapType ==
    ASSUME timers \in [Handle -> Timer]
    PROVE  Heap \in [Handle -> Timer]
  BY DEF Heap, Deleted, Timer

\* So does allocating a handler, and the address ends up on the list.
LEMMA StartTimeoutTypes ==
    ASSUME timers \in [Handle -> Timer], timeout_handlers \in Seq(Handle),
           NEW kind \in TimeoutKind, NEW duration \in Nat, StartTimeout(kind, duration)
    PROVE  timers' \in [Handle -> Timer] /\ timeout_handlers' \in Seq(Handle)
  BY HeapType DEF StartTimeout, AddTimeoutHandler, New, Timer

\* The same for a turn, whose handler the session remembers.
LEMMA StartNewTurnTypes ==
    ASSUME TypeOK, SessionAssumption, NEW cur \in PlayerNumber, start_new_turn(cur)
    PROVE  /\ state' \in GameState
           /\ cur_turn_player_idx' \in PlayerNumber
           /\ told' \in [PlayerNumber -> Announcement]
           /\ timers' \in [Handle -> Timer]
           /\ timeout_handlers' \in Seq(Handle)
           /\ turn_timeout' \in Handle \cup {None}
  <1>1. told' \in [PlayerNumber -> Announcement]
    BY ToldTypes DEF TypeOK, start_new_turn, Announcement
  <1>2. /\ timers' \in [Handle -> Timer]
        /\ timeout_handlers' \in Seq(Handle)
        /\ turn_timeout' \in Handle \cup {None}
    BY HeapType
       DEF TypeOK, start_new_turn, AddTimeoutHandler, New, Timer, TimeoutKind, SessionAssumption
  <1> QED BY <1>1, <1>2 DEF start_new_turn, GameState, TypeOK

\* The end of a turn stops the handler of the turn and starts another one.
LEMMA EndTurnTypes ==
    ASSUME TypeOK, SessionAssumption, end_turn
    PROVE  /\ state' \in GameState
           /\ told' \in [PlayerNumber -> Announcement]
           /\ timers' \in [Handle -> Timer]
           /\ timeout_handlers' \in Seq(Handle)
           /\ turn_timeout' = None
  <1>1. told' \in [PlayerNumber -> Announcement]
    BY ToldTypes DEF TypeOK, end_turn, Announcement
  <1>2. PICK h \in Handle : /\ AddTimeoutHandler(h)
                            /\ timers' = StopTurnTimeout(New(h, "ChangeTurn", WAIT_DURATION))
    BY DEF end_turn
  <1>3. New(h, "ChangeTurn", WAIT_DURATION) \in [Handle -> Timer]
    BY HeapType DEF TypeOK, New, Timer, TimeoutKind, SessionAssumption
  <1>4. timers' \in [Handle -> Timer]
    BY <1>2, <1>3 DEF StopTurnTimeout, TypeOK, Timer
  <1> QED BY <1>1, <1>2, <1>4 DEF end_turn, AddTimeoutHandler, GameState, TypeOK

\* What the pass does to the oldest handler: it is deleted, kept or due, and no
\* other handler changes.
LEMMA TakeHandlerEffect ==
    ASSUME TypeOK, TakeHandler
    PROVE  \E h \in Handle :
               /\ timers' \in [Handle -> Timer]
               /\ \A g \in Handle \ {h} : timers'[g] = timers[g]
               /\ \/ /\ timers[h].left = 0 /\ timers'[h] = Deleted
                     /\ handler' = None /\ tmp' = tmp
                  \/ /\ timers'[h].kind = timers[h].kind /\ timers'[h].left > 0
                     /\ handler' = None /\ tmp' \in Seq(Handle)
                  \/ /\ timers'[h].kind = timers[h].kind /\ timers[h].left > 0
                     /\ handler' = h /\ tmp' = tmp
  <1>1. PICK h \in Handle : h = Head(timeout_handlers)
    BY DEF TypeOK, TakeHandler
  <1>2. timers[h] \in Timer /\ passed \in Nat
    BY SessionAssumption DEF TypeOK, SessionAssumption
  <1>3. CASE timers[h].left = 0 /\ timers' = [timers EXCEPT ![h] = Deleted]
               /\ UNCHANGED <<tmp, handler>>
    BY <1>1, <1>3 DEF TakeHandler, TypeOK, Deleted, Timer
  <1>4. CASE timers[h].left > passed /\ timers' = [timers EXCEPT ![h].left = @ - passed]
               /\ tmp' = Append(tmp, h) /\ UNCHANGED handler
    <2>1. timers[h].left - passed \in Nat /\ timers[h].left - passed > 0
      BY <1>2, <1>4 DEF Timer
    <2> DEFINE left == timers[h].left - passed
    <2>2. timers' = [timers EXCEPT ![h].left = left]
      BY <1>4
    <2> HIDE DEF left
    <2>3. timers' \in [Handle -> Timer] /\ timers'[h].left = left
             /\ timers'[h].kind = timers[h].kind
             /\ \A g \in Handle \ {h} : timers'[g] = timers[g]
      BY <1>2, <2>1, <2>2 DEF TypeOK, Timer, left
    <2>4. left > 0
      BY <2>1 DEF left
    <2>5. tmp' \in Seq(Handle) /\ handler' = None
      BY <1>4 DEF TakeHandler, TypeOK
    <2> QED BY <2>3, <2>4, <2>5
  <1>5. CASE timers[h].left \in 1 .. passed /\ timers' = [timers EXCEPT ![h].left = 0]
               /\ handler' = h /\ UNCHANGED tmp
    <2>1. timers[h].left > 0
      BY <1>2, <1>5 DEF Timer
    <2>2. timers' \in [Handle -> Timer] /\ timers'[h].kind = timers[h].kind
             /\ \A g \in Handle \ {h} : timers'[g] = timers[g]
      BY <1>2, <1>5 DEF TypeOK, Timer
    <2> QED BY <1>5, <2>1, <2>2
  <1> QED BY <1>1, <1>3, <1>4, <1>5 DEF TakeHandler

-----------------------------------------------------------------------------
(***************************************************************************)
(* Type correctness                                                        *)
(***************************************************************************)

\* At the beginning every member has its type ...
LEMMA TypesAtFirst == Init => TypeOK
  BY SessionAssumption
     DEF Init, TypeOK, GameState, PlayerNumber, Field, CellState, EmptyField, NoShot,
         Announcement, Timer, Deleted, SessionAssumption

\* ... and every step keeps it.
LEMMA TypesKept == TypeOK /\ [Next]_vars => TypeOK'
<1> USE SessionAssumption
<1> SUFFICES ASSUME TypeOK, [Next]_vars PROVE TypeOK'
  OBVIOUS
<1>1. ASSUME NEW client \in Client, JoinFirst(client) PROVE TypeOK'
  BY <1>1 DEF JoinFirst, Asks, TypeOK, FirstFree, PlayerNumber, Announcement, GameState,
              timerVars, passVars
<1>2. ASSUME NEW client \in Client, JoinSecond(client) PROVE TypeOK'
  <2>1. timers' \in [Handle -> Timer] /\ timeout_handlers' \in Seq(Handle)
    BY <1>2, StartTimeoutTypes DEF JoinSecond, TypeOK, TimeoutKind
  <2>2. told' \in [PlayerNumber -> Announcement]
    BY <1>2, ToldTypes DEF JoinSecond, TypeOK, Announcement
  <2>3. players' \in [PlayerNumber -> Client \cup {None}]
    BY <1>2 DEF JoinSecond, Asks, TypeOK, FirstFree, PlayerNumber
  <2> QED BY <1>2, <2>1, <2>2, <2>3 DEF JoinSecond, Asks, TypeOK, GameState, passVars
<1>3. ASSUME NEW client \in Client, Leave(client) PROVE TypeOK'
  BY <1>3, LeavingTypes, ToldTypes DEF Leave, TypeOK, timerVars, passVars
<1>4. ASSUME NEW client \in Client, NEW f \in SentField, SendField(client, f) PROVE TypeOK'
  BY <1>4 DEF SendField, TypeOK, timerVars, passVars
<1>5. ASSUME NEW client \in Client, NEW point \in Shot, Move(client, point) PROVE TypeOK'
  <2>1. last_shot' \in Int \X Int
    BY <1>5 DEF Move, SetLastShot
  <2>2. end_turn /\ UNCHANGED passVars
    BY <1>5 DEF Move
  <2> QED BY <2>1, <2>2, EndTurnTypes DEF TypeOK, end_turn, passVars
<1>6. ASSUME NEW client \in Client, NEW point \in Shot, LateMove(client, point) PROVE TypeOK'
  BY <1>6 DEF LateMove, SetLastShot, TypeOK, timerVars, passVars
<1>7. ASSUME NEW ticks \in 0 .. MaxPassed, Select(ticks) PROVE TypeOK'
  BY <1>7 DEF Select, TypeOK, sessionVars, timerVars
<1>8. CASE TakeHandler
  BY <1>8, TakeHandlerEffect DEF TakeHandler, TypeOK, sessionVars
<1>9. CASE PreparationTimeout
  <2>1. CASE stop_preparation
    <3>1. timers' \in [Handle -> Timer] /\ timeout_handlers' \in Seq(Handle)
      BY <2>1, StartTimeoutTypes DEF stop_preparation, TypeOK, TimeoutKind, SessionAssumption
    <3>2. told' \in [PlayerNumber -> Announcement]
      BY <2>1, ToldTypes DEF stop_preparation, TypeOK, Announcement
    <3> QED BY <1>9, <2>1, <3>1, <3>2
            DEF PreparationTimeout, Fires, stop_preparation, TypeOK, GameState
  <2>2. CASE Ignored
    BY <1>9, <2>2, HeapType DEF PreparationTimeout, Fires, Ignored, TypeOK, sessionVars
  <2> QED BY <1>9, <2>1, <2>2 DEF PreparationTimeout
<1>10. CASE CheckStartFieldsTimeout
  <2>1. Fires("CheckStartFields") /\ check_start_fields
    BY <1>10 DEF CheckStartFieldsTimeout
  <2>2. players' \in [PlayerNumber -> Client \cup {None}] /\ state' \in GameState
    BY <2>1, LeavingTypes DEF check_start_fields, TypeOK, GameState
  <2>3. told' \in [PlayerNumber -> Announcement]
    BY <2>1, ToldTypes DEF check_start_fields, TypeOK, Announcement
  <2>4. timers' \in [Handle -> Timer] /\ timeout_handlers' \in Seq(Handle)
    BY <2>1, StartTimeoutTypes, HeapType
       DEF check_start_fields, TypeOK, TimeoutKind, SessionAssumption
  <2> QED BY <2>1, <2>2, <2>3, <2>4 DEF Fires, check_start_fields, TypeOK
<1>11. CASE GameStartTimeout
  <2>1. CASE start_game
    BY <1>11, <2>1, StartNewTurnTypes DEF GameStartTimeout, Fires, start_game, TypeOK
  <2>2. CASE Ignored
    BY <1>11, <2>2, HeapType DEF GameStartTimeout, Fires, Ignored, TypeOK, sessionVars
  <2> QED BY <1>11, <2>1, <2>2 DEF GameStartTimeout
<1>12. CASE GameTurnTimeout
  <2>1. CASE end_turn /\ UNCHANGED last_shot
    BY <1>12, <2>1, EndTurnTypes DEF GameTurnTimeout, Fires, end_turn, TypeOK
  <2>2. CASE Ignored
    BY <1>12, <2>2, HeapType DEF GameTurnTimeout, Fires, Ignored, TypeOK, sessionVars
  <2> QED BY <1>12, <2>1, <2>2 DEF GameTurnTimeout
<1>13. CASE ChangeTurnTimeout
  <2>1. CASE change_turn_player
    <3>1. PICK shot \in EffectiveShot(fields[enemy_idx(cur_turn_player_idx)]) :
              fields' = [fields EXCEPT ![enemy_idx(cur_turn_player_idx)] =
                                           register_shot(@, shot)]
      BY <2>1 DEF change_turn_player
    <3>2. fields' \in [PlayerNumber -> Field]
      BY <3>1, EffectOfShot DEF TypeOK, enemy_idx, PlayerNumber
    <3>3. /\ state' \in GameState /\ cur_turn_player_idx' \in PlayerNumber
          /\ told' \in [PlayerNumber -> Announcement]
          /\ turn_timeout' \in Handle \cup {None}
          /\ timers' \in [Handle -> Timer] /\ timeout_handlers' \in Seq(Handle)
      <4>1. CASE \E cur \in PlayerNumber : start_new_turn(cur)
        BY <4>1, StartNewTurnTypes
      <4>2. CASE /\ told' = TellTurn(cur_turn_player_idx, "WIN_GAME", "LOSE_GAME")
                 /\ StartTimeout("EndGame", WAIT_DURATION)
                 /\ UNCHANGED <<state, cur_turn_player_idx, turn_timeout>>
        BY <4>2, ToldTypes, StartTimeoutTypes
           DEF TypeOK, Announcement, TimeoutKind, SessionAssumption
      <4> QED BY <2>1, <4>1, <4>2 DEF change_turn_player, TypeOK, enemy_idx, PlayerNumber
    <3>4. last_shot' \in Int \X Int /\ players' = players
      BY <2>1 DEF change_turn_player, NoShot
    <3> QED BY <1>13, <3>2, <3>3, <3>4 DEF ChangeTurnTimeout, Fires, TypeOK
  <2>2. CASE Ignored
    BY <1>13, <2>2, HeapType DEF ChangeTurnTimeout, Fires, Ignored, TypeOK, sessionVars
  <2> QED BY <1>13, <2>1, <2>2 DEF ChangeTurnTimeout
<1>14. CASE EndGameTimeout
  BY <1>14, LeavingTypes, ToldTypes, HeapType DEF EndGameTimeout, Fires, end_game, TypeOK
<1>15. CASE EndPass
  BY <1>15 DEF EndPass, TypeOK, sessionVars
<1>16. CASE UNCHANGED vars
  BY <1>16 DEF vars, sessionVars, timerVars, passVars, TypeOK
<1> QED
  BY <1>1, <1>2, <1>3, <1>4, <1>5, <1>6, <1>7, <1>8, <1>9, <1>10, <1>11, <1>12, <1>13,
     <1>14, <1>15, <1>16 DEF Next, ClientAction, TimeoutEvent

\* Every member keeps its type: in particular no list ever holds a null
\* pointer, and a board stays a board under every shot.
THEOREM TypeCorrect == Spec => []TypeOK
  BY TypesAtFirst, TypesKept, PTL DEF Spec

-----------------------------------------------------------------------------
(***************************************************************************)
(* The session's state, its players and its timeouts                       *)
(***************************************************************************)

\* No event is due while the clients are served.
NoEventDue == pc = "clients" => handler = None

\* Every member function trusts what the others left behind: the state vouches
\* for the players (StateCountsPlayers), for the pointer to the turn's handler
\* (TurnTimeoutLive) and for a timeout that will come (MatchHasTimeout).
IInv ==
    /\ TypeOK
    /\ NoEventDue
    /\ StateCountsPlayers
    /\ TurnTimeoutLive
    /\ MatchHasTimeout

\* What the two propositions of StateCountsPlayers say about the two slots.
LEMMA PresentCases ==
    ASSUME NEW ps
    PROVE  LET present == {i \in PlayerNumber : ps[i] # None}
           IN  /\ present = {} <=> ps[0] = None /\ ps[1] = None
               /\ (\E i \in PlayerNumber : present = {i}) <=>
                      (ps[0] = None <=> ps[1] # None)
  <1> DEFINE present == {i \in PlayerNumber : ps[i] # None}
  <1>1. PlayerNumber = {0, 1}
    BY DEF PlayerNumber
  <1>2. /\ 0 \in present <=> ps[0] # None
        /\ 1 \in present <=> ps[1] # None
        /\ present \subseteq {0, 1}
    BY DEF PlayerNumber
  <1> HIDE DEF present
  <1>3. present = {} <=> 0 \notin present /\ 1 \notin present
    BY <1>2
  <1>4. 0 \in present /\ 1 \notin present => present = {0}
    BY <1>2
  <1>5. 0 \notin present /\ 1 \in present => present = {1}
    BY <1>2
  <1>6. \A i \in {0, 1} : present = {i} => (0 \notin present <=> 1 \in present)
    OBVIOUS
  <1> QED BY <1>1, <1>2, <1>3, <1>4, <1>5, <1>6 DEF present

\* StateWithout case by case.
LEMMA StateWithoutCases ==
    /\ StateWithout({}) = state
    /\ StateWithout(PlayerNumber) = AfterLeaving(AfterLeaving(state))
    /\ \A i \in PlayerNumber : StateWithout({i}) = AfterLeaving(state)
  <1>1. 0 \in PlayerNumber /\ 1 \in PlayerNumber /\ 0 # 1
    BY DEF PlayerNumber
  <1>2. ASSUME NEW i \in PlayerNumber PROVE {i} # PlayerNumber
    BY <1>1
  <1> QED BY <1>1, <1>2 DEF StateWithout

\* When players who are there are taken out, the state still counts those who
\* are left, and no match is on any more.
LEMMA LeavingCounts ==
    ASSUME SessionAssumption, TypeOK, StateCountsPlayers,
           NEW gone \in SUBSET Present,
           players' = Remaining(gone), state' = StateWithout(gone)
    PROVE  /\ StateCountsPlayers'
           /\ gone # {} => state' \in {"NO_VACANT_GAME", "WAIT_PLAYER"}
           /\ gone = {} => state' = state
  <1>1. gone = {} \/ gone = PlayerNumber \/ \E i \in PlayerNumber : gone = {i}
    BY DEF Present, PlayerNumber
  <1>2. CASE gone = {}
    <2>1. players' = players /\ state' = state
      BY <1>2, StateWithoutCases DEF Remaining, TypeOK
    <2> QED BY <1>2, <2>1 DEF StateCountsPlayers, Present
  <1>3. CASE gone = PlayerNumber
    <2>1. players'[0] = None /\ players'[1] = None
      BY <1>3 DEF Remaining, PlayerNumber
    <2>2. players[0] # None /\ players[1] # None
      BY <1>3 DEF Present, PlayerNumber
    <2>3. state # "WAIT_PLAYER"
      BY <2>2, PresentCases DEF StateCountsPlayers, Present
    <2>4. state' = "NO_VACANT_GAME"
      BY <1>3, <2>3, StateWithoutCases DEF AfterLeaving
    <2> QED BY <1>3, <2>1, <2>4, PresentCases DEF StateCountsPlayers, Present, PlayerNumber
  <1>4. ASSUME NEW i \in PlayerNumber, gone = {i}
        PROVE  StateCountsPlayers' /\ state' \in {"NO_VACANT_GAME", "WAIT_PLAYER"}
    <2>1. state' = AfterLeaving(state)
      BY <1>4, StateWithoutCases
    <2>2. players[i] # None /\ players'[i] = None /\ players'[1 - i] = players[1 - i]
      BY <1>4 DEF Present, Remaining, PlayerNumber
    <2>3. i = 0 \/ i = 1
      BY DEF PlayerNumber
    <2>4. CASE players[1 - i] = None
      <3>1. state = "WAIT_PLAYER"
        BY <2>2, <2>3, <2>4, PresentCases DEF StateCountsPlayers, Present
      <3>2. players'[0] = None /\ players'[1] = None
        BY <2>2, <2>3, <2>4
      <3> QED BY <2>1, <3>1, <3>2, PresentCases DEF AfterLeaving, StateCountsPlayers, Present
    <2>5. CASE players[1 - i] # None
      <3>1. state # "WAIT_PLAYER"
        BY <2>2, <2>3, <2>5, PresentCases DEF StateCountsPlayers, Present
      <3>2. players'[0] = None <=> players'[1] # None
        BY <2>2, <2>3, <2>5
      <3>3. ~(players'[0] = None /\ players'[1] = None)
        BY <3>2
      <3> QED BY <2>1, <3>1, <3>2, <3>3, PresentCases
              DEF AfterLeaving, StateCountsPlayers, Present
    <2> QED BY <2>4, <2>5
  <1> QED
    <2>1. gone # PlayerNumber \/ state' = "NO_VACANT_GAME"
      <3>1. CASE gone = PlayerNumber
        <4>1. players[0] # None /\ players[1] # None
          BY <3>1 DEF Present, PlayerNumber
        <4>2. state # "WAIT_PLAYER"
          BY <4>1, PresentCases DEF StateCountsPlayers, Present
        <4> QED BY <3>1, <4>2, StateWithoutCases DEF AfterLeaving
      <3> QED BY <3>1
    <2> QED BY <1>1, <1>2, <1>3, <1>4, <2>1, StateWithoutCases DEF PlayerNumber

\* A handler that has a kind survives an allocation unless its event is running,
\* and the new handler is pending.
LEMMA StartTimeoutEffect ==
    ASSUME TypeOK, NEW kind \in TimeoutKind, NEW duration \in Nat \ {0},
           StartTimeout(kind, duration)
    PROVE  /\ Pending(kind)'
           /\ \A g \in Handle : g # handler /\ timers[g].kind # "deleted" =>
                                 timers'[g] = timers[g]
  <1>1. PICK h \in Handle : timers[h] = Deleted /\ timers' = New(h, kind, duration)
    BY DEF StartTimeout, AddTimeoutHandler
  <1>2. timers'[h] = [kind |-> kind, left |-> duration]
    BY <1>1, HeapType DEF New, TypeOK
  <1>3. ASSUME NEW g \in Handle, g # handler, timers[g].kind # "deleted"
        PROVE  timers'[g] = timers[g]
    BY <1>1, <1>3, HeapType DEF New, Heap, TypeOK, Deleted
  <1> QED BY <1>2, <1>3 DEF Pending

\* A client that is taken in is counted.
LEMMA JoiningCounts ==
    ASSUME SessionAssumption, TypeOK, StateCountsPlayers, NEW client \in Client, Asks(client)
    PROVE  /\ state = "NO_VACANT_GAME" => \E i \in PlayerNumber : Present' = {i}
           /\ state # "NO_VACANT_GAME" => Present' = PlayerNumber /\ state = "WAIT_PLAYER"
  <1>1. players'[FirstFree] # None /\ FirstFree \in PlayerNumber
    BY DEF Asks, TypeOK, FirstFree, PlayerNumber, SessionAssumption
  <1>2. players'[1 - FirstFree] = players[1 - FirstFree]
    BY DEF Asks, TypeOK, FirstFree, PlayerNumber
  <1>3. players[FirstFree] = None
    BY DEF Asks, FirstFree, PlayerNumber
  <1>4. FirstFree = 0 \/ FirstFree = 1
    BY DEF FirstFree
  <1>5. ASSUME state = "NO_VACANT_GAME" PROVE \E i \in PlayerNumber : Present' = {i}
    <2>1. players'[0] = None <=> players'[1] # None
      BY <1>1, <1>2, <1>4, <1>5, PresentCases DEF StateCountsPlayers, Present
    <2> QED BY <2>1, PresentCases DEF Present
  <1>6. ASSUME state # "NO_VACANT_GAME"
        PROVE  Present' = PlayerNumber /\ state = "WAIT_PLAYER"
    <2>1. players[1 - FirstFree] # None
      BY <1>3, <1>4, <1>6, PresentCases DEF StateCountsPlayers, Present
    <2>2. Present' = PlayerNumber
      BY <1>1, <1>2, <1>4, <2>1 DEF Present, PlayerNumber
    <2> QED BY <1>3, <1>4, <2>1, <2>2, PresentCases DEF StateCountsPlayers, Present
  <1> QED BY <1>5, <1>6

\* A handler that waits still waits after the end of a turn unless it is the
\* turn's own, and the change of turn is scheduled.
LEMMA EndTurnEffect ==
    ASSUME SessionAssumption, TypeOK, TurnTimeoutLive, end_turn
    PROVE  Pending("ChangeTurn")'
  <1>1. PICK h \in Handle : /\ timers[h] = Deleted
                            /\ timers' = StopTurnTimeout(New(h, "ChangeTurn", WAIT_DURATION))
    BY DEF end_turn, AddTimeoutHandler
  <1>2. turn_timeout \in Handle /\ turn_timeout # h
    BY <1>1 DEF TurnTimeoutLive, end_turn, Deleted, TypeOK
  <1> DEFINE new == New(h, "ChangeTurn", WAIT_DURATION)
  <1>3. new \in [Handle -> Timer] /\ new[h] = [kind |-> "ChangeTurn", left |-> WAIT_DURATION]
    BY HeapType DEF New, TypeOK, Timer, TimeoutKind, SessionAssumption
  <1> HIDE DEF new
  <1>4. timers'[h] = new[h]
    BY <1>1, <1>2, <1>3 DEF StopTurnTimeout, new, SessionAssumption
  <1> QED BY <1>3, <1>4 DEF Pending, SessionAssumption

\* A turn that starts has a live handler.
LEMMA StartNewTurnEffect ==
    ASSUME SessionAssumption, TypeOK, NEW cur, start_new_turn(cur)
    PROVE  /\ state' = "GAME_TURN"
           /\ turn_timeout' \in Handle
           /\ timers'[turn_timeout'] = [kind |-> "GameTurn", left |-> TURN_DURATION]
  BY HeapType DEF start_new_turn, New, TypeOK, SessionAssumption

\* Every handler but the one whose event runs, `survives' the event.
OthersSurvive ==
    \A g \in Handle : g # handler /\ timers[g].kind # "deleted" => timers'[g] = timers[g]

LEMMA HeapEffect ==
    ASSUME TypeOK, timers' = Heap
    PROVE  OthersSurvive
  BY HeapType DEF OthersSurvive, Heap, TypeOK

\* The event of one kind of handler leaves the timeouts of the other kinds
\* pending, and with them the turn's when the event is of another kind.
LEMMA EventEffect ==
    ASSUME SessionAssumption, TypeOK, NEW kind \in TimeoutKind, Fires(kind), OthersSurvive
    PROVE  /\ \A k \in TimeoutKind \ {kind} : Pending(k) => Pending(k)'
           /\ /\ kind # "GameTurn" /\ TurnTimeoutLive
              /\ UNCHANGED <<state, turn_timeout>>
              => TurnTimeoutLive'
  <1>1. \A g \in Handle : timers[g].kind \in TimeoutKind \ {kind} => timers'[g] = timers[g]
    BY DEF OthersSurvive, Fires, TimeoutKind
  <1>2. \A g \in Handle : timers[g].kind # kind => g # handler
    BY DEF Fires
  <1>3. ASSUME NEW k \in TimeoutKind \ {kind}, Pending(k) PROVE Pending(k)'
    BY <1>1, <1>2, <1>3 DEF Pending, Fires
  <1>4. ASSUME kind # "GameTurn", TurnTimeoutLive, UNCHANGED <<state, turn_timeout>>
        PROVE  TurnTimeoutLive'
    BY <1>1, <1>2, <1>4 DEF TurnTimeoutLive, TimeoutKind, TypeOK
  <1> QED BY <1>3, <1>4

\* A handler that was started for a session that has moved on does no harm.
LEMMA IgnoredEffect ==
    ASSUME SessionAssumption, IInv, TypeOK', NEW kind \in TimeoutKind, Fires(kind), Ignored,
           kind = "Preparation" => state # "PREPARATION",
           kind \in {"CheckStartFields", "GameStart"} => state # "WAIT_START",
           kind = "GameTurn" => state # "GAME_TURN",
           kind \in {"ChangeTurn", "EndGame"} => state # "PROCESS_TURN"
    PROVE  IInv'
  <1>1. OthersSurvive
    BY HeapEffect DEF Ignored, IInv
  <1>2. \A k \in TimeoutKind \ {kind} : Pending(k) => Pending(k)'
    BY <1>1, EventEffect DEF IInv
  <1>3. MatchHasTimeout'
    BY <1>2 DEF IInv, MatchHasTimeout, Ignored, sessionVars, TimeoutKind
  <1>4. TurnTimeoutLive'
    <2>1. CASE kind = "GameTurn"
      BY <2>1 DEF TurnTimeoutLive, Ignored, sessionVars
    <2>2. CASE kind # "GameTurn"
      BY <2>2, <1>1, EventEffect DEF IInv, Ignored, sessionVars
    <2> QED BY <2>1, <2>2
  <1> QED BY <1>3, <1>4
          DEF IInv, NoEventDue, Fires, StateCountsPlayers, Present, Ignored, sessionVars

\* The three outcomes of the check, by the players who stay.
LEMMA CheckStartFieldsCases ==
    ASSUME check_start_fields
    PROVE  LET stay == Present \ Unprepared
           IN  /\ Unprepared \in SUBSET Present
               /\ players' = Remaining(Unprepared)
               /\ UNCHANGED <<fields, cur_turn_player_idx, turn_timeout>>
               /\ stay = PlayerNumber => /\ StartTimeout("GameStart", WAIT_DURATION)
                                         /\ UNCHANGED <<state, told>>
               /\ stay \notin {{}, PlayerNumber} => state' = "WAIT_PLAYER"
               /\ stay = {} => state' = StateWithout(Unprepared)
  <1> DEFINE Stay == {i \in PlayerNumber : players'[i] # None}
  <1>1. PICK gone \in SUBSET PlayerNumber :
            /\ gone = Unprepared
            /\ players' = Remaining(gone)
            /\ UNCHANGED <<fields, cur_turn_player_idx, last_shot, turn_timeout>>
            /\ Stay = PlayerNumber => /\ StartTimeout("GameStart", WAIT_DURATION)
                                      /\ UNCHANGED <<state, told>>
            /\ Stay \notin {{}, PlayerNumber} => state' = "WAIT_PLAYER"
            /\ Stay = {} => state' = StateWithout(gone)
    <2>1. PlayerNumber # {}
      BY DEF PlayerNumber
    <2> QED BY <2>1 DEF check_start_fields
  <1>2. Stay = Present \ Unprepared
    BY <1>1 DEF Remaining, Present
  <1>3. Unprepared \in SUBSET Present
    BY DEF Unprepared, Present
  <1> HIDE DEF Stay
  <1> QED BY <1>1, <1>2, <1>3

\* The inductive invariant holds of every reachable state.
THEOREM Inductive == Spec => []IInv
<1> USE SessionAssumption
<1>1. Init => IInv
  <2> SUFFICES ASSUME Init PROVE IInv
    OBVIOUS
  <2>1. TypeOK
    BY TypesAtFirst
  <2>2. StateCountsPlayers
    <3>1. players[0] = None /\ players[1] = None
      BY DEF Init, PlayerNumber
    <3> QED BY <3>1, PresentCases DEF Init, StateCountsPlayers, Present
  <2> QED BY <2>1, <2>2 DEF Init, IInv, NoEventDue, TurnTimeoutLive, MatchHasTimeout
<1>2. IInv /\ TypeOK' /\ [Next]_vars => IInv'
  <2> SUFFICES ASSUME IInv, TypeOK', [Next]_vars PROVE IInv'
    OBVIOUS
  <2> USE DEF IInv
  <2>1. ASSUME NEW client \in Client, JoinFirst(client) PROVE IInv'
    <3>1. StateCountsPlayers'
      BY <2>1, JoiningCounts DEF JoinFirst, StateCountsPlayers
    <3> QED BY <2>1, <3>1 DEF JoinFirst, Asks, passVars, NoEventDue, TurnTimeoutLive,
                              MatchHasTimeout
  <2>2. ASSUME NEW client \in Client, JoinSecond(client) PROVE IInv'
    <3>1. StateCountsPlayers'
      <4>1. Present' = PlayerNumber
        BY <2>2, JoiningCounts DEF JoinSecond
      <4> QED BY <2>2, <4>1 DEF JoinSecond, StateCountsPlayers, PlayerNumber
    <3>2. Pending("Preparation")'
      BY <2>2, StartTimeoutEffect DEF JoinSecond, TimeoutKind, SessionAssumption
    <3> QED BY <2>2, <3>1, <3>2 DEF JoinSecond, Asks, passVars, NoEventDue, TurnTimeoutLive,
                                    MatchHasTimeout
  <2>3. ASSUME NEW client \in Client, Leave(client) PROVE IInv'
    <3>1. Slot(client) \in Present
      BY <2>3 DEF Leave, HasPlayer, Slot, Present, SessionAssumption
    <3>2. StateCountsPlayers' /\ state' \in {"NO_VACANT_GAME", "WAIT_PLAYER"}
      BY <2>3, <3>1, LeavingCounts DEF Leave
    <3> QED BY <2>3, <3>2 DEF Leave, passVars, NoEventDue, TurnTimeoutLive, MatchHasTimeout
  <2>4. ASSUME NEW client \in Client, NEW f \in SentField, SendField(client, f) PROVE IInv'
    BY <2>4 DEF SendField, timerVars, passVars, NoEventDue, StateCountsPlayers, Present,
                TurnTimeoutLive, MatchHasTimeout, Pending
  <2>5. ASSUME NEW client \in Client, NEW point \in Shot, Move(client, point) PROVE IInv'
    <3>1. end_turn /\ UNCHANGED passVars
      BY <2>5 DEF Move
    <3> QED BY <3>1, EndTurnEffect DEF end_turn, passVars, NoEventDue, StateCountsPlayers,
                                       Present, TurnTimeoutLive, MatchHasTimeout
  <2>6. ASSUME NEW client \in Client, NEW point \in Shot, LateMove(client, point) PROVE IInv'
    BY <2>6 DEF LateMove, timerVars, passVars, NoEventDue, StateCountsPlayers, Present,
                TurnTimeoutLive, MatchHasTimeout, Pending
  <2>7. ASSUME NEW ticks \in 0 .. MaxPassed, Select(ticks) PROVE IInv'
    BY <2>7 DEF Select, sessionVars, timerVars, NoEventDue, StateCountsPlayers, Present,
                TurnTimeoutLive, MatchHasTimeout, Pending
  <2>8. CASE TakeHandler
    <3>1. PICK h \in Handle :
              /\ \A g \in Handle \ {h} : timers'[g] = timers[g]
              /\ \/ timers[h].left = 0 /\ handler' = None
                 \/ timers'[h].kind = timers[h].kind /\ timers'[h].left > 0 /\ handler' = None
                 \/ timers'[h].kind = timers[h].kind /\ timers[h].left > 0 /\ handler' = h
      BY <2>8, TakeHandlerEffect
    <3>2. handler = None
      BY <2>8 DEF TakeHandler
    <3>3. \A kind \in TimeoutKind : Pending(kind) => Pending(kind)'
      BY <3>1, <3>2 DEF Pending, SessionAssumption
    <3>4. MatchHasTimeout'
      BY <2>8, <3>3 DEF TakeHandler, MatchHasTimeout, sessionVars, TimeoutKind
    <3>5. TurnTimeoutLive'
      BY <2>8, <3>1, <3>2 DEF TakeHandler, TurnTimeoutLive, sessionVars, TypeOK
    <3> QED BY <2>8, <3>4, <3>5 DEF TakeHandler, sessionVars, NoEventDue, StateCountsPlayers,
                                    Present
  <2>9. CASE PreparationTimeout
    <3>1. CASE stop_preparation
      <4>1. Pending("CheckStartFields")'
        BY <3>1, StartTimeoutEffect DEF stop_preparation, TimeoutKind
      <4> QED BY <2>9, <3>1, <4>1
              DEF PreparationTimeout, Fires, stop_preparation, NoEventDue, StateCountsPlayers,
                  Present, TurnTimeoutLive, MatchHasTimeout
    <3>2. CASE state # "PREPARATION" /\ Ignored
      BY <2>9, <3>2, IgnoredEffect DEF PreparationTimeout, TimeoutKind
    <3> QED BY <2>9, <3>1, <3>2 DEF PreparationTimeout
  <2>10. CASE CheckStartFieldsTimeout
    <3> USE <2>10 DEF CheckStartFieldsTimeout
    <3>1. Unprepared \subseteq Present /\ NoEventDue'
      BY DEF Unprepared, Present, Fires, NoEventDue
    <3>2. CASE Present \ Unprepared = PlayerNumber
      <4>1. /\ StartTimeout("GameStart", WAIT_DURATION)
            /\ players' = Remaining({}) /\ UNCHANGED <<state, turn_timeout>>
        <5>1. Unprepared = {}
          BY <3>1, <3>2 DEF Present, PlayerNumber
        <5> QED BY <3>2, <5>1, CheckStartFieldsCases
      <4>2. Pending("GameStart")' /\ OthersSurvive
        BY <4>1, StartTimeoutEffect DEF TimeoutKind, OthersSurvive
      <4>3. MatchHasTimeout' /\ TurnTimeoutLive'
        BY <4>1, <4>2, EventEffect DEF MatchHasTimeout, TimeoutKind
      <4>4. StateCountsPlayers'
        BY <4>1, LeavingCounts, StateWithoutCases
      <4> QED BY <3>1, <4>3, <4>4
    <3>3. CASE Present \ Unprepared \notin {{}, PlayerNumber}
      <4>1. state' = "WAIT_PLAYER" /\ players' = Remaining(Unprepared)
        BY <3>3, CheckStartFieldsCases
      <4>2. Present' = Present \ Unprepared
        BY <4>1 DEF Present, Remaining
      <4>3. \E i \in PlayerNumber : Present' = {i}
        BY <3>3, <4>2 DEF Present, PlayerNumber
      <4>4. Present' # {}
        BY <3>3, <4>2
      <4> QED BY <3>1, <4>1, <4>3, <4>4 DEF StateCountsPlayers, TurnTimeoutLive, MatchHasTimeout
    <3>4. CASE Present \ Unprepared = {}
      <4>1. state' = StateWithout(Unprepared) /\ players' = Remaining(Unprepared)
        BY <3>4, CheckStartFieldsCases
      <4>2. StateCountsPlayers'
        BY <3>1, <4>1, LeavingCounts
      <4>3. state' \in {"NO_VACANT_GAME", "WAIT_PLAYER"}
        BY <3>1, <3>4, <4>1, LeavingCounts DEF StateCountsPlayers
      <4> QED BY <3>1, <4>2, <4>3 DEF TurnTimeoutLive, MatchHasTimeout
    <3> QED BY <3>2, <3>3, <3>4
  <2>11. CASE GameStartTimeout
    <3>1. CASE start_game
      <4>1. PICK cur \in PlayerNumber : start_new_turn(cur)
        BY <3>1 DEF start_game
      <4>2. TurnTimeoutLive' /\ MatchHasTimeout'
        BY <4>1, StartNewTurnEffect DEF TurnTimeoutLive, MatchHasTimeout, Pending
      <4> QED BY <2>11, <3>1, <4>1, <4>2
              DEF GameStartTimeout, Fires, start_game, start_new_turn, NoEventDue,
                  StateCountsPlayers, Present
    <3>2. CASE state # "WAIT_START" /\ Ignored
      BY <2>11, <3>2, IgnoredEffect DEF GameStartTimeout, TimeoutKind
    <3> QED BY <2>11, <3>1, <3>2 DEF GameStartTimeout
  <2>12. CASE GameTurnTimeout
    <3>1. CASE end_turn
      BY <2>12, <3>1, EndTurnEffect
         DEF GameTurnTimeout, Fires, end_turn, NoEventDue, StateCountsPlayers, Present,
             TurnTimeoutLive, MatchHasTimeout
    <3>2. CASE state # "GAME_TURN" /\ Ignored
      BY <2>12, <3>2, IgnoredEffect DEF GameTurnTimeout, TimeoutKind
    <3> QED BY <2>12, <3>1, <3>2 DEF GameTurnTimeout
  <2>13. CASE ChangeTurnTimeout
    <3>1. CASE change_turn_player
      <4>1. NoEventDue' /\ StateCountsPlayers'
        BY <2>13, <3>1 DEF ChangeTurnTimeout, Fires, change_turn_player, start_new_turn,
                           NoEventDue, StateCountsPlayers, Present
      <4>2. CASE state' = "PROCESS_TURN" /\ StartTimeout("EndGame", WAIT_DURATION)
        BY <4>1, <4>2, StartTimeoutEffect DEF TimeoutKind, TurnTimeoutLive, MatchHasTimeout
      <4>3. ASSUME NEW cur, start_new_turn(cur) PROVE IInv'
        BY <4>1, <4>3, StartNewTurnEffect DEF TurnTimeoutLive, MatchHasTimeout, Pending
      <4> QED BY <3>1, <4>2, <4>3 DEF change_turn_player
    <3>2. CASE state # "PROCESS_TURN" /\ Ignored
      BY <2>13, <3>2, IgnoredEffect DEF ChangeTurnTimeout, TimeoutKind
    <3> QED BY <2>13, <3>1, <3>2 DEF ChangeTurnTimeout
  <2>14. CASE EndGameTimeout
    <3> USE <2>14 DEF EndGameTimeout
    <3>1. StateCountsPlayers' /\ (Present # {} => state' \in {"NO_VACANT_GAME", "WAIT_PLAYER"})
             /\ (Present = {} => state' = state)
      BY LeavingCounts DEF end_game, Present
    <3>2. state' \in {"NO_VACANT_GAME", "WAIT_PLAYER"}
      BY <3>1 DEF StateCountsPlayers
    <3> QED BY <3>1, <3>2 DEF Fires, NoEventDue, TurnTimeoutLive, MatchHasTimeout
  <2>15. CASE EndPass
    BY <2>15 DEF EndPass, sessionVars, NoEventDue, StateCountsPlayers, Present,
                 TurnTimeoutLive, MatchHasTimeout, Pending
  <2>16. CASE UNCHANGED vars
    BY <2>16 DEF vars, sessionVars, timerVars, passVars, NoEventDue, StateCountsPlayers, Present,
                 TurnTimeoutLive, MatchHasTimeout, Pending
  <2> QED
    BY <2>1, <2>2, <2>3, <2>4, <2>5, <2>6, <2>7, <2>8, <2>9, <2>10, <2>11, <2>12, <2>13,
       <2>14, <2>15, <2>16 DEF Next, ClientAction, TimeoutEvent
<1> QED BY <1>1, <1>2, TypeCorrect, PTL DEF Spec

\* Whatever happens, the state, the players and the timeouts fit together.
THEOREM StateFits ==
    Spec => [](StateCountsPlayers /\ TurnTimeoutLive /\ MatchHasTimeout)
<1>1. IInv => StateCountsPlayers /\ TurnTimeoutLive /\ MatchHasTimeout
  BY DEF IInv
<1> QED BY <1>1, Inductive, PTL

\* The pointer to the handler of the turn can be followed whenever end_turn may
\* follow it.
THEOREM TurnTimeoutIsLive == Spec => []TurnTimeoutLive
  BY StateFits, PTL

\* Every phase of a match has a timeout under way that ends it.
THEOREM PhasesHaveTimeouts == Spec => []MatchHasTimeout
  BY StateFits, PTL

-----------------------------------------------------------------------------
(***************************************************************************)
(* Who holds the handlers                                                  *)
(***************************************************************************)

\* A list of handlers holds nothing else.
LEMMA ListHoldsHandlers ==
    ASSUME NEW list \in Seq(Handle)
    PROVE  Range(list) \subseteq Handle
  BY DEF Range

\* One more handler on a list.
LEMMA ListAppended ==
    ASSUME NEW list \in Seq(Handle), NEW h \in Handle
    PROVE  /\ Range(Append(list, h)) = Range(list) \cup {h}
           /\ IsInjective(list) /\ h \notin Range(list) => IsInjective(Append(list, h))
<1> DEFINE more == Append(list, h)
<1>1. /\ DOMAIN list = 1 .. Len(list) /\ Len(list) \in Nat
      /\ DOMAIN more = 1 .. (Len(list) + 1)
      /\ \A n \in 1 .. Len(list) : more[n] = list[n]
      /\ more[Len(list) + 1] = h
  OBVIOUS
<1>2. DOMAIN more = DOMAIN list \cup {Len(list) + 1}
  BY <1>1, SMT
<1> HIDE DEF more
<1>3. Range(more) = Range(list) \cup {h}
  BY <1>1, <1>2 DEF Range
<1>4. IsInjective(list) /\ h \notin Range(list) => IsInjective(more)
  BY <1>1, <1>2 DEF Range, IsInjective
<1> QED BY <1>3, <1>4 DEF more

\* What is taken off a list of different handlers is no longer on it.
LEMMA ListTaken ==
    ASSUME NEW list \in Seq(Handle), list # <<>>, IsInjective(list)
    PROVE  /\ Head(list) \in Handle
           /\ Range(list) = Range(Tail(list)) \cup {Head(list)}
           /\ Head(list) \notin Range(Tail(list))
           /\ IsInjective(Tail(list))
<1> DEFINE rest == Tail(list)
<1>1. /\ DOMAIN list = 1 .. Len(list) /\ Len(list) \in Nat /\ Len(list) >= 1
      /\ DOMAIN rest = 1 .. (Len(list) - 1)
      /\ \A n \in 1 .. (Len(list) - 1) : rest[n] = list[n + 1]
      /\ Head(list) = list[1]
  BY SMT
<1>2. \A n \in DOMAIN list : n = 1 \/ (n - 1 \in DOMAIN rest /\ rest[n - 1] = list[n])
  BY <1>1, SMT
<1>3. \A n \in DOMAIN rest : n + 1 \in DOMAIN list /\ n + 1 # 1 /\ rest[n] = list[n + 1]
  BY <1>1, SMT
<1> HIDE DEF rest
<1>4. Range(list) = Range(rest) \cup {Head(list)}
  BY <1>1, <1>2, <1>3 DEF Range
<1>5. Head(list) \notin Range(rest)
  BY <1>1, <1>3 DEF Range, IsInjective
<1>6. IsInjective(rest)
  BY <1>1, <1>3, SMT DEF IsInjective
<1> QED BY <1>1, <1>4, <1>5, <1>6 DEF rest

\* What the session does to the heap and to the list: nothing but the deletion
\* of the handler whose event runs, or one allocation besides.
Allocates ==
    \E h \in Handle :
        /\ timers[h] = Deleted
        /\ timeout_handlers' = Append(timeout_handlers, h)
        /\ timers'[h].kind # "deleted"
        /\ \A g \in Handle \ {h} : timers'[g].kind = Heap[g].kind

HeapStep ==
    /\ \/ /\ UNCHANGED timeout_handlers
          /\ \A g \in Handle : timers'[g].kind = Heap[g].kind
       \/ Allocates
    /\ tmp' = tmp
    /\ handler' = None

\* A timeout that is started is one allocation ...
LEMMA StartTimeoutAllocates ==
    ASSUME TypeOK, NEW kind \in TimeoutKind, NEW duration, StartTimeout(kind, duration)
    PROVE  Allocates
  BY HeapType DEF StartTimeout, AddTimeoutHandler, New, Allocates, TypeOK, TimeoutKind

\* ... so is a turn ...
LEMMA StartNewTurnAllocates ==
    ASSUME TypeOK, NEW cur, start_new_turn(cur)
    PROVE  Allocates
  BY HeapType DEF start_new_turn, AddTimeoutHandler, New, Allocates, TypeOK

\* ... and the end of one, which stops another handler but does not delete it.
LEMMA EndTurnAllocates ==
    ASSUME SessionAssumption, TypeOK, end_turn
    PROVE  Allocates
<1>1. PICK h \in Handle : /\ AddTimeoutHandler(h)
                          /\ timers' = StopTurnTimeout(New(h, "ChangeTurn", WAIT_DURATION))
  BY DEF end_turn
<1> DEFINE new == New(h, "ChangeTurn", WAIT_DURATION)
<1>2. /\ new \in [Handle -> Timer]
      /\ new[h].kind = "ChangeTurn"
      /\ \A g \in Handle \ {h} : new[g] = Heap[g]
  BY HeapType DEF New, TypeOK, Timer, TimeoutKind, SessionAssumption
<1> HIDE DEF new
<1>3. timers' = StopTurnTimeout(new)
  BY <1>1 DEF new
<1>4. \A g \in Handle : timers'[g].kind = new[g].kind
  BY <1>2, <1>3 DEF StopTurnTimeout, Timer, TypeOK
<1> QED BY <1>1, <1>2, <1>4 DEF AddTimeoutHandler, Allocates

\* What the session does for a client is of that form ...
LEMMA ClientsUseHeap ==
    ASSUME SessionAssumption, TypeOK, NoEventDue, NEW client \in Client, ClientAction(client)
    PROVE  HeapStep
<1>1. handler = None /\ Heap = timers
  BY DEF ClientAction, JoinFirst, JoinSecond, Asks, Leave, SendField, Move, LateMove, SetLastShot,
         NoEventDue, Heap
<1>2. UNCHANGED passVars
  BY DEF ClientAction, JoinFirst, JoinSecond, Asks, Leave, SendField, Move, LateMove
<1>3. UNCHANGED timerVars \/ Allocates
  <2>1. JoinSecond(client) => Allocates
    BY StartTimeoutAllocates DEF JoinSecond, TimeoutKind
  <2>2. \A point : Move(client, point) => Allocates
    BY EndTurnAllocates DEF Move
  <2> QED BY <2>1, <2>2 DEF ClientAction, JoinFirst, Leave, SendField, LateMove
<1> QED BY <1>1, <1>2, <1>3 DEF HeapStep, timerVars, passVars

\* ... and so is what it does in an event.
LEMMA EventsUseHeap ==
    ASSUME SessionAssumption, TypeOK, TimeoutEvent
    PROVE  HeapStep
<1> DEFINE Deletes == timers' = Heap /\ UNCHANGED timeout_handlers
<1>1. handler' = None /\ tmp' = tmp
  BY DEF TimeoutEvent, PreparationTimeout, CheckStartFieldsTimeout, GameStartTimeout,
         GameTurnTimeout, ChangeTurnTimeout, EndGameTimeout, Fires
<1>2. Ignored => Deletes
  BY DEF Ignored
<1>3. stop_preparation => Allocates
  BY StartTimeoutAllocates DEF stop_preparation, TimeoutKind
<1>4. check_start_fields => Deletes \/ Allocates
  BY StartTimeoutAllocates DEF check_start_fields, TimeoutKind
<1>5. start_game => Allocates
  BY StartNewTurnAllocates DEF start_game
<1>6. end_turn => Allocates
  BY EndTurnAllocates
<1>7. change_turn_player => Allocates
  BY StartTimeoutAllocates, StartNewTurnAllocates DEF change_turn_player, TimeoutKind
<1>8. end_game => Deletes
  BY DEF end_game
<1>9. Deletes \/ Allocates
  BY <1>2, <1>3, <1>4, <1>5, <1>6, <1>7, <1>8
     DEF TimeoutEvent, PreparationTimeout, CheckStartFieldsTimeout, GameStartTimeout,
         GameTurnTimeout, ChangeTurnTimeout, EndGameTimeout
<1> QED BY <1>1, <1>9 DEF HeapStep

\* Such a step leaves every handler in one hand.
LEMMA HeapStepKeepsOwned ==
    ASSUME SessionAssumption, TypeOK, HandlersOwned, HeapStep
    PROVE  HandlersOwned'
<1> USE DEF HandlersOwned
<1> DEFINE held == Range(timeout_handlers) \cup Range(tmp)
<1>1. /\ \A g \in Handle : Heap[g].kind # "deleted" <=> g \in held
      /\ timeout_handlers \in Seq(Handle)
  <2>1. \A g \in Handle : Heap[g] = IF g = handler THEN Deleted ELSE timers[g]
    BY DEF Heap, TypeOK, SessionAssumption
  <2>2. \A g \in Handle : timers[g].kind # "deleted" <=> g \in held \cup {handler}
    BY Zenon
  <2>3. handler \notin held
    BY Zenon
  <2> HIDE DEF held
  <2> QED BY <2>1, <2>2, <2>3 DEF Deleted, TypeOK
<1>2. CASE UNCHANGED timeout_handlers /\ \A g \in Handle : timers'[g].kind = Heap[g].kind
  <2>1. held' = held /\ handler' = None /\ tmp' = tmp /\ timeout_handlers' = timeout_handlers
    BY <1>2 DEF HeapStep
  <2>2. None \notin held
    <3>1. timeout_handlers \in Seq(Handle) /\ tmp \in Seq(Handle)
      BY DEF TypeOK
    <3> QED BY <3>1, ListHoldsHandlers DEF SessionAssumption
  <2> QED BY <1>1, <1>2, <2>1, <2>2 DEF SessionAssumption
<1>3. CASE Allocates
  <2>1. PICK h \in Handle :
            /\ timers[h] = Deleted
            /\ timeout_handlers' = Append(timeout_handlers, h)
            /\ timers'[h].kind # "deleted"
            /\ \A g \in Handle \ {h} : timers'[g].kind = Heap[g].kind
    BY <1>3 DEF Allocates
  <2>2. h \notin held
    BY <2>1 DEF Deleted
  <2>3. /\ Range(timeout_handlers') = Range(timeout_handlers) \cup {h}
        /\ IsInjective(timeout_handlers')
    BY <1>1, <2>1, <2>2, ListAppended
  <2>4. handler' = None /\ tmp' = tmp
    BY DEF HeapStep
  <2>5. None \notin held /\ None # h
    <3>1. timeout_handlers \in Seq(Handle) /\ tmp \in Seq(Handle)
      BY DEF TypeOK
    <3> QED BY <3>1, ListHoldsHandlers DEF SessionAssumption
  <2>6. \A g \in Handle : timers'[g].kind # "deleted" <=> g \in held \cup {h}
    BY <1>1, <2>1, <2>2
  <2> QED BY <2>2, <2>3, <2>4, <2>5, <2>6 DEF SessionAssumption
<1> QED BY <1>2, <1>3 DEF HeapStep

\* The pass moves handlers from the list to those it keeps, fires or deletes.
LEMMA PassKeepsOwned ==
    ASSUME SessionAssumption, TypeOK, HandlersOwned, TakeHandler \/ EndPass
    PROVE  HandlersOwned'
<1> USE DEF HandlersOwned
<1>1. CASE TakeHandler
  <2> DEFINE h == Head(timeout_handlers)
  <2>1. /\ timeout_handlers \in Seq(Handle) /\ timeout_handlers # <<>> /\ tmp \in Seq(Handle)
        /\ timeout_handlers' = Tail(timeout_handlers) /\ handler = None
    BY <1>1 DEF TakeHandler, TypeOK
  <2>2. /\ h \in Handle
        /\ Range(timeout_handlers) = Range(timeout_handlers') \cup {h}
        /\ h \notin Range(timeout_handlers')
        /\ IsInjective(timeout_handlers')
    BY <2>1, ListTaken
  <2>3. timers[h].kind # "deleted" /\ h \notin Range(tmp) /\ h # None
    BY <2>2 DEF SessionAssumption
  <2>4. timers[h] \in Timer /\ timers \in [Handle -> Timer]
    BY <2>2 DEF TypeOK
  <2>5. CASE timers' = [timers EXCEPT ![h] = Deleted] /\ UNCHANGED <<tmp, handler>>
    <3>1. \A g \in Handle : timers'[g] = IF g = h THEN Deleted ELSE timers[g]
      BY <2>4, <2>5
    <3> HIDE DEF h
    <3> QED BY <2>1, <2>2, <2>3, <2>5, <3>1 DEF Deleted
  <2>6. CASE timers' = [timers EXCEPT ![h].left = @ - passed] /\ tmp' = Append(tmp, h)
                /\ UNCHANGED handler
    <3>1. \A g \in Handle : timers'[g].kind = timers[g].kind
      BY <2>4, <2>6 DEF Timer
    <3>2. Range(tmp') = Range(tmp) \cup {h} /\ IsInjective(tmp')
      BY <2>1, <2>2, <2>3, <2>6, ListAppended
    <3> HIDE DEF h
    <3> QED BY <2>1, <2>2, <2>3, <2>6, <3>1, <3>2
  <2>7. CASE timers' = [timers EXCEPT ![h].left = 0] /\ handler' = h /\ UNCHANGED tmp
    <3>1. \A g \in Handle : timers'[g].kind = timers[g].kind
      BY <2>4, <2>7 DEF Timer
    <3> HIDE DEF h
    <3> QED BY <2>1, <2>2, <2>3, <2>7, <3>1
  <2> QED BY <1>1, <2>5, <2>6, <2>7 DEF TakeHandler
<1>2. CASE EndPass
  <2>1. timeout_handlers' = tmp /\ tmp' = <<>> /\ timeout_handlers = <<>>
           /\ UNCHANGED <<timers, handler>>
    BY <1>2 DEF EndPass
  <2>2. Range(timeout_handlers) = {} /\ Range(tmp') = {} /\ IsInjective(tmp')
    BY <2>1 DEF Range, IsInjective
  <2> QED BY <2>1, <2>2
<1> QED BY <1>1, <1>2

\* Every handler on the heap is in exactly one place, whatever the clients do: no
\* handler leaks, fires twice or is deleted twice.
THEOREM HandlersAreOwned == Spec => []HandlersOwned
<1> USE SessionAssumption
<1>1. Init => HandlersOwned
  <2> SUFFICES ASSUME Init PROVE HandlersOwned
    OBVIOUS
  <2>1. Range(timeout_handlers) = {} /\ Range(tmp) = {}
           /\ IsInjective(timeout_handlers) /\ IsInjective(tmp)
    BY DEF Init, Range, IsInjective
  <2> QED BY <2>1 DEF Init, HandlersOwned, Deleted, SessionAssumption
<1>2. IInv /\ HandlersOwned /\ [Next]_vars => HandlersOwned'
  <2> SUFFICES ASSUME IInv, HandlersOwned, [Next]_vars PROVE HandlersOwned'
    OBVIOUS
  <2> USE DEF IInv
  <2>1. CASE \E client \in Client : ClientAction(client)
    BY <2>1, ClientsUseHeap, HeapStepKeepsOwned
  <2>2. CASE TimeoutEvent
    BY <2>2, EventsUseHeap, HeapStepKeepsOwned
  <2>3. CASE TakeHandler \/ EndPass
    BY <2>3, PassKeepsOwned
  <2>4. CASE (\E ticks \in 0 .. MaxPassed : Select(ticks)) \/ UNCHANGED vars
    BY <2>4 DEF Select, vars, timerVars, passVars, HandlersOwned
  <2> QED BY <2>1, <2>2, <2>3, <2>4 DEF Next
<1> QED BY <1>1, <1>2, Inductive, PTL DEF Spec

-----------------------------------------------------------------------------
(***************************************************************************)
(* The course of a match                                                   *)
(***************************************************************************)

\* A result is announced.
ResultAnnounced ==
    /\ state' = state
    /\ told' = TellTurn(cur_turn_player_idx, "WIN_GAME", "LOSE_GAME")
    /\ cur_turn_player_idx' = cur_turn_player_idx
    /\ all_ships_destroyed(fields'[enemy_idx(cur_turn_player_idx)])

\* The steps that lead into a turn or its processing, or stay there: nothing
\* changes what the players know about it but the three member functions that
\* announce something.
LEMMA MatchSteps ==
    ASSUME SessionAssumption, IInv, IInv', [Next]_vars, state' \in {"GAME_TURN", "PROCESS_TURN"}
    PROVE  \/ UNCHANGED <<state, told, cur_turn_player_idx, fields>>
           \/ state = "WAIT_START" /\ start_game
           \/ end_turn
           \/ state = "PROCESS_TURN" /\ change_turn_player
  <1> USE DEF IInv
  <1>1. ASSUME NEW client \in Client, ClientAction(client)
        PROVE  \/ UNCHANGED <<state, told, cur_turn_player_idx, fields>>
               \/ end_turn
    <2>1. ~JoinFirst(client) /\ ~JoinSecond(client)
      BY DEF JoinFirst, JoinSecond
    <2>2. ~Leave(client)
      <3>1. Leave(client) => Slot(client) \in Present
        BY DEF Leave, HasPlayer, Slot, Present, SessionAssumption
      <3> QED BY <3>1, LeavingCounts DEF Leave
    <2>3. ~\E f \in SentField : SendField(client, f)
      BY DEF SendField
    <2> QED BY <1>1, <2>1, <2>2, <2>3 DEF ClientAction, Move, LateMove
  <1>2. ASSUME TimeoutEvent
        PROVE  \/ UNCHANGED <<state, told, cur_turn_player_idx, fields>>
               \/ state = "WAIT_START" /\ start_game
               \/ end_turn
               \/ state = "PROCESS_TURN" /\ change_turn_player
    <2>1. Ignored => UNCHANGED <<state, told, cur_turn_player_idx, fields>>
      BY DEF Ignored, sessionVars
    <2>2. ~stop_preparation
      BY DEF stop_preparation
    <2>3. check_start_fields => UNCHANGED <<state, told, cur_turn_player_idx, fields>>
      <3>1. SUFFICES ASSUME check_start_fields,
                            ~UNCHANGED <<state, told, cur_turn_player_idx, fields>>
                     PROVE  FALSE
        OBVIOUS
      <3>2. state' = StateWithout(Unprepared) /\ players' = Remaining(Unprepared)
               /\ Present \ Unprepared = {}
        BY <3>1, CheckStartFieldsCases
      <3>3. Unprepared \in SUBSET Present
        BY <3>1, CheckStartFieldsCases
      <3> QED BY <3>2, <3>3, LeavingCounts DEF StateCountsPlayers
    <2>4. ~end_game
      <3>1. SUFFICES ASSUME end_game PROVE FALSE
        OBVIOUS
      <3>2. state' = StateWithout(Present) /\ players' = Remaining(Present)
        BY <3>1 DEF end_game, Present
      <3> QED BY <3>2, LeavingCounts DEF StateCountsPlayers
    <2> QED BY <1>2, <2>1, <2>2, <2>3, <2>4
            DEF TimeoutEvent, PreparationTimeout, CheckStartFieldsTimeout, GameStartTimeout,
                GameTurnTimeout, ChangeTurnTimeout, EndGameTimeout, start_game, start_new_turn,
                change_turn_player
  <1>3. (\E ticks \in 0 .. MaxPassed : Select(ticks)) \/ TakeHandler \/ EndPass \/ UNCHANGED vars
           => UNCHANGED <<state, told, cur_turn_player_idx, fields>>
    BY DEF Select, TakeHandler, EndPass, vars, sessionVars
  <1> QED BY <1>1, <1>2, <1>3 DEF Next

\* What change_turn_player does to the board shot at, and what follows.
LEMMA ChangeTurnSteps ==
    ASSUME SessionAssumption, IInv, state = "PROCESS_TURN", change_turn_player
    PROVE  LET cur == cur_turn_player_idx  enemy == enemy_idx(cur)
           IN  \E shot :
                  /\ shot_result(fields[enemy], shot) # "EMPTY"
                  /\ fields' = [fields EXCEPT ![enemy] = register_shot(@, shot)]
                  /\ \/ ResultAnnounced
                     \/ /\ ~all_ships_destroyed(fields'[enemy])
                        /\ start_new_turn(IF shot_result(fields[enemy], shot) = "DAMAGED"
                                             THEN cur ELSE enemy)
  BY DEF change_turn_player, ResultAnnounced, EffectiveShot, IInv, TypeOK

\* The two stories the players can be told, and the winner's right to his.
AgreeInv == PlayersAgree /\ WinnerDestroyedAll

\* Whenever a turn is on or being processed, both players have been told
\* matching things about it, and no one has been told that he has won whose
\* opponent has a ship left.
THEOREM PlayersAreToldTheSame == Spec => [](PlayersAgree /\ WinnerDestroyedAll)
<1> USE SessionAssumption
<1>1. Init => AgreeInv
  BY DEF Init, AgreeInv, PlayersAgree, WinnerDestroyedAll
<1>2. IInv /\ IInv' /\ AgreeInv /\ [Next]_vars => AgreeInv'
  <2> SUFFICES ASSUME IInv, IInv', AgreeInv, [Next]_vars,
                      state' \in {"GAME_TURN", "PROCESS_TURN"}
               PROVE  AgreeInv'
    BY DEF AgreeInv, PlayersAgree, WinnerDestroyedAll
  <2>1. cur_turn_player_idx \in {0, 1} /\ enemy_idx(cur_turn_player_idx) # cur_turn_player_idx
    BY DEF IInv, TypeOK, PlayerNumber, enemy_idx
  <2>2. CASE UNCHANGED <<state, told, cur_turn_player_idx, fields>>
    BY <2>2 DEF AgreeInv, PlayersAgree, WinnerDestroyedAll
  <2>3. ASSUME NEW cur \in {0, 1}, start_new_turn(cur) PROVE AgreeInv'
    BY <2>3 DEF start_new_turn, TellTurn, AgreeInv, PlayersAgree, WinnerDestroyedAll, enemy_idx,
                PlayerNumber
  <2>4. CASE end_turn
    BY <2>1, <2>4 DEF end_turn, TellTurn, AgreeInv, PlayersAgree, WinnerDestroyedAll, enemy_idx,
                      PlayerNumber
  <2>5. CASE state = "PROCESS_TURN" /\ change_turn_player
    <3>1. CASE ResultAnnounced
      BY <2>1, <2>5, <3>1 DEF ResultAnnounced, TellTurn, AgreeInv, PlayersAgree,
                              WinnerDestroyedAll, enemy_idx, PlayerNumber
    <3> QED BY <2>1, <2>3, <2>5, <3>1, ChangeTurnSteps DEF enemy_idx
  <2> QED BY <2>2, <2>3, <2>4, <2>5, MatchSteps DEF start_game, PlayerNumber
<1>3. AgreeInv => PlayersAgree /\ WinnerDestroyedAll
  BY DEF AgreeInv
<1> QED BY <1>1, <1>2, <1>3, Inductive, PTL DEF Spec

\* Who is told that he has won has destroyed all ships of the other.
THEOREM WinnerIsRight == Spec => []WinnerDestroyedAll
  BY PlayersAreToldTheSame, PTL

\* The preparation is left behind: from a turn no step leads back to it.
LEMMA NoWayBack ==
    ASSUME SessionAssumption, IInv, [Next]_vars, state = "PROCESS_TURN"
    PROVE  state' \notin {"PREPARATION", "WAIT_START"}
  <1> USE DEF IInv
  <1>1. \A client \in Client : ~JoinFirst(client) /\ ~JoinSecond(client)
    BY JoiningCounts DEF JoinFirst, JoinSecond
  <1>2. \A gone : StateWithout(gone) \notin {"PREPARATION", "WAIT_START"}
    BY DEF StateWithout, AfterLeaving
  <1>3. ASSUME NEW client \in Client, ClientAction(client)
        PROVE  state' \notin {"PREPARATION", "WAIT_START"}
    BY <1>1, <1>2, <1>3 DEF ClientAction, Leave, SendField, Move, LateMove, end_turn
  <1>4. TimeoutEvent => state' \notin {"PREPARATION", "WAIT_START"}
    BY <1>2 DEF TimeoutEvent, PreparationTimeout, CheckStartFieldsTimeout, GameStartTimeout,
                GameTurnTimeout, ChangeTurnTimeout, EndGameTimeout, stop_preparation,
                check_start_fields, start_game, end_turn, change_turn_player, start_new_turn,
                end_game, Ignored, sessionVars
  <1> QED BY <1>3, <1>4 DEF Next, Select, TakeHandler, EndPass, vars, sessionVars

\* An announced result is final: even a change of turn that an earlier match
\* left behind finds all ships of the loser destroyed and starts no turn.
THEOREM ResultStands == Spec => ResultIsFinal
<1> USE SessionAssumption
<1> DEFINE Final == state = "PROCESS_TURN" /\ "WIN_GAME" \in {told[0], told[1]}
                      => state' \in {"PROCESS_TURN", "WAIT_PLAYER", "NO_VACANT_GAME"}
<1>1. IInv /\ IInv' /\ PlayersAgree /\ WinnerDestroyedAll /\ [Next]_vars => [Final]_vars
  <2> SUFFICES ASSUME IInv, IInv', PlayersAgree, WinnerDestroyedAll, [Next]_vars,
                      state = "PROCESS_TURN", "WIN_GAME" \in {told[0], told[1]},
                      state' = "GAME_TURN"
               PROVE  FALSE
    BY NoWayBack DEF IInv, TypeOK, GameState
  <2> DEFINE cur == cur_turn_player_idx  enemy == enemy_idx(cur)
  <2>1. cur \in PlayerNumber /\ enemy \in PlayerNumber /\ fields[enemy] \in Field
    BY DEF IInv, TypeOK, PlayerNumber, enemy_idx
  <2>2. told[cur] = "WIN_GAME" /\ all_ships_destroyed(fields[enemy])
    BY <2>1 DEF PlayersAgree, WinnerDestroyedAll, PlayerNumber, enemy_idx
  <2>3. change_turn_player
    BY MatchSteps DEF end_turn
  <2>4. PICK shot : /\ fields' = [fields EXCEPT ![enemy] = register_shot(@, shot)]
                    /\ ResultAnnounced \/ ~all_ships_destroyed(fields'[enemy])
    BY <2>3, ChangeTurnSteps
  <2>5. all_ships_destroyed(fields'[enemy])
    BY <2>1, <2>2, <2>4, DestroyedForGood DEF IInv, TypeOK
  <2> QED BY <2>4, <2>5 DEF ResultAnnounced
<1> QED BY <1>1, Inductive, PlayersAreToldTheSame, PTL DEF Spec, ResultIsFinal

\* A turn records exactly one shot, on the board of the player who was not in
\* turn; he is next unless it was a hit.
THEOREM OneShotATurn == Spec => TurnRecordsOneShot
<1> USE SessionAssumption
<1> DEFINE enemy == enemy_idx(cur_turn_player_idx)
           hit   == {c \in Cell : fields[enemy][c] = "UNHARMED" /\ fields'[enemy][c] = "DAMAGED"}
           OneShot == /\ fields'[cur_turn_player_idx] = fields[cur_turn_player_idx]
                      /\ fields'[enemy] # fields[enemy]
                      /\ Cardinality(hit) <= 1
                      /\ hit # {} <=> cur_turn_player_idx' = cur_turn_player_idx
                      /\ last_shot' = NoShot
<1>1. IInv /\ IInv' /\ [Next]_vars
         => [state = "PROCESS_TURN" /\ state' = "GAME_TURN" => OneShot]_vars
  <2> SUFFICES ASSUME IInv, IInv', [Next]_vars, state = "PROCESS_TURN", state' = "GAME_TURN"
               PROVE  OneShot
    OBVIOUS
  <2>1. change_turn_player
    BY MatchSteps DEF end_turn
  <2> DEFINE f == fields[enemy]
  <2>2. /\ cur_turn_player_idx \in PlayerNumber /\ enemy \in PlayerNumber
        /\ cur_turn_player_idx # enemy /\ f \in Field
    BY DEF IInv, TypeOK, PlayerNumber, enemy_idx
  <2>3. PICK shot : /\ shot_result(f, shot) # "EMPTY"
                    /\ fields' = [fields EXCEPT ![enemy] = register_shot(@, shot)]
                    /\ cur_turn_player_idx' = IF shot_result(f, shot) = "DAMAGED"
                                                THEN cur_turn_player_idx ELSE enemy
    BY <2>1, ChangeTurnSteps DEF ResultAnnounced, start_new_turn
  <2>4. /\ fields'[cur_turn_player_idx] = fields[cur_turn_player_idx]
        /\ fields'[enemy] = register_shot(f, shot)
    BY <2>2, <2>3 DEF IInv, TypeOK
  <2> DEFINE g == fields'[enemy]
  <2> HIDE DEF enemy
  <2>5. /\ shot \in Cell
        /\ g[shot] = shot_result(f, shot)
        /\ \A c \in Cell \ {shot} : g[c] = f[c] \/ (f[c] = "EMPTY" /\ g[c] = "MISSED")
    BY <2>2, <2>3, <2>4, EffectOfShot, ResultOfShot
  <2>6. /\ shot_result(f, shot) \in {"DAMAGED", "MISSED"}
        /\ shot_result(f, shot) = "DAMAGED" <=> f[shot] = "UNHARMED"
        /\ shot_result(f, shot) = "MISSED" <=> f[shot] = "EMPTY"
    BY <2>2, <2>3, <2>5, ResultOfShot
  <2>7. g # f
    BY <2>5, <2>6
  <2>8. hit = IF shot_result(f, shot) = "DAMAGED" THEN {shot} ELSE {}
    BY <2>5, <2>6
  <2>9. Cardinality(hit) <= 1
    <3> HIDE DEF hit
    <3>1. hit = {} \/ hit = {shot}
      BY <2>8
    <3>2. Cardinality({}) = 0 /\ Cardinality({shot}) = 1
      BY FS_EmptySet, FS_Singleton
    <3> QED BY <3>1, <3>2
  <2>10. last_shot' = NoShot
    BY <2>1 DEF change_turn_player
  <2> QED BY <2>2, <2>3, <2>4, <2>7, <2>8, <2>9, <2>10
<1> QED BY <1>1, Inductive, PTL DEF Spec, TurnRecordsOneShot

-----------------------------------------------------------------------------
(***************************************************************************)
(* GameSession implements Match: its initial states are initial, and each  *)
(* of its steps is a step of a match or changes nothing that Match sees.   *)
(***************************************************************************)

\* The stage that each state stands for.
StageFits ==
    /\ state \in {"NO_VACANT_GAME", "WAIT_PLAYER"} => Stage = "open"
    /\ state = "PREPARATION" => Stage = "preparing"
    /\ state = "WAIT_START" => Stage = "ready"
    /\ state = "GAME_TURN" => Stage = "turn"
    /\ state = "PROCESS_TURN" /\ "WIN_GAME" \notin {told[0], told[1]} => Stage = "between"
    /\ state = "PROCESS_TURN" /\ "WIN_GAME" \in {told[0], told[1]} => Stage = "over"

LEMMA StageCases == StageFits /\ StageFits'
  BY DEF StageFits, Stage

\* The names that a match gives to what the session has.
LEMMA MatchNames ==
    /\ M!PlayerNumber = PlayerNumber
    /\ M!Seated = Present
    /\ \A i : M!enemy_of(i) = enemy_idx(i)
  BY DEF M!PlayerNumber, PlayerNumber, M!Seated, Present, M!enemy_of, enemy_idx

\* When the state, the players, the boards and the turn stay, a match stands still.
LEMMA StandsStill ==
    ASSUME UNCHANGED <<state, players, fields, cur_turn_player_idx, told>>
    PROVE  UNCHANGED M!matchVars
  BY DEF M!matchVars, Stage

\* A client that is taken in takes a seat.
LEMMA JoiningTakesSeat ==
    ASSUME SessionAssumption, IInv, NEW client \in Client,
           JoinFirst(client) \/ JoinSecond(client)
    PROVE  M!TakeSeat(client)
  <1>1. Asks(client)
    BY DEF JoinFirst, JoinSecond
  <1>2. FirstFree \in PlayerNumber \ Present /\ players' = [players EXCEPT ![FirstFree] = client]
    BY <1>1 DEF Asks, FirstFree, Present, PlayerNumber
  <1>3. \A i \in PlayerNumber : players[i] # client
    BY <1>1 DEF Asks, HasPlayer
  <1>4. Stage' = IF Present = {} THEN "open" ELSE "preparing"
    <2>1. state = "NO_VACANT_GAME" <=> Present = {}
      BY DEF IInv, StateCountsPlayers
    <2>2. state' = IF Present = {} THEN "WAIT_PLAYER" ELSE "PREPARATION"
      BY <2>1 DEF JoinFirst, JoinSecond
    <2> QED BY <2>2, StageCases DEF StageFits
  <1>5. UNCHANGED <<fields, cur_turn_player_idx>>
    BY <1>1 DEF Asks
  <1> QED BY <1>2, <1>3, <1>4, <1>5, MatchNames DEF M!TakeSeat

\* Players who are taken out break the match up.
LEMMA LeavingBreaksUp ==
    ASSUME NEW gone \in SUBSET Present, gone # {}, TypeOK, players' = Remaining(gone),
           state' \in {"NO_VACANT_GAME", "WAIT_PLAYER"}, UNCHANGED <<fields, cur_turn_player_idx>>
    PROVE  M!BreakUp
  <1>1. Stage' = "open"
    BY StageCases DEF StageFits
  <1> QED BY <1>1, MatchNames DEF M!BreakUp, Remaining

\* The check of the fields breaks the match up or shows nothing.
LEMMA CheckBreaksUp ==
    ASSUME SessionAssumption, IInv, check_start_fields
    PROVE  M!BreakUp \/ UNCHANGED M!matchVars
  <1> DEFINE stay == Present \ Unprepared
  <1>1. Unprepared \in SUBSET Present /\ players' = Remaining(Unprepared)
           /\ UNCHANGED <<fields, cur_turn_player_idx>>
    BY CheckStartFieldsCases
  <1>2. CASE stay = PlayerNumber
    <2>1. Unprepared = {} /\ UNCHANGED <<state, told>>
      BY <1>2, CheckStartFieldsCases DEF Present, PlayerNumber
    <2>2. players' = players
      BY <1>1, <2>1 DEF Remaining, IInv, TypeOK
    <2> QED BY <1>1, <2>1, <2>2, StandsStill
  <1>3. CASE stay # PlayerNumber
    <2>1. state' \in {"NO_VACANT_GAME", "WAIT_PLAYER"}
      <3>1. CASE stay = {}
        <4>1. state' = StateWithout(Unprepared)
          BY <3>1, CheckStartFieldsCases
        <4>2. Unprepared = Present
          BY <1>1, <3>1
        <4> QED BY <1>1, <4>1, <4>2, LeavingCounts DEF IInv, StateCountsPlayers
      <3> QED BY <1>3, <3>1, CheckStartFieldsCases
    <2>2. CASE Unprepared = {}
      <3>1. players' = players
        BY <1>1, <2>2 DEF Remaining, IInv, TypeOK
      <3>2. Present # PlayerNumber
        BY <1>3, <2>2
      <3>3. state \in {"NO_VACANT_GAME", "WAIT_PLAYER"}
        <4>1. Present = {} \/ \E i \in PlayerNumber : Present = {i}
          BY <3>2 DEF Present, PlayerNumber
        <4> QED BY <4>1 DEF IInv, StateCountsPlayers
      <3>4. Stage' = Stage
        BY <2>1, <3>3, StageCases DEF StageFits
      <3> QED BY <1>1, <3>1, <3>4 DEF M!matchVars
    <2>3. CASE Unprepared # {}
      BY <1>1, <2>1, <2>3, LeavingBreaksUp DEF IInv
    <2> QED BY <2>2, <2>3
  <1> QED BY <1>2, <1>3

\* So does the end of the game, which finds someone there or nobody.
LEMMA EndGameBreaksUp ==
    ASSUME SessionAssumption, IInv, end_game
    PROVE  M!BreakUp \/ UNCHANGED M!matchVars
  <1>1. players' = Remaining(Present) /\ state' = StateWithout(Present)
           /\ UNCHANGED <<fields, cur_turn_player_idx>>
    BY DEF end_game, Present
  <1>2. CASE Present = {}
    <2>1. players' = players /\ state = "NO_VACANT_GAME" /\ state' = state
      BY <1>1, <1>2, StateWithoutCases DEF Remaining, IInv, TypeOK, StateCountsPlayers
    <2>2. Stage' = Stage
      BY <2>1, StageCases DEF StageFits
    <2> QED BY <1>1, <2>1, <2>2 DEF M!matchVars
  <1>3. CASE Present # {}
    BY <1>1, <1>3, LeavingCounts, LeavingBreaksUp DEF IInv
  <1> QED BY <1>2, <1>3

\* The end of a turn is one for both.
LEMMA TurnEnds ==
    ASSUME IInv, end_turn
    PROVE  M!EndTurn
  <1>1. "WIN_GAME" \notin {told'[0], told'[1]}
    BY DEF end_turn, TellTurn, PlayerNumber
  <1> QED BY <1>1, StageCases DEF end_turn, StageFits, M!EndTurn

\* A recorded shot is one for both; after the match it can only mark water.
LEMMA ShotIsRecorded ==
    ASSUME SessionAssumption, IInv, AgreeInv, change_turn_player
    PROVE  M!RecordShot \/ M!MarkAfterwards
  <1> DEFINE cur == cur_turn_player_idx  enemy == enemy_idx(cur)
  <1> USE DEF IInv
  <1>1. /\ cur \in PlayerNumber /\ enemy \in PlayerNumber /\ cur # enemy
        /\ fields[enemy] \in Field /\ fields \in [PlayerNumber -> Field]
    BY DEF TypeOK, PlayerNumber, enemy_idx
  <1>2. state = "PROCESS_TURN" /\ players' = players
    BY DEF change_turn_player
  <1>3. PICK shot :
            /\ shot_result(fields[enemy], shot) # "EMPTY"
            /\ fields' = [fields EXCEPT ![enemy] = register_shot(@, shot)]
            /\ \/ ResultAnnounced
               \/ /\ ~all_ships_destroyed(fields'[enemy])
                  /\ start_new_turn(IF shot_result(fields[enemy], shot) = "DAMAGED"
                                       THEN cur ELSE enemy)
    BY <1>2, ChangeTurnSteps
  <1>4. shot \in Cell /\ fields'[enemy] = register_shot(fields[enemy], shot)
    BY <1>1, <1>3, ResultOfShot
  <1>5. ASSUME ResultAnnounced PROVE Stage' = "over"
    <2>1. state' = "PROCESS_TURN" /\ "WIN_GAME" \in {told'[0], told'[1]}
      BY <1>1, <1>2, <1>5 DEF ResultAnnounced, TellTurn, PlayerNumber
    <2> QED BY <2>1, StageCases DEF StageFits
  <1>6. CASE "WIN_GAME" \in {told[0], told[1]}
    <2>1. told[cur] = "WIN_GAME" /\ Stage = "over"
      BY <1>1, <1>2, <1>6, StageCases
         DEF StageFits, AgreeInv, PlayersAgree, PlayerNumber, enemy_idx
    <2>2. all_ships_destroyed(fields[enemy])
      BY <1>1, <1>2, <2>1 DEF AgreeInv, WinnerDestroyedAll
    <2>3. shot_result(fields[enemy], shot) = "MISSED"
      BY <1>1, <1>3, <2>2, ResultOfShot DEF all_ships_destroyed
    <2>4. ResultAnnounced
      BY <1>1, <1>3, <1>4, <2>2, DestroyedForGood
    <2> QED BY <1>2, <1>3, <1>4, <1>5, <2>1, <2>3, <2>4, MatchNames
            DEF M!MarkAfterwards, ResultAnnounced
  <1>7. CASE "WIN_GAME" \notin {told[0], told[1]}
    <2>1. Stage = "between"
      BY <1>2, <1>7, StageCases DEF StageFits
    <2>2. CASE ResultAnnounced
      BY <1>2, <1>3, <1>4, <1>5, <2>1, <2>2, MatchNames DEF M!RecordShot, ResultAnnounced
    <2>3. CASE /\ ~all_ships_destroyed(fields'[enemy])
               /\ start_new_turn(IF shot_result(fields[enemy], shot) = "DAMAGED"
                                    THEN cur ELSE enemy)
      <3>1. Stage' = "turn" /\ cur_turn_player_idx' = IF shot_result(fields[enemy], shot) = "DAMAGED"
                                                        THEN cur ELSE enemy
        BY <2>3, StageCases DEF StageFits, start_new_turn
      <3> QED BY <1>2, <1>3, <1>4, <2>1, <2>3, <3>1, MatchNames DEF M!RecordShot
    <2> QED BY <1>3, <2>2, <2>3
  <1> QED BY <1>6, <1>7

-----------------------------------------------------------------------------

\* GameSession implements Match: whatever timeouts of earlier matches fire into a
\* match and whatever messages come late, each step that the players can see is
\* one of Match, in its place.
THEOREM Implements == Spec => MatchSpec
<1> USE SessionAssumption
<1>1. Init => M!Init
  <2>1. Init => Stage = "open"
    BY StageCases DEF Init, StageFits
  <2> QED BY <2>1, MatchNames DEF Init, M!Init
<1>2. IInv /\ AgreeInv /\ [Next]_vars => [M!Next]_M!matchVars
  <2> SUFFICES ASSUME IInv, AgreeInv, [Next]_vars
               PROVE  M!Next \/ UNCHANGED M!matchVars
    OBVIOUS
  <2>1. ASSUME NEW client \in Client, JoinFirst(client) \/ JoinSecond(client) PROVE M!Next
    BY <2>1, JoiningTakesSeat DEF M!Next
  <2>2. ASSUME NEW client \in Client, Leave(client) PROVE M!Next
    <3>1. Slot(client) \in Present
      BY <2>2 DEF Leave, HasPlayer, Slot, Present, SessionAssumption
    <3>2. state' \in {"NO_VACANT_GAME", "WAIT_PLAYER"}
      BY <2>2, <3>1, LeavingCounts DEF Leave, IInv
    <3>3. M!BreakUp
      BY <2>2, <3>1, <3>2, LeavingBreaksUp DEF Leave, IInv
    <3> QED BY <3>3 DEF M!Next
  <2>3. ASSUME NEW client \in Client, NEW f \in SentField, SendField(client, f) PROVE M!Next
    <3>1. Slot(client) \in Present
      BY <2>3 DEF SendField, HasPlayer, Slot, Present, SessionAssumption
    <3>2. Stage' = Stage
      BY <2>3 DEF SendField, Stage
    <3>3. Stage \in {"preparing", "ready"}
      BY <2>3, StageCases DEF SendField, StageFits
    <3>4. M!Prepare
      BY <2>3, <3>1, <3>2, <3>3, MatchNames DEF SendField, M!Prepare
    <3> QED BY <3>4 DEF M!Next
  <2>4. ASSUME end_turn PROVE M!Next
    BY <2>4, TurnEnds DEF M!Next
  <2>5. ASSUME NEW client \in Client, NEW point \in Shot, LateMove(client, point)
        PROVE  UNCHANGED M!matchVars
    BY <2>5, StandsStill DEF LateMove
  <2>6. ASSUME (\E ticks \in 0 .. MaxPassed : Select(ticks)) \/ TakeHandler \/ EndPass
                  \/ Ignored \/ UNCHANGED vars
        PROVE  UNCHANGED M!matchVars
    BY <2>6, StandsStill DEF Select, TakeHandler, EndPass, Ignored, vars, sessionVars
  <2>7. ASSUME stop_preparation PROVE M!Next
    <3>1. Stage = "preparing" /\ Stage' = "ready"
      BY <2>7, StageCases DEF stop_preparation, StageFits
    <3> QED BY <2>7, <3>1 DEF stop_preparation, M!ClosePreparation, M!Next
  <2>8. ASSUME start_game PROVE M!Next
    <3>1. PICK first \in PlayerNumber : start_new_turn(first)
      BY <2>8 DEF start_game
    <3>2. Stage = "ready" /\ Stage' = "turn"
      BY <2>8, <3>1, StageCases DEF start_game, start_new_turn, StageFits
    <3> QED BY <2>8, <3>1, <3>2, MatchNames DEF start_game, start_new_turn, M!Begin, M!Next
  <2>9. ASSUME change_turn_player PROVE M!Next
    BY <2>9, ShotIsRecorded DEF M!Next
  <2>10. ASSUME check_start_fields \/ end_game PROVE M!Next \/ UNCHANGED M!matchVars
    BY <2>10, CheckBreaksUp, EndGameBreaksUp DEF M!Next
  <2>11. ASSUME NEW client \in Client, ClientAction(client)
         PROVE  M!Next \/ UNCHANGED M!matchVars
    BY <2>1, <2>2, <2>3, <2>4, <2>5, <2>11 DEF ClientAction, Move
  <2>12. ASSUME TimeoutEvent PROVE M!Next \/ UNCHANGED M!matchVars
    BY <2>4, <2>6, <2>7, <2>8, <2>9, <2>10, <2>12
       DEF TimeoutEvent, PreparationTimeout, CheckStartFieldsTimeout, GameStartTimeout,
           GameTurnTimeout, ChangeTurnTimeout, EndGameTimeout
  <2> QED BY <2>6, <2>11, <2>12 DEF Next
<1>3. PlayersAgree /\ WinnerDestroyedAll => AgreeInv
  BY DEF AgreeInv
<1> QED BY <1>1, <1>2, <1>3, Inductive, PlayersAreToldTheSame, PTL DEF Spec, MatchSpec, M!Spec

-----------------------------------------------------------------------------
(***************************************************************************)
(* PART 2.  The game: session, connections and interfaces                  *)
(***************************************************************************)

-----------------------------------------------------------------------------
(***************************************************************************)
(* Interfaces                                                              *)
(***************************************************************************)

\* An interface on which the cursor and the clock are right.
SoundInterface(ui) == ui \in Interface /\ CursorFits(ui) /\ ClockFits(ui)

\* The two places at which a field can be on the screen.
FieldStart == {OwnFieldStart, EnemyFieldStart}

\* A coordinate that has gone over an edge comes in again at the other side.
LEMMA WrappedIsInside ==
    ASSUME NEW x \in Int, NEW min \in Int
    PROVE  /\ Wrapped(x, min, min + FLD_SZ) \in Int
           /\ Wrapped(x, min, min + FLD_SZ) - min \in Coord
  BY FieldAssumption DEF Wrapped, Coord, FieldAssumption

\* So a cursor stays on the field that it is on, wherever it is moved.
LEMMA AtIsOnField ==
    ASSUME NEW start \in FieldStart, NEW cursor, NEW pos \in Int \X Int,
           cursor.min = start, cursor.max = Plus(start, <<FLD_SZ, FLD_SZ>>),
           cursor = [pos |-> cursor.pos, min |-> cursor.min, max |-> cursor.max]
    PROVE  /\ At(cursor, pos) = [CursorOn(start) EXCEPT !.pos = At(cursor, pos).pos]
           /\ At(cursor, pos) \in [pos : Int \X Int, min : Int \X Int, max : Int \X Int]
           /\ get_related_pos(At(cursor, pos)) \in Cell
  <1> DEFINE x == Wrapped(pos[1], start[1], start[1] + FLD_SZ)
             y == Wrapped(pos[2], start[2], start[2] + FLD_SZ)
  <1>1. start \in Int \X Int /\ FLD_SZ \in Int
    BY InterfaceAssumption, FieldAssumption DEF InterfaceAssumption, FieldAssumption, FieldStart
  <1>2. x \in Int /\ y \in Int /\ x - start[1] \in Coord /\ y - start[2] \in Coord
    BY <1>1, WrappedIsInside
  <1>3. At(cursor, pos) = [pos |-> <<x, y>>, min |-> start, max |-> Plus(start, <<FLD_SZ, FLD_SZ>>)]
    BY DEF At, Plus
  <1> HIDE DEF x, y
  <1> QED BY <1>1, <1>2, <1>3 DEF get_related_pos, Minus, Cell, CursorOn, Plus

\* A cursor that is put on a field is on a cell of it.
LEMMA CursorOnIsOnField ==
    ASSUME NEW start \in FieldStart
    PROVE  /\ CursorOn(start) = [CursorOn(start) EXCEPT !.pos = start]
           /\ CursorOn(start) \in [pos : Int \X Int, min : Int \X Int, max : Int \X Int]
           /\ get_related_pos(CursorOn(start)) \in Cell
  <1>1. start \in Int \X Int /\ FLD_SZ \in Nat \ {0}
    BY InterfaceAssumption, FieldAssumption DEF InterfaceAssumption, FieldAssumption, FieldStart
  <1> QED BY <1>1 DEF CursorOn, Plus, get_related_pos, Minus, Cell, Coord

\* The boards and the cursor of a new interface are in order.
LEMMA NewInterfaceIsSound == SoundInterface(NewInterface)
  <1>1. EmptyField \in Field /\ <<0, 0>> \in Cell
    BY FieldAssumption DEF EmptyField, Field, CellState, Cell, Coord, FieldAssumption
  <1>2. CursorOn(OwnFieldStart) \in [pos : Int \X Int, min : Int \X Int, max : Int \X Int]
    BY CursorOnIsOnField DEF FieldStart
  <1> QED BY <1>1, <1>2
          DEF SoundInterface, NewInterface, Interface, InterfaceMode, ShownState, INACTIVE,
              CursorFits, ClockFits

-----------------------------------------------------------------------------
(***************************************************************************)
(* Keys                                                                    *)
(***************************************************************************)

\* An arrow key moves the cursor over the field that it is on.
LEMMA CursorMovedIsSound ==
    ASSUME NEW ui, SoundInterface(ui), CanMoveCursor(ui), NEW arrow \in Arrow
    PROVE  SoundInterface(CursorMoved(ui, arrow))
  <1>1. PICK start \in FieldStart : /\ CursorIn(ui, start)
                                    /\ ui.mode = "PREPARATION_MODE" => start = OwnFieldStart
                                    /\ ui.mode = "OWN_TURN_MODE" => start = EnemyFieldStart
    BY DEF SoundInterface, CanMoveCursor, CursorFits, FieldStart
  <1> DEFINE cursor == At(ui.cursor, Plus(ui.cursor.pos, arrow))
  <1>2. Plus(ui.cursor.pos, arrow) \in Int \X Int
    BY DEF SoundInterface, Interface, Plus, Arrow
  <1>3. ui.cursor = [pos |-> ui.cursor.pos, min |-> start,
                     max |-> Plus(start, <<FLD_SZ, FLD_SZ>>)]
    BY <1>1 DEF CursorIn, CursorOn
  <1>4. /\ cursor = [CursorOn(start) EXCEPT !.pos = cursor.pos]
        /\ cursor \in [pos : Int \X Int, min : Int \X Int, max : Int \X Int]
        /\ get_related_pos(cursor) \in Cell
    BY <1>2, <1>3, AtIsOnField
  <1>5. CursorMoved(ui, arrow) = [ui EXCEPT !.cursor = cursor]
    BY DEF CursorMoved, SoundInterface, Interface
  <1> HIDE DEF cursor
  <1> QED BY <1>1, <1>4, <1>5
          DEF SoundInterface, CanMoveCursor, Interface, CursorFits, CursorIn, ClockFits

\* Space puts a ship cell on the board or takes it away.
LEMMA CellPreparedIsSound ==
    ASSUME NEW ui, SoundInterface(ui), CanPrepareCell(ui)
    PROVE  SoundInterface(CellPrepared(ui))
  <1> DEFINE cell  == get_related_pos(ui.cursor)
             board == [ui.own_field EXCEPT ![cell] = IF @ = "EMPTY" THEN "UNHARMED" ELSE "EMPTY"]
  <1>1. cell \in Cell
    BY DEF CanPrepareCell, contains
  <1>2. board \in Field
    BY DEF SoundInterface, Interface, Field, CellState
  <1>3. CellPrepared(ui) = [ui EXCEPT !.last_shot = cell, !.own_field = board]
    BY DEF CellPrepared, SoundInterface, Interface
  <1> HIDE DEF cell, board
  <1> QED BY <1>1, <1>2, <1>3
          DEF SoundInterface, Interface, CursorFits, CursorIn, ClockFits

\* A shot ends the turn for the interface, and is at a cell of the board.
LEMMA ShotSentIsSound ==
    ASSUME NEW ui, SoundInterface(ui), CanShoot(ui)
    PROVE  SoundInterface(ShotSent(ui)) /\ ShotSent(ui).last_shot \in Cell
  <1>1. get_related_pos(ui.cursor) \in Cell
    BY DEF SoundInterface, CanShoot, CursorFits, CursorIn
  <1> QED BY <1>1
          DEF SoundInterface, ShotSent, stop_turn_mode, Interface, InterfaceMode, INACTIVE,
              CursorFits, CursorIn, ClockFits

-----------------------------------------------------------------------------
(***************************************************************************)
(* Messages                                                                *)
(***************************************************************************)

\* A message is one of its kind.
LEMMA MessageKinds ==
    ASSUME NEW msg \in InterfaceMsg
    PROVE  \/ \E shown \in ShownState : msg = GameStateMsg(shown)
           \/ \E duration \in Int : msg = StartFieldReqMsg(duration)
           \/ msg = StopPreparationMsg
           \/ \E is_own \in BOOLEAN, duration \in Int : msg = StartTurnMsg(is_own, duration)
           \/ \E is_own \in BOOLEAN : msg = StopTurnMsg(is_own)
           \/ \E board \in Field, is_own \in BOOLEAN : msg = GameFieldMsg(board, is_own)
           \/ \E is_on \in BOOLEAN : msg = ServerConnStatusMsg(is_on)
  BY DEF InterfaceMsg, GameStateMsg, StartFieldReqMsg, StopPreparationMsg, StartTurnMsg,
         StopTurnMsg, GameFieldMsg, ServerConnStatusMsg

\* A clock that is started runs, also when the deadline is over.
LEMMA StartedRuns ==
    ASSUME NEW duration \in Int
    PROVE  Started(duration) \in Nat /\ Started(duration) # INACTIVE
  BY DEF Started, INACTIVE

\* What is only shown does not touch the cursor, the mode or the clock.
LEMMA ShownIsSound ==
    ASSUME NEW ui, SoundInterface(ui), NEW after,
           \/ \E shown \in ShownState : after = [ui EXCEPT !.state = shown]
           \/ \E board \in Field : after = [ui EXCEPT !.own_field = board]
           \/ \E board \in Field : after = [ui EXCEPT !.enemy_field = board]
           \/ \E is_on \in BOOLEAN : after = [ui EXCEPT !.has_sever_conn = is_on]
    PROVE  SoundInterface(after)
  BY DEF SoundInterface, Interface, CursorFits, CursorIn, ClockFits

\* The modes begin with the cursor on their field and a running clock, and end
\* with a stopped one.
LEMMA ModesAreSound ==
    ASSUME NEW ui, SoundInterface(ui), NEW duration \in Int
    PROVE  /\ SoundInterface(activate_preparation_mode(ui, duration))
           /\ SoundInterface(stop_preparation_mode(ui))
           /\ SoundInterface(activate_own_turn_mode(ui, duration))
           /\ SoundInterface(activate_enemy_turn_mode(ui, duration))
           /\ SoundInterface(stop_turn_mode(ui))
  <1> USE DEF SoundInterface, Interface, InterfaceMode
  <1>1. SoundInterface(activate_preparation_mode(ui, duration))
    BY StartedRuns, CursorOnIsOnField
       DEF activate_preparation_mode, CursorFits, CursorIn, ClockFits, FieldStart
  <1>2. SoundInterface(stop_preparation_mode(ui))
    <2>1. <<0, 0>> \in Cell
      BY FieldAssumption DEF Cell, Coord, FieldAssumption
    <2> QED BY <2>1 DEF stop_preparation_mode, CursorFits, CursorIn, ClockFits, INACTIVE
  <1>3. SoundInterface(activate_own_turn_mode(ui, duration))
    <2> DEFINE cursor == set_related_pos(CursorOn(EnemyFieldStart), ui.last_shot)
    <2>1. EnemyFieldStart \in Int \X Int /\ ui.last_shot \in Int \X Int
      BY InterfaceAssumption DEF InterfaceAssumption, Cell, Coord
    <2>2. Plus(ui.last_shot, EnemyFieldStart) \in Int \X Int
      BY <2>1 DEF Plus
    <2>3. /\ cursor = [CursorOn(EnemyFieldStart) EXCEPT !.pos = cursor.pos]
          /\ cursor \in [pos : Int \X Int, min : Int \X Int, max : Int \X Int]
          /\ get_related_pos(cursor) \in Cell
      BY <2>2, AtIsOnField DEF set_related_pos, CursorOn, FieldStart
    <2> DEFINE time == Started(duration)
    <2>4. time \in Nat /\ time # INACTIVE
      BY StartedRuns
    <2>5. activate_own_turn_mode(ui, duration) =
              [ui EXCEPT !.mode = "OWN_TURN_MODE", !.cursor = cursor, !.timer = time]
      BY DEF activate_own_turn_mode
    <2> HIDE DEF cursor, time
    <2> QED BY <2>3, <2>4, <2>5 DEF CursorFits, CursorIn, ClockFits
  <1>4. SoundInterface(activate_enemy_turn_mode(ui, duration))
    BY StartedRuns DEF activate_enemy_turn_mode, CursorFits, CursorIn, ClockFits
  <1>5. SoundInterface(stop_turn_mode(ui))
    BY DEF stop_turn_mode, CursorFits, CursorIn, ClockFits, INACTIVE
  <1> HIDE DEF SoundInterface
  <1> QED BY <1>1, <1>2, <1>3, <1>4, <1>5

\* Whatever message comes in whatever mode, the interface is in order after it.
LEMMA HandledIsSound ==
    ASSUME NEW ui, SoundInterface(ui), NEW msg \in InterfaceMsg
    PROVE  SoundInterface(Handled(ui, msg))
  <1> DEFINE after == Handled(ui, msg)
  <1>1. ASSUME NEW before, SoundInterface(before),
               NEW shown \in ShownState, after = [before EXCEPT !.state = shown]
        PROVE  SoundInterface(after)
    BY <1>1, ShownIsSound
  <1>2. ASSUME NEW shown \in ShownState, msg = GameStateMsg(shown)
        PROVE  SoundInterface(after)
    <2>1. after = [ui EXCEPT !.state = shown]
      BY <1>2 DEF Handled, GameStateMsg
    <2> QED BY <1>1, <2>1
  <1>3. ASSUME NEW duration \in Int, msg = StartFieldReqMsg(duration)
        PROVE  SoundInterface(after)
    <2>1. after = [activate_preparation_mode(ui, duration) EXCEPT !.state = "PREPARATION"]
      BY <1>3 DEF Handled, StartFieldReqMsg
    <2>2. SoundInterface(activate_preparation_mode(ui, duration))
      BY ModesAreSound
    <2> QED BY <1>1, <2>1, <2>2 DEF ShownState
  <1>4. ASSUME msg = StopPreparationMsg PROVE SoundInterface(after)
    <2>1. after = [stop_preparation_mode(ui) EXCEPT !.state = "WAIT_START"]
      BY <1>4 DEF Handled, StopPreparationMsg
    <2>2. SoundInterface(stop_preparation_mode(ui))
      BY ModesAreSound
    <2> QED BY <1>1, <2>1, <2>2 DEF ShownState
  <1>5. ASSUME NEW duration \in Int, msg = StartTurnMsg(TRUE, duration)
        PROVE  SoundInterface(after)
    <2>1. after = [activate_own_turn_mode(ui, duration) EXCEPT !.state = "OWN_TURN"]
      BY <1>5 DEF Handled, StartTurnMsg
    <2>2. SoundInterface(activate_own_turn_mode(ui, duration))
      BY ModesAreSound
    <2> QED BY <1>1, <2>1, <2>2 DEF ShownState
  <1>6. ASSUME NEW duration \in Int, msg = StartTurnMsg(FALSE, duration)
        PROVE  SoundInterface(after)
    <2>1. after = [activate_enemy_turn_mode(ui, duration) EXCEPT !.state = "ENEMY_TURN"]
      BY <1>6 DEF Handled, StartTurnMsg
    <2>2. SoundInterface(activate_enemy_turn_mode(ui, duration))
      BY ModesAreSound
    <2> QED BY <1>1, <2>1, <2>2 DEF ShownState
  <1>7. ASSUME NEW is_own \in BOOLEAN, msg = StopTurnMsg(is_own)
        PROVE  SoundInterface(after)
    <2>1. after = [stop_turn_mode(ui) EXCEPT !.state = "PROCESS_TURN"]
      BY <1>7 DEF Handled, StopTurnMsg
    <2>2. SoundInterface(stop_turn_mode(ui))
      BY ModesAreSound
    <2> QED BY <1>1, <2>1, <2>2 DEF ShownState
  <1>8. ASSUME NEW board \in Field, msg = GameFieldMsg(board, TRUE)
        PROVE  SoundInterface(after)
    <2>1. after = [ui EXCEPT !.own_field = board]
      BY <1>8 DEF Handled, GameFieldMsg
    <2> QED BY <2>1, ShownIsSound
  <1>9. ASSUME NEW board \in Field, msg = GameFieldMsg(board, FALSE)
        PROVE  SoundInterface(after)
    <2>1. after = [ui EXCEPT !.enemy_field = board]
      BY <1>9 DEF Handled, GameFieldMsg
    <2> QED BY <2>1, ShownIsSound
  <1>10. ASSUME NEW is_on \in BOOLEAN, msg = ServerConnStatusMsg(is_on)
         PROVE  SoundInterface(after)
    <2>1. after = [ui EXCEPT !.has_sever_conn = is_on]
      BY <1>10 DEF Handled, ServerConnStatusMsg
    <2> QED BY <2>1, ShownIsSound
  <1> HIDE DEF after
  <1>11. SoundInterface(after)
    BY <1>2, <1>3, <1>4, <1>5, <1>6, <1>7, <1>8, <1>9, <1>10, MessageKinds
  <1> QED BY <1>11 DEF after

\* What is sent in reply is a message for the session.
LEMMA ReplyIsSent ==
    ASSUME NEW ui, SoundInterface(ui), NEW msg
    PROVE  Reply(ui, msg) \in Seq(SessionMsg)
  <1> DEFINE reply == GameFieldMsg(ui.own_field, TRUE)
  <1>1. reply \in SessionMsg
    BY DEF SoundInterface, Interface, GameFieldMsg, SessionMsg
  <1>2. Reply(ui, msg) = <<reply>> \/ Reply(ui, msg) = <<>>
    BY DEF Reply
  <1> HIDE DEF reply
  <1>3. <<reply>> \in Seq(SessionMsg) /\ <<>> \in Seq(SessionMsg)
    BY <1>1
  <1> QED BY <1>2, <1>3, Zenon

-----------------------------------------------------------------------------
(***************************************************************************)
(* What is sent                                                            *)
(***************************************************************************)

\* Messages for the two players.
Sent == [PlayerNumber -> Seq(InterfaceMsg)]

\* Sequences of one message and of two.
LEMMA FewMessages ==
    ASSUME NEW first \in InterfaceMsg, NEW second \in InterfaceMsg
    PROVE  /\ <<>> \in Seq(InterfaceMsg)
           /\ <<first>> \in Seq(InterfaceMsg)
           /\ <<first, second>> \in Seq(InterfaceMsg)
  OBVIOUS

\* The constructors make messages.
LEMMA MessagesAreTyped ==
    /\ \A shown \in ShownState : GameStateMsg(shown) \in InterfaceMsg
    /\ \A duration \in Int : StartFieldReqMsg(duration) \in InterfaceMsg
    /\ StopPreparationMsg \in InterfaceMsg
    /\ \A is_own \in BOOLEAN, duration \in Int : StartTurnMsg(is_own, duration) \in InterfaceMsg
    /\ \A is_own \in BOOLEAN : StopTurnMsg(is_own) \in InterfaceMsg
    /\ \A board \in Field, is_own \in BOOLEAN : GameFieldMsg(board, is_own) \in InterfaceMsg
    /\ \A is_on \in BOOLEAN : ServerConnStatusMsg(is_on) \in InterfaceMsg
  BY DEF InterfaceMsg, GameStateMsg, StartFieldReqMsg, StopPreparationMsg, StartTurnMsg,
         StopTurnMsg, GameFieldMsg, ServerConnStatusMsg

\* The enemy's view of a board is a board.
LEMMA EnemyViewIsField ==
    ASSUME NEW f \in Field
    PROVE  get_for_enemy(f) \in Field
  BY DEF get_for_enemy, Field, CellState

\* What the session sends are messages.
LEMMA SentIsTyped ==
    ASSUME TypeOK, TypeOK', PlayAssumption, SessionAssumption
    PROVE  /\ Nothing \in Sent
           /\ \A msg \in InterfaceMsg : ToAll(<<msg>>) \in Sent
           /\ StateSent \in Sent
           /\ StartFieldsSent \in Sent
           /\ TurnStarted \in Sent
           /\ TurnStopped \in Sent
           /\ FieldsSent \in Sent
           /\ ResultSent \in Sent
           /\ \A first, second \in Sent : Both(first, second) \in Sent
  <1>1. \A i \in PlayerNumber : /\ enemy_idx(i) \in PlayerNumber
                                /\ fields[i] \in Field /\ fields'[i] \in Field
                                /\ get_for_enemy(fields[i]) \in Field
                                /\ get_for_enemy(fields'[i]) \in Field
    BY EnemyViewIsField DEF TypeOK, enemy_idx, PlayerNumber
  <1>2. Nothing \in Sent /\ \A msg \in InterfaceMsg : ToAll(<<msg>>) \in Sent
    BY FewMessages, MessagesAreTyped DEF Nothing, ToAll, Sent
  <1>3. state' \in ShownState
    BY DEF TypeOK, GameState, ShownState
  <1>4. StateSent \in Sent
    BY <1>2, <1>3, MessagesAreTyped DEF StateSent
  <1>5. StartFieldsSent \in Sent
    <2>1. \A i \in PlayerNumber :
              <<GameFieldMsg(fields[i], TRUE),
                GameFieldMsg(get_for_enemy(fields[enemy_idx(i)]), FALSE)>> \in Seq(InterfaceMsg)
      BY <1>1, FewMessages, MessagesAreTyped
    <2> QED BY <2>1 DEF StartFieldsSent, Sent
  <1>6. TurnStarted \in Sent
    <2>1. TURN_DURATION \in Int
      BY DEF SessionAssumption
    <2>2. \A is_own \in BOOLEAN : <<StartTurnMsg(is_own, TURN_DURATION)>> \in Seq(InterfaceMsg)
      BY <2>1, FewMessages, MessagesAreTyped
    <2> QED BY <2>2 DEF TurnStarted, Sent
  <1>7. TurnStopped \in Sent
    <2>1. \A i \in PlayerNumber :
              <<StopTurnMsg(i = cur_turn_player_idx)>> \in Seq(InterfaceMsg)
      BY FewMessages, MessagesAreTyped
    <2> QED BY <2>1 DEF TurnStopped, Sent
  <1>8. FieldsSent \in Sent
    <2>1. \A i \in PlayerNumber :
              /\ <<GameFieldMsg(get_for_enemy(fields'[enemy_idx(i)]), FALSE)>> \in Seq(InterfaceMsg)
              /\ <<GameFieldMsg(fields'[i], TRUE)>> \in Seq(InterfaceMsg)
      BY <1>1, FewMessages, MessagesAreTyped
    <2> QED BY <2>1 DEF FieldsSent, Sent
  <1>9. ResultSent \in Sent
    <2>1. \A i \in PlayerNumber :
              <<GameStateMsg(IF i = cur_turn_player_idx THEN "WIN_GAME" ELSE "LOSE_GAME")>>
                  \in Seq(InterfaceMsg)
      BY FewMessages, MessagesAreTyped DEF ShownState
    <2> QED BY <2>1 DEF ResultSent, Sent
  <1>10. \A first, second \in Sent : Both(first, second) \in Sent
    BY ConcatProperties DEF Both, Sent
  <1> QED BY <1>2, <1>4, <1>5, <1>6, <1>7, <1>8, <1>9, <1>10

\* What each client gets are messages.
LEMMA SentToIsTyped ==
    ASSUME NEW sent \in Sent, NEW c
    PROVE  SentTo(sent, c) \in Seq(InterfaceMsg)
  <1>1. CASE \E i \in PlayerNumber : players'[i] = c
    <2>1. (CHOOSE i \in PlayerNumber : players'[i] = c) \in PlayerNumber
      BY <1>1
    <2> QED BY <1>1, <2>1 DEF SentTo, Sent
  <1>2. CASE ~ \E i \in PlayerNumber : players'[i] = c
    BY <1>2 DEF SentTo
  <1> QED BY <1>1, <1>2

\* A part of a queue is a queue.
LEMMA PartsOfQueues ==
    ASSUME NEW S, NEW s \in Seq(S)
    PROVE  Prefixes(s) \subseteq Seq(S) /\ Suffixes(s) \subseteq Seq(S)
  <1>1. ASSUME NEW n \in 0 .. Len(s)
        PROVE  SubSeq(s, 1, n) \in Seq(S) /\ SubSeq(s, n + 1, Len(s)) \in Seq(S)
    <2>1. Len(s) \in Nat /\ \A i \in 1 .. Len(s) : s[i] \in S
      OBVIOUS
    <2> QED BY <2>1, SubSeqProperties
  <1> QED BY <1>1 DEF Prefixes, Suffixes

\* Sending leaves the queues queues.
LEMMA SendIsTyped ==
    ASSUME PlayTypeOK, NEW sent \in Sent, Send(sent)
    PROVE  /\ to_interface' \in [Client -> Seq(InterfaceMsg)]
           /\ interface' = interface /\ connected' = connected
  BY SentToIsTyped, ConcatProperties DEF Send, PlayTypeOK

\* So does the end of connections.
LEMMA SendAndCloseIsTyped ==
    ASSUME PlayTypeOK, NEW sent \in Sent, NEW closed, SendAndClose(sent, closed)
    PROVE  /\ to_interface' \in [Client -> Seq(InterfaceMsg)]
           /\ to_session' \in [Client -> Seq(SessionMsg)]
           /\ connected' \in [Client -> BOOLEAN]
           /\ interface' = interface
  <1>1. PICK arrived \in [closed -> UNION {Prefixes(to_interface[c]) : c \in closed}],
             kept \in [closed -> UNION {Suffixes(to_session[c]) : c \in closed}] :
            /\ \A c \in closed : /\ arrived[c] \in Prefixes(to_interface[c])
                                 /\ kept[c] \in Suffixes(to_session[c])
            /\ to_interface' = [c \in Client |->
                                   IF c \in closed
                                   THEN Append(arrived[c], ServerConnStatusMsg(FALSE))
                                   ELSE to_interface[c] \o SentTo(sent, c)]
            /\ to_session' = [c \in Client |-> IF c \in closed THEN kept[c] ELSE to_session[c]]
    BY DEF SendAndClose
  <1>2. ASSUME NEW c \in Client, c \in closed
        PROVE  /\ Append(arrived[c], ServerConnStatusMsg(FALSE)) \in Seq(InterfaceMsg)
               /\ kept[c] \in Seq(SessionMsg)
    <2>1. arrived[c] \in Seq(InterfaceMsg) /\ kept[c] \in Seq(SessionMsg)
      BY <1>1, <1>2, PartsOfQueues DEF PlayTypeOK
    <2>2. ServerConnStatusMsg(FALSE) \in InterfaceMsg
      BY MessagesAreTyped
    <2> QED BY <2>1, <2>2, AppendProperties
  <1>3. ASSUME NEW c \in Client
        PROVE  to_interface[c] \o SentTo(sent, c) \in Seq(InterfaceMsg)
    BY SentToIsTyped, ConcatProperties DEF PlayTypeOK
  <1>4. to_interface' \in [Client -> Seq(InterfaceMsg)]
    BY <1>1, <1>2, <1>3
  <1>5. to_session' \in [Client -> Seq(SessionMsg)]
    BY <1>1, <1>2 DEF PlayTypeOK
  <1>6. connected' \in [Client -> BOOLEAN] /\ interface' = interface
    BY DEF SendAndClose, PlayTypeOK
  <1> QED BY <1>4, <1>5, <1>6

-----------------------------------------------------------------------------
(***************************************************************************)
(* The session of a game is a session                                      *)
(***************************************************************************)

\* What the interfaces send is what a session may be sent: a message at the head
\* of a queue carries a field or a cell.
LEMMA WhatIsServed ==
    ASSUME PlayTypeOK, NEW c \in Client, NEW type, Serve(c, type)
    PROVE  /\ type = "GAME_FIELD" => Head(to_session[c]).field \in Field
           /\ type = "GAME_MOVE" => Head(to_session[c]).point \in Cell
           /\ to_session' \in [Client -> Seq(SessionMsg)]
  <1>1. to_session[c] \in Seq(SessionMsg) /\ to_session[c] # <<>>
    BY DEF PlayTypeOK, Serve
  <1>2. Head(to_session[c]) \in SessionMsg /\ Tail(to_session[c]) \in Seq(SessionMsg)
    BY <1>1, HeadTailProperties
  <1>3. Head(to_session[c]).type = type
    BY DEF Serve
  <1>4. type = "GAME_FIELD" => Head(to_session[c]).field \in Field
    BY <1>2, <1>3 DEF SessionMsg
  <1>5. type = "GAME_MOVE" => Head(to_session[c]).point \in Cell
    BY <1>2, <1>3 DEF SessionMsg
  <1>6. to_session' \in [Client -> Seq(SessionMsg)]
    BY <1>2 DEF Serve, PlayTypeOK
  <1> QED BY <1>4, <1>5, <1>6

\* Every step of a game is one of the session, or leaves it alone.
LEMMA StepsOfSession ==
    ASSUME PlayTypeOK, PlayAssumption, [PlayNext]_playVars
    PROVE  [Next]_vars
  <1>1. ASSUME NEW ticks \in 0 .. MaxPassed, Wait(ticks) PROVE Next
    BY <1>1 DEF Wait, Next
  <1>2. ASSUME Pass PROVE Next
    BY <1>2 DEF Pass, Next
  <1>3. ASSUME SessionEvent PROVE Next
    BY <1>3 DEF SessionEvent, Next, TimeoutEvent
  <1>4. ASSUME NEW c \in Client, ServeSessionReq(c) PROVE Next \/ UNCHANGED vars
    BY <1>4 DEF ServeSessionReq, Next, ClientAction
  <1>5. ASSUME NEW c \in Client, ServeField(c) PROVE Next \/ UNCHANGED vars
    <2> DEFINE f == Head(to_session[c]).field
    <2>1. SendField(c, f) \/ UNCHANGED vars
      BY <1>5 DEF ServeField
    <2>2. f \in Field
      BY <1>5, WhatIsServed DEF ServeField
    <2>3. SendField(c, f) => f \in SentField
      BY <2>2 DEF SendField, PlayAssumption
    <2> HIDE DEF f
    <2> QED BY <2>1, <2>3 DEF Next, ClientAction
  <1>6. ASSUME NEW c \in Client, ServeMove(c) PROVE Next \/ UNCHANGED vars
    <2> DEFINE point == Head(to_session[c]).point
    <2>1. Move(c, point) \/ LateMove(c, point) \/ UNCHANGED vars
      BY <1>6 DEF ServeMove
    <2>2. point \in Shot
      BY <1>6, WhatIsServed DEF ServeMove, PlayAssumption
    <2> HIDE DEF point
    <2> QED BY <2>1, <2>2 DEF Next, ClientAction
  <1>7. ASSUME NEW c \in Client,
               \/ \E key \in Key : PressArrow(c, key)
               \/ PrepareCell(c) \/ Shoot(c) \/ AskForGame(c) \/ Connect(c) \/ Deliver(c)
        PROVE  UNCHANGED vars
    BY <1>7 DEF PressArrow, PrepareCell, Shoot, AskForGame, Connect, Deliver, PressKey, KeyPressed
  <1>8. ASSUME NEW c \in Client, Break(c) PROVE Next \/ UNCHANGED vars
    BY <1>8 DEF Break, Next, ClientAction
  <1>9. CASE UNCHANGED playVars
    BY <1>9 DEF playVars
  <1> QED BY <1>1, <1>2, <1>3, <1>4, <1>5, <1>6, <1>7, <1>8, <1>9 DEF PlayNext

-----------------------------------------------------------------------------
(***************************************************************************)
(* The interfaces stay in order                                            *)
(***************************************************************************)

\* The types of the session and of the clients, and the interfaces in order:
\* none is kept without the others, because the session sends its boards, the
\* interfaces send what is under their cursors, and the session takes it.
PlayInv ==
    /\ TypeOK
    /\ PlayTypeOK
    /\ CursorAndClockFit

\* In which all interfaces are sound.
LEMMA InterfacesAreSound ==
    PlayTypeOK /\ CursorAndClockFit <=>
        /\ interface \in [Client -> Interface]
        /\ \A c \in Client : SoundInterface(interface[c])
        /\ to_interface \in [Client -> Seq(InterfaceMsg)]
        /\ to_session \in [Client -> Seq(SessionMsg)]
        /\ connected \in [Client -> BOOLEAN]
  BY DEF PlayTypeOK, CursorAndClockFit, SoundInterface

\* A step of a client's own that changes his interface into a sound one and
\* appends messages to his queue.
LEMMA KeysKeepOrder ==
    ASSUME PlayInv, NEW c \in Client, NEW ui, SoundInterface(ui),
           NEW msgs \in Seq(SessionMsg), KeyPressed(c, ui, msgs)
    PROVE  (PlayTypeOK /\ CursorAndClockFit)'
  <1>1. interface' = [interface EXCEPT ![c] = ui]
           /\ to_session' = [to_session EXCEPT ![c] = @ \o msgs]
           /\ UNCHANGED <<to_interface, connected>>
    BY DEF KeyPressed
  <1>2. interface' \in [Client -> Interface] /\ \A d \in Client : SoundInterface(interface'[d])
    BY <1>1, InterfacesAreSound DEF PlayInv, SoundInterface, PlayTypeOK
  <1>3. to_session' \in [Client -> Seq(SessionMsg)]
    BY <1>1, ConcatProperties DEF PlayInv, PlayTypeOK
  <1> QED BY <1>1, <1>2, <1>3 DEF PlayInv, PlayTypeOK, CursorAndClockFit, SoundInterface

\* A step that leaves the interfaces alone.
LEMMA QueuesKeepOrder ==
    ASSUME PlayInv, interface' = interface,
           to_interface' \in [Client -> Seq(InterfaceMsg)],
           to_session' \in [Client -> Seq(SessionMsg)],
           connected' \in [Client -> BOOLEAN]
    PROVE  (PlayTypeOK /\ CursorAndClockFit)'
  BY DEF PlayInv, PlayTypeOK, CursorAndClockFit

\* The messages to the clients after a request, and the answers.
LEMMA ServingKeepsOrder ==
    ASSUME PlayInv, TypeOK', PlayAssumption, SessionAssumption, NEW c \in Client,
           ServeSessionReq(c) \/ ServeField(c) \/ ServeMove(c)
    PROVE  (PlayTypeOK /\ CursorAndClockFit)'
  <1>1. PICK sent \in Sent : Send(sent)
    <2>1. CASE ServeSessionReq(c)
      <3>1. \A shown \in GameState : <<GameStateMsg(shown)>> \in Seq(InterfaceMsg)
        BY FewMessages, MessagesAreTyped DEF GameState, ShownState
      <3>2. \A i, shown : shown \in GameState =>
                [Nothing EXCEPT ![i] = <<GameStateMsg(shown)>>] \in Sent
        BY <3>1, SentIsTyped DEF Sent, PlayInv
      <3>3. state \in GameState /\ state' \in GameState
        BY DEF PlayInv, TypeOK
      <3>4. ToAll(<<StartFieldReqMsg(PREPARATION_DURATION)>>) \in Sent
        BY SentIsTyped, MessagesAreTyped DEF PlayInv, SessionAssumption
      <3> QED BY <2>1, <3>2, <3>3, <3>4 DEF ServeSessionReq
    <2>2. CASE ServeField(c) \/ ServeMove(c)
      BY <2>2, SentIsTyped DEF ServeField, ServeMove, PlayInv
    <2> QED BY <2>1, <2>2
  <1>2. to_session' \in [Client -> Seq(SessionMsg)]
    BY WhatIsServed DEF PlayInv, ServeSessionReq, ServeField, ServeMove
  <1>3. /\ to_interface' \in [Client -> Seq(InterfaceMsg)]
        /\ interface' = interface /\ connected' = connected
    BY <1>1, SendIsTyped DEF PlayInv
  <1> QED BY <1>2, <1>3, QueuesKeepOrder DEF PlayInv, PlayTypeOK

\* The messages of a timeout, which may also end connections.
LEMMA EventsKeepOrder ==
    ASSUME PlayInv, TypeOK', PlayAssumption, SessionAssumption, SessionEvent
    PROVE  (PlayTypeOK /\ CursorAndClockFit)'
  <1>1. /\ Nothing \in Sent /\ StateSent \in Sent /\ StartFieldsSent \in Sent
        /\ TurnStarted \in Sent /\ TurnStopped \in Sent
        /\ Both(ToAll(<<StopPreparationMsg>>), StateSent) \in Sent
        /\ Both(FieldsSent, TurnStarted) \in Sent /\ Both(FieldsSent, ResultSent) \in Sent
    BY SentIsTyped, MessagesAreTyped DEF PlayInv
  <1>2. PICK sent \in Sent : Inform(sent)
    BY <1>1 DEF SessionEvent
  <1>3. /\ to_interface' \in [Client -> Seq(InterfaceMsg)]
        /\ to_session' \in [Client -> Seq(SessionMsg)]
        /\ connected' \in [Client -> BOOLEAN]
        /\ interface' = interface
    BY <1>2, SendAndCloseIsTyped DEF Inform, PlayInv
  <1> QED BY <1>3, QueuesKeepOrder

\* The keys of a player, and the messages that his interface processes.
LEMMA PlayersKeepOrder ==
    ASSUME PlayInv, TypeOK', PlayAssumption, SessionAssumption, NEW c \in Client,
           \/ \E key \in Key : PressArrow(c, key)
           \/ PrepareCell(c) \/ Shoot(c) \/ AskForGame(c) \/ Connect(c) \/ Deliver(c) \/ Break(c)
    PROVE  (PlayTypeOK /\ CursorAndClockFit)'
  <1>1. SoundInterface(interface[c]) /\ <<>> \in Seq(SessionMsg)
    BY InterfacesAreSound DEF PlayInv
  <1>2. ASSUME NEW key \in Key, PressArrow(c, key) PROVE (PlayTypeOK /\ CursorAndClockFit)'
    <2>1. key \in Arrow
      BY DEF PlayAssumption
    <2>2. SoundInterface(CursorMoved(interface[c], key))
      BY <1>1, <1>2, <2>1, CursorMovedIsSound DEF PressArrow
    <2> QED BY <1>1, <1>2, <2>2, KeysKeepOrder DEF PressArrow, PressKey
  <1>3. CASE PrepareCell(c)
    <2>1. SoundInterface(CellPrepared(interface[c]))
      BY <1>1, <1>3, CellPreparedIsSound DEF PrepareCell
    <2> QED BY <1>1, <1>3, <2>1, KeysKeepOrder DEF PrepareCell, PressKey
  <1>4. CASE Shoot(c)
    <2> DEFINE ui == ShotSent(interface[c])  move == GameMoveMsg(ui.last_shot)
    <2>1. SoundInterface(ui) /\ ui.last_shot \in Cell
      BY <1>1, <1>4, ShotSentIsSound DEF Shoot
    <2>2. move \in SessionMsg
      BY <2>1 DEF GameMoveMsg, SessionMsg
    <2>3. KeyPressed(c, ui, <<move>>)
      BY <1>4 DEF Shoot, PressKey
    <2> HIDE DEF ui, move
    <2>4. <<move>> \in Seq(SessionMsg)
      BY <2>2
    <2> QED BY <2>1, <2>3, <2>4, KeysKeepOrder
  <1>5. CASE AskForGame(c)
    <2>1. GameSessionReqMsg \in SessionMsg
      BY DEF GameSessionReqMsg, SessionMsg
    <2>2. <<GameSessionReqMsg>> \in Seq(SessionMsg)
      BY <2>1
    <2> QED BY <1>1, <1>5, <2>2, KeysKeepOrder DEF AskForGame
  <1>6. CASE Connect(c)
    <2>1. ServerConnStatusMsg(TRUE) \in InterfaceMsg
      BY MessagesAreTyped
    <2>2. to_interface' \in [Client -> Seq(InterfaceMsg)]
      BY <1>6, <2>1, AppendProperties DEF Connect, PlayInv, PlayTypeOK
    <2> QED BY <1>6, <2>2, QueuesKeepOrder DEF Connect, PlayInv, PlayTypeOK
  <1>7. CASE Deliver(c)
    <2> DEFINE msg == Head(to_interface[c])
               ui  == Handled(interface[c], msg)
    <2>1. to_interface[c] \in Seq(InterfaceMsg) /\ to_interface[c] # <<>>
      BY <1>7 DEF Deliver, PlayInv, PlayTypeOK
    <2>2. msg \in InterfaceMsg /\ Tail(to_interface[c]) \in Seq(InterfaceMsg)
      BY <2>1, HeadTailProperties
    <2>3. SoundInterface(ui)
      BY <1>1, <2>2, HandledIsSound
    <2>4. Reply(interface[c], msg) \in Seq(SessionMsg)
      BY <1>1, ReplyIsSent
    <2>5. /\ interface' = [interface EXCEPT ![c] = ui]
          /\ to_session' = [to_session EXCEPT ![c] = @ \o Reply(interface[c], msg)]
          /\ to_interface' = [to_interface EXCEPT ![c] = Tail(@)]
          /\ connected' = connected
      BY <1>7 DEF Deliver
    <2> HIDE DEF msg, ui
    <2>6. interface' \in [Client -> Interface] /\ \A d \in Client : SoundInterface(interface'[d])
      BY <2>3, <2>5, InterfacesAreSound DEF PlayInv, SoundInterface, PlayTypeOK
    <2>7. to_session' \in [Client -> Seq(SessionMsg)]
      BY <2>4, <2>5, ConcatProperties DEF PlayInv, PlayTypeOK
    <2>8. to_interface' \in [Client -> Seq(InterfaceMsg)]
      BY <2>2, <2>5 DEF PlayInv, PlayTypeOK
    <2> QED BY <2>5, <2>6, <2>7, <2>8 DEF PlayInv, PlayTypeOK, CursorAndClockFit, SoundInterface
  <1>8. CASE Break(c)
    BY <1>8, SentIsTyped, SendAndCloseIsTyped, QueuesKeepOrder DEF Break, PlayInv
  <1> QED BY <1>2, <1>3, <1>4, <1>5, <1>6, <1>7, <1>8

\* All of it holds at first and is kept by every step.
LEMMA PlayInvIsInductive ==
    /\ PlayInit => PlayInv
    /\ PlayInv /\ [PlayNext]_playVars => PlayInv'
<1> USE SessionAssumption, PlayAssumption
<1>1. PlayInit => PlayInv
  <2> SUFFICES ASSUME PlayInit PROVE PlayInv
    OBVIOUS
  <2>1. TypeOK
    BY TypesAtFirst DEF PlayInit
  <2>2. SoundInterface(NewInterface)
    BY NewInterfaceIsSound
  <2> QED BY <2>1, <2>2 DEF PlayInit, PlayInv, PlayTypeOK, CursorAndClockFit, SoundInterface
<1>2. PlayInv /\ [PlayNext]_playVars => PlayInv'
  <2> SUFFICES ASSUME PlayInv, [PlayNext]_playVars PROVE PlayInv'
    OBVIOUS
  <2>1. TypeOK'
    BY StepsOfSession, TypesKept DEF PlayInv
  <2>2. (PlayTypeOK /\ CursorAndClockFit)'
    <3>1. ASSUME UNCHANGED clientVars PROVE (PlayTypeOK /\ CursorAndClockFit)'
      BY <3>1 DEF clientVars, PlayInv, PlayTypeOK, CursorAndClockFit
    <3>2. ASSUME NEW ticks \in 0 .. MaxPassed, Wait(ticks) PROVE UNCHANGED clientVars
      BY <3>2 DEF Wait
    <3>3. ASSUME Pass PROVE UNCHANGED clientVars
      BY <3>3 DEF Pass
    <3>4. ASSUME UNCHANGED playVars PROVE UNCHANGED clientVars
      BY <3>4 DEF playVars
    <3> QED BY <2>1, <3>1, <3>2, <3>3, <3>4, ServingKeepsOrder, EventsKeepOrder, PlayersKeepOrder
            DEF PlayNext
  <2> QED BY <2>1, <2>2 DEF PlayInv
<1> QED BY <1>1, <1>2

-----------------------------------------------------------------------------

\* Whatever the session sends and however long it takes, every cursor is on a
\* cell of the field that the mode is about and the clocks run when a deadline is
\* due, for any board and any place of the fields on the screen.
THEOREM InterfacesInOrder == PlaySpec => []CursorAndClockFit
<1>1. PlayInv => CursorAndClockFit
  BY DEF PlayInv
<1> QED BY <1>1, PlayInvIsInductive, PTL DEF PlaySpec

\* The session of a game is a session: what the interfaces send, after messages
\* of any delay and over connections that break, is what GameSession takes for
\* granted of its clients.
THEOREM GameUsesSession == PlaySpec => SessionSpec
<1>1. PlayInit => Init
  BY DEF PlayInit
<1>2. PlayInv /\ [PlayNext]_playVars => [Next]_vars
  BY StepsOfSession, PlayAssumption DEF PlayInv
<1> QED BY <1>1, <1>2, PlayInvIsInductive, PTL DEF PlaySpec, SessionSpec, Spec

\* So what is proved of a session is true of one with players at their keys: the
\* game that they play is a match, and its results are right.
THEOREM GameIsMatch == PlaySpec => MatchSpec /\ [](PlayersAgree /\ WinnerDestroyedAll)
<1> QED BY GameUsesSession, Implements, PlayersAreToldTheSame, PTL DEF SessionSpec

-----------------------------------------------------------------------------
(***************************************************************************)
(* Modes to come                                                           *)
(***************************************************************************)

\* The messages that put an interface into a mode, whatever it was in.
SetsMode(msg) == msg.type \in {"START_FIELD_REQ", "START_TURN", "STOP_TURN"}

\* The mode after a message.
ModeAfter(mode, msg) ==
    IF msg.type = "START_FIELD_REQ" THEN "PREPARATION_MODE"
    ELSE IF msg.type = "START_TURN"
         THEN IF msg.is_own THEN "OWN_TURN_MODE" ELSE "ENEMY_TURN_MODE"
    ELSE IF msg.type = "STOP_TURN" THEN "WAIT_MODE"
    ELSE IF msg.type = "STOP_PREPARATION" /\ mode = "PREPARATION_MODE" THEN "WAIT_MODE"
    ELSE mode

\* An interface in this mode is in mode `last' once it has processed the queue.
\* The k-th message is the last one that sets a mode, or there is none and k is 0;
\* of those behind it only the end of a preparation can still matter.
EndsIn(mode, queue, last) ==
    \E k \in 0 .. Len(queue), base \in InterfaceMode :
        /\ k = 0 => base = mode
        /\ k > 0 => SetsMode(queue[k]) /\ base = ModeAfter(mode, queue[k])
        /\ \A j \in k + 1 .. Len(queue) : ~SetsMode(queue[j])
        /\ last = IF /\ base = "PREPARATION_MODE"
                     /\ \E j \in k + 1 .. Len(queue) : queue[j].type = "STOP_PREPARATION"
                  THEN "WAIT_MODE" ELSE base

\* ModeAfter says what Handled does to the mode.
LEMMA ModeOfHandled ==
    ASSUME NEW ui \in Interface, NEW msg \in InterfaceMsg
    PROVE  Handled(ui, msg).mode = ModeAfter(ui.mode, msg)
  <1>1. ASSUME NEW shown \in ShownState, msg = GameStateMsg(shown)
        PROVE  Handled(ui, msg).mode = ModeAfter(ui.mode, msg)
    BY <1>1 DEF Handled, GameStateMsg, ModeAfter, Interface
  <1>2. ASSUME NEW duration \in Int, msg = StartFieldReqMsg(duration)
        PROVE  Handled(ui, msg).mode = ModeAfter(ui.mode, msg)
    BY <1>2 DEF Handled, StartFieldReqMsg, ModeAfter, Interface, activate_preparation_mode
  <1>3. ASSUME msg = StopPreparationMsg
        PROVE  Handled(ui, msg).mode = ModeAfter(ui.mode, msg)
    BY <1>3 DEF Handled, StopPreparationMsg, ModeAfter, Interface, stop_preparation_mode
  <1>4. ASSUME NEW is_own \in BOOLEAN, NEW duration \in Int, msg = StartTurnMsg(is_own, duration)
        PROVE  Handled(ui, msg).mode = ModeAfter(ui.mode, msg)
    BY <1>4 DEF Handled, StartTurnMsg, ModeAfter, Interface, activate_own_turn_mode,
                activate_enemy_turn_mode
  <1>5. ASSUME NEW is_own \in BOOLEAN, msg = StopTurnMsg(is_own)
        PROVE  Handled(ui, msg).mode = ModeAfter(ui.mode, msg)
    BY <1>5 DEF Handled, StopTurnMsg, ModeAfter, Interface, stop_turn_mode
  <1>6. ASSUME NEW board \in Field, NEW is_own \in BOOLEAN, msg = GameFieldMsg(board, is_own)
        PROVE  Handled(ui, msg).mode = ModeAfter(ui.mode, msg)
    BY <1>6 DEF Handled, GameFieldMsg, ModeAfter, Interface
  <1>7. ASSUME NEW is_on \in BOOLEAN, msg = ServerConnStatusMsg(is_on)
        PROVE  Handled(ui, msg).mode = ModeAfter(ui.mode, msg)
    BY <1>7 DEF Handled, ServerConnStatusMsg, ModeAfter, Interface
  <1> QED BY <1>1, <1>2, <1>3, <1>4, <1>5, <1>6, <1>7, MessageKinds

\* Modes stay modes.
LEMMA ModesAreModes ==
    ASSUME NEW mode \in InterfaceMode, NEW msg
    PROVE  ModeAfter(mode, msg) \in InterfaceMode
  BY DEF ModeAfter, InterfaceMode

\* When nothing is under way the mode is the last one.
LEMMA NothingToCome ==
    ASSUME NEW mode, NEW last, EndsIn(mode, <<>>, last)
    PROVE  last = mode
  <1>1. Len(<<>>) = 0
    OBVIOUS
  <1> QED BY <1>1 DEF EndsIn

\* A message at the end of the queue acts on the mode that the others lead to; one
\* that sets a mode does so wherever they lead.
LEMMA OneMoreToCome ==
    ASSUME NEW mode \in InterfaceMode, NEW queue \in Seq(InterfaceMsg), NEW msg \in InterfaceMsg
    PROVE  /\ \A last : EndsIn(mode, queue, last) =>
                            EndsIn(mode, Append(queue, msg), ModeAfter(last, msg))
           /\ SetsMode(msg) => EndsIn(mode, Append(queue, msg), ModeAfter(mode, msg))
  <1> DEFINE more == Append(queue, msg)
             n == Len(queue)
  <1>1. /\ n \in Nat /\ Len(more) = n + 1
        /\ \A j \in 1 .. n : more[j] = queue[j]
        /\ more[n + 1] = msg
    BY AppendProperties
  <1> HIDE DEF more, n
  <1>2. ASSUME SetsMode(msg) PROVE EndsIn(mode, more, ModeAfter(mode, msg))
    <2> DEFINE base == ModeAfter(mode, msg)
    <2>1. base \in InterfaceMode
      BY ModesAreModes
    <2>2. n + 1 \in 0 .. Len(more) /\ n + 1 # 0 /\ (n + 1) + 1 .. Len(more) = {}
      BY <1>1
    <2> HIDE DEF base
    <2>3. SetsMode(more[n + 1]) /\ base = ModeAfter(mode, more[n + 1])
      BY <1>1, <1>2 DEF base
    <2>4. EndsIn(mode, more, base)
      BY <2>1, <2>2, <2>3 DEF EndsIn
    <2> QED BY <2>4 DEF base
  <1>3. ASSUME NEW last, EndsIn(mode, queue, last), ~SetsMode(msg)
        PROVE  EndsIn(mode, more, ModeAfter(last, msg))
    <2>1. PICK k \in 0 .. n, base \in InterfaceMode :
              /\ k = 0 => base = mode
              /\ k > 0 => SetsMode(queue[k]) /\ base = ModeAfter(mode, queue[k])
              /\ \A j \in k + 1 .. n : ~SetsMode(queue[j])
              /\ last = IF /\ base = "PREPARATION_MODE"
                           /\ \E j \in k + 1 .. n : queue[j].type = "STOP_PREPARATION"
                        THEN "WAIT_MODE" ELSE base
      BY <1>3 DEF EndsIn, n
    <2>2. k \in 0 .. Len(more) /\ k + 1 .. Len(more) = (k + 1 .. n) \cup {n + 1}
      BY <1>1
    <2>3. k > 0 => more[k] = queue[k]
      BY <1>1
    <2>4. \A j \in k + 1 .. n : more[j] = queue[j]
      BY <1>1
    <2>5. ModeAfter(last, msg) = IF last = "PREPARATION_MODE" /\ msg.type = "STOP_PREPARATION"
                                 THEN "WAIT_MODE" ELSE last
      BY <1>3 DEF ModeAfter, SetsMode
    <2>6. \A j \in k + 1 .. Len(more) : ~SetsMode(more[j])
      BY <1>1, <1>3, <2>1, <2>2, <2>4
    <2>7. (\E j \in k + 1 .. Len(more) : more[j].type = "STOP_PREPARATION") <=>
              \/ \E j \in k + 1 .. n : queue[j].type = "STOP_PREPARATION"
              \/ msg.type = "STOP_PREPARATION"
      BY <1>1, <2>2, <2>4
    <2>8. ModeAfter(last, msg) =
              IF /\ base = "PREPARATION_MODE"
                 /\ \E j \in k + 1 .. Len(more) : more[j].type = "STOP_PREPARATION"
              THEN "WAIT_MODE" ELSE base
      BY <2>1, <2>5, <2>7
    <2> QED BY <2>1, <2>2, <2>3, <2>6, <2>8 DEF EndsIn
  <1>4. ASSUME NEW last, SetsMode(msg) PROVE ModeAfter(last, msg) = ModeAfter(mode, msg)
    BY <1>4 DEF ModeAfter, SetsMode
  <1> QED BY <1>2, <1>3, <1>4 DEF more

\* Processing the first message does not change where the queue leads.
LEMMA OneLessToCome ==
    ASSUME NEW mode \in InterfaceMode, NEW queue \in Seq(InterfaceMsg), queue # <<>>,
           NEW last, EndsIn(mode, queue, last)
    PROVE  EndsIn(ModeAfter(mode, Head(queue)), Tail(queue), last)
  <1> DEFINE rest == Tail(queue)
             n == Len(rest)
             now == ModeAfter(mode, Head(queue))
  <1>1. /\ n \in Nat /\ Len(queue) = n + 1
        /\ \A j \in 1 .. n : rest[j] = queue[j + 1]
        /\ Head(queue) = queue[1]
    BY HeadTailProperties
  <1>2. now \in InterfaceMode
    BY ModesAreModes
  <1>3. now = ModeAfter(mode, queue[1])
    BY <1>1
  <1> HIDE DEF rest, n, now
  <1>4. PICK k \in 0 .. n + 1, base \in InterfaceMode :
            /\ k = 0 => base = mode
            /\ k > 0 => SetsMode(queue[k]) /\ base = ModeAfter(mode, queue[k])
            /\ \A j \in k + 1 .. n + 1 : ~SetsMode(queue[j])
            /\ last = IF /\ base = "PREPARATION_MODE"
                         /\ \E j \in k + 1 .. n + 1 : queue[j].type = "STOP_PREPARATION"
                      THEN "WAIT_MODE" ELSE base
    BY <1>1 DEF EndsIn
  <1>5. \A m \in Nat : (\E j \in m + 1 .. n : rest[j].type = "STOP_PREPARATION") <=>
            \E j \in m + 2 .. n + 1 : queue[j].type = "STOP_PREPARATION"
    <2>1. ASSUME NEW m \in Nat, NEW j \in m + 2 .. n + 1
          PROVE  j - 1 \in m + 1 .. n /\ rest[j - 1] = queue[j]
      BY <1>1
    <2>2. ASSUME NEW m \in Nat, NEW j \in m + 1 .. n
          PROVE  j + 1 \in m + 2 .. n + 1 /\ rest[j] = queue[j + 1]
      BY <1>1
    <2> QED BY <2>1, <2>2
  <1>9. ASSUME NEW m \in Nat, \A j \in m + 2 .. n + 1 : ~SetsMode(queue[j])
        PROVE  \A j \in m + 1 .. n : ~SetsMode(rest[j])
    <2>1. ASSUME NEW j \in m + 1 .. n
          PROVE  j + 1 \in m + 2 .. n + 1 /\ rest[j] = queue[j + 1]
      BY <1>1
    <2> QED BY <1>9, <2>1
  <1>6. ASSUME NEW m \in 1 .. n, k = m + 1
        PROVE  EndsIn(now, rest, last)
    <2>1. m \in Nat /\ m \in 0 .. n /\ m > 0 /\ rest[m] = queue[k] /\ k > 0 /\ k + 1 = m + 2
      BY <1>1, <1>6
    <2>2. base = ModeAfter(now, rest[m]) /\ SetsMode(rest[m])
      BY <1>4, <2>1 DEF ModeAfter, SetsMode
    <2>3. \A j \in m + 1 .. n : ~SetsMode(rest[j])
      BY <1>4, <1>9, <2>1
    <2>4. (\E j \in m + 1 .. n : rest[j].type = "STOP_PREPARATION") <=>
              \E j \in k + 1 .. n + 1 : queue[j].type = "STOP_PREPARATION"
      BY <1>5, <2>1
    <2>5. m > 0 => SetsMode(rest[m]) /\ base = ModeAfter(now, rest[m])
      BY <2>2
    <2>6. last = IF /\ base = "PREPARATION_MODE"
                    /\ \E j \in m + 1 .. n : rest[j].type = "STOP_PREPARATION"
                 THEN "WAIT_MODE" ELSE base
      BY <1>4, <2>4
    <2>7. m = 0 => base = now
      BY <2>1
    <2> QED BY <2>1, <2>3, <2>5, <2>6, <2>7 DEF EndsIn, n
  <1>7. CASE k = 1
    <2>1. base = now
      BY <1>3, <1>4, <1>7
    <2>2. \A j \in 1 .. n : ~SetsMode(rest[j])
      <3>1. 0 \in Nat /\ 0 + 1 = 1 /\ 0 + 2 = 2 /\ k + 1 = 2
        BY <1>7
      <3> QED BY <1>4, <1>9, <3>1
    <2>3. (\E j \in 1 .. n : rest[j].type = "STOP_PREPARATION") <=>
              \E j \in 2 .. n + 1 : queue[j].type = "STOP_PREPARATION"
      BY <1>5
    <2>4. 0 \in 0 .. n /\ 0 + 1 = 1 /\ k + 1 = 2
      BY <1>1, <1>7
    <2>5. EndsIn(now, rest, last)
      BY <1>2, <1>4, <2>1, <2>2, <2>3, <2>4 DEF EndsIn, n
    <2> QED BY <2>5 DEF now, rest
  <1>8. CASE k = 0
    <2>1. base = mode /\ ~SetsMode(queue[1]) /\ \A j \in 1 .. n : ~SetsMode(rest[j])
      <3>1. /\ 0 \in Nat /\ 0 + 1 = 1 /\ 0 + 2 = 2 /\ k + 1 = 1
            /\ 1 \in 1 .. n + 1 /\ 2 .. n + 1 \subseteq 1 .. n + 1
        BY <1>1, <1>8
      <3> QED BY <1>4, <1>8, <1>9, <3>1
    <2>2. now = IF queue[1].type = "STOP_PREPARATION" /\ mode = "PREPARATION_MODE"
                THEN "WAIT_MODE" ELSE mode
      BY <1>3, <2>1 DEF ModeAfter, SetsMode
    <2>3. (\E j \in 1 .. n + 1 : queue[j].type = "STOP_PREPARATION") <=>
              \/ queue[1].type = "STOP_PREPARATION"
              \/ \E j \in 1 .. n : rest[j].type = "STOP_PREPARATION"
      <3>1. 1 .. n + 1 = {1} \cup (2 .. n + 1)
        BY <1>1
      <3>2. (\E j \in 1 .. n : rest[j].type = "STOP_PREPARATION") <=>
                \E j \in 2 .. n + 1 : queue[j].type = "STOP_PREPARATION"
        BY <1>5
      <3> QED BY <3>1, <3>2
    <2>4. last = IF /\ now = "PREPARATION_MODE"
                    /\ \E j \in 1 .. n : rest[j].type = "STOP_PREPARATION"
                 THEN "WAIT_MODE" ELSE now
      BY <1>4, <1>8, <2>1, <2>2, <2>3
    <2>5. 0 \in 0 .. n /\ 0 + 1 = 1
      BY <1>1
    <2>6. EndsIn(now, rest, last)
      BY <1>2, <2>1, <2>4, <2>5 DEF EndsIn, n
    <2> QED BY <2>6 DEF now, rest
  <1>10. k = 0 \/ k = 1 \/ \E m \in 1 .. n : k = m + 1
    <2>1. k > 1 => k - 1 \in 1 .. n /\ k = (k - 1) + 1
      BY <1>1
    <2> QED BY <1>1, <2>1
  <1> QED BY <1>6, <1>7, <1>8, <1>10 DEF now, rest

\* A shot ends the turn for the interface at once: either a message to come sets
\* the mode anyway, or the interface will go on waiting.
LEMMA ShotAndToCome ==
    ASSUME NEW queue \in Seq(InterfaceMsg), NEW last, EndsIn("OWN_TURN_MODE", queue, last)
    PROVE  \/ EndsIn("WAIT_MODE", queue, last)
           \/ last = "OWN_TURN_MODE" /\ EndsIn("WAIT_MODE", queue, "WAIT_MODE")
  <1> DEFINE n == Len(queue)
  <1>1. PICK k \in 0 .. n, base \in InterfaceMode :
            /\ k = 0 => base = "OWN_TURN_MODE"
            /\ k > 0 => SetsMode(queue[k]) /\ base = ModeAfter("OWN_TURN_MODE", queue[k])
            /\ \A j \in k + 1 .. n : ~SetsMode(queue[j])
            /\ last = IF /\ base = "PREPARATION_MODE"
                         /\ \E j \in k + 1 .. n : queue[j].type = "STOP_PREPARATION"
                      THEN "WAIT_MODE" ELSE base
    BY DEF EndsIn
  <1>2. n \in Nat
    BY LenProperties
  <1>3. CASE k > 0
    <2>1. base = ModeAfter("WAIT_MODE", queue[k])
      BY <1>1, <1>3 DEF ModeAfter, SetsMode
    <2> QED BY <1>1, <1>3, <2>1 DEF EndsIn
  <1>4. CASE k = 0
    <2>1. "WAIT_MODE" \in InterfaceMode /\ 0 \in 0 .. n
      BY <1>2 DEF InterfaceMode
    <2>2. last = "OWN_TURN_MODE"
      BY <1>1, <1>4
    <2>3. EndsIn("WAIT_MODE", queue, "WAIT_MODE")
      BY <1>1, <1>4, <2>1 DEF EndsIn
    <2> QED BY <2>2, <2>3
  <1> QED BY <1>2, <1>3, <1>4

-----------------------------------------------------------------------------
(***************************************************************************)
(* The mode that the session calls for                                     *)
(***************************************************************************)

\* The mode of this client once he has processed what is under way to him.
WillBe(c, mode) == EndsIn(interface[c].mode, to_interface[c], mode)

\* A shot of this client is under way to the session.
ShotUnderWay(c) == \E j \in 1 .. Len(to_session[c]) : to_session[c][j].type = "GAME_MOVE"

\* The client c in the slot i is, or will be, in the mode that the state of the
\* session calls for.  He stops his own turn himself when he shoots, and then a
\* shot is under way, or the session holds one already.
ModeFits(i, c) ==
    /\ state = "PREPARATION" => WillBe(c, "PREPARATION_MODE")
    /\ state \in {"WAIT_START", "PROCESS_TURN"} => WillBe(c, "WAIT_MODE")
    /\ state = "GAME_TURN" /\ i # cur_turn_player_idx => WillBe(c, "ENEMY_TURN_MODE")
    /\ state = "GAME_TURN" /\ i = cur_turn_player_idx =>
           \/ WillBe(c, "OWN_TURN_MODE")
           \/ WillBe(c, "WAIT_MODE") /\ (has_last_shot \/ ShotUnderWay(c))

ModesFit == \A i \in PlayerNumber, c \in Client : players[i] = c => ModeFits(i, c)

\* No client has two seats.
OneSeat == players[0] = players[1] => players[0] = None

\* A client takes a seat only when he has none.
LEMMA SeatsStayApart ==
    /\ Init => OneSeat
    /\ TypeOK /\ OneSeat /\ [Next]_vars => OneSeat'
<1>1. Init => OneSeat
  BY DEF Init, OneSeat, PlayerNumber
<1>2. ASSUME TypeOK, OneSeat, [Next]_vars PROVE OneSeat'
  <2>1. ASSUME NEW client \in Client, Asks(client) PROVE OneSeat'
    <3>1. players[0] # client /\ players[1] # client
      BY <2>1 DEF Asks, HasPlayer, PlayerNumber
    <3> QED BY <2>1, <3>1 DEF Asks, OneSeat, FirstFree, TypeOK, PlayerNumber
  <2>2. ASSUME NEW gone, players' = Remaining(gone) PROVE OneSeat'
    BY <1>2, <2>2 DEF Remaining, OneSeat, PlayerNumber
  <2>3. ASSUME UNCHANGED players PROVE OneSeat'
    BY <1>2, <2>3 DEF OneSeat
  <2>4. ASSUME NEW client \in Client, ClientAction(client) PROVE OneSeat'
    BY <2>1, <2>2, <2>3, <2>4
       DEF ClientAction, JoinFirst, JoinSecond, Leave, SendField, Move, LateMove, end_turn
  <2>5. ASSUME TimeoutEvent PROVE OneSeat'
    BY <2>2, <2>3, <2>5
       DEF TimeoutEvent, PreparationTimeout, CheckStartFieldsTimeout, GameStartTimeout,
           GameTurnTimeout, ChangeTurnTimeout, EndGameTimeout, Ignored, sessionVars,
           stop_preparation, check_start_fields, start_game, end_turn, change_turn_player, end_game
  <2>6. ASSUME (\E ticks \in 0 .. MaxPassed : Select(ticks)) \/ TakeHandler \/ EndPass
        PROVE  OneSeat'
    BY <2>3, <2>6 DEF Select, TakeHandler, EndPass, sessionVars
  <2>7. CASE UNCHANGED vars
    BY <2>3, <2>7 DEF vars, sessionVars
  <2> QED BY <1>2, <2>4, <2>5, <2>6, <2>7 DEF Next
<1> QED BY <1>1, <1>2

\* What is sent reaches the players in their slots.
LEMMA SentToSeat ==
    ASSUME OneSeat', SessionAssumption, NEW i \in PlayerNumber, NEW c \in Client,
           players'[i] = c, NEW sent
    PROVE  SentTo(sent, c) = sent[i]
  <1>1. \A j \in PlayerNumber : players'[j] = c => j = i
    BY DEF OneSeat, PlayerNumber, SessionAssumption
  <1>2. (CHOOSE j \in PlayerNumber : players'[j] = c) = i
    BY <1>1
  <1> QED BY <1>2 DEF SentTo

\* Who keeps his seat gets what is sent to his slot, whatever becomes of others.
LEMMA SeatedReceive ==
    ASSUME OneSeat', SessionAssumption, NEW i \in PlayerNumber, NEW c \in Client,
           players'[i] = c, NEW sent,
           Send(sent) \/ \E closed : SendAndClose(sent, closed) /\ c \notin closed
    PROVE  /\ interface' = interface
           /\ to_interface'[c] = to_interface[c] \o sent[i]
  <1>1. SentTo(sent, c) = sent[i]
    BY SentToSeat
  <1>2. ASSUME Send(sent)
        PROVE  interface' = interface /\ to_interface'[c] = to_interface[c] \o SentTo(sent, c)
    BY <1>2 DEF Send
  <1>3. ASSUME NEW closed, SendAndClose(sent, closed), c \notin closed
        PROVE  interface' = interface /\ to_interface'[c] = to_interface[c] \o SentTo(sent, c)
    BY <1>3 DEF SendAndClose
  <1>4. to_interface'[c] = to_interface[c] \o SentTo(sent, c) /\ interface' = interface
    BY <1>2, <1>3
  <1> QED BY <1>1, <1>4

\* At the end of connections the others' queues to the session stay.
LEMMA SeatedKeepQueue ==
    ASSUME NEW c \in Client, NEW sent, NEW closed, SendAndClose(sent, closed), c \notin closed
    PROVE  to_session'[c] = to_session[c]
  BY DEF SendAndClose

\* One or two messages are appended one after the other.
LEMMA FewAppended ==
    ASSUME NEW queue \in Seq(InterfaceMsg), NEW first \in InterfaceMsg, NEW second \in InterfaceMsg
    PROVE  /\ queue \o <<>> = queue
           /\ queue \o <<first>> = Append(queue, first)
           /\ queue \o <<first, second>> = Append(Append(queue, first), second)
           /\ Append(queue, first) \in Seq(InterfaceMsg)
  OBVIOUS

\* What only shows something does not lead to another mode.
Shows(msg) == msg.type \in {"GAME_STATE", "GAME_FIELD", "SERVER_CONN_STATUS"}

LEMMA ShownKeepsMode ==
    ASSUME NEW mode, NEW msg, Shows(msg)
    PROVE  ModeAfter(mode, msg) = mode
  BY DEF ModeAfter, Shows

\* A player stays fit if nothing that counts for him changes.
LEMMA ModeStaysFit ==
    ASSUME NEW i \in PlayerNumber, NEW c \in Client, ModeFits(i, c),
           state' = state, cur_turn_player_idx' = cur_turn_player_idx,
           \A mode : WillBe(c, mode) => WillBe(c, mode)',
           \/ state # "GAME_TURN"
           \/ i # cur_turn_player_idx
           \/ has_last_shot \/ ShotUnderWay(c) => has_last_shot' \/ ShotUnderWay(c)'
    PROVE  ModeFits(i, c)'
  BY DEF ModeFits

\* Between matches nothing is called for.
LEMMA NoMatchFits ==
    ASSUME state' \in {"NO_VACANT_GAME", "WAIT_PLAYER"}, NEW i \in PlayerNumber, NEW c \in Client
    PROVE  ModeFits(i, c)'
  BY DEF ModeFits

\* A shot that is not served yet stays under way.
LEMMA ShotsStayUnderWay ==
    ASSUME PlayTypeOK, NEW c \in Client, ShotUnderWay(c),
           \/ to_session'[c] = to_session[c]
           \/ \E more \in Seq(SessionMsg) : to_session'[c] = to_session[c] \o more
           \/ \E type : Serve(c, type) /\ type # "GAME_MOVE"
    PROVE  ShotUnderWay(c)'
  <1>1. PICK j \in 1 .. Len(to_session[c]) : to_session[c][j].type = "GAME_MOVE"
    BY DEF ShotUnderWay
  <1>2. to_session[c] \in Seq(SessionMsg)
    BY DEF PlayTypeOK
  <1>3. CASE to_session'[c] = to_session[c]
    BY <1>1, <1>3 DEF ShotUnderWay
  <1>4. ASSUME NEW more \in Seq(SessionMsg), to_session'[c] = to_session[c] \o more
        PROVE  ShotUnderWay(c)'
    <2>1. /\ j \in 1 .. Len(to_session'[c])
          /\ to_session'[c][j] = to_session[c][j]
      BY <1>1, <1>2, <1>4, ConcatProperties, LenProperties
    <2> QED BY <1>1, <2>1 DEF ShotUnderWay
  <1>5. ASSUME NEW type, Serve(c, type), type # "GAME_MOVE" PROVE ShotUnderWay(c)'
    <2>1. /\ to_session[c] # <<>>
          /\ Head(to_session[c]).type = type
          /\ to_session'[c] = Tail(to_session[c])
      BY <1>5 DEF Serve, PlayTypeOK
    <2>2. j # 1
      BY <1>1, <1>5, <2>1
    <2>3. /\ j - 1 \in 1 .. Len(Tail(to_session[c]))
          /\ Tail(to_session[c])[j - 1] = to_session[c][j]
      BY <1>1, <1>2, <2>1, <2>2, HeadTailProperties, LenProperties
    <2> QED BY <1>1, <2>1, <2>3 DEF ShotUnderWay
  <1> QED BY <1>3, <1>4, <1>5

\* Where the queue leads with the messages that a step appends.
LEMMA ModesReceived ==
    ASSUME PlayTypeOK, NEW c \in Client, interface' = interface,
           NEW first \in InterfaceMsg, NEW second \in InterfaceMsg
    PROVE  /\ to_interface'[c] = to_interface[c] \o <<>> =>
                  \A mode : WillBe(c, mode) => WillBe(c, mode)'
           /\ to_interface'[c] = to_interface[c] \o <<first>> =>
                  /\ \A mode : WillBe(c, mode) => WillBe(c, ModeAfter(mode, first))'
                  /\ SetsMode(first) => \A mode : WillBe(c, ModeAfter(mode, first))'
           /\ to_interface'[c] = to_interface[c] \o <<first, second>> =>
                  /\ \A mode : WillBe(c, mode) =>
                                   WillBe(c, ModeAfter(ModeAfter(mode, first), second))'
                  /\ SetsMode(second) => \A mode : WillBe(c, ModeAfter(mode, second))'
  <1> DEFINE queue == to_interface[c]
             now == interface[c].mode
             one == Append(queue, first)
             two == Append(one, second)
  <1>1. queue \in Seq(InterfaceMsg) /\ now \in InterfaceMode
    BY DEF PlayTypeOK, Interface
  <1>2. /\ queue \o <<>> = queue /\ queue \o <<first>> = one /\ queue \o <<first, second>> = two
        /\ one \in Seq(InterfaceMsg)
    BY <1>1, FewAppended
  <1>3. /\ \A mode : WillBe(c, mode) <=> EndsIn(now, queue, mode)
        /\ \A mode : WillBe(c, mode)' <=> EndsIn(now, to_interface'[c], mode)
    BY DEF WillBe
  <1> HIDE DEF queue, now
  <1>4. /\ \A mode : EndsIn(now, queue, mode) => EndsIn(now, one, ModeAfter(mode, first))
        /\ SetsMode(first) => EndsIn(now, one, ModeAfter(now, first))
    BY <1>1, OneMoreToCome
  <1> HIDE DEF one
  <1>5. /\ \A mode : EndsIn(now, one, mode) => EndsIn(now, two, ModeAfter(mode, second))
        /\ SetsMode(second) => EndsIn(now, two, ModeAfter(now, second))
    BY <1>1, <1>2, OneMoreToCome
  <1> HIDE DEF two
  <1>6. \A msg, mode : SetsMode(msg) => ModeAfter(mode, msg) = ModeAfter(now, msg)
    BY DEF SetsMode, ModeAfter
  <1>7. ASSUME to_interface'[c] = to_interface[c] \o <<>>
        PROVE  \A mode : WillBe(c, mode) => WillBe(c, mode)'
    BY <1>2, <1>3, <1>7 DEF queue
  <1>8. ASSUME to_interface'[c] = to_interface[c] \o <<first>>
        PROVE  /\ \A mode : WillBe(c, mode) => WillBe(c, ModeAfter(mode, first))'
               /\ SetsMode(first) => \A mode : WillBe(c, ModeAfter(mode, first))'
    <2>1. to_interface'[c] = one
      BY <1>2, <1>8 DEF queue
    <2>2. \A mode : WillBe(c, mode)' <=> EndsIn(now, one, mode)
      BY <1>3, <2>1
    <2> QED BY <1>3, <1>4, <1>6, <2>2
  <1>9. ASSUME to_interface'[c] = to_interface[c] \o <<first, second>>
        PROVE  /\ \A mode : WillBe(c, mode) =>
                                WillBe(c, ModeAfter(ModeAfter(mode, first), second))'
               /\ SetsMode(second) => \A mode : WillBe(c, ModeAfter(mode, second))'
    <2>1. to_interface'[c] = two
      BY <1>2, <1>9 DEF queue
    <2>2. \A mode : WillBe(c, mode)' <=> EndsIn(now, two, mode)
      BY <1>3, <2>1
    <2> QED BY <1>3, <1>4, <1>5, <1>6, <2>2
  <1> QED BY <1>7, <1>8, <1>9

\* The messages of the session, by what they do to modes.
LEMMA ModeMessages ==
    /\ \A shown \in ShownState : /\ GameStateMsg(shown) \in InterfaceMsg
                                 /\ Shows(GameStateMsg(shown))
    /\ \A board \in Field, is_own \in BOOLEAN : /\ GameFieldMsg(board, is_own) \in InterfaceMsg
                                                /\ Shows(GameFieldMsg(board, is_own))
    /\ \A is_on \in BOOLEAN : /\ ServerConnStatusMsg(is_on) \in InterfaceMsg
                              /\ Shows(ServerConnStatusMsg(is_on))
    /\ StopPreparationMsg \in InterfaceMsg
    /\ ModeAfter("PREPARATION_MODE", StopPreparationMsg) = "WAIT_MODE"
    /\ \A duration \in Int : \A mode :
           /\ StartFieldReqMsg(duration) \in InterfaceMsg
           /\ SetsMode(StartFieldReqMsg(duration))
           /\ ModeAfter(mode, StartFieldReqMsg(duration)) = "PREPARATION_MODE"
    /\ \A duration \in Int, is_own \in BOOLEAN : \A mode :
           /\ StartTurnMsg(is_own, duration) \in InterfaceMsg
           /\ SetsMode(StartTurnMsg(is_own, duration))
           /\ ModeAfter(mode, StartTurnMsg(is_own, duration)) =
                  IF is_own THEN "OWN_TURN_MODE" ELSE "ENEMY_TURN_MODE"
    /\ \A is_own \in BOOLEAN : \A mode :
           /\ StopTurnMsg(is_own) \in InterfaceMsg
           /\ SetsMode(StopTurnMsg(is_own))
           /\ ModeAfter(mode, StopTurnMsg(is_own)) = "WAIT_MODE"
  BY MessagesAreTyped
     DEF GameStateMsg, GameFieldMsg, ServerConnStatusMsg, StopPreparationMsg, StartFieldReqMsg,
         StartTurnMsg, StopTurnMsg, Shows, SetsMode, ModeAfter

\* What is only shown does not change where the queue leads.
LEMMA ShownStaysToCome ==
    ASSUME PlayTypeOK, NEW c \in Client, interface' = interface,
           \/ to_interface'[c] = to_interface[c] \o <<>>
           \/ \E msg \in InterfaceMsg :
                  Shows(msg) /\ to_interface'[c] = to_interface[c] \o <<msg>>
           \/ \E first, second \in InterfaceMsg :
                  /\ Shows(first) /\ Shows(second)
                  /\ to_interface'[c] = to_interface[c] \o <<first, second>>
    PROVE  \A mode : WillBe(c, mode) => WillBe(c, mode)'
  <1>1. CASE to_interface'[c] = to_interface[c] \o <<>>
    BY <1>1, ModesReceived, MessagesAreTyped
  <1>2. ASSUME NEW msg \in InterfaceMsg, Shows(msg),
               to_interface'[c] = to_interface[c] \o <<msg>>
        PROVE  \A mode : WillBe(c, mode) => WillBe(c, mode)'
    <2>1. \A mode : WillBe(c, mode) => WillBe(c, ModeAfter(mode, msg))'
      BY <1>2, ModesReceived
    <2>2. \A mode : ModeAfter(mode, msg) = mode
      BY <1>2, ShownKeepsMode
    <2> QED BY <2>1, <2>2
  <1>3. ASSUME NEW first \in InterfaceMsg, NEW second \in InterfaceMsg,
               Shows(first), Shows(second),
               to_interface'[c] = to_interface[c] \o <<first, second>>
        PROVE  \A mode : WillBe(c, mode) => WillBe(c, mode)'
    <2>1. \A mode : WillBe(c, mode) => WillBe(c, ModeAfter(ModeAfter(mode, first), second))'
      BY <1>3, ModesReceived
    <2>2. \A mode : ModeAfter(mode, first) = mode /\ ModeAfter(mode, second) = mode
      BY <1>3, ShownKeepsMode
    <2> QED BY <2>1, <2>2
  <1> QED BY <1>1, <1>2, <1>3

\* A player who is only shown something stays fit as long as the session stays.
LEMMA ShownStaysFit ==
    ASSUME PlayTypeOK, NEW i \in PlayerNumber, NEW c \in Client, ModeFits(i, c),
           UNCHANGED <<state, cur_turn_player_idx, last_shot>>, interface' = interface,
           ShotUnderWay(c) => ShotUnderWay(c)',
           \/ to_interface'[c] = to_interface[c] \o <<>>
           \/ \E msg \in InterfaceMsg :
                  Shows(msg) /\ to_interface'[c] = to_interface[c] \o <<msg>>
           \/ \E first, second \in InterfaceMsg :
                  /\ Shows(first) /\ Shows(second)
                  /\ to_interface'[c] = to_interface[c] \o <<first, second>>
    PROVE  ModeFits(i, c)'
  <1>1. \A mode : WillBe(c, mode) => WillBe(c, mode)'
    BY ShownStaysToCome
  <1>2. has_last_shot' = has_last_shot
    BY DEF has_last_shot
  <1> QED BY <1>1, <1>2, ModeStaysFit

\* A turn starts: one player will be told that it is his, the other that it is not.
LEMMA TurnStartFits ==
    ASSUME PlayTypeOK, SessionAssumption, NEW i \in PlayerNumber, NEW c \in Client,
           state' = "GAME_TURN", interface' = interface, NEW first \in InterfaceMsg,
           NEW is_own \in BOOLEAN, is_own = (i = cur_turn_player_idx'),
           \/ to_interface'[c] = to_interface[c] \o <<StartTurnMsg(is_own, TURN_DURATION)>>
           \/ to_interface'[c] = to_interface[c] \o <<first, StartTurnMsg(is_own, TURN_DURATION)>>
    PROVE  ModeFits(i, c)'
  <1>1. TURN_DURATION \in Int
    BY DEF SessionAssumption
  <1>2. PICK turn \in InterfaceMsg :
            /\ turn = StartTurnMsg(is_own, TURN_DURATION)
            /\ SetsMode(turn)
            /\ \A mode : ModeAfter(mode, turn) =
                             IF is_own THEN "OWN_TURN_MODE" ELSE "ENEMY_TURN_MODE"
    <2>1. /\ StartTurnMsg(is_own, TURN_DURATION) \in InterfaceMsg
          /\ SetsMode(StartTurnMsg(is_own, TURN_DURATION))
      BY <1>1, ModeMessages
    <2>2. \A mode : ModeAfter(mode, StartTurnMsg(is_own, TURN_DURATION)) =
                        IF is_own THEN "OWN_TURN_MODE" ELSE "ENEMY_TURN_MODE"
      BY <1>1, ModeMessages
    <2> QED BY <2>1, <2>2, Zenon
  <1>3. \A mode : WillBe(c, ModeAfter(mode, turn))'
    <2>1. CASE to_interface'[c] = to_interface[c] \o <<turn>>
      BY <1>2, <2>1, ModesReceived
    <2>2. CASE to_interface'[c] = to_interface[c] \o <<first, turn>>
      BY <1>2, <2>2, ModesReceived
    <2> QED BY <1>2, <2>1, <2>2
  <1>4. CASE is_own
    <2>1. ModeAfter("WAIT_MODE", turn) = "OWN_TURN_MODE"
      BY <1>2, <1>4
    <2>2. WillBe(c, "OWN_TURN_MODE")'
      BY <1>3, <2>1
    <2> QED BY <1>4, <2>2 DEF ModeFits
  <1>5. CASE ~is_own
    <2>1. ModeAfter("WAIT_MODE", turn) = "ENEMY_TURN_MODE"
      BY <1>2, <1>5
    <2>2. WillBe(c, "ENEMY_TURN_MODE")'
      BY <1>3, <2>1
    <2> QED BY <1>5, <2>2 DEF ModeFits
  <1> QED BY <1>4, <1>5

\* A turn stops: both will wait.
LEMMA TurnStopFits ==
    ASSUME PlayTypeOK, NEW i \in PlayerNumber, NEW c \in Client,
           state' = "PROCESS_TURN", interface' = interface, NEW is_own \in BOOLEAN,
           to_interface'[c] = to_interface[c] \o <<StopTurnMsg(is_own)>>
    PROVE  ModeFits(i, c)'
  <1>1. /\ StopTurnMsg(is_own) \in InterfaceMsg /\ SetsMode(StopTurnMsg(is_own))
        /\ ModeAfter("WAIT_MODE", StopTurnMsg(is_own)) = "WAIT_MODE"
    BY ModeMessages
  <1>2. WillBe(c, ModeAfter("WAIT_MODE", StopTurnMsg(is_own)))'
    BY <1>1, ModesReceived
  <1> QED BY <1>1, <1>2 DEF ModeFits

-----------------------------------------------------------------------------
(***************************************************************************)
(* What the session sends keeps the modes fit                              *)
(***************************************************************************)

\* What every step of a game may take for granted.
Seated ==
    /\ PlayInv
    /\ OneSeat /\ OneSeat'
    /\ TypeOK'
    /\ ModesFit

\* The message that is served is not a shot, or not this client's.
LEMMA OtherServed ==
    ASSUME PlayTypeOK, NEW c \in Client, NEW d \in Client, NEW type, Serve(d, type),
           type # "GAME_MOVE" \/ d # c, ShotUnderWay(c)
    PROVE  ShotUnderWay(c)'
  <1>1. CASE d # c
    <2>1. to_session'[c] = to_session[c]
      BY <1>1 DEF Serve, PlayTypeOK
    <2> QED BY <2>1, ShotsStayUnderWay
  <1>2. CASE d = c
    BY <1>2, ShotsStayUnderWay
  <1> QED BY <1>1, <1>2

\* A request for a game.
LEMMA RequestsKeepModes ==
    ASSUME Seated, SessionAssumption, NEW d \in Client, ServeSessionReq(d)
    PROVE  ModesFit'
  <1> SUFFICES ASSUME NEW i \in PlayerNumber, NEW c \in Client, players'[i] = c
               PROVE  ModeFits(i, c)'
    BY DEF ModesFit
  <1> USE DEF Seated
  <1>1. CASE JoinFirst(d)
    BY <1>1, NoMatchFits DEF JoinFirst
  <1>2. ASSUME JoinSecond(d), Send(ToAll(<<StartFieldReqMsg(PREPARATION_DURATION)>>))
        PROVE  ModeFits(i, c)'
    <2>1. PICK req \in InterfaceMsg :
              /\ req = StartFieldReqMsg(PREPARATION_DURATION)
              /\ SetsMode(req)
              /\ \A mode : ModeAfter(mode, req) = "PREPARATION_MODE"
      <3>1. PREPARATION_DURATION \in Int
        BY DEF SessionAssumption
      <3>2. /\ StartFieldReqMsg(PREPARATION_DURATION) \in InterfaceMsg
            /\ SetsMode(StartFieldReqMsg(PREPARATION_DURATION))
        BY <3>1, ModeMessages
      <3>3. \A mode : ModeAfter(mode, StartFieldReqMsg(PREPARATION_DURATION)) = "PREPARATION_MODE"
        BY <3>1, ModeMessages
      <3> QED BY <3>2, <3>3, Zenon
    <2>2. interface' = interface /\ to_interface'[c] = to_interface[c] \o ToAll(<<req>>)[i]
      BY <1>2, <2>1, SeatedReceive
    <2>3. to_interface'[c] = to_interface[c] \o <<req>>
      BY <2>2 DEF ToAll
    <2>4. WillBe(c, ModeAfter("WAIT_MODE", req))'
      BY <2>1, <2>2, <2>3, ModesReceived DEF PlayInv
    <2>5. state' = "PREPARATION"
      BY <1>2 DEF JoinSecond
    <2>6. WillBe(c, "PREPARATION_MODE")'
      BY <2>1, <2>4
    <2> QED BY <2>5, <2>6 DEF ModeFits
  <1>3. ASSUME UNCHANGED vars, Send([Nothing EXCEPT ![Slot(d)] = <<GameStateMsg(state)>>])
        PROVE  ModeFits(i, c)'
    <2>1. ModeFits(i, c) /\ UNCHANGED <<state, cur_turn_player_idx, last_shot>>
      BY <1>3 DEF ModesFit, vars, sessionVars
    <2>2. state \in ShownState
      BY DEF PlayInv, TypeOK, GameState, ShownState
    <2>3. GameStateMsg(state) \in InterfaceMsg /\ Shows(GameStateMsg(state))
      BY <2>2, ModeMessages
    <2>4. [Nothing EXCEPT ![Slot(d)] = <<GameStateMsg(state)>>][i] \in {<<>>, <<GameStateMsg(state)>>}
      BY DEF Nothing
    <2>5. /\ interface' = interface
          /\ to_interface'[c] =
                 to_interface[c] \o [Nothing EXCEPT ![Slot(d)] = <<GameStateMsg(state)>>][i]
      BY <1>3, SeatedReceive
    <2>6. \/ to_interface'[c] = to_interface[c] \o <<>>
          \/ to_interface'[c] = to_interface[c] \o <<GameStateMsg(state)>>
      BY <2>4, <2>5
    <2>7. ShotUnderWay(c) => ShotUnderWay(c)'
      BY OtherServed DEF ServeSessionReq, PlayInv
    <2>8. \/ to_interface'[c] = to_interface[c] \o <<>>
          \/ \E msg \in InterfaceMsg :
                  Shows(msg) /\ to_interface'[c] = to_interface[c] \o <<msg>>
      BY <2>3, <2>6
    <2> QED BY <2>1, <2>5, <2>7, <2>8, ShownStaysFit DEF PlayInv
  <1> QED BY <1>1, <1>2, <1>3 DEF ServeSessionReq

\* A field, whether it is taken or not.
LEMMA FieldsKeepModes ==
    ASSUME Seated, SessionAssumption, NEW d \in Client, ServeField(d)
    PROVE  ModesFit'
  <1> SUFFICES ASSUME NEW i \in PlayerNumber, NEW c \in Client, players'[i] = c
               PROVE  ModeFits(i, c)'
    BY DEF ModesFit
  <1> USE DEF Seated
  <1>1. UNCHANGED <<state, players, cur_turn_player_idx, last_shot>>
    BY DEF ServeField, SendField, vars, sessionVars
  <1>2. ModeFits(i, c)
    BY <1>1 DEF ModesFit
  <1>3. Send(Nothing) /\ Nothing[i] = <<>>
    BY DEF ServeField, Nothing
  <1>4. interface' = interface /\ to_interface'[c] = to_interface[c] \o <<>>
    <2>1. interface' = interface /\ to_interface'[c] = to_interface[c] \o Nothing[i]
      BY <1>3, SeatedReceive
    <2> QED BY <1>3, <2>1
  <1>5. ShotUnderWay(c) => ShotUnderWay(c)'
    BY OtherServed DEF ServeField, PlayInv
  <1> QED BY <1>1, <1>2, <1>4, <1>5, ShownStaysFit DEF PlayInv

\* A shot: it ends the turn, or it is kept for the turn that has ended, or it is
\* not taken because the session holds one, or because it is not his turn.
LEMMA MovesKeepModes ==
    ASSUME Seated, SessionAssumption, NEW d \in Client, ServeMove(d)
    PROVE  ModesFit'
  <1> SUFFICES ASSUME NEW i \in PlayerNumber, NEW c \in Client, players'[i] = c
               PROVE  ModeFits(i, c)'
    BY DEF ModesFit
  <1> USE DEF Seated
  <1> DEFINE point == Head(to_session[d]).point
  <1>1. ASSUME Move(d, point), Send(TurnStopped) PROVE ModeFits(i, c)'
    <2>1. state' = "PROCESS_TURN"
      BY <1>1 DEF Move, end_turn
    <2>2. PICK is_own \in BOOLEAN : is_own = (i = cur_turn_player_idx)
      OBVIOUS
    <2>3. interface' = interface /\ to_interface'[c] = to_interface[c] \o TurnStopped[i]
      BY <1>1, SeatedReceive
    <2>4. to_interface'[c] = to_interface[c] \o <<StopTurnMsg(is_own)>>
      BY <2>2, <2>3 DEF TurnStopped
    <2> QED BY <2>1, <2>3, <2>4, TurnStopFits DEF PlayInv
  <1>2. ASSUME Send(Nothing),
               UNCHANGED <<state, players, cur_turn_player_idx>>,
               \/ state # "GAME_TURN"
               \/ i # cur_turn_player_idx
               \/ has_last_shot \/ ShotUnderWay(c) => has_last_shot' \/ ShotUnderWay(c)'
        PROVE  ModeFits(i, c)'
    <2>1. ModeFits(i, c) /\ Nothing[i] = <<>>
      BY <1>2 DEF ModesFit, Nothing
    <2>2. interface' = interface /\ to_interface'[c] = to_interface[c] \o <<>>
      <3>1. interface' = interface /\ to_interface'[c] = to_interface[c] \o Nothing[i]
        BY <1>2, SeatedReceive
      <3> QED BY <2>1, <3>1
    <2>3. \A mode : WillBe(c, mode) => WillBe(c, mode)'
      BY <2>2, ModesReceived, MessagesAreTyped DEF PlayInv
    <2> QED BY <1>2, <2>1, <2>3, ModeStaysFit
  <1>3. ASSUME LateMove(d, point), Send(Nothing) PROVE ModeFits(i, c)'
    BY <1>2, <1>3 DEF LateMove
  <1>4. ASSUME ~(/\ HasPlayer(d)
                 /\ state \in {"GAME_TURN", "PROCESS_TURN"}
                 /\ Slot(d) = cur_turn_player_idx
                 /\ ~has_last_shot),
               UNCHANGED vars, Send(Nothing)
        PROVE  ModeFits(i, c)'
    <2>1. UNCHANGED <<state, players, cur_turn_player_idx, last_shot>>
      BY <1>4 DEF vars, sessionVars
    <2>2. has_last_shot => has_last_shot'
      BY <2>1 DEF has_last_shot
    <2>3. CASE c # d
      <3>1. ShotUnderWay(c) => ShotUnderWay(c)'
        BY <2>3, OtherServed DEF ServeMove, PlayInv
      <3> QED BY <1>2, <1>4, <2>1, <2>2, <3>1
    <2>4. CASE c = d
      <3>1. players[i] = d /\ HasPlayer(d)
        BY <2>1, <2>4 DEF HasPlayer
      <3>2. \A j \in PlayerNumber : players[j] = d => j = i
        BY <3>1 DEF OneSeat, PlayerNumber, SessionAssumption
      <3>3. Slot(d) = i
        BY <3>1, <3>2 DEF Slot
      <3>4. state # "GAME_TURN" \/ i # cur_turn_player_idx \/ has_last_shot
        BY <1>4, <3>1, <3>3
      <3> QED BY <1>2, <1>4, <2>1, <2>2, <3>4
    <2> QED BY <2>3, <2>4
  <1> QED BY <1>1, <1>3, <1>4 DEF ServeMove

\* The player of a client who is seated after a timeout: he has been seated
\* before, and he gets what the timeout sends to his slot.
LEMMA InformedStay ==
    ASSUME Seated, SessionAssumption, NEW i \in PlayerNumber, NEW c \in Client,
           players'[i] = c, NEW sent, Inform(sent)
    PROVE  /\ interface' = interface
           /\ to_interface'[c] = to_interface[c] \o sent[i]
           /\ to_session'[c] = to_session[c]
  <1>1. c \notin Gone
    BY DEF Gone
  <1>2. SendAndClose(sent, Gone)
    BY DEF Inform
  <1>3. interface' = interface /\ to_interface'[c] = to_interface[c] \o sent[i]
    BY <1>1, <1>2, SeatedReceive DEF Seated
  <1>4. to_session'[c] = to_session[c]
    BY <1>1, <1>2, SeatedKeepQueue
  <1> QED BY <1>3, <1>4

\* One message for the slot after another.
LEMMA BothSent ==
    ASSUME NEW i \in PlayerNumber, NEW sent, NEW more, NEW first \in InterfaceMsg,
           NEW second \in InterfaceMsg, sent[i] = <<first>>, more[i] = <<second>>
    PROVE  Both(sent, more)[i] = <<first, second>>
  <1>1. Both(sent, more)[i] = sent[i] \o more[i]
    BY DEF Both
  <1>2. <<first>> \o <<second>> = <<first, second>>
    <2>1. <<first>> \in Seq(InterfaceMsg) /\ <<second>> \in Seq(InterfaceMsg)
      OBVIOUS
    <2>2. <<first>> \o <<second>> = Append(<<first>>, second)
      BY <2>1, FewAppended
    <2>3. Append(<<first>>, second) = <<first, second>>
      <3>1. /\ Append(<<first>>, second) \in Seq(InterfaceMsg)
            /\ <<first, second>> \in Seq(InterfaceMsg)
        OBVIOUS
      <3>2. Len(Append(<<first>>, second)) = 2 /\ Len(<<first, second>>) = 2
        OBVIOUS
      <3>3. \A j \in 1 .. 2 : Append(<<first>>, second)[j] = <<first, second>>[j]
        OBVIOUS
      <3> QED BY <3>1, <3>2, <3>3, SeqEqual
    <2> QED BY <2>2, <2>3
  <1> QED BY <1>1, <1>2

\* What a timeout shows or does not even show leaves a player fit.
LEMMA ShownByTimeout ==
    ASSUME Seated, SessionAssumption, NEW i \in PlayerNumber, NEW c \in Client,
           players[i] = c, players'[i] = c, NEW sent, Inform(sent),
           UNCHANGED <<state, cur_turn_player_idx>>,
           UNCHANGED last_shot \/ state # "GAME_TURN",
           \/ sent[i] = <<>>
           \/ \E msg \in InterfaceMsg : Shows(msg) /\ sent[i] = <<msg>>
           \/ \E first, second \in InterfaceMsg :
                  Shows(first) /\ Shows(second) /\ sent[i] = <<first, second>>
    PROVE  ModeFits(i, c)'
  <1>1. /\ interface' = interface
        /\ to_interface'[c] = to_interface[c] \o sent[i]
        /\ to_session'[c] = to_session[c]
    BY InformedStay
  <1>2. ModeFits(i, c) /\ PlayTypeOK
    BY DEF Seated, ModesFit, PlayInv
  <1>3. \/ to_interface'[c] = to_interface[c] \o <<>>
        \/ \E msg \in InterfaceMsg : Shows(msg) /\ to_interface'[c] = to_interface[c] \o <<msg>>
        \/ \E first, second \in InterfaceMsg :
               /\ Shows(first) /\ Shows(second)
               /\ to_interface'[c] = to_interface[c] \o <<first, second>>
    BY <1>1
  <1>4. CASE UNCHANGED last_shot
    <2>1. ShotUnderWay(c) => ShotUnderWay(c)'
      BY <1>1, <1>2, ShotsStayUnderWay
    <2> QED BY <1>1, <1>2, <1>3, <1>4, <2>1, ShownStaysFit
  <1>5. CASE state # "GAME_TURN"
    <2>1. \A mode : WillBe(c, mode) => WillBe(c, mode)'
      BY <1>1, <1>2, <1>3, ShownStaysToCome
    <2> QED BY <1>2, <1>5, <2>1, ModeStaysFit
  <1> QED BY <1>4, <1>5

\* The timeouts.
LEMMA EventsKeepModes ==
    ASSUME Seated, SessionAssumption, SessionEvent
    PROVE  ModesFit'
  <1> SUFFICES ASSUME NEW i \in PlayerNumber, NEW c \in Client, players'[i] = c
               PROVE  ModeFits(i, c)'
    BY DEF ModesFit
  <1>1. PlayTypeOK /\ c # None /\ Nothing[i] = <<>> /\ state' \in ShownState
    BY DEF Seated, PlayInv, SessionAssumption, Nothing, TypeOK, GameState, ShownState
  <1>2. /\ \A shown \in ShownState : /\ GameStateMsg(shown) \in InterfaceMsg
                                     /\ Shows(GameStateMsg(shown))
        /\ \A board \in Field, is_own \in BOOLEAN : /\ GameFieldMsg(board, is_own) \in InterfaceMsg
                                                    /\ Shows(GameFieldMsg(board, is_own))
    BY ModeMessages
  <1>3. \A j \in PlayerNumber : /\ fields[j] \in Field /\ fields'[j] \in Field
                                /\ get_for_enemy(fields[j]) \in Field
                                /\ get_for_enemy(fields'[j]) \in Field
    BY EnemyViewIsField DEF Seated, PlayInv, TypeOK
  <1>4. enemy_idx(i) \in PlayerNumber
    BY DEF enemy_idx, PlayerNumber
  <1>5. ASSUME Ignored, Inform(Nothing) PROVE ModeFits(i, c)'
    <2>1. UNCHANGED <<state, players, cur_turn_player_idx, last_shot>>
      BY <1>5 DEF Ignored, sessionVars
    <2> QED BY <1>1, <1>5, <2>1, ShownByTimeout
  <1>6. ASSUME stop_preparation, Inform(Both(ToAll(<<StopPreparationMsg>>), StateSent))
        PROVE  ModeFits(i, c)'
    <2>1. state = "PREPARATION" /\ state' = "WAIT_START" /\ players' = players
      BY <1>6 DEF stop_preparation
    <2>2. PICK told_state \in InterfaceMsg :
              told_state = GameStateMsg(state') /\ Shows(told_state)
      BY <1>1, <1>2
    <2>3. /\ interface' = interface
          /\ to_interface'[c] =
                 to_interface[c] \o Both(ToAll(<<StopPreparationMsg>>), StateSent)[i]
      BY <1>6, InformedStay
    <2>4. Both(ToAll(<<StopPreparationMsg>>), StateSent)[i] = <<StopPreparationMsg, told_state>>
      <3>1. /\ ToAll(<<StopPreparationMsg>>)[i] = <<StopPreparationMsg>>
            /\ StateSent[i] = <<told_state>>
        BY <2>2 DEF ToAll, StateSent
      <3> QED BY <3>1, BothSent, MessagesAreTyped
    <2>5. to_interface'[c] = to_interface[c] \o <<StopPreparationMsg, told_state>>
      BY <2>3, <2>4
    <2>6. WillBe(c, "PREPARATION_MODE")
      BY <2>1 DEF Seated, ModesFit, ModeFits
    <2>7. WillBe(c, ModeAfter(ModeAfter("PREPARATION_MODE", StopPreparationMsg), told_state))'
      BY <1>1, <2>2, <2>3, <2>5, <2>6, ModesReceived, ModeMessages
    <2>8. ModeAfter(ModeAfter("PREPARATION_MODE", StopPreparationMsg), told_state) = "WAIT_MODE"
      BY <2>2, ShownKeepsMode, ModeMessages
    <2>9. WillBe(c, "WAIT_MODE")'
      BY <2>7, <2>8
    <2> QED BY <2>1, <2>9 DEF ModeFits
  <1>7. ASSUME check_start_fields, NEW sent, Inform(sent),
               \/ sent = StateSent
               \/ sent = StartFieldsSent
               \/ sent = Nothing
        PROVE  ModeFits(i, c)'
    <2>1. \/ UNCHANGED state
          \/ state' = "WAIT_PLAYER"
          \/ {j \in PlayerNumber : players'[j] # None} = {}
      BY <1>7 DEF check_start_fields
    <2>2. {j \in PlayerNumber : players'[j] # None} # {}
      BY <1>1
    <2>3. CASE state' = "WAIT_PLAYER"
      BY <2>3, NoMatchFits
    <2>4. CASE UNCHANGED state
      <3>1. players[i] = c /\ UNCHANGED <<cur_turn_player_idx, last_shot>>
        BY <1>1, <1>7 DEF check_start_fields, Remaining
      <3>2. \/ sent[i] = <<>>
            \/ \E msg \in InterfaceMsg : Shows(msg) /\ sent[i] = <<msg>>
            \/ \E first, second \in InterfaceMsg :
                  Shows(first) /\ Shows(second) /\ sent[i] = <<first, second>>
        <4>1. StateSent[i] = <<GameStateMsg(state')>>
          BY DEF StateSent, ToAll
        <4>2. StartFieldsSent[i] = <<GameFieldMsg(fields[i], TRUE),
                                     GameFieldMsg(get_for_enemy(fields[enemy_idx(i)]), FALSE)>>
          BY DEF StartFieldsSent
        <4>3. CASE sent = StartFieldsSent
          BY <1>2, <1>3, <1>4, <4>2, <4>3
        <4>4. CASE sent = StateSent
          BY <1>1, <1>2, <4>1, <4>4
        <4> QED BY <1>1, <1>7, <4>3, <4>4
      <3> QED BY <1>7, <2>4, <3>1, <3>2, ShownByTimeout
    <2> QED BY <2>1, <2>2, <2>3, <2>4
  <1>8. PICK is_own \in BOOLEAN : is_own = (i = cur_turn_player_idx')
    OBVIOUS
  <1>9. TurnStarted[i] = <<StartTurnMsg(is_own, TURN_DURATION)>>
    BY <1>8 DEF TurnStarted
  <1>10. ASSUME start_game, Inform(TurnStarted) PROVE ModeFits(i, c)'
    <2>1. /\ interface' = interface
          /\ to_interface'[c] = to_interface[c] \o TurnStarted[i]
      BY <1>10, InformedStay
    <2>2. to_interface'[c] = to_interface[c] \o <<StartTurnMsg(is_own, TURN_DURATION)>>
      BY <1>9, <2>1
    <2>3. state' = "GAME_TURN"
      BY <1>10 DEF start_game, start_new_turn
    <2> QED BY <1>1, <1>8, <2>1, <2>2, <2>3, TurnStartFits, MessagesAreTyped
  <1>11. ASSUME end_turn, Inform(TurnStopped) PROVE ModeFits(i, c)'
    <2>1. state' = "PROCESS_TURN"
      BY <1>11 DEF end_turn
    <2>2. PICK stops_own \in BOOLEAN : stops_own = (i = cur_turn_player_idx)
      OBVIOUS
    <2>3. /\ interface' = interface
          /\ to_interface'[c] = to_interface[c] \o TurnStopped[i]
      BY <1>11, InformedStay
    <2>4. to_interface'[c] = to_interface[c] \o <<StopTurnMsg(stops_own)>>
      BY <2>2, <2>3 DEF TurnStopped
    <2> QED BY <1>1, <2>1, <2>3, <2>4, TurnStopFits
  <1>12. PICK board \in InterfaceMsg : Shows(board) /\ FieldsSent[i] = <<board>>
    <2>1. FieldsSent[i] = IF i = cur_turn_player_idx
                          THEN <<GameFieldMsg(get_for_enemy(fields'[enemy_idx(i)]), FALSE)>>
                          ELSE <<GameFieldMsg(fields'[i], TRUE)>>
      BY DEF FieldsSent
    <2> QED BY <1>2, <1>3, <1>4, <2>1
  <1>13. ASSUME change_turn_player, state' = "GAME_TURN", Inform(Both(FieldsSent, TurnStarted))
         PROVE  ModeFits(i, c)'
    <2>1. /\ interface' = interface
          /\ to_interface'[c] = to_interface[c] \o Both(FieldsSent, TurnStarted)[i]
      BY <1>13, InformedStay
    <2>2. Both(FieldsSent, TurnStarted)[i] = <<board, StartTurnMsg(is_own, TURN_DURATION)>>
      <3>1. StartTurnMsg(is_own, TURN_DURATION) \in InterfaceMsg
        BY MessagesAreTyped DEF SessionAssumption
      <3> QED BY <1>9, <1>12, <3>1, BothSent
    <2>3. to_interface'[c] = to_interface[c] \o <<board, StartTurnMsg(is_own, TURN_DURATION)>>
      BY <2>1, <2>2
    <2> QED BY <1>1, <1>8, <1>13, <2>1, <2>3, TurnStartFits
  <1>14. ASSUME change_turn_player, state' # "GAME_TURN", Inform(Both(FieldsSent, ResultSent))
         PROVE  ModeFits(i, c)'
    <2>1. state = "PROCESS_TURN" /\ UNCHANGED <<state, players, cur_turn_player_idx>>
      BY <1>14 DEF change_turn_player, start_new_turn
    <2>2. PICK result \in InterfaceMsg : Shows(result) /\ ResultSent[i] = <<result>>
      <3>1. ResultSent[i] =
                <<GameStateMsg(IF i = cur_turn_player_idx THEN "WIN_GAME" ELSE "LOSE_GAME")>>
        BY DEF ResultSent
      <3> QED BY <1>2, <3>1 DEF ShownState
    <2>3. Both(FieldsSent, ResultSent)[i] = <<board, result>>
      BY <1>12, <2>2, BothSent
    <2>4. \E first, second \in InterfaceMsg :
              /\ Shows(first) /\ Shows(second)
              /\ Both(FieldsSent, ResultSent)[i] = <<first, second>>
      BY <1>12, <2>2, <2>3
    <2> QED BY <1>14, <2>1, <2>4, ShownByTimeout
  <1>15. ASSUME end_game PROVE FALSE
    BY <1>1, <1>15 DEF end_game, Remaining
  <1>16. CASE PreparationTimeout /\
              Inform(IF state = "PREPARATION"
                     THEN Both(ToAll(<<StopPreparationMsg>>), StateSent) ELSE Nothing)
    BY <1>5, <1>6, <1>16 DEF PreparationTimeout, stop_preparation
  <1>17. CASE CheckStartFieldsTimeout /\
              Inform(IF Cardinality({j \in PlayerNumber : players'[j] # None}) = 1 THEN StateSent
                     ELSE IF state' = "WAIT_START" THEN StartFieldsSent ELSE Nothing)
    <2>1. Inform(StateSent) \/ Inform(StartFieldsSent) \/ Inform(Nothing)
      BY <1>17
    <2> QED BY <1>7, <1>17, <2>1 DEF CheckStartFieldsTimeout
  <1>18. CASE GameStartTimeout /\ Inform(IF state = "WAIT_START" THEN TurnStarted ELSE Nothing)
    BY <1>5, <1>10, <1>18 DEF GameStartTimeout, start_game
  <1>19. CASE GameTurnTimeout /\ Inform(IF state = "GAME_TURN" THEN TurnStopped ELSE Nothing)
    BY <1>5, <1>11, <1>19 DEF GameTurnTimeout, end_turn
  <1>20. CASE ChangeTurnTimeout /\
              Inform(IF state # "PROCESS_TURN" THEN Nothing
                     ELSE Both(FieldsSent, IF state' = "GAME_TURN" THEN TurnStarted ELSE ResultSent))
    BY <1>5, <1>13, <1>14, <1>20 DEF ChangeTurnTimeout, change_turn_player
  <1>21. CASE EndGameTimeout
    BY <1>15, <1>21 DEF EndGameTimeout
  <1> QED BY <1>16, <1>17, <1>18, <1>19, <1>20, <1>21 DEF SessionEvent

-----------------------------------------------------------------------------
(***************************************************************************)
(* What the players do keeps the modes fit                                 *)
(***************************************************************************)

\* A key that only moves the cursor, marks a cell or asks for a game.
LEMMA KeysKeepModes ==
    ASSUME Seated, NEW d \in Client, NEW ui, NEW msgs \in Seq(SessionMsg),
           KeyPressed(d, ui, msgs), ui.mode = interface[d].mode
    PROVE  ModesFit'
  <1> SUFFICES ASSUME NEW i \in PlayerNumber, NEW c \in Client, players'[i] = c
               PROVE  ModeFits(i, c)'
    BY DEF ModesFit
  <1>1. /\ UNCHANGED <<state, players, cur_turn_player_idx, last_shot, to_interface>>
        /\ interface' = [interface EXCEPT ![d] = ui]
        /\ to_session' = [to_session EXCEPT ![d] = @ \o msgs]
    BY DEF KeyPressed, vars, sessionVars
  <1>2. PlayTypeOK /\ ModeFits(i, c)
    BY <1>1 DEF Seated, PlayInv, ModesFit
  <1>3. interface'[c].mode = interface[c].mode
    BY <1>1, <1>2 DEF PlayTypeOK
  <1>4. \A mode : WillBe(c, mode) => WillBe(c, mode)'
    BY <1>1, <1>3 DEF WillBe
  <1>5. \/ to_session'[c] = to_session[c]
        \/ to_session'[c] = to_session[c] \o msgs
    BY <1>1, <1>2 DEF PlayTypeOK
  <1>6. ShotUnderWay(c) => ShotUnderWay(c)'
    BY <1>2, <1>5, ShotsStayUnderWay
  <1>7. has_last_shot' = has_last_shot
    BY <1>1 DEF has_last_shot
  <1> QED BY <1>1, <1>2, <1>4, <1>6, <1>7, ModeStaysFit

\* A shot: the player waits from now on, and his shot is under way.
LEMMA ShotsKeepModes ==
    ASSUME Seated, NEW d \in Client, Shoot(d)
    PROVE  ModesFit'
  <1> SUFFICES ASSUME NEW i \in PlayerNumber, NEW c \in Client, players'[i] = c
               PROVE  ModeFits(i, c)'
    BY DEF ModesFit
  <1> DEFINE ui == ShotSent(interface[d])
             move == GameMoveMsg(ui.last_shot)
  <1>1. /\ UNCHANGED <<state, players, cur_turn_player_idx, last_shot, to_interface>>
        /\ interface' = [interface EXCEPT ![d] = ui]
        /\ to_session' = [to_session EXCEPT ![d] = @ \o <<move>>]
        /\ interface[d].mode = "OWN_TURN_MODE"
    BY DEF Shoot, PressKey, KeyPressed, vars, sessionVars, CanShoot
  <1>2. PlayTypeOK /\ ModeFits(i, c)
    BY <1>1 DEF Seated, PlayInv, ModesFit
  <1>3. ui.mode = "WAIT_MODE" /\ move.type = "GAME_MOVE"
    <2>1. interface[d] \in Interface
      BY <1>2 DEF PlayTypeOK
    <2> QED BY <2>1 DEF ShotSent, stop_turn_mode, Interface, GameMoveMsg
  <1> HIDE DEF ui, move
  <1>4. has_last_shot' = has_last_shot
    BY <1>1 DEF has_last_shot
  <1>5. CASE c # d
    <2>1. interface'[c] = interface[c] /\ to_session'[c] = to_session[c]
      BY <1>1, <1>2, <1>5 DEF PlayTypeOK
    <2>2. \A mode : WillBe(c, mode) => WillBe(c, mode)'
      BY <1>1, <2>1 DEF WillBe
    <2>3. ShotUnderWay(c) => ShotUnderWay(c)'
      BY <2>1 DEF ShotUnderWay
    <2> QED BY <1>1, <1>2, <1>4, <2>2, <2>3, ModeStaysFit
  <1>6. CASE c = d
    <2>1. /\ interface'[c].mode = "WAIT_MODE" /\ interface[c].mode = "OWN_TURN_MODE"
          /\ to_interface[c] \in Seq(InterfaceMsg)
      BY <1>1, <1>2, <1>3, <1>6 DEF PlayTypeOK
    <2>2. ShotUnderWay(c)'
      <3>1. to_session[c] \in Seq(SessionMsg) /\ to_session'[c] = to_session[c] \o <<move>>
        BY <1>1, <1>2, <1>6 DEF PlayTypeOK
      <3>2. /\ Len(to_session[c]) + 1 \in 1 .. Len(to_session'[c])
            /\ to_session'[c][Len(to_session[c]) + 1] = move
        BY <3>1
      <3> QED BY <1>3, <3>2 DEF ShotUnderWay
    <2>3. \A last : EndsIn("OWN_TURN_MODE", to_interface[c], last) =>
              \/ EndsIn("WAIT_MODE", to_interface[c], last)
              \/ last = "OWN_TURN_MODE" /\ EndsIn("WAIT_MODE", to_interface[c], "WAIT_MODE")
      BY <2>1, ShotAndToCome
    <2>4. \A last : WillBe(c, last) =>
              WillBe(c, last)' \/ (last = "OWN_TURN_MODE" /\ WillBe(c, "WAIT_MODE")')
      BY <1>1, <2>1, <2>3 DEF WillBe
    <2>5. /\ WillBe(c, "PREPARATION_MODE") => WillBe(c, "PREPARATION_MODE")'
          /\ WillBe(c, "WAIT_MODE") => WillBe(c, "WAIT_MODE")'
          /\ WillBe(c, "ENEMY_TURN_MODE") => WillBe(c, "ENEMY_TURN_MODE")'
          /\ WillBe(c, "OWN_TURN_MODE") =>
                 WillBe(c, "OWN_TURN_MODE")' \/ WillBe(c, "WAIT_MODE")'
      BY <2>4
    <2> QED BY <1>1, <1>2, <2>2, <2>5 DEF ModeFits
  <1> QED BY <1>5, <1>6

\* The interface processes a message.
LEMMA DeliveriesKeepModes ==
    ASSUME Seated, NEW d \in Client, Deliver(d)
    PROVE  ModesFit'
  <1> SUFFICES ASSUME NEW i \in PlayerNumber, NEW c \in Client, players'[i] = c
               PROVE  ModeFits(i, c)'
    BY DEF ModesFit
  <1> DEFINE msg == Head(to_interface[d])
             ui == Handled(interface[d], msg)
             answer == Reply(interface[d], msg)
  <1>1. /\ UNCHANGED <<state, players, cur_turn_player_idx, last_shot>>
        /\ interface' = [interface EXCEPT ![d] = ui]
        /\ to_session' = [to_session EXCEPT ![d] = @ \o answer]
        /\ to_interface' = [to_interface EXCEPT ![d] = Tail(@)]
        /\ to_interface[d] # <<>>
    BY DEF Deliver, vars, sessionVars
  <1>2. PlayTypeOK /\ ModeFits(i, c)
    BY <1>1 DEF Seated, PlayInv, ModesFit
  <1>3. /\ interface[d] \in Interface /\ interface[d].mode \in InterfaceMode
        /\ to_interface[d] \in Seq(InterfaceMsg)
    BY <1>2 DEF PlayTypeOK, Interface
  <1>4. msg \in InterfaceMsg
    BY <1>1, <1>3, HeadTailProperties
  <1>5. ui.mode = ModeAfter(interface[d].mode, Head(to_interface[d]))
    BY <1>3, <1>4, ModeOfHandled
  <1>6. answer \in Seq(SessionMsg)
    <2>1. SoundInterface(interface[d])
      BY InterfacesAreSound DEF Seated, PlayInv
    <2> QED BY <2>1, ReplyIsSent
  <1> HIDE DEF ui, answer
  <1>7. \A mode : WillBe(c, mode) => WillBe(c, mode)'
    <2>1. CASE c # d
      <3>1. interface'[c] = interface[c] /\ to_interface'[c] = to_interface[c]
        BY <1>1, <1>2, <2>1 DEF PlayTypeOK
      <3> QED BY <3>1 DEF WillBe
    <2>2. CASE c = d
      <3>1. interface'[c].mode = ModeAfter(interface[c].mode, Head(to_interface[c]))
        BY <1>1, <1>2, <1>5, <2>2 DEF PlayTypeOK
      <3>2. to_interface'[c] = Tail(to_interface[c])
        BY <1>1, <1>2, <2>2 DEF PlayTypeOK
      <3>3. \A mode : EndsIn(interface[c].mode, to_interface[c], mode) =>
                EndsIn(ModeAfter(interface[c].mode, Head(to_interface[c])),
                       Tail(to_interface[c]), mode)
        BY <1>1, <1>3, <2>2, OneLessToCome
      <3> QED BY <3>1, <3>2, <3>3 DEF WillBe
    <2> QED BY <2>1, <2>2
  <1>8. ShotUnderWay(c) => ShotUnderWay(c)'
    <2>1. \/ to_session'[c] = to_session[c]
          \/ to_session'[c] = to_session[c] \o answer
      BY <1>1, <1>2 DEF PlayTypeOK
    <2> QED BY <1>2, <1>6, <2>1, ShotsStayUnderWay
  <1>9. has_last_shot' = has_last_shot
    BY <1>1 DEF has_last_shot
  <1> QED BY <1>1, <1>2, <1>7, <1>8, <1>9, ModeStaysFit

\* A client process connects.
LEMMA ConnectionsKeepModes ==
    ASSUME Seated, NEW d \in Client, Connect(d)
    PROVE  ModesFit'
  <1> SUFFICES ASSUME NEW i \in PlayerNumber, NEW c \in Client, players'[i] = c
               PROVE  ModeFits(i, c)'
    BY DEF ModesFit
  <1>1. /\ UNCHANGED <<state, players, cur_turn_player_idx, last_shot, interface, to_session>>
        /\ to_interface' = [to_interface EXCEPT ![d] = Append(@, ServerConnStatusMsg(TRUE))]
    BY DEF Connect, vars, sessionVars
  <1>2. PlayTypeOK /\ ModeFits(i, c)
    BY <1>1 DEF Seated, PlayInv, ModesFit
  <1>3. PICK told_status \in InterfaceMsg :
            told_status = ServerConnStatusMsg(TRUE) /\ Shows(told_status)
    BY ModeMessages
  <1>4. to_interface[c] \in Seq(InterfaceMsg) /\ to_interface[d] \in Seq(InterfaceMsg)
    BY <1>2 DEF PlayTypeOK
  <1>5. \/ to_interface'[c] = to_interface[c] \o <<>>
        \/ to_interface'[c] = to_interface[c] \o <<told_status>>
    <2>1. \/ to_interface'[c] = to_interface[c]
          \/ to_interface'[c] = Append(to_interface[c], told_status)
      BY <1>1, <1>2, <1>3 DEF PlayTypeOK
    <2> QED BY <1>3, <1>4, <2>1, FewAppended
  <1>6. ShotUnderWay(c) => ShotUnderWay(c)'
    BY <1>1 DEF ShotUnderWay
  <1> QED BY <1>1, <1>2, <1>3, <1>5, <1>6, ShownStaysFit

\* A connection breaks: its player leaves, or a client who does not play.
LEMMA BreaksKeepModes ==
    ASSUME Seated, SessionAssumption, NEW d \in Client, Break(d)
    PROVE  ModesFit'
  <1> SUFFICES ASSUME NEW i \in PlayerNumber, NEW c \in Client, players'[i] = c
               PROVE  ModeFits(i, c)'
    BY DEF ModesFit
  <1>1. CASE Leave(d)
    <2>1. Slot(d) \in PlayerNumber
      BY <1>1 DEF Leave, HasPlayer, Slot
    <2>2. state' \in {"NO_VACANT_GAME", "WAIT_PLAYER"}
      BY <1>1, <2>1, StateWithoutCases DEF Leave, AfterLeaving
    <2> QED BY <2>2, NoMatchFits
  <1>2. CASE ~HasPlayer(d) /\ UNCHANGED vars
    <2>1. UNCHANGED <<state, players, cur_turn_player_idx, last_shot>>
      BY <1>2 DEF vars, sessionVars
    <2>2. players[i] = c /\ c \notin {d}
      BY <1>2, <2>1 DEF HasPlayer
    <2>3. PlayTypeOK /\ ModeFits(i, c)
      BY <2>2 DEF Seated, PlayInv, ModesFit
    <2>4. SendAndClose(Nothing, {d}) /\ Nothing[i] = <<>>
      BY DEF Break, Nothing
    <2>5. interface' = interface /\ to_interface'[c] = to_interface[c] \o Nothing[i]
      BY <2>2, <2>4, SeatedReceive DEF Seated
    <2>6. to_interface'[c] = to_interface[c] \o <<>>
      BY <2>4, <2>5
    <2>7. to_session'[c] = to_session[c]
      BY <2>2, <2>4, SeatedKeepQueue
    <2>8. ShotUnderWay(c) => ShotUnderWay(c)'
      BY <2>3, <2>7, ShotsStayUnderWay
    <2> QED BY <2>1, <2>3, <2>5, <2>6, <2>8, ShownStaysFit
  <1> QED BY <1>1, <1>2 DEF Break

\* Time passes.
LEMMA PassesKeepModes ==
    ASSUME Seated, UNCHANGED <<sessionVars, clientVars>>
    PROVE  ModesFit'
  <1> SUFFICES ASSUME NEW i \in PlayerNumber, NEW c \in Client, players'[i] = c
               PROVE  ModeFits(i, c)'
    BY DEF ModesFit
  <1>1. ModeFits(i, c)
    BY DEF Seated, ModesFit, sessionVars
  <1>2. \A mode : WillBe(c, mode) => WillBe(c, mode)'
    BY DEF WillBe, clientVars
  <1>3. has_last_shot' = has_last_shot /\ (ShotUnderWay(c) => ShotUnderWay(c)')
    BY DEF has_last_shot, ShotUnderWay, sessionVars, clientVars
  <1> QED BY <1>1, <1>2, <1>3, ModeStaysFit DEF sessionVars

\* So the modes fit at all times.
LEMMA ModesStayFit ==
    /\ PlayInit => ModesFit
    /\ PlayInv /\ OneSeat /\ ModesFit /\ [PlayNext]_playVars => ModesFit' /\ OneSeat'
<1> USE SessionAssumption, PlayAssumption
<1>1. PlayInit => ModesFit
  BY DEF PlayInit, Init, ModesFit, ModeFits
<1>2. ASSUME PlayInv, OneSeat, ModesFit, [PlayNext]_playVars PROVE ModesFit' /\ OneSeat'
  <2>1. TypeOK'
    BY <1>2, PlayInvIsInductive DEF PlayInv
  <2>2. OneSeat'
    BY <1>2, StepsOfSession, SeatsStayApart DEF PlayInv
  <2>3. Seated
    BY <1>2, <2>1, <2>2 DEF Seated
  <2>4. ASSUME UNCHANGED playVars PROVE UNCHANGED <<sessionVars, clientVars>>
    BY <2>4 DEF playVars, vars, sessionVars
  <2>5. ASSUME NEW ticks \in 0 .. MaxPassed, Wait(ticks)
        PROVE  UNCHANGED <<sessionVars, clientVars>>
    BY <2>5 DEF Wait, Select
  <2>6. ASSUME Pass PROVE UNCHANGED <<sessionVars, clientVars>>
    BY <2>6 DEF Pass, TakeHandler, EndPass
  <2>7. ASSUME NEW d \in Client, ServeSessionReq(d) \/ ServeField(d) \/ ServeMove(d)
        PROVE  ModesFit'
    BY <2>3, <2>7, RequestsKeepModes, FieldsKeepModes, MovesKeepModes
  <2>8. ASSUME NEW d \in Client, \/ \E key \in Key : PressArrow(d, key)
                                 \/ PrepareCell(d) \/ AskForGame(d)
        PROVE  ModesFit'
    <3>1. interface[d] \in Interface /\ <<>> \in Seq(SessionMsg)
      BY <1>2 DEF PlayInv, PlayTypeOK
    <3>2. ASSUME NEW key \in Key, PressArrow(d, key) PROVE ModesFit'
      <4>1. CursorMoved(interface[d], key).mode = interface[d].mode
        BY <3>1 DEF CursorMoved, Interface
      <4> QED BY <2>3, <3>1, <3>2, <4>1, KeysKeepModes DEF PressArrow, PressKey
    <3>3. CASE PrepareCell(d)
      <4>1. CellPrepared(interface[d]).mode = interface[d].mode
        BY <3>1 DEF CellPrepared, Interface
      <4> QED BY <2>3, <3>1, <3>3, <4>1, KeysKeepModes DEF PrepareCell, PressKey
    <3>4. CASE AskForGame(d)
      <4>1. <<GameSessionReqMsg>> \in Seq(SessionMsg)
        BY DEF GameSessionReqMsg, SessionMsg
      <4> QED BY <2>3, <3>4, <4>1, KeysKeepModes DEF AskForGame
    <3> QED BY <2>8, <3>2, <3>3, <3>4
  <2>9. ASSUME NEW d \in Client, Shoot(d) \/ Connect(d) \/ Deliver(d) \/ Break(d)
        PROVE  ModesFit'
    BY <2>3, <2>9, ShotsKeepModes, ConnectionsKeepModes, DeliveriesKeepModes, BreaksKeepModes
  <2>10. ModesFit'
    BY <1>2, <2>3, <2>4, <2>5, <2>6, <2>7, <2>8, <2>9, EventsKeepModes, PassesKeepModes DEF PlayNext
  <2> QED BY <2>2, <2>10
<1> QED BY <1>1, <1>2

\* A player who has processed everything is in the mode that he will be in.
LEMMA FitWhenUpToDate ==
    ASSUME PlayInv, ModesFit, SessionAssumption
    PROVE  InterfaceFollowsSession
  <1> SUFFICES ASSUME NEW i \in PlayerNumber, UpToDate(i)
               PROVE  LET mode == interface[players[i]].mode
                      IN  /\ state = "PREPARATION" => mode = "PREPARATION_MODE"
                          /\ state \in {"WAIT_START", "PROCESS_TURN"} => mode = "WAIT_MODE"
                          /\ state = "GAME_TURN" /\ i # cur_turn_player_idx =>
                                 mode = "ENEMY_TURN_MODE"
                          /\ state = "GAME_TURN" /\ i = cur_turn_player_idx =>
                                 mode = "OWN_TURN_MODE" \/ (mode = "WAIT_MODE" /\ has_last_shot)
    BY DEF InterfaceFollowsSession
  <1>1. PICK c \in Client : players[i] = c /\ to_interface[c] = <<>> /\ to_session[c] = <<>>
    BY DEF UpToDate, PlayInv, TypeOK
  <1>2. ModeFits(i, c)
    BY <1>1 DEF ModesFit
  <1>3. ~ShotUnderWay(c)
    BY <1>1 DEF ShotUnderWay
  <1>4. \A mode : WillBe(c, mode) => interface[c].mode = mode
    BY <1>1, NothingToCome DEF WillBe
  <1> QED BY <1>1, <1>2, <1>3, <1>4 DEF ModeFits

\* A player who is up to date works in the mode that the session calls for: with
\* messages of any delay, over connections that break, and with whatever timeouts
\* and shots earlier matches have left behind.
THEOREM ModesFollowSession == PlaySpec => []InterfaceFollowsSession
<1>1. PlayInit => OneSeat
  BY SeatsStayApart DEF PlayInit
<1>2. PlayInv /\ ModesFit => InterfaceFollowsSession
  BY FitWhenUpToDate, SessionAssumption
<1> QED BY <1>1, <1>2, ModesStayFit, PlayInvIsInductive, PTL DEF PlaySpec

-----------------------------------------------------------------------------
(***************************************************************************)
(* Boards to come                                                          *)
(***************************************************************************)

\* A message that shows a board of this kind, the player's own or the enemy's.
ShowsField(msg, is_own) == msg.type = "GAME_FIELD" /\ msg.is_own = is_own

\* The k-th message of the queue is the last one that shows a board of this kind,
\* and it shows this one; k is 0 when there is none and `shown' is this board.
ShownBy(shown, queue, is_own, board, k) ==
    /\ k = 0 => shown = board
    /\ k > 0 => queue[k] = GameFieldMsg(board, is_own)
    /\ \A j \in k + 1 .. Len(queue) : ~ShowsField(queue[j], is_own)

\* With the p-th message, or already when p is 0, the player stops to prepare his
\* field, and no later message makes him start again.
OverBy(mode, queue, p) ==
    /\ p = 0 => mode # "PREPARATION_MODE"
    /\ p > 0 => queue[p].type \in {"STOP_PREPARATION", "START_TURN", "STOP_TURN"}
    /\ \A j \in p + 1 .. Len(queue) : queue[j].type # "START_FIELD_REQ"

\* The preparation is over, or will be.
Over(mode, queue) == \E p \in 0 .. Len(queue) : OverBy(mode, queue, p)

\* With this interface the player sees this board of his enemy once he has
\* processed the queue.
SeesEnemy(ui, queue, board) ==
    \E k \in 0 .. Len(queue) : ShownBy(ui.enemy_field, queue, FALSE, board, k)

\* And this one of his own: it is shown when he works on it no longer, or it would
\* be changed under his cursor.
SeesOwn(ui, queue, board) ==
    \E k, p \in 0 .. Len(queue) :
        /\ p <= k
        /\ OverBy(ui.mode, queue, p)
        /\ ShownBy(ui.own_field, queue, TRUE, board, k)

\* He sees the boards: of a start field of his own that came late, an earlier one.
Sees(ui, queue, own, enemy) ==
    /\ \E board \in Field :
          /\ SeesOwn(ui, queue, board)
          /\ board = own \/ (is_valid_start_field(board) /\ is_valid_start_field(own))
    /\ SeesEnemy(ui, queue, get_for_enemy(enemy))

\* A message at the end of the queue that does not show such a board.
LEMMA ShownAsBefore ==
    ASSUME NEW queue \in Seq(InterfaceMsg), NEW msg \in InterfaceMsg, NEW k \in 0 .. Len(queue),
           NEW shown, NEW is_own \in BOOLEAN, NEW board,
           ShownBy(shown, queue, is_own, board, k), ~ShowsField(msg, is_own)
    PROVE  ShownBy(shown, Append(queue, msg), is_own, board, k) /\ k \in 0 .. Len(Append(queue, msg))
  <1> DEFINE more == Append(queue, msg)
             n == Len(queue)
  <1>1. /\ n \in Nat /\ Len(more) = n + 1
        /\ \A j \in 1 .. n : more[j] = queue[j]
        /\ more[n + 1] = msg
    BY AppendProperties
  <1>2. k \in 0 .. n /\ \A j \in k + 1 .. n : ~ShowsField(queue[j], is_own)
    BY DEF ShownBy
  <1> HIDE DEF more, n
  <1>3. k \in 0 .. n + 1 /\ (k > 0 => more[k] = queue[k])
    BY <1>1, <1>2
  <1>4. \A j \in k + 1 .. n + 1 : ~ShowsField(more[j], is_own)
    BY <1>1, <1>2
  <1> QED BY <1>1, <1>3, <1>4 DEF ShownBy, more

\* One that shows it.
LEMMA ShownAnew ==
    ASSUME NEW queue \in Seq(InterfaceMsg), NEW shown, NEW is_own \in BOOLEAN, NEW board \in Field
    PROVE  LET more == Append(queue, GameFieldMsg(board, is_own))
           IN  ShownBy(shown, more, is_own, board, Len(more)) /\ Len(more) = Len(queue) + 1
  <1> DEFINE more == Append(queue, GameFieldMsg(board, is_own))
  <1>1. GameFieldMsg(board, is_own) \in InterfaceMsg
    BY MessagesAreTyped
  <1>2. Len(queue) \in Nat /\ Len(more) = Len(queue) + 1
           /\ more[Len(queue) + 1] = GameFieldMsg(board, is_own)
    BY <1>1, AppendProperties
  <1> HIDE DEF more
  <1>3. Len(more) + 1 .. Len(more) = {} /\ Len(more) # 0
    BY <1>2
  <1>4. ShownBy(shown, more, is_own, board, Len(more))
    BY <1>2, <1>3 DEF ShownBy
  <1> QED BY <1>2, <1>4 DEF more

\* A message that does not start a preparation.
LEMMA OverAsBefore ==
    ASSUME NEW queue \in Seq(InterfaceMsg), NEW msg \in InterfaceMsg, NEW p \in 0 .. Len(queue),
           NEW mode, OverBy(mode, queue, p), msg.type # "START_FIELD_REQ"
    PROVE  OverBy(mode, Append(queue, msg), p)
  <1> DEFINE more == Append(queue, msg)
             n == Len(queue)
  <1>1. /\ n \in Nat /\ Len(more) = n + 1
        /\ \A j \in 1 .. n : more[j] = queue[j]
        /\ more[n + 1] = msg
    BY AppendProperties
  <1>2. p \in 0 .. n /\ \A j \in p + 1 .. n : queue[j].type # "START_FIELD_REQ"
    BY DEF OverBy
  <1> HIDE DEF more, n
  <1>3. p > 0 => more[p] = queue[p]
    BY <1>1, <1>2
  <1>4. \A j \in p + 1 .. n + 1 : more[j].type # "START_FIELD_REQ"
    BY <1>1, <1>2
  <1> QED BY <1>1, <1>3, <1>4 DEF OverBy, more

\* The place in the rest of the queue.
Before(k) == IF k = 0 THEN 0 ELSE k - 1

LEMMA BeforeIsPlace ==
    ASSUME NEW n \in Nat, NEW k \in 0 .. n + 1
    PROVE  /\ Before(k) \in 0 .. n
           /\ k > 1 => Before(k) > 0 /\ Before(k) + 1 = k
           /\ k \in {0, 1} => Before(k) = 0
           /\ \A p \in 0 .. k : Before(p) <= Before(k)
           /\ \A j \in Before(k) + 1 .. n : j + 1 \in k + 1 .. n + 1
  BY DEF Before

\* What the interface shows after the first message.
FieldOf(ui, is_own) == IF is_own THEN ui.own_field ELSE ui.enemy_field

LEMMA FieldOfHandled ==
    ASSUME NEW ui \in Interface, NEW msg \in InterfaceMsg, NEW is_own \in BOOLEAN
    PROVE  FieldOf(Handled(ui, msg), is_own) =
               IF ShowsField(msg, is_own) THEN msg.field ELSE FieldOf(ui, is_own)
  <1> USE DEF FieldOf, ShowsField, Interface
  <1>1. ASSUME NEW shown \in ShownState, msg = GameStateMsg(shown) PROVE ~ShowsField(msg, is_own)
           /\ FieldOf(Handled(ui, msg), is_own) = FieldOf(ui, is_own)
    BY <1>1 DEF Handled, GameStateMsg
  <1>2. ASSUME NEW duration \in Int, msg = StartFieldReqMsg(duration)
        PROVE  ~ShowsField(msg, is_own)
           /\ FieldOf(Handled(ui, msg), is_own) = FieldOf(ui, is_own)
    BY <1>2 DEF Handled, StartFieldReqMsg, activate_preparation_mode
  <1>3. ASSUME msg = StopPreparationMsg
        PROVE  ~ShowsField(msg, is_own)
           /\ FieldOf(Handled(ui, msg), is_own) = FieldOf(ui, is_own)
    BY <1>3 DEF Handled, StopPreparationMsg, stop_preparation_mode
  <1>4. ASSUME NEW own \in BOOLEAN, NEW duration \in Int, msg = StartTurnMsg(own, duration)
        PROVE  ~ShowsField(msg, is_own)
           /\ FieldOf(Handled(ui, msg), is_own) = FieldOf(ui, is_own)
    BY <1>4 DEF Handled, StartTurnMsg, activate_own_turn_mode, activate_enemy_turn_mode
  <1>5. ASSUME NEW own \in BOOLEAN, msg = StopTurnMsg(own)
        PROVE  ~ShowsField(msg, is_own)
           /\ FieldOf(Handled(ui, msg), is_own) = FieldOf(ui, is_own)
    BY <1>5 DEF Handled, StopTurnMsg, stop_turn_mode
  <1>6. ASSUME NEW board \in Field, NEW own \in BOOLEAN, msg = GameFieldMsg(board, own)
        PROVE  FieldOf(Handled(ui, msg), is_own) =
                   IF ShowsField(msg, is_own) THEN msg.field ELSE FieldOf(ui, is_own)
    BY <1>6 DEF Handled, GameFieldMsg
  <1>7. ASSUME NEW is_on \in BOOLEAN, msg = ServerConnStatusMsg(is_on)
        PROVE  ~ShowsField(msg, is_own)
           /\ FieldOf(Handled(ui, msg), is_own) = FieldOf(ui, is_own)
    BY <1>7 DEF Handled, ServerConnStatusMsg
  <1> HIDE DEF FieldOf, ShowsField, Interface
  <1> QED BY <1>1, <1>2, <1>3, <1>4, <1>5, <1>6, <1>7, MessageKinds

\* Processing the first message does not change what will be shown.
LEMMA ShownAfterFirst ==
    ASSUME NEW ui \in Interface, NEW queue \in Seq(InterfaceMsg), queue # <<>>,
           NEW k \in 0 .. Len(queue), NEW is_own \in BOOLEAN, NEW board,
           ShownBy(FieldOf(ui, is_own), queue, is_own, board, k)
    PROVE  /\ ShownBy(FieldOf(Handled(ui, Head(queue)), is_own), Tail(queue), is_own, board, Before(k))
           /\ Before(k) \in 0 .. Len(Tail(queue))
  <1> DEFINE rest == Tail(queue)
             n == Len(rest)
             shown == FieldOf(Handled(ui, Head(queue)), is_own)
  <1>1. /\ n \in Nat /\ Len(queue) = n + 1
        /\ \A j \in 1 .. n : rest[j] = queue[j + 1]
        /\ Head(queue) = queue[1] /\ queue[1] \in InterfaceMsg
    BY HeadTailProperties
  <1>2. shown = IF ShowsField(queue[1], is_own) THEN queue[1].field ELSE FieldOf(ui, is_own)
    BY <1>1, FieldOfHandled
  <1> HIDE DEF rest, n, shown
  <1>3. /\ k = 0 => FieldOf(ui, is_own) = board
        /\ k > 0 => queue[k] = GameFieldMsg(board, is_own)
        /\ \A j \in k + 1 .. n + 1 : ~ShowsField(queue[j], is_own)
        /\ k \in 0 .. n + 1
    BY <1>1 DEF ShownBy
  <1>4. /\ Before(k) \in 0 .. n
        /\ k > 1 => Before(k) > 0 /\ Before(k) + 1 = k
        /\ k \in {0, 1} => Before(k) = 0
        /\ \A j \in Before(k) + 1 .. n : j + 1 \in k + 1 .. n + 1
    BY <1>1, <1>3, BeforeIsPlace
  <1>5. \A j \in Before(k) + 1 .. n : ~ShowsField(rest[j], is_own)
    <2> SUFFICES ASSUME NEW j \in Before(k) + 1 .. n PROVE ~ShowsField(rest[j], is_own)
      OBVIOUS
    <2>1. j \in 1 .. n /\ j + 1 \in k + 1 .. n + 1
      BY <1>1, <1>4
    <2> QED BY <1>1, <1>3, <2>1
  <1>6. Before(k) > 0 => rest[Before(k)] = GameFieldMsg(board, is_own)
    <2>1. CASE k > 1
      <3>1. Before(k) \in 1 .. n /\ Before(k) + 1 = k
        BY <1>4, <2>1
      <3> QED BY <1>1, <1>3, <2>1, <3>1
    <2>2. CASE k \in {0, 1}
      BY <1>4, <2>2
    <2> QED BY <1>3, <2>1, <2>2
  <1>7. Before(k) = 0 => shown = board
    <2>1. CASE k = 0
      <3>1. 1 \in k + 1 .. n + 1
        BY <1>1, <2>1
      <3> QED BY <1>2, <1>3, <2>1, <3>1
    <2>2. CASE k = 1
      BY <1>2, <1>3, <2>2 DEF ShowsField, GameFieldMsg
    <2>3. CASE k > 1
      BY <1>4, <2>3
    <2> QED BY <1>3, <2>1, <2>2, <2>3
  <1>8. ShownBy(shown, rest, is_own, board, Before(k))
    BY <1>5, <1>6, <1>7 DEF ShownBy, n
  <1> QED BY <1>4, <1>8 DEF shown, rest, n

\* Nor when the preparation is over.
LEMMA OverAfterFirst ==
    ASSUME NEW mode \in InterfaceMode, NEW queue \in Seq(InterfaceMsg), queue # <<>>,
           NEW p \in 0 .. Len(queue), OverBy(mode, queue, p)
    PROVE  OverBy(ModeAfter(mode, Head(queue)), Tail(queue), Before(p))
  <1> DEFINE rest == Tail(queue)
             n == Len(rest)
             now == ModeAfter(mode, Head(queue))
  <1>1. /\ n \in Nat /\ Len(queue) = n + 1
        /\ \A j \in 1 .. n : rest[j] = queue[j + 1]
        /\ Head(queue) = queue[1]
    BY HeadTailProperties
  <1>2. now = ModeAfter(mode, queue[1])
    BY <1>1
  <1> HIDE DEF rest, n, now
  <1>3. /\ p = 0 => mode # "PREPARATION_MODE"
        /\ p > 0 => queue[p].type \in {"STOP_PREPARATION", "START_TURN", "STOP_TURN"}
        /\ \A j \in p + 1 .. n + 1 : queue[j].type # "START_FIELD_REQ"
        /\ p \in 0 .. n + 1
    BY <1>1 DEF OverBy
  <1>4. /\ Before(p) \in 0 .. n
        /\ p > 1 => Before(p) > 0 /\ Before(p) + 1 = p
        /\ p \in {0, 1} => Before(p) = 0
        /\ \A j \in Before(p) + 1 .. n : j + 1 \in p + 1 .. n + 1
    BY <1>1, <1>3, BeforeIsPlace
  <1>5. \A j \in Before(p) + 1 .. n : rest[j].type # "START_FIELD_REQ"
    <2> SUFFICES ASSUME NEW j \in Before(p) + 1 .. n PROVE rest[j].type # "START_FIELD_REQ"
      OBVIOUS
    <2>1. j \in 1 .. n /\ j + 1 \in p + 1 .. n + 1
      BY <1>1, <1>4
    <2> QED BY <1>1, <1>3, <2>1
  <1>6. Before(p) > 0 => rest[Before(p)].type \in {"STOP_PREPARATION", "START_TURN", "STOP_TURN"}
    <2>1. CASE p > 1
      <3>1. Before(p) \in 1 .. n /\ Before(p) + 1 = p
        BY <1>4, <2>1
      <3> QED BY <1>1, <1>3, <2>1, <3>1
    <2>2. CASE p \in {0, 1}
      BY <1>4, <2>2
    <2> QED BY <1>3, <2>1, <2>2
  <1>7. Before(p) = 0 => now # "PREPARATION_MODE"
    <2>1. CASE p = 0
      <3>1. 1 \in p + 1 .. n + 1
        BY <1>1, <2>1
      <3> QED BY <1>2, <1>3, <2>1, <3>1 DEF ModeAfter
    <2>2. CASE p = 1
      BY <1>2, <1>3, <2>2 DEF ModeAfter
    <2>3. CASE p > 1
      BY <1>4, <2>3
    <2> QED BY <1>3, <2>1, <2>2, <2>3
  <1>8. OverBy(now, rest, Before(p))
    BY <1>5, <1>6, <1>7 DEF Over, OverBy, n
  <1> QED BY <1>8 DEF now, rest

\* Who will not be preparing his field stops at some message, or has stopped.
LEMMA PreparationEnds ==
    ASSUME NEW mode, NEW queue \in Seq(InterfaceMsg), NEW last, EndsIn(mode, queue, last),
           last # "PREPARATION_MODE"
    PROVE  Over(mode, queue)
  <1> DEFINE n == Len(queue)
  <1>1. n \in Nat
    BY LenProperties
  <1>2. PICK k \in 0 .. n, base \in InterfaceMode :
            /\ k = 0 => base = mode
            /\ k > 0 => SetsMode(queue[k]) /\ base = ModeAfter(mode, queue[k])
            /\ \A j \in k + 1 .. n : ~SetsMode(queue[j])
            /\ last = IF /\ base = "PREPARATION_MODE"
                         /\ \E j \in k + 1 .. n : queue[j].type = "STOP_PREPARATION"
                      THEN "WAIT_MODE" ELSE base
    BY DEF EndsIn
  <1> HIDE DEF n
  <1>3. \A j \in k + 1 .. n : queue[j].type # "START_FIELD_REQ"
    BY <1>2 DEF SetsMode
  <1>4. CASE base # "PREPARATION_MODE"
    <2>1. k > 0 => queue[k].type \in {"STOP_PREPARATION", "START_TURN", "STOP_TURN"}
      BY <1>2, <1>4 DEF SetsMode, ModeAfter
    <2> QED BY <1>2, <1>3, <1>4, <2>1 DEF Over, OverBy, n
  <1>5. CASE base = "PREPARATION_MODE"
    <2>1. PICK p \in k + 1 .. n : queue[p].type = "STOP_PREPARATION"
      BY <1>2, <1>5
    <2>2. /\ p \in 0 .. n /\ p # 0
          /\ \A j \in p + 1 .. n : j \in k + 1 .. n
      BY <1>1, <1>2, <2>1
    <2> QED BY <1>3, <2>1, <2>2 DEF Over, OverBy, n
  <1> QED BY <1>4, <1>5

\* What a message at the end of the queue does to what will be seen.
LEMMA SeesMore ==
    ASSUME NEW ui, NEW queue \in Seq(InterfaceMsg), NEW msg \in InterfaceMsg,
           msg.type # "START_FIELD_REQ"
    PROVE  LET more == Append(queue, msg)
           IN  /\ Over(ui.mode, queue) => Over(ui.mode, more)
               /\ ~ShowsField(msg, FALSE) =>
                      \A board : SeesEnemy(ui, queue, board) => SeesEnemy(ui, more, board)
               /\ ~ShowsField(msg, TRUE) =>
                      \A board : SeesOwn(ui, queue, board) => SeesOwn(ui, more, board)
               /\ \A board \in Field :
                      msg = GameFieldMsg(board, FALSE) => SeesEnemy(ui, more, board)
               /\ \A board \in Field :
                      msg = GameFieldMsg(board, TRUE) /\ Over(ui.mode, queue) =>
                          SeesOwn(ui, more, board)
  <1> DEFINE more == Append(queue, msg)
  <1>1. Len(queue) \in Nat /\ Len(more) = Len(queue) + 1
    BY AppendProperties
  <1>2. \A p \in 0 .. Len(queue) :
            OverBy(ui.mode, queue, p) => OverBy(ui.mode, more, p) /\ p \in 0 .. Len(more)
    BY <1>1, OverAsBefore
  <1>3. \A is_own \in BOOLEAN : \A board, shown : \A k \in 0 .. Len(queue) :
            ShownBy(shown, queue, is_own, board, k) /\ ~ShowsField(msg, is_own) =>
                ShownBy(shown, more, is_own, board, k) /\ k \in 0 .. Len(more)
    BY ShownAsBefore
  <1>4. \A is_own \in BOOLEAN : \A shown : \A board \in Field :
            msg = GameFieldMsg(board, is_own) => ShownBy(shown, more, is_own, board, Len(more))
    BY ShownAnew
  <1> HIDE DEF more
  <1>5. Len(more) \in 0 .. Len(more) /\ \A p \in 0 .. Len(queue) : p <= Len(more)
    BY <1>1
  <1>6. Over(ui.mode, queue) => Over(ui.mode, more)
    BY <1>2 DEF Over
  <1>7. ASSUME ~ShowsField(msg, FALSE), NEW board, SeesEnemy(ui, queue, board)
        PROVE  SeesEnemy(ui, more, board)
    <2>1. PICK k \in 0 .. Len(queue) : ShownBy(ui.enemy_field, queue, FALSE, board, k)
      BY <1>7 DEF SeesEnemy
    <2> QED BY <1>3, <1>7, <2>1 DEF SeesEnemy
  <1>8. ASSUME ~ShowsField(msg, TRUE), NEW board, SeesOwn(ui, queue, board)
        PROVE  SeesOwn(ui, more, board)
    <2>1. PICK k \in 0 .. Len(queue), p \in 0 .. Len(queue) :
              /\ p <= k
              /\ OverBy(ui.mode, queue, p)
              /\ ShownBy(ui.own_field, queue, TRUE, board, k)
      BY <1>8 DEF SeesOwn
    <2>2. k \in 0 .. Len(more) /\ ShownBy(ui.own_field, more, TRUE, board, k)
      BY <1>3, <1>8, <2>1
    <2>3. p \in 0 .. Len(more) /\ OverBy(ui.mode, more, p)
      BY <1>2, <2>1
    <2> QED BY <2>1, <2>2, <2>3 DEF SeesOwn
  <1>9. ASSUME NEW board \in Field, msg = GameFieldMsg(board, FALSE)
        PROVE  SeesEnemy(ui, more, board)
    BY <1>4, <1>5, <1>9 DEF SeesEnemy
  <1>10. ASSUME NEW board \in Field, msg = GameFieldMsg(board, TRUE), Over(ui.mode, queue)
         PROVE  SeesOwn(ui, more, board)
    <2>1. PICK p \in 0 .. Len(queue) : OverBy(ui.mode, queue, p)
      BY <1>10 DEF Over
    <2>2. p \in 0 .. Len(more) /\ OverBy(ui.mode, more, p) /\ p <= Len(more)
      BY <1>2, <1>5, <2>1
    <2>3. ShownBy(ui.own_field, more, TRUE, board, Len(more))
      BY <1>4, <1>10
    <2> QED BY <1>5, <2>2, <2>3 DEF SeesOwn
  <1> QED BY <1>6, <1>7, <1>8, <1>9, <1>10 DEF more

\* A message that has nothing to do with boards or with the preparation.
Quiet(msg) == msg.type \notin {"START_FIELD_REQ", "GAME_FIELD"}

\* Such a message changes nothing; one that shows a board as it is now makes the
\* player see it so; and after the boards were sent he sees them.
LEMMA SeesWhatIsSent ==
    ASSUME NEW ui, NEW queue \in Seq(InterfaceMsg), NEW own \in Field, NEW enemy \in Field
    PROVE  /\ \A msg \in InterfaceMsg : Quiet(msg) /\ Sees(ui, queue, own, enemy) =>
                  Sees(ui, Append(queue, msg), own, enemy)
           /\ \A new \in Field : Sees(ui, queue, own, enemy) =>
                  /\ Sees(ui, Append(queue, GameFieldMsg(new, TRUE)), new, enemy)
                  /\ Sees(ui, Append(queue, GameFieldMsg(get_for_enemy(new), FALSE)), own, new)
           /\ Over(ui.mode, queue) =>
                  Sees(ui, Append(Append(queue, GameFieldMsg(own, TRUE)),
                                  GameFieldMsg(get_for_enemy(enemy), FALSE)), own, enemy)
  <1>1. ASSUME NEW msg \in InterfaceMsg, Quiet(msg), Sees(ui, queue, own, enemy)
        PROVE  Sees(ui, Append(queue, msg), own, enemy)
    <2>1. /\ msg.type # "START_FIELD_REQ"
          /\ ~ShowsField(msg, TRUE) /\ ~ShowsField(msg, FALSE)
      BY <1>1 DEF Quiet, ShowsField
    <2>2. /\ \A board : SeesEnemy(ui, queue, board) => SeesEnemy(ui, Append(queue, msg), board)
          /\ \A board : SeesOwn(ui, queue, board) => SeesOwn(ui, Append(queue, msg), board)
      BY <2>1, SeesMore
    <2> QED BY <1>1, <2>2, Zenon DEF Sees
  <1>2. ASSUME NEW board \in Field, NEW is_own \in BOOLEAN
        PROVE  /\ GameFieldMsg(board, is_own) \in InterfaceMsg
               /\ GameFieldMsg(board, is_own).type # "START_FIELD_REQ"
               /\ ~ShowsField(GameFieldMsg(board, is_own), ~is_own)
    <2>1. GameFieldMsg(board, is_own) \in InterfaceMsg
      BY MessagesAreTyped
    <2> QED BY <2>1 DEF GameFieldMsg, ShowsField
  <1>3. ASSUME NEW new \in Field, Over(ui.mode, queue)
        PROVE  SeesOwn(ui, Append(queue, GameFieldMsg(new, TRUE)), new)
    BY <1>2, <1>3, SeesMore
  <1>4. ASSUME NEW new \in Field, Sees(ui, queue, own, enemy)
        PROVE  Sees(ui, Append(queue, GameFieldMsg(new, TRUE)), new, enemy)
    <2>1. Over(ui.mode, queue)
      BY <1>4 DEF Sees, SeesOwn, Over
    <2>2. ~ShowsField(GameFieldMsg(new, TRUE), FALSE)
      BY <1>2
    <2>3. SeesEnemy(ui, queue, get_for_enemy(enemy)) =>
              SeesEnemy(ui, Append(queue, GameFieldMsg(new, TRUE)), get_for_enemy(enemy))
      BY <1>2, <2>2, SeesMore
    <2> QED BY <1>3, <1>4, <2>1, <2>3 DEF Sees
  <1>5. ASSUME NEW new \in Field, Sees(ui, queue, own, enemy)
        PROVE  Sees(ui, Append(queue, GameFieldMsg(get_for_enemy(new), FALSE)), own, new)
    <2>1. get_for_enemy(new) \in Field
      BY EnemyViewIsField
    <2>2. /\ GameFieldMsg(get_for_enemy(new), FALSE) \in InterfaceMsg
          /\ GameFieldMsg(get_for_enemy(new), FALSE).type # "START_FIELD_REQ"
          /\ ~ShowsField(GameFieldMsg(get_for_enemy(new), FALSE), TRUE)
      BY <1>2, <2>1
    <2>3. /\ \A board : SeesOwn(ui, queue, board) =>
                 SeesOwn(ui, Append(queue, GameFieldMsg(get_for_enemy(new), FALSE)), board)
          /\ SeesEnemy(ui, Append(queue, GameFieldMsg(get_for_enemy(new), FALSE)), get_for_enemy(new))
      BY <2>1, <2>2, SeesMore
    <2> QED BY <1>5, <2>3, Zenon DEF Sees
  <1>6. ASSUME Over(ui.mode, queue)
        PROVE  Sees(ui, Append(Append(queue, GameFieldMsg(own, TRUE)),
                               GameFieldMsg(get_for_enemy(enemy), FALSE)), own, enemy)
    <2>1. PICK more \in Seq(InterfaceMsg) : more = Append(queue, GameFieldMsg(own, TRUE))
      BY <1>2, AppendProperties
    <2>2. SeesOwn(ui, more, own)
      BY <1>3, <1>6, <2>1
    <2>3. get_for_enemy(enemy) \in Field
      BY EnemyViewIsField
    <2>4. /\ GameFieldMsg(get_for_enemy(enemy), FALSE) \in InterfaceMsg
          /\ GameFieldMsg(get_for_enemy(enemy), FALSE).type # "START_FIELD_REQ"
          /\ ~ShowsField(GameFieldMsg(get_for_enemy(enemy), FALSE), TRUE)
      BY <1>2, <2>3
    <2>5. /\ SeesOwn(ui, Append(more, GameFieldMsg(get_for_enemy(enemy), FALSE)), own)
          /\ SeesEnemy(ui, Append(more, GameFieldMsg(get_for_enemy(enemy), FALSE)),
                       get_for_enemy(enemy))
      BY <2>2, <2>3, <2>4, SeesMore
    <2> QED BY <2>1, <2>5 DEF Sees
  <1> QED BY <1>1, <1>4, <1>5, <1>6

\* Legal start fields look the same to the enemy, and to their owner one will do
\* for the other.
LEMMA SeesNewStart ==
    ASSUME NEW ui, NEW queue, NEW own, NEW enemy, Sees(ui, queue, own, enemy),
           is_valid_start_field(own), is_valid_start_field(enemy),
           NEW new_own, is_valid_start_field(new_own),
           NEW new_enemy, is_valid_start_field(new_enemy)
    PROVE  Sees(ui, queue, new_own, new_enemy)
  <1>1. get_for_enemy(enemy) = get_for_enemy(new_enemy)
    <2>1. \A c \in Cell : enemy[c] \in {"EMPTY", "UNHARMED"} /\ new_enemy[c] \in {"EMPTY", "UNHARMED"}
      BY DEF is_valid_start_field
    <2> QED BY <2>1 DEF get_for_enemy
  <1> QED BY <1>1 DEF Sees

\* Processing the first message does not change what will be seen.
LEMMA SeesAfterFirst ==
    ASSUME NEW ui \in Interface, NEW queue \in Seq(InterfaceMsg), queue # <<>>,
           NEW own, NEW enemy, Sees(ui, queue, own, enemy)
    PROVE  Sees(Handled(ui, Head(queue)), Tail(queue), own, enemy)
  <1> DEFINE after == Handled(ui, Head(queue))
             rest == Tail(queue)
  <1>1. /\ after.mode = ModeAfter(ui.mode, Head(queue)) /\ ui.mode \in InterfaceMode
        /\ Len(rest) \in Nat /\ Len(queue) = Len(rest) + 1
    BY ModeOfHandled, HeadTailProperties DEF Interface
  <1>2. /\ \A board, k : k \in 0 .. Len(queue) /\ ShownBy(ui.own_field, queue, TRUE, board, k) =>
               ShownBy(after.own_field, rest, TRUE, board, Before(k)) /\ Before(k) \in 0 .. Len(rest)
        /\ \A board, k : k \in 0 .. Len(queue) /\ ShownBy(ui.enemy_field, queue, FALSE, board, k) =>
               ShownBy(after.enemy_field, rest, FALSE, board, Before(k)) /\ Before(k) \in 0 .. Len(rest)
    BY ShownAfterFirst DEF FieldOf
  <1>3. \A p \in 0 .. Len(queue) : OverBy(ui.mode, queue, p) => OverBy(after.mode, rest, Before(p))
    BY <1>1, OverAfterFirst
  <1> HIDE DEF after, rest
  <1>4. \A k, p \in 0 .. Len(queue) : p <= k =>
            Before(p) <= Before(k) /\ Before(p) \in 0 .. Len(rest)
    BY <1>1, BeforeIsPlace
  <1>5. ASSUME NEW board, SeesOwn(ui, queue, board) PROVE SeesOwn(after, rest, board)
    <2>1. PICK k \in 0 .. Len(queue), p \in 0 .. Len(queue) :
              /\ p <= k
              /\ OverBy(ui.mode, queue, p)
              /\ ShownBy(ui.own_field, queue, TRUE, board, k)
      BY <1>5 DEF SeesOwn
    <2>2. /\ ShownBy(after.own_field, rest, TRUE, board, Before(k)) /\ Before(k) \in 0 .. Len(rest)
          /\ OverBy(after.mode, rest, Before(p)) /\ Before(p) \in 0 .. Len(rest)
          /\ Before(p) <= Before(k)
      BY <1>2, <1>3, <1>4, <2>1
    <2> QED BY <2>2 DEF SeesOwn
  <1>6. ASSUME NEW board, SeesEnemy(ui, queue, board) PROVE SeesEnemy(after, rest, board)
    BY <1>2, <1>6 DEF SeesEnemy
  <1> QED BY <1>5, <1>6 DEF Sees, after, rest

\* A key changes the player's own board only while he prepares it, and no key makes
\* him prepare it again.
LEMMA SeesAfterKey ==
    ASSUME NEW ui, NEW after, NEW queue \in Seq(InterfaceMsg), NEW own, NEW enemy,
           Sees(ui, queue, own, enemy),
           after.enemy_field = ui.enemy_field,
           \/ /\ after.own_field = ui.own_field
              /\ after.mode \in {ui.mode, "WAIT_MODE"}
           \/ ui.mode = "PREPARATION_MODE" /\ after.mode = ui.mode
    PROVE  Sees(after, queue, own, enemy)
  <1>1. \A board : SeesEnemy(ui, queue, board) => SeesEnemy(after, queue, board)
    BY DEF SeesEnemy
  <1>2. ASSUME NEW board, SeesOwn(ui, queue, board) PROVE SeesOwn(after, queue, board)
    <2>1. PICK k \in 0 .. Len(queue), p \in 0 .. Len(queue) :
              /\ p <= k
              /\ OverBy(ui.mode, queue, p)
              /\ ShownBy(ui.own_field, queue, TRUE, board, k)
      BY <1>2 DEF SeesOwn
    <2>2. OverBy(after.mode, queue, p)
      BY <2>1 DEF OverBy
    <2>3. ShownBy(after.own_field, queue, TRUE, board, k)
      <3>1. CASE after.own_field = ui.own_field
        BY <2>1, <3>1
      <3>2. CASE ui.mode = "PREPARATION_MODE"
        <4>1. k > 0 /\ k # 0
          BY <2>1, <3>2, LenProperties DEF OverBy
        <4> QED BY <2>1, <4>1 DEF ShownBy
      <3> QED BY <3>1, <3>2
    <2> QED BY <2>1, <2>2, <2>3 DEF SeesOwn
  <1> QED BY <1>1, <1>2 DEF Sees

-----------------------------------------------------------------------------
(***************************************************************************)
(* The boards are shown                                                    *)
(***************************************************************************)

\* The timeouts that lead from the preparation to the first turn.
StartTimeouts == {"Preparation", "CheckStartFields", "GameStart"}

\* There is never more than one of them: no match starts while the start of an
\* earlier one is still under way.
OneStart ==
    \A g, h \in Handle :
        timers[g].kind \in StartTimeouts /\ timers[h].kind \in StartTimeouts => g = h

StartsSoon == \E h \in Handle : timers[h].kind = "GameStart"

\* From the check of the fields on the boards have been sent.
BoardsSent ==
    \/ state \in {"GAME_TURN", "PROCESS_TURN"}
    \/ state = "WAIT_START" /\ StartsSoon

BoardsShown(i, c) == Sees(interface[c], to_interface[c], fields[i], fields[enemy_idx(i)])

BoardsFit ==
    BoardsSent =>
        /\ \A i \in PlayerNumber, c \in Client : players[i] = c => BoardsShown(i, c)
        /\ state = "WAIT_START" => \A i \in PlayerNumber : is_valid_start_field(fields[i])

\* What the steps may take for granted.
Shown == Seated /\ BoardsFit /\ OneStart' /\ BoardsSent'

\* The boards that a slot is about are boards.
LEMMA SlotsHaveBoards ==
    ASSUME Seated, NEW i \in PlayerNumber
    PROVE  /\ enemy_idx(i) \in PlayerNumber
           /\ fields[i] \in Field /\ fields[enemy_idx(i)] \in Field
           /\ fields'[i] \in Field /\ fields'[enemy_idx(i)] \in Field
  BY DEF Seated, PlayInv, TypeOK, enemy_idx, PlayerNumber

\* A player who gets nothing or quiet messages sees what he saw.
LEMMA QuietKeepsBoards ==
    ASSUME Seated, NEW i \in PlayerNumber, NEW c \in Client, BoardsShown(i, c),
           UNCHANGED fields, interface' = interface,
           \/ to_interface'[c] = to_interface[c] \o <<>>
           \/ \E msg \in InterfaceMsg :
                  Quiet(msg) /\ to_interface'[c] = to_interface[c] \o <<msg>>
           \/ \E first, second \in InterfaceMsg :
                  /\ Quiet(first) /\ Quiet(second)
                  /\ to_interface'[c] = to_interface[c] \o <<first, second>>
    PROVE  BoardsShown(i, c)'
  <1>9. PICK queue \in Seq(InterfaceMsg) : queue = to_interface[c]
    BY DEF Seated, PlayInv, PlayTypeOK
  <1>10. PICK own \in Field, enemy \in Field : own = fields[i] /\ enemy = fields[enemy_idx(i)]
    BY SlotsHaveBoards
  <1>11. PICK ui : ui = interface[c]
    OBVIOUS
  <1>1. /\ queue = to_interface[c] /\ ui = interface[c]
        /\ own = fields[i] /\ enemy = fields[enemy_idx(i)]
    BY <1>9, <1>10, <1>11
  <1>2. Sees(ui, queue, own, enemy)
    BY <1>1 DEF BoardsShown
  <1>3. BoardsShown(i, c)' <=> Sees(ui, to_interface'[c], own, enemy)
    BY <1>1 DEF BoardsShown
  <1>4. ASSUME NEW more \in Seq(InterfaceMsg), NEW msg \in InterfaceMsg, Quiet(msg),
               Sees(ui, more, own, enemy)
        PROVE  Sees(ui, Append(more, msg), own, enemy)
    BY <1>4, SeesWhatIsSent
  <1>5. CASE to_interface'[c] = to_interface[c] \o <<>>
    <2>1. to_interface'[c] = queue
      BY <1>1, <1>5, FewAppended, MessagesAreTyped
    <2> QED BY <1>2, <1>3, <2>1
  <1>6. ASSUME NEW msg \in InterfaceMsg, Quiet(msg), to_interface'[c] = to_interface[c] \o <<msg>>
        PROVE  BoardsShown(i, c)'
    <2>1. to_interface'[c] = Append(queue, msg)
      BY <1>1, <1>6, FewAppended
    <2> QED BY <1>2, <1>3, <1>4, <1>6, <2>1
  <1>7. ASSUME NEW first \in InterfaceMsg, NEW second \in InterfaceMsg,
               Quiet(first), Quiet(second),
               to_interface'[c] = to_interface[c] \o <<first, second>>
        PROVE  BoardsShown(i, c)'
    <2>1. to_interface'[c] = Append(Append(queue, first), second)
      BY <1>1, <1>7, FewAppended
    <2>2. PICK more \in Seq(InterfaceMsg) : more = Append(queue, first)
      BY FewAppended
    <2>3. Sees(ui, more, own, enemy)
      BY <1>2, <1>4, <1>7, <2>2
    <2>4. Sees(ui, Append(more, second), own, enemy)
      BY <1>4, <1>7, <2>3
    <2> QED BY <1>3, <2>1, <2>2, <2>4
  <1> QED BY <1>5, <1>6, <1>7

\* The messages that are quiet.
LEMMA QuietMessages ==
    /\ \A shown : Quiet(GameStateMsg(shown))
    /\ \A is_own : Quiet(StopTurnMsg(is_own))
    /\ \A is_own, duration : Quiet(StartTurnMsg(is_own, duration))
    /\ \A is_on : Quiet(ServerConnStatusMsg(is_on))
  BY DEF Quiet, GameStateMsg, StopTurnMsg, StartTurnMsg, ServerConnStatusMsg

\* The boards are sent still when they were, and nothing is sent to this slot that
\* shows another.
LEMMA BoardsAsBefore ==
    ASSUME Shown, UNCHANGED fields, BoardsSent,
           state' = "WAIT_START" => state = "WAIT_START",
           \A i \in PlayerNumber, c \in Client : players'[i] = c =>
               /\ players[i] = c
               /\ interface' = interface
               /\ \/ to_interface'[c] = to_interface[c] \o <<>>
                  \/ \E msg \in InterfaceMsg :
                         Quiet(msg) /\ to_interface'[c] = to_interface[c] \o <<msg>>
    PROVE  BoardsFit'
  <1>1. ASSUME NEW i \in PlayerNumber, NEW c \in Client, players'[i] = c PROVE BoardsShown(i, c)'
    <2>1. BoardsShown(i, c)
      BY <1>1 DEF Shown, BoardsFit
    <2> QED BY <1>1, <2>1, QuietKeepsBoards DEF Shown
  <1>2. state' = "WAIT_START" => \A i \in PlayerNumber : is_valid_start_field(fields'[i])
    BY DEF Shown, BoardsFit
  <1> QED BY <1>1, <1>2 DEF BoardsFit

\* Requests.
LEMMA RequestsKeepBoards ==
    ASSUME Shown, SessionAssumption, NEW d \in Client, ServeSessionReq(d)
    PROVE  BoardsFit'
  <1>1. CASE JoinFirst(d)
    BY <1>1 DEF JoinFirst, Shown, BoardsSent
  <1>2. CASE JoinSecond(d)
    BY <1>2 DEF JoinSecond, Shown, BoardsSent
  <1>3. ASSUME UNCHANGED vars, Send([Nothing EXCEPT ![Slot(d)] = <<GameStateMsg(state)>>])
        PROVE  BoardsFit'
    <2>1. UNCHANGED <<state, players, fields, timers>>
      BY <1>3 DEF vars, sessionVars, timerVars
    <2>2. BoardsSent
      BY <2>1 DEF Shown, BoardsSent, StartsSoon
    <2>3. GameStateMsg(state) \in InterfaceMsg /\ Quiet(GameStateMsg(state))
      <3>1. state \in ShownState
        BY DEF Shown, Seated, PlayInv, TypeOK, GameState, ShownState
      <3> QED BY <3>1, MessagesAreTyped, QuietMessages
    <2>4. ASSUME NEW i \in PlayerNumber, NEW c \in Client, players'[i] = c
          PROVE  /\ players[i] = c
                 /\ interface' = interface
                 /\ \/ to_interface'[c] = to_interface[c] \o <<>>
                    \/ \E msg \in InterfaceMsg :
                           Quiet(msg) /\ to_interface'[c] = to_interface[c] \o <<msg>>
      <3>1. [Nothing EXCEPT ![Slot(d)] = <<GameStateMsg(state)>>][i]
                \in {<<>>, <<GameStateMsg(state)>>}
        BY DEF Nothing
      <3>2. /\ interface' = interface
            /\ to_interface'[c] =
                   to_interface[c] \o [Nothing EXCEPT ![Slot(d)] = <<GameStateMsg(state)>>][i]
        BY <1>3, <2>4, SeatedReceive DEF Shown, Seated
      <3>3. \/ to_interface'[c] = to_interface[c] \o <<>>
            \/ to_interface'[c] = to_interface[c] \o <<GameStateMsg(state)>>
        BY <3>1, <3>2
      <3> QED BY <2>1, <2>3, <2>4, <3>2, <3>3
    <2> QED BY <2>1, <2>2, <2>4, BoardsAsBefore
  <1> QED BY <1>1, <1>2, <1>3 DEF ServeSessionReq

\* Nothing is sent to anyone.
LEMMA NothingKeepsBoards ==
    ASSUME Shown, SessionAssumption, UNCHANGED <<players, fields>>, BoardsSent,
           state' = "WAIT_START" => state = "WAIT_START",
           Send(Nothing) \/ Inform(Nothing)
    PROVE  BoardsFit'
  <1>1. ASSUME NEW i \in PlayerNumber, NEW c \in Client, players'[i] = c
        PROVE  /\ players[i] = c
               /\ interface' = interface
               /\ to_interface'[c] = to_interface[c] \o <<>>
    <2>1. Nothing[i] = <<>>
      BY DEF Nothing
    <2>2. interface' = interface /\ to_interface'[c] = to_interface[c] \o Nothing[i]
      <3>1. CASE Send(Nothing)
        BY <1>1, <3>1, SeatedReceive DEF Shown, Seated
      <3>2. CASE Inform(Nothing)
        <4>1. Seated
          BY DEF Shown
        <4>2. \A sent : Inform(sent) =>
                  interface' = interface /\ to_interface'[c] = to_interface[c] \o sent[i]
          BY <1>1, <4>1, InformedStay
        <4> QED BY <3>2, <4>2
      <3> QED BY <3>1, <3>2
    <2> QED BY <1>1, <2>1, <2>2
  <1> QED BY <1>1, BoardsAsBefore

\* A field that comes after the check replaces one that was shown.
LEMMA FieldsKeepBoards ==
    ASSUME Shown, SessionAssumption, NEW d \in Client, ServeField(d)
    PROVE  BoardsFit'
  <1> DEFINE f == Head(to_session[d]).field
  <1>1. UNCHANGED <<state, players, timers>> /\ Send(Nothing)
    BY DEF ServeField, SendField, vars, sessionVars, timerVars
  <1>2. BoardsSent
    BY <1>1 DEF Shown, BoardsSent, StartsSoon
  <1>3. CASE UNCHANGED fields
    BY <1>1, <1>2, <1>3, NothingKeepsBoards
  <1>4. CASE SendField(d, f)
    <2>1. state = "WAIT_START"
      BY <1>2, <1>4 DEF SendField, BoardsSent
    <2>2. \A i \in PlayerNumber : is_valid_start_field(fields[i]) /\ is_valid_start_field(fields'[i])
      <3>1. \A i \in PlayerNumber : is_valid_start_field(fields[i])
        BY <1>2, <2>1 DEF Shown, BoardsFit
      <3>2. is_valid_start_field(f) /\ fields' = [fields EXCEPT ![Slot(d)] = f]
        BY <1>4 DEF SendField
      <3>3. fields \in [PlayerNumber -> Field]
        BY DEF Shown, Seated, PlayInv, TypeOK
      <3> HIDE DEF f
      <3>4. \A i \in PlayerNumber : fields'[i] = fields[i] \/ fields'[i] = f
        BY <3>2, <3>3
      <3> QED BY <3>1, <3>2, <3>4
    <2>3. ASSUME NEW i \in PlayerNumber, NEW c \in Client, players'[i] = c
          PROVE  BoardsShown(i, c)'
      <3>1. BoardsShown(i, c)
        BY <1>1, <1>2, <2>3 DEF Shown, BoardsFit
      <3>2. interface' = interface /\ to_interface'[c] = to_interface[c]
        <4>1. interface' = interface /\ to_interface'[c] = to_interface[c] \o Nothing[i]
          BY <1>1, <2>3, SeatedReceive DEF Shown, Seated
        <4>2. Nothing[i] = <<>> /\ to_interface[c] \in Seq(InterfaceMsg)
          BY DEF Nothing, Shown, Seated, PlayInv, PlayTypeOK
        <4>3. to_interface[c] \o <<>> = to_interface[c]
          BY <4>2, FewAppended, MessagesAreTyped
        <4> QED BY <4>1, <4>2, <4>3
      <3>3. enemy_idx(i) \in PlayerNumber
        BY DEF enemy_idx, PlayerNumber
      <3>4. Sees(interface[c], to_interface[c], fields'[i], fields'[enemy_idx(i)])
        BY <2>2, <3>1, <3>3, SeesNewStart DEF BoardsShown
      <3> QED BY <3>2, <3>4 DEF BoardsShown
    <2> QED BY <2>2, <2>3 DEF BoardsFit
  <1>5. UNCHANGED fields \/ SendField(d, f)
    BY DEF ServeField, vars, sessionVars
  <1> QED BY <1>3, <1>4, <1>5

\* Shots.
LEMMA MovesKeepBoards ==
    ASSUME Shown, SessionAssumption, NEW d \in Client, ServeMove(d)
    PROVE  BoardsFit'
  <1> DEFINE point == Head(to_session[d]).point
  <1>1. ASSUME Move(d, point), Send(TurnStopped) PROVE BoardsFit'
    <2>1. /\ UNCHANGED <<players, fields>> /\ state = "GAME_TURN" /\ state' = "PROCESS_TURN"
          /\ BoardsSent
      BY <1>1 DEF Move, end_turn, BoardsSent
    <2>2. ASSUME NEW i \in PlayerNumber, NEW c \in Client, players'[i] = c
          PROVE  /\ players[i] = c
                 /\ interface' = interface
                 /\ \E msg \in InterfaceMsg :
                        Quiet(msg) /\ to_interface'[c] = to_interface[c] \o <<msg>>
      <3>1. interface' = interface /\ to_interface'[c] = to_interface[c] \o TurnStopped[i]
        BY <1>1, <2>2, SeatedReceive DEF Shown, Seated
      <3>2. TurnStopped[i] = <<StopTurnMsg(i = cur_turn_player_idx)>>
        BY DEF TurnStopped
      <3>3. \A is_own \in BOOLEAN : StopTurnMsg(is_own) \in InterfaceMsg /\ Quiet(StopTurnMsg(is_own))
        BY MessagesAreTyped, QuietMessages
      <3>4. (i = cur_turn_player_idx) \in BOOLEAN
        OBVIOUS
      <3> QED BY <2>1, <2>2, <3>1, <3>2, <3>3, <3>4
    <2> QED BY <2>1, <2>2, BoardsAsBefore
  <1>2. ASSUME Send(Nothing), UNCHANGED <<state, players, fields, timers>> PROVE BoardsFit'
    <2>1. BoardsSent
      BY <1>2 DEF Shown, BoardsSent, StartsSoon
    <2> QED BY <1>2, <2>1, NothingKeepsBoards
  <1>3. LateMove(d, point) => UNCHANGED <<state, players, fields, timers>>
    BY DEF LateMove, timerVars
  <1>4. UNCHANGED vars => UNCHANGED <<state, players, fields, timers>>
    BY DEF vars, sessionVars, timerVars
  <1>5. \/ Move(d, point) /\ Send(TurnStopped)
        \/ LateMove(d, point) /\ Send(Nothing)
        \/ UNCHANGED vars /\ Send(Nothing)
    BY Zenon DEF ServeMove
  <1> HIDE DEF point
  <1> QED BY <1>1, <1>2, <1>3, <1>4, <1>5

\* The heap after the events that start no timeout holds nothing new.
LEMMA HeapHoldsNothingNew ==
    ASSUME TypeOK, SessionAssumption, timers' = Heap, StartsSoon'
    PROVE  StartsSoon
  <1>1. PICK h \in Handle : timers'[h].kind = "GameStart"
    BY DEF StartsSoon
  <1>2. timers[h].kind = "GameStart"
    BY <1>1 DEF Heap, Deleted, TypeOK
  <1> QED BY <1>2 DEF StartsSoon

\* An event that is ignored.
LEMMA IgnoredKeepsBoards ==
    ASSUME Shown, SessionAssumption, Ignored, Inform(Nothing)
    PROVE  BoardsFit'
  <1>1. UNCHANGED <<state, players, fields>> /\ timers' = Heap
    BY DEF Ignored, sessionVars
  <1>2. TypeOK
    BY DEF Shown, Seated, PlayInv
  <1>3. StartsSoon' => StartsSoon
    BY <1>1, <1>2, HeapHoldsNothingNew
  <1>4. BoardsSent
    BY <1>1, <1>3 DEF Shown, BoardsSent
  <1> QED BY <1>1, <1>4, NothingKeepsBoards

\* The end of the preparation starts the check, and no start is under way.
LEMMA StopLeavesNoStart ==
    ASSUME Shown, SessionAssumption, stop_preparation
    PROVE  FALSE
  <1>1. state' = "WAIT_START" /\ StartTimeout("CheckStartFields", WAIT_DURATION)
    BY DEF stop_preparation
  <1>2. PICK g \in Handle : timers'[g].kind = "GameStart"
    BY <1>1 DEF Shown, BoardsSent, StartsSoon
  <1>3. PICK h \in Handle : timers' = New(h, "CheckStartFields", WAIT_DURATION)
    BY <1>1 DEF StartTimeout
  <1>4. timers'[h].kind = "CheckStartFields"
    BY <1>3 DEF New, Heap, Shown, Seated, PlayInv, TypeOK
  <1>5. g = h
    BY <1>2, <1>4 DEF Shown, OneStart, StartTimeouts
  <1> QED BY <1>2, <1>4, <1>5

\* The check of the fields sends them, when it is in time.
LEMMA CheckKeepsBoards ==
    ASSUME Shown, SessionAssumption, check_start_fields,
           Inform(IF Cardinality({i \in PlayerNumber : players'[i] # None}) = 1 THEN StateSent
                  ELSE IF state' = "WAIT_START" THEN StartFieldsSent ELSE Nothing)
    PROVE  BoardsFit'
  <1> DEFINE stay == {i \in PlayerNumber : players'[i] # None}
  <1>1. Seated /\ PlayInv /\ ModesFit /\ OneSeat' /\ PlayTypeOK
    BY DEF Shown, Seated, PlayInv
  <1>2. CASE stay = {}
    <2>1. \A i \in PlayerNumber, c \in Client : players'[i] # c
      BY <1>2 DEF SessionAssumption
    <2>2. state' = StateWithout(Unprepared) /\ UNCHANGED fields
      BY <1>2 DEF check_start_fields, PlayerNumber
    <2>3. state' \in {"NO_VACANT_GAME", "WAIT_PLAYER"} \/ Unprepared = {}
      <3>1. Unprepared \subseteq PlayerNumber
        BY DEF Unprepared
      <3>2. Unprepared = {} \/ Unprepared = PlayerNumber \/ \E i \in PlayerNumber : Unprepared = {i}
        BY <3>1 DEF PlayerNumber
      <3> QED BY <2>2, <3>2, StateWithoutCases DEF AfterLeaving
    <2>4. CASE Unprepared = {}
      <3>1. state' = state /\ timers' = Heap
        BY <1>2, <2>2, <2>4, StateWithoutCases DEF check_start_fields, PlayerNumber
      <3>2. TypeOK
        BY <1>1 DEF PlayInv
      <3>3. BoardsSent
        BY <3>1, <3>2, HeapHoldsNothingNew DEF Shown, BoardsSent
      <3>4. state' = "WAIT_START" => \A i \in PlayerNumber : is_valid_start_field(fields'[i])
        BY <2>2, <3>1, <3>3 DEF Shown, BoardsFit
      <3> QED BY <2>1, <3>4 DEF BoardsFit
    <2>5. CASE state' \in {"NO_VACANT_GAME", "WAIT_PLAYER"}
      BY <2>5 DEF Shown, BoardsSent
    <2> QED BY <2>3, <2>4, <2>5
  <1>3. CASE stay \notin {{}, PlayerNumber}
    <2>1. state' = "WAIT_PLAYER"
      BY <1>3 DEF check_start_fields
    <2> QED BY <2>1 DEF Shown, BoardsSent
  <1>4. CASE stay = PlayerNumber
    <2>1. /\ UNCHANGED <<state, fields>>
          /\ StartTimeout("GameStart", WAIT_DURATION)
          /\ players' = Remaining(Unprepared)
      BY <1>4 DEF check_start_fields, PlayerNumber
    <2>2. Unprepared = {} /\ players' = players
      <3>1. \A i \in PlayerNumber : i \notin Unprepared
        BY <1>4, <2>1 DEF Remaining
      <3>2. Unprepared = {}
        BY <3>1 DEF Unprepared
      <3> QED BY <1>1, <2>1, <3>2 DEF Remaining, PlayInv, TypeOK
    <2>3. Cardinality(stay) # 1
      <3>1. IsFiniteSet(stay)
        <4>1. IsFiniteSet({0})
          BY FS_Singleton
        <4>2. IsFiniteSet({0} \cup {1})
          BY <4>1, FS_AddElement
        <4>3. stay = {0} \cup {1}
          BY <1>4 DEF PlayerNumber
        <4> QED BY <4>2, <4>3
      <3>2. Cardinality(stay) = 1 => \E x : stay = {x}
        BY <3>1, FS_Singleton
      <3> QED BY <1>4, <3>2 DEF PlayerNumber
    <2>4. CASE state = "WAIT_START"
      <3>1. Inform(StartFieldsSent)
        BY <2>1, <2>3, <2>4
      <3>2. \A i \in PlayerNumber : is_valid_start_field(fields[i])
        BY <1>4, <2>2 DEF Unprepared
      <3>3. ASSUME NEW i \in PlayerNumber, NEW c \in Client, players'[i] = c
            PROVE  BoardsShown(i, c)'
        <4>1. PICK queue \in Seq(InterfaceMsg) : queue = to_interface[c]
          BY <1>1 DEF PlayTypeOK
        <4>2. PICK own \in Field, enemy \in Field : own = fields[i] /\ enemy = fields[enemy_idx(i)]
          BY <1>1, SlotsHaveBoards
        <4>3. PICK first \in InterfaceMsg, second \in InterfaceMsg :
                  /\ first = GameFieldMsg(own, TRUE)
                  /\ second = GameFieldMsg(get_for_enemy(enemy), FALSE)
          BY MessagesAreTyped, EnemyViewIsField
        <4>4. /\ interface' = interface
              /\ to_interface'[c] = queue \o StartFieldsSent[i]
          BY <1>1, <3>1, <3>3, <4>1, InformedStay
        <4>5. StartFieldsSent[i] = <<first, second>>
          BY <4>2, <4>3 DEF StartFieldsSent
        <4>6. to_interface'[c] = Append(Append(queue, first), second)
          BY <4>4, <4>5, FewAppended
        <4>7. Over(interface[c].mode, queue)
          <5>1. EndsIn(interface[c].mode, queue, "WAIT_MODE")
            BY <1>1, <2>2, <2>4, <3>3, <4>1 DEF ModesFit, ModeFits, WillBe
          <5> QED BY <5>1, PreparationEnds
        <4>8. Sees(interface[c], Append(Append(queue, first), second), own, enemy)
          BY <4>3, <4>7, SeesWhatIsSent
        <4> QED BY <2>1, <4>2, <4>4, <4>6, <4>8 DEF BoardsShown
      <3> QED BY <2>1, <3>2, <3>3 DEF BoardsFit
    <2>5. CASE state # "WAIT_START"
      <3>1. Inform(Nothing) /\ BoardsSent
        BY <2>1, <2>3, <2>5 DEF Shown, BoardsSent
      <3> QED BY <2>1, <2>2, <2>5, <3>1, NothingKeepsBoards
    <2> QED BY <2>4, <2>5
  <1> QED BY <1>2, <1>3, <1>4

\* The start of the game, when it is in time: the boards have been sent.
LEMMA StartKeepsBoards ==
    ASSUME Shown, SessionAssumption, Fires("GameStart"), start_game, Inform(TurnStarted)
    PROVE  BoardsFit'
  <1>1. state = "WAIT_START" /\ state' = "GAME_TURN" /\ UNCHANGED <<players, fields>>
    BY DEF start_game, start_new_turn
  <1>2. handler \in Handle /\ timers[handler].kind = "GameStart"
    BY DEF Fires, Shown, Seated, PlayInv, TypeOK
  <1>3. BoardsSent
    BY <1>1, <1>2 DEF BoardsSent, StartsSoon
  <1>4. ASSUME NEW i \in PlayerNumber, NEW c \in Client, players'[i] = c
        PROVE  /\ interface' = interface
               /\ \E msg \in InterfaceMsg :
                      Quiet(msg) /\ to_interface'[c] = to_interface[c] \o <<msg>>
    <2>1. Seated
      BY DEF Shown
    <2>2. interface' = interface /\ to_interface'[c] = to_interface[c] \o TurnStarted[i]
      BY <1>4, <2>1, InformedStay
    <2>3. PICK is_own \in BOOLEAN : is_own = (i = cur_turn_player_idx')
      OBVIOUS
    <2>4. TurnStarted[i] = <<StartTurnMsg(is_own, TURN_DURATION)>>
      BY <2>3 DEF TurnStarted
    <2>5. TURN_DURATION \in Int
      BY DEF SessionAssumption
    <2>6. StartTurnMsg(is_own, TURN_DURATION) \in InterfaceMsg
             /\ Quiet(StartTurnMsg(is_own, TURN_DURATION))
      BY <2>5, MessagesAreTyped, QuietMessages
    <2> QED BY <2>2, <2>4, <2>6
  <1> QED BY <1>1, <1>3, <1>4, BoardsAsBefore

\* The end of a turn that nobody shot in.
LEMMA StopKeepsBoards ==
    ASSUME Shown, SessionAssumption, end_turn, Inform(TurnStopped)
    PROVE  BoardsFit'
  <1>1. /\ UNCHANGED <<players, fields>> /\ state' = "PROCESS_TURN"
        /\ BoardsSent
    BY DEF end_turn, BoardsSent
  <1>2. ASSUME NEW i \in PlayerNumber, NEW c \in Client, players'[i] = c
        PROVE  /\ interface' = interface
               /\ \E msg \in InterfaceMsg :
                      Quiet(msg) /\ to_interface'[c] = to_interface[c] \o <<msg>>
    <2>1. Seated
      BY DEF Shown
    <2>2. interface' = interface /\ to_interface'[c] = to_interface[c] \o TurnStopped[i]
      BY <1>2, <2>1, InformedStay
    <2>3. PICK is_own \in BOOLEAN : is_own = (i = cur_turn_player_idx)
      OBVIOUS
    <2>4. TurnStopped[i] = <<StopTurnMsg(is_own)>>
      BY <2>3 DEF TurnStopped
    <2>5. StopTurnMsg(is_own) \in InterfaceMsg /\ Quiet(StopTurnMsg(is_own))
      BY MessagesAreTyped, QuietMessages
    <2> QED BY <2>2, <2>4, <2>5
  <1> QED BY <1>1, <1>2, BoardsAsBefore

\* A shot is recorded: the board that was shot at is shown to both players, and
\* then they are told what follows.
LEMMA ChangeKeepsBoards ==
    ASSUME Shown, SessionAssumption, change_turn_player,
           NEW more, \A i \in PlayerNumber : \E msg \in InterfaceMsg :
                         Quiet(msg) /\ more[i] = <<msg>>,
           Inform(Both(FieldsSent, more))
    PROVE  BoardsFit'
  <1> DEFINE cur == cur_turn_player_idx
             enemy == enemy_idx(cur)
  <1>1. Seated /\ PlayInv /\ PlayTypeOK /\ TypeOK
    BY DEF Shown, Seated, PlayInv
  <1>2. state = "PROCESS_TURN" /\ state' # "WAIT_START" /\ players' = players
    BY DEF change_turn_player, start_new_turn
  <1>3. fields'[cur] = fields[cur]
    <2>1. cur \in PlayerNumber /\ cur # enemy
      BY <1>1 DEF TypeOK, enemy_idx, PlayerNumber
    <2>2. PICK shot : fields' = [fields EXCEPT ![enemy] = register_shot(@, shot)]
      BY DEF change_turn_player
    <2> QED BY <1>1, <2>1, <2>2 DEF TypeOK
  <1> HIDE DEF cur, enemy
  <1>4. ASSUME NEW i \in PlayerNumber, NEW c \in Client, players'[i] = c
        PROVE  BoardsShown(i, c)'
    <2>1. PICK queue \in Seq(InterfaceMsg) : queue = to_interface[c]
      BY <1>1 DEF PlayTypeOK
    <2>2. PICK own \in Field, foe \in Field : own = fields[i] /\ foe = fields[enemy_idx(i)]
      BY <1>1, SlotsHaveBoards
    <2>3. PICK new_own \in Field, new_foe \in Field :
              new_own = fields'[i] /\ new_foe = fields'[enemy_idx(i)]
      BY <1>1, SlotsHaveBoards
    <2>4. PICK last \in InterfaceMsg : Quiet(last) /\ more[i] = <<last>>
      OBVIOUS
    <2>5. PICK ui : ui = interface[c]
      OBVIOUS
    <2>6. Sees(ui, queue, own, foe)
      BY <1>2, <1>4, <2>1, <2>2, <2>5 DEF Shown, BoardsFit, BoardsSent, BoardsShown
    <2>7. PICK board \in InterfaceMsg :
              FieldsSent[i] = <<board>> /\ Sees(ui, Append(queue, board), new_own, new_foe)
      <3>1. CASE i = cur
        <4>1. new_own = own
          BY <1>3, <2>2, <2>3, <3>1
        <4>2. FieldsSent[i] = <<GameFieldMsg(get_for_enemy(new_foe), FALSE)>>
          BY <2>3, <3>1 DEF FieldsSent, cur
        <4>3. GameFieldMsg(get_for_enemy(new_foe), FALSE) \in InterfaceMsg
          BY MessagesAreTyped, EnemyViewIsField
        <4>4. Sees(ui, Append(queue, GameFieldMsg(get_for_enemy(new_foe), FALSE)), own, new_foe)
          BY <2>6, SeesWhatIsSent
        <4> QED BY <4>1, <4>2, <4>3, <4>4
      <3>2. CASE i # cur
        <4>1. enemy_idx(i) = cur
          BY <1>1, <3>2 DEF enemy_idx, PlayerNumber, TypeOK, cur
        <4>2. new_foe = foe
          BY <1>3, <2>2, <2>3, <4>1
        <4>3. FieldsSent[i] = <<GameFieldMsg(new_own, TRUE)>>
          BY <2>3, <3>2 DEF FieldsSent, cur
        <4>4. GameFieldMsg(new_own, TRUE) \in InterfaceMsg
          BY MessagesAreTyped
        <4>5. Sees(ui, Append(queue, GameFieldMsg(new_own, TRUE)), new_own, foe)
          BY <2>6, SeesWhatIsSent
        <4> QED BY <4>2, <4>3, <4>4, <4>5
      <3> QED BY <3>1, <3>2
    <2>8. /\ interface' = interface
          /\ to_interface'[c] = queue \o Both(FieldsSent, more)[i]
      BY <1>1, <1>4, <2>1, InformedStay
    <2>9. to_interface'[c] = Append(Append(queue, board), last)
      <3>1. Both(FieldsSent, more)[i] = <<board, last>>
        BY <2>4, <2>7, BothSent
      <3> QED BY <2>8, <3>1, FewAppended
    <2>10. PICK longer \in Seq(InterfaceMsg) : longer = Append(queue, board)
      BY FewAppended
    <2>11. Sees(ui, Append(longer, last), new_own, new_foe)
      BY <2>4, <2>7, <2>10, SeesWhatIsSent
    <2> QED BY <2>3, <2>5, <2>8, <2>9, <2>10, <2>11 DEF BoardsShown
  <1> QED BY <1>2, <1>4 DEF BoardsFit

\* The timeouts.
LEMMA EventsKeepBoards ==
    ASSUME Shown, SessionAssumption, SessionEvent
    PROVE  BoardsFit'
  <1>1. CASE PreparationTimeout /\
              Inform(IF state = "PREPARATION"
                     THEN Both(ToAll(<<StopPreparationMsg>>), StateSent) ELSE Nothing)
    BY <1>1, StopLeavesNoStart, IgnoredKeepsBoards DEF PreparationTimeout
  <1>2. CASE CheckStartFieldsTimeout /\
              Inform(IF Cardinality({i \in PlayerNumber : players'[i] # None}) = 1 THEN StateSent
                     ELSE IF state' = "WAIT_START" THEN StartFieldsSent ELSE Nothing)
    BY <1>2, CheckKeepsBoards DEF CheckStartFieldsTimeout
  <1>3. CASE GameStartTimeout /\ Inform(IF state = "WAIT_START" THEN TurnStarted ELSE Nothing)
    <2>1. CASE start_game
      <3>1. Inform(TurnStarted) /\ Fires("GameStart")
        BY <1>3, <2>1 DEF start_game, GameStartTimeout
      <3> QED BY <2>1, <3>1, StartKeepsBoards
    <2>2. CASE state # "WAIT_START" /\ Ignored
      BY <1>3, <2>2, IgnoredKeepsBoards
    <2> QED BY <1>3, <2>1, <2>2 DEF GameStartTimeout
  <1>4. CASE GameTurnTimeout /\ Inform(IF state = "GAME_TURN" THEN TurnStopped ELSE Nothing)
    <2>1. CASE end_turn
      <3>1. Inform(TurnStopped)
        BY <1>4, <2>1 DEF end_turn
      <3> QED BY <2>1, <3>1, StopKeepsBoards
    <2>2. CASE state # "GAME_TURN" /\ Ignored
      BY <1>4, <2>2, IgnoredKeepsBoards
    <2> QED BY <1>4, <2>1, <2>2 DEF GameTurnTimeout
  <1>5. CASE ChangeTurnTimeout /\
              Inform(IF state # "PROCESS_TURN" THEN Nothing
                     ELSE Both(FieldsSent, IF state' = "GAME_TURN" THEN TurnStarted ELSE ResultSent))
    <2>1. CASE change_turn_player
      <3>1. state = "PROCESS_TURN"
        BY <2>1 DEF change_turn_player
      <3>2. \A i \in PlayerNumber : \E msg \in InterfaceMsg :
                Quiet(msg) /\ TurnStarted[i] = <<msg>>
        <4> SUFFICES ASSUME NEW i \in PlayerNumber
                     PROVE  \E msg \in InterfaceMsg : Quiet(msg) /\ TurnStarted[i] = <<msg>>
          OBVIOUS
        <4>1. PICK is_own \in BOOLEAN : is_own = (i = cur_turn_player_idx')
          OBVIOUS
        <4>2. TurnStarted[i] = <<StartTurnMsg(is_own, TURN_DURATION)>>
          BY <4>1 DEF TurnStarted
        <4>3. TURN_DURATION \in Int
          BY DEF SessionAssumption
        <4>4. StartTurnMsg(is_own, TURN_DURATION) \in InterfaceMsg
                 /\ Quiet(StartTurnMsg(is_own, TURN_DURATION))
          BY <4>3, MessagesAreTyped, QuietMessages
        <4> QED BY <4>2, <4>4
      <3>3. \A i \in PlayerNumber : \E msg \in InterfaceMsg :
                Quiet(msg) /\ ResultSent[i] = <<msg>>
        <4>1. \A i \in PlayerNumber : ResultSent[i] =
                  <<GameStateMsg(IF i = cur_turn_player_idx THEN "WIN_GAME" ELSE "LOSE_GAME")>>
          BY DEF ResultSent
        <4>2. \A shown \in ShownState :
                  GameStateMsg(shown) \in InterfaceMsg /\ Quiet(GameStateMsg(shown))
          BY MessagesAreTyped, QuietMessages
        <4> QED BY <4>1, <4>2 DEF ShownState
      <3>4. Inform(Both(FieldsSent, TurnStarted)) \/ Inform(Both(FieldsSent, ResultSent))
        BY <1>5, <3>1
      <3>5. CASE Inform(Both(FieldsSent, TurnStarted))
        BY <2>1, <3>2, <3>5, ChangeKeepsBoards
      <3>6. CASE Inform(Both(FieldsSent, ResultSent))
        BY <2>1, <3>3, <3>6, ChangeKeepsBoards
      <3> QED BY <3>4, <3>5, <3>6
    <2>2. CASE state # "PROCESS_TURN" /\ Ignored
      BY <1>5, <2>2, IgnoredKeepsBoards
    <2> QED BY <1>5, <2>1, <2>2 DEF ChangeTurnTimeout
  <1>6. CASE EndGameTimeout
    <2>1. \A i \in PlayerNumber : players'[i] = None
      BY <1>6 DEF EndGameTimeout, end_game, Remaining
    <2>2. \A i \in PlayerNumber, c \in Client : players'[i] # c
      BY <2>1 DEF SessionAssumption
    <2>3. state' = StateWithout(Present) /\ fields' = fields /\ timers' = Heap
      BY <1>6 DEF EndGameTimeout, end_game, Present
    <2>4. CASE Present = {}
      <3>1. state' = state
        BY <2>3, <2>4, StateWithoutCases
      <3>2. TypeOK
        BY DEF Shown, Seated, PlayInv
      <3>3. BoardsSent
        BY <2>3, <3>1, <3>2, HeapHoldsNothingNew DEF Shown, BoardsSent
      <3>4. state' = "WAIT_START" => \A i \in PlayerNumber : is_valid_start_field(fields'[i])
        BY <2>3, <3>1, <3>3 DEF Shown, BoardsFit
      <3> QED BY <2>2, <3>4 DEF BoardsFit
    <2>5. CASE Present # {}
      <3>1. Present \subseteq PlayerNumber
        BY DEF Present
      <3>2. Present = PlayerNumber \/ \E i \in PlayerNumber : Present = {i}
        BY <2>5, <3>1 DEF PlayerNumber
      <3>3. state' \in {"NO_VACANT_GAME", "WAIT_PLAYER"}
        BY <2>3, <3>2, StateWithoutCases DEF AfterLeaving
      <3> QED BY <3>3 DEF Shown, BoardsSent
    <2> QED BY <2>4, <2>5
  <1> QED BY <1>1, <1>2, <1>3, <1>4, <1>5, <1>6 DEF SessionEvent

\* The keys of a player do not change what he is going to see.
LEMMA KeysKeepBoards ==
    ASSUME Shown, NEW d \in Client, NEW ui, NEW msgs,
           KeyPressed(d, ui, msgs),
           ui.enemy_field = interface[d].enemy_field,
           \/ /\ ui.own_field = interface[d].own_field
              /\ ui.mode \in {interface[d].mode, "WAIT_MODE"}
           \/ interface[d].mode = "PREPARATION_MODE" /\ ui.mode = interface[d].mode
    PROVE  BoardsFit'
  <1>1. /\ UNCHANGED <<state, players, fields, timers, to_interface>>
        /\ interface' = [interface EXCEPT ![d] = ui]
    BY DEF KeyPressed, vars, sessionVars, timerVars
  <1>2. BoardsSent
    BY <1>1 DEF Shown, BoardsSent, StartsSoon
  <1>3. ASSUME NEW i \in PlayerNumber, NEW c \in Client, players'[i] = c PROVE BoardsShown(i, c)'
    <2>1. BoardsShown(i, c) /\ PlayTypeOK
      BY <1>1, <1>2, <1>3 DEF Shown, Seated, PlayInv, BoardsFit
    <2>2. CASE c # d
      <3>1. interface'[c] = interface[c]
        BY <1>1, <2>1, <2>2 DEF PlayTypeOK
      <3> QED BY <1>1, <2>1, <3>1 DEF BoardsShown
    <2>3. CASE c = d
      <3>1. interface'[c] = ui /\ to_interface[c] \in Seq(InterfaceMsg)
        BY <1>1, <2>1, <2>3 DEF PlayTypeOK
      <3>2. Sees(ui, to_interface[c], fields[i], fields[enemy_idx(i)])
        BY <2>1, <2>3, <3>1, SeesAfterKey DEF BoardsShown
      <3> QED BY <1>1, <3>1, <3>2 DEF BoardsShown
    <2> QED BY <2>2, <2>3
  <1>4. state' = "WAIT_START" => \A i \in PlayerNumber : is_valid_start_field(fields'[i])
    BY <1>1, <1>2 DEF Shown, BoardsFit
  <1> QED BY <1>3, <1>4 DEF BoardsFit

\* Nor do the messages that he processes.
LEMMA DeliveriesKeepBoards ==
    ASSUME Shown, NEW d \in Client, Deliver(d)
    PROVE  BoardsFit'
  <1>1. /\ UNCHANGED <<state, players, fields, timers>>
        /\ interface' = [interface EXCEPT ![d] = Handled(@, Head(to_interface[d]))]
        /\ to_interface' = [to_interface EXCEPT ![d] = Tail(@)]
        /\ to_interface[d] # <<>>
    BY DEF Deliver, vars, sessionVars, timerVars
  <1>2. BoardsSent
    BY <1>1 DEF Shown, BoardsSent, StartsSoon
  <1>3. ASSUME NEW i \in PlayerNumber, NEW c \in Client, players'[i] = c PROVE BoardsShown(i, c)'
    <2>1. BoardsShown(i, c) /\ PlayTypeOK
      BY <1>1, <1>2, <1>3 DEF Shown, Seated, PlayInv, BoardsFit
    <2>2. CASE c # d
      <3>1. interface'[c] = interface[c] /\ to_interface'[c] = to_interface[c]
        BY <1>1, <2>1, <2>2 DEF PlayTypeOK
      <3> QED BY <1>1, <2>1, <3>1 DEF BoardsShown
    <2>3. CASE c = d
      <3>1. /\ interface'[c] = Handled(interface[c], Head(to_interface[c]))
            /\ to_interface'[c] = Tail(to_interface[c])
            /\ to_interface[c] # <<>>
            /\ interface[c] \in Interface /\ to_interface[c] \in Seq(InterfaceMsg)
        BY <1>1, <2>1, <2>3 DEF PlayTypeOK
      <3>2. Sees(Handled(interface[c], Head(to_interface[c])), Tail(to_interface[c]),
                 fields[i], fields[enemy_idx(i)])
        BY <2>1, <3>1, SeesAfterFirst DEF BoardsShown
      <3> QED BY <1>1, <3>1, <3>2 DEF BoardsShown
    <2> QED BY <2>2, <2>3
  <1>4. state' = "WAIT_START" => \A i \in PlayerNumber : is_valid_start_field(fields'[i])
    BY <1>1, <1>2 DEF Shown, BoardsFit
  <1> QED BY <1>3, <1>4 DEF BoardsFit

\* Connections that begin.
LEMMA ConnectionsKeepBoards ==
    ASSUME Shown, NEW d \in Client, Connect(d)
    PROVE  BoardsFit'
  <1>1. /\ UNCHANGED <<state, players, fields, timers, interface>>
        /\ to_interface' = [to_interface EXCEPT ![d] = Append(@, ServerConnStatusMsg(TRUE))]
    BY DEF Connect, vars, sessionVars, timerVars
  <1>2. BoardsSent
    BY <1>1 DEF Shown, BoardsSent, StartsSoon
  <1>3. PICK told_status \in InterfaceMsg :
            told_status = ServerConnStatusMsg(TRUE) /\ Quiet(told_status)
    BY MessagesAreTyped, QuietMessages
  <1>4. ASSUME NEW i \in PlayerNumber, NEW c \in Client, players'[i] = c
        PROVE  /\ players[i] = c
               /\ \/ to_interface'[c] = to_interface[c] \o <<>>
                  \/ to_interface'[c] = to_interface[c] \o <<told_status>>
    <2>1. PlayTypeOK
      BY DEF Shown, Seated, PlayInv
    <2>2. to_interface[c] \in Seq(InterfaceMsg)
      BY <2>1 DEF PlayTypeOK
    <2>3. \/ to_interface'[c] = to_interface[c]
          \/ to_interface'[c] = Append(to_interface[c], told_status)
      BY <1>1, <1>3, <2>1 DEF PlayTypeOK
    <2> QED BY <1>1, <1>3, <1>4, <2>2, <2>3, FewAppended
  <1> QED BY <1>1, <1>2, <1>3, <1>4, BoardsAsBefore

\* And that break: the player's match is over, or the client did not play.
LEMMA BreaksKeepBoards ==
    ASSUME Shown, SessionAssumption, NEW d \in Client, Break(d)
    PROVE  BoardsFit'
  <1>1. CASE Leave(d)
    <2>1. Slot(d) \in PlayerNumber
      BY <1>1 DEF Leave, HasPlayer, Slot
    <2>2. state' \in {"NO_VACANT_GAME", "WAIT_PLAYER"}
      BY <1>1, <2>1, StateWithoutCases DEF Leave, AfterLeaving
    <2> QED BY <2>2 DEF Shown, BoardsSent
  <1>2. CASE ~HasPlayer(d) /\ UNCHANGED vars
    <2>1. UNCHANGED <<state, players, fields, timers>>
      BY <1>2 DEF vars, sessionVars, timerVars
    <2>2. BoardsSent
      BY <2>1 DEF Shown, BoardsSent, StartsSoon
    <2>3. ASSUME NEW i \in PlayerNumber, NEW c \in Client, players'[i] = c
          PROVE  /\ players[i] = c
                 /\ interface' = interface
                 /\ to_interface'[c] = to_interface[c] \o <<>>
      <3>1. players[i] = c /\ c \notin {d}
        BY <1>2, <2>1, <2>3 DEF HasPlayer
      <3>2. SendAndClose(Nothing, {d}) /\ Nothing[i] = <<>>
        BY DEF Break, Nothing
      <3>3. interface' = interface /\ to_interface'[c] = to_interface[c] \o Nothing[i]
        BY <2>3, <3>1, <3>2, SeatedReceive DEF Shown, Seated
      <3> QED BY <3>1, <3>2, <3>3
    <2> QED BY <2>1, <2>2, <2>3, BoardsAsBefore
  <1> QED BY <1>1, <1>2 DEF Break

\* Time passes: timeouts may be taken off the heap.
LEMMA PassesKeepBoards ==
    ASSUME Shown, SessionAssumption, UNCHANGED <<sessionVars, clientVars>>,
           UNCHANGED timers \/ TakeHandler
    PROVE  BoardsFit'
  <1>1. StartsSoon' => StartsSoon
    <2>1. CASE UNCHANGED timers
      BY <2>1 DEF StartsSoon
    <2>2. CASE TakeHandler
      <3>1. \A h \in Handle : timers'[h].kind \in {timers[h].kind, "deleted"}
        <4>1. TypeOK
          BY DEF Shown, Seated, PlayInv
        <4> QED BY <2>2, <4>1, TakeHandlerEffect DEF Deleted
      <3> QED BY <3>1 DEF StartsSoon
    <2> QED BY <2>1, <2>2
  <1>2. BoardsSent
    BY <1>1 DEF Shown, BoardsSent, sessionVars
  <1>3. UNCHANGED <<state, players, fields, interface, to_interface>>
    BY DEF sessionVars, clientVars
  <1>4. \A i \in PlayerNumber, c \in Client : BoardsShown(i, c) => BoardsShown(i, c)'
    BY <1>3 DEF BoardsShown
  <1> QED BY <1>2, <1>3, <1>4 DEF Shown, BoardsFit

\* So the boards are shown as long as starts do not overlap.
LEMMA BoardsStayFit ==
    /\ PlayInit => BoardsFit
    /\ PlayInv /\ OneSeat /\ ModesFit /\ BoardsFit /\ OneStart' /\ [PlayNext]_playVars => BoardsFit'
<1> USE SessionAssumption, PlayAssumption
<1>1. PlayInit => BoardsFit
  BY DEF PlayInit, Init, BoardsFit, BoardsSent
<1>2. ASSUME PlayInv, OneSeat, ModesFit, BoardsFit, OneStart', [PlayNext]_playVars PROVE BoardsFit'
  <2>1. TypeOK' /\ OneSeat'
    BY <1>2, PlayInvIsInductive, ModesStayFit DEF PlayInv
  <2>2. Seated
    BY <1>2, <2>1 DEF Seated
  <2>3. CASE ~BoardsSent'
    BY <2>3 DEF BoardsFit
  <2>4. CASE BoardsSent'
    <3>1. Shown
      BY <1>2, <2>2, <2>4 DEF Shown
    <3>2. ASSUME UNCHANGED playVars PROVE BoardsFit'
      <4>1. UNCHANGED <<sessionVars, clientVars>> /\ UNCHANGED timers
        BY <3>2 DEF playVars, vars, sessionVars, timerVars
      <4> QED BY <3>1, <4>1, PassesKeepBoards
    <3>3. ASSUME NEW ticks \in 0 .. MaxPassed, Wait(ticks) PROVE BoardsFit'
      <4>1. UNCHANGED <<sessionVars, clientVars>> /\ UNCHANGED timers
        BY <3>3 DEF Wait, Select, timerVars
      <4> QED BY <3>1, <4>1, PassesKeepBoards
    <3>4. ASSUME Pass PROVE BoardsFit'
      <4>1. UNCHANGED <<sessionVars, clientVars>> /\ (UNCHANGED timers \/ TakeHandler)
        BY <3>4 DEF Pass, TakeHandler, EndPass
      <4> QED BY <3>1, <4>1, PassesKeepBoards
    <3>5. ASSUME NEW d \in Client, ServeSessionReq(d) \/ ServeField(d) \/ ServeMove(d)
          PROVE  BoardsFit'
      BY <3>1, <3>5, RequestsKeepBoards, FieldsKeepBoards, MovesKeepBoards
    <3>6. ASSUME NEW d \in Client, \/ \E key \in Key : PressArrow(d, key)
                                   \/ PrepareCell(d) \/ Shoot(d) \/ AskForGame(d)
          PROVE  BoardsFit'
      <4>1. interface[d] \in Interface
        BY <1>2 DEF PlayInv, PlayTypeOK
      <4>2. ASSUME NEW key \in Key, PressArrow(d, key) PROVE BoardsFit'
        <5>1. /\ CursorMoved(interface[d], key).mode = interface[d].mode
              /\ CursorMoved(interface[d], key).own_field = interface[d].own_field
              /\ CursorMoved(interface[d], key).enemy_field = interface[d].enemy_field
          BY <4>1 DEF CursorMoved, Interface
        <5> QED BY <3>1, <4>2, <5>1, KeysKeepBoards DEF PressArrow, PressKey
      <4>3. CASE PrepareCell(d)
        <5>1. /\ CellPrepared(interface[d]).mode = interface[d].mode
              /\ CellPrepared(interface[d]).enemy_field = interface[d].enemy_field
          BY <4>1 DEF CellPrepared, Interface
        <5>2. interface[d].mode = "PREPARATION_MODE"
          BY <4>3 DEF PrepareCell, CanPrepareCell
        <5> QED BY <3>1, <4>3, <5>1, <5>2, KeysKeepBoards DEF PrepareCell, PressKey
      <4>4. CASE Shoot(d)
        <5>1. /\ ShotSent(interface[d]).mode = "WAIT_MODE"
              /\ ShotSent(interface[d]).own_field = interface[d].own_field
              /\ ShotSent(interface[d]).enemy_field = interface[d].enemy_field
          BY <4>1 DEF ShotSent, stop_turn_mode, Interface
        <5> QED BY <3>1, <4>4, <5>1, KeysKeepBoards DEF Shoot, PressKey
      <4>5. CASE AskForGame(d)
        BY <3>1, <4>5, KeysKeepBoards DEF AskForGame
      <4> QED BY <3>6, <4>2, <4>3, <4>4, <4>5
    <3>7. ASSUME NEW d \in Client, Connect(d) \/ Deliver(d) \/ Break(d) PROVE BoardsFit'
      BY <3>1, <3>7, ConnectionsKeepBoards, DeliveriesKeepBoards, BreaksKeepBoards
    <3> QED BY <1>2, <3>1, <3>2, <3>3, <3>4, <3>5, <3>6, <3>7, EventsKeepBoards DEF PlayNext
  <2> QED BY <2>3, <2>4
<1> QED BY <1>1, <1>2

\* A player who has processed everything sees what he will see.
LEMMA BoardsWhenUpToDate ==
    ASSUME PlayInv, BoardsFit
    PROVE  ShownBoardsAgree
  <1> SUFFICES ASSUME state \in {"GAME_TURN", "PROCESS_TURN"}, NEW i \in PlayerNumber, UpToDate(i)
               PROVE  LET shown == interface[players[i]].own_field
                      IN  /\ interface[players[i]].enemy_field = get_for_enemy(fields[enemy_idx(i)])
                          /\ \/ shown = fields[i]
                             \/ is_valid_start_field(shown) /\ is_valid_start_field(fields[i])
    BY DEF ShownBoardsAgree
  <1>1. PICK c \in Client : players[i] = c /\ to_interface[c] = <<>>
    BY DEF UpToDate, PlayInv, TypeOK
  <1>2. Sees(interface[c], <<>>, fields[i], fields[enemy_idx(i)])
    BY <1>1 DEF BoardsFit, BoardsSent, BoardsShown
  <1>3. Len(<<>>) = 0
    OBVIOUS
  <1>4. \A board : SeesEnemy(interface[c], <<>>, board) => interface[c].enemy_field = board
    BY <1>3 DEF SeesEnemy, ShownBy
  <1>5. \A board : SeesOwn(interface[c], <<>>, board) => interface[c].own_field = board
    BY <1>3 DEF SeesOwn, ShownBy
  <1> QED BY <1>1, <1>2, <1>4, <1>5 DEF Sees

\* A match that starts replaces the handler of its start by the next one ...
StartMovesOn ==
    /\ \E h \in Handle : /\ handler = h
                         /\ timers[h].kind \in StartTimeouts
                         /\ \A g \in Handle : Heap[g] = IF g = h THEN Deleted ELSE timers[g]
    /\ \/ \A g \in Handle : timers'[g].kind = Heap[g].kind
       \/ \E h \in Handle : \A g \in Handle \ {h} : timers'[g].kind = Heap[g].kind

\* ... and what else happens to the timeouts starts no match.
StartsNothing ==
    \A g \in Handle : timers'[g].kind \in StartTimeouts => timers'[g].kind = timers[g].kind

\* Neither makes a second start.
LEMMA OneStartStays ==
    ASSUME OneStart, StartMovesOn \/ StartsNothing
    PROVE  OneStart'
  <1>1. CASE StartsNothing
    BY <1>1 DEF StartsNothing, OneStart
  <1>2. CASE StartMovesOn
    <2>1. PICK h \in Handle : /\ timers[h].kind \in StartTimeouts
                              /\ \A g \in Handle : Heap[g] = IF g = h THEN Deleted ELSE timers[g]
      BY <1>2 DEF StartMovesOn
    <2>2. \A g \in Handle : Heap[g].kind \notin StartTimeouts
      BY <2>1 DEF OneStart, Deleted, StartTimeouts
    <2> QED BY <1>2, <2>2 DEF StartMovesOn, OneStart
  <1> QED BY <1>1, <1>2

\* An allocation of another kind of timeout is no start.
LEMMA OthersStartNothing ==
    ASSUME SessionAssumption, TypeOK, NEW h \in Handle, NEW kind, kind \notin StartTimeouts,
           timers'[h].kind = kind,
           \A g \in Handle \ {h} : timers'[g].kind = Heap[g].kind
    PROVE  StartsNothing
  <1>1. \A g \in Handle : Heap[g] \in {timers[g], Deleted}
    BY DEF Heap, TypeOK
  <1> QED BY <1>1 DEF StartsNothing, Deleted, StartTimeouts

\* The timeouts of a turn and of a result are such allocations.
LEMMA TurnsStartNothing ==
    ASSUME SessionAssumption, TypeOK
    PROVE  /\ \A cur : start_new_turn(cur) => StartsNothing
           /\ end_turn => StartsNothing
           /\ \A duration : StartTimeout("EndGame", duration) => StartsNothing
           /\ timers' = Heap => StartsNothing
  <1>0. Heap \in [Handle -> Timer]
    BY HeapType DEF TypeOK
  <1>1. ASSUME NEW cur, start_new_turn(cur) PROVE StartsNothing
    <2>1. PICK h \in Handle : timers' = New(h, "GameTurn", TURN_DURATION)
      BY <1>1 DEF start_new_turn
    <2>2. timers'[h].kind = "GameTurn" /\ \A g \in Handle \ {h} : timers'[g].kind = Heap[g].kind
      BY <1>0, <2>1 DEF New
    <2> QED BY <2>2, OthersStartNothing DEF StartTimeouts
  <1>2. ASSUME end_turn PROVE StartsNothing
    <2>1. PICK h \in Handle : timers' = StopTurnTimeout(New(h, "ChangeTurn", WAIT_DURATION))
      BY <1>2 DEF end_turn
    <2> DEFINE new == New(h, "ChangeTurn", WAIT_DURATION)
    <2>2. /\ new \in [Handle -> Timer]
          /\ new[h].kind = "ChangeTurn"
          /\ \A g \in Handle \ {h} : new[g] = Heap[g]
      BY <1>0 DEF New, Timer, TimeoutKind, SessionAssumption
    <2>3. timers' = StopTurnTimeout(new)
      BY <2>1
    <2> HIDE DEF new
    <2>4. \A g \in Handle : timers'[g].kind = new[g].kind
      BY <2>2, <2>3 DEF StopTurnTimeout, Timer, TypeOK
    <2> QED BY <2>2, <2>4, OthersStartNothing DEF StartTimeouts
  <1>3. ASSUME NEW duration, StartTimeout("EndGame", duration) PROVE StartsNothing
    <2>1. PICK h \in Handle : timers' = New(h, "EndGame", duration)
      BY <1>3 DEF StartTimeout
    <2>2. timers'[h].kind = "EndGame" /\ \A g \in Handle \ {h} : timers'[g].kind = Heap[g].kind
      BY <1>0, <2>1 DEF New
    <2> QED BY <2>2, OthersStartNothing DEF StartTimeouts
  <1>4. ASSUME timers' = Heap PROVE StartsNothing
    <2>1. \A g \in Handle : Heap[g] \in {timers[g], Deleted}
      BY DEF Heap, TypeOK
    <2> QED BY <1>4, <2>1 DEF StartsNothing, Deleted, StartTimeouts
  <1> QED BY <1>1, <1>2, <1>3, <1>4

\* The event of a start timeout that goes on to the next one replaces it.
LEMMA StartsMoveOn ==
    ASSUME SessionAssumption, TypeOK, NEW kind \in StartTimeouts, Fires(kind),
           NEW next, NEW duration, StartTimeout(next, duration)
    PROVE  StartMovesOn
  <1>1. /\ handler \in Handle /\ timers[handler].kind \in StartTimeouts
        /\ \A g \in Handle : Heap[g] = IF g = handler THEN Deleted ELSE timers[g]
    BY DEF Fires, Heap, TypeOK
  <1>2. PICK h \in Handle : timers' = New(h, next, duration)
    BY DEF StartTimeout
  <1>3. \A g \in Handle \ {h} : timers'[g].kind = Heap[g].kind
    BY <1>2, HeapType DEF New, TypeOK
  <1> QED BY <1>1, <1>3 DEF StartMovesOn

\* No match is joined while the start of an earlier one is still under way.
StartsAlone ==
    state # "PREPARATION" /\ state' = "PREPARATION" =>
        \A h \in Handle : timers[h].kind \notin StartTimeouts

\* Then a match that is joined makes the only start.
LEMMA JoiningMakesOneStart ==
    ASSUME SessionAssumption, TypeOK, StateCountsPlayers, StartsAlone,
           NEW client \in Client, JoinSecond(client)
    PROVE  OneStart'
  <1>1. state # "PREPARATION" /\ state' = "PREPARATION"
    <2>1. PICK i \in PlayerNumber : players[i] = None
      BY DEF JoinSecond, Asks
    <2>2. PICK j \in PlayerNumber : PlayerNumber = {i, j}
      BY DEF PlayerNumber
    <2>3. Present = {} \/ Present = {j}
      BY <2>1, <2>2, Zenon DEF Present
    <2>4. state = "NO_VACANT_GAME" \/ state = "WAIT_PLAYER"
      BY <2>3, Zenon DEF StateCountsPlayers
    <2> QED BY <2>4, Zenon DEF JoinSecond
  <1>2. \A g \in Handle : timers[g].kind \notin StartTimeouts
    BY <1>1 DEF StartsAlone
  <1>3. Heap \in [Handle -> Timer] /\ \A g \in Handle : Heap[g].kind \notin StartTimeouts
    <2>1. \A g \in Handle : Heap[g] \in {timers[g], Deleted}
      BY DEF Heap, TypeOK
    <2>2. Heap \in [Handle -> Timer]
      BY HeapType DEF TypeOK
    <2> QED BY <1>2, <2>1, <2>2 DEF Deleted, StartTimeouts
  <1>4. PICK h \in Handle : timers' = New(h, "Preparation", PREPARATION_DURATION)
    BY DEF JoinSecond, StartTimeout
  <1>5. \A g \in Handle \ {h} : timers'[g].kind \notin StartTimeouts
    BY <1>3, <1>4 DEF New
  <1> QED BY <1>5 DEF OneStart

\* Nothing that the session does by itself makes a second start: its steps, the
\* timeouts of abandoned matches included, replace a start or leave it alone.
\* Two starts are under way only when disconnect_player has left the first
\* behind and start_preparation is called before it has run out.
THEOREM StartsOverlapOnlyByJoining == Spec /\ [][StartsAlone]_vars => []OneStart
<1> USE SessionAssumption
<1>1. Init => OneStart
  BY DEF Init, OneStart, StartTimeouts, Deleted
<1>2. IInv /\ OneStart /\ [Next]_vars /\ [StartsAlone]_vars => OneStart'
  <2> SUFFICES ASSUME IInv, OneStart, [Next]_vars, [StartsAlone]_vars PROVE OneStart'
    OBVIOUS
  <2>0. TypeOK /\ StateCountsPlayers
    BY DEF IInv
  <2>1. ASSUME NEW client \in Client, JoinSecond(client) PROVE OneStart'
    <3>1. state' = state => StartsAlone
      BY Zenon DEF StartsAlone
    <3>2. StartsAlone
      BY <3>1, Zenon DEF vars, sessionVars
    <3> QED BY <2>0, <2>1, <3>2, JoiningMakesOneStart
  <2>2. ASSUME NEW client \in Client, ClientAction(client), ~JoinSecond(client)
        PROVE  StartsNothing
    <3>1. UNCHANGED timers => StartsNothing
      BY DEF StartsNothing
    <3> QED BY <2>0, <2>2, <3>1, TurnsStartNothing
            DEF ClientAction, JoinFirst, Leave, SendField, Move, LateMove, timerVars
  <2>3. CASE PreparationTimeout
    <3>1. stop_preparation => StartMovesOn
      BY <2>0, <2>3, StartsMoveOn DEF PreparationTimeout, stop_preparation, StartTimeouts
    <3> QED BY <2>0, <2>3, <3>1, TurnsStartNothing, OneStartStays DEF PreparationTimeout, Ignored
  <2>4. CASE CheckStartFieldsTimeout
    <3>1. StartTimeout("GameStart", WAIT_DURATION) => StartMovesOn
      BY <2>0, <2>4, StartsMoveOn DEF CheckStartFieldsTimeout, StartTimeouts
    <3>2. StartTimeout("GameStart", WAIT_DURATION) \/ timers' = Heap
      BY <2>4 DEF CheckStartFieldsTimeout, check_start_fields
    <3> QED BY <2>0, <3>1, <3>2, TurnsStartNothing, OneStartStays
  <2>5. CASE GameStartTimeout \/ GameTurnTimeout \/ ChangeTurnTimeout \/ EndGameTimeout
    <3>1. StartsNothing
      BY <2>0, <2>5, TurnsStartNothing
         DEF GameStartTimeout, start_game, GameTurnTimeout, ChangeTurnTimeout,
             change_turn_player, EndGameTimeout, end_game, Ignored
    <3> QED BY <3>1, OneStartStays
  <2>6. CASE TakeHandler
    <3>1. StartsNothing
      BY <2>0, <2>6, TakeHandlerEffect DEF StartsNothing, Deleted, StartTimeouts
    <3> QED BY <3>1, OneStartStays
  <2>7. CASE EndPass \/ (\E ticks \in 0 .. MaxPassed : Select(ticks)) \/ UNCHANGED vars
    BY <2>7 DEF EndPass, Select, vars, timerVars, OneStart
  <2> QED BY <2>1, <2>2, <2>3, <2>4, <2>5, <2>6, <2>7, OneStartStays DEF Next, TimeoutEvent
<1> QED BY <1>1, <1>2, Inductive, PTL DEF Spec

\* As long as no match starts while the start of an earlier one is under way, a
\* player who is up to date sees the boards as the session has them.
THEOREM BoardsAreShown == PlaySpec /\ []OneStart => []ShownBoardsAgree
<1>1. PlayInit => OneSeat
  BY SeatsStayApart DEF PlayInit
<1>2. PlayInv /\ BoardsFit => ShownBoardsAgree
  BY BoardsWhenUpToDate
<1> QED BY <1>1, <1>2, BoardsStayFit, ModesStayFit, PlayInvIsInductive, PTL DEF PlaySpec

=============================================================================
