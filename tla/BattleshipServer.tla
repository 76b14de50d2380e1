-------------------------- MODULE BattleshipServer --------------------------
(***************************************************************************)
(* The server's connections: server/bs_server.cpp, server/client_array.cpp *)
(* and the part of server/client_data.cpp and server/game_session.cpp that *)
(* moves clients between the two lists and the seats of the games.         *)
(*                                                                         *)
(* One turn of the loop waits in select, runs the timeouts, accepts a      *)
(* connection and then visits the clients in game and those in the queue.  *)
(* A client is the address of a ClientData; addresses and descriptors are  *)
(* reused.  What happens inside a game is in GameSession: here a timeout   *)
(* may throw out any of its players.                                       *)
(***************************************************************************)
EXTENDS Integers, Sequences, FiniteSets

CONSTANTS
    Client,             \* addresses of ClientData objects, a bound on the peers
    None,               \* the null pointer
    CLIENT_QUEUE_LEN,
    GAME_COUNT,
    MaxBacklog          \* bound on the connections that wait to be accepted

ASSUME ServerAssumption ==
    /\ None \notin Client
    /\ {CLIENT_QUEUE_LEN, GAME_COUNT} \subseteq Nat \ {0}
    /\ MaxBacklog \in Nat
    /\ IsFiniteSet(Client)

VARIABLES
    clients_queue,      \* the arrays of the two ClientArrays and their counts
    clients_in_game,
    queue_count,
    in_game_count,
    sessions,           \* the players of the games, in the order of their creation
    game_session,       \* the member of each client: a number of a game, or 0
    fd,                 \* the descriptor of each client, or NoFd: no such object
    sent,               \* what the peer of a client has sent and nobody has read
    backlog,            \* connections that wait in the listening socket
    readfds,            \* what select reported
    accepted,           \* history: the client accepted in this turn, or None
    pc,
    i,
    unprocessed_cnt     \* the loop over the clients of a list

lists == <<clients_queue, clients_in_game, queue_count, in_game_count>>
games == <<sessions, game_session>>
loop == <<pc, i, unprocessed_cnt>>
vars == <<lists, games, fd, sent, backlog, readfds, accepted, loop>>

-----------------------------------------------------------------------------

PlayerNumber == {0, 1}

\* clients_in_game has a place for every seat.
IN_GAME_LEN == 2 * GAME_COUNT

\* Descriptors: the kernel hands out the smallest free one, and the server's
\* own one comes first.
listen_fd == 0
NoFd == -1
Fd == 1 .. Cardinality(Client)

Live == {c \in Client : fd[c] # NoFd}
FreeFd == CHOOSE n \in Fd : /\ \A c \in Client : fd[c] # n
                            /\ \A k \in 1 .. (n - 1) : \E c \in Client : fd[c] = k

EmptyArray(size) == [n \in 0 .. (size - 1) |-> None]
Members(array) == {array[n] : n \in DOMAIN array} \ {None}
isFull(array) == \A n \in DOMAIN array : array[n] # None

\* ClientArray::add puts a client at the first free position.
add(array, c) ==
    LET pos == CHOOSE n \in DOMAIN array :
                   array[n] = None /\ \A k \in 0 .. (n - 1) : array[k] # None
    IN  [array EXCEPT ![pos] = c]

remove(array, c) == [n \in DOMAIN array |-> IF array[n] = c THEN None ELSE array[n]]

\* Variant: remove counts down without looking.
Found_always(array, c) == 1

\* remove counts down only when it finds the client.
Found(array, c) == IF c \in Members(array) THEN 1 ELSE 0

-----------------------------------------------------------------------------
(***************************************************************************)
(* Seats                                                                   *)
(***************************************************************************)

NoPlayers == [n \in PlayerNumber |-> None]

Vacant(players) == \E n \in PlayerNumber : players[n] = None

\* Variant: the test for the first seat looks at the second one.
Seated_over(players, c) == [players EXCEPT ![IF players[1] = None THEN 0 ELSE 1] = c]

\* GameSession::set_player: the first free seat is taken.
Seated(players, c) == [players EXCEPT ![IF players[0] = None THEN 0 ELSE 1] = c]

\* GameSession::disconnect_player.
Unseated(players, c) == [n \in PlayerNumber |-> IF players[n] = c THEN None ELSE players[n]]

\* Variant: the client is taken out of the queue only.
disconnect_client_from_queue(c) ==
    /\ fd' = [fd EXCEPT ![c] = NoFd]
    /\ sent' = [sent EXCEPT ![c] = "nothing"]
    /\ sessions' = IF game_session[c] = 0 THEN sessions
                   ELSE [sessions EXCEPT ![game_session[c]] = Unseated(@, c)]
    /\ game_session' = [game_session EXCEPT ![c] = 0]
    /\ clients_queue' = remove(clients_queue, c)
    /\ queue_count' = queue_count - Found(clients_queue, c)
    /\ UNCHANGED <<clients_in_game, in_game_count>>

\* disconnect_client: the descriptor is closed, the seat given up, the client
\* taken out of the lists and deleted.
disconnect_client(c) ==
    /\ fd' = [fd EXCEPT ![c] = NoFd]
    /\ sent' = [sent EXCEPT ![c] = "nothing"]
    /\ sessions' = IF game_session[c] = 0 THEN sessions
                   ELSE [sessions EXCEPT ![game_session[c]] = Unseated(@, c)]
    /\ game_session' = [game_session EXCEPT ![c] = 0]
    /\ clients_queue' = remove(clients_queue, c)
    /\ queue_count' = queue_count - Found(clients_queue, c)
    /\ clients_in_game' = remove(clients_in_game, c)
    /\ in_game_count' = in_game_count - Found(clients_in_game, c)

\* The first game with a free seat, else a new one if there may be another.
\* 0: there is none.
GameFor ==
    LET vacant == {n \in DOMAIN sessions : Vacant(sessions[n])}
    IN  IF vacant # {} THEN CHOOSE n \in vacant : \A k \in vacant : n <= k
        ELSE IF Len(sessions) < GAME_COUNT THEN Len(sessions) + 1 ELSE 0

\* connect_player_to_game: the client takes a seat and changes the list.  If
\* clients_in_game had no place for it, it would stay in the queue.
connect_player_to_game(c) ==
    LET n == GameFor
    IN  IF n = 0 THEN UNCHANGED <<lists, games>>
        ELSE /\ sessions' = IF n \in DOMAIN sessions
                              THEN [sessions EXCEPT ![n] = Seated(@, c)]
                              ELSE Append(sessions, Seated(NoPlayers, c))
             /\ game_session' = [game_session EXCEPT ![c] = n]
             /\ IF isFull(clients_in_game) THEN UNCHANGED lists
                ELSE /\ clients_in_game' = add(clients_in_game, c)
                     /\ in_game_count' = in_game_count + 1
                     /\ clients_queue' = remove(clients_queue, c)
                     /\ queue_count' = queue_count - Found(clients_queue, c)

Init ==
    /\ clients_queue = EmptyArray(CLIENT_QUEUE_LEN)
    /\ clients_in_game = EmptyArray(IN_GAME_LEN)
    /\ queue_count = 0
    /\ in_game_count = 0
    /\ sessions = <<>>
    /\ game_session = [c \in Client |-> 0]
    /\ fd = [c \in Client |-> NoFd]
    /\ sent = [c \in Client |-> "nothing"]
    /\ backlog = 0
    /\ readfds = {}
    /\ accepted = None
    /\ pc = "select"
    /\ i = 0
    /\ unprocessed_cnt = 0

-----------------------------------------------------------------------------
(***************************************************************************)
(* The peers.  What arrives while the loop is at work is not noticed until *)
(* select is called again, so it might as well arrive then; only a read    *)
(* that blocks would notice.                                               *)
(***************************************************************************)

\* No more peers come than there are addresses for.
PeerConnects ==
    /\ pc = "select"
    /\ backlog < MaxBacklog
    /\ backlog + Cardinality(Live) < Cardinality(Client)
    /\ backlog' = backlog + 1
    /\ UNCHANGED <<lists, games, fd, sent, readfds, accepted, loop>>

\* A peer asks for a game, or closes the connection.
PeerSends(c, what) ==
    /\ c \in Live
    /\ pc = "select" \/ fd[c] \in readfds
    /\ sent[c] = "nothing"
    /\ sent' = [sent EXCEPT ![c] = what]
    /\ UNCHANGED <<lists, games, fd, backlog, readfds, accepted, loop>>

-----------------------------------------------------------------------------
(***************************************************************************)
(* The loop                                                                *)
(***************************************************************************)

\* Variant: the set given to select is taken for the one it reports.
Select_all ==
    /\ pc = "select"
    /\ readfds' = {fd[c] : c \in Live} \cup (IF backlog > 0 THEN {listen_fd} ELSE {})
    /\ pc' = "timeouts"
    /\ UNCHANGED <<lists, games, fd, sent, backlog, accepted, i, unprocessed_cnt>>

\* select returns, also when nothing has arrived for a second.
Select ==
    /\ pc = "select"
    /\ readfds' = {fd[c] : c \in {d \in Live : sent[d] # "nothing"}}
                  \cup (IF backlog > 0 THEN {listen_fd} ELSE {})
    /\ pc' = "timeouts"
    /\ UNCHANGED <<lists, games, fd, sent, backlog, accepted, i, unprocessed_cnt>>

\* A timeout of a game throws a player out (check_start_fields, end_game).
TimeoutDisconnects(c) ==
    /\ pc = "timeouts"
    /\ game_session[c] # 0
    /\ disconnect_client(c)
    /\ UNCHANGED <<backlog, readfds, accepted, loop>>

\* Without a result select is called again; otherwise a connection that waits
\* is accepted if the queue has a place ...
TimeoutsDone ==
    /\ pc = "timeouts"
    /\ pc' = IF readfds = {} THEN "select" ELSE "accept"
    /\ UNCHANGED <<lists, games, fd, sent, backlog, readfds, accepted, i, unprocessed_cnt>>

\* ... and the visit to the clients in game begins.
VisitClientsInGame ==
    /\ pc' = "in_game"
    /\ i' = 0
    /\ unprocessed_cnt' = in_game_count'

Accept(c) ==
    /\ pc = "accept"
    /\ listen_fd \in readfds
    /\ ~isFull(clients_queue)
    /\ c \in Client \ Live
    /\ backlog' = backlog - 1
    /\ fd' = [fd EXCEPT ![c] = FreeFd]
    /\ clients_queue' = add(clients_queue, c)
    /\ queue_count' = queue_count + 1
    /\ accepted' = c
    /\ UNCHANGED <<clients_in_game, in_game_count, games, sent, readfds>>
    /\ VisitClientsInGame

AcceptNone ==
    /\ pc = "accept"
    /\ listen_fd \notin readfds \/ isFull(clients_queue)
    /\ UNCHANGED <<lists, games, fd, sent, backlog, readfds, accepted>>
    /\ VisitClientsInGame

\* The visit to the next client of the array, past the positions that hold none.
Visits(array, c) ==
    /\ unprocessed_cnt > 0
    /\ \E n \in DOMAIN array :
          /\ n >= i
          /\ array[n] = c
          /\ \A k \in i .. (n - 1) : array[k] = None
          /\ i' = n + 1
    /\ unprocessed_cnt' = unprocessed_cnt - 1
    /\ UNCHANGED <<backlog, readfds, accepted, pc>>

\* select did not report its descriptor.
Idle(array, c) ==
    /\ Visits(array, c)
    /\ fd[c] \notin readfds
    /\ UNCHANGED <<lists, games, fd, sent>>

\* read_msg finds the connection closed.
Broken(array, c) ==
    /\ Visits(array, c)
    /\ fd[c] \in readfds
    /\ sent[c] = "closed"
    /\ disconnect_client(c)

\* read_msg finds a request, which process_msg answers.  With nothing to read
\* the server blocks until the peer sends something: no step.
Asks(array, c) ==
    /\ Visits(array, c)
    /\ fd[c] \in readfds
    /\ sent[c] = "request"
    /\ sent' = [sent EXCEPT ![c] = "nothing"]
    /\ UNCHANGED fd
    /\ IF game_session[c] = 0 THEN connect_player_to_game(c) ELSE UNCHANGED <<lists, games>>

Visit(array) == \E c \in Client : Idle(array, c) \/ Broken(array, c) \/ Asks(array, c)

\* _process_fd_actions: first the clients in game, then those in the queue.
ProcessInGame == pc = "in_game" /\ Visit(clients_in_game)

ProcessQueue == pc = "queue" /\ Visit(clients_queue)

\* Variant: the visit to the queue counts its places.
VisitQueue_miscounted ==
    /\ pc = "in_game"
    /\ unprocessed_cnt = 0
    /\ pc' = "queue"
    /\ i' = 0
    /\ unprocessed_cnt' = CLIENT_QUEUE_LEN
    /\ UNCHANGED <<lists, games, fd, sent, backlog, readfds, accepted>>

VisitQueue ==
    /\ pc = "in_game"
    /\ unprocessed_cnt = 0
    /\ pc' = "queue"
    /\ i' = 0
    /\ unprocessed_cnt' = queue_count
    /\ UNCHANGED <<lists, games, fd, sent, backlog, readfds, accepted>>

EndTurn ==
    /\ pc = "queue"
    /\ unprocessed_cnt = 0
    /\ pc' = "select"
    /\ i' = 0
    /\ accepted' = None
    /\ readfds' = {}
    /\ UNCHANGED <<lists, games, fd, sent, backlog, unprocessed_cnt>>

Next ==
    \/ PeerConnects
    \/ \E c \in Client : \E what \in {"request", "closed"} : PeerSends(c, what)
    \/ Select
    \/ \E c \in Client : TimeoutDisconnects(c)
    \/ TimeoutsDone
    \/ \E c \in Client : Accept(c)
    \/ AcceptNone
    \/ ProcessInGame
    \/ ProcessQueue
    \/ VisitQueue
    \/ EndTurn

Spec == Init /\ [][Next]_vars

-----------------------------------------------------------------------------
(***************************************************************************)
(* Properties                                                              *)
(***************************************************************************)

\* Every member holds a value of its type; counts and list lengths stay in the
\* capacities the server was built with.
TypeOK ==
    /\ clients_queue \in [0 .. (CLIENT_QUEUE_LEN - 1) -> Client \cup {None}]
    /\ clients_in_game \in [0 .. (IN_GAME_LEN - 1) -> Client \cup {None}]
    /\ queue_count \in 0 .. CLIENT_QUEUE_LEN
    /\ in_game_count \in 0 .. IN_GAME_LEN
    /\ sessions \in Seq([PlayerNumber -> Client \cup {None}])
    /\ Len(sessions) <= GAME_COUNT
    /\ game_session \in [Client -> 0 .. GAME_COUNT]
    /\ fd \in [Client -> Fd \cup {NoFd}]
    /\ sent \in [Client -> {"nothing", "request", "closed"}]
    /\ backlog \in 0 .. MaxBacklog
    /\ readfds \subseteq Fd \cup {listen_fd}
    /\ accepted \in Client \cup {None}
    /\ pc \in {"select", "timeouts", "accept", "in_game", "queue"}
    /\ i \in Nat
    /\ unprocessed_cnt \in Nat

\* Every ClientData is in exactly one of the lists, at one position, with a
\* descriptor of its own: a client in no list would never be served or deleted,
\* one in a list after its deletion would be used again.
ClientsListedOnce ==
    /\ Members(clients_queue) \cup Members(clients_in_game) = Live
    /\ Members(clients_queue) \cap Members(clients_in_game) = {}
    /\ \A array \in {clients_queue, clients_in_game} : \A k, n \in DOMAIN array :
           array[k] = array[n] /\ array[k] # None => k = n
    /\ \A c, d \in Live : fd[c] = fd[d] => c = d

\* A client is in clients_in_game exactly when it has a game, and then it has
\* exactly one seat, in that game.  Hence a seat in a game implies a place in
\* the list, connect_player_to_game never fails half way, and no seat is lost
\* when a client goes, whether in a timeout or in the middle of the visits.
SeatedInGame ==
    /\ Members(clients_in_game) = {c \in Client : game_session[c] # 0}
    /\ \A c \in Client : \A n \in DOMAIN sessions :
           Cardinality({k \in PlayerNumber : sessions[n][k] = c}) =
               IF game_session[c] = n THEN 1 ELSE 0

\* The loops over the lists end by counting clients, not by the size of the
\* array: past its end they would go on for ever.  So as many clients as are
\* still to be visited must lie ahead, although visits remove clients from the
\* list or move them to the other one.
LoopsEnd ==
    LET Ahead(array) == Cardinality({n \in DOMAIN array : n >= i /\ array[n] # None})
    IN  /\ pc = "in_game" => unprocessed_cnt <= Ahead(clients_in_game)
        /\ pc = "queue" => unprocessed_cnt <= Ahead(clients_queue)

\* The server never blocks in read, with one exception: a client accepted in
\* this turn can have got the descriptor of one that a timeout has disconnected
\* since select reported it.
BlocksOnlyOnReusedFd ==
    \A c \in Live :
        /\ fd[c] \in readfds /\ sent[c] = "nothing"
        /\ \/ pc = "in_game" /\ \E n \in DOMAIN clients_in_game :
                  n >= i /\ clients_in_game[n] = c
           \/ pc \in {"in_game", "queue"} /\ \E n \in DOMAIN clients_queue :
                  (pc = "queue" => n >= i) /\ clients_queue[n] = c
        => c = accepted

=============================================================================
