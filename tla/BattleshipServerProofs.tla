------------------------ MODULE BattleshipServerProofs ------------------------
(***************************************************************************)
(* What TLAPS proves about BattleshipServer.                               *)
(***************************************************************************)
EXTENDS BattleshipServer, Counting

-----------------------------------------------------------------------------
(***************************************************************************)
(* Arrays of clients                                                       *)
(***************************************************************************)

ClientArray(size) == [0 .. (size - 1) -> Client \cup {None}]
Occupied(array) == {n \in DOMAIN array : array[n] # None}
Once(array) == \A k, n \in DOMAIN array : array[k] = array[n] /\ array[k] # None => k = n

\* The positions of an array, or a part of them, can be counted.
LEMMA OccupiedIsFinite ==
    ASSUME NEW size \in Nat, NEW array \in ClientArray(size),
           NEW part, part \subseteq DOMAIN array
    PROVE  /\ IsFiniteSet(part)
           /\ Cardinality(part) \in 0 .. size
<1>1. DOMAIN array = 0 .. (size - 1)
  BY DEF ClientArray
<1>2. IsFiniteSet(0 .. (size - 1)) /\ Cardinality(0 .. (size - 1)) = size
  BY NumbersCounted
<1>3. IsFiniteSet(part) /\ Cardinality(part) <= size
  BY <1>1, <1>2, FS_Subset
<1>4. Cardinality(part) \in Nat
  BY <1>3, FS_CardinalityType
<1> QED BY <1>3, <1>4, SMT

\* remove takes one client out of an array that holds him once at most, and
\* counts him if he was there.
LEMMA Removing ==
    ASSUME ServerAssumption, NEW size \in Nat, NEW array \in ClientArray(size), Once(array),
           NEW c \in Client
    PROVE  /\ remove(array, c) \in ClientArray(size)
           /\ Once(remove(array, c))
           /\ Members(remove(array, c)) = Members(array) \ {c}
           /\ Cardinality(Occupied(remove(array, c)))
                  = Cardinality(Occupied(array)) - Found(array, c)
<1> DEFINE rest == remove(array, c)
<1>1. /\ rest \in ClientArray(size)
      /\ DOMAIN rest = DOMAIN array
      /\ \A n \in DOMAIN array : rest[n] = IF array[n] = c THEN None ELSE array[n]
  BY DEF remove, ClientArray
<1>2. c # None
  BY DEF ServerAssumption
<1> HIDE DEF rest
<1>3. Once(rest)
  BY <1>1 DEF Once
<1>4. Members(rest) = Members(array) \ {c}
  BY <1>1, <1>2 DEF Members
<1>5. IsFiniteSet(Occupied(array))
  BY OccupiedIsFinite DEF Occupied
<1>6. Cardinality(Occupied(rest)) = Cardinality(Occupied(array)) - Found(array, c)
  <2>1. CASE c \in Members(array)
    <3>1. PICK n \in DOMAIN array : array[n] = c
      BY <2>1 DEF Members
    <3>2. n \in Occupied(array) /\ Occupied(rest) = Occupied(array) \ {n}
      BY <3>1, <1>1, <1>2 DEF Occupied, Once
    <3> QED BY <2>1, <3>2, <1>5, FS_RemoveElement DEF Found
  <2>2. CASE c \notin Members(array)
    <3>1. Occupied(rest) = Occupied(array)
      BY <2>2, <1>1, <1>2 DEF Occupied, Members
    <3>2. Cardinality(Occupied(array)) \in Nat
      BY <1>5, FS_CardinalityType
    <3> QED BY <2>2, <3>1, <3>2 DEF Found
  <2> QED BY <2>1, <2>2
<1> QED BY <1>1, <1>3, <1>4, <1>6 DEF rest

\* add puts a new client at a free position.
LEMMA Adding ==
    ASSUME ServerAssumption, NEW size \in Nat, NEW array \in ClientArray(size), Once(array),
           ~isFull(array), NEW c \in Client \ Members(array)
    PROVE  /\ add(array, c) \in ClientArray(size)
           /\ Once(add(array, c))
           /\ Members(add(array, c)) = Members(array) \cup {c}
           /\ Cardinality(Occupied(add(array, c))) = Cardinality(Occupied(array)) + 1
<1> DEFINE Free(n) == array[n] = None /\ \A k \in 0 .. (n - 1) : array[k] # None
           pos     == CHOOSE n \in DOMAIN array : Free(n)
           more    == [array EXCEPT ![pos] = c]
<1>1. add(array, c) = more
  BY DEF add
<1>2. c # None
  BY DEF ServerAssumption
<1>3. pos \in DOMAIN array /\ array[pos] = None
  <2>1. \E n \in DOMAIN array : Free(n)
    <3> DEFINE free == {n \in DOMAIN array : array[n] = None}
    <3>1. free \subseteq Nat /\ free # {} /\ DOMAIN array = 0 .. (size - 1)
      BY DEF isFull, ClientArray
    <3>2. PICK n \in free : \A k \in free : n <= k
      <4> HIDE DEF free
      <4> QED BY <3>1, Smallest
    <3>3. Free(n)
      BY <3>1, <3>2, SMT
    <3> QED BY <3>2, <3>3
  <2> HIDE DEF Free
  <2>2. pos \in DOMAIN array /\ Free(pos)
    BY <2>1, Zenon
  <2> QED BY <2>2 DEF Free
<1> HIDE DEF pos
<1>4. /\ more \in ClientArray(size)
      /\ DOMAIN more = DOMAIN array
      /\ more[pos] = c
      /\ \A n \in DOMAIN array \ {pos} : more[n] = array[n]
  BY <1>3 DEF ClientArray
<1> HIDE DEF more
<1>5. Once(more)
  BY <1>2, <1>3, <1>4 DEF Once, Members
<1>6. Members(more) = Members(array) \cup {c}
  BY <1>2, <1>3, <1>4 DEF Members
<1>7. Occupied(more) = Occupied(array) \cup {pos} /\ pos \notin Occupied(array)
  BY <1>2, <1>3, <1>4 DEF Occupied
<1>8. IsFiniteSet(Occupied(array))
  BY OccupiedIsFinite DEF Occupied
<1>9. Cardinality(Occupied(more)) = Cardinality(Occupied(array)) + 1
  BY <1>7, <1>8, FS_AddElement
<1> QED BY <1>1, <1>4, <1>5, <1>6, <1>9

-----------------------------------------------------------------------------
(***************************************************************************)
(* Lists, seats and descriptors                                            *)
(***************************************************************************)

ListTypes ==
    /\ clients_queue \in ClientArray(CLIENT_QUEUE_LEN)
    /\ clients_in_game \in ClientArray(IN_GAME_LEN)
    /\ sessions \in Seq([PlayerNumber -> Client \cup {None}])
    /\ Len(sessions) <= GAME_COUNT
    /\ game_session \in [Client -> 0 .. GAME_COUNT]
    /\ fd \in [Client -> Fd \cup {NoFd}]

\* The counts of the arrays are right.
CountsFit ==
    /\ queue_count = Cardinality(Occupied(clients_queue))
    /\ in_game_count = Cardinality(Occupied(clients_in_game))

\* SeatedInGame without counting, and the games that clients have exist.
SeatsFit ==
    /\ Members(clients_in_game) = {c \in Client : game_session[c] # 0}
    /\ \A c \in Client : game_session[c] # 0 => game_session[c] \in DOMAIN sessions
    /\ \A c \in Client : \A n \in DOMAIN sessions :
           /\ game_session[c] = n <=> \E k \in PlayerNumber : sessions[n][k] = c
           /\ ~(sessions[n][0] = c /\ sessions[n][1] = c)

ListsInv == ListTypes /\ CountsFit /\ ClientsListedOnce /\ SeatsFit

\* A client has one seat of a game, or none.
LEMMA SeatsCounted ==
    ASSUME ServerAssumption, ListsInv
    PROVE  SeatedInGame
<1> USE DEF ListsInv, SeatsFit
<1>1. ASSUME NEW c \in Client, NEW n \in DOMAIN sessions
      PROVE  Cardinality({k \in PlayerNumber : sessions[n][k] = c}) =
                 IF game_session[c] = n THEN 1 ELSE 0
  <2> DEFINE seats == {k \in PlayerNumber : sessions[n][k] = c}
  <2>1. CASE game_session[c] = n
    <3>1. PICK k \in PlayerNumber : seats = {k}
      BY <2>1 DEF PlayerNumber
    <3> QED BY <2>1, <3>1, FS_Singleton
  <2>2. CASE game_session[c] # n
    <3>1. seats = {}
      BY <2>2
    <3> QED BY <2>2, <3>1, FS_EmptySet
  <2> QED BY <2>1, <2>2
<1> QED BY <1>1 DEF SeatedInGame

\* When a client is disconnected he is nowhere any more, and the others stay
\* where they are.
LEMMA DisconnectKeepsLists ==
    ASSUME ServerAssumption, ListsInv, NEW c \in Client, disconnect_client(c), fd[c] # NoFd
    PROVE  /\ ListsInv'
           /\ Live' = Live \ {c}
<1> USE DEF ListsInv
<1>1. CLIENT_QUEUE_LEN \in Nat /\ IN_GAME_LEN \in Nat
  BY SMT DEF ServerAssumption, IN_GAME_LEN
<1>2. Once(clients_queue) /\ Once(clients_in_game)
  BY DEF ClientsListedOnce, Once
<1>3. /\ clients_queue' \in ClientArray(CLIENT_QUEUE_LEN)
      /\ Once(clients_queue')
      /\ Members(clients_queue') = Members(clients_queue) \ {c}
      /\ queue_count' = Cardinality(Occupied(clients_queue'))
  <2>1. clients_queue' = remove(clients_queue, c)
    BY DEF disconnect_client
  <2>2. queue_count' = Cardinality(Occupied(clients_queue)) - Found(clients_queue, c)
    BY DEF disconnect_client, CountsFit
  <2> QED BY <1>1, <1>2, <2>1, <2>2, Removing DEF ListTypes
<1>4. /\ clients_in_game' \in ClientArray(IN_GAME_LEN)
      /\ Once(clients_in_game')
      /\ Members(clients_in_game') = Members(clients_in_game) \ {c}
      /\ in_game_count' = Cardinality(Occupied(clients_in_game'))
  <2>1. clients_in_game' = remove(clients_in_game, c)
    BY DEF disconnect_client
  <2>2. in_game_count' = Cardinality(Occupied(clients_in_game)) - Found(clients_in_game, c)
    BY DEF disconnect_client, CountsFit
  <2> QED BY <1>1, <1>2, <2>1, <2>2, Removing DEF ListTypes
<1>5. /\ fd' = [fd EXCEPT ![c] = NoFd]
      /\ fd' \in [Client -> Fd \cup {NoFd}]
      /\ Live' = Live \ {c}
  BY DEF disconnect_client, ListTypes, Live
<1>6. ClientsListedOnce'
  <2>1. /\ Members(clients_queue)' = Members(clients_queue) \ {c}
        /\ Members(clients_in_game)' = Members(clients_in_game) \ {c}
    BY <1>3, <1>4 DEF Members
  <2>2. (Members(clients_queue) \cup Members(clients_in_game) = Live)'
    BY <1>5, <2>1 DEF ClientsListedOnce
  <2>3. (Members(clients_queue) \cap Members(clients_in_game) = {})'
    BY <2>1 DEF ClientsListedOnce
  <2>4. \A a, b \in Live' : fd'[a] = fd'[b] => a = b
    BY <1>5 DEF ClientsListedOnce, ListTypes
  <2> QED BY <1>3, <1>4, <2>2, <2>3, <2>4 DEF ClientsListedOnce, Once
<1>7. game_session' = [game_session EXCEPT ![c] = 0]
      /\ game_session' \in [Client -> 0 .. GAME_COUNT]
  BY SMT DEF disconnect_client, ListTypes, ServerAssumption
<1>8. /\ sessions' \in Seq([PlayerNumber -> Client \cup {None}])
      /\ Len(sessions') = Len(sessions)
      /\ \A n \in DOMAIN sessions : \A k \in PlayerNumber :
             sessions'[n][k] = IF game_session[c] = n /\ sessions[n][k] = c
                                 THEN None ELSE sessions[n][k]
  <2>1. CASE game_session[c] = 0
    BY <2>1 DEF disconnect_client, ListTypes
  <2>2. CASE game_session[c] # 0
    <3>1. game_session[c] \in DOMAIN sessions
      BY <2>2 DEF SeatsFit
    <3>2. sessions' = [sessions EXCEPT ![game_session[c]] = Unseated(@, c)]
      BY <2>2 DEF disconnect_client
    <3>3. Unseated(sessions[game_session[c]], c) \in [PlayerNumber -> Client \cup {None}]
      BY <3>1 DEF Unseated, ListTypes
    <3> QED BY <3>1, <3>2, <3>3 DEF Unseated, ListTypes
  <2> QED BY <2>1, <2>2
<1>9. SeatsFit'
  <2>1. Members(clients_in_game)' = {d \in Client : game_session'[d] # 0}
    BY <1>4, <1>7 DEF Members, SeatsFit, ListTypes
  <2>2. c # None /\ DOMAIN sessions' = DOMAIN sessions
    BY <1>8 DEF ServerAssumption, ListTypes
  <2>3. ASSUME NEW d \in Client, NEW n \in DOMAIN sessions
        PROVE  /\ game_session'[d] = n <=> \E k \in PlayerNumber : sessions'[n][k] = d
               /\ ~(sessions'[n][0] = d /\ sessions'[n][1] = d)
    <3>1. /\ game_session[d] = n <=> \E k \in PlayerNumber : sessions[n][k] = d
          /\ ~(sessions[n][0] = d /\ sessions[n][1] = d)
          /\ game_session[c] = n <=> \E k \in PlayerNumber : sessions[n][k] = c
      BY DEF SeatsFit
    <3>2. n # 0 /\ d # None
      BY DEF ListTypes, ServerAssumption
    <3>3. game_session'[d] = IF d = c THEN 0 ELSE game_session[d]
      BY <1>7 DEF ListTypes
    <3>4. \A k \in PlayerNumber :
              sessions'[n][k] = IF game_session[c] = n /\ sessions[n][k] = c
                                  THEN None ELSE sessions[n][k]
      BY <1>8
    <3> QED BY <3>1, <3>2, <3>3, <3>4 DEF PlayerNumber
  <2>4. \A d \in Client : game_session'[d] # 0 => game_session'[d] \in DOMAIN sessions'
    BY <1>7, <2>2 DEF SeatsFit, ListTypes
  <2> QED BY <2>1, <2>2, <2>3, <2>4 DEF SeatsFit
<1>10. ListTypes'
  BY <1>3, <1>4, <1>5, <1>7, <1>8 DEF ListTypes, ClientArray, Fd, IN_GAME_LEN
<1>11. CountsFit'
  BY <1>3, <1>4 DEF CountsFit, Occupied
<1> QED BY <1>5, <1>6, <1>9, <1>10, <1>11

\* While a seat is free, clients_in_game has a place for the one who takes it.
LEMMA RoomInGame ==
    ASSUME ServerAssumption, ListsInv, NEW n \in 1 .. GAME_COUNT, NEW k \in PlayerNumber,
           n \in DOMAIN sessions => sessions[n][k] = None
    PROVE  ~isFull(clients_in_game)
<1> DEFINE Place == 0 .. (IN_GAME_LEN - 1)
           Taken == ((1 .. GAME_COUNT) \X PlayerNumber) \ {<<n, k>>}
           Game(p) == game_session[clients_in_game[p]]
           SeatNo(p) == IF sessions[Game(p)][0] = clients_in_game[p] THEN 0 ELSE 1
           seat == [p \in Place |-> <<Game(p), SeatNo(p)>>]
<1> SUFFICES ASSUME isFull(clients_in_game) PROVE FALSE
  OBVIOUS
<1>1. GAME_COUNT \in Nat /\ GAME_COUNT > 0
  BY DEF ServerAssumption
<1>2. ASSUME NEW p \in Place
      PROVE  /\ clients_in_game[p] \in Client
             /\ Game(p) \in DOMAIN sessions /\ Game(p) \in 1 .. GAME_COUNT
             /\ SeatNo(p) \in PlayerNumber
             /\ sessions[Game(p)][SeatNo(p)] = clients_in_game[p]
  <2>1. clients_in_game[p] \in Members(clients_in_game) /\ clients_in_game[p] # None
    BY DEF ListsInv, ListTypes, ClientArray, isFull, Members
  <2>2. clients_in_game[p] \in Client /\ Game(p) # 0
    BY <2>1 DEF ListsInv, SeatsFit
  <2>3. Game(p) \in DOMAIN sessions
    BY <2>2 DEF ListsInv, SeatsFit
  <2>4. Game(p) \in 1 .. GAME_COUNT
    BY <1>1, <2>2, <2>3, SMT DEF ListsInv, ListTypes
  <2>5. \E j \in PlayerNumber : sessions[Game(p)][j] = clients_in_game[p]
    BY <2>2, <2>3 DEF ListsInv, SeatsFit
  <2> QED BY <2>2, <2>3, <2>4, <2>5 DEF PlayerNumber
<1>3. seat \in [Place -> Taken]
  <2> SUFFICES ASSUME NEW p \in Place PROVE <<Game(p), SeatNo(p)>> \in Taken
    OBVIOUS
  <2>1. <<Game(p), SeatNo(p)>> # <<n, k>>
    <3>1. Game(p) = n /\ SeatNo(p) = k => clients_in_game[p] = None
      BY <1>2, Zenon
    <3>2. clients_in_game[p] # None
      BY <1>2 DEF ServerAssumption
    <3> HIDE DEF Game, SeatNo
    <3> QED BY <3>1, <3>2
  <2> HIDE DEF Game, SeatNo
  <2> QED BY <1>2, <2>1
<1>4. IsFiniteSet(Place) /\ Cardinality(Place) = 2 * GAME_COUNT
  BY <1>1, NumbersCounted DEF IN_GAME_LEN
<1>5. IsFiniteSet(Taken) /\ Cardinality(Taken) = 2 * GAME_COUNT - 1
  <2>1. IsFiniteSet(1 .. GAME_COUNT) /\ Cardinality(1 .. GAME_COUNT) = GAME_COUNT
    BY <1>1, NumbersCounted
  <2>2. IsFiniteSet(PlayerNumber) /\ Cardinality(PlayerNumber) = 2
    <3>1. IsFiniteSet({0}) /\ Cardinality({0}) = 1
      BY FS_Singleton
    <3>2. IsFiniteSet({0} \cup {1}) /\ Cardinality({0} \cup {1}) = 1 + 1
      <4>1. 1 \notin {0}
        OBVIOUS
      <4> QED BY <3>1, <4>1, FS_AddElement, Zenon
    <3>3. PlayerNumber = {0} \cup {1}
      BY DEF PlayerNumber
    <3> QED BY <3>2, <3>3
  <2>3. /\ IsFiniteSet((1 .. GAME_COUNT) \X PlayerNumber)
        /\ Cardinality((1 .. GAME_COUNT) \X PlayerNumber) = GAME_COUNT * 2
    BY <2>1, <2>2, FS_Product
  <2>4. <<n, k>> \in (1 .. GAME_COUNT) \X PlayerNumber
    OBVIOUS
  <2> DEFINE Seat == (1 .. GAME_COUNT) \X PlayerNumber
  <2>5. IsFiniteSet(Seat \ {<<n, k>>}) /\ Cardinality(Seat \ {<<n, k>>}) = Cardinality(Seat) - 1
    <3>1. IsFiniteSet(Seat) /\ <<n, k>> \in Seat
      BY <2>3, <2>4
    <3> HIDE DEF Seat
    <3> QED BY <3>1, FS_RemoveElement
  <2> QED BY <1>1, <2>3, <2>5
<1>6. PICK p, q \in Place : p # q /\ seat[p] = seat[q]
  <2> HIDE DEF seat, Taken, Place
  <2>1. Cardinality(Taken) < Cardinality(Place)
    BY <1>1, <1>4, <1>5
  <2> QED BY <1>3, <1>4, <1>5, <2>1, FS_PigeonHole
<1>7. Game(p) = Game(q) /\ SeatNo(p) = SeatNo(q)
  <2> HIDE DEF Game, SeatNo
  <2> QED BY <1>6
<1>8. clients_in_game[p] = clients_in_game[q]
  <2> HIDE DEF Game, SeatNo
  <2> QED BY <1>2, <1>7
<1>9. p = q
  BY <1>2, <1>8 DEF ListsInv, ListTypes, ClientArray, ClientsListedOnce, ServerAssumption
<1> QED BY <1>6, <1>9

\* The game that is chosen has a free seat, or is a new one.
LEMMA GameHasSeat ==
    ASSUME ServerAssumption, ListsInv, GameFor # 0
    PROVE  /\ GameFor \in 1 .. GAME_COUNT
           /\ GameFor \in DOMAIN sessions => Vacant(sessions[GameFor])
           /\ GameFor \notin DOMAIN sessions => GameFor = Len(sessions) + 1
<1> DEFINE vacant == {n \in DOMAIN sessions : Vacant(sessions[n])}
           First(n) == \A k \in vacant : n <= k
<1>1. DOMAIN sessions = 1 .. Len(sessions) /\ Len(sessions) \in Nat /\ GAME_COUNT \in Nat
  BY DEF ListsInv, ListTypes, ServerAssumption
<1>2. CASE vacant # {}
  <2>1. vacant \subseteq Nat
    BY <1>1
  <2>2. \E n \in vacant : First(n)
    <3> HIDE DEF vacant
    <3> QED BY <1>2, <2>1, Smallest
  <2>3. GameFor = CHOOSE n \in vacant : First(n)
    BY <1>2, Zenon DEF GameFor
  <2>4. GameFor \in vacant
    <3> HIDE DEF vacant, First
    <3> QED BY <2>2, <2>3, Zenon
  <2> QED BY <1>1, <2>4, SMT DEF ListsInv, ListTypes
<1>3. CASE vacant = {}
  <2>1. GameFor = Len(sessions) + 1 /\ Len(sessions) < GAME_COUNT
    <3>1. GameFor = IF Len(sessions) < GAME_COUNT THEN Len(sessions) + 1 ELSE 0
      BY <1>3, Zenon DEF GameFor
    <3> QED BY <3>1
  <2> QED BY <1>1, <2>1, SMT
<1> QED BY <1>2, <1>3

\* A client who asks for a game and gets a seat moves from the queue to the
\* clients in game; otherwise nothing changes.
LEMMA ConnectKeepsLists ==
    ASSUME ServerAssumption, ListsInv, NEW c \in Live, game_session[c] = 0,
           connect_player_to_game(c), fd' = fd
    PROVE  /\ ListsInv'
           /\ clients_queue' \in {clients_queue, remove(clients_queue, c)}
<1> USE DEF ListsInv
<1>1. c \in Client /\ c # None
  BY DEF Live, ServerAssumption
<1>2. CASE GameFor = 0
  <2>1. UNCHANGED <<lists, games, fd>>
    BY <1>2 DEF connect_player_to_game
  <2> QED BY <2>1 DEF lists, games, ListTypes, CountsFit, ClientsListedOnce, SeatsFit, Live
<1>3. CASE GameFor # 0
  <2> DEFINE n == GameFor
             old == IF n \in DOMAIN sessions THEN sessions[n] ELSE NoPlayers
             k == IF old[0] = None THEN 0 ELSE 1
  <2>1. /\ n \in 1 .. GAME_COUNT
        /\ n \in DOMAIN sessions => Vacant(sessions[n])
        /\ n \notin DOMAIN sessions => n = Len(sessions) + 1
    BY <1>3, GameHasSeat
  <2> HIDE DEF n
  <2>2. /\ k \in PlayerNumber
        /\ old \in [PlayerNumber -> Client \cup {None}]
        /\ old[k] = None
    BY <2>1 DEF Vacant, PlayerNumber, NoPlayers, ListTypes
  <2>3. ~isFull(clients_in_game)
    BY <2>1, <2>2, RoomInGame
  <2>4. /\ game_session' = [game_session EXCEPT ![c] = n]
        /\ clients_in_game' = add(clients_in_game, c)
        /\ in_game_count' = in_game_count + 1
        /\ clients_queue' = remove(clients_queue, c)
        /\ queue_count' = queue_count - Found(clients_queue, c)
        /\ sessions' = IF n \in DOMAIN sessions
                         THEN [sessions EXCEPT ![n] = Seated(@, c)]
                         ELSE Append(sessions, Seated(NoPlayers, c))
    BY <1>3, <2>3, Zenon DEF connect_player_to_game, n
  <2>5. CLIENT_QUEUE_LEN \in Nat /\ IN_GAME_LEN \in Nat
    BY SMT DEF ServerAssumption, IN_GAME_LEN
  <2>6. /\ Once(clients_queue) /\ Once(clients_in_game)
        /\ c \notin Members(clients_in_game)
    BY <1>1 DEF ClientsListedOnce, Once, SeatsFit
  <2>7. /\ clients_queue' \in ClientArray(CLIENT_QUEUE_LEN)
        /\ Once(clients_queue')
        /\ Members(clients_queue') = Members(clients_queue) \ {c}
        /\ queue_count' = Cardinality(Occupied(clients_queue'))
    BY <1>1, <2>4, <2>5, <2>6, Removing DEF ListTypes, CountsFit
  <2>8. /\ clients_in_game' \in ClientArray(IN_GAME_LEN)
        /\ Once(clients_in_game')
        /\ Members(clients_in_game') = Members(clients_in_game) \cup {c}
        /\ in_game_count' = Cardinality(Occupied(clients_in_game'))
    BY <1>1, <2>3, <2>4, <2>5, <2>6, Adding DEF ListTypes, CountsFit
  <2>9. ClientsListedOnce'
    <3>1. /\ Members(clients_queue)' = Members(clients_queue) \ {c}
          /\ Members(clients_in_game)' = Members(clients_in_game) \cup {c}
          /\ Live' = Live
      BY <2>7, <2>8 DEF Members, Live
    <3>2. /\ (Members(clients_queue) \cup Members(clients_in_game) = Live)'
          /\ (Members(clients_queue) \cap Members(clients_in_game) = {})'
      BY <2>6, <3>1 DEF ClientsListedOnce
    <3>3. \A a, b \in Live' : fd'[a] = fd'[b] => a = b
      BY <3>1 DEF ClientsListedOnce
    <3> QED BY <2>7, <2>8, <3>2, <3>3 DEF ClientsListedOnce, Once
  <2>10. game_session' \in [Client -> 0 .. GAME_COUNT] /\ n # 0
    <3>1. n \in 0 .. GAME_COUNT /\ n # 0
      BY <2>1, SMT
    <3> HIDE DEF old, k
    <3> QED BY <2>4, <3>1 DEF ListTypes
  <2>11. /\ sessions' \in Seq([PlayerNumber -> Client \cup {None}])
         /\ Len(sessions') <= GAME_COUNT
         /\ DOMAIN sessions' = DOMAIN sessions \cup {n}
         /\ sessions'[n] = [old EXCEPT ![k] = c]
         /\ \A m \in DOMAIN sessions \ {n} : sessions'[m] = sessions[m]
    <3>1. Seated(old, c) = [old EXCEPT ![k] = c]
      BY DEF Seated
    <3>2. [old EXCEPT ![k] = c] \in [PlayerNumber -> Client \cup {None}]
      BY <1>1, <2>2
    <3>3. CASE n \in DOMAIN sessions
      <4>1. sessions' = [sessions EXCEPT ![n] = [old EXCEPT ![k] = c]]
        BY <2>4, <3>1, <3>3
      <4> HIDE DEF old, k
      <4>2. sessions' \in Seq([PlayerNumber -> Client \cup {None}]) /\ Len(sessions') = Len(sessions)
        BY <3>2, <3>3, <4>1 DEF ListTypes
      <4>3. DOMAIN sessions' = DOMAIN sessions
        BY <4>1
      <4>4. DOMAIN sessions' = DOMAIN sessions \cup {n}
        BY <3>3, <4>3
      <4>5. /\ sessions'[n] = [old EXCEPT ![k] = c]
            /\ \A m \in DOMAIN sessions \ {n} : sessions'[m] = sessions[m]
        BY <3>3, <4>1
      <4> QED BY <4>2, <4>4, <4>5 DEF ListTypes
    <3>4. CASE n \notin DOMAIN sessions
      <4>1. n = Len(sessions) + 1 /\ Len(sessions) + 1 <= GAME_COUNT /\ GAME_COUNT \in Nat
        BY <2>1, <3>4, SMT DEF ServerAssumption, ListTypes
      <4>2. sessions' = Append(sessions, [old EXCEPT ![k] = c])
        BY <2>4, <3>1, <3>4
      <4> HIDE DEF old, k
      <4> QED BY <3>2, <4>1, <4>2 DEF ListTypes
    <3> QED BY <3>3, <3>4
  <2>12. SeatsFit'
    <3>1. Members(clients_in_game)' = {d \in Client : game_session'[d] # 0}
      <4>1. \A d \in Client : game_session'[d] = IF d = c THEN n ELSE game_session[d]
        BY <1>1, <2>4 DEF ListTypes
      <4>2. Members(clients_in_game)' = Members(clients_in_game) \cup {c}
        BY <2>8 DEF Members
      <4> HIDE DEF old, k
      <4> QED BY <1>1, <2>10, <4>1, <4>2 DEF SeatsFit
    <3>2. \A d \in Client : game_session'[d] # 0 => game_session'[d] \in DOMAIN sessions'
      BY <2>4, <2>11 DEF SeatsFit, ListTypes
    <3>3. ASSUME NEW d \in Client, NEW m \in DOMAIN sessions'
          PROVE  /\ game_session'[d] = m <=> \E j \in PlayerNumber : sessions'[m][j] = d
                 /\ ~(sessions'[m][0] = d /\ sessions'[m][1] = d)
      <4>1. game_session'[d] = IF d = c THEN n ELSE game_session[d]
        BY <1>1, <2>4 DEF ListTypes
      <4>2. d # None /\ m # 0
        BY <2>11 DEF ServerAssumption, ListTypes
      <4>3. CASE m # n
        <5>1. m \in DOMAIN sessions /\ sessions'[m] = sessions[m]
          BY <2>11, <4>3
        <5> QED BY <4>1, <4>2, <4>3, <5>1 DEF SeatsFit
      <4>4. CASE m = n
        <5>1. /\ game_session[d] = n <=> \E j \in PlayerNumber : old[j] = d
              /\ ~(old[0] = d /\ old[1] = d)
          <6>1. CASE n \in DOMAIN sessions
            BY <6>1 DEF SeatsFit
          <6>2. CASE n \notin DOMAIN sessions
            <7>1. game_session[d] # n
              BY <2>1, <6>2, SMT DEF SeatsFit
            <7> QED BY <4>2, <6>2, <7>1 DEF NoPlayers, PlayerNumber
          <6> QED BY <6>1, <6>2
        <5>2. /\ sessions'[m] = [old EXCEPT ![k] = c]
              /\ \A j \in PlayerNumber : sessions'[m][j] = IF j = k THEN c ELSE old[j]
          BY <2>2, <2>11, <4>4
        <5>3. \A j \in PlayerNumber : old[j] # c
          <6>1. CASE n \in DOMAIN sessions
            BY <1>1, <2>1, <6>1, SMT DEF SeatsFit
          <6>2. CASE n \notin DOMAIN sessions
            BY <1>1, <6>2 DEF NoPlayers, PlayerNumber
          <6> QED BY <6>1, <6>2
        <5> HIDE DEF old, k
        <5> QED BY <2>2, <4>1, <4>2, <4>4, <5>1, <5>2, <5>3 DEF PlayerNumber
      <4> QED BY <4>3, <4>4
    <3> QED BY <3>1, <3>2, <3>3 DEF SeatsFit
  <2>13. ListTypes'
    BY <2>7, <2>8, <2>10, <2>11 DEF ListTypes, ClientArray, Fd, IN_GAME_LEN
  <2>14. CountsFit'
    BY <2>7, <2>8 DEF CountsFit, Occupied
  <2> QED BY <2>4, <2>9, <2>12, <2>13, <2>14
<1> QED BY <1>2, <1>3

\* There is a descriptor for every client.
LEMMA FreeDescriptor ==
    ASSUME ServerAssumption, ListTypes, NEW c \in Client \ Live
    PROVE  FreeFd \in Fd /\ \A d \in Client : fd[d] # FreeFd
<1> DEFINE Free(n) == /\ \A d \in Client : fd[d] # n
                      /\ \A k \in 1 .. (n - 1) : \E d \in Client : fd[d] = k
           free == {n \in Fd : \A d \in Client : fd[d] # n}
           used == [n \in Fd |-> CHOOSE d \in Client : fd[d] = n]
<1>1. IsFiniteSet(Client) /\ Cardinality(Client) \in Nat
  BY FS_CardinalityType DEF ServerAssumption
<1>2. free # {}
  <2> SUFFICES ASSUME \A n \in Fd : \E d \in Client : fd[d] = n PROVE FALSE
    BY Zenon
  <2>1. \A n \in Fd : used[n] \in Client /\ fd[used[n]] = n
    BY Zenon
  <2>2. \A n \in Fd : used[n] \in Client \ {c}
    <3>1. \A n \in Fd : n # NoFd
      BY <1>1, SMT DEF Fd, NoFd
    <3> HIDE DEF used
    <3> QED BY <2>1, <3>1 DEF Live
  <2>3. used \in [Fd -> Client \ {c}]
    BY <2>2, Zenon
  <2>4. IsFiniteSet(Fd) /\ Cardinality(Fd) = Cardinality(Client)
    BY <1>1, NumbersCounted DEF Fd
  <2>5. IsFiniteSet(Client \ {c}) /\ Cardinality(Client \ {c}) = Cardinality(Client) - 1
    BY <1>1, FS_RemoveElement
  <2>6. \E m, n \in Fd : m # n /\ used[m] = used[n]
    <3>1. Cardinality(Client \ {c}) < Cardinality(Fd)
      BY <1>1, <2>4, <2>5
    <3> HIDE DEF used
    <3> QED BY <2>3, <2>4, <2>5, <3>1, FS_PigeonHole
  <2> HIDE DEF used
  <2> QED BY <2>1, <2>6
<1>3. PICK n \in free : \A k \in free : n <= k
  <2>1. free \subseteq Nat
    BY <1>1, SMT DEF Fd
  <2> HIDE DEF free
  <2> QED BY <1>2, <2>1, Smallest
<1>4. \A k \in 1 .. (n - 1) : k \in Fd /\ ~(n <= k)
  BY <1>1, <1>3, SMT DEF Fd
<1>5. \E m \in Fd : Free(m)
  BY <1>3, <1>4, Zenon
<1>6. FreeFd = CHOOSE m \in Fd : Free(m)
  BY DEF FreeFd
<1>7. FreeFd \in Fd /\ Free(FreeFd)
  <2> HIDE DEF Free
  <2> QED BY <1>5, <1>6, Zenon
<1> QED BY <1>7, Zenon

\* A connection that is accepted joins the queue.
LEMMA AcceptKeepsLists ==
    ASSUME ServerAssumption, ListsInv, NEW c \in Client, Accept(c)
    PROVE  /\ ListsInv'
           /\ Live' = Live \cup {c}
           /\ \A d \in Live : fd'[d] = fd[d]
<1> USE DEF ListsInv
<1>1. /\ ~isFull(clients_queue)
      /\ c \in Client \ Live
      /\ clients_queue' = add(clients_queue, c)
      /\ queue_count' = queue_count + 1
      /\ UNCHANGED <<clients_in_game, in_game_count, sessions, game_session>>
      /\ fd' = [fd EXCEPT ![c] = FreeFd]
  BY DEF Accept, games
<1>2. FreeFd \in Fd /\ FreeFd # NoFd /\ \A d \in Client : fd[d] # FreeFd
  <2>1. FreeFd \in Fd /\ \A d \in Client : fd[d] # FreeFd
    BY <1>1, FreeDescriptor
  <2> QED BY <2>1, FS_CardinalityType, SMT DEF Fd, NoFd, ServerAssumption
<1>3. /\ fd' \in [Client -> Fd \cup {NoFd}]
      /\ Live' = Live \cup {c}
      /\ \A d \in Live : fd'[d] = fd[d]
      /\ fd'[c] = FreeFd
  BY <1>1, <1>2 DEF Live, ListTypes
<1>4. CLIENT_QUEUE_LEN \in Nat
  BY DEF ServerAssumption
<1>5. Once(clients_queue) /\ c \notin Members(clients_queue) /\ c \notin Members(clients_in_game)
  BY <1>1 DEF ClientsListedOnce, Once
<1>6. /\ clients_queue' \in ClientArray(CLIENT_QUEUE_LEN)
      /\ Once(clients_queue')
      /\ Members(clients_queue') = Members(clients_queue) \cup {c}
      /\ queue_count' = Cardinality(Occupied(clients_queue'))
  BY <1>1, <1>4, <1>5, Adding DEF ListTypes, CountsFit
<1>7. ClientsListedOnce'
  <2>1. /\ Members(clients_queue)' = Members(clients_queue) \cup {c}
        /\ Members(clients_in_game)' = Members(clients_in_game)
    BY <1>1, <1>6 DEF Members
  <2>2. /\ (Members(clients_queue) \cup Members(clients_in_game) = Live)'
        /\ (Members(clients_queue) \cap Members(clients_in_game) = {})'
    BY <1>3, <1>5, <2>1 DEF ClientsListedOnce
  <2>3. \A a, b \in Live' : fd'[a] = fd'[b] => a = b
    BY <1>2, <1>3 DEF ClientsListedOnce, Live
  <2> QED BY <1>1, <1>6, <2>2, <2>3 DEF ClientsListedOnce, Once
<1>8. ListTypes' /\ CountsFit' /\ SeatsFit'
  BY <1>1, <1>3, <1>6 DEF ListTypes, CountsFit, SeatsFit, ClientArray, Fd, Occupied, Members,
                          IN_GAME_LEN
<1> QED BY <1>3, <1>7, <1>8

-----------------------------------------------------------------------------
(***************************************************************************)
(* The loop                                                                *)
(***************************************************************************)

LoopTypes ==
    /\ sent \in [Client -> {"nothing", "request", "closed"}]
    /\ backlog \in 0 .. MaxBacklog
    /\ readfds \subseteq Fd \cup {listen_fd}
    /\ accepted \in Client \cup {None}
    /\ pc \in {"select", "timeouts", "accept", "in_game", "queue"}
    /\ i \in Nat
    /\ unprocessed_cnt \in Nat

\* Until the visits begin, what select reported is still to be read: timeouts
\* only take clients away.
ReportsFit ==
    pc \in {"timeouts", "accept"} =>
        /\ \A c \in Live : fd[c] \in readfds => sent[c] # "nothing"
        /\ listen_fd \in readfds => backlog > 0

\* The clients of an array from this position on.
AheadOf(array, first) == {n \in DOMAIN array : n >= first /\ array[n] # None}

VisitsEnd ==
    /\ pc = "in_game" => unprocessed_cnt <= Cardinality(AheadOf(clients_in_game, i))
    /\ pc = "queue" => unprocessed_cnt <= Cardinality(AheadOf(clients_queue, i))

ServerInv == ListsInv /\ LoopTypes /\ ReportsFit /\ VisitsEnd /\ BlocksOnlyOnReusedFd

\* The invariant says everything that the runs check.
LEMMA WhatTheInvariantSays ==
    ASSUME ServerAssumption, ServerInv
    PROVE  TypeOK /\ ClientsListedOnce /\ SeatedInGame /\ LoopsEnd /\ BlocksOnlyOnReusedFd
<1> USE DEF ServerInv
<1>1. CLIENT_QUEUE_LEN \in Nat /\ IN_GAME_LEN \in Nat
  BY SMT DEF ServerAssumption, IN_GAME_LEN
<1>2. queue_count \in 0 .. CLIENT_QUEUE_LEN
  BY <1>1, OccupiedIsFinite DEF ListsInv, ListTypes, CountsFit, Occupied
<1>3. in_game_count \in 0 .. IN_GAME_LEN
  BY <1>1, OccupiedIsFinite DEF ListsInv, ListTypes, CountsFit, Occupied
<1>4. TypeOK
  BY <1>2, <1>3 DEF TypeOK, ListsInv, ListTypes, LoopTypes, ClientArray
<1>5. LoopsEnd
  BY DEF LoopsEnd, VisitsEnd, AheadOf
<1> QED BY <1>4, <1>5, SeatsCounted DEF ListsInv

\* At the beginning of a loop over an array all its clients lie ahead.
LEMMA AllAhead ==
    ASSUME NEW size \in Nat, NEW array \in ClientArray(size)
    PROVE  AheadOf(array, 0) = Occupied(array)
BY DEF AheadOf, Occupied, ClientArray

\* A visit goes on to the next client, and as many as are still to be visited
\* lie ahead of him, also if he is taken out of the array.
LEMMA VisitGoesOn ==
    ASSUME NEW size \in Nat, NEW array \in ClientArray(size), Once(array),
           NEW c \in Client, c # None, i \in Nat, unprocessed_cnt \in Nat,
           unprocessed_cnt <= Cardinality(AheadOf(array, i)), Visits(array, c),
           NEW left \in {array, remove(array, c)}
    PROVE  /\ i' \in Nat /\ unprocessed_cnt' \in Nat
           /\ unprocessed_cnt' <= Cardinality(AheadOf(left, i'))
           /\ \E n \in DOMAIN array : array[n] = c /\ n >= i /\ i' = n + 1
<1>1. PICK n \in DOMAIN array : /\ n >= i /\ array[n] = c /\ i' = n + 1
                                /\ \A k \in i .. (n - 1) : array[k] = None
  BY DEF Visits
<1>2. n \in Nat /\ i' \in Nat
  BY <1>1 DEF ClientArray
<1>3. unprocessed_cnt' = unprocessed_cnt - 1 /\ unprocessed_cnt' \in Nat
  BY DEF Visits
<1>4. /\ DOMAIN left = DOMAIN array
      /\ \A k \in DOMAIN array \ {n} : left[k] = array[k]
  BY <1>1 DEF remove, Once, ClientArray
<1>5. DOMAIN array \subseteq Nat
  BY DEF ClientArray
<1>6. AheadOf(left, i') = AheadOf(array, i) \ {n}
  <2>1. \A k \in DOMAIN array : k >= i' /\ left[k] # None <=> k >= i /\ array[k] # None /\ k # n
    <3> TAKE k \in DOMAIN array
    <3>1. k \in Nat
      BY <1>5
    <3>2. CASE k = n
      BY <1>1, <1>2, <3>1, <3>2, SMT
    <3>3. CASE k > n
      BY <1>1, <1>2, <1>4, <3>1, <3>3, SMT
    <3>4. CASE k < n
      BY <1>1, <1>2, <3>1, <3>4, SMT
    <3> QED BY <1>2, <3>1, <3>2, <3>3, <3>4, SMT
  <2> QED BY <1>4, <2>1 DEF AheadOf
<1>7. n \in AheadOf(array, i)
  BY <1>1 DEF AheadOf
<1>8. IsFiniteSet(AheadOf(array, i)) /\ Cardinality(AheadOf(array, i)) \in Nat
  BY OccupiedIsFinite, FS_CardinalityType DEF AheadOf
<1>9. Cardinality(AheadOf(left, i')) = Cardinality(AheadOf(array, i)) - 1
  BY <1>6, <1>7, <1>8, FS_RemoveElement
<1> QED BY <1>1, <1>2, <1>3, <1>8, <1>9

\* The visits to the clients in game keep the invariant.
LEMMA VisitsInGame ==
    ASSUME ServerAssumption, ServerInv, ProcessInGame
    PROVE  ServerInv'
<1> USE DEF ServerInv
<1>1. PICK c \in Client : \/ Idle(clients_in_game, c)
                          \/ Broken(clients_in_game, c)
                          \/ Asks(clients_in_game, c)
  BY DEF ProcessInGame, Visit
<1>2. /\ pc = "in_game" /\ Visits(clients_in_game, c)
      /\ UNCHANGED <<backlog, readfds, accepted, pc>>
  BY <1>1 DEF ProcessInGame, Idle, Broken, Asks, Visits
<1>3. /\ IN_GAME_LEN \in Nat /\ clients_in_game \in ClientArray(IN_GAME_LEN)
      /\ Once(clients_in_game) /\ c # None
  BY SMT DEF ServerAssumption, IN_GAME_LEN, ListsInv, ListTypes, ClientsListedOnce, Once
<1>4. PICK n \in DOMAIN clients_in_game : clients_in_game[n] = c /\ n >= i /\ i' = n + 1
  BY <1>2 DEF Visits
<1>5. i \in Nat /\ n \in Nat /\ DOMAIN clients_in_game \subseteq Nat
  BY <1>3 DEF ClientArray, LoopTypes
<1>6. c \in Members(clients_in_game) /\ c \in Live /\ c \notin Members(clients_queue)
      /\ game_session[c] # 0
  BY <1>3, <1>4 DEF Members, ListsInv, ClientsListedOnce, SeatsFit
<1>7. /\ ListsInv'
      /\ clients_in_game' \in {clients_in_game, remove(clients_in_game, c)}
      /\ \/ UNCHANGED <<lists, fd>> /\ (sent' = sent \/ sent' = [sent EXCEPT ![c] = "nothing"])
         \/ Broken(clients_in_game, c) /\ Live' = Live \ {c}
  <2>1. CASE UNCHANGED <<lists, games, fd>> /\ ~Broken(clients_in_game, c)
    BY <1>1, <2>1 DEF lists, games, ListsInv, ListTypes, CountsFit, ClientsListedOnce, SeatsFit,
                      Live, Idle, Asks
  <2>2. CASE Broken(clients_in_game, c)
    BY <1>6, <2>2, DisconnectKeepsLists DEF Broken, disconnect_client, Live
  <2> QED BY <1>1, <1>6, <2>1, <2>2 DEF Idle, Asks
<1>8. LoopTypes' /\ VisitsEnd'
  <2>1. /\ i' \in Nat /\ unprocessed_cnt' \in Nat
        /\ unprocessed_cnt' <= Cardinality(AheadOf(clients_in_game', i'))
    BY <1>2, <1>3, <1>7, VisitGoesOn DEF LoopTypes, VisitsEnd
  <2>2. sent' \in [Client -> {"nothing", "request", "closed"}]
    BY <1>7 DEF LoopTypes, Broken, disconnect_client
  <2> QED BY <1>2, <2>1, <2>2 DEF LoopTypes, VisitsEnd, AheadOf, Fd
<1>9. BlocksOnlyOnReusedFd'
  <2> SUFFICES ASSUME NEW d \in Live', fd'[d] \in readfds', sent'[d] = "nothing",
                      \/ \E m \in DOMAIN clients_in_game' : m >= i' /\ clients_in_game'[m] = d
                      \/ \E m \in DOMAIN clients_queue' : clients_queue'[m] = d
               PROVE  d = accepted'
    BY <1>2 DEF BlocksOnlyOnReusedFd
  <2>1. d \in Live /\ d \in Client /\ d # None
    BY <1>7 DEF lists, Live, ServerAssumption
  <2>2. d # c
    <3>1. CASE Broken(clients_in_game, c)
      BY <3>1, <1>6, DisconnectKeepsLists DEF Broken, Live
    <3>2. CASE UNCHANGED <<lists, fd>>
      <4> SUFFICES ASSUME d = c PROVE FALSE
        OBVIOUS
      <4>1. d \notin Members(clients_queue)
        BY <1>6
      <4>2. PICK m \in DOMAIN clients_in_game : m >= i' /\ clients_in_game[m] = c
        BY <2>1, <3>2, <4>1 DEF lists, Members
      <4>3. m = n
        BY <1>3, <1>4, <4>2 DEF Once
      <4> QED BY <1>4, <1>5, <4>2, <4>3, SMT
    <3> QED BY <1>7, <3>1, <3>2
  <2>3. fd[d] \in readfds /\ sent[d] = "nothing"
    BY <1>2, <1>7, <2>1, <2>2 DEF Broken, disconnect_client, LoopTypes, ListsInv, ListTypes
  <2>4. \/ \E m \in DOMAIN clients_in_game : m >= i' /\ clients_in_game[m] = d
        \/ \E m \in DOMAIN clients_queue : clients_queue[m] = d
    BY <1>7, <2>1 DEF lists, Broken, disconnect_client, remove
  <2>5. \A m \in DOMAIN clients_in_game : m >= i' => m >= i
    BY <1>4, <1>5, SMT
  <2> QED BY <1>2, <2>1, <2>3, <2>4, <2>5 DEF BlocksOnlyOnReusedFd
<1> QED BY <1>2, <1>7, <1>8, <1>9 DEF ReportsFit

\* The visits to the queue keep the invariant, also when a client leaves it for a
\* game.
LEMMA VisitsQueue ==
    ASSUME ServerAssumption, ServerInv, ProcessQueue
    PROVE  ServerInv'
<1> USE DEF ServerInv
<1>1. PICK c \in Client : \/ Idle(clients_queue, c)
                          \/ Broken(clients_queue, c)
                          \/ Asks(clients_queue, c)
  BY DEF ProcessQueue, Visit
<1>2. /\ pc = "queue" /\ Visits(clients_queue, c)
      /\ UNCHANGED <<backlog, readfds, accepted, pc>>
  BY <1>1 DEF ProcessQueue, Idle, Broken, Asks, Visits
<1>3. /\ CLIENT_QUEUE_LEN \in Nat /\ clients_queue \in ClientArray(CLIENT_QUEUE_LEN)
      /\ Once(clients_queue) /\ c # None
  BY DEF ServerAssumption, ListsInv, ListTypes, ClientsListedOnce, Once
<1>4. PICK n \in DOMAIN clients_queue : clients_queue[n] = c /\ n >= i /\ i' = n + 1
  BY <1>2 DEF Visits
<1>5. i \in Nat /\ n \in Nat /\ DOMAIN clients_queue \subseteq Nat
  BY <1>3 DEF ClientArray, LoopTypes
<1>6. c \in Live /\ game_session[c] = 0
  BY <1>3, <1>4 DEF Members, ListsInv, ClientsListedOnce, SeatsFit
<1>7. /\ ListsInv'
      /\ clients_queue' \in {clients_queue, remove(clients_queue, c)}
      /\ \/ fd' = fd /\ (sent' = sent \/ sent' = [sent EXCEPT ![c] = "nothing"])
         \/ Broken(clients_queue, c) /\ Live' = Live \ {c}
  <2>1. CASE Idle(clients_queue, c)
    BY <2>1 DEF Idle, lists, games, ListsInv, ListTypes, CountsFit, ClientsListedOnce, SeatsFit,
                Live
  <2>2. CASE Broken(clients_queue, c)
    BY <1>6, <2>2, DisconnectKeepsLists DEF Broken, disconnect_client, Live
  <2>3. CASE Asks(clients_queue, c)
    BY <1>6, <2>3, ConnectKeepsLists DEF Asks
  <2> QED BY <1>1, <2>1, <2>2, <2>3
<1>8. LoopTypes' /\ VisitsEnd'
  <2>1. /\ i' \in Nat /\ unprocessed_cnt' \in Nat
        /\ unprocessed_cnt' <= Cardinality(AheadOf(clients_queue', i'))
    BY <1>2, <1>3, <1>7, VisitGoesOn DEF LoopTypes, VisitsEnd
  <2>2. sent' \in [Client -> {"nothing", "request", "closed"}]
    BY <1>7 DEF LoopTypes, Broken, disconnect_client
  <2> QED BY <1>2, <2>1, <2>2 DEF LoopTypes, VisitsEnd, AheadOf, Fd
<1>9. BlocksOnlyOnReusedFd'
  <2> SUFFICES ASSUME NEW d \in Live', fd'[d] \in readfds', sent'[d] = "nothing",
                      NEW m \in DOMAIN clients_queue', m >= i', clients_queue'[m] = d
               PROVE  d = accepted'
    BY <1>2 DEF BlocksOnlyOnReusedFd
  <2>1. d \in Live /\ d \in Client /\ d # None
    BY <1>7 DEF Live, ServerAssumption
  <2>2. m \in DOMAIN clients_queue /\ clients_queue[m] = d
    BY <1>7, <2>1 DEF remove
  <2>3. m >= i /\ m # n
    BY <1>4, <1>5, <2>2, SMT
  <2>4. d # c
    BY <1>3, <1>4, <2>2, <2>3 DEF Once
  <2>5. fd[d] \in readfds /\ sent[d] = "nothing"
    BY <1>2, <1>7, <2>1, <2>4 DEF Broken, disconnect_client, LoopTypes, ListsInv, ListTypes
  <2> QED BY <1>2, <2>1, <2>2, <2>3, <2>5 DEF BlocksOnlyOnReusedFd
<1> QED BY <1>2, <1>7, <1>8, <1>9 DEF ReportsFit

\* Lists and seats only depend on the variables they are about.
LEMMA ListsStay ==
    ASSUME ListsInv, UNCHANGED <<lists, games, fd>>
    PROVE  ListsInv' /\ Live' = Live
BY DEF lists, games, ListsInv, ListTypes, CountsFit, ClientsListedOnce, SeatsFit, Live

\* Every step of the server and of its peers keeps the invariant.
LEMMA ServerInvIsInductive == ServerAssumption /\ ServerInv /\ [Next]_vars => ServerInv'
<1> SUFFICES ASSUME ServerAssumption, ServerInv, [Next]_vars PROVE ServerInv'
  OBVIOUS
<1> USE DEF ServerInv
<1>1. CASE PeerConnects
  BY <1>1, ListsStay DEF PeerConnects, LoopTypes, ReportsFit, VisitsEnd, BlocksOnlyOnReusedFd,
                         lists, games, loop, AheadOf, Fd, ServerAssumption
<1>2. ASSUME NEW c \in Client, NEW what \in {"request", "closed"}, PeerSends(c, what)
      PROVE  ServerInv'
  BY <1>2, ListsStay DEF PeerSends, LoopTypes, ReportsFit, VisitsEnd, BlocksOnlyOnReusedFd,
                         lists, games, loop, AheadOf, Fd, Live
<1>3. CASE Select
  <2>1. ListsInv' /\ Live' = Live
    BY <1>3, ListsStay DEF Select
  <2>2. readfds' \subseteq Fd \cup {listen_fd}
    BY <1>3 DEF Select, ListsInv, ListTypes, Live
  <2>3. 0 \notin Fd
    BY SMT DEF Fd
  <2>4. ReportsFit'
    <3>1. ASSUME NEW d \in Live, fd[d] \in readfds' PROVE sent[d] # "nothing"
      <4>1. fd[d] # listen_fd
        BY <2>3 DEF ListsInv, ListTypes, Live, listen_fd
      <4>2. PICK e \in Live : sent[e] # "nothing" /\ fd[d] = fd[e]
        BY <1>3, <3>1, <4>1 DEF Select
      <4> QED BY <4>2 DEF ListsInv, ClientsListedOnce
    <3>2. listen_fd \in readfds' => backlog > 0
      BY <1>3, <2>3 DEF Select, ListsInv, ListTypes, Live, listen_fd
    <3> QED BY <1>3, <2>1, <3>1, <3>2 DEF Select, ReportsFit
  <2> QED BY <1>3, <2>1, <2>2, <2>4 DEF Select, LoopTypes, VisitsEnd, BlocksOnlyOnReusedFd, Fd
<1>4. ASSUME NEW c \in Client, TimeoutDisconnects(c) PROVE ServerInv'
  <2>1. c \in Live
    BY <1>4 DEF TimeoutDisconnects, ListsInv, SeatsFit, ClientsListedOnce
  <2>2. ListsInv' /\ Live' = Live \ {c}
    BY <1>4, <2>1, DisconnectKeepsLists DEF TimeoutDisconnects, Live
  <2>3. /\ fd' = [fd EXCEPT ![c] = NoFd] /\ sent' = [sent EXCEPT ![c] = "nothing"]
        /\ UNCHANGED <<backlog, readfds, accepted, loop>> /\ pc = "timeouts"
    BY <1>4 DEF TimeoutDisconnects, disconnect_client
  <2>4. ReportsFit'
    BY <2>2, <2>3 DEF ReportsFit, loop, Live, LoopTypes, ListsInv, ListTypes
  <2> QED BY <2>2, <2>3, <2>4 DEF loop, LoopTypes, VisitsEnd, BlocksOnlyOnReusedFd, Fd
<1>5. CASE TimeoutsDone
  BY <1>5, ListsStay DEF TimeoutsDone, LoopTypes, ReportsFit, VisitsEnd, BlocksOnlyOnReusedFd, Fd
<1>6. ASSUME ListsInv', VisitClientsInGame
      PROVE  VisitsEnd' /\ i' \in Nat /\ unprocessed_cnt' \in Nat
  <2>1. IN_GAME_LEN \in Nat
    BY SMT DEF ServerAssumption, IN_GAME_LEN
  <2>2. clients_in_game' \in ClientArray(IN_GAME_LEN)
    BY <1>6 DEF ListsInv, ListTypes, ClientArray, IN_GAME_LEN
  <2>3. in_game_count' = Cardinality(Occupied(clients_in_game'))
    BY <1>6 DEF ListsInv, CountsFit, Occupied
  <2>4. Cardinality(Occupied(clients_in_game')) \in 0 .. IN_GAME_LEN
    BY <2>1, <2>2, OccupiedIsFinite DEF Occupied
  <2>5. AheadOf(clients_in_game', 0) = Occupied(clients_in_game')
    BY <2>1, <2>2, AllAhead
  <2> QED BY <1>6, <2>1, <2>3, <2>4, <2>5 DEF VisitClientsInGame, VisitsEnd, AheadOf
<1>7. ASSUME NEW c \in Client, Accept(c) PROVE ServerInv'
  <2>1. ListsInv' /\ Live' = Live \cup {c} /\ \A d \in Live : fd'[d] = fd[d]
    BY <1>7, AcceptKeepsLists
  <2>2. /\ pc = "accept" /\ listen_fd \in readfds /\ backlog' = backlog - 1 /\ accepted' = c
        /\ UNCHANGED <<sent, readfds>> /\ VisitClientsInGame
    BY <1>7 DEF Accept
  <2>3. VisitsEnd' /\ LoopTypes'
    BY <1>6, <2>1, <2>2 DEF LoopTypes, ReportsFit, VisitClientsInGame, Fd, ServerAssumption
  <2>4. BlocksOnlyOnReusedFd'
    BY <2>1, <2>2 DEF BlocksOnlyOnReusedFd, ReportsFit
  <2> QED BY <2>1, <2>2, <2>3, <2>4 DEF VisitClientsInGame, ReportsFit
<1>8. CASE AcceptNone
  <2>1. ListsInv' /\ Live' = Live
    BY <1>8, ListsStay DEF AcceptNone
  <2>2. VisitsEnd' /\ LoopTypes'
    BY <1>6, <1>8, <2>1 DEF AcceptNone, LoopTypes, VisitClientsInGame, Fd
  <2> QED BY <1>8, <2>1, <2>2 DEF AcceptNone, VisitClientsInGame, ReportsFit, BlocksOnlyOnReusedFd
<1>9. CASE ProcessInGame
  BY <1>9, VisitsInGame
<1>10. CASE ProcessQueue
  BY <1>10, VisitsQueue
<1>11. CASE VisitQueue
  <2>1. ListsInv' /\ Live' = Live
    BY <1>11, ListsStay DEF VisitQueue
  <2>2. CLIENT_QUEUE_LEN \in Nat
    BY DEF ServerAssumption
  <2>3. /\ AheadOf(clients_queue, 0) = Occupied(clients_queue)
        /\ Cardinality(Occupied(clients_queue)) \in 0 .. CLIENT_QUEUE_LEN
    BY <2>2, AllAhead, OccupiedIsFinite DEF ListsInv, ListTypes, Occupied
  <2>4. VisitsEnd' /\ LoopTypes'
    BY <1>11, <2>2, <2>3 DEF VisitQueue, VisitsEnd, AheadOf, LoopTypes, ListsInv, CountsFit, Fd, lists
  <2> QED BY <1>11, <2>1, <2>4 DEF VisitQueue, lists, ReportsFit, BlocksOnlyOnReusedFd
<1>12. CASE EndTurn
  BY <1>12, ListsStay DEF EndTurn, LoopTypes, ReportsFit, VisitsEnd, BlocksOnlyOnReusedFd, Fd
<1>13. CASE UNCHANGED vars
  BY <1>13, ListsStay DEF vars, loop, lists, games, LoopTypes, ReportsFit, VisitsEnd, AheadOf,
                          BlocksOnlyOnReusedFd, Fd
<1> QED BY <1>1, <1>2, <1>3, <1>4, <1>5, <1>7, <1>8, <1>9, <1>10, <1>11, <1>12, <1>13 DEF Next

\* The server starts with empty lists.
LEMMA ServerInvAtFirst == ServerAssumption /\ Init => ServerInv
<1> SUFFICES ASSUME ServerAssumption, Init PROVE ServerInv
  OBVIOUS
<1>1. /\ clients_queue \in ClientArray(CLIENT_QUEUE_LEN) /\ clients_in_game \in ClientArray(IN_GAME_LEN)
      /\ Members(clients_queue) = {} /\ Members(clients_in_game) = {} /\ Live = {}
      /\ Occupied(clients_queue) = {} /\ Occupied(clients_in_game) = {}
  BY DEF Init, EmptyArray, ClientArray, Members, Occupied, Live
<1>2. CountsFit
  BY <1>1, FS_EmptySet DEF Init, CountsFit
<1>3. ListTypes
  BY <1>1 DEF Init, ListTypes, ServerAssumption, Fd
<1>4. ClientsListedOnce
  BY <1>1 DEF Init, ClientsListedOnce, EmptyArray
<1>5. SeatsFit
  BY <1>1 DEF Init, SeatsFit
<1> QED BY <1>2, <1>3, <1>4, <1>5 DEF Init, ServerInv, ListsInv, LoopTypes, ReportsFit, VisitsEnd,
                                      BlocksOnlyOnReusedFd, ServerAssumption

-----------------------------------------------------------------------------

LEMMA ServerInvariant == Spec => []ServerInv
<1> USE ServerAssumption
<1> QED BY ServerInvAtFirst, ServerInvIsInductive, PTL DEF Spec

\* Whatever the capacities and however many peers there are, counts, sessions and
\* descriptors stay in their ranges.
THEOREM ServerTypes == Spec => []TypeOK
<1> USE ServerAssumption
<1> QED BY ServerInvariant, WhatTheInvariantSays, PTL

\* Every client is in exactly one list, with a descriptor of his own.
THEOREM ListsHoldEveryone == Spec => []ClientsListedOnce
<1> USE ServerAssumption
<1> QED BY ServerInvariant, WhatTheInvariantSays, PTL

\* Who is among the clients in game has one seat, and nobody else has one:
\* clients_in_game never overflows.
THEOREM SeatsAreHeldOnce == Spec => []SeatedInGame
<1> USE ServerAssumption
<1> QED BY ServerInvariant, WhatTheInvariantSays, PTL

\* The loops that count clients never run past the end of an array.
THEOREM LoopsStayInArrays == Spec => []LoopsEnd
<1> USE ServerAssumption
<1> QED BY ServerInvariant, WhatTheInvariantSays, PTL

\* read never waits for a client, unless his descriptor is that of one who was
\* disconnected by a timeout of the same turn.
THEOREM ReadsDoNotWait == Spec => []BlocksOnlyOnReusedFd
<1> USE ServerAssumption
<1> QED BY ServerInvariant, WhatTheInvariantSays, PTL

===============================================================================
