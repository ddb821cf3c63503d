--------------------------- MODULE ChatServerProofs ---------------------------
(***************************************************************************)
(* The states of ChatServer have their types, and its two routing tables   *)
(* agree with each other, with the sockets and with the logins, for any    *)
(* number of sockets, users, messages and crashes.  A message is written   *)
(* at most once, to its addressee, and leaves t_save_msg only by a login   *)
(* of the user it is saved for.  With that the server implements           *)
(* MessageLife.                                                            *)
(***************************************************************************)
EXTENDS ChatServer, TLAPS

(* A table stays a table when its key and value sets grow.                 *)
LEMMA IsHashGrows ==
  ASSUME NEW hash, NEW K, NEW V, NEW K2, NEW V2,
         K \subseteq K2, V \subseteq V2, IsHash(hash, K, V)
  PROVE  IsHash(hash, K2, V2)
  BY DEF IsHash

(* add_to_hash keeps a table a table.                                      *)
LEMMA AddToHashType ==
  ASSUME NEW K, NEW V, NEW hash, IsHash(hash, K, V), NEW k \in K, NEW v \in V
  PROVE  IsHash(AddToHash(hash, k, v), K, V)
  BY DEF IsHash, AddToHash, InHash

(* delete_from_hash keeps a table a table.                                 *)
LEMMA DeleteFromHashType ==
  ASSUME NEW K, NEW V, NEW hash, IsHash(hash, K, V), NEW k
  PROVE  IsHash(DeleteFromHash(hash, k), K, V)
  BY DEF IsHash, DeleteFromHash, Restrict

(* A login or a registration yields an account or 0.                       *)
LEMMA QueryIds ==
  ASSUME NEW ok, NEW name, NEW passwd
  PROVE  /\ MysqlVerify(t_wechat_users, ok, name, passwd)
              \subseteq DOMAIN t_wechat_users \cup {0}
         /\ RegistSelect(t_wechat_users, ok, name)
              \subseteq DOMAIN t_wechat_users \cup {0}
  BY DEF MysqlVerify, RegistSelect, IdsVerified, IdsNamed

(* A lookup by name yields an integer.                                     *)
LEMMA LookupIsInt ==
  ASSUME t_wechat_users \in Seq(UserRow), NEW ok, NEW name
  PROVE  GetIdByName(t_wechat_users, ok, name) \subseteq Int
<1>1. IdsNamed(t_wechat_users, name) \subseteq Int
  <2>1. DOMAIN t_wechat_users \subseteq Int
    OBVIOUS
  <2> QED
    BY <2>1 DEF IdsNamed
<1>2. CASE ~ok
  BY <1>2 DEF GetIdByName
<1>3. CASE ok
  BY <1>1, <1>3, StackIntsAreInts DEF GetIdByName
<1> QED
  BY <1>2, <1>3

-----------------------------------------------------------------------------
(* Type correctness.                                                       *)

LEMMA IdleType == Idle \in Task /\ Idle.step = "epoll_wait"
  BY DEF Idle, Task, TaskSteps

LEMMA EmptyHashType == ASSUME NEW K, NEW V PROVE IsHash(EmptyHash, K, V)
  BY DEF IsHash, EmptyHash

LEMMA TypeInit == Init => TypeOK
  BY BoundAssumption, IdleType, EmptyHashType DEF Init, TypeOK, SockStates

(* What the end of handle_client does to the maps, the task and the        *)
(* history keeps their types.                                              *)
LEMMA WelcomeType ==
  ASSUME TypeOK, NEW s \in Fds, NEW id \in DOMAIN t_wechat_users \cup {0},
         Welcome(s, id), UNCHANGED <<process, sock, tables, sent, log, kept>>
  PROVE  TypeOK'
<1>1. CASE id > 0 /\ Bind(s, id)
  <2>1. id \in DOMAIN t_wechat_users /\ id \in Int
    BY <1>1 DEF TypeOK
  <2>2. IsHash(map_user_socket', DOMAIN t_wechat_users, Fds)
    BY <1>1, <2>1, AddToHashType DEF TypeOK, Bind
  <2>3. IsHash(map_socket_user', Fds, DOMAIN t_wechat_users)
    BY <1>1, <2>1, AddToHashType DEF TypeOK, Bind
  <2>4. task' \in Task /\ task'.fd \in Fds /\ task'.step = "get_offline"
    BY <1>1, <2>1, IdleType DEF TypeOK, Bind, Task, TaskSteps
  <2>5. /\ who' \in [Fds -> SUBSET DOMAIN t_wechat_users]
        /\ overlap' \subseteq DOMAIN t_wechat_users
    BY <1>1, <2>1 DEF TypeOK, Bind
  <2> QED
    BY <2>2, <2>3, <2>4, <2>5 DEF TypeOK, process, tables
<1>2. CASE id = 0 /\ task' = Idle /\ UNCHANGED <<maps, who, overlap>>
  BY <1>2, IdleType DEF TypeOK, process, maps, tables
<1> QED
  BY <1>1, <1>2 DEF Welcome

LEMMA TypeNext == TypeOK /\ [Next]_vars => TypeOK'
<1> SUFFICES ASSUME TypeOK, [Next]_vars
             PROVE  TypeOK'
  OBVIOUS
<1> USE DEF TypeOK, process, maps, tables, history
<1>1. CASE UNCHANGED vars
  BY <1>1 DEF vars
<1>2. ASSUME NEW s \in Fds, AcceptClient(s)
      PROVE  TypeOK'
  BY <1>2 DEF AcceptClient, SockStates
<1>3. ASSUME NEW s \in Fds, PeerCloses(s)
      PROVE  TypeOK'
  BY <1>3 DEF PeerCloses, SockStates
<1>4. ASSUME NEW s \in Fds, HandleEof(s)
      PROVE  TypeOK'
  <2>1. /\ IsHash(map_user_socket', DOMAIN t_wechat_users, Fds)
        /\ IsHash(map_socket_user', Fds, DOMAIN t_wechat_users)
    BY <1>4, DeleteFromHashType DEF HandleEof, Unbind
  <2> QED
    BY <1>4, <2>1 DEF HandleEof, SockStates
<1>5. ASSUME NEW s \in Fds, CallRpc(s)
      PROVE  TypeOK'
  BY <1>5, IdleType DEF CallRpc, Task, TaskSteps
<1>6. ASSUME NEW s \in Fds, NEW name \in Names, NEW passwd \in Passwds,
             Regist(s, name, passwd)
      PROVE  TypeOK'
  <2>1. /\ t_wechat_users' \in Seq(UserRow)
        /\ DOMAIN t_wechat_users \subseteq DOMAIN t_wechat_users'
    BY <1>6 DEF Regist, UserRow
  <2>2. /\ IsHash(map_user_socket', DOMAIN t_wechat_users', Fds)
        /\ IsHash(map_socket_user', Fds, DOMAIN t_wechat_users')
    BY <1>6, <2>1, IsHashGrows DEF Regist
  <2>3. task' \in Task /\ task'.fd \in Fds /\ task'.step = "regist_select"
    BY <1>6, IdleType DEF Regist, Task, TaskSteps
  <2>4. /\ who' \in [Fds -> SUBSET DOMAIN t_wechat_users']
        /\ overlap' \subseteq DOMAIN t_wechat_users'
    BY <1>6, <2>1 DEF Regist
  <2> QED
    BY <1>6, <2>1, <2>2, <2>3, <2>4 DEF Regist
<1>7. ASSUME NEW s \in Fds, NEW name \in Names, NEW passwd \in Passwds,
             Login(s, name, passwd)
      PROVE  TypeOK'
  BY <1>7, QueryIds, WelcomeType DEF Login
<1>8. ASSUME NEW s \in Fds, NEW name \in Names, NEW friend \in Names,
             NEW x \in Msgs, Communicate(s, name, friend, x)
      PROVE  TypeOK'
  <2>1. task' \in Task /\ task'.fd \in Fds /\ task'.msg \in Msgs
    <3>1. PICK id \in GetIdByName(t_wechat_users, ConnOk, name) :
            task' = [Idle EXCEPT !.step = "lookup_friend", !.fd = s, !.msg = x,
                                 !.name = friend, !.user_id = id]
      BY <1>8 DEF Communicate
    <3>2. id \in Int
      BY LookupIsInt
    <3> QED
      BY <3>1, <3>2, IdleType DEF Task, TaskSteps
  <2>2. /\ DOMAIN sent' \subseteq Msgs
        /\ sent' \in [DOMAIN sent' -> [to : Names, known : BOOLEAN]]
    BY <1>8 DEF Communicate
  <2> QED
    BY <1>8, <2>1, <2>2 DEF Communicate
<1>9. CASE RegistSelectId
  <2>1. task.fd \in Fds
    BY <1>9 DEF RegistSelectId, At
  <2> QED
    BY <1>9, <2>1, QueryIds, WelcomeType DEF RegistSelectId
<1>10. CASE GetOfflineSelect
  <2>1. SavedFor(t_save_msg, task.user_id) \in SUBSET SavedRow
    BY DEF SavedFor
  <2> QED
    BY <1>10, <2>1, IdleType DEF GetOfflineSelect, At, Task, TaskSteps
<1>11. CASE DeleteOffline
  <2>1. \A r \in task.rows : r.msg \in Msgs
    BY DEF Task, SavedRow
  <2>2. task' \in Task /\ task'.fd \in Fds /\ task'.step = "send_offline"
    BY <1>11, <2>1 DEF DeleteOffline, At, NewestRow, Task, TaskSteps
  <2>3. t_save_msg' \subseteq SavedRow /\ kept' \subseteq Msgs
    <3>1. {r.msg : r \in task.rows} \subseteq Msgs
      BY <2>1
    <3> QED
      BY <1>11, <3>1 DEF DeleteOffline
  <2> QED
    BY <1>11, <2>2, <2>3 DEF DeleteOffline
<1>12. CASE SendOffline
  <2>1. log' \in Seq([msg : Msgs, fd : Fds])
    <3>1. CASE task.msg = NoMsg
      BY <1>12, <3>1 DEF SendOffline
    <3>2. CASE task.msg # NoMsg
      <4>1. [msg |-> task.msg, fd |-> task.fd] \in [msg : Msgs, fd : Fds]
        BY <1>12, <3>2 DEF SendOffline, At, Task
      <4> QED
        BY <1>12, <3>2, <4>1 DEF SendOffline
    <3> QED
      BY <3>1, <3>2
  <2> QED
    BY <1>12, <2>1, IdleType DEF SendOffline
<1>13. CASE LookupFriend
  <2>1. PICK id \in GetIdByName(t_wechat_users, ConnOk, task.name) :
          IF InHash(map_user_socket, id)
            THEN /\ log' = Append(log, [msg |-> task.msg,
                                        fd  |-> map_user_socket[id]])
                 /\ task' = Idle
            ELSE /\ task' = [task EXCEPT !.step = "save_msg",
                                         !.friend_id = id]
                 /\ UNCHANGED log
    BY <1>13 DEF LookupFriend
  <2>2. id \in Int
    BY LookupIsInt
  <2>3. CASE InHash(map_user_socket, id)
    <3>1. map_user_socket[id] \in Fds
      BY <2>3 DEF InHash, IsHash
    <3>2. [msg |-> task.msg, fd |-> map_user_socket[id]]
            \in [msg : Msgs, fd : Fds]
      BY <1>13, <3>1 DEF LookupFriend, At
    <3>3. log' = Append(log, [msg |-> task.msg, fd |-> map_user_socket[id]])
      BY <2>1, <2>3
    <3>4. log' \in Seq([msg : Msgs, fd : Fds])
      BY <3>2, <3>3
    <3> QED
      BY <1>13, <2>1, <2>3, <3>4, IdleType DEF LookupFriend
  <2>4. CASE ~InHash(map_user_socket, id)
    BY <1>13, <2>1, <2>2, <2>4, ZenonT(40) DEF LookupFriend, At, Task, TaskSteps
  <2> QED
    BY <2>3, <2>4
<1>14. CASE SaveMsg
  BY <1>14, IdleType DEF SaveMsg, At, SavedRow, Task
<1>15. CASE RpcReturns
  BY <1>15, IdleType DEF RpcReturns
<1>16. CASE LoseMysql
  BY <1>16 DEF LoseMysql
<1>17. CASE Crash
  <2>1. /\ sock' \in [Fds -> SockStates]
        /\ who' \in [Fds -> SUBSET DOMAIN t_wechat_users]
        /\ overlap' \subseteq DOMAIN t_wechat_users
    BY <1>17 DEF Crash, SockStates
  <2>2. /\ IsHash(map_user_socket', DOMAIN t_wechat_users, Fds)
        /\ IsHash(map_socket_user', Fds, DOMAIN t_wechat_users)
    BY <1>17, EmptyHashType DEF Crash
  <2>3. up' \in BOOLEAN
    BY <1>17 DEF Crash
  <2>4. crashes' \in Nat
    BY <1>17 DEF Crash
  <2> QED
    BY <1>17, <2>1, <2>2, <2>3, <2>4, IdleType DEF Crash
<1>18. CASE Restart
  BY <1>18 DEF Restart
<1> QED
  BY <1>1, <1>2, <1>3, <1>4, <1>5, <1>6, <1>7, <1>8, <1>9, <1>10, <1>11,
     <1>12, <1>13, <1>14, <1>15, <1>16, <1>17, <1>18 DEF Next, Handler

(* In every execution the variables keep their types; in particular the    *)
(* two tables of tool/hash.h only ever hold descriptors and existing ids.  *)
THEOREM TypeCorrect == Spec => []TypeOK
<1>1. Init => TypeOK
  BY TypeInit
<1>2. TypeOK /\ [Next]_vars => TypeOK'
  BY TypeNext
<1> QED
  BY <1>1, <1>2, PTL DEF Spec
-----------------------------------------------------------------------------
(* The two tables of tool/hash.h in server.cpp stay consistent with each   *)
(* other, with the sockets and with the logins.                            *)

(* Only sockets that were accepted are in the tables.                      *)
SocketsInUse ==
  /\ \A s \in DOMAIN map_socket_user : sock[s] # "free"
  /\ \A u \in DOMAIN map_user_socket : sock[map_user_socket[u]] # "free"

(* The socket of a running handler was accepted and its end of file is not *)
(* read; a registration in progress still may log in.                      *)
TaskConnected ==
  /\ task.step # "epoll_wait" => sock[task.fd] \in {"open", "hup"}
  /\ task.step = "regist_select" => MayLogIn(task.fd)

SessionInv ==
  /\ SocketsInUse /\ TaskConnected
  /\ RoutedToOwnSocket /\ NoRouteToDeadSocket /\ LoggedInIsReachable

-----------------------------------------------------------------------------
(* The end of a login or a registration.                                   *)
LEMMA BindSession ==
  ASSUME TypeOK, SessionInv, UNCHANGED sock,
         NEW s \in Fds, sock[s] \in {"open", "hup"}, MayLogIn(s),
         NEW id \in DOMAIN t_wechat_users, Bind(s, id)
  PROVE  SessionInv'
<1> DEFINE us == map_user_socket
           su == map_socket_user
<1>1. /\ us' = AddToHash(us, id, s)
      /\ su' = AddToHash(su, s, id)
      /\ who' = [who EXCEPT ![s] = @ \cup {id}]
      /\ overlap' = IF \E q \in DOMAIN su \ {s} : su[q] = id
                      THEN overlap \cup {id}
                      ELSE overlap
  BY DEF Bind
<1>2. /\ DOMAIN us' = DOMAIN us \cup {id}
      /\ \A u \in DOMAIN us : us'[u] = us[u]
      /\ id \notin DOMAIN us => us'[id] = s
  BY <1>1 DEF AddToHash, InHash
<1>3. /\ DOMAIN su' = DOMAIN su \cup {s}
      /\ \A q \in DOMAIN su : su'[q] = su[q]
      /\ s \notin DOMAIN su => su'[s] = id
  BY <1>1 DEF AddToHash, InHash
<1>4. /\ DOMAIN su \subseteq Fds
      /\ \A u \in DOMAIN us : us[u] \in Fds
      /\ who \in [Fds -> SUBSET DOMAIN t_wechat_users]
  BY DEF TypeOK, IsHash
<1>5. /\ id \in who'[s]
      /\ \A q \in Fds : who[q] \subseteq who'[q]
  BY <1>1, <1>4
<1> HIDE DEF us, su
<1>6. SocketsInUse'
  BY <1>2, <1>3 DEF SessionInv, SocketsInUse, us, su
<1>7. TaskConnected'
  <2>1. task'.step = "get_offline" /\ task'.fd = s
    BY DEF Bind, Idle
  <2> QED
    BY <2>1 DEF TaskConnected
<1>8. RoutedToOwnSocket'
  <2>1. /\ \A u \in DOMAIN us : u \in who[us[u]]
        /\ \A q \in DOMAIN su : su[q] \in who[q]
    BY DEF SessionInv, RoutedToOwnSocket, us, su
  <2>2. \A u \in DOMAIN us' : u \in who'[us'[u]]
    BY <1>2, <1>4, <1>5, <2>1
  <2>3. \A q \in DOMAIN su' : su'[q] \in who'[q]
    BY <1>3, <1>4, <1>5, <2>1
  <2> QED
    BY <2>2, <2>3 DEF RoutedToOwnSocket, us, su
<1>9. ASSUME ~Relogin
      PROVE  s \notin DOMAIN su
  BY <1>9 DEF SessionInv, RoutedToOwnSocket, MayLogIn, su
<1>10. NoRouteToDeadSocket'
  <2> SUFFICES ASSUME ~Relogin, NEW u \in DOMAIN us'
               PROVE  us'[u] \in DOMAIN su' /\ su'[us'[u]] = u
                        /\ sock[us'[u]] # "dead"
    BY DEF NoRouteToDeadSocket, InHash, us, su
  <2>1. CASE u \in DOMAIN us
    BY <1>2, <1>3, <2>1 DEF SessionInv, NoRouteToDeadSocket, InHash, us, su
  <2>2. CASE u = id /\ u \notin DOMAIN us
    BY <1>2, <1>3, <1>9, <2>2
  <2> QED
    BY <1>2, <2>1, <2>2
<1>11. LoggedInIsReachable'
  <2> SUFFICES ASSUME ~Relogin, NEW q \in DOMAIN su', su'[q] \notin overlap'
               PROVE  su'[q] \in DOMAIN us' /\ us'[su'[q]] = q
    BY DEF LoggedInIsReachable, InHash, us, su
  <2>1. CASE q \in DOMAIN su
    BY <1>1, <1>2, <1>3, <2>1 DEF SessionInv, LoggedInIsReachable, InHash, us, su
  <2>2. CASE q = s
    <3>1. su'[s] = id
      BY <1>3, <1>9
    <3>2. \A p \in DOMAIN su : su[p] # id
      BY <1>1, <1>9, <2>2, <3>1
    <3>3. id \notin DOMAIN us
      BY <3>2 DEF SessionInv, NoRouteToDeadSocket, InHash, us, su
    <3> QED
      BY <1>2, <2>2, <3>1, <3>3
  <2> QED
    BY <1>3, <2>1, <2>2
<1> QED
  BY <1>6, <1>7, <1>8, <1>10, <1>11 DEF SessionInv

(* The end of file of a socket.                                            *)
LEMMA EofSession ==
  ASSUME TypeOK, SessionInv, NEW s \in Fds, HandleEof(s)
  PROVE  SessionInv'
<1> DEFINE us == map_user_socket
           su == map_socket_user
<1>1. /\ task = Idle /\ task' = Idle
      /\ sock' = [sock EXCEPT ![s] = "dead"] /\ sock[s] # "free"
      /\ UNCHANGED <<who, overlap>>
  BY DEF HandleEof, Waiting, history
<1>2. /\ DOMAIN su \subseteq Fds
      /\ \A q \in DOMAIN su : su[q] > 0
      /\ \A u \in DOMAIN us : us[u] \in Fds
      /\ sock \in [Fds -> SockStates]
  BY DEF TypeOK, IsHash
<1>3. CASE s \in DOMAIN su
  <2>1. /\ DOMAIN us' = DOMAIN us \ {su[s]}
        /\ \A u \in DOMAIN us' : us'[u] = us[u]
        /\ DOMAIN su' = DOMAIN su \ {s}
        /\ \A q \in DOMAIN su' : su'[q] = su[q]
    BY <1>2, <1>3 DEF HandleEof, Unbind, InHash, DeleteFromHash, Restrict
  <2> HIDE DEF us, su
  <2>2. SocketsInUse'
    BY <1>1, <1>2, <2>1 DEF SessionInv, SocketsInUse, us, su
  <2>3. TaskConnected'
    BY <1>1 DEF TaskConnected, Idle
  <2>4. RoutedToOwnSocket'
    BY <1>1, <2>1 DEF SessionInv, RoutedToOwnSocket, us, su
  <2>5. NoRouteToDeadSocket'
    BY <1>1, <1>2, <2>1
    DEF SessionInv, NoRouteToDeadSocket, InHash, us, su
  <2>6. LoggedInIsReachable'
    BY <1>1, <1>3, <2>1 DEF SessionInv, LoggedInIsReachable, InHash, us, su
  <2> QED
    BY <2>2, <2>3, <2>4, <2>5, <2>6 DEF SessionInv
<1>4. CASE s \notin DOMAIN su
  <2>1. us' = us /\ su' = su
    BY <1>4 DEF HandleEof, Unbind, InHash, maps
  <2> HIDE DEF us, su
  <2>2. SocketsInUse'
    BY <1>1, <1>2, <2>1 DEF SessionInv, SocketsInUse, us, su
  <2>3. TaskConnected'
    BY <1>1 DEF TaskConnected, Idle
  <2>4. RoutedToOwnSocket'
    BY <1>1, <2>1 DEF SessionInv, RoutedToOwnSocket, us, su
  <2>5. NoRouteToDeadSocket'
    BY <1>1, <1>2, <1>4, <2>1
    DEF SessionInv, NoRouteToDeadSocket, InHash, us, su
  <2>6. LoggedInIsReachable'
    BY <1>1, <2>1 DEF SessionInv, LoggedInIsReachable, InHash, us, su
  <2> QED
    BY <2>2, <2>3, <2>4, <2>5, <2>6 DEF SessionInv
<1> QED
  BY <1>3, <1>4

(* Handlers that leave the tables, the sockets and the logins alone.       *)
LEMMA TablesKept ==
  ASSUME SessionInv, UNCHANGED <<sock, maps, who, overlap>>, TaskConnected'
  PROVE  SessionInv'
  BY DEF SessionInv, SocketsInUse, RoutedToOwnSocket, NoRouteToDeadSocket,
         LoggedInIsReachable, maps

LEMMA SessionInit == Init => SessionInv
  BY DEF Init, EmptyHash, Idle, SessionInv, SocketsInUse, TaskConnected,
         RoutedToOwnSocket, NoRouteToDeadSocket, LoggedInIsReachable

LEMMA SessionNext == TypeOK /\ SessionInv /\ [Next]_vars => SessionInv'
<1> SUFFICES ASSUME TypeOK, SessionInv, [Next]_vars
             PROVE  SessionInv'
  OBVIOUS
<1> USE DEF process, maps, tables, history
<1>a. Idle.step = "epoll_wait"
  BY IdleType
<1>b. TaskConnected
  BY DEF SessionInv
<1>1. CASE UNCHANGED vars
  BY <1>1, <1>b, TablesKept DEF vars, TaskConnected, MayLogIn
<1>2. ASSUME NEW s \in Fds, AcceptClient(s)
      PROVE  SessionInv'
  <2>1. /\ sock[s] = "free" /\ sock' = [sock EXCEPT ![s] = "open"]
        /\ who' = [who EXCEPT ![s] = {}]
        /\ UNCHANGED <<map_user_socket, map_socket_user, overlap>>
        /\ task' = Idle
    BY <1>2 DEF AcceptClient, Waiting
  <2>2. /\ DOMAIN map_socket_user \subseteq Fds
        /\ \A u \in DOMAIN map_user_socket : map_user_socket[u] \in Fds
        /\ sock \in [Fds -> SockStates]
        /\ who \in [Fds -> SUBSET DOMAIN t_wechat_users]
    BY DEF TypeOK, IsHash
  <2>3. /\ s \notin DOMAIN map_socket_user
        /\ \A u \in DOMAIN map_user_socket : map_user_socket[u] # s
    BY <2>1 DEF SessionInv, SocketsInUse
  <2>4. SocketsInUse'
    BY <2>1, <2>2, <2>3 DEF SessionInv, SocketsInUse
  <2>5. RoutedToOwnSocket'
    BY <2>1, <2>2, <2>3 DEF SessionInv, RoutedToOwnSocket
  <2>6. NoRouteToDeadSocket'
    BY <2>1, <2>2, <2>3 DEF SessionInv, NoRouteToDeadSocket, InHash
  <2>7. LoggedInIsReachable'
    BY <2>1 DEF SessionInv, LoggedInIsReachable, InHash
  <2>8. TaskConnected'
    BY <1>a, <2>1 DEF TaskConnected
  <2> QED
    BY <2>4, <2>5, <2>6, <2>7, <2>8 DEF SessionInv
<1>3. ASSUME NEW s \in Fds, PeerCloses(s)
      PROVE  SessionInv'
  <2>1. /\ sock[s] = "open" /\ sock' = [sock EXCEPT ![s] = "hup"]
        /\ UNCHANGED <<map_user_socket, map_socket_user, overlap, who, task>>
    BY <1>3 DEF PeerCloses
  <2>2. \A q : sock'[q] \in {"free", "dead"} => sock[q] = sock'[q]
    BY <2>1 DEF TypeOK
  <2>3. SocketsInUse' /\ NoRouteToDeadSocket'
    BY <2>1, <2>2 DEF SessionInv, SocketsInUse, NoRouteToDeadSocket, InHash
  <2>4. TaskConnected'
    BY <1>b, <2>1 DEF TypeOK, TaskConnected, MayLogIn
  <2>5. RoutedToOwnSocket' /\ LoggedInIsReachable'
    BY <2>1 DEF SessionInv, RoutedToOwnSocket, LoggedInIsReachable, InHash
  <2> QED
    BY <2>3, <2>4, <2>5 DEF SessionInv
<1>4. ASSUME NEW s \in Fds, HandleEof(s)
      PROVE  SessionInv'
  BY <1>4, EofSession
<1>5. ASSUME NEW s \in Fds, CallRpc(s)
      PROVE  SessionInv'
  <2>1. sock[s] \in {"open", "hup"} /\ task'.step = "rpc" /\ task'.fd = s
    BY <1>5, IdleType DEF CallRpc, Receives, Idle
  <2> QED
    BY <1>5, <2>1, TablesKept DEF CallRpc, TaskConnected
<1>6. ASSUME NEW s \in Fds, NEW name \in Names, NEW passwd \in Passwds,
             Regist(s, name, passwd)
      PROVE  SessionInv'
  <2>1. /\ sock[s] \in {"open", "hup"} /\ MayLogIn(s) /\ UNCHANGED who
        /\ task'.fd = s
    BY <1>6 DEF Regist, Receives, Idle
  <2> QED
    BY <1>6, <2>1, TablesKept DEF Regist, TaskConnected, MayLogIn
<1>7. ASSUME NEW s \in Fds, NEW name \in Names, NEW passwd \in Passwds,
             Login(s, name, passwd)
      PROVE  SessionInv'
  <2>1. PICK id \in DOMAIN t_wechat_users \cup {0} : Welcome(s, id)
    BY <1>7, QueryIds DEF Login
  <2>2. /\ UNCHANGED sock
        /\ sock[s] \in {"open", "hup"} /\ MayLogIn(s)
    BY <1>7 DEF Login, Receives
  <2>3. CASE id > 0 /\ Bind(s, id)
    BY <2>2, <2>3, BindSession
  <2>4. CASE id = 0 /\ task' = Idle /\ UNCHANGED <<maps, who, overlap>>
    BY <1>a, <2>2, <2>4, TablesKept DEF TaskConnected
  <2> QED
    BY <2>1, <2>3, <2>4 DEF Welcome
<1>8. ASSUME NEW s \in Fds, NEW name \in Names, NEW friend \in Names,
             NEW x \in Msgs, Communicate(s, name, friend, x)
      PROVE  SessionInv'
  <2>1. /\ sock[s] \in {"open", "hup"}
        /\ task'.fd = s /\ task'.step = "lookup_friend"
    BY <1>8 DEF Communicate, Receives, Idle
  <2> QED
    BY <1>8, <2>1, TablesKept DEF Communicate, TaskConnected
<1>9. CASE RegistSelectId
  <2>1. PICK id \in DOMAIN t_wechat_users \cup {0} : Welcome(task.fd, id)
    BY <1>9, QueryIds DEF RegistSelectId
  <2>2. /\ UNCHANGED sock /\ task.fd \in Fds
        /\ sock[task.fd] \in {"open", "hup"} /\ MayLogIn(task.fd)
    BY <1>9, <1>b DEF RegistSelectId, At, TypeOK, TaskConnected
  <2>3. CASE id > 0 /\ Bind(task.fd, id)
    BY <2>2, <2>3, BindSession
  <2>4. CASE id = 0 /\ task' = Idle /\ UNCHANGED <<maps, who, overlap>>
    BY <1>a, <2>2, <2>4, TablesKept DEF TaskConnected
  <2> QED
    BY <2>1, <2>3, <2>4 DEF Welcome
<1>10. CASE GetOfflineSelect
  <2>1. TaskConnected'
    BY <1>10, <1>a, <1>b DEF GetOfflineSelect, At, TypeOK, Task, TaskConnected
  <2> QED
    BY <1>10, <2>1, TablesKept DEF GetOfflineSelect
<1>11. CASE DeleteOffline
  <2>1. task'.step = "send_offline" /\ task'.fd = task.fd
    BY <1>11 DEF DeleteOffline, TypeOK, Task
  <2>2. TaskConnected'
    BY <1>11, <1>b, <2>1 DEF DeleteOffline, At, TaskConnected
  <2> QED
    BY <1>11, <2>2, TablesKept DEF DeleteOffline
<1>12. CASE SendOffline
  BY <1>12, <1>a, TablesKept DEF SendOffline, TaskConnected
<1>13. CASE LookupFriend
  <2>1. \/ task' = Idle
        \/ task'.step = "save_msg" /\ task'.fd = task.fd
    BY <1>13 DEF LookupFriend, TypeOK, Task
  <2>2. TaskConnected'
    BY <1>13, <1>a, <1>b, <2>1 DEF LookupFriend, At, TaskConnected
  <2> QED
    BY <1>13, <2>2, TablesKept DEF LookupFriend
<1>14. CASE SaveMsg
  BY <1>14, <1>a, TablesKept DEF SaveMsg, TaskConnected
<1>15. CASE RpcReturns
  BY <1>15, <1>a, TablesKept DEF RpcReturns, TaskConnected
<1>16. CASE LoseMysql
  BY <1>16, <1>b, TablesKept DEF LoseMysql, TaskConnected, MayLogIn
<1>17. CASE Crash
  BY <1>17, <1>a
  DEF Crash, EmptyHash, SessionInv, SocketsInUse, TaskConnected,
      RoutedToOwnSocket, NoRouteToDeadSocket, LoggedInIsReachable
<1>18. CASE Restart
  BY <1>18, <1>b, TablesKept DEF Restart, TaskConnected, MayLogIn
<1> QED
  BY <1>1, <1>2, <1>3, <1>4, <1>5, <1>6, <1>7, <1>8, <1>9, <1>10, <1>11,
     <1>12, <1>13, <1>14, <1>15, <1>16, <1>17, <1>18 DEF Next, Handler

THEOREM SessionInvariant == Spec => []SessionInv
<1>1. Init => SessionInv
  BY SessionInit
<1>2. TypeOK /\ SessionInv /\ [Next]_vars => SessionInv'
  BY SessionNext
<1> QED
  BY <1>1, <1>2, TypeCorrect, PTL DEF Spec

(* Users are routed only to sockets on which they logged in, and sockets   *)
(* attributed only to users who logged in on them, for repeated logins on  *)
(* one connection too.                                                     *)
THEOREM RoutesAreOwn == Spec => []RoutedToOwnSocket
<1>1. SessionInv => RoutedToOwnSocket
  BY DEF SessionInv
<1> QED
  BY <1>1, SessionInvariant, PTL

(* With one login per connection no route outlives the end of file of its  *)
(* socket.                                                                 *)
THEOREM RoutesEndWithSockets == Spec => []NoRouteToDeadSocket
<1>1. SessionInv => NoRouteToDeadSocket
  BY DEF SessionInv
<1> QED
  BY <1>1, SessionInvariant, PTL

(* With one login per connection a user whose sessions never overlapped is *)
(* routed to the socket it is on.                                          *)
THEOREM UsersAreReachable == Spec => []LoggedInIsReachable
<1>1. SessionInv => LoggedInIsReachable
  BY DEF SessionInv
<1> QED
  BY <1>1, SessionInvariant, PTL
-----------------------------------------------------------------------------
(* Deliveries.                                                             *)

Written == {log[i].msg : i \in DOMAIN log}
Saved   == {r.msg : r \in t_save_msg}

(* The writer, the table and the log only have messages that were sent.    *)
MessagesKnown ==
  Written \cup Saved \cup ({task.msg} \ {NoMsg}) \subseteq DOMAIN sent

SavedOnce == \A r, q \in t_save_msg : r.msg = q.msg => r = q

SavedNotWritten == Saved \cap Written \subseteq kept

(* The message a handler holds is nowhere else; only these three hold one. *)
HeldIsNew ==
  /\ task.step \in {"lookup_friend", "save_msg"} =>
       task.msg \notin Written \cup Saved
  /\ task.step = "send_offline" =>
       task.msg \notin (Written \cup Saved) \ kept
  /\ task.step \notin {"lookup_friend", "save_msg", "send_offline"} =>
       task.msg = NoMsg

(* Between the SELECT and the DELETE of a login no row of its user comes   *)
(* or goes.                                                                *)
FetchIsCurrent ==
  /\ task.step \in {"get_offline", "delete_offline", "send_offline"} =>
       task.user_id \in who[task.fd]
  /\ task.step = "delete_offline" =>
       task.rows = SavedFor(t_save_msg, task.user_id)

IsAddressee(id, x) ==
  sent[x].known => id \in IdsNamed(t_wechat_users, sent[x].to)

(* Whoever a message is on its way to has the name it was sent to.         *)
Addressed ==
  /\ \A x \in DOMAIN sent :
       sent[x].known => IdsNamed(t_wechat_users, sent[x].to) # {}
  /\ \A r \in t_save_msg : IsAddressee(r.friend_id, r.msg)
  /\ task.step = "lookup_friend" => task.name = sent[task.msg].to
  /\ task.step = "save_msg" /\ ConnOk => IsAddressee(task.friend_id, task.msg)
  /\ task.step = "send_offline" /\ task.msg # NoMsg =>
       IsAddressee(task.user_id, task.msg)

(* Nothing runs in a process that is down.                                 *)
DownIsIdle == ~up => task = Idle

DeliveryInv ==
  /\ WrittenAtMostOnce
  /\ MessagesKnown /\ SavedOnce /\ SavedNotWritten
  /\ HeldIsNew /\ FetchIsCurrent

-----------------------------------------------------------------------------
LEMMA AppendedLog ==
  ASSUME log \in Seq([msg : Msgs, fd : Fds]),
         NEW e \in [msg : Msgs, fd : Fds], log' = Append(log, e)
  PROVE  /\ Written' = Written \cup {e.msg}
         /\ log'[Len(log')] = e
         /\ DOMAIN log' = DOMAIN log \cup {Len(log) + 1}
         /\ \A i \in DOMAIN log : log'[i] = log[i]
         /\ log'[Len(log) + 1] = e
         /\ Len(log) + 1 \notin DOMAIN log
<1>1. /\ DOMAIN log' = DOMAIN log \cup {Len(log) + 1}
      /\ \A i \in DOMAIN log : log'[i] = log[i]
      /\ log'[Len(log) + 1] = e
      /\ Len(log') = Len(log) + 1
      /\ Len(log) + 1 \notin DOMAIN log
  OBVIOUS
<1> QED
  BY <1>1 DEF Written

(* A write of a message that was not written before, or was kept.          *)
LEMMA WriteOnce ==
  ASSUME log \in Seq([msg : Msgs, fd : Fds]), WrittenAtMostOnce,
         NEW e \in [msg : Msgs, fd : Fds], log' = Append(log, e),
         UNCHANGED kept, e.msg \notin Written \ kept
  PROVE  WrittenAtMostOnce'
  BY AppendedLog DEF WrittenAtMostOnce, Written

(* A step that moves no message and ends in a handler that holds none.     *)
LEMMA HandlerStarts ==
  ASSUME DeliveryInv, UNCHANGED <<t_save_msg, sent, log, kept>>,
         task'.msg = NoMsg,
         task'.step \in {"epoll_wait", "regist_select", "get_offline", "rpc"},
         task'.step = "get_offline" => task'.user_id \in who'[task'.fd]
  PROVE  DeliveryInv'
  BY DEF DeliveryInv, WrittenAtMostOnce, MessagesKnown, SavedOnce,
         SavedNotWritten, HeldIsNew, FetchIsCurrent, Written, Saved

(* A step that leaves the messages, the handler and the logins alone.      *)
LEMMA HandlerWaits ==
  ASSUME DeliveryInv, UNCHANGED <<t_save_msg, sent, log, kept, task, who>>
  PROVE  DeliveryInv'
  BY DEF DeliveryInv, WrittenAtMostOnce, MessagesKnown, SavedOnce,
         SavedNotWritten, HeldIsNew, FetchIsCurrent, Written, Saved

LEMMA DeliveryInit == Init => DeliveryInv
  BY DEF Init, Idle, DeliveryInv, WrittenAtMostOnce, MessagesKnown, SavedOnce,
         SavedNotWritten, HeldIsNew, FetchIsCurrent, Written, Saved

(* The message of a handler that holds one was sent.                       *)
LEMMA HeldIsSent ==
  ASSUME DeliveryInv, task.msg # NoMsg
  PROVE  task.msg \in DOMAIN sent
  BY DEF DeliveryInv, MessagesKnown

LEMMA BindDelivery ==
  ASSUME TypeOK, DeliveryInv, UNCHANGED <<tables, sent, log, kept>>,
         NEW s \in Fds, NEW id, Welcome(s, id)
  PROVE  DeliveryInv'
<1>1. CASE id > 0 /\ Bind(s, id)
  <2>1. /\ task'.step = "get_offline" /\ task'.msg = NoMsg
        /\ task'.user_id \in who'[task'.fd]
    BY <1>1 DEF Bind, Idle, TypeOK
  <2> QED
    BY <2>1, HandlerStarts DEF tables
<1>2. CASE id = 0 /\ task' = Idle
  BY <1>2, HandlerStarts DEF tables, Idle
<1> QED
  BY <1>1, <1>2 DEF Welcome

LEMMA DeliveryNext == TypeOK /\ DeliveryInv /\ [Next]_vars => DeliveryInv'
<1> SUFFICES ASSUME TypeOK, DeliveryInv, [Next]_vars
             PROVE  DeliveryInv'
  OBVIOUS
<1> USE DEF process, maps, tables, history
<1>1. CASE UNCHANGED vars
  BY <1>1, HandlerWaits DEF vars
<1>2. ASSUME NEW s \in Fds, AcceptClient(s)
      PROVE  DeliveryInv'
  BY <1>2, HandlerStarts DEF AcceptClient, Waiting, Idle
<1>3. ASSUME NEW s \in Fds, PeerCloses(s)
      PROVE  DeliveryInv'
  BY <1>3, HandlerWaits DEF PeerCloses
<1>4. ASSUME NEW s \in Fds, HandleEof(s)
      PROVE  DeliveryInv'
  BY <1>4, HandlerWaits DEF HandleEof
<1>5. ASSUME NEW s \in Fds, CallRpc(s)
      PROVE  DeliveryInv'
  BY <1>5, HandlerStarts DEF CallRpc, Idle
<1>6. ASSUME NEW s \in Fds, NEW name \in Names, NEW passwd \in Passwds,
             Regist(s, name, passwd)
      PROVE  DeliveryInv'
  BY <1>6, HandlerStarts DEF Regist, Idle
<1>7. ASSUME NEW s \in Fds, NEW name \in Names, NEW passwd \in Passwds,
             Login(s, name, passwd)
      PROVE  DeliveryInv'
  BY <1>7, BindDelivery DEF Login
<1>8. ASSUME NEW s \in Fds, NEW name \in Names, NEW friend \in Names,
             NEW x \in Msgs, Communicate(s, name, friend, x)
      PROVE  DeliveryInv'
  <2>1. /\ x \notin DOMAIN sent /\ DOMAIN sent' = DOMAIN sent \cup {x}
        /\ task'.msg = x /\ task'.step = "lookup_friend"
        /\ UNCHANGED <<t_save_msg, log, kept>>
    BY <1>8 DEF Communicate, Idle
  <2>2. Written' = Written /\ Saved' = Saved
    BY <2>1 DEF Written, Saved
  <2>3. x \notin Written \cup Saved
    BY <2>1 DEF DeliveryInv, MessagesKnown
  <2> QED
    BY <2>1, <2>2, <2>3
    DEF DeliveryInv, WrittenAtMostOnce, MessagesKnown, SavedOnce,
        SavedNotWritten, HeldIsNew, FetchIsCurrent
<1>9. CASE RegistSelectId
  <2>1. task.fd \in Fds
    BY <1>9 DEF RegistSelectId, At, TypeOK
  <2> QED
    BY <1>9, <2>1, BindDelivery DEF RegistSelectId
<1>10. CASE GetOfflineSelect
  <2>1. UNCHANGED <<t_save_msg, sent, log, kept, who>>
    BY <1>10 DEF GetOfflineSelect
  <2>2. CASE task' = Idle
    BY <2>1, <2>2, HandlerStarts DEF Idle
  <2>3. CASE task' = [task EXCEPT !.step = "delete_offline",
                        !.rows = SavedFor(t_save_msg, task.user_id)]
    <3>1. /\ task'.step = "delete_offline" /\ task'.msg = task.msg
          /\ task'.fd = task.fd /\ task'.user_id = task.user_id
          /\ task'.rows = SavedFor(t_save_msg, task.user_id)
      BY <2>3 DEF TypeOK, Task
    <3>2. task.msg = NoMsg /\ task.user_id \in who[task.fd]
      BY <1>10 DEF GetOfflineSelect, At, DeliveryInv, HeldIsNew,
                   FetchIsCurrent
    <3> QED
      BY <2>1, <3>1, <3>2
      DEF DeliveryInv, WrittenAtMostOnce, MessagesKnown, SavedOnce,
          SavedNotWritten, HeldIsNew, FetchIsCurrent, Written, Saved
  <2> QED
    BY <1>10, <2>2, <2>3 DEF GetOfflineSelect
<1>11. CASE DeleteOffline
  <2>1. /\ task.rows = SavedFor(t_save_msg, task.user_id)
        /\ task.msg = NoMsg /\ task.user_id \in who[task.fd]
    BY <1>11 DEF DeleteOffline, At, DeliveryInv, FetchIsCurrent, HeldIsNew
  <2>2. task.rows \subseteq t_save_msg
    BY <2>1 DEF SavedFor
  <2>3. /\ task'.step = "send_offline" /\ task'.fd = task.fd
        /\ task'.user_id = task.user_id
        /\ \/ task'.msg = NoMsg
           \/ \E r \in task.rows : task'.msg = r.msg
    BY <1>11, <2>1 DEF DeleteOffline, NewestRow, TypeOK, Task
  <2>4. /\ UNCHANGED <<log, sent, who>>
        /\ Written' = Written
    BY <1>11 DEF DeleteOffline, Written
  <2>5. /\ t_save_msg' \subseteq t_save_msg
        /\ Saved' \subseteq Saved
        /\ kept \subseteq kept'
    BY <1>11 DEF DeleteOffline, Saved
  <2>6. NoMsg \notin Written \cup Saved
    BY NoneAssumption DEF DeliveryInv, MessagesKnown, TypeOK
  <2>7. \A r \in task.rows : r.msg \notin (Written \cup Saved') \ kept'
    <3> SUFFICES ASSUME NEW r \in task.rows, r.msg \notin kept'
                 PROVE  r.msg \notin Written \cup Saved'
      OBVIOUS
    <3>1. r.msg \in Saved /\ r.msg \notin kept
      BY <2>2, <2>5 DEF Saved
    <3>2. r.msg \notin Written
      BY <3>1 DEF DeliveryInv, SavedNotWritten
    <3>3. t_save_msg' = t_save_msg \ task.rows
      BY <1>11, <2>1 DEF DeleteOffline
    <3>4. r.msg \notin Saved'
      BY <2>2, <3>3 DEF DeliveryInv, SavedOnce, Saved
    <3> QED
      BY <3>2, <3>4
  <2>8. WrittenAtMostOnce'
    BY <2>4, <2>5 DEF DeliveryInv, WrittenAtMostOnce
  <2>9. MessagesKnown'
    BY <2>2, <2>3, <2>4, <2>5 DEF DeliveryInv, MessagesKnown, Saved
  <2>10. SavedOnce' /\ SavedNotWritten'
    BY <2>4, <2>5 DEF DeliveryInv, SavedOnce, SavedNotWritten
  <2>11. HeldIsNew'
    BY <2>3, <2>4, <2>5, <2>6, <2>7 DEF HeldIsNew
  <2>12. FetchIsCurrent'
    BY <2>1, <2>3, <2>4 DEF FetchIsCurrent
  <2> QED
    BY <2>8, <2>9, <2>10, <2>11, <2>12 DEF DeliveryInv
<1>12. CASE SendOffline
  <2>1. CASE task.msg = NoMsg
    BY <1>12, <2>1, HandlerStarts DEF SendOffline, Idle
  <2>2. CASE task.msg # NoMsg
    <3> DEFINE e == [msg |-> task.msg, fd |-> task.fd]
    <3>1. /\ e \in [msg : Msgs, fd : Fds] /\ log' = Append(log, e)
          /\ log \in Seq([msg : Msgs, fd : Fds])
      BY <1>12, <2>2 DEF SendOffline, At, TypeOK, Task
    <3>2. Written' = Written \cup {task.msg}
      BY <3>1, AppendedLog
    <3>3. /\ UNCHANGED <<t_save_msg, sent, kept>> /\ task' = Idle
          /\ Saved' = Saved
      BY <1>12 DEF SendOffline, Saved
    <3>4. task.msg \notin (Written \cup Saved) \ kept
      BY <1>12 DEF SendOffline, At, DeliveryInv, HeldIsNew
    <3>5. WrittenAtMostOnce'
      BY <3>1, <3>3, <3>4, WriteOnce DEF DeliveryInv
    <3>6. MessagesKnown' /\ SavedNotWritten'
      BY <2>2, <3>2, <3>3, <3>4, HeldIsSent
      DEF DeliveryInv, MessagesKnown, SavedNotWritten, Idle
    <3> QED
      BY <3>3, <3>5, <3>6
      DEF DeliveryInv, SavedOnce, HeldIsNew, FetchIsCurrent, Idle
  <2> QED
    BY <2>1, <2>2
<1>13. CASE LookupFriend
  <2>1. PICK id \in GetIdByName(t_wechat_users, ConnOk, task.name) :
          IF InHash(map_user_socket, id)
            THEN /\ log' = Append(log, [msg |-> task.msg,
                                        fd  |-> map_user_socket[id]])
                 /\ task' = Idle
            ELSE /\ task' = [task EXCEPT !.step = "save_msg",
                                         !.friend_id = id]
                 /\ UNCHANGED log
    BY <1>13 DEF LookupFriend
  <2>2. /\ UNCHANGED <<t_save_msg, sent, kept, who>>
        /\ Saved' = Saved
    BY <1>13 DEF LookupFriend, Saved
  <2>3. /\ task.msg \in Msgs /\ task.msg # NoMsg
        /\ task.msg \notin Written \cup Saved
    BY <1>13, NoneAssumption
    DEF LookupFriend, At, TypeOK, DeliveryInv, HeldIsNew
  <2>4. CASE InHash(map_user_socket, id)
    <3> DEFINE e == [msg |-> task.msg, fd |-> map_user_socket[id]]
    <3>1. map_user_socket[id] \in Fds
      BY <2>4 DEF InHash, TypeOK, IsHash
    <3>2. /\ e \in [msg : Msgs, fd : Fds] /\ log' = Append(log, e)
          /\ log \in Seq([msg : Msgs, fd : Fds]) /\ task' = Idle
      BY <2>1, <2>3, <2>4, <3>1 DEF TypeOK
    <3>3. Written' = Written \cup {task.msg}
      BY <3>2, AppendedLog
    <3>4. WrittenAtMostOnce'
      BY <2>2, <2>3, <3>2, WriteOnce DEF DeliveryInv
    <3>5. MessagesKnown' /\ SavedNotWritten'
      BY <2>2, <2>3, <3>2, <3>3, HeldIsSent
      DEF DeliveryInv, MessagesKnown, SavedNotWritten, Idle
    <3> QED
      BY <2>2, <3>2, <3>4, <3>5
      DEF DeliveryInv, SavedOnce, HeldIsNew, FetchIsCurrent, Idle
  <2>5. CASE ~InHash(map_user_socket, id)
    <3>1. task'.step = "save_msg" /\ task'.msg = task.msg
      BY <2>1, <2>5 DEF TypeOK, Task
    <3>2. log' = log /\ Written' = Written
      BY <2>1, <2>5 DEF Written
    <3> QED
      BY <2>2, <2>3, <3>1, <3>2
      DEF DeliveryInv, WrittenAtMostOnce, MessagesKnown, SavedOnce,
          SavedNotWritten, HeldIsNew, FetchIsCurrent
  <2> QED
    BY <2>4, <2>5
<1>14. CASE SaveMsg
  <2>1. /\ task.msg \in Msgs /\ task.msg # NoMsg /\ task' = Idle
        /\ task.msg \notin Written \cup Saved
        /\ UNCHANGED <<log, sent, kept>> /\ Written' = Written
    BY <1>14, NoneAssumption
    DEF SaveMsg, At, TypeOK, DeliveryInv, HeldIsNew, Written
  <2>2. CASE ConnOk
    <3> DEFINE r == [msg_id |-> msg_seq + 1, user_id |-> task.user_id,
                     msg |-> task.msg, friend_id |-> task.friend_id]
    <3>1. t_save_msg' = t_save_msg \cup {r} /\ r.msg = task.msg
      BY <1>14, <2>2 DEF SaveMsg
    <3> HIDE DEF r
    <3>2. Saved' = Saved \cup {task.msg}
      BY <3>1 DEF Saved
    <3>3. SavedOnce'
      BY <2>1, <3>1 DEF DeliveryInv, SavedOnce, Saved
    <3> QED
      BY <2>1, <3>2, <3>3, HeldIsSent
      DEF DeliveryInv, WrittenAtMostOnce, MessagesKnown, SavedNotWritten,
          HeldIsNew, FetchIsCurrent, Idle
  <2>3. CASE ~ConnOk
    BY <1>14, <2>1, <2>3, HandlerStarts DEF SaveMsg, Idle
  <2> QED
    BY <2>2, <2>3
<1>15. CASE RpcReturns
  BY <1>15, HandlerStarts DEF RpcReturns, Idle
<1>16. CASE LoseMysql
  BY <1>16, HandlerWaits DEF LoseMysql
<1>17. CASE Crash
  BY <1>17, HandlerStarts DEF Crash, Idle
<1>18. CASE Restart
  BY <1>18, HandlerWaits DEF Restart
<1> QED
  BY <1>1, <1>2, <1>3, <1>4, <1>5, <1>6, <1>7, <1>8, <1>9, <1>10, <1>11,
     <1>12, <1>13, <1>14, <1>15, <1>16, <1>17, <1>18 DEF Next, Handler

THEOREM DeliveryInvariant == Spec => []DeliveryInv
<1>1. Init => DeliveryInv
  BY DeliveryInit
<1>2. TypeOK /\ DeliveryInv /\ [Next]_vars => DeliveryInv'
  BY DeliveryNext
<1> QED
  BY <1>1, <1>2, TypeCorrect, PTL DEF Spec

(* No message is written twice, unless a DELETE of its saved row failed.   *)
THEOREM AtMostOnce == Spec => []WrittenAtMostOnce
<1>1. DeliveryInv => WrittenAtMostOnce
  BY DEF DeliveryInv
<1> QED
  BY <1>1, DeliveryInvariant, PTL

(* Rows of t_save_msg go only at a login, and only those its SELECT read.  *)
THEOREM OnlyFetchedDeleted == Spec => OnlyFetchedRowsDeleted
<1> DEFINE A == \A r \in t_save_msg \ t_save_msg' :
                  r \in task.rows /\ r.friend_id \in who[task.fd]
<1>1. DeliveryInv /\ [Next]_vars => [A]_vars
  <2> SUFFICES ASSUME DeliveryInv, Next, NEW r \in t_save_msg \ t_save_msg'
               PROVE  r \in task.rows /\ r.friend_id \in who[task.fd]
    OBVIOUS
  <2>1. DeleteOffline
    BY DEF Next, Handler, AcceptClient, PeerCloses, HandleEof, CallRpc, Regist,
           Login, Communicate, RegistSelectId, GetOfflineSelect, SendOffline,
           LookupFriend, SaveMsg, RpcReturns, LoseMysql, Crash, Restart,
           tables, history
  <2>2. /\ task.rows = SavedFor(t_save_msg, task.user_id)
        /\ task.user_id \in who[task.fd]
    BY <2>1 DEF DeleteOffline, At, DeliveryInv, FetchIsCurrent
  <2>3. r \in SavedFor(t_save_msg, task.user_id)
    BY <2>1 DEF DeleteOffline
  <2> QED
    BY <2>2, <2>3 DEF SavedFor
<1> QED
  BY <1>1, DeliveryInvariant, PTL DEF Spec, OnlyFetchedRowsDeleted

-----------------------------------------------------------------------------
(* The addressee of a message.                                             *)

AddressedInv == Addressed /\ DownIsIdle

(* A registration appends a row, so ids keep their names.                  *)
LEMMA NamesGrow ==
  ASSUME t_wechat_users \in Seq(UserRow), NEW row \in UserRow,
         t_wechat_users' = Append(t_wechat_users, row), NEW name
  PROVE  IdsNamed(t_wechat_users, name) \subseteq IdsNamed(t_wechat_users, name)'
<1>1. \A i \in DOMAIN t_wechat_users :
        i \in DOMAIN t_wechat_users' /\ t_wechat_users'[i] = t_wechat_users[i]
  OBVIOUS
<1> QED
  BY <1>1 DEF IdsNamed

(* A step that sends and saves nothing, into a handler without a message.  *)
LEMMA AddresseesKept ==
  ASSUME Addressed, MessagesKnown, UNCHANGED sent, t_save_msg' \subseteq t_save_msg,
         \A name : IdsNamed(t_wechat_users, name)
                     \subseteq IdsNamed(t_wechat_users', name),
         \/ task'.step \notin {"lookup_friend", "save_msg", "send_offline"}
         \/ UNCHANGED task /\ (ConnOk' /\ task.step = "save_msg" => ConnOk)
  PROVE  Addressed'
<1>1. \A id : \A x \in DOMAIN sent : IsAddressee(id, x) => IsAddressee(id, x)'
  BY DEF IsAddressee
<1>2. \A x \in DOMAIN sent' :
        sent'[x].known => IdsNamed(t_wechat_users', sent'[x].to) # {}
  BY DEF Addressed
<1>3. \A r \in t_save_msg' : IsAddressee(r.friend_id, r.msg)'
  BY <1>1 DEF Addressed, MessagesKnown, Saved
<1> QED
  BY <1>1, <1>2, <1>3 DEF Addressed, IsAddressee

LEMMA AddressedInit == Init => AddressedInv
  BY DEF Init, Idle, AddressedInv, Addressed, DownIsIdle

LEMMA AddressedNext ==
  TypeOK /\ DeliveryInv /\ AddressedInv /\ [Next]_vars => AddressedInv'
<1> SUFFICES ASSUME TypeOK, DeliveryInv, AddressedInv, [Next]_vars
             PROVE  AddressedInv'
  OBVIOUS
<1> USE DEF process, maps, tables, history
<1>a. Idle.step = "epoll_wait"
  BY IdleType
<1>b. Addressed /\ MessagesKnown /\ DownIsIdle
  BY DEF AddressedInv, DeliveryInv
<1>c. ASSUME UNCHANGED <<t_wechat_users, sent>>, t_save_msg' \subseteq t_save_msg,
             \/ task'.step \notin {"lookup_friend", "save_msg", "send_offline"}
             \/ UNCHANGED task /\ (ConnOk' /\ task.step = "save_msg" => ConnOk)
      PROVE  Addressed'
  BY <1>b, <1>c, AddresseesKept
<1>d. ASSUME up /\ UNCHANGED up
      PROVE  DownIsIdle'
  BY <1>d DEF DownIsIdle
<1>1. CASE UNCHANGED vars
  BY <1>1, <1>b, <1>c DEF vars, AddressedInv, DownIsIdle, ConnOk
<1>2. ASSUME NEW s \in Fds, AcceptClient(s)
      PROVE  AddressedInv'
  BY <1>2, <1>a, <1>c, <1>d DEF AcceptClient, Waiting, AddressedInv
<1>3. ASSUME NEW s \in Fds, PeerCloses(s)
      PROVE  AddressedInv'
  BY <1>3, <1>b, <1>c DEF PeerCloses, AddressedInv, DownIsIdle, ConnOk
<1>4. ASSUME NEW s \in Fds, HandleEof(s)
      PROVE  AddressedInv'
  BY <1>4, <1>a, <1>c, <1>d DEF HandleEof, Waiting, AddressedInv
<1>5. ASSUME NEW s \in Fds, CallRpc(s)
      PROVE  AddressedInv'
  <2>1. task'.step = "rpc"
    BY <1>5 DEF CallRpc, Idle
  <2> QED
    BY <1>5, <2>1, <1>c, <1>d DEF CallRpc, Receives, Waiting, AddressedInv
<1>6. ASSUME NEW s \in Fds, NEW name \in Names, NEW passwd \in Passwds,
             Regist(s, name, passwd)
      PROVE  AddressedInv'
  <2>1. task'.step = "regist_select" /\ UNCHANGED <<sent, t_save_msg, up>> /\ up
    BY <1>6 DEF Regist, Receives, Waiting, Idle
  <2>2. \A n : IdsNamed(t_wechat_users, n) \subseteq IdsNamed(t_wechat_users', n)
    BY <1>6, NamesGrow DEF Regist, UserRow, TypeOK
  <2> QED
    BY <1>b, <1>d, <2>1, <2>2, AddresseesKept DEF AddressedInv
<1>7. ASSUME NEW s \in Fds, NEW name \in Names, NEW passwd \in Passwds,
             Login(s, name, passwd)
      PROVE  AddressedInv'
  <2>1. task'.step \in {"epoll_wait", "get_offline"}
    BY <1>7, <1>a DEF Login, Welcome, Bind, Idle
  <2> QED
    BY <1>7, <2>1, <1>c, <1>d DEF Login, Receives, Waiting, AddressedInv
<1>8. ASSUME NEW s \in Fds, NEW name \in Names, NEW friend \in Names,
             NEW x \in Msgs, Communicate(s, name, friend, x)
      PROVE  AddressedInv'
  <2>1. /\ task'.step = "lookup_friend" /\ task'.msg = x /\ task'.name = friend
        /\ x \notin DOMAIN sent /\ DOMAIN sent' = DOMAIN sent \cup {x}
        /\ \A y \in DOMAIN sent : sent'[y] = sent[y]
        /\ sent'[x].to = friend
        /\ sent'[x].known => IdsNamed(t_wechat_users, friend) # {}
        /\ UNCHANGED <<t_wechat_users, t_save_msg>>
    BY <1>8 DEF Communicate, Idle
  <2>2. \A r \in t_save_msg : r.msg \in DOMAIN sent
    BY <1>b DEF MessagesKnown, Saved
  <2>3. Addressed'
    BY <1>b, <2>1, <2>2 DEF Addressed, IsAddressee
  <2> QED
    BY <1>8, <1>d, <2>3 DEF Communicate, Receives, Waiting, AddressedInv
<1>9. CASE RegistSelectId
  <2>1. task'.step \in {"epoll_wait", "get_offline"}
    BY <1>9, <1>a DEF RegistSelectId, Welcome, Bind, Idle
  <2> QED
    BY <1>9, <2>1, <1>c, <1>d DEF RegistSelectId, At, AddressedInv
<1>10. CASE GetOfflineSelect
  <2>1. task'.step \in {"epoll_wait", "delete_offline"}
    BY <1>10, <1>a DEF GetOfflineSelect, TypeOK, Task
  <2> QED
    BY <1>10, <2>1, <1>c, <1>d DEF GetOfflineSelect, At, AddressedInv
<1>11. CASE DeleteOffline
  <2>1. /\ task.rows = SavedFor(t_save_msg, task.user_id) /\ task.msg = NoMsg
        /\ UNCHANGED <<t_wechat_users, sent>> /\ t_save_msg' \subseteq t_save_msg
    BY <1>11 DEF DeleteOffline, At, DeliveryInv, FetchIsCurrent, HeldIsNew
  <2>2. /\ task'.step = "send_offline" /\ task'.user_id = task.user_id
        /\ \/ task'.msg = NoMsg
           \/ \E r \in task.rows : task'.msg = r.msg
    BY <1>11, <2>1 DEF DeleteOffline, NewestRow, TypeOK, Task
  <2>3. task'.msg # NoMsg => IsAddressee(task'.user_id, task'.msg)
    BY <1>b, <2>1, <2>2 DEF SavedFor, Addressed
  <2>4. Addressed'
    BY <1>b, <2>1, <2>2, <2>3 DEF Addressed, IsAddressee
  <2> QED
    BY <1>11, <1>d, <2>4 DEF DeleteOffline, At, AddressedInv
<1>12. CASE SendOffline
  BY <1>12, <1>a, <1>c, <1>d DEF SendOffline, At, AddressedInv
<1>13. CASE LookupFriend
  <2>1. PICK id \in GetIdByName(t_wechat_users, ConnOk, task.name) :
          \/ task' = Idle
          \/ task' = [task EXCEPT !.step = "save_msg", !.friend_id = id]
    BY <1>13 DEF LookupFriend
  <2>2. /\ UNCHANGED <<t_wechat_users, sent, t_save_msg, mysql_conn, up>> /\ up
        /\ task.msg \in Msgs /\ task.step = "lookup_friend"
    BY <1>13 DEF LookupFriend, At, TypeOK
  <2>3. CASE task' = Idle
    BY <2>2, <2>3, <1>a, <1>c, <1>d DEF AddressedInv
  <2>4. CASE task' = [task EXCEPT !.step = "save_msg", !.friend_id = id]
    <3>1. /\ task'.step = "save_msg" /\ task'.msg = task.msg
          /\ task'.friend_id = id
      BY <2>4 DEF TypeOK, Task
    <3>2. task.msg \in DOMAIN sent
      BY <2>2, NoneAssumption, HeldIsSent
    <3>3. ConnOk => IsAddressee(id, task.msg)
      BY <1>b, <2>1, <2>2, <3>2 DEF Addressed, IsAddressee, GetIdByName
    <3>4. Addressed'
      BY <1>b, <2>2, <3>1, <3>3 DEF Addressed, IsAddressee, ConnOk
    <3> QED
      BY <1>d, <2>2, <3>4 DEF AddressedInv
  <2> QED
    BY <2>1, <2>3, <2>4
<1>14. CASE SaveMsg
  <2>1. /\ UNCHANGED <<t_wechat_users, sent, mysql_conn, up>> /\ up
        /\ task.step = "save_msg" /\ task' = Idle
    BY <1>14 DEF SaveMsg, At
  <2>2. CASE ConnOk
    <3>1. IsAddressee(task.friend_id, task.msg)
      BY <1>b, <2>1, <2>2 DEF Addressed
    <3>2. \A r \in t_save_msg' :
            \/ r \in t_save_msg
            \/ r.friend_id = task.friend_id /\ r.msg = task.msg
      BY <1>14, <2>2 DEF SaveMsg
    <3>3. Addressed'
      BY <1>a, <1>b, <2>1, <3>1, <3>2 DEF Addressed, IsAddressee
    <3> QED
      BY <1>d, <2>1, <3>3 DEF AddressedInv
  <2>3. CASE ~ConnOk
    BY <1>14, <2>1, <2>3, <1>a, <1>c, <1>d DEF SaveMsg, AddressedInv
  <2> QED
    BY <2>2, <2>3
<1>15. CASE RpcReturns
  BY <1>15, <1>a, <1>c, <1>d DEF RpcReturns, At, AddressedInv
<1>16. CASE LoseMysql
  BY <1>16, <1>c, <1>d DEF LoseMysql, AddressedInv, ConnOk
<1>17. CASE Crash
  BY <1>17, <1>a, <1>c DEF Crash, AddressedInv, DownIsIdle
<1>18. CASE Restart
  <2>1. task = Idle /\ up'
    BY <1>18, <1>b DEF Restart, DownIsIdle
  <2> QED
    BY <1>18, <2>1, <1>a, <1>c DEF Restart, AddressedInv, DownIsIdle
<1> QED
  BY <1>1, <1>2, <1>3, <1>4, <1>5, <1>6, <1>7, <1>8, <1>9, <1>10, <1>11,
     <1>12, <1>13, <1>14, <1>15, <1>16, <1>17, <1>18 DEF Next, Handler

(* A message to a name that had an account is only written on a socket on  *)
(* which a user of that name logged in.                                    *)
THEOREM ToAddressee == Spec => WrittenToAddressee
<1> DEFINE A == log' # log =>
                  LET e == log'[Len(log')] IN
                    sent[e.msg].known =>
                      \E u \in who[e.fd] : t_wechat_users[u].name = sent[e.msg].to
<1>1. TypeOK /\ SessionInv /\ DeliveryInv /\ AddressedInv /\ [Next]_vars => [A]_vars
  <2> SUFFICES ASSUME TypeOK, SessionInv, DeliveryInv, AddressedInv,
                      Next, log' # log,
                      sent[log'[Len(log')].msg].known
               PROVE  \E u \in who[log'[Len(log')].fd] :
                        t_wechat_users[u].name = sent[log'[Len(log')].msg].to
    OBVIOUS
  <2>1. SendOffline \/ LookupFriend
    BY DEF Next, Handler, AcceptClient, PeerCloses, HandleEof, CallRpc, Regist,
           Login, Communicate, RegistSelectId, GetOfflineSelect, DeleteOffline,
           SaveMsg, RpcReturns, LoseMysql, Crash, Restart, history
  <2>2. CASE SendOffline
    <3>1. /\ task.step = "send_offline" /\ task.msg # NoMsg
          /\ task.msg \in Msgs /\ task.fd \in Fds
          /\ log' = Append(log, [msg |-> task.msg, fd |-> task.fd])
      BY <2>2 DEF SendOffline, At, TypeOK, Task
    <3>2. log'[Len(log')] = [msg |-> task.msg, fd |-> task.fd]
      BY <3>1, AppendedLog DEF TypeOK
    <3>3. task.user_id \in IdsNamed(t_wechat_users, sent[task.msg].to)
      BY <3>1, <3>2 DEF AddressedInv, Addressed, IsAddressee
    <3>4. task.user_id \in who[task.fd]
      BY <3>1 DEF DeliveryInv, FetchIsCurrent
    <3> QED
      BY <3>2, <3>3, <3>4 DEF IdsNamed
  <2>3. CASE LookupFriend
    <3>1. PICK id \in GetIdByName(t_wechat_users, ConnOk, task.name) :
            /\ InHash(map_user_socket, id)
            /\ log' = Append(log, [msg |-> task.msg,
                                   fd  |-> map_user_socket[id]])
      BY <2>3 DEF LookupFriend
    <3>2. /\ task.step = "lookup_friend" /\ task.msg \in Msgs
          /\ map_user_socket[id] \in Fds
          /\ id \in DOMAIN t_wechat_users
      BY <2>3, <3>1 DEF LookupFriend, At, TypeOK, IsHash, InHash
    <3>3. log'[Len(log')] = [msg |-> task.msg, fd |-> map_user_socket[id]]
      BY <3>1, <3>2, AppendedLog DEF TypeOK
    <3>4. task.msg \in DOMAIN sent
      BY <3>2, NoneAssumption, HeldIsSent
    <3>5. IdsNamed(t_wechat_users, task.name) # {} /\ task.name = sent[task.msg].to
      BY <3>2, <3>3, <3>4 DEF AddressedInv, Addressed
    <3>6. id # -1
      BY <3>2 DEF TypeOK
    <3>7. id \in IdsNamed(t_wechat_users, sent[task.msg].to)
      BY <3>1, <3>5, <3>6 DEF GetIdByName
    <3>8. id \in who[map_user_socket[id]]
      BY <3>1 DEF SessionInv, RoutedToOwnSocket, InHash
    <3> QED
      BY <3>3, <3>7, <3>8 DEF IdsNamed
  <2> QED
    BY <2>1, <2>2, <2>3
<1>2. Init => AddressedInv
  BY AddressedInit
<1>3. TypeOK /\ DeliveryInv /\ AddressedInv /\ [Next]_vars => AddressedInv'
  BY AddressedNext
<1>4. Spec => []AddressedInv
  BY <1>2, <1>3, TypeCorrect, DeliveryInvariant, PTL DEF Spec
<1> QED
  BY <1>1, <1>4, TypeCorrect, SessionInvariant, DeliveryInvariant, PTL
  DEF Spec, WrittenToAddressee
-----------------------------------------------------------------------------
(* The chat server implements MessageLife: every step of the server is a   *)
(* step in the life of one message, or of the messages one login fetches,  *)
(* or no step of any.                                                      *)

(* The stage of message x, the function that ChatServer substitutes for    *)
(* life.                                                                   *)
Stage(x) ==
  IF x \notin DOMAIN sent THEN "new"
  ELSE IF x \in Saved THEN "saved"
  ELSE IF task.msg = x THEN "held"
  ELSE IF x \in Written THEN "written"
  ELSE "lost"

(* The step leaves the stage of every message outside S.                   *)
StaysOutside(S) == \A y \in Msgs \ S : Stage(y)' = Stage(y)

LifeStep == [Life!LifeNext]_(Life!life_vars)

-----------------------------------------------------------------------------
(* What a step has to do for it to be a step of MessageLife.               *)

LEMMA LifeStutters ==
  ASSUME StaysOutside({}), Written' = Written
  PROVE  LifeStep
<1>1. UNCHANGED Life!life_vars
  BY ZenonT(40) DEF Life!life_vars, StaysOutside, Stage, Saved, Written
<1> QED
  BY <1>1 DEF LifeStep

LEMMA LifeAccepts ==
  ASSUME NEW x \in Msgs, Stage(x) = "new", Stage(x)' = "held",
         StaysOutside({x}), Written' = Written
  PROVE  LifeStep
<1>1. Life!Accept(x)
  BY ZenonT(40) DEF Life!Accept, Life!In, StaysOutside, Stage, Saved, Written
<1> QED
  BY <1>1 DEF LifeStep, Life!LifeNext

LEMMA LifeWrites ==
  ASSUME NEW x \in Msgs, Stage(x) = "held", Stage(x)' = "written",
         StaysOutside({x}), Written' = Written \cup {x}
  PROVE  LifeStep
<1>1. Life!Write(x)
  BY ZenonT(40) DEF Life!Write, Life!In, StaysOutside, Stage, Saved, Written
<1> QED
  BY <1>1 DEF LifeStep, Life!LifeNext

LEMMA LifeWritesSaved ==
  ASSUME NEW x \in Msgs, Stage(x) = "saved", StaysOutside({}),
         Written' = Written \cup {x}
  PROVE  LifeStep
<1>1. Life!WriteSaved(x)
  BY ZenonT(40) DEF Life!WriteSaved, Life!In, StaysOutside, Stage, Saved, Written
<1> QED
  BY <1>1 DEF LifeStep, Life!LifeNext

LEMMA LifeSaves ==
  ASSUME NEW x \in Msgs, Stage(x) = "held", Stage(x)' = "saved",
         StaysOutside({x}), Written' = Written
  PROVE  LifeStep
<1>1. Life!Save(x)
  BY ZenonT(40) DEF Life!Save, Life!In, StaysOutside, Stage, Saved, Written
<1> QED
  BY <1>1 DEF LifeStep, Life!LifeNext

LEMMA LifeDrops ==
  ASSUME NEW x \in Msgs, Stage(x) = "held",
         Stage(x)' = IF x \in Written THEN "written" ELSE "lost",
         StaysOutside({x}), Written' = Written
  PROVE  LifeStep
<1>1. Life!Gone(x) = Stage(x)'
  BY DEF Life!Gone, Written
<1>2. Life!Drop(x)
  BY <1>1, ZenonT(40) DEF Life!Drop, Life!In, StaysOutside, Stage, Saved, Written
<1> QED
  BY <1>2 DEF LifeStep, Life!LifeNext

LEMMA LifeFetches ==
  ASSUME NEW S \in SUBSET Msgs, NEW x \in S,
         \A y \in S : Stage(y) = "saved",
         Stage(x)' = "held",
         \A y \in S \ {x} :
           Stage(y)' = IF y \in Written THEN "written" ELSE "lost",
         StaysOutside(S), Written' = Written
  PROVE  LifeStep
<1>1. Life!Fetch(S, x)
  BY DEF Life!Fetch, Life!In, Life!Gone, StaysOutside, Stage, Saved, Written
<1> QED
  BY <1>1 DEF LifeStep, Life!LifeNext

-----------------------------------------------------------------------------
(* What the handlers do to the stages.                                     *)

(* A step that moves no message, between handlers that hold the same one.  *)
LEMMA MovesNothing ==
  ASSUME UNCHANGED <<sent, log>>, Saved' = Saved, task'.msg = task.msg
  PROVE  LifeStep
<1>1. Written' = Written
  BY DEF Written
<1>2. StaysOutside({})
  BY <1>1 DEF StaysOutside, Stage
<1> QED
  BY <1>1, <1>2, LifeStutters

(* Handlers that end and start here hold nothing.                          *)
LEMMA HoldsNothing ==
  ASSUME DeliveryInv,
         task.step \notin {"lookup_friend", "save_msg", "send_offline"},
         UNCHANGED <<sent, log, t_save_msg>>, task'.msg = NoMsg
  PROVE  LifeStep
<1>1. task'.msg = task.msg
  BY DEF DeliveryInv, HeldIsNew
<1> QED
  BY <1>1, MovesNothing DEF Saved

(* A handler that writes the message it holds, and ends.                   *)
LEMMA WritesHeld ==
  ASSUME TypeOK, DeliveryInv, task.msg \in Msgs, NEW s \in Fds,
         log' = Append(log, [msg |-> task.msg, fd |-> s]),
         UNCHANGED <<sent, t_save_msg>>, task'.msg = NoMsg
  PROVE  LifeStep
<1>1. Written' = Written \cup {task.msg} /\ Saved' = Saved
  BY AppendedLog DEF TypeOK, Saved
<1>2. task.msg \in DOMAIN sent
  BY HeldIsSent, NoneAssumption
<1>3. StaysOutside({task.msg})
  BY <1>1, NoneAssumption DEF StaysOutside, Stage
<1>4. CASE task.msg \in Saved
  <2>1. Stage(task.msg) = "saved" /\ StaysOutside({})
    BY <1>1, <1>2, <1>3, <1>4 DEF StaysOutside, Stage
  <2> QED
    BY <1>1, <2>1, LifeWritesSaved
<1>5. CASE task.msg \notin Saved
  <2> SUFFICES ASSUME NEW y \in Msgs, y = task.msg
               PROVE  LifeStep
    OBVIOUS
  <2>1. Stage(y) = "held" /\ Stage(y)' = "written"
    BY <1>1, <1>2, <1>5, NoneAssumption DEF Stage
  <2> QED
    BY <1>1, <1>3, <2>1, LifeWrites
<1> QED
  BY <1>4, <1>5

(* A handler that gives up on its message: it is lost, unless it was       *)
(* written before or its row is still there.                               *)
LEMMA DropsHeld ==
  ASSUME TypeOK, DeliveryInv, UNCHANGED <<sent, log, t_save_msg>>,
         task'.msg = NoMsg
  PROVE  LifeStep
<1>1. Written' = Written /\ Saved' = Saved
  BY DEF Written, Saved
<1>2. CASE task.msg = NoMsg
  BY <1>1, <1>2, MovesNothing
<1>3. CASE task.msg # NoMsg
  <2> SUFFICES ASSUME NEW x \in Msgs, x = task.msg
               PROVE  LifeStep
    BY <1>3 DEF TypeOK, Task
  <2>1. x \in DOMAIN sent
    BY <1>3, HeldIsSent
  <2>2. StaysOutside({x})
    BY <1>1, NoneAssumption DEF StaysOutside, Stage
  <2>3. CASE x \in Saved
    <3>1. StaysOutside({})
      BY <1>1, <2>2, <2>3 DEF StaysOutside, Stage
    <3> QED
      BY <1>1, <3>1, LifeStutters
  <2>4. CASE x \notin Saved
    <3>1. Stage(x) = "held"
      BY <2>1, <2>4 DEF Stage
    <3>2. Stage(x)' = IF x \in Written THEN "written" ELSE "lost"
      BY <1>1, <2>1, <2>4, NoneAssumption DEF Stage
    <3> QED
      BY <1>1, <2>2, <3>1, <3>2, LifeDrops
  <2> QED
    BY <2>3, <2>4
<1> QED
  BY <1>2, <1>3

(* The end of a regist or login leaves no message with the handler.        *)
LEMMA WelcomeHolds ==
  ASSUME NEW s, NEW id, Welcome(s, id)
  PROVE  task'.msg = NoMsg
<1>1. CASE Bind(s, id)
  BY <1>1 DEF Bind, Idle
<1>2. CASE task' = Idle
  BY <1>2 DEF Idle
<1> QED
  BY <1>1, <1>2 DEF Welcome

LEMMA DeleteLife ==
  ASSUME TypeOK, DeliveryInv, DeleteOffline
  PROVE  LifeStep
<1>1. /\ task.rows = SavedFor(t_save_msg, task.user_id) /\ task.msg = NoMsg
      /\ UNCHANGED <<sent, log>>
  BY DEF DeleteOffline, At, DeliveryInv, FetchIsCurrent, HeldIsNew, history
<1>2. CASE task.rows = {}
  <2>1. task'.msg = NoMsg
    BY <1>1, <1>2 DEF DeleteOffline, NewestRow, TypeOK, Task
  <2>2. t_save_msg' = t_save_msg
    BY <1>1, <1>2 DEF DeleteOffline
  <2> QED
    BY <1>1, <2>1, <2>2, MovesNothing DEF Saved
<1>3. ASSUME NEW r \in NewestRow(task.rows), task'.msg = r.msg
      PROVE  LifeStep
  <2> DEFINE S == {q.msg : q \in task.rows}
  <2>1. r \in task.rows /\ task.rows \subseteq t_save_msg
    BY <1>1 DEF NewestRow, SavedFor
  <2>2. S \subseteq Saved /\ r.msg \in S
    BY <2>1 DEF Saved
  <2>3. Saved \subseteq DOMAIN sent /\ DOMAIN sent \subseteq Msgs
    BY DEF TypeOK, DeliveryInv, MessagesKnown
  <2>4. Written' = Written
    BY <1>1 DEF Written
  <2>5. CASE ConnOk
    <3>1. t_save_msg' = t_save_msg \ task.rows
      BY <1>1, <2>5 DEF DeleteOffline
    <3>2. Saved' = Saved \ S
      BY <2>1, <3>1 DEF Saved, DeliveryInv, SavedOnce
    <3> HIDE DEF S
    <3> SUFFICES ASSUME NEW x \in S, x = r.msg
                 PROVE  LifeStep
      BY <2>2
    <3>3. S \in SUBSET Msgs /\ \A y \in S : Stage(y) = "saved"
      BY <2>2, <2>3 DEF Stage
    <3>4. Stage(x)' = "held"
      BY <1>1, <1>3, <2>2, <2>3, <3>2 DEF Stage
    <3>5. \A y \in S \ {x} :
            Stage(y)' = IF y \in Written THEN "written" ELSE "lost"
      BY <1>1, <1>3, <2>2, <2>3, <2>4, <3>2 DEF Stage
    <3>6. StaysOutside(S)
      BY <1>1, <1>3, <2>4, <3>2, NoneAssumption DEF StaysOutside, Stage
    <3> QED
      BY <2>4, <3>3, <3>4, <3>5, <3>6, LifeFetches
  <2>6. CASE ~ConnOk
    <3>1. Saved' = Saved
      BY <2>6 DEF DeleteOffline, Saved
    <3>2. StaysOutside({})
      BY <1>1, <1>3, <2>2, <2>4, <3>1, NoneAssumption DEF StaysOutside, Stage
    <3> QED
      BY <2>4, <3>2, LifeStutters
  <2> QED
    BY <2>5, <2>6
<1>4. \/ task'.msg = NoMsg /\ task.rows = {}
      \/ \E r \in NewestRow(task.rows) : task'.msg = r.msg
  BY <1>1 DEF DeleteOffline, TypeOK, Task
<1> QED
  BY <1>2, <1>3, <1>4

LEMMA LookupLife ==
  ASSUME TypeOK, DeliveryInv, LookupFriend
  PROVE  LifeStep
<1>1. PICK id \in GetIdByName(t_wechat_users, ConnOk, task.name) :
        IF InHash(map_user_socket, id)
          THEN /\ log' = Append(log, [msg |-> task.msg,
                                      fd  |-> map_user_socket[id]])
               /\ task' = Idle
          ELSE /\ task' = [task EXCEPT !.step = "save_msg",
                                       !.friend_id = id]
               /\ UNCHANGED log
  BY DEF LookupFriend
<1>2. task.msg \in Msgs /\ UNCHANGED <<sent, t_save_msg>>
  BY DEF LookupFriend, At, TypeOK, tables
<1>3. CASE InHash(map_user_socket, id)
  <2>1. map_user_socket[id] \in Fds
    BY <1>3 DEF InHash, TypeOK, IsHash
  <2>2. task'.msg = NoMsg
    BY <1>1, <1>3 DEF Idle
  <2> QED
    BY <1>1, <1>2, <1>3, <2>1, <2>2, WritesHeld
<1>4. CASE ~InHash(map_user_socket, id)
  <2>1. task'.msg = task.msg
    BY <1>1, <1>4 DEF TypeOK, Task
  <2> QED
    BY <1>1, <1>2, <1>4, <2>1, MovesNothing DEF Saved
<1> QED
  BY <1>3, <1>4

LEMMA SaveLife ==
  ASSUME TypeOK, DeliveryInv, SaveMsg
  PROVE  LifeStep
<1>1. /\ task.msg \in Msgs /\ task.msg \in DOMAIN sent
      /\ task.msg \notin Written \cup Saved
      /\ UNCHANGED <<sent, log>> /\ task'.msg = NoMsg
  BY HeldIsSent, NoneAssumption
  DEF SaveMsg, At, TypeOK, DeliveryInv, HeldIsNew, history, Idle
<1>2. CASE ConnOk
  <2> SUFFICES ASSUME NEW x \in Msgs, x = task.msg
               PROVE  LifeStep
    BY <1>1
  <2>1. Saved' = Saved \cup {x}
    <3> DEFINE r == [msg_id |-> msg_seq + 1, user_id |-> task.user_id,
                     msg |-> task.msg, friend_id |-> task.friend_id]
    <3>1. t_save_msg' = t_save_msg \cup {r} /\ r.msg = x
      BY <1>2 DEF SaveMsg
    <3> HIDE DEF r
    <3> QED
      BY <3>1 DEF Saved
  <2>2. Written' = Written
    BY <1>1 DEF Written
  <2>3. Stage(x) = "held" /\ Stage(x)' = "saved"
    BY <1>1, <2>1 DEF Stage
  <2>4. StaysOutside({x})
    BY <1>1, <2>1, <2>2, NoneAssumption DEF StaysOutside, Stage
  <2> QED
    BY <2>2, <2>3, <2>4, LifeSaves
<1>3. CASE ~ConnOk
  BY <1>1, <1>3, DropsHeld DEF SaveMsg
<1> QED
  BY <1>2, <1>3

LEMMA CommunicateLife ==
  ASSUME TypeOK, DeliveryInv, NEW s \in Fds, NEW name, NEW friend,
         NEW x \in Msgs, Communicate(s, name, friend, x)
  PROVE  LifeStep
<1>1. /\ x \notin DOMAIN sent /\ DOMAIN sent' = DOMAIN sent \cup {x}
      /\ task.msg = NoMsg /\ task'.msg = x
      /\ UNCHANGED <<t_save_msg, log>>
  BY DEF Communicate, Receives, Waiting, Idle, tables
<1>2. Written' = Written /\ Saved' = Saved
  BY <1>1 DEF Written, Saved
<1>3. x \notin Saved
  BY <1>1 DEF DeliveryInv, MessagesKnown
<1>4. Stage(x) = "new" /\ Stage(x)' = "held"
  BY <1>1, <1>2, <1>3 DEF Stage
<1>5. StaysOutside({x})
  BY <1>1, <1>2, NoneAssumption DEF StaysOutside, Stage
<1> QED
  BY <1>2, <1>4, <1>5, LifeAccepts

-----------------------------------------------------------------------------
LEMMA LifeInit == Init => Life!LifeInit
BY DEF Init, Life!LifeInit

LEMMA LifeNext == TypeOK /\ DeliveryInv /\ [Next]_vars => LifeStep
<1> SUFFICES ASSUME TypeOK, DeliveryInv, [Next]_vars
             PROVE  LifeStep
  OBVIOUS
<1> USE DEF process, maps, tables, history
<1>1. CASE UNCHANGED vars
  BY <1>1, MovesNothing DEF vars, Saved
<1>2. ASSUME NEW s \in Fds, AcceptClient(s) \/ PeerCloses(s) \/ HandleEof(s)
      PROVE  LifeStep
  BY <1>2, MovesNothing DEF AcceptClient, PeerCloses, HandleEof, Saved
<1>3. ASSUME NEW s \in Fds, CallRpc(s)
      PROVE  LifeStep
  BY <1>3, HoldsNothing DEF CallRpc, Receives, Waiting, Idle
<1>4. ASSUME NEW s \in Fds, NEW name \in Names, NEW passwd \in Passwds,
             Regist(s, name, passwd)
      PROVE  LifeStep
  BY <1>4, HoldsNothing DEF Regist, Receives, Waiting, Idle
<1>5. ASSUME NEW s \in Fds, NEW name \in Names, NEW passwd \in Passwds,
             Login(s, name, passwd)
      PROVE  LifeStep
  <2>1. task.step = "epoll_wait"
    BY <1>5 DEF Login, Receives, Waiting, Idle
  <2> QED
    BY <1>5, <2>1, WelcomeHolds, HoldsNothing DEF Login
<1>6. ASSUME NEW s \in Fds, NEW name \in Names, NEW friend \in Names,
             NEW x \in Msgs, Communicate(s, name, friend, x)
      PROVE  LifeStep
  BY <1>6, CommunicateLife
<1>7. CASE RegistSelectId
  BY <1>7, WelcomeHolds, HoldsNothing DEF RegistSelectId, At
<1>8. CASE GetOfflineSelect
  <2>1. task.msg = NoMsg /\ task'.msg = NoMsg
    BY <1>8 DEF GetOfflineSelect, At, DeliveryInv, HeldIsNew, Idle, TypeOK, Task
  <2> QED
    BY <1>8, <2>1, MovesNothing DEF GetOfflineSelect, Saved
<1>9. CASE DeleteOffline
  BY <1>9, DeleteLife
<1>10. CASE SendOffline
  <2>1. task'.msg = NoMsg /\ UNCHANGED <<sent, t_save_msg>>
    BY <1>10 DEF SendOffline, Idle
  <2>2. CASE task.msg = NoMsg
    BY <1>10, <2>1, <2>2, MovesNothing DEF SendOffline, Saved
  <2>3. CASE task.msg # NoMsg
    <3>1. task.fd \in Fds /\ task.msg \in Msgs
      BY <1>10, <2>3 DEF SendOffline, At, TypeOK, Task
    <3>2. log' = Append(log, [msg |-> task.msg, fd |-> task.fd])
      BY <1>10, <2>3 DEF SendOffline
    <3> QED
      BY <2>1, <3>1, <3>2, WritesHeld
  <2> QED
    BY <2>2, <2>3
<1>11. CASE LookupFriend
  BY <1>11, LookupLife
<1>12. CASE SaveMsg
  BY <1>12, SaveLife
<1>13. CASE RpcReturns
  BY <1>13, HoldsNothing DEF RpcReturns, At, Idle
<1>14. CASE LoseMysql \/ Restart
  BY <1>14, MovesNothing DEF LoseMysql, Restart, Saved
<1>15. CASE Crash
  BY <1>15, DropsHeld DEF Crash, Idle
<1> QED
  BY <1>1, <1>2, <1>3, <1>4, <1>5, <1>6, <1>7, <1>8, <1>9, <1>10, <1>11,
     <1>12, <1>13, <1>14, <1>15 DEF Next, Handler

(* The chat server implements the life of a message: each of its steps     *)
(* accepts, writes, saves, fetches or drops one, as MessageLife allows it, *)
(* or leaves every message at its stage.                                   *)
THEOREM ImplementsLife == Spec => ImplementsMessageLife
<1>1. Init => Life!LifeInit
  BY LifeInit
<1>2. TypeOK /\ DeliveryInv /\ [Next]_vars => [Life!LifeNext]_(Life!life_vars)
  BY LifeNext DEF LifeStep
<1> QED
  BY <1>1, <1>2, TypeCorrect, DeliveryInvariant, PTL
  DEF Spec, ImplementsMessageLife, Life!LifeSpec
=============================================================================
