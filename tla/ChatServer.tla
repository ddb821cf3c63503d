----------------------------- MODULE ChatServer -----------------------------
(***************************************************************************)
(* The chat server process, `wechat3 server1` (server.cpp, tool/hash.h and *)
(* the queries of base/mysql.cpp that it makes).                           *)
(*                                                                         *)
(* One thread runs the epoll loop: it takes one ready socket after another *)
(* and runs accept_client or handle_client to the end before the next.  A  *)
(* handler is split here at each SQL call and at the gRPC call, because    *)
(* between two of them a peer may close its socket, the MySQL connection   *)
(* may go, or the process may die.  `task' is the handler that is running: *)
(* its program point and its locals.                                       *)
(*                                                                         *)
(* A request is chosen when handle_client reads it; one recv yields one    *)
(* request.  epoll is level-triggered for client sockets and no fd is ever *)
(* closed by the program, so a ready fd stays ready until it is handled    *)
(* and the events array can be stale in no way that matters.  send to a    *)
(* peer that has gone returns an error that the code ignores (the MySQL    *)
(* client library sets SIGPIPE to be ignored), so the bytes are lost.      *)
(***************************************************************************)
EXTENDS IntHash, WechatDb

CONSTANTS
  Fds,         (* descriptors the process can hand out to accepted sockets *)
  Names,       (* user names                                               *)
  Passwds,     (* passwords                                                *)
  Msgs,        (* message contents, each sent at most once                 *)
  InitUsers,   (* t_wechat_users when the server is first started          *)
  SentAtColumn,(* does the deployed t_save_msg have the column sent_at?    *)
  Relogin,     (* may a connection that has logged in log in again?        *)
  MaxUsers,    (* bound: rows of t_wechat_users                            *)
  MaxCrashes,  (* bound: crashes of the process                            *)
  NoFd, NoName, NoMsg

UserRow == [name : Names, passwd : Passwds]

ASSUME NoneAssumption ==
  NoFd \notin Fds /\ NoName \notin Names /\ NoMsg \notin Msgs
ASSUME BoundAssumption ==
  /\ MaxUsers \in Nat /\ MaxCrashes \in Nat
  /\ InitUsers \in Seq(UserRow) /\ Len(InitUsers) <= MaxUsers
ASSUME FlagAssumption == SentAtColumn \in BOOLEAN /\ Relogin \in BOOLEAN

VARIABLES
  up,               (* is the process running?                             *)
  mysql_conn,       (* its MySQL connection, "ok" or "lost"                *)
  sock,             (* sock[s]: the socket behind descriptor s             *)
  map_user_socket,  (* user_id -> fd                                       *)
  map_socket_user,  (* fd -> user_id                                       *)
  task,             (* the handler that is running                         *)
  t_wechat_users,
  t_save_msg,
  msg_seq,          (* AUTO_INCREMENT of t_save_msg                        *)
  crashes,
  (* history, read by properties only                                      *)
  who,              (* who[s]: users that logged in on this connection     *)
  overlap,          (* users that logged in while the table still bound    *)
                    (* another socket to them                              *)
  sent,             (* sent[x]: what was asked for message x               *)
  log,              (* the writes of messages on sockets, in order         *)
  kept              (* messages some DELETE failed to remove               *)

process == <<up, mysql_conn, crashes>>
maps    == <<map_user_socket, map_socket_user>>
tables  == <<t_wechat_users, t_save_msg, msg_seq>>
history == <<who, overlap, sent, log, kept>>
vars    == <<process, sock, maps, task, tables, history>>

(***************************************************************************)
(* "free": not handed out.  "open": accepted, the peer is there.  "hup":   *)
(* the peer closed, the end of file is not read yet.  "dead": the end of   *)
(* file was read; the descriptor is neither closed nor taken out of epoll. *)
(***************************************************************************)
SockStates == {"free", "open", "hup", "dead"}

Idle == [step |-> "epoll_wait", fd |-> NoFd, name |-> NoName, user_id |-> 0,
         friend_id |-> 0, msg |-> NoMsg, rows |-> {}]

ConnOk == mysql_conn = "ok"

Waiting == up /\ task = Idle
At(step) == up /\ task.step = step

SavedRow == [msg_id : Nat, user_id : Int, msg : Msgs, friend_id : Int]

Init ==
  /\ up = TRUE /\ mysql_conn = "ok" /\ crashes = 0
  /\ sock = [s \in Fds |-> "free"]
  /\ map_user_socket = EmptyHash /\ map_socket_user = EmptyHash
  /\ task = Idle
  /\ t_wechat_users = InitUsers /\ t_save_msg = {} /\ msg_seq = 0
  /\ who = [s \in Fds |-> {}] /\ overlap = {}
  /\ sent = [x \in {} |-> x] /\ log = <<>> /\ kept = {}
-----------------------------------------------------------------------------
(* Sockets.                                                                *)

(* accept_client: the new connection joins the epoll set.                  *)
AcceptClient(s) ==
  /\ Waiting
  /\ sock[s] = "free"
  /\ sock' = [sock EXCEPT ![s] = "open"]
  /\ who' = [who EXCEPT ![s] = {}]
  /\ UNCHANGED <<process, maps, task, tables, overlap, sent, log, kept>>

(* The peer closes its end, whatever the server is doing.                  *)
PeerCloses(s) ==
  /\ sock[s] = "open"
  /\ sock' = [sock EXCEPT ![s] = "hup"]
  /\ UNCHANGED <<process, maps, task, tables, history>>

(* Two faults of Unbind, below: one of the two deletions is forgotten.     *)
UnbindSocketOnly(s) ==
  IF InHash(map_socket_user, s)
    THEN /\ map_socket_user' = DeleteFromHash(map_socket_user, s)
         /\ UNCHANGED map_user_socket
    ELSE UNCHANGED maps

UnbindUserOnly(s) ==
  IF InHash(map_socket_user, s)
    THEN /\ map_user_socket' =
              DeleteFromHash(map_user_socket, map_socket_user[s])
         /\ UNCHANGED map_socket_user
    ELSE UNCHANGED maps

(* The user the second table has for the socket loses its route, to        *)
(* whichever socket the first table routes it; then the socket its user.   *)
Unbind(s) ==
  IF InHash(map_socket_user, s) /\ map_socket_user[s] > 0
    THEN /\ map_user_socket' =
              DeleteFromHash(map_user_socket, map_socket_user[s])
         /\ map_socket_user' = DeleteFromHash(map_socket_user, s)
    ELSE UNCHANGED maps

(* A fault of HandleEof: the fd is closed and only one table cleaned.      *)
HandleEofCloses(s) ==
  /\ Waiting
  /\ sock[s] = "hup"
  /\ sock' = [sock EXCEPT ![s] = "free"]
  /\ UnbindSocketOnly(s)
  /\ UNCHANGED <<process, task, tables, history>>

(* handle_client, recv <= 0.  The fd is not closed: epoll reports it again *)
(* at every call.                                                          *)
HandleEof(s) ==
  /\ Waiting
  /\ sock[s] \in {"hup", "dead"}
  /\ sock' = [sock EXCEPT ![s] = "dead"]
  /\ Unbind(s)
  /\ UNCHANGED <<process, task, tables, history>>

(* handle_client reads a request from s.  The peer may have closed since   *)
(* it sent it.                                                             *)
Receives(s) == Waiting /\ sock[s] \in {"open", "hup"}

(* The client program sends regist and login only until one succeeds.      *)
MayLogIn(s) == Relogin \/ who[s] = {}
-----------------------------------------------------------------------------
(* regist and login.                                                       *)

(* The end of handle_client for a user_id > 0: the success reply, the two  *)
(* add_to_hash calls, then the offline messages.                           *)
Bind(s, id) ==
  /\ map_user_socket' = AddToHash(map_user_socket, id, s)
  /\ map_socket_user' = AddToHash(map_socket_user, s, id)
  /\ task' = [Idle EXCEPT !.step = "get_offline", !.fd = s, !.user_id = id]
  /\ who' = [who EXCEPT ![s] = @ \cup {id}]
  /\ overlap' = IF \E q \in DOMAIN map_socket_user \ {s} :
                       map_socket_user[q] = id
                  THEN overlap \cup {id}
                  ELSE overlap

(* The end of handle_client for any user_id: 0 is a failure, and replied.  *)
Welcome(s, id) ==
  \/ id > 0 /\ Bind(s, id)
  \/ id = 0 /\ task' = Idle /\ UNCHANGED <<maps, who, overlap>>

(* case regist: the INSERT of regist_wechat_mysql.  Nothing makes it fail  *)
(* when the name is taken; it fails when the connection is lost or a value *)
(* is too long, and the failure reply ends the handler.                    *)
Regist(s, name, passwd) ==
  /\ Receives(s) /\ MayLogIn(s)
  /\ ConnOk
  /\ Len(t_wechat_users) < MaxUsers
  /\ t_wechat_users' =
       Append(t_wechat_users, [name |-> name, passwd |-> passwd])
  /\ task' = [Idle EXCEPT !.step = "regist_select", !.fd = s, !.name = name]
  /\ UNCHANGED <<process, sock, maps, t_save_msg, msg_seq, history>>

(* The SELECT of regist_wechat_mysql, by name alone.                       *)
RegistSelectId ==
  /\ At("regist_select")
  /\ \E id \in RegistSelect(t_wechat_users, ConnOk, task.name) :
        Welcome(task.fd, id)
  /\ UNCHANGED <<process, sock, tables, sent, log, kept>>

(* case login: mysql_verify.                                               *)
Login(s, name, passwd) ==
  /\ Receives(s) /\ MayLogIn(s)
  /\ \E id \in MysqlVerify(t_wechat_users, ConnOk, name, passwd) :
        Welcome(s, id)
  /\ UNCHANGED <<process, sock, tables, sent, log, kept>>

(* get_offline_msg_mysql, the SELECT.  It returns early when the query     *)
(* fails; the handler then sends an empty text.                            *)
GetOfflineSelect ==
  /\ At("get_offline")
  /\ task' = IF ConnOk /\ SentAtColumn
               THEN [task EXCEPT !.step = "delete_offline",
                                 !.rows = SavedFor(t_save_msg, task.user_id)]
               ELSE Idle
  /\ UNCHANGED <<process, sock, maps, tables, history>>

(* A fault of DeleteOffline: the DELETE has no WHERE.                      *)
DeleteAllOffline ==
  /\ At("delete_offline")
  /\ task' = [task EXCEPT !.step = "send_offline"]
  /\ t_save_msg' = {}
  /\ UNCHANGED <<process, sock, maps, t_wechat_users, msg_seq, history>>

(* get_offline_msg_mysql, the loop that leaves in offmsg the last row it   *)
(* reads and no other, then the DELETE; an error of the DELETE is only     *)
(* printed.                                                                *)
DeleteOffline ==
  /\ At("delete_offline")
  /\ \/ task.rows = {} /\ task' = [task EXCEPT !.step = "send_offline"]
     \/ \E r \in NewestRow(task.rows) :
           task' = [task EXCEPT !.step = "send_offline", !.msg = r.msg]
  /\ t_save_msg' = IF ConnOk
                     THEN t_save_msg \ SavedFor(t_save_msg, task.user_id)
                     ELSE t_save_msg
  /\ kept' = IF ConnOk THEN kept ELSE kept \cup {r.msg : r \in task.rows}
  /\ UNCHANGED <<process, sock, maps, t_wechat_users, msg_seq, who, overlap,
                 sent, log>>

(* handle_client sends offmsg on the socket that logged in.                *)
SendOffline ==
  /\ At("send_offline")
  /\ log' = IF task.msg = NoMsg
              THEN log
              ELSE Append(log, [msg |-> task.msg, fd |-> task.fd])
  /\ task' = Idle
  /\ UNCHANGED <<process, sock, maps, tables, who, overlap, sent, kept>>
-----------------------------------------------------------------------------
(* communicate: SendToFriend, in three SQL calls.                          *)

Communicate(s, name, friend, x) ==
  /\ Receives(s)
  /\ x \notin DOMAIN sent
  /\ \E id \in GetIdByName(t_wechat_users, ConnOk, name) :
        task' = [Idle EXCEPT !.step = "lookup_friend", !.fd = s, !.msg = x,
                             !.name = friend, !.user_id = id]
  /\ sent' = [y \in DOMAIN sent \cup {x} |->
                IF y = x
                  THEN [to |-> friend,
                        known |-> IdsNamed(t_wechat_users, friend) # {}]
                  ELSE sent[y]]
  /\ UNCHANGED <<process, sock, maps, tables, who, overlap, log, kept>>

(* A fault of LookupFriend: a message that was sent is saved too.          *)
LookupFriendSavesToo ==
  /\ At("lookup_friend")
  /\ \E id \in GetIdByName(t_wechat_users, ConnOk, task.name) :
        /\ log' = IF InHash(map_user_socket, id)
                    THEN Append(log, [msg |-> task.msg,
                                      fd  |-> map_user_socket[id]])
                    ELSE log
        /\ task' = [task EXCEPT !.step = "save_msg", !.friend_id = id]
  /\ UNCHANGED <<process, sock, maps, tables, who, overlap, sent, kept>>

(* The second get_id_by_name_mysql, then the send on the friend's socket,  *)
(* or else the message is to be saved.                                     *)
LookupFriend ==
  /\ At("lookup_friend")
  /\ \E id \in GetIdByName(t_wechat_users, ConnOk, task.name) :
        IF InHash(map_user_socket, id)
          THEN /\ log' = Append(log, [msg |-> task.msg,
                                      fd  |-> map_user_socket[id]])
               /\ task' = Idle
          ELSE /\ task' = [task EXCEPT !.step = "save_msg", !.friend_id = id]
               /\ UNCHANGED log
  /\ UNCHANGED <<process, sock, maps, tables, who, overlap, sent, kept>>

(* save_msg_in_mysql.  t_save_msg has no foreign key, so any friend_id is  *)
(* accepted.                                                               *)
SaveMsg ==
  /\ At("save_msg")
  /\ IF ConnOk
       THEN /\ msg_seq' = msg_seq + 1
            /\ t_save_msg' = t_save_msg \cup
                 {[msg_id |-> msg_seq + 1, user_id |-> task.user_id,
                   msg |-> task.msg, friend_id |-> task.friend_id]}
       ELSE UNCHANGED <<msg_seq, t_save_msg>>
  /\ task' = Idle
  /\ UNCHANGED <<process, sock, maps, t_wechat_users, history>>
-----------------------------------------------------------------------------
(* add and delete: the loop blocks in a gRPC call that has no deadline.    *)

CallRpc(s) ==
  /\ Receives(s)
  /\ task' = [Idle EXCEPT !.step = "rpc", !.fd = s]
  /\ UNCHANGED <<process, sock, maps, tables, history>>

RpcReturns ==
  /\ At("rpc")
  /\ task' = Idle
  /\ UNCHANGED <<process, sock, maps, tables, history>>
-----------------------------------------------------------------------------
(* The environment.                                                        *)

(* The MySQL client does not reconnect: later calls fail until a restart.  *)
LoseMysql ==
  /\ up /\ ConnOk
  /\ mysql_conn' = "lost"
  /\ UNCHANGED <<up, crashes, sock, maps, task, tables, history>>

(* The process dies; what is left is in the tables.                        *)
Crash ==
  /\ up /\ crashes < MaxCrashes
  /\ up' = FALSE /\ crashes' = crashes + 1
  /\ sock' = [s \in Fds |-> "free"]
  /\ map_user_socket' = EmptyHash /\ map_socket_user' = EmptyHash
  /\ task' = Idle
  /\ who' = [s \in Fds |-> {}] /\ overlap' = {}
  /\ UNCHANGED <<mysql_conn, tables, sent, log, kept>>

(* RunServer again: init_db_connections, then the loop.                    *)
Restart ==
  /\ ~up
  /\ up' = TRUE /\ mysql_conn' = "ok"
  /\ UNCHANGED <<crashes, sock, maps, task, tables, history>>

Handler ==
  \/ RegistSelectId
  \/ GetOfflineSelect \/ DeleteOffline \/ SendOffline
  \/ LookupFriend \/ SaveMsg
  \/ RpcReturns

Next ==
  \/ \E s \in Fds :
       \/ AcceptClient(s) \/ PeerCloses(s) \/ HandleEof(s) \/ CallRpc(s)
       \/ \E name \in Names, passwd \in Passwds :
             Regist(s, name, passwd) \/ Login(s, name, passwd)
       \/ \E name, friend \in Names, x \in Msgs :
             Communicate(s, name, friend, x)
  \/ Handler
  \/ LoseMysql \/ Crash \/ Restart

Spec == Init /\ [][Next]_vars
-----------------------------------------------------------------------------
(* Properties.                                                             *)

TaskSteps == {"epoll_wait", "regist_select", "get_offline", "delete_offline",
              "send_offline", "lookup_friend", "save_msg", "rpc"}

Task == [step : TaskSteps, fd : Fds \cup {NoFd}, name : Names \cup {NoName},
         user_id : Int, friend_id : Int, msg : Msgs \cup {NoMsg},
         rows : SUBSET SavedRow]

(* Every variable has its type.  Both tables hold only descriptors the     *)
(* process has and ids of rows of t_wechat_users: handle_client binds      *)
(* nothing for the 0 that a failed query yields.                           *)
TypeOK ==
  /\ up \in BOOLEAN /\ mysql_conn \in {"ok", "lost"} /\ crashes \in Nat
  /\ sock \in [Fds -> SockStates]
  /\ t_wechat_users \in Seq(UserRow)
  /\ IsHash(map_user_socket, DOMAIN t_wechat_users, Fds)
  /\ IsHash(map_socket_user, Fds, DOMAIN t_wechat_users)
  /\ t_save_msg \subseteq SavedRow /\ msg_seq \in Nat
  /\ task \in Task
  /\ task.step # "epoll_wait" => task.fd \in Fds
  /\ task.step \in {"lookup_friend", "save_msg"} => task.msg \in Msgs
  /\ who \in [Fds -> SUBSET DOMAIN t_wechat_users]
  /\ overlap \subseteq DOMAIN t_wechat_users
  /\ DOMAIN sent \subseteq Msgs
  /\ sent \in [DOMAIN sent -> [to : Names, known : BOOLEAN]]
  /\ log \in Seq([msg : Msgs, fd : Fds])
  /\ kept \subseteq Msgs

(* A user is routed only to a socket on which that user logged in since it *)
(* was accepted, and a socket is attributed only to such a user, however   *)
(* logins, ends of file, crashes and reused descriptors interleave         *)
(* (server.cpp:185-188 and 233-234 are the only writers of the tables).    *)
RoutedToOwnSocket ==
  /\ \A u \in DOMAIN map_user_socket : u \in who[map_user_socket[u]]
  /\ \A s \in DOMAIN map_socket_user : map_socket_user[s] \in who[s]

(* With clients that log in once per connection, every route of the first  *)
(* table is undone by the end of file of its socket: the second table      *)
(* names the user back.  So no route outlives handle_client's read of the  *)
(* end of file.                                                            *)
NoRouteToDeadSocket ==
  ~Relogin =>
    \A u \in DOMAIN map_user_socket :
      /\ InHash(map_socket_user, map_user_socket[u])
      /\ map_socket_user[map_user_socket[u]] = u
      /\ sock[map_user_socket[u]] # "dead"

(* The converse holds only for users whose sessions never overlapped:      *)
(* add_to_hash does not replace a binding, and the end of file of one      *)
(* socket removes the route of another one of the same user.  A user whose *)
(* sessions never overlapped is always routed to the socket it is on.      *)
LoggedInIsReachable ==
  ~Relogin =>
    \A s \in DOMAIN map_socket_user :
      \/ map_socket_user[s] \in overlap
      \/ /\ InHash(map_user_socket, map_socket_user[s])
         /\ map_user_socket[map_socket_user[s]] = s

(* A message is written to a socket at most once, over live sends, offline *)
(* delivery, crashes and restarts, unless a DELETE of its saved row failed *)
(* (SendToFriend writes or saves, never both; server.cpp:173-177).         *)
WrittenAtMostOnce ==
  \A i, j \in DOMAIN log :
    log[i].msg = log[j].msg /\ log[i].msg \notin kept => i = j

(* A message whose addressee had an account when it was sent is only ever  *)
(* written on a socket on which a user of that name logged in, at once or  *)
(* from the table, also when a lookup returned -1 in between.              *)
WrittenToAddressee ==
  [][log' # log =>
       LET e == log'[Len(log')] IN
         sent[e.msg].known =>
           \E u \in who[e.fd] : t_wechat_users[u].name = sent[e.msg].to]_vars

(* Rows of t_save_msg go only by a login of the user they are saved for,   *)
(* and none that the SELECT of this login did not return: a handler is     *)
(* over before the next one, which could save a row, begins                *)
(* (mysql.cpp:412, 434).                                                   *)
OnlyFetchedRowsDeleted ==
  [][\A r \in t_save_msg \ t_save_msg' :
       r \in task.rows /\ r.friend_id \in who[task.fd]]_vars

(* The stage of each message, read off the tables, the running handler and *)
(* the history.                                                            *)
Life == INSTANCE MessageLife WITH
  life <- [x \in Msgs |->
    IF x \notin DOMAIN sent THEN "new"
    ELSE IF \E r \in t_save_msg : r.msg = x THEN "saved"
    ELSE IF task.msg = x THEN "held"
    ELSE IF \E i \in DOMAIN log : log[i].msg = x THEN "written"
    ELSE "lost"],
  once <- {log[i].msg : i \in DOMAIN log}

(* The server implements the life of a message over every handler, crash   *)
(* and lost connection: nothing written or lost comes back, nothing leaves *)
(* the table but by a login, and a login keeps one message of those it     *)
(* takes (server.cpp:169-178, mysql.cpp:406-441).                          *)
ImplementsMessageLife == Life!LifeSpec

(* What the comments of get_offline_msg_mysql say: it gets the messages    *)
(* and then deletes them (mysql.cpp:411, 433).  Every message it deletes   *)
(* would be in the text that is sent.                                      *)
DeletedMessagesAreSent ==
  [][\A r \in t_save_msg \ t_save_msg' : r.msg = task'.msg]_vars
-----------------------------------------------------------------------------
(* The thread of the event loop keeps running, a query and the RPC return, *)
(* and epoll_wait reports ready sockets round robin.                       *)
Fairness ==
  /\ WF_vars(Handler)
  /\ \A s \in Fds : SF_vars(HandleEof(s))

FairSpec == Spec /\ Fairness

(* The user that the second table has for a socket whose peer closed stops *)
(* being routed to it: whatever the other sockets ask for, also when the   *)
(* peer closed before the handler bound the socket, when other users have  *)
(* logged in on it since, or the route is one of an overlapping session    *)
(* (server.cpp:185-188, 233-234).  A second user of the socket, whom the   *)
(* table does not have, stays routed to it.                                *)
ClosedPeerIsUnrouted ==
  \A s \in Fds, u \in 1..MaxUsers :
    (sock[s] = "hup" /\ InHash(map_socket_user, s) /\ map_socket_user[s] = u)
      ~> ~(InHash(map_user_socket, u) /\ map_user_socket[u] = s)
=============================================================================
