---------------------------- MODULE FriendService ----------------------------
(***************************************************************************)
(* The friend service, `wechat3 server2` (WechatServiceImpl.h and the      *)
(* friend queries of base/mysql.cpp), with its only caller, the chat       *)
(* server (WechatServiceClient.h).                                         *)
(*                                                                         *)
(* gRPC runs each call in a thread of its pool; all of them use the one    *)
(* mysql_conn, without a lock.  A handler does nothing but SQL, so two     *)
(* handlers at a time are two threads inside libmysqlclient on one         *)
(* connection: what their calls return is then arbitrary.  The caller      *)
(* blocks in each call, so this takes a chat server that died in a call    *)
(* and came back while the handler was still running.                      *)
(***************************************************************************)
EXTENDS WechatDb

CONSTANTS
  Calls,       (* the RPCs, each made at most once                         *)
  Names,       (* user names                                               *)
  InitUsers,   (* t_wechat_users at the start                              *)
  MaxUsers,    (* bound: rows of t_wechat_users                            *)
  MaxCrashes,  (* bound: crashes of the chat server                        *)
  NoCall, NoName

UserRow == [name : Names]

ASSUME NoneAssumption == NoCall \notin Calls /\ NoName \notin Names
ASSUME BoundAssumption ==
  /\ MaxUsers \in Nat /\ MaxCrashes \in Nat
  /\ InitUsers \in Seq(UserRow) /\ Len(InitUsers) <= MaxUsers

VARIABLES
  caller,         (* the chat server: is it up, which call is it in?       *)
  crashes,        (* of the chat server                                    *)
  server_up,      (* is the friend service running?                        *)
  mysql_conn,     (* its connection, "ok" or "lost"                        *)
  handler,        (* handler[c]: the thread that runs call c               *)
  reply,          (* reply[c]: the text the chat server got                *)
  t_wechat_users, (* rows are added by the chat server                     *)
  t_friend_ship,  (* pairs <<user_id, friend_id>>                          *)
  (* history, read by properties only                                      *)
  wrote,          (* wrote[c]: what call c did to t_friend_ship            *)
  known,          (* calls that name two users with an account             *)
  orphans,        (* calls whose chat server died                          *)
  cut,            (* calls whose friend service died                       *)
  spoilt          (* calls that shared the connection with another one     *)

procs   == <<caller, crashes, server_up, mysql_conn>>
tables  == <<t_wechat_users, t_friend_ship>>
history == <<wrote, known, orphans, cut, spoilt>>
vars    == <<procs, handler, reply, tables, history>>

Ops == {"add", "delete"}

(* "none": the caller has no answer.  The others are the texts that        *)
(* strcpy leaves in its buffer.                                            *)
Replies == {"none", "", "add success", "delete success", "delete fail"}

SqlSteps == {"get_user", "get_friend", "write"}
Steps == {"new", "done", "gone"} \cup SqlSteps

New == [step |-> "new", op |-> "add", user_name |-> NoName,
        friend_name |-> NoName, user_id |-> 0, friend_id |-> 0, answer |-> ""]

Nothing == [op |-> "nothing", pair |-> <<0, 0>>]

ConnOk == mysql_conn = "ok"

Active == {c \in Calls : handler[c].step \in SqlSteps}

Alone(c) == Active = {c}

Init ==
  /\ caller = [up |-> TRUE, call |-> NoCall] /\ crashes = 0
  /\ server_up = TRUE /\ mysql_conn = "ok"
  /\ handler = [c \in Calls |-> New]
  /\ reply = [c \in Calls |-> "none"]
  /\ t_wechat_users = InitUsers /\ t_friend_ship = {}
  /\ wrote = [c \in Calls |-> Nothing] /\ known = {}
  /\ orphans = {} /\ cut = {} /\ spoilt = {}
-----------------------------------------------------------------------------
(* The chat server.                                                        *)

(* RunRpcClient calls the stub.  With no service to connect to, the stub   *)
(* returns UNAVAILABLE at once, and the reply stays empty.                 *)
CallStub(c, op, user, friend) ==
  /\ caller.up /\ caller.call = NoCall
  /\ handler[c].step = "new"
  /\ caller' = [caller EXCEPT !.call = c]
  /\ handler' = [handler EXCEPT ![c] =
       [@ EXCEPT !.step = IF server_up THEN "get_user" ELSE "gone",
                 !.op = op, !.user_name = user, !.friend_name = friend]]
  /\ known' = IF \A n \in {user, friend} : IdsNamed(t_wechat_users, n) # {}
                THEN known \cup {c}
                ELSE known
  /\ UNCHANGED <<crashes, server_up, mysql_conn, reply, tables, wrote, orphans,
                 cut, spoilt>>

(* Two faults of StubReturns: a status that is not OK is not an end of the *)
(* call; the call has a deadline, and the handler that missed it goes on.  *)
StubReturnsOk(c) ==
  /\ caller.call = c
  /\ handler[c].step = "done"
  /\ caller' = [caller EXCEPT !.call = NoCall]
  /\ reply' = [reply EXCEPT ![c] = handler[c].answer]
  /\ UNCHANGED <<crashes, server_up, mysql_conn, handler, tables, history>>

StubTimesOut(c) ==
  /\ caller.call = c
  /\ caller' = [caller EXCEPT !.call = NoCall]
  /\ reply' = [reply EXCEPT ![c] = handler[c].answer]
  /\ UNCHANGED <<crashes, server_up, mysql_conn, handler, tables, history>>

(* The blocking stub call returns, and strcpy takes the text of the reply  *)
(* message whatever the status is.  The message is empty unless the call   *)
(* came back with OK.                                                      *)
StubReturns(c) ==
  /\ caller.call = c
  /\ handler[c].step \in {"done", "gone"}
  /\ caller' = [caller EXCEPT !.call = NoCall]
  /\ reply' = [reply EXCEPT ![c] =
                 IF handler[c].step = "done" THEN handler[c].answer ELSE ""]
  /\ UNCHANGED <<crashes, server_up, mysql_conn, handler, tables, history>>

(* The chat server dies in a call or outside one, and comes back.          *)
CallerCrashes ==
  /\ caller.up /\ crashes < MaxCrashes
  /\ caller' = [up |-> FALSE, call |-> NoCall]
  /\ crashes' = crashes + 1
  /\ orphans' = orphans \cup ({caller.call} \ {NoCall})
  /\ UNCHANGED <<server_up, mysql_conn, handler, reply, tables, wrote, known,
                 cut, spoilt>>

CallerRestarts ==
  /\ ~caller.up
  /\ caller' = [caller EXCEPT !.up = TRUE]
  /\ UNCHANGED <<crashes, server_up, mysql_conn, handler, reply, tables, history>>

(* The chat server registers a user.  It cannot while it is in a call.     *)
RegistUser(name) ==
  /\ caller.up /\ caller.call = NoCall
  /\ Len(t_wechat_users) < MaxUsers
  /\ t_wechat_users' = Append(t_wechat_users, [name |-> name])
  /\ UNCHANGED <<procs, handler, reply, t_friend_ship, history>>
-----------------------------------------------------------------------------
(* The handlers.                                                           *)

(* get_id_by_name_mysql in the handler of c.                               *)
LookupBy(c, name) ==
  IF Alone(c)
    THEN GetIdByName(t_wechat_users, ConnOk, name)
    ELSE {-1} \cup StackInts \cup DOMAIN t_wechat_users

(* Threads that meet on the connection may leave it unusable.              *)
UseConn(c) ==
  /\ spoilt' = IF Alone(c) THEN spoilt ELSE spoilt \cup Active
  /\ mysql_conn' \in IF Alone(c) THEN {mysql_conn} ELSE {mysql_conn, "lost"}

(* add_friend_mysql and delete_friend_mysql, the first lookup.             *)
GetUserId(c) ==
  /\ server_up
  /\ handler[c].step = "get_user"
  /\ \E id \in LookupBy(c, handler[c].user_name) :
        handler' = [handler EXCEPT ![c].step = "get_friend", ![c].user_id = id]
  /\ UseConn(c)
  /\ UNCHANGED <<caller, crashes, server_up, reply, tables, wrote, known,
                 orphans, cut>>

(* A fault of Answer: the result of the query is not looked at.            *)
AnswerAnyway(op, ok) ==
  IF op = "add" THEN "add success" ELSE "delete success"

(* What AddFriend and DelFriend answer.  A failed AddFriend returns        *)
(* Status::CANCELLED, and the text it set does not reach the caller.       *)
Answer(op, ok) ==
  CASE op = "add" /\ ok -> "add success"
    [] op = "add" /\ ~ok -> ""
    [] op = "delete" /\ ok -> "delete success"
    [] op = "delete" /\ ~ok -> "delete fail"

Finished(h, ok) ==
  [h EXCEPT !.step = "done", !.answer = Answer(h.op, ok),
            !.user_id = 0, !.friend_id = 0]

(* The second lookup, and the check of the two ids.                        *)
GetFriendId(c) ==
  /\ server_up
  /\ handler[c].step = "get_friend"
  /\ \E id \in LookupBy(c, handler[c].friend_name) :
        handler' = [handler EXCEPT ![c] =
          IF handler[c].user_id = -1 \/ id = -1
            THEN Finished(@, FALSE)
            ELSE [@ EXCEPT !.step = "write", !.friend_id = id]]
  /\ UseConn(c)
  /\ UNCHANGED <<caller, crashes, server_up, reply, tables, wrote, known,
                 orphans, cut>>

(* A fault of PairOf: the two parameters are bound in the wrong order.     *)
PairReversed(c) == <<handler[c].friend_id, handler[c].user_id>>

PairOf(c) == <<handler[c].user_id, handler[c].friend_id>>

(* The INSERT of the pair: it fails on the unique index, on the foreign    *)
(* keys, and when the connection is lost.                                  *)
CanInsert(pair) ==
  /\ ConnOk
  /\ pair \notin t_friend_ship
  /\ pair[1] \in DOMAIN t_wechat_users /\ pair[2] \in DOMAIN t_wechat_users

(* The DELETE affects a row.                                               *)
CanDelete(pair) == ConnOk /\ pair \in t_friend_ship

(* The statement of the handler of c does or does not change the table,    *)
(* and the handler answers.                                                *)
WriteFriendship(c) ==
  LET pair == PairOf(c)
      can  == IF handler[c].op = "add" THEN CanInsert(pair) ELSE CanDelete(pair)
  IN
  /\ server_up
  /\ handler[c].step = "write"
  /\ \E done \in BOOLEAN, ok \in BOOLEAN :
        /\ done => can
        /\ Alone(c) => done = can /\ ok = can
        /\ handler' = [handler EXCEPT ![c] = Finished(@, ok)]
        /\ IF done
             THEN /\ t_friend_ship' = IF handler[c].op = "add"
                                        THEN t_friend_ship \cup {pair}
                                        ELSE t_friend_ship \ {pair}
                  /\ wrote' = [wrote EXCEPT ![c] =
                                [op |-> handler[c].op, pair |-> pair]]
             ELSE UNCHANGED <<t_friend_ship, wrote>>
  /\ UseConn(c)
  /\ UNCHANGED <<caller, crashes, server_up, reply, t_wechat_users, known,
                 orphans, cut>>

Handle(c) == GetUserId(c) \/ GetFriendId(c) \/ WriteFriendship(c)

LoseMysql ==
  /\ server_up /\ ConnOk
  /\ mysql_conn' = "lost"
  /\ UNCHANGED <<caller, crashes, server_up, handler, reply, tables, history>>

(* The service dies: calls in it, or whose answer is on its way, fail.     *)
ServerCrashes ==
  LET hit == {c \in Calls : handler[c].step \in SqlSteps \/ caller.call = c} IN
  /\ server_up
  /\ server_up' = FALSE
  /\ handler' = [c \in Calls |->
       IF c \in hit THEN [handler[c] EXCEPT !.step = "gone", !.user_id = 0,
                                             !.friend_id = 0]
       ELSE handler[c]]
  /\ cut' = cut \cup hit
  /\ UNCHANGED <<caller, crashes, mysql_conn, reply, tables, wrote, known,
                 orphans, spoilt>>

(* RpcServer again.                                                        *)
ServerRestarts ==
  /\ ~server_up
  /\ server_up' = TRUE /\ mysql_conn' = "ok"
  /\ UNCHANGED <<caller, crashes, handler, reply, tables, history>>

Next ==
  \/ \E c \in Calls :
       \/ \E op \in Ops, user, friend \in Names : CallStub(c, op, user, friend)
       \/ StubReturns(c)
       \/ Handle(c)
  \/ \E name \in Names : RegistUser(name)
  \/ CallerCrashes \/ CallerRestarts
  \/ LoseMysql \/ ServerCrashes \/ ServerRestarts

Spec == Init /\ [][Next]_vars
-----------------------------------------------------------------------------
(* Properties.                                                             *)

Handler == [step : Steps, op : Ops,
            user_name : Names \cup {NoName}, friend_name : Names \cup {NoName},
            user_id : Int, friend_id : Int, answer : Replies \ {"none"}]

(* Every variable has its type; both columns of t_friend_ship refer to     *)
(* users.                                                                  *)
TypeOK ==
  /\ caller \in [up : BOOLEAN, call : Calls \cup {NoCall}]
  /\ crashes \in Nat /\ server_up \in BOOLEAN /\ mysql_conn \in {"ok", "lost"}
  /\ handler \in [Calls -> Handler]
  /\ reply \in [Calls -> Replies]
  /\ t_wechat_users \in Seq(UserRow)
  /\ t_friend_ship \subseteq (DOMAIN t_wechat_users) \X (DOMAIN t_wechat_users)
  /\ wrote \in [Calls -> [op : {"nothing"} \cup Ops, pair : Int \X Int]]
  /\ known \subseteq Calls /\ orphans \subseteq Calls /\ cut \subseteq Calls /\ spoilt \subseteq Calls

(* The shared connection is used by one thread at a time as long as no     *)
(* chat server dies in a call: the stubs of WechatServiceClient.h block    *)
(* without a deadline, so a running handler is that of the call the chat   *)
(* server is in, or an orphan's.                                           *)
OneHandlerAtATime ==
  \A c \in Active : c = caller.call \/ c \in orphans

(* What the user is told is what happened to t_friend_ship: a success is a *)
(* row that this call wrote, a failure leaves the table alone, and so does *)
(* an empty reply, unless the service died in the call (then the row may   *)
(* be there) or handlers met on the connection.                            *)
RepliesTruthful ==
  \A c \in Calls \ spoilt :
    /\ reply[c] = "add success" => wrote[c].op = "add"
    /\ reply[c] = "delete success" => wrote[c].op = "delete"
    /\ reply[c] = "delete fail" => wrote[c] = Nothing
    /\ reply[c] = "" /\ c \notin cut => wrote[c] = Nothing

(* A row comes or goes only for the pair of users that the request names,  *)
(* user first, if both had an account when it was made: also when names    *)
(* are taken twice or the connection fails between the two lookups.        *)
WritesNamedPair ==
  \A c \in known \ spoilt :
    wrote[c] # Nothing =>
      /\ wrote[c].pair[1] \in IdsNamed(t_wechat_users, handler[c].user_name)
      /\ wrote[c].pair[2] \in IdsNamed(t_wechat_users, handler[c].friend_name)

(* What add_friend_mysql says of its check: an id of -1 is a user that     *)
(* does not exist, and nothing is written (mysql.cpp:126-129).             *)
UnknownNameRefused ==
  \A c \in Calls \ (spoilt \cup known) : wrote[c] = Nothing
-----------------------------------------------------------------------------
(* A query returns, and gRPC brings back an answer or a failure.           *)
Fairness == \A c \in Calls : WF_vars(Handle(c) \/ StubReturns(c))

FairSpec == Spec /\ Fairness

(* The event loop of the chat server does not stay in a call for ever,     *)
(* whether the service dies, comes back or loses its connection and also   *)
(* after the chat server died in a call, as long as no two handlers met on *)
(* the connection: those may wait for each other's packets.                *)
CallReturns ==
  caller.call # NoCall ~> (caller.call = NoCall \/ spoilt # {})
=============================================================================
