------------------------- MODULE FriendServiceProofs -------------------------
(***************************************************************************)
(* The friend service tells the user the truth and writes the pair that    *)
(* was asked for, for any number of calls, users and crashes.              *)
(***************************************************************************)
EXTENDS FriendService, TLAPS

(* The rows of a user stay when others are added.                          *)
LEMMA UsersGrow ==
  ASSUME NEW users \in Seq(UserRow), NEW row \in UserRow
  PROVE  /\ Append(users, row) \in Seq(UserRow)
         /\ DOMAIN users \subseteq DOMAIN Append(users, row)
         /\ \A n : IdsNamed(users, n) \subseteq IdsNamed(Append(users, row), n)
<1>1. /\ Append(users, row) \in Seq(UserRow)
      /\ DOMAIN users = 1 .. Len(users)
      /\ DOMAIN Append(users, row) = 1 .. Len(users) + 1
      /\ \A i \in 1 .. Len(users) : Append(users, row)[i] = users[i]
  OBVIOUS
<1> QED
  BY <1>1 DEF IdsNamed

(* The members of the enumerations.                                        *)
LEMMA Members ==
  /\ "new" \in Steps /\ "get_user" \in Steps /\ "get_friend" \in Steps
  /\ "write" \in Steps /\ "done" \in Steps /\ "gone" \in Steps
  /\ "add" \in Ops /\ "delete" \in Ops
  /\ "" \in Replies \ {"none"} /\ 0 \in Int
BY DEF Steps, SqlSteps, Ops, Replies

(* What a lookup returns is an integer; and when the handler has the       *)
(* connection to itself and the name has an account, it is -1 or the       *)
(* user_id of such an account.                                             *)
LEMMA LookupResult ==
  ASSUME t_wechat_users \in Seq(UserRow),
         NEW c \in Calls, NEW name, NEW id \in LookupBy(c, name)
  PROVE  /\ id \in Int
         /\ Alone(c) /\ IdsNamed(t_wechat_users, name) # {} =>
              id \in {-1} \cup IdsNamed(t_wechat_users, name)
<1>1. DOMAIN t_wechat_users \subseteq Int
  OBVIOUS
<1> QED
  BY <1>1, StackIntsAreInts DEF LookupBy, GetIdByName, IdsNamed

(* What the actions change in a handler.                                   *)
LEMMA CalledType ==
  ASSUME NEW h \in Handler, NEW step \in Steps, NEW op \in Ops,
         NEW user \in Names, NEW friend \in Names
  PROVE  [h EXCEPT !.step = step, !.op = op, !.user_name = user, !.friend_name = friend]
           \in Handler
BY DEF Handler

LEMMA SteppedType ==
  ASSUME NEW h \in Handler, NEW step \in Steps, NEW id \in Int
  PROVE  /\ [h EXCEPT !.step = step, !.user_id = id] \in Handler
         /\ [h EXCEPT !.step = step, !.friend_id = id] \in Handler
         /\ [h EXCEPT !.step = step, !.user_id = id, !.friend_id = id] \in Handler
BY DEF Handler

LEMMA FinishedType ==
  ASSUME NEW h \in Handler, NEW ok \in BOOLEAN
  PROVE  /\ Finished(h, ok) \in Handler
         /\ Finished(h, ok).step = "done"
         /\ Finished(h, ok).answer = Answer(h.op, ok)
         /\ Finished(h, ok).user_name = h.user_name
         /\ Finished(h, ok).friend_name = h.friend_name
<1>1. Answer(h.op, ok) \in Replies \ {"none"}
  BY DEF Answer, Handler, Ops, Replies
<1>2. "done" \in Steps /\ 0 \in Int
  BY Members
<1> QED
  BY <1>1, <1>2 DEF Finished, Handler
-----------------------------------------------------------------------------
LEMMA TypeInit == Init => TypeOK
<1> SUFFICES ASSUME Init PROVE TypeOK
  OBVIOUS
<1>1. New \in Handler
  <2>1. "new" \in Steps /\ "add" \in Ops /\ "" \in Replies \ {"none"} /\ 0 \in Int
    BY Members
  <2> QED
    BY <2>1 DEF New, Handler
<1>2. "none" \in Replies /\ Nothing \in [op : {"nothing"} \cup Ops, pair : Int \X Int]
  BY DEF Replies, Nothing
<1> QED
  BY <1>1, <1>2, BoundAssumption DEF Init, TypeOK

LEMMA TypeNext == TypeOK /\ [Next]_vars => TypeOK'
<1> SUFFICES ASSUME TypeOK, [Next]_vars
             PROVE  TypeOK'
  OBVIOUS
<1> USE DEF TypeOK
<1>1. ASSUME NEW c \in Calls, NEW op \in Ops, NEW user \in Names, NEW friend \in Names,
             CallStub(c, op, user, friend)
      PROVE  TypeOK'
  <2>1. handler' \in [Calls -> Handler]
    <3> DEFINE step == IF server_up THEN "get_user" ELSE "gone"
    <3>1. step \in Steps
      BY Members
    <3> HIDE DEF step
    <3>2. [handler[c] EXCEPT !.step = step, !.op = op, !.user_name = user,
                             !.friend_name = friend] \in Handler
      BY <3>1, CalledType
    <3> QED
      BY <1>1, <3>2 DEF CallStub, step
  <2> QED
    BY <1>1, <2>1 DEF CallStub, tables
<1>2. ASSUME NEW c \in Calls, StubReturns(c)
      PROVE  TypeOK'
  <2>1. reply' \in [Calls -> Replies]
    BY <1>2 DEF StubReturns, Handler, Replies
  <2> QED
    BY <1>2, <2>1 DEF StubReturns, tables, history
<1>3. ASSUME NEW c \in Calls, UseConn(c)
      PROVE  spoilt' \subseteq Calls /\ mysql_conn' \in {"ok", "lost"}
  BY <1>3 DEF UseConn, Active
<1>4. ASSUME NEW c \in Calls, GetUserId(c)
      PROVE  TypeOK'
  <2>1. handler' \in [Calls -> Handler]
    <3>1. PICK id \in LookupBy(c, handler[c].user_name) :
             handler' = [handler EXCEPT ![c].step = "get_friend", ![c].user_id = id]
      BY <1>4 DEF GetUserId
    <3>2. id \in Int /\ "get_friend" \in Steps
      BY LookupResult, Members
    <3>3. [handler[c] EXCEPT !.step = "get_friend", !.user_id = id] \in Handler
      BY <3>2, SteppedType
    <3> QED
      BY <3>1, <3>3
  <2> QED
    BY <1>3, <1>4, <2>1 DEF GetUserId, tables
<1>5. ASSUME NEW c \in Calls, GetFriendId(c)
      PROVE  TypeOK'
  <2>1. handler' \in [Calls -> Handler]
    <3>1. PICK id \in LookupBy(c, handler[c].friend_name) :
             handler' = [handler EXCEPT ![c] =
               IF handler[c].user_id = -1 \/ id = -1
                 THEN Finished(@, FALSE)
                 ELSE [@ EXCEPT !.step = "write", !.friend_id = id]]
      BY <1>5 DEF GetFriendId
    <3>2. id \in Int /\ "write" \in Steps /\ Finished(handler[c], FALSE) \in Handler
      BY LookupResult, Members, FinishedType
    <3>3. [handler[c] EXCEPT !.step = "write", !.friend_id = id] \in Handler
      BY <3>2, SteppedType
    <3> QED
      BY <3>1, <3>2, <3>3
  <2> QED
    BY <1>3, <1>5, <2>1 DEF GetFriendId, tables
<1>6. ASSUME NEW c \in Calls, WriteFriendship(c)
      PROVE  TypeOK'
  <2> DEFINE pair == PairOf(c)
  <2>1. pair \in Int \X Int
    BY DEF PairOf, Handler
  <2>2. handler[c].op = "add" /\ CanInsert(pair) =>
           pair \in (DOMAIN t_wechat_users) \X (DOMAIN t_wechat_users)
    BY DEF CanInsert, PairOf
  <2> HIDE DEF pair
  <2>3. PICK done \in BOOLEAN, ok \in BOOLEAN :
           /\ done => IF handler[c].op = "add" THEN CanInsert(pair) ELSE CanDelete(pair)
           /\ handler' = [handler EXCEPT ![c] = Finished(@, ok)]
           /\ IF done
                THEN /\ t_friend_ship' = IF handler[c].op = "add"
                                           THEN t_friend_ship \cup {pair}
                                           ELSE t_friend_ship \ {pair}
                     /\ wrote' = [wrote EXCEPT ![c] =
                                   [op |-> handler[c].op, pair |-> pair]]
                ELSE UNCHANGED <<t_friend_ship, wrote>>
    BY <1>6 DEF WriteFriendship, pair
  <2>4. handler' \in [Calls -> Handler]
    BY <2>3, FinishedType
  <2>5. t_friend_ship' \subseteq (DOMAIN t_wechat_users) \X (DOMAIN t_wechat_users)
    BY <2>2, <2>3
  <2>6. wrote' \in [Calls -> [op : {"nothing"} \cup Ops, pair : Int \X Int]]
    <3>1. [op |-> handler[c].op, pair |-> pair] \in [op : {"nothing"} \cup Ops, pair : Int \X Int]
      BY <2>1 DEF Handler
    <3> QED
      BY <2>3, <3>1
  <2> QED
    BY <1>3, <1>6, <2>4, <2>5, <2>6 DEF WriteFriendship
<1>7. ASSUME NEW name \in Names, RegistUser(name)
      PROVE  TypeOK'
  <2>1. [name |-> name] \in UserRow
    BY DEF UserRow
  <2>2. /\ t_wechat_users' \in Seq(UserRow)
        /\ DOMAIN t_wechat_users \subseteq DOMAIN t_wechat_users'
    BY <1>7, <2>1, UsersGrow DEF RegistUser
  <2> QED
    BY <1>7, <2>2 DEF RegistUser, procs, history
<1>8. CASE CallerCrashes
  BY <1>8 DEF CallerCrashes, tables
<1>9. CASE CallerRestarts
  BY <1>9 DEF CallerRestarts, tables, history
<1>10. CASE LoseMysql
  BY <1>10 DEF LoseMysql, tables, history
<1>11. CASE ServerCrashes
  <2>1. handler' \in [Calls -> Handler]
    <3>1. "gone" \in Steps /\ 0 \in Int
      BY Members
    <3>2. \A c \in Calls :
            [handler[c] EXCEPT !.step = "gone", !.user_id = 0, !.friend_id = 0] \in Handler
      BY <3>1, SteppedType
    <3> QED
      BY <1>11, <3>2 DEF ServerCrashes
  <2> QED
    BY <1>11, <2>1 DEF ServerCrashes, tables
<1>12. CASE ServerRestarts
  BY <1>12 DEF ServerRestarts, tables, history
<1>13. CASE UNCHANGED vars
  BY <1>13 DEF vars, procs, tables, history
<1> QED
  BY <1>1, <1>2, <1>4, <1>5, <1>6, <1>7, <1>8, <1>9, <1>10, <1>11, <1>12, <1>13
  DEF Next, Handle

(* Every variable of the service and of its caller keeps its type, and     *)
(* both columns of t_friend_ship refer to users.                           *)
THEOREM TypeCorrect == Spec => []TypeOK
BY TypeInit, TypeNext, PTL DEF Spec
-----------------------------------------------------------------------------
(* A text is true of w, what a call did to t_friend_ship.                  *)
TrueOf(w, text) ==
  /\ text = "add success" => w.op = "add"
  /\ text = "delete success" => w.op = "delete"
  /\ text \in {"delete fail", ""} => w = Nothing

(* A call writes in its last step only and is answered behind it; its      *)
(* handler prepared a true answer, unless it shared the connection.        *)
WrittenInv ==
  \A c \in Calls :
    /\ handler[c].step \in {"new"} \cup SqlSteps => wrote[c] = Nothing
    /\ reply[c] # "none" => handler[c].step \in {"done", "gone"}
    /\ c \notin spoilt =>
         /\ handler[c].step = "done" => TrueOf(wrote[c], handler[c].answer)
         /\ handler[c].step = "gone" /\ c \notin cut => wrote[c] = Nothing

(* The names of a call are fixed once it is made, their accounts stay, and *)
(* the ids the handler keeps between its queries belong to them.           *)
NamedInv ==
  \A c \in known :
    LET users(n) == IdsNamed(t_wechat_users, n) IN
    /\ handler[c].step # "new"
    /\ users(handler[c].user_name) # {} /\ users(handler[c].friend_name) # {}
    /\ c \notin spoilt =>
         /\ handler[c].step \in {"get_friend", "write"} =>
              handler[c].user_id \in {-1} \cup users(handler[c].user_name)
         /\ handler[c].step = "write" =>
              handler[c].user_id # -1 /\ handler[c].friend_id \in users(handler[c].friend_name)

(* Handlers meet only when a chat server died in a call.                   *)
MeetingsAreOrphans == spoilt # {} => orphans # {}

ServiceInv ==
  /\ OneHandlerAtATime /\ MeetingsAreOrphans
  /\ WrittenInv /\ RepliesTruthful
  /\ NamedInv /\ WritesNamedPair
-----------------------------------------------------------------------------
(* A step of a handler leaves the other handlers alone, and marks its call *)
(* unless it has the connection to itself.                                 *)
LEMMA HandlerSteps ==
  ASSUME TypeOK, NEW c \in Calls, Handle(c)
  PROVE  /\ c \in Active
         /\ handler' \in [Calls -> Handler]
         /\ \A d \in Calls \ {c} : handler'[d] = handler[d]
         /\ handler'[c].step \in {"get_friend", "write", "done"}
         /\ handler'[c].user_name = handler[c].user_name
         /\ handler'[c].friend_name = handler[c].friend_name
         /\ UNCHANGED <<caller, reply, t_wechat_users, known, orphans, cut>>
         /\ spoilt' = IF Alone(c) THEN spoilt ELSE spoilt \cup Active
<1> handler[c] \in Handler
  BY DEF TypeOK
<1>1. c \in Active
  BY DEF Handle, GetUserId, GetFriendId, WriteFriendship, Active, SqlSteps
<1>2. handler' \in [Calls -> Handler]
  <2>1. TypeOK'
    BY TypeNext DEF Next
  <2> QED
    BY <2>1 DEF TypeOK
<1>3. /\ UNCHANGED <<caller, reply, t_wechat_users, known, orphans, cut>>
      /\ spoilt' = IF Alone(c) THEN spoilt ELSE spoilt \cup Active
  BY DEF Handle, GetUserId, GetFriendId, WriteFriendship, UseConn, tables
<1>4. \E h \in Handler :
        /\ handler' = [handler EXCEPT ![c] = h]
        /\ h.step \in {"get_friend", "write", "done"}
        /\ h.user_name = handler[c].user_name /\ h.friend_name = handler[c].friend_name
  <2>1. CASE GetUserId(c)
    <3>1. PICK id \in LookupBy(c, handler[c].user_name) :
             handler' = [handler EXCEPT ![c].step = "get_friend", ![c].user_id = id]
      BY <2>1 DEF GetUserId
    <3>2. id \in Int /\ "get_friend" \in Steps
      BY LookupResult, Members DEF TypeOK
    <3> DEFINE h == [handler[c] EXCEPT !.step = "get_friend", !.user_id = id]
    <3>3. h \in Handler
      BY <3>2, SteppedType
    <3>4. /\ h.step = "get_friend" /\ h.user_name = handler[c].user_name
          /\ h.friend_name = handler[c].friend_name
      BY DEF Handler
    <3> QED
      BY <3>1, <3>3, <3>4
  <2>2. CASE GetFriendId(c)
    <3>1. PICK id \in LookupBy(c, handler[c].friend_name) :
             handler' = [handler EXCEPT ![c] =
               IF handler[c].user_id = -1 \/ id = -1
                 THEN Finished(@, FALSE)
                 ELSE [@ EXCEPT !.step = "write", !.friend_id = id]]
      BY <2>2 DEF GetFriendId
    <3>2. id \in Int /\ "write" \in Steps
      BY LookupResult, Members DEF TypeOK
    <3> DEFINE h == [handler[c] EXCEPT !.step = "write", !.friend_id = id]
    <3>3. h \in Handler
      BY <3>2, SteppedType
    <3>4. /\ h.step = "write" /\ h.user_name = handler[c].user_name
          /\ h.friend_name = handler[c].friend_name
      BY DEF Handler
    <3> HIDE DEF h
    <3>5. handler' = [handler EXCEPT ![c] = IF handler[c].user_id = -1 \/ id = -1
                                              THEN Finished(handler[c], FALSE) ELSE h]
      BY <3>1 DEF TypeOK, h
    <3> QED
      BY <3>3, <3>4, <3>5, FinishedType
  <2>3. CASE WriteFriendship(c)
    <3>1. PICK ok \in BOOLEAN : handler' = [handler EXCEPT ![c] = Finished(@, ok)]
      BY <2>3 DEF WriteFriendship
    <3> QED
      BY <3>1, FinishedType
  <2> QED
    BY <2>1, <2>2, <2>3 DEF Handle
<1> QED
  BY <1>1, <1>2, <1>3, <1>4 DEF TypeOK

LEMMA MeetNext ==
  TypeOK /\ OneHandlerAtATime /\ MeetingsAreOrphans /\ [Next]_vars
    => OneHandlerAtATime' /\ MeetingsAreOrphans'
<1> SUFFICES ASSUME TypeOK, OneHandlerAtATime, MeetingsAreOrphans, [Next]_vars
             PROVE  OneHandlerAtATime' /\ MeetingsAreOrphans'
  OBVIOUS
<1> USE DEF OneHandlerAtATime, MeetingsAreOrphans
<1>1. ASSUME NEW c \in Calls, NEW op \in Ops, NEW user \in Names, NEW friend \in Names,
             CallStub(c, op, user, friend)
      PROVE  OneHandlerAtATime' /\ MeetingsAreOrphans'
  <2>1. caller'.call = c
    BY <1>1 DEF CallStub, TypeOK
  <2>2. \A d \in Calls \ {c} : handler'[d] = handler[d]
    BY <1>1 DEF CallStub, TypeOK
  <2>3. caller.call \notin Calls
    BY <1>1, NoneAssumption DEF CallStub
  <2> QED
    BY <1>1, <2>1, <2>2, <2>3 DEF CallStub, Active
<1>2. ASSUME NEW c \in Calls, StubReturns(c)
      PROVE  OneHandlerAtATime' /\ MeetingsAreOrphans'
  BY <1>2 DEF StubReturns, Active, SqlSteps, history
<1>3. ASSUME NEW c \in Calls, Handle(c)
      PROVE  OneHandlerAtATime' /\ MeetingsAreOrphans'
  <2>1. Active' \subseteq Active
    BY <1>3, HandlerSteps DEF Active
  <2>2. ~Alone(c) => orphans # {}
    BY <1>3, HandlerSteps DEF Alone
  <2> QED
    BY <1>3, <2>1, <2>2, HandlerSteps
<1>4. ASSUME NEW name \in Names, RegistUser(name)
      PROVE  OneHandlerAtATime' /\ MeetingsAreOrphans'
  BY <1>4 DEF RegistUser, Active, procs, history
<1>5. CASE CallerCrashes
  BY <1>5, NoneAssumption DEF CallerCrashes, Active
<1>6. CASE CallerRestarts
  BY <1>6 DEF CallerRestarts, Active, TypeOK, history
<1>7. CASE LoseMysql
  BY <1>7 DEF LoseMysql, Active, history
<1>8. CASE ServerCrashes
  <2>1. Active' = {}
    BY <1>8, ZenonT(40) DEF ServerCrashes, Active, SqlSteps, TypeOK, Handler
  <2> QED
    BY <1>8, <2>1 DEF ServerCrashes
<1>9. CASE ServerRestarts
  BY <1>9 DEF ServerRestarts, Active, history
<1>10. CASE UNCHANGED vars
  BY <1>10 DEF vars, procs, history, Active
<1> QED
  BY <1>1, <1>2, <1>3, <1>4, <1>5, <1>6, <1>7, <1>8, <1>9, <1>10 DEF Next

LEMMA HandlerWrites ==
  ASSUME TypeOK, WrittenInv, NEW c \in Calls, Handle(c)
  PROVE  /\ \A d \in Calls \ {c} : wrote'[d] = wrote[d]
         /\ handler'[c].step # "done" => wrote'[c] = Nothing
         /\ c \notin spoilt' /\ handler'[c].step = "done" =>
              TrueOf(wrote'[c], handler'[c].answer)
<1>1. wrote[c] = Nothing /\ handler[c] \in Handler
  BY HandlerSteps DEF WrittenInv, Active, TypeOK
<1>2. c \notin spoilt' => Alone(c)
  BY HandlerSteps
<1>3. \A op \in Ops : TrueOf(Nothing, Answer(op, FALSE))
  BY DEF Ops, TrueOf, Answer
<1>4. CASE GetUserId(c)
  <2>1. wrote' = wrote
    BY <1>4 DEF GetUserId
  <2>2. handler'[c].step # "done"
    <3>1. PICK id \in LookupBy(c, handler[c].user_name) :
             handler' = [handler EXCEPT ![c].step = "get_friend", ![c].user_id = id]
      BY <1>4 DEF GetUserId
    <3> QED
      BY <1>1, <3>1 DEF TypeOK, Handler
  <2> QED
    BY <1>1, <2>1, <2>2
<1>5. CASE GetFriendId(c)
  <2>1. wrote' = wrote
    BY <1>5 DEF GetFriendId
  <2>2. handler'[c].step = "done" => handler'[c].answer = Answer(handler[c].op, FALSE)
    <3>1. PICK id \in LookupBy(c, handler[c].friend_name) :
             handler' = [handler EXCEPT ![c] =
               IF handler[c].user_id = -1 \/ id = -1
                 THEN Finished(@, FALSE)
                 ELSE [@ EXCEPT !.step = "write", !.friend_id = id]]
      BY <1>5 DEF GetFriendId
    <3>2. [handler[c] EXCEPT !.step = "write", !.friend_id = id].step = "write"
      BY <1>1 DEF Handler
    <3>3. handler'[c] \in {Finished(handler[c], FALSE),
                           [handler[c] EXCEPT !.step = "write", !.friend_id = id]}
      BY <3>1 DEF TypeOK
    <3> QED
      BY <1>1, <3>2, <3>3, FinishedType
  <2>3. handler[c].op \in Ops
    BY <1>1 DEF Handler
  <2> QED
    BY <1>1, <1>3, <2>1, <2>2, <2>3
<1>6. CASE WriteFriendship(c)
  <2>1. PICK done \in BOOLEAN, ok \in BOOLEAN :
           /\ Alone(c) => done = ok
           /\ handler' = [handler EXCEPT ![c] = Finished(@, ok)]
           /\ IF done
                THEN wrote' = [wrote EXCEPT ![c] =
                                [op |-> handler[c].op, pair |-> PairOf(c)]]
                ELSE UNCHANGED wrote
    BY <1>6 DEF WriteFriendship
  <2>2. handler'[c].step = "done" /\ handler'[c].answer = Answer(handler[c].op, ok)
    BY <1>1, <2>1, FinishedType DEF TypeOK
  <2>3. ASSUME Alone(c)
        PROVE  TrueOf(wrote'[c], handler'[c].answer)
    <3>1. handler[c].op \in Ops
      BY <1>1 DEF Handler
    <3>2. CASE ok
      <4>1. wrote' = [wrote EXCEPT ![c] = [op |-> handler[c].op, pair |-> PairOf(c)]]
        BY <2>1, <2>3, <3>2
      <4>2. wrote'[c].op = handler[c].op
        BY <4>1 DEF TypeOK
      <4> QED
        BY <2>2, <3>1, <3>2, <4>2 DEF Ops, TrueOf, Answer
    <3>3. CASE ~ok
      <4>1. wrote'[c] = Nothing
        BY <1>1, <2>1, <2>3, <3>3
      <4> QED
        BY <1>3, <2>2, <3>1, <3>3, <4>1
    <3> QED
      BY <3>2, <3>3
  <2>4. \A d \in Calls \ {c} : wrote'[d] = wrote[d]
    BY <2>1 DEF TypeOK
  <2> QED
    BY <1>2, <2>2, <2>3, <2>4
<1> QED
  BY <1>4, <1>5, <1>6 DEF Handle

LEMMA WrittenNext ==
  TypeOK /\ WrittenInv /\ RepliesTruthful /\ [Next]_vars
    => WrittenInv' /\ RepliesTruthful'
<1> SUFFICES ASSUME TypeOK, WrittenInv, RepliesTruthful, [Next]_vars
             PROVE  WrittenInv' /\ RepliesTruthful'
  OBVIOUS
<1> USE DEF WrittenInv, RepliesTruthful
<1>1. ASSUME NEW c \in Calls, NEW op \in Ops, NEW user \in Names, NEW friend \in Names,
             CallStub(c, op, user, friend)
      PROVE  WrittenInv' /\ RepliesTruthful'
  <2>1. /\ handler'[c].step \in {"get_user", "gone"}
        /\ \A d \in Calls \ {c} : handler'[d] = handler[d]
    <3> DEFINE step == IF server_up THEN "get_user" ELSE "gone"
    <3>1. handler' = [handler EXCEPT ![c] =
                       [handler[c] EXCEPT !.step = step, !.op = op, !.user_name = user,
                                          !.friend_name = friend]]
      BY <1>1 DEF CallStub
    <3>2. step \in {"get_user", "gone"}
      OBVIOUS
    <3> HIDE DEF step
    <3>3. [handler[c] EXCEPT !.step = step, !.op = op, !.user_name = user,
                             !.friend_name = friend].step = step
      <4>1. handler[c] \in Handler
        BY DEF TypeOK
      <4> QED
        BY <4>1 DEF Handler
    <3> QED
      BY <3>1, <3>2, <3>3 DEF TypeOK
  <2>2. UNCHANGED <<reply, wrote, cut, spoilt>> /\ handler[c].step = "new"
    BY <1>1 DEF CallStub
  <2>3. wrote[c] = Nothing /\ reply[c] = "none"
    BY <2>2
  <2>4. WrittenInv'
    <3> SUFFICES ASSUME NEW d \in Calls
                 PROVE  /\ handler'[d].step \in {"new"} \cup SqlSteps => wrote'[d] = Nothing
                        /\ reply'[d] # "none" => handler'[d].step \in {"done", "gone"}
                        /\ d \notin spoilt' =>
                             /\ handler'[d].step = "done" => TrueOf(wrote'[d], handler'[d].answer)
                             /\ handler'[d].step = "gone" /\ d \notin cut' => wrote'[d] = Nothing
      OBVIOUS
    <3> QED
      BY <2>1, <2>2, <2>3
  <2> QED
    BY <2>2, <2>4
<1>2. ASSUME NEW c \in Calls, StubReturns(c)
      PROVE  WrittenInv' /\ RepliesTruthful'
  <2>1. UNCHANGED <<handler, wrote, cut, spoilt>>
    BY <1>2 DEF StubReturns, history
  <2>2. /\ handler[c].step \in {"done", "gone"}
        /\ \A d \in Calls \ {c} : reply'[d] = reply[d]
        /\ reply'[c] = IF handler[c].step = "done" THEN handler[c].answer ELSE ""
    BY <1>2 DEF StubReturns, TypeOK
  <2>3. WrittenInv'
    BY <2>1, <2>2
  <2>4. RepliesTruthful'
    <3> SUFFICES ASSUME NEW d \in Calls, d \notin spoilt
                 PROVE  /\ reply'[d] = "add success" => wrote[d].op = "add"
                        /\ reply'[d] = "delete success" => wrote[d].op = "delete"
                        /\ reply'[d] = "delete fail" => wrote[d] = Nothing
                        /\ reply'[d] = "" /\ d \notin cut => wrote[d] = Nothing
      BY <2>1
    <3>1. CASE d # c
      BY <2>2, <3>1
    <3>2. CASE d = c /\ handler[c].step = "done"
      BY <2>2, <3>2 DEF TrueOf
    <3>3. CASE d = c /\ handler[c].step = "gone"
      BY <2>2, <3>3
    <3> QED
      BY <2>2, <3>1, <3>2, <3>3
  <2> QED
    BY <2>3, <2>4
<1>3. ASSUME NEW c \in Calls, Handle(c)
      PROVE  WrittenInv' /\ RepliesTruthful'
  <2>1. /\ \A d \in Calls \ {c} : handler'[d] = handler[d] /\ wrote'[d] = wrote[d]
        /\ reply' = reply /\ cut' = cut /\ spoilt \subseteq spoilt'
        /\ handler'[c].step \in {"get_friend", "write", "done"}
        /\ reply[c] = "none"
    BY <1>3, HandlerSteps, HandlerWrites, ZenonT(40) DEF Active, SqlSteps
  <2>2. RepliesTruthful'
    BY <2>1, ZenonT(40)
  <2>3. /\ handler'[c].step # "done" => wrote'[c] = Nothing
        /\ c \notin spoilt' /\ handler'[c].step = "done" =>
             TrueOf(wrote'[c], handler'[c].answer)
    BY <1>3, HandlerWrites
  <2>4. WrittenInv'
    <3> SUFFICES ASSUME NEW d \in Calls
                 PROVE  /\ handler'[d].step \in {"new"} \cup SqlSteps => wrote'[d] = Nothing
                        /\ reply'[d] # "none" => handler'[d].step \in {"done", "gone"}
                        /\ d \notin spoilt' =>
                             /\ handler'[d].step = "done" => TrueOf(wrote'[d], handler'[d].answer)
                             /\ handler'[d].step = "gone" /\ d \notin cut' => wrote'[d] = Nothing
      OBVIOUS
    <3>1. CASE d # c
      BY <2>1, <3>1
    <3>2. CASE d = c
      BY <2>1, <2>3, <3>2 DEF SqlSteps
    <3> QED
      BY <3>1, <3>2
  <2> QED
    BY <2>2, <2>4
<1>4. ASSUME NEW name \in Names, RegistUser(name)
      PROVE  WrittenInv' /\ RepliesTruthful'
  BY <1>4 DEF RegistUser, history
<1>5. CASE CallerCrashes
  BY <1>5 DEF CallerCrashes
<1>6. CASE CallerRestarts
  BY <1>6 DEF CallerRestarts, history
<1>7. CASE LoseMysql
  BY <1>7 DEF LoseMysql, history
<1>8. CASE ServerCrashes
  <2> DEFINE hit == {c \in Calls : handler[c].step \in SqlSteps \/ caller.call = c}
  <2>1. /\ UNCHANGED <<reply, wrote, spoilt>>
        /\ cut' = cut \cup hit
        /\ \A c \in Calls : IF c \in hit THEN handler'[c].step = "gone"
                                         ELSE handler'[c] = handler[c]
    <3>1. \A c \in Calls :
            [handler[c] EXCEPT !.step = "gone", !.user_id = 0, !.friend_id = 0].step = "gone"
      <4>1. \A c \in Calls : handler[c] \in Handler
        BY DEF TypeOK
      <4> QED
        BY <4>1 DEF Handler
    <3> QED
      BY <1>8, <3>1 DEF ServerCrashes
  <2> HIDE DEF hit
  <2> QED
    BY <2>1 DEF SqlSteps
<1>9. CASE ServerRestarts
  BY <1>9 DEF ServerRestarts, history
<1>10. CASE UNCHANGED vars
  BY <1>10 DEF vars, history
<1> QED
  BY <1>1, <1>2, <1>3, <1>4, <1>5, <1>6, <1>7, <1>8, <1>9, <1>10 DEF Next
-----------------------------------------------------------------------------
(* A handler that has the connection to itself keeps and writes ids of the *)
(* names it was called with.                                               *)
LEMMA HandlerNames ==
  ASSUME TypeOK, WrittenInv, NamedInv, NEW c \in known, Handle(c), c \notin spoilt'
  PROVE  LET users(n) == IdsNamed(t_wechat_users, n) IN
         /\ handler'[c].step \in {"get_friend", "write"} =>
              handler'[c].user_id \in {-1} \cup users(handler[c].user_name)
         /\ handler'[c].step = "write" =>
              handler'[c].user_id # -1 /\ handler'[c].friend_id \in users(handler[c].friend_name)
         /\ wrote'[c] # Nothing =>
              /\ wrote'[c].pair[1] \in users(handler[c].user_name)
              /\ wrote'[c].pair[2] \in users(handler[c].friend_name)
<1> DEFINE users(n) == IdsNamed(t_wechat_users, n)
<1> HIDE DEF users
<1>1. /\ c \in Calls /\ handler[c] \in Handler
      /\ handler \in [Calls -> Handler]
      /\ t_wechat_users \in Seq(UserRow)
  BY DEF TypeOK
<1>2. Alone(c) /\ c \notin spoilt
  BY <1>1, HandlerSteps
<1>3. wrote[c] = Nothing
  BY <1>1, HandlerSteps DEF WrittenInv, Active
<1>4. /\ users(handler[c].user_name) # {} /\ users(handler[c].friend_name) # {}
      /\ handler[c].step \in {"get_friend", "write"} =>
           handler[c].user_id \in {-1} \cup users(handler[c].user_name)
      /\ handler[c].step = "write" =>
           handler[c].user_id # -1 /\ handler[c].friend_id \in users(handler[c].friend_name)
  BY <1>2 DEF NamedInv, users
<1>5. CASE GetUserId(c)
  <2>1. PICK id \in LookupBy(c, handler[c].user_name) :
           handler' = [handler EXCEPT ![c].step = "get_friend", ![c].user_id = id]
    BY <1>5 DEF GetUserId
  <2>2. id \in {-1} \cup users(handler[c].user_name)
    BY <1>1, <1>2, <1>4, LookupResult DEF users
  <2>3. handler'[c].step = "get_friend" /\ handler'[c].user_id = id
    BY <1>1, <2>1 DEF Handler
  <2>4. wrote' = wrote
    BY <1>5 DEF GetUserId
  <2> QED
    BY <1>3, <2>2, <2>3, <2>4 DEF users
<1>6. CASE GetFriendId(c)
  <2>1. PICK id \in LookupBy(c, handler[c].friend_name) :
           handler' = [handler EXCEPT ![c] =
             IF handler[c].user_id = -1 \/ id = -1
               THEN Finished(@, FALSE)
               ELSE [@ EXCEPT !.step = "write", !.friend_id = id]]
    BY <1>6 DEF GetFriendId
  <2>2. id \in {-1} \cup users(handler[c].friend_name)
    BY <1>1, <1>2, <1>4, LookupResult DEF users
  <2>3. wrote' = wrote /\ handler[c].step = "get_friend"
    BY <1>6 DEF GetFriendId
  <2> DEFINE h == [handler[c] EXCEPT !.step = "write", !.friend_id = id]
  <2>4. h.step = "write" /\ h.user_id = handler[c].user_id /\ h.friend_id = id
    BY <1>1 DEF Handler
  <2> HIDE DEF h
  <2>5. CASE handler[c].user_id = -1 \/ id = -1
    <3>1. handler'[c].step = "done"
      BY <1>1, <2>1, <2>5, FinishedType
    <3> QED
      BY <1>3, <2>3, <3>1
  <2>6. CASE ~(handler[c].user_id = -1 \/ id = -1)
    <3>1. handler'[c] = h
      BY <1>1, <2>1, <2>6 DEF h
    <3> QED
      BY <1>3, <1>4, <2>2, <2>3, <2>4, <2>6, <3>1 DEF users
  <2> QED
    BY <2>5, <2>6
<1>7. CASE WriteFriendship(c)
  <2>1. PICK done \in BOOLEAN, ok \in BOOLEAN :
           /\ handler' = [handler EXCEPT ![c] = Finished(@, ok)]
           /\ IF done
                THEN wrote' = [wrote EXCEPT ![c] =
                                [op |-> handler[c].op, pair |-> PairOf(c)]]
                ELSE UNCHANGED wrote
    BY <1>7 DEF WriteFriendship
  <2>2. handler'[c].step = "done"
    BY <1>1, <2>1, FinishedType
  <2>3. wrote'[c] # Nothing => wrote'[c].pair = PairOf(c)
    BY <1>1, <1>3, <2>1 DEF TypeOK
  <2>4. handler[c].step = "write"
    BY <1>7 DEF WriteFriendship
  <2> QED
    BY <1>4, <2>2, <2>3, <2>4 DEF PairOf, users
<1> QED
  BY <1>5, <1>6, <1>7 DEF Handle

LEMMA NamedNext ==
  TypeOK /\ WrittenInv /\ NamedInv /\ WritesNamedPair /\ [Next]_vars
    => NamedInv' /\ WritesNamedPair'
<1> SUFFICES ASSUME TypeOK, WrittenInv, NamedInv, WritesNamedPair, [Next]_vars
             PROVE  NamedInv' /\ WritesNamedPair'
  OBVIOUS
<1> USE DEF NamedInv, WritesNamedPair
<1>1. ASSUME NEW c \in Calls, NEW op \in Ops, NEW user \in Names, NEW friend \in Names,
             CallStub(c, op, user, friend)
      PROVE  NamedInv' /\ WritesNamedPair'
  <2>1. /\ handler'[c].step \in {"get_user", "gone"}
        /\ handler'[c].user_name = user /\ handler'[c].friend_name = friend
        /\ \A d \in Calls \ {c} : handler'[d] = handler[d]
    <3> DEFINE step == IF server_up THEN "get_user" ELSE "gone"
    <3>1. handler' = [handler EXCEPT ![c] =
                       [handler[c] EXCEPT !.step = step, !.op = op, !.user_name = user,
                                          !.friend_name = friend]]
      BY <1>1 DEF CallStub
    <3>2. handler[c] \in Handler /\ step \in {"get_user", "gone"}
      BY DEF TypeOK
    <3> HIDE DEF step
    <3> DEFINE h == [handler[c] EXCEPT !.step = step, !.op = op, !.user_name = user,
                                       !.friend_name = friend]
    <3>3. h.step = step /\ h.user_name = user /\ h.friend_name = friend
      BY <3>2 DEF Handler
    <3> HIDE DEF h
    <3>4. handler' = [handler EXCEPT ![c] = h]
      BY <3>1 DEF h
    <3> QED
      BY <3>2, <3>3, <3>4 DEF TypeOK
  <2>2. /\ UNCHANGED <<t_wechat_users, wrote, spoilt>>
        /\ handler[c].step = "new" /\ wrote[c] = Nothing
        /\ known' \subseteq known \cup {c}
        /\ c \in known' \ known =>
             IdsNamed(t_wechat_users, user) # {} /\ IdsNamed(t_wechat_users, friend) # {}
        /\ c \notin known /\ known \subseteq Calls
    BY <1>1 DEF CallStub, tables, WrittenInv, TypeOK
  <2> QED
    BY <2>1, <2>2
<1>2. ASSUME NEW c \in Calls, StubReturns(c)
      PROVE  NamedInv' /\ WritesNamedPair'
  BY <1>2 DEF StubReturns, tables, history
<1>3. ASSUME NEW c \in Calls, Handle(c)
      PROVE  NamedInv' /\ WritesNamedPair'
  <2>1. /\ \A d \in Calls \ {c} : handler'[d] = handler[d] /\ wrote'[d] = wrote[d]
        /\ known' = known /\ known \subseteq Calls /\ t_wechat_users' = t_wechat_users
        /\ spoilt \subseteq spoilt'
        /\ handler'[c].step # "new"
        /\ handler'[c].user_name = handler[c].user_name
        /\ handler'[c].friend_name = handler[c].friend_name
    BY <1>3, HandlerSteps, HandlerWrites DEF TypeOK
  <2> DEFINE users(n) == IdsNamed(t_wechat_users, n)
  <2>2. c \in known /\ c \notin spoilt' =>
         /\ handler'[c].step \in {"get_friend", "write"} =>
              handler'[c].user_id \in {-1} \cup users(handler[c].user_name)
         /\ handler'[c].step = "write" =>
              handler'[c].user_id # -1 /\ handler'[c].friend_id \in users(handler[c].friend_name)
         /\ wrote'[c] # Nothing =>
              /\ wrote'[c].pair[1] \in users(handler[c].user_name)
              /\ wrote'[c].pair[2] \in users(handler[c].friend_name)
    BY <1>3, HandlerNames
  <2> QED
    BY <2>1, <2>2
<1>4. ASSUME NEW name \in Names, RegistUser(name)
      PROVE  NamedInv' /\ WritesNamedPair'
  <2>1. \A n : IdsNamed(t_wechat_users, n) \subseteq IdsNamed(t_wechat_users', n)
    <3>1. [name |-> name] \in UserRow /\ t_wechat_users \in Seq(UserRow)
      BY DEF UserRow, TypeOK
    <3> QED
      BY <1>4, <3>1, UsersGrow DEF RegistUser
  <2>2. UNCHANGED <<handler, wrote, known, spoilt>>
    BY <1>4 DEF RegistUser, history
  <2> QED
    BY <2>1, <2>2 DEF TypeOK
<1>5. CASE CallerCrashes
  BY <1>5 DEF CallerCrashes, tables
<1>6. CASE CallerRestarts
  BY <1>6 DEF CallerRestarts, tables, history
<1>7. CASE LoseMysql
  BY <1>7 DEF LoseMysql, tables, history
<1>8. CASE ServerCrashes
  <2>1. /\ UNCHANGED <<t_wechat_users, wrote, known, spoilt>>
        /\ \A c \in Calls :
             \/ handler'[c] = handler[c]
             \/ /\ handler'[c].step = "gone"
                /\ handler'[c].user_name = handler[c].user_name
                /\ handler'[c].friend_name = handler[c].friend_name
    <3> DEFINE h(c) == [handler[c] EXCEPT !.step = "gone", !.user_id = 0, !.friend_id = 0]
    <3>1. \A c \in Calls : /\ h(c).step = "gone"
                           /\ h(c).user_name = handler[c].user_name
                           /\ h(c).friend_name = handler[c].friend_name
      <4>1. \A c \in Calls : handler[c] \in Handler
        BY DEF TypeOK
      <4> QED
        BY <4>1 DEF Handler
    <3>2. \A c \in Calls : handler'[c] \in {handler[c], h(c)}
      BY <1>8 DEF ServerCrashes
    <3> HIDE DEF h
    <3> QED
      BY <1>8, <3>1, <3>2 DEF ServerCrashes, tables
  <2> QED
    BY <2>1, ZenonT(40) DEF TypeOK
<1>9. CASE ServerRestarts
  BY <1>9 DEF ServerRestarts, tables, history
<1>10. CASE UNCHANGED vars
  BY <1>10 DEF vars, tables, history
<1> QED
  BY <1>1, <1>2, <1>3, <1>4, <1>5, <1>6, <1>7, <1>8, <1>9, <1>10 DEF Next
-----------------------------------------------------------------------------
LEMMA ServiceInit == Init => ServiceInv
<1> SUFFICES ASSUME Init PROVE ServiceInv
  OBVIOUS
<1>1. \A c \in Calls : /\ handler[c].step = "new" /\ reply[c] = "none"
                       /\ wrote[c] = Nothing
  BY DEF Init, New
<1>2. Active = {} /\ known = {} /\ spoilt = {}
  BY <1>1 DEF Init, Active, SqlSteps
<1> QED
  BY <1>1, <1>2
  DEF ServiceInv, OneHandlerAtATime, MeetingsAreOrphans, WrittenInv, RepliesTruthful,
      NamedInv, WritesNamedPair

LEMMA ServiceNext == TypeOK /\ ServiceInv /\ [Next]_vars => ServiceInv'
BY MeetNext, WrittenNext, NamedNext DEF ServiceInv

(* The invariant behind the next theorems: what a call wrote and what its  *)
(* handler is about to answer or to write, and which calls met.            *)
THEOREM ServiceCorrect == Spec => []ServiceInv
BY TypeCorrect, ServiceInit, ServiceNext, PTL DEF Spec

(* No two handlers use the connection at a time unless a chat server died  *)
(* in a call (the stubs of WechatServiceClient.h block).                   *)
THEOREM OneHandler == Spec => []OneHandlerAtATime
<1>1. ServiceInv => OneHandlerAtATime
  BY DEF ServiceInv
<1> QED
  BY <1>1, ServiceCorrect, PTL

(* The text that reaches the user is true of what the call did, also       *)
(* across crashes of either side and a connection lost on the way.         *)
THEOREM Truthful == Spec => []RepliesTruthful
<1>1. ServiceInv => RepliesTruthful
  BY DEF ServiceInv
<1> QED
  BY <1>1, ServiceCorrect, PTL

(* What is written is the pair the request names, user first.              *)
THEOREM NamedPair == Spec => []WritesNamedPair
<1>1. ServiceInv => WritesNamedPair
  BY DEF ServiceInv
<1> QED
  BY <1>1, ServiceCorrect, PTL
=============================================================================
