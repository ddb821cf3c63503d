---------------------------- MODULE ClientSession ----------------------------
(***************************************************************************)
(* One client program (client.cpp) and its connection: the two threads of  *)
(* the client, the byte stream in each direction, and what handle_client   *)
(* does at the other end.                                                  *)
(*                                                                         *)
(* TCP keeps the order of the bytes but not the bounds of the messages: a  *)
(* recv returns any prefix of what has arrived that its buffer can hold.   *)
(* Neither side puts the pieces together: json_2_msg parses what one recv  *)
(* returned, cJSON_Parse reads the object at the start of it and ignores   *)
(* what follows, and a text that starts inside a message is no request.    *)
(* Streams are sequences of units of some bytes; a message is Len units.   *)
(***************************************************************************)
EXTENDS Integers, Sequences, FiniteSets

CONSTANTS
  Users,       (* accounts; the name of one stands for its user_id         *)
  ReplyLen,    (* ReplyLen[u]: units of the success reply to u             *)
  LoginLen,    (* units of a login or regist request                       *)
  CmdLens,     (* units of an add, delete or communicate request           *)
  VerifyBuf,   (* server_reply[256] of VeriFy                              *)
  RecvBuf,     (* server_reply[512] of RecvMsg, json_string[512]           *)
  MaxLogins,   (* bound: logins the user tries                             *)
  MaxCmds,     (* bound: commands the user gives                           *)
  MaxTexts,    (* bound: messages of friends                               *)
  NoUser

ASSUME UserAssumption == NoUser \notin Users
ASSUME LenAssumption ==
  /\ ReplyLen \in [Users -> Nat \ {0}] /\ LoginLen \in Nat \ {0}
  /\ CmdLens \subseteq Nat \ {0}
  /\ VerifyBuf \in Nat \ {0} /\ RecvBuf \in Nat \ {0}
ASSUME BoundAssumption == MaxLogins \in Nat /\ MaxCmds \in Nat /\ MaxTexts \in Nat

VARIABLES
  ui,          (* where ThreadUserUI is                                    *)
  bg,          (* where ThreadBackGround is                                *)
  shared_int,
  msg,         (* the user_id, user_name and is_login of the message       *)
  to_server, to_client,  (* the streams                                    *)
  up,          (* is the server there?                                     *)
  bound_to,    (* the user that map_socket_user has for this socket        *)
  logins, cmds, texts,   (* how many were made                             *)
  (* history, read by properties only                                      *)
  welcomed,    (* the success replies of the server, in order              *)
  handled,     (* the commands that the server handled, in order           *)
  cut_reply,   (* did a recv of VeriFy end inside a message?               *)
  misled,      (* did VeriFy take what a user typed for a reply?           *)
  cut_request  (* did a recv of the server not begin and end with one?     *)

client  == <<ui, bg, shared_int, msg>>
streams == <<to_server, to_client>>
counts  == <<logins, cmds, texts>>
history == <<welcomed, handled, cut_reply, misled, cut_request>>
vars    == <<client, streams, up, bound_to, counts, history>>

Kinds == {"login", "command", "reply", "text", "typed"}
Message == [kind : Kinds, user : Users \cup {NoUser}, no : Nat]
Identity == [user_id : Users \cup {NoUser}, user_name : Users \cup {NoUser},
             is_login : {0, 1}]

(* "text" is in the words of the servers: a failure, the date of a saved   *)
(* message, the start of an answer.  It is no JSON object, nor is an end   *)
(* of it.  "typed" is what a user typed and the server writes as it is:    *)
(* the content of a message, the name of a friend.  It is any text, and a  *)
(* JSON object may start wherever a recv does.                             *)
Text  == [kind |-> "text", user |-> NoUser, no |-> 0]
Typed == [kind |-> "typed", user |-> NoUser, no |-> 0]

Units(m, len) == [i \in 1..len |-> [of |-> m, at |-> i, len |-> len]]

(* What a recv with a buffer of size buf may return.                       *)
Windows(stream, buf) ==
  {SubSeq(stream, 1, n) : n \in {k \in 1..Len(stream) : k <= buf}}

Rest(stream, window) == SubSeq(stream, Len(window) + 1, Len(stream))

(* The text begins with a message that is there to its end.                *)
Parses(window) ==
  window # <<>> /\ window[1].at = 1 /\ Len(window) >= window[1].len

EndsInside(window) ==
  window # <<>> /\ window[Len(window)].at # window[Len(window)].len

IsReply(window) == Parses(window) /\ window[1].of.kind = "reply"

IsTyped(window) == window # <<>> /\ window[1].of.kind = "typed"

(* A saved message, with its date in front of it; the refusal of the       *)
(* friend service, with the name that the user typed behind it.            *)
TextAndTyped == Units(Text, 1) \o Units(Typed, 1)

Init ==
  /\ ui = "ask" /\ bg = "spin" /\ shared_int = 0
  /\ msg = [user_id |-> NoUser, user_name |-> NoUser, is_login |-> 0]
  /\ to_server = <<>> /\ to_client = <<>>
  /\ up = TRUE /\ bound_to = NoUser
  /\ logins = 0 /\ cmds = 0 /\ texts = 0
  /\ welcomed = <<>> /\ handled = <<>>
  /\ cut_reply = FALSE /\ misled = FALSE /\ cut_request = FALSE
-----------------------------------------------------------------------------
(* ThreadUserUI.                                                           *)

(* send: when the server is gone it fails, and sooner or later SIGPIPE     *)
(* ends the program.                                                       *)
SendThen(units, next) ==
  \/ up /\ to_server' = to_server \o units /\ ui' = next
  \/ ~up /\ ui' \in {next, "ended"} /\ UNCHANGED to_server

(* VeriFy, to the recv: the user types a name.                             *)
AskLogin(u) ==
  /\ ui = "ask" /\ logins < MaxLogins
  /\ logins' = logins + 1
  /\ msg' = [msg EXCEPT !.user_name = u, !.is_login = 0]
  /\ SendThen(Units([kind |-> "login", user |-> u, no |-> logins], LoginLen),
              "verify")
  /\ UNCHANGED <<bg, shared_int, to_client, up, bound_to, cmds, texts, history>>

LoggedInAs(u) == [user_id |-> u, user_name |-> u, is_login |-> 1]

(* Two faults of Taken: the reply does not carry the name; what follows    *)
(* the reply spoils it.                                                    *)
TakenWithoutName(window) ==
  IF IsReply(window) THEN {[msg EXCEPT !.user_id = window[1].of.user, !.is_login = 1]}
  ELSE IF IsTyped(window) THEN Identity
  ELSE {msg}

TakenIfExact(window) ==
  IF IsReply(window) /\ Len(window) = window[1].len THEN {LoggedInAs(window[1].of.user)}
  ELSE IF IsTyped(window) THEN Identity
  ELSE {msg}

(* What json_2_msg may make of the message.  A success reply holds the     *)
(* user's message as the server parsed it, with user_id and is_login       *)
(* filled in: all fields are overwritten.  What a user typed may set some, *)
(* all or none of them, to anything.  The rest leaves them as they are.    *)
Taken(window) ==
  IF IsReply(window) THEN {LoggedInAs(window[1].of.user)}
  ELSE IF IsTyped(window) THEN Identity
  ELSE {msg}

(* ThreadUserUI calls VeriFy again as long as it returns false and the     *)
(* user_id is 0.                                                           *)
GoOn ==
  ui' = IF msg'.is_login = 1 \/ msg'.user_id # NoUser THEN "command" ELSE "ask"

(* A fault of Believe: the flag is set before the check.                   *)
BelieveAnyway(window) ==
  msg' \in Taken(window) /\ shared_int' = 1 /\ GoOn

(* VeriFy believes the is_login of what it received.                       *)
Believe(window) ==
  /\ msg' \in Taken(window)
  /\ shared_int' = IF msg'.is_login = 1 THEN 1 ELSE shared_int
  /\ GoOn

(* VeriFy from the recv on.  What follows the reply in the buffer is gone. *)
VeriFy ==
  /\ ui = "verify"
  /\ \/ \E window \in Windows(to_client, VerifyBuf) :
           /\ Believe(window)
           /\ to_client' = Rest(to_client, window)
           /\ cut_reply' = (cut_reply \/ EndsInside(window))
           /\ misled' = (misled \/ (IsTyped(window) /\ ui' = "command"))
     \/ /\ ~up /\ to_client = <<>>
        /\ Believe(<<>>)
        /\ UNCHANGED <<to_client, cut_reply, misled>>
  /\ UNCHANGED <<bg, to_server, up, bound_to, counts, welcomed, handled, cut_request>>

(* A command: sent, and not waited for.  Without a user_id the next round  *)
(* of ThreadUserUI asks for a login again.                                 *)
UserCommand(len) ==
  /\ ui = "command" /\ cmds < MaxCmds
  /\ cmds' = cmds + 1
  /\ SendThen(Units([kind |-> "command", user |-> msg.user_name, no |-> cmds + 1],
                    len),
              IF msg.user_id = NoUser THEN "ask" ELSE "command")
  /\ UNCHANGED <<bg, shared_int, msg, to_client, up, bound_to, logins, texts, history>>
-----------------------------------------------------------------------------
(* ThreadBackGround.                                                       *)

SeeSharedInt ==
  /\ ui # "ended" /\ bg = "spin" /\ shared_int = 1
  /\ bg' = "recv"
  /\ UNCHANGED <<ui, shared_int, msg, streams, up, bound_to, counts, history>>

(* RecvMsg prints what it gets.  When the server is gone it comes back at  *)
(* once, and prints an empty line, for ever.                               *)
RecvMsg ==
  /\ ui # "ended" /\ bg = "recv"
  /\ \/ \E window \in Windows(to_client, RecvBuf) :
           to_client' = Rest(to_client, window)
     \/ ~up /\ to_client = <<>> /\ UNCHANGED to_client
  /\ bg' = "spin"
  /\ UNCHANGED <<ui, shared_int, msg, to_server, up, bound_to, counts, history>>
-----------------------------------------------------------------------------
(* The server.                                                             *)

(* A fault of Rejects: a failed login is not answered.                     *)
RejectsSilently == UNCHANGED <<to_client, bound_to, welcomed, handled>>

Rejects ==
  /\ to_client' = to_client \o Units(Text, 1)
  /\ UNCHANGED <<bound_to, welcomed, handled>>

(* A fault of Welcomes: the offline messages go before the reply.          *)
WelcomesLast(u) ==
  /\ \E offline \in {<<>>, TextAndTyped} :
        to_client' = to_client
          \o offline \o Units([kind |-> "reply", user |-> u, no |-> 0], ReplyLen[u])
  /\ bound_to' = IF bound_to = NoUser THEN u ELSE bound_to
  /\ welcomed' = Append(welcomed, u)
  /\ UNCHANGED handled

(* The success reply, the binding, and the offline message if any.         *)
Welcomes(u) ==
  /\ \E offline \in {<<>>, TextAndTyped} :
        to_client' = to_client
          \o Units([kind |-> "reply", user |-> u, no |-> 0], ReplyLen[u]) \o offline
  /\ bound_to' = IF bound_to = NoUser THEN u ELSE bound_to
  /\ welcomed' = Append(welcomed, u)
  /\ UNCHANGED handled

(* add and delete are answered, an add that fails with nothing;            *)
(* communicate and users are not.                                          *)
Handles(m) ==
  /\ \E answer \in {<<>>, Units(Text, 1), TextAndTyped} :
        to_client' = to_client \o answer
  /\ handled' = Append(handled, m)
  /\ UNCHANGED <<bound_to, welcomed>>

(* What handle_client does with what it received.                          *)
Answers(window) ==
  IF ~Parses(window)
    THEN UNCHANGED <<to_client, bound_to, welcomed, handled>>
    ELSE LET m == window[1].of IN
         \/ m.kind = "login" /\ (Welcomes(m.user) \/ Rejects)
         \/ m.kind = "command" /\ Handles(m)

(* A fault of HandleClient: what follows the first request is to be kept   *)
(* for the next recv, and everything is.                                   *)
HandleClientKeeps ==
  /\ up
  /\ \E window \in Windows(to_server, RecvBuf) :
        /\ Answers(window)
        /\ to_server' = IF Parses(window) /\ Len(window) > window[1].len
                          THEN to_server ELSE Rest(to_server, window)
        /\ cut_request' = (cut_request \/ ~Parses(window) \/ Len(window) > window[1].len)
  /\ UNCHANGED <<client, up, counts, cut_reply, misled>>

HandleClient ==
  /\ up
  /\ \E window \in Windows(to_server, RecvBuf) :
        /\ Answers(window)
        /\ to_server' = Rest(to_server, window)
        /\ cut_request' = (cut_request \/ ~Parses(window) \/ Len(window) > window[1].len)
  /\ UNCHANGED <<client, up, counts, cut_reply, misled>>

(* SendToFriend in the handler of another client, or of this one: the      *)
(* content as it was typed.                                                *)
FriendWrites ==
  /\ up /\ welcomed # <<>> /\ texts < MaxTexts
  /\ texts' = texts + 1
  /\ to_client' = to_client \o Units(Typed, 1)
  /\ UNCHANGED <<client, to_server, up, bound_to, logins, cmds, history>>

(* The server dies.  A reset may drop what the client has not read.        *)
ServerDies ==
  /\ up /\ up' = FALSE
  /\ to_server' = <<>> /\ to_client' \in {to_client, <<>>}
  /\ bound_to' = NoUser
  /\ UNCHANGED <<client, counts, history>>

Next ==
  \/ \E u \in Users : AskLogin(u)
  \/ VeriFy
  \/ \E len \in CmdLens : UserCommand(len)
  \/ SeeSharedInt \/ RecvMsg
  \/ HandleClient \/ FriendWrites \/ ServerDies

Spec == Init /\ [][Next]_vars

(* Both threads of the client and the loop of the server keep running.     *)
FairSpec ==
  Spec /\ WF_vars(VeriFy) /\ WF_vars(SeeSharedInt) /\ WF_vars(RecvMsg)
       /\ WF_vars(HandleClient)
-----------------------------------------------------------------------------
(* Properties.                                                             *)

Unit == [of : Message, at : Nat, len : Nat]

(* Every variable has its type.                                            *)
TypeOK ==
  /\ ui \in {"ask", "verify", "command", "ended"} /\ bg \in {"spin", "recv"}
  /\ shared_int \in {0, 1}
  /\ msg \in Identity
  /\ to_server \in Seq(Unit) /\ to_client \in Seq(Unit)
  /\ up \in BOOLEAN /\ bound_to \in Users \cup {NoUser}
  /\ logins \in Nat /\ cmds \in Nat /\ texts \in Nat
  /\ welcomed \in Seq(Users) /\ handled \in Seq(Message)
  /\ cut_reply \in BOOLEAN /\ misled \in BOOLEAN /\ cut_request \in BOOLEAN

(* A message of a friend passes for the reply to a login only after a      *)
(* reply was cut: whatever failures and cut requests there were, whatever  *)
(* the friends write and wherever the server goes, the reply is the first  *)
(* thing VeriFy reads after a welcome (client.cpp:38-46, server.cpp:174).  *)
FriendsNotBelieved == misled => cut_reply

(* The two threads never wait in recv on the one socket together: the      *)
(* unsynchronised shared_int hands it over, once, and VeriFy is not called *)
(* again after that (client.cpp:46, 74, 97); also after a cut reply, as    *)
(* long as nothing but a reply is taken for one.                           *)
OneReader == ~misled => ~(ui = "verify" /\ bg = "recv")

(* The user the client takes itself for was logged in by the server on     *)
(* this connection, under the name the client puts into its requests; also *)
(* when the reply it read answers an earlier attempt with another name,    *)
(* because one of the replies before was cut (client.cpp:38-46).  Without  *)
(* a cut, it is also the user that the second table of the server has.     *)
(* Nothing of this holds for a client that took a friend's text for the    *)
(* reply.                                                                  *)
IdentityIsWelcomed ==
  ~misled /\ msg.user_id # NoUser =>
    /\ msg.user_name = msg.user_id
    /\ \E i \in DOMAIN welcomed : welcomed[i] = msg.user_id
    /\ up /\ ~cut_reply => bound_to = msg.user_id

(* No command is handled twice and none before one that was sent earlier,  *)
(* however the stream is cut and whatever the client believes; and unless  *)
(* it took a friend's text for the reply, each is in the name of a user    *)
(* that logged in on the connection: handle_client itself does not check.  *)
HandledInOrder ==
  /\ \A i, j \in DOMAIN handled : i < j => handled[i].no < handled[j].no
  /\ ~misled => \A i \in DOMAIN handled :
                  \E k \in DOMAIN welcomed : welcomed[k] = handled[i].user

(* A client logs in once on its connection, if no reply is cut: whatever   *)
(* failures came before and whatever follows the reply in the buffer.      *)
LoginOnce == ~cut_reply => Len(welcomed) <= 1

(* VeriFy waits for an answer that is not coming, neither side having      *)
(* anything to read, only if the server read a request in pieces or with   *)
(* something behind it, or the other thread reads the socket too: a        *)
(* failure is answered like a success.                                     *)
AnswerComes ==
  up /\ ui = "verify" /\ to_server = <<>> /\ to_client = <<>>
    => cut_request \/ shared_int = 1

(* The recv of VeriFy, which has no timeout, comes back, whether the       *)
(* server is there or not, unless a request was cut or the other thread    *)
(* reads the socket too.                                                   *)
VeriFyReturns ==
  ui = "verify" ~> (ui # "verify" \/ cut_request \/ shared_int = 1)
=============================================================================
