------------------------ MODULE ClientSessionProofs ------------------------
(***************************************************************************)
(* However the two byte streams are cut, only a client whose reply was cut *)
(* takes a friend's text for a reply; any other one acts for a user that   *)
(* the server welcomed, its commands are handled in their order, and its   *)
(* threads never read together: for any users, lengths and buffers.        *)
(***************************************************************************)
EXTENDS ClientSession, SequenceTheorems, TLAPS

-----------------------------------------------------------------------------
(* The streams.                                                            *)

LEMMA UnitsProperties ==
  ASSUME NEW m \in Message, NEW len \in Nat
  PROVE  /\ Units(m, len) \in Seq(Unit)
         /\ Len(Units(m, len)) = len
         /\ \A i \in 1 .. len : Units(m, len)[i] = [of |-> m, at |-> i, len |-> len]
<1>1. \A i \in 1 .. len : [of |-> m, at |-> i, len |-> len] \in Unit
  BY DEF Unit
<1>2. Units(m, len) \in [1 .. len -> Unit]
  BY <1>1 DEF Units
<1>3. Units(m, len) \in Seq(Unit)
  BY <1>2, SeqDef
<1> QED
  BY <1>2, <1>3, LenProperties DEF Units

(* What the server writes that is no reply.                                *)
Words == {<<>>, Units(Text, 1), Units(Typed, 1), TextAndTyped}

LEMMA WordsProperties ==
  /\ Text.kind = "text" /\ Typed.kind = "typed"
  /\ \A m \in {Text, Typed} :
       /\ Units(m, 1) \in Seq(Unit) /\ Len(Units(m, 1)) = 1
       /\ Units(m, 1)[1] = [of |-> m, at |-> 1, len |-> 1]
  /\ \A w \in Words :
       /\ w \in Seq(Unit) /\ Len(w) \in Nat
       /\ \A i \in 1 .. Len(w) : w[i].of \in {Text, Typed}
<1>1. Text \in Message /\ Typed \in Message /\ Text.kind = "text" /\ Typed.kind = "typed"
  BY DEF Text, Typed, Message, Kinds
<1>2. ASSUME NEW m \in {Text, Typed}
      PROVE  /\ Units(m, 1) \in Seq(Unit) /\ Len(Units(m, 1)) = 1
             /\ Units(m, 1)[1] = [of |-> m, at |-> 1, len |-> 1]
             /\ \A i \in 1 .. 1 : Units(m, 1)[i].of = m
  <2>1. 1 \in Nat /\ 1 \in 1 .. 1 /\ m \in Message
    BY <1>1
  <2>2. /\ Units(m, 1) \in Seq(Unit) /\ Len(Units(m, 1)) = 1
        /\ \A i \in 1 .. 1 : Units(m, 1)[i] = [of |-> m, at |-> i, len |-> 1]
    BY <2>1, UnitsProperties
  <2> QED
    BY <2>1, <2>2
<1>3. ASSUME NEW w \in Words
      PROVE  /\ w \in Seq(Unit) /\ Len(w) \in Nat
             /\ \A i \in 1 .. Len(w) : w[i].of \in {Text, Typed}
  <2>1. CASE w = <<>>
    BY <2>1, EmptySeq
  <2>2. CASE w \in {Units(Text, 1), Units(Typed, 1)}
    BY <1>2, <2>2
  <2>3. CASE w = TextAndTyped
    <3> DEFINE a == Units(Text, 1)
               b == Units(Typed, 1)
    <3>1. /\ a \in Seq(Unit) /\ Len(a) = 1 /\ \A i \in 1 .. 1 : a[i].of = Text
          /\ b \in Seq(Unit) /\ Len(b) = 1 /\ \A i \in 1 .. 1 : b[i].of = Typed
      BY <1>2
    <3>2. w = a \o b
      BY <2>3 DEF TextAndTyped
    <3> HIDE DEF a, b
    <3>3. /\ w \in Seq(Unit) /\ Len(w) = Len(a) + Len(b)
          /\ \A i \in 1 .. Len(a) + Len(b) :
               w[i] = IF i <= Len(a) THEN a[i] ELSE b[i - Len(a)]
      BY <3>1, <3>2, ConcatProperties
    <3>4. ASSUME NEW i \in 1 .. Len(w) PROVE w[i].of \in {Text, Typed}
      <4>1. w[i] = a[1] \/ w[i] = b[1]
        BY <3>1, <3>3
      <4>2. 1 \in 1 .. 1
        OBVIOUS
      <4> QED
        BY <3>1, <4>1, <4>2
    <3> QED
      BY <3>1, <3>3, <3>4
  <2> QED
    BY <2>1, <2>2, <2>3 DEF Words
<1> QED
  BY <1>1, <1>2, <1>3

(* What a recv returns is the start of the stream, and not empty.          *)
LEMMA WindowProperties ==
  ASSUME NEW stream \in Seq(Unit), NEW buf, NEW window \in Windows(stream, buf)
  PROVE  /\ window \in Seq(Unit)
         /\ Len(window) \in 1 .. Len(stream)
         /\ \A i \in 1 .. Len(window) : window[i] = stream[i]
         /\ Rest(stream, window) \in Seq(Unit)
         /\ Len(Rest(stream, window)) = Len(stream) - Len(window)
         /\ \A i \in 1 .. Len(stream) - Len(window) :
              Rest(stream, window)[i] = stream[i + Len(window)]
<1>1. Len(stream) \in Nat /\ \A i \in 1 .. Len(stream) : stream[i] \in Unit
  BY LenProperties, ElementOfSeq
<1>2. PICK n \in 1 .. Len(stream) : window = SubSeq(stream, 1, n)
  BY DEF Windows
<1>3. /\ SubSeq(stream, 1, n) \in Seq(Unit)
      /\ Len(SubSeq(stream, 1, n)) = IF 1 <= n THEN n - 1 + 1 ELSE 0
      /\ \A i \in 1 .. n - 1 + 1 : SubSeq(stream, 1, n)[i] = stream[1 + i - 1]
  <2>1. 1 \in Int /\ n \in Int /\ \A i \in 1 .. n : stream[i] \in Unit
    BY <1>1
  <2> QED
    BY <2>1, SubSeqProperties
<1>4. /\ window \in Seq(Unit) /\ Len(window) = n
      /\ \A i \in 1 .. Len(window) : window[i] = stream[i]
  BY <1>1, <1>2, <1>3
<1> DEFINE rest == SubSeq(stream, n + 1, Len(stream))
<1>5. /\ rest \in Seq(Unit)
      /\ Len(rest) = IF n + 1 <= Len(stream) THEN Len(stream) - (n + 1) + 1 ELSE 0
      /\ \A i \in 1 .. Len(stream) - (n + 1) + 1 : rest[i] = stream[n + 1 + i - 1]
  <2>1. /\ n + 1 \in Int /\ Len(stream) \in Int
        /\ \A i \in n + 1 .. Len(stream) : stream[i] \in Unit
    BY <1>1
  <2> QED
    BY <2>1, SubSeqProperties
<1>6. Rest(stream, window) = rest
  BY <1>4 DEF Rest
<1> HIDE DEF rest
<1> QED
  BY <1>1, <1>4, <1>5, <1>6

(* What is added to a stream stands behind what was there.                 *)
LEMMA JoinProperties ==
  ASSUME NEW a \in Seq(Unit), NEW b \in Seq(Unit)
  PROVE  /\ a \o b \in Seq(Unit)
         /\ Len(a \o b) = Len(a) + Len(b)
         /\ Len(a) \in Nat /\ Len(b) \in Nat
         /\ \A i \in 1 .. Len(a) : (a \o b)[i] = a[i]
         /\ \A i \in 1 .. Len(a) + Len(b) :
              \/ i \in 1 .. Len(a) /\ (a \o b)[i] = a[i]
              \/ i - Len(a) \in 1 .. Len(b) /\ (a \o b)[i] = b[i - Len(a)]
<1>1. Len(a) \in Nat /\ Len(b) \in Nat
  BY LenProperties
<1>2. /\ a \o b \in Seq(Unit)
      /\ Len(a \o b) = Len(a) + Len(b)
      /\ \A i \in 1 .. Len(a) + Len(b) :
           (a \o b)[i] = IF i <= Len(a) THEN a[i] ELSE b[i - Len(a)]
  BY ConcatProperties
<1> QED
  BY <1>1, <1>2
-----------------------------------------------------------------------------
Greeted == {welcomed[i] : i \in DOMAIN welcomed}

(* Commands in the stream to the server, and the first unit of one.        *)
IsCommand(i) == to_server[i].of.kind = "command"

Begins(i) == IsCommand(i) /\ to_server[i].at = 1

(* Where the interface is tells what the client believes and who reads.    *)
HandoverInv ==
  /\ bg = "recv" => shared_int = 1
  /\ shared_int = 1 /\ ~misled => ui \in {"command", "ended"}
  /\ ui \in {"ask", "verify"} => msg.user_id = NoUser
  /\ ui = "verify" => msg.is_login = 0
  /\ ui = "command" => msg.user_id # NoUser \/ (misled /\ shared_int = 1)
  /\ ~misled /\ msg.user_id # NoUser => msg.user_name = msg.user_id
  /\ ui = "ended" => ~up

(* The identity travels from the server to the client in replies, and back *)
(* in commands, which only a client sends that has logged in, or has been  *)
(* misled.                                                                 *)
IdentityInv ==
  /\ ~misled /\ msg.user_id # NoUser => msg.user_id \in Greeted
  /\ \A i \in DOMAIN to_client : to_client[i].of.kind = "reply" =>
       to_client[i].of.user \in Greeted
  /\ \A i \in DOMAIN to_server :
       \/ to_server[i].of.kind = "login" /\ to_server[i].of.user \in Users
       \/ /\ IsCommand(i)
          /\ ~misled => to_server[i].of.user \in Greeted
          /\ ui \in {"command", "ended"} \/ shared_int = 1
  /\ ~misled => \A i \in DOMAIN handled : handled[i].user \in Greeted

(* Commands are numbered in the order in which they are sent.              *)
OrderInv ==
  /\ \A i, j \in DOMAIN to_server : i < j /\ IsCommand(i) /\ Begins(j) =>
       to_server[i].of.no < to_server[j].of.no
  /\ \A i \in DOMAIN handled, j \in DOMAIN to_server : Begins(j) =>
       handled[i].no < to_server[j].of.no
  /\ \A j \in DOMAIN to_server : IsCommand(j) => to_server[j].of.no <= cmds
  /\ \A i \in DOMAIN handled : handled[i].no <= cmds
  /\ \A i, j \in DOMAIN handled : i < j => handled[i].no < handled[j].no

(* The second table of the server knows the user it welcomed first.        *)
BoundInv ==
  up => bound_to = IF welcomed = <<>> THEN NoUser ELSE welcomed[1]

(* Before a welcome there is the end of one login request on its way to    *)
(* the server, or one failure on its way back, or nothing; the welcome is  *)
(* the first the client reads, and it asks no more.                        *)
RequestOnItsWay ==
  /\ to_client = <<>>
  /\ \A i \in DOMAIN to_server :
       /\ to_server[i].of.kind = "login"
       /\ to_server[i].len - to_server[i].at = Len(to_server) - i

FailureOnItsWay == to_server = <<>> /\ to_client = Units(Text, 1)

ReplyAhead(u) ==
  /\ Len(to_client) >= ReplyLen[u]
  /\ \A i \in 1 .. ReplyLen[u] :
       to_client[i] = [of |-> [kind |-> "reply", user |-> u, no |-> 0],
                       at |-> i, len |-> ReplyLen[u]]

WelcomeOnItsWay(u) == to_server = <<>> /\ ReplyAhead(u)

DialogueInv ==
  up /\ ~cut_reply =>
    IF welcomed = <<>>
      THEN \/ ui = "ask" /\ to_server = <<>> /\ to_client = <<>>
           \/ ui = "verify" /\ (RequestOnItsWay \/ FailureOnItsWay)
      ELSE \/ ui = "verify" /\ WelcomeOnItsWay(welcomed[1])
           \/ ui = "command" /\ \A i \in DOMAIN to_server : IsCommand(i)

(* What VeriFy reads next is not typed, or the welcome is before it; also  *)
(* when the server is gone.                                                *)
TypedInv ==
  ~cut_reply /\ ui \in {"ask", "verify"} =>
    \/ \A i \in DOMAIN to_client : to_client[i].of.kind # "typed"
    \/ ui = "verify" /\ welcomed # <<>> /\ ReplyAhead(welcomed[1])

SessionInv ==
  /\ TypeOK /\ HandoverInv /\ IdentityInv /\ OrderInv /\ BoundInv
  /\ DialogueInv /\ LoginOnce /\ AnswerComes /\ TypedInv /\ FriendsNotBelieved
-----------------------------------------------------------------------------
LEMMA SessionInit == Init => SessionInv
<1> SUFFICES ASSUME Init PROVE SessionInv
  OBVIOUS
<1>1. TypeOK
  <2>1. [user_id |-> NoUser, user_name |-> NoUser, is_login |-> 0]
          \in Identity
    BY DEF Identity
  <2>2. <<>> \in Seq(Unit) /\ <<>> \in Seq(Users) /\ <<>> \in Seq(Message)
    BY EmptySeq
  <2> QED
    BY <2>1, <2>2 DEF Init, TypeOK
<1>3. HandoverInv /\ BoundInv /\ LoginOnce /\ AnswerComes
  BY DEF Init, HandoverInv, BoundInv, LoginOnce, AnswerComes
<1>2. IdentityInv /\ OrderInv /\ DialogueInv /\ TypedInv /\ FriendsNotBelieved
  BY DEF Init, IdentityInv, OrderInv, DialogueInv, TypedInv, FriendsNotBelieved
<1> QED
  BY <1>1, <1>2, <1>3 DEF SessionInv

(* What send does to the stream and to the interface.                      *)
LEMMA SendProperties ==
  ASSUME to_server \in Seq(Unit), up \in BOOLEAN,
         NEW m \in Message, NEW len \in Nat, NEW next, SendThen(Units(m, len), next)
  PROVE  /\ ui' = next \/ (ui' = "ended" /\ ~up)
         /\ to_server' \in Seq(Unit)
         /\ Len(to_server') = IF up THEN Len(to_server) + len ELSE Len(to_server)
         /\ \A i \in 1 .. Len(to_server) : to_server'[i] = to_server[i]
         /\ \A i \in DOMAIN to_server' :
              \/ i \in DOMAIN to_server /\ to_server'[i] = to_server[i]
              \/ /\ i > Len(to_server) /\ i - Len(to_server) \in 1 .. len
                 /\ to_server'[i] = [of |-> m, at |-> i - Len(to_server), len |-> len]
<1> DEFINE units == Units(m, len)
<1>1. /\ units \in Seq(Unit) /\ Len(units) = len
      /\ \A i \in 1 .. len : units[i] = [of |-> m, at |-> i, len |-> len]
  BY UnitsProperties
<1> HIDE DEF units
<1>2. CASE up
  <2>1. to_server' = to_server \o units /\ ui' = next
    BY <1>2 DEF SendThen, units
  <2>2. /\ to_server \o units \in Seq(Unit)
        /\ Len(to_server \o units) = Len(to_server) + len
        /\ Len(to_server) \in Nat
        /\ \A i \in 1 .. Len(to_server) : (to_server \o units)[i] = to_server[i]
        /\ \A i \in 1 .. Len(to_server) + len :
             \/ i \in 1 .. Len(to_server) /\ (to_server \o units)[i] = to_server[i]
             \/ /\ i - Len(to_server) \in 1 .. len
                /\ (to_server \o units)[i] = units[i - Len(to_server)]
    BY <1>1, JoinProperties
  <2>3. /\ DOMAIN to_server' = 1 .. Len(to_server) + len
        /\ DOMAIN to_server = 1 .. Len(to_server)
    BY <2>1, <2>2, LenProperties
  <2>4. ASSUME NEW i \in DOMAIN to_server'
        PROVE  \/ i \in DOMAIN to_server /\ to_server'[i] = to_server[i]
               \/ /\ i > Len(to_server) /\ i - Len(to_server) \in 1 .. len
                  /\ to_server'[i] = [of |-> m, at |-> i - Len(to_server), len |-> len]
    <3>1. CASE i \in 1 .. Len(to_server)
      BY <2>1, <2>2, <2>3, <3>1
    <3>2. CASE i \notin 1 .. Len(to_server)
      <4>1. i \in 1 .. Len(to_server) + len
        BY <2>3
      <4>2. i - Len(to_server) \in 1 .. len /\ to_server'[i] = units[i - Len(to_server)]
        BY <2>1, <2>2, <3>2, <4>1
      <4> QED
        BY <1>1, <2>2, <3>2, <4>1, <4>2
    <3> QED
      BY <3>1, <3>2
  <2>5. /\ to_server' \in Seq(Unit) /\ Len(to_server') = Len(to_server) + len
        /\ \A i \in 1 .. Len(to_server) : to_server'[i] = to_server[i]
    BY <2>1, <2>2
  <2> QED
    BY <1>2, <2>1, <2>4, <2>5
<1>3. CASE ~up
  BY <1>3 DEF SendThen
<1> QED
  BY <1>2, <1>3

LEMMA AskLoginNext ==
  ASSUME SessionInv, NEW u \in Users, AskLogin(u)
  PROVE  SessionInv'
<1> DEFINE m == [kind |-> "login", user |-> u, no |-> logins]
<1>1. /\ TypeOK /\ HandoverInv /\ IdentityInv /\ OrderInv /\ BoundInv
      /\ DialogueInv /\ LoginOnce /\ AnswerComes /\ TypedInv /\ FriendsNotBelieved
  BY DEF SessionInv
<1>2. /\ ui = "ask" /\ logins' = logins + 1
      /\ msg' = [msg EXCEPT !.user_name = u, !.is_login = 0]
      /\ SendThen(Units(m, LoginLen), "verify")
      /\ UNCHANGED <<bg, shared_int, to_client, up, bound_to, cmds, texts,
                     welcomed, handled, cut_reply, misled, cut_request>>
  BY DEF AskLogin, history
<1>3. m \in Message /\ LoginLen \in Nat \ {0}
  BY <1>1, LenAssumption DEF TypeOK, Message, Kinds
<1>4. m.kind = "login" /\ m.user = u
  OBVIOUS
<1> HIDE DEF m
<1>5. /\ ui' = "verify" \/ (ui' = "ended" /\ ~up)
      /\ to_server' \in Seq(Unit)
      /\ Len(to_server') = IF up THEN Len(to_server) + LoginLen ELSE Len(to_server)
      /\ \A i \in DOMAIN to_server' :
           \/ i \in DOMAIN to_server /\ to_server'[i] = to_server[i]
           \/ /\ i > Len(to_server) /\ i - Len(to_server) \in 1 .. LoginLen
              /\ to_server'[i] = [of |-> m, at |-> i - Len(to_server), len |-> LoginLen]
  <2>1. to_server \in Seq(Unit) /\ up \in BOOLEAN
    BY <1>1 DEF TypeOK
  <2> QED
    BY <1>2, <1>3, <2>1, SendProperties
<1>6. msg.user_id = NoUser
  BY <1>1, <1>2 DEF HandoverInv
<1>7. msg' \in Identity /\ msg'.user_id = NoUser /\ msg'.is_login = 0
  BY <1>1, <1>2, <1>6 DEF TypeOK, Identity
<1>8. \A i \in DOMAIN to_server' :
        \/ i \in DOMAIN to_server /\ to_server'[i] = to_server[i]
        \/ /\ to_server'[i].of.kind = "login" /\ to_server'[i].of.user \in Users
           /\ i > Len(to_server)
  BY <1>4, <1>5
<1>9. TypeOK'
  BY <1>1, <1>2, <1>5, <1>7 DEF TypeOK
<1>10. HandoverInv'
  BY <1>1, <1>2, <1>5, <1>7 DEF HandoverInv
<1>11. IdentityInv'
  <2>1. \A i \in DOMAIN to_server' :
          \/ to_server'[i].of.kind = "login" /\ to_server'[i].of.user \in Users
          \/ /\ IsCommand(i)'
             /\ ~misled => to_server'[i].of.user \in Greeted
             /\ shared_int = 1
    BY <1>1, <1>2, <1>8 DEF IdentityInv, IsCommand
  <2> QED
    BY <1>1, <1>2, <1>7, <2>1 DEF IdentityInv, Greeted
<1>12. OrderInv'
  <2>1. \A i \in DOMAIN to_server' : IsCommand(i)' =>
          i \in DOMAIN to_server /\ to_server'[i] = to_server[i]
    BY <1>8 DEF IsCommand
  <2> QED
    BY <1>1, <1>2, <2>1 DEF OrderInv, IsCommand, Begins
<1>13. BoundInv' /\ LoginOnce' /\ FriendsNotBelieved'
  BY <1>1, <1>2 DEF BoundInv, LoginOnce, FriendsNotBelieved
<1>14. AnswerComes'
  <2>1. up => Len(to_server') # 0
    BY <1>1, <1>3, <1>5, LenProperties DEF TypeOK
  <2> QED
    BY <1>2, <2>1 DEF AnswerComes
<1>15. TypedInv'
  BY <1>1, <1>2, <1>5 DEF TypedInv
<1>16. DialogueInv'
  <2> SUFFICES ASSUME up, ~cut_reply PROVE DialogueInv'
    BY <1>2 DEF DialogueInv
  <2>1. welcomed = <<>> /\ to_server = <<>> /\ to_client = <<>>
    BY <1>1, <1>2 DEF DialogueInv
  <2>2. Len(to_server') = LoginLen /\ Len(to_server) = 0
    BY <1>3, <1>5, <2>1
  <2>3. \A i \in DOMAIN to_server' :
          /\ to_server'[i].of.kind = "login"
          /\ to_server'[i].len - to_server'[i].at = Len(to_server') - i
    <3> SUFFICES ASSUME NEW i \in DOMAIN to_server'
                 PROVE  /\ to_server'[i].of.kind = "login"
                        /\ to_server'[i].len - to_server'[i].at = Len(to_server') - i
      OBVIOUS
    <3>1. i \in 1 .. LoginLen
      BY <1>5, <2>2, LenProperties
    <3>2. to_server'[i] = [of |-> m, at |-> i - 0, len |-> LoginLen]
      BY <1>5, <2>1, <2>2
    <3> QED
      BY <1>3, <1>4, <2>2, <3>1, <3>2
  <2>4. RequestOnItsWay'
    BY <1>2, <2>1, <2>3 DEF RequestOnItsWay
  <2> QED
    BY <1>2, <1>5, <2>1, <2>4 DEF DialogueInv
<1> QED
  BY <1>9, <1>10, <1>11, <1>12, <1>13, <1>14, <1>15, <1>16 DEF SessionInv

LEMMA UserCommandNext ==
  ASSUME SessionInv, NEW len \in CmdLens, UserCommand(len)
  PROVE  SessionInv'
<1> DEFINE m == [kind |-> "command", user |-> msg.user_name, no |-> cmds + 1]
<1>1. /\ TypeOK /\ HandoverInv /\ IdentityInv /\ OrderInv /\ BoundInv
      /\ DialogueInv /\ LoginOnce /\ AnswerComes /\ TypedInv /\ FriendsNotBelieved
  BY DEF SessionInv
<1>2. /\ ui = "command" /\ cmds' = cmds + 1
      /\ SendThen(Units(m, len), IF msg.user_id = NoUser THEN "ask" ELSE "command")
      /\ UNCHANGED <<bg, shared_int, msg, to_client, up, bound_to, logins, texts,
                     welcomed, handled, cut_reply, misled, cut_request>>
  BY DEF UserCommand, history
<1>3. m \in Message /\ len \in Nat \ {0}
  BY <1>1, LenAssumption DEF TypeOK, Message, Kinds, Identity
<1>4. m.kind = "command" /\ m.user = msg.user_name /\ m.no = cmds + 1
  OBVIOUS
<1> HIDE DEF m
<1>5. /\ \/ ui' = IF msg.user_id = NoUser THEN "ask" ELSE "command"
         \/ ui' = "ended" /\ ~up
      /\ to_server' \in Seq(Unit)
      /\ \A i \in DOMAIN to_server' :
           \/ i \in DOMAIN to_server /\ to_server'[i] = to_server[i]
           \/ /\ i > Len(to_server) /\ i - Len(to_server) \in 1 .. len
              /\ to_server'[i] = [of |-> m, at |-> i - Len(to_server), len |-> len]
  <2>1. to_server \in Seq(Unit) /\ up \in BOOLEAN
    BY <1>1 DEF TypeOK
  <2> QED
    BY <1>2, <1>3, <2>1, SendProperties
<1>6. /\ ~misled => m.user \in Greeted
      /\ msg.user_id # NoUser \/ (misled /\ shared_int = 1)
  BY <1>1, <1>2, <1>4 DEF HandoverInv, IdentityInv
<1>7. TypeOK'
  BY <1>1, <1>2, <1>5 DEF TypeOK
<1>8. HandoverInv'
  BY <1>1, <1>2, <1>5, <1>6 DEF HandoverInv
<1>9. IdentityInv'
  <2>1. \A i \in DOMAIN to_server' :
          \/ to_server'[i].of.kind = "login" /\ to_server'[i].of.user \in Users
          \/ /\ to_server'[i].of.kind = "command"
             /\ ~misled => to_server'[i].of.user \in Greeted
             /\ ui' \in {"command", "ended"} \/ shared_int = 1
    BY <1>1, <1>4, <1>5, <1>6 DEF IdentityInv, IsCommand
  <2> QED
    BY <1>1, <1>2, <2>1 DEF IdentityInv, IsCommand, Greeted
<1>10. OrderInv'
  <2>1. /\ cmds \in Nat /\ DOMAIN to_server = 1 .. Len(to_server) /\ Len(to_server) \in Nat
        /\ DOMAIN to_server' = 1 .. Len(to_server') /\ Len(to_server') \in Nat
        /\ \A i \in DOMAIN to_server : to_server[i].of.no \in Nat
    <3>1. \A i \in DOMAIN to_server : to_server[i] \in Unit
      BY <1>1, LenProperties, ElementOfSeq DEF TypeOK
    <3> QED
      BY <1>1, <1>5, <3>1, LenProperties DEF TypeOK, Unit, Message
  <2>2. \A i \in DOMAIN to_server' :
          \/ i \in DOMAIN to_server /\ to_server'[i] = to_server[i]
          \/ /\ i > Len(to_server) /\ to_server'[i].of.no = cmds + 1
             /\ to_server'[i].at = i - Len(to_server)
    BY <1>4, <1>5
  <2>3. ASSUME NEW i \in DOMAIN to_server', NEW j \in DOMAIN to_server', i < j,
               IsCommand(i)', Begins(j)'
        PROVE  to_server'[i].of.no < to_server'[j].of.no
    <3>1. CASE j \in DOMAIN to_server
      <4>1. i \in DOMAIN to_server
        BY <2>1, <2>3, <3>1
      <4>2. to_server'[i] = to_server[i] /\ to_server'[j] = to_server[j]
        BY <2>1, <2>2, <3>1, <4>1
      <4> QED
        BY <1>1, <2>3, <3>1, <4>1, <4>2 DEF OrderInv, IsCommand, Begins
    <3>2. CASE j \notin DOMAIN to_server
      <4>1. to_server'[j].of.no = cmds + 1 /\ j = Len(to_server) + 1
        BY <2>1, <2>2, <2>3, <3>2 DEF Begins
      <4>2. i \in DOMAIN to_server /\ to_server'[i] = to_server[i]
        BY <2>1, <2>2, <2>3, <4>1
      <4>3. to_server[i].of.no <= cmds
        BY <1>1, <2>3, <4>2 DEF OrderInv, IsCommand
      <4> QED
        BY <2>1, <4>1, <4>2, <4>3
    <3> QED
      BY <3>1, <3>2
  <2>4. \A i \in DOMAIN handled : handled[i].no \in Nat
    <3>1. \A i \in DOMAIN handled : handled[i] \in Message
      BY <1>1, LenProperties, ElementOfSeq DEF TypeOK
    <3> QED
      BY <3>1 DEF Message
  <2>5. ASSUME NEW i \in DOMAIN handled', NEW j \in DOMAIN to_server', Begins(j)'
        PROVE  handled'[i].no < to_server'[j].of.no
    <3>1. CASE j \in DOMAIN to_server /\ to_server'[j] = to_server[j]
      BY <1>1, <1>2, <2>5, <3>1 DEF OrderInv, IsCommand, Begins
    <3>2. CASE to_server'[j].of.no = cmds + 1
      BY <1>1, <1>2, <2>1, <2>4, <3>2 DEF OrderInv
    <3> QED
      BY <2>2, <3>1, <3>2
  <2>6. \A j \in DOMAIN to_server' : IsCommand(j)' => to_server'[j].of.no <= cmds'
    BY <1>1, <1>2, <2>1, <2>2 DEF OrderInv, IsCommand
  <2>7. \A i \in DOMAIN handled' : handled'[i].no <= cmds'
    BY <1>1, <1>2, <2>1, <2>4 DEF OrderInv
  <2>8. \A i, j \in DOMAIN handled' : i < j => handled'[i].no < handled'[j].no
    BY <1>1, <1>2 DEF OrderInv
  <2> QED
    BY <2>3, <2>5, <2>6, <2>7, <2>8 DEF OrderInv
<1>11. BoundInv' /\ LoginOnce' /\ AnswerComes' /\ FriendsNotBelieved' /\ TypedInv'
  BY <1>1, <1>2, <1>5, <1>6
  DEF BoundInv, LoginOnce, AnswerComes, FriendsNotBelieved, TypedInv
<1>12. DialogueInv'
  <2> SUFFICES ASSUME up, ~cut_reply PROVE DialogueInv'
    BY <1>2 DEF DialogueInv
  <2>1. welcomed # <<>> /\ \A i \in DOMAIN to_server : IsCommand(i)
    BY <1>1, <1>2 DEF DialogueInv
  <2>2. \A i \in DOMAIN to_server' : IsCommand(i)'
    BY <1>4, <1>5, <2>1 DEF IsCommand
  <2>3. msg.user_id # NoUser
    BY <1>1, <1>6 DEF FriendsNotBelieved
  <2> QED
    BY <1>2, <1>5, <2>1, <2>2, <2>3 DEF DialogueInv
<1> QED
  BY <1>7, <1>8, <1>9, <1>10, <1>11, <1>12 DEF SessionInv

(* A read takes units from the stream, and adds none.                      *)
LEMMA ClientReads ==
  ASSUME SessionInv, NEW buf, NEW window \in Windows(to_client, buf),
         to_client' = Rest(to_client, window)
  PROVE  /\ to_client' \in Seq(Unit)
         /\ \A i \in DOMAIN to_client' : to_client'[i].of.kind = "reply" =>
              to_client'[i].of.user \in Greeted
         /\ (\A i \in DOMAIN to_client : to_client[i].of.kind # "typed") =>
              \A i \in DOMAIN to_client' : to_client'[i].of.kind # "typed"
         /\ Len(window) \in 1 .. Len(to_client) /\ Len(to_client) \in Nat
         /\ \A i \in 1 .. Len(window) : window[i] = to_client[i]
<1>1. to_client \in Seq(Unit)
  BY DEF SessionInv, TypeOK
<1>2. /\ Len(window) \in 1 .. Len(to_client)
      /\ \A i \in 1 .. Len(window) : window[i] = to_client[i]
      /\ to_client' \in Seq(Unit)
      /\ Len(to_client') = Len(to_client) - Len(window)
      /\ \A i \in 1 .. Len(to_client) - Len(window) :
           to_client'[i] = to_client[i + Len(window)]
  BY <1>1, WindowProperties
<1>3. /\ DOMAIN to_client' = 1 .. Len(to_client) - Len(window)
      /\ DOMAIN to_client = 1 .. Len(to_client) /\ Len(to_client) \in Nat
  BY <1>1, <1>2, LenProperties
<1>4. \A i \in DOMAIN to_client' :
        i + Len(window) \in DOMAIN to_client /\ to_client'[i] = to_client[i + Len(window)]
  BY <1>2, <1>3
<1>5. \A i \in DOMAIN to_client' : to_client'[i].of.kind = "reply" =>
        to_client'[i].of.user \in Greeted
  BY <1>4 DEF SessionInv, IdentityInv
<1> QED
  BY <1>2, <1>3, <1>4, <1>5

LEMMA VeriFyNext ==
  ASSUME SessionInv, VeriFy
  PROVE  SessionInv'
<1>1. /\ TypeOK /\ HandoverInv /\ IdentityInv /\ OrderInv /\ BoundInv
      /\ DialogueInv /\ LoginOnce /\ AnswerComes /\ TypedInv /\ FriendsNotBelieved
  BY DEF SessionInv
<1>2. /\ ui = "verify"
      /\ UNCHANGED <<bg, to_server, up, bound_to, logins, cmds, texts, welcomed,
                     handled, cut_request>>
  BY DEF VeriFy, counts
<1>3. msg.user_id = NoUser /\ msg.is_login = 0 /\ (~misled => shared_int # 1)
  BY <1>1, <1>2 DEF HandoverInv
<1>4. \A i \in DOMAIN to_server : IsCommand(i) => shared_int = 1
  BY <1>1, <1>2 DEF IdentityInv, IsCommand
<1>5. NoUser \notin Greeted /\ Greeted \subseteq Users
  BY <1>1, LenProperties, ElementOfSeq, UserAssumption DEF TypeOK, Greeted
(* Whatever was read, the message is a reply of the server, says nothing,  *)
(* or misled the client.                                                   *)
<1> DEFINE Says == /\ msg' \in Identity
                   /\ shared_int' = IF msg'.is_login = 1 THEN 1 ELSE shared_int
                   /\ ui' = IF msg'.is_login = 1 \/ msg'.user_id # NoUser
                              THEN "command" ELSE "ask"
           Honest == ui' = "ask" \/ \E u \in Greeted : msg' = LoggedInAs(u)
<1>6. ASSUME Says, ~misled' => Honest, misled => misled', misled' \in BOOLEAN,
             to_client' \in Seq(Unit), cut_reply' \in BOOLEAN, cut_reply => cut_reply',
             \A i \in DOMAIN to_client' : to_client'[i].of.kind = "reply" =>
               to_client'[i].of.user \in Greeted
      PROVE  /\ TypeOK' /\ HandoverInv' /\ IdentityInv' /\ OrderInv' /\ BoundInv'
             /\ LoginOnce' /\ AnswerComes'
  <2>1. /\ ui' \in {"ask", "command"} /\ shared_int' \in {0, 1}
        /\ shared_int = 1 => shared_int' = 1
        /\ ui' = "ask" => msg'.user_id = NoUser
        /\ ui' = "command" => msg'.user_id # NoUser \/ shared_int' = 1
    BY <1>1, <1>6 DEF TypeOK
  <2>2. ~misled' =>
          \/ ui' = "ask" /\ shared_int' # 1
          \/ /\ ui' = "command" /\ msg'.user_id # NoUser
             /\ msg'.user_id \in Greeted /\ msg'.user_name = msg'.user_id
    BY <1>3, <1>5, <1>6 DEF LoggedInAs
  <2> HIDE DEF Says, Honest
  <2>3. TypeOK'
    BY <1>1, <1>2, <1>6, <2>1 DEF TypeOK, Says
  <2>4. HandoverInv'
    BY <1>1, <1>2, <2>1, <2>2 DEF HandoverInv
  <2>5. IdentityInv'
    BY <1>1, <1>2, <1>4, <1>6, <2>1, <2>2 DEF IdentityInv, IsCommand, Greeted
  <2>6. OrderInv' /\ BoundInv'
    BY <1>1, <1>2 DEF OrderInv, IsCommand, Begins, BoundInv
  <2>7. LoginOnce' /\ AnswerComes'
    BY <1>1, <1>2, <1>6, <2>1 DEF LoginOnce, AnswerComes
  <2> QED
    BY <2>3, <2>4, <2>5, <2>6, <2>7
<1>7. ASSUME NEW window \in Windows(to_client, VerifyBuf), Believe(window),
             to_client' = Rest(to_client, window),
             cut_reply' = (cut_reply \/ EndsInside(window)),
             misled' = (misled \/ (IsTyped(window) /\ ui' = "command"))
      PROVE  SessionInv'
  <2>1. /\ to_client' \in Seq(Unit)
        /\ \A i \in DOMAIN to_client' : to_client'[i].of.kind = "reply" =>
             to_client'[i].of.user \in Greeted
        /\ (\A i \in DOMAIN to_client : to_client[i].of.kind # "typed") =>
             \A i \in DOMAIN to_client' : to_client'[i].of.kind # "typed"
        /\ Len(window) \in 1 .. Len(to_client) /\ Len(to_client) \in Nat
        /\ \A i \in 1 .. Len(window) : window[i] = to_client[i]
    BY <1>7, ClientReads
  <2>2. 1 \in DOMAIN to_client /\ window[1] = to_client[1] /\ window # <<>>
    BY <1>1, <2>1, LenProperties, EmptySeq DEF TypeOK
  <2>3. /\ msg' \in Taken(window)
        /\ shared_int' = IF msg'.is_login = 1 THEN 1 ELSE shared_int
        /\ ui' = IF msg'.is_login = 1 \/ msg'.user_id # NoUser THEN "command" ELSE "ask"
    BY <1>7 DEF Believe, GoOn
  <2>4. IsReply(window) => window[1].of.user \in Greeted
    BY <1>1, <2>2 DEF IdentityInv, IsReply
  <2>5. /\ IsReply(window) => msg' = LoggedInAs(window[1].of.user) /\ ui' = "command"
        /\ ~IsReply(window) /\ ~IsTyped(window) => msg' = msg /\ ui' = "ask"
    BY <1>3, <2>3 DEF Taken, LoggedInAs
  <2>6. Says
    <3>1. CASE IsReply(window)
      BY <1>5, <2>3, <2>4, <2>5, <3>1 DEF LoggedInAs, Identity
    <3>2. CASE ~IsReply(window) /\ IsTyped(window)
      BY <2>3, <3>2 DEF Taken
    <3>3. CASE ~IsReply(window) /\ ~IsTyped(window)
      BY <1>1, <2>3, <2>5, <3>3 DEF TypeOK
    <3> QED
      BY <3>1, <3>2, <3>3
  <2>7. ~misled' => Honest
    BY <1>7, <2>3, <2>4, <2>5
  <2>8. /\ cut_reply' \in BOOLEAN /\ (cut_reply => cut_reply')
        /\ misled' \in BOOLEAN /\ (misled => misled')
    BY <1>1, <1>7 DEF TypeOK, EndsInside
  <2> HIDE DEF Says, Honest
  <2>9. /\ TypeOK' /\ HandoverInv' /\ IdentityInv' /\ OrderInv' /\ BoundInv'
        /\ LoginOnce' /\ AnswerComes'
    BY <1>6, <2>1, <2>6, <2>7, <2>8
(* A welcome that is ahead is read, or it is cut.                          *)
  <2>10. ASSUME ~cut_reply', welcomed # <<>>, ReplyAhead(welcomed[1])
         PROVE  IsReply(window) /\ ~IsTyped(window)
    <3> DEFINE u == welcomed[1]
               reply == [kind |-> "reply", user |-> u, no |-> 0]
    <3>1. u \in Users
      BY <1>1, <2>10, EmptySeq, ElementOfSeq DEF TypeOK
    <3>2. ReplyLen[u] \in Nat \ {0} /\ reply.kind = "reply"
      BY <3>1, LenAssumption
    <3>3. /\ Len(to_client) >= ReplyLen[u]
          /\ \A i \in 1 .. ReplyLen[u] :
               to_client[i] = [of |-> reply, at |-> i, len |-> ReplyLen[u]]
      BY <2>10 DEF ReplyAhead
    <3> HIDE DEF u, reply
    <3>4. Len(window) >= ReplyLen[u]
      <4>1. SUFFICES ASSUME Len(window) < ReplyLen[u] PROVE FALSE
        BY <2>1, <3>2
      <4>2. Len(window) \in 1 .. ReplyLen[u]
        BY <2>1, <3>2, <4>1
      <4>3. window[Len(window)].at = Len(window) /\ window[Len(window)].len = ReplyLen[u]
        <5>1. window[Len(window)] = to_client[Len(window)]
          BY <2>1
        <5>2. to_client[Len(window)] = [of |-> reply, at |-> Len(window), len |-> ReplyLen[u]]
          BY <3>3, <4>2
        <5> QED
          BY <5>1, <5>2
      <4>4. ~EndsInside(window)
        BY <1>7, <2>10
      <4> QED
        BY <2>2, <4>1, <4>2, <4>3, <4>4 DEF EndsInside
    <3>5. window[1] = [of |-> reply, at |-> 1, len |-> ReplyLen[u]]
      <4>1. 1 \in 1 .. ReplyLen[u]
        BY <3>2
      <4> QED
        BY <2>2, <3>3, <4>1
    <3> QED
      BY <2>2, <3>2, <3>4, <3>5 DEF IsReply, Parses, IsTyped
  <2>11. FriendsNotBelieved'
    <3> SUFFICES ASSUME ~cut_reply', IsTyped(window), ui' = "command" PROVE FALSE
      BY <1>1, <1>7, <2>8 DEF FriendsNotBelieved
    <3>1. window[1].of.kind = "typed"
      BY DEF IsTyped
    <3>2. welcomed # <<>> /\ ReplyAhead(welcomed[1])
      BY <1>1, <1>2, <2>2, <2>8, <3>1 DEF TypedInv
    <3> QED
      BY <2>10, <3>2
  <2>12. TypedInv'
    <3> SUFFICES ASSUME ~cut_reply', ui' # "command"
                 PROVE  \A i \in DOMAIN to_client' : to_client'[i].of.kind # "typed"
      BY DEF TypedInv
    <3>1. CASE \A i \in DOMAIN to_client : to_client[i].of.kind # "typed"
      BY <2>1, <3>1
    <3>2. CASE welcomed # <<>> /\ ReplyAhead(welcomed[1])
      BY <2>5, <2>10, <3>2
    <3> QED
      BY <1>1, <1>2, <2>8, <3>1, <3>2 DEF TypedInv
  <2>13. DialogueInv'
    <3> SUFFICES ASSUME up, ~cut_reply, ~cut_reply'
                 PROVE  DialogueInv'
      BY <1>2, <2>8 DEF DialogueInv
    <3>1. CASE welcomed = <<>>
      <4>1. FailureOnItsWay
        BY <1>1, <1>2, <2>1, <3>1, EmptySeq DEF DialogueInv, RequestOnItsWay
      <4>2. /\ Len(to_client) = 1 /\ to_client[1].of = Text /\ to_server = <<>>
        BY <4>1, WordsProperties DEF FailureOnItsWay
      <4>3. Len(window) = 1 /\ window[1].of.kind = "text"
        BY <2>1, <2>2, <4>2, WordsProperties
      <4>4. ui' = "ask"
        BY <2>5, <4>3 DEF IsReply, IsTyped
      <4>5. to_client' = <<>>
        <5>1. Len(to_client') = 0
          BY <1>1, <1>7, <4>2, <4>3, WindowProperties DEF TypeOK
        <5> QED
          BY <2>1, <5>1, EmptySeq
      <4> QED
        BY <1>2, <3>1, <4>2, <4>4, <4>5 DEF DialogueInv
    <3>2. CASE welcomed # <<>>
      <4>1. to_server = <<>> /\ ReplyAhead(welcomed[1])
        BY <1>1, <1>2, <3>2 DEF DialogueInv, WelcomeOnItsWay
      <4>2. ui' = "command"
        BY <2>5, <2>10, <3>2, <4>1
      <4> QED
        BY <1>2, <3>2, <4>1, <4>2 DEF DialogueInv
    <3> QED
      BY <3>1, <3>2
  <2> QED
    BY <2>9, <2>11, <2>12, <2>13 DEF SessionInv
<1>8. ASSUME ~up, to_client = <<>>, Believe(<<>>), UNCHANGED <<to_client, cut_reply, misled>>
      PROVE  SessionInv'
  <2>1. msg' = msg /\ ui' = "ask" /\ shared_int' = shared_int
    BY <1>3, <1>8 DEF Believe, GoOn, Taken, IsReply, IsTyped, Parses
  <2>2. Says /\ Honest
    BY <1>1, <1>3, <2>1 DEF TypeOK
  <2>3. DialogueInv' /\ FriendsNotBelieved' /\ TypedInv'
    BY <1>1, <1>2, <1>8 DEF DialogueInv, FriendsNotBelieved, TypedInv
  <2>4. /\ to_client' \in Seq(Unit) /\ cut_reply' \in BOOLEAN /\ (cut_reply => cut_reply')
        /\ misled' \in BOOLEAN /\ (misled => misled')
        /\ \A i \in DOMAIN to_client' : to_client'[i].of.kind = "reply" =>
               to_client'[i].of.user \in Greeted
    BY <1>1, <1>8 DEF TypeOK, IdentityInv
  <2> HIDE DEF Says, Honest
  <2> QED
    BY <1>6, <2>2, <2>3, <2>4 DEF SessionInv
<1> QED
  BY <1>7, <1>8 DEF VeriFy

LEMMA SeeSharedIntNext ==
  ASSUME SessionInv, SeeSharedInt
  PROVE  SessionInv'
<1>1. /\ bg' = "recv" /\ shared_int = 1
      /\ UNCHANGED <<ui, shared_int, msg, to_server, to_client, up, bound_to, logins,
                     cmds, texts, welcomed, handled, cut_reply, misled, cut_request>>
  BY DEF SeeSharedInt, streams, counts, history
<1>2. TypeOK' /\ HandoverInv'
  BY <1>1 DEF SessionInv, TypeOK, HandoverInv
<1>3. IdentityInv' /\ OrderInv' /\ BoundInv'
  BY <1>1 DEF SessionInv, IdentityInv, OrderInv, BoundInv, IsCommand, Begins, Greeted
<1>4. LoginOnce' /\ AnswerComes' /\ TypedInv' /\ FriendsNotBelieved'
  BY <1>1
  DEF SessionInv, LoginOnce, AnswerComes, TypedInv, FriendsNotBelieved, ReplyAhead
<1>5. DialogueInv'
  BY <1>1
  DEF SessionInv, DialogueInv, RequestOnItsWay, FailureOnItsWay, WelcomeOnItsWay,
      ReplyAhead, IsCommand
<1> QED
  BY <1>2, <1>3, <1>4, <1>5 DEF SessionInv

LEMMA RecvMsgNext ==
  ASSUME SessionInv, RecvMsg
  PROVE  SessionInv'
<1>1. /\ bg = "recv" /\ bg' = "spin"
      /\ UNCHANGED <<ui, shared_int, msg, to_server, up, bound_to, logins,
                     cmds, texts, welcomed, handled, cut_reply, misled, cut_request>>
  BY DEF RecvMsg, counts, history
<1>2. shared_int = 1 /\ (~cut_reply => ui \in {"command", "ended"} /\ (up => ui = "command"))
  BY <1>1 DEF SessionInv, HandoverInv, FriendsNotBelieved
<1>3. /\ to_client' \in Seq(Unit)
      /\ \A i \in DOMAIN to_client' : to_client'[i].of.kind = "reply" =>
           to_client'[i].of.user \in Greeted
  <2>1. CASE \E window \in Windows(to_client, RecvBuf) : to_client' = Rest(to_client, window)
    BY <2>1, ClientReads
  <2>2. CASE UNCHANGED to_client
    BY <2>2 DEF SessionInv, TypeOK, IdentityInv
  <2> QED
    BY <2>1, <2>2 DEF RecvMsg
<1>4. TypeOK' /\ HandoverInv'
  BY <1>1, <1>3 DEF SessionInv, TypeOK, HandoverInv
<1>5. IdentityInv' /\ OrderInv' /\ BoundInv'
  BY <1>1, <1>3 DEF SessionInv, IdentityInv, OrderInv, BoundInv, IsCommand, Begins, Greeted
<1>6. LoginOnce' /\ AnswerComes' /\ TypedInv' /\ FriendsNotBelieved'
  BY <1>1, <1>2 DEF SessionInv, LoginOnce, AnswerComes, TypedInv, FriendsNotBelieved
<1>7. DialogueInv'
  BY <1>1, <1>2 DEF SessionInv, DialogueInv, IsCommand
<1> QED
  BY <1>4, <1>5, <1>6, <1>7 DEF SessionInv

(* Words are added to the stream to the client: no reply, and nothing in   *)
(* front of the welcome.                                                   *)
LEMMA WordsAdded ==
  ASSUME to_client \in Seq(Unit), NEW w \in Words, to_client' = to_client \o w
  PROVE  /\ to_client' \in Seq(Unit)
         /\ Len(to_client) \in Nat /\ Len(to_client') = Len(to_client) + Len(w)
         /\ Len(w) \in Nat
         /\ \A i \in 1 .. Len(to_client) : to_client'[i] = to_client[i]
         /\ \A i \in DOMAIN to_client' :
              \/ i \in DOMAIN to_client /\ to_client'[i] = to_client[i]
              \/ to_client'[i].of \in {Text, Typed}
<1> DEFINE sum == to_client \o w
<1>1. w \in Seq(Unit) /\ Len(w) \in Nat /\ \A i \in 1 .. Len(w) : w[i].of \in {Text, Typed}
  BY WordsProperties
<1>2. /\ sum \in Seq(Unit)
      /\ Len(to_client) \in Nat /\ Len(sum) = Len(to_client) + Len(w)
      /\ \A i \in 1 .. Len(to_client) : sum[i] = to_client[i]
      /\ \A i \in 1 .. Len(to_client) + Len(w) :
           \/ i \in 1 .. Len(to_client) /\ sum[i] = to_client[i]
           \/ i - Len(to_client) \in 1 .. Len(w) /\ sum[i] = w[i - Len(to_client)]
  BY <1>1, JoinProperties
<1>3. to_client' = sum
  OBVIOUS
<1> HIDE DEF sum
<1>4. DOMAIN to_client = 1 .. Len(to_client) /\ DOMAIN sum = 1 .. Len(to_client) + Len(w)
  BY <1>2, LenProperties
<1>5. ASSUME NEW i \in DOMAIN sum
      PROVE  \/ i \in DOMAIN to_client /\ sum[i] = to_client[i]
             \/ sum[i].of \in {Text, Typed}
  <2>1. \/ i \in 1 .. Len(to_client) /\ sum[i] = to_client[i]
        \/ i - Len(to_client) \in 1 .. Len(w) /\ sum[i] = w[i - Len(to_client)]
    BY <1>2, <1>4
  <2> QED
    BY <1>1, <1>4, <2>1
<1> QED
  BY <1>1, <1>2, <1>3, <1>5

LEMMA TextAdded ==
  ASSUME to_client \in Seq(Unit), to_client' = to_client \o Units(Text, 1)
  PROVE  /\ to_client' \in Seq(Unit)
         /\ Len(to_client) \in Nat /\ Len(to_client') = Len(to_client) + 1
         /\ \A i \in 1 .. Len(to_client) : to_client'[i] = to_client[i]
         /\ \A i \in DOMAIN to_client' :
              \/ i \in DOMAIN to_client /\ to_client'[i] = to_client[i]
              \/ to_client'[i].of = Text
<1> DEFINE units == Units(Text, 1)
           sum == to_client \o units
<1>1. units \in Seq(Unit) /\ Len(units) = 1 /\ units[1].of = Text
  BY WordsProperties
<1> HIDE DEF units
<1>2. /\ sum \in Seq(Unit)
      /\ Len(to_client) \in Nat /\ Len(sum) = Len(to_client) + Len(units)
      /\ \A i \in 1 .. Len(to_client) : sum[i] = to_client[i]
      /\ \A i \in 1 .. Len(to_client) + Len(units) :
           \/ i \in 1 .. Len(to_client) /\ sum[i] = to_client[i]
           \/ i - Len(to_client) \in 1 .. Len(units) /\ sum[i] = units[i - Len(to_client)]
  BY <1>1, JoinProperties
<1>3. to_client' = sum
  BY DEF units
<1> HIDE DEF sum
<1>4. DOMAIN to_client = 1 .. Len(to_client) /\ DOMAIN sum = 1 .. Len(to_client) + 1
  BY <1>1, <1>2, LenProperties
<1>5. \A k \in 1 .. 1 : k = 1
  OBVIOUS
<1>6. \A i \in 1 .. Len(to_client) + 1 :
        \/ i \in 1 .. Len(to_client) /\ sum[i] = to_client[i]
        \/ sum[i].of = Text
  BY <1>1, <1>2, <1>5
<1> QED
  BY <1>1, <1>2, <1>3, <1>4, <1>6

(* A welcome that is ahead stays ahead of what is added.                   *)
LEMMA StaysAhead ==
  ASSUME Len(to_client) \in Nat, NEW k \in Nat, Len(to_client') = Len(to_client) + k,
         \A i \in 1 .. Len(to_client) : to_client'[i] = to_client[i],
         NEW u \in Users, ReplyAhead(u)
  PROVE  ReplyAhead(u)'
<1>1. ReplyLen[u] \in Nat
  BY LenAssumption
<1>2. /\ Len(to_client) >= ReplyLen[u]
      /\ \A i \in 1 .. ReplyLen[u] :
           to_client[i] = [of |-> [kind |-> "reply", user |-> u, no |-> 0],
                           at |-> i, len |-> ReplyLen[u]]
  BY DEF ReplyAhead
<1>3. /\ Len(to_client') >= ReplyLen[u]
      /\ \A i \in 1 .. ReplyLen[u] : to_client'[i] = to_client[i]
  BY <1>1, <1>2
<1> QED
  BY <1>2, <1>3 DEF ReplyAhead

LEMMA FriendWritesNext ==
  ASSUME SessionInv, FriendWrites
  PROVE  SessionInv'
<1>1. /\ up /\ welcomed # <<>> /\ texts' = texts + 1
      /\ to_client' = to_client \o Units(Typed, 1)
      /\ UNCHANGED <<ui, bg, shared_int, msg, to_server, up, bound_to, logins,
                     cmds, welcomed, handled, cut_reply, misled, cut_request>>
  BY DEF FriendWrites, client, history
<1>2. /\ to_client' \in Seq(Unit)
      /\ Len(to_client) \in Nat /\ Len(to_client') = Len(to_client) + 1
      /\ \A i \in 1 .. Len(to_client) : to_client'[i] = to_client[i]
      /\ \A i \in DOMAIN to_client' :
           \/ i \in DOMAIN to_client /\ to_client'[i] = to_client[i]
           \/ to_client'[i].of \in {Text, Typed}
  <2>1. Units(Typed, 1) \in Words /\ Len(Units(Typed, 1)) = 1
    BY WordsProperties DEF Words
  <2> QED
    BY <1>1, <2>1, WordsAdded DEF SessionInv, TypeOK
<1>3. TypeOK' /\ HandoverInv'
  BY <1>1, <1>2 DEF SessionInv, TypeOK, HandoverInv
<1>4. IdentityInv'
  <2>1. \A i \in DOMAIN to_client' : to_client'[i].of.kind = "reply" =>
          to_client'[i].of.user \in Greeted
    BY <1>2, WordsProperties DEF SessionInv, IdentityInv
  <2> QED
    BY <1>1, <2>1 DEF SessionInv, IdentityInv, IsCommand, Greeted
<1>5. OrderInv' /\ BoundInv'
  BY <1>1 DEF SessionInv, OrderInv, BoundInv, IsCommand, Begins
<1>6. LoginOnce' /\ AnswerComes' /\ FriendsNotBelieved'
  <2>1. to_client' # <<>>
    BY <1>2
  <2> QED
    BY <1>1, <2>1 DEF SessionInv, LoginOnce, AnswerComes, FriendsNotBelieved
(* Before the client has read the welcome, the message lies behind it.     *)
<1>7. ASSUME ~cut_reply
      PROVE  \/ ui = "command" /\ \A i \in DOMAIN to_server : IsCommand(i)
             \/ ui = "verify" /\ to_server = <<>> /\ ReplyAhead(welcomed[1])'
  <2>1. CASE ui = "verify" /\ WelcomeOnItsWay(welcomed[1])
    <3> DEFINE u == welcomed[1]
    <3>1. u \in Users
      BY <1>1, EmptySeq, ElementOfSeq DEF SessionInv, TypeOK
    <3>2. to_server = <<>> /\ ReplyAhead(u) /\ u' = u
      BY <1>1, <2>1 DEF WelcomeOnItsWay
    <3> HIDE DEF u
    <3>3. 1 \in Nat
      OBVIOUS
    <3>4. /\ Len(to_client') >= ReplyLen[u]
          /\ \A i \in 1 .. ReplyLen[u] :
               to_client'[i] = [of |-> [kind |-> "reply", user |-> u, no |-> 0],
                                at |-> i, len |-> ReplyLen[u]]
      BY <1>2, <3>1, <3>2, <3>3, StaysAhead DEF ReplyAhead
    <3> QED
      BY <2>1, <3>2, <3>4 DEF ReplyAhead, u
  <2> QED
    BY <1>1, <1>7, <2>1 DEF SessionInv, DialogueInv
<1>8. DialogueInv'
  BY <1>1, <1>7 DEF DialogueInv, WelcomeOnItsWay, IsCommand
<1>9. TypedInv'
  BY <1>1, <1>7 DEF TypedInv
<1> QED
  BY <1>3, <1>4, <1>5, <1>6, <1>8, <1>9 DEF SessionInv

LEMMA ServerDiesNext ==
  ASSUME SessionInv, ServerDies
  PROVE  SessionInv'
<1>1. /\ up' = FALSE /\ to_server' = <<>> /\ to_client' \in {to_client, <<>>}
      /\ bound_to' = NoUser
      /\ UNCHANGED <<ui, bg, shared_int, msg, logins, cmds, texts, welcomed,
                     handled, cut_reply, misled, cut_request>>
  BY DEF ServerDies, client, counts, history
<1>2. <<>> \in Seq(Unit)
  BY EmptySeq
<1>3. TypeOK' /\ HandoverInv'
  BY <1>1, <1>2 DEF SessionInv, TypeOK, HandoverInv
<1>4. IdentityInv' /\ OrderInv'
  BY <1>1 DEF SessionInv, IdentityInv, OrderInv, IsCommand, Begins, Greeted
<1>5. /\ BoundInv' /\ DialogueInv' /\ LoginOnce' /\ AnswerComes'
      /\ FriendsNotBelieved'
  BY <1>1
  DEF SessionInv, BoundInv, DialogueInv, LoginOnce, AnswerComes, FriendsNotBelieved
<1>6. TypedInv'
  <2>1. CASE to_client' = to_client
    BY <1>1, <2>1 DEF SessionInv, TypedInv, ReplyAhead
  <2>2. CASE to_client' = <<>>
    BY <1>1, <2>2 DEF TypedInv
  <2> QED
    BY <1>1, <2>1, <2>2
<1> QED
  BY <1>3, <1>4, <1>5, <1>6 DEF SessionInv
-----------------------------------------------------------------------------
(* What a read of handle_client leaves of the stream, and of what is known *)
(* about it.                                                               *)
LEMMA ServerReads ==
  ASSUME SessionInv, NEW window \in Windows(to_server, RecvBuf),
         to_server' = Rest(to_server, window)
  PROVE  /\ window[1] = to_server[1] /\ 1 \in DOMAIN to_server
         /\ Len(window) \in 1 .. Len(to_server) /\ Len(to_server) \in Nat
         /\ to_server[1] \in Unit
         /\ to_server' \in Seq(Unit)
         /\ Len(to_server') = Len(to_server) - Len(window)
         /\ \A i \in DOMAIN to_server' :
              i + Len(window) \in DOMAIN to_server /\ to_server'[i] = to_server[i + Len(window)]
<1>1. to_server \in Seq(Unit)
  BY DEF SessionInv, TypeOK
<1>2. /\ Len(window) \in 1 .. Len(to_server)
      /\ \A i \in 1 .. Len(window) : window[i] = to_server[i]
      /\ to_server' \in Seq(Unit)
      /\ Len(to_server') = Len(to_server) - Len(window)
      /\ \A i \in 1 .. Len(to_server) - Len(window) :
           to_server'[i] = to_server[i + Len(window)]
  BY <1>1, WindowProperties
<1>3. /\ DOMAIN to_server' = 1 .. Len(to_server) - Len(window)
      /\ DOMAIN to_server = 1 .. Len(to_server) /\ Len(to_server) \in Nat
  BY <1>1, <1>2, LenProperties
<1>4. 1 \in 1 .. Len(window) /\ 1 \in 1 .. Len(to_server)
  BY <1>2, <1>3
<1>5. to_server[1] \in Unit
  BY <1>1, <1>4, ElementOfSeq
<1>6. \A i \in 1 .. Len(to_server) - Len(window) : i + Len(window) \in 1 .. Len(to_server)
  BY <1>2, <1>3
<1> QED
  BY <1>2, <1>3, <1>4, <1>5, <1>6

LEMMA OrderStays ==
  ASSUME SessionInv, NEW window \in Windows(to_server, RecvBuf),
         to_server' = Rest(to_server, window), cmds' = cmds
  PROVE  /\ \A i, j \in DOMAIN to_server' : i < j /\ IsCommand(i)' /\ Begins(j)' =>
              to_server'[i].of.no < to_server'[j].of.no
         /\ \A i \in DOMAIN handled, j \in DOMAIN to_server' : Begins(j)' =>
              handled[i].no < to_server'[j].of.no
         /\ \A j \in DOMAIN to_server' : IsCommand(j)' => to_server'[j].of.no <= cmds'
         /\ IsCommand(1) => \A j \in DOMAIN to_server' : Begins(j)' =>
              to_server[1].of.no < to_server'[j].of.no
<1> DEFINE n == Len(window)
<1>1. /\ n \in Nat \ {0} /\ to_server' \in Seq(Unit) /\ 1 \in DOMAIN to_server
      /\ \A i \in DOMAIN to_server' :
           i + n \in DOMAIN to_server /\ to_server'[i] = to_server[i + n]
  BY ServerReads
<1> HIDE DEF n
<1>2. \A i \in DOMAIN to_server' : i \in Nat \ {0}
  BY <1>1, LenProperties
<1>3. \A i \in DOMAIN to_server' : /\ IsCommand(i)' <=> IsCommand(i + n)
                                   /\ Begins(i)' <=> Begins(i + n)
  BY <1>1 DEF IsCommand, Begins
<1>4. OrderInv
  BY DEF SessionInv
<1>5. ASSUME NEW i \in DOMAIN to_server', NEW j \in DOMAIN to_server', i < j,
             IsCommand(i)', Begins(j)'
      PROVE  to_server'[i].of.no < to_server'[j].of.no
  <2>1. i + n < j + n
    BY <1>1, <1>2, <1>5
  <2> QED
    BY <1>1, <1>3, <1>4, <1>5, <2>1 DEF OrderInv
<1>6. \A i \in DOMAIN handled, j \in DOMAIN to_server' : Begins(j)' =>
        handled[i].no < to_server'[j].of.no
  BY <1>1, <1>3, <1>4 DEF OrderInv
<1>7. \A j \in DOMAIN to_server' : IsCommand(j)' => to_server'[j].of.no <= cmds'
  BY <1>1, <1>3, <1>4 DEF OrderInv
<1>8. ASSUME IsCommand(1), NEW j \in DOMAIN to_server', Begins(j)'
      PROVE  to_server[1].of.no < to_server'[j].of.no
  <2>1. 1 < j + n
    BY <1>1, <1>2
  <2> QED
    BY <1>1, <1>3, <1>4, <1>8, <2>1 DEF OrderInv
<1> QED
  BY <1>5, <1>6, <1>7, <1>8

(* The success reply, and words or nothing behind it.                      *)
LEMMA ReplyAdded ==
  ASSUME to_client \in Seq(Unit), NEW m \in Message, NEW len \in Nat,
         NEW offline \in Words,
         to_client' = to_client \o Units(m, len) \o offline
  PROVE  /\ to_client' \in Seq(Unit)
         /\ Len(to_client) \in Nat /\ Len(to_client') >= Len(to_client) + len
         /\ \A i \in 1 .. len : to_client'[i + Len(to_client)] = [of |-> m, at |-> i, len |-> len]
         /\ \A i \in DOMAIN to_client' :
              \/ i \in DOMAIN to_client /\ to_client'[i] = to_client[i]
              \/ to_client'[i].of \in {m, Text, Typed}
<1> DEFINE units == Units(m, len)
           half == to_client \o units
           sum == half \o offline
<1>1. /\ units \in Seq(Unit) /\ Len(units) = len
      /\ \A i \in 1 .. len : units[i] = [of |-> m, at |-> i, len |-> len]
  BY UnitsProperties
<1>2. to_client' = sum
  OBVIOUS
<1> HIDE DEF units
<1>3. offline \in Seq(Unit) /\ \A i \in 1 .. Len(offline) : offline[i].of \in {Text, Typed}
  BY WordsProperties
<1>4. /\ half \in Seq(Unit) /\ Len(half) = Len(to_client) + len
      /\ Len(to_client) \in Nat
      /\ \A i \in 1 .. Len(to_client) + len :
           \/ i \in 1 .. Len(to_client) /\ half[i] = to_client[i]
           \/ i - Len(to_client) \in 1 .. len /\ half[i] = units[i - Len(to_client)]
  BY <1>1, JoinProperties
<1> HIDE DEF half
<1>5. /\ sum \in Seq(Unit) /\ Len(sum) = Len(half) + Len(offline)
      /\ Len(half) \in Nat /\ Len(offline) \in Nat
      /\ \A i \in 1 .. Len(half) : sum[i] = half[i]
      /\ \A i \in 1 .. Len(half) + Len(offline) :
           \/ i \in 1 .. Len(half) /\ sum[i] = half[i]
           \/ /\ i - Len(half) \in 1 .. Len(offline)
              /\ sum[i] = offline[i - Len(half)]
  BY <1>3, <1>4, JoinProperties
<1> HIDE DEF sum
<1>6. DOMAIN sum = 1 .. Len(half) + Len(offline) /\ DOMAIN to_client = 1 .. Len(to_client)
  BY <1>5, LenProperties
<1>7. ASSUME NEW i \in 1 .. len
      PROVE  sum[i + Len(to_client)] = [of |-> m, at |-> i, len |-> len]
  <2>1. /\ i + Len(to_client) \in 1 .. Len(half) /\ i + Len(to_client) \notin 1 .. Len(to_client)
        /\ i + Len(to_client) - Len(to_client) = i
    BY <1>4
  <2> QED
    BY <1>1, <1>4, <1>5, <2>1
<1>8. ASSUME NEW i \in DOMAIN sum
      PROVE  \/ i \in DOMAIN to_client /\ sum[i] = to_client[i]
             \/ sum[i].of \in {m, Text, Typed}
  <2>1. CASE i \in 1 .. Len(half) /\ sum[i] = half[i]
    <3>1. CASE i \in 1 .. Len(to_client) /\ half[i] = to_client[i]
      BY <1>6, <2>1, <3>1
    <3>2. CASE /\ i - Len(to_client) \in 1 .. len
               /\ half[i] = units[i - Len(to_client)]
      BY <1>1, <2>1, <3>2
    <3> QED
      BY <1>4, <2>1, <3>1, <3>2
  <2>2. CASE i - Len(half) \in 1 .. Len(offline) /\ sum[i] = offline[i - Len(half)]
    BY <1>3, <2>2
  <2> QED
    BY <1>5, <1>6, <1>8, <2>1, <2>2
<1>9. Len(sum) >= Len(to_client) + len
  BY <1>4, <1>5
<1> QED
  BY <1>2, <1>4, <1>5, <1>7, <1>8, <1>9

LEMMA HandleClientNext ==
  ASSUME SessionInv, HandleClient
  PROVE  SessionInv'
<1>1. /\ TypeOK /\ HandoverInv /\ IdentityInv /\ OrderInv /\ BoundInv
      /\ DialogueInv /\ LoginOnce /\ AnswerComes /\ TypedInv /\ FriendsNotBelieved
  BY DEF SessionInv
<1>2. PICK window \in Windows(to_server, RecvBuf) :
        /\ Answers(window)
        /\ to_server' = Rest(to_server, window)
        /\ cut_request' = (cut_request \/ ~Parses(window) \/ Len(window) > window[1].len)
  BY DEF HandleClient
<1>3. /\ up
      /\ UNCHANGED <<ui, bg, shared_int, msg, up, logins, cmds, texts, cut_reply, misled>>
  BY DEF HandleClient, client, counts
<1> DEFINE n == Len(window)
           m == to_server[1].of
<1>4. /\ window[1] = to_server[1] /\ 1 \in DOMAIN to_server
      /\ n \in 1 .. Len(to_server) /\ Len(to_server) \in Nat
      /\ to_server[1] \in Unit
      /\ to_server' \in Seq(Unit) /\ Len(to_server') = Len(to_server) - n
      /\ \A i \in DOMAIN to_server' :
           i + n \in DOMAIN to_server /\ to_server'[i] = to_server[i + n]
  BY <1>2, ServerReads
<1>5. /\ m \in Message /\ to_server # <<>>
      /\ \/ m.kind = "login" /\ m.user \in Users
         \/ /\ m.kind = "command" /\ (~misled => m.user \in Greeted)
            /\ ui \in {"command", "ended"} \/ shared_int = 1
  BY <1>1, <1>4 DEF Unit, IdentityInv, IsCommand
<1> HIDE DEF n, m
<1>6. HandoverInv' /\ FriendsNotBelieved' /\ cut_request' \in BOOLEAN
  BY <1>1, <1>2, <1>3 DEF HandoverInv, FriendsNotBelieved, TypeOK, Parses
<1>7. /\ \A i, j \in DOMAIN to_server' : i < j /\ IsCommand(i)' /\ Begins(j)' =>
           to_server'[i].of.no < to_server'[j].of.no
      /\ \A i \in DOMAIN handled, j \in DOMAIN to_server' : Begins(j)' =>
           handled[i].no < to_server'[j].of.no
      /\ \A j \in DOMAIN to_server' : IsCommand(j)' => to_server'[j].of.no <= cmds'
      /\ IsCommand(1) => \A j \in DOMAIN to_server' : Begins(j)' =>
           m.no < to_server'[j].of.no
  BY <1>2, <1>3, OrderStays DEF m
<1>8. ASSUME UNCHANGED handled PROVE OrderInv'
  BY <1>1, <1>3, <1>7, <1>8 DEF OrderInv
<1>9. ASSUME Greeted \subseteq Greeted'
      PROVE  \A i \in DOMAIN to_server' :
               \/ to_server'[i].of.kind = "login" /\ to_server'[i].of.user \in Users
               \/ /\ IsCommand(i)'
                  /\ ~misled' => to_server'[i].of.user \in Greeted'
                  /\ ui' \in {"command", "ended"} \/ shared_int' = 1
  BY <1>1, <1>3, <1>4, <1>9 DEF IdentityInv, IsCommand
(* Before a welcome, the window ends the request that is on its way.       *)
<1>10. ASSUME ~cut_reply
       PROVE  IF welcomed = <<>>
                THEN /\ ui = "verify" /\ RequestOnItsWay /\ m.kind = "login"
                     /\ Parses(window) => to_server' = <<>>
                ELSE /\ ui = "command" /\ m.kind = "command"
                     /\ \A i \in DOMAIN to_server : IsCommand(i)
  <2>1. CASE welcomed = <<>>
    <3>1. ui = "verify" /\ RequestOnItsWay
      BY <1>1, <1>3, <1>5, <1>10, <2>1 DEF DialogueInv, FailureOnItsWay
    <3>2. m.kind = "login" /\ to_server[1].len - to_server[1].at = Len(to_server) - 1
      BY <1>4, <3>1 DEF RequestOnItsWay, m
    <3>3. Parses(window) => n >= to_server[1].len /\ to_server[1].at = 1
      BY <1>4 DEF Parses, n
    <3>4. Parses(window) => Len(to_server') = 0
      BY <1>4, <3>2, <3>3 DEF Unit
    <3> QED
      BY <1>4, <2>1, <3>1, <3>2, <3>4, EmptySeq
  <2>2. CASE welcomed # <<>>
    BY <1>1, <1>3, <1>4, <1>5, <1>10, <2>2 DEF DialogueInv, WelcomeOnItsWay, IsCommand, m
  <2> QED
    BY <2>1, <2>2
<1>11. CASE ~Parses(window)
  <2>1. UNCHANGED <<to_client, bound_to, welcomed, handled>> /\ cut_request'
    BY <1>2, <1>11 DEF Answers
  <2>2. TypeOK'
    BY <1>1, <1>3, <1>4, <1>6, <2>1 DEF TypeOK
  <2>3. IdentityInv'
    <3>1. Greeted' = Greeted
      BY <2>1 DEF Greeted
    <3> QED
      BY <1>1, <1>3, <1>9, <2>1, <3>1 DEF IdentityInv
  <2>4. BoundInv' /\ LoginOnce' /\ AnswerComes' /\ TypedInv'
    BY <1>1, <1>3, <2>1 DEF BoundInv, LoginOnce, AnswerComes, TypedInv, ReplyAhead
  <2>5. DialogueInv'
    <3> SUFFICES ASSUME ~cut_reply PROVE DialogueInv'
      BY <1>3 DEF DialogueInv
    <3>1. CASE welcomed = <<>>
      <4>1. RequestOnItsWay /\ ui = "verify"
        BY <1>10, <3>1
      <4>2. ASSUME NEW i \in DOMAIN to_server'
            PROVE  /\ to_server'[i].of.kind = "login"
                   /\ to_server'[i].len - to_server'[i].at = Len(to_server') - i
        <5>1. /\ i + n \in DOMAIN to_server /\ to_server'[i] = to_server[i + n]
              /\ i \in Nat
          BY <1>4, LenProperties
        <5>2. /\ to_server[i + n].of.kind = "login"
              /\ to_server[i + n].len - to_server[i + n].at = Len(to_server) - (i + n)
          BY <4>1, <5>1 DEF RequestOnItsWay
        <5>3. Len(to_server) - (i + n) = Len(to_server') - i
          BY <1>4, <5>1
        <5> QED
          BY <5>1, <5>2, <5>3
      <4>3. RequestOnItsWay'
        BY <2>1, <4>1, <4>2 DEF RequestOnItsWay
      <4> QED
        BY <1>3, <2>1, <3>1, <4>1, <4>3 DEF DialogueInv
    <3>2. CASE welcomed # <<>>
      BY <1>3, <1>4, <1>10, <2>1, <3>2 DEF DialogueInv, IsCommand
    <3> QED
      BY <3>1, <3>2
  <2> QED
    BY <1>6, <1>8, <2>1, <2>2, <2>3, <2>4, <2>5 DEF SessionInv
<1>12. CASE Parses(window) /\ m.kind = "login" /\ Rejects
  <2>1. /\ to_client' = to_client \o Units(Text, 1)
        /\ UNCHANGED <<bound_to, welcomed, handled>>
    BY <1>12 DEF Rejects
  <2>2. /\ to_client' \in Seq(Unit)
        /\ Len(to_client) \in Nat /\ Len(to_client') = Len(to_client) + 1
        /\ \A i \in 1 .. Len(to_client) : to_client'[i] = to_client[i]
        /\ \A i \in DOMAIN to_client' :
             \/ i \in DOMAIN to_client /\ to_client'[i] = to_client[i]
             \/ to_client'[i].of = Text
    BY <1>1, <2>1, TextAdded DEF TypeOK
  <2>3. TypeOK'
    BY <1>1, <1>3, <1>4, <1>6, <2>1, <2>2 DEF TypeOK
  <2>4. IdentityInv'
    <3>1. Greeted' = Greeted
      BY <2>1 DEF Greeted
    <3>2. \A i \in DOMAIN to_client' : to_client'[i].of.kind = "reply" =>
            to_client'[i].of.user \in Greeted
      BY <1>1, <2>2, WordsProperties DEF IdentityInv
    <3> QED
      BY <1>1, <1>3, <1>9, <2>1, <3>1, <3>2 DEF IdentityInv
  <2>5. BoundInv' /\ LoginOnce' /\ AnswerComes'
    <3>1. to_client' # <<>>
      BY <2>2
    <3> QED
      BY <1>1, <1>3, <2>1, <3>1 DEF BoundInv, LoginOnce, AnswerComes
  <2>6. DialogueInv'
    <3> SUFFICES ASSUME ~cut_reply PROVE DialogueInv'
      BY <1>3 DEF DialogueInv
    <3>1. /\ welcomed = <<>> /\ ui = "verify" /\ to_client = <<>>
          /\ to_server' = <<>>
      BY <1>10, <1>12 DEF RequestOnItsWay
    <3>2. to_client' = Units(Text, 1)
      BY <2>1, <3>1, WordsProperties, ConcatEmptySeq
    <3> QED
      BY <1>3, <2>1, <3>1, <3>2 DEF DialogueInv, FailureOnItsWay
  <2>7. TypedInv'
    <3> SUFFICES ASSUME ~cut_reply PROVE TypedInv'
      BY <1>3 DEF TypedInv
    <3>1. to_client = <<>> /\ Len(to_client) = 0
      BY <1>10, <1>12 DEF RequestOnItsWay
    <3>2. \A i \in DOMAIN to_client' : to_client'[i].of.kind # "typed"
      BY <2>2, <3>1, WordsProperties
    <3> QED
      BY <3>2 DEF TypedInv
  <2> QED
    BY <1>6, <1>8, <2>1, <2>3, <2>4, <2>5, <2>6, <2>7 DEF SessionInv
<1>13. CASE Parses(window) /\ m.kind = "login" /\ Welcomes(m.user)
  <2> DEFINE u == m.user
             reply == [kind |-> "reply", user |-> u, no |-> 0]
  <2>1. u \in Users
    BY <1>5, <1>13
  <2>2. reply \in Message /\ ReplyLen[u] \in Nat \ {0} /\ reply.kind = "reply" /\ reply.user = u
    BY <2>1, LenAssumption DEF Message, Kinds
  <2>3. /\ \E offline \in {<<>>, TextAndTyped} :
             to_client' = to_client \o Units(reply, ReplyLen[u]) \o offline
        /\ bound_to' = IF bound_to = NoUser THEN u ELSE bound_to
        /\ welcomed' = Append(welcomed, u)
        /\ UNCHANGED handled
    BY <1>13 DEF Welcomes
  <2> HIDE DEF reply, u
  <2>4. /\ to_client' \in Seq(Unit)
        /\ Len(to_client) \in Nat /\ Len(to_client') >= Len(to_client) + ReplyLen[u]
        /\ \A i \in 1 .. ReplyLen[u] :
             to_client'[i + Len(to_client)] = [of |-> reply, at |-> i, len |-> ReplyLen[u]]
        /\ \A i \in DOMAIN to_client' :
             \/ i \in DOMAIN to_client /\ to_client'[i] = to_client[i]
             \/ to_client'[i].of \in {reply, Text, Typed}
    BY <1>1, <2>2, <2>3, ReplyAdded DEF TypeOK, Words
  <2>5. /\ welcomed' \in Seq(Users) /\ welcomed' # <<>>
        /\ Len(welcomed') = Len(welcomed) + 1 /\ Len(welcomed) \in Nat
        /\ welcomed'[1] = IF welcomed = <<>> THEN u ELSE welcomed[1]
        /\ welcomed'[Len(welcomed) + 1] = u
        /\ \A i \in 1 .. Len(welcomed) : welcomed'[i] = welcomed[i]
    BY <1>1, <2>1, <2>3 DEF TypeOK
  <2>6. Greeted' = Greeted \cup {u}
    <3>1. DOMAIN welcomed = 1 .. Len(welcomed) /\ DOMAIN welcomed' = 1 .. Len(welcomed) + 1
      BY <1>1, <2>5, LenProperties DEF TypeOK
    <3> QED
      BY <2>5, <3>1 DEF Greeted
  <2>7. TypeOK'
    BY <1>1, <1>3, <1>4, <1>6, <2>1, <2>3, <2>4, <2>5 DEF TypeOK
  <2>8. IdentityInv'
    <3>1. \A i \in DOMAIN to_client' : to_client'[i].of.kind = "reply" =>
            to_client'[i].of.user \in Greeted'
      BY <1>1, <2>2, <2>4, <2>6, WordsProperties DEF IdentityInv
    <3> QED
      BY <1>1, <1>3, <1>9, <2>3, <2>6, <3>1 DEF IdentityInv
  <2>9. BoundInv'
    <3>1. bound_to = IF welcomed = <<>> THEN NoUser ELSE welcomed[1]
      BY <1>1, <1>3 DEF BoundInv
    <3>2. welcomed # <<>> => welcomed[1] # NoUser
      BY <1>1, EmptySeq, ElementOfSeq, UserAssumption DEF TypeOK
    <3> QED
      BY <2>3, <2>5, <3>1, <3>2 DEF BoundInv
  <2>10. ~cut_reply => welcomed = <<>> /\ ui = "verify" /\ to_client = <<>> /\ to_server' = <<>>
    BY <1>10, <1>13 DEF RequestOnItsWay
  <2>11. LoginOnce'
    <3>1. ~cut_reply => Len(welcomed') <= 1
      BY <2>5, <2>10, EmptySeq
    <3>2. ~cut_reply' => ~cut_reply
      BY <1>3
    <3> QED
      BY <3>1, <3>2 DEF LoginOnce
  <2>12. AnswerComes'
    <3>1. to_client' # <<>>
      BY <2>2, <2>4
    <3> QED
      BY <3>1 DEF AnswerComes
  <2>13. DialogueInv' /\ TypedInv'
    <3> SUFFICES ASSUME ~cut_reply PROVE DialogueInv' /\ TypedInv'
      BY <1>3 DEF DialogueInv, TypedInv
    <3>1. Len(to_client) = 0 /\ welcomed'[1] = u
      BY <2>5, <2>10, EmptySeq
    <3>2. /\ Len(to_client') >= ReplyLen[u]
          /\ \A i \in 1 .. ReplyLen[u] :
               to_client'[i] = [of |-> reply, at |-> i, len |-> ReplyLen[u]]
      <4>1. \A i \in 1 .. ReplyLen[u] : i + 0 = i
        BY <2>2
      <4> QED
        BY <2>2, <2>4, <3>1, <4>1
    <3>3. ReplyAhead(welcomed[1])'
      BY <3>1, <3>2 DEF ReplyAhead, reply
    <3> QED
      BY <1>3, <2>5, <2>10, <3>3 DEF DialogueInv, WelcomeOnItsWay, TypedInv
  <2> QED
    BY <1>6, <1>8, <2>3, <2>7, <2>8, <2>9, <2>11, <2>12, <2>13 DEF SessionInv
<1>14. CASE Parses(window) /\ m.kind = "command" /\ Handles(m)
  <2>1. /\ \E answer \in {<<>>, Units(Text, 1), TextAndTyped} :
             to_client' = to_client \o answer
        /\ handled' = Append(handled, m)
        /\ UNCHANGED <<bound_to, welcomed>>
    BY <1>14 DEF Handles
  <2>2. /\ to_client' \in Seq(Unit)
        /\ \A i \in DOMAIN to_client' :
             \/ i \in DOMAIN to_client /\ to_client'[i] = to_client[i]
             \/ to_client'[i].of \in {Text, Typed}
    <3>1. PICK answer \in Words : to_client' = to_client \o answer
      BY <2>1 DEF Words
    <3> QED
      BY <1>1, <3>1, WordsAdded DEF TypeOK
  <2>3. /\ handled' \in Seq(Message) /\ Len(handled) \in Nat
        /\ DOMAIN handled' = 1 .. Len(handled) + 1 /\ DOMAIN handled = 1 .. Len(handled)
        /\ handled'[Len(handled) + 1] = m
        /\ \A i \in 1 .. Len(handled) : handled'[i] = handled[i]
    BY <1>1, <1>5, <2>1 DEF TypeOK
  <2>4. (~misled => m.user \in Greeted) /\ (ui \in {"command", "ended"} \/ shared_int = 1)
    BY <1>5, <1>14
  <2>5. TypeOK'
    BY <1>1, <1>3, <1>4, <1>6, <2>1, <2>2, <2>3 DEF TypeOK
  <2>6. IdentityInv'
    <3>1. Greeted' = Greeted
      BY <2>1 DEF Greeted
    <3>2. \A i \in DOMAIN to_client' : to_client'[i].of.kind = "reply" =>
            to_client'[i].of.user \in Greeted
      BY <1>1, <2>2, WordsProperties DEF IdentityInv
    <3>3. ~misled => \A i \in DOMAIN handled' : handled'[i].user \in Greeted
      BY <1>1, <2>3, <2>4 DEF IdentityInv
    <3> QED
      BY <1>1, <1>3, <1>9, <3>1, <3>2, <3>3 DEF IdentityInv
  <2>7. OrderInv'
    <3>1. IsCommand(1) /\ Begins(1)
      BY <1>4, <1>14 DEF IsCommand, Begins, Parses, m
    <3>2. m.no <= cmds /\ \A i \in DOMAIN handled : handled[i].no < m.no
      BY <1>1, <1>4, <3>1 DEF OrderInv, m
    <3>3. \A i \in DOMAIN handled', j \in DOMAIN to_server' : Begins(j)' =>
            handled'[i].no < to_server'[j].of.no
      BY <1>7, <2>3, <3>1
    <3>4. \A i \in DOMAIN handled' : handled'[i].no <= cmds'
      BY <1>1, <1>3, <2>3, <3>2 DEF OrderInv
    <3>5. ASSUME NEW i \in DOMAIN handled', NEW j \in DOMAIN handled', i < j
          PROVE  handled'[i].no < handled'[j].no
      <4>1. i \in 1 .. Len(handled)
        BY <2>3, <3>5
      <4>2. CASE j \in 1 .. Len(handled)
        BY <1>1, <2>3, <3>5, <4>1, <4>2 DEF OrderInv
      <4>3. CASE j = Len(handled) + 1
        BY <2>3, <3>2, <4>1, <4>3
      <4> QED
        BY <2>3, <4>2, <4>3
    <3> QED
      BY <1>7, <3>3, <3>4, <3>5 DEF OrderInv
  <2>8. BoundInv' /\ LoginOnce' /\ AnswerComes'
    BY <1>1, <1>3, <2>1, <2>4 DEF BoundInv, LoginOnce, AnswerComes
  <2>9. DialogueInv' /\ TypedInv'
    <3> SUFFICES ASSUME ~cut_reply PROVE DialogueInv' /\ TypedInv'
      BY <1>3 DEF DialogueInv, TypedInv
    <3>1. welcomed # <<>> /\ ui = "command" /\ \A i \in DOMAIN to_server : IsCommand(i)
      BY <1>10, <1>14
    <3> QED
      BY <1>3, <1>4, <2>1, <3>1 DEF DialogueInv, TypedInv, IsCommand
  <2> QED
    BY <1>6, <2>5, <2>6, <2>7, <2>8, <2>9 DEF SessionInv
<1> QED
  BY <1>2, <1>4, <1>11, <1>12, <1>13, <1>14 DEF Answers, m
-----------------------------------------------------------------------------
LEMMA SessionNext == SessionInv /\ [Next]_vars => SessionInv'
<1> SUFFICES ASSUME SessionInv, [Next]_vars PROVE SessionInv'
  OBVIOUS
<1>1. CASE UNCHANGED vars
  <2>1. /\ UNCHANGED <<ui, bg, shared_int, msg, to_server, to_client, up, bound_to>>
        /\ UNCHANGED <<logins, cmds, texts, welcomed, handled, cut_reply, misled, cut_request>>
    BY <1>1 DEF vars, client, streams, counts, history
  <2>2. TypeOK' /\ HandoverInv' /\ IdentityInv'
    BY <2>1 DEF SessionInv, TypeOK, HandoverInv, IdentityInv, IsCommand, Greeted
  <2>3. OrderInv' /\ BoundInv' /\ LoginOnce' /\ AnswerComes'
    BY <2>1 DEF SessionInv, OrderInv, BoundInv, IsCommand, Begins, LoginOnce, AnswerComes
  <2>4. DialogueInv'
    BY <2>1
    DEF SessionInv, DialogueInv, RequestOnItsWay, FailureOnItsWay, WelcomeOnItsWay,
        ReplyAhead, IsCommand
  <2>5. TypedInv' /\ FriendsNotBelieved'
    BY <2>1 DEF SessionInv, TypedInv, ReplyAhead, FriendsNotBelieved
  <2> QED
    BY <2>2, <2>3, <2>4, <2>5 DEF SessionInv
<1> QED
  BY <1>1, AskLoginNext, VeriFyNext, UserCommandNext, SeeSharedIntNext, RecvMsgNext,
     HandleClientNext, FriendWritesNext, ServerDiesNext DEF Next

(* The invariant behind the next theorems: where each message is, what is  *)
(* before and behind it, and who is bound.                                 *)
THEOREM SessionCorrect == Spec => []SessionInv
BY SessionInit, SessionNext, PTL DEF Spec

(* Every variable keeps its type, units of cut messages included.          *)
THEOREM TypeCorrect == Spec => []TypeOK
<1>1. SessionInv => TypeOK
  BY DEF SessionInv
<1> QED
  BY <1>1, SessionCorrect, PTL

(* What a friend wrote is taken for the reply to a login only by a client  *)
(* that has cut a reply: otherwise the welcome is read first, whatever the *)
(* lengths and the buffers, before and after the server died.              *)
THEOREM BelievesReplies == Spec => []FriendsNotBelieved
<1>1. SessionInv => FriendsNotBelieved
  BY DEF SessionInv
<1> QED
  BY <1>1, SessionCorrect, PTL

(* VeriFy and RecvMsg are never in recv on the one socket together, in a   *)
(* client that took only replies of the server for replies.                *)
THEOREM ReadsAlone == Spec => []OneReader
<1>1. SessionInv => OneReader
  BY DEF SessionInv, HandoverInv, OneReader
<1> QED
  BY <1>1, SessionCorrect, PTL

(* Unless it took a friend's text for the reply, the client acts for a     *)
(* user that the server welcomed on this connection, and if no reply was   *)
(* cut it is the one that the server has bound.                            *)
THEOREM ActsForWelcomed == Spec => []IdentityIsWelcomed
<1>1. SessionInv => IdentityIsWelcomed
  <2> SUFFICES ASSUME SessionInv, ~misled, msg.user_id # NoUser
               PROVE  /\ msg.user_name = msg.user_id
                      /\ \E i \in DOMAIN welcomed : welcomed[i] = msg.user_id
                      /\ up /\ ~cut_reply => bound_to = msg.user_id
    BY DEF IdentityIsWelcomed
  <2>1. /\ msg.user_name = msg.user_id
        /\ \E i \in DOMAIN welcomed : welcomed[i] = msg.user_id
    BY DEF SessionInv, HandoverInv, IdentityInv, Greeted
  <2>2. ASSUME up, ~cut_reply PROVE bound_to = msg.user_id
    <3>1. welcomed \in Seq(Users) /\ Len(welcomed) <= 1
      BY <2>2 DEF SessionInv, TypeOK, LoginOnce
    <3>2. PICK i \in 1 .. Len(welcomed) : welcomed[i] = msg.user_id
      BY <2>1, <3>1, LenProperties
    <3>3. i = 1 /\ welcomed # <<>>
      BY <3>1, <3>2, EmptySeq, LenProperties
    <3> QED
      BY <2>2, <3>2, <3>3 DEF SessionInv, BoundInv
  <2> QED
    BY <2>1, <2>2
<1> QED
  BY <1>1, SessionCorrect, PTL

(* Commands are handled once and in the order they were sent in, wherever  *)
(* recv cuts the stream; those of a client that took only replies for      *)
(* replies are in the name of a user that logged in.                       *)
THEOREM HandlesInOrder == Spec => []HandledInOrder
<1>1. SessionInv => HandledInOrder
  BY DEF SessionInv, OrderInv, IdentityInv, Greeted, HandledInOrder
<1> QED
  BY <1>1, SessionCorrect, PTL

(* One login on a connection, unless a reply was cut.                      *)
THEOREM LogsInOnce == Spec => []LoginOnce
<1>1. SessionInv => LoginOnce
  BY DEF SessionInv
<1> QED
  BY <1>1, SessionCorrect, PTL

(* VeriFy and the server wait for each other only if a request was cut or  *)
(* the other thread of the client reads too.                               *)
THEOREM AnswerIsThere == Spec => []AnswerComes
<1>1. SessionInv => AnswerComes
  BY DEF SessionInv
<1> QED
  BY <1>1, SessionCorrect, PTL
=============================================================================
