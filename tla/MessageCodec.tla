----------------------------- MODULE MessageCodec -----------------------------
(***************************************************************************)
(* The message struct and its text: the two functions of tool/json.cpp, the*)
(* prompts that fill the struct, and what client.cpp and server.cpp do with*)
(* it.  The client keeps ONE struct for its whole life: what it types goes *)
(* into it, replies are read into it, and requests are printed from it.    *)
(* The sockets in between are ClientSession; here a request is read whole. *)
(*                                                                         *)
(* heard is any text at all: what the parser is given when it is not one   *)
(* that msg_2_json made.                                                   *)
(***************************************************************************)
EXTENDS JsonPrint

Grammar == INSTANCE JsonGrammar

CONSTANTS
  FieldSize,    (* sizeof of a field, content has as many here             *)
  Names, Passwds, Contents,   (* what the user may type, words as bytes    *)
  Ids,          (* what regist_user and login_user return                  *)
  Alphabet,     (* the bytes of heard,                                     *)
  Stems,        (* the texts it starts with                                *)
  MaxGrowth     (* and how many bytes follow                               *)

VARIABLES
  msg,     (* the struct of the client                                     *)
  stage,   (* "verify": user_id is 0; "waiting": in VeriFy's recv;         *)
           (* "command": logged in                                         *)
  sent,    (* the last text on the socket, in either direction             *)
  typed,   (* what the user has typed: account and last command (history)  *)
  heard,
  growth
vars == <<msg, stage, sent, typed, heard, growth>>

Operations == {"login", "regist", "delete", "add", "communicate", "users"}
(* msg_type as one byte.                                                   *)
Word == [login |-> <<108>>, regist |-> <<114>>, delete |-> <<100>>, add |-> <<97>>,
         communicate |-> <<99>>, users |-> <<117>>]

TextFields == {"msg_type", "user_name", "passwd", "content", "friend_name"}
(* The names of the members, a byte each; json_2_msg finds them in either  *)
(* case.                                                                   *)
Key == [msg_type |-> <<116>>, user_name |-> <<110>>, passwd |-> <<112>>, content |-> <<99>>,
        friend_name |-> <<102>>, user_id |-> <<105>>, is_login |-> <<111>>]
FoldCase(name) == [i \in DOMAIN name |-> IF name[i] \in 65 .. 90 THEN name[i] + 32 ELSE name[i]]

(* The struct as message m = {} leaves it.                                 *)
ZeroMessage == [msg_type |-> <<>>, user_id |-> 0, user_name |-> <<>>, passwd |-> <<>>,
                friend_name |-> <<>>, content |-> <<>>, is_login |-> 0]

(* msg_2_json: every field, in this order.                                 *)
Msg2Json(m) ==
  LET text(field) == Kid(Key[field], String(m[field]))
      number(field) == Kid(Key[field], Decimal(DigitsOf(m[field]), 0))
  IN PrintUnformatted(Object(<<text("msg_type"), text("user_name"), text("passwd"),
       text("content"), text("friend_name"), number("user_id"), number("is_login")>>))

(* What json_2_msg stores of an item: a string is cut to the size of the   *)
(* field.                                                                  *)
Stored(field, item, old) ==
  IF field \notin TextFields THEN ValueInt(item)
  ELSE IF item.type # "string" THEN old
  ELSE SubSeq(item.text, 1, Smaller(Len(item.text), FieldSize - 1))

(* cJSON_GetObjectItem finds the first of a name.                          *)
Named(item, name) ==
  IF item.type # "object" THEN <<>>
  ELSE SelectSeq(item.kids, LAMBDA kid : FoldCase(kid.name) = name)

(* json_2_msg: what is there is stored, what is not there is kept.         *)
Json2Msg(text, m) ==
  LET member(found, field) ==
        IF found = <<>> THEN m[field] ELSE Stored(field, Head(found).value, m[field])
      takes(parsed) ==
        IF ~parsed.ok THEN m
        ELSE [field \in DOMAIN m |-> member(Named(parsed.item, Key[field]), field)]
  IN takes(Parse(text))

(* get_operation_type; "users" is none of those it knows.                  *)
GetOperationType(m) ==
  LET known == {op \in Operations \ {"users"} : Word[op] = m.msg_type}
  IN IF known = {} THEN "operation_unkown" ELSE CHOOSE op \in known : TRUE

Init ==
  /\ msg = ZeroMessage
  /\ stage = "verify"
  /\ sent = <<>>
  /\ typed = [op |-> "none", name |-> <<>>, passwd |-> <<>>, friend |-> <<>>,
              content |-> <<>>, id |-> 0]
  /\ heard \in Stems
  /\ growth = 0

(* collect_user_regist_log_input and the first half of VeriFy.             *)
Verify(op, name, passwd) ==
  /\ stage = "verify" /\ heard = <<>>
  /\ msg' = [msg EXCEPT !.msg_type = Word[op], !.user_name = name, !.passwd = passwd,
                        !.is_login = 0]
  /\ sent' = Msg2Json(msg')
  /\ typed' = [typed EXCEPT !.op = op, !.name = name, !.passwd = passwd]
  /\ stage' = "waiting"
  /\ UNCHANGED <<heard, growth>>

(* The second half: what the reply says is in the struct or it is not.     *)
TakeReply(reply) ==
  /\ msg' = Json2Msg(reply, msg)
  /\ sent' = reply
  /\ stage' = IF msg'.is_login = 1 THEN "command" ELSE "verify"

(* handle_client on login or regist: the struct it read the request into   *)
(* goes back with the id and a greeting, or a text that is no message.     *)
Welcome(id) ==
  LET greeting == DigitsOf(id) \o <<SPACE, 33>>
      answers(m) ==
        /\ GetOperationType(m) \in {"regist", "login"}
        /\ TakeReply(Msg2Json([m EXCEPT !.user_id = id, !.is_login = 1, !.content = greeting]))
  IN /\ stage = "waiting"
     /\ answers(Json2Msg(sent, ZeroMessage))
     /\ typed' = [typed EXCEPT !.id = id]
     /\ UNCHANGED <<heard, growth>>

Refusals == [login |-> <<117, NEWLINE>>, regist |-> <<48, SPACE, 82, NEWLINE>>]

Refuse ==
  LET answers(op) == op \in DOMAIN Refusals /\ TakeReply(Refusals[op])
  IN /\ stage = "waiting"
     /\ answers(GetOperationType(Json2Msg(sent, ZeroMessage)))
     /\ UNCHANGED <<typed, heard, growth>>

(* A fault: the command before this one is still in the struct.            *)
NotCleared(m) == m

(* memset of the first byte of content, before the next command is typed.  *)
Cleared(m) == [m EXCEPT !.content = <<>>]

(* collect_user_input and the rest of the loop of ThreadUserUI.            *)
Command(op, friend, content) ==
  /\ stage = "command"
  /\ msg' = LET asked == [Cleared(msg) EXCEPT !.msg_type = Word[op]]
            IN CASE op \in {"add", "delete"} -> [asked EXCEPT !.friend_name = friend]
                 [] op = "communicate" ->
                      [asked EXCEPT !.friend_name = friend, !.content = content]
                 [] OTHER -> asked
  /\ sent' = Msg2Json(msg')
  /\ typed' = [typed EXCEPT !.op = op, !.friend = friend, !.content = content]
  /\ UNCHANGED <<stage, heard, growth>>

(* Any text, grown while the session is at its start: it has nothing to do *)
(* with it.                                                                *)
Hear(byte) ==
  /\ msg = ZeroMessage /\ growth < MaxGrowth
  /\ heard' = Append(heard, byte)
  /\ growth' = growth + 1
  /\ UNCHANGED <<msg, stage, sent, typed>>

Next ==
  \/ \E op \in {"login", "regist"}, name \in Names, passwd \in Passwds :
       Verify(op, name, passwd)
  \/ \E id \in Ids : Welcome(id)
  \/ Refuse
  \/ \E op \in {"add", "delete"}, friend \in Names : Command(op, friend, <<>>)
  \/ \E friend \in Names, content \in Contents : Command("communicate", friend, content)
  \/ Command("users", <<>>, <<>>)
  \/ \E byte \in Alphabet : Hear(byte)

Spec == Init /\ [][Next]_vars

(* ------------------------------ properties ----------------------------- *)
(* The server reads of a request what the user typed last, and of nothing  *)
(* typed before, though the struct it is printed from is never emptied;    *)
(* and the account is the one the server welcomed.  The friend of an older *)
(* command stays in a request for the users, which has none.               *)
RequestIsCurrent ==
  LET current(m) == m.msg_type = Word[typed.op] =>
        /\ <<m.user_name, m.passwd>> = <<typed.name, typed.passwd>>
        /\ stage = "command" /\ typed.op \notin {"login", "regist"} =>
             /\ <<m.user_id, m.is_login, m.content>> = <<typed.id, 1, typed.content>>
             /\ typed.op # "users" => m.friend_name = typed.friend
  IN typed.op # "none" => current(Json2Msg(sent, ZeroMessage))

(* A struct in which every message changes every field.                    *)
Marker == [msg_type |-> <<77>>, user_id |-> 99, user_name |-> <<77>>, passwd |-> <<77>>,
           friend_name |-> <<77>>, content |-> <<77>>, is_login |-> 99]

(* recv returns what is there, the end of one message and the beginning of *)
(* the next: json_2_msg reads a message only from a window that starts     *)
(* where one starts and holds all of it, and then reads that one, whatever *)
(* the user typed into it; any other window leaves the struct alone.       *)
OnlyWholeMessages ==
  LET stream == sent \o sent
      n == Len(sent)
  IN \A first \in 1 .. n : \A last \in first .. 2 * n :
       Json2Msg(SubSeq(stream, first, last), Marker) =
         IF first = 1 /\ last >= n THEN Json2Msg(sent, Marker) ELSE Marker

(* What is behind the end of the buffer changes no result, and no string   *)
(* outgrows what was allocated for it.                                     *)
ParserInBounds ==
  LET n == Len(heard)
      quotes == {i \in DOMAIN heard : heard[i] = QUOTE}
      Read(rest, whole) == ParseWithLengthOpts(heard \o rest, n, whole)
      decoded(b) == Decode(b.content, b.offset + 1, EndOfString(b, b.offset + 1, 0).at, <<>>)
  IN /\ \A whole \in BOOLEAN :
          /\ Read(<<QUOTE, CLOSEARRAY, CLOSEOBJECT, NUL>>, whole)
               = Read(<<49, 49, COMMA, SPACE>>, whole)
          /\ Read(<<>>, whole).end <= n
     /\ \A i \in quotes :
          LET b == [Buffer(heard, n) EXCEPT !.offset = i - 1]
          IN ParseString(b).ok =>
               Len(decoded(b).out) + 1 <= Allocated(b, EndOfString(b, i, 0))

(* Every \u is followed by hexadecimal digits; cJSON reads others as \u0000.*)
WellEscaped(text) ==
  \A i \in DOMAIN text : text[i] = LETTERu /\ i > 1 /\ text[i - 1] = BACKSLASH =>
    \A k \in {k \in i + 1 .. i + 4 : k \in DOMAIN text} : text[k] \in HexDigit \cup {QUOTE}

(* The parser accepts exactly the JSON texts, as the value they denote, and*)
(* either printer writes a text that is read as that value again.          *)
AcceptsJson ==
  LET text == IF Len(heard) > 3 /\ SubSeq(heard, 1, 3) = ByteOrderMark
                THEN From(heard, 4) ELSE heard
      same(again, read) == again.ok /\ again.item = read.item
      means(read) ==
        /\ Grammar!Meanings(Grammar!Trim(text), NestingLimit) =
             IF read.ok THEN {read.item} ELSE {}
        /\ read.ok => \A format \in BOOLEAN :
             same(ParseWithOpts(Printed(read.item, format), TRUE), read)
  IN WellEscaped(heard) => means(ParseWithOpts(heard, TRUE))

(* No printer writes behind its buffer, whatever its size is; one that may *)
(* grow prints everything, and one that may not fails or prints everything,*)
(* the latter if it has five bytes more than it needs (cjson.h:171).       *)
PrintFits ==
  LET grows(p, text) == ~p.over /\ p.ok /\ p.written = text
      fits(p, text) ==
        /\ ~p.over /\ (p.ok => p.written = text)
        /\ p.length = Len(text) + 5 => p.ok
      printed(v, format, text) == \A length \in 0 .. Len(text) + 5 :
        /\ grows(PrintBuffered(v, length, format), text)
        /\ fits(PrintPreallocated(v, length, format), text)
      printedBothWays(read) == read.ok => \A format \in BOOLEAN :
        printed(read.item, format, Append(Printed(read.item, format), NUL))
  IN printedBothWays(Parse(heard))

(* cJSON_Minify keeps what a text says, and drops comments in front of it  *)
(* and behind it; except for strings with two backslashes in a row, of     *)
(* which it takes the second for one that escapes the quote.               *)
MinifyKeepsValue ==
  LET commented == <<SLASH, STAR, QUOTE, STAR, SLASH>> \o heard \o <<SLASH, SLASH, QUOTE>>
      plain == \A i \in 2 .. Len(heard) : ~(heard[i] = BACKSLASH /\ heard[i - 1] = BACKSLASH)
      same(small, read) == small.ok /\ small.item = read.item
      keeps(read) == read.ok =>
        \A text \in {heard, commented} : same(ParseWithOpts(Minify(text), TRUE), read)
  IN plain => keeps(ParseWithOpts(heard, TRUE))
=============================================================================
