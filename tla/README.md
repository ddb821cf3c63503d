# A verification of Simple-WeChat (wechat3)

TLA+ modules of the program in `src/wechat3`, the TLC runs that check them on
small instances, and theorems about them that TLAPS checks for every instance.
File and line references are to `src/wechat3/`.

## 1. The system

`main.cpp` starts one of three programs.

| part | code | state | operations | talks to |
|---|---|---|---|---|
| event loop | `server.cpp`: `create_sock_and_bind`, `tools_init`, `process_connection`, `accept_client` | listening socket, epoll set, the events array | `epoll_wait`, accept one connection, run the handler of a ready socket | peers (TCP) |
| chat server, `server1` | `server.cpp`: `handle_client`, `SendToFriend`, `RunRpcClient` | `map_user_socket`, `map_socket_user`, one handler at a time | regist, login (with offline delivery), communicate, add, delete, end of file | hash tables, MySQL, friend service |
| hash tables | `tool/hash.h` over `tool/uthash.h` | a list of items in application order, buckets with chains | find, add, delete, (clear, never called); the other macros of uthash | - |
| SQL layer | `base/mysql.cpp`, `base/create.sql` | `mysql_conn`; `t_wechat_users`, `t_save_msg`, `t_friend_ship` | one function for each query | MySQL |
| friend service, `server2` | `server.cpp:53` `RpcServer`, `WechatServiceImpl.h` | a thread for each call, one `mysql_conn` for all | AddFriend, DelFriend | MySQL |
| RPC client | `WechatServiceClient.h` | one stub | blocking AddFriend, DelFriend without a deadline | friend service |
| client program | `client.cpp`, `tool/json.cpp:6-47` | `message`, `shared_int`; two threads | log in, read commands and send them, print what arrives | chat server |
| message codec | `tool/json.cpp` | the `message` of the client, reused for every request | the two input dialogues, `msg_2_json`, `json_2_msg` | JSON library |
| JSON library | `tool/cjson.cpp`, `tool/cjson.h` | trees of `cJSON` items | build, change, copy, compare and delete trees; parse, print, minify | - |
| friend cache | `base/mysql.cpp:11-44`, `443-457`, `base/redis.cpp` | a Redis key | `is_friend_verify`: no caller | Redis, MySQL |

A client connects, sends one JSON object for each request and gets text or JSON
back. `server1` handles requests in one thread. Two tables tie users to sockets:
`map_user_socket` routes messages, `map_socket_user` tells whom a socket that
closed belonged to. A message for a user without a socket is saved in
`t_save_msg` and delivered at the next login. `add` and `delete` go through gRPC
to `server2`.

What makes it hard, and which part has to get it right:

* Peers close at any moment, also while a handler waits for MySQL; descriptors
  are never closed by the server. The two tables must agree with each other and
  with the sockets (*chat server*).
* `add_to_hash` does not replace a value, and a user may log in on two sockets;
  the end of one session takes the route of the other (*chat server*).
* A message is looked up, sent or saved, fetched and deleted in separate SQL
  calls. The connection can go between any two of them and does not come back
  before a restart; the process can die between any two (*SQL layer*).
* A lookup that finds no row returns a variable that was never written
  (*SQL layer*).
* The listening socket is edge-triggered and each event accepts once
  (*event loop*).
* Handler threads of `server2` share one connection without a lock
  (*friend service*).
* The chat server stands still during an RPC (*RPC client*).
* Requests and replies are parts of a byte stream that `recv` cuts anywhere
  (*event loop*, *client program*, *message codec*).
* The client takes what it reads in the login dialogue for the reply, and the
  messages of friends come raw on the same socket (*client program*).
* One `message` serves for all requests of a client, and a field that a text
  lacks keeps its value (*message codec*).
* Buckets expand, or stop expanding, according to counters spread over the table
  (*hash tables*); the last item of a list is found through the first
  (*JSON library*, *hash tables*).
* An allocation may fail between any two parts of a call, and references share
  what another item owns (*JSON library*).

What correctness means for each part: the tables route a user only to a socket
on which that user logged in, and no route survives the end of its socket; a
message is written at most once and to its addressee, and no row is deleted
that the same login did not read; a user is told "success" exactly if the row is
there; one thread at a time is on the connection; every ready socket is served
and every connection accepted, or it is known which are not; the server reads in
a request what the user typed last and takes no part of a request for one; a
table is the function its callers think it is; a tree is what the calls made of
it, and everything is freed once.

## 2. Modules

| module | models | state |
|---|---|---|
| `IntHash` | `tool/hash.h`: `EmptyHash`, `InHash`, `AddToHash` (keeps an old value), `DeleteFromHash` on functions | none |
| `WechatDb` | the queries of `base/mysql.cpp` as the set of values each may return | none |
| `MessageLife` | abstract: the stages in the life of a message | `life`, `once` |
| `ChatServer` | `handle_client`, `SendToFriend`, `accept_client`, end of file, crash and restart | sockets, both tables, the running handler `task`, the SQL tables |
| `Listener` | `process_connection` and `accept_client` over the ready list of epoll and the accept queue | `conn`, `backlog`, `ready`, `events` |
| `FriendService` | `WechatServiceImpl.h`, `WechatServiceClient.h`, `add_friend_mysql`, `delete_friend_mysql` | caller, handler threads, `t_friend_ship` |
| `ClientSession` | `client.cpp` with one connection and `handle_client` at its other end, over byte streams that `recv` cuts | `ui`, `bg`, `shared_int`, `msg`, both streams |
| `UtHashLists` | the table of `tool/uthash.h`, and what its macros do to one item: links in the application order and in the chain of a bucket | none |
| `UtHash` | the macros that walk along lists: finding, expansion, ordered insertion, sorting, selecting, the self-check | none |
| `OrderedHash` | abstract: a table as a sequence of items | `entries` |
| `HashTable` | `tool/hash.h` over `UtHash`, and a program that uses the rest of uthash | `hash`, `table`, the two pointers of `HASH_ITER` |
| `JsonLists` | the items of `tool/cjson.cpp` and the lists of children they are linked into: adding, inserting, detaching, replacing; what it means that a heap holds lists | none |
| `JsonHeap` | the other calls of `tool/cjson.h` that build, change, copy, compare and delete trees, as operators on a heap of items | none |
| `JsonTree` | a program that makes these calls, in any order | `h`, `owned`, `lost` |
| `JsonText` | the parser of `tool/cjson.cpp`, on texts | none |
| `JsonPrint` | its printers and `cJSON_Minify` | none |
| `JsonGrammar` | reference: the JSON texts (RFC 8259) and the values they denote | none |
| `MessageCodec` | `tool/json.cpp` in the hands of client and server | `msg`, `stage`, `sent`, `typed`; `heard`, `growth` |
| `MCChatServer`, `MCListener`, `MCFriendService`, `MCClientSession`, `MCHashTable`, `MCJsonTree`, `MCMessageCodec` | instances for TLC | - |
| `ChatServerProofs` | theorems about `ChatServer`: types and routes; deliveries and the refinement of `MessageLife` | - |
| `FriendServiceProofs`, `ListenerProofs`, `ClientSessionProofs` | theorems about the component of that name | - |
| `ListLemmas` | lemmas that do not depend on the program: sequences, induction, loops | - |
| `UtHashProofs` | theorems about the operators of `UtHashLists` and the loops of `UtHash` | - |
| `HashTableProofs` | theorems about `HashTable`: its five properties | - |
| `JsonListProofs` | theorems about the operators of `JsonLists` | - |

`ChatServer` extends `IntHash` and `WechatDb` and instantiates `MessageLife`;
`FriendService` extends `WechatDb`. `Listener` is below `ChatServer`: what it
shows about service of ready sockets is what the fairness of `ChatServer`
assumes. `ClientSession` is beside it: `ChatServer` has many sockets and whole
requests, `ClientSession` one socket and pieces of them; `LoginOnce` says when a
client logs in again, which is the constant `Relogin` of `ChatServer`. `HashTable`
shows that a table of uthash is the function that `IntHash`, and with it
`ChatServer`, takes it for; `MessageCodec!OnlyWholeMessages` is why
`ClientSession!Parses` may treat a request as something that is read whole or not
at all. `MessageCodec` extends `JsonPrint`, which extends `JsonText`.

**ChatServer.** A handler runs to its end before the next one, but other things
happen meanwhile: peers close, the MySQL connection goes, the process dies. So a
handler is split at each SQL call and at the RPC, and `task` holds its program
point and its locals: `regist` is `Regist`, `RegistSelectId`; after it or after
`Login` come `GetOfflineSelect`, `DeleteOffline`, `SendOffline`; `communicate` is
`Communicate` (first lookup), `LookupFriend` (second lookup and send), `SaveMsg`;
`add` and `delete` are `CallRpc`, `RpcReturns`. `sock[s]` is "free", "open",
"hup" (the peer closed, the end of file is not read) or "dead" (it was read; the
descriptor stays in the epoll set). The variables `who`, `overlap`, `sent`,
`log` and `kept` are history that only properties read.

Abstractions: one `recv` yields one request; names, passwords and messages are
model values, where equal names means equal under the collation of the table;
texts of replies are left out; a message is sent by at most one request;
`sent_at` is never NULL in a schema that has it. `send` to a socket whose peer is
gone fails silently: libmysqlclient, which both servers initialise, ignores
SIGPIPE. Requests of an unknown type change nothing and are left out.

**FriendService.** Each handler does two lookups and one statement.
`LookupBy` and `WriteFriendship` have the outcome of the query if the handler is
the only one on the connection (`Alone`) and any outcome otherwise; such calls
are in `spoilt`. That two threads wait for each other's packets for ever is not
modelled. `CallStub`/`StubReturns` are the blocking stub; `Answer` has the text
that arrives, which for a failed AddFriend is empty since the status is CANCELLED
(`WechatServiceImpl.h:21`).

**Listener.** A report takes an edge-triggered descriptor off the ready list and
puts a level-triggered one at its tail; a wakeup adds a descriptor only if it is
not on the list. `Sublist` picks elements of a list by their positions. `accept_client` takes one connection for each report.

**ClientSession.** A stream is a sequence of units of some bytes, a message a
run of units. A `recv` returns any prefix that fits its buffer. `Parses` is what
`json_2_msg` can use: an object that starts at the first byte and is there to its
end; what follows it is dropped with the buffer. `AskLogin` and `VeriFy` are the
two halves of `VeriFy`; `msg` keeps the fields that decide what the client does
next. The server is `HandleClient`, whose SQL calls are in `ChatServer`. What it
writes in its own words is `Text`, no JSON object: a failure, the start of an
answer to add or delete, the date of a saved message. What some user typed is
`Typed`: a friend's message, which `SendToFriend` sends as it is, the saved message
behind its date, the name in a refusal. It may be a JSON object, so `Taken` lets
it set any of `user_id`, `user_name` and `is_login`, or none; the history variable
`misled` says that VeriFy went on because of it. A client that has `is_login` but
no `user_id` from it gives one command and is back in VeriFy, beside the thread
that reads in the background (`GoOn`, `UserCommand`). A piece of a cut reply
cannot do this: in it the quotes of a content are escaped, so that no member of an
object starts there. `shared_int` is written and read without
synchronisation; the unoptimised build reads it again in each turn, so the other
thread sees the write at some later moment.

**UtHashLists, UtHash, HashTable.** A table is a record: `head`, the links of each item in
application order (`next`, `prev`) and in its chain (`hh_next`, `hh_prev`), and
`tbl` with the buckets and the counters that decide on expansion. HASH_JEN is any
function from keys to numbers, chosen at the start. `StartClear` and `ClearOne`
are `clear_hash`, item by item: between two of them the pointers `current` and
`tmp` stay, and `Free` makes the handle of an item unusable. The actions `Use...`
are a program that calls what `hash.h` does not (ordered insertion, replacing,
sorting, `HASH_CLEAR`). Bloom filters, `HASH_NONFATAL_OOM` and the other hash
functions are not compiled in; out of memory ends the program. `UtHashLists` has
what one call does to one item, and what it means that a table is a list `order`
and one list per bucket (`Represents`); `UtHash` has what walks along lists. A loop
of a macro is a function of the number of rounds: its value at 0 is the state before
the loop, its value at n comes from the one at n - 1 by an operator for the body
(`WalkOn`, `LookOn`, `MoveNext`, `TakeNext`, `MergeRuns`, `NextPass`, `SelectNext`),
and the loop ends at the number of rounds the macro makes, or makes at most: a body
that has nothing left to do changes nothing. No operator is RECURSIVE, so the proofs
reach all of it. A walk along pointers makes at most `MaxLen` rounds, one more than
there are keys; a cycle, which no correct table has, would be cut there.
`MoveItem` and `MoveNext` are the body of the inner loop of HASH_EXPAND_BUCKETS.
`ChainsBounded` is the claim of the comment at `uthash.h:812`. Its bound for a
bucket is a multiple of HASH_BKT_CAPACITY_THRESH or, if that is larger, of
`ideal_chain_maxlen`: the comment at `uthash.h:1076` speaks of the threshold only,
but an expansion leaves chains up to the ideal length without putting off the next
one, however large the table is by then.

**JsonLists, JsonHeap, JsonTree.** `h.node[n]` is an item with its links; `shares` names
the item whose list or text a reference uses. `h.strings` counts the allocated
texts, `h.budget` how many allocations of the running call still succeed, so that
a call may fail at each of its allocations. Texts longer than others are told
apart only where `cJSON_SetValuestring` asks. The program keeps to the rules that
the comments of `cjson.h` give a user: it adds only what it owns and what does not
contain the parent (`Addable`; adding a parent to itself is tried), it does not
change a list while a reference shares it (`Open`), does not free what a reference
outside still uses (`Releasable`) and makes no reference to a tree the reference
would be in (`MayRefer`). Parsing builds trees too, but is modelled on texts.
`JsonLists` is what does not recurse into subtrees, so that it can be proved about:
`Children` is the walk along `next` as a function of the number of its rounds, as in
`UtHash`; `ReplaceLinks` is `cJSON_ReplaceItemViaPointer` up to the deletion of the
item, which `JsonHeap` adds. `ListsAre(h, lists)` says that the heap holds one list
for each parent and nothing is in two places, `Loose` that an item is in none;
`WellLinked` says it of every state of the program, with the lists that the walks
find (`Lists`).

**JsonText, JsonPrint.** Texts are sequences of bytes, since the properties are
about bytes: where a string ends, what is escaped, what lies behind the buffer.
A number is a decimal of at most nine digits with an exponent, where the double
of the code is exact enough for `%1.15g`; `strtod` and `sprintf` are external. A
`printbuffer` records a write behind its end in `over`. Allocations do not fail
here.

**MessageCodec.** `Verify`, `Welcome`, `Refuse` and `Command` are a session:
the dialogue fills `msg`, the server reads `sent` and replies with the same
`message` or with a text. `typed` is history. The names of members and the words
of requests are one byte each and lengths are scaled down (a field holds
`FieldSize` bytes). Beside the session, `Hear` grows any text a peer might send
from a stem, for the properties of parser and printers. "quit" is not among the
commands: `collect_user_input` refuses it, so `client.cpp:83` is never true.

**Fault operators.** Next to some definitions stands a variant with a plausible
mistake ("A fault of ..."). No specification uses them; replacing the definition
by its variant must make the property named in `PROJECT.json` fail.

## 3. Runs

| run | checks | shows |
|---|---|---|
| `sessions` | `TypeOK`, `RoutedToOwnSocket`, `NoRouteToDeadSocket`, `LoggedInIsReachable` | with one login per connection the two tables agree with the sockets through logins, overlapping sessions, ends of file, crashes; only overlapping sessions of a user can leave it unreachable |
| `relogin` | `ClosedPeerIsUnrouted` | in the end no user whose peer has closed is routed to that socket, also when connections log in again and again, as other users too, and through a crash; the user is the one that `map_socket_user` has, since a second one on the same connection keeps its route (`server.cpp:187`, `234`) |
| `delivery` | `WrittenAtMostOnce`, `WrittenToAddressee`, `OnlyFetchedRowsDeleted`, `ImplementsMessageLife` | what becomes of messages over live sends, offline delivery, lost connections and crashes, and that it is what `MessageLife` says |
| `listener` | `EventsAreCurrent`, `BacklogAccounted`, `EverySocketIsServed`, `AcceptedUnlessStranded` | the loop never blocks in `recv`; no socket starves among dead ones; which connections wait for ever in the accept queue, and that all others are accepted |
| `friends` | `OneHandlerAtATime`, `RepliesTruthful`, `WritesNamedPair`, `CallReturns` | the blocking caller is what protects the shared connection; the texts a user gets are true; the chat server is not stuck in an RPC while queries return, unless two threads met on the connection |
| `client` | `FriendsNotBelieved`, `IdentityIsWelcomed`, `HandledInOrder`, `LoginOnce` | however the streams are cut, only a client whose reply was cut takes a friend's message for the reply to its login; any other acts only for a user that the server logged in on its connection; commands are handled once and in order; a client logs in again only after a reply was cut |
| `readers` | `OneReader`, `AnswerComes`, `VeriFyReturns` | the threads of a client read together only if VeriFy took a typed text for a reply; the login dialogue hangs only then or after a request was cut |
| `hash_table` | `Intact`, `ChainsBounded`, `SelectsChosen`, `IsTheFunctionOfIntHash`, `ImplementsOrderedHash` | links, counts and `tail` are right after every operation, also in the middle of `clear_hash`; chains are as short as uthash claims; a table is the function of `IntHash` and the sequence of `OrderedHash` |
| `json_tree` | `WellLinked`, `NothingLeaks`, `ListsAsNamed`, `CompareIsEquality`, `CopiesAreTrue` | lists stay closed under every order of calls; what is allocated is what trees hold, wherever an allocation fails; `cJSON_Compare` is equality of what trees say; copies say the same and share nothing |
| `json_text` | `RequestIsCurrent`, `OnlyWholeMessages`, `ParserInBounds`, `AcceptsJson`, `PrintFits`, `MinifyKeepsValue` | the server reads what was typed last; no part of a request passes for one; the parser reads JSON and nothing behind its buffer; what is printed fits and reads back |
| `offline_loss` | `DeletedMessagesAreSent` (violated) | of several saved messages one is sent and all are deleted |
| `unknown_name` | `UnknownNameRefused` (violated) | a friendship is written for a name that no user has |

Bounds. `sessions` has three descriptors, so that two sessions of one user and a
third user's exist together, two accounts and room for one registration, which
may take a name that is there, and one crash. `delivery` and `relogin` have two
descriptors (sender and receiver, or two receivers, or one connection that both
sends and receives) and one crash; `delivery` has two messages, as a login that
loses one of two rows needs two. `delivery` starts
with one account, so that names without a row occur, `relogin` with two, so that
a connection can change its user. `friends` has two calls, the least that can meet on a connection,
two accounts, one crash of the caller and no bound on crashes of the service. `listener` has
three connections for a queue of two and two descriptors, so that the queue fills
and accept fails; its events array has two places for the three descriptors that
can be ready. In `client` the buffers hold 2 and 4 units, the reply to
one user fits and the reply to the other (a long name in UTF-8) does not, a login
is 2 units and a command 1 or 5, more than a buffer; three logins let a reply be
read two attempts late, and a friend's message be read in place of one. `readers`
is the same with buffers of 2 units and four logins, which a client needs that
missed a reply, took a typed text for the next one, was left without a `user_id`
and is in VeriFy again while its background thread reads; the typed text there is
the offline message of a login, so that friends need not write.
`MaxUsers` bounds the
rows of `t_wechat_users`, `MaxCrashes` the crashes. Each message and each call
happens once, which bounds the rest.

`hash_table` has four keys with two values and four hash functions (all keys in
one bucket, two buckets, spread, and together until the table is large), two
buckets at first and a threshold of one item instead of ten: expansion happens at
the second item, and is inhibited with three in one bucket; `MaxBuckets` stops
adding at 16. `json_tree` has four items, enough for a list with a first, a
middle and a last child, or an object in an object with a reference to it; an
item with a reference, a constant key or one of the `Rarities` (the second name,
the second text) counts twice towards `MaxWeight`. A call allocates
at most six times before it fails, and a budget that a call does not use up is
not tried again: it does the same with less. In `json_text` the nesting limit is 2, so that
it is reached; buffers start with 4 bytes, so that they grow; user names, passwords
and contents contain quotes, backslashes and a JSON object. The texts for the
parser are all extensions by up to `MaxGrowth` = 3 bytes of 12 of 25 stems: nothing,
any one of the 12, and beginnings of escapes, surrogates, numbers, members, nested
arrays and the byte order mark.

Fairness. `relogin`: weak fairness of the running handler says that MySQL and
the RPC answer; strong fairness of `HandleEof(s)` says that the loop comes to
every ready socket, although handlers of others run in between. `Listener` is
the reason: under weak fairness of the loop alone, `EverySocketIsServed` holds
with more ready descriptors than the events array has places. `friends`: a
query returns and gRPC brings an answer or a failure, one of the two for each
call (`WF` of `Handle(c) \/ StubReturns(c)`). A caller that crashed and came back
may meet its old handler on the connection; then libmysqlclient promises nothing,
and `CallReturns` exempts the runs in which a call was `spoilt`. `readers`: both
threads of the client and the loop of the server keep running. Nothing is assumed
of peers, users, crashes or registrations. `hash_table`, `json_tree` and
`json_text` state no liveness: each call is sequential and ends.

`sessions` lists its type invariant; `FriendService`, `Listener` and
`ClientSession` state one that no run lists, since it is a theorem. The runs of
`ClientSession` do not check for deadlock: a client ends when the server is gone,
and waits for ever when its request was cut. Neither do `json_tree`, whose program
may run out of weight, and `json_text`, whose texts stop growing.

The safety of routing and delivery with several logins per connection is
covered for every instance by the theorems `RoutesAreOwn`, `AtMostOnce` and
`ToAddressee`, which hold for both values of `Relogin`.

## 4. Proofs

The theorems hold for every value of the constants: all descriptors, users,
messages, calls, buffer sizes, lengths of requests, numbers of crashes, stack
contents, hash functions. They assume what the modules assume of their constants:
null values are no values (`NoneAssumption`, `UserAssumption`,
`ListenAssumption`, `TableAssumption`), the first users are rows, bounds and
sizes are numbers (`BoundAssumption`, `LenAssumption`), `StackIntsAreInts`; for
uthash also that there are finitely many keys (an `int` has finitely many values), and
for cJSON finitely many items (`HeapAssumption`), or a walk would have no number of
rounds to end at.

**Types.** `TypeCorrect` in `ChatServerProofs`, `FriendServiceProofs`,
`ListenerProofs` and `ClientSessionProofs`. In the first two modules `TypeOK` is
inductive, by one case for each action; in the others it comes out of the
invariant below.

**Routes** (`ChatServerProofs`: `RoutesAreOwn`, `RoutesEndWithSockets`,
`UsersAreReachable`). None of the three is inductive. `SessionInv` adds
`SocketsInUse` (a free descriptor is in no table, or its next owner would inherit
a route) and `TaskConnected` (while a registration waits for MySQL its socket is
not marked dead and has no other login, or the binding would come late). The
argument for `LoggedInIsReachable` needs `NoRouteToDeadSocket`: if a user already
has a route when it logs in, the second table names it for that route's socket,
and so the sessions overlap.

**Deliveries** (`ChatServerProofs`: `AtMostOnce`, `OnlyFetchedDeleted`,
`ToAddressee`). `DeliveryInv` says that the message of the running handler is in
no row and not in the log unless a DELETE failed on it (`HeldIsNew`), that each
message has at most one row, and that between the SELECT and the DELETE of a login
the rows of its user do not change. `Addressed` says that every stage of a message
keeps its addressee, also for a lookup that returned -1 because the connection was
lost: the connection is not back before a restart, so the INSERT fails too.

**The life of a message** (`ChatServerProofs`: `ImplementsLife`). `Stage` is what
`ChatServer` substitutes for the variable `life` of `MessageLife`. The first
lemmas say what a step has to do to the stages to be a step of `MessageLife`; the
others, one for each kind of step, that the server does one of these: Communicate
accepts, LookupFriend and SaveMsg write, save or drop, DeleteOffline takes all rows
of a user together, SendOffline writes, a row whose DELETE failed is written while
it stays saved, a crash drops what the handler holds, and all other actions leave
every stage alone. This rests on `DeliveryInv`; it needs of `HeldIsNew` that
between two requests no message is held, or a later step would drop it twice.

**The friend service** (`FriendServiceProofs`: `OneHandler`, `Truthful`,
`NamedPair`). `ServiceInv` adds to the three properties that handlers meet only
when a chat server died in a call (`MeetingsAreOrphans`); that a call writes in
its last step only and what its handler has prepared to answer is true of it
(`WrittenInv`: the text and the row are in two processes, either of which may die
in between); and that the ids a handler keeps from one query to the next belong to
the names of its request (`NamedInv`, for which accounts never go).

**The event loop** (`ListenerProofs`: `NeverBlocks`, `AccountsForBacklog`).
`EventsAreCurrent` is not inductive: if the events array held a descriptor twice,
the first event could take what the second one reports. `ListenerInv` adds that
neither the ready list nor the array does. That the ready list may still name what
the array names, since level-triggered descriptors go back to its tail, is no
harm: epoll_wait polls them again. The lemmas about `Sublist` say which elements
it keeps and that it repeats none.

**The client** (`ClientSessionProofs`: `BelievesReplies`, `ReadsAlone`,
`ActsForWelcomed`, `HandlesInOrder`, `LogsInOnce`, `AnswerIsThere`). `SessionInv`
says where everything is: `HandoverInv` which thread may read, `IdentityInv` that
the names in replies on the way are of users that were welcomed, and so are those
in commands unless the client was misled, `OrderInv`
that the commands on the way are numbered behind those handled (only a first unit
counts, since the rest of a cut command is no request), `BoundInv` whom the second
table names. `DialogueInv` is the core: unless a reply was cut, before a welcome
there is the end of one login request under way, or one failure, or nothing; and
the welcome is the first thing the client reads. `TypedInv` is what
`FriendsNotBelieved` needs of it, also when the server is gone and part of the
stream with it: in the dialogue nothing typed is on the way, or the whole welcome
is in front of it. That the two sides cannot wait for each other follows from
`DialogueInv` and from what a cut request leaves behind. Order, and one login per
uncut connection, hold whatever the client believes; identity and the single
reader hold up to the moment in which it takes a typed text for a reply, and
`BelievesReplies` says that this needs a cut reply first.

**uthash, one item** (`UtHashProofs`). These theorems are about operators: what the
macros do to pointers in terms of lists. If a table is the lists
`order` and `chains` (`Represents`), then it is again after HASH_ADD
(`AddKeepsTable`: at the end of `order`, in front of its chain), ordered insertion
(`AddInOrderKeepsTable`), HASH_DELETE (`DeleteKeepsTable`, `DeleteLastEmpties`),
the first HASH_ADD (`FirstMakesTable`) and freeing a deleted item
(`FreeKeepsTable`); and a round of an expansion keeps the new chains and the
application order (`ExpansionStarts`, `ExpansionMovesItem`). They rest on two lemmas
about doubly linked lists, `LinkedInsert` and `LinkedRemove`, on one lemma for each
macro that says which pointers it writes (`PushWrites` to `DelWrites`), and on that
no item is in two chains.

**uthash, the loops** (`UtHashProofs`, with `ListLemmas`). What holds after n rounds needs induction
on n. The library's rule for it takes an operator as parameter, which the provers
cannot instantiate; `SetInduction` is the same rule for a set of numbers, from the
least element of its complement (`LeastNumber`, from the well-founded order of the
numbers). `LoopExists` and `LoopChosen` say that the function a loop is defined by
exists and is the one that CHOOSE gives; `LoopKeeps`, `TypedLoop` and `RoundsKeep`
are induction on rounds, ready for use. From these: a walk along a list gives the
list (`FollowList`), HASH_FIND finds the item of a key or nothing (`FindInChain`),
walking all buckets meets each item once. `ExpandKeepsTable`: the rounds of an
expansion have moved a growing part of the items, each to the chain its hash value
names, and no chain is longer than its multiple of the ideal length.
`SortListSorts`: after a merge the result has the items of both runs, ascending and
with equals in their old places (`PartSorted` states it for the whole list, in runs
of `insize`), and after at most as many passes as there are items one run is the
whole list. `SelectSelects`: after n items of the
first table the second one is the list of those among them that were selected, and
its chains hang right although `num_items` lags by one during an expansion and `tail`
does not move; `Hung` is the part of `Represents` that holds then.

**uthash, the table** (`HashTableProofs`: `TableInvariant`, `TableIsIntact`,
`ChainsAreBounded`, `SelectIsRight`, `TableIsFunction`, `TableIsSequence`). All
properties of the run `hash_table` are theorems, for any number of keys and buckets
and any hash functions. `Intact` is not inductive: with a key twice in the table
HASH_DELETE of one leaves the other to be found, and if `clear_hash` stood somewhere
else its next item might be freed before it comes there. `IInv` adds that no key is
there twice and that chains are bounded (`Holds`), and that `clear_hash` stands on
the first item and knows the second (`AtFirst`), so that the table is empty when it
is done. Each operation keeps `Holds` and does to the list `order` what
its name says; `Contents` is the function that a list without repeated keys is, and
the steps of `OrderedHash` follow from what happens to the list. A replacing call is
a deletion and an insertion there, a sort one step.

**cJSON, the lists** (`JsonListProofs`: `AddKeepsLists`, `InsertKeepsLists`,
`DetachKeepsLists`, `ReplaceKeepsLists`, `ChildrenAreList`, `CallsDoAsNamed`). The
lists of cJSON are half circles: next ends with NULL, but prev of the first item
is the last one, and each call has to keep that for its first, its last and its
only item. If a heap holds lists (`ListsAre`) and an item is loose, then after
each call it holds the same lists except for that of the parent, which has the
item appended, inserted, removed or replaced; the item taken out is loose, so that
it can be added again; other loose items stay so; no child pointer of another
parent and no content of any item changes (`ListBecomes`). `CallsDoAsNamed` says
it of what a walk over the children finds, which is what `ListsAsNamed` checks in
`json_tree` on at most four items, deletion of the replaced item included. The
argument looks at a heap through three functions, `NextOf`, `PrevOf` and
`ChildOf`: one lemma for each of the three writes says what it changes in them
(`NextWritten`, `PrevWritten`, `ChildWritten`); one for each kind of change says
that such pointers are those of the new list (`AppendCircle`, `InsertCircle`,
`RemoveCircle`, `ReplaceCircle`, `StartCircle`); and `ListChanged` that it is
enough to look at one list, since no item is in two. `ChildrenAreList`: the walk
finds the list, after at most as many rounds as there are items, by induction on
the rounds. `WellLinked` checks the hypotheses `IsHeap` and `ListsAre` of these
theorems in every state of `json_tree`.

Only model-checked, and why:

* `CallReturns`, `EverySocketIsServed`, `AcceptedUnlessStranded`,
  `ClosedPeerIsUnrouted`, `VeriFyReturns`: liveness under fairness.
* The properties of `JsonTree`: besides the lists they are about `Delete`,
  `Duplicate` and `Compare`, which recurse into subtrees.
* The properties of `MessageCodec`: parser, printers and grammar recurse along texts.

## 5. Findings

1. `mysql.cpp:425`: each row overwrites the one before; of several offline
   messages one is sent, and all are deleted (run `offline_loss`).
2. `mysql.cpp:322,334,348`: for a name without a row `get_id_by_name_mysql`
   returns a variable it never wrote, where its callers expect -1 (run
   `unknown_name`). In the unoptimised build of the repository the second lookup
   finds the result of the first on the stack.

Other things to know:

* `mysql.cpp:412` selects `sent_at`, which `create.sql:21-29` does not define: with
  that schema every login fetches nothing. `SentAtColumn` says which schema there
  is; the theorems about `ChatServer` hold for both, the runs take one that has
  the column.
* A client whose reply did not fit or came in pieces may take what a friend writes
  for the reply to its next login, with whatever name is in it (`client.cpp:38-46`).
* `user_name` is not unique, so registering a taken name yields the account of
  another user (`RegistSelect` returns any row of the name).
* The text of a failed AddFriend never reaches the caller.
* Coalesced connections wait in the queue until another one comes; with `MaxFds`
  connections ever accepted the server accepts none again.

In the libraries, which the program uses only where this does not bite:

* `cJSON_Minify` takes the second of two backslashes for one that escapes the
  quote behind it (`cjson.cpp:2443`), so a string that ends in a backslash runs on;
  `MinifyKeepsValue` leaves such texts out.
* `\u` with a byte that is no hexadecimal digit reads as U+0000 (`cjson.cpp:559`)
  and so cuts the string; the comment at `cjson.cpp:592` expects a check.
  `AcceptsJson` leaves such texts out.
* `cJSON_AddItemReferenceToObject` leaks the reference when the name cannot be
  copied (`cjson.cpp:1814`); `NothingLeaks` counts these in `lost`.
* `cJSON_ReplaceItemInObject` renames the replacement before it looks for the
  item, and leaves it renamed when there is none (`cjson.cpp:2055`).
* `cJSON_Compare` looks members up by name, so it is equality only for objects
  whose names are different (`CompareIsEquality`).
* `HASH_SELECT` does not move `tbl->tail` of the table it fills: an append to that
  table would go behind its first item.

## 6. Not modelled, and why

* What the client prints, and the index -1 it writes when `recv` fails
  (`client.cpp:60`): what that write changes is not a matter of this code.
* `is_friend_verify` and `get_data_with_cache`, and with them `base/redis.cpp`: no
  caller, no program of the repository takes a step of them.
* `SendToClient`, `send_msg`, `free_message`: no caller.
* SQL quoting and the text of logs and replies. `scanf` into fields of fixed
  size: inputs of the dialogues fit.
* Of the JSON library: the decimal point of other locales, hooks of the user,
  numbers of more than nine digits, raw items in the printers,
  `cJSON_CreateStringReference`, allocations that fail in parser and printers.
* Of uthash: Bloom filters, `HASH_NONFATAL_OOM`, and which numbers the hash
  functions compute (any are allowed for).
* `proto/*.pb.*` is generated, `cmake-build-debug` is the output of a build: used
  through what the modules above say of gRPC.

## 7. Plan

1. Done: `IntHash`, `WechatDb`, `MessageLife`, `ChatServer` with its proofs;
   `Listener`, `FriendService`, `ClientSession`; `UtHash`, `OrderedHash`,
   `HashTable`; `JsonHeap`, `JsonTree`; `JsonText`, `JsonPrint`, `JsonGrammar`,
   `MessageCodec`.
2. Done: proofs of all safety properties of `ChatServer`, `FriendService`,
   `Listener`, `ClientSession` and `HashTable`, the refinements of `MessageLife` and
   `OrderedHash`, the loops of uthash, the lists of cJSON.
3. Open: `Delete` as a loop over the items that are left to free, for `NothingLeaks`;
   the buffer arithmetic of the printers (`Ensure`) in a module without recursion,
   as `JsonLists` is, for `PrintFits`.
