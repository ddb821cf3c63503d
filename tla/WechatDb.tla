------------------------------ MODULE WechatDb ------------------------------
(***************************************************************************)
(* The SQL the program runs (base/mysql.cpp) against the tables of         *)
(* base/create.sql.                                                        *)
(*                                                                         *)
(* t_wechat_users is the sequence of its rows [name, passwd]: user_id is   *)
(* AUTO_INCREMENT and no row is ever deleted, so row i has user_id i.  The *)
(* schema has no UNIQUE on user_name.  t_save_msg is a set of rows that    *)
(* carry their AUTO_INCREMENT msg_id.  Names are classes of equal names    *)
(* under the collation of the table.                                       *)
(*                                                                         *)
(* A SELECT without ORDER BY whose first row alone is fetched may return   *)
(* any row that matches.  A call on a connection that is lost fails and    *)
(* changes nothing.                                                        *)
(***************************************************************************)
EXTENDS Integers, Sequences

CONSTANTS
  StackInts  (* what an uninitialized int may hold                         *)

ASSUME StackIntsAreInts == StackInts \subseteq Int

(* SELECT user_id FROM t_wechat_users WHERE user_name = name               *)
IdsNamed(users, name) == {i \in DOMAIN users : users[i].name = name}

(* ... AND user_passwd = passwd                                            *)
IdsVerified(users, name, passwd) ==
  {i \in IdsNamed(users, name) : users[i].passwd = passwd}

(* mysql_verify: a user_id, or 0 when no row matches or the query fails.   *)
MysqlVerify(users, ok, name, passwd) ==
  IF ok /\ IdsVerified(users, name, passwd) # {}
    THEN IdsVerified(users, name, passwd)
    ELSE {0}

(* The SELECT that ends regist_wechat_mysql: the user_id of a row of that  *)
(* name, or 0 when the query fails.                                        *)
RegistSelect(users, ok, name) ==
  IF ok /\ IdsNamed(users, name) # {} THEN IdsNamed(users, name) ELSE {0}

(* get_id_by_name_mysql: -1 when a call fails.  When no row has the name,  *)
(* mysql_stmt_fetch returns MYSQL_NO_DATA, which the code does not test:   *)
(* the local user_id it returns was never written.                         *)
GetIdByName(users, ok, name) ==
  IF ~ok THEN {-1}
  ELSE IF IdsNamed(users, name) = {} THEN StackInts
  ELSE IdsNamed(users, name)

(* A fault of SavedFor: the column of the sender instead.                  *)
SavedFrom(saved, id) == {r \in saved : r.user_id = id}

(* SELECT sent_at, msg FROM t_save_msg WHERE friend_id = id, and the rows  *)
(* DELETE FROM t_save_msg WHERE friend_id = id removes.                    *)
SavedFor(saved, id) == {r \in saved : r.friend_id = id}

(* The row the fetch loop of get_offline_msg_mysql reads last.             *)
NewestRow(rows) == {r \in rows : \A q \in rows : q.msg_id <= r.msg_id}
=============================================================================
