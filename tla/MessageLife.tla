---------------------------- MODULE MessageLife ----------------------------
(***************************************************************************)
(* What the chat server promises about one message, whatever its tables    *)
(* and sockets do: the stages of its life.  A message is accepted, then    *)
(* held by the one handler that works on it; from there it is written to a *)
(* socket, saved for later, or lost.  A login takes all the saved messages *)
(* of its user out of the table; it holds on to exactly one of them and    *)
(* drops the others.  Written and lost are final.                          *)
(***************************************************************************)
CONSTANT Msgs

VARIABLES
  life,   (* the stage of each message                                     *)
  once    (* the messages that were written to a socket at least once      *)

life_vars == <<life, once>>

Stages == {"new", "held", "saved", "written", "lost"}

LifeTypeOK == life \in [Msgs -> Stages] /\ once \subseteq Msgs

LifeInit == life = [x \in Msgs |-> "new"] /\ once = {}

In(stage) == {x \in Msgs : life[x] = stage}

(* Where a message ends that nobody works on any more.                     *)
Gone(x) == IF x \in once THEN "written" ELSE "lost"

(* SendToFriend takes the message over.                                    *)
Accept(x) ==
  /\ x \in In("new")
  /\ life' = [life EXCEPT ![x] = "held"]
  /\ UNCHANGED once

(* send on a socket                                                        *)
Write(x) ==
  /\ x \in In("held")
  /\ life' = [life EXCEPT ![x] = "written"]
  /\ once' = once \cup {x}

(* send of a message whose row the DELETE failed to remove                 *)
WriteSaved(x) ==
  /\ x \in In("saved")
  /\ once' = once \cup {x}
  /\ UNCHANGED life

(* save_msg_in_mysql                                                       *)
Save(x) ==
  /\ x \in In("held")
  /\ life' = [life EXCEPT ![x] = "saved"]
  /\ UNCHANGED once

(* get_offline_msg_mysql takes the rows S and keeps the message x.         *)
Fetch(S, x) ==
  /\ S \subseteq In("saved") /\ x \in S
  /\ life' = [y \in Msgs |-> IF y = x THEN "held"
                             ELSE IF y \in S THEN Gone(y) ELSE life[y]]
  /\ UNCHANGED once

(* The process dies, or the INSERT of the row fails.                       *)
Drop(x) ==
  /\ x \in In("held")
  /\ life' = [life EXCEPT ![x] = Gone(x)]
  /\ UNCHANGED once

LifeNext ==
  \/ \E x \in Msgs : Accept(x) \/ Write(x) \/ WriteSaved(x) \/ Save(x) \/ Drop(x)
  \/ \E S \in SUBSET Msgs : \E x \in S : Fetch(S, x)

LifeSpec == LifeInit /\ [][LifeNext]_life_vars
=============================================================================
