------------------------------ MODULE LossyFeed ------------------------------
(***************************************************************************)
(* What a feed promises its subscribers, without threads, locks, sockets   *)
(* or queues.  Messages are numbered 1, 2, ... as they are published.  A   *)
(* subscriber is offered every message once and in order, from a message   *)
(* at the moment it joined on.  An offer is taken, or refused when         *)
(* QueueSize messages wait for it already; what was taken is delivered in  *)
(* order, until the subscriber leaves.  Subscribers are independent: no    *)
(* step of one waits for another, and publishing waits for none.           *)
(***************************************************************************)
EXTENDS Integers, Sequences

CONSTANTS Clients, QueueSize

VARIABLES log,      \* messages published
          member,   \* per client: out, in, left
          next,     \* per member: the message it is offered next
          waiting,  \* per member: messages taken and not delivered
          present,  \* clients that listen
          got       \* per client: messages delivered

lossyVars == <<log, member, next, waiting, present, got>>

LossyInit ==
  /\ log = 0
  /\ member = [c \in Clients |-> "out"]
  /\ next = [c \in Clients |-> 0]
  /\ waiting = [c \in Clients |-> <<>>]
  /\ present = Clients
  /\ got = [c \in Clients |-> <<>>]

Publish ==
  /\ log' = log + 1
  /\ UNCHANGED <<member, next, waiting, present, got>>

\* A feed is joined once it has data; a message published at the same moment
\* may be the first or the last one before.
Join(c) ==
  /\ member[c] = "out" /\ log > 0
  /\ member' = [member EXCEPT ![c] = "in"]
  /\ \E first \in {log, log + 1} : next' = [next EXCEPT ![c] = first]
  /\ UNCHANGED <<log, waiting, present, got>>

Offered(c) ==
  /\ member[c] = "in" /\ next[c] <= log
  /\ next' = [next EXCEPT ![c] = @ + 1]
  /\ UNCHANGED <<log, member, present, got>>

\* One message more than QueueSize may wait: the one being delivered.
Take(c) ==
  /\ Len(waiting[c]) <= QueueSize
  /\ Offered(c)
  /\ waiting' = [waiting EXCEPT ![c] = Append(@, next[c])]

Refuse(c) ==
  /\ Len(waiting[c]) >= QueueSize
  /\ Offered(c)
  /\ UNCHANGED waiting

\* The oldest message that waits reaches the client, or nobody if it is gone.
HeadReaches(c) ==
  /\ waiting[c] # <<>>
  /\ got' = IF c \in present THEN [got EXCEPT ![c] = Append(@, Head(waiting[c]))] ELSE got

Deliver(c) ==
  /\ member[c] = "in"
  /\ HeadReaches(c)
  /\ waiting' = [waiting EXCEPT ![c] = Tail(@)]
  /\ UNCHANGED <<log, member, next, present>>

GoAway(c) ==
  /\ c \in present
  /\ present' = present \ {c}
  /\ UNCHANGED <<log, member, next, waiting, got>>

\* A member is dropped with what waits for it, the first of which may just
\* have reached it; or a client is turned away.
Leave(c) ==
  /\ member[c] # "left"
  /\ member' = [member EXCEPT ![c] = "left"]
  /\ next' = [next EXCEPT ![c] = 0]
  /\ waiting' = [waiting EXCEPT ![c] = <<>>]
  /\ HeadReaches(c) \/ UNCHANGED got
  /\ UNCHANGED <<log, present>>

LossyNext ==
  \/ Publish
  \/ \E c \in Clients :
       Join(c) \/ Take(c) \/ Refuse(c) \/ Deliver(c) \/ GoAway(c) \/ Leave(c)

LossySpec == LossyInit /\ [][LossyNext]_lossyVars
=============================================================================
