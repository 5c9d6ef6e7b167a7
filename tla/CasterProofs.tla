---------------------------- MODULE CasterProofs ----------------------------
(***************************************************************************)
(* Proofs about Caster, for any number of clients and listeners, any queue *)
(* size and any number of messages.  The argument: every client has been   *)
(* offered the messages from joined + 1 up to Top, each once and in order, *)
(* and each is delivered, in hand, queued or refused; what is delivered,   *)
(* in hand and queued ascends; what is queued was published after the last *)
(* message taken, and a full queue of it stood behind every refusal.       *)
(***************************************************************************)
EXTENDS Caster, SequenceTheorems, FiniteSetTheorems, TLAPS

\* The last message a client has been offered, the current one once publish
\* has put it.
Top(c) == IF ppc = "snapshot" \/ c \in targets THEN published - 1 ELSE published

Has(s, m) == \E i \in DOMAIN s : s[i] = m

\* Who is a subscriber, and who has a message in hand.
Places ==
  /\ available => published > 0
  /\ ppc # "idle" => published > 0
  /\ ppc # "put" => targets = {}
  /\ \A c \in Clients :
       /\ hpc[c] \in {"subscribe", "get", "send", "unsubscribe"} => published > 0
       /\ c \in subs <=> hpc[c] \in {"get", "send", "unsubscribe"}
       /\ item[c] # None <=> hpc[c] = "send"

\* A client that has not subscribed yet has been offered nothing.
Fresh(c) ==
  hpc[c] \in {"none", "request", "subscribe"} =>
    /\ queue[c] = <<>> /\ delivered[c] = <<>> /\ lost[c] = {}
    /\ joined[c] = 0 /\ taken[c] = 0 /\ c \notin targets

\* What is delivered, in hand and queued ascends.
Ordered(c) ==
  /\ joined[c] <= Top(c)
  /\ \A i \in DOMAIN delivered[c] : joined[c] < delivered[c][i] /\ delivered[c][i] <= Top(c)
  /\ \A i, j \in DOMAIN delivered[c] : i < j => delivered[c][i] < delivered[c][j]
  /\ item[c] # None => joined[c] < item[c] /\ item[c] <= Top(c)
  /\ item[c] # None => \A i \in DOMAIN delivered[c] : delivered[c][i] < item[c]
  /\ \A i \in DOMAIN queue[c] : joined[c] < queue[c][i] /\ queue[c][i] <= Top(c)
  /\ \A i, j \in DOMAIN queue[c] : i < j => queue[c][i] < queue[c][j]
  /\ \A i \in DOMAIN delivered[c], j \in DOMAIN queue[c] : delivered[c][i] < queue[c][j]
  /\ item[c] # None => \A j \in DOMAIN queue[c] : item[c] < queue[c][j]

\* The messages published after the last one taken and before a refused one,
\* without those that were refused too.
Ahead(c, r) == (r.after + 1 .. r.message - 1) \ Refused(c)

\* What is queued comes after what was taken and was not refused; QueueSize
\* messages are ahead of each refused one.
Behind(c) ==
  /\ taken[c] <= Top(c)
  /\ \A i \in DOMAIN queue[c] : taken[c] < queue[c][i] /\ queue[c][i] \notin Refused(c)
  /\ \A r \in lost[c] : r.message <= Top(c) /\ Cardinality(Ahead(c, r)) >= QueueSize

\* Nothing offered to a client that is there and served is missing.
Kept(c) ==
  Served(c) /\ peer[c] = "here" =>
    \A m \in joined[c] + 1 .. Top(c) :
      Has(delivered[c], m) \/ item[c] = m \/ Has(queue[c], m) \/ m \in Refused(c)

CasterInv ==
  /\ CasterTypeOK
  /\ Places
  /\ \A c \in Clients : Fresh(c) /\ Ordered(c) /\ Behind(c) /\ Kept(c)

-----------------------------------------------------------------------------
LEMMA Bounds == QueueSize \in Nat /\ QueueSize > 0 /\ SockBuf \in Nat /\ None \notin Nat
BY CasterAssumption

LEMMA InitInv == CasterInit => CasterInv
<1> SUFFICES ASSUME CasterInit PROVE CasterInv
  OBVIOUS
<1> USE Bounds DEF CasterInit
<1>1. CasterTypeOK
  <2>1. available \in BOOLEAN /\ stopped \in BOOLEAN BY Zenon
  <2>2. \A c \in Clients : queue[c] = <<>> /\ Len(queue[c]) <= QueueSize OBVIOUS
  <2>3. queue \in [Clients -> Seq(Nat)] /\ delivered \in [Clients -> Seq(Nat)]
    OBVIOUS
  <2> QED BY <2>1, <2>2, <2>3 DEF CasterTypeOK
<1>2. Places BY DEF Places
<1>3. ASSUME NEW c \in Clients PROVE Fresh(c) /\ Ordered(c) /\ Behind(c) /\ Kept(c)
  BY DEF Fresh, Ordered, Behind, Kept, Served, Top
<1> QED BY <1>1, <1>2, <1>3 DEF CasterInv

-----------------------------------------------------------------------------
\* Every action of the next-state relation, and the stuttering step.
Step ==
  \/ publish \/ snapshot \/ publish_returns \/ stop
  \/ \E a \in Addresses : serve_on(a) \/ accept_fails(a) \/ \E c \in Clients : accept(a, c)
  \/ \E c \in Clients :
       \/ put(c) \/ leave(c) \/ request(c) \/ request_fails(c) \/ subscribe(c)
       \/ get(c) \/ get_times_out(c) \/ send(c) \/ send_fails(c) \/ unsubscribe(c)
  \/ UNCHANGED vars

LEMMA NextIsStep == [CasterNext]_vars => Step
BY DEF Step, CasterNext, Publisher, Listener, Handle

LEMMA TypeStep == CasterTypeOK /\ Places /\ Step => CasterTypeOK'
<1> SUFFICES ASSUME CasterTypeOK, Places, Step PROVE CasterTypeOK'
  OBVIOUS
<1> USE Bounds
<1>1. CASE publish
  <2>1. available' \in BOOLEAN /\ stopped' \in BOOLEAN BY <1>1, Zenon DEF CasterTypeOK, publish
  <2> QED BY <1>1, <2>1 DEF CasterTypeOK, publish, handlerVars
<1>2. CASE snapshot
  <2>1. available' \in BOOLEAN /\ stopped' \in BOOLEAN BY <1>2, Zenon DEF CasterTypeOK, snapshot
  <2> QED BY <1>2, <2>1 DEF CasterTypeOK, snapshot, handlerVars
<1>3. CASE publish_returns
  <2>1. available' \in BOOLEAN /\ stopped' \in BOOLEAN BY <1>3, Zenon DEF CasterTypeOK, publish_returns
  <2> QED BY <1>3, <2>1 DEF CasterTypeOK, publish_returns, handlerVars
<1>4. CASE stop
  <2>1. available' \in BOOLEAN /\ stopped' \in BOOLEAN
    BY <1>4, Zenon DEF CasterTypeOK, stop, feedVars
  <2> QED BY <1>4, <2>1 DEF CasterTypeOK, stop, handlerVars, feedVars
<1>5. ASSUME NEW a \in Addresses, serve_on(a) \/ accept_fails(a) PROVE CasterTypeOK'
  <2>1. available' \in BOOLEAN /\ stopped' \in BOOLEAN
    BY <1>5, Zenon DEF CasterTypeOK, serve_on, accept_fails, feedVars
  <2>2. Unless("closed", "accept") \in {"accept", "closed"} BY DEF Unless
  <2> QED BY <1>5, <2>1, <2>2 DEF CasterTypeOK, serve_on, accept_fails, handlerVars, feedVars
<1>6. ASSUME NEW a \in Addresses, NEW c \in Clients, accept(a, c) PROVE CasterTypeOK'
  <2>1. available' \in BOOLEAN /\ stopped' \in BOOLEAN
    BY <1>6, Zenon DEF CasterTypeOK, accept, feedVars
  <2>2. Unless("closed", "accept") \in {"accept", "closed"} BY DEF Unless
  <2> QED BY <1>6, <2>1, <2>2 DEF CasterTypeOK, accept, feedVars
<1>7. ASSUME NEW c \in Clients, put(c) PROVE CasterTypeOK'
  <2>1. available' \in BOOLEAN /\ stopped' \in BOOLEAN BY <1>7, Zenon DEF CasterTypeOK, put
  <2>2. /\ targets' = targets \ {c}
        /\ UNCHANGED <<available, subs, ppc, published, handlerVars, listener, stopped, joined, taken>>
    BY <1>7 DEF put
  <2>3. CASE Len(queue[c]) < QueueSize /\ queue' = [queue EXCEPT ![c] = Append(@, published)] /\ lost' = lost
    <3>1. Append(queue[c], published) \in Seq(Nat) /\ Len(Append(queue[c], published)) = Len(queue[c]) + 1
      BY DEF CasterTypeOK
    <3>2. Len(queue[c]) \in Nat BY DEF CasterTypeOK
    <3>3. Len(Append(queue[c], published)) <= QueueSize BY <2>3, <3>1, <3>2
    <3>4. queue' \in [Clients -> Seq(Nat)] /\ \A d \in Clients : Len(queue'[d]) <= QueueSize
      BY <2>3, <3>1, <3>3 DEF CasterTypeOK
    <3> QED BY <2>1, <2>2, <2>3, <3>4 DEF CasterTypeOK, handlerVars
  <2>4. CASE lost' = [lost EXCEPT ![c] = @ \cup {Refusal(c)}] /\ queue' = queue
    <3>1. Refusal(c) \in [message : Nat, after : Nat] BY DEF CasterTypeOK, Refusal
    <3>2. lost' \in [Clients -> SUBSET [message : Nat, after : Nat]]
      BY <2>4, <3>1 DEF CasterTypeOK
    <3> QED BY <2>1, <2>2, <2>4, <3>2 DEF CasterTypeOK, handlerVars
  <2> QED BY <1>7, <2>3, <2>4 DEF put
<1>8. ASSUME NEW c \in Clients, get(c) PROVE CasterTypeOK'
  <2>1. available' \in BOOLEAN /\ stopped' \in BOOLEAN
    BY <1>8, Zenon DEF CasterTypeOK, get, feedVars
  <2>2. Head(queue[c]) \in Nat /\ Tail(queue[c]) \in Seq(Nat) /\ Len(Tail(queue[c])) <= QueueSize
    <3>1. queue[c] \in Seq(Nat) /\ queue[c] # <<>> /\ Len(queue[c]) <= QueueSize
      BY <1>8 DEF CasterTypeOK, get
    <3>2. Len(Tail(queue[c])) = Len(queue[c]) - 1 /\ Len(queue[c]) \in Nat BY <3>1
    <3> QED BY <3>1, <3>2
  <2>3. /\ queue' = [queue EXCEPT ![c] = Tail(@)] /\ item' = [item EXCEPT ![c] = Head(queue[c])]
        /\ hpc' = [hpc EXCEPT ![c] = "send"] /\ taken' = [taken EXCEPT ![c] = Head(queue[c])]
        /\ UNCHANGED <<feedVars, peer, accepted, delivered, listener, stopped, joined, lost>>
    BY <1>8 DEF get, Handler
  <2>4. queue' \in [Clients -> Seq(Nat)] /\ \A d \in Clients : Len(queue'[d]) <= QueueSize
    BY <2>2, <2>3 DEF CasterTypeOK
  <2> QED BY <2>1, <2>2, <2>3, <2>4 DEF CasterTypeOK, feedVars
<1>9. ASSUME NEW c \in Clients, send(c) PROVE CasterTypeOK'
  <2>1. available' \in BOOLEAN /\ stopped' \in BOOLEAN
    BY <1>9, Zenon DEF CasterTypeOK, send, feedVars
  <2>2. Unless("unsubscribe", "get") \in {"get", "unsubscribe"} BY DEF Unless
  <2>3. item' \in [Clients -> Nat \cup {None}] /\ hpc' \in [Clients -> {"none", "request", "subscribe", "get", "send", "unsubscribe", "closed"}]
    BY <1>9, <2>2 DEF CasterTypeOK, send, Handler
  <2>4. delivered' \in [Clients -> Seq(Nat)] /\ accepted' \in [Clients -> 0 .. SockBuf]
    <3>1. item[c] \in Nat
      BY <1>9 DEF CasterTypeOK, Places, send, Handler
    <3>2. CASE peer[c] = "here"
      <4>1. delivered' = [delivered EXCEPT ![c] = Append(@, item[c])] /\ accepted' = accepted
        BY <1>9, <3>2 DEF send
      <4> QED BY <3>1, <4>1 DEF CasterTypeOK
    <3>3. CASE peer[c] # "here"
      <4>1. accepted' = [accepted EXCEPT ![c] = @ + 1] /\ delivered' = delivered /\ accepted[c] < SockBuf
        BY <1>9, <3>3 DEF send
      <4>2. accepted[c] + 1 \in 0 .. SockBuf BY <4>1 DEF CasterTypeOK
      <4> QED BY <4>1, <4>2 DEF CasterTypeOK
    <3> QED BY <3>2, <3>3
  <2>5. UNCHANGED <<feedVars, peer, queue, listener, stopped, joined, taken, lost>>
    BY <1>9 DEF send
  <2> QED BY <2>1, <2>3, <2>4, <2>5 DEF CasterTypeOK, feedVars
<1>10. ASSUME NEW c \in Clients,
              \/ leave(c) \/ request(c) \/ request_fails(c) \/ subscribe(c)
              \/ get_times_out(c) \/ send_fails(c) \/ unsubscribe(c)
       PROVE  CasterTypeOK'
  <2> USE DEF CasterTypeOK, feedVars, Handler
  <2>1. available' \in BOOLEAN /\ stopped' \in BOOLEAN
    BY <1>10, Zenon DEF leave, request, request_fails, subscribe, get_times_out, send_fails, unsubscribe
  <2>2. Unless("unsubscribe", "get") \in {"get", "unsubscribe"} BY DEF Unless
  <2>3. CASE leave(c) BY <2>1, <2>3 DEF leave
  <2>4. CASE request(c) BY <2>1, <2>4 DEF request
  <2>5. CASE request_fails(c) BY <2>1, <2>5 DEF request_fails
  <2>6. CASE subscribe(c)
    <3>1. ppc = "snapshot" => published - 1 \in Nat
      BY DEF CasterTypeOK, Places
    <3> QED BY <2>1, <2>2, <2>6, <3>1 DEF subscribe
  <2>7. CASE get_times_out(c) BY <2>1, <2>2, <2>7 DEF get_times_out
  <2>8. CASE send_fails(c) BY <2>1, <2>8 DEF send_fails
  <2>9. CASE unsubscribe(c) BY <2>1, <2>9 DEF unsubscribe
  <2> QED BY <1>10, <2>3, <2>4, <2>5, <2>6, <2>7, <2>8, <2>9
<1>11. CASE UNCHANGED vars
  <2>1. available' \in BOOLEAN /\ stopped' \in BOOLEAN BY <1>11, Zenon DEF CasterTypeOK, vars, feedVars
  <2> QED BY <1>11, <2>1 DEF CasterTypeOK, vars, feedVars, handlerVars
<1> QED BY <1>1, <1>2, <1>3, <1>4, <1>5, <1>6, <1>7, <1>8, <1>9, <1>10, <1>11 DEF Step

-----------------------------------------------------------------------------
LEMMA PlacesStep == CasterTypeOK /\ Places /\ (\A c \in Clients : Fresh(c)) /\ Step => Places'
<1> SUFFICES ASSUME CasterTypeOK, Places, \A c \in Clients : Fresh(c), Step PROVE Places'
  OBVIOUS
<1> USE Bounds DEF CasterTypeOK, Places, feedVars, handlerVars
<1>1. CASE publish BY <1>1 DEF publish
<1>2. CASE snapshot BY <1>2 DEF snapshot
<1>3. CASE publish_returns BY <1>3 DEF publish_returns
<1>4. CASE stop BY <1>4 DEF stop
<1>5. ASSUME NEW a \in Addresses, serve_on(a) \/ accept_fails(a) PROVE Places'
  BY <1>5 DEF serve_on, accept_fails
<1>6. ASSUME NEW a \in Addresses, NEW c \in Clients, accept(a, c) PROVE Places'
  BY <1>6 DEF accept
<1>7. ASSUME NEW c \in Clients, put(c) PROVE Places'
  BY <1>7 DEF put
<1>8. ASSUME NEW c \in Clients, get(c) PROVE Places'
  <2>1. Head(queue[c]) \in Nat BY <1>8 DEF get
  <2> QED BY <1>8, <2>1 DEF get, Handler
<1>9. ASSUME NEW c \in Clients, send(c) PROVE Places'
  BY <1>9 DEF send, Handler, Unless
<1>10. ASSUME NEW c \in Clients,
              \/ leave(c) \/ request(c) \/ request_fails(c) \/ subscribe(c)
              \/ get_times_out(c) \/ send_fails(c) \/ unsubscribe(c)
       PROVE  Places'
  <2> USE DEF Handler, Unless
  <2>1. CASE leave(c) BY <2>1 DEF leave
  <2>2. CASE request(c) BY <2>2 DEF request
  <2>3. CASE request_fails(c) BY <2>3 DEF request_fails
  <2>4. CASE subscribe(c) BY <2>4 DEF subscribe
  <2>5. CASE get_times_out(c) BY <2>5 DEF get_times_out
  <2>6. CASE send_fails(c) BY <2>6 DEF send_fails
  <2>7. CASE unsubscribe(c) BY <2>7 DEF unsubscribe
  <2> QED BY <1>10, <2>1, <2>2, <2>3, <2>4, <2>5, <2>6, <2>7
<1>11. CASE UNCHANGED vars BY <1>11 DEF vars
<1> QED BY <1>1, <1>2, <1>3, <1>4, <1>5, <1>6, <1>7, <1>8, <1>9, <1>10, <1>11 DEF Step

LEMMA FreshStep ==
  ASSUME CasterTypeOK, Places, Step, NEW d \in Clients, Fresh(d)
  PROVE  Fresh(d)'
<1> USE Bounds DEF CasterTypeOK, Places, Fresh, feedVars, handlerVars
<1>1. CASE publish BY <1>1 DEF publish
<1>2. CASE snapshot BY <1>2 DEF snapshot
<1>3. CASE publish_returns BY <1>3 DEF publish_returns
<1>4. CASE stop BY <1>4 DEF stop
<1>5. ASSUME NEW a \in Addresses, serve_on(a) \/ accept_fails(a) PROVE Fresh(d)'
  BY <1>5 DEF serve_on, accept_fails
<1>6. ASSUME NEW a \in Addresses, NEW c \in Clients, accept(a, c) PROVE Fresh(d)'
  BY <1>6 DEF accept
<1>7. ASSUME NEW c \in Clients, put(c) PROVE Fresh(d)'
  BY <1>7 DEF put
<1>8. ASSUME NEW c \in Clients, get(c) PROVE Fresh(d)'
  BY <1>8 DEF get, Handler
<1>9. ASSUME NEW c \in Clients, send(c) PROVE Fresh(d)'
  BY <1>9 DEF send, Handler, Unless
<1>10. ASSUME NEW c \in Clients,
              \/ leave(c) \/ request(c) \/ request_fails(c) \/ subscribe(c)
              \/ get_times_out(c) \/ send_fails(c) \/ unsubscribe(c)
       PROVE  Fresh(d)'
  <2> USE DEF Handler, Unless
  <2>1. CASE leave(c) BY <2>1 DEF leave
  <2>2. CASE request(c) BY <2>2 DEF request
  <2>3. CASE request_fails(c) BY <2>3 DEF request_fails
  <2>4. CASE subscribe(c) BY <2>4 DEF subscribe
  <2>5. CASE get_times_out(c) BY <2>5 DEF get_times_out
  <2>6. CASE send_fails(c) BY <2>6 DEF send_fails
  <2>7. CASE unsubscribe(c) BY <2>7 DEF unsubscribe
  <2> QED BY <1>10, <2>1, <2>2, <2>3, <2>4, <2>5, <2>6, <2>7
<1>11. CASE UNCHANGED vars BY <1>11 DEF vars
<1> QED BY <1>1, <1>2, <1>3, <1>4, <1>5, <1>6, <1>7, <1>8, <1>9, <1>10, <1>11 DEF Step

-----------------------------------------------------------------------------
\* Top never goes back, and moves for a client that is served by its put only.
LEMMA TopStep ==
  ASSUME CasterTypeOK, Places, Step, NEW d \in Clients
  PROVE  /\ Top(d) \in Int /\ Top(d)' \in Int /\ Top(d) <= Top(d)'
         /\ d \in subs /\ ~put(d) => Top(d)' = Top(d)
<1> USE Bounds DEF CasterTypeOK, Places, Top, feedVars, handlerVars
<1>1. CASE publish BY <1>1 DEF publish
<1>2. CASE snapshot BY <1>2 DEF snapshot
<1>3. CASE publish_returns BY <1>3 DEF publish_returns
<1>4. CASE stop BY <1>4 DEF stop
<1>5. ASSUME NEW a \in Addresses, serve_on(a) \/ accept_fails(a) PROVE UNCHANGED <<ppc, targets, published>>
  BY <1>5 DEF serve_on, accept_fails
<1>6. ASSUME NEW a \in Addresses, NEW c \in Clients, accept(a, c) PROVE UNCHANGED <<ppc, targets, published>>
  BY <1>6 DEF accept
<1>7. ASSUME NEW c \in Clients, put(c)
      PROVE  targets' = targets \ {c} /\ UNCHANGED <<ppc, published>> /\ ppc = "put"
  BY <1>7 DEF put
<1>8. ASSUME NEW c \in Clients,
             \/ leave(c) \/ request(c) \/ request_fails(c) \/ subscribe(c)
             \/ get(c) \/ get_times_out(c) \/ send(c) \/ send_fails(c) \/ unsubscribe(c)
      PROVE  UNCHANGED <<ppc, targets, published>>
  BY <1>8 DEF leave, request, request_fails, subscribe, get, get_times_out, send, send_fails, unsubscribe
<1>9. CASE UNCHANGED vars BY <1>9 DEF vars
<1>10. CASE UNCHANGED <<ppc, targets, published>> BY <1>10
<1>11. ASSUME NEW c \in Clients, put(c)
       PROVE  /\ Top(d) \in Int /\ Top(d)' \in Int /\ Top(d) <= Top(d)'
              /\ d \in subs /\ ~put(d) => Top(d)' = Top(d)
  <2>1. CASE d = c BY <1>7, <1>11, <2>1
  <2>2. CASE d # c
    <3>1. d \in targets' <=> d \in targets BY <1>7, <1>11, <2>2
    <3> QED BY <1>7, <1>11, <3>1
  <2> QED BY <2>1, <2>2
<1> QED BY <1>1, <1>2, <1>3, <1>4, <1>5, <1>6, <1>8, <1>9, <1>10, <1>11 DEF Step

\* Nothing but its message in hand is taken from a client: the order stays.
LEMMA OrderedStays ==
  ASSUME NEW d \in Clients, Ordered(d), CasterTypeOK,
         Top(d) \in Int, Top(d)' \in Int, Top(d) <= Top(d)',
         delivered'[d] = delivered[d], queue'[d] = queue[d], joined'[d] = joined[d],
         item'[d] \in {item[d], None}
  PROVE  Ordered(d)'
<1>1. delivered[d] \in Seq(Nat) /\ queue[d] \in Seq(Nat) /\ joined[d] \in Nat
  BY DEF CasterTypeOK
<1>2. \A i \in DOMAIN delivered[d] : delivered[d][i] \in Nat BY <1>1
<1>3. \A i \in DOMAIN queue[d] : queue[d][i] \in Nat /\ i \in Nat BY <1>1
<1>4. item'[d] # None => item'[d] = item[d] /\ item[d] \in Nat BY DEF CasterTypeOK
<1> QED BY <1>1, <1>2, <1>3, <1>4, Bounds DEF Ordered

LEMMA OrderedPut ==
  ASSUME NEW d \in Clients, Ordered(d), CasterTypeOK, Places, put(d)
  PROVE  Ordered(d)'
<1>1. /\ Top(d) = published - 1 /\ Top(d)' = published
      /\ delivered'[d] = delivered[d] /\ item'[d] = item[d] /\ joined'[d] = joined[d]
      /\ published \in Nat
  BY DEF put, Top, handlerVars, CasterTypeOK, Places
<1>2. delivered[d] \in Seq(Nat) /\ queue[d] \in Seq(Nat) /\ joined[d] \in Nat
  BY DEF CasterTypeOK
<1>3. item[d] # None => item[d] \in Nat BY DEF CasterTypeOK
<1>4. CASE queue'[d] = Append(queue[d], published)
  <2> DEFINE q == queue[d]
             n == Len(q)
  <2>1. /\ n \in Nat /\ DOMAIN queue'[d] = 1 .. n + 1 /\ DOMAIN q = 1 .. n
        /\ \A i \in 1 .. n : queue'[d][i] = q[i] /\ q[i] \in Nat
        /\ queue'[d][n + 1] = published
    BY SMTT(30), <1>2, <1>4, <1>1
  <2>2. joined[d] < published
    BY <1>1, <1>2 DEF Ordered
  <2>3. \A i \in 1 .. n + 1 : joined[d] < queue'[d][i] /\ queue'[d][i] <= published
    <3> TAKE i \in 1 .. n + 1
    <3>1. CASE i = n + 1 BY <2>1, <2>2, <3>1, <1>1, <1>2
    <3>2. CASE i \in 1 .. n
      <4>1. joined[d] < q[i] /\ q[i] <= published - 1 BY <3>2, <2>1, <1>1 DEF Ordered
      <4> QED BY <4>1, <3>2, <2>1, <1>1
    <3> QED BY <2>1, <3>1, <3>2
  <2>4. \A i, j \in 1 .. n + 1 : i < j => queue'[d][i] < queue'[d][j]
    <3> SUFFICES ASSUME NEW i \in 1 .. n + 1, NEW j \in 1 .. n + 1, i < j
                 PROVE  queue'[d][i] < queue'[d][j]
      OBVIOUS
    <3>0. i \in 1 .. n BY <2>1
    <3>1. i \in 1 .. n /\ q[i] <= published - 1 BY <3>0, <2>1, <1>1 DEF Ordered
    <3>2. CASE j = n + 1 BY <3>1, <3>2, <2>1, <1>1
    <3>3. CASE j \in 1 .. n
      <4>1. q[i] < q[j] BY <3>1, <3>3, <2>1 DEF Ordered
      <4> QED BY <4>1, <3>1, <3>3, <2>1
    <3> QED BY <2>1, <3>2, <3>3
  <2>5. \A i \in DOMAIN delivered[d], j \in 1 .. n + 1 : delivered[d][i] < queue'[d][j]
    <3> SUFFICES ASSUME NEW i \in DOMAIN delivered[d], NEW j \in 1 .. n + 1
                 PROVE  delivered[d][i] < queue'[d][j]
      OBVIOUS
    <3>1. delivered[d][i] <= published - 1 /\ delivered[d][i] \in Nat BY <1>1, <1>2 DEF Ordered
    <3>2. CASE j = n + 1 BY <3>1, <3>2, <2>1, <1>1
    <3>3. CASE j \in 1 .. n
      <4>1. delivered[d][i] < q[j] BY <3>3, <2>1 DEF Ordered
      <4> QED BY <4>1, <3>3, <2>1
    <3> QED BY <2>1, <3>2, <3>3
  <2>6. item[d] # None => \A j \in 1 .. n + 1 : item[d] < queue'[d][j]
    <3> SUFFICES ASSUME item[d] # None, NEW j \in 1 .. n + 1 PROVE item[d] < queue'[d][j]
      OBVIOUS
    <3>1. item[d] <= published - 1 /\ item[d] \in Nat BY <1>1, <1>3 DEF Ordered
    <3>2. CASE j = n + 1 BY <3>1, <3>2, <2>1, <1>1
    <3>3. CASE j \in 1 .. n
      <4>1. item[d] < q[j] BY <3>3, <2>1 DEF Ordered
      <4> QED BY <4>1, <3>3, <2>1
    <3> QED BY <2>1, <3>2, <3>3
  <2>7. \A i \in DOMAIN delivered[d] : delivered[d][i] \in Nat BY <1>2
  <2> HIDE DEF q, n
  <2>8. DOMAIN queue'[d] = 1 .. n + 1 BY <2>1
  <2>9. /\ joined'[d] <= Top(d)'
        /\ \A i \in DOMAIN delivered'[d] : joined'[d] < delivered'[d][i] /\ delivered'[d][i] <= Top(d)'
        /\ \A i, j \in DOMAIN delivered'[d] : i < j => delivered'[d][i] < delivered'[d][j]
    BY <1>1, <1>2, <2>7 DEF Ordered
  <2>10. item'[d] # None => /\ joined'[d] < item'[d] /\ item'[d] <= Top(d)'
                            /\ \A i \in DOMAIN delivered'[d] : delivered'[d][i] < item'[d]
    BY <1>1, <1>2, <1>3 DEF Ordered
  <2>11. /\ \A i \in DOMAIN queue'[d] : joined'[d] < queue'[d][i] /\ queue'[d][i] <= Top(d)'
         /\ \A i, j \in DOMAIN queue'[d] : i < j => queue'[d][i] < queue'[d][j]
    BY <1>1, <2>3, <2>4, <2>8
  <2>12. /\ \A i \in DOMAIN delivered'[d], j \in DOMAIN queue'[d] : delivered'[d][i] < queue'[d][j]
         /\ item'[d] # None => \A j \in DOMAIN queue'[d] : item'[d] < queue'[d][j]
    BY <1>1, <2>5, <2>6, <2>8
  <2> QED BY <2>9, <2>10, <2>11, <2>12 DEF Ordered
<1>5. CASE queue'[d] = queue[d]
  <2>1. Top(d) \in Int /\ Top(d)' \in Int /\ Top(d) <= Top(d)' BY <1>1
  <2> QED BY <1>1, <1>5, <2>1, OrderedStays
<1> QED BY <1>4, <1>5 DEF put, CasterTypeOK

LEMMA OrderedGet ==
  ASSUME NEW d \in Clients, Ordered(d), CasterTypeOK, Places, get(d)
  PROVE  Ordered(d)'
<1>1. /\ Top(d)' = Top(d) /\ delivered'[d] = delivered[d] /\ joined'[d] = joined[d]
      /\ item[d] = None /\ queue[d] # <<>>
      /\ item'[d] = Head(queue[d]) /\ queue'[d] = Tail(queue[d])
  BY DEF get, Top, feedVars, CasterTypeOK, Places, Handler
<1>2. delivered[d] \in Seq(Nat) /\ queue[d] \in Seq(Nat) /\ joined[d] \in Nat
  BY DEF CasterTypeOK
<1> DEFINE q == queue[d]
           n == Len(q)
<1>3. /\ n \in Nat /\ n >= 1 /\ DOMAIN q = 1 .. n /\ DOMAIN queue'[d] = 1 .. n - 1
      /\ \A i \in 1 .. n : q[i] \in Nat
      /\ \A i \in 1 .. n - 1 : queue'[d][i] = q[i + 1] /\ i + 1 \in 1 .. n
      /\ item'[d] = q[1]
  BY <1>1, <1>2
<1>4. \A i \in DOMAIN delivered[d] : delivered[d][i] \in Nat BY <1>2
<1>5. Top(d) \in Int BY DEF Top, CasterTypeOK
<1>12. /\ \A i \in 1 .. n : joined[d] < q[i] /\ q[i] <= Top(d)
       /\ \A i, j \in 1 .. n : i < j => q[i] < q[j]
  BY <1>3 DEF Ordered
<1>6. /\ joined[d] < item'[d] /\ item'[d] <= Top(d)
      /\ \A i \in DOMAIN delivered[d] : delivered[d][i] < item'[d]
  <2>1. 1 \in 1 .. n /\ 1 \in DOMAIN queue[d] BY <1>3
  <2>2. joined[d] < q[1] /\ q[1] <= Top(d) BY <2>1, <1>12
  <2>3. \A i \in DOMAIN delivered[d] : delivered[d][i] < q[1] BY <2>1 DEF Ordered
  <2> QED BY <2>2, <2>3, <1>3
<1>7. \A i \in 1 .. n - 1 : joined[d] < queue'[d][i] /\ queue'[d][i] <= Top(d)
  <2> TAKE i \in 1 .. n - 1
  <2>1. i + 1 \in 1 .. n /\ queue'[d][i] = q[i + 1] BY <1>3
  <2>2. joined[d] < q[i + 1] /\ q[i + 1] <= Top(d) BY <2>1, <1>12
  <2> QED BY <2>1, <2>2
<1>8. \A i, j \in 1 .. n - 1 : i < j => queue'[d][i] < queue'[d][j]
  <2> TAKE i, j \in 1 .. n - 1
  <2>1. i + 1 \in 1 .. n /\ queue'[d][i] = q[i + 1] /\ j + 1 \in 1 .. n /\ queue'[d][j] = q[j + 1] BY <1>3
  <2>2. i < j => i + 1 < j + 1 OBVIOUS
  <2>3. i < j => q[i + 1] < q[j + 1] BY <2>1, <2>2, <1>12
  <2> QED BY <2>1, <2>3
<1>9. \A j \in 1 .. n - 1 : item'[d] < queue'[d][j]
  <2> TAKE j \in 1 .. n - 1
  <2>1. j + 1 \in 1 .. n /\ queue'[d][j] = q[j + 1] /\ 1 \in 1 .. n /\ 1 < j + 1 BY <1>3
  <2>2. q[1] < q[j + 1] BY <2>1, <1>12
  <2> QED BY <2>1, <2>2, <1>3
<1>10. \A i \in DOMAIN delivered[d], j \in 1 .. n - 1 : delivered[d][i] < queue'[d][j]
  <2> TAKE i \in DOMAIN delivered[d], j \in 1 .. n - 1
  <2>1. j + 1 \in 1 .. n /\ queue'[d][j] = q[j + 1] BY <1>3
  <2>2. delivered[d][i] < q[j + 1] BY <2>1, <1>3 DEF Ordered
  <2> QED BY <2>1, <2>2
<1>11. DOMAIN queue'[d] = 1 .. n - 1 BY <1>3
<1> HIDE DEF q, n
<1> QED BY <1>1, <1>2, <1>4, <1>5, <1>6, <1>7, <1>8, <1>9, <1>10, <1>11 DEF Ordered

LEMMA OrderedSend ==
  ASSUME NEW d \in Clients, Ordered(d), CasterTypeOK, Places, send(d), peer[d] = "here"
  PROVE  Ordered(d)'
<1>1. /\ Top(d)' = Top(d) /\ queue'[d] = queue[d] /\ joined'[d] = joined[d]
      /\ item[d] # None /\ item'[d] = None
      /\ delivered'[d] = Append(delivered[d], item[d])
  BY DEF send, Top, feedVars, CasterTypeOK, Places, Handler
<1>2. delivered[d] \in Seq(Nat) /\ queue[d] \in Seq(Nat) /\ joined[d] \in Nat
      /\ item[d] \in Nat
  BY <1>1 DEF CasterTypeOK
<1> DEFINE s == delivered[d]
           n == Len(s)
<1>3. /\ n \in Nat /\ DOMAIN s = 1 .. n /\ DOMAIN delivered'[d] = 1 .. n + 1
      /\ \A i \in 1 .. n : delivered'[d][i] = s[i] /\ s[i] \in Nat
      /\ delivered'[d][n + 1] = item[d]
  BY SMTT(30), <1>1, <1>2
<1>4. \A i \in DOMAIN queue[d] : queue[d][i] \in Nat BY <1>2
<1>5. Top(d) \in Int BY DEF Top, CasterTypeOK
<1>6. \A i \in 1 .. n + 1 : joined[d] < delivered'[d][i] /\ delivered'[d][i] <= Top(d)
  <2> TAKE i \in 1 .. n + 1
  <2>1. CASE i = n + 1 BY <2>1, <1>1, <1>3 DEF Ordered
  <2>2. CASE i \in 1 .. n BY <2>2, <1>3 DEF Ordered
  <2> QED BY <1>3, <2>1, <2>2
<1>7. \A i, j \in 1 .. n + 1 : i < j => delivered'[d][i] < delivered'[d][j]
  <2> SUFFICES ASSUME NEW i \in 1 .. n + 1, NEW j \in 1 .. n + 1, i < j
               PROVE  delivered'[d][i] < delivered'[d][j]
    OBVIOUS
  <2>1. i \in 1 .. n BY <1>3
  <2>2. CASE j = n + 1 BY <2>1, <2>2, <1>1, <1>3 DEF Ordered
  <2>3. CASE j \in 1 .. n BY <2>1, <2>3, <1>3 DEF Ordered
  <2> QED BY <1>3, <2>2, <2>3
<1>8. \A i \in 1 .. n + 1, j \in DOMAIN queue[d] : delivered'[d][i] < queue[d][j]
  <2> TAKE i \in 1 .. n + 1, j \in DOMAIN queue[d]
  <2>1. CASE i = n + 1 BY <2>1, <1>1, <1>3 DEF Ordered
  <2>2. CASE i \in 1 .. n BY <2>2, <1>3 DEF Ordered
  <2> QED BY <1>3, <2>1, <2>2
<1>9. DOMAIN delivered'[d] = 1 .. n + 1 BY <1>3
<1> HIDE DEF s, n
<1> QED BY <1>1, <1>2, <1>4, <1>5, <1>6, <1>7, <1>8, <1>9 DEF Ordered

LEMMA OrderedStep ==
  ASSUME NEW d \in Clients, CasterTypeOK, Places, Fresh(d), Ordered(d), Step
  PROVE  Ordered(d)'
<1> USE DEF feedVars, handlerVars
<1>1. Top(d) \in Int /\ Top(d)' \in Int /\ Top(d) <= Top(d)'
  BY TopStep
<1> DEFINE Same == /\ delivered'[d] = delivered[d] /\ queue'[d] = queue[d] /\ joined'[d] = joined[d]
                   /\ item'[d] \in {item[d], None}
<1>2. CASE Same BY <1>1, <1>2, OrderedStays
<1>3. CASE publish \/ snapshot \/ publish_returns \/ stop \/ UNCHANGED vars
  <2>1. Same BY <1>3 DEF publish, snapshot, publish_returns, stop, vars
  <2> QED BY <2>1, <1>2
<1>4. ASSUME NEW a \in Addresses, serve_on(a) \/ accept_fails(a) PROVE Ordered(d)'
  <2>1. Same BY <1>4 DEF serve_on, accept_fails
  <2> QED BY <2>1, <1>2
<1>5. ASSUME NEW a \in Addresses, NEW c \in Clients, accept(a, c) PROVE Ordered(d)'
  <2>1. Same BY <1>5 DEF accept
  <2> QED BY <2>1, <1>2
<1>6. ASSUME NEW c \in Clients,
             \/ leave(c) \/ request(c) \/ request_fails(c) \/ get_times_out(c)
             \/ send_fails(c) \/ unsubscribe(c)
      PROVE  Ordered(d)'
  <2>1. Same
    BY <1>6 DEF leave, request, request_fails, get_times_out, send_fails, unsubscribe, CasterTypeOK
  <2> QED BY <2>1, <1>2
<1>7. ASSUME NEW c \in Clients, put(c) PROVE Ordered(d)'
  <2>1. CASE d = c BY <1>7, <2>1, OrderedPut
  <2>2. CASE d # c
    <3>1. Same BY <1>7, <2>2 DEF put, CasterTypeOK
    <3> QED BY <3>1, <1>2
  <2> QED BY <2>1, <2>2
<1>8. ASSUME NEW c \in Clients, get(c) PROVE Ordered(d)'
  <2>1. CASE d = c BY <1>8, <2>1, OrderedGet
  <2>2. CASE d # c
    <3>1. Same BY <1>8, <2>2 DEF get, CasterTypeOK
    <3> QED BY <3>1, <1>2
  <2> QED BY <2>1, <2>2
<1>9. ASSUME NEW c \in Clients, send(c) PROVE Ordered(d)'
  <2>1. CASE d = c /\ peer[c] = "here" BY <1>9, <2>1, OrderedSend
  <2>2. CASE d # c \/ peer[c] # "here"
    <3>1. Same BY <1>9, <2>2 DEF send, CasterTypeOK
    <3> QED BY <3>1, <1>2
  <2> QED BY <2>1, <2>2
<1>10. ASSUME NEW c \in Clients, subscribe(c) PROVE Ordered(d)'
  <2>1. CASE d # c
    <3>1. Same BY <1>10, <2>1 DEF subscribe, CasterTypeOK
    <3> QED BY <3>1, <1>2
  <2>2. CASE d = c
    <3>1. /\ queue'[d] = <<>> /\ delivered'[d] = <<>> /\ item'[d] = None
          /\ joined'[d] = Top(d)'
      BY <1>10, <2>2 DEF subscribe, Handler, Fresh, Places, Top, CasterTypeOK
    <3> QED BY <3>1, <1>1 DEF Ordered
  <2> QED BY <2>1, <2>2
<1> QED BY <1>3, <1>4, <1>5, <1>6, <1>7, <1>8, <1>9, <1>10 DEF Step

-----------------------------------------------------------------------------
\* A finite set that holds an ascending sequence has at least its length.
LEMMA AscendingFits ==
  ASSUME NEW s \in Seq(Nat), NEW S, IsFiniteSet(S),
         \A i \in 1 .. Len(s) : s[i] \in S,
         \A i, j \in 1 .. Len(s) : i < j => s[i] < s[j]
  PROVE  Cardinality(S) >= Len(s)
<1>1. Len(s) \in Nat /\ \A i \in 1 .. Len(s) : s[i] \in Nat
  OBVIOUS
<1> DEFINE D == 1 .. Len(s)
           f == [i \in D |-> s[i]]
<1>2. IsFiniteSet(D) /\ Cardinality(D) = Len(s)
  <2>1. /\ IsFiniteSet(1 .. Len(s))
        /\ Cardinality(1 .. Len(s)) = IF 1 > Len(s) THEN 0 ELSE Len(s) - 1 + 1
    <3>1. 1 \in Int /\ Len(s) \in Int BY <1>1
    <3> HIDE DEF D
    <3> QED BY <3>1, FS_Interval, Zenon
  <2>2. (IF 1 > Len(s) THEN 0 ELSE Len(s) - 1 + 1) = Len(s) BY <1>1
  <2> QED BY <2>1, <2>2
<1>3. f \in Injection(D, S)
  <2>1. f \in [D -> S] OBVIOUS
  <2>2. ASSUME NEW i \in D, NEW j \in D, f[i] = f[j] PROVE i = j
    <3>1. s[i] = s[j] /\ s[i] \in Nat /\ s[j] \in Nat BY <1>1, <2>2
    <3>2. i < j \/ j < i \/ i = j BY <1>1
    <3>3. ~(i < j) BY <3>1
    <3>4. ~(j < i) BY <3>1
    <3> QED BY <3>2, <3>3, <3>4
  <2> QED BY <2>1, <2>2 DEF Injection, IsInjective
<1>4. Cardinality(D) <= Cardinality(S)
  BY <1>3, FS_Injection
<1> QED BY <1>2, <1>4

\* A step that moves no message of a client leaves it as far behind.
LEMMA BehindStays ==
  ASSUME NEW d \in Clients, Behind(d), CasterTypeOK,
         Top(d) \in Int, Top(d)' \in Int, Top(d) <= Top(d)',
         queue'[d] = queue[d], taken'[d] = taken[d], lost'[d] = lost[d]
  PROVE  Behind(d)'
<1>1. taken[d] \in Nat /\ \A r \in lost[d] : r.message \in Nat
  BY DEF CasterTypeOK
<1>2. Refused(d)' = Refused(d) /\ \A r \in lost[d] : Ahead(d, r)' = Ahead(d, r)
  BY DEF Refused, Ahead
<1> QED BY <1>1, <1>2 DEF Behind

LEMMA BehindPut ==
  ASSUME NEW d \in Clients, Ordered(d), Behind(d), CasterTypeOK, Places, put(d)
  PROVE  Behind(d)'
<1>1. /\ Top(d) = published - 1 /\ Top(d)' = published /\ published \in Nat
      /\ taken'[d] = taken[d] /\ taken[d] \in Nat /\ queue[d] \in Seq(Nat)
  BY DEF put, Top, CasterTypeOK, Places
<1>2. /\ \A r \in lost[d] : r.message \in Nat /\ r.message < published
      /\ \A m \in Refused(d) : m \in Nat /\ m < published
  BY <1>1 DEF Behind, Refused, CasterTypeOK
<1>3. \A i \in 1 .. Len(queue[d]) :
        queue[d][i] \in taken[d] + 1 .. published - 1 /\ queue[d][i] \notin Refused(d)
  <2> TAKE i \in 1 .. Len(queue[d])
  <2>1. i \in DOMAIN queue[d] /\ queue[d][i] \in Nat BY <1>1
  <2>2. /\ taken[d] < queue[d][i] /\ queue[d][i] <= published - 1
        /\ queue[d][i] \notin Refused(d)
    BY <1>1, <2>1 DEF Behind, Ordered
  <2> QED BY <1>1, <2>1, <2>2
<1>4. CASE queue'[d] = Append(queue[d], published) /\ lost'[d] = lost[d]
  <2>1. Refused(d)' = Refused(d) /\ \A r \in lost[d] : Ahead(d, r)' = Ahead(d, r)
    BY <1>4 DEF Refused, Ahead
  <2>2. published \notin Refused(d) /\ taken[d] < published
    BY <1>1, <1>2 DEF Behind
  <2>3. ASSUME NEW i \in DOMAIN queue'[d]
        PROVE  taken[d] < queue'[d][i] /\ queue'[d][i] \notin Refused(d)
    <3>1. Len(queue[d]) \in Nat /\ i \in 1 .. Len(queue[d]) + 1 BY <1>1, <1>4, <2>3
    <3>2. CASE i = Len(queue[d]) + 1
      <4>1. queue'[d][i] = published BY <1>1, <1>4, <3>2
      <4> QED BY <4>1, <2>2
    <3>3. CASE i \in 1 .. Len(queue[d])
      <4>1. queue'[d][i] = queue[d][i] BY <1>1, <1>4, <3>3
      <4> QED BY <4>1, <3>3, <1>1, <1>3
    <3> QED BY <3>1, <3>2, <3>3
  <2>4. \A r \in lost'[d] : r.message <= Top(d)' /\ Cardinality(Ahead(d, r)') >= QueueSize
    BY <1>1, <1>2, <1>4, <2>1 DEF Behind
  <2> QED BY <1>1, <2>1, <2>2, <2>3, <2>4 DEF Behind
<1>5. CASE Len(queue[d]) = QueueSize /\ queue'[d] = queue[d] /\ lost'[d] = lost[d] \cup {Refusal(d)}
  <2>1. Refused(d)' = Refused(d) \cup {published}
    <3>1. Refusal(d).message = published BY DEF Refusal
    <3>2. lost'[d] = lost[d] \cup {Refusal(d)} BY <1>5
    <3>3. Refused(d)' = {r.message : r \in lost[d] \cup {Refusal(d)}} BY <3>2 DEF Refused
    <3>4. {r.message : r \in lost[d] \cup {Refusal(d)}}
             = {r.message : r \in lost[d]} \cup {Refusal(d).message}
      BY Zenon
    <3> QED BY <3>1, <3>3, <3>4 DEF Refused
  <2>2. \A i \in DOMAIN queue[d] : queue[d][i] \notin Refused(d)' /\ taken[d] < queue[d][i]
    BY <1>1, <1>3, <2>1
  <2>3. ASSUME NEW r \in lost[d] PROVE Ahead(d, r)' = Ahead(d, r)
    <3>1. r.message \in Nat /\ r.message < published /\ r.after \in Nat
      BY <1>2, <2>3 DEF CasterTypeOK
    <3>2. published \notin r.after + 1 .. r.message - 1 BY <1>1, <3>1
    <3> QED BY <2>1, <3>2 DEF Ahead
  <2>4. ASSUME NEW r, r = Refusal(d)
        PROVE  r.message = published /\ Cardinality(Ahead(d, r)') >= QueueSize
    <3>1. r.message = published /\ r.after = taken[d] BY <2>4 DEF Refusal
    <3> DEFINE S == (taken[d] + 1 .. published - 1) \ Refused(d)'
    <3>2. IsFiniteSet(S)
      <4>1. IsFiniteSet(taken[d] + 1 .. published - 1) BY <1>1, FS_Interval
      <4> QED BY <4>1, FS_Difference
    <3>3. \A i \in 1 .. Len(queue[d]) : queue[d][i] \in S
      <4> TAKE i \in 1 .. Len(queue[d])
      <4>1. queue[d][i] # published BY <1>1, <1>3
      <4> QED BY <4>1, <1>3, <2>1
    <3>4. \A i, j \in 1 .. Len(queue[d]) : i < j => queue[d][i] < queue[d][j]
      <4>1. DOMAIN queue[d] = 1 .. Len(queue[d]) BY <1>1
      <4> QED BY <4>1 DEF Ordered
    <3> HIDE DEF S
    <3>5. Cardinality(S) >= QueueSize BY <1>1, <1>5, <3>2, <3>3, <3>4, AscendingFits
    <3> QED BY <3>1, <3>5 DEF Ahead, S
  <2>5. \A r \in lost[d] : r.message <= Top(d)' /\ Cardinality(Ahead(d, r)') >= QueueSize
    BY <1>1, <1>2, <2>3 DEF Behind
  <2>6. \A r \in lost'[d] : r \in lost[d] \/ r = Refusal(d) BY <1>5
  <2>7. \A r \in lost'[d] : r.message <= Top(d)' /\ Cardinality(Ahead(d, r)') >= QueueSize
    <3> TAKE r \in lost'[d]
    <3>1. CASE r \in lost[d] BY <3>1, <2>5
    <3>2. CASE r = Refusal(d) BY <3>2, <2>4, <1>1
    <3> QED BY <2>6, <3>1, <3>2
  <2>8. taken'[d] <= Top(d)' BY <1>1 DEF Behind
  <2> QED BY <1>1, <1>5, <2>2, <2>7, <2>8 DEF Behind
<1> QED BY <1>4, <1>5 DEF put, CasterTypeOK

LEMMA BehindGet ==
  ASSUME NEW d \in Clients, Ordered(d), Behind(d), CasterTypeOK, Places, get(d)
  PROVE  Behind(d)'
<1>1. /\ Top(d)' = Top(d) /\ lost'[d] = lost[d] /\ queue[d] # <<>> /\ queue[d] \in Seq(Nat)
      /\ taken'[d] = Head(queue[d]) /\ queue'[d] = Tail(queue[d])
  BY DEF get, Top, feedVars, CasterTypeOK
<1>2. Refused(d)' = Refused(d) /\ \A r \in lost[d] : Ahead(d, r)' = Ahead(d, r)
  BY <1>1 DEF Refused, Ahead
<1>3. taken'[d] = queue[d][1] /\ 1 \in DOMAIN queue[d]
  BY <1>1
<1>4. ASSUME NEW i \in DOMAIN queue'[d]
      PROVE  i + 1 \in DOMAIN queue[d] /\ 1 < i + 1 /\ queue'[d][i] = queue[d][i + 1]
  BY <1>1, <1>4
<1>5. ASSUME NEW i \in DOMAIN queue'[d]
      PROVE  taken'[d] < queue'[d][i] /\ queue'[d][i] \notin Refused(d)
  BY <1>3, <1>4 DEF Ordered, Behind
<1>6. taken'[d] <= Top(d)' BY <1>1, <1>3 DEF Ordered
<1> QED BY <1>1, <1>2, <1>5, <1>6 DEF Behind

LEMMA BehindStep ==
  ASSUME NEW d \in Clients, CasterTypeOK, Places, Fresh(d), Ordered(d), Behind(d), Step
  PROVE  Behind(d)'
<1> USE DEF feedVars, handlerVars
<1>1. Top(d) \in Int /\ Top(d)' \in Int /\ Top(d) <= Top(d)'
  BY TopStep
<1> DEFINE Same == queue'[d] = queue[d] /\ taken'[d] = taken[d] /\ lost'[d] = lost[d]
<1>2. CASE Same BY <1>1, <1>2, BehindStays
<1>3. CASE publish \/ snapshot \/ publish_returns \/ stop \/ UNCHANGED vars
  <2>1. Same BY <1>3 DEF publish, snapshot, publish_returns, stop, vars
  <2> QED BY <2>1, <1>2
<1>4. ASSUME NEW a \in Addresses, serve_on(a) \/ accept_fails(a) PROVE Behind(d)'
  <2>1. Same BY <1>4 DEF serve_on, accept_fails
  <2> QED BY <2>1, <1>2
<1>5. ASSUME NEW a \in Addresses, NEW c \in Clients, accept(a, c) PROVE Behind(d)'
  <2>1. Same BY <1>5 DEF accept
  <2> QED BY <2>1, <1>2
<1>6. ASSUME NEW c \in Clients,
             \/ leave(c) \/ request(c) \/ request_fails(c) \/ get_times_out(c)
             \/ send(c) \/ send_fails(c) \/ unsubscribe(c)
      PROVE  Behind(d)'
  <2>1. Same
    BY <1>6 DEF leave, request, request_fails, get_times_out, send, send_fails, unsubscribe
  <2> QED BY <2>1, <1>2
<1>7. ASSUME NEW c \in Clients, put(c) PROVE Behind(d)'
  <2>1. CASE d = c BY <1>7, <2>1, BehindPut
  <2>2. CASE d # c
    <3>1. Same BY <1>7, <2>2 DEF put, CasterTypeOK
    <3> QED BY <3>1, <1>2
  <2> QED BY <2>1, <2>2
<1>8. ASSUME NEW c \in Clients, get(c) PROVE Behind(d)'
  <2>1. CASE d = c BY <1>8, <2>1, BehindGet
  <2>2. CASE d # c
    <3>1. Same BY <1>8, <2>2 DEF get, CasterTypeOK
    <3> QED BY <3>1, <1>2
  <2> QED BY <2>1, <2>2
<1>9. ASSUME NEW c \in Clients, subscribe(c) PROVE Behind(d)'
  <2>1. CASE d # c
    <3>1. Same BY <1>9, <2>1 DEF subscribe, CasterTypeOK
    <3> QED BY <3>1, <1>2
  <2>2. CASE d = c
    <3>1. queue'[d] = <<>> /\ lost'[d] = {} /\ taken'[d] = Top(d)'
      BY <1>9, <2>2 DEF subscribe, Handler, Fresh, Places, Top, CasterTypeOK
    <3> QED BY <3>1, <1>1 DEF Behind
  <2> QED BY <2>1, <2>2
<1> QED BY <1>3, <1>4, <1>5, <1>6, <1>7, <1>8, <1>9 DEF Step

-----------------------------------------------------------------------------
\* A step that moves no message keeps what was kept.
LEMMA KeptStays ==
  ASSUME NEW d \in Clients, Kept(d), Top(d)' = Top(d),
         delivered'[d] = delivered[d], queue'[d] = queue[d], joined'[d] = joined[d],
         lost'[d] = lost[d], item'[d] = item[d],
         Served(d)' /\ peer'[d] = "here" => Served(d) /\ peer[d] = "here"
  PROVE  Kept(d)'
BY DEF Kept, Has, Refused

LEMMA KeptPut ==
  ASSUME NEW d \in Clients, Kept(d), CasterTypeOK, Places, put(d)
  PROVE  Kept(d)'
<1>1. /\ Top(d) = published - 1 /\ Top(d)' = published
      /\ delivered'[d] = delivered[d] /\ item'[d] = item[d] /\ joined'[d] = joined[d]
      /\ published \in Nat /\ joined[d] \in Nat /\ hpc' = hpc /\ peer' = peer
  BY DEF put, Top, handlerVars, CasterTypeOK, Places
<1>2. Has(queue'[d], published) \/ published \in Refused(d)'
  <2>1. CASE queue'[d] = Append(queue[d], published)
    <3>1. queue[d] \in Seq(Nat) /\ Len(queue[d]) + 1 \in DOMAIN queue'[d] BY <2>1 DEF CasterTypeOK
    <3>2. queue'[d][Len(queue[d]) + 1] = published BY <3>1, <2>1
    <3> QED BY <3>1, <3>2 DEF Has
  <2>2. CASE lost'[d] = lost[d] \cup {Refusal(d)} BY <2>2 DEF Refused, Refusal
  <2> QED BY <2>1, <2>2 DEF put, CasterTypeOK
<1>3. Refused(d) \subseteq Refused(d)' BY DEF put, CasterTypeOK, Refused
<1>4. ASSUME NEW m, Has(queue[d], m) PROVE Has(queue'[d], m)
  <2>1. PICK i \in DOMAIN queue[d] : queue[d][i] = m BY <1>4 DEF Has
  <2>2. CASE queue'[d] = queue[d] BY <1>4, <2>2
  <2>3. CASE queue'[d] = Append(queue[d], published)
    <3>1. queue[d] \in Seq(Nat) BY DEF CasterTypeOK
    <3>2. i \in DOMAIN queue'[d] /\ queue'[d][i] = m BY <3>1, <2>1, <2>3
    <3> QED BY <3>2 DEF Has
  <2> QED BY <2>2, <2>3 DEF put, CasterTypeOK
<1>5. SUFFICES ASSUME Served(d), peer[d] = "here", NEW m \in joined[d] + 1 .. published
               PROVE  Has(delivered[d], m) \/ item[d] = m \/ Has(queue'[d], m) \/ m \in Refused(d)'
  BY <1>1 DEF Kept, Served
<1>6. CASE m = published BY <1>2, <1>6
<1>7. CASE m # published
  <2>1. m \in joined[d] + 1 .. Top(d) BY <1>1, <1>5, <1>7
  <2>2. Has(delivered[d], m) \/ item[d] = m \/ Has(queue[d], m) \/ m \in Refused(d)
    BY <1>5, <2>1 DEF Kept
  <2> QED BY <2>2, <1>3, <1>4
<1> QED BY <1>6, <1>7

LEMMA KeptGet ==
  ASSUME NEW d \in Clients, Kept(d), CasterTypeOK, Places, get(d)
  PROVE  Kept(d)'
<1>1. /\ Top(d)' = Top(d) /\ delivered'[d] = delivered[d] /\ joined'[d] = joined[d]
      /\ Refused(d)' = Refused(d) /\ item[d] = None /\ queue[d] # <<>> /\ peer' = peer
      /\ item'[d] = Head(queue[d]) /\ queue'[d] = Tail(queue[d]) /\ Served(d)
  BY DEF get, Top, feedVars, CasterTypeOK, Places, Handler, Served, Refused
<1>2. ASSUME NEW m, Has(queue[d], m) PROVE item'[d] = m \/ Has(queue'[d], m)
  <2>1. PICK i \in DOMAIN queue[d] : queue[d][i] = m BY <1>2 DEF Has
  <2>2. queue[d] \in Seq(Nat) BY DEF CasterTypeOK
  <2>3. CASE i = 1 BY <1>1, <2>1, <2>2, <2>3
  <2>4. CASE i # 1
    <3>1. i - 1 \in 1 .. Len(queue[d]) - 1 /\ i = (i - 1) + 1 BY <2>1, <2>2, <2>4
    <3>2. DOMAIN queue'[d] = 1 .. Len(queue[d]) - 1 BY <1>1, <2>2
    <3>3. \A j \in 1 .. Len(queue[d]) - 1 : queue'[d][j] = queue[d][j + 1] BY <1>1, <2>2
    <3>4. queue'[d][i - 1] = m BY <3>1, <3>3, <2>1
    <3> QED BY <3>1, <3>2, <3>4 DEF Has
  <2> QED BY <2>3, <2>4
<1>3. SUFFICES ASSUME peer[d] = "here", NEW m \in joined[d] + 1 .. Top(d)
               PROVE  Has(delivered[d], m) \/ item'[d] = m \/ Has(queue'[d], m) \/ m \in Refused(d)
  BY <1>1 DEF Kept
<1>4. Has(delivered[d], m) \/ item[d] = m \/ Has(queue[d], m) \/ m \in Refused(d)
  BY <1>1, <1>3 DEF Kept
<1>5. joined[d] \in Nat /\ Top(d) \in Int BY DEF CasterTypeOK, Top
<1>6. item[d] # m BY <1>1, <1>3, <1>5, Bounds
<1> QED BY <1>2, <1>4, <1>6

LEMMA KeptSend ==
  ASSUME NEW d \in Clients, Kept(d), CasterTypeOK, Places, send(d)
  PROVE  Kept(d)'
<1>1. /\ Top(d)' = Top(d) /\ queue'[d] = queue[d] /\ joined'[d] = joined[d] /\ Refused(d)' = Refused(d)
      /\ Served(d) /\ peer' = peer /\ item[d] \in Nat
      /\ peer[d] = "here" => delivered'[d] = Append(delivered[d], item[d])
  BY DEF send, Top, feedVars, CasterTypeOK, Places, Handler, Served, Refused
<1>2. ASSUME peer[d] = "here", NEW m, Has(delivered[d], m) \/ item[d] = m
      PROVE  Has(delivered'[d], m)
  <2>1. delivered[d] \in Seq(Nat) BY DEF CasterTypeOK
  <2>2. delivered'[d] = Append(delivered[d], item[d]) BY <1>1, <1>2
  <2>3. CASE Has(delivered[d], m)
    <3>1. PICK i \in DOMAIN delivered[d] : delivered[d][i] = m BY <2>3 DEF Has
    <3>2. i \in DOMAIN delivered'[d] /\ delivered'[d][i] = m BY <2>1, <2>2, <3>1
    <3> QED BY <3>2 DEF Has
  <2>4. CASE item[d] = m
    <3>1. Len(delivered[d]) + 1 \in DOMAIN delivered'[d] BY <2>1, <2>2
    <3>2. delivered'[d][Len(delivered[d]) + 1] = m BY <2>1, <2>2, <2>4
    <3> QED BY <3>1, <3>2 DEF Has
  <2> QED BY <1>2, <2>3, <2>4
<1> QED BY <1>1, <1>2 DEF Kept

LEMMA KeptStep ==
  ASSUME NEW d \in Clients, CasterTypeOK, Places, Fresh(d), Kept(d), Step
  PROVE  Kept(d)'
<1> USE DEF feedVars, handlerVars
<1>1. d \in subs /\ ~put(d) => Top(d)' = Top(d)
  BY TopStep
<1> DEFINE Same == /\ delivered'[d] = delivered[d] /\ queue'[d] = queue[d] /\ joined'[d] = joined[d]
                   /\ lost'[d] = lost[d] /\ item'[d] = item[d]
                   /\ Served(d)' /\ peer'[d] = "here" => Served(d) /\ peer[d] = "here"
<1>2. CASE ~Served(d)' BY <1>2 DEF Kept
<1>3. CASE Same /\ Served(d)' /\ peer'[d] = "here" /\ ~put(d)
  <2>1. d \in subs BY <1>3 DEF Served, Places
  <2> QED BY <2>1, <1>1, <1>3, KeptStays
<1>4. CASE peer'[d] # "here" BY <1>4 DEF Kept
<1>5. CASE Same /\ ~put(d) BY <1>2, <1>3, <1>4, <1>5
<1>6. CASE put(d) BY <1>6, KeptPut
<1>7. CASE get(d) BY <1>7, KeptGet
<1>8. CASE send(d) BY <1>8, KeptSend
<1>9. CASE Same BY <1>5, <1>6, <1>9
<1>10. CASE publish \/ snapshot \/ publish_returns \/ stop \/ UNCHANGED vars
  <2>1. Same BY <1>10 DEF publish, snapshot, publish_returns, stop, vars, Served
  <2> QED BY <2>1, <1>9
<1>11. ASSUME NEW a \in Addresses, serve_on(a) \/ accept_fails(a) PROVE Kept(d)'
  <2>1. Same BY <1>11 DEF serve_on, accept_fails, Served
  <2> QED BY <2>1, <1>9
<1>12. ASSUME NEW a \in Addresses, NEW c \in Clients, accept(a, c) PROVE Kept(d)'
  <2>1. Same BY <1>12 DEF accept, Served, CasterTypeOK
  <2> QED BY <2>1, <1>9
<1>13. ASSUME NEW c \in Clients, leave(c) PROVE Kept(d)'
  <2>1. Same BY <1>13 DEF leave, Served, CasterTypeOK
  <2> QED BY <2>1, <1>9
<1>14. ASSUME NEW c \in Clients, c # d,
              \/ request(c) \/ request_fails(c) \/ get_times_out(c) \/ send_fails(c)
              \/ unsubscribe(c) \/ subscribe(c) \/ put(c) \/ get(c) \/ send(c)
       PROVE  Kept(d)'
  <2>1. Same
    BY <1>14 DEF request, request_fails, get_times_out, send_fails, unsubscribe, subscribe, put, get,
                 send, Handler, Served, CasterTypeOK
  <2> QED BY <2>1, <1>9
<1>15. CASE request(d) \/ request_fails(d) \/ send_fails(d) \/ unsubscribe(d)
  <2>1. ~Served(d)' BY <1>15 DEF request, request_fails, send_fails, unsubscribe, Handler, Served, CasterTypeOK
  <2> QED BY <2>1, <1>2
<1>16. CASE get_times_out(d)
  <2>1. Same BY <1>16 DEF get_times_out, Handler, Served
  <2> QED BY <2>1, <1>9
<1>17. CASE subscribe(d)
  <2>1. joined'[d] = Top(d)' /\ Top(d)' \in Int
    BY <1>17 DEF subscribe, Handler, Fresh, Places, Top, CasterTypeOK
  <2> QED BY <2>1 DEF Kept
<1> QED BY <1>6, <1>7, <1>8, <1>10, <1>11, <1>12, <1>13, <1>14, <1>15, <1>16, <1>17 DEF Step

-----------------------------------------------------------------------------
\* The inductive invariant holds in every reachable state.
THEOREM CasterInvariant == CasterSafety => []CasterInv
<1>1. CasterInit => CasterInv
  BY InitInv
<1>2. CasterInv /\ [CasterNext]_vars => CasterInv'
  <2> SUFFICES ASSUME CasterInv, Step PROVE CasterInv'
    BY NextIsStep
  <2>1. CasterTypeOK' BY TypeStep DEF CasterInv
  <2>2. Places' BY PlacesStep DEF CasterInv
  <2>3. ASSUME NEW d \in Clients PROVE Fresh(d)' /\ Ordered(d)' /\ Behind(d)' /\ Kept(d)'
    BY FreshStep, OrderedStep, BehindStep, KeptStep DEF CasterInv
  <2> QED BY <2>1, <2>2, <2>3 DEF CasterInv
<1> QED BY <1>1, <1>2, PTL DEF CasterSafety

\* Type correctness of the feed and its threads (CasterTypeOK).
THEOREM CasterTyping == CasterSafety => []CasterTypeOK
<1>1. CasterInv => CasterTypeOK BY DEF CasterInv
<1> QED BY <1>1, CasterInvariant, PTL

\* The elements of a concatenation.
LEMMA Joined ==
  ASSUME NEW s \in Seq(Nat), NEW t \in Seq(Nat)
  PROVE  /\ s \o t \in Seq(Nat) /\ Len(s \o t) = Len(s) + Len(t)
         /\ \A i \in DOMAIN (s \o t) :
              \/ i \in DOMAIN s /\ (s \o t)[i] = s[i]
              \/ i > Len(s) /\ i - Len(s) \in DOMAIN t /\ (s \o t)[i] = t[i - Len(s)]
         /\ \A i \in DOMAIN s : i \in DOMAIN (s \o t) /\ (s \o t)[i] = s[i]
         /\ \A i \in DOMAIN t : Len(s) + i \in DOMAIN (s \o t) /\ (s \o t)[Len(s) + i] = t[i]
BY SMTT(30)

Ascending(s) == \A i, j \in DOMAIN s : i < j => s[i] < s[j]

Below(s, t) == \A i \in DOMAIN s, j \in DOMAIN t : s[i] < t[j]

Within(s, lo, hi) == \A i \in DOMAIN s : s[i] \in lo .. hi

LEMMA JoinedAscends ==
  ASSUME NEW s \in Seq(Nat), NEW t \in Seq(Nat), Ascending(s), Ascending(t), Below(s, t)
  PROVE  Ascending(s \o t)
<1> SUFFICES ASSUME NEW i \in DOMAIN (s \o t), NEW j \in DOMAIN (s \o t), i < j
             PROVE  (s \o t)[i] < (s \o t)[j]
  BY DEF Ascending
<1>1. Len(s) \in Nat /\ i \in Nat /\ j \in Nat /\ DOMAIN s = 1 .. Len(s)
  BY Joined
<1>2. CASE j \in DOMAIN s /\ (s \o t)[j] = s[j]
  <2>1. i \in DOMAIN s BY <1>1, <1>2, Joined
  <2> QED BY <1>2, <2>1, Joined DEF Ascending
<1>3. CASE j > Len(s) /\ j - Len(s) \in DOMAIN t /\ (s \o t)[j] = t[j - Len(s)]
  <2>1. CASE i \in DOMAIN s /\ (s \o t)[i] = s[i] BY <1>3, <2>1 DEF Below
  <2>2. CASE i - Len(s) \in DOMAIN t /\ (s \o t)[i] = t[i - Len(s)]
    <3>1. i - Len(s) < j - Len(s) BY <1>1
    <3> QED BY <1>3, <2>2, <3>1 DEF Ascending
  <2> QED BY <2>1, <2>2, Joined
<1> QED BY <1>2, <1>3, Joined

LEMMA JoinedParts ==
  ASSUME NEW s \in Seq(Nat), NEW t \in Seq(Nat)
  PROVE  /\ \A u : Below(u, s) /\ Below(u, t) => Below(u, s \o t)
         /\ \A u : Below(s, u) /\ Below(t, u) => Below(s \o t, u)
         /\ \A lo, hi : Within(s, lo, hi) /\ Within(t, lo, hi) => Within(s \o t, lo, hi)
         /\ \A m : Has(s, m) \/ Has(t, m) => Has(s \o t, m)
<1>1. \A u : Below(u, s) /\ Below(u, t) => Below(u, s \o t) BY Joined DEF Below
<1>2. \A u : Below(s, u) /\ Below(t, u) => Below(s \o t, u) BY Joined DEF Below
<1>3. \A lo, hi : Within(s, lo, hi) /\ Within(t, lo, hi) => Within(s \o t, lo, hi)
  BY Joined DEF Within
<1>4. ASSUME NEW m, Has(s, m) PROVE Has(s \o t, m)
  <2>1. PICK i \in DOMAIN s : s[i] = m BY <1>4 DEF Has
  <2>2. i \in DOMAIN (s \o t) /\ (s \o t)[i] = m BY <2>1, Joined
  <2> QED BY <2>2 DEF Has
<1>5. ASSUME NEW m, Has(t, m) PROVE Has(s \o t, m)
  <2>1. PICK i \in DOMAIN t : t[i] = m BY <1>5 DEF Has
  <2>2. Len(s) + i \in DOMAIN (s \o t) /\ (s \o t)[Len(s) + i] = m BY <2>1, Joined
  <2> QED BY <2>2 DEF Has
<1> QED BY <1>1, <1>2, <1>3, <1>4, <1>5

LEMMA InHandOf ==
  ASSUME CasterTypeOK, NEW c \in Clients
  PROVE  /\ InHand(c) \in Seq(Nat)
         /\ item[c] # None => InHand(c) = <<item[c]>> /\ item[c] \in Nat
         /\ item[c] = None => InHand(c) = <<>>
BY DEF CasterTypeOK, InHand

\* What a client is sent, is being sent and will be sent ascends from the
\* first message after it joined, in every interleaving of publisher, handlers
\* and departures (DeliveredInOrder).
THEOREM InOrder == CasterSafety => []DeliveredInOrder
<1>1. ASSUME CasterInv, NEW c \in Clients
      PROVE  Ascending(Channel(c)) /\ Within(Channel(c), joined[c] + 1, published)
  <2> DEFINE s == delivered[c]
             t == InHand(c)
             q == queue[c]
  <2>1. CasterTypeOK /\ Ordered(c) BY <1>1 DEF CasterInv
  <2>2. s \in Seq(Nat) /\ q \in Seq(Nat) /\ t \in Seq(Nat) /\ s \o t \in Seq(Nat)
        /\ joined[c] \in Nat /\ published \in Nat /\ Top(c) <= published /\ Top(c) \in Int
    BY <2>1, InHandOf, Joined DEF CasterTypeOK, Top
  <2>3. \A i \in DOMAIN s : s[i] \in Nat
    BY <2>2
  <2>4. \A i \in DOMAIN q : q[i] \in Nat /\ i \in Nat /\ i >= 1
    BY <2>2
  <2>5. Ascending(s) /\ Ascending(q) /\ Below(s, q)
    BY <2>1 DEF Ordered, Ascending, Below
  <2>6. Within(s, joined[c] + 1, published)
    BY <2>1, <2>2, <2>3 DEF Ordered, Within
  <2>7. Within(q, joined[c] + 1, published)
    BY SMTT(30), <2>1, <2>2, <2>4 DEF Ordered, Within
  <2>8. Ascending(t) /\ Below(s, t) /\ Below(t, q) /\ Within(t, joined[c] + 1, published)
    <3>1. CASE item[c] = None BY <3>1, <2>1, InHandOf DEF Ascending, Below, Within
    <3>2. CASE item[c] # None
      <4>1. t = <<item[c]>> /\ item[c] \in Nat BY <3>2, <2>1, InHandOf
      <4>2. DOMAIN t = {1} /\ t[1] = item[c] BY <4>1
      <4>3. joined[c] < item[c] /\ item[c] <= published BY <2>1, <2>2, <3>2, <4>1 DEF Ordered
      <4>4. \A i \in DOMAIN s : s[i] < item[c] BY <2>1, <3>2 DEF Ordered
      <4>5. \A i \in DOMAIN q : item[c] < q[i] BY <2>1, <3>2 DEF Ordered
      <4> HIDE DEF s, t, q
      <4> QED BY <4>1, <4>2, <4>3, <4>4, <4>5, <2>2 DEF Ascending, Below, Within
    <3> QED BY <3>1, <3>2
  <2>9. Ascending(s \o t) /\ Below(s \o t, q) /\ Within(s \o t, joined[c] + 1, published)
    BY <2>2, <2>5, <2>6, <2>8, JoinedAscends, JoinedParts
  <2> QED BY <2>2, <2>5, <2>7, <2>9, JoinedAscends, JoinedParts DEF Channel
<1>2. CasterInv => DeliveredInOrder
  BY <1>1 DEF DeliveredInOrder, Ascending, Within
<1> QED BY <1>2, CasterInvariant, PTL

\* A client that is there and served misses no message but those its full
\* queue refused (NothingMissed).
THEOREM NoneMissed == CasterSafety => []NothingMissed
<1>1. ASSUME CasterInv, NEW c \in subs, peer[c] = "here", hpc[c] \in {"get", "send"},
             NEW m \in joined[c] + 1 .. published
      PROVE  \/ Has(Channel(c), m)
             \/ m \in Refused(c)
             \/ m = published /\ (ppc = "snapshot" \/ c \in targets)
  <2>1. CasterTypeOK /\ Kept(c) /\ c \in Clients BY <1>1 DEF CasterInv, CasterTypeOK
  <2>2. delivered[c] \in Seq(Nat) /\ queue[c] \in Seq(Nat) /\ InHand(c) \in Seq(Nat)
        /\ delivered[c] \o InHand(c) \in Seq(Nat) /\ joined[c] \in Nat /\ published \in Nat
    BY <2>1, InHandOf, Joined DEF CasterTypeOK
  <2>3. CASE m \in joined[c] + 1 .. Top(c)
    <3>1. Has(delivered[c], m) \/ item[c] = m \/ Has(queue[c], m) \/ m \in Refused(c)
      BY <1>1, <2>1, <2>3 DEF Kept, Served
    <3>2. item[c] = m => Has(InHand(c), m)
      <4>1. m # None BY <2>2, Bounds
      <4> QED BY <4>1, <2>1, InHandOf DEF Has
    <3>3. Has(delivered[c], m) \/ Has(InHand(c), m) \/ Has(queue[c], m) => Has(Channel(c), m)
      BY <2>2, JoinedParts DEF Channel
    <3> QED BY <3>1, <3>2, <3>3
  <2>4. CASE m \notin joined[c] + 1 .. Top(c) BY <2>2, <2>4 DEF Top
  <2> QED BY <2>3, <2>4
<1>2. CasterInv => NothingMissed
  BY <1>1 DEF NothingMissed, Has
<1> QED BY <1>2, CasterInvariant, PTL

\* A queue refuses a message only while QueueSize older ones, published after
\* the last one its handler had taken, wait in it (RefusedOnlyWhenBehind).
THEOREM OnlyWhenBehind == CasterSafety => []RefusedOnlyWhenBehind
<1>1. CasterInv => RefusedOnlyWhenBehind
  BY DEF CasterInv, Behind, Ahead, RefusedOnlyWhenBehind
<1> QED BY <1>1, CasterInvariant, PTL

\* No handler ends and leaves its queue with the feed (SubscribersAreServed).
THEOREM AllServed == CasterSafety => []SubscribersAreServed
<1>1. CasterInv => SubscribersAreServed
  BY DEF CasterInv, CasterTypeOK, Places, SubscribersAreServed
<1> QED BY <1>1, CasterInvariant, PTL

-----------------------------------------------------------------------------
\* The refinement of LossyFeed.

LEMMA WaitingFacts ==
  /\ \A s, t \in Seq(Nat), x \in Nat : s \o Append(t, x) = Append(s \o t, x)
  /\ \A q \in Seq(Nat) : q # <<>> => <<Head(q)>> \o Tail(q) = q
  /\ \A q \in Seq(Nat) : <<>> \o q = q
  /\ \A q \in Seq(Nat), x \in Nat :
       /\ Tail(<<x>> \o q) = q /\ Head(<<x>> \o q) = x /\ <<x>> \o q # <<>>
       /\ Len(<<x>> \o q) = Len(q) + 1
<1>1. ASSUME NEW s \in Seq(Nat), NEW t \in Seq(Nat), NEW x \in Nat
      PROVE  s \o Append(t, x) = Append(s \o t, x)
  <2>1. Len(s \o Append(t, x)) = Len(s) + Len(t) + 1 /\ Len(Append(s \o t, x)) = Len(s) + Len(t) + 1
    OBVIOUS
  <2>2. \A i \in 1 .. Len(s) + Len(t) + 1 : (s \o Append(t, x))[i] = Append(s \o t, x)[i]
    OBVIOUS
  <2> QED BY <2>1, <2>2, SeqEqual
<1>2. ASSUME NEW q \in Seq(Nat), q # <<>> PROVE <<Head(q)>> \o Tail(q) = q
  BY <1>2
<1>3. ASSUME NEW q \in Seq(Nat) PROVE <<>> \o q = q
  OBVIOUS
<1>4. ASSUME NEW q \in Seq(Nat), NEW x \in Nat
      PROVE  /\ Tail(<<x>> \o q) = q /\ Head(<<x>> \o q) = x /\ <<x>> \o q # <<>>
             /\ Len(<<x>> \o q) = Len(q) + 1
  OBVIOUS
<1> QED BY <1>1, <1>2, <1>3, <1>4

\* What a client is, is offered next and has waiting, as the feed sees it.
SameFor(d) == /\ MemberOf(d)' = MemberOf(d)
              /\ NextFor(d)' = NextFor(d)
              /\ WaitingFor(d)' = WaitingFor(d)

LEMMA InvisibleStep ==
  ASSUME \A d \in Clients : SameFor(d), UNCHANGED <<published, peer, delivered>>
  PROVE  UNCHANGED Lossy!lossyVars
<1>1. [c \in Clients |-> MemberOf(c)]' = [c \in Clients |-> MemberOf(c)] BY DEF SameFor
<1>2. [c \in Clients |-> NextFor(c)]' = [c \in Clients |-> NextFor(c)] BY DEF SameFor
<1>3. [c \in Clients |-> WaitingFor(c)]' = [c \in Clients |-> WaitingFor(c)] BY DEF SameFor
<1>4. {c \in Clients : peer[c] = "here"}' = {c \in Clients : peer[c] = "here"} OBVIOUS
<1> QED BY <1>1, <1>2, <1>3, <1>4 DEF Lossy!lossyVars

\* A step that others do not see changes the maps at one client.
LEMMA StepOfOne ==
  ASSUME NEW c \in Clients, \A d \in Clients \ {c} : SameFor(d)
  PROVE  /\ [d \in Clients |-> MemberOf(d)]' = [[d \in Clients |-> MemberOf(d)] EXCEPT ![c] = MemberOf(c)']
         /\ [d \in Clients |-> NextFor(d)]' = [[d \in Clients |-> NextFor(d)] EXCEPT ![c] = NextFor(c)']
         /\ [d \in Clients |-> WaitingFor(d)]' = [[d \in Clients |-> WaitingFor(d)] EXCEPT ![c] = WaitingFor(c)']
BY DEF SameFor

\* An action of client c's handler, or the put to its queue, is seen by c only.
LEMMA OthersSee ==
  ASSUME CasterTypeOK, NEW c \in Clients,
         \/ leave(c) \/ request(c) \/ request_fails(c) \/ subscribe(c) \/ get(c)
         \/ get_times_out(c) \/ send(c) \/ send_fails(c) \/ unsubscribe(c) \/ put(c)
  PROVE  \A d \in Clients \ {c} : SameFor(d)
<1> TAKE d \in Clients \ {c}
<1>1. /\ hpc'[d] = hpc[d] /\ item'[d] = item[d] /\ queue'[d] = queue[d]
      /\ ppc' = ppc /\ published' = published /\ (d \in targets' <=> d \in targets)
  BY DEF CasterTypeOK, feedVars, handlerVars, Handler, leave, request, request_fails, subscribe,
         get, get_times_out, send, send_fails, unsubscribe, put
<1> QED BY <1>1 DEF SameFor, MemberOf, NextFor, WaitingFor, InHand, Served

LEMMA RefinesPublish ==
  ASSUME CasterInv, publish \/ snapshot \/ publish_returns \/ stop \/ UNCHANGED vars
  PROVE  [Lossy!LossyNext]_(Lossy!lossyVars)
<1> USE DEF CasterInv, CasterTypeOK, Places, feedVars, handlerVars
<1>1. \A d \in Clients : SameFor(d)
  <2> TAKE d \in Clients
  <2>1. hpc' = hpc /\ item' = item /\ queue' = queue
    BY DEF publish, snapshot, publish_returns, stop, vars
  <2>2. MemberOf(d)' = MemberOf(d) /\ WaitingFor(d)' = WaitingFor(d)
    BY <2>1 DEF MemberOf, WaitingFor, InHand, Served
  <2>3. Served(d) => d \in subs BY DEF Served
  <2>4. NextFor(d)' = NextFor(d)
    <3>1. CASE publish BY <3>1, <2>1 DEF publish, NextFor, Served
    <3>2. CASE snapshot BY <3>2, <2>1, <2>3 DEF snapshot, NextFor, Served
    <3>3. CASE publish_returns BY <3>3, <2>1 DEF publish_returns, NextFor, Served
    <3>4. CASE stop BY <3>4, <2>1 DEF stop, NextFor, Served
    <3>5. CASE UNCHANGED vars BY <3>5 DEF vars, NextFor, Served
    <3> QED BY <3>1, <3>2, <3>3, <3>4, <3>5
  <2> QED BY <2>2, <2>4 DEF SameFor
<1>2. CASE publish
  <2>1. /\ [c \in Clients |-> MemberOf(c)]' = [c \in Clients |-> MemberOf(c)]
        /\ [c \in Clients |-> NextFor(c)]' = [c \in Clients |-> NextFor(c)]
        /\ [c \in Clients |-> WaitingFor(c)]' = [c \in Clients |-> WaitingFor(c)]
    BY <1>1 DEF SameFor
  <2>2. published' = published + 1 /\ peer' = peer /\ delivered' = delivered
    BY <1>2 DEF publish
  <2>3. Lossy!Publish BY <2>1, <2>2 DEF Lossy!Publish
  <2> QED BY <2>3 DEF Lossy!LossyNext
<1>3. CASE snapshot \/ publish_returns \/ stop \/ UNCHANGED vars
  <2>1. UNCHANGED <<published, peer, delivered>> BY <1>3 DEF snapshot, publish_returns, stop, vars
  <2> QED BY <1>1, <2>1, InvisibleStep
<1> QED BY <1>2, <1>3

LEMMA RefinesListener ==
  ASSUME CasterInv, NEW a \in Addresses,
         serve_on(a) \/ accept_fails(a) \/ \E c \in Clients : accept(a, c)
  PROVE  [Lossy!LossyNext]_(Lossy!lossyVars)
<1>1. /\ UNCHANGED <<item, queue, ppc, published, targets, peer, delivered>>
      /\ \A d \in Clients : hpc'[d] = hpc[d] \/ (hpc[d] = "none" /\ hpc'[d] = "request")
  BY DEF serve_on, accept_fails, accept, feedVars, handlerVars, CasterInv, CasterTypeOK
<1>2. \A d \in Clients : SameFor(d)
  BY <1>1 DEF SameFor, MemberOf, NextFor, WaitingFor, InHand, Served
<1> QED BY <1>1, <1>2, InvisibleStep

LEMMA RefinesPut ==
  ASSUME CasterInv, NEW c \in Clients, put(c)
  PROVE  [Lossy!LossyNext]_(Lossy!lossyVars)
<1> USE DEF CasterInv
<1>1. \A d \in Clients \ {c} : SameFor(d) BY OthersSee
<1>2. /\ UNCHANGED <<published, peer, delivered, hpc, item, ppc>> /\ ppc = "put" /\ c \in targets
      /\ targets' = targets \ {c} /\ published \in Nat
      /\ queue[c] \in Seq(Nat) /\ Len(queue[c]) \in Nat
  BY DEF put, handlerVars, CasterTypeOK
<1>3. MemberOf(c)' = MemberOf(c) BY <1>2 DEF MemberOf, Served
<1>4. CASE ~Served(c)
  <2>1. SameFor(c) BY <1>2, <1>3, <1>4 DEF SameFor, NextFor, WaitingFor, Served
  <2> QED BY <1>1, <1>2, <2>1, InvisibleStep
<1>5. CASE Served(c)
  <2>1. /\ MemberOf(c) = "in" /\ NextFor(c) = published /\ NextFor(c)' = published + 1
        /\ WaitingFor(c) = InHand(c) \o queue[c] /\ WaitingFor(c)' = InHand(c) \o queue'[c]
    BY <1>2, <1>5 DEF MemberOf, NextFor, WaitingFor, InHand, Served
  <2>2. InHand(c) \in Seq(Nat) /\ Len(InHand(c)) \in {0, 1}
    BY InHandOf DEF InHand
  <2>3. Len(WaitingFor(c)) = Len(InHand(c)) + Len(queue[c])
    BY <2>1, <2>2, <1>2
  <2>4. [d \in Clients |-> MemberOf(d)]' = [d \in Clients |-> MemberOf(d)]
    BY <1>1, <1>3 DEF SameFor
  <2>5. [d \in Clients |-> NextFor(d)]' = [[d \in Clients |-> NextFor(d)] EXCEPT ![c] = @ + 1]
    BY <1>1, <2>1, StepOfOne
  <2>6. Lossy!Offered(c)
    BY <2>1, <2>4, <2>5, <1>2 DEF Lossy!Offered
  <2>7. CASE Len(queue[c]) < QueueSize /\ queue'[c] = Append(queue[c], published)
    <3>1. WaitingFor(c)' = Append(WaitingFor(c), NextFor(c))
      <4>1. InHand(c) \o Append(queue[c], published) = Append(InHand(c) \o queue[c], published)
        BY <2>2, <1>2, WaitingFacts
      <4> QED BY <2>1, <2>7, <4>1
    <3>2. [d \in Clients |-> WaitingFor(d)]' = [[d \in Clients |-> WaitingFor(d)] EXCEPT ![c] = Append(@, NextFor(c))]
      <4>1. [d \in Clients |-> WaitingFor(d)]' = [[d \in Clients |-> WaitingFor(d)] EXCEPT ![c] = WaitingFor(c)']
        BY <1>1, StepOfOne
      <4>2. [d \in Clients |-> WaitingFor(d)][c] = WaitingFor(c)
        OBVIOUS
      <4> QED BY <3>1, <4>1, <4>2
    <3>3. Len(WaitingFor(c)) <= QueueSize
      <4>1. Len(queue[c]) < QueueSize /\ Len(queue[c]) \in Nat BY <2>7, <1>2
      <4>2. Len(InHand(c)) \in {0, 1} BY <2>2
      <4>3. \A a \in {0, 1}, b \in Nat : b < QueueSize => a + b <= QueueSize BY Bounds
      <4>4. Len(InHand(c)) + Len(queue[c]) <= QueueSize BY <4>1, <4>2, <4>3
      <4> QED BY <4>4, <2>3, Zenon
    <3>4. Lossy!Take(c) BY <2>6, <3>2, <3>3 DEF Lossy!Take
    <3> QED BY <3>4 DEF Lossy!LossyNext
  <2>8. CASE Len(queue[c]) = QueueSize /\ queue'[c] = queue[c]
    <3>1. WaitingFor(c)' = WaitingFor(c) BY <2>1, <2>8
    <3>2. [d \in Clients |-> WaitingFor(d)]' = [d \in Clients |-> WaitingFor(d)]
      BY <1>1, <3>1 DEF SameFor
    <3>3. Len(WaitingFor(c)) >= QueueSize BY <2>2, <2>3, <2>8, <1>2, Bounds
    <3>4. Lossy!Refuse(c) BY <2>6, <3>2, <3>3 DEF Lossy!Refuse
    <3> QED BY <3>4 DEF Lossy!LossyNext
  <2> QED BY <2>7, <2>8 DEF put, CasterTypeOK
<1> QED BY <1>4, <1>5

\* A handler that gives up, ends or turns its client away.
LEMMA RefinesLeave ==
  ASSUME CasterInv, NEW c \in Clients, \A d \in Clients \ {c} : SameFor(d),
         MemberOf(c) # "left", MemberOf(c)' = "left",
         UNCHANGED <<published, peer>>,
         \/ delivered' = delivered
         \/ /\ WaitingFor(c) # <<>> /\ peer[c] = "here"
            /\ delivered' = [delivered EXCEPT ![c] = Append(@, Head(WaitingFor(c)))]
  PROVE  Lossy!LossyNext
<1>1. ~Served(c)' BY DEF MemberOf
<1>2. NextFor(c)' = 0 /\ WaitingFor(c)' = <<>> BY <1>1 DEF NextFor, WaitingFor
<1>3. {d \in Clients : peer[d] = "here"}' = {d \in Clients : peer[d] = "here"} OBVIOUS
<1>4. /\ [d \in Clients |-> MemberOf(d)]' = [[d \in Clients |-> MemberOf(d)] EXCEPT ![c] = "left"]
      /\ [d \in Clients |-> NextFor(d)]' = [[d \in Clients |-> NextFor(d)] EXCEPT ![c] = 0]
      /\ [d \in Clients |-> WaitingFor(d)]' = [[d \in Clients |-> WaitingFor(d)] EXCEPT ![c] = <<>>]
  BY <1>2, StepOfOne
<1>5. CASE delivered' = delivered
  <2>1. Lossy!Leave(c) BY <1>3, <1>4, <1>5 DEF Lossy!Leave
  <2> QED BY <2>1 DEF Lossy!LossyNext
<1>6. CASE /\ WaitingFor(c) # <<>> /\ peer[c] = "here"
           /\ delivered' = [delivered EXCEPT ![c] = Append(@, Head(WaitingFor(c)))]
  <2>1. Lossy!HeadReaches(c) BY <1>6 DEF Lossy!HeadReaches
  <2>2. Lossy!Leave(c) BY <1>3, <1>4, <2>1 DEF Lossy!Leave
  <2> QED BY <2>2 DEF Lossy!LossyNext
<1> QED BY <1>5, <1>6

LEMMA RefinesSend ==
  ASSUME CasterInv, NEW c \in Clients, send(c)
  PROVE  Lossy!LossyNext
<1> USE DEF CasterInv
<1>1. \A d \in Clients \ {c} : SameFor(d) BY OthersSee
<1>2. /\ UNCHANGED <<published, peer, ppc, targets, queue>> /\ hpc[c] = "send"
      /\ hpc'[c] \in {"get", "unsubscribe"} /\ item'[c] = None /\ item[c] \in Nat
      /\ queue[c] \in Seq(Nat)
      /\ IF peer[c] = "here" THEN delivered' = [delivered EXCEPT ![c] = Append(@, item[c])]
                             ELSE delivered' = delivered
  BY DEF send, feedVars, Handler, Unless, CasterTypeOK, Places
<1>3. /\ MemberOf(c) = "in" /\ WaitingFor(c) = <<item[c]>> \o queue[c]
  BY <1>2, Bounds DEF MemberOf, WaitingFor, Served, InHand
<1>4. WaitingFor(c) # <<>> /\ Head(WaitingFor(c)) = item[c] /\ Tail(WaitingFor(c)) = queue[c]
  BY SMTT(30), <1>2, <1>3, WaitingFacts
<1>5. CASE hpc'[c] = "unsubscribe"
  <2>1. MemberOf(c)' = "left" BY <1>5 DEF MemberOf, Served
  <2> QED BY <1>1, <1>2, <1>3, <1>4, <2>1, RefinesLeave
<1>6. CASE hpc'[c] = "get"
  <2>1. /\ MemberOf(c)' = MemberOf(c) /\ NextFor(c)' = NextFor(c)
        /\ WaitingFor(c)' = <<>> \o queue[c]
    BY <1>2, <1>3, <1>6 DEF MemberOf, NextFor, WaitingFor, Served, InHand
  <2>2. WaitingFor(c)' = Tail(WaitingFor(c)) BY <2>1, <1>2, <1>4, WaitingFacts
  <2>3. /\ [d \in Clients |-> MemberOf(d)]' = [d \in Clients |-> MemberOf(d)]
        /\ [d \in Clients |-> NextFor(d)]' = [d \in Clients |-> NextFor(d)]
        /\ {d \in Clients : peer[d] = "here"}' = {d \in Clients : peer[d] = "here"}
    BY <1>1, <1>2, <2>1 DEF SameFor
  <2>4. [d \in Clients |-> WaitingFor(d)]' = [[d \in Clients |-> WaitingFor(d)] EXCEPT ![c] = Tail(@)]
    BY <1>1, <2>2, StepOfOne
  <2>5. Lossy!HeadReaches(c) BY <1>2, <1>4 DEF Lossy!HeadReaches
  <2>6. Lossy!Deliver(c) BY <1>2, <1>3, <2>3, <2>4, <2>5 DEF Lossy!Deliver
  <2> QED BY <2>6 DEF Lossy!LossyNext
<1> QED BY <1>2, <1>5, <1>6

LEMMA RefinesHandler ==
  ASSUME CasterInv, NEW c \in Clients,
         \/ leave(c) \/ request(c) \/ request_fails(c) \/ subscribe(c) \/ get(c)
         \/ get_times_out(c) \/ send_fails(c) \/ unsubscribe(c)
  PROVE  [Lossy!LossyNext]_(Lossy!lossyVars)
<1> USE DEF CasterInv, feedVars, handlerVars, Handler
<1>1. \A d \in Clients \ {c} : SameFor(d) BY OthersSee
<1>2. CASE leave(c)
  <2>1. UNCHANGED <<published, hpc, item, queue, ppc, targets, delivered>> /\ peer[c] = "here"
        /\ peer' = [peer EXCEPT ![c] = "gone"]
    BY <1>2 DEF leave
  <2>2. /\ [d \in Clients |-> MemberOf(d)]' = [d \in Clients |-> MemberOf(d)]
        /\ [d \in Clients |-> NextFor(d)]' = [d \in Clients |-> NextFor(d)]
        /\ [d \in Clients |-> WaitingFor(d)]' = [d \in Clients |-> WaitingFor(d)]
    BY <2>1 DEF MemberOf, NextFor, WaitingFor, InHand, Served
  <2>3. {d \in Clients : peer[d] = "here"}' = {d \in Clients : peer[d] = "here"} \ {c}
    BY <2>1 DEF CasterTypeOK
  <2>4. Lossy!GoAway(c) BY <2>1, <2>2, <2>3 DEF Lossy!GoAway
  <2> QED BY <2>4 DEF Lossy!LossyNext
<1>3. CASE request(c) \/ unsubscribe(c) \/ get(c)
  <2>1. /\ UNCHANGED <<published, ppc, targets, peer, delivered>>
        /\ \/ hpc[c] = "request" /\ hpc'[c] = "subscribe"
           \/ hpc[c] = "unsubscribe" /\ hpc'[c] = "closed"
           \/ hpc[c] = "get" /\ hpc'[c] = "send"
    BY <1>3 DEF request, unsubscribe, get, CasterTypeOK
  <2>2. MemberOf(c)' = MemberOf(c) /\ NextFor(c)' = NextFor(c)
    BY <2>1 DEF MemberOf, NextFor, Served
  <2>3. CASE request(c) \/ unsubscribe(c)
    BY <1>1, <2>1, <2>2, <2>3, InvisibleStep DEF SameFor, WaitingFor, Served, request, unsubscribe
  <2>4. CASE get(c)
    <3>1. /\ queue[c] \in Seq(Nat) /\ queue[c] # <<>> /\ item[c] = None
          /\ item'[c] = Head(queue[c]) /\ queue'[c] = Tail(queue[c]) /\ Head(queue[c]) \in Nat
          /\ Served(c) /\ Served(c)'
      BY <2>4 DEF get, CasterTypeOK, Places, Served
    <3>2. WaitingFor(c) = <<>> \o queue[c] /\ WaitingFor(c)' = <<Head(queue[c])>> \o Tail(queue[c])
      BY <3>1, Bounds DEF WaitingFor, InHand
    <3>3. SameFor(c) BY <2>2, <3>1, <3>2, WaitingFacts DEF SameFor
    <3> QED BY <1>1, <2>1, <3>3, InvisibleStep
  <2> QED BY <1>3, <2>3, <2>4
<1>4. CASE subscribe(c) /\ hpc'[c] = "get"
  <2>1. /\ UNCHANGED <<published, ppc, targets, peer, delivered, item, queue>>
        /\ hpc[c] = "subscribe" /\ published \in Nat /\ published > 0
        /\ queue[c] = <<>> /\ item[c] = None
    BY <1>4 DEF subscribe, CasterTypeOK, Places, Fresh
  <2>2. /\ MemberOf(c) = "out" /\ MemberOf(c)' = "in" /\ NextFor(c)' \in {published, published + 1}
        /\ WaitingFor(c) = <<>> /\ WaitingFor(c)' = <<>>
    BY <1>4, <2>1 DEF MemberOf, NextFor, WaitingFor, Served, InHand
  <2>3. /\ [d \in Clients |-> MemberOf(d)]' = [[d \in Clients |-> MemberOf(d)] EXCEPT ![c] = "in"]
        /\ [d \in Clients |-> NextFor(d)]' = [[d \in Clients |-> NextFor(d)] EXCEPT ![c] = NextFor(c)']
    BY <1>1, <2>2, StepOfOne
  <2>4. /\ [d \in Clients |-> WaitingFor(d)]' = [d \in Clients |-> WaitingFor(d)]
        /\ {d \in Clients : peer[d] = "here"}' = {d \in Clients : peer[d] = "here"}
    BY <1>1, <2>1, <2>2 DEF SameFor
  <2>5. Lossy!Join(c) BY <2>1, <2>2, <2>3, <2>4 DEF Lossy!Join
  <2> QED BY <2>5 DEF Lossy!LossyNext
<1>5. CASE get_times_out(c) /\ hpc'[c] = "get"
  <2>1. UNCHANGED <<published, ppc, targets, peer, delivered, item, queue>> /\ hpc[c] = "get"
    BY <1>5 DEF get_times_out
  <2>2. SameFor(c) BY <2>1, <1>5 DEF SameFor, MemberOf, NextFor, WaitingFor, Served, InHand
  <2> QED BY <1>1, <2>1, <2>2, InvisibleStep
<1>6. CASE \/ request_fails(c) \/ send_fails(c)
           \/ (subscribe(c) \/ get_times_out(c)) /\ hpc'[c] # "get"
  <2>1. /\ UNCHANGED <<published, peer, delivered>>
        /\ hpc[c] \in {"request", "send", "subscribe", "get"}
        /\ hpc'[c] \in {"closed", "unsubscribe"}
    BY <1>6 DEF request_fails, send_fails, subscribe, get_times_out, Unless, CasterTypeOK
  <2>2. MemberOf(c) # "left" /\ MemberOf(c)' = "left" BY <2>1 DEF MemberOf, Served
  <2> QED BY <1>1, <2>1, <2>2, RefinesLeave
<1> QED BY <1>2, <1>3, <1>4, <1>5, <1>6

\* The feed with its lock, queues and threads implements LossyFeed
\* (ImplementsLossyFeed): every step is one of its steps or invisible to it.
THEOREM FeedRefines == CasterSafety => ImplementsLossyFeed
<1>1. CasterInit => Lossy!LossyInit
  <2> SUFFICES ASSUME CasterInit PROVE Lossy!LossyInit
    OBVIOUS
  <2>1. \A c \in Clients : MemberOf(c) = "out" /\ NextFor(c) = 0 /\ WaitingFor(c) = <<>> /\ peer[c] = "here"
    BY DEF CasterInit, MemberOf, NextFor, WaitingFor, Served
  <2> QED BY <2>1 DEF CasterInit, Lossy!LossyInit
<1>2. CasterInv /\ [CasterNext]_vars => [Lossy!LossyNext]_(Lossy!lossyVars)
  <2> SUFFICES ASSUME CasterInv, Step PROVE [Lossy!LossyNext]_(Lossy!lossyVars)
    BY NextIsStep
  <2> QED BY RefinesPublish, RefinesListener, RefinesPut, RefinesSend, RefinesHandler DEF Step
<1> QED BY <1>1, <1>2, CasterInvariant, PTL DEF CasterSafety, ImplementsLossyFeed, Lossy!LossySpec
=============================================================================
