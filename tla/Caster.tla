------------------------------- MODULE Caster -------------------------------
(***************************************************************************)
(* Feed and NtripCaster (ntrip.py): one named feed, the thread that        *)
(* publishes on it, the listening threads, and a handler thread per        *)
(* accepted connection.                                                    *)
(*                                                                         *)
(* subscribe, unsubscribe and the copy of the subscriber set inside        *)
(* publish run under the feed's lock and wait for nothing there, so each   *)
(* is one step; the puts of publish happen after the lock is released, one *)
(* step per queue of the copy, in any order (the copy lists a set).        *)
(*                                                                         *)
(* Environment: a peer may leave at any moment.  The kernel takes up to    *)
(* SockBuf sends for a peer that is gone before sendall fails; a sendall   *)
(* to a living peer may time out after 15 s.                               *)
(***************************************************************************)
EXTENDS Integers, Sequences, FiniteSets

CONSTANTS Clients,     \* connections that may be made, each once
          Addresses,   \* bind addresses
          QueueSize,   \* maxsize of a subscriber queue
          SockBuf,     \* sends the kernel takes for a peer that is gone
          MaxMessages, \* bound on the number of messages published
          None

ASSUME CasterAssumption ==
  /\ QueueSize \in Nat \ {0}
  /\ SockBuf \in Nat
  /\ MaxMessages \in Nat
  /\ None \notin Nat

VARIABLES available,   \* self.available.is_set()
          subs,        \* self._subs: whose queues
          queue,       \* the queue of each connection
          ppc,         \* publish: idle, snapshot, put
          published,   \* messages published, the current one included
          targets,     \* subs of publish: queues still to put to
          listener,    \* per address: starting, accept, closed
          hpc,         \* per connection: where _handle is
          item,        \* what q.get returned and sendall has still to send
          peer,        \* per connection: here or gone
          accepted,    \* sends the kernel took since the peer left
          stopped,     \* self._stop
          delivered,   \* per connection: messages sent in full
          joined,      \* ghost: messages already copied out when it subscribed
          taken,       \* ghost: the last message get took, at first joined
          lost         \* ghost: what its queue refused, with taken at the time

feedVars    == <<available, subs, ppc, published, targets>>
handlerVars == <<hpc, item, peer, accepted, delivered>>
vars == <<feedVars, handlerVars, queue, listener, stopped, joined, taken, lost>>

-----------------------------------------------------------------------------
CasterInit ==
  /\ available = FALSE /\ subs = {} /\ ppc = "idle" /\ published = 0 /\ targets = {}
  /\ queue = [c \in Clients |-> <<>>]
  /\ listener = [a \in Addresses |-> "starting"]
  /\ hpc = [c \in Clients |-> "none"]
  /\ item = [c \in Clients |-> None]
  /\ peer = [c \in Clients |-> "here"]
  /\ accepted = [c \in Clients |-> 0]
  /\ stopped = FALSE
  /\ delivered = [c \in Clients |-> <<>>]
  /\ joined = [c \in Clients |-> 0]
  /\ taken = [c \in Clients |-> 0]
  /\ lost = [c \in Clients |-> {}]

\* publish(data) with the next message: the feed becomes available.
publish ==
  /\ ppc = "idle" /\ published < MaxMessages
  /\ available' = TRUE
  /\ published' = published + 1
  /\ ppc' = "snapshot"
  /\ UNCHANGED <<subs, targets, handlerVars, queue, listener, stopped, joined, taken, lost>>

\* with self._lock: subs = list(self._subs)
snapshot ==
  /\ ppc = "snapshot"
  /\ targets' = subs
  /\ ppc' = "put"
  /\ UNCHANGED <<available, subs, published, handlerVars, queue, listener, stopped, joined, taken, lost>>

Refusal(c) == [message |-> published, after |-> taken[c]]

\* Mutants: a blocking put; a queue without maxsize; one taken for full too soon.
put_blocking(c) ==
  /\ ppc = "put" /\ c \in targets /\ Len(queue[c]) < QueueSize
  /\ targets' = targets \ {c}
  /\ queue' = [queue EXCEPT ![c] = Append(@, published)]
  /\ UNCHANGED <<available, subs, ppc, published, handlerVars, listener, stopped, joined, taken, lost>>
put_unbounded(c) ==
  /\ ppc = "put" /\ c \in targets
  /\ targets' = targets \ {c}
  /\ queue' = [queue EXCEPT ![c] = Append(@, published)]
  /\ UNCHANGED <<available, subs, ppc, published, handlerVars, listener, stopped, joined, taken, lost>>
put_too_soon_full(c) ==
  /\ ppc = "put" /\ c \in targets
  /\ targets' = targets \ {c}
  /\ IF Len(queue[c]) < QueueSize - 1
     THEN queue' = [queue EXCEPT ![c] = Append(@, published)] /\ UNCHANGED lost
     ELSE lost' = [lost EXCEPT ![c] = @ \cup {Refusal(c)}] /\ UNCHANGED queue
  /\ UNCHANGED <<available, subs, ppc, published, handlerVars, listener, stopped, joined, taken>>

\* q.put_nowait(data), or the message is dropped for this client.
put(c) ==
  /\ ppc = "put" /\ c \in targets
  /\ targets' = targets \ {c}
  /\ \/ /\ Len(queue[c]) < QueueSize
        /\ queue' = [queue EXCEPT ![c] = Append(@, published)]
        /\ UNCHANGED lost
     \/ /\ Len(queue[c]) = QueueSize
        /\ lost' = [lost EXCEPT ![c] = @ \cup {Refusal(c)}]
        /\ UNCHANGED queue
  /\ UNCHANGED <<available, subs, ppc, published, handlerVars, listener, stopped, joined, taken>>

publish_returns ==
  /\ ppc = "put" /\ targets = {}
  /\ ppc' = "idle"
  /\ UNCHANGED <<available, subs, published, targets, handlerVars, queue, listener, stopped, joined, taken, lost>>

-----------------------------------------------------------------------------
\* _stop is looked at once before every accept and every get.
Unless(stop_state, go_on) == IF stopped THEN stop_state ELSE go_on

\* _serve_on: bind and listen succeed, or the exception ends the thread.
serve_on(a) ==
  /\ listener[a] = "starting"
  /\ \E to \in {Unless("closed", "accept"), "closed"} : listener' = [listener EXCEPT ![a] = to]
  /\ UNCHANGED <<feedVars, handlerVars, queue, stopped, joined, taken, lost>>

accept(a, c) ==
  /\ listener[a] = "accept" /\ hpc[c] = "none"
  /\ listener' = [listener EXCEPT ![a] = Unless("closed", "accept")]
  /\ hpc' = [hpc EXCEPT ![c] = "request"]
  /\ UNCHANGED <<feedVars, item, peer, accepted, delivered, queue, stopped, joined, taken, lost>>

\* accept times out after a second, or raises: any other OSError ends the loop.
accept_fails(a) ==
  /\ listener[a] = "accept"
  /\ \E to \in {Unless("closed", "accept"), "closed"} : listener' = [listener EXCEPT ![a] = to]
  /\ UNCHANGED <<feedVars, handlerVars, queue, stopped, joined, taken, lost>>

\* The peer of a connection leaves.
leave(c) ==
  /\ hpc[c] \notin {"none", "closed"} /\ peer[c] = "here"
  /\ peer' = [peer EXCEPT ![c] = "gone"]
  /\ UNCHANGED <<feedVars, hpc, item, accepted, delivered, queue, listener, stopped, joined, taken, lost>>

\* stop(), which also closes the listening sockets: accept then raises.
stop ==
  /\ ~stopped
  /\ stopped' = TRUE
  /\ UNCHANGED <<feedVars, handlerVars, queue, listener, joined, taken, lost>>

-----------------------------------------------------------------------------
Handler(c, from, to) ==
  /\ hpc[c] = from
  /\ hpc' = [hpc EXCEPT ![c] = to]

\* The request names the feed, and a feed with data is served.
request(c) ==
  /\ available
  /\ Handler(c, "request", "subscribe")
  /\ UNCHANGED <<feedVars, item, peer, accepted, delivered, queue, listener, stopped, joined, taken, lost>>

\* No or another request, a feed without data (sourcetable), or a failed send.
request_fails(c) ==
  /\ Handler(c, "request", "closed")
  /\ UNCHANGED <<feedVars, item, peer, accepted, delivered, queue, listener, stopped, joined, taken, lost>>

\* q = feed.subscribe()
subscribe(c) ==
  /\ Handler(c, "subscribe", Unless("unsubscribe", "get"))
  /\ subs' = subs \cup {c}
  /\ joined' = [joined EXCEPT ![c] = IF ppc = "snapshot" THEN published - 1 ELSE published]
  /\ taken' = [taken EXCEPT ![c] = joined'[c]]
  /\ UNCHANGED <<available, ppc, published, targets, item, peer, accepted, delivered, queue,
                 listener, stopped, lost>>

\* Mutant: the newest message first.
get_newest(c) ==
  /\ queue[c] # <<>>
  /\ Handler(c, "get", "send")
  /\ item' = [item EXCEPT ![c] = queue[c][Len(queue[c])]]
  /\ queue' = [queue EXCEPT ![c] = SubSeq(@, 1, Len(@) - 1)]
  /\ taken' = [taken EXCEPT ![c] = item'[c]]
  /\ UNCHANGED <<feedVars, peer, accepted, delivered, listener, stopped, joined, lost>>

\* q.get(timeout=10) finds a message, or waits in vain and is called again.
get(c) ==
  /\ queue[c] # <<>>
  /\ Handler(c, "get", "send")
  /\ item' = [item EXCEPT ![c] = Head(queue[c])]
  /\ queue' = [queue EXCEPT ![c] = Tail(@)]
  /\ taken' = [taken EXCEPT ![c] = Head(queue[c])]
  /\ UNCHANGED <<feedVars, peer, accepted, delivered, listener, stopped, joined, lost>>

\* Mutants: an empty queue ends the handler without unsubscribe; the stop flag
\* is not looked at again.
get_times_out_closes(c) ==
  /\ queue[c] = <<>>
  /\ Handler(c, "get", "closed")
  /\ UNCHANGED <<feedVars, item, peer, accepted, delivered, queue, listener, stopped, joined, taken, lost>>
get_times_out_regardless(c) ==
  /\ queue[c] = <<>>
  /\ Handler(c, "get", "get")
  /\ UNCHANGED <<feedVars, item, peer, accepted, delivered, queue, listener, stopped, joined, taken, lost>>

get_times_out(c) ==
  /\ queue[c] = <<>>
  /\ Handler(c, "get", Unless("unsubscribe", "get"))
  /\ UNCHANGED <<feedVars, item, peer, accepted, delivered, queue, listener, stopped, joined, taken, lost>>

\* conn.sendall returns: to the peer, or into the buffer of one that is gone.
send(c) ==
  /\ peer[c] = "here" \/ accepted[c] < SockBuf
  /\ Handler(c, "send", Unless("unsubscribe", "get"))
  /\ item' = [item EXCEPT ![c] = None]
  /\ IF peer[c] = "here"
     THEN delivered' = [delivered EXCEPT ![c] = Append(@, item[c])] /\ UNCHANGED accepted
     ELSE accepted' = [accepted EXCEPT ![c] = @ + 1] /\ UNCHANGED delivered
  /\ UNCHANGED <<feedVars, peer, queue, listener, stopped, joined, taken, lost>>

\* Mutant: a failed send is passed over.
send_fails_goes_on(c) ==
  /\ Handler(c, "send", Unless("unsubscribe", "get"))
  /\ item' = [item EXCEPT ![c] = None]
  /\ UNCHANGED <<feedVars, peer, accepted, delivered, queue, listener, stopped, joined, taken, lost>>

\* conn.sendall raises: the peer is gone, or takes nothing for 15 s.
send_fails(c) ==
  /\ Handler(c, "send", "unsubscribe")
  /\ item' = [item EXCEPT ![c] = None]
  /\ UNCHANGED <<feedVars, peer, accepted, delivered, queue, listener, stopped, joined, taken, lost>>

\* finally: feed.unsubscribe(q), then conn.close().
unsubscribe(c) ==
  /\ Handler(c, "unsubscribe", "closed")
  /\ subs' = subs \ {c}
  /\ UNCHANGED <<available, ppc, published, targets, item, peer, accepted, delivered, queue,
                 listener, stopped, joined, taken, lost>>

Publisher == publish \/ snapshot \/ (\E c \in Clients : put(c)) \/ publish_returns

Listener(a) == serve_on(a) \/ (\E c \in Clients : accept(a, c)) \/ accept_fails(a)

Handle(c) ==
  \/ request(c) \/ request_fails(c) \/ subscribe(c)
  \/ get(c) \/ get_times_out(c) \/ send(c) \/ send_fails(c) \/ unsubscribe(c)

CasterNext ==
  \/ Publisher
  \/ \E a \in Addresses : Listener(a)
  \/ \E c \in Clients : Handle(c) \/ leave(c)
  \/ stop

\* Threads that can run do run: the publisher inside a publish, the handlers
\* (all their waits time out) and the listeners.  Nobody must connect, leave,
\* call publish or stop.
CasterFairness ==
  /\ WF_vars(snapshot \/ (\E c \in Clients : put(c)) \/ publish_returns)
  /\ \A c \in Clients : WF_vars(Handle(c))
  /\ \A a \in Addresses : WF_vars(Listener(a))

CasterSafety == CasterInit /\ [][CasterNext]_vars
CasterSpec == CasterSafety /\ CasterFairness

-----------------------------------------------------------------------------
Messages == 1 .. published

CasterTypeOK ==
  /\ available \in BOOLEAN /\ stopped \in BOOLEAN
  /\ subs \in SUBSET Clients /\ targets \in SUBSET Clients
  /\ ppc \in {"idle", "snapshot", "put"}
  /\ published \in Nat
  /\ queue \in [Clients -> Seq(Nat)]
  /\ \A c \in Clients : Len(queue[c]) <= QueueSize
  /\ listener \in [Addresses -> {"starting", "accept", "closed"}]
  /\ hpc \in [Clients -> {"none", "request", "subscribe", "get", "send", "unsubscribe", "closed"}]
  /\ item \in [Clients -> Nat \cup {None}]
  /\ peer \in [Clients -> {"here", "gone"}]
  /\ accepted \in [Clients -> 0 .. SockBuf]
  /\ delivered \in [Clients -> Seq(Nat)]
  /\ joined \in [Clients -> Nat] /\ taken \in [Clients -> Nat]
  /\ lost \in [Clients -> SUBSET [message : Nat, after : Nat]]

\* What a connection has been sent, is being sent and will be sent.
InHand(c) == IF item[c] = None THEN <<>> ELSE <<item[c]>>
Channel(c) == delivered[c] \o InHand(c) \o queue[c]

\* What its queue refused.
Refused(c) == {r.message : r \in lost[c]}

\* A client gets messages in the order of publication, none twice, none from
\* before it subscribed; its queue never reorders them either.
DeliveredInOrder ==
  \A c \in Clients :
    /\ \A i, j \in DOMAIN Channel(c) : i < j => Channel(c)[i] < Channel(c)[j]
    /\ \A i \in DOMAIN Channel(c) : Channel(c)[i] \in joined[c] + 1 .. published

\* A message is missed by a subscribed client whose peer is there only if its
\* queue was full: from the first publish whose copy of the subscribers came
\* after subscribe, every message is delivered, in hand, queued or refused.
NothingMissed ==
  \A c \in subs : peer[c] = "here" /\ hpc[c] \in {"get", "send"} =>
    \A m \in joined[c] + 1 .. published :
      \/ \E i \in DOMAIN Channel(c) : Channel(c)[i] = m
      \/ m \in Refused(c)
      \/ m = published /\ (ppc = "snapshot" \/ c \in targets)

\* A queue refuses a message only while its client is behind: between the last
\* message its handler had taken by then and the refused one, QueueSize others
\* were published that the queue took and that were all still waiting.
RefusedOnlyWhenBehind ==
  \A c \in Clients : \A r \in lost[c] :
    Cardinality((r.after + 1 .. r.message - 1) \ Refused(c)) >= QueueSize

\* No handler ends and leaves its queue with the feed: a subscriber is served
\* by a running handler.
SubscribersAreServed ==
  \A c \in subs : hpc[c] \in {"get", "send", "unsubscribe"}

\* publish returns whatever the clients do: no slow or dead one stalls the feed.
PublishReturns == ppc # "idle" ~> ppc = "idle"

\* A peer that is gone is found out once more messages wait for it than the
\* kernel takes: its queue then leaves the feed.
GoneClientLeaves ==
  \A c \in Clients :
    c \in subs /\ peer[c] = "gone" /\ Len(queue[c]) > SockBuf - accepted[c] ~> c \notin subs

\* After stop() every handler and every listener ends.
StopEndsAll ==
  stopped ~> /\ \A c \in Clients : hpc[c] \in {"none", "closed"}
             /\ \A a \in Addresses : listener[a] = "closed"
-----------------------------------------------------------------------------
\* The threads, the lock and the queues implement LossyFeed: a client is a
\* member while its handler gets and sends, what waits for it is in hand or in
\* its queue, and it is offered the current message until publish put it there.
Served(c) == hpc[c] \in {"get", "send"}

MemberOf(c) ==
  IF Served(c) THEN "in"
  ELSE IF hpc[c] \in {"none", "request", "subscribe"} THEN "out" ELSE "left"

NextFor(c) ==
  IF ~Served(c) THEN 0
  ELSE IF ppc = "snapshot" \/ c \in targets THEN published ELSE published + 1

WaitingFor(c) == IF Served(c) THEN InHand(c) \o queue[c] ELSE <<>>

Lossy == INSTANCE LossyFeed WITH
  log     <- published,
  member  <- [c \in Clients |-> MemberOf(c)],
  next    <- [c \in Clients |-> NextFor(c)],
  waiting <- [c \in Clients |-> WaitingFor(c)],
  present <- {c \in Clients : peer[c] = "here"},
  got     <- delivered

\* Whatever the interleaving, a subscriber loses only what its full queue
\* refuses and what a dropped connection takes along, and nobody else's queue,
\* peer or departure changes what it gets.
ImplementsLossyFeed == Lossy!LossySpec
=============================================================================
