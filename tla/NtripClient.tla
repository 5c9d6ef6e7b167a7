----------------------------- MODULE NtripClient -----------------------------
(***************************************************************************)
(* NtripClient (ntrip.py): the thread that keeps one upstream mount        *)
(* streaming to a callback.  _connect sends the request and reads the      *)
(* header byte by byte, stream hands on whatever recv returns after it;    *)
(* any exception, the callback's included, leads to a wait and a new       *)
(* connection, until the stop event is set.                                *)
(*                                                                         *)
(* The upstream caster is environment.  It answers with a sequence of      *)
(* lines, the first of which is the status line, and streams for ever      *)
(* after it; it ends a header early by closing.  While it is up it accepts *)
(* connections, gives a good answer and keeps the data coming; while it is *)
(* not, connecting may fail, any answer may come, every wait for it may    *)
(* time out (self.timeout) or end in an error, and a header may go on and  *)
(* on without the line that would end it.                                  *)
(***************************************************************************)
EXTENDS Integers, Sequences

CONSTANTS Answers,      \* what the caster may send up to the stream itself
          GoodAnswers,  \* those of a caster that has the mount
          FirstBackoff, MaxBackoff,
          MaxFails      \* where the ghost fails stops counting

StatusLine == {"ICY 200", "HTTP/1 200", "HTTP/1 404", "SOURCETABLE 200"}
Line == {"field", "blank", "body", "part"}   \* "part": bytes that end no line

\* Behind the blank line comes the body.
HeaderThenBody(s) == \A i, j \in 1 .. Len(s) : i < j /\ s[i] = "blank" => s[j] = "body"

ASSUME ClientAssumption ==
  /\ \A a \in Answers :
       /\ a \in Seq(StatusLine \cup Line)
       /\ a # <<>> => a[1] \in StatusLine
       /\ \A i \in 2 .. Len(a) : a[i] \in Line
       /\ a # <<>> /\ a[1] # "ICY 200" => HeaderThenBody(a)
  /\ GoodAnswers \subseteq Answers
  /\ FirstBackoff \in Nat \ {0} /\ MaxBackoff \in Nat
  /\ FirstBackoff <= MaxBackoff
  /\ MaxFails \in Nat

VARIABLES up,        \* the upstream caster is reachable and has the mount
          pc,        \* where stream() is
          status,    \* the status line read, "none" before
          line,      \* what the caster has sent and recv has not returned
          backoff,
          stop,      \* the event, set by the main thread
          bound,     \* whether the local sock names an open socket
          sockets,   \* how many sockets the thread has open
          fails,     \* ghost: failures since a header was read in full
          late,      \* ghost: calls of on_data that began after stop
          given      \* ghost: what on_data was given, with the status line

vars == <<up, pc, status, line, backoff, stop, bound, sockets, fails, late, given>>

-----------------------------------------------------------------------------
At(from, to) == pc = from /\ pc' = to

ClientInit ==
  /\ up \in BOOLEAN /\ stop = FALSE
  /\ pc = "check" /\ status = "none" /\ line = <<>>
  /\ backoff = FirstBackoff
  /\ bound = FALSE /\ sockets = 0
  /\ fails = 0 /\ late = 0 /\ given = {}

\* while not stop.is_set(): the outer loop.  When stream() returns, its locals
\* and with them the last socket are gone.
check ==
  /\ IF stop THEN At("check", "done") ELSE At("check", "connect")
  /\ sockets' = IF stop THEN 0 ELSE sockets
  /\ bound' = IF stop THEN FALSE ELSE bound
  /\ UNCHANGED <<up, status, line, backoff, stop, fails, late, given>>

\* create_connection, the TLS handshake and the request succeed.
connect ==
  /\ At("connect", "status")
  /\ line' \in IF up THEN GoodAnswers ELSE Answers
  /\ status' = "none"
  /\ sockets' = sockets + 1
  /\ UNCHANGED <<up, backoff, stop, bound, fails, late, given>>

\* One of them raises: create_connection, and there is no socket, or a later
\* call, and the exception keeps the socket until its handler ends.
connect_fails ==
  /\ ~up
  /\ At("connect", "failed")
  /\ sockets' \in {sockets, sockets + 1}
  /\ UNCHANGED <<up, status, line, backoff, stop, bound, fails, late, given>>

\* while _CRLF not in status
read_status ==
  /\ line # <<>>
  /\ line' = Tail(line)
  /\ \/ Head(line) = "part" /\ At("status", "status") /\ UNCHANGED status
     \/ Head(line) # "part" /\ At("status", "judge") /\ status' = Head(line)
  /\ UNCHANGED <<up, backoff, stop, bound, sockets, fails, late, given>>

\* Mutant: any status line with a 200 in it.
Accepted_any_200 == status \in {"ICY 200", "HTTP/1 200", "SOURCETABLE 200"}

\* line.startswith(b"ICY 200") or http_ok
Accepted == status \in {"ICY 200", "HTTP/1 200"}

refuse ==
  /\ ~Accepted
  /\ At("judge", "failed")
  /\ UNCHANGED <<up, status, line, backoff, stop, bound, sockets, fails, late, given>>

\* Only an HTTP answer has more header to read.
accept_status ==
  /\ Accepted
  /\ At("judge", IF status = "ICY 200" THEN "connected" ELSE "header")
  /\ UNCHANGED <<up, status, line, backoff, stop, bound, sockets, fails, late, given>>

\* One line of the HTTP header or a part of one; the blank one ends it.
read_header ==
  /\ line # <<>>
  /\ At("header", IF Head(line) = "blank" THEN "connected" ELSE "header")
  /\ line' = Tail(line)
  /\ UNCHANGED <<up, status, backoff, stop, bound, sockets, fails, late, given>>

\* Mutant: an empty recv does not end the loop that drains the header.
header_ends_early_spins ==
  /\ pc \in {"status", "header"}
  /\ ~up
  /\ pc' = "failed"
  /\ UNCHANGED <<up, status, line, backoff, stop, bound, sockets, fails, late, given>>

\* The caster closes before the header is complete, or recv raises.
header_ends_early ==
  /\ pc \in {"status", "header"}
  /\ ~up \/ line = <<>>
  /\ pc' = "failed"
  /\ UNCHANGED <<up, status, line, backoff, stop, bound, sockets, fails, late, given>>

\* Mutants: the backoff is not reset; the old socket is kept beside the new.
connected_no_reset ==
  /\ At("connected", "inner")
  /\ fails' = 0
  /\ bound' = TRUE
  /\ sockets' = IF bound THEN sockets - 1 ELSE sockets
  /\ UNCHANGED <<up, status, line, backoff, stop, late, given>>
connected_keeps_old ==
  /\ At("connected", "inner")
  /\ backoff' = FirstBackoff /\ fails' = 0
  /\ bound' = TRUE
  /\ UNCHANGED <<up, status, line, sockets, stop, late, given>>

\* sock = self._connect(): a socket the name held before is collected.
connected ==
  /\ At("connected", "inner")
  /\ backoff' = FirstBackoff /\ fails' = 0
  /\ bound' = TRUE
  /\ sockets' = IF bound THEN sockets - 1 ELSE sockets
  /\ UNCHANGED <<up, status, line, stop, late, given>>

\* Mutant: the inner loop does not look at the stop event.
inner_forever ==
  /\ At("inner", "recv")
  /\ UNCHANGED <<up, status, line, backoff, stop, bound, sockets, fails, late, given>>

\* while not stop.is_set(): the inner loop, with sock.close() behind it.
inner ==
  /\ IF stop THEN At("inner", "check") ELSE At("inner", "recv")
  /\ sockets' = IF stop THEN sockets - 1 ELSE sockets
  /\ bound' = IF stop THEN FALSE ELSE bound
  /\ UNCHANGED <<up, status, line, backoff, stop, fails, late, given>>

\* recv returns data, and on_data is called with it.
recv ==
  /\ At("recv", "on_data")
  /\ given' = given \cup {<<status, IF line = <<>> THEN "body" ELSE Head(line)>>}
  /\ line' = IF line = <<>> THEN <<>> ELSE Tail(line)
  /\ late' = IF stop /\ late < 2 THEN late + 1 ELSE late
  /\ UNCHANGED <<up, status, backoff, stop, bound, sockets, fails>>

\* recv returns nothing, times out or raises.
recv_fails ==
  /\ ~up
  /\ At("recv", "failed")
  /\ UNCHANGED <<up, status, line, backoff, stop, bound, sockets, fails, late, given>>

on_data_returns ==
  /\ At("on_data", "inner")
  /\ UNCHANGED <<up, status, line, backoff, stop, bound, sockets, fails, late, given>>

on_data_raises ==
  /\ At("on_data", "failed")
  /\ UNCHANGED <<up, status, line, backoff, stop, bound, sockets, fails, late, given>>

\* except Exception, up to the wait.
failed ==
  /\ At("failed", "wait")
  /\ fails' = IF fails < MaxFails THEN fails + 1 ELSE fails
  /\ UNCHANGED <<up, status, line, backoff, stop, bound, sockets, late, given>>

\* Mutant: no upper limit.
Doubled_unlimited == IF backoff > MaxBackoff THEN backoff ELSE 2 * backoff

Doubled == IF 2 * backoff < MaxBackoff THEN 2 * backoff ELSE MaxBackoff

\* Mutant: the result of stop.wait is not looked at, and neither is the flag.
wait_over_regardless ==
  /\ At("wait", "connect")
  /\ backoff' = Doubled
  /\ sockets' = IF bound THEN 1 ELSE 0
  /\ UNCHANGED <<up, status, line, stop, bound, fails, late, given>>

\* stop.wait(backoff) times out.  The exception is gone when its handler ends,
\* and with it the socket of a _connect that failed.
wait_over ==
  /\ ~stop
  /\ At("wait", "check")
  /\ backoff' = Doubled
  /\ sockets' = IF bound THEN 1 ELSE 0
  /\ UNCHANGED <<up, status, line, stop, bound, fails, late, given>>

\* stop.wait(backoff) returns True, and stream() returns.
wait_stopped ==
  /\ stop
  /\ At("wait", "done")
  /\ sockets' = 0 /\ bound' = FALSE
  /\ UNCHANGED <<up, status, line, backoff, stop, fails, late, given>>

Client ==
  \/ check
  \/ connect \/ connect_fails
  \/ read_status \/ refuse \/ accept_status \/ read_header \/ header_ends_early
  \/ connected
  \/ inner \/ recv \/ recv_fails \/ on_data_returns \/ on_data_raises
  \/ failed \/ wait_over \/ wait_stopped

set_stop ==
  /\ ~stop /\ stop' = TRUE
  /\ UNCHANGED <<up, pc, status, line, backoff, bound, sockets, fails, late, given>>

\* The upstream goes away or comes back.
outage ==
  /\ up' = ~up
  /\ UNCHANGED <<pc, status, line, backoff, stop, bound, sockets, fails, late, given>>

\* The caster sends more of a header that it does not end.
header_goes_on ==
  /\ pc \in {"status", "header"} /\ line = <<>>
  /\ ~up
  /\ line' = <<"part">>
  /\ UNCHANGED <<up, pc, status, backoff, stop, bound, sockets, fails, late, given>>

ClientNext == Client \/ set_stop \/ outage \/ header_goes_on

\* The thread runs: every wait in it has a timeout.
ClientSafety == ClientInit /\ [][ClientNext]_vars
ClientSpec == ClientSafety /\ WF_vars(Client)

-----------------------------------------------------------------------------
ClientTypeOK ==
  /\ up \in BOOLEAN /\ stop \in BOOLEAN /\ bound \in BOOLEAN
  /\ pc \in {"check", "connect", "status", "judge", "header", "connected", "inner", "recv",
             "on_data", "failed", "wait", "done"}
  /\ status \in StatusLine \cup {"none"}
  /\ line \in Seq(StatusLine \cup Line)
  /\ backoff \in FirstBackoff .. MaxBackoff
  /\ sockets \in Nat
  /\ fails \in 0 .. MaxFails
  /\ late \in 0 .. 2
  /\ given \subseteq StatusLine \X (StatusLine \cup Line)

\* ntrip.py: "Only an ICY/HTTP 200 is a data stream": nothing of a sourcetable
\* or an error page is handed on, and of an HTTP answer nothing but its body.
\* Lines a caster sends behind "ICY 200 OK" do reach the callback.
OnlyBodyDelivered ==
  \A g \in given : g[1] = "ICY 200" \/ (g[1] = "HTTP/1 200" /\ g[2] = "body")

\* "reconnecting with exponential backoff": the wait before an attempt doubles
\* with every failure since a header was last read in full, up to MaxBackoff.
WaitMatchesFailures ==
  pc = "wait" /\ fails < MaxFails =>
    backoff = IF FirstBackoff * 2^(fails - 1) < MaxBackoff THEN FirstBackoff * 2^(fails - 1)
              ELSE MaxBackoff

\* "until stop": whatever the callback does, at most one call of it begins
\* after the event is set.
AtMostOneCallAfterStop == late <= 1

\* A failed connection's socket is not closed but left to be collected: it may
\* stay open while the next one is made, but no more than one does, and none
\* outlives stream().
SocketsDoNotPileUp ==
  /\ sockets <= 2
  /\ pc \in {"inner", "recv", "on_data"} => sockets = 1
  /\ pc = "done" => sockets = 0

\* While the upstream is there and nobody stops the client, data is handed on
\* again and again, whatever failed before.
StreamsAgain == up /\ ~stop ~> pc = "on_data" \/ ~up \/ stop

\* Every header is left some time: read in full, ended early, timed out or in
\* an error.
HeadersAreLeft == []<>(pc \notin {"status", "header"})

\* If every header is left, stream() returns once stop is set, whatever the
\* upstream does otherwise: no wait, no retry and no stream outlasts it.  The
\* loops that read a header have no bound and never look at stop.
StopEndsStream == HeadersAreLeft => (stop ~> pc = "done")

\* "Stream forever, ... until stop", with nothing assumed of the upstream.
ReturnsAfterStop == stop ~> pc = "done"
=============================================================================
