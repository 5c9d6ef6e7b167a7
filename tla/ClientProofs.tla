---------------------------- MODULE ClientProofs ----------------------------
(***************************************************************************)
(* Proofs about NtripClient, for every set of answers and any backoff.     *)
(***************************************************************************)
EXTENDS NtripClient, NumberProofs

-----------------------------------------------------------------------------
Owned == IF bound THEN 1 ELSE 0

\* Where in the answer the thread is.
ReadInv ==
  /\ pc = "status" => line \in Answers \cup {<<>>, <<"part">>}
  /\ pc \in {"judge", "header"} /\ status # "ICY 200" => HeaderThenBody(line)
  /\ pc = "header" => status = "HTTP/1 200"
  /\ pc = "connected" => Accepted
  /\ pc \in {"connected", "inner", "recv", "on_data"} =>
       \/ status = "ICY 200"
       \/ status = "HTTP/1 200" /\ \A i \in 1 .. Len(line) : line[i] = "body"

\* Which sockets are open: that of the local sock, and one _connect has made.
SocketInv ==
  /\ pc \in {"check", "connect"} => sockets = Owned
  /\ pc \in {"status", "judge", "header", "connected"} => sockets = Owned + 1
  /\ pc \in {"inner", "recv", "on_data"} => bound /\ sockets = 1
  /\ pc \in {"failed", "wait"} => sockets \in {Owned, Owned + 1}
  /\ pc = "done" => sockets = 0

\* After stop the inner loop is not entered again.
LateInv ==
  /\ ~stop => late = 0
  /\ late # 0 => late = 1 /\ pc # "recv"

ClientInd == ClientTypeOK /\ OnlyBodyDelivered /\ ReadInv /\ SocketInv /\ LateInv

-----------------------------------------------------------------------------
LEMMA Bounds == /\ FirstBackoff \in Nat \ {0} /\ MaxBackoff \in Nat /\ FirstBackoff <= MaxBackoff
                /\ MaxFails \in Nat
BY ClientAssumption

LEMMA ClientInitInd == ClientInit => ClientInd
<1> SUFFICES ASSUME ClientInit PROVE ClientInd
  OBVIOUS
<1>1. ClientTypeOK
  <2>1. line \in Seq(StatusLine \cup Line) /\ given \subseteq StatusLine \X (StatusLine \cup Line)
    BY DEF ClientInit
  <2>2. up \in BOOLEAN /\ stop \in BOOLEAN /\ bound \in BOOLEAN BY Zenon DEF ClientInit
  <2> QED BY <2>1, <2>2, Bounds DEF ClientInit, ClientTypeOK
<1>2. OnlyBodyDelivered BY DEF ClientInit, OnlyBodyDelivered
<1>3. ReadInv BY DEF ClientInit, ReadInv
<1>4. SocketInv /\ LateInv BY DEF ClientInit, SocketInv, LateInv, Owned
<1> QED BY <1>1, <1>2, <1>3, <1>4 DEF ClientInd

\* What recv takes off the front of an answer leaves a shorter answer.
LEMMA Rest ==
  ASSUME NEW S, NEW s \in Seq(S), s # <<>>
  PROVE  /\ Head(s) \in S /\ Head(s) = s[1]
         /\ Tail(s) \in Seq(S) /\ Len(Tail(s)) = Len(s) - 1
         /\ \A i \in 1 .. Len(s) - 1 : Tail(s)[i] = s[i + 1]
         /\ HeaderThenBody(s) => HeaderThenBody(Tail(s))
<1>1. Head(s) \in S /\ Head(s) = s[1] /\ Tail(s) \in Seq(S) /\ Len(Tail(s)) = Len(s) - 1 /\ Len(s) \in Nat
  OBVIOUS
<1>2. \A i \in 1 .. Len(s) - 1 : Tail(s)[i] = s[i + 1]
  OBVIOUS
<1>3. ASSUME HeaderThenBody(s), NEW i \in 1 .. Len(Tail(s)), NEW j \in 1 .. Len(Tail(s)),
             i < j, Tail(s)[i] = "blank"
      PROVE  Tail(s)[j] = "body"
  <2>1. s[i + 1] = "blank" /\ s[j + 1] = Tail(s)[j] BY <1>1, <1>2, <1>3
  <2>2. i + 1 \in 1 .. Len(s) /\ j + 1 \in 1 .. Len(s) /\ i + 1 < j + 1 BY <1>1, <1>3
  <2> QED BY <1>3, <2>1, <2>2 DEF HeaderThenBody
<1> QED BY <1>1, <1>2, <1>3 DEF HeaderThenBody

\* The actions that leave line alone, or only choose an answer.
LEMMA ControlStep ==
  ASSUME ClientInd,
         \/ check \/ connect_fails \/ refuse \/ accept_status \/ header_ends_early \/ connected
         \/ inner \/ recv_fails \/ on_data_returns \/ on_data_raises \/ failed \/ wait_over
         \/ wait_stopped \/ set_stop \/ outage \/ UNCHANGED vars
  PROVE  ClientInd'
<1> USE DEF ClientInd, At
<1>1. CASE check
  BY <1>1 DEF check, ClientTypeOK, OnlyBodyDelivered, ReadInv, SocketInv, LateInv, Owned
<1>2. CASE connect_fails
  <2>1. up' \in BOOLEAN /\ stop' \in BOOLEAN /\ bound' \in BOOLEAN
    BY <1>2, Zenon DEF connect_fails, ClientTypeOK
  <2>2. sockets' \in {Owned, Owned + 1} /\ Owned' = Owned /\ sockets' \in Nat
    BY <1>2 DEF connect_fails, SocketInv, Owned
  <2>3. ClientTypeOK' BY <1>2, <2>1, <2>2 DEF connect_fails, ClientTypeOK
  <2>4. OnlyBodyDelivered' BY <1>2 DEF connect_fails, OnlyBodyDelivered
  <2>5. ReadInv' BY <1>2 DEF connect_fails, Accepted, ReadInv
  <2>6. SocketInv' BY <1>2, <2>2 DEF connect_fails, SocketInv
  <2>7. LateInv' BY <1>2 DEF connect_fails, ClientTypeOK, LateInv
  <2> QED BY <2>3, <2>4, <2>5, <2>6, <2>7
<1>3. CASE refuse
  BY <1>3 DEF refuse, ClientTypeOK, OnlyBodyDelivered, ReadInv, SocketInv, LateInv, Owned
<1>4. CASE accept_status
  BY <1>4 DEF accept_status, Accepted, ClientTypeOK, OnlyBodyDelivered, ReadInv, SocketInv, LateInv, Owned
<1>5. CASE header_ends_early
  BY <1>5 DEF header_ends_early, ClientTypeOK, OnlyBodyDelivered, ReadInv, SocketInv, LateInv, Owned
<1>6. CASE connected
  <2>1. up' \in BOOLEAN /\ stop' \in BOOLEAN /\ bound' \in BOOLEAN
    BY <1>6, Zenon DEF connected, ClientTypeOK
  <2>2. /\ backoff' \in FirstBackoff .. MaxBackoff /\ sockets' \in Nat
      /\ fails' \in 0 .. MaxFails /\ late' \in 0 .. 2
    BY <1>6, Bounds DEF connected, ClientTypeOK, SocketInv, Owned
  <2>3. ClientTypeOK' BY <1>6, <2>1, <2>2 DEF connected, ClientTypeOK
  <2>4. OnlyBodyDelivered' BY <1>6 DEF connected, OnlyBodyDelivered
  <2>5. ReadInv' BY <1>6 DEF connected, Accepted, ReadInv
  <2>6. SocketInv'
    <3>1. bound' BY <1>6, Zenon DEF connected
    <3>2. sockets' = 1 BY <1>6 DEF connected, SocketInv, Owned
    <3> QED BY <1>6, <3>1, <3>2 DEF connected, SocketInv, Owned
  <2>7. LateInv' BY <1>6 DEF connected, ClientTypeOK, LateInv
  <2> QED BY <2>3, <2>4, <2>5, <2>6, <2>7
<1>7. CASE inner
  <2>1. up' \in BOOLEAN /\ stop' \in BOOLEAN /\ bound' \in BOOLEAN
    BY <1>7, Zenon DEF inner, ClientTypeOK
  <2>2. /\ backoff' \in FirstBackoff .. MaxBackoff /\ sockets' \in Nat
      /\ fails' \in 0 .. MaxFails /\ late' \in 0 .. 2
    BY <1>7, Bounds DEF inner, ClientTypeOK, SocketInv, Owned
  <2>3. ClientTypeOK' BY <1>7, <2>1, <2>2 DEF inner, ClientTypeOK
  <2>4. OnlyBodyDelivered' BY <1>7 DEF inner, OnlyBodyDelivered
  <2>5. ReadInv' BY <1>7 DEF inner, Accepted, ReadInv
  <2>6. SocketInv'
    <3>1. stop => ~bound' BY <1>7, Zenon DEF inner
    <3>2. ~stop => bound' = bound BY <1>7, Zenon DEF inner
    <3> QED BY <1>7, <3>1, <3>2 DEF inner, SocketInv, Owned
  <2>7. LateInv' BY <1>7 DEF inner, ClientTypeOK, LateInv
  <2> QED BY <2>3, <2>4, <2>5, <2>6, <2>7
<1>8. CASE recv_fails
  BY <1>8 DEF recv_fails, ClientTypeOK, OnlyBodyDelivered, ReadInv, SocketInv, LateInv, Owned
<1>9. CASE on_data_returns
  BY <1>9 DEF on_data_returns, ClientTypeOK, OnlyBodyDelivered, ReadInv, SocketInv, LateInv, Owned
<1>10. CASE on_data_raises
  BY <1>10 DEF on_data_raises, ClientTypeOK, OnlyBodyDelivered, ReadInv, SocketInv, LateInv, Owned
<1>11. CASE failed
  <2>1. up' \in BOOLEAN /\ stop' \in BOOLEAN /\ bound' \in BOOLEAN
    BY <1>11, Zenon DEF failed, ClientTypeOK
  <2>2. /\ backoff' \in FirstBackoff .. MaxBackoff /\ sockets' \in Nat
      /\ fails' \in 0 .. MaxFails /\ late' \in 0 .. 2
    BY <1>11, Bounds DEF failed, ClientTypeOK, SocketInv, Owned
  <2>3. ClientTypeOK' BY <1>11, <2>1, <2>2 DEF failed, ClientTypeOK
  <2>4. OnlyBodyDelivered' BY <1>11 DEF failed, OnlyBodyDelivered
  <2>5. ReadInv' BY <1>11 DEF failed, Accepted, ReadInv
  <2>6. SocketInv' BY <1>11 DEF failed, ClientTypeOK, SocketInv, Owned
  <2>7. LateInv' BY <1>11 DEF failed, ClientTypeOK, LateInv
  <2> QED BY <2>3, <2>4, <2>5, <2>6, <2>7
<1>12. CASE wait_over
  <2>1. up' \in BOOLEAN /\ stop' \in BOOLEAN /\ bound' \in BOOLEAN
    BY <1>12, Zenon DEF wait_over, Doubled, ClientTypeOK
  <2>2. /\ backoff' \in FirstBackoff .. MaxBackoff /\ sockets' \in Nat
      /\ fails' \in 0 .. MaxFails /\ late' \in 0 .. 2
    BY <1>12, Bounds DEF wait_over, Doubled, ClientTypeOK, SocketInv, Owned
  <2>3. ClientTypeOK' BY <1>12, <2>1, <2>2 DEF wait_over, Doubled, ClientTypeOK
  <2>4. OnlyBodyDelivered' BY <1>12 DEF wait_over, Doubled, OnlyBodyDelivered
  <2>5. ReadInv' BY <1>12 DEF wait_over, Doubled, Accepted, ReadInv
  <2>6. SocketInv' BY <1>12 DEF wait_over, Doubled, ClientTypeOK, SocketInv, Owned
  <2>7. LateInv' BY <1>12 DEF wait_over, Doubled, ClientTypeOK, LateInv
  <2> QED BY <2>3, <2>4, <2>5, <2>6, <2>7
<1>13. CASE wait_stopped
  BY <1>13 DEF wait_stopped, ClientTypeOK, OnlyBodyDelivered, ReadInv, SocketInv, LateInv, Owned
<1>14. CASE set_stop
  <2>1. up' \in BOOLEAN /\ stop' \in BOOLEAN /\ bound' \in BOOLEAN
    BY <1>14, Zenon DEF set_stop, ClientTypeOK
  <2>2. /\ backoff' \in FirstBackoff .. MaxBackoff /\ sockets' \in Nat
      /\ fails' \in 0 .. MaxFails /\ late' \in 0 .. 2
    BY <1>14, Bounds DEF set_stop, ClientTypeOK, SocketInv, Owned
  <2>3. ClientTypeOK' BY <1>14, <2>1, <2>2 DEF set_stop, ClientTypeOK
  <2>4. OnlyBodyDelivered' BY <1>14 DEF set_stop, OnlyBodyDelivered
  <2>5. ReadInv' BY <1>14 DEF set_stop, Accepted, ReadInv
  <2>6. SocketInv' BY <1>14 DEF set_stop, ClientTypeOK, SocketInv, Owned
  <2>7. LateInv' BY <1>14 DEF set_stop, ClientTypeOK, LateInv
  <2> QED BY <2>3, <2>4, <2>5, <2>6, <2>7
<1>15. CASE outage
  <2>1. up' \in BOOLEAN /\ stop' \in BOOLEAN /\ bound' \in BOOLEAN
    BY <1>15, Zenon DEF outage, ClientTypeOK
  <2>2. /\ backoff' \in FirstBackoff .. MaxBackoff /\ sockets' \in Nat
      /\ fails' \in 0 .. MaxFails /\ late' \in 0 .. 2
    BY <1>15, Bounds DEF outage, ClientTypeOK, SocketInv, Owned
  <2>3. ClientTypeOK' BY <1>15, <2>1, <2>2 DEF outage, ClientTypeOK
  <2>4. OnlyBodyDelivered' BY <1>15 DEF outage, OnlyBodyDelivered
  <2>5. ReadInv' BY <1>15 DEF outage, Accepted, ReadInv
  <2>6. SocketInv' BY <1>15 DEF outage, ClientTypeOK, SocketInv, Owned
  <2>7. LateInv' BY <1>15 DEF outage, ClientTypeOK, LateInv
  <2> QED BY <2>3, <2>4, <2>5, <2>6, <2>7
<1>16. CASE UNCHANGED vars
  <2>1. ClientTypeOK' BY <1>16 DEF vars, ClientTypeOK
  <2>2. OnlyBodyDelivered' BY <1>16 DEF vars, OnlyBodyDelivered
  <2>3. ReadInv' BY <1>16 DEF vars, Accepted, ReadInv
  <2>4. SocketInv' BY <1>16 DEF vars, SocketInv, Owned
  <2>5. LateInv' BY <1>16 DEF vars, LateInv
  <2> QED BY <2>1, <2>2, <2>3, <2>4, <2>5
<1> QED
  BY <1>1, <1>2, <1>3, <1>4, <1>5, <1>6, <1>7, <1>8, <1>9, <1>10, <1>11, <1>12, <1>13, <1>14, <1>15, <1>16

LEMMA ConnectStep == ClientInd /\ connect => ClientInd'
<1> SUFFICES ASSUME ClientInd, connect PROVE ClientInd'
  OBVIOUS
<1> USE DEF ClientInd, At, connect
<1>1. line' \in Answers BY ClientAssumption
<1>2. ClientTypeOK'
  <2>1. line' \in Seq(StatusLine \cup Line) BY <1>1, ClientAssumption
  <2>2. up' \in BOOLEAN /\ stop' \in BOOLEAN /\ bound' \in BOOLEAN BY Zenon DEF ClientTypeOK
  <2> QED BY <2>1, <2>2, Bounds DEF ClientTypeOK
<1>3. OnlyBodyDelivered' BY DEF OnlyBodyDelivered
<1>4. ReadInv' BY <1>1 DEF ReadInv
<1>5. SocketInv' /\ LateInv' BY DEF SocketInv, LateInv, Owned
<1> QED BY <1>2, <1>3, <1>4, <1>5

LEMMA StatusStep == ClientInd /\ read_status => ClientInd'
<1> SUFFICES ASSUME ClientInd, read_status PROVE ClientInd'
  OBVIOUS
<1> USE DEF ClientInd, At, read_status
<1>2. line \in Seq(StatusLine \cup Line) /\ line # <<>> BY DEF ClientTypeOK
<1>3. Head(line) = line[1] /\ Tail(line) \in Seq(StatusLine \cup Line)
  BY <1>2, Rest
<1>4. CASE Head(line) = "part"
  <2>1. line = <<"part">>
    <3>1. "part" \notin StatusLine BY DEF StatusLine
    <3>2. line \in Answers => Head(line) \in StatusLine BY <1>2, <1>3, ClientAssumption
    <3> QED BY <1>4, <1>2, <3>1, <3>2 DEF ReadInv
  <2>2. line' = <<>> BY <2>1
  <2>3. ClientTypeOK' BY <1>3, <1>4 DEF ClientTypeOK
  <2>4. OnlyBodyDelivered' BY DEF OnlyBodyDelivered
  <2>5. ReadInv' BY <2>2, <1>4 DEF ReadInv
  <2>6. SocketInv' /\ LateInv' BY <1>4 DEF SocketInv, LateInv, Owned
  <2> QED BY <2>3, <2>4, <2>5, <2>6
<1>5. CASE Head(line) # "part"
  <2>1. line \in Answers
    <3>1. line = <<"part">> => Head(line) = "part" OBVIOUS
    <3> QED BY <3>1, <1>2, <1>5 DEF ReadInv
  <2>2. Head(line) \in StatusLine BY <2>1, <1>2, <1>3, ClientAssumption
  <2>3. Head(line) # "ICY 200" => HeaderThenBody(Tail(line))
    BY <2>1, <1>2, <1>3, Rest, ClientAssumption
  <2>4. ClientTypeOK' BY <1>3, <1>5, <2>2 DEF ClientTypeOK
  <2>5. OnlyBodyDelivered' BY <1>5 DEF OnlyBodyDelivered
  <2>6. ReadInv' BY <1>5, <2>3 DEF ReadInv
  <2>7. SocketInv' /\ LateInv' BY <1>5 DEF SocketInv, LateInv, Owned
  <2> QED BY <2>4, <2>5, <2>6, <2>7
<1> QED BY <1>4, <1>5

\* More of a header that is not over.
LEMMA GoesOnStep == ClientInd /\ header_goes_on => ClientInd'
<1> SUFFICES ASSUME ClientInd, header_goes_on PROVE ClientInd'
  OBVIOUS
<1> USE DEF ClientInd, header_goes_on
<1>1. line' \in Seq(StatusLine \cup Line) /\ Len(line') = 1 BY DEF Line
<1>2. HeaderThenBody(line') BY <1>1 DEF HeaderThenBody
<1>3. ClientTypeOK'
  <2>1. up' \in BOOLEAN /\ stop' \in BOOLEAN /\ bound' \in BOOLEAN BY Zenon DEF ClientTypeOK
  <2> QED BY <1>1, <2>1 DEF ClientTypeOK
<1>4. OnlyBodyDelivered' BY DEF OnlyBodyDelivered
<1>5. ReadInv' BY <1>2 DEF ReadInv
<1>6. SocketInv' /\ LateInv' BY DEF SocketInv, LateInv, Owned, ClientTypeOK
<1> QED BY <1>3, <1>4, <1>5, <1>6

LEMMA HeaderStep == ClientInd /\ read_header => ClientInd'
<1> SUFFICES ASSUME ClientInd, read_header PROVE ClientInd'
  OBVIOUS
<1> USE DEF ClientInd, At, read_header
<1>1. line \in Seq(StatusLine \cup Line) /\ line # <<>> BY DEF ClientTypeOK
<1>2. /\ Head(line) = line[1] /\ Tail(line) \in Seq(StatusLine \cup Line)
      /\ Len(Tail(line)) = Len(line) - 1 /\ Len(line) \in Nat
      /\ \A i \in 1 .. Len(line) - 1 : Tail(line)[i] = line[i + 1]
      /\ HeaderThenBody(line) => HeaderThenBody(Tail(line))
  BY <1>1, Rest
<1>3. status = "HTTP/1 200" /\ HeaderThenBody(line) BY DEF ReadInv
<1>4. Head(line) = "blank" => \A i \in 1 .. Len(Tail(line)) : Tail(line)[i] = "body"
  <2> SUFFICES ASSUME Head(line) = "blank", NEW i \in 1 .. Len(Tail(line))
               PROVE  Tail(line)[i] = "body"
    OBVIOUS
  <2>1. 1 \in 1 .. Len(line) /\ i + 1 \in 1 .. Len(line) /\ 1 < i + 1 BY <1>2
  <2>2. line[i + 1] = "body" BY <1>2, <1>3, <2>1 DEF HeaderThenBody
  <2> QED BY <1>2, <2>2
<1>5. ClientTypeOK' BY <1>2 DEF ClientTypeOK
<1>6. OnlyBodyDelivered' BY DEF OnlyBodyDelivered
<1>7. ReadInv'
  <2>1. CASE Head(line) = "blank" BY <1>3, <1>4, <2>1 DEF ReadInv, Accepted
  <2>2. CASE Head(line) # "blank" BY <1>2, <1>3, <2>2 DEF ReadInv
  <2> QED BY <2>1, <2>2
<1>8. SocketInv' /\ LateInv' BY DEF SocketInv, LateInv, Owned
<1> QED BY <1>5, <1>6, <1>7, <1>8

LEMMA RecvStep == ClientInd /\ recv => ClientInd'
<1> SUFFICES ASSUME ClientInd, recv PROVE ClientInd'
  OBVIOUS
<1> USE DEF ClientInd, At, recv
<1> DEFINE chunk == IF line = <<>> THEN "body" ELSE Head(line)
<1>1. line \in Seq(StatusLine \cup Line) BY DEF ClientTypeOK
<1>2. line # <<>> => /\ Head(line) = line[1] /\ Head(line) \in StatusLine \cup Line
                     /\ Tail(line) \in Seq(StatusLine \cup Line)
                     /\ Len(line) \in Nat \ {0} /\ Len(Tail(line)) = Len(line) - 1
                     /\ \A i \in 1 .. Len(line) - 1 : Tail(line)[i] = line[i + 1]
  BY <1>1, Rest
<1>3. \/ status = "ICY 200"
      \/ status = "HTTP/1 200" /\ \A i \in 1 .. Len(line) : line[i] = "body"
  BY DEF ReadInv
<1>4. status = "ICY 200" \/ (status = "HTTP/1 200" /\ chunk = "body")
  <2>1. CASE line = <<>> BY <1>3, <2>1
  <2>2. CASE line # <<>>
    <3>1. 1 \in 1 .. Len(line) BY <1>2, <2>2
    <3> QED BY <1>2, <1>3, <2>2, <3>1
  <2> QED BY <2>1, <2>2
<1>5. given' = given \cup {<<status, chunk>>} OBVIOUS
<1>6. line' \in Seq(StatusLine \cup Line) /\ chunk \in StatusLine \cup Line
  BY <1>1, <1>2 DEF Line
<1>7. ClientTypeOK'
  <2>1. given' \subseteq StatusLine \X (StatusLine \cup Line)
    <3>1. status \in StatusLine BY <1>4 DEF StatusLine
    <3>2. <<status, chunk>> \in StatusLine \X (StatusLine \cup Line) BY <1>6, <3>1
    <3>3. given \subseteq StatusLine \X (StatusLine \cup Line) BY DEF ClientTypeOK
    <3> HIDE DEF chunk, ClientInd, recv
    <3> QED BY <1>5, <3>2, <3>3, Zenon
  <2>2. late' \in 0 .. 2 BY DEF ClientTypeOK
  <2> QED BY <1>6, <2>1, <2>2 DEF ClientTypeOK
<1>8. OnlyBodyDelivered'
  <2> SUFFICES ASSUME NEW g \in given' PROVE g[1] = "ICY 200" \/ (g[1] = "HTTP/1 200" /\ g[2] = "body")
    BY DEF OnlyBodyDelivered
  <2>1. CASE g \in given BY <2>1 DEF OnlyBodyDelivered
  <2>2. CASE g = <<status, chunk>>
    <3>1. g[1] = status /\ g[2] = chunk BY <2>2
    <3> HIDE DEF chunk, ClientInd, recv
    <3> QED BY <1>4, <3>1
  <2> QED BY <1>5, <2>1, <2>2
<1>9. ReadInv'
  <2>1. CASE line = <<>> BY <1>3, <2>1 DEF ReadInv
  <2>2. CASE line # <<>>
    <3>1. \A i \in 1 .. Len(Tail(line)) : i + 1 \in 1 .. Len(line) /\ Tail(line)[i] = line[i + 1]
      BY <1>2, <2>2
    <3> QED BY <1>3, <2>2, <3>1 DEF ReadInv
  <2> QED BY <2>1, <2>2
<1>10. SocketInv' BY DEF SocketInv, Owned
<1>11. LateInv' BY DEF LateInv, ClientTypeOK
<1> QED BY <1>7, <1>8, <1>9, <1>10, <1>11

\* The inductive invariant of the client.
THEOREM ClientInvariant == ClientSpec => []ClientInd
<1>1. ClientInd /\ [ClientNext]_vars => ClientInd'
  BY ControlStep, ConnectStep, StatusStep, HeaderStep, RecvStep, GoesOnStep DEF ClientNext, Client
<1> QED BY <1>1, ClientInitInd, PTL DEF ClientSpec, ClientSafety

\* Types: the backoff never leaves FirstBackoff .. MaxBackoff.
THEOREM ClientTyping == ClientSpec => []ClientTypeOK
<1>1. ClientInd => ClientTypeOK BY DEF ClientInd
<1> QED BY <1>1, ClientInvariant, PTL

\* Nothing of a refused answer, and of an HTTP answer only the body, is handed
\* to on_data, for every answer a caster may give.
THEOREM BodyOnly == ClientSpec => []OnlyBodyDelivered
<1>1. ClientInd => OnlyBodyDelivered BY DEF ClientInd
<1> QED BY <1>1, ClientInvariant, PTL

\* on_data is called at most once after the stop event was set.
THEOREM StopsCalling == ClientSpec => []AtMostOneCallAfterStop
<1>1. ClientInd => AtMostOneCallAfterStop BY DEF ClientInd, LateInv, AtMostOneCallAfterStop
<1> QED BY <1>1, ClientInvariant, PTL

\* At most two sockets are open, one while streaming, none at the end.
THEOREM FewSockets == ClientSpec => []SocketsDoNotPileUp
<1>1. ClientInd => SocketsDoNotPileUp
  BY DEF ClientInd, SocketInv, SocketsDoNotPileUp, Owned, ClientTypeOK
<1> QED BY <1>1, ClientInvariant, PTL
-----------------------------------------------------------------------------
\* The wait after n failures in a row.
WaitAfter(n) == IF FirstBackoff * 2^n < MaxBackoff THEN FirstBackoff * 2^n ELSE MaxBackoff

\* What backoff holds: outside the wait, the time to wait if this attempt fails.
BackoffInv ==
  fails < MaxFails =>
    /\ pc = "wait" => fails >= 1 /\ backoff = WaitAfter(fails - 1)
    /\ pc \notin {"wait", "done"} => backoff = WaitAfter(fails)

LEMMA FirstWait == WaitAfter(0) = FirstBackoff
BY PowerOfZero, Bounds DEF WaitAfter

LEMMA NextWait ==
  ASSUME NEW n \in Nat, backoff = WaitAfter(n)
  PROVE  Doubled = WaitAfter(n + 1)
<1>1. PICK p \in Nat : p = 2^n /\ 2^(n + 1) = 2 * p BY PowerOfTwo
<1>2. PICK a \in Nat, m \in Nat : a = FirstBackoff /\ m = MaxBackoff /\ a >= 1 /\ a <= m BY Bounds
<1>3. PICK q \in Nat : q = a * p /\ a * (2 * p) = 2 * q
  <2>1. a * p \in Nat /\ a * (2 * p) = 2 * (a * p) OBVIOUS
  <2> QED BY <2>1
<1>4. WaitAfter(n) = IF q < m THEN q ELSE m BY <1>1, <1>2, <1>3 DEF WaitAfter
<1>5. WaitAfter(n + 1) = IF 2 * q < m THEN 2 * q ELSE m BY <1>1, <1>2, <1>3 DEF WaitAfter
<1>6. Doubled = IF 2 * backoff < m THEN 2 * backoff ELSE m BY <1>2 DEF Doubled
<1>7. CASE q < m BY <1>4, <1>5, <1>6, <1>7
<1>8. CASE q >= m
  <2>1. backoff = m /\ ~(2 * q < m) /\ ~(2 * m < m) BY <1>2, <1>4, <1>8
  <2> QED BY <1>5, <1>6, <2>1
<1> QED BY <1>7, <1>8

LEMMA BackoffStep == ClientInd /\ BackoffInv /\ [ClientNext]_vars => BackoffInv'
<1> SUFFICES ASSUME ClientInd, BackoffInv, [ClientNext]_vars, fails' < MaxFails
             PROVE  /\ pc' = "wait" => fails' >= 1 /\ backoff' = WaitAfter(fails' - 1)
                    /\ pc' \notin {"wait", "done"} => backoff' = WaitAfter(fails')
  BY DEF BackoffInv, WaitAfter
<1>0. fails \in Nat /\ fails <= MaxFails /\ MaxFails \in Nat BY Bounds DEF ClientInd, ClientTypeOK
<1>1. CASE \/ check \/ connect \/ connect_fails \/ read_status \/ refuse \/ accept_status
           \/ read_header \/ header_ends_early \/ inner \/ recv \/ recv_fails
           \/ on_data_returns \/ on_data_raises
  <2>1. UNCHANGED <<backoff, fails>> /\ pc \notin {"wait", "done"} /\ pc' # "wait"
    BY <1>1 DEF At, check, connect, connect_fails, read_status, refuse, accept_status, read_header,
                header_ends_early, inner, recv, recv_fails, on_data_returns, on_data_raises
  <2> QED BY <2>1 DEF BackoffInv
<1>2. CASE connected
  <2>1. backoff' = FirstBackoff /\ fails' = 0 /\ pc' = "inner" BY <1>2 DEF connected, At
  <2> QED BY <2>1, FirstWait
<1>3. CASE failed
  <2>1. pc = "failed" /\ pc' = "wait" /\ backoff' = backoff BY <1>3 DEF failed, At
  <2>2. fails < MaxFails /\ fails' = fails + 1 BY <1>0, <1>3 DEF failed
  <2>3. fails' - 1 = fails /\ fails' >= 1 BY <1>0, <2>2
  <2> QED BY <2>1, <2>2, <2>3 DEF BackoffInv
<1>4. CASE wait_over
  <2>1. pc = "wait" /\ pc' = "check" /\ fails' = fails /\ backoff' = Doubled BY <1>4 DEF wait_over, At
  <2>2. fails >= 1 /\ backoff = WaitAfter(fails - 1) BY <2>1 DEF BackoffInv
  <2>3. fails - 1 \in Nat /\ (fails - 1) + 1 = fails BY <1>0, <2>2
  <2>4. Doubled = WaitAfter(fails) BY <2>2, <2>3, NextWait
  <2> QED BY <2>1, <2>4
<1>5. CASE wait_stopped BY <1>5 DEF wait_stopped, At
<1>6. CASE set_stop \/ outage \/ header_goes_on \/ UNCHANGED vars
  <2>1. UNCHANGED <<pc, backoff, fails>> BY <1>6 DEF set_stop, outage, header_goes_on, vars
  <2> QED BY <2>1 DEF BackoffInv
<1> QED BY <1>1, <1>2, <1>3, <1>4, <1>5, <1>6 DEF ClientNext, Client

\* The wait before an attempt is FirstBackoff doubled once for every failure but
\* the first since a header was read in full, and never more than MaxBackoff.
THEOREM BackoffDoubles == ClientSpec => []WaitMatchesFailures
<1>1. ClientInit => BackoffInv BY FirstWait DEF ClientInit, BackoffInv
<1>2. ClientInd /\ BackoffInv /\ [ClientNext]_vars => BackoffInv' BY BackoffStep
<1>3. BackoffInv => WaitMatchesFailures BY DEF BackoffInv, WaitMatchesFailures, WaitAfter
<1> QED BY <1>1, <1>2, <1>3, ClientInvariant, PTL DEF ClientSpec, ClientSafety
=============================================================================
