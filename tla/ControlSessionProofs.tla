------------------------ MODULE ControlSessionProofs ------------------------
(***************************************************************************)
(* What counts a control connection as shut down, for peers of every kind: *)
(* the types, that a counted peer was asked and answered, that it is not   *)
(* counted twice unless the two threads shared a write buffer, and that a  *)
(* shutdown that finds the connection at rest is clean.                    *)
(*                                                                         *)
(* The invariant follows the messages.  A connection carries two exchanges,*)
(* PING and PONG, and the request and its acknowledgement; no step makes an*)
(* exchange longer, so what is queued, in a buffer, on a stream or counted *)
(* can be bounded by what is left of them.                                 *)
(***************************************************************************)
EXTENDS ControlSession, Integers, FiniteSetTheorems, TLAPS

ThePing == Ping(kind)
ThePong == session_status_response(TypeOf(kind), Id, 0)
TheAck == Ack(session_shutdown_request(0, 0, 0))

Serving == pc["sim"] = "serving"
Requests == {session_shutdown_request(st, n, 0) : st \in Infos, n \in NodeIds}

\* What the session may have to send: its PONG and, from begin_shutdown() on, the request.
Sendable == IF Serving THEN {ThePong} ELSE {ThePong, msg["sim"]}

Writes(t) == pc[t] \in {"test", "push", "buffer", "send"}

\* What each thread and each queue holds is one of these messages.
MessagesInv ==
  /\ msg["sim"] \in IF Serving THEN {None} ELSE Requests
  /\ pc["io"] \in WritePcs => msg["io"] \in Sendable
  /\ (\E t \in Threads : pc[t] = "send") => buffer \in Sendable
  /\ \A i \in DOMAIN wqueue : wqueue[i] \in Sendable
  /\ \A i \in DOMAIN toPeer : toPeer[i] \in Sendable
  /\ \A i \in DOMAIN toSession : toSession[i] = TheAck \/ (i = 1 /\ toSession[i] = ThePing)
  /\ \A i \in DOMAIN pqueue : pqueue[i] = TheAck

\* The PONG and the request that are not sent yet, and those that nobody has begun to write
Writing == [t \in Threads |-> IF Writes(t) THEN 1 ELSE 0]
Unsent == Len(wqueue) + Writing["io"] + Writing["sim"]
Unconnected == IF pstate = "connecting" THEN 1 ELSE 0
Unasked == IF Serving THEN 1 ELSE 0
Unanswered == IF toSession # <<>> /\ toSession[1] = ThePing THEN 1 ELSE 0

\* The receives that were started, and the one whose handler runs
Listening == IF sstate # "none" /\ pc["io"] \notin {"start", "listen"} THEN 1 ELSE 0
Asking == IF pc["sim"] \in {"drain", "down"} THEN 1 ELSE 0
Reading ==
  IF pc["io"] \in {"active", "rearm"} \/ (pc["io"] \in WritePcs /\ after # "idle") THEN 1 ELSE 0

\* Two exchanges, each at one place: on its way to the peer, or not begun, coming back or counted
Outward == Unsent + Len(toPeer)
Backward == Unconnected + Unasked + Len(pqueue) + Len(toSession) + alerts
ExchangesInv == Outward + Backward <= 2

\* One send for each of them
Sending == sends + Unsent
ToBegin == Unconnected + Unasked + Unanswered
SendsInv == Sending + ToBegin <= 2

\* One receive from the start and one from begin_shutdown()
ReceivesInv == receives + Reading <= Listening + Asking
StartInv ==
  /\ pstate = "connecting" => ~pwriting /\ pqueue = <<>> /\ toSession = <<>>
  /\ sstate = "none" => Serving /\ pc["io"] = "idle" /\ sends = 0
CountsInv == ExchangesInv /\ SendsInv /\ ReceivesInv /\ StartInv

Acked == alerts > 0 \/ pqueue # <<>> \/ \E i \in DOMAIN toSession : toSession[i] = TheAck
AskedInv == Acked => ~Serving /\ pstate = "asked" /\ (NamesPeer \/ "swallowed" \in mishaps)

\* How many messages of a stream or a queue have this id: none is longer than two.
Has(m, id) == IF m.header.id = id THEN 1 ELSE 0
NumberOf(s, id) ==
  (IF Len(s) >= 1 THEN Has(s[1], id) ELSE 0) + (IF Len(s) >= 2 THEN Has(s[2], id) ELSE 0)

\* The requests that are not sent yet, those on their way, and the answers
IoAsks == IF Writes("io") THEN Has(msg["io"], "NODE_SHUTDOWN_REQUEST") ELSE 0
Pending == Unasked + Writing["sim"] + IoAsks
Queued == NumberOf(wqueue, "NODE_SHUTDOWN_REQUEST")
OnTheWay == NumberOf(toPeer, "NODE_SHUTDOWN_REQUEST")
Answers == Len(pqueue) + NumberOf(toSession, "ACK") + alerts
RequestsDue == Pending + Queued + OnTheWay + Answers

\* While no thread takes the buffer of the other one, there is one request or one answer.
Once ==
  /\ RequestsDue <= 1
  /\ \A t \in Threads : pc[t] = "send" => buffer = msg[t]
OnceInv == "clobbered" \notin mishaps => Once

\* Until begin_shutdown() there is only the handshake, one step after the other: a PING that
\* waits for the session, a PONG that is being written, and the peer that has read it.
Untroubled == mishaps = {} /\ alerts = 0 /\ wqueue = <<>> /\ pqueue = <<>> /\ ~quiet /\ open
NothingSent == sends = 0 /\ ~writing /\ toPeer = <<>>
Answered ==
  \/ toPeer = <<ThePong>>
  \/ pstate \in {"connected", "replaced"} /\ toPeer = <<>> /\ toSession = <<>> /\ pinfo = TypeOf(kind)

Handshake ==
  /\ Untroubled
  /\ pstate # "asked" /\ pc["io"] # "push"
  /\ \A i \in DOMAIN toSession : toSession[i] = ThePing
  /\ toSession # <<>> \/ pstate = "connecting" =>
       NothingSent /\ pc["io"] \notin WritePcs \cup {"active", "rearm"}
  /\ pc["io"] \in {"test", "buffer", "send"} => NothingSent
  /\ pc["io"] \in WritePcs => after = "active" /\ sstate # "ACTIVE"
  /\ pc["io"] \in WritePcs \cup {"active"} \/ sstate = "ACTIVE" => info = TypeOf(kind)
  /\ pc["io"] \in {"mark", "active"} \/ sstate = "ACTIVE" => Answered
  /\ sstate = "ACTIVE" => pc["io"] \notin {"start", "listen"}
HandshakeInv == Serving => Handshake

\* A shutdown that began at rest: the request is on its way, then its answer, then it is
\* counted or ignored.
Quiet ==
  /\ ~Serving /\ pc["sim"] # "push" /\ NamesPeer
  /\ pc["io"] \notin WritePcs \cup {"start", "listen", "active"} /\ sstate # "none"
  /\ info = TypeOf(kind) /\ pinfo = info
  /\ wqueue = <<>> /\ pqueue = <<>> /\ pstate \in {"connected", "asked"}
  /\ pc["sim"] \in {"test", "buffer"} => ~writing
  /\ pc["sim"] = "send" => buffer = msg["sim"]
QuietPhase ==
  \/ /\ Writes("sim") /\ ~pwriting
     /\ toPeer = <<>> /\ toSession = <<>> /\ alerts = 0 /\ mishaps = {}
  \/ /\ ~Writes("sim") /\ ~pwriting
     /\ toPeer = <<msg["sim"]>> /\ toSession = <<>> /\ alerts = 0 /\ mishaps = {}
  \/ /\ ~Writes("sim")
     /\ toPeer = <<>> /\ toSession = <<TheAck>> /\ alerts = 0 /\ mishaps = {}
  \/ /\ ~Writes("sim")
     /\ toPeer = <<>> /\ toSession = <<>>
     /\ (alerts = 1 /\ mishaps = {}) \/ (alerts = 0 /\ mishaps = {"ignored"})
QuietInv == quiet => Quiet /\ QuietPhase

OpenInv == open \/ pc["sim"] = "down"

BasicInv == TypeOK /\ MessagesInv /\ CountsInv

-----------------------------------------------------------------------------
(* What the messages say *)

\* The types of a layer and of a node read as they were combined.
LEMMA Types ==
  ASSUME NEW k \in Kinds
  PROVE  /\ type_of(TypeOf(k)) = CONTROL_CONNECTION
         /\ node_type_of(TypeOf(k)) = IF k = "layer" THEN LAYER_CONNECTION ELSE NODE_CONNECTION
         /\ TypeOf(k) \in SessionTypes
<1>1. TypeOf(k) = IF k = "layer" THEN 768 ELSE 512
  BY DEF TypeOf, combined_type, CONTROL_CONNECTION, NODE_CONNECTION, LAYER_CONNECTION
<1>2. 768 % 256 = 0 /\ 512 % 256 = 0 /\ (768 \div 256) % 256 = 3 /\ (512 \div 256) % 256 = 2
  BY SMT
<1> QED BY <1>1, <1>2 DEF type_of, node_type_of, CONTROL_CONNECTION, NODE_CONNECTION,
          LAYER_CONNECTION, SessionTypes

\* What the handlers read in each message
LEMMA Headers ==
  /\ \A k : Ping(k).header = [category |-> "CONTROL", id |-> "PING"]
  /\ \A st, n : session_status_response(st, n, 0).header = [category |-> "CONTROL", id |-> "PONG"]
  /\ \A st, n : session_shutdown_request(st, n, 0).header
                 = [category |-> "CONTROL", id |-> "NODE_SHUTDOWN_REQUEST"]
  /\ TheAck.header = [category |-> "ACKNOWLEDGEMENT", id |-> "ACK"]
BY DEF Ping, session_status_request, session_status_response, session_shutdown_request, TheAck, Ack,
   acknowledgement, message

LEMMA Bodies ==
  /\ \A k : /\ parse_status_request(Ping(k).body).session_type = TypeOf(k)
            /\ parse_status_request(Ping(k).body).node_id = Id
  /\ parse_status_request(TheAck.body).session_type = 0
  /\ \A st, n : /\ parse_status_response(session_status_response(st, n, 0).body).session_type = st
                 /\ parse_status_response(session_status_response(st, n, 0).body).node_id = n
  /\ \A st, n : /\ parse_status_response(session_shutdown_request(st, n, 0).body).session_type = st
                 /\ parse_shutdown_request(session_shutdown_request(st, n, 0).body).session_type = st
<1>1. \A k : /\ parse_status_request(Ping(k).body).session_type = TypeOf(k)
            /\ parse_status_request(Ping(k).body).node_id = Id
  BY DEF Ping, session_status_request, message, parse_status_request, Parsed
<1>2. parse_status_request(TheAck.body).session_type = 0
  BY DEF TheAck, Ack, acknowledgement, message, parse_status_request, Parsed
<1>3. \A st, n : /\ parse_status_response(session_status_response(st, n, 0).body).session_type = st
                 /\ parse_status_response(session_status_response(st, n, 0).body).node_id = n
  BY DEF session_status_response, message, parse_status_response, Parsed
<1>4. \A st, n : /\ parse_status_response(session_shutdown_request(st, n, 0).body).session_type = st
                 /\ parse_shutdown_request(session_shutdown_request(st, n, 0).body).session_type = st
  BY DEF session_shutdown_request, message, parse_status_response, parse_shutdown_request, Parsed
<1> QED BY <1>1, <1>2, <1>3, <1>4

\* A receive that returns k messages takes them out of the stream, and is the first one with
\* the body of the last.
LEMMA Taken ==
  ASSUME NEW S, NEW s \in Seq(S), NEW k \in 1..Len(s)
  PROVE  /\ Drop(s, k) \in Seq(S) /\ Len(Drop(s, k)) = Len(s) - k
         /\ \A i \in 1..(Len(s) - k) : Drop(s, k)[i] = s[k + i]
         /\ Received(SubSeq(s, 1, k)) = [header |-> s[1].header, body |-> s[k].body]
<1>1. /\ Drop(s, k) \in Seq(S) /\ Len(Drop(s, k)) = Len(s) - k
      /\ \A i \in 1..(Len(s) - k) : Drop(s, k)[i] = s[k + i]
  BY DEF Drop
<1>2. SubSeq(s, 1, k) \in Seq(S) /\ Len(SubSeq(s, 1, k)) = k
  OBVIOUS
<1>3. SubSeq(s, 1, k)[1] = s[1] /\ SubSeq(s, 1, k)[k] = s[k]
  OBVIOUS
<1>4. Head(SubSeq(s, 1, k)) = s[1]
  BY <1>2, <1>3
<1> QED BY <1>1, <1>2, <1>3, <1>4 DEF Received

\* Their types, and that they are told apart by their headers
LEMMA Known ==
  ASSUME TypeOK, MessagesInv
  PROVE  /\ ThePing \in MessageSet /\ ThePong \in MessageSet /\ TheAck \in MessageSet
         /\ ThePing # TheAck
         /\ Requests \subseteq MessageSet
         /\ Sendable \subseteq MessageSet
         /\ \A m \in Sendable : m = ThePong \/ (m = msg["sim"] /\ m \in Requests /\ ~Serving)
         /\ ~Serving => msg["sim"] \in Requests /\ msg["sim"] \in Sendable
         /\ ThePong \in Sendable
<1>1. ThePing \in MessageSet
  BY DEF TypeOK, ThePing, MessageSet
<1>2. TypeOf(kind) \in SessionTypes
  BY Types DEF TypeOK
<1>3. ThePong \in MessageSet
  BY <1>2 DEF ThePong, MessageSet
<1>4. TheAck \in MessageSet
  BY DEF TheAck, MessageSet
<1>5. Requests \subseteq MessageSet
  BY DEF Requests, MessageSet
<1>6. ThePing # TheAck
  BY Headers DEF ThePing
<1>7. \A m \in Sendable : m = ThePong \/ (m = msg["sim"] /\ m \in Requests /\ ~Serving)
  BY DEF Sendable, MessagesInv
<1>8. ~Serving => msg["sim"] \in Requests /\ msg["sim"] \in Sendable
  BY DEF Sendable, MessagesInv
<1> QED BY <1>1, <1>3, <1>4, <1>5, <1>6, <1>7, <1>8 DEF Sendable

\* handle_read(): a PING is answered with the PONG or with nothing, an ACK is counted or ignored.
LEMMA SessionReadCases ==
  ASSUME TypeOK, MessagesInv, SessionReads
  PROVE  \E k \in 1..Len(toSession) :
           /\ toSession' = Drop(toSession, k)
           /\ \/ /\ toSession[1] = ThePing /\ SessionTakes(sstate, ThePing)
                 /\ IoGoes("test") /\ after' = "active"
                 /\ info' = TypeOf(kind) /\ node_id' = Id /\ msg' = [msg EXCEPT !["io"] = ThePong]
                 /\ alerts' = alerts /\ mishaps' = mishaps \cup Swallowed(k)
              \/ /\ toSession[1] = ThePing
                 /\ IoGoes("rearm") /\ UNCHANGED <<infoVars, msg, after, alerts>>
                 /\ mishaps' = mishaps \cup Swallowed(k)
              \/ /\ toSession[1] = TheAck
                 /\ IoGoes("rearm") /\ UNCHANGED <<infoVars, msg, after>>
                 /\ \/ alerts' = alerts + 1 /\ mishaps' = mishaps \cup Swallowed(k)
                    \/ alerts' = alerts /\ mishaps' = mishaps \cup Swallowed(k) \cup {"ignored"}
<1>1. PICK k \in 1..Len(toSession) :
        /\ SessionReadsPing(SessionReceived(k), k) \/ SessionReadsAck(SessionReceived(k), k)
        /\ toSession' = Drop(toSession, k)
  BY DEF SessionReads
<1>2. toSession \in Seq(MessageSet)
  BY DEF TypeOK
<1> DEFINE m == SessionReceived(k)
<1>3. m = [header |-> toSession[1].header, body |-> toSession[k].body]
  BY <1>2, Taken DEF SessionReceived
<1>4. /\ toSession[1] \in {ThePing, TheAck} /\ toSession[k] \in {ThePing, TheAck}
  BY <1>2 DEF MessagesInv
<1>5. m.header = toSession[1].header /\ m.body = toSession[k].body
  BY <1>3
<1> HIDE DEF m
<1>6. CASE SessionReadsPing(m, k)
  <2>1. toSession[1] = ThePing
    BY <1>4, <1>5, <1>6, Headers DEF SessionReadsPing, ThePing
  <2>2. SessionTakes(sstate, m) <=> SessionTakes(sstate, ThePing)
    BY <1>5, <2>1 DEF SessionTakes
  <2>3. CASE /\ SessionTakes(sstate, m)
             /\ node_type_of(parse_status_request(m.body).session_type)
                  \in {NODE_CONNECTION, LAYER_CONNECTION}
    <3>1. node_type_of(0) = 0
      BY DEF node_type_of
    <3>2. toSession[k] = ThePing
      BY <1>4, <1>5, <2>3, <3>1, Bodies DEF NODE_CONNECTION, LAYER_CONNECTION
    <3>3. /\ parse_status_request(m.body).session_type = TypeOf(kind)
          /\ parse_status_request(m.body).node_id = Id
      BY <1>5, <3>2, Bodies DEF ThePing
    <3>4. Pong(parse_status_request(m.body)) = ThePong
      BY <3>3 DEF Pong, ThePong
    <3> QED BY <1>1, <1>6, <2>1, <2>2, <2>3, <3>3, <3>4 DEF SessionReadsPing
  <2>4. CASE ~(/\ SessionTakes(sstate, m)
               /\ node_type_of(parse_status_request(m.body).session_type)
                    \in {NODE_CONNECTION, LAYER_CONNECTION})
    BY <1>1, <1>6, <2>1, <2>4 DEF SessionReadsPing
  <2> QED BY <2>3, <2>4
<1>7. CASE SessionReadsAck(m, k)
  <2>1. toSession[1] = TheAck
    BY <1>4, <1>5, <1>7, Headers DEF SessionReadsAck, ThePing
  <2> QED BY <1>1, <1>7, <2>1 DEF SessionReadsAck
<1> QED BY <1>1, <1>6, <1>7 DEF m

\* finish_control_read(): the peer learns its type, acknowledges the request, or drops it.
LEMMA PeerReadCases ==
  ASSUME TypeOK, MessagesInv, PeerReads
  PROVE  \E k \in 1..Len(toPeer) :
           /\ toPeer' = Drop(toPeer, k) /\ mishaps' = mishaps \cup Swallowed(k)
           /\ \/ /\ toPeer[1] = ThePong /\ pinfo' \in Infos
                 /\ k = 1 => pinfo' = TypeOf(kind)
                 /\ UNCHANGED <<pstate, pwriting, pqueue, toSession>>
              \/ /\ toPeer[1] \in Requests /\ toPeer[1] = msg["sim"] /\ ~Serving
                 /\ NamesPeer \/ k > 1
                 /\ pstate' = "asked" /\ PeerWrite(TheAck) /\ pinfo' = pinfo
              \/ UNCHANGED <<pstate, pinfo, pwriting, pqueue, toSession>>
                 /\ (k = 1 => toPeer[1] # ThePong /\ ~NamesPeer)
<1>1. PICK k \in 1..Len(toPeer) :
        /\ PeerAnswers(PeerReceived(k))
        /\ toPeer' = Drop(toPeer, k) /\ mishaps' = mishaps \cup Swallowed(k)
  BY DEF PeerReads
<1>2. toPeer \in Seq(MessageSet)
  BY DEF TypeOK
<1> DEFINE m == PeerReceived(k)
<1>3. m = [header |-> toPeer[1].header, body |-> toPeer[k].body]
  BY <1>2, Taken DEF PeerReceived
<1>4. toPeer[1] \in Sendable /\ toPeer[k] \in Sendable
  BY <1>2 DEF MessagesInv
<1>5. m.header = toPeer[1].header /\ m.body = toPeer[k].body
  BY <1>3
<1> HIDE DEF m
<1>6. \A r \in Requests : r.header = [category |-> "CONTROL", id |-> "NODE_SHUTDOWN_REQUEST"]
  BY Headers DEF Requests
<1>7. ThePong.header = [category |-> "CONTROL", id |-> "PONG"]
  BY Headers DEF ThePong
<1>8. /\ parse_status_response(ThePong.body).session_type = TypeOf(kind)
      /\ parse_status_response(ThePong.body).node_id = Id
  BY Bodies DEF ThePong
<1>9. TypeOf(kind) \in Infos
  BY Types DEF TypeOK, Infos
<1>10. CASE PeerWelcomed(m)
  <2>1. toPeer[1] = ThePong
    BY <1>4, <1>5, <1>6, <1>10, Known DEF PeerWelcomed
  <2>2. toPeer[k] \in Requests => parse_status_response(toPeer[k].body).session_type \in Infos
    BY Bodies DEF Requests
  <2>3. pinfo' \in Infos
    BY <1>4, <1>5, <1>8, <1>9, <1>10, <2>2, Known DEF PeerWelcomed
  <2> QED BY <1>1, <1>5, <1>8, <1>10, <2>1, <2>3 DEF PeerWelcomed
<1>11. CASE PeerAsked(m)
  <2>1. toPeer[1] = msg["sim"] /\ toPeer[1] \in Requests /\ ~Serving
    BY <1>4, <1>5, <1>7, <1>11, Known DEF PeerAsked, Asks
  <2>2. Ack(m) = TheAck
    BY <1>5, <1>6, <2>1, Headers DEF Ack, TheAck
  <2>3. k = 1 => NamesPeer
    BY <1>5, <1>11, <2>1 DEF PeerAsked, Accepts, NamesPeer
  <2> QED BY <1>1, <1>11, <2>1, <2>2, <2>3 DEF PeerAsked
<1>12. CASE PeerDrops(m)
  <2>1. ASSUME k = 1 PROVE toPeer[1] # ThePong
    BY <2>1, <1>5, <1>7, <1>8, <1>12 DEF PeerDrops, PeerTakes
  <2>2. ASSUME k = 1 PROVE ~NamesPeer
    <3>1. toPeer[1] = msg["sim"] /\ toPeer[1] \in Requests
      BY <1>4, <2>1, <2>2, Known
    <3>2. Asks(m)
      BY <1>5, <1>6, <3>1 DEF Asks, PeerTakes
    <3> QED BY <1>5, <1>12, <2>2, <3>1, <3>2 DEF PeerDrops, Accepts, NamesPeer
  <2> QED BY <1>1, <1>12, <2>1, <2>2 DEF PeerDrops
<1> QED BY <1>1, <1>10, <1>11, <1>12 DEF PeerAnswers, m

-----------------------------------------------------------------------------
(* The messages and the bounds are kept by every step *)

LEMMA InitBasic == Init => BasicInv
<1> SUFFICES ASSUME Init PROVE BasicInv
  OBVIOUS
<1>1. TypeOK
  <2>1. /\ pc \in [Threads -> IoPcs \cup SimPcs] /\ pc["io"] \in IoPcs /\ pc["sim"] \in SimPcs
        /\ after \in {"idle", "active", "rearm"}
    BY DEF Init, Threads, IoPcs, SimPcs
  <2>2. msg \in [Threads -> MessageSet \cup {None}]
    BY DEF Init
  <2>3. /\ info \in Infos /\ node_id \in NodeIds /\ pinfo \in Infos
        /\ kind \in Kinds /\ mishaps \subseteq {"swallowed", "clobbered", "ignored"}
    BY DEF Init, Infos, NodeIds
  <2>4. /\ buffer \in MessageSet \cup {None} /\ wqueue \in Seq(MessageSet)
        /\ toPeer \in Seq(MessageSet) /\ toSession \in Seq(MessageSet) /\ pqueue \in Seq(MessageSet)
    BY DEF Init
  <2>5. /\ reading \in BOOLEAN /\ writing \in BOOLEAN /\ pwriting \in BOOLEAN
        /\ open \in BOOLEAN /\ quiet \in BOOLEAN
        /\ sstate \in {"none", "STOPPED", "LAUNCHING", "ACTIVE", "SHUTTING_DOWN"}
        /\ pstate \in {"connecting", "connected", "asked", "replaced"}
    BY DEF Init
  <2>6. receives \in 0..2 /\ sends \in 0..2 /\ alerts \in 0..2 /\ closed \in 0..2 /\ closed <= alerts
    BY DEF Init
  <2> QED BY <2>1, <2>2, <2>3, <2>4, <2>5, <2>6 DEF TypeOK
<1>2. MessagesInv
  BY DEF Init, MessagesInv, Serving, Threads, WritePcs
<1>3. CountsInv
  BY DEF Init, CountsInv, ExchangesInv, SendsInv, ReceivesInv, StartInv, Outward, Backward, Sending,
     ToBegin, Unsent, Unconnected, Unasked,
     Unanswered, Writing, Writes, Reading, Listening, Asking, Serving, Threads, WritePcs
<1> QED BY <1>1, <1>2, <1>3 DEF BasicInv

\* Sums of naturals, stated of values because the provers know the types of values only
LEMMA Sums ==
  /\ \A a, b \in Nat : a + b \in Nat /\ a <= a + b /\ b <= a + b
  /\ \A a, b, c \in Nat : a <= b /\ b + c <= 2 => a <= 2 /\ a + c <= 2
  /\ \A a, b \in Nat : \A c, d \in 0..1 : a + b <= c + d => a \in 0..2
  /\ \A a, b, c \in Nat : a # 0 /\ a + b <= c => a - 1 \in Nat /\ (a - 1) + b <= c
OBVIOUS

\* A thread that moves on is counted alone.
LEMMA WritingCounts ==
  ASSUME wqueue \in Seq(MessageSet), wqueue' \in Seq(MessageSet),
         NEW t \in Threads, pc'[Other(t)] = pc[Other(t)]
  PROVE  \E rest \in Nat : /\ Unsent = Len(wqueue) + Writing[t] + rest
                           /\ Unsent' = Len(wqueue') + Writing'[t] + rest
<1>1. Len(wqueue) \in Nat /\ Len(wqueue') \in Nat
  OBVIOUS
<1>2. /\ Writing["io"] \in 0..1 /\ Writing'["io"] \in 0..1
      /\ Writing["sim"] \in 0..1 /\ Writing'["sim"] \in 0..1
  BY DEF Writing, Threads
<1>3. /\ Unsent = Len(wqueue) + Writing["io"] + Writing["sim"]
      /\ Unsent' = Len(wqueue') + Writing'["io"] + Writing'["sim"]
  BY DEF Unsent
<1>4. CASE t = "io"
  <2>1. Writing'["sim"] = Writing["sim"] /\ Writing["sim"] \in Nat
    BY <1>2, <1>4 DEF Other, Writing, Writes, Threads
  <2> QED BY <1>3, <1>4, <2>1
<1>5. CASE t = "sim"
  <2>1. Writing'["io"] = Writing["io"] /\ Writing["io"] \in Nat
    BY <1>2, <1>5 DEF Other, Writing, Writes, Threads
  <2> QED BY <1>1, <1>2, <1>3, <1>5, <2>1
<1> QED BY <1>4, <1>5 DEF Threads

LEMMA CountTypes ==
  ASSUME TypeOK
  PROVE  /\ Unsent \in Nat /\ Unconnected \in 0..1 /\ Unasked \in 0..1 /\ Unanswered \in 0..1
         /\ Reading \in 0..1 /\ Listening \in 0..1 /\ Asking \in 0..1
         /\ Len(toPeer) \in Nat /\ Len(pqueue) \in Nat /\ Len(toSession) \in Nat /\ Len(wqueue) \in Nat
         /\ Outward \in Nat /\ Backward \in Nat /\ Sending \in Nat /\ ToBegin \in Nat
<1>1. Len(toPeer) \in Nat /\ Len(pqueue) \in Nat /\ Len(toSession) \in Nat /\ Len(wqueue) \in Nat
  BY DEF TypeOK
<1>2. Writing["io"] \in 0..1 /\ Writing["sim"] \in 0..1
  BY DEF Writing, Threads
<1>3. Unsent \in Nat
  BY <1>1, <1>2 DEF Unsent
<1>4. Unconnected \in 0..1 /\ Unasked \in 0..1 /\ Unanswered \in 0..1
  BY DEF Unconnected, Unasked, Unanswered
<1>5. Reading \in 0..1 /\ Listening \in 0..1 /\ Asking \in 0..1
  BY DEF Reading, Listening, Asking
<1>6. Outward \in Nat /\ Sending \in Nat
  BY <1>1, <1>3 DEF Outward, Sending, TypeOK
<1>7. Backward \in Nat /\ ToBegin \in Nat
  BY <1>1, <1>4 DEF Backward, ToBegin, TypeOK
<1> QED BY <1>1, <1>3, <1>4, <1>5, <1>6, <1>7

\* What is given to one side is taken from the other.
LEMMA CountsMove ==
  ASSUME TypeOK, ExchangesInv, SendsInv,
         NEW d \in Int, NEW e \in Int, NEW f \in Int, NEW g \in Int,
         Outward' = Outward + d, Backward' = Backward + e, d + e <= 0,
         Sending' = Sending + f, ToBegin' = ToBegin + g, f + g <= 0
  PROVE  ExchangesInv' /\ SendsInv'
<1>1. Outward \in Nat /\ Backward \in Nat /\ Sending \in Nat /\ ToBegin \in Nat
  BY CountTypes
<1>2. (Outward + d) + (Backward + e) <= 2
  BY <1>1 DEF ExchangesInv
<1>3. (Sending + f) + (ToBegin + g) <= 2
  BY <1>1 DEF SendsInv
<1> QED BY <1>2, <1>3 DEF ExchangesInv, SendsInv

LEMMA GoesTo ==
  ASSUME TypeOK, NEW t \in Threads, NEW from, NEW to, Goes(t, from, to),
         to \in IF t = "io" THEN IoPcs ELSE SimPcs
  PROVE  /\ pc[t] = from /\ pc'[t] = to
         /\ \A u \in Threads : u # t => pc'[u] = pc[u]
         /\ pc' \in [Threads -> IoPcs \cup SimPcs] /\ pc'["io"] \in IoPcs /\ pc'["sim"] \in SimPcs
<1>1. pc \in [Threads -> IoPcs \cup SimPcs] /\ pc["io"] \in IoPcs /\ pc["sim"] \in SimPcs
  BY DEF TypeOK
<1> QED BY <1>1 DEF Goes, Threads

\* write_message(): the message moves on from the thread to the queue, the buffer and the peer.
LEMMA WriteBasic ==
  ASSUME BasicInv, NEW t \in Threads, Write(t)
  PROVE  BasicInv'
<1> USE DEF BasicInv
<1>1. pc[t] \in WritePcs /\ (t = "sim" => ~Serving)
  BY DEF Write, WriteTest, WritePush, WriteBuffer, WriteSend, WriteMark, Goes, WritePcs, Serving
<1>2. msg[t] \in Sendable /\ msg[t] \in MessageSet
  <2>1. t = "io" \/ t = "sim"
    BY DEF Threads
  <2>2. t = "io" => msg[t] \in Sendable
    BY <1>1 DEF MessagesInv
  <2>3. t = "sim" => msg[t] \in Sendable
    BY <1>1, Known
  <2> QED BY <2>1, <2>2, <2>3, Known
<1>3. /\ Return(t) \in IF t = "io" THEN IoPcs ELSE SimPcs
      /\ Return(t) \in {"state", "idle", "active", "rearm"}
  BY DEF Return, TypeOK, IoPcs, SimPcs, Threads
<1>4. PICK to : Goes(t, pc[t], to) /\ (to = Return(t) \/ to \in {"push", "buffer", "send", "mark"})
  BY <1>1 DEF Write, WriteTest, WritePush, WriteBuffer, WriteSend, WriteMark, Goes, WritePcs
<1>5. /\ pc'[t] = to /\ pc'[Other(t)] = pc[Other(t)]
      /\ pc' \in [Threads -> IoPcs \cup SimPcs] /\ pc'["io"] \in IoPcs /\ pc'["sim"] \in SimPcs
  BY <1>3, <1>4, GoesTo DEF IoPcs, SimPcs, WritePcs, Threads, Other
<1>6. UNCHANGED <<msg, after, sstate, info, node_id, reading, receives, toSession, peerVars, countVars,
                  open, quiet>>
  BY DEF Write, WriteTest, WritePush, WriteBuffer, WriteSend, WriteMark, infoVars, readVars, writeVars
<1>7. Serving' = Serving /\ Sendable' = Sendable
  BY <1>1, <1>3, <1>4, <1>5, <1>6 DEF Serving, Sendable, ThePong, Threads, Other, peerVars
<1>8. /\ Unconnected' = Unconnected /\ Unasked' = Unasked /\ Unanswered' = Unanswered
      /\ Listening' = Listening /\ Asking' = Asking /\ Reading' = Reading
  <2>1. Unconnected' = Unconnected /\ Unasked' = Unasked /\ Unanswered' = Unanswered
    BY <1>6, <1>7 DEF Unconnected, Unasked, Unanswered, ThePing, peerVars
  <2>2. Asking' = Asking /\ Listening' = Listening
    BY <1>1, <1>3, <1>4, <1>5, <1>6 DEF Asking, Listening, Threads, Other, WritePcs
  <2>3. Reading' = Reading
    <3>1. CASE t = "io"
      BY <1>1, <1>4, <1>5, <1>6, <3>1 DEF Reading, WritePcs, Return, TypeOK
    <3>2. CASE t # "io"
      BY <1>5, <1>6, <3>2 DEF Reading, Threads, Other
    <3> QED BY <3>1, <3>2
  <2> QED BY <2>1, <2>2, <2>3
<1>9. ReceivesInv' /\ StartInv'
  BY <1>1, <1>4, <1>5, <1>6, <1>7, <1>8
     DEF CountsInv, ReceivesInv, StartInv, WritePcs, Threads, Other, peerVars
<1>10. ASSUME Unsent' \in Nat, Len(toPeer') \in Nat, sends' \in Nat,
              Unsent' + Len(toPeer') <= Unsent + Len(toPeer), sends' + Unsent' <= sends + Unsent
       PROVE  CountsInv' /\ sends' \in 0..2
  <2>1. Backward' = Backward /\ ToBegin' = ToBegin
    BY <1>6, <1>8 DEF Backward, ToBegin, peerVars, countVars
  <2>2. Outward' \in Nat /\ Outward' <= Outward
    BY <1>10 DEF Outward
  <2>3. Sending' \in Nat /\ Sending' <= Sending /\ sends' <= Sending'
    BY <1>10, Sums DEF Sending
  <2>4. ExchangesInv'
    BY <2>1, <2>2, CountTypes DEF CountsInv, ExchangesInv
  <2>5. SendsInv'
    BY <2>1, <2>3, CountTypes DEF CountsInv, SendsInv
  <2>8. Sending' + ToBegin' <= 2 /\ ToBegin' \in Nat
    BY <2>1, <2>5, CountTypes DEF SendsInv
  <2>6. sends' <= 2
    BY <1>10, <2>3, <2>8, Sums
  <2> QED BY <1>9, <1>10, <2>4, <2>5, <2>6 DEF CountsInv
<1>11. ASSUME wqueue' \in Seq(MessageSet), toPeer' \in Seq(MessageSet), sends' \in 0..2,
              buffer' \in MessageSet \cup {None}, writing' \in BOOLEAN,
              mishaps' \subseteq {"swallowed", "clobbered", "ignored"}
       PROVE  TypeOK'
  BY <1>5, <1>6, <1>11 DEF TypeOK, peerVars, countVars
<1>12. ASSUME \A i \in DOMAIN wqueue' : wqueue'[i] \in Sendable,
              \A i \in DOMAIN toPeer' : toPeer'[i] \in Sendable,
              (\E u \in Threads : pc'[u] = "send") => buffer' \in Sendable
       PROVE  MessagesInv'
  <2>1. pc'["io"] \in WritePcs => msg'["io"] \in Sendable
    BY <1>1, <1>2, <1>5, <1>6 DEF MessagesInv, Threads, Other, WritePcs
  <2> QED BY <1>6, <1>7, <1>12, <2>1 DEF MessagesInv, ThePing, peerVars
<1> HIDE DEF BasicInv
<1>13. TypeOK /\ MessagesInv
  BY DEF BasicInv
<1>14. CASE WriteTest(t)
  <2>1. /\ UNCHANGED <<wqueue, toPeer, sends, buffer, writing, mishaps>>
        /\ Writing'[t] = Writing[t] /\ pc'[t] # "send"
    BY <1>5, <1>13, <1>14, GoesTo DEF WriteTest, writeVars, Writing, Writes, Goes, TypeOK
  <2>5. Unsent' = Unsent
    BY <1>5, <2>1 DEF Unsent, Writing, Writes, Threads, Other
  <2>2. CountsInv' /\ sends' \in 0..2
    BY <1>10, <1>13, <2>1, <2>5, CountTypes DEF TypeOK
  <2>3. TypeOK'
    BY <1>11, <1>13, <2>1 DEF TypeOK
  <2>4. MessagesInv'
    BY <1>5, <1>12, <1>13, <2>1 DEF MessagesInv, Threads, Other
  <2> QED BY <2>2, <2>3, <2>4 DEF BasicInv
<1>15. CASE WritePush(t)
  <2>1. /\ wqueue' = Append(wqueue, msg[t]) /\ UNCHANGED <<toPeer, sends, buffer, writing, mishaps>>
        /\ pc[t] = "push" /\ pc'[t] = Return(t)
    BY <1>13, <1>15 DEF WritePush, Goes, TypeOK
  <2>2. /\ wqueue' \in Seq(MessageSet) /\ Len(wqueue') = Len(wqueue) + 1 /\ Len(wqueue) \in Nat
        /\ \A i \in DOMAIN wqueue' : wqueue'[i] = IF i = Len(wqueue) + 1 THEN msg[t] ELSE wqueue[i]
    BY <1>2, <1>13, <2>1 DEF TypeOK
  <2>3. Writing[t] = 1 /\ Writing'[t] = 0 /\ pc'[t] # "send"
    BY <1>3, <2>1 DEF Writing, Writes
  <2>8. Unsent' = Unsent
    BY <1>5, <1>13, <2>2, <2>3, WritingCounts DEF TypeOK
  <2>4. CountsInv' /\ sends' \in 0..2
    BY <1>10, <1>13, <2>1, <2>8, CountTypes DEF TypeOK
  <2>5. TypeOK'
    BY <1>11, <1>13, <2>1, <2>2 DEF TypeOK
  <2>6. \A i \in DOMAIN wqueue' : wqueue'[i] \in Sendable
    BY <1>2, <1>13, <2>2 DEF MessagesInv, TypeOK
  <2>7. MessagesInv'
    BY <1>5, <1>12, <1>13, <2>1, <2>3, <2>6 DEF MessagesInv, Threads, Other
  <2> QED BY <2>4, <2>5, <2>7 DEF BasicInv
<1>16. CASE WriteBuffer(t)
  <2>1. /\ buffer' = msg[t] /\ UNCHANGED <<wqueue, toPeer, sends, writing>>
        /\ mishaps' \in {mishaps, mishaps \cup {"clobbered"}}
        /\ pc[t] = "buffer" /\ pc'[t] = "send"
    BY <1>13, <1>16 DEF WriteBuffer, Goes, TypeOK
  <2>5. Unsent' = Unsent
    BY <1>5, <2>1 DEF Unsent, Writing, Writes, Threads, Other
  <2>2. CountsInv' /\ sends' \in 0..2
    BY <1>10, <1>13, <2>1, <2>5, CountTypes DEF TypeOK
  <2>3. TypeOK'
    BY <1>2, <1>11, <1>13, <2>1 DEF TypeOK
  <2>4. MessagesInv'
    BY <1>2, <1>12, <1>13, <2>1 DEF MessagesInv
  <2> QED BY <2>2, <2>3, <2>4 DEF BasicInv
<1>17. CASE WriteSend(t)
  <2>1. /\ toPeer' = IF open THEN Append(toPeer, buffer) ELSE toPeer
        /\ sends' = sends + 1 /\ UNCHANGED <<wqueue, buffer, writing, mishaps>>
        /\ pc[t] = "send" /\ pc'[t] = "mark"
    BY <1>13, <1>17 DEF WriteSend, Goes, TypeOK
  <2>2. buffer \in Sendable /\ buffer \in MessageSet
    BY <1>13, <2>1, Known DEF MessagesInv
  <2>3. /\ toPeer' \in Seq(MessageSet) /\ Len(toPeer') \in {Len(toPeer), Len(toPeer) + 1}
        /\ \A i \in DOMAIN toPeer' : toPeer'[i] = IF i = Len(toPeer) + 1 THEN buffer ELSE toPeer[i]
    <3>1. CASE open
      BY <1>13, <2>1, <2>2, <3>1 DEF TypeOK
    <3>2. CASE ~open
      BY <1>13, <2>1, <2>2, <3>2 DEF TypeOK
    <3> QED BY <3>1, <3>2
  <2>4. Writing[t] = 1 /\ Writing'[t] = 0
    BY <2>1 DEF Writing, Writes
  <2>9. Unsent \in Nat /\ Unsent - 1 \in Nat /\ Unsent' = Unsent - 1
    <3>1. PICK rest \in Nat : /\ Unsent = Len(wqueue) + 1 + rest
                              /\ Unsent' = Len(wqueue) + 0 + rest
      BY <1>5, <1>13, <2>1, <2>4, WritingCounts DEF TypeOK
    <3> QED BY <1>13, <3>1 DEF TypeOK
  <2>10. /\ sends' \in Nat /\ sends' + Unsent' <= sends + Unsent
         /\ Len(toPeer') \in Nat /\ Unsent' + Len(toPeer') <= Unsent + Len(toPeer)
    BY <1>13, <2>1, <2>3, <2>9, CountTypes DEF TypeOK
  <2>5. CountsInv' /\ sends' \in 0..2
    BY <1>10, <2>9, <2>10
  <2>6. TypeOK'
    BY <1>11, <1>13, <2>1, <2>3, <2>5 DEF TypeOK
  <2>7. \A i \in DOMAIN toPeer' : toPeer'[i] \in Sendable
    BY SMTT(30), <1>13, <2>2, <2>3 DEF MessagesInv, TypeOK
  <2>8. MessagesInv'
    BY <1>12, <1>13, <2>1, <2>2, <2>7 DEF MessagesInv
  <2> QED BY <2>5, <2>6, <2>8 DEF BasicInv
<1>18. CASE WriteMark(t)
  <2>1. /\ writing' = TRUE /\ UNCHANGED <<wqueue, toPeer, sends, buffer, mishaps>>
        /\ pc[t] = "mark" /\ pc'[t] = Return(t)
    BY <1>13, <1>18 DEF WriteMark, Goes, TypeOK
  <2>2. Writing'[t] = Writing[t] /\ pc'[t] # "send"
    BY <1>3, <2>1 DEF Writing, Writes
  <2>6. Unsent' = Unsent
    BY <1>5, <2>1, <2>2 DEF Unsent, Writing, Writes, Threads, Other
  <2>3. CountsInv' /\ sends' \in 0..2
    BY <1>10, <1>13, <2>1, <2>6, CountTypes DEF TypeOK
  <2>4. TypeOK'
    BY <1>11, <1>13, <2>1 DEF TypeOK
  <2>5. MessagesInv'
    BY <1>5, <1>12, <1>13, <2>1, <2>2 DEF MessagesInv, Threads, Other
  <2> QED BY <2>3, <2>4, <2>5 DEF BasicInv
<1> QED BY <1>14, <1>15, <1>16, <1>17, <1>18 DEF Write

\* A step that leaves the streams and the queues alone, and begins no write and no read of a
\* message, keeps what is said of the messages and of the exchanges.
LEMMA StreamsKept ==
  ASSUME BasicInv,
         UNCHANGED <<wqueue, buffer, sends, toPeer, toSession, kind, pstate, pqueue, pwriting, alerts>>,
         \A t \in Threads : pc'[t] # pc[t] => pc[t] \notin WritePcs /\ pc'[t] \notin WritePcs,
         pc'["io"] \in WritePcs => msg'["io"] = msg["io"],
         msg'["sim"] = msg["sim"], Serving' = Serving
  PROVE  /\ MessagesInv' /\ ExchangesInv' /\ SendsInv'
         /\ (sstate' = "none" => sstate = "none" /\ pc'["io"] = pc["io"]) => StartInv'
<1>1. \A t \in Threads : Writes(t)' = Writes(t) /\ (pc'[t] \in WritePcs => pc[t] \in WritePcs)
  BY DEF Writes, WritePcs
<1>2. \A t \in Threads : pc'[t] = "send" => pc[t] = "send"
  BY DEF WritePcs
<1>3. Sendable' = Sendable /\ ThePing' = ThePing
  BY DEF Sendable, ThePong, ThePing
<1>4. MessagesInv
  BY DEF BasicInv
<1>5. pc'["io"] \in WritePcs => msg'["io"] \in Sendable
  BY <1>1, <1>4 DEF MessagesInv, Threads
<1>6. MessagesInv'
  BY <1>2, <1>3, <1>4, <1>5 DEF MessagesInv
<1>7. Writing' = Writing
  BY <1>1 DEF Writing
<1>8. Outward' = Outward /\ Backward' = Backward /\ Sending' = Sending /\ ToBegin' = ToBegin
  BY <1>3, <1>7 DEF Outward, Backward, Sending, ToBegin, Unsent, Unconnected, Unasked, Unanswered
<1>9. ExchangesInv' /\ SendsInv'
  BY <1>8 DEF BasicInv, CountsInv, ExchangesInv, SendsInv
<1>10. (sstate' = "none" => sstate = "none" /\ pc'["io"] = pc["io"]) => StartInv'
  BY DEF BasicInv, CountsInv, StartInv
<1> QED BY <1>6, <1>9, <1>10

\* The handlers of the session that pass no message on, and the steps of the sim thread
LEMMA HandlersBasic ==
  ASSUME BasicInv,
         \/ SessionAccept \/ SessionStart \/ SessionListen \/ SessionActive \/ SessionRearm
         \/ SessionReadFails \/ SessionReadsEnd
  PROVE  BasicInv'
<1>1. TypeOK /\ StartInv /\ ReceivesInv
  BY DEF BasicInv, CountsInv
<1>2. PICK from, to : /\ Goes("io", from, to)
                      /\ \/ from = "idle" /\ to = "start" /\ SessionAccept
                         \/ from = "start" /\ to = "listen" /\ SessionStart
                         \/ from = "listen" /\ to = "idle" /\ SessionListen
                         \/ from = "active" /\ to = "rearm" /\ SessionActive
                         \/ from = "rearm" /\ to = "idle" /\ SessionRearm
                         \/ from = "idle" /\ to = "idle" /\ (SessionReadFails \/ SessionReadsEnd)
  BY DEF SessionAccept, SessionStart, SessionListen, SessionActive, SessionRearm, SessionReadFails,
     SessionReadsEnd, IoGoes
<1>3. /\ from \in IoPcs \ WritePcs /\ to \in IoPcs \ WritePcs
  BY <1>2 DEF IoPcs, WritePcs
<1>4. /\ pc["io"] = from /\ pc'["io"] = to /\ pc'["sim"] = pc["sim"]
      /\ pc' \in [Threads -> IoPcs \cup SimPcs] /\ pc'["io"] \in IoPcs /\ pc'["sim"] \in SimPcs
  BY <1>1, <1>2, <1>3, GoesTo DEF Threads
<1>5. UNCHANGED <<writeVars, toPeer, toSession, peerVars, countVars, infoVars, open, quiet, mishaps>>
  BY <1>2 DEF SessionAccept, SessionStart, SessionListen, SessionActive, SessionRearm,
     SessionReadFails, SessionReadsEnd
<1>6. /\ msg'["sim"] = msg["sim"] /\ msg' \in [Threads -> MessageSet \cup {None}]
      /\ after' \in {"idle", "active", "rearm"}
  <2>1. CASE SessionActive
    BY <1>1, <2>1 DEF SessionActive, TypeOK, Threads
  <2>2. CASE ~SessionActive
    BY <1>1, <1>2, <2>2 DEF TypeOK, SessionAccept, SessionStart, SessionListen, SessionRearm,
       SessionReadFails, SessionReadsEnd
  <2> QED BY <2>1, <2>2
<1>7. /\ sstate' \in {"none", "STOPPED", "LAUNCHING", "ACTIVE", "SHUTTING_DOWN"}
      /\ reading' \in BOOLEAN
      /\ sstate' = "none" => sstate = "none" /\ from = "idle" /\ to = "idle"
  BY <1>1, <1>2, <1>4 DEF TypeOK, StartInv, SessionAccept, SessionStart, SessionListen, SessionActive,
     SessionRearm, SessionReadFails, SessionReadsEnd, readVars
<1>8. MessagesInv' /\ ExchangesInv' /\ SendsInv' /\ StartInv'
  <2>1. Serving' = Serving
    BY <1>4 DEF Serving
  <2>2. \A t \in Threads : pc'[t] # pc[t] => pc[t] \notin WritePcs /\ pc'[t] \notin WritePcs
    BY <1>3, <1>4 DEF Threads
  <2> QED BY <1>3, <1>4, <1>5, <1>6, <1>7, <2>1, <2>2, StreamsKept DEF writeVars, peerVars, countVars
<1>9. receives' \in Nat /\ ReceivesInv'
  <2>1. Asking' = Asking /\ Asking \in Nat
    BY <1>4, CountTypes, <1>1 DEF Asking
  <2>2. CASE SessionAccept \/ SessionStart
    BY <1>1, <1>2, <1>4, <2>1, <2>2 DEF SessionAccept, SessionStart, IoGoes, Goes, ReceivesInv,
       Reading, Listening, TypeOK, readVars, WritePcs, StartInv
  <2>3. CASE SessionListen
    BY <1>1, <1>2, <1>4, <2>1, <2>3 DEF SessionListen, IoGoes, Goes, ReceivesInv,
       Reading, Listening, TypeOK, WritePcs, StartInv
  <2>4. CASE SessionActive \/ SessionRearm
    BY <1>1, <1>2, <1>4, <2>1, <2>4 DEF SessionActive, SessionRearm, IoGoes, Goes, ReceivesInv,
       Reading, Listening, TypeOK, readVars, WritePcs, StartInv
  <2>5. CASE SessionReadFails \/ SessionReadsEnd
    <3>1. receives' = receives - 1 /\ receives # 0 /\ receives \in Nat /\ sstate' = sstate
      BY <1>1, <2>5 DEF SessionReadFails, SessionReadsEnd, TypeOK
    <3>2. pc["io"] = "idle" /\ pc'["io"] = "idle"
      BY <1>1, <1>4, <2>5 DEF SessionReadFails, SessionReadsEnd, IoGoes, Goes, TypeOK
    <3>3. Reading' = Reading /\ Listening' = Listening
      BY <3>1, <3>2 DEF Reading, Listening, WritePcs
    <3>4. Listening + Asking \in Nat /\ Reading \in Nat
      BY <1>1, CountTypes
    <3> QED BY <1>1, <2>1, <3>1, <3>3, <3>4, Sums DEF ReceivesInv
  <2> QED BY <1>2, <2>2, <2>3, <2>4, <2>5
<1>10. receives' \in 0..2
  <2>1. Reading' \in Nat /\ Listening' \in 0..1 /\ Asking' \in 0..1
    BY DEF Reading, Listening, Asking
  <2> QED BY <1>9, <2>1, Sums DEF ReceivesInv
<1>11. TypeOK'
  BY <1>1, <1>4, <1>5, <1>6, <1>7, <1>10
     DEF TypeOK, writeVars, peerVars, countVars, infoVars
<1> QED BY <1>8, <1>9, <1>11 DEF BasicInv, CountsInv

\* The steps of the sim thread after its write, the poll and stop()
LEMMA SimBasic ==
  ASSUME BasicInv, SimState \/ SimReceive \/ SimPoll \/ SimDrained \/ MainStop
  PROVE  BasicInv'
<1>1. TypeOK /\ StartInv /\ ReceivesInv
  BY DEF BasicInv, CountsInv
<1>2. UNCHANGED <<msg, after, infoVars, reading, writeVars, toPeer, toSession, peerVars, alerts, quiet,
                  mishaps>>
  BY DEF SimState, SimReceive, SimPoll, SimDrained, MainStop, readVars, countVars, threadVars
<1>3. /\ pc' \in [Threads -> IoPcs \cup SimPcs] /\ pc'["io"] = pc["io"] /\ pc'["sim"] \in SimPcs
      /\ pc["sim"] \notin WritePcs \cup {"serving"}
      /\ pc'["sim"] \notin WritePcs \cup {"serving"}
  <2>1. CASE SimState \/ SimReceive \/ SimDrained
    <3>1. PICK from, to : /\ Goes("sim", from, to) /\ from \in {"state", "receive", "drain"}
                          /\ to \in {"receive", "drain", "down"}
      BY <2>1 DEF SimState, SimReceive, SimDrained
    <3> QED BY <1>1, <3>1, GoesTo DEF Threads, SimPcs, WritePcs
  <2>2. CASE SimPoll \/ MainStop
    BY <1>1, <2>2 DEF SimPoll, MainStop, threadVars, TypeOK, WritePcs
  <2> QED BY <2>1, <2>2
<1>4. sstate # "none" /\ sstate' \in {sstate, "SHUTTING_DOWN"}
  BY <1>1, <1>3 DEF SimState, SimReceive, SimPoll, SimDrained, MainStop, StartInv, Serving
<1>5. MessagesInv' /\ ExchangesInv' /\ SendsInv' /\ StartInv'
  <2>1. Serving' = Serving
    BY <1>3 DEF Serving
  <2>2. \A t \in Threads : pc'[t] # pc[t] => pc[t] \notin WritePcs /\ pc'[t] \notin WritePcs
    BY <1>3 DEF Threads
  <2>3. pc'["io"] \in WritePcs => msg'["io"] = msg["io"]
    BY <1>2
  <2> QED BY <1>2, <1>4, <2>1, <2>2, <2>3, StreamsKept DEF writeVars, peerVars
<1>6. receives' \in Nat /\ ReceivesInv'
  <2>1. Reading' = Reading /\ Listening' = Listening /\ Reading \in Nat /\ Listening \in Nat
    BY <1>1, <1>2, <1>3, <1>4, CountTypes DEF Reading, Listening
  <2>2. CASE SimReceive
    <3>1. Asking = 0 /\ Asking' = 1
      BY <1>1, <2>2, GoesTo DEF SimReceive, TypeOK, Asking, Threads, SimPcs, Goes
    <3>5. receives \in Nat
      BY <1>1 DEF TypeOK
    <3>2. PICK r \in Nat : receives' = r /\ r <= receives + 1
      <4>1. receives' = receives \/ receives' = receives + 1
        BY <2>2 DEF SimReceive
      <4> QED BY <3>5, <4>1
    <3>3. receives + Reading <= Listening + 0
      BY <1>1, <3>1 DEF ReceivesInv
    <3>4. r + Reading <= Listening + 1
      BY <2>1, <3>2, <3>3, <3>5
    <3> QED BY <2>1, <3>1, <3>2, <3>4 DEF ReceivesInv
  <2>3. CASE ~SimReceive
    <3>1. receives' = receives /\ receives \in Nat
      BY <1>1, <2>3 DEF SimState, SimPoll, SimDrained, MainStop, readVars, TypeOK
    <3>2. Asking' = Asking
      BY <1>1, <2>3 DEF SimState, SimPoll, SimDrained, MainStop, Goes, Asking, TypeOK, Threads,
         threadVars
    <3> QED BY <1>1, <2>1, <3>1, <3>2 DEF ReceivesInv
  <2> QED BY <2>2, <2>3
<1>7. receives' \in 0..2
  <2>1. Reading' \in Nat /\ Listening' \in 0..1 /\ Asking' \in 0..1
    BY DEF Reading, Listening, Asking
  <2> QED BY <1>6, <2>1, Sums DEF ReceivesInv
<1>8. closed' \in 0..2 /\ closed' <= alerts' /\ open' \in BOOLEAN
  <2>1. closed' \in {closed, alerts} /\ open' \in {open, FALSE} /\ alerts' = alerts
    BY DEF SimState, SimReceive, SimPoll, SimDrained, MainStop, countVars
  <2>2. alerts \in 0..2 /\ closed \in 0..2 /\ closed <= alerts /\ open \in BOOLEAN
    BY <1>1 DEF TypeOK
  <2>3. \A c \in {closed, alerts} : c \in 0..2 /\ c <= alerts
    BY <2>2
  <2> QED BY <2>1, <2>2, <2>3
<1>9. TypeOK'
  BY <1>1, <1>2, <1>3, <1>4, <1>7, <1>8 DEF TypeOK, writeVars, peerVars, infoVars
<1> QED BY <1>5, <1>6, <1>9 DEF BasicInv, CountsInv

\* begin_shutdown() takes the request up: it counts as being written.
LEMMA BeginBasic ==
  ASSUME BasicInv, SimBegin
  PROVE  BasicInv'
<1>1. TypeOK /\ StartInv /\ ReceivesInv /\ MessagesInv /\ ExchangesInv /\ SendsInv
  BY DEF BasicInv, CountsInv
<1>2. UNCHANGED <<after, sstate, infoVars, readVars, writeVars, toPeer, toSession, peerVars, countVars,
                  open, mishaps>>
  BY DEF SimBegin
<1>3. /\ pc["sim"] = "serving" /\ pc'["sim"] = "test" /\ pc'["io"] = pc["io"]
      /\ pc' \in [Threads -> IoPcs \cup SimPcs]
  BY <1>1, GoesTo DEF SimBegin, Threads, SimPcs, WritePcs, Goes
<1>4. Request \in Requests
  BY <1>1 DEF Request, Requests, TypeOK
<1>5. /\ msg' \in [Threads -> MessageSet \cup {None}] /\ msg'["io"] = msg["io"]
      /\ msg'["sim"] = Request
  BY <1>1, <1>4, Known DEF SimBegin, TypeOK, Threads
<1>6. Serving /\ ~Serving' /\ Sendable \subseteq Sendable' /\ ThePing' = ThePing
  BY <1>2, <1>3 DEF Serving, Sendable, ThePong, ThePing, peerVars
<1>7. MessagesInv'
  <2>1. msg'["sim"] \in Requests
    BY <1>4, <1>5
  <2>2. (\E t \in Threads : pc'[t] = "send") => \E t \in Threads : pc[t] = "send"
    BY <1>3 DEF Threads
  <2>3. pc'["io"] \in WritePcs => msg'["io"] \in Sendable'
    BY <1>1, <1>3, <1>5, <1>6 DEF MessagesInv
  <2>4. (\E t \in Threads : pc'[t] = "send") => buffer' \in Sendable'
    BY <1>1, <1>2, <1>6, <2>2 DEF MessagesInv, writeVars
  <2>5. /\ \A i \in DOMAIN wqueue' : wqueue'[i] \in Sendable'
        /\ \A i \in DOMAIN toPeer' : toPeer'[i] \in Sendable'
    BY <1>1, <1>2, <1>6 DEF MessagesInv, writeVars
  <2> QED BY <1>1, <1>2, <1>6, <2>1, <2>3, <2>4, <2>5 DEF MessagesInv, peerVars
<1>8. Unsent' = Unsent + 1 /\ Unasked = 1 /\ Unasked' = 0
  <2>1. Writing'["io"] = Writing["io"] /\ Writing["sim"] = 0 /\ Writing'["sim"] = 1
    BY <1>3 DEF Writing, Writes, Threads
  <2>2. Len(wqueue) \in Nat /\ Writing["io"] \in Nat
    BY <1>1 DEF TypeOK, Writing, Threads
  <2> QED BY <1>2, <1>6, <2>1, <2>2 DEF Unsent, Unasked, writeVars
<1>9. /\ Unconnected' = Unconnected /\ Unanswered' = Unanswered
      /\ Reading' = Reading /\ Listening' = Listening /\ Asking' = Asking
  BY <1>2, <1>3, <1>6 DEF Unconnected, Unanswered, Reading, Listening, Asking, peerVars
<1>10. ExchangesInv' /\ SendsInv'
  <2>1. /\ toPeer' = toPeer /\ pqueue' = pqueue /\ toSession' = toSession
        /\ alerts' = alerts /\ sends' = sends
    BY <1>2 DEF peerVars, countVars, writeVars
  <2>2. alerts \in Nat /\ sends \in Nat
    BY <1>1 DEF TypeOK
  <2>6. /\ Unsent \in Nat /\ Unconnected \in Nat /\ Unanswered \in Nat
        /\ Len(toPeer) \in Nat /\ Len(pqueue) \in Nat /\ Len(toSession) \in Nat
    BY <1>1, CountTypes
  <2>3. Outward' = Outward + 1 /\ Sending' = Sending + 1
    BY <1>8, <2>1, <2>2, <2>6 DEF Outward, Sending
  <2>4. Backward' = Backward + (-1)
    BY <1>8, <1>9, <2>1, <2>2, <2>6 DEF Backward
  <2>5. ToBegin' = ToBegin + (-1)
    BY <1>8, <1>9, <2>6 DEF ToBegin
  <2> QED BY <1>1, <2>3, <2>4, <2>5, CountsMove
<1>11. ReceivesInv' /\ StartInv'
  BY <1>1, <1>2, <1>9 DEF ReceivesInv, StartInv, readVars, peerVars, SimBegin
<1>12. TypeOK'
  <2>1. quiet' \in BOOLEAN
    BY DEF SimBegin, AtRest, IoIdle
  <2> QED BY <1>1, <1>2, <1>3, <1>5, <2>1
     DEF TypeOK, SimPcs, WritePcs, writeVars, peerVars, countVars, infoVars, readVars
<1> QED BY <1>7, <1>10, <1>11, <1>12 DEF BasicInv, CountsInv

\* handle_write(): one send less; then what was queued counts as being written.
LEMMA WrittenBasic ==
  ASSUME BasicInv, SessionWritten \/ SessionFlush
  PROVE  BasicInv'
<1>1. TypeOK /\ StartInv /\ ReceivesInv /\ MessagesInv /\ ExchangesInv /\ SendsInv
  BY DEF BasicInv, CountsInv
<1>2. /\ UNCHANGED <<sstate, infoVars, readVars, buffer, toPeer, toSession, peerVars, countVars, open,
                     quiet, mishaps>>
      /\ msg'["sim"] = msg["sim"]
  BY <1>1 DEF SessionWritten, SessionFlush, TypeOK, Threads
<1>3. PICK from, to : /\ Goes("io", from, to)
                      /\ \/ from = "idle" /\ to \in {"idle", "flush"} /\ SessionWritten
                         \/ from = "flush" /\ to \in {"idle", "test"} /\ SessionFlush
  BY DEF SessionWritten, SessionFlush, IoGoes
<1>4. /\ pc["io"] = from /\ pc'["io"] = to /\ pc'["sim"] = pc["sim"]
      /\ pc' \in [Threads -> IoPcs \cup SimPcs] /\ pc'["io"] \in IoPcs /\ pc'["sim"] \in SimPcs
  BY <1>1, <1>3, GoesTo DEF Threads, IoPcs, WritePcs
<1>5. Serving' = Serving /\ Sendable' = Sendable /\ ThePing' = ThePing
  BY <1>2, <1>4 DEF Serving, Sendable, ThePong, ThePing, peerVars
<1>6. after' \in {"idle", after} /\ (to = "test" => after' = "idle")
  BY <1>3, <1>4 DEF SessionWritten, SessionFlush
<1>7. /\ Unconnected' = Unconnected /\ Unasked' = Unasked /\ Unanswered' = Unanswered
      /\ Backward' = Backward /\ ToBegin' = ToBegin /\ Len(toPeer') = Len(toPeer)
  BY <1>2, <1>5 DEF Unconnected, Unasked, Unanswered, Backward, ToBegin, peerVars, countVars
<1>8. sends \in Nat /\ Len(wqueue) \in Nat
  BY <1>1 DEF TypeOK
<1>9. ReceivesInv' /\ StartInv'
  <2>1. Reading = 0 /\ Reading' = 0 /\ Listening' = Listening /\ Asking' = Asking
    BY <1>2, <1>3, <1>4, <1>6 DEF Reading, Listening, Asking, WritePcs
  <2>2. sstate # "none"
    BY <1>1, <1>3, <1>4, <1>8 DEF StartInv, SessionWritten
  <2> QED BY <1>1, <1>2, <1>5, <2>1, <2>2 DEF ReceivesInv, StartInv, readVars, peerVars
<1>10. ASSUME wqueue' \in Seq(MessageSet), sends' \in 0..2, writing' \in BOOLEAN,
              msg' \in [Threads -> MessageSet \cup {None}]
       PROVE  TypeOK'
  BY <1>1, <1>2, <1>4, <1>6, <1>10 DEF TypeOK, peerVars, countVars, infoVars, readVars
<1>11. ASSUME \A i \in DOMAIN wqueue' : wqueue'[i] \in Sendable,
              to = "test" => msg'["io"] \in Sendable
       PROVE  MessagesInv'
  <2>1. (\E t \in Threads : pc'[t] = "send") => buffer' \in Sendable
    BY <1>1, <1>2, <1>3, <1>4 DEF MessagesInv, Threads
  <2>2. pc'["io"] \in WritePcs => msg'["io"] \in Sendable
    BY <1>3, <1>4, <1>11 DEF WritePcs
  <2> QED BY <1>1, <1>2, <1>5, <1>11, <2>1, <2>2 DEF MessagesInv, peerVars
<1>12. CASE SessionWritten
  <2>1. /\ writing' = FALSE /\ sends' = sends - 1 /\ sends # 0
        /\ UNCHANGED <<wqueue, msg>> /\ to # "test" /\ pc["io"] = "idle"
    BY <1>3, <1>4, <1>8, <1>12 DEF SessionWritten, IoGoes, Goes
  <2>2. sends' \in 0..2
    <3>1. sends \in 0..2 /\ sends - 1 \in 0..2
      BY <1>1, <1>8, <2>1 DEF TypeOK
    <3> QED BY <2>1, <3>1
  <2>3. Unsent' = Unsent
    <3>1. Writing' = Writing
      BY <1>3, <1>4, <2>1 DEF Writing, Writes, Threads
    <3> QED BY <2>1, <3>1 DEF Unsent
  <2>4. Outward' = Outward + 0 /\ Sending' = Sending + (-1)
    BY <1>1, <1>7, <1>8, <2>1, <2>3, CountTypes DEF Outward, Sending
  <2>5. ExchangesInv' /\ SendsInv'
    BY <1>1, <1>7, <2>4, CountsMove, CountTypes
  <2>6. TypeOK'
    BY <1>1, <1>10, <2>1, <2>2 DEF TypeOK
  <2>7. MessagesInv'
    BY <1>1, <1>11, <2>1 DEF MessagesInv
  <2> QED BY <1>9, <2>5, <2>6, <2>7 DEF BasicInv, CountsInv
<1>13. CASE SessionFlush
  <2>1. UNCHANGED <<writing, sends>> /\ pc["io"] = "flush"
    BY <1>1, <1>13 DEF SessionFlush, Goes
  <2>2. /\ wqueue' \in Seq(MessageSet) /\ msg' \in [Threads -> MessageSet \cup {None}]
        /\ \A i \in DOMAIN wqueue' : wqueue'[i] \in Sendable
        /\ to = "test" => msg'["io"] \in Sendable
        /\ Unsent' = Unsent
    <3>1. CASE wqueue = <<>>
      <4>1. UNCHANGED <<wqueue, msg>> /\ to = "idle"
        BY <1>1, <1>4, <1>13, <3>1 DEF SessionFlush, Goes, TypeOK, Threads
      <4>2. Writing' = Writing
        BY <1>4, <2>1, <4>1 DEF Writing, Writes, Threads
      <4> QED BY <1>1, <4>1, <4>2 DEF MessagesInv, TypeOK, Unsent
    <3>2. CASE wqueue # <<>>
      <4>1. wqueue' = Tail(wqueue) /\ msg' = [msg EXCEPT !["io"] = Head(wqueue)] /\ to = "test"
        BY <1>1, <1>4, <1>13, <3>2 DEF SessionFlush, Goes, TypeOK, Threads
      <4>2. wqueue \in Seq(MessageSet) /\ msg \in [Threads -> MessageSet \cup {None}]
        BY <1>1 DEF TypeOK
      <4>3. /\ wqueue' \in Seq(MessageSet) /\ Head(wqueue) = wqueue[1] /\ 1 \in DOMAIN wqueue
            /\ Len(wqueue') = Len(wqueue) - 1
            /\ \A i \in DOMAIN wqueue' : wqueue'[i] = wqueue[i + 1] /\ i + 1 \in DOMAIN wqueue
        BY <3>2, <4>1, <4>2
      <4>4. Head(wqueue) \in Sendable /\ Head(wqueue) \in MessageSet
        BY <1>1, <4>2, <4>3 DEF MessagesInv
      <4>5. /\ msg' \in [Threads -> MessageSet \cup {None}]
            /\ msg'["io"] = Head(wqueue)
        BY <4>1, <4>2, <4>4 DEF Threads
      <4>6. Writing["io"] = 0 /\ Writing'["io"] = 1 /\ Writing'["sim"] = Writing["sim"]
            /\ Writing["sim"] \in Nat
        BY <1>4, <2>1, <4>1 DEF Writing, Writes, Threads
      <4>7. Unsent' = Unsent
        BY <1>8, <4>3, <4>6 DEF Unsent
      <4>8. \A i \in DOMAIN wqueue' : wqueue'[i] \in Sendable
        BY <1>1, <4>3 DEF MessagesInv
      <4> QED BY <4>3, <4>4, <4>5, <4>7, <4>8
    <3> QED BY <3>1, <3>2
  <2>3. Outward' = Outward /\ Sending' = Sending
    BY <1>7, <2>1, <2>2 DEF Outward, Sending
  <2>4. ExchangesInv' /\ SendsInv'
    BY <1>1, <1>7, <2>3 DEF ExchangesInv, SendsInv
  <2>5. TypeOK'
    BY <1>1, <1>10, <2>1, <2>2 DEF TypeOK
  <2>6. MessagesInv'
    BY <1>11, <2>2
  <2> QED BY <1>9, <2>4, <2>5, <2>6 DEF BasicInv, CountsInv
<1> QED BY <1>12, <1>13

\* The peer may trade what it holds for other messages, if it does not make more of them.
LEMMA PeerMayPass ==
  ASSUME BasicInv
  PROVE  \A l, u, p, s, a \in Nat :
           /\ l + u + p + s <= Len(toPeer) + Unconnected + Len(pqueue) + Len(toSession)
           /\ u + a <= Unconnected + Unanswered
           => /\ Unsent + l + (u + Unasked + p + s + alerts) <= 2
              /\ sends + Unsent + (u + Unasked + a) <= 2
<1>1. /\ Unconnected \in Nat /\ Unanswered \in Nat /\ Unasked \in Nat /\ Unsent \in Nat
      /\ Len(toPeer) \in Nat /\ Len(pqueue) \in Nat /\ Len(toSession) \in Nat
  <2>1. Unconnected \in 0..1 /\ Unanswered \in 0..1 /\ Unasked \in 0..1
    BY CountTypes DEF BasicInv, CountsInv
  <2>2. /\ Unsent \in Nat
        /\ Len(toPeer) \in Nat /\ Len(pqueue) \in Nat /\ Len(toSession) \in Nat
    BY CountTypes DEF BasicInv, CountsInv
  <2> QED BY <2>1, <2>2
<1>2. alerts \in Nat /\ sends \in Nat
  BY DEF BasicInv, TypeOK
<1>3. /\ (Unsent + Len(toPeer)) + (Unconnected + Unasked + Len(pqueue) + Len(toSession) + alerts) <= 2
      /\ (sends + Unsent) + (Unconnected + Unasked + Unanswered) <= 2
  BY DEF BasicInv, CountsInv, ExchangesInv, SendsInv, Outward, Backward, Sending, ToBegin
<1> QED BY <1>1, <1>2, <1>3

\* A step of the peer that passes its messages on
LEMMA PeerKeeps ==
  ASSUME BasicInv, UNCHANGED <<peerKeeps, kind>>,
         pstate' \in {"connected", "asked", "replaced"}, pinfo' \in Infos, pwriting' \in BOOLEAN,
         mishaps' \subseteq {"swallowed", "clobbered", "ignored"},
         toPeer' \in Seq(MessageSet), toSession' \in Seq(MessageSet), pqueue' \in Seq(MessageSet),
         \A i \in DOMAIN toPeer' : toPeer'[i] \in Sendable,
         \A i \in DOMAIN toSession' : toSession'[i] = TheAck \/ (i = 1 /\ toSession'[i] = ThePing),
         \A i \in DOMAIN pqueue' : pqueue'[i] = TheAck,
         Len(toPeer') + Unconnected' + Len(pqueue') + Len(toSession')
           <= Len(toPeer) + Unconnected + Len(pqueue) + Len(toSession),
         Unconnected' + Unanswered' <= Unconnected + Unanswered
  PROVE  BasicInv'
<1>1. TypeOK /\ StartInv /\ ReceivesInv /\ MessagesInv /\ ExchangesInv /\ SendsInv
  BY DEF BasicInv, CountsInv
<1>2. /\ Serving' = Serving /\ Sendable' = Sendable /\ ThePing' = ThePing /\ Unasked' = Unasked
      /\ Unsent' = Unsent /\ Reading' = Reading /\ Listening' = Listening /\ Asking' = Asking
      /\ sends' = sends /\ alerts' = alerts
  BY DEF peerKeeps, Serving, Sendable, ThePong, ThePing, Unasked, Unsent, Writing, Writes, Reading,
     Listening, Asking, writeVars, countVars
<1>3. MessagesInv'
  BY <1>1, <1>2 DEF MessagesInv, peerKeeps, writeVars
<1>4. ReceivesInv' /\ StartInv'
  BY <1>1, <1>2 DEF ReceivesInv, StartInv, peerKeeps, readVars
<1>5. ExchangesInv' /\ SendsInv'
  <2>2. /\ Len(toPeer') \in Nat /\ Unconnected' \in Nat /\ Len(pqueue') \in Nat
        /\ Len(toSession') \in Nat /\ Unanswered' \in Nat
    BY DEF Unconnected, Unanswered
  <2>4. /\ Unsent + Len(toPeer') + (Unconnected' + Unasked + Len(pqueue') + Len(toSession') + alerts) <= 2
        /\ sends + Unsent + (Unconnected' + Unasked + Unanswered') <= 2
    BY <2>2, PeerMayPass
  <2> QED BY <1>2, <2>4 DEF ExchangesInv, SendsInv, Outward, Backward, Sending, ToBegin
<1>6. TypeOK'
  BY <1>1 DEF TypeOK, peerKeeps, writeVars, countVars, infoVars, readVars
<1> QED BY <1>3, <1>4, <1>5, <1>6 DEF BasicInv, CountsInv

\* on_control_connect(), finish_control_write(), and the socket of a node that is activated again
LEMMA PeerBasic ==
  ASSUME BasicInv, PeerConnects \/ PeerWritten \/ NodeReplaced
  PROVE  BasicInv'
<1>1. TypeOK /\ StartInv /\ MessagesInv
  BY DEF BasicInv, CountsInv
<1>2. /\ UNCHANGED <<peerKeeps, kind, toPeer, pinfo, mishaps>>
  BY DEF PeerConnects, PeerWritten, NodeReplaced
<1>3. /\ toPeer \in Seq(MessageSet) /\ toSession \in Seq(MessageSet) /\ pqueue \in Seq(MessageSet)
      /\ pwriting \in BOOLEAN /\ pinfo \in Infos
      /\ mishaps \subseteq {"swallowed", "clobbered", "ignored"}
      /\ pstate \in {"connecting", "connected", "asked", "replaced"}
  BY <1>1 DEF TypeOK
<1>4. \A i \in DOMAIN toPeer' : toPeer'[i] \in Sendable
  BY <1>1, <1>2 DEF MessagesInv
<1>5. Len(toPeer') = Len(toPeer) /\ Len(toPeer) \in Nat
  BY <1>2, <1>3
<1>6. CASE PeerConnects
  <2>1. /\ pstate = "connecting" /\ pstate' = "connected" /\ pwriting' = TRUE /\ pqueue' = pqueue
        /\ toSession = <<>> /\ toSession' = Append(toSession, ThePing) /\ pqueue = <<>>
    BY <1>1, <1>6 DEF PeerConnects, PeerWrite, StartInv, ThePing
  <2>2. toSession' = <<ThePing>>
    BY <2>1
  <2>3. ThePing \in MessageSet
    BY <1>1, Known
  <2>4. /\ toSession' \in Seq(MessageSet) /\ Len(toSession') = 1 /\ Len(toSession) = 0
        /\ toSession'[1] = ThePing /\ toSession' # <<>>
        /\ \A i \in DOMAIN toSession' : i = 1 /\ toSession'[i] = ThePing
    BY <2>1, <2>2, <2>3
  <2>5. Unconnected = 1 /\ Unconnected' = 0 /\ Unanswered = 0 /\ Unanswered' = 1
    BY <1>2, <2>1, <2>4 DEF Unconnected, Unanswered, ThePing
  <2>6. /\ Len(toPeer') + Unconnected' + Len(pqueue') + Len(toSession')
             <= Len(toPeer) + Unconnected + Len(pqueue) + Len(toSession)
        /\ Unconnected' + Unanswered' <= Unconnected + Unanswered
    BY <1>5, <2>1, <2>4, <2>5
  <2>7. \A i \in DOMAIN pqueue' : pqueue'[i] = TheAck
    BY <1>1, <2>1 DEF MessagesInv
  <2> QED BY <1>2, <1>3, <1>4, <1>5, <2>1, <2>4, <2>6, <2>7, PeerKeeps
<1>7. CASE PeerWritten
  <2>1. pstate' = pstate /\ pwriting' \in BOOLEAN /\ pstate' # "connecting"
    BY <1>1, <1>7 DEF PeerWritten, StartInv
  <2>2. CASE pqueue = <<>>
    <3>1. UNCHANGED <<pqueue, toSession>>
      BY <1>7, <2>2 DEF PeerWritten
    <3>2. Unconnected' = Unconnected /\ Unanswered' = Unanswered
      BY <1>2, <2>1, <3>1 DEF Unconnected, Unanswered, ThePing
    <3>3. Unconnected \in Nat /\ Unanswered \in Nat /\ Len(pqueue) \in Nat /\ Len(toSession) \in Nat
      BY <1>1, CountTypes
    <3>4. /\ Len(toPeer') + Unconnected' + Len(pqueue') + Len(toSession')
               <= Len(toPeer) + Unconnected + Len(pqueue) + Len(toSession)
          /\ Unconnected' + Unanswered' <= Unconnected + Unanswered
      BY <1>5, <3>1, <3>2, <3>3
    <3>5. /\ \A i \in DOMAIN pqueue' : pqueue'[i] = TheAck
          /\ \A i \in DOMAIN toSession' : toSession'[i] = TheAck \/ (i = 1 /\ toSession'[i] = ThePing)
      BY <1>1, <3>1 DEF MessagesInv
    <3> QED BY <1>2, <1>3, <1>4, <1>5, <2>1, <3>1, <3>4, <3>5, PeerKeeps
  <2>3. CASE pqueue # <<>>
    <3>1. pqueue' = Tail(pqueue) /\ toSession' = Append(toSession, Head(pqueue))
      BY <1>7, <2>3 DEF PeerWritten
    <3>2. Head(pqueue) = TheAck /\ TheAck \in MessageSet /\ TheAck # ThePing
      <4>1. Head(pqueue) = pqueue[1] /\ 1 \in DOMAIN pqueue
        BY <1>3, <2>3
      <4> QED BY <1>1, <4>1, Known DEF MessagesInv
    <3>3. /\ pqueue' \in Seq(MessageSet) /\ Len(pqueue') = Len(pqueue) - 1
          /\ \A i \in DOMAIN pqueue' : pqueue'[i] = pqueue[i + 1] /\ i + 1 \in DOMAIN pqueue
      BY <1>3, <2>3, <3>1
    <3>4. /\ toSession' \in Seq(MessageSet) /\ Len(toSession') = Len(toSession) + 1
          /\ \A i \in DOMAIN toSession' :
               toSession'[i] = IF i = Len(toSession) + 1 THEN TheAck ELSE toSession[i]
          /\ toSession' # <<>> /\ 1 \in DOMAIN toSession'
      BY SMTT(30), <1>3, <3>1, <3>2
    <3>5. Unconnected' = Unconnected /\ Unanswered' = Unanswered
      <4>1. toSession # <<>> => Len(toSession) # 0 /\ toSession'[1] = toSession[1]
        BY <1>3, <3>4
      <4>2. toSession = <<>> => toSession'[1] = TheAck
        BY <3>4
      <4> QED BY <1>2, <2>1, <3>2, <3>4, <4>1, <4>2 DEF Unconnected, Unanswered, ThePing
    <3>6. Unconnected \in Nat /\ Unanswered \in Nat /\ Len(pqueue) \in Nat /\ Len(toSession) \in Nat
      BY <1>1, CountTypes
    <3>7. /\ Len(toPeer') + Unconnected' + Len(pqueue') + Len(toSession')
               <= Len(toPeer) + Unconnected + Len(pqueue) + Len(toSession)
          /\ Unconnected' + Unanswered' <= Unconnected + Unanswered
      BY <1>5, <3>3, <3>4, <3>5, <3>6
    <3>8. /\ \A i \in DOMAIN pqueue' : pqueue'[i] = TheAck
          /\ \A i \in DOMAIN toSession' : toSession'[i] = TheAck \/ (i = 1 /\ toSession'[i] = ThePing)
      <4>1. \A i \in DOMAIN toSession' : i # Len(toSession) + 1 => i \in DOMAIN toSession
        BY <1>3, <3>4
      <4> QED BY <1>1, <3>3, <3>4, <4>1 DEF MessagesInv
    <3> QED BY <1>2, <1>3, <1>4, <1>5, <2>1, <3>3, <3>4, <3>7, <3>8, PeerKeeps
  <2> QED BY <2>2, <2>3
<1>8. CASE NodeReplaced
  <2>1. /\ pstate' = "replaced" /\ UNCHANGED <<pwriting, pqueue, toSession>>
    BY <1>8 DEF NodeReplaced
  <2>2. Unconnected' = 0 /\ Unanswered' = Unanswered
    BY <1>2, <2>1 DEF Unconnected, Unanswered, ThePing
  <2>3. Unconnected \in {0, 1} /\ Unanswered \in Nat /\ Len(pqueue) \in Nat /\ Len(toSession) \in Nat
    BY <1>1, CountTypes
  <2>5. /\ Len(toPeer') + Unconnected' + Len(pqueue') + Len(toSession')
             <= Len(toPeer) + Unconnected + Len(pqueue) + Len(toSession)
        /\ Unconnected' + Unanswered' <= Unconnected + Unanswered
    BY <1>5, <2>1, <2>2, <2>3
  <2>6. /\ \A i \in DOMAIN pqueue' : pqueue'[i] = TheAck
        /\ \A i \in DOMAIN toSession' : toSession'[i] = TheAck \/ (i = 1 /\ toSession'[i] = ThePing)
    BY <1>1, <2>1 DEF MessagesInv
  <2> QED BY <1>2, <1>3, <1>4, <1>5, <2>1, <2>5, <2>6, PeerKeeps
<1> QED BY <1>6, <1>7, <1>8

\* An acknowledgement at the end of a stream changes nothing of its front.
LEMMA Acknowledges ==
  ASSUME TypeOK, MessagesInv, toSession' = Append(toSession, TheAck), kind' = kind
  PROVE  /\ toSession' \in Seq(MessageSet) /\ Len(toSession') = Len(toSession) + 1
         /\ \A i \in DOMAIN toSession' : toSession'[i] = TheAck \/ (i = 1 /\ toSession'[i] = ThePing)
         /\ Unanswered' = Unanswered
<1>1. toSession \in Seq(MessageSet) /\ TheAck \in MessageSet /\ TheAck # ThePing
  BY Known DEF TypeOK
<1>2. /\ toSession' \in Seq(MessageSet) /\ Len(toSession') = Len(toSession) + 1
      /\ \A i \in DOMAIN toSession' :
           toSession'[i] = IF i = Len(toSession) + 1 THEN TheAck ELSE toSession[i]
      /\ toSession' # <<>> /\ 1 \in DOMAIN toSession'
  BY <1>1
<1>3. \A i \in DOMAIN toSession' : i # Len(toSession) + 1 => i \in DOMAIN toSession
  BY <1>1, <1>2
<1>4. toSession # <<>> => Len(toSession) # 0 /\ toSession'[1] = toSession[1]
  BY <1>1, <1>2
<1>5. toSession = <<>> => toSession'[1] = TheAck
  BY <1>2
<1>6. Unanswered' = Unanswered
  BY <1>1, <1>2, <1>4, <1>5 DEF Unanswered, ThePing
<1> QED BY <1>2, <1>3, <1>6 DEF MessagesInv

\* finish_control_read(): what is taken from the stream makes room for its answer.
LEMMA PeerReadsBasic ==
  ASSUME BasicInv, PeerReads
  PROVE  BasicInv'
<1>1. TypeOK /\ StartInv /\ MessagesInv
  BY DEF BasicInv, CountsInv
<1>2. UNCHANGED <<peerKeeps, kind>> /\ pstate \in {"connected", "asked"}
  BY DEF PeerReads
<1>3. /\ toPeer \in Seq(MessageSet) /\ toSession \in Seq(MessageSet) /\ pqueue \in Seq(MessageSet)
      /\ pwriting \in BOOLEAN /\ pinfo \in Infos
      /\ mishaps \subseteq {"swallowed", "clobbered", "ignored"}
  BY <1>1 DEF TypeOK
<1>4. PICK k \in 1..Len(toPeer) :
           /\ toPeer' = Drop(toPeer, k) /\ mishaps' = mishaps \cup Swallowed(k)
           /\ \/ pinfo' \in Infos /\ UNCHANGED <<pstate, pwriting, pqueue, toSession>>
              \/ pstate' = "asked" /\ PeerWrite(TheAck) /\ pinfo' = pinfo
  BY <1>1, <1>3, PeerReadCases
<1>5. mishaps' \subseteq {"swallowed", "clobbered", "ignored"}
  BY <1>3, <1>4 DEF Swallowed
<1>6. /\ toPeer' \in Seq(MessageSet) /\ Len(toPeer') = Len(toPeer) - k
      /\ \A i \in 1..(Len(toPeer) - k) : toPeer'[i] = toPeer[k + i]
  BY <1>3, <1>4, Taken
<1>7. \A i \in DOMAIN toPeer' : toPeer'[i] \in Sendable
  <2>1. \A i \in DOMAIN toPeer' : i \in 1..(Len(toPeer) - k) /\ k + i \in DOMAIN toPeer
    BY <1>3, <1>6
  <2> QED BY <1>1, <1>6, <2>1 DEF MessagesInv
<1>8. Len(toPeer) \in Nat /\ k >= 1 /\ k \in Nat /\ k <= Len(toPeer)
  BY <1>3
<1>9. Unconnected' = Unconnected /\ Unconnected = 0
  BY <1>2, <1>4 DEF Unconnected
<1>10. /\ \A i \in DOMAIN pqueue : pqueue[i] = TheAck
       /\ \A i \in DOMAIN toSession : toSession[i] = TheAck \/ (i = 1 /\ toSession[i] = ThePing)
       /\ Len(pqueue) \in Nat /\ Len(toSession) \in Nat /\ Unanswered \in Nat /\ TheAck \in MessageSet
  <2>1. Unanswered \in Nat
    BY DEF Unanswered
  <2> QED BY <1>1, <1>3, <2>1, Known DEF MessagesInv
<1>11. CASE UNCHANGED <<pwriting, pqueue, toSession>> /\ pinfo' \in Infos /\ pstate' \in {"connected", "asked"}
  <2>1. Unanswered' = Unanswered
    BY <1>2, <1>11 DEF Unanswered, ThePing
  <2>2. /\ Len(toPeer') + Unconnected' + Len(pqueue') + Len(toSession')
             <= Len(toPeer) + Unconnected + Len(pqueue) + Len(toSession)
        /\ Unconnected' + Unanswered' <= Unconnected + Unanswered
    BY <1>6, <1>8, <1>9, <1>10, <1>11, <2>1
  <2> QED BY <1>2, <1>3, <1>5, <1>6, <1>7, <1>10, <1>11, <2>2, PeerKeeps
<1>12. CASE pstate' = "asked" /\ PeerWrite(TheAck) /\ pinfo' = pinfo
  <2>1. CASE pwriting
    <3>1. pqueue' = Append(pqueue, TheAck) /\ UNCHANGED <<pwriting, toSession>>
      BY <1>12, <2>1 DEF PeerWrite
    <3>2. /\ pqueue' \in Seq(MessageSet) /\ Len(pqueue') = Len(pqueue) + 1
          /\ \A i \in DOMAIN pqueue' : pqueue'[i] = IF i = Len(pqueue) + 1 THEN TheAck ELSE pqueue[i]
      BY <1>3, <1>10, <3>1
    <3>3. \A i \in DOMAIN pqueue' : i # Len(pqueue) + 1 => i \in DOMAIN pqueue
      BY <1>3, <3>2
    <3>4. \A i \in DOMAIN pqueue' : pqueue'[i] = TheAck
      BY <1>10, <3>2, <3>3
    <3>5. Unanswered' = Unanswered
      BY <1>2, <3>1 DEF Unanswered, ThePing
    <3>6. /\ Len(toPeer') + Unconnected' + Len(pqueue') + Len(toSession')
               <= Len(toPeer) + Unconnected + Len(pqueue) + Len(toSession)
          /\ Unconnected' + Unanswered' <= Unconnected + Unanswered
      BY <1>6, <1>8, <1>9, <1>10, <3>1, <3>2, <3>5
    <3> QED BY <1>2, <1>3, <1>5, <1>6, <1>7, <1>10, <1>12, <3>1, <3>2, <3>4, <3>6, PeerKeeps
  <2>2. CASE ~pwriting
    <3>1. pwriting' = TRUE /\ toSession' = Append(toSession, TheAck) /\ pqueue' = pqueue
      BY <1>12, <2>2 DEF PeerWrite
    <3>2. /\ toSession' \in Seq(MessageSet) /\ Len(toSession') = Len(toSession) + 1
          /\ \A i \in DOMAIN toSession' : toSession'[i] = TheAck \/ (i = 1 /\ toSession'[i] = ThePing)
          /\ Unanswered' = Unanswered
      BY <1>1, <1>2, <3>1, Acknowledges
    <3>3. /\ Len(toPeer') + Unconnected' + Len(pqueue') + Len(toSession')
               <= Len(toPeer) + Unconnected + Len(pqueue) + Len(toSession)
          /\ Unconnected' + Unanswered' <= Unconnected + Unanswered
      BY <1>6, <1>8, <1>9, <1>10, <3>1, <3>2
    <3> QED BY <1>2, <1>3, <1>5, <1>6, <1>7, <1>10, <1>12, <3>1, <3>2, <3>3, PeerKeeps
  <2> QED BY <1>3, <2>1, <2>2
<1> QED BY <1>2, <1>4, <1>11, <1>12

\* handle_read(): the PING is answered with one PONG, the acknowledgement is counted once.
LEMMA ReadsBasic ==
  ASSUME BasicInv, SessionReads
  PROVE  BasicInv'
<1>1. TypeOK /\ StartInv /\ MessagesInv /\ ReceivesInv /\ ExchangesInv /\ SendsInv
  BY DEF BasicInv, CountsInv
<1>2. /\ UNCHANGED <<sstate, writeVars, toPeer, peerVars, closed, open, quiet>>
      /\ receives # 0 /\ reading' = FALSE /\ receives' = receives - 1
  BY <1>1 DEF SessionReads, TypeOK
<1>3. PICK k \in 1..Len(toSession) :
        /\ toSession' = Drop(toSession, k)
        /\ \/ /\ toSession[1] = ThePing
              /\ IoGoes("test") /\ after' = "active"
              /\ info' = TypeOf(kind) /\ node_id' = Id /\ msg' = [msg EXCEPT !["io"] = ThePong]
              /\ alerts' = alerts
           \/ /\ IoGoes("rearm") /\ UNCHANGED <<infoVars, msg, after>>
              /\ toSession[1] = ThePing \/ toSession[1] = TheAck
              /\ alerts' = alerts \/ alerts' = alerts + 1
        /\ \E x \in {{}, {"ignored"}} : mishaps' = mishaps \cup Swallowed(k) \cup x
  BY <1>1, SessionReadCases
<1>4. PICK to \in {"test", "rearm"} : Goes("io", "idle", to) /\ IoGoes(to)
  BY <1>3 DEF IoGoes
<1>5. /\ pc["io"] = "idle" /\ pc'["io"] = to /\ pc'["sim"] = pc["sim"]
      /\ pc' \in [Threads -> IoPcs \cup SimPcs] /\ pc'["io"] \in IoPcs /\ pc'["sim"] \in SimPcs
  BY <1>1, <1>4, GoesTo DEF Threads, IoPcs, WritePcs
<1>6. /\ toSession \in Seq(MessageSet) /\ msg \in [Threads -> MessageSet \cup {None}]
      /\ toSession' \in Seq(MessageSet) /\ Len(toSession') = Len(toSession) - k
      /\ Len(toSession) \in Nat /\ k \in Nat /\ k >= 1 /\ k <= Len(toSession)
      /\ \A i \in 1..(Len(toSession) - k) : toSession'[i] = toSession[k + i]
  <2>1. toSession \in Seq(MessageSet) /\ msg \in [Threads -> MessageSet \cup {None}]
    BY <1>1 DEF TypeOK
  <2>2. toSession' = Drop(toSession, k)
    BY <1>3
  <2>3. /\ Drop(toSession, k) \in Seq(MessageSet) /\ Len(Drop(toSession, k)) = Len(toSession) - k
        /\ \A i \in 1..(Len(toSession) - k) : Drop(toSession, k)[i] = toSession[k + i]
    BY <2>1, Taken
  <2>4. Len(toSession) \in Nat /\ k \in Nat /\ k >= 1 /\ k <= Len(toSession)
    BY <2>1
  <2> QED BY <2>1, <2>2, <2>3, <2>4
<1>7. \A i \in DOMAIN toSession' : toSession'[i] = TheAck
  <2>1. \A i \in DOMAIN toSession' : i \in 1..(Len(toSession) - k) /\ k + i \in DOMAIN toSession /\ k + i # 1
    BY <1>6
  <2> QED BY <1>1, <1>6, <2>1 DEF MessagesInv
<1>8. /\ Serving' = Serving /\ ThePing' = ThePing /\ ThePong' = ThePong
      /\ msg'["sim"] = msg["sim"] /\ msg' \in [Threads -> MessageSet \cup {None}]
      /\ (to = "test" => msg'["io"] = ThePong /\ after' = "active" /\ toSession[1] = ThePing
                         /\ alerts' = alerts)
      /\ after' \in {"idle", "active", "rearm"} /\ info' \in Infos /\ node_id' \in NodeIds
  <2>1. ThePong \in MessageSet /\ TypeOf(kind) \in Infos
    BY <1>1, Known, Types DEF Infos, TypeOK
  <2>2. Serving' = Serving /\ ThePing' = ThePing /\ ThePong' = ThePong
    BY <1>2, <1>5 DEF Serving, ThePing, ThePong, peerVars
  <2>3. CASE IoGoes("test") /\ after' = "active" /\ msg' = [msg EXCEPT !["io"] = ThePong]
             /\ info' = TypeOf(kind) /\ node_id' = Id
    <3>1. /\ msg' \in [Threads -> MessageSet \cup {None}]
          /\ msg'["sim"] = msg["sim"] /\ msg'["io"] = ThePong
      BY <1>6, <2>1, <2>3 DEF Threads
    <3>2. to = "test" => toSession[1] = ThePing /\ alerts' = alerts
      BY <1>1, <1>3, <1>5 DEF IoGoes, Goes, Threads, TypeOK
    <3> QED BY <2>1, <2>2, <2>3, <3>1, <3>2 DEF NodeIds
  <2>4. CASE IoGoes("rearm") /\ UNCHANGED <<infoVars, msg, after>>
    <3>1. to = "rearm"
      BY <1>1, <1>5, <2>4 DEF IoGoes, Goes, Threads, TypeOK
    <3> QED BY <1>1, <1>6, <2>2, <2>4, <3>1 DEF TypeOK, infoVars
  <2> QED BY <1>3, <2>3, <2>4
<1>9. MessagesInv'
  <2>1. Sendable' = Sendable
    BY <1>8 DEF Sendable
  <2>2. pc'["io"] \in WritePcs => msg'["io"] \in Sendable
    BY <1>1, <1>4, <1>5, <1>8, Known DEF WritePcs
  <2>3. (\E t \in Threads : pc'[t] = "send") => buffer' \in Sendable
    BY <1>1, <1>2, <1>4, <1>5 DEF MessagesInv, Threads, writeVars
  <2>4. /\ \A i \in DOMAIN wqueue' : wqueue'[i] \in Sendable
        /\ \A i \in DOMAIN toPeer' : toPeer'[i] \in Sendable
        /\ \A i \in DOMAIN pqueue' : pqueue'[i] = TheAck
    BY <1>1, <1>2 DEF MessagesInv, writeVars, peerVars
  <2>5. msg'["sim"] \in IF Serving' THEN {None} ELSE Requests
    BY <1>1, <1>8 DEF MessagesInv
  <2> QED BY <1>7, <2>1, <2>2, <2>3, <2>4, <2>5 DEF MessagesInv
<1>10. ReceivesInv' /\ StartInv'
  <2>1. sstate # "none"
    BY <1>1, <1>2 DEF StartInv, ReceivesInv, Reading, Listening, Asking, Serving, TypeOK
  <2>2. pstate' # "connecting"
    BY <1>1, <1>2, <1>6 DEF StartInv, peerVars
  <2>3. Reading = 0 /\ Reading' = 1 /\ Listening' = Listening /\ Asking' = Asking
    BY <1>2, <1>4, <1>5, <1>8, <2>1 DEF Reading, Listening, Asking, WritePcs
  <2>4. receives \in Nat /\ receives + 0 <= Listening + Asking
    BY <1>1, <2>3 DEF ReceivesInv, TypeOK
  <2>5. (receives - 1) + 1 <= Listening + Asking
    BY <2>4
  <2> QED BY <1>2, <2>1, <2>2, <2>3, <2>5 DEF ReceivesInv, StartInv
<1>11. /\ Unsent' = Unsent + (IF to = "test" THEN 1 ELSE 0)
       /\ Unanswered' = 0 /\ (to = "test" => Unanswered = 1)
       /\ Unconnected' = Unconnected /\ Unasked' = Unasked
  <2>1. /\ Writing["io"] = 0 /\ Writing'["io"] = (IF to = "test" THEN 1 ELSE 0)
        /\ Writing'["sim"] = Writing["sim"] /\ Writing["sim"] \in Nat
    BY <1>4, <1>5 DEF Writing, Writes, Threads
  <2>2. Len(wqueue) \in Nat /\ wqueue' = wqueue
    BY <1>1, <1>2 DEF TypeOK, writeVars
  <2>3. ThePing # TheAck
    BY <1>1, Known
  <2>4. toSession' # <<>> => toSession'[1] = TheAck
    BY <1>6, <1>7
  <2>5. Unanswered' = 0
    BY <1>8, <2>3, <2>4 DEF Unanswered
  <2>6. to = "test" => Unanswered = 1
    BY <1>6, <1>8 DEF Unanswered
  <2>7. Unconnected' = Unconnected /\ Unasked' = Unasked
    BY <1>2, <1>8 DEF Unconnected, Unasked, peerVars
  <2>8. Unsent' = Unsent + (IF to = "test" THEN 1 ELSE 0)
    BY <2>1, <2>2 DEF Unsent
  <2> QED BY <2>5, <2>6, <2>7, <2>8
<1>12. ExchangesInv' /\ SendsInv' /\ alerts' \in 0..2 /\ alerts' >= alerts
  <2>1. /\ Unsent \in Nat /\ Unconnected \in 0..1 /\ Unasked \in 0..1 /\ Unanswered \in 0..1
        /\ Len(toPeer) \in Nat /\ Len(pqueue) \in Nat
    BY <1>1, CountTypes
  <2>2. alerts \in Nat /\ sends \in Nat
    BY <1>1 DEF TypeOK
  <2>3. /\ (Unsent + Len(toPeer)) + (Unconnected + Unasked + Len(pqueue) + Len(toSession) + alerts) <= 2
        /\ (sends + Unsent) + (Unconnected + Unasked + Unanswered) <= 2
    BY <1>1 DEF ExchangesInv, SendsInv, Outward, Backward, Sending, ToBegin
  <2>4. /\ toPeer' = toPeer /\ pqueue' = pqueue /\ sends' = sends
    BY <1>2 DEF writeVars, peerVars
  <2>5. PICK a \in {0, 1} : /\ alerts' = alerts + a /\ (to = "test" => a = 0)
    <3>1. alerts' = alerts + 0 \/ alerts' = alerts + 1
      BY <1>3, <2>2
    <3>2. to = "test" => alerts' = alerts + 0
      BY <1>8, <2>2
    <3> QED BY <1>4, <3>1, <3>2
  <2>6. PICK w \in {0, 1} : /\ Unsent' = Unsent + w /\ w + a <= 1 /\ w <= Unanswered
    BY <1>4, <1>11, <2>1, <2>5
  <2>7. /\ (Unsent + w) + Len(toPeer)
            + (Unconnected + Unasked + Len(pqueue) + (Len(toSession) - k) + (alerts + a)) <= 2
        /\ (sends + (Unsent + w)) + (Unconnected + Unasked + 0) <= 2
        /\ alerts + a \in 0..2 /\ alerts + a >= alerts
    BY <1>6, <2>1, <2>2, <2>3, <2>5, <2>6
  <2> QED BY <1>6, <1>11, <2>4, <2>5, <2>6, <2>7 DEF ExchangesInv, SendsInv, Outward, Backward, Sending, ToBegin
<1>13. TypeOK'
  <2>1. mishaps' \subseteq {"swallowed", "clobbered", "ignored"}
    BY <1>1, <1>3 DEF TypeOK, Swallowed
  <2>2. receives' \in 0..2
    <3>1. receives \in 0..2 /\ receives - 1 \in 0..2
      BY <1>1, <1>2 DEF TypeOK
    <3> QED BY <1>2, <3>1
  <2>3. closed' \in 0..2 /\ closed' <= alerts'
    <3>1. closed \in 0..2 /\ closed <= alerts /\ closed' = closed /\ alerts \in 0..2
      BY <1>1, <1>2 DEF TypeOK
    <3>2. \A x \in 0..2 : x >= alerts => closed <= x
      BY <3>1
    <3> QED BY <1>12, <3>1, <3>2
  <2> QED BY <1>1, <1>2, <1>5, <1>6, <1>8, <1>12, <2>1, <2>2, <2>3 DEF TypeOK, writeVars, peerVars
<1> QED BY <1>9, <1>10, <1>12, <1>13 DEF BasicInv, CountsInv

LEMMA StutterBasic == BasicInv /\ UNCHANGED vars => BasicInv'
<1> SUFFICES ASSUME BasicInv, UNCHANGED vars PROVE BasicInv'
  OBVIOUS
<1>1. UNCHANGED <<pc, msg, after, sstate, info, node_id, reading, receives, writing, sends, buffer, wqueue,
                  toPeer, toSession, kind, pstate, pinfo, pwriting, pqueue, alerts, closed, open, quiet,
                  mishaps>>
  BY DEF vars, threadVars, infoVars, readVars, writeVars, peerVars, countVars
<1>2. TypeOK'
  BY <1>1 DEF BasicInv, TypeOK
<1>3. MessagesInv'
  BY <1>1 DEF BasicInv, MessagesInv, Sendable, Serving, ThePong, ThePing
<1>4. CountsInv'
  BY <1>1 DEF BasicInv, CountsInv, ExchangesInv, SendsInv, ReceivesInv, StartInv, Outward, Backward,
     Sending, ToBegin, Unsent, Unconnected, Unasked, Unanswered, Writing, Writes, Reading, Listening,
     Asking, Serving, ThePing
<1> QED BY <1>2, <1>3, <1>4 DEF BasicInv

LEMMA NextBasic == BasicInv /\ [Next]_vars => BasicInv'
<1> SUFFICES ASSUME BasicInv, [Next]_vars PROVE BasicInv'
  OBVIOUS
<1>1. CASE Session
  BY <1>1, HandlersBasic, ReadsBasic, WrittenBasic DEF Session
<1>2. CASE Peer \/ NodeReplaced
  BY <1>2, PeerBasic, PeerReadsBasic DEF Peer
<1>3. CASE SimBegin
  BY <1>3, BeginBasic
<1>4. CASE Write("io") \/ Write("sim")
  BY <1>4, WriteBasic DEF Threads
<1>5. CASE SimState \/ SimReceive \/ SimPoll \/ SimDrained \/ MainStop
  BY <1>5, SimBasic
<1>6. CASE UNCHANGED vars
  BY <1>6, StutterBasic
<1> QED BY <1>1, <1>2, <1>3, <1>4, <1>5, <1>6 DEF Next, Io, SimStep

LEMMA BasicIsKept == Spec => []BasicInv
BY InitBasic, NextBasic, PTL DEF Spec

\* What a connection holds stays within its types: in particular no more than two receives and
\* two sends are ever outstanding, and the session is not counted more than twice.
THEOREM SessionTypesHold == Spec => []TypeOK
<1>1. BasicInv => TypeOK
  BY DEF BasicInv
<1> QED BY <1>1, BasicIsKept, PTL

-----------------------------------------------------------------------------
(* The peer whose shutdown is counted was asked *)

\* Whom the request names does not change once it is made, and what went wrong is not forgotten.
LEMMA RequestStays ==
  ASSUME BasicInv, [Next]_vars
  PROVE  /\ kind' = kind /\ mishaps \subseteq mishaps'
         /\ pstate = "asked" => pstate' = "asked"
         /\ ~Serving => ~Serving' /\ msg'["sim"] = msg["sim"]
<1>1. TypeOK /\ MessagesInv
  BY DEF BasicInv
<1>2. pc \in [Threads -> IoPcs \cup SimPcs] /\ msg \in [Threads -> MessageSet \cup {None}]
  BY <1>1 DEF TypeOK
<1>3. CASE Session
  <2>1. CASE SessionReads
    <3>1. PICK k \in 1..Len(toSession) : mishaps \subseteq mishaps' /\ msg'["sim"] = msg["sim"]
      BY <1>1, <1>2, <2>1, SessionReadCases DEF Threads
    <3>2. PICK to : IoGoes(to)
      BY <1>1, <2>1, SessionReadCases
    <3>3. pc'["sim"] = pc["sim"]
      BY <1>2, <3>2 DEF IoGoes, Goes, Threads
    <3> QED BY <2>1, <3>1, <3>3 DEF SessionReads, peerVars, Serving
  <2>2. CASE ~SessionReads
    <3>1. UNCHANGED <<peerVars, mishaps>>
      BY <1>3, <2>2 DEF Session, SessionAccept, SessionStart, SessionListen, SessionActive,
         SessionRearm, SessionReadFails, SessionReadsEnd, SessionWritten, SessionFlush
    <3>2. msg'["sim"] = msg["sim"]
      BY <1>2, <1>3, <2>2 DEF Session, SessionAccept, SessionStart, SessionListen, SessionActive,
         SessionRearm, SessionReadFails, SessionReadsEnd, SessionWritten, SessionFlush, Threads
    <3>3. pc'["sim"] = pc["sim"]
      <4>1. PICK from, to : Goes("io", from, to)
        BY <1>3, <2>2 DEF Session, SessionAccept, SessionStart, SessionListen, SessionActive,
           SessionRearm, SessionReadFails, SessionReadsEnd, SessionWritten, SessionFlush, IoGoes
      <4> QED BY <1>2, <4>1 DEF Goes, Threads
    <3> QED BY <3>1, <3>2, <3>3 DEF peerVars, Serving
  <2> QED BY <2>1, <2>2
<1>4. CASE Peer \/ NodeReplaced
  <2>1. UNCHANGED <<peerKeeps, kind>>
    BY <1>4 DEF Peer, PeerConnects, PeerReads, PeerWritten, NodeReplaced
  <2>2. mishaps \subseteq mishaps'
    BY <1>4 DEF Peer, PeerConnects, PeerReads, PeerWritten, NodeReplaced
  <2>3. pstate = "asked" => pstate' = "asked"
    BY <1>1, <1>4, PeerReadCases DEF Peer, PeerConnects, PeerWritten, NodeReplaced
  <2> QED BY <2>1, <2>2, <2>3 DEF peerKeeps, Serving
<1>5. CASE SimBegin
  BY <1>5 DEF SimBegin, Goes, peerVars, Serving
<1>6. CASE Write("io") \/ Write("sim")
  <2>1. PICK t \in Threads : Write(t)
    BY <1>6 DEF Threads
  <2>2. UNCHANGED <<msg, peerVars>> /\ mishaps \subseteq mishaps'
    BY <2>1 DEF Write, WriteTest, WritePush, WriteBuffer, WriteSend, WriteMark
  <2>3. ~Serving => ~Serving'
    <3>1. PICK to : Goes(t, pc[t], to) /\ (to = Return(t) \/ to \in {"push", "buffer", "send", "mark"})
      BY <2>1 DEF Write, WriteTest, WritePush, WriteBuffer, WriteSend, WriteMark, Goes
    <3>2. Return(t) # "serving"
      BY <1>1 DEF Return, TypeOK
    <3> QED BY <1>2, <3>1, <3>2 DEF Goes, Threads, Serving
  <2> QED BY <2>2, <2>3 DEF peerVars
<1>7. CASE SimState \/ SimReceive \/ SimPoll \/ SimDrained \/ MainStop
  <2>1. UNCHANGED <<msg, peerVars, mishaps>>
    BY <1>7 DEF SimState, SimReceive, SimPoll, SimDrained, MainStop, threadVars
  <2>2. ~Serving => ~Serving'
    BY <1>2, <1>7 DEF SimState, SimReceive, SimPoll, SimDrained, MainStop, threadVars, Goes, Serving,
       Threads
  <2> QED BY <2>1, <2>2 DEF peerVars
<1>8. CASE UNCHANGED vars
  BY <1>8 DEF vars, threadVars, peerVars, Serving
<1> QED BY <1>3, <1>4, <1>5, <1>6, <1>7, <1>8 DEF Next, Io, SimStep

LEMMA NextAsked ==
  ASSUME BasicInv, AskedInv, [Next]_vars
  PROVE  AskedInv'
<1>1. TypeOK /\ MessagesInv /\ StartInv
  BY DEF BasicInv, CountsInv
<1>2. ThePing # TheAck
  BY <1>1, Known
<1>3. ASSUME Acked PROVE AskedInv'
  BY <1>3, RequestStays DEF AskedInv, NamesPeer, Accepts
<1>4. ASSUME ~Acked, Acked' PROVE AskedInv'
  <2>1. CASE SessionReads
    <3>1. PICK k \in 1..Len(toSession) :
            /\ toSession' = Drop(toSession, k)
            /\ toSession[1] = TheAck \/ alerts' = alerts
      BY <1>1, <2>1, SessionReadCases
    <3>2. toSession \in Seq(MessageSet) /\ 1 \in DOMAIN toSession
      BY <1>1, <3>1 DEF TypeOK
    <3>3. /\ Drop(toSession, k) \in Seq(MessageSet) /\ Len(Drop(toSession, k)) = Len(toSession) - k
          /\ \A i \in 1..(Len(toSession) - k) : Drop(toSession, k)[i] = toSession[k + i]
      BY <3>2, Taken
    <3>4. \A i \in DOMAIN toSession' : \E j \in DOMAIN toSession : toSession'[i] = toSession[j]
      <4>1. TAKE i \in DOMAIN toSession'
      <4>2. k + i \in DOMAIN toSession /\ toSession'[i] = toSession[k + i]
        BY <3>1, <3>2, <3>3
      <4> QED BY <4>2
    <3>5. alerts' = alerts /\ pqueue' = pqueue
      BY <1>4, <2>1, <3>1, <3>2 DEF Acked, SessionReads, peerVars
    <3> QED BY <1>4, <3>4, <3>5 DEF Acked
  <2>2. CASE PeerReads
    <3>1. PICK k \in 1..Len(toPeer) :
            /\ mishaps' = mishaps \cup Swallowed(k)
            /\ \/ UNCHANGED <<pqueue, toSession>>
               \/ ~Serving /\ (NamesPeer \/ k > 1) /\ pstate' = "asked"
      BY <1>1, <2>2, PeerReadCases
    <3>2. alerts' = alerts
      BY <2>2 DEF PeerReads, peerKeeps, countVars
    <3>3. ~Serving /\ (NamesPeer \/ k > 1) /\ pstate' = "asked"
      BY <1>4, <3>1, <3>2 DEF Acked
    <3>4. ~Serving' /\ msg'["sim"] = msg["sim"] /\ kind' = kind
      BY <3>3, RequestStays
    <3>5. k > 1 => "swallowed" \in mishaps'
      BY <3>1 DEF Swallowed
    <3> QED BY <3>1, <3>3, <3>4, <3>5 DEF AskedInv, NamesPeer, Accepts
  <2>3. CASE PeerWritten
    <3>1. alerts' = alerts
      BY <2>3 DEF PeerWritten, peerKeeps, countVars
    <3>2. pqueue = <<>>
      BY <1>4 DEF Acked
    <3>3. UNCHANGED <<pqueue, toSession>>
      BY <2>3, <3>2 DEF PeerWritten
    <3> QED BY <1>4, <3>1, <3>3 DEF Acked
  <2>4. CASE PeerConnects
    <3>1. alerts' = alerts /\ pqueue' = pqueue /\ toSession' = Append(toSession, ThePing) /\ toSession = <<>>
      BY <1>1, <2>4 DEF PeerConnects, peerKeeps, countVars, PeerWrite, StartInv, ThePing
    <3>2. toSession' = <<ThePing>>
      BY <3>1
    <3> QED BY <1>2, <1>4, <3>1, <3>2 DEF Acked
  <2>5. CASE UNCHANGED <<alerts, pqueue, toSession>>
    BY <1>4, <2>5 DEF Acked
  <2>6. CASE ~(SessionReads \/ Peer)
    <3>1. UNCHANGED <<alerts, pqueue, toSession>>
      BY <2>6 DEF Next, Io, Session, SessionAccept, SessionStart, SessionListen, SessionActive,
         SessionRearm, SessionReadFails, SessionReadsEnd, SessionWritten, SessionFlush,
         NodeReplaced, peerKeeps, SimBegin, SimStep, Write, WriteTest, WritePush, WriteBuffer,
         WriteSend, WriteMark, SimState, SimReceive, SimPoll, SimDrained, MainStop, peerVars, countVars,
         vars
    <3> QED BY <2>5, <3>1
  <2> QED BY <2>1, <2>2, <2>3, <2>4, <2>6 DEF Peer
<1>5. ASSUME ~Acked' PROVE AskedInv'
  BY <1>5 DEF AskedInv
<1> QED BY <1>3, <1>4, <1>5

\* The peer whose shutdown is counted has been asked for it and answered.  An answer can only be
\* counted, queued or under way when the request has reached the peer, and the peer answers
\* nothing else with an acknowledgement.
THEOREM CountedPeersWereAsked == Spec => []CountedAfterAsked
<1>1. Init => AskedInv
  BY DEF Init, AskedInv, Acked
<1>2. BasicInv /\ AskedInv /\ [Next]_vars => AskedInv'
  BY NextAsked
<1>3. AskedInv /\ BasicInv => CountedAfterAsked
  BY DEF AskedInv, Acked, CountedAfterAsked, BasicInv, TypeOK
<1> QED BY <1>1, <1>2, <1>3, BasicIsKept, PTL DEF Spec

-----------------------------------------------------------------------------
(* It is counted once *)

LEMMA NumberOfMoves ==
  ASSUME NEW S, NEW s \in Seq(S), NEW id
  PROVE  /\ NumberOf(s, id) \in Nat
         /\ NumberOf(<<>>, id) = 0
         /\ \A m : Len(s) <= 1 => NumberOf(Append(s, m), id) = NumberOf(s, id) + Has(m, id)
         /\ Len(s) <= 2 /\ s # <<>> =>
              NumberOf(Tail(s), id) = NumberOf(s, id) - Has(s[1], id)
         /\ \A k \in 1..Len(s) : Len(s) <= 2 =>
              NumberOf(Drop(s, k), id) <= NumberOf(s, id) - Has(s[1], id)
<1>1. Len(s) \in Nat /\ \A m : Has(m, id) \in {0, 1}
  BY DEF Has
<1>2. NumberOf(s, id) \in Nat
  BY <1>1 DEF NumberOf
<1>3. NumberOf(<<>>, id) = 0
  BY DEF NumberOf
<1>4. ASSUME NEW m, Len(s) <= 1
      PROVE  NumberOf(Append(s, m), id) = NumberOf(s, id) + Has(m, id)
  <2>1. Len(Append(s, m)) = Len(s) + 1 /\ Append(s, m)[Len(s) + 1] = m
        /\ (Len(s) = 1 => Append(s, m)[1] = s[1])
    OBVIOUS
  <2>2. CASE Len(s) = 0
    BY <1>1, <2>1, <2>2 DEF NumberOf
  <2>3. CASE Len(s) = 1
    BY <1>1, <2>1, <2>3 DEF NumberOf
  <2>4. Len(s) = 0 \/ Len(s) = 1
    <3>1. Len(s) \in Nat
      OBVIOUS
    <3>2. \A n \in Nat : n <= 1 => n = 0 \/ n = 1
      OBVIOUS
    <3> QED BY <1>4, <3>1, <3>2
  <2> QED BY <2>2, <2>3, <2>4
<1>5. ASSUME Len(s) <= 2, s # <<>>
      PROVE  NumberOf(Tail(s), id) = NumberOf(s, id) - Has(s[1], id)
  <2>1. Len(s) \in {1, 2} /\ Len(Tail(s)) = Len(s) - 1
        /\ (Len(s) = 2 => Tail(s)[1] = s[2])
    <3>1. Len(s) \in Nat /\ Len(s) # 0
      BY <1>5
    <3>3. \A n \in Nat : n <= 2 /\ n # 0 => n = 1 \/ n = 2
      OBVIOUS
    <3>2. Len(s) = 1 \/ Len(s) = 2
      BY <1>5, <3>1, <3>3
    <3> QED BY <1>5, <3>2
  <2> QED BY <1>1, <2>1 DEF NumberOf
<1>6. ASSUME NEW k \in 1..Len(s), Len(s) <= 2
      PROVE  NumberOf(Drop(s, k), id) <= NumberOf(s, id) - Has(s[1], id)
  <2>1. Len(Drop(s, k)) = Len(s) - k /\ \A i \in 1..(Len(s) - k) : Drop(s, k)[i] = s[k + i]
    BY Taken
  <2>2. CASE Len(s) = 2 /\ k = 1
    BY <1>1, <2>1, <2>2 DEF NumberOf
  <2>3. CASE k = Len(s)
    BY <1>1, <1>6, <2>1, <2>3 DEF NumberOf
  <2>4. \A n \in Nat : \A j \in 1..n : n <= 2 => j = n \/ (n = 2 /\ j = 1)
    OBVIOUS
  <2>5. Len(s) \in Nat
    OBVIOUS
  <2> QED BY <1>6, <2>2, <2>3, <2>4, <2>5
<1> QED BY <1>2, <1>3, <1>4, <1>5, <1>6

LEMMA Short ==
  ASSUME BasicInv
  PROVE  /\ Len(wqueue) <= 2 /\ Len(toPeer) <= 2 /\ Len(toSession) <= 2
         /\ Len(wqueue) \in Nat /\ Len(toPeer) \in Nat /\ Len(toSession) \in Nat /\ Len(pqueue) \in Nat
         /\ wqueue \in Seq(MessageSet) /\ toPeer \in Seq(MessageSet) /\ toSession \in Seq(MessageSet)
         /\ pqueue \in Seq(MessageSet)
         /\ (\E t \in Threads : Writes(t)) => Len(wqueue) <= 1 /\ Len(toPeer) <= 1
         /\ pqueue # <<>> \/ toPeer # <<>> => Len(toSession) <= 1
<1>1. TypeOK /\ ExchangesInv
  BY DEF BasicInv, CountsInv
<1>2. /\ wqueue \in Seq(MessageSet) /\ toPeer \in Seq(MessageSet) /\ toSession \in Seq(MessageSet)
      /\ pqueue \in Seq(MessageSet) /\ alerts \in Nat
  BY <1>1 DEF TypeOK
<1>3. /\ Writing["io"] \in Nat /\ Writing["sim"] \in Nat /\ Unconnected \in Nat /\ Unasked \in Nat
  BY DEF Writing, Unconnected, Unasked, Threads
<1>4. (Len(wqueue) + Writing["io"] + Writing["sim"] + Len(toPeer))
        + (Unconnected + Unasked + Len(pqueue) + Len(toSession) + alerts) <= 2
  BY <1>1 DEF ExchangesInv, Outward, Backward, Unsent
<1>5. (\E t \in Threads : Writes(t)) => Writing["io"] = 1 \/ Writing["sim"] = 1
  BY DEF Writing, Threads
<1>6. /\ Len(wqueue) \in Nat /\ Len(toPeer) \in Nat /\ Len(toSession) \in Nat /\ Len(pqueue) \in Nat
      /\ (pqueue # <<>> => Len(pqueue) # 0) /\ (toPeer # <<>> => Len(toPeer) # 0)
  BY <1>2
<1>7. Len(wqueue) <= 2 /\ Len(toPeer) <= 2 /\ Len(toSession) <= 2
  BY <1>2, <1>3, <1>4, <1>6
<1>8. Writing["io"] = 1 \/ Writing["sim"] = 1 => Len(wqueue) <= 1 /\ Len(toPeer) <= 1
  BY SMTT(30), <1>2, <1>3, <1>4, <1>6
<1>9. Len(pqueue) # 0 \/ Len(toPeer) # 0 => Len(toSession) <= 1
  <2>1. Len(toPeer) + Len(pqueue) + Len(toSession) <= 2
    BY <1>2, <1>3, <1>4, <1>6
  <2> QED BY <1>6, <2>1
<1> QED BY <1>2, <1>5, <1>6, <1>7, <1>8, <1>9

LEMMA DueTypes ==
  ASSUME BasicInv
  PROVE  /\ Pending \in Nat /\ Queued \in Nat /\ OnTheWay \in Nat /\ Answers \in Nat
         /\ Unasked \in Nat /\ Writing["sim"] \in Nat /\ IoAsks \in Nat /\ alerts \in Nat
<1>1. Unasked \in Nat /\ Writing["sim"] \in Nat /\ IoAsks \in Nat
  BY DEF Unasked, Writing, IoAsks, Has, Threads
<1>2. Queued \in Nat /\ OnTheWay \in Nat /\ NumberOf(toSession, "ACK") \in Nat
  BY Short, NumberOfMoves DEF Queued, OnTheWay
<1>3. alerts \in Nat /\ Len(pqueue) \in Nat
  BY Short DEF BasicInv, TypeOK
<1> QED BY <1>1, <1>2, <1>3 DEF Pending, Answers

\* What a request and the other messages say they are
LEMMA Ids ==
  ASSUME BasicInv
  PROVE  /\ ~Serving => Has(msg["sim"], "NODE_SHUTDOWN_REQUEST") = 1
         /\ Has(ThePong, "NODE_SHUTDOWN_REQUEST") = 0
         /\ Has(ThePing, "ACK") = 0 /\ Has(TheAck, "ACK") = 1
         /\ \A m \in Requests : Has(m, "NODE_SHUTDOWN_REQUEST") = 1
<1>1. \A m \in Requests : Has(m, "NODE_SHUTDOWN_REQUEST") = 1
  BY Headers DEF Requests, Has
<1>2. ~Serving => msg["sim"] \in Requests
  BY DEF BasicInv, MessagesInv
<1> QED BY <1>1, <1>2, Headers DEF Has, ThePong, ThePing

\* write_message(): the request is passed on, and sent once while each thread sends its own buffer.
LEMMA WriteOnce ==
  ASSUME BasicInv, Once, NEW t \in Threads, Write(t), "clobbered" \notin mishaps'
  PROVE  Once'
<1> DEFINE h == Has(msg[t], "NODE_SHUTDOWN_REQUEST")
<1>1. TypeOK /\ MessagesInv
  BY DEF BasicInv
<1>2. pc \in [Threads -> IoPcs \cup SimPcs]
  BY <1>1 DEF TypeOK
<1>3. UNCHANGED <<msg, toSession, pqueue, alerts>>
  BY DEF Write, WriteTest, WritePush, WriteBuffer, WriteSend, WriteMark, peerVars, countVars
<1>4. /\ pc[t] \in WritePcs
      /\ \E to : Goes(t, pc[t], to) /\ (to = Return(t) \/ to \in {"push", "buffer", "send", "mark"})
  BY DEF Write, WriteTest, WritePush, WriteBuffer, WriteSend, WriteMark, Goes, WritePcs
<1>5. \A u \in Threads : u # t => pc'[u] = pc[u]
  BY <1>2, <1>4 DEF Goes
<1>6. Return(t) \in {"state", "idle", "active", "rearm"}
  BY <1>1 DEF Return, TypeOK
<1>7. t = "sim" => ~Serving
  BY <1>4 DEF Serving, WritePcs
<1>8. Answers' = Answers /\ Unasked' = Unasked
  <2>1. Serving' = Serving
    BY <1>2, <1>4, <1>5, <1>6 DEF Serving, WritePcs, Goes, Threads
  <2> QED BY <1>3, <2>1 DEF Answers, Unasked
<1>9. RequestsDue <= 1 /\ \A u \in Threads : pc[u] = "send" => buffer = msg[u]
  BY DEF Once
<1>10. ASSUME Writes(t), ~Writes(t)'
       PROVE  h \in {0, 1} /\ Pending - h \in Nat /\ Pending' = Pending - h
  <2>1. h \in {0, 1}
    BY DEF Has
  <2>2. CASE t = "io"
    <3>1. IoAsks = h /\ IoAsks' = 0
      BY <1>10, <2>2 DEF IoAsks
    <3>2. Writing'["sim"] = Writing["sim"]
      BY <1>5, <2>2 DEF Writing, Writes, Threads
    <3> QED BY <1>8, <2>1, <3>1, <3>2, DueTypes DEF Pending
  <2>3. CASE t = "sim"
    <3>1. h = 1
      BY <1>7, <2>3, Ids
    <3>2. Writing["sim"] = 1 /\ Writing'["sim"] = 0
      BY <1>10, <2>3 DEF Writing, Threads
    <3>3. IoAsks' = IoAsks
      BY <1>3, <1>5, <2>3 DEF IoAsks, Writes, Threads
    <3> QED BY <1>8, <3>1, <3>2, <3>3, DueTypes DEF Pending
  <2> QED BY <2>2, <2>3 DEF Threads
<1>11. ASSUME Writes(t)' <=> Writes(t)
       PROVE  Pending' = Pending
  <2>1. \A u \in Threads : Writes(u)' <=> Writes(u)
    BY <1>5, <1>11 DEF Writes
  <2> QED BY <1>3, <1>8, <2>1 DEF Pending, Writing, IoAsks, Threads
<1> HIDE DEF h
<1>12. CASE WriteTest(t)
  <2>1. pc[t] = "test" /\ pc'[t] \in {"push", "buffer"} /\ UNCHANGED <<wqueue, toPeer, buffer>>
    BY <1>2, <1>12 DEF WriteTest, Goes, writeVars
  <2>2. Pending' = Pending /\ Queued' = Queued /\ OnTheWay' = OnTheWay
    BY <1>11, <2>1 DEF Writes, Queued, OnTheWay
  <2>3. \A u \in Threads : pc'[u] = "send" => buffer' = msg'[u]
    BY <1>3, <1>5, <1>9, <2>1
  <2> QED BY <1>8, <1>9, <2>2, <2>3 DEF Once, RequestsDue
<1>13. CASE WritePush(t)
  <2>1. /\ pc[t] = "push" /\ pc'[t] = Return(t) /\ wqueue' = Append(wqueue, msg[t])
        /\ UNCHANGED <<toPeer, buffer>>
    BY <1>2, <1>13 DEF WritePush, Goes
  <2>2. Pending - h \in Nat /\ Pending' = Pending - h /\ h \in {0, 1}
    BY <1>6, <1>10, <2>1 DEF Writes
  <2>3. Len(wqueue) <= 1
    <3>1. Writes(t)
      BY <2>1 DEF Writes
    <3> QED BY <3>1, Short
  <2>4. Queued' = Queued + h
    BY <2>1, <2>3, Short, NumberOfMoves DEF Queued, h
  <2>5. OnTheWay' = OnTheWay
    BY <2>1 DEF OnTheWay
  <2>6. \A u \in Threads : pc'[u] = "send" => buffer' = msg'[u]
    BY <1>3, <1>5, <1>6, <1>9, <2>1
  <2>7. RequestsDue' = RequestsDue
    BY <1>8, <2>2, <2>4, <2>5, DueTypes DEF RequestsDue
  <2> QED BY <1>9, <2>6, <2>7 DEF Once
<1>14. CASE WriteBuffer(t)
  <2>1. /\ pc[t] = "buffer" /\ pc'[t] = "send" /\ buffer' = msg[t] /\ UNCHANGED <<wqueue, toPeer>>
    BY <1>2, <1>14 DEF WriteBuffer, Goes
  <2>2. pc[Other(t)] # "send"
    BY <1>14 DEF WriteBuffer
  <2>3. Pending' = Pending /\ Queued' = Queued /\ OnTheWay' = OnTheWay
    BY <1>11, <2>1 DEF Writes, Queued, OnTheWay
  <2>4. \A u \in Threads : pc'[u] = "send" => u = t
    BY <1>5, <2>2 DEF Threads, Other
  <2>5. \A u \in Threads : pc'[u] = "send" => buffer' = msg'[u]
    BY <1>3, <2>1, <2>4
  <2> QED BY <1>8, <1>9, <2>3, <2>5 DEF Once, RequestsDue
<1>15. CASE WriteSend(t)
  <2>1. /\ pc[t] = "send" /\ pc'[t] = "mark" /\ UNCHANGED <<wqueue, buffer>>
        /\ toPeer' = (IF open THEN Append(toPeer, buffer) ELSE toPeer)
    BY <1>2, <1>15 DEF WriteSend, Goes
  <2>2. buffer = msg[t]
    BY <1>9, <2>1
  <2>3. Pending - h \in Nat /\ Pending' = Pending - h /\ h \in {0, 1}
    BY <1>10, <2>1 DEF Writes
  <2>4. Queued' = Queued
    BY <2>1 DEF Queued
  <2>5. OnTheWay' = OnTheWay + h \/ OnTheWay' = OnTheWay + 0
    <3>1. CASE open
      <4>1. toPeer' = Append(toPeer, msg[t])
        BY <2>1, <2>2, <3>1
      <4>2. Len(toPeer) <= 1
        <5>1. Writes(t)
          BY <2>1 DEF Writes
        <5> QED BY <5>1, Short
      <4> QED BY <4>1, <4>2, Short, NumberOfMoves DEF OnTheWay, h
    <3>2. CASE ~open
      BY <2>1, <3>2, DueTypes DEF OnTheWay
    <3> QED BY <3>1, <3>2
  <2>6. \A u \in Threads : pc'[u] = "send" => buffer' = msg'[u]
    BY <1>3, <1>5, <1>9, <2>1
  <2>7. PICK g \in {0, h} : OnTheWay' = OnTheWay + g
    BY <2>5
  <2>8. RequestsDue' <= 1
    <3>1. RequestsDue' = (Pending - h) + Queued + (OnTheWay + g) + Answers
      BY <1>8, <2>3, <2>4, <2>7 DEF RequestsDue
    <3>2. (Pending - h) + Queued + (OnTheWay + g) + Answers <= 1
      BY <1>9, <2>3, DueTypes DEF RequestsDue
    <3> QED BY <3>1, <3>2
  <2> QED BY <2>6, <2>8 DEF Once
<1>16. CASE WriteMark(t)
  <2>1. pc[t] = "mark" /\ pc'[t] = Return(t) /\ UNCHANGED <<wqueue, toPeer, buffer>>
    BY <1>2, <1>16 DEF WriteMark, Goes
  <2>2. Pending' = Pending /\ Queued' = Queued /\ OnTheWay' = OnTheWay
    BY <1>6, <1>11, <2>1 DEF Writes, Queued, OnTheWay
  <2>3. \A u \in Threads : pc'[u] = "send" => buffer' = msg'[u]
    BY <1>3, <1>5, <1>6, <1>9, <2>1
  <2> QED BY <1>8, <1>9, <2>2, <2>3 DEF Once, RequestsDue
<1> QED BY <1>12, <1>13, <1>14, <1>15, <1>16 DEF Write

\* A step that writes nothing and moves no message keeps what is due.
LEMMA DueKept ==
  ASSUME Once, UNCHANGED <<wqueue, toPeer, toSession, pqueue, alerts>>, Serving' = Serving,
         \A t \in Threads : Writes(t)' = Writes(t) /\ (pc'[t] = "send" => pc[t] = "send"),
         \A t \in Threads : Writes(t) => msg'[t] = msg[t],
         buffer' = buffer
  PROVE  Once'
<1>1. Unasked' = Unasked /\ Writing'["sim"] = Writing["sim"] /\ IoAsks' = IoAsks
  BY DEF Unasked, Writing, IoAsks, Threads
<1>2. RequestsDue' = RequestsDue
  BY <1>1 DEF RequestsDue, Pending, Queued, OnTheWay, Answers
<1>3. \A t \in Threads : pc'[t] = "send" => buffer' = msg'[t]
  BY DEF Once, Writes
<1> QED BY <1>2, <1>3 DEF Once

\* The two steps that begin a write: begin_shutdown() and handle_write()
LEMMA BeginOnce ==
  ASSUME BasicInv, Once, SimBegin \/ SessionFlush
  PROVE  Once'
<1>1. TypeOK
  BY DEF BasicInv
<1>2. pc \in [Threads -> IoPcs \cup SimPcs] /\ msg \in [Threads -> MessageSet \cup {None}]
  BY <1>1 DEF TypeOK
<1>3. RequestsDue <= 1 /\ \A u \in Threads : pc[u] = "send" => buffer = msg[u]
  BY DEF Once
<1>4. CASE SimBegin
  <2>1. /\ pc["sim"] = "serving" /\ pc'["sim"] = "test" /\ pc'["io"] = pc["io"]
        /\ UNCHANGED <<wqueue, buffer, toPeer, toSession, pqueue, alerts>> /\ msg'["io"] = msg["io"]
    BY <1>2, <1>4 DEF SimBegin, Goes, Threads, writeVars, peerVars, countVars
  <2>2. Unasked = 1 /\ Unasked' = 0 /\ Writing["sim"] = 0 /\ Writing'["sim"] = 1 /\ IoAsks' = IoAsks
    BY <2>1 DEF Unasked, Serving, Writing, Writes, IoAsks, Threads
  <2>3. Pending' = Pending
    BY <2>2, DueTypes DEF Pending
  <2>4. RequestsDue' = RequestsDue
    BY <2>1, <2>3 DEF RequestsDue, Queued, OnTheWay, Answers
  <2>5. \A u \in Threads : pc'[u] = "send" => buffer' = msg'[u]
    BY <1>3, <2>1 DEF Threads
  <2> QED BY <1>3, <2>4, <2>5 DEF Once
<1>5. CASE SessionFlush
  <2>1. /\ pc["io"] = "flush" /\ pc'["io"] = (IF wqueue = <<>> THEN "idle" ELSE "test")
        /\ pc'["sim"] = pc["sim"] /\ UNCHANGED <<buffer, toPeer, toSession, pqueue, alerts>>
    BY <1>2, <1>5 DEF SessionFlush, Goes, Threads, peerVars, countVars
  <2>2. msg'["sim"] = msg["sim"]
    BY <1>2, <1>5 DEF SessionFlush, Threads
  <2>3. /\ Unasked' = Unasked /\ Writing'["sim"] = Writing["sim"] /\ IoAsks = 0
        /\ \A u \in Threads : pc'[u] = "send" => buffer' = msg'[u]
    BY <1>3, <2>1, <2>2 DEF Unasked, Serving, Writing, Writes, IoAsks, Threads
  <2>4. CASE wqueue = <<>>
    <3>1. wqueue' = wqueue /\ IoAsks' = 0
      BY <1>5, <2>1, <2>4 DEF SessionFlush, IoAsks, Writes
    <3>2. RequestsDue' = RequestsDue
      BY <2>1, <2>3, <3>1 DEF RequestsDue, Pending, Queued, OnTheWay, Answers
    <3> QED BY <1>3, <2>3, <3>2 DEF Once
  <2>5. CASE wqueue # <<>>
    <3>1. wqueue' = Tail(wqueue) /\ msg'["io"] = Head(wqueue) /\ pc'["io"] = "test"
      BY <1>2, <1>5, <2>1, <2>5 DEF SessionFlush, Threads
    <3>2. PICK h \in {0, 1} : h = Has(wqueue[1], "NODE_SHUTDOWN_REQUEST")
      BY DEF Has
    <3>3. IoAsks' = h
      <4>1. msg'["io"] = wqueue[1]
        BY <2>5, <3>1, Short
      <4> QED BY <3>1, <3>2, <4>1 DEF IoAsks, Writes
    <3>4. Queued' = Queued - h
      BY <2>5, <3>1, <3>2, Short, NumberOfMoves DEF Queued
    <3>5. Pending' = Pending + h
      BY <2>3, <3>3, DueTypes DEF Pending
    <3>6. RequestsDue' = RequestsDue
      BY <2>1, <3>4, <3>5, DueTypes DEF RequestsDue, OnTheWay, Answers
    <3> QED BY <1>3, <2>3, <3>6 DEF Once
  <2> QED BY <2>4, <2>5
<1> QED BY <1>4, <1>5

\* handle_read(): an acknowledgement that is taken is counted at most once.
LEMMA ReadsOnce ==
  ASSUME BasicInv, Once, SessionReads
  PROVE  Once'
<1>1. TypeOK /\ MessagesInv
  BY DEF BasicInv
<1>2. pc \in [Threads -> IoPcs \cup SimPcs] /\ msg \in [Threads -> MessageSet \cup {None}]
  BY <1>1 DEF TypeOK
<1>3. PICK k \in 1..Len(toSession) :
        /\ toSession' = Drop(toSession, k)
        /\ \/ toSession[1] = ThePing /\ alerts' = alerts
           \/ toSession[1] = TheAck /\ (alerts' = alerts \/ alerts' = alerts + 1)
        /\ \/ IoGoes("test") /\ msg' = [msg EXCEPT !["io"] = ThePong]
           \/ IoGoes("rearm") /\ msg' = msg
  BY <1>1, SessionReadCases
<1>4. /\ pc["io"] = "idle" /\ pc'["io"] \in {"test", "rearm"} /\ pc'["sim"] = pc["sim"]
      /\ msg'["sim"] = msg["sim"] /\ (pc'["io"] = "test" => msg'["io"] = ThePong)
  BY <1>2, <1>3 DEF IoGoes, Goes, Threads
<1>5. UNCHANGED <<wqueue, buffer, toPeer, pqueue>>
  BY DEF SessionReads, writeVars, peerVars
<1>6. Unasked' = Unasked /\ Writing'["sim"] = Writing["sim"] /\ IoAsks = 0 /\ IoAsks' = 0
  BY <1>4, Ids DEF Unasked, Serving, Writing, Writes, IoAsks, Threads
<1>7. PICK h \in {0, 1} : h = Has(toSession[1], "ACK") /\ (alerts' = alerts + h \/ alerts' = alerts + 0)
  <2>1. alerts + 0 = alerts
    BY DueTypes
  <2> QED BY <1>3, <2>1, Ids
<1>8. PICK n \in Nat : /\ NumberOf(toSession, "ACK") = n
                       /\ \E m \in Nat : NumberOf(toSession', "ACK") = m /\ m + h <= n
  <2>1. /\ NumberOf(toSession, "ACK") \in Nat
        /\ NumberOf(Drop(toSession, k), "ACK") <= NumberOf(toSession, "ACK") - Has(toSession[1], "ACK")
    BY Short, NumberOfMoves
  <2>2. NumberOf(Drop(toSession, k), "ACK") \in Nat
    BY Short, Taken, NumberOfMoves
  <2> QED BY <1>3, <1>7, <2>1, <2>2
<1>9. PICK m \in Nat : NumberOf(toSession', "ACK") = m /\ m + h <= n
  BY <1>8
<1>10. PICK g \in {0, h} : alerts' = alerts + g
  BY <1>7
<1>11. RequestsDue' <= 1
  <2>1. (Unasked + Writing["sim"] + 0) + Queued + OnTheWay + (Len(pqueue) + m + (alerts + g)) <= 1
    <3>1. (Unasked + Writing["sim"] + 0) + Queued + OnTheWay + (Len(pqueue) + n + alerts) <= 1
      BY <1>6, <1>8 DEF Once, RequestsDue, Pending, Answers
    <3>2. /\ Unasked \in Nat /\ Writing["sim"] \in Nat /\ Queued \in Nat /\ OnTheWay \in Nat
          /\ Len(pqueue) \in Nat /\ alerts \in Nat
      BY DueTypes, Short
    <3>3. g <= h /\ g \in Nat
      BY <1>7, <1>10
    <3>4. m + g <= n
      BY <1>7, <1>9, <3>3
    <3>5. \A p \in Nat : p + (Len(pqueue) + n + alerts) <= 1
                        => p + (Len(pqueue) + m + (alerts + g)) <= 1
      BY <1>9, <3>2, <3>3, <3>4
    <3>6. (Unasked + Writing["sim"] + 0) + Queued + OnTheWay \in Nat
      BY <3>2
    <3> QED BY <3>1, <3>5, <3>6
  <2> QED BY <1>5, <1>6, <1>9, <1>10, <2>1 DEF RequestsDue, Pending, Queued, OnTheWay, Answers
<1>12. \A u \in Threads : pc'[u] = "send" => buffer' = msg'[u]
  BY <1>4, <1>5 DEF Once, Threads
<1> QED BY <1>11, <1>12 DEF Once

\* The peer answers a request it has taken, once, and passes its answers on.
LEMMA PeerOnce ==
  ASSUME BasicInv, Once, Peer \/ NodeReplaced
  PROVE  Once'
<1>1. TypeOK /\ MessagesInv /\ StartInv
  BY DEF BasicInv, CountsInv
<1>2. UNCHANGED <<pc, msg, wqueue, buffer, alerts>>
  BY DEF Peer, PeerConnects, PeerReads, PeerWritten, NodeReplaced, peerKeeps, writeVars, countVars
<1>3. /\ Pending' = Pending /\ Queued' = Queued
      /\ \A u \in Threads : pc'[u] = "send" => buffer' = msg'[u]
  BY <1>2 DEF Once, Pending, Queued, Unasked, Serving, Writing, Writes, IoAsks
<1>4. /\ NumberOf(toSession, "ACK") \in Nat /\ Len(pqueue) \in Nat
      /\ Pending \in Nat /\ Queued \in Nat /\ OnTheWay \in Nat /\ alerts \in Nat
  BY DueTypes, Short, NumberOfMoves
<1>5. Pending + Queued + OnTheWay + (Len(pqueue) + NumberOf(toSession, "ACK") + alerts) <= 1
  BY DEF Once, RequestsDue, Answers
<1>6. ASSUME NEW o \in Nat, NEW q \in Nat, NEW n \in Nat,
             OnTheWay' = o, Len(pqueue') = q, NumberOf(toSession', "ACK") = n,
             o + q + n <= OnTheWay + Len(pqueue) + NumberOf(toSession, "ACK")
      PROVE  Once'
  <2>1. Pending + Queued + o + (q + n + alerts) <= 1
    BY <1>4, <1>5, <1>6
  <2>2. RequestsDue' <= 1
    BY <1>2, <1>3, <1>6, <2>1 DEF RequestsDue, Answers
  <2> QED BY <1>3, <2>2 DEF Once
<1>7. CASE PeerConnects
  <2>1. toPeer' = toPeer /\ pqueue' = pqueue /\ toSession' = Append(toSession, ThePing)
    BY <1>1, <1>7 DEF PeerConnects, PeerWrite, StartInv, ThePing
  <2>5. Len(toSession) <= 1
    BY <1>1, <1>7 DEF PeerConnects, StartInv
  <2>2. NumberOf(toSession', "ACK") = NumberOf(toSession, "ACK") + Has(ThePing, "ACK")
    BY <2>1, <2>5, Short, NumberOfMoves
  <2>3. NumberOf(toSession', "ACK") = NumberOf(toSession, "ACK")
    BY <1>4, <2>2, Ids
  <2>4. OnTheWay' = OnTheWay /\ Len(pqueue') = Len(pqueue)
    BY <2>1 DEF OnTheWay
  <2> QED BY <1>4, <1>6, <2>3, <2>4
<1>8. CASE NodeReplaced
  <2>1. OnTheWay' = OnTheWay /\ Len(pqueue') = Len(pqueue) /\ toSession' = toSession
    BY <1>8 DEF NodeReplaced, OnTheWay
  <2> QED BY <1>4, <1>6, <2>1
<1>9. CASE PeerWritten
  <2>1. OnTheWay' = OnTheWay
    BY <1>9 DEF PeerWritten, OnTheWay
  <2>2. CASE pqueue = <<>>
    <3>1. Len(pqueue') = Len(pqueue) /\ toSession' = toSession
      BY <1>9, <2>2 DEF PeerWritten
    <3>2. OnTheWay + Len(pqueue) + NumberOf(toSession, "ACK")
            <= OnTheWay + Len(pqueue) + NumberOf(toSession, "ACK")
      BY <1>4
    <3> QED BY <1>4, <1>6, <2>1, <3>1, <3>2
  <2>3. CASE pqueue # <<>>
    <3>1. pqueue' = Tail(pqueue) /\ toSession' = Append(toSession, Head(pqueue))
      BY <1>9, <2>3 DEF PeerWritten
    <3>2. /\ Head(pqueue) = TheAck /\ Len(pqueue') = Len(pqueue) - 1 /\ Len(pqueue) - 1 \in Nat
      <4>1. Head(pqueue) = pqueue[1] /\ 1 \in DOMAIN pqueue /\ Len(Tail(pqueue)) = Len(pqueue) - 1
            /\ Len(pqueue) - 1 \in Nat
        BY <2>3, Short
      <4> QED BY <1>1, <3>1, <4>1 DEF MessagesInv
    <3>3. NumberOf(toSession', "ACK") = NumberOf(toSession, "ACK") + 1
      <4>1. Len(toSession) <= 1
        BY <2>3, Short
      <4>2. NumberOf(toSession', "ACK") = NumberOf(toSession, "ACK") + Has(TheAck, "ACK")
        BY <3>1, <3>2, <4>1, Short, NumberOfMoves
      <4> QED BY <4>2, Ids
    <3>4. NumberOf(toSession, "ACK") + 1 \in Nat
          /\ OnTheWay + (Len(pqueue) - 1) + (NumberOf(toSession, "ACK") + 1)
               <= OnTheWay + Len(pqueue) + NumberOf(toSession, "ACK")
      BY <1>4
    <3> QED BY <1>4, <1>6, <2>1, <3>2, <3>3, <3>4
  <2> QED BY <2>2, <2>3
<1>10. CASE PeerReads
  <2>1. PICK k \in 1..Len(toPeer) :
           /\ toPeer' = Drop(toPeer, k)
           /\ \/ UNCHANGED <<pqueue, toSession>>
              \/ toPeer[1] \in Requests /\ PeerWrite(TheAck)
    BY <1>1, <1>10, PeerReadCases
  <2>2. PICK h \in {0, 1} : h = Has(toPeer[1], "NODE_SHUTDOWN_REQUEST")
    BY DEF Has
  <2>3. PICK o \in Nat : OnTheWay' = o /\ o + h <= OnTheWay
    <3>1. NumberOf(Drop(toPeer, k), "NODE_SHUTDOWN_REQUEST") \in Nat
      BY Short, Taken, NumberOfMoves
    <3>2. NumberOf(Drop(toPeer, k), "NODE_SHUTDOWN_REQUEST") <= OnTheWay - h
      BY <2>2, Short, NumberOfMoves DEF OnTheWay
    <3>3. OnTheWay' = NumberOf(Drop(toPeer, k), "NODE_SHUTDOWN_REQUEST")
      BY <2>1 DEF OnTheWay
    <3> QED BY <1>4, <3>1, <3>2, <3>3
  <2>4. CASE UNCHANGED <<pqueue, toSession>>
    <3>1. o + Len(pqueue) + NumberOf(toSession, "ACK")
            <= OnTheWay + Len(pqueue) + NumberOf(toSession, "ACK")
      BY <1>4, <2>2, <2>3
    <3> QED BY <1>4, <1>6, <2>3, <2>4, <3>1
  <2>5. CASE toPeer[1] \in Requests /\ PeerWrite(TheAck)
    <3>1. o + 1 <= OnTheWay
      BY <2>2, <2>3, <2>5, Ids
    <3>2. \/ Len(pqueue') = Len(pqueue) + 1 /\ toSession' = toSession
          \/ pqueue' = pqueue /\ toSession' = Append(toSession, TheAck)
      <4>1. pqueue' = Append(pqueue, TheAck) => Len(pqueue') = Len(pqueue) + 1
        BY Short
      <4> QED BY <2>5, <4>1 DEF PeerWrite
    <3>3. CASE Len(pqueue') = Len(pqueue) + 1 /\ toSession' = toSession
      <4>1. Len(pqueue) + 1 \in Nat /\ o + (Len(pqueue) + 1) + NumberOf(toSession, "ACK")
              <= OnTheWay + Len(pqueue) + NumberOf(toSession, "ACK")
        BY <1>4, <3>1
      <4> QED BY <1>4, <1>6, <2>3, <3>3, <4>1
    <3>4. CASE pqueue' = pqueue /\ toSession' = Append(toSession, TheAck)
      <4>1. Len(toSession) <= 1
        BY <2>1, Short
      <4>2. NumberOf(toSession', "ACK") = NumberOf(toSession, "ACK") + Has(TheAck, "ACK")
        BY <3>4, <4>1, Short, NumberOfMoves
      <4>3. NumberOf(toSession', "ACK") = NumberOf(toSession, "ACK") + 1
        BY <4>2, Ids
      <4>4. NumberOf(toSession, "ACK") + 1 \in Nat
            /\ o + Len(pqueue) + (NumberOf(toSession, "ACK") + 1)
                 <= OnTheWay + Len(pqueue) + NumberOf(toSession, "ACK")
        BY <1>4, <3>1
      <4> QED BY <1>4, <1>6, <2>3, <3>4, <4>3, <4>4
    <3> QED BY <3>2, <3>3, <3>4
  <2> QED BY <2>1, <2>4, <2>5
<1> QED BY <1>7, <1>8, <1>9, <1>10 DEF Peer

LEMMA NextOnce ==
  ASSUME BasicInv, OnceInv, [Next]_vars
  PROVE  OnceInv'
<1> SUFFICES ASSUME "clobbered" \notin mishaps' PROVE Once'
  BY DEF OnceInv
<1>1. Once
  BY RequestStays DEF OnceInv
<1>2. TypeOK
  BY DEF BasicInv
<1>3. pc \in [Threads -> IoPcs \cup SimPcs] /\ msg \in [Threads -> MessageSet \cup {None}]
  BY <1>2 DEF TypeOK
<1>4. CASE SessionReads
  BY <1>1, <1>4, ReadsOnce
<1>5. CASE SessionFlush \/ SimBegin
  BY <1>1, <1>5, BeginOnce
<1>6. CASE Peer \/ NodeReplaced
  BY <1>1, <1>6, PeerOnce
<1>7. CASE Write("io") \/ Write("sim")
  BY <1>1, <1>7, WriteOnce DEF Threads
<1>8. CASE \/ SessionAccept \/ SessionStart \/ SessionListen \/ SessionActive \/ SessionRearm
           \/ SessionReadFails \/ SessionReadsEnd \/ SessionWritten
  <2>1. /\ UNCHANGED <<wqueue, toPeer, toSession, pqueue, alerts, buffer>>
        /\ SessionActive \/ msg' = msg
    BY <1>8 DEF SessionAccept, SessionStart, SessionListen, SessionActive, SessionRearm,
       SessionReadFails, SessionReadsEnd, SessionWritten, writeVars, peerVars, countVars
  <2>2. PICK from, to : Goes("io", from, to) /\ from \notin WritePcs /\ to \notin WritePcs
    BY <1>8 DEF SessionAccept, SessionStart, SessionListen, SessionActive, SessionRearm,
       SessionReadFails, SessionReadsEnd, SessionWritten, IoGoes, WritePcs
  <2>3. pc["io"] = from /\ pc'["io"] = to /\ pc'["sim"] = pc["sim"]
    BY <1>3, <2>2 DEF Goes, Threads
  <2>4. msg'["sim"] = msg["sim"]
    BY <1>3, <2>1 DEF SessionActive, Threads
  <2>5. /\ Serving' = Serving
        /\ \A t \in Threads : Writes(t)' = Writes(t) /\ (pc'[t] = "send" => pc[t] = "send")
        /\ \A t \in Threads : Writes(t) => msg'[t] = msg[t]
    BY <2>2, <2>3, <2>4 DEF Serving, Writes, WritePcs, Threads
  <2> QED BY <1>1, <2>1, <2>5, DueKept
<1>9. CASE SimState \/ SimReceive \/ SimPoll \/ SimDrained \/ MainStop
  <2>1. UNCHANGED <<wqueue, toPeer, toSession, pqueue, alerts, buffer, msg>>
    BY <1>9 DEF SimState, SimReceive, SimPoll, SimDrained, MainStop, writeVars, peerVars, countVars,
       threadVars
  <2>2. /\ pc'["io"] = pc["io"]
        /\ pc["sim"] \notin WritePcs \cup {"serving"} /\ pc'["sim"] \notin WritePcs \cup {"serving"}
    BY <1>3, <1>9 DEF SimState, SimReceive, SimPoll, SimDrained, MainStop, threadVars, Goes, Threads,
       WritePcs
  <2>3. /\ Serving' = Serving
        /\ \A t \in Threads : Writes(t)' = Writes(t) /\ (pc'[t] = "send" => pc[t] = "send")
        /\ \A t \in Threads : Writes(t) => msg'[t] = msg[t]
    BY <2>1, <2>2 DEF Serving, Writes, WritePcs, Threads
  <2> QED BY <1>1, <2>1, <2>3, DueKept
<1>10. CASE UNCHANGED vars
  <2>1. UNCHANGED <<wqueue, toPeer, toSession, pqueue, alerts, buffer, msg, pc>>
    BY <1>10 DEF vars, threadVars, writeVars, peerVars, countVars
  <2> QED BY <1>1, <2>1, DueKept DEF Serving, Writes
<1> QED BY <1>4, <1>5, <1>6, <1>7, <1>8, <1>9, <1>10 DEF Next, Io, Session, SimStep

\* closed_nodes is compared with ==: a connection is counted twice only when the two threads used
\* one write buffer at once.  Otherwise the one request of begin_shutdown() is in one place: being
\* written, queued, under way, or in its only answer.
THEOREM ConnectionsAreCountedOnce == Spec => []CountedOnce
<1>1. Init => OnceInv
  BY DEF Init, OnceInv, Once, RequestsDue, Pending, Queued, OnTheWay, Answers, NumberOf, Unasked,
     Serving, Writing, Writes, IoAsks, Threads
<1>2. BasicInv /\ OnceInv /\ [Next]_vars => OnceInv'
  BY NextOnce
<1>3. OnceInv /\ BasicInv => CountedOnce
  <2>1. ASSUME BasicInv, Once PROVE ~(alerts > 1)
    <3>1. /\ NumberOf(toSession, "ACK") \in Nat /\ Len(pqueue) \in Nat
          /\ Pending \in Nat /\ Queued \in Nat /\ OnTheWay \in Nat /\ alerts \in Nat
      BY <2>1, DueTypes, Short, NumberOfMoves
    <3>2. Pending + Queued + OnTheWay + (Len(pqueue) + NumberOf(toSession, "ACK") + alerts) <= 1
      BY <2>1 DEF Once, RequestsDue, Answers
    <3> QED BY <3>1, <3>2
  <2> QED BY <2>1 DEF OnceInv, CountedOnce
<1> QED BY <1>1, <1>2, <1>3, BasicIsKept, PTL DEF Spec

-----------------------------------------------------------------------------
(* A shutdown that begins at rest is clean *)

\* While the sim thread serves, one message is left of both exchanges.
LEMMA Alone ==
  ASSUME BasicInv, Serving
  PROVE  /\ \A k \in 1..Len(toSession) : k = 1 /\ Len(toSession) = 1
         /\ \A k \in 1..Len(toPeer) : k = 1 /\ Len(toPeer) = 1
         /\ \A m \in Sendable : m = ThePong
<1>1. TypeOK /\ ExchangesInv /\ MessagesInv
  BY DEF BasicInv, CountsInv
<1>2. Unasked = 1
  BY DEF Unasked
<1>3. /\ Unsent \in Nat /\ Unconnected \in Nat /\ Len(pqueue) \in Nat /\ alerts \in Nat
      /\ Len(toPeer) \in Nat /\ Len(toSession) \in Nat
  <2>1. Unconnected \in Nat
    BY DEF Unconnected
  <2> QED BY <1>1, <2>1, CountTypes DEF TypeOK
<1>4. (Unsent + Len(toPeer)) + (Unconnected + 1 + Len(pqueue) + Len(toSession) + alerts) <= 2
  BY <1>1, <1>2 DEF ExchangesInv, Outward, Backward
<1>5. Len(toPeer) <= 1 /\ Len(toSession) <= 1
  BY <1>3, <1>4
<1>6. \A n \in Nat : n <= 1 => \A k \in 1..n : k = 1 /\ n = 1
  OBVIOUS
<1>7. \A m \in Sendable : m = ThePong
  BY DEF Sendable
<1> QED BY <1>3, <1>5, <1>6, <1>7

\* The handlers on the session's side of the handshake
LEMMA SessionHandshake ==
  ASSUME BasicInv, Serving, Handshake, Session
  PROVE  Handshake'
<1>1. TypeOK /\ StartInv /\ MessagesInv /\ ReceivesInv
  BY DEF BasicInv, CountsInv
<1>2. pc \in [Threads -> IoPcs \cup SimPcs] /\ sends \in Nat
  BY <1>1 DEF TypeOK
<1>3. /\ kind' = kind /\ ThePong' = ThePong /\ ThePing' = ThePing /\ UNCHANGED <<pstate, pqueue, quiet, open>>
      /\ toPeer' = toPeer /\ pinfo' = pinfo
  BY DEF Session, SessionAccept, SessionStart, SessionListen, SessionReads, SessionActive, SessionRearm,
     SessionReadFails, SessionReadsEnd, SessionWritten, SessionFlush, peerVars, ThePong, ThePing
<1>4. CASE SessionReads
  <2>1. PICK k \in 1..Len(toSession) :
           /\ toSession' = Drop(toSession, k) /\ alerts' = alerts /\ mishaps' = mishaps \cup Swallowed(k)
           /\ \/ /\ IoGoes("test") /\ after' = "active" /\ info' = TypeOf(kind)
              \/ /\ IoGoes("rearm") /\ UNCHANGED <<infoVars, after>>
    <3>1. ThePing # TheAck /\ \A k \in 1..Len(toSession) : toSession[1] = ThePing
      BY <1>1, Known, Alone DEF Handshake
    <3> QED BY <1>1, <1>4, <3>1, SessionReadCases
  <2>2. k = 1 /\ Len(toSession) = 1 /\ toSession # <<>>
    BY <2>1, Alone
  <2>3. Len(Drop(toSession, k)) = 0 /\ Drop(toSession, k) \in Seq(MessageSet)
    <3>1. toSession \in Seq(MessageSet)
      BY <1>1 DEF TypeOK
    <3>2. Len(Drop(toSession, k)) = Len(toSession) - k /\ Drop(toSession, k) \in Seq(MessageSet)
      BY <3>1, Taken
    <3> QED BY <2>2, <3>2
  <2>4. toSession' = <<>> /\ mishaps' = mishaps
    BY <2>1, <2>2, <2>3 DEF Swallowed
  <2>5. pstate # "connecting" /\ sstate # "ACTIVE" /\ NothingSent
    BY <1>1, <2>2 DEF StartInv, Handshake, NothingSent, Answered
  <2>6. pc["io"] = "idle" /\ pc'["io"] \in {"test", "rearm"}
        /\ (pc'["io"] = "test" => after' = "active" /\ info' = TypeOf(kind))
    BY <1>2, <2>1 DEF IoGoes, Goes, Threads
  <2>7. UNCHANGED <<sstate, wqueue, sends, writing>>
    BY <1>4 DEF SessionReads, writeVars
  <2> QED BY <1>3, <2>1, <2>4, <2>5, <2>6, <2>7 DEF Handshake, Untroubled, NothingSent, WritePcs
<1>5. CASE ~SessionReads
  <2>1. UNCHANGED <<alerts, mishaps, toSession, info>>
    BY <1>5 DEF Session, SessionAccept, SessionStart, SessionListen, SessionActive, SessionRearm,
       SessionReadFails, SessionReadsEnd, SessionWritten, SessionFlush, countVars, infoVars
  <2>2. CASE SessionAccept \/ SessionStart
    <3>1. UNCHANGED <<wqueue, sends, writing, after>> /\ sstate' \in {"STOPPED", "LAUNCHING"}
          /\ pc["io"] \in {"idle", "start"} /\ pc'["io"] \in {"start", "listen"}
      BY <1>2, <2>2 DEF SessionAccept, SessionStart, writeVars, IoGoes, Goes, Threads
    <3> QED BY <1>3, <2>1, <3>1 DEF Handshake, Untroubled, NothingSent, Answered, WritePcs
  <2>3. CASE SessionActive
    <3>1. UNCHANGED <<wqueue, sends, writing>> /\ sstate' = "ACTIVE"
          /\ pc["io"] = "active" /\ pc'["io"] = "rearm"
      BY <1>2, <2>3 DEF SessionActive, writeVars, Goes, Threads
    <3> QED BY <1>3, <2>1, <3>1 DEF Handshake, Untroubled, NothingSent, Answered, WritePcs
  <2>4. CASE SessionListen \/ SessionRearm \/ SessionReadFails \/ SessionReadsEnd
    <3>1. UNCHANGED <<wqueue, sends, writing, sstate, after>>
          /\ pc["io"] \in {"listen", "rearm", "idle"} /\ pc'["io"] = "idle"
      BY <1>2, <2>4 DEF SessionListen, SessionRearm, SessionReadFails, SessionReadsEnd, writeVars, Goes,
         IoGoes, Threads
    <3> QED BY <1>3, <2>1, <3>1 DEF Handshake, Untroubled, NothingSent, Answered, WritePcs
  <2>5. CASE SessionWritten
    <3>1. UNCHANGED <<wqueue, sstate, after>> /\ sends # 0
          /\ pc["io"] = "idle" /\ pc'["io"] \in {"idle", "flush"}
      BY <1>2, <2>5 DEF SessionWritten, Goes, IoGoes, Threads
    <3> QED BY <1>3, <2>1, <3>1 DEF Handshake, Untroubled, NothingSent, Answered, WritePcs
  <2>6. CASE SessionFlush
    <3>1. UNCHANGED <<wqueue, sstate, sends, writing>> /\ pc["io"] = "flush" /\ pc'["io"] = "idle"
      BY <1>2, <2>6 DEF SessionFlush, Goes, Threads, Handshake, Untroubled
    <3> QED BY <1>3, <2>1, <3>1 DEF Handshake, Untroubled, NothingSent, Answered, WritePcs
  <2> QED BY <1>5, <2>2, <2>3, <2>4, <2>5, <2>6 DEF Session
<1> QED BY <1>4, <1>5

\* The PONG is written at once and sent whole: nothing else is being sent.
LEMMA WriteHandshake ==
  ASSUME BasicInv, Serving, Handshake, Write("io")
  PROVE  Handshake'
<1>1. TypeOK /\ MessagesInv
  BY DEF BasicInv
<1>2. pc \in [Threads -> IoPcs \cup SimPcs] /\ pc["sim"] = "serving"
  BY <1>1 DEF TypeOK, Serving
<1>3. /\ kind' = kind /\ ThePong' = ThePong /\ ThePing' = ThePing
      /\ UNCHANGED <<pstate, pqueue, quiet, open, pinfo, alerts, toSession, info, after, sstate>>
  BY DEF Write, WriteTest, WritePush, WriteBuffer, WriteSend, WriteMark, peerVars, countVars, infoVars,
     ThePong, ThePing
<1>4. CASE WriteTest("io")
  <2>1. /\ UNCHANGED <<wqueue, sends, writing, toPeer, mishaps>>
        /\ pc["io"] = "test" /\ pc'["io"] = (IF writing THEN "push" ELSE "buffer")
    BY <1>2, <1>4 DEF WriteTest, writeVars, Goes, Threads
  <2> QED BY <1>3, <2>1 DEF Handshake, Untroubled, NothingSent, Answered, WritePcs
<1>5. CASE WritePush("io")
  BY <1>2, <1>5 DEF WritePush, Goes, Handshake
<1>6. CASE WriteBuffer("io")
  <2>1. /\ UNCHANGED <<wqueue, sends, writing, toPeer, mishaps>>
        /\ pc["io"] = "buffer" /\ pc'["io"] = "send"
    BY <1>2, <1>6 DEF WriteBuffer, Goes, Threads, Other
  <2> QED BY <1>3, <2>1 DEF Handshake, Untroubled, NothingSent, Answered, WritePcs
<1>7. CASE WriteSend("io")
  <2>1. /\ UNCHANGED <<wqueue, writing, mishaps>> /\ pc["io"] = "send" /\ pc'["io"] = "mark"
        /\ toPeer' = IF open THEN Append(toPeer, buffer) ELSE toPeer
    BY <1>2, <1>7 DEF WriteSend, Goes, Threads
  <2>2. toPeer = <<>> /\ open /\ buffer = ThePong
    BY <1>1, <2>1, Alone DEF Handshake, NothingSent, Untroubled, MessagesInv, Threads
  <2>3. toPeer' = <<ThePong>>
    BY <2>1, <2>2
  <2> QED BY <1>3, <2>1, <2>3 DEF Handshake, Untroubled, NothingSent, Answered, WritePcs
<1>8. CASE WriteMark("io")
  <2>1. /\ UNCHANGED <<wqueue, sends, toPeer, mishaps>>
        /\ pc["io"] = "mark" /\ pc'["io"] = after
    BY <1>2, <1>8 DEF WriteMark, Goes, Threads, Return
  <2>2. after = "active"
    BY <2>1 DEF Handshake, WritePcs
  <2> QED BY <1>3, <2>1, <2>2 DEF Handshake, Untroubled, NothingSent, Answered, WritePcs
<1> QED BY <1>4, <1>5, <1>6, <1>7, <1>8 DEF Write

\* The peer introduces itself once, and takes the PONG alone.
LEMMA PeerHandshake ==
  ASSUME BasicInv, Serving, Handshake, Peer \/ NodeReplaced
  PROVE  Handshake'
<1>1. TypeOK /\ StartInv /\ MessagesInv
  BY DEF BasicInv, CountsInv
<1>2. toPeer \in Seq(MessageSet)
  BY <1>1 DEF TypeOK
<1>3. /\ kind' = kind /\ ThePong' = ThePong /\ ThePing' = ThePing
      /\ UNCHANGED <<pc, after, sstate, info, sends, writing, wqueue, alerts, quiet, open>>
  BY DEF Peer, PeerConnects, PeerReads, PeerWritten, NodeReplaced, peerKeeps, writeVars, countVars, infoVars,
     ThePong, ThePing
<1>4. CASE PeerConnects
  <2>1. /\ pstate = "connecting" /\ pstate' = "connected" /\ UNCHANGED <<toPeer, pinfo, mishaps, pqueue>>
        /\ toSession' = Append(toSession, ThePing) /\ toSession = <<>>
    BY <1>1, <1>4 DEF PeerConnects, PeerWrite, StartInv, ThePing
  <2>2. toSession' = <<ThePing>>
    BY <2>1
  <2>3. \A i \in DOMAIN toSession' : toSession'[i] = ThePing
    BY <2>2
  <2>4. sstate # "ACTIVE"
    BY <2>1 DEF Handshake, NothingSent, Answered
  <2> QED BY <1>3, <2>1, <2>3, <2>4 DEF Handshake, Untroubled, NothingSent, WritePcs
<1>5. CASE PeerReads
  <2>1. PICK k \in 1..Len(toPeer) :
          /\ toPeer' = Drop(toPeer, k) /\ mishaps' = mishaps \cup Swallowed(k)
          /\ toPeer[1] = ThePong /\ k = 1 => pinfo' = TypeOf(kind)
          /\ toPeer[1] = ThePong /\ k = 1 => UNCHANGED <<pstate, pwriting, pqueue, toSession>>
    <3>1. ThePong \notin Requests
      BY Ids
    <3> QED BY <1>1, <1>5, <3>1, PeerReadCases
  <2>2. k = 1 /\ Len(toPeer) = 1 /\ toPeer # <<>> /\ toPeer[1] = ThePong
    <3>1. k = 1 /\ Len(toPeer) = 1
      BY <2>1, Alone
    <3>2. toPeer[1] \in Sendable
      BY <1>1, <1>2, <3>1 DEF MessagesInv
    <3> QED BY <3>1, <3>2, Alone
  <2>3. toPeer' = <<>> /\ mishaps' = mishaps
    <3>1. Len(Drop(toPeer, k)) = Len(toPeer) - k /\ Drop(toPeer, k) \in Seq(MessageSet)
      BY <1>2, Taken
    <3>2. Len(Drop(toPeer, k)) = 0
      BY <2>2, <3>1
    <3> QED BY <2>1, <2>2, <3>1, <3>2 DEF Swallowed
  <2>4. pinfo' = TypeOf(kind) /\ UNCHANGED <<pstate, pqueue, toSession>>
    BY <2>1, <2>2
  <2>5. pstate \in {"connected", "asked"} /\ toSession = <<>>
    BY <1>5, <2>2 DEF PeerReads, Handshake, NothingSent
  <2> QED BY <1>3, <2>2, <2>3, <2>4, <2>5 DEF Handshake, Untroubled, NothingSent, Answered, WritePcs
<1>6. CASE PeerWritten
  <2>1. UNCHANGED <<pstate, pqueue, toSession, toPeer, pinfo, mishaps>>
    BY <1>6 DEF PeerWritten, Handshake, Untroubled
  <2> QED BY <1>3, <2>1 DEF Handshake, Untroubled, NothingSent, Answered, WritePcs
<1>7. CASE NodeReplaced
  <2>1. UNCHANGED <<pqueue, toSession, toPeer, pinfo, mishaps>> /\ pstate' = "replaced"
    BY <1>7 DEF NodeReplaced
  <2>2. (toSession' # <<>> \/ pstate' = "connecting") => toSession # <<>>
    BY <2>1
  <2>3. Answered => Answered'
    BY <1>3, <2>1 DEF Answered
  <2> QED BY <1>3, <2>1, <2>2, <2>3 DEF Handshake, Untroubled, NothingSent, WritePcs
<1> QED BY <1>4, <1>5, <1>6, <1>7 DEF Peer

LEMMA NextHandshake ==
  ASSUME BasicInv, HandshakeInv, [Next]_vars
  PROVE  HandshakeInv'
<1> SUFFICES ASSUME Serving' PROVE Handshake'
  BY DEF HandshakeInv
<1>1. Serving /\ Handshake
  BY RequestStays DEF HandshakeInv
<1>2. pc \in [Threads -> IoPcs \cup SimPcs]
  BY DEF BasicInv, TypeOK
<1>3. CASE Session
  BY <1>1, <1>3, SessionHandshake
<1>4. CASE Write("io")
  BY <1>1, <1>4, WriteHandshake
<1>5. CASE Peer \/ NodeReplaced
  BY <1>1, <1>5, PeerHandshake
<1>6. CASE SimBegin
  BY <1>2, <1>6 DEF SimBegin, Goes, Serving, Threads
<1>7. CASE SimStep \/ MainStop
  BY <1>1, <1>7 DEF SimStep, Write, WriteTest, WritePush, WriteBuffer, WriteSend, WriteMark, SimState,
     SimReceive, SimPoll, SimDrained, MainStop, Goes, Serving
<1>8. CASE UNCHANGED vars
  <2>1. UNCHANGED <<pc, after, sstate, info, sends, writing, wqueue, toPeer, toSession, kind, pstate, pinfo,
                    pqueue, alerts, open, quiet, mishaps>>
    BY <1>8 DEF vars, threadVars, infoVars, writeVars, peerVars, countVars
  <2> QED BY <1>1, <2>1 DEF Handshake, Untroubled, NothingSent, Answered, ThePing, ThePong
<1> QED BY <1>3, <1>4, <1>5, <1>6, <1>7, <1>8 DEF Next, Io

\* begin_shutdown() at rest: both ends know the type, and nothing else is under way.
LEMMA BeginQuiet ==
  ASSUME BasicInv, HandshakeInv, SimBegin, quiet'
  PROVE  Quiet' /\ QuietPhase'
<1>1. TypeOK
  BY DEF BasicInv
<1>2. pc \in [Threads -> IoPcs \cup SimPcs] /\ msg \in [Threads -> MessageSet \cup {None}]
  BY <1>1 DEF TypeOK
<1>3. /\ pc["sim"] = "serving" /\ pc'["sim"] = "test" /\ pc'["io"] = pc["io"] /\ msg'["sim"] = Request
      /\ UNCHANGED <<sstate, info, pinfo, kind, writing, wqueue, pqueue, pwriting, pstate, toPeer, toSession,
                     alerts, mishaps, node_id>>
  BY <1>2 DEF SimBegin, Goes, Threads, writeVars, peerVars, countVars, infoVars
<1>4. AtRest
  BY DEF SimBegin
<1>5. /\ pc["io"] = "idle" /\ sstate = "ACTIVE" /\ pstate = "connected" /\ toPeer = <<>> /\ toSession = <<>>
      /\ ~pwriting /\ ~writing /\ wqueue = <<>>
  BY <1>4 DEF AtRest, IoIdle
<1>6. Handshake
  BY <1>3 DEF HandshakeInv, Serving
<1>7. info = TypeOf(kind) /\ pinfo = TypeOf(kind) /\ pqueue = <<>> /\ alerts = 0 /\ mishaps = {}
  BY <1>5, <1>6 DEF Handshake, Answered, Untroubled
<1>8. Accepts(Request)
  <2>1. kind \in Kinds
    BY <1>1 DEF TypeOK
  <2> QED BY <1>7, <2>1, Bodies, Types DEF Accepts, Request
<1>9. NamesPeer'
  BY <1>3, <1>8 DEF NamesPeer, Accepts
<1> QED BY <1>3, <1>5, <1>7, <1>9 DEF Quiet, QuietPhase, Serving, Writes, WritePcs

\* The sim thread writes its request at once; the io thread has nothing to write.
LEMMA SimQuiet ==
  ASSUME BasicInv, OpenInv, Quiet, QuietPhase, SimStep \/ MainStop
  PROVE  Quiet' /\ QuietPhase'
<1>1. TypeOK
  BY DEF BasicInv
<1>2. pc \in [Threads -> IoPcs \cup SimPcs]
  BY <1>1 DEF TypeOK
<1>3. /\ UNCHANGED <<msg, info, kind, pinfo, pstate, pqueue, pwriting, toSession, alerts>>
      /\ pc'["io"] = pc["io"] /\ sstate' \in {sstate, "SHUTTING_DOWN"}
  BY <1>2 DEF SimStep, MainStop, Write, WriteTest, WritePush, WriteBuffer, WriteSend, WriteMark, SimState,
     SimReceive, SimPoll, SimDrained, threadVars, peerVars, infoVars, countVars, Goes, Threads
<1>4. NamesPeer' = NamesPeer
  BY <1>3 DEF NamesPeer, Accepts
<1>5. CASE WriteTest("sim")
  <2>1. /\ pc["sim"] = "test" /\ pc'["sim"] = (IF writing THEN "push" ELSE "buffer")
        /\ UNCHANGED <<writing, wqueue, buffer, toPeer, mishaps>>
    BY <1>2, <1>5 DEF WriteTest, Goes, Threads, writeVars
  <2> QED BY <1>3, <1>4, <2>1 DEF Quiet, QuietPhase, Serving, Writes
<1>6. CASE WritePush("sim")
  BY <1>6 DEF WritePush, Goes, Quiet
<1>7. CASE WriteBuffer("sim")
  <2>1. /\ pc["sim"] = "buffer" /\ pc'["sim"] = "send" /\ buffer' = msg["sim"]
        /\ UNCHANGED <<writing, wqueue, toPeer>>
    BY <1>2, <1>7 DEF WriteBuffer, Goes, Threads
  <2>2. mishaps' = mishaps
    BY <1>7 DEF WriteBuffer, Other, Quiet, WritePcs
  <2> QED BY <1>3, <1>4, <2>1, <2>2 DEF Quiet, QuietPhase, Serving, Writes
<1>8. CASE WriteSend("sim")
  <2>1. /\ pc["sim"] = "send" /\ pc'["sim"] = "mark"
        /\ UNCHANGED <<writing, wqueue, buffer, mishaps>>
        /\ toPeer' = IF open THEN Append(toPeer, buffer) ELSE toPeer
    BY <1>2, <1>8 DEF WriteSend, Goes, Threads
  <2>2. open /\ toPeer = <<>> /\ buffer = msg["sim"]
    BY <2>1 DEF OpenInv, Quiet, QuietPhase, Writes
  <2>3. toPeer' = <<msg'["sim"]>>
    BY <1>3, <2>1, <2>2
  <2> QED BY <1>3, <1>4, <2>1, <2>3 DEF Quiet, QuietPhase, Serving, Writes
<1>9. CASE WriteMark("sim") \/ SimState \/ SimReceive \/ SimPoll \/ SimDrained \/ MainStop
  <2>1. /\ pc["sim"] \in {"mark", "state", "receive", "drain", "down"}
        /\ pc'["sim"] \in {"state", "receive", "drain", "down"}
        /\ UNCHANGED <<wqueue, buffer, toPeer, mishaps>>
    BY <1>2, <1>9 DEF WriteMark, SimState, SimReceive, SimPoll, SimDrained, MainStop, Goes, Threads, Return,
       writeVars, threadVars
  <2> QED BY <1>3, <1>4, <2>1 DEF Quiet, QuietPhase, Serving, Writes
<1> QED BY <1>5, <1>6, <1>7, <1>8, <1>9 DEF SimStep, Write

\* The session takes the answer alone, and counts it or ignores it.
LEMMA SessionQuiet ==
  ASSUME BasicInv, Quiet, QuietPhase, Session
  PROVE  Quiet' /\ QuietPhase'
<1>1. TypeOK /\ MessagesInv
  BY DEF BasicInv
<1>2. pc \in [Threads -> IoPcs \cup SimPcs] /\ msg \in [Threads -> MessageSet \cup {None}]
  BY <1>1 DEF TypeOK
<1>3. /\ UNCHANGED <<kind, pinfo, pstate, pqueue, pwriting, toPeer, buffer, open>>
  BY DEF Session, SessionAccept, SessionStart, SessionListen, SessionReads, SessionActive, SessionRearm,
     SessionReadFails, SessionReadsEnd, SessionWritten, SessionFlush, peerVars, writeVars
<1>4. TheAck # ThePing
  BY <1>1, Known
<1>5. CASE SessionReads
  <2>1. toSession = <<TheAck>> /\ ~Writes("sim") /\ toPeer = <<>> /\ alerts = 0 /\ mishaps = {}
    BY <1>5 DEF SessionReads, QuietPhase
  <2>2. Len(toSession) = 1 /\ toSession[1] = TheAck /\ toSession \in Seq(MessageSet)
    BY <1>1, <2>1 DEF TypeOK
  <2>3. PICK k \in 1..Len(toSession) :
          /\ toSession' = Drop(toSession, k)
          /\ IoGoes("rearm") /\ UNCHANGED <<infoVars, msg, after>>
          /\ \/ alerts' = alerts + 1 /\ mishaps' = mishaps \cup Swallowed(k)
             \/ alerts' = alerts /\ mishaps' = mishaps \cup Swallowed(k) \cup {"ignored"}
    BY <1>1, <1>4, <1>5, <2>2, SessionReadCases
  <2>4. k = 1
    BY <2>2
  <2>5. toSession' = <<>>
    <3>1. Len(Drop(toSession, k)) = Len(toSession) - k /\ Drop(toSession, k) \in Seq(MessageSet)
      BY <2>2, Taken
    <3>2. Len(Drop(toSession, k)) = 0
      BY <2>2, <2>4, <3>1
    <3> QED BY <2>3, <3>1, <3>2
  <2>6. (alerts' = 1 /\ mishaps' = {}) \/ (alerts' = 0 /\ mishaps' = {"ignored"})
    BY <2>1, <2>3, <2>4 DEF Swallowed
  <2>7. pc["io"] = "idle" /\ pc'["io"] = "rearm" /\ pc'["sim"] = pc["sim"]
    BY <1>2, <2>3 DEF IoGoes, Goes, Threads
  <2>8. UNCHANGED <<sstate, writing, wqueue, info, msg>>
    BY <1>5, <2>3 DEF SessionReads, writeVars, infoVars
  <2>9. Quiet'
    BY <1>3, <2>7, <2>8 DEF Quiet, Serving, NamesPeer, Accepts, WritePcs
  <2>10. QuietPhase'
    BY <1>3, <2>1, <2>5, <2>6, <2>7 DEF QuietPhase, Writes
  <2> QED BY <2>9, <2>10
<1>6. CASE ~SessionReads
  <2>1. UNCHANGED <<alerts, mishaps, toSession, info>>
    BY <1>6 DEF Session, SessionAccept, SessionStart, SessionListen, SessionActive, SessionRearm,
       SessionReadFails, SessionReadsEnd, SessionWritten, SessionFlush, countVars, infoVars
  <2>2. /\ pc'["sim"] = pc["sim"] /\ msg'["sim"] = msg["sim"] /\ sstate' = sstate /\ wqueue' = wqueue
        /\ pc'["io"] \in {"idle", "rearm", "flush"} /\ (writing' = writing \/ writing' = FALSE)
    <3>1. ~SessionAccept /\ ~SessionStart /\ ~SessionListen /\ ~SessionActive
      BY DEF SessionAccept, SessionStart, SessionListen, SessionActive, Goes, Quiet
    <3>2. CASE SessionRearm \/ SessionReadFails \/ SessionReadsEnd \/ SessionWritten
      BY <1>2, <3>2 DEF SessionRearm, SessionReadFails, SessionReadsEnd, SessionWritten, Goes, IoGoes,
         Threads, writeVars
    <3>3. CASE SessionFlush
      BY <1>2, <3>3 DEF SessionFlush, Goes, Threads, Quiet
    <3> QED BY <1>6, <3>1, <3>2, <3>3 DEF Session
  <2>3. Quiet'
    BY <1>3, <2>1, <2>2 DEF Quiet, Serving, NamesPeer, Accepts, WritePcs
  <2>4. QuietPhase'
    BY <1>3, <2>1, <2>2 DEF QuietPhase, Writes
  <2> QED BY <2>3, <2>4
<1> QED BY <1>5, <1>6

\* The peer reads the request alone, knows its own type in it, and answers at once.
LEMMA PeerQuiet ==
  ASSUME BasicInv, Quiet, QuietPhase, Peer \/ NodeReplaced
  PROVE  Quiet' /\ QuietPhase'
<1>1. TypeOK /\ MessagesInv
  BY DEF BasicInv
<1>2. UNCHANGED <<pc, msg, sstate, info, kind, writing, wqueue, buffer, alerts>>
  BY DEF Peer, PeerConnects, PeerReads, PeerWritten, NodeReplaced, peerKeeps, writeVars, countVars, infoVars
<1>3. NamesPeer' = NamesPeer
  BY <1>2 DEF NamesPeer, Accepts
<1>4. msg["sim"] \in Requests /\ ThePong \notin Requests
  BY Ids DEF Quiet, BasicInv, MessagesInv
<1>5. CASE PeerConnects \/ NodeReplaced
  BY <1>5 DEF PeerConnects, NodeReplaced, Quiet, Serving
<1>6. CASE PeerWritten
  <2>1. UNCHANGED <<toPeer, toSession, pqueue, pstate, pinfo, mishaps>> /\ pwriting /\ ~pwriting'
    BY <1>6 DEF PeerWritten, Quiet
  <2> QED BY <1>2, <1>3, <2>1 DEF Quiet, QuietPhase, Serving, Writes
<1>7. CASE PeerReads
  <2>1. /\ toPeer = <<msg["sim"]>> /\ ~Writes("sim") /\ ~pwriting /\ toSession = <<>> /\ alerts = 0
        /\ mishaps = {}
    BY <1>7 DEF PeerReads, QuietPhase
  <2>2. Len(toPeer) = 1 /\ toPeer[1] = msg["sim"] /\ toPeer \in Seq(MessageSet)
    BY <1>1, <2>1 DEF TypeOK
  <2>3. PICK k \in 1..Len(toPeer) :
          /\ toPeer' = Drop(toPeer, k) /\ mishaps' = mishaps \cup Swallowed(k)
          /\ \/ pstate' = "asked" /\ PeerWrite(TheAck) /\ pinfo' = pinfo
             \/ k = 1 => ~NamesPeer
    BY <1>1, <1>4, <1>7, <2>2, PeerReadCases
  <2>4. k = 1
    BY <2>2
  <2>5. toPeer' = <<>> /\ mishaps' = {}
    <3>1. Len(Drop(toPeer, k)) = Len(toPeer) - k /\ Drop(toPeer, k) \in Seq(MessageSet)
      BY <2>2, Taken
    <3>2. Len(Drop(toPeer, k)) = 0
      BY <2>2, <2>4, <3>1
    <3> QED BY <2>1, <2>3, <2>4, <3>1, <3>2 DEF Swallowed
  <2>6. pstate' = "asked" /\ pinfo' = pinfo /\ pqueue' = pqueue /\ toSession' = Append(toSession, TheAck)
    BY <2>1, <2>3, <2>4 DEF Quiet, PeerWrite
  <2>7. toSession' = <<TheAck>>
    BY <2>1, <2>6
  <2>8. Quiet'
    BY <1>2, <1>3, <2>6 DEF Quiet, Serving
  <2>9. QuietPhase'
    BY <1>2, <2>1, <2>5, <2>7 DEF QuietPhase, Writes
  <2> QED BY <2>8, <2>9
<1> QED BY <1>5, <1>6, <1>7 DEF Peer

LEMMA NextQuiet ==
  ASSUME BasicInv, HandshakeInv, OpenInv, QuietInv, [Next]_vars
  PROVE  QuietInv' /\ OpenInv'
<1>1. pc \in [Threads -> IoPcs \cup SimPcs]
  BY DEF BasicInv, TypeOK
<1>2. SimBegin \/ quiet' = quiet
  BY DEF Next, Io, Session, SessionAccept, SessionStart, SessionListen, SessionReads, SessionActive,
     SessionRearm, SessionReadFails, SessionReadsEnd, SessionWritten, SessionFlush, Peer, PeerConnects,
     PeerReads, PeerWritten, NodeReplaced, peerKeeps, SimStep, Write, WriteTest, WritePush, WriteBuffer,
     WriteSend, WriteMark, SimState, SimReceive, SimPoll, SimDrained, MainStop, vars
<1>3. QuietInv'
  <2>1. SUFFICES ASSUME quiet' PROVE Quiet' /\ QuietPhase'
    BY DEF QuietInv
  <2>2. CASE SimBegin
    BY <2>1, <2>2, BeginQuiet
  <2>3. CASE ~SimBegin
    <3>1. Quiet /\ QuietPhase
      BY <1>2, <2>1, <2>3 DEF QuietInv
    <3>2. CASE Session
      BY <3>1, <3>2, SessionQuiet
    <3>3. CASE Peer \/ NodeReplaced
      BY <3>1, <3>3, PeerQuiet
    <3>4. CASE SimStep \/ MainStop
      BY <3>1, <3>4, SimQuiet
    <3>5. CASE Write("io")
      BY <3>1, <3>5 DEF Write, WriteTest, WritePush, WriteBuffer, WriteSend, WriteMark, Goes, Quiet, WritePcs
    <3>6. CASE UNCHANGED vars
      <4>1. UNCHANGED <<pc, msg, sstate, info, kind, writing, wqueue, buffer, alerts, toPeer, toSession,
                        pstate, pinfo, pwriting, pqueue, mishaps>>
        BY <3>6 DEF vars, threadVars, infoVars, writeVars, peerVars, countVars
      <4>2. Quiet'
        BY <3>1, <4>1 DEF Quiet, Serving, NamesPeer, Accepts
      <4>3. QuietPhase'
        BY <3>1, <4>1 DEF QuietPhase, Writes
      <4> QED BY <4>2, <4>3
    <3> QED BY <2>3, <3>2, <3>3, <3>4, <3>5, <3>6 DEF Next, Io
  <2> QED BY <2>2, <2>3
<1>4. OpenInv'
  <2>1. CASE MainStop
    BY <2>1 DEF MainStop, threadVars, OpenInv
  <2>2. CASE ~MainStop
    <3>1. open' = open
      BY <2>2 DEF Next, Io, Session, SessionAccept, SessionStart, SessionListen, SessionReads, SessionActive,
         SessionRearm, SessionReadFails, SessionReadsEnd, SessionWritten, SessionFlush, Peer, PeerConnects,
         PeerReads, PeerWritten, NodeReplaced, peerKeeps, SimBegin, SimStep, Write, WriteTest, WritePush,
         WriteBuffer, WriteSend, WriteMark, SimState, SimReceive, SimPoll, SimDrained, vars
    <3>2. pc["sim"] = "down" => pc'["sim"] = "down"
      <4>1. \/ pc' = pc
            \/ \E t, from, to : Goes(t, from, to) /\ (t = "io" \/ from # "down")
        BY DEF Next, Io, Session, SessionAccept, SessionStart, SessionListen, SessionReads, SessionReadsPing,
           SessionReadsAck, SessionActive, SessionRearm, SessionReadFails, SessionReadsEnd, SessionWritten,
           SessionFlush, IoGoes, Peer, PeerConnects, PeerReads, PeerWritten, NodeReplaced, peerKeeps,
           SimBegin, SimStep, Write, WriteTest, WritePush, WriteBuffer, WriteSend, WriteMark, SimState,
           SimReceive, SimPoll, SimDrained, MainStop, vars, threadVars
      <4> QED BY <1>1, <4>1 DEF Goes, Threads
    <3> QED BY <3>1, <3>2 DEF OpenInv
  <2> QED BY <2>1, <2>2
<1> QED BY <1>3, <1>4

\* A shutdown that finds the handshake over and the connection at rest is clean: no read is
\* coalesced, no buffer shared, nothing queued, and the connection is counted, or its answer
\* ignored, but not both.
THEOREM QuietShutdownsAreClean == Spec => []QuietShutdownIsClean
<1> DEFINE I == BasicInv /\ HandshakeInv /\ OpenInv /\ QuietInv
<1>1. Init => HandshakeInv
  BY DEF Init, HandshakeInv, Handshake, Untroubled, NothingSent, Threads, WritePcs
<1>2. Init => OpenInv /\ QuietInv
  BY DEF Init, OpenInv, QuietInv
<1>3. I /\ [Next]_vars => I'
  BY NextBasic, NextHandshake, NextQuiet
<1>4. QuietInv => QuietShutdownIsClean
  <2>1. Cardinality({}) = 0 /\ Cardinality({"ignored"}) = 1
    BY FS_EmptySet, FS_Singleton
  <2>2. ASSUME Quiet, QuietPhase
        PROVE  /\ mishaps \subseteq {"ignored"} /\ wqueue = <<>> /\ pinfo = info
               /\ alerts + Cardinality(mishaps) <= 1
    <3>1. \/ alerts = 0 /\ mishaps = {}
          \/ alerts = 1 /\ mishaps = {}
          \/ alerts = 0 /\ mishaps = {"ignored"}
      BY <2>2 DEF QuietPhase
    <3>2. alerts + Cardinality(mishaps) <= 1
      BY <2>1, <3>1
    <3> QED BY <2>2, <3>1, <3>2 DEF Quiet
  <2> QED BY <2>2 DEF QuietInv, QuietShutdownIsClean
<1> QED BY <1>1, <1>2, <1>3, <1>4, InitBasic, PTL DEF Spec
=============================================================================
