--------------------------- MODULE ControlSession ---------------------------
(***************************************************************************)
(* One control connection: the session on the side of simulation_control   *)
(* and its peer, a node or a layer, from the accept to session::stop().    *)
(*                                                                         *)
(* Two threads run the session's code and it takes no lock: the io thread, *)
(* one completion handler at a time (the peer's handlers run on it too),   *)
(* and the sim thread, which calls begin_shutdown() and polls the control. *)
(* The steps of write_message(), the only code both of them run, are       *)
(* actions of their own; every other handler is one action up to its next  *)
(* write.  The sockets are TCP streams: a receive may return several       *)
(* messages at once, which are taken for one, with the header of the first *)
(* and the body of the last.                                               *)
(***************************************************************************)
EXTENDS Messages, FiniteSets

CONSTANT Kinds      (* what a peer may be: a subset of {"node", "layer"} *)

ASSUME KindsAssumption == Kinds # {} /\ Kinds \subseteq {"node", "layer"}

VARIABLES
  pc, msg,            (* per thread: next statement, the argument of its write_message() *)
  after,              (* where the io thread goes on after write_message()               *)
  sstate,             (* session_state                                                    *)
  info, node_id,      (* session_info (uninitialized until a PING) and node_id            *)
  reading, receives,  (* the reading flag; how many async_receive are outstanding         *)
  writing, sends,     (* the is_writing flag; how many async_send are outstanding         *)
  buffer, wqueue,     (* current_write_buffer, write_queue                                *)
  toPeer, toSession,  (* the two streams                                                  *)
  kind, pstate,       (* the peer, and how far it got                                     *)
  pinfo,              (* its session_info: 0 until the session has answered               *)
  pwriting, pqueue,   (* the peer's writing flag and write queue                          *)
  alerts, closed,     (* alert_session_shutdown() calls; closed_nodes                     *)
  open,               (* the session's socket is open                                     *)
  quiet, mishaps      (* history: how begin_shutdown() found the session; what went wrong *)

threadVars == <<pc, msg, after>>
readVars == <<reading, receives>>
writeVars == <<writing, sends, buffer, wqueue>>
peerVars == <<kind, pstate, pinfo, pwriting, pqueue>>
infoVars == <<info, node_id>>
countVars == <<alerts, closed>>
vars == <<threadVars, sstate, infoVars, readVars, writeVars, toPeer, toSession, peerVars,
          countVars, open, quiet, mishaps>>

-----------------------------------------------------------------------------
Threads == {"io", "sim"}
Other(t) == IF t = "io" THEN "sim" ELSE "io"

WritePcs == {"test", "push", "buffer", "send", "mark"}
IoPcs == WritePcs \cup {"idle", "start", "listen", "active", "rearm", "flush"}
SimPcs == WritePcs \cup {"serving", "state", "receive", "drain", "down"}

Id == 1                                   \* the peer's id
Binding == [port |-> 1, ip |-> 1]         \* the endpoint of a layer

TypeOf(k) ==
  combined_type(CONTROL_CONNECTION, IF k = "layer" THEN LAYER_CONNECTION ELSE NODE_CONNECTION)

SessionTypes == {TypeOf(k) : k \in Kinds}
Infos == SessionTypes \cup {0}             \* 0 stands for every other value
NodeIds == {0, Id}

None == message("NONE", "NONE", [status |-> 0])

Ping(k) == session_status_request(TypeOf(k), Id, IF k = "layer" THEN 1 ELSE 0)
Pong(request) == session_status_response(request.session_type, request.node_id, 0)
Description == simulation_description(info, node_id, 0, Binding)
Request == session_shutdown_request(info, node_id, 0)
Ack(m) == acknowledgement(m.header, 0)

MessageSet ==
  {Ping(k) : k \in Kinds}
  \cup {session_status_response(st, Id, 0) : st \in SessionTypes}
  \cup {simulation_description(st, Id, 0, Binding) : st \in SessionTypes}
  \cup {session_shutdown_request(st, n, 0) : st \in Infos, n \in NodeIds}
  \cup {Ack(session_shutdown_request(0, 0, 0))}

TypeOK ==
  /\ pc \in [Threads -> IoPcs \cup SimPcs] /\ pc["io"] \in IoPcs /\ pc["sim"] \in SimPcs
  /\ msg \in [Threads -> MessageSet \cup {None}]
  /\ after \in {"idle", "active", "rearm"}
  /\ sstate \in {"none", "STOPPED", "LAUNCHING", "ACTIVE", "SHUTTING_DOWN"}
  /\ info \in Infos /\ node_id \in NodeIds /\ pinfo \in Infos
  /\ reading \in BOOLEAN /\ receives \in 0..2
  /\ writing \in BOOLEAN /\ sends \in 0..2
  /\ buffer \in MessageSet \cup {None} /\ wqueue \in Seq(MessageSet)
  /\ toPeer \in Seq(MessageSet) /\ toSession \in Seq(MessageSet)
  /\ kind \in Kinds /\ pstate \in {"connecting", "connected", "asked", "replaced"}
  /\ pwriting \in BOOLEAN /\ pqueue \in Seq(MessageSet)
  /\ alerts \in 0..2 /\ closed \in 0..2 /\ closed <= alerts
  /\ open \in BOOLEAN /\ quiet \in BOOLEAN
  /\ mishaps \subseteq {"swallowed", "clobbered", "ignored"}

Init ==
  /\ pc = [t \in Threads |-> IF t = "io" THEN "idle" ELSE "serving"]
  /\ msg = [t \in Threads |-> None] /\ after = "idle"
  /\ sstate = "none"
  /\ kind \in Kinds /\ info \in Infos /\ node_id = 0 /\ pinfo = 0
  /\ reading = FALSE /\ receives = 0
  /\ writing = FALSE /\ sends = 0 /\ buffer = None /\ wqueue = <<>>
  /\ toPeer = <<>> /\ toSession = <<>>
  /\ pstate = "connecting" /\ pwriting = FALSE /\ pqueue = <<>>
  /\ alerts = 0 /\ closed = 0
  /\ open = TRUE /\ quiet = FALSE /\ mishaps = {}

Goes(t, from, to) == pc[t] = from /\ pc' = [pc EXCEPT ![t] = to]

\* A handler of the io context starts: to is where it goes on.
IoGoes(to) == Goes("io", "idle", to)

Drop(s, k) == SubSeq(s, k + 1, Len(s))

\* A receive that returns more than one message handles one.
Swallowed(k) == IF k > 1 THEN {"swallowed"} ELSE {}

-----------------------------------------------------------------------------
(* session::write_message(), run by either thread *)

Return(t) ==
  IF t = "sim" THEN "state" ELSE after

WriteTest(t) ==
  /\ Goes(t, "test", IF writing THEN "push" ELSE "buffer")
  /\ UNCHANGED <<msg, after, sstate, infoVars, readVars, writeVars, toPeer, toSession, peerVars,
                 countVars, open, quiet, mishaps>>

WritePush(t) ==
  /\ Goes(t, "push", Return(t))
  /\ wqueue' = Append(wqueue, msg[t])
  /\ UNCHANGED <<msg, after, sstate, infoVars, readVars, writing, sends, buffer, toPeer, toSession,
                 peerVars, countVars, open, quiet, mishaps>>

\* the buffer may be the one the other thread is about to send
WriteBuffer(t) ==
  /\ Goes(t, "buffer", "send")
  /\ buffer' = msg[t]
  /\ mishaps' = IF pc[Other(t)] = "send" THEN mishaps \cup {"clobbered"} ELSE mishaps
  /\ UNCHANGED <<msg, after, sstate, infoVars, readVars, writing, sends, wqueue, toPeer, toSession,
                 peerVars, countVars, open, quiet>>

\* async_send(): the socket takes what is in the buffer now
WriteSend(t) ==
  /\ Goes(t, "send", "mark")
  /\ toPeer' = IF open THEN Append(toPeer, buffer) ELSE toPeer
  /\ sends' = sends + 1
  /\ UNCHANGED <<msg, after, sstate, infoVars, readVars, writing, buffer, wqueue, toSession,
                 peerVars, countVars, open, quiet, mishaps>>

WriteMark(t) ==
  /\ Goes(t, "mark", Return(t))
  /\ writing' = TRUE
  /\ UNCHANGED <<msg, after, sstate, infoVars, readVars, sends, buffer, wqueue, toPeer, toSession,
                 peerVars, countVars, open, quiet, mishaps>>

Write(t) == WriteTest(t) \/ WritePush(t) \/ WriteBuffer(t) \/ WriteSend(t) \/ WriteMark(t)

-----------------------------------------------------------------------------
(* The session's handlers on the io thread *)

\* handle_accept(): the connection is in the map and its session exists, not yet started
SessionAccept ==
  /\ sstate = "none"
  /\ IoGoes("start")
  /\ sstate' = "STOPPED"
  /\ UNCHANGED <<msg, after, infoVars, readVars, writeVars, toPeer, toSession, peerVars, countVars,
                 open, quiet, mishaps>>

\* session::start()
SessionStart ==
  /\ Goes("io", "start", "listen")
  /\ sstate' = "LAUNCHING"
  /\ UNCHANGED <<msg, after, infoVars, readVars, writeVars, toPeer, toSession, peerVars, countVars,
                 open, quiet, mishaps>>

SessionListen ==
  /\ Goes("io", "listen", "idle")
  /\ reading' = TRUE /\ receives' = receives + 1
  /\ UNCHANGED <<msg, after, sstate, infoVars, writeVars, toPeer, toSession, peerVars, countVars,
                 open, quiet, mishaps>>

\* handle_read() of a PING: handle_status_request() records what it says and answers PONG.
\* The body of another message has no session type, and is refused without an answer.
SessionReadsPing(m, k) ==
  LET request == parse_status_request(m.body) IN
  /\ m.header.id = "PING"
  /\ IF /\ SessionTakes(sstate, m)
        /\ node_type_of(request.session_type) \in {NODE_CONNECTION, LAYER_CONNECTION}
       THEN /\ IoGoes("test")
            /\ info' = request.session_type /\ node_id' = request.node_id
            /\ msg' = [msg EXCEPT !["io"] = Pong(request)] /\ after' = "active"
       ELSE IoGoes("rearm") /\ UNCHANGED <<infoVars, msg, after>>
  /\ mishaps' = mishaps \cup Swallowed(k)
  /\ UNCHANGED alerts

\* handle_read() of an ACK: it alerts the control only while the session shuts down
SessionReadsAck(m, k) ==
  /\ m.header.id = "ACK"
  /\ IoGoes("rearm")
  /\ IF SessionTakes(sstate, m) /\ sstate = "SHUTTING_DOWN"
       THEN alerts' = alerts + 1 /\ mishaps' = mishaps \cup Swallowed(k)
       ELSE mishaps' = mishaps \cup Swallowed(k) \cup {"ignored"} /\ UNCHANGED alerts
  /\ UNCHANGED <<msg, after, infoVars>>

\* handle_message() of what the receive returned, as one message
SessionReceived(k) == Received(SubSeq(toSession, 1, k))

\* handle_read()
SessionReads ==
  /\ receives > 0 /\ open /\ toSession # <<>>
  /\ reading' = FALSE /\ receives' = receives - 1
  /\ \E k \in 1..Len(toSession) :
       LET m == SessionReceived(k) IN
       /\ SessionReadsPing(m, k) \/ SessionReadsAck(m, k)
       /\ toSession' = Drop(toSession, k)
  /\ UNCHANGED <<sstate, writeVars, toPeer, peerVars, closed, open, quiet>>

\* the rest of handle_status_request(): the session becomes active, then looks at the state
\* it has just left to decide whether a layer gets the simulation description
SessionActive ==
  LET describes == sstate' = "LAUNCHING" /\ node_type_of(info) = LAYER_CONNECTION IN
  /\ sstate' = "ACTIVE"
  /\ Goes("io", "active", IF describes THEN "test" ELSE "rearm")
  /\ msg' = [msg EXCEPT !["io"] = IF describes THEN Description ELSE None]
  /\ after' = "rearm"
  /\ UNCHANGED <<infoVars, readVars, writeVars, toPeer, toSession, peerVars, countVars, open, quiet,
                 mishaps>>

\* the end of handle_read(): the next receive, without setting the reading flag
SessionRearm ==
  /\ Goes("io", "rearm", "idle")
  /\ receives' = receives + 1
  /\ UNCHANGED <<msg, after, sstate, infoVars, reading, writeVars, toPeer, toSession, peerVars,
                 countVars, open, quiet, mishaps>>

\* Fault: a failed receive is started again.
SessionReadRetries ==
  /\ receives > 0 /\ ~open
  /\ IoGoes("rearm")
  /\ reading' = FALSE /\ receives' = receives - 1
  /\ UNCHANGED <<msg, after, sstate, infoVars, writeVars, toPeer, toSession, peerVars, countVars,
                 open, quiet, mishaps>>

\* handle_read() with an error: the socket was closed by stop()
SessionReadFails ==
  /\ receives > 0 /\ ~open
  /\ IoGoes("idle")
  /\ reading' = FALSE /\ receives' = receives - 1
  /\ UNCHANGED <<msg, after, sstate, infoVars, writeVars, toPeer, toSession, peerVars, countVars,
                 open, quiet, mishaps>>

\* ... or at its end: the peer is gone.  The control is not told.
SessionReadsEnd ==
  /\ receives > 0 /\ open /\ pstate = "replaced"
  /\ IoGoes("idle")
  /\ reading' = FALSE /\ receives' = receives - 1
  /\ UNCHANGED <<msg, after, sstate, infoVars, writeVars, toPeer, toSession, peerVars, countVars,
                 open, quiet, mishaps>>

\* handle_write(): the flag is cleared; after an error nothing else happens
SessionWritten ==
  /\ sends > 0
  /\ \/ IoGoes("flush")
     \/ (~open \/ pstate = "replaced") /\ IoGoes("idle")
  /\ writing' = FALSE /\ sends' = sends - 1
  /\ UNCHANGED <<msg, after, sstate, infoVars, readVars, buffer, wqueue, toPeer, toSession, peerVars,
                 countVars, open, quiet, mishaps>>

\* the rest of handle_write(): the next queued message is written
SessionFlush ==
  /\ Goes("io", "flush", IF wqueue = <<>> THEN "idle" ELSE "test")
  /\ IF wqueue = <<>>
       THEN UNCHANGED <<wqueue, msg>>
       ELSE wqueue' = Tail(wqueue) /\ msg' = [msg EXCEPT !["io"] = Head(wqueue)]
  /\ after' = "idle"
  /\ UNCHANGED <<sstate, infoVars, readVars, writing, sends, buffer, toPeer, toSession, peerVars,
                 countVars, open, quiet, mishaps>>

Session ==
  \/ SessionAccept \/ SessionStart \/ SessionListen \/ SessionReads \/ SessionActive
  \/ SessionRearm \/ SessionReadFails \/ SessionReadsEnd \/ SessionWritten \/ SessionFlush

-----------------------------------------------------------------------------
(* The peer: simulation_node and layer_control_block have the same control connection *)

peerKeeps == <<pc, msg, after, sstate, infoVars, readVars, writeVars, countVars, open, quiet>>
IoIdle == pc["io"] = "idle"

\* write_control_message()
PeerWrite(m) ==
  IF pwriting
    THEN pqueue' = Append(pqueue, m) /\ UNCHANGED <<pwriting, toSession>>
    ELSE pwriting' = TRUE /\ toSession' = Append(toSession, m) /\ UNCHANGED pqueue

\* on_control_connect(): the peer introduces itself
PeerConnects ==
  /\ IoIdle
  /\ pstate = "connecting" /\ pstate' = "connected"
  /\ PeerWrite(Ping(kind))
  /\ UNCHANGED <<peerKeeps, toPeer, kind, pinfo, mishaps>>

\* node_message_handler, layer_message_handler: a PONG for this peer gives it its session_info
PeerWelcomed(m) ==
  LET response == parse_status_response(m.body) IN
  /\ m.header.id = "PONG" /\ PeerTakes(m)
  /\ response.node_id = Id
  /\ pinfo' = response.session_type
  /\ UNCHANGED <<pstate, pwriting, pqueue, toSession>>

Asks(m) == m.header.id = "NODE_SHUTDOWN_REQUEST" /\ PeerTakes(m)

\* handle_shutdown_request() acknowledges a request that names the peer's own type
Accepts(m) ==
  LET st == parse_shutdown_request(m.body).session_type IN
  /\ type_of(st) = CONTROL_CONNECTION
  /\ node_type_of(st) = (IF kind = "layer" THEN LAYER_CONNECTION ELSE NODE_CONNECTION)

PeerAsked(m) ==
  /\ Asks(m) /\ Accepts(m)
  /\ pstate' = "asked" /\ PeerWrite(Ack(m))
  /\ UNCHANGED pinfo

\* ... and drops any other; a description changes nothing on this connection
PeerDrops(m) ==
  /\ ~(Asks(m) /\ Accepts(m))
  /\ ~(m.header.id = "PONG" /\ PeerTakes(m) /\ parse_status_response(m.body).node_id = Id)
  /\ UNCHANGED <<pstate, pinfo, pwriting, pqueue, toSession>>

\* Fault: a shutdown request is acknowledged before its type is looked at.
PeerAnswersBoth(m) ==
  IF Asks(m)
    THEN /\ pstate' = IF Accepts(m) THEN "asked" ELSE pstate
         /\ PeerWrite(Ack(m)) /\ UNCHANGED pinfo
    ELSE PeerWelcomed(m) \/ PeerDrops(m)

\* Fault: a layer checks for the node type.
PeerAnswersNodes(m) ==
  IF Asks(m) /\ kind = "layer"
    THEN UNCHANGED <<pstate, pinfo, pwriting, pqueue, toSession>>
    ELSE PeerWelcomed(m) \/ PeerAsked(m) \/ PeerDrops(m)

PeerAnswers(m) == PeerWelcomed(m) \/ PeerAsked(m) \/ PeerDrops(m)

\* handle_control_message(), parse_message(): as on the other side
PeerReceived(k) == Received(SubSeq(toPeer, 1, k))

\* finish_control_read()
PeerReads ==
  /\ IoIdle
  /\ pstate \in {"connected", "asked"} /\ toPeer # <<>>
  /\ \E k \in 1..Len(toPeer) :
       /\ PeerAnswers(PeerReceived(k))
       /\ toPeer' = Drop(toPeer, k) /\ mishaps' = mishaps \cup Swallowed(k)
  /\ UNCHANGED <<peerKeeps, kind>>

\* Fault: the queue is not looked at when a write ends.
PeerWrittenForgets ==
  /\ IoIdle /\ pwriting /\ pstate # "replaced"
  /\ pwriting' = FALSE
  /\ UNCHANGED <<peerKeeps, toPeer, toSession, kind, pstate, pinfo, pqueue, mishaps>>

\* finish_control_write()
PeerWritten ==
  /\ IoIdle /\ pwriting /\ pstate # "replaced"
  /\ pwriting' = (pqueue # <<>>)
  /\ IF pqueue = <<>>
       THEN UNCHANGED <<pqueue, toSession>>
       ELSE pqueue' = Tail(pqueue) /\ toSession' = Append(toSession, Head(pqueue))
  /\ UNCHANGED <<peerKeeps, toPeer, kind, pstate, pinfo, mishaps>>

Peer == PeerConnects \/ PeerReads \/ PeerWritten

-----------------------------------------------------------------------------
(* The sim thread, then the main thread *)

\* simulation_node::activate() of a node that is active: its new socket takes the place of the
\* one of this connection, which closes.
NodeReplaced ==
  /\ IoIdle /\ pc["sim"] = "serving"
  /\ kind = "node" /\ pstate \in {"connecting", "connected"}
  /\ pstate' = "replaced"
  /\ UNCHANGED <<peerKeeps, toPeer, toSession, kind, pinfo, pwriting, pqueue, mishaps>>

\* The handshake is over and nothing is under way on the connection.
AtRest ==
  /\ pstate = "connected"
  /\ sstate = "ACTIVE" /\ IoIdle /\ sends = 0 /\ ~writing /\ wqueue = <<>>
  /\ toPeer = <<>> /\ toSession = <<>> /\ ~pwriting

\* begin_shutdown(): the request carries the session_info of this moment
SimBegin ==
  /\ sstate # "none"
  /\ Goes("sim", "serving", "test")
  /\ msg' = [msg EXCEPT !["sim"] = Request]
  /\ quiet' = AtRest
  /\ UNCHANGED <<after, sstate, infoVars, readVars, writeVars, toPeer, toSession, peerVars, countVars,
                 open, mishaps>>

SimState ==
  /\ Goes("sim", "state", "receive")
  /\ sstate' = "SHUTTING_DOWN"
  /\ UNCHANGED <<msg, after, infoVars, readVars, writeVars, toPeer, toSession, peerVars, countVars,
                 open, quiet, mishaps>>

\* if (!reading) async_receive: the flag is stale after the first read, so this is usually a
\* second receive beside the one that is outstanding
SimReceive ==
  /\ Goes("sim", "receive", "drain")
  /\ receives' = IF reading THEN receives ELSE receives + 1
  /\ UNCHANGED <<msg, after, sstate, infoVars, reading, writeVars, toPeer, toSession, peerVars,
                 countVars, open, quiet, mishaps>>

\* Fault: the queue of dead connections is read and not emptied.
SimPollKeepsQueue ==
  /\ pc["sim"] = "drain" /\ alerts > 0 /\ closed < 2
  /\ closed' = closed + 1
  /\ UNCHANGED <<threadVars, sstate, infoVars, readVars, writeVars, toPeer, toSession, peerVars,
                 alerts, open, quiet, mishaps>>

\* Fault: the drain loop asks the nodes again.
SimPollAsksAgain ==
  /\ Goes("sim", "drain", "test")
  /\ closed # 1
  /\ closed' = alerts
  /\ UNCHANGED <<msg, after, sstate, infoVars, readVars, writeVars, toPeer, toSession, peerVars,
                 alerts, open, quiet, mishaps>>

\* simulation_control::poll()
SimPoll ==
  /\ pc["sim"] = "drain" /\ closed < alerts
  /\ closed' = alerts
  /\ UNCHANGED <<threadVars, sstate, infoVars, readVars, writeVars, toPeer, toSession, peerVars,
                 alerts, open, quiet, mishaps>>

\* nodes_cleaned_up(): closed_nodes == connections.size(), and there is one connection
SimDrained ==
  /\ Goes("sim", "drain", "down")
  /\ closed = 1
  /\ UNCHANGED <<msg, after, sstate, infoVars, readVars, writeVars, toPeer, toSession, peerVars,
                 countVars, open, quiet, mishaps>>

SimStep == Write("sim") \/ SimState \/ SimReceive \/ SimPoll \/ SimDrained

\* simulation_control::shutdown() on the main thread: session::stop()
MainStop ==
  /\ pc["sim"] = "down" /\ open
  /\ open' = FALSE
  /\ UNCHANGED <<threadVars, sstate, infoVars, readVars, writeVars, toPeer, toSession, peerVars,
                 countVars, quiet, mishaps>>

-----------------------------------------------------------------------------
Io == Session \/ Peer \/ Write("io")

Next == Io \/ NodeReplaced \/ SimBegin \/ SimStep \/ MainStop

(* The threads run, and the io context runs every handler that is ready; a shutdown may    *)
(* never be asked for.                                                                     *)
Spec == Init /\ [][Next]_vars /\ WF_vars(Io) /\ WF_vars(SimStep) /\ WF_vars(MainStop)

-----------------------------------------------------------------------------
(* Properties *)

\* The request of this shutdown names the type of the peer.
NamesPeer == Accepts(msg["sim"])

\* The peer whose shutdown is counted has been asked for it and answered: an acknowledgement
\* is never one of something else.  A request with another type counts only when it was
\* received together with the session's PONG, whose session type then stands for its own.
CountedAfterAsked ==
  alerts > 0 => pstate = "asked" /\ (NamesPeer \/ "swallowed" \in mishaps)

\* closed_nodes is compared with ==, so one connection must not be counted twice.  It is only
\* when both threads filled the same write buffer, and the request went out twice.
CountedOnce == alerts > 1 => "clobbered" \in mishaps

\* When begin_shutdown() finds the handshake over and the connection at rest, the race on the
\* write flag, the coalesced reads and the second receive are all harmless, and both ends know
\* the same session type.  One race is left:
\* the request is on its way before the state says so, and a fast answer is ignored.
QuietShutdownIsClean ==
  quiet => /\ mishaps \subseteq {"ignored"} /\ wqueue = <<>>
           /\ pinfo = info
           /\ alerts + Cardinality(mishaps) <= 1

\* ... and unless that answer is ignored the shutdown completes.
QuietShutdownCompletes == quiet ~> (pc["sim"] = "down" \/ mishaps = {"ignored"})

\* The ways a shutdown of this connection hangs the sim thread in its drain loop:
Stranded == wqueue # <<>> /\ sends = 0 /\ IoIdle      \* queued behind a write that had just ended
Rejected == ~NamesPeer                                \* asked before the PING told the type
Lost == mishaps # {}                  \* a coalesced read, a shared buffer or an ignored answer
Gone == pstate = "replaced"           \* the node was activated twice

\* Any other shutdown completes.
ShutdownCompletes ==
  pc["sim"] = "drain" ~> (pc["sim"] = "down" \/ Stranded \/ Rejected \/ Lost \/ Gone)

\* After stop() the session has no operation outstanding on its socket, for good: the receive
\* that begin_shutdown() added is cancelled with the other one.
StoppedSessionIsQuiet == ~open ~> [](receives = 0 /\ sends = 0)

\* session.cpp:180-181: "if we are active then are done, otherwise if are starting up and a
\* layer we send the simulation description".
LayerIsDescribed ==
  [][SessionActive /\ sstate = "LAUNCHING" /\ kind = "layer"
       => msg'["io"].header.id = "SIM_DESCRIPTION"]_vars
=============================================================================
