------------------------------ MODULE LayerHost ------------------------------
(***************************************************************************)
(* The layers of a simulation: the libraries they are loaded from, the      *)
(* control block and control connection of each, and their end, which the   *)
(* sim thread brings about while handlers of the io thread are outstanding. *)
(* The sessions at the other end are in ControlSession; here they greet,    *)
(* ask and are answered, each in any order that module allows.              *)
(***************************************************************************)
EXTENDS Integers, Sequences, FiniteSets

CONSTANTS Paths,        (* paths of layer libraries *)
          LayerLists    (* the lists of layers a configuration may have *)

ASSUME LayersAssumption == LayerLists \subseteq Seq(Paths) /\ IsFiniteSet(Paths)

\* What a path leads to: no regular file, a file that is no library, a library without the two
\* symbols, one whose create_layer() returns null, or a layer.
Files == {"missing", "unloadable", "no_symbols", "null_layer", "layer"}

\* An operation of asio: none, outstanding, or over with its handler queued.  It fails when its
\* socket is closed; a receive also fails for other reasons, or has read a message.
Operations == {"none", "pending", "ok", "failed"}
Messages == {"PONG", "REQUEST"}
Receives == {"none", "pending", "failed", "error"} \cup Messages

VARIABLES file, layers,   (* what is at each path; the layers of the configuration *)
          bound,          (* how many of them bind_layer() has been called for *)
          lib,            (* layer_libraries *)
          layer,          (* layer_map; "closed" is between shutdown() and the deletion *)
          up,             (* the control socket is connected *)
          connect, read, write, (* its three operations *)
          unsent,         (* the answers in write_queue of the control block *)
          session,        (* the session of each layer: accepted, asked to shut down *)
          ping,           (* the PING of the layer *)
          inbox,          (* what its session said and the layer has not read *)
          acks,           (* the answers the session has not alerted simulation_control of *)
          closed,         (* the alerts of each session that are counted *)
          mishaps,        (* history: what else went wrong on a connection *)
          crash           (* how the program was terminated *)

sessionVars == <<session, ping, inbox, acks, closed>>
connVars == <<up, connect, read, write, unsent, sessionVars, mishaps>>
hostVars == <<file, layers, bound, lib, layer, connVars, crash>>

HostTypeOK ==
  /\ file \in [Paths -> Files] /\ layers \in Seq(Paths) /\ bound \in 0..Len(layers)
  /\ lib \in [Paths -> {"none", "not_loaded", "loaded"}]
  /\ layer \in [Paths -> {"none", "live", "closed", "deleted"}]
  /\ up \in [Paths -> BOOLEAN] /\ {connect, write} \subseteq [Paths -> Operations]
  /\ read \in [Paths -> Receives]
  /\ session \in [Paths -> {"none", "open", "asked"}]
  /\ ping \in [Paths -> {"none", "sent", "answered"}] /\ inbox \in [Paths -> Seq(Messages)]
  /\ {unsent, acks, closed} \subseteq [Paths -> Nat]
  /\ mishaps \subseteq {"overtaken", "error"}
  /\ crash \in {"none", "pure_virtual", "not_connected", "null_socket"}

HostInit ==
  /\ file \in [Paths -> Files] /\ layers \in LayerLists /\ bound = 0
  /\ lib = [p \in Paths |-> "none"] /\ layer = [p \in Paths |-> "none"]
  /\ up = [p \in Paths |-> FALSE]
  /\ connect = [p \in Paths |-> "none"] /\ read = connect /\ write = connect
  /\ session = [p \in Paths |-> "none"] /\ ping = session /\ inbox = [p \in Paths |-> <<>>]
  /\ unsent = [p \in Paths |-> 0] /\ acks = unsent /\ closed = unsent
  /\ mishaps = {} /\ crash = "none"

-----------------------------------------------------------------------------
(* The sim thread *)

\* ~dyn_library() unloads a library that is still loaded.  By then the derived class is gone
\* and unload() is pure virtual, which ends the program.
Destroyed(l) == IF l = "loaded" THEN "pure_virtual" ELSE crash

attempt_load(p) == IF file[p] = "unloadable" THEN "not_loaded" ELSE "loaded"

\* bind_layer() of the next path.  A library that is in layer_libraries already is loaded once
\* more; the insertion fails and the new object goes at the end of the statement.  Otherwise
\* what was loaded stays only if it makes a layer.  An unloadable library stays as well.  The
\* layer is initialized and its control block begins to connect.
BindLayer ==
  LET p == layers[bound + 1]
      again == lib[p] # "none" /\ file[p] # "missing"
      makes == file[p] = "layer" /\ ~again
  IN  /\ bound < Len(layers)
      /\ bound' = bound + 1
      /\ crash' = IF again THEN Destroyed(attempt_load(p)) ELSE crash
      /\ lib' = [lib EXCEPT ![p] = IF makes \/ (file[p] = "unloadable") THEN attempt_load(p) ELSE @]
      /\ layer' = [layer EXCEPT ![p] = IF makes THEN "live" ELSE @]
      /\ connect' = [connect EXCEPT ![p] = IF makes THEN "pending" ELSE @]
      /\ UNCHANGED <<file, layers, up, read, write, unsent, sessionVars, mishaps>>

\* The sessions that may be writing the PONG
Greeting == {p \in Paths : session[p] = "open" /\ ping[p] = "sent"}

\* shutdown_nodes(): the sessions accepted so far are asked.  The request and a PONG that is
\* written meanwhile share a buffer, and one of them may go out twice in place of the other.
AskSessions ==
  \E both \in SUBSET Greeting : \E twice \in [both -> Messages] :
    /\ session' = [p \in Paths |-> IF session[p] = "open" THEN "asked" ELSE session[p]]
    /\ ping' = [p \in Paths |-> IF p \in both THEN "answered" ELSE ping[p]]
    /\ inbox' = [p \in Paths |-> IF session[p] # "open" THEN inbox[p]
                                ELSE inbox[p] \o (IF p \in both THEN <<twice[p], twice[p]>>
                                                  ELSE <<"REQUEST">>)]
    /\ UNCHANGED <<file, layers, bound, lib, layer, up, connect, read, write, unsent, acks, closed,
                   mishaps, crash>>

connections == {p \in Paths : session[p] # "none"}
closed_nodes == Cardinality(UNION {{p} \X (1..closed[p]) : p \in Paths})

\* Fault: the comparison is an inequality, the wrong way round.
SessionsNotClosed == closed_nodes <= Cardinality(connections)

\* nodes_cleaned_up() compares two numbers: one session may be counted twice, and another not.
SessionsClosed == closed_nodes = Cardinality(connections)

\* The operations that are outstanding on a socket when it is closed fail.
Aborted(op) == IF op = "pending" THEN "failed" ELSE op

\* simulation_layer::shutdown(): the socket is shut down, closed and dropped with its control
\* block; then on_shutdown().  shutdown() of a socket that is not connected throws, and nothing
\* on the sim thread catches it.
CloseLayer(p) ==
  /\ layer[p] = "live"
  /\ IF up[p]
     THEN /\ layer' = [layer EXCEPT ![p] = "closed"]
          /\ connect' = [connect EXCEPT ![p] = Aborted(@)]
          /\ read' = [read EXCEPT ![p] = Aborted(@)]
          /\ write' = [write EXCEPT ![p] = Aborted(@)]
          /\ UNCHANGED crash
     ELSE crash' = "not_connected" /\ UNCHANGED <<layer, connect, read, write>>
  /\ UNCHANGED <<file, layers, bound, lib, up, unsent, sessionVars, mishaps>>

\* delete_fn(), which is code of the library
DeleteLayer(p) ==
  /\ layer[p] = "closed"
  /\ layer' = [layer EXCEPT ![p] = "deleted"]
  /\ UNCHANGED <<file, layers, bound, lib, connVars, crash>>

\* Fault: the libraries go first.
UnloadFirst ==
  /\ lib' = [p \in Paths |-> "none"]
  /\ UNCHANGED <<file, layers, bound, layer, connVars, crash>>

\* The libraries are unloaded when all layers are deleted, and both maps are cleared.
UnloadLibraries ==
  /\ \A p \in Paths : layer[p] \in {"none", "deleted"}
  /\ lib' = [p \in Paths |-> "none"]
  /\ UNCHANGED <<file, layers, bound, layer, connVars, crash>>

\* ~simulation_state() destroys layer_libraries as they are left.
DestroyLibraries ==
  /\ crash' = IF \E p \in Paths : lib[p] = "loaded" THEN Destroyed("loaded") ELSE crash
  /\ lib' = [p \in Paths |-> "none"]
  /\ UNCHANGED <<file, layers, bound, layer, connVars>>

-----------------------------------------------------------------------------
(* The network, and the session of a layer *)

netKeeps == <<file, layers, bound, lib, layer, unsent, crash>>

Connected(p) ==
  /\ connect[p] = "pending"
  /\ \/ connect' = [connect EXCEPT ![p] = "ok"] /\ up' = [up EXCEPT ![p] = TRUE]
     \/ connect' = [connect EXCEPT ![p] = "failed"] /\ UNCHANGED up
  /\ UNCHANGED <<netKeeps, read, write, sessionVars, mishaps>>

Accepted(p) ==
  /\ up[p] /\ session[p] = "none"
  /\ session' = [session EXCEPT ![p] = "open"]
  /\ UNCHANGED <<netKeeps, up, connect, read, write, ping, inbox, acks, closed, mishaps>>

\* handle_status_request(), in whatever state the session is
Greets(p) ==
  /\ session[p] # "none" /\ ping[p] = "sent"
  /\ ping' = [ping EXCEPT ![p] = "answered"]
  /\ inbox' = [inbox EXCEPT ![p] = Append(@, "PONG")]
  /\ UNCHANGED <<netKeeps, up, connect, read, write, session, acks, closed, mishaps>>

\* A receive returns what has come of the stream, of which the first message is handled; that a
\* request overtakes the PONG, or its double, is noted.
Received(p) ==
  /\ read[p] = "pending" /\ inbox[p] # <<>>
  /\ read' = [read EXCEPT ![p] = Head(inbox[p])]
  /\ \E k \in 1..Len(inbox[p]) : inbox' = [inbox EXCEPT ![p] = SubSeq(@, k + 1, Len(@))]
  /\ mishaps' = IF read'[p] = "REQUEST" /\ (ping[p] # "answered" \/ inbox'[p] # <<>>)
                THEN mishaps \cup {"overtaken"} ELSE mishaps
  /\ UNCHANGED <<netKeeps, up, connect, write, session, ping, acks, closed>>

ReceiveFails(p) ==
  /\ read[p] = "pending"
  /\ read' = [read EXCEPT ![p] = "error"] /\ mishaps' = mishaps \cup {"error"}
  /\ UNCHANGED <<netKeeps, up, connect, write, sessionVars>>

Sent(p) ==
  /\ write[p] = "pending"
  /\ write' = [write EXCEPT ![p] = "ok"]
  /\ UNCHANGED <<netKeeps, up, connect, read, sessionVars, mishaps>>

\* The session reads an answer, after the PING, and its alert is polled.
Counted(p) ==
  /\ acks[p] > 0 /\ ping[p] = "answered"
  /\ acks' = [acks EXCEPT ![p] = @ - 1]
  /\ closed' = [closed EXCEPT ![p] = @ + 1]
  /\ UNCHANGED <<netKeeps, up, connect, read, write, session, ping, inbox, mishaps>>

Network ==
  \E p \in Paths : \/ Connected(p) \/ Accepted(p) \/ Greets(p) \/ Received(p) \/ ReceiveFails(p)
                   \/ Sent(p) \/ Counted(p)

-----------------------------------------------------------------------------
(* The handlers of a control block, on the io thread.  Its memory and that of the layer are  *)
(* not used again after they are freed, but the socket is null: the first use of it crashes. *)

NullSocket(p) == layer[p] # "live"
hostKeeps == <<file, layers, bound, lib, layer, up, session, closed, mishaps>>

\* on_control_connect(): writes the PING and begins to read
OnConnect(p) ==
  /\ connect[p] \in {"ok", "failed"}
  /\ connect' = [connect EXCEPT ![p] = "none"]
  /\ \/ /\ connect[p] = "failed"
        /\ UNCHANGED <<read, write, ping, crash>>
     \/ /\ connect[p] = "ok" /\ NullSocket(p)
        /\ crash' = "null_socket" /\ UNCHANGED <<read, write, ping>>
     \/ /\ connect[p] = "ok" /\ ~NullSocket(p)
        /\ read' = [read EXCEPT ![p] = "pending"] /\ write' = [write EXCEPT ![p] = "pending"]
        /\ ping' = [ping EXCEPT ![p] = "sent"]
        /\ UNCHANGED crash
  /\ UNCHANGED <<hostKeeps, unsent, inbox, acks>>

\* handle_shutdown_request(): answers, through the queue if a write is outstanding
Answers(p) ==
  /\ read[p] = "REQUEST"
  /\ IF write[p] = "none"
     THEN /\ write' = [write EXCEPT ![p] = "pending"] /\ acks' = [acks EXCEPT ![p] = @ + 1]
          /\ UNCHANGED unsent
     ELSE unsent' = [unsent EXCEPT ![p] = @ + 1] /\ UNCHANGED <<write, acks>>

\* finsh_control_read(): the connection is over, or a message is handled (a request whose type is
\* another is dropped) and the next one read, also after an error.
OnRead(p) ==
  /\ \/ /\ read[p] = "failed"
        /\ read' = [read EXCEPT ![p] = "none"]
        /\ UNCHANGED <<write, unsent, acks, crash>>
     \/ /\ read[p] \in Messages \cup {"error"} /\ NullSocket(p)
        /\ crash' = "null_socket" /\ UNCHANGED <<read, write, unsent, acks>>
     \/ /\ read[p] \in Messages \cup {"error"} /\ ~NullSocket(p)
        /\ read' = [read EXCEPT ![p] = "pending"]
        /\ Answers(p) \/ UNCHANGED <<write, unsent, acks>>
        /\ UNCHANGED crash
  /\ UNCHANGED <<hostKeeps, connect, ping, inbox>>

\* Fault: the queue is not tested before its first message is taken.
OnWrittenUntested(p) ==
  /\ write[p] \in {"ok", "failed"}
  /\ \/ /\ write[p] = "failed"
        /\ write' = [write EXCEPT ![p] = "none"]
        /\ UNCHANGED <<unsent, acks, crash>>
     \/ /\ write[p] = "ok" /\ NullSocket(p)
        /\ crash' = "null_socket" /\ UNCHANGED <<write, unsent, acks>>
     \/ /\ write[p] = "ok" /\ ~NullSocket(p)
        /\ write' = [write EXCEPT ![p] = "pending"]
        /\ unsent' = [unsent EXCEPT ![p] = @ - 1] /\ acks' = [acks EXCEPT ![p] = @ + 1]
        /\ UNCHANGED crash
  /\ UNCHANGED <<hostKeeps, connect, read, ping, inbox>>

\* finish_control_write(): writes what is queued
OnWritten(p) ==
  /\ write[p] \in {"ok", "failed"}
  /\ \/ /\ write[p] = "failed" \/ unsent[p] = 0
        /\ write' = [write EXCEPT ![p] = "none"]
        /\ UNCHANGED <<unsent, acks, crash>>
     \/ /\ write[p] = "ok" /\ unsent[p] > 0 /\ NullSocket(p)
        /\ crash' = "null_socket" /\ UNCHANGED <<write, unsent, acks>>
     \/ /\ write[p] = "ok" /\ unsent[p] > 0 /\ ~NullSocket(p)
        /\ write' = [write EXCEPT ![p] = "pending"]
        /\ unsent' = [unsent EXCEPT ![p] = @ - 1] /\ acks' = [acks EXCEPT ![p] = @ + 1]
        /\ UNCHANGED crash
  /\ UNCHANGED <<hostKeeps, connect, read, ping, inbox>>

IoLayers == \E p \in Paths : OnConnect(p) \/ OnRead(p) \/ OnWritten(p)
=============================================================================
