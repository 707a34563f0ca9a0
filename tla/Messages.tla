------------------------------ MODULE Messages ------------------------------
(***************************************************************************)
(* The messages of a control connection: a header of a category and an id  *)
(* (message_header), and a body that maps the names of the fields that     *)
(* were sent to their values.  A body is a flexbuffers map, which is read  *)
(* from its end and by the names of its keys: a key that is not there      *)
(* reads as 0, and nothing ties a body to its header.                      *)
(***************************************************************************)
EXTENDS Naturals, Sequences

(* session::connection_type *)
CONTROL_CONNECTION == 0
NODE_CONNECTION == 2
LAYER_CONNECTION == 3

\* session_type: a union of a 16 bit value with its two bytes
combined_type(type, node_type) == type + 256 * node_type
type_of(st) == st % 256
node_type_of(st) == (st \div 256) % 256

-----------------------------------------------------------------------------
(* build() *)

message(category, id, fields) ==
  [header |-> [category |-> category, id |-> id], body |-> fields]

session_status_request(session_type, node_id, layer_type) ==
  message("CONTROL", "PING",
          [session_type |-> session_type, node_id |-> node_id, layer_type |-> layer_type])

session_status_response(session_type, node_id, status) ==
  message("CONTROL", "PONG",
          [session_type |-> session_type, node_id |-> node_id, status |-> status])

simulation_description(session_type, node_id, status, binding_point) ==
  message("CONTROL", "SIM_DESCRIPTION",
          [session_type |-> session_type, node_id |-> node_id, status |-> status,
           simulation_binding_point |-> binding_point])

session_shutdown_request(session_type, node_id, status) ==
  message("CONTROL", "NODE_SHUTDOWN_REQUEST",
          [session_type |-> session_type, node_id |-> node_id, status |-> status])

\* the node id of an acknowledgement is not written
acknowledgement(acked_header, ack_nack) ==
  message("ACKNOWLEDGEMENT", "ACK", [acked_header |-> acked_header, ack_nack |-> ack_nack])

-----------------------------------------------------------------------------
(* parse() *)

Parsed(fields, body) == [f \in fields |-> IF f \in DOMAIN body THEN body[f] ELSE 0]

parse_status_request(body) == Parsed({"session_type", "node_id", "layer_type"}, body)
parse_status_response(body) == Parsed({"session_type", "node_id", "status"}, body)
parse_shutdown_request(body) == Parsed({"session_type", "node_id", "status"}, body)

\* What a receive that returns several messages is taken for: two bytes of header at the
\* front, and the rest is one body, whose map is the last one.
Received(ms) == [header |-> Head(ms).header, body |-> ms[Len(ms)].body]

-----------------------------------------------------------------------------
(* handle_message(): which messages reach handle_control_message() *)

\* session_message_handler, by the state of the session
SessionTakes(session_state, m) ==
  \/ session_state \in {"LAUNCHING", "SHUTTING_DOWN"}
  \/ session_state = "ACTIVE" /\ m.header.category \in {"ACKNOWLEDGEMENT", "CONTROL"}

\* node_message_handler and layer_message_handler of an active peer; any other message is
\* thrown and caught
PeerTakes(m) == m.header.category = "CONTROL"
=============================================================================
