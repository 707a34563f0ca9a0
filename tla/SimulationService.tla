-------------------------- MODULE SimulationService --------------------------
(***************************************************************************)
(* What a simulation promises to the nodes and layers connected to it,     *)
(* whatever its threads do and however they count: it serves, then asks     *)
(* every connection it knows to close, and it is down only when all of      *)
(* those have answered, unless one of them answered twice.                  *)
(***************************************************************************)
CONSTANT Peers
VARIABLES phase, conn

svars == <<phase, conn>>

ServiceInit == phase = "idle" /\ conn = [p \in Peers |-> "none"]

Launch == phase = "idle" /\ phase' = "launching" /\ UNCHANGED conn
Serve == phase = "launching" /\ phase' = "serving" /\ UNCHANGED conn

Connect(p) ==
  /\ phase # "idle"
  /\ conn[p] = "none"
  /\ conn' = [conn EXCEPT ![p] = "open"]
  /\ UNCHANGED phase

\* every open connection is asked to close, in the one step that ends the service
Drain ==
  /\ phase = "serving" /\ phase' = "draining"
  /\ conn' = [p \in Peers |-> IF conn[p] = "open" THEN "closing" ELSE conn[p]]

\* a connection that was asked answers, or answers again
Answer(p) ==
  /\ phase \in {"draining", "down", "gone"} /\ UNCHANGED phase
  /\ \/ conn[p] = "closing" /\ conn' = [conn EXCEPT ![p] = "answered"]
     \/ conn[p] = "answered" /\ conn' = [conn EXCEPT ![p] = "repeated"]

\* every connection has answered once, or one of them has answered for another
GoDown ==
  /\ phase = "draining" /\ phase' = "down"
  /\ \/ \A p \in Peers : conn[p] \in {"none", "answered"}
     \/ \E p \in Peers : conn[p] = "repeated"
  /\ UNCHANGED conn

Leave == phase = "down" /\ phase' = "gone" /\ UNCHANGED conn

ServiceNext ==
  \/ Launch \/ Serve \/ Drain \/ GoDown \/ Leave
  \/ \E p \in Peers : Connect(p) \/ Answer(p)

ServiceSpec == ServiceInit /\ [][ServiceNext]_svars
=============================================================================
