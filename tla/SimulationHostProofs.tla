------------------------- MODULE SimulationHostProofs -------------------------
(***************************************************************************)
(* Code of a layer's library is called only while it is loaded, and each    *)
(* way the program can be terminated has its cause, for every configuration *)
(* and every set of files.  Neither is inductive: the invariant adds what   *)
(* the operations on the control connection of a layer say of each other,   *)
(* and what the sim thread has reached by each phase.  The second half is   *)
(* about the events of the configuration, for every script, interval and    *)
(* clock: an event is triggered at most once, and no later than the step    *)
(* before the one it is scripted for, if the timers were started together.  *)
(* The order in which the sim thread takes the messages is the order in     *)
(* which the timers expired; so that invariant speaks of the order, from    *)
(* what is done over the queue to the handlers that are ready.              *)
(***************************************************************************)
EXTENDS SimulationHost, FiniteSetTheorems, WellFoundedInduction, TLAPS

\* A layer that was made comes from a library that is loaded until the layer is deleted, and
\* a library is in the map because the configuration lists it.
LibraryInv(p) ==
  /\ layer[p] # "none" => file[p] = "layer"
  /\ layer[p] \in {"live", "closed"} => lib[p] = "loaded"
  /\ lib[p] # "none" => \E i \in 1..bound : layers[i] = p

\* The requests of a session that were read: being handled, answered in the queue or on the way,
\* counted
Told(p) == unsent[p] + acks[p] + closed[p] + (IF read[p] = "REQUEST" THEN 1 ELSE 0)

\* Reading begins when the connect handler has run; a session whose request was read was asked.
\* Unless a request overtook a PONG, it is the last thing its layer reads.
ConnectionInv(p) ==
  /\ layer[p] = "none" => connect[p] = "none" /\ read[p] = "none" /\ write[p] = "none"
                          /\ ping[p] = "none" /\ ~up[p]
  /\ connect[p] # "none" => ping[p] = "none" /\ read[p] = "none"
  /\ session[p] # "none" => up[p]
  /\ session[p] # "asked" => Told(p) = 0 /\ \A i \in DOMAIN inbox[p] : inbox[p][i] # "REQUEST"
  /\ read[p] = "error" => "error" \in mishaps
  /\ "overtaken" \notin mishaps /\ Told(p) # 0 =>
       Told(p) = 1 /\ ping[p] = "answered" /\ inbox[p] = <<>> /\ read[p] # "PONG"

\* Layers are closed after the sessions that were asked were counted, and what is destroyed was
\* unloaded or abandoned.
PhaseInv(p) ==
  /\ layer[p] \in {"closed", "deleted"} => phase \in {"close", "destroy", "gone"}
  /\ phase \in {"shutdown", "close", "destroy", "gone"} /\ "overtaken" \notin mishaps
       /\ session[p] = "asked" => closed[p] # 0
  /\ phase \in {"destroy", "gone"} => abandoned \/ lib[p] = "none"

HostInv ==
  /\ HostTypeOK /\ phase \in Phases
  /\ crash = "none" => \A p \in Paths : LibraryInv(p) /\ ConnectionInv(p) /\ PhaseInv(p)
  /\ CrashHasCause

USE DEF HostTypeOK, Operations, Messages, Receives, Files

-----------------------------------------------------------------------------
LEMMA InitInv == Init => HostInv
<1> SUFFICES ASSUME Init PROVE HostInv
  OBVIOUS
<1>1. /\ \A p \in Paths : /\ lib[p] = "none" /\ layer[p] = "none" /\ ~up[p] /\ connect[p] = "none"
                          /\ read[p] = "none" /\ write[p] = "none" /\ session[p] = "none"
                          /\ ping[p] = "none" /\ inbox[p] = <<>>
                          /\ unsent[p] = 0 /\ acks[p] = 0 /\ closed[p] = 0
      /\ crash = "none" /\ phase = "events" /\ mishaps = {}
  BY DEF Init, HostInit
<1>2. HostTypeOK /\ phase \in Phases
  <2>1. layers \in Seq(Paths) /\ bound \in 0..Len(layers)
    BY LayersAssumption DEF Init, HostInit
  <2>2. inbox \in [Paths -> Seq(Messages)]
    BY DEF Init, HostInit
  <2> QED BY <2>1, <2>2 DEF Init, HostInit, Phases
<1>3. \A p \in Paths : LibraryInv(p) /\ ConnectionInv(p) /\ PhaseInv(p)
  BY <1>1 DEF LibraryInv, ConnectionInv, PhaseInv, Told
<1> QED BY <1>1, <1>2, <1>3 DEF HostInv, CrashHasCause

\* A connection that is left alone, whatever happens to others.
LEMMA SameConnection ==
  ASSUME NEW p \in Paths, ConnectionInv(p), mishaps \subseteq mishaps',
         layer'[p] = layer[p], up'[p] = up[p], connect'[p] = connect[p], read'[p] = read[p],
         write'[p] = write[p], unsent'[p] = unsent[p], session'[p] = session[p],
         ping'[p] = ping[p], inbox'[p] = inbox[p], acks'[p] = acks[p], closed'[p] = closed[p]
  PROVE  ConnectionInv(p)'
<1>1. Told(p)' = Told(p)
  BY DEF Told
<1> QED BY <1>1 DEF ConnectionInv

\* A step of the io thread or the network that does not end the program keeps the invariant if
\* it keeps the types and the connections.
LEMMA ConnectionStep ==
  ASSUME HostInv, crash = "none", UNCHANGED <<file, layers, bound, lib, layer, phase, abandoned, crash>>,
         HostTypeOK', mishaps \subseteq mishaps',
         \A p \in Paths : /\ ConnectionInv(p)'
                          /\ session'[p] = "asked" => session[p] = "asked"
                          /\ closed[p] # 0 => closed'[p] # 0
  PROVE  HostInv'
<1>1. \A p \in Paths : LibraryInv(p)' /\ PhaseInv(p)'
  BY DEF HostInv, LibraryInv, PhaseInv
<1> QED BY <1>1 DEF HostInv, CrashHasCause

\* A step that leaves the layers alone and stays in its phase, or goes on to one before the
\* sessions have closed, keeps the invariant.
LEMMA QuietStep ==
  ASSUME HostInv, crash = "none", UNCHANGED <<hostVars, abandoned>>, phase' \in Phases,
         \/ phase' = phase
         \/ /\ phase \notin {"close", "destroy", "gone"}
            /\ phase' \notin {"shutdown", "destroy", "gone"}
            /\ phase' = "close" => phase = "shutdown"
  PROVE  HostInv'
<1>1. UNCHANGED <<file, layers, bound, lib, layer, up, connect, read, write, unsent, session, ping,
                 inbox, acks, closed, mishaps, crash, abandoned>>
  BY DEF hostVars, connVars, sessionVars
<1>2. ASSUME NEW p \in Paths PROVE LibraryInv(p)' /\ ConnectionInv(p)' /\ PhaseInv(p)'
  <2>1. LibraryInv(p) /\ ConnectionInv(p) /\ PhaseInv(p) /\ phase \in Phases
    BY DEF HostInv
  <2>2. LibraryInv(p)'
    BY <1>1, <2>1 DEF LibraryInv
  <2>3. ConnectionInv(p)'
    BY <1>1, <2>1, SameConnection
  <2>4. PhaseInv(p)'
    BY <1>1, <2>1 DEF PhaseInv, Phases
  <2> QED BY <2>2, <2>3, <2>4
<1> QED BY <1>1, <1>2 DEF HostInv, CrashHasCause, LateLayer, ListedTwice

LEMMA BindLayerStep ==
  ASSUME HostInv, crash = "none", phase = "layers", BindLayer, UNCHANGED <<phase, abandoned>>
  PROVE  HostInv'
<1> DEFINE p == layers[bound + 1]
           again == lib[p] # "none" /\ file[p] # "missing"
           makes == file[p] = "layer" /\ ~again
<1>1. /\ bound < Len(layers) /\ bound' = bound + 1
      /\ crash' = IF again THEN Destroyed(attempt_load(p)) ELSE crash
      /\ lib' = [lib EXCEPT ![p] = IF makes \/ (file[p] = "unloadable") THEN attempt_load(p) ELSE @]
      /\ layer' = [layer EXCEPT ![p] = IF makes THEN "live" ELSE @]
      /\ connect' = [connect EXCEPT ![p] = IF makes THEN "pending" ELSE @]
      /\ UNCHANGED <<file, layers, up, read, write, unsent, session, ping, inbox, acks, closed, mishaps>>
  BY DEF BindLayer, sessionVars
<1>2. /\ layers \in Seq(Paths) /\ bound \in Nat /\ bound <= Len(layers) /\ bound + 1 \in 1..Len(layers)
      /\ p \in Paths
  BY <1>1 DEF HostInv
<1>3. attempt_load(p) \in {"not_loaded", "loaded"} /\ (makes => attempt_load(p) = "loaded")
  BY DEF attempt_load
<1>4. HostTypeOK'
  <2>1. crash' \in {"none", "pure_virtual"}
    BY <1>1, <1>3 DEF Destroyed
  <2>2. bound' \in 0..Len(layers)
    BY <1>1, <1>2
  <2>3. lib' \in [Paths -> {"none", "not_loaded", "loaded"}]
    BY <1>1, <1>3 DEF HostInv
  <2>4. layer' \in [Paths -> {"none", "live", "closed", "deleted"}] /\ connect' \in [Paths -> Operations]
    BY <1>1 DEF HostInv
  <2>5. /\ file' \in [Paths -> Files] /\ layers' \in Seq(Paths) /\ up' \in [Paths -> BOOLEAN]
        /\ write' \in [Paths -> Operations] /\ read' \in [Paths -> Receives]
    BY <1>1 DEF HostInv
  <2>6. /\ session' \in [Paths -> {"none", "open", "asked"}]
        /\ ping' \in [Paths -> {"none", "sent", "answered"}] /\ inbox' \in [Paths -> Seq(Messages)]
        /\ {unsent, acks, closed}' \subseteq [Paths -> Nat] /\ mishaps' \subseteq {"overtaken", "error"}
    BY <1>1 DEF HostInv
  <2> QED
    <3>1. layers' = layers
      BY <1>1
    <3> HIDE DEF p, again, makes
    <3> QED BY <2>1, <2>2, <2>3, <2>4, <2>5, <2>6, <3>1
<1>5. makes => layer[p] = "none"
  BY <1>2 DEF HostInv, LibraryInv, PhaseInv
<1>6. ASSUME crash' = "none", NEW q \in Paths
      PROVE  LibraryInv(q)' /\ ConnectionInv(q)' /\ PhaseInv(q)'
  <2>1. LibraryInv(q) /\ ConnectionInv(q) /\ PhaseInv(q)
    BY DEF HostInv
  <2>2. lib'[q] # "none" => \E i \in 1..(bound + 1) : layers[i] = q
    <3>1. CASE q = p
      BY <3>1, <1>2
    <3>2. CASE q # p
      <4>1. lib'[q] = lib[q]
        BY <1>1, <1>2, <3>2 DEF HostInv
      <4> QED BY <4>1, <2>1, <1>2 DEF LibraryInv
    <3> QED BY <3>1, <3>2
  <2>3. layer'[q] # "none" => file[q] = "layer"
    <3>1. layer'[q] = layer[q] \/ (q = p /\ makes)
      BY <1>1 DEF HostInv
    <3> QED BY <2>1, <3>1 DEF LibraryInv
  <2>4. layer'[q] \in {"live", "closed"} => lib'[q] = "loaded"
    <3>1. CASE q # p
      BY <3>1, <1>1, <1>2, <2>1 DEF HostInv, LibraryInv
    <3>2. CASE q = p /\ makes
      BY <3>2, <1>1, <1>2, <1>3 DEF HostInv
    <3>3. CASE q = p /\ ~makes
      <4>1. layer'[q] = layer[q]
        BY <3>3, <1>1, <1>2 DEF HostInv
      <4>2. file[q] # "unloadable" \/ layer[q] \notin {"live", "closed"}
        BY <2>1 DEF LibraryInv
      <4>3. file[q] # "unloadable" => lib'[q] = lib[q]
        BY <3>3, <1>1, <1>2 DEF HostInv
      <4> QED BY <4>1, <4>2, <4>3, <2>1 DEF LibraryInv
    <3> QED BY <3>1, <3>2, <3>3
  <2>5. LibraryInv(q)'
    BY <1>1, <2>2, <2>3, <2>4 DEF LibraryInv
  <2>6. ConnectionInv(q)'
    <3>1. Told(q)' = Told(q)
      BY <1>1 DEF Told
    <3>2. CASE q = p /\ makes
      BY <1>1, <1>2, <1>5, <2>1, <3>1, <3>2 DEF HostInv, ConnectionInv
    <3>3. CASE ~(q = p /\ makes)
      <4>1. layer'[q] = layer[q] /\ connect'[q] = connect[q]
        BY <1>1, <1>2, <3>3 DEF HostInv
      <4> QED BY <1>1, <2>1, <4>1, SameConnection
    <3> QED BY <3>2, <3>3
  <2>7. PhaseInv(q)'
    BY <1>1, <1>2, <2>1 DEF HostInv, PhaseInv
  <2> QED BY <2>5, <2>6, <2>7
<1>7. CrashHasCause'
  <2>1. crash' # "none" => again /\ crash' = "pure_virtual"
    BY <1>1, <1>3 DEF Destroyed
  <2>2. again => ListedTwice
    <3> SUFFICES ASSUME again PROVE ListedTwice
      OBVIOUS
    <3>1. PICK i \in 1..bound : layers[i] = p
      BY <1>2 DEF HostInv, LibraryInv
    <3>2. i \in DOMAIN layers /\ bound + 1 \in DOMAIN layers /\ i # bound + 1
      BY <1>2
    <3> QED BY <3>1, <3>2 DEF ListedTwice
  <2>3. ListedTwice => ListedTwice'
    BY <1>1 DEF ListedTwice
  <2> QED BY <2>1, <2>2, <2>3 DEF CrashHasCause
<1> QED BY <1>4, <1>6, <1>7 DEF HostInv

-----------------------------------------------------------------------------
(* The end, on the sim thread *)

\* What is put behind what a session has said; an open session has said no request.
LEMMA AskSessionsStep ==
  ASSUME HostInv, crash = "none", phase = "stop", phase' = "drain", AskSessions, UNCHANGED abandoned
  PROVE  HostInv'
<1>0. PICK both \in SUBSET Greeting : \E twice \in [both -> Messages] :
        /\ session' = [p \in Paths |-> IF session[p] = "open" THEN "asked" ELSE session[p]]
        /\ ping' = [p \in Paths |-> IF p \in both THEN "answered" ELSE ping[p]]
        /\ inbox' = [p \in Paths |-> IF session[p] # "open" THEN inbox[p]
                                    ELSE inbox[p] \o (IF p \in both THEN <<twice[p], twice[p]>>
                                                      ELSE <<"REQUEST">>)]
  BY DEF AskSessions
<1>1. PICK twice \in [both -> Messages] :
        /\ session' = [p \in Paths |-> IF session[p] = "open" THEN "asked" ELSE session[p]]
        /\ ping' = [p \in Paths |-> IF p \in both THEN "answered" ELSE ping[p]]
        /\ inbox' = [p \in Paths |-> IF session[p] # "open" THEN inbox[p]
                                    ELSE inbox[p] \o (IF p \in both THEN <<twice[p], twice[p]>>
                                                      ELSE <<"REQUEST">>)]
  BY <1>0
<1>2. UNCHANGED <<file, layers, bound, lib, layer, up, connect, read, write, unsent, acks, closed,
                 mishaps, crash>>
  BY DEF AskSessions
<1>3. HostTypeOK'
  <2>1. ASSUME NEW p \in Paths PROVE inbox'[p] \in Seq(Messages)
    <3>1. inbox[p] \in Seq(Messages)
      BY DEF HostInv
    <3>2. ASSUME NEW said \in Seq(Messages) PROVE inbox[p] \o said \in Seq(Messages)
      BY <3>1
    <3>3. <<"REQUEST">> \in Seq(Messages)
      OBVIOUS
    <3>4. p \in both => <<twice[p], twice[p]>> \in Seq(Messages)
      <4> SUFFICES ASSUME p \in both PROVE <<twice[p], twice[p]>> \in Seq(Messages)
        OBVIOUS
      <4>1. twice[p] \in Messages
        BY <1>1
      <4> QED BY <4>1
    <3>5. \/ inbox'[p] = inbox[p]
          \/ p \in both /\ inbox'[p] = inbox[p] \o <<twice[p], twice[p]>>
          \/ inbox'[p] = inbox[p] \o <<"REQUEST">>
      BY <1>1
    <3> QED BY <3>1, <3>2, <3>3, <3>4, <3>5
  <2>2. inbox' \in [Paths -> Seq(Messages)]
    BY <1>1, <2>1
  <2>3. session' \in [Paths -> {"none", "open", "asked"}]
    BY <1>1 DEF HostInv
  <2>4. ping' \in [Paths -> {"none", "sent", "answered"}]
    BY <1>1 DEF HostInv
  <2> QED BY <1>2, <2>2, <2>3, <2>4 DEF HostInv
<1>4. ASSUME NEW p \in Paths PROVE LibraryInv(p)' /\ ConnectionInv(p)' /\ PhaseInv(p)'
  <2>1. LibraryInv(p) /\ ConnectionInv(p) /\ PhaseInv(p)
    BY DEF HostInv
  <2>2. LibraryInv(p)' /\ PhaseInv(p)'
    BY <1>2, <2>1 DEF LibraryInv, PhaseInv
  <2>3. Told(p)' = Told(p)
    BY <1>2 DEF Told
  <2>4. CASE session[p] = "open"
    <3>1. session'[p] = "asked" /\ Told(p) = 0
      BY <1>1, <2>1, <2>4 DEF ConnectionInv
    <3>2. ping'[p] = "none" <=> ping[p] = "none"
      BY <1>1 DEF Greeting
    <3>3. Told(p)' = 0 /\ session'[p] = "asked"
      BY <2>3, <3>1
    <3>4. /\ layer'[p] = layer[p] /\ up'[p] = up[p] /\ connect'[p] = connect[p]
          /\ read'[p] = read[p] /\ write'[p] = write[p] /\ mishaps' = mishaps
      BY <1>2
    <3> QED BY <2>1, <2>2, <2>4, <3>2, <3>3, <3>4 DEF ConnectionInv
  <2>5. CASE session[p] # "open"
    <3>1. session'[p] = session[p] /\ ping'[p] = ping[p] /\ inbox'[p] = inbox[p]
      BY <1>1, <2>5 DEF Greeting
    <3> QED BY <1>2, <2>1, <2>2, <3>1, SameConnection
  <2> QED BY <2>2, <2>4, <2>5
<1> QED BY <1>2, <1>3, <1>4 DEF HostInv, CrashHasCause, Phases

\* If no session was counted twice, equal numbers mean that each one was counted.
LEMMA EqualCounts ==
  ASSUME closed \in [Paths -> Nat], SessionsClosed,
         \A p \in Paths : closed[p] # 0 => closed[p] = 1 /\ session[p] # "none"
  PROVE  \A p \in Paths : session[p] # "none" => closed[p] # 0
<1> DEFINE D == {p \in Paths : closed[p] # 0}
<1>1. D \subseteq connections
  BY DEF connections
<1>2. IsFiniteSet(connections) /\ IsFiniteSet(D)
  <2>1. IsFiniteSet(Paths)
    BY LayersAssumption
  <2>2. connections \subseteq Paths /\ D \subseteq Paths
    BY DEF connections
  <2> QED BY <2>1, <2>2, FS_Subset
<1>3. UNION {{p} \X (1..closed[p]) : p \in Paths} = D \X {1}
  <2>1. ASSUME NEW p \in Paths PROVE 1..closed[p] = IF p \in D THEN {1} ELSE {}
    <3>1. CASE closed[p] = 0
      BY <3>1
    <3>2. CASE closed[p] = 1
      BY <3>2
    <3> QED BY <3>1, <3>2
  <2> HIDE DEF D
  <2>2. UNION {{p} \X (1..closed[p]) : p \in Paths} = UNION {{p} \X (IF p \in D THEN {1} ELSE {}) : p \in Paths}
    BY <2>1
  <2>3. D \subseteq Paths
    BY DEF D
  <2> QED BY <2>2, <2>3
<1> HIDE DEF D
<1>4. Cardinality(D \X {1}) = Cardinality(D)
  <2>1. IsFiniteSet({1}) /\ Cardinality({1}) = 1
    BY FS_Singleton
  <2>2. Cardinality(D) \in Nat
    BY <1>2, FS_CardinalityType
  <2>3. Cardinality(D \X {1}) = Cardinality(D) * Cardinality({1})
    BY <1>2, <2>1, FS_Product
  <2> QED BY <2>1, <2>2, <2>3
<1>5. Cardinality(D) = Cardinality(connections)
  BY <1>3, <1>4 DEF SessionsClosed, closed_nodes
<1>6. D = connections
  BY <1>1, <1>2, <1>5, FS_Subset
<1> QED BY <1>6 DEF connections, D

LEMMA DrainedStep ==
  ASSUME HostInv, crash = "none", phase = "drain", phase' = "shutdown", SessionsClosed,
         UNCHANGED <<hostVars, abandoned>>
  PROVE  HostInv'
<1>1. UNCHANGED <<file, layers, bound, lib, layer, up, connect, read, write, unsent, session, ping,
                 inbox, acks, closed, mishaps, crash, abandoned>>
  BY DEF hostVars, connVars, sessionVars
<1>2. \A p \in Paths : LibraryInv(p) /\ ConnectionInv(p) /\ PhaseInv(p)
  BY DEF HostInv
<1>3. "overtaken" \notin mishaps => \A p \in Paths : session[p] = "asked" => closed[p] # 0
  <2> SUFFICES ASSUME "overtaken" \notin mishaps PROVE \A p \in Paths : session[p] = "asked" => closed[p] # 0
    OBVIOUS
  <2>1. ASSUME NEW p \in Paths, closed[p] # 0 PROVE closed[p] = 1 /\ session[p] # "none"
    <3>1. unsent[p] \in Nat /\ acks[p] \in Nat /\ closed[p] \in Nat
      BY DEF HostInv
    <3>2. Told(p) # 0 /\ Told(p) >= closed[p]
      BY <2>1, <3>1 DEF Told
    <3>3. Told(p) = 1 /\ session[p] = "asked"
      BY <1>2, <3>2 DEF ConnectionInv
    <3> QED BY <2>1, <3>1, <3>2, <3>3
  <2>2. closed \in [Paths -> Nat]
    BY DEF HostInv
  <2>3. \A p \in Paths : session[p] # "none" => closed[p] # 0
    BY <2>1, <2>2, EqualCounts
  <2> QED BY <2>3
<1>4. ASSUME NEW p \in Paths PROVE LibraryInv(p)' /\ ConnectionInv(p)' /\ PhaseInv(p)'
  <2>1. ConnectionInv(p)'
    BY <1>1, <1>2, SameConnection
  <2>2. LibraryInv(p)' /\ PhaseInv(p)'
    BY <1>1, <1>2, <1>3 DEF LibraryInv, PhaseInv
  <2> QED BY <2>1, <2>2
<1> QED BY <1>1, <1>4 DEF HostInv, CrashHasCause, Phases

LEMMA AbandonStep ==
  ASSUME HostInv, crash = "none", phase = "shutdown", phase' = "destroy", abandoned' = TRUE,
         UNCHANGED hostVars
  PROVE  HostInv'
<1>1. UNCHANGED <<file, layers, bound, lib, layer, up, connect, read, write, unsent, session, ping,
                 inbox, acks, closed, mishaps, crash>>
  BY DEF hostVars, connVars, sessionVars
<1>2. ASSUME NEW p \in Paths PROVE LibraryInv(p)' /\ ConnectionInv(p)' /\ PhaseInv(p)'
  <2>1. LibraryInv(p) /\ ConnectionInv(p) /\ PhaseInv(p)
    BY DEF HostInv
  <2>2. ConnectionInv(p)'
    BY <1>1, <2>1, SameConnection
  <2> QED BY <1>1, <2>1, <2>2 DEF LibraryInv, PhaseInv
<1> QED BY <1>1, <1>2 DEF HostInv, CrashHasCause, Phases

\* Closing a layer that is not connected: its session was not accepted.
LEMMA CloseLayerStep ==
  ASSUME HostInv, crash = "none", phase = "close", NEW p \in Paths, CloseLayer(p),
         UNCHANGED <<phase, abandoned>>
  PROVE  HostInv'
<1>1. \A op : /\ op \in Operations => Aborted(op) \in Operations
              /\ op \in Receives => Aborted(op) \in Receives
              /\ (Aborted(op) = "none") = (op = "none")
              /\ \A m \in Messages \cup {"error"} : (Aborted(op) = m) = (op = m)
  BY DEF Aborted
<1>2. /\ layer[p] = "live"
      /\ UNCHANGED <<file, layers, bound, lib, up, unsent, session, ping, inbox, acks, closed, mishaps>>
      /\ LibraryInv(p) /\ ConnectionInv(p) /\ PhaseInv(p)
  BY DEF CloseLayer, HostInv, sessionVars
<1>3. CASE up[p]
  <2>1. /\ layer' = [layer EXCEPT ![p] = "closed"]
        /\ connect' = [connect EXCEPT ![p] = Aborted(@)]
        /\ read' = [read EXCEPT ![p] = Aborted(@)]
        /\ write' = [write EXCEPT ![p] = Aborted(@)]
        /\ crash' = crash
    BY <1>3 DEF CloseLayer
  <2>2. HostTypeOK'
    <3>1. connect' \in [Paths -> Operations]
      BY <1>1, <2>1 DEF HostInv
    <3>2. read' \in [Paths -> Receives]
      <4> HIDE DEF Receives
      <4> QED BY <1>1, <2>1 DEF HostInv
    <3>3. write' \in [Paths -> Operations]
      BY <1>1, <2>1 DEF HostInv
    <3>4. layer' \in [Paths -> {"none", "live", "closed", "deleted"}]
      BY <2>1 DEF HostInv
    <3> QED BY <1>2, <2>1, <3>1, <3>2, <3>3, <3>4 DEF HostInv
  <2>3. ASSUME NEW q \in Paths PROVE LibraryInv(q)' /\ ConnectionInv(q)' /\ PhaseInv(q)'
    <3>1. LibraryInv(q) /\ ConnectionInv(q) /\ PhaseInv(q)
      BY DEF HostInv
    <3>2. LibraryInv(q)' /\ PhaseInv(q)'
      BY <1>2, <2>1, <3>1 DEF HostInv, LibraryInv, PhaseInv
    <3>3. CASE q # p
      <4>1. /\ layer'[q] = layer[q] /\ connect'[q] = connect[q] /\ read'[q] = read[q]
            /\ write'[q] = write[q]
        BY <2>1, <3>3 DEF HostInv
      <4> QED BY <1>2, <3>1, <3>2, <4>1, SameConnection
    <3>4. CASE q = p
      <4>1. /\ layer'[p] = "closed" /\ connect'[p] = Aborted(connect[p]) /\ read'[p] = Aborted(read[p])
        BY <2>1 DEF HostInv
      <4>2. /\ (connect'[p] = "none") = (connect[p] = "none") /\ (read'[p] = "none") = (read[p] = "none")
            /\ \A m \in Messages \cup {"error"} : (read'[p] = m) = (read[p] = m)
        BY <1>1, <4>1
      <4>3. Told(p)' = Told(p)
        BY <1>2, <4>2 DEF Told
      <4>4. ConnectionInv(p)'
        BY <1>2, <4>1, <4>2, <4>3 DEF ConnectionInv
      <4> QED BY <3>2, <3>4, <4>4
    <3> QED BY <3>3, <3>4
  <2> QED BY <2>1, <2>2, <2>3 DEF HostInv, CrashHasCause
<1>4. CASE ~up[p]
  <2>1. crash' = "not_connected" /\ UNCHANGED <<layer, connect, read, write>>
    BY <1>4 DEF CloseLayer
  <2>2. LateLayer'
    BY <1>2, <1>4, <2>1 DEF ConnectionInv, LateLayer
  <2> QED BY <1>2, <2>1, <2>2 DEF HostInv, CrashHasCause
<1> QED BY <1>3, <1>4

LEMMA DeleteLayerStep ==
  ASSUME HostInv, crash = "none", phase = "close", NEW p \in Paths, DeleteLayer(p),
         UNCHANGED <<phase, abandoned>>
  PROVE  HostInv'
<1>1. /\ layer[p] = "closed" /\ layer' = [layer EXCEPT ![p] = "deleted"]
      /\ UNCHANGED <<file, layers, bound, lib, up, connect, read, write, unsent, session, ping,
                    inbox, acks, closed, mishaps, crash>>
  BY DEF DeleteLayer, connVars, sessionVars
<1>2. ASSUME NEW q \in Paths PROVE LibraryInv(q)' /\ ConnectionInv(q)' /\ PhaseInv(q)'
  <2>1. LibraryInv(q) /\ ConnectionInv(q) /\ PhaseInv(q)
    BY DEF HostInv
  <2>2. (layer'[q] = "none") = (layer[q] = "none") /\ Told(q)' = Told(q)
    BY <1>1 DEF HostInv, Told
  <2>3. ConnectionInv(q)'
    BY <1>1, <2>1, <2>2 DEF ConnectionInv
  <2>4. LibraryInv(q)' /\ PhaseInv(q)'
    BY <1>1, <2>1 DEF HostInv, LibraryInv, PhaseInv
  <2> QED BY <2>3, <2>4
<1>3. HostTypeOK'
  BY <1>1 DEF HostInv
<1> QED BY <1>1, <1>2, <1>3 DEF HostInv, CrashHasCause

LEMMA UnloadStep ==
  ASSUME HostInv, crash = "none", phase = "close", phase' = "destroy", UnloadLibraries,
         UNCHANGED abandoned
  PROVE  HostInv'
<1>1. /\ lib' = [p \in Paths |-> "none"] /\ \A p \in Paths : layer[p] \in {"none", "deleted"}
      /\ UNCHANGED <<file, layers, bound, layer, up, connect, read, write, unsent, session, ping,
                    inbox, acks, closed, mishaps, crash>>
  BY DEF UnloadLibraries, connVars, sessionVars
<1>2. ASSUME NEW p \in Paths PROVE LibraryInv(p)' /\ ConnectionInv(p)' /\ PhaseInv(p)'
  <2>1. LibraryInv(p) /\ ConnectionInv(p) /\ PhaseInv(p)
    BY DEF HostInv
  <2>2. ConnectionInv(p)'
    BY <1>1, <2>1, SameConnection
  <2> QED BY <1>1, <2>1, <2>2 DEF LibraryInv, PhaseInv
<1> QED BY <1>1, <1>2 DEF HostInv, CrashHasCause, Phases

\* Destroying a library that is loaded: the shutdown was abandoned.
LEMMA DestroyStep ==
  ASSUME HostInv, crash = "none", phase = "destroy", phase' = "gone", DestroyLibraries,
         UNCHANGED abandoned
  PROVE  HostInv'
<1>1. /\ lib' = [p \in Paths |-> "none"]
      /\ UNCHANGED <<file, layers, bound, layer, up, connect, read, write, unsent, session, ping,
                    inbox, acks, closed, mishaps>>
      /\ crash' \in {"none", "pure_virtual"}
      /\ crash' = "none" => \A p \in Paths : lib[p] # "loaded"
  BY DEF DestroyLibraries, connVars, sessionVars, Destroyed
<1>2. crash' # "none" => abandoned
  BY <1>1 DEF DestroyLibraries, HostInv, PhaseInv
<1>3. HostTypeOK' /\ phase' \in Phases
  BY <1>1 DEF HostInv, Phases
<1>4. ASSUME crash' = "none", NEW p \in Paths PROVE LibraryInv(p)' /\ ConnectionInv(p)' /\ PhaseInv(p)'
  <2>1. LibraryInv(p) /\ ConnectionInv(p) /\ PhaseInv(p) /\ lib[p] # "loaded"
    BY <1>1, <1>4 DEF HostInv
  <2>2. ConnectionInv(p)'
    BY <1>1, <2>1, SameConnection
  <2> QED BY <1>1, <2>1, <2>2 DEF LibraryInv, PhaseInv
<1>5. CrashHasCause'
  BY <1>1, <1>2 DEF CrashHasCause
<1> QED BY <1>3, <1>4, <1>5 DEF HostInv

-----------------------------------------------------------------------------
(* The network *)

USE DEF netKeeps, sessionVars

LEMMA ConnectedStep ==
  ASSUME HostInv, crash = "none", NEW p \in Paths, Connected(p), UNCHANGED <<phase, abandoned>>
  PROVE  HostInv'
<1>1. /\ connect[p] = "pending"
      /\ UNCHANGED <<file, layers, bound, lib, layer, read, write, unsent, session, ping, inbox, acks,
                    closed, mishaps, crash>>
      /\ \E r \in {"ok", "failed"} : connect' = [connect EXCEPT ![p] = r]
      /\ up' \in [Paths -> BOOLEAN]
      /\ \A q \in Paths : (up[q] => up'[q]) /\ (q # p => up'[q] = up[q])
  BY ZenonT(40) DEF Connected, HostInv
<1>2. HostTypeOK'
  <2>1. connect' \in [Paths -> Operations]
    BY <1>1 DEF HostInv
  <2> QED BY <1>1, <2>1 DEF HostInv
<1>3. ASSUME NEW q \in Paths PROVE ConnectionInv(q)'
  <2>1. ConnectionInv(q) /\ Told(q)' = Told(q)
    BY <1>1 DEF HostInv, Told
  <2> QED BY <1>1, <2>1 DEF HostInv, ConnectionInv
<1> QED BY <1>1, <1>2, <1>3, ConnectionStep

LEMMA AcceptedStep ==
  ASSUME HostInv, crash = "none", NEW p \in Paths, Accepted(p), UNCHANGED <<phase, abandoned>>
  PROVE  HostInv'
<1>1. /\ up[p] /\ session[p] = "none" /\ session' = [session EXCEPT ![p] = "open"]
      /\ UNCHANGED <<file, layers, bound, lib, layer, up, connect, read, write, unsent, ping, inbox, acks,
                    closed, mishaps, crash>>
  BY DEF Accepted
<1>2. HostTypeOK'
  BY <1>1 DEF HostInv
<1>3. ASSUME NEW q \in Paths PROVE ConnectionInv(q)' /\ (session'[q] = "asked" => session[q] = "asked")
  <2>1. ConnectionInv(q) /\ Told(q)' = Told(q)
    BY <1>1 DEF HostInv, Told
  <2> QED BY <1>1, <2>1 DEF HostInv, ConnectionInv
<1> QED BY <1>1, <1>2, <1>3, ConnectionStep

LEMMA GreetsStep ==
  ASSUME HostInv, crash = "none", NEW p \in Paths, Greets(p), UNCHANGED <<phase, abandoned>>
  PROVE  HostInv'
<1>1. /\ session[p] # "none" /\ ping[p] = "sent" /\ ping' = [ping EXCEPT ![p] = "answered"]
      /\ inbox' = [inbox EXCEPT ![p] = Append(@, "PONG")]
      /\ UNCHANGED <<file, layers, bound, lib, layer, up, connect, read, write, unsent, session, acks,
                    closed, mishaps, crash>>
  BY DEF Greets
<1>2. inbox[p] \in Seq(Messages) /\ inbox'[p] = Append(inbox[p], "PONG") /\ ping'[p] = "answered"
  BY <1>1 DEF HostInv
<1>3. HostTypeOK'
  <2>1. Append(inbox[p], "PONG") \in Seq(Messages)
    BY <1>2
  <2>2. inbox' \in [Paths -> Seq(Messages)]
    BY <1>1, <2>1 DEF HostInv
  <2>3. ping' \in [Paths -> {"none", "sent", "answered"}]
    BY <1>1 DEF HostInv
  <2> QED BY <1>1, <2>2, <2>3 DEF HostInv
<1>4. ASSUME NEW q \in Paths PROVE ConnectionInv(q)'
  <2>1. ConnectionInv(q) /\ Told(q)' = Told(q)
    BY <1>1 DEF HostInv, Told
  <2>2. CASE q # p
    <3>1. ping'[q] = ping[q] /\ inbox'[q] = inbox[q]
      BY <1>1, <2>2 DEF HostInv
    <3> QED BY <1>1, <2>1, <3>1, SameConnection
  <2>3. CASE q = p
    <3>1. \A i \in DOMAIN inbox'[p] : inbox'[p][i] = "PONG" \/ (i \in DOMAIN inbox[p] /\ inbox'[p][i] = inbox[p][i])
      BY <1>2
    <3> QED BY <1>1, <1>2, <2>1, <2>3, <3>1 DEF ConnectionInv
  <2> QED BY <2>2, <2>3
<1> QED BY <1>1, <1>3, <1>4, ConnectionStep

\* What is left of a sequence consists of elements of it.
LEMMA RestOfMessages ==
  ASSUME NEW s \in Seq(Messages), NEW k \in 1..Len(s)
  PROVE  /\ SubSeq(s, k + 1, Len(s)) \in Seq(Messages)
         /\ \A i \in DOMAIN SubSeq(s, k + 1, Len(s)) :
              \E j \in DOMAIN s : SubSeq(s, k + 1, Len(s))[i] = s[j]
<1> DEFINE t == SubSeq(s, k + 1, Len(s))
<1>1. t \in Seq(Messages) /\ Len(t) = Len(s) - k /\ \A i \in 1..Len(t) : t[i] = s[k + i]
  OBVIOUS
<1>2. \A i \in DOMAIN t : k + i \in DOMAIN s /\ t[i] = s[k + i]
  BY <1>1
<1> QED BY <1>1, <1>2

\* The request that is read is the last message, or overtakes one.
LEMMA ReceivedStep ==
  ASSUME HostInv, crash = "none", NEW p \in Paths, Received(p), UNCHANGED <<phase, abandoned>>
  PROVE  HostInv'
<1>1. PICK k \in 1..Len(inbox[p]) : inbox' = [inbox EXCEPT ![p] = SubSeq(@, k + 1, Len(@))]
  BY DEF Received
<1>2. /\ read[p] = "pending" /\ inbox[p] # <<>> /\ read' = [read EXCEPT ![p] = Head(inbox[p])]
      /\ mishaps' = IF read'[p] = "REQUEST" /\ (ping[p] # "answered" \/ inbox'[p] # <<>>)
                    THEN mishaps \cup {"overtaken"} ELSE mishaps
      /\ UNCHANGED <<file, layers, bound, lib, layer, up, connect, write, unsent, session, ping, acks,
                    closed, crash>>
  BY DEF Received
<1>3. inbox[p] \in Seq(Messages) /\ Head(inbox[p]) \in Messages /\ 1 \in DOMAIN inbox[p]
      /\ Head(inbox[p]) = inbox[p][1]
  BY <1>2 DEF HostInv
<1>4. /\ inbox'[p] = SubSeq(inbox[p], k + 1, Len(inbox[p])) /\ inbox'[p] \in Seq(Messages)
      /\ \A i \in DOMAIN inbox'[p] : \E j \in DOMAIN inbox[p] : inbox'[p][i] = inbox[p][j]
  BY <1>1, <1>3, RestOfMessages DEF HostInv
<1>5. read'[p] = Head(inbox[p])
  BY <1>2 DEF HostInv
<1>6. HostTypeOK'
  <2>1. inbox' \in [Paths -> Seq(Messages)]
    BY <1>1, <1>4 DEF HostInv
  <2>2. read' \in [Paths -> Receives]
    BY <1>2, <1>3 DEF HostInv
  <2>3. mishaps' \subseteq {"overtaken", "error"}
    BY <1>2 DEF HostInv
  <2> QED BY <1>2, <2>1, <2>2, <2>3 DEF HostInv
<1>7. ASSUME NEW q \in Paths PROVE ConnectionInv(q)'
  <2>1. ConnectionInv(q) /\ mishaps \subseteq mishaps'
    BY <1>2 DEF HostInv
  <2>2. CASE q # p
    <3>1. read'[q] = read[q] /\ inbox'[q] = inbox[q]
      BY <1>1, <1>2, <2>2 DEF HostInv
    <3> QED BY <1>2, <2>1, <3>1, SameConnection
  <2>3. CASE q = p
    <3>1. unsent[p] \in Nat /\ acks[p] \in Nat /\ closed[p] \in Nat
      BY DEF HostInv
    <3>2. Told(p)' = IF read'[p] = "REQUEST" THEN Told(p) + 1 ELSE Told(p)
      BY <1>2, <3>1 DEF Told
    <3>3. "overtaken" \notin mishaps' =>
            /\ Told(p) = 0 /\ (read'[p] = "REQUEST" => ping'[p] = "answered" /\ inbox'[p] = <<>>)
      BY <1>2, <2>1, <2>3 DEF ConnectionInv
    <3>4. session[p] # "asked" => read'[p] # "REQUEST" /\ \A i \in DOMAIN inbox'[p] : inbox'[p][i] # "REQUEST"
      BY <1>3, <1>4, <1>5, <2>1, <2>3 DEF ConnectionInv
    <3>5. read'[p] \in Messages /\ read'[p] # "error" /\ read'[p] # "none" /\ connect[p] = "none"
      BY <1>2, <1>3, <1>5, <2>1, <2>3 DEF ConnectionInv
    <3>6. layer[p] # "none"
      BY <1>2, <2>1, <2>3 DEF ConnectionInv
    <3>7. session[p] # "asked" => Told(p)' = 0
      BY <2>1, <2>3, <3>2, <3>4 DEF ConnectionInv
    <3>8. "overtaken" \notin mishaps' /\ Told(p)' # 0 =>
            Told(p)' = 1 /\ ping'[p] = "answered" /\ inbox'[p] = <<>> /\ read'[p] # "PONG"
      BY <3>2, <3>3
    <3>9. session'[p] # "none" => up'[p]
      BY <1>2, <2>1, <2>3 DEF ConnectionInv
    <3> QED BY <1>2, <2>3, <3>4, <3>5, <3>6, <3>7, <3>8, <3>9 DEF ConnectionInv
  <2> QED BY <2>2, <2>3
<1>8. mishaps \subseteq mishaps'
  BY <1>2
<1> QED BY <1>2, <1>6, <1>7, <1>8, ConnectionStep

LEMMA ReceiveFailsStep ==
  ASSUME HostInv, crash = "none", NEW p \in Paths, ReceiveFails(p), UNCHANGED <<phase, abandoned>>
  PROVE  HostInv'
<1>1. /\ read[p] = "pending" /\ read' = [read EXCEPT ![p] = "error"] /\ mishaps' = mishaps \cup {"error"}
      /\ UNCHANGED <<file, layers, bound, lib, layer, up, connect, write, unsent, session, ping, inbox,
                    acks, closed, crash>>
  BY DEF ReceiveFails
<1>2. HostTypeOK'
  <2>1. read' \in [Paths -> Receives]
    BY <1>1 DEF HostInv
  <2> QED BY <1>1, <2>1 DEF HostInv
<1>3. ASSUME NEW q \in Paths PROVE ConnectionInv(q)'
  <2>1. ConnectionInv(q)
    BY DEF HostInv
  <2>2. CASE q # p
    <3>1. read'[q] = read[q]
      BY <1>1, <2>2 DEF HostInv
    <3> QED BY <1>1, <2>1, <3>1, SameConnection
  <2>3. CASE q = p
    <3>1. read'[p] = "error" /\ Told(p)' = Told(p)
      BY <1>1 DEF HostInv, Told
    <3> QED BY <1>1, <2>1, <2>3, <3>1 DEF ConnectionInv
  <2> QED BY <2>2, <2>3
<1> QED BY <1>1, <1>2, <1>3, ConnectionStep

LEMMA SentStep ==
  ASSUME HostInv, crash = "none", NEW p \in Paths, Sent(p), UNCHANGED <<phase, abandoned>>
  PROVE  HostInv'
<1>1. /\ write[p] = "pending" /\ write' = [write EXCEPT ![p] = "ok"]
      /\ UNCHANGED <<file, layers, bound, lib, layer, up, connect, read, unsent, session, ping, inbox,
                    acks, closed, mishaps, crash>>
  BY DEF Sent
<1>2. HostTypeOK'
  BY <1>1 DEF HostInv
<1>3. ASSUME NEW q \in Paths PROVE ConnectionInv(q)'
  <2>1. ConnectionInv(q) /\ Told(q)' = Told(q)
    BY <1>1 DEF HostInv, Told
  <2> QED BY <1>1, <2>1 DEF HostInv, ConnectionInv
<1> QED BY <1>1, <1>2, <1>3, ConnectionStep

LEMMA CountedStep ==
  ASSUME HostInv, crash = "none", NEW p \in Paths, Counted(p), UNCHANGED <<phase, abandoned>>
  PROVE  HostInv'
<1>1. /\ acks[p] > 0 /\ acks' = [acks EXCEPT ![p] = @ - 1] /\ closed' = [closed EXCEPT ![p] = @ + 1]
      /\ UNCHANGED <<file, layers, bound, lib, layer, up, connect, read, write, unsent, session, ping,
                    inbox, mishaps, crash>>
  BY DEF Counted
<1>2. unsent[p] \in Nat /\ acks[p] \in Nat /\ closed[p] \in Nat
      /\ acks'[p] = acks[p] - 1 /\ closed'[p] = closed[p] + 1
  BY <1>1 DEF HostInv
<1>3. HostTypeOK'
  <2>1. acks' \in [Paths -> Nat] /\ closed' \in [Paths -> Nat]
    BY <1>1, <1>2 DEF HostInv
  <2> QED BY <1>1, <2>1 DEF HostInv
<1>4. ASSUME NEW q \in Paths PROVE ConnectionInv(q)' /\ (closed[q] # 0 => closed'[q] # 0)
  <2>1. ConnectionInv(q)
    BY DEF HostInv
  <2>2. CASE q # p
    <3>1. acks'[q] = acks[q] /\ closed'[q] = closed[q]
      BY <1>1, <2>2 DEF HostInv
    <3> QED BY <1>1, <2>1, <3>1, SameConnection
  <2>3. CASE q = p
    <3>1. Told(p)' = Told(p) /\ closed'[p] # 0
      BY <1>1, <1>2 DEF Told
    <3> QED BY <1>1, <2>1, <2>3, <3>1 DEF ConnectionInv
  <2> QED BY <2>2, <2>3
<1> QED BY <1>1, <1>3, <1>4, ConnectionStep

LEMMA NetworkStep ==
  ASSUME HostInv, crash = "none", Network, UNCHANGED <<phase, abandoned>>
  PROVE  HostInv'
BY ConnectedStep, AcceptedStep, GreetsStep, ReceivedStep, ReceiveFailsStep, SentStep, CountedStep DEF Network

-----------------------------------------------------------------------------
(* The handlers of the io thread *)

USE DEF hostKeeps

\* A handler that finds its socket gone belongs to a layer that is closed, so the request of its
\* session was the last thing it read, or the session was late, or something else went wrong.
LEMMA ClosedIsDone ==
  ASSUME HostInv, crash = "none", NEW p \in Paths, NullSocket(p),
         \/ connect[p] = "ok"
         \/ read[p] \in Messages \cup {"error"}
         \/ write[p] = "ok" /\ unsent[p] > 0
  PROVE  LateLayer \/ mishaps # {}
<1>1. ConnectionInv(p) /\ PhaseInv(p) /\ unsent[p] \in Nat /\ acks[p] \in Nat /\ closed[p] \in Nat
      /\ session[p] \in {"none", "open", "asked"} /\ layer[p] \in {"none", "live", "closed", "deleted"}
  BY DEF HostInv
<1>2. layer[p] \in {"closed", "deleted"}
  BY <1>1 DEF NullSocket, ConnectionInv
<1>3. SUFFICES ASSUME mishaps = {}, session[p] = "asked" PROVE FALSE
  BY <1>1, <1>2 DEF LateLayer
<1>4. closed[p] # 0
  BY <1>1, <1>2, <1>3 DEF PhaseInv
<1>5. Told(p) # 0 /\ (unsent[p] > 0 \/ read[p] = "REQUEST" => Told(p) # 1)
  <2>1. CASE read[p] = "REQUEST"
    <3>1. Told(p) = unsent[p] + acks[p] + closed[p] + 1
      BY <2>1 DEF Told
    <3> QED BY <1>1, <1>4, <3>1
  <2>2. CASE read[p] # "REQUEST"
    <3>1. Told(p) = unsent[p] + acks[p] + closed[p]
      BY <1>1, <2>2 DEF Told
    <3> QED BY <1>1, <1>4, <2>2, <3>1
  <2> QED BY <2>1, <2>2
<1>6. Told(p) = 1 /\ ping[p] = "answered" /\ read[p] # "PONG" /\ read[p] # "error"
  BY <1>1, <1>3, <1>5 DEF ConnectionInv
<1>7. connect[p] = "none"
  BY <1>1, <1>6 DEF ConnectionInv
<1> QED BY <1>5, <1>6, <1>7

\* ... and it ends the program.
LEMMA NullSocketStep ==
  ASSUME HostInv, crash = "none", LateLayer \/ mishaps # {}, crash' = "null_socket",
         UNCHANGED <<file, layers, bound, lib, layer, up, read, write, unsent, session, ping, inbox,
                    acks, closed, mishaps, phase, abandoned>>,
         connect' \in [Paths -> Operations]
  PROVE  HostInv'
<1>1. LateLayer' \/ mishaps' # {}
  BY DEF LateLayer
<1> QED BY <1>1 DEF HostInv, CrashHasCause

LEMMA OnConnectStep ==
  ASSUME HostInv, crash = "none", NEW p \in Paths, OnConnect(p), UNCHANGED <<phase, abandoned>>
  PROVE  HostInv'
<1>1. /\ connect[p] \in {"ok", "failed"} /\ connect' = [connect EXCEPT ![p] = "none"]
      /\ UNCHANGED <<file, layers, bound, lib, layer, up, unsent, session, inbox, acks, closed, mishaps>>
  BY DEF OnConnect
<1>2. connect' \in [Paths -> Operations] /\ connect'[p] = "none" /\ \A q \in Paths : q # p => connect'[q] = connect[q]
  BY <1>1 DEF HostInv
<1>3. CASE connect[p] = "failed"
  <2>1. UNCHANGED <<read, write, ping, crash>>
    BY <1>3 DEF OnConnect
  <2>2. HostTypeOK'
    BY <1>1, <1>2, <2>1 DEF HostInv
  <2>3. ASSUME NEW q \in Paths PROVE ConnectionInv(q)'
    <3>1. ConnectionInv(q) /\ Told(q)' = Told(q)
      BY <1>1, <2>1 DEF HostInv, Told
    <3> QED BY <1>1, <1>2, <2>1, <3>1 DEF ConnectionInv
  <2> QED BY <1>1, <2>1, <2>2, <2>3, ConnectionStep
<1>4. CASE connect[p] = "ok" /\ NullSocket(p)
  <2>1. crash' = "null_socket" /\ UNCHANGED <<read, write, ping>>
    BY <1>4 DEF OnConnect
  <2> QED BY <1>1, <1>2, <1>4, <2>1, ClosedIsDone, NullSocketStep
<1>5. CASE connect[p] = "ok" /\ ~NullSocket(p)
  <2>1. /\ read' = [read EXCEPT ![p] = "pending"] /\ write' = [write EXCEPT ![p] = "pending"]
        /\ ping' = [ping EXCEPT ![p] = "sent"] /\ crash' = crash /\ layer[p] = "live"
    BY <1>5 DEF OnConnect, NullSocket
  <2>2. HostTypeOK'
    <3>1. read' \in [Paths -> Receives] /\ write' \in [Paths -> Operations]
      BY <2>1 DEF HostInv
    <3>2. ping' \in [Paths -> {"none", "sent", "answered"}]
      BY <2>1 DEF HostInv
    <3> QED BY <1>1, <1>2, <2>1, <3>1, <3>2 DEF HostInv
  <2>3. ASSUME NEW q \in Paths PROVE ConnectionInv(q)'
    <3>1. ConnectionInv(q)
      BY DEF HostInv
    <3>2. CASE q # p
      <4>1. read'[q] = read[q] /\ write'[q] = write[q] /\ ping'[q] = ping[q]
        BY <2>1, <3>2 DEF HostInv
      <4> QED BY <1>1, <1>2, <3>1, <3>2, <4>1, SameConnection
    <3>3. CASE q = p
      <4>1. read'[p] = "pending" /\ ping'[p] = "sent" /\ read[p] = "none" /\ ping[p] = "none"
        BY <1>5, <2>1, <3>1, <3>3 DEF HostInv, ConnectionInv
      <4>2. Told(p)' = Told(p)
        BY <1>1, <4>1 DEF Told
      <4> QED BY <1>1, <1>2, <2>1, <3>1, <3>3, <4>1, <4>2 DEF ConnectionInv
    <3> QED BY <3>2, <3>3
  <2> QED BY <1>1, <2>1, <2>2, <2>3, ConnectionStep
<1> QED BY <1>1, <1>3, <1>4, <1>5

\* A request that is handled is answered on the way or in the queue, or dropped.
LEMMA OnReadStep ==
  ASSUME HostInv, crash = "none", NEW p \in Paths, OnRead(p), UNCHANGED <<phase, abandoned>>
  PROVE  HostInv'
<1>1. UNCHANGED <<file, layers, bound, lib, layer, up, session, closed, mishaps, connect, ping, inbox>>
  BY DEF OnRead
<1>2. ConnectionInv(p) /\ unsent[p] \in Nat /\ acks[p] \in Nat /\ closed[p] \in Nat
  BY DEF HostInv
<1>3. CASE read[p] = "failed"
  <2>1. read' = [read EXCEPT ![p] = "none"] /\ UNCHANGED <<write, unsent, acks, crash>>
    BY <1>3 DEF OnRead
  <2>2. HostTypeOK'
    BY <1>1, <2>1 DEF HostInv
  <2>3. ASSUME NEW q \in Paths PROVE ConnectionInv(q)'
    <3>1. ConnectionInv(q) /\ Told(q)' = Told(q)
      BY <1>1, <1>3, <2>1 DEF HostInv, Told
    <3>2. read'[q] = read[q] \/ (q = p /\ read'[q] = "none")
      BY <2>1 DEF HostInv
    <3> QED BY <1>1, <2>1, <3>1, <3>2 DEF ConnectionInv
  <2> QED BY <1>1, <2>1, <2>2, <2>3, ConnectionStep
<1>4. CASE read[p] \in Messages \cup {"error"} /\ NullSocket(p)
  <2>1. crash' = "null_socket" /\ UNCHANGED <<read, write, unsent, acks>>
    BY <1>4 DEF OnRead
  <2>2. connect' \in [Paths -> Operations]
    BY <1>1 DEF HostInv
  <2> QED BY <1>1, <1>4, <2>1, <2>2, ClosedIsDone, NullSocketStep
<1>5. CASE read[p] \in Messages \cup {"error"} /\ ~NullSocket(p)
  <2>1. /\ read' = [read EXCEPT ![p] = "pending"] /\ crash' = crash /\ layer[p] = "live"
        /\ Answers(p) \/ UNCHANGED <<write, unsent, acks>>
    BY <1>5 DEF OnRead, NullSocket
  <2>2. /\ write' \in [Paths -> Operations] /\ unsent' \in [Paths -> Nat] /\ acks' \in [Paths -> Nat]
        /\ \A q \in Paths : q # p => write'[q] = write[q] /\ unsent'[q] = unsent[q] /\ acks'[q] = acks[q]
        /\ \/ unsent'[p] = unsent[p] /\ acks'[p] = acks[p]
           \/ /\ read[p] = "REQUEST"
              /\ \/ unsent'[p] = unsent[p] /\ acks'[p] = acks[p] + 1
                 \/ unsent'[p] = unsent[p] + 1 /\ acks'[p] = acks[p]
    <3>1. CASE UNCHANGED <<write, unsent, acks>>
      BY <3>1 DEF HostInv
    <3>2. CASE Answers(p) /\ write[p] = "none"
      <4>1. /\ read[p] = "REQUEST" /\ write' = [write EXCEPT ![p] = "pending"]
            /\ acks' = [acks EXCEPT ![p] = @ + 1] /\ unsent' = unsent
        BY <3>2 DEF Answers
      <4> QED BY <4>1 DEF HostInv
    <3>3. CASE Answers(p) /\ write[p] # "none"
      <4>1. /\ read[p] = "REQUEST" /\ unsent' = [unsent EXCEPT ![p] = @ + 1]
            /\ UNCHANGED <<write, acks>>
        BY <3>3 DEF Answers
      <4> QED BY <4>1 DEF HostInv
    <3> QED BY <2>1, <3>1, <3>2, <3>3
  <2>3. HostTypeOK'
    <3>1. read' \in [Paths -> Receives]
      BY <2>1 DEF HostInv
    <3>2. {connect, write}' \subseteq [Paths -> Operations] /\ {unsent, acks, closed}' \subseteq [Paths -> Nat]
      BY <1>1, <2>2 DEF HostInv
    <3> QED BY <1>1, <2>1, <3>1, <3>2 DEF HostInv
  <2>4. ASSUME NEW q \in Paths PROVE ConnectionInv(q)'
    <3>1. ConnectionInv(q)
      BY DEF HostInv
    <3>2. CASE q # p
      <4>1. read'[q] = read[q] /\ write'[q] = write[q] /\ unsent'[q] = unsent[q] /\ acks'[q] = acks[q]
        BY <2>1, <2>2, <3>2 DEF HostInv
      <4> QED BY <1>1, <3>1, <4>1, SameConnection
    <3>3. CASE q = p
      <4>1. read'[p] = "pending"
        BY <2>1 DEF HostInv
      <4>2. Told(p)' \in Nat /\ Told(p) \in Nat /\ Told(p)' <= Told(p)
        BY <1>1, <1>2, <2>2, <4>1 DEF Told
      <4>3. /\ Told(p) = 0 => Told(p)' = 0
            /\ Told(p) = 1 /\ Told(p)' # 0 => Told(p)' = 1
        BY <4>2
      <4>4. connect[p] = "none"
        BY <1>2, <1>5 DEF ConnectionInv
      <4> QED BY <1>1, <1>2, <2>1, <3>3, <4>1, <4>3, <4>4 DEF ConnectionInv
    <3> QED BY <3>2, <3>3
  <2> QED BY <1>1, <2>1, <2>3, <2>4, ConnectionStep
<1> QED BY <1>3, <1>4, <1>5 DEF OnRead

LEMMA OnWrittenStep ==
  ASSUME HostInv, crash = "none", NEW p \in Paths, OnWritten(p), UNCHANGED <<phase, abandoned>>
  PROVE  HostInv'
<1>1. /\ write[p] \in {"ok", "failed"}
      /\ UNCHANGED <<file, layers, bound, lib, layer, up, session, closed, mishaps, connect, read, ping, inbox>>
  BY DEF OnWritten
<1>2. ConnectionInv(p) /\ unsent[p] \in Nat /\ acks[p] \in Nat /\ closed[p] \in Nat
  BY DEF HostInv
<1>3. CASE write[p] = "failed" \/ unsent[p] = 0
  <2>1. write' = [write EXCEPT ![p] = "none"] /\ UNCHANGED <<unsent, acks, crash>>
    BY <1>1, <1>2, <1>3 DEF OnWritten
  <2>2. HostTypeOK'
    BY <1>1, <2>1 DEF HostInv
  <2>3. ASSUME NEW q \in Paths PROVE ConnectionInv(q)'
    <3>1. ConnectionInv(q) /\ Told(q)' = Told(q)
      BY <1>1, <2>1 DEF HostInv, Told
    <3>2. write'[q] = write[q] \/ write'[q] = "none"
      BY <2>1 DEF HostInv
    <3> QED BY <1>1, <2>1, <3>1, <3>2 DEF ConnectionInv
  <2> QED BY <1>1, <2>1, <2>2, <2>3, ConnectionStep
<1>4. CASE write[p] = "ok" /\ unsent[p] > 0 /\ NullSocket(p)
  <2>1. crash' = "null_socket" /\ UNCHANGED <<write, unsent, acks>>
    BY <1>2, <1>4 DEF OnWritten
  <2>2. connect' \in [Paths -> Operations]
    BY <1>1 DEF HostInv
  <2> QED BY <1>1, <1>4, <2>1, <2>2, ClosedIsDone, NullSocketStep
<1>5. CASE write[p] = "ok" /\ unsent[p] > 0 /\ ~NullSocket(p)
  <2>1. /\ write' = [write EXCEPT ![p] = "pending"] /\ crash' = crash /\ layer[p] = "live"
        /\ unsent' = [unsent EXCEPT ![p] = @ - 1] /\ acks' = [acks EXCEPT ![p] = @ + 1]
    BY <1>2, <1>5 DEF OnWritten, NullSocket
  <2>2. unsent'[p] = unsent[p] - 1 /\ acks'[p] = acks[p] + 1
    BY <2>1 DEF HostInv
  <2>3. HostTypeOK'
    <3>1. unsent' \in [Paths -> Nat] /\ acks' \in [Paths -> Nat]
      BY <1>2, <1>5, <2>1 DEF HostInv
    <3>2. write' \in [Paths -> Operations]
      BY <2>1 DEF HostInv
    <3> QED BY <1>1, <2>1, <3>1, <3>2 DEF HostInv
  <2>4. ASSUME NEW q \in Paths PROVE ConnectionInv(q)'
    <3>1. ConnectionInv(q)
      BY DEF HostInv
    <3>2. CASE q # p
      <4>1. write'[q] = write[q] /\ unsent'[q] = unsent[q] /\ acks'[q] = acks[q]
        BY <2>1, <3>2 DEF HostInv
      <4> QED BY <1>1, <3>1, <4>1, SameConnection
    <3>3. CASE q = p
      <4>1. Told(p)' = Told(p)
        BY <1>1, <1>2, <2>2 DEF Told
      <4> QED BY <1>1, <2>1, <3>1, <3>3, <4>1 DEF ConnectionInv
    <3> QED BY <3>2, <3>3
  <2> QED BY <1>1, <2>1, <2>3, <2>4, ConnectionStep
<1> QED BY <1>1, <1>2, <1>3, <1>4, <1>5

-----------------------------------------------------------------------------
(* The two properties *)

LEMMA SimStep ==
  ASSUME HostInv, Sim
  PROVE  HostInv'
<1> USE DEF In, keeps
<1>1. CASE Bind \/ Start
  BY <1>1, QuietStep DEF Bind, Start, Phases
<1>2. CASE BindNext
  BY <1>2, BindLayerStep DEF BindNext
<1>3. CASE Bound \/ Started
  BY <1>3, QuietStep DEF Bound, Started, Phases
<1>4. CASE HandleStep \/ HandleActivation
  BY <1>4, QuietStep DEF HandleStep, HandleActivation, Handle, Phases
<1>5. CASE StopTimers
  BY <1>5, AskSessionsStep DEF StopTimers
<1>6. CASE Drained
  BY <1>6, DrainedStep DEF Drained
<1>7. CASE ReadShutdown
  BY <1>7, QuietStep DEF ReadShutdown, Phases
<1>8. CASE CloseNext
  BY <1>8, CloseLayerStep DEF CloseNext
<1>9. CASE DeleteNext
  BY <1>9, DeleteLayerStep DEF DeleteNext
<1>10. CASE Unload
  BY <1>10, UnloadStep DEF Unload
<1>11. CASE Destroy
  BY <1>11, DestroyStep DEF Destroy
<1> QED BY <1>1, <1>2, <1>3, <1>4, <1>5, <1>6, <1>7, <1>8, <1>9, <1>10, <1>11 DEF Sim

LEMMA HostStep == HostInv /\ [Next]_vars => HostInv'
<1> SUFFICES ASSUME HostInv, [Next]_vars PROVE HostInv'
  OBVIOUS
<1>1. CASE Sim
  BY <1>1, SimStep
<1>2. CASE Stop
  BY <1>2, QuietStep DEF Stop, In, keeps, Phases
<1>3. CASE Abandon
  BY <1>3, AbandonStep DEF Abandon, In
<1>4. CASE Io
  BY <1>4, QuietStep DEF Io, Running, HostInv
<1>5. CASE IoHandler
  <2>1. /\ crash = "none" /\ UNCHANGED <<phase, abandoned>>
        /\ \E p \in Paths : OnConnect(p) \/ OnRead(p) \/ OnWritten(p)
    BY <1>5 DEF IoHandler, Running, IoLayers
  <2> QED BY <2>1, OnConnectStep, OnReadStep, OnWrittenStep
<1>6. CASE Environment
  <2>1. /\ crash = "none" /\ UNCHANGED <<phase, abandoned>>
        /\ Network \/ UNCHANGED hostVars
    BY <1>6 DEF Environment, Running
  <2>2. CASE Network
    BY <2>1, <2>2, NetworkStep
  <2>3. CASE UNCHANGED hostVars
    BY <2>1, <2>3, QuietStep DEF HostInv
  <2> QED BY <2>1, <2>2, <2>3
<1>7. CASE UNCHANGED vars
  <2>1. UNCHANGED <<hostVars, phase, abandoned>>
    BY <1>7 DEF vars
  <2>2. CASE crash = "none"
    BY <2>1, <2>2, QuietStep DEF HostInv
  <2>3. CASE crash # "none"
    BY <2>1, <2>3 DEF hostVars, connVars, sessionVars, HostInv, CrashHasCause, LateLayer, ListedTwice
  <2> QED BY <2>2, <2>3
<1> QED BY <1>1, <1>2, <1>3, <1>4, <1>5, <1>6, <1>7 DEF Next

\* bind_layer(), the handlers of a control block and the end of a simulation keep the invariant
\* in whatever order the sim thread, the io thread and the network take their steps.
THEOREM HostInvariant == Spec => []HostInv
BY InitInv, HostStep, PTL DEF Spec

\* Code of a layer's library is called by the sim thread or by a handler of the io thread only
\* while the library is loaded, unless the program was terminated: unload_libraries() comes after
\* the last delete_fn(), and a library that is listed again does not take the first one with it.
THEOREM LibrariesOutliveLayers == Spec => []LibraryOutlivesLayer
<1>1. HostInv => LibraryOutlivesLayer
  BY DEF HostInv, LibraryInv, LibraryOutlivesLayer
<1> QED BY <1>1, HostInvariant, PTL

\* The program is terminated by a pure virtual call only if the configuration lists a layer twice
\* or wait_for_shutdown() left without the shutdown message, and by a socket that is not connected
\* only if some layer's session was never asked to close.  A handler finds its socket gone only for
\* that reason, or if a request overtook a PONG, or a receive failed: otherwise nodes_cleaned_up(),
\* which compares two numbers, counted each session once, and the request was the last thing its
\* layer read.
THEOREM CrashesHaveCauses == Spec => []CrashHasCause
<1>1. HostInv => CrashHasCause
  BY DEF HostInv
<1> QED BY <1>1, HostInvariant, PTL

-----------------------------------------------------------------------------
(* The events *)

Entries == {MainStep} \cup DOMAIN script

\* The message of the timer with a key
Message(i) == IF i = MainStep THEN MainStep ELSE config[i]

\* The messages in the order of the expiries they come from: handled, queued, to be queued
Fired ==
  [j \in 1..(Len(done) + Len(queue) + Len(ready)) |->
     IF j <= Len(done) THEN done[j]
     ELSE IF j <= Len(done) + Len(queue) THEN queue[j - Len(done)]
     ELSE Message(ready[j - Len(done) - Len(queue)])]

MainSteps(j) == {x \in 1..(j - 1) : Fired[x] = MainStep}
FiredSteps == Cardinality({x \in DOMAIN Fired : Fired[x] = MainStep})

\* The maps of the event handler
MapsInv ==
  /\ script \in Seq(EventKey) /\ now \in 0..MaxTime
  /\ timers \in [DOMAIN timers -> [wait : Nat, due : Nat \cup {Off}]]
  /\ events \in [DOMAIN events -> DOMAIN script] /\ begun \in [DOMAIN begun -> 0..now]
  /\ DOMAIN timers \subseteq {MainStep} \cup DOMAIN config
  /\ DOMAIN events \subseteq DOMAIN timers \ {MainStep} /\ DOMAIN begun \subseteq DOMAIN timers
  /\ \A i \in DOMAIN events : events[i] = config[i]
  /\ \A i \in DOMAIN timers :
       timers[i].wait = IF i = MainStep THEN Interval ELSE script[config[i]].first * Interval

QueuesInv ==
  /\ ready \in Seq(DOMAIN timers)
  /\ queue \in Seq(Entries) /\ done \in Seq(Entries)
  /\ phase = "events" =>
       DOMAIN timers = {} /\ DOMAIN events = {} /\ ready = <<>> /\ queue = <<>> /\ done = <<>>

\* The timer of an event waits until it expires, once; only then is the event forgotten.
OnceInv ==
  /\ \A i \in DOMAIN timers : timers[i].due # Off => i \in DOMAIN begun
  /\ \A i \in DOMAIN timers \ {MainStep} :
       /\ timers[i].due # Off => timers[i].due = begun[i] + timers[i].wait
       /\ i \notin DOMAIN events \/ (\E j \in DOMAIN Fired : Fired[j] = config[i])
            => timers[i].due = Off /\ i \in DOMAIN begun
       /\ i \notin DOMAIN events => \A j \in DOMAIN ready : ready[j] # i
  /\ \A j, l \in DOMAIN Fired : Fired[j] = Fired[l] /\ Fired[j] # MainStep => j = l

\* The main step takes its time: n steps at least n intervals.
PaceInv ==
  /\ FiredSteps # 0 \/ (MainStep \in DOMAIN timers /\ timers[MainStep].due # Off) => MainStep \in DOMAIN begun
  /\ MainStep \in DOMAIN begun =>
       /\ now >= begun[MainStep] + FiredSteps * Interval
       /\ timers[MainStep].due # Off => timers[MainStep].due >= begun[MainStep] + (FiredSteps + 1) * Interval

\* The timer of an event was begun an interval or more after that of the main step.
LateStart(i) ==
  MainStep \in DOMAIN begun /\ i \in DOMAIN begun /\ begun[i] >= begun[MainStep] + Interval

\* An event does not wait longer than its step, and did not, unless it began late.
StepInv ==
  /\ \A i \in DOMAIN timers \ {MainStep} :
       timers[i].due # Off /\ FiredSteps > script[config[i]].first => LateStart(i)
  /\ \A j \in DOMAIN Fired :
       Fired[j] # MainStep /\ Cardinality(MainSteps(j)) > script[Fired[j]].first => LateStart(Key(Fired[j]))

ScriptInv == MapsInv /\ QueuesInv /\ OnceInv /\ PaceInv /\ StepInv

-----------------------------------------------------------------------------
(* Keys *)

\* The order of the naturals as a set of pairs
Less == {p \in Nat \X Nat : p[1] < p[2]}

LEMMA NatLess == IsWellFoundedOn(Less, Nat)
BY NatLessThanWellFounded DEF OpToRel, Less

\* The smallest element of a set of naturals exists.
LEMMA LeastKey ==
  ASSUME NEW S \in SUBSET Nat, S # {}
  PROVE  Min(S) \in S
<1>1. ASSUME NEW y \in Nat, NEW z \in Nat, y < z PROVE <<y, z>> \in Less
  BY <1>1 DEF Less
<1>2. PICK x \in S : \A y \in S : ~(<<y, x>> \in Less)
  BY NatLess, WFMin
<1>3. ASSUME NEW y \in S PROVE x <= y
  <2>1. ~(y < x)
    BY <1>1, <1>2
  <2> QED BY <2>1
<1> QED BY <1>3 DEF Min

\* The event of a key has that key, so no two keys have the same event.
LEMMA KeysOfEvents ==
  ASSUME script \in Seq(EventKey)
  PROVE  /\ DOMAIN config \subseteq Nat /\ DOMAIN script \subseteq Nat \ {MainStep}
         /\ \A i \in DOMAIN config : config[i] \in DOMAIN script /\ Key(config[i]) = i
         /\ \A k \in DOMAIN script : script[k].first \in Nat
<1>1. \A k \in DOMAIN script : script[k].id \in Nat \cup {NoId} /\ script[k].first \in Nat
  <2>1. \A k \in DOMAIN script : script[k] \in EventKey
    OBVIOUS
  <2> QED BY <2>1 DEF EventKey
<1>2. DOMAIN script \subseteq Nat \ {MainStep}
  BY DEF MainStep
<1>3. DOMAIN config \subseteq Nat
  BY <1>1, <1>2 DEF config, Key
<1>4. ASSUME NEW i \in DOMAIN config PROVE config[i] \in DOMAIN script /\ Key(config[i]) = i
  <2> DEFINE S == {k \in DOMAIN script : Key(k) = i}
  <2>1. config[i] = Min(S) /\ S # {}
    BY DEF config
  <2>2. Min(S) \in S
    BY <1>2, <2>1, LeastKey
  <2> QED BY <2>1, <2>2
<1> QED BY <1>1, <1>2, <1>3, <1>4

-----------------------------------------------------------------------------
(* What the steps make of the order of the expiries *)

LEMMA FiredTypes ==
  ASSUME MapsInv, QueuesInv
  PROVE  /\ Len(done) + Len(queue) + Len(ready) \in Nat
         /\ DOMAIN Fired = 1..(Len(done) + Len(queue) + Len(ready))
         /\ \A j \in DOMAIN Fired : Fired[j] \in Entries
         /\ FiredSteps \in Nat
         /\ IsFiniteSet({x \in DOMAIN Fired : Fired[x] = MainStep})
<1> DEFINE n == Len(done) + Len(queue) + Len(ready)
<1>1. Len(done) \in Nat /\ Len(queue) \in Nat /\ Len(ready) \in Nat /\ n \in Nat
  BY DEF QueuesInv
<1>2. DOMAIN Fired = 1..n
  BY DEF Fired
<1>3. ASSUME NEW i \in DOMAIN timers PROVE Message(i) \in Entries
  BY KeysOfEvents DEF MapsInv, Message, Entries
<1>4. ASSUME NEW j \in 1..n PROVE Fired[j] \in Entries
  <2>1. CASE j <= Len(done)
    BY <1>1, <2>1 DEF Fired, QueuesInv
  <2>2. CASE ~(j <= Len(done)) /\ j <= Len(done) + Len(queue)
    <3>1. j - Len(done) \in 1..Len(queue)
      BY <1>1, <2>2
    <3> QED BY <2>2, <3>1 DEF Fired, QueuesInv
  <2>3. CASE ~(j <= Len(done) + Len(queue))
    <3>1. j - Len(done) - Len(queue) \in 1..Len(ready) /\ ~(j <= Len(done))
      BY <1>1, <2>3
    <3>2. ready[j - Len(done) - Len(queue)] \in DOMAIN timers
      BY <3>1 DEF QueuesInv
    <3> QED BY <1>3, <2>3, <3>1, <3>2 DEF Fired
  <2> QED BY <2>1, <2>2, <2>3
<1>5. IsFiniteSet({x \in DOMAIN Fired : Fired[x] = MainStep})
  <2>1. IsFiniteSet(1..n)
    BY <1>1, FS_Interval
  <2> QED BY <1>2, <2>1, FS_Subset
<1>6. FiredSteps \in Nat
  BY <1>5, FS_CardinalityType DEF FiredSteps
<1> QED BY <1>1, <1>2, <1>4, <1>5, <1>6

\* The sim thread takes the head of the queue.
LEMMA HandleKeepsOrder ==
  ASSUME MapsInv, QueuesInv, queue # <<>>, queue' = Tail(queue), done' = Append(done, Head(queue)),
         UNCHANGED <<script, ready>>
  PROVE  Fired' = Fired
<1> DEFINE d == Len(done)
           q == Len(queue)
           r == Len(ready)
<1>1. /\ d \in Nat /\ q \in Nat /\ r \in Nat /\ q # 0
      /\ Len(done') = d + 1 /\ Len(queue') = q - 1 /\ Len(ready') = r
      /\ \A j \in 1..d : done'[j] = done[j]
      /\ done'[d + 1] = queue[1]
      /\ \A j \in 1..(q - 1) : queue'[j] = queue[j + 1]
  BY DEF QueuesInv
<1>2. config' = config /\ ready' = ready
  BY DEF config, Key
<1>3. Fired = [j \in 1..(d + q + r) |-> IF j <= d THEN done[j] ELSE IF j <= d + q THEN queue[j - d]
                                       ELSE Message(ready[j - d - q])]
  BY DEF Fired
<1>4. Fired' = [j \in 1..((d + 1) + (q - 1) + r) |->
                  IF j <= d + 1 THEN done'[j] ELSE IF j <= (d + 1) + (q - 1) THEN queue'[j - (d + 1)]
                  ELSE Message(ready[j - (d + 1) - (q - 1)])]
  BY <1>1, <1>2 DEF Fired, Message
<1>5. ASSUME NEW j \in 1..(d + q + r)
      PROVE  (IF j <= d + 1 THEN done'[j] ELSE IF j <= (d + 1) + (q - 1) THEN queue'[j - (d + 1)]
              ELSE Message(ready[j - (d + 1) - (q - 1)]))
           = (IF j <= d THEN done[j] ELSE IF j <= d + q THEN queue[j - d] ELSE Message(ready[j - d - q]))
  <2> HIDE DEF d, q, r
  <2>1. CASE j <= d
    BY <1>1, <2>1
  <2>2. CASE j = d + 1
    BY <1>1, <2>2
  <2>3. CASE ~(j <= d + 1) /\ j <= d + q
    <3>1. j - (d + 1) \in 1..(q - 1) /\ (j - (d + 1)) + 1 = j - d
      BY <1>1, <2>3
    <3> QED BY <1>1, <2>3, <3>1
  <2>4. CASE ~(j <= d + q)
    <3>1. j - (d + 1) - (q - 1) = j - d - q /\ ~(j <= d + 1) /\ ~(j <= (d + 1) + (q - 1)) /\ ~(j <= d)
      <4>1. j \in Int /\ d \in Int /\ q \in Int /\ q >= 1
        BY <1>1
      <4> QED BY <4>1, <2>4
    <3> QED BY <2>4, <3>1
  <2> QED BY <1>1, <2>1, <2>2, <2>3, <2>4
<1>6. (d + 1) + (q - 1) + r = d + q + r
  BY <1>1
<1> HIDE DEF d, q, r
<1> QED BY <1>3, <1>4, <1>5, <1>6

\* The io thread queues the message of the handler it runs.
LEMMA RunKeepsOrder ==
  ASSUME MapsInv, QueuesInv, ready # <<>>, ready' = Tail(ready),
         queue' = Append(queue, Message(Head(ready))), UNCHANGED <<script, done>>
  PROVE  Fired' = Fired
<1> DEFINE d == Len(done)
           q == Len(queue)
           r == Len(ready)
<1>1. /\ d \in Nat /\ q \in Nat /\ r \in Nat /\ r # 0
      /\ Len(done') = d /\ Len(queue') = q + 1 /\ Len(ready') = r - 1
      /\ \A j \in 1..q : queue'[j] = queue[j]
      /\ queue'[q + 1] = Message(ready[1])
      /\ \A j \in 1..(r - 1) : ready'[j] = ready[j + 1]
  <2>1. Head(ready) = ready[1] /\ ready[1] \in DOMAIN timers
    BY DEF QueuesInv
  <2>2. Message(ready[1]) \in Entries
    BY <2>1, KeysOfEvents DEF MapsInv, Message, Entries
  <2>3. queue \in Seq(Entries) /\ ready \in Seq(DOMAIN timers) /\ done \in Seq(Entries)
    BY DEF QueuesInv
  <2> QED BY <2>1, <2>2, <2>3
<1>2. config' = config /\ done' = done
  BY DEF config, Key
<1>3. Fired = [j \in 1..(d + q + r) |-> IF j <= d THEN done[j] ELSE IF j <= d + q THEN queue[j - d]
                                       ELSE Message(ready[j - d - q])]
  BY DEF Fired
<1>4. Fired' = [j \in 1..(d + (q + 1) + (r - 1)) |->
                  IF j <= d THEN done[j] ELSE IF j <= d + (q + 1) THEN queue'[j - d]
                  ELSE Message(ready'[j - d - (q + 1)])]
  BY <1>1, <1>2 DEF Fired, Message
<1>5. ASSUME NEW j \in 1..(d + q + r)
      PROVE  (IF j <= d THEN done[j] ELSE IF j <= d + (q + 1) THEN queue'[j - d]
              ELSE Message(ready'[j - d - (q + 1)]))
           = (IF j <= d THEN done[j] ELSE IF j <= d + q THEN queue[j - d] ELSE Message(ready[j - d - q]))
  <2> HIDE DEF d, q, r
  <2>1. CASE j <= d
    BY <2>1
  <2>2. CASE ~(j <= d) /\ j <= d + q
    <3>1. j - d \in 1..q /\ j <= d + (q + 1)
      BY <1>1, <2>2
    <3> QED BY <1>1, <2>2, <3>1
  <2>3. CASE j = d + q + 1
    <3>1. j - d = q + 1 /\ j - d - q = 1 /\ ~(j <= d) /\ ~(j <= d + q) /\ j <= d + (q + 1)
      BY <1>1, <2>3
    <3> QED BY <1>1, <3>1
  <2>4. CASE ~(j <= d + q + 1)
    <3>1. d \in Int /\ q \in Int /\ r \in Int /\ q >= 0
      BY <1>1
    <3>2. /\ ~(j <= d) /\ ~(j <= d + q) /\ ~(j <= d + (q + 1))
          /\ j - d - (q + 1) \in 1..(r - 1) /\ (j - d - (q + 1)) + 1 = j - d - q
      BY <3>1, <2>4
    <3> QED BY <1>1, <3>2
  <2>5. j <= d \/ (~(j <= d) /\ j <= d + q) \/ j = d + q + 1 \/ ~(j <= d + q + 1)
    <3>1. d \in Int /\ q \in Int /\ j \in Int
      BY <1>1
    <3> QED BY <3>1
  <2> QED BY <2>1, <2>2, <2>3, <2>4, <2>5
<1>6. d + (q + 1) + (r - 1) = d + q + r
  BY <1>1
<1> HIDE DEF d, q, r
<1> QED BY <1>3, <1>4, <1>5, <1>6

\* A timer that expires is the last in the order.
LEMMA ExpiryExtends ==
  ASSUME MapsInv, QueuesInv, NEW i \in DOMAIN timers, ready' = Append(ready, i),
         UNCHANGED <<script, queue, done>>,
         NEW n, n = Len(done) + Len(queue) + Len(ready)
  PROVE  /\ n \in Nat /\ DOMAIN Fired = 1..n /\ DOMAIN Fired' = 1..(n + 1)
         /\ \A j \in 1..n : Fired'[j] = Fired[j]
         /\ Fired'[n + 1] = Message(i)
<1> DEFINE d == Len(done)
           q == Len(queue)
           r == Len(ready)
<1>1. /\ d \in Nat /\ q \in Nat /\ r \in Nat /\ n = d + q + r
      /\ Len(ready') = r + 1 /\ ready'[r + 1] = i /\ \A j \in 1..r : ready'[j] = ready[j]
  BY DEF QueuesInv
<1>2. config' = config /\ done' = done /\ queue' = queue
  BY DEF config, Key
<1>3. Fired = [j \in 1..(d + q + r) |-> IF j <= d THEN done[j] ELSE IF j <= d + q THEN queue[j - d]
                                       ELSE Message(ready[j - d - q])]
  BY DEF Fired
<1>4. Fired' = [j \in 1..(d + q + (r + 1)) |->
                  IF j <= d THEN done[j] ELSE IF j <= d + q THEN queue[j - d]
                  ELSE Message(ready'[j - d - q])]
  BY <1>1, <1>2 DEF Fired, Message
<1>5. d + q + (r + 1) = n + 1 /\ n \in Nat
  BY <1>1
<1> HIDE DEF d, q, r
<1>6. ASSUME NEW j \in 1..n PROVE Fired'[j] = Fired[j]
  <2>1. j - d - q \in 1..r \/ j <= d + q
    BY <1>1
  <2>2. j \in 1..(n + 1)
    BY <1>5
  <2> QED BY <1>1, <1>3, <1>4, <1>5, <2>1, <2>2
<1>7. Fired'[n + 1] = Message(i)
  <2>1. n + 1 \in 1..(n + 1) /\ ~(n + 1 <= d) /\ ~(n + 1 <= d + q) /\ (n + 1) - d - q = r + 1
    BY <1>1
  <2> QED BY <1>1, <1>4, <1>5, <2>1
<1> QED BY <1>3, <1>4, <1>5, <1>6, <1>7, <1>1

\* What is done, and what is ready, in the order
LEMMA PartsOfOrder ==
  ASSUME MapsInv, QueuesInv
  PROVE  /\ \A j \in DOMAIN done : j \in DOMAIN Fired /\ Fired[j] = done[j]
         /\ \A j \in DOMAIN ready : /\ Len(done) + Len(queue) + j \in DOMAIN Fired
                                    /\ Fired[Len(done) + Len(queue) + j] = Message(ready[j])
<1> DEFINE d == Len(done)
           q == Len(queue)
           r == Len(ready)
<1>1. /\ d \in Nat /\ q \in Nat /\ r \in Nat
      /\ DOMAIN done = 1..d /\ DOMAIN ready = 1..r
  BY DEF QueuesInv
<1>2. Fired = [j \in 1..(d + q + r) |-> IF j <= d THEN done[j] ELSE IF j <= d + q THEN queue[j - d]
                                       ELSE Message(ready[j - d - q])]
  BY DEF Fired
<1> HIDE DEF d, q, r
<1>3. ASSUME NEW j \in 1..d PROVE j \in DOMAIN Fired /\ Fired[j] = done[j]
  BY <1>1, <1>2
<1>4. ASSUME NEW j \in 1..r PROVE d + q + j \in DOMAIN Fired /\ Fired[d + q + j] = Message(ready[j])
  <2>1. PICK x \in 1..(d + q + r) : x = d + q + j
    BY <1>1
  <2>2. ~(x <= d) /\ ~(x <= d + q) /\ x - d - q = j
    BY <1>1, <2>1
  <2>3. x \in DOMAIN Fired /\ Fired[x] = Message(ready[x - d - q])
    BY <1>2, <2>2
  <2> QED BY <2>1, <2>2, <2>3
<1> QED BY <1>1, <1>3, <1>4 DEF d, q, r

\* ... and it counts as a step if it is that of the main step.
LEMMA ExpiryCounts ==
  ASSUME MapsInv, QueuesInv, NEW i \in DOMAIN timers, ready' = Append(ready, i),
         UNCHANGED <<script, queue, done>>,
         NEW n, n = Len(done) + Len(queue) + Len(ready)
  PROVE  /\ FiredSteps' = IF i = MainStep THEN FiredSteps + 1 ELSE FiredSteps
         /\ \A j \in 1..n : MainSteps(j)' = MainSteps(j)
         /\ Cardinality(MainSteps(n + 1)') = FiredSteps
<1> DEFINE S == {x \in DOMAIN Fired : Fired[x] = MainStep}
<1>1. /\ n \in Nat /\ DOMAIN Fired = 1..n /\ DOMAIN Fired' = 1..(n + 1)
      /\ \A j \in 1..n : Fired'[j] = Fired[j]
      /\ Fired'[n + 1] = Message(i)
  BY ExpiryExtends
<1>2. IsFiniteSet(S) /\ FiredSteps = Cardinality(S) /\ n + 1 \notin S
  BY FiredTypes, <1>1 DEF FiredSteps
<1>3. ASSUME NEW j \in 1..n PROVE MainSteps(j)' = MainSteps(j)
  <2>1. \A x \in 1..(j - 1) : x \in 1..n
    BY <1>1
  <2> QED BY <1>1, <2>1 DEF MainSteps
<1>4. MainSteps(n + 1)' = S
  <2>1. (n + 1) - 1 = n
    BY <1>1
  <2> QED BY <1>1, <2>1 DEF MainSteps
<1>5. Message(i) = MainStep <=> i = MainStep
  BY KeysOfEvents DEF MapsInv, Message
<1>6. FiredSteps' = Cardinality({x \in 1..(n + 1) : Fired'[x] = MainStep})
  BY <1>1 DEF FiredSteps
<1>7. \A x : x \in 1..(n + 1) <=> x \in 1..n \/ x = n + 1
  BY <1>1
<1>8. CASE i = MainStep
  <2>1. {x \in 1..(n + 1) : Fired'[x] = MainStep} = S \cup {n + 1}
    BY <1>1, <1>5, <1>7, <1>8
  <2>2. Cardinality(S \cup {n + 1}) = Cardinality(S) + 1
    BY <1>2, FS_AddElement
  <2> QED BY <1>2, <1>3, <1>4, <1>6, <1>8, <2>1, <2>2
<1>9. CASE i # MainStep
  <2>1. {x \in 1..(n + 1) : Fired'[x] = MainStep} = S
    BY <1>1, <1>5, <1>7, <1>9
  <2> QED BY <1>2, <1>3, <1>4, <1>6, <1>9, <2>1
<1> QED BY <1>8, <1>9

-----------------------------------------------------------------------------
(* The steps *)

\* n steps after a step take at least n intervals.
LEMMA Intervals ==
  /\ \A n \in Nat : n * Interval \in Nat /\ (n + 1) * Interval = n * Interval + Interval
  /\ \A n, m \in Nat : n > m => n * Interval >= m * Interval + Interval
  /\ Interval \in Nat /\ Interval >= 1
<1>1. Interval \in Nat /\ Interval >= 1
  BY TimersAssumption
<1>2. ASSUME NEW n \in Nat PROVE n * Interval \in Nat /\ (n + 1) * Interval = n * Interval + Interval
  BY <1>1
<1>3. ASSUME NEW n \in Nat, NEW m \in Nat, n > m PROVE n * Interval >= m * Interval + Interval
  <2>1. PICK k \in Nat : n = m + 1 + k
    <3>1. n - m - 1 \in Nat /\ n = m + 1 + (n - m - 1)
      BY <1>3
    <3> QED BY <3>1
  <2>2. (m + 1 + k) * Interval = m * Interval + Interval + k * Interval
    BY <1>1
  <2>3. k * Interval \in Nat /\ m * Interval \in Nat
    BY <1>1
  <2> QED BY <1>1, <2>1, <2>2, <2>3
<1> QED BY <1>1, <1>2, <1>3

\* A step that leaves the order of the expiries and the maps as they are
LEMMA OrderStays ==
  ASSUME ScriptInv, Fired' = Fired, QueuesInv', ready' = ready,
         UNCHANGED <<script, timers, events, now, begun>>
  PROVE  ScriptInv'
<1>1. MapsInv /\ QueuesInv /\ OnceInv /\ PaceInv /\ StepInv
  BY DEF ScriptInv
<1>2. config' = config /\ FiredSteps' = FiredSteps /\ \A j : MainSteps(j)' = MainSteps(j)
  BY DEF config, Key, FiredSteps, MainSteps
<1>3. MapsInv'
  BY <1>1, <1>2 DEF MapsInv
<1>4. OnceInv'
  BY <1>1, <1>2 DEF OnceInv
<1>5. PaceInv'
  BY <1>1, <1>2 DEF PaceInv
<1>6. StepInv'
  BY <1>1, <1>2 DEF StepInv, LateStart, Key
<1> QED BY <1>3, <1>4, <1>5, <1>6 DEF ScriptInv

LEMMA HandleStepInv ==
  ASSUME ScriptInv, phase # "events", queue # <<>>, queue' = Tail(queue),
         done' = Append(done, Head(queue)), UNCHANGED <<phase, script, timers, events, now, ready, begun>>
  PROVE  ScriptInv'
<1>1. MapsInv /\ QueuesInv
  BY DEF ScriptInv
<1>2. Fired' = Fired
  BY <1>1, HandleKeepsOrder
<1>3. QueuesInv'
  <2>1. ready' \in Seq(DOMAIN timers') /\ Entries' = Entries
    BY <1>1 DEF QueuesInv, Entries
  <2>2. queue' \in Seq(Entries) /\ done' \in Seq(Entries)
    BY <1>1 DEF QueuesInv
  <2> QED BY <2>1, <2>2 DEF QueuesInv
<1> QED BY <1>2, <1>3, OrderStays

LEMMA TickStep ==
  ASSUME ScriptInv, Tick, UNCHANGED <<phase, done>>
  PROVE  ScriptInv'
<1>1. MapsInv /\ QueuesInv /\ OnceInv /\ PaceInv /\ StepInv
  BY DEF ScriptInv
<1>2. /\ UNCHANGED <<script, timers, events, ready, queue, begun>>
      /\ now < MaxTime /\ now' = now + 1
  BY DEF Tick
<1>3. /\ config' = config /\ Fired' = Fired
      /\ FiredSteps' = FiredSteps /\ \A j : MainSteps(j)' = MainSteps(j)
  BY <1>2 DEF config, Key, Fired, Message, FiredSteps, MainSteps
<1>4. now \in Nat /\ MaxTime \in Nat /\ now' \in 0..MaxTime /\ 0..now \subseteq 0..now'
  BY <1>1, <1>2, TimersAssumption DEF MapsInv
<1>5. MapsInv'
  <2>1. begun' \in [DOMAIN begun' -> 0..now']
    BY <1>1, <1>2, <1>4 DEF MapsInv
  <2> QED BY <1>1, <1>2, <1>3, <1>4, <2>1 DEF MapsInv
<1>6. QueuesInv'
  BY <1>1, <1>2 DEF QueuesInv, Entries
<1>7. OnceInv'
  BY <1>1, <1>2, <1>3 DEF OnceInv
<1>8. PaceInv'
  <2>1. MainStep \in DOMAIN begun => begun[MainStep] \in Int /\ FiredSteps * Interval \in Int
    BY <1>1, <1>4, FiredTypes, Intervals DEF MapsInv
  <2>2. MainStep \in DOMAIN begun => now + 1 >= begun[MainStep] + FiredSteps * Interval
    BY <1>1, <1>4, <2>1 DEF PaceInv
  <2> QED BY <1>1, <1>2, <1>3, <2>2 DEF PaceInv
<1>9. StepInv'
  BY <1>1, <1>2, <1>3 DEF StepInv, LateStart, Key
<1> QED BY <1>5, <1>6, <1>7, <1>8, <1>9 DEF ScriptInv

LEMMA StopAllStep ==
  ASSUME ScriptInv, StopAll, UNCHANGED done, phase' # "events"
  PROVE  ScriptInv'
<1>1. MapsInv /\ QueuesInv /\ OnceInv /\ PaceInv /\ StepInv
  BY DEF ScriptInv
<1>2. /\ timers' = [i \in DOMAIN timers |-> [timers[i] EXCEPT !.due = Off]]
      /\ UNCHANGED <<script, events, now, ready, queue, begun>>
  BY DEF StopAll
<1>3. /\ config' = config /\ Fired' = Fired
      /\ FiredSteps' = FiredSteps /\ \A j : MainSteps(j)' = MainSteps(j)
  BY <1>2 DEF config, Key, Fired, Message, FiredSteps, MainSteps
<1>4. /\ DOMAIN timers' = DOMAIN timers
      /\ timers' \in [DOMAIN timers -> [wait : Nat, due : Nat \cup {Off}]]
      /\ \A i \in DOMAIN timers : timers'[i].due = Off /\ timers'[i].wait = timers[i].wait
  BY <1>1, <1>2 DEF MapsInv
<1>5. MapsInv'
  BY <1>1, <1>2, <1>3, <1>4 DEF MapsInv
<1>6. QueuesInv'
  BY <1>1, <1>2, <1>4 DEF QueuesInv, Entries
<1>7. OnceInv'
  BY <1>1, <1>2, <1>3, <1>4 DEF OnceInv
<1>8. PaceInv'
  <2>1. MainStep \in DOMAIN begun => MainStep \in DOMAIN timers
    BY <1>1 DEF MapsInv
  <2> QED BY <1>1, <1>2, <1>3, <1>4, <2>1 DEF PaceInv
<1>9. StepInv'
  BY <1>1, <1>2, <1>3, <1>4 DEF StepInv, LateStart, Key
<1> QED BY <1>5, <1>6, <1>7, <1>8, <1>9 DEF ScriptInv

\* bind_control_events(), before which nothing has happened
LEMMA BindStep ==
  ASSUME ScriptInv, phase = "events", BindControlEvents, UNCHANGED done, phase' # "events"
  PROVE  ScriptInv'
<1>1. MapsInv /\ QueuesInv
  BY DEF ScriptInv
<1> DEFINE registered == {i \in DOMAIN config : OneShot(config[i]) /\ i # MainStep}
<1>2. /\ timers' = [i \in registered \cup {MainStep} |->
                      IF i = MainStep THEN MainStepTimer
                      ELSE [wait |-> WaitPeriod(config[i]), due |-> Off]]
      /\ events' = [i \in registered |-> config[i]]
      /\ UNCHANGED <<script, now, ready, queue, begun>>
  BY DEF BindControlEvents
<1>3. /\ DOMAIN timers = {} /\ DOMAIN begun = {} /\ ready = <<>> /\ queue = <<>> /\ done = <<>>
  BY <1>1 DEF MapsInv, QueuesInv
<1>4. config' = config /\ DOMAIN Fired' = {} /\ FiredSteps' = 0
  <2>1. DOMAIN Fired' = {}
    BY <1>2, <1>3 DEF Fired
  <2>2. {x \in DOMAIN Fired' : Fired'[x] = MainStep} = {}
    BY <2>1
  <2> QED BY <1>2, <2>1, <2>2, FS_EmptySet DEF config, Key, FiredSteps
<1>5. /\ \A i \in DOMAIN config : config[i] \in DOMAIN script /\ script[config[i]].first \in Nat
      /\ Interval \in Nat
  BY <1>1, KeysOfEvents, TimersAssumption DEF MapsInv
<1>6. /\ DOMAIN timers' = registered \cup {MainStep} /\ DOMAIN events' = registered
      /\ timers' \in [DOMAIN timers' -> [wait : Nat, due : Nat \cup {Off}]]
      /\ \A i \in DOMAIN timers' :
           /\ timers'[i].due = Off
           /\ timers'[i].wait = IF i = MainStep THEN Interval ELSE script[config[i]].first * Interval
  <2>1. MainStepTimer \in [wait : Nat, due : Nat \cup {Off}]
        /\ MainStepTimer.due = Off /\ MainStepTimer.wait = Interval
    BY <1>5 DEF MainStepTimer
  <2>2. ASSUME NEW i \in registered
        PROVE  [wait |-> WaitPeriod(config[i]), due |-> Off] \in [wait : Nat, due : Nat \cup {Off}]
    <3>1. WaitPeriod(config[i]) \in Nat
      BY <1>5, Intervals DEF WaitPeriod
    <3> QED BY <3>1
  <2>3. timers' \in [DOMAIN timers' -> [wait : Nat, due : Nat \cup {Off}]]
    BY <1>2, <2>1, <2>2
  <2> QED BY <1>2, <2>1, <2>3 DEF WaitPeriod
<1>7. /\ events' \in [DOMAIN events' -> DOMAIN script] /\ \A i \in DOMAIN events' : events'[i] = config[i]
      /\ MainStep \notin registered /\ registered \subseteq DOMAIN config
  BY <1>2, <1>5
<1> HIDE DEF registered
<1>8. MapsInv'
  BY <1>1, <1>2, <1>3, <1>4, <1>6, <1>7 DEF MapsInv
<1>9. QueuesInv'
  BY <1>2, <1>3 DEF QueuesInv
<1>10. OnceInv' /\ PaceInv' /\ StepInv'
  BY <1>2, <1>3, <1>4, <1>6, <1>7 DEF OnceInv, PaceInv, StepInv
<1> QED BY <1>8, <1>9, <1>10 DEF ScriptInv

\* A timer is started: if it is that of the main step no step was taken, and if it is that of an
\* event the steps taken so far tell how late it is.
LEMMA StartStep ==
  ASSUME ScriptInv, StartNext, UNCHANGED <<phase, done>>, phase # "events"
  PROVE  ScriptInv'
<1>1. MapsInv /\ QueuesInv /\ OnceInv /\ PaceInv /\ StepInv
  BY DEF ScriptInv
<1>2. PICK i \in DOMAIN timers :
        /\ i \notin DOMAIN begun
        /\ timers' = [timers EXCEPT ![i].due = now + timers[i].wait]
        /\ begun' = [j \in DOMAIN begun \cup {i} |-> IF j = i THEN now ELSE begun[j]]
        /\ UNCHANGED <<script, events, now, ready, queue>>
  <2>1. DOMAIN timers \subseteq Nat
    BY <1>1, KeysOfEvents DEF MapsInv, MainStep
  <2>2. Unstarted \in SUBSET Nat /\ Unstarted # {}
    BY <2>1 DEF StartNext, Unstarted
  <2>3. Min(Unstarted) \in Unstarted
    BY <2>2, LeastKey
  <2> QED BY <2>3 DEF StartNext, Unstarted
<1>3. /\ config' = config /\ Fired' = Fired
      /\ FiredSteps' = FiredSteps /\ \A j : MainSteps(j)' = MainSteps(j)
  BY <1>2 DEF config, Key, Fired, Message, FiredSteps, MainSteps
<1>4. now \in Nat /\ timers[i].wait \in Nat /\ now + timers[i].wait \in Nat
  BY <1>1, <1>2, TimersAssumption DEF MapsInv
<1>5. /\ DOMAIN timers' = DOMAIN timers
      /\ timers' \in [DOMAIN timers -> [wait : Nat, due : Nat \cup {Off}]]
      /\ timers'[i].due = now + timers[i].wait
      /\ \A x \in DOMAIN timers : /\ timers'[x].wait = timers[x].wait
                                  /\ x # i => timers'[x] = timers[x]
  <2>1. timers \in [DOMAIN timers -> [wait : Nat, due : Nat \cup {Off}]]
    BY <1>1 DEF MapsInv
  <2> QED BY <1>2, <1>4, <2>1
<1>6. /\ DOMAIN begun' = DOMAIN begun \cup {i} /\ begun'[i] = now
      /\ \A x \in DOMAIN begun : begun'[x] = begun[x]
      /\ begun' \in [DOMAIN begun' -> 0..now]
  BY <1>1, <1>2, <1>4 DEF MapsInv
<1>7. MapsInv'
  BY <1>1, <1>2, <1>3, <1>5, <1>6 DEF MapsInv
<1>8. QueuesInv'
  BY <1>1, <1>2, <1>5 DEF QueuesInv, Entries
<1>9. timers[i].due = Off /\ now + timers[i].wait # Off
  BY <1>1, <1>2, <1>4 DEF OnceInv, Off
<1>10. OnceInv'
  <2>1. \A x \in DOMAIN timers' : timers'[x].due # Off => x \in DOMAIN begun'
    BY <1>1, <1>5, <1>6 DEF OnceInv
  <2>2. ASSUME NEW x \in DOMAIN timers' \ {MainStep}
        PROVE  /\ timers'[x].due # Off => timers'[x].due = begun'[x] + timers'[x].wait
               /\ x \notin DOMAIN events' \/ (\E j \in DOMAIN Fired' : Fired'[j] = config'[x])
                    => timers'[x].due = Off /\ x \in DOMAIN begun'
               /\ x \notin DOMAIN events' => \A j \in DOMAIN ready' : ready'[j] # x
    <3>1. CASE x = i
      BY <1>1, <1>2, <1>3, <1>5, <1>6, <2>2, <3>1 DEF OnceInv
    <3>2. CASE x # i
      BY <1>1, <1>2, <1>3, <1>5, <1>6, <2>2, <3>2 DEF OnceInv
    <3> QED BY <3>1, <3>2
  <2>3. \A j, l \in DOMAIN Fired' : Fired'[j] = Fired'[l] /\ Fired'[j] # MainStep => j = l
    BY <1>1, <1>3 DEF OnceInv
  <2> QED BY <2>1, <2>2, <2>3 DEF OnceInv
<1>11. FiredSteps \in Nat /\ FiredSteps * Interval \in Nat
       /\ (FiredSteps + 1) * Interval = FiredSteps * Interval + Interval
  BY <1>1, FiredTypes, Intervals
<1>12. PaceInv'
  <2>1. CASE i = MainStep
    <3>1. FiredSteps = 0
      BY <1>1, <1>2, <2>1 DEF PaceInv
    <3>2. timers[i].wait = Interval
      BY <1>1, <2>1 DEF MapsInv
    <3>3. 0 * Interval = 0 /\ (0 + 1) * Interval = Interval /\ Interval \in Nat
      BY Intervals
    <3>4. now >= now + 0 /\ now + Interval >= now + Interval
      BY <1>4, <3>3
    <3> QED BY <1>2, <1>3, <1>5, <1>6, <2>1, <3>1, <3>2, <3>3, <3>4 DEF PaceInv
  <2>2. CASE i # MainStep
    <3>1. MainStep \in DOMAIN begun' <=> MainStep \in DOMAIN begun
      BY <1>6, <2>2
    <3>2. MainStep \in DOMAIN timers => timers'[MainStep] = timers[MainStep]
      BY <1>5, <2>2
    <3>3. MainStep \in DOMAIN begun => MainStep \in DOMAIN timers
      BY <1>1 DEF MapsInv
    <3> QED BY <1>1, <1>2, <1>3, <1>5, <1>6, <3>1, <3>2, <3>3 DEF PaceInv
  <2> QED BY <2>1, <2>2
<1>13. ASSUME NEW x, LateStart(x) PROVE LateStart(x)'
  BY <1>6, <1>13 DEF LateStart
<1>14. StepInv'
  <2>1. ASSUME NEW x \in DOMAIN timers \ {MainStep}, timers'[x].due # Off,
               FiredSteps > script[config[x]].first
        PROVE  LateStart(x)'
    <3>1. CASE x # i
      BY <1>1, <1>5, <1>13, <2>1, <3>1 DEF StepInv
    <3>2. CASE x = i
      <4>1. script[config[x]].first \in Nat
        BY <1>1, <2>1, KeysOfEvents DEF MapsInv
      <4>2. FiredSteps # 0 /\ FiredSteps > 0
        BY <1>11, <2>1, <4>1
      <4>3. /\ MainStep \in DOMAIN begun /\ begun[MainStep] \in Nat
            /\ now >= begun[MainStep] + FiredSteps * Interval
        BY <1>1, <4>2, <1>4 DEF PaceInv, MapsInv
      <4>4. FiredSteps * Interval >= 0 * Interval + Interval /\ 0 * Interval = 0 /\ Interval \in Nat
        BY <1>11, <4>2, Intervals
      <4>5. now >= begun[MainStep] + Interval
        BY <1>4, <1>11, <4>3, <4>4
      <4> QED BY <1>6, <3>2, <4>3, <4>5 DEF LateStart
    <3> QED BY <3>1, <3>2
  <2>2. ASSUME NEW j \in DOMAIN Fired, Fired[j] # MainStep,
               Cardinality(MainSteps(j)) > script[Fired[j]].first
        PROVE  LateStart(Key(Fired[j]))'
    <3>1. LateStart(Key(Fired[j]))
      BY <1>1, <2>2 DEF StepInv
    <3>2. Key(Fired[j])' = Key(Fired[j])
      BY <1>2, <1>3 DEF Key
    <3> QED BY <1>6, <3>1, <3>2 DEF LateStart
  <2> QED BY <1>2, <1>3, <1>5, <2>1, <2>2 DEF StepInv
<1> QED BY <1>7, <1>8, <1>10, <1>12, <1>14 DEF ScriptInv

\* A timer expires.  If it is that of an event, its wait tells whether it began late; if it is that
\* of the main step, the timers that still wait are due no earlier.
LEMMA ExpireStep ==
  ASSUME ScriptInv, NEW i \in DOMAIN timers, Expire(i), UNCHANGED <<phase, done>>, phase # "events"
  PROVE  ScriptInv'
<1>1. MapsInv /\ QueuesInv /\ OnceInv /\ PaceInv /\ StepInv
  BY DEF ScriptInv
<1>2. /\ timers[i].due # Off /\ timers[i].due <= now
      /\ \A x \in DOMAIN timers : timers[x].due # Off => timers[i].due <= timers[x].due
      /\ timers' = [timers EXCEPT ![i].due = Off] /\ ready' = Append(ready, i)
      /\ UNCHANGED <<script, events, now, queue, begun>>
  BY DEF Expire, Waiting
<1>3. config' = config
  BY <1>2 DEF config, Key
<1>4. /\ DOMAIN timers' = DOMAIN timers
      /\ timers' \in [DOMAIN timers -> [wait : Nat, due : Nat \cup {Off}]]
      /\ timers'[i].due = Off
      /\ \A x \in DOMAIN timers : timers'[x].wait = timers[x].wait /\ (x # i => timers'[x] = timers[x])
  BY <1>1, <1>2 DEF MapsInv
<1>5. MapsInv'
  BY <1>1, <1>2, <1>3, <1>4 DEF MapsInv
<1>6. QueuesInv'
  <2>1. ready' \in Seq(DOMAIN timers)
    BY <1>1, <1>2 DEF QueuesInv
  <2> QED BY <1>1, <1>2, <1>4, <2>1 DEF QueuesInv, Entries
<1>7. /\ \A x \in DOMAIN timers \ {MainStep} : /\ config[x] \in DOMAIN script /\ Key(config[x]) = x
                                               /\ config[x] # MainStep
                                               /\ script[config[x]].first \in Nat
      /\ \A x \in DOMAIN timers \ {MainStep} : Message(x) = config[x]
      /\ Message(MainStep) = MainStep
  <2>1. /\ DOMAIN script \subseteq Nat \ {MainStep}
        /\ \A x \in DOMAIN config : config[x] \in DOMAIN script /\ Key(config[x]) = x
        /\ \A k \in DOMAIN script : script[k].first \in Nat
    BY <1>1, KeysOfEvents DEF MapsInv
  <2>2. DOMAIN timers \ {MainStep} \subseteq DOMAIN config
    BY <1>1 DEF MapsInv
  <2> QED BY <2>1, <2>2 DEF Message
<1>8. PICK n : n = Len(done) + Len(queue) + Len(ready)
  OBVIOUS
<1>9. /\ n \in Nat /\ DOMAIN Fired = 1..n /\ DOMAIN Fired' = 1..(n + 1)
      /\ \A j \in 1..n : Fired'[j] = Fired[j]
      /\ Fired'[n + 1] = Message(i)
  BY <1>1, <1>2, <1>8, ExpiryExtends
<1>10. /\ FiredSteps' = IF i = MainStep THEN FiredSteps + 1 ELSE FiredSteps
       /\ \A j \in 1..n : MainSteps(j)' = MainSteps(j)
       /\ Cardinality(MainSteps(n + 1)') = FiredSteps
  BY <1>1, <1>2, <1>8, ExpiryCounts
<1>11. \A x : x \in 1..(n + 1) <=> x \in 1..n \/ x = n + 1
  BY <1>9
<1>12. OnceInv'
  <2>1. \A x \in DOMAIN timers' : timers'[x].due # Off => x \in DOMAIN begun'
    BY <1>1, <1>2, <1>4 DEF OnceInv
  <2>2. ASSUME NEW x \in DOMAIN timers \ {MainStep}
        PROVE  /\ timers'[x].due # Off => timers'[x].due = begun[x] + timers'[x].wait
               /\ x \notin DOMAIN events \/ (\E j \in DOMAIN Fired' : Fired'[j] = config[x])
                    => timers'[x].due = Off /\ x \in DOMAIN begun
               /\ x \notin DOMAIN events => \A j \in DOMAIN ready' : ready'[j] # x
    <3>1. CASE x = i
      <4>1. x \in DOMAIN events /\ x \in DOMAIN begun
        BY <1>1, <1>2, <2>2, <3>1 DEF OnceInv
      <4> QED BY <1>4, <3>1, <4>1
    <3>2. CASE x # i
      <4>1. (\E j \in DOMAIN Fired' : Fired'[j] = config[x]) => \E j \in DOMAIN Fired : Fired[j] = config[x]
        <5>1. Fired'[n + 1] # config[x]
          BY <1>7, <1>9, <2>2, <3>2
        <5> QED BY <1>9, <1>11, <5>1
      <4>2. x \notin DOMAIN events => \A j \in DOMAIN ready' : ready'[j] # x
        <5> SUFFICES ASSUME x \notin DOMAIN events, NEW j \in DOMAIN ready' PROVE ready'[j] # x
          OBVIOUS
        <5>1. \A l \in DOMAIN ready : ready[l] # x
          BY <1>1, <2>2 DEF OnceInv
        <5>2. (j \in DOMAIN ready /\ ready'[j] = ready[j]) \/ ready'[j] = i
          BY <1>1, <1>2 DEF QueuesInv
        <5> QED BY <3>2, <5>1, <5>2
      <4> QED BY <1>1, <1>4, <2>2, <3>2, <4>1, <4>2 DEF OnceInv
    <3> QED BY <3>1, <3>2
  <2>3. ASSUME NEW j \in DOMAIN Fired', NEW l \in DOMAIN Fired', Fired'[j] = Fired'[l], Fired'[j] # MainStep
        PROVE  j = l
    <3>1. ASSUME NEW x \in 1..n, Fired'[n + 1] = Fired[x] PROVE Fired'[n + 1] = MainStep
      <4>1. CASE i = MainStep
        BY <1>7, <1>9, <4>1
      <4>2. CASE i # MainStep
        <5>1. Fired[x] = config[i]
          BY <1>7, <1>9, <3>1, <4>2
        <5> QED BY <1>1, <1>2, <1>9, <4>2, <5>1 DEF OnceInv
      <4> QED BY <4>1, <4>2
    <3>2. \A x, y \in DOMAIN Fired : Fired[x] = Fired[y] /\ Fired[x] # MainStep => x = y
      BY <1>1 DEF OnceInv
    <3> QED BY <1>9, <1>11, <2>3, <3>1, <3>2
  <2> QED BY <1>2, <1>3, <1>4, <2>1, <2>2, <2>3 DEF OnceInv
<1>13. /\ FiredSteps \in Nat /\ FiredSteps * Interval \in Nat /\ now \in Nat
       /\ (FiredSteps + 1) * Interval = FiredSteps * Interval + Interval /\ Interval \in Nat
       /\ \A x \in DOMAIN begun : begun[x] \in Nat
       /\ \A x \in DOMAIN timers : timers[x].due \in Int
  BY <1>1, FiredTypes, Intervals, TimersAssumption DEF MapsInv, Off
<1>14. PaceInv'
  <2>1. CASE i = MainStep
    <3>1. MainStep \in DOMAIN begun
      BY <1>1, <1>2, <2>1 DEF PaceInv
    <3>2. timers[MainStep].due >= begun[MainStep] + (FiredSteps + 1) * Interval
      BY <1>1, <1>2, <2>1, <3>1 DEF PaceInv
    <3>3. now >= begun[MainStep] + (FiredSteps + 1) * Interval
      BY <1>2, <1>13, <2>1, <3>1, <3>2
    <3> QED BY <1>2, <1>4, <1>10, <2>1, <3>1, <3>3 DEF PaceInv
  <2>2. CASE i # MainStep
    <3>1. MainStep \in DOMAIN timers => timers'[MainStep] = timers[MainStep]
      BY <1>4, <2>2
    <3>2. MainStep \in DOMAIN begun => MainStep \in DOMAIN timers
      BY <1>1 DEF MapsInv
    <3> QED BY <1>1, <1>2, <1>4, <1>10, <2>2, <3>1, <3>2 DEF PaceInv
  <2> QED BY <2>1, <2>2
<1>15. StepInv'
  <2>1. ASSUME NEW x \in DOMAIN timers \ {MainStep}, timers'[x].due # Off,
               FiredSteps' > script[config[x]].first
        PROVE  LateStart(x)
    <3>1. x # i /\ timers[x].due # Off
      BY <1>4, <2>1
    <3>2. CASE i # MainStep
      BY <1>1, <1>10, <2>1, <3>1, <3>2 DEF StepInv
    <3>3. CASE i = MainStep
      <4> DEFINE f == script[config[x]].first
      <4>1. MainStep \in DOMAIN begun /\ x \in DOMAIN begun
        BY <1>1, <1>2, <2>1, <3>1, <3>3 DEF PaceInv, OnceInv
      <4>2. timers[MainStep].due >= begun[MainStep] + (FiredSteps + 1) * Interval
        BY <1>1, <1>2, <3>3, <4>1 DEF PaceInv
      <4>3. timers[x].due = begun[x] + f * Interval
        <5>1. timers[x].wait = f * Interval
          BY <1>1, <2>1 DEF MapsInv
        <5> QED BY <1>1, <2>1, <3>1, <5>1 DEF OnceInv
      <4>4. timers[MainStep].due <= timers[x].due
        BY <1>2, <2>1, <3>1, <3>3
      <4>5. /\ f \in Nat /\ FiredSteps + 1 \in Nat /\ FiredSteps + 1 > f
            /\ f * Interval \in Nat
        <5>1. f \in Nat
          BY <1>7, <2>1
        <5>2. FiredSteps' = FiredSteps + 1 /\ FiredSteps' > f
          BY <1>10, <2>1, <3>3
        <5> HIDE DEF f
        <5>3. f * Interval \in Nat
          BY <5>1, Intervals
        <5>4. FiredSteps + 1 \in Nat
          BY <1>13
        <5> QED BY <5>1, <5>2, <5>3, <5>4
      <4>6. (FiredSteps + 1) * Interval >= f * Interval + Interval /\ (FiredSteps + 1) * Interval \in Nat
        BY <4>5, Intervals
      <4>7. begun[x] \in Int /\ begun[MainStep] \in Int /\ timers[x].due \in Int /\ timers[MainStep].due \in Int
        BY <1>2, <1>13, <2>1, <3>3, <4>1
      <4> HIDE DEF f
      <4>8. begun[x] >= begun[MainStep] + Interval
        BY <1>13, <4>2, <4>3, <4>4, <4>5, <4>6, <4>7
      <4> QED BY <4>1, <4>8 DEF LateStart
    <3> QED BY <3>2, <3>3
  <2>2. ASSUME NEW j \in 1..(n + 1), Fired'[j] # MainStep,
               Cardinality(MainSteps(j)') > script[Fired'[j]].first
        PROVE  LateStart(Key(Fired'[j]))
    <3>1. CASE j \in 1..n
      BY <1>1, <1>9, <1>10, <2>2, <3>1 DEF StepInv
    <3>2. CASE j = n + 1
      <4>1. i # MainStep /\ Fired'[j] = config[i] /\ FiredSteps > script[config[i]].first
        BY <1>7, <1>9, <1>10, <2>2, <3>2
      <4>2. LateStart(i)
        BY <1>1, <1>2, <4>1 DEF StepInv
      <4> QED BY <1>7, <4>1, <4>2
    <3> QED BY <1>11, <3>1, <3>2
  <2>3. \A x : LateStart(x) => LateStart(x)'
    BY <1>2 DEF LateStart
  <2>4. \A j : Key(Fired[j])' = Key(Fired'[j])
    BY <1>2 DEF Key
  <2> QED BY <1>2, <1>3, <1>4, <1>9, <2>1, <2>2, <2>3, <2>4 DEF StepInv
<1> QED BY <1>5, <1>6, <1>12, <1>14, <1>15 DEF ScriptInv

\* The io thread runs a handler.  That of an event is run once, so the event is registered; that of
\* the main step starts the timer again, for an interval from now.
LEMMA RunTimeoutStep ==
  ASSUME ScriptInv, RunTimeout, UNCHANGED <<phase, done>>, phase # "events"
  PROVE  ScriptInv'
<1>1. MapsInv /\ QueuesInv /\ OnceInv /\ PaceInv /\ StepInv
  BY DEF ScriptInv
<1> DEFINE i == Head(ready)
           h == Len(done) + Len(queue) + 1
<1>2. /\ ready # <<>> /\ ready' = Tail(ready) /\ UNCHANGED <<script, now, begun>>
      /\ IF i = MainStep THEN MainTimeout ELSE TriggerEvent(i)
  BY DEF RunTimeout
<1>3. config' = config
  BY <1>2 DEF config, Key
<1>4. /\ i \in DOMAIN timers /\ 1 \in DOMAIN ready /\ ready[1] = i
      /\ ready' \in Seq(DOMAIN timers)
      /\ \A j \in DOMAIN ready' : j + 1 \in DOMAIN ready /\ ready'[j] = ready[j + 1] /\ j \in Nat \ {0}
  BY <1>1, <1>2 DEF QueuesInv
<1>5. h \in DOMAIN Fired /\ Fired[h] = Message(i)
      /\ \A j \in DOMAIN ready : /\ Len(done) + Len(queue) + j \in DOMAIN Fired
                                 /\ Fired[Len(done) + Len(queue) + j] = Message(ready[j])
  BY <1>1, <1>4, PartsOfOrder
<1>6. i # MainStep => i \in DOMAIN events /\ events[i] = config[i] /\ config[i] # MainStep
                      /\ config[i] \in DOMAIN script
  <2>1. i # MainStep => i \in DOMAIN events
    BY <1>1, <1>4 DEF OnceInv
  <2>2. i # MainStep => i \in DOMAIN config
    BY <1>1, <1>4 DEF MapsInv
  <2> QED BY <1>1, <2>1, <2>2, KeysOfEvents DEF MapsInv
<1>7. queue' = Append(queue, Message(i))
  BY <1>2, <1>6 DEF MainTimeout, TriggerEvent, Message
<1>8. Fired' = Fired
  BY <1>1, <1>2, <1>7, RunKeepsOrder
<1>9. FiredSteps' = FiredSteps /\ \A j : MainSteps(j)' = MainSteps(j)
  BY <1>8 DEF FiredSteps, MainSteps
<1>10. queue' \in Seq(Entries)
  <2>1. Message(i) \in Entries
    BY <1>6 DEF Message, Entries
  <2> QED BY <1>1, <1>7, <2>1 DEF QueuesInv
<1> HIDE DEF i, h
<1>11. CASE i = MainStep
  <2>1. timers' = [timers EXCEPT ![MainStep].due = now + Interval] /\ events' = events
    BY <1>2, <1>11 DEF MainTimeout
  <2>2. now \in Nat /\ Interval \in Nat /\ now + Interval \in Nat
    BY <1>1, TimersAssumption DEF MapsInv
  <2>3. /\ DOMAIN timers' = DOMAIN timers /\ MainStep \in DOMAIN timers
        /\ timers' \in [DOMAIN timers -> [wait : Nat, due : Nat \cup {Off}]]
        /\ timers'[MainStep].due = now + Interval
        /\ \A x \in DOMAIN timers : /\ timers'[x].wait = timers[x].wait
                                    /\ x # MainStep => timers'[x] = timers[x]
    <3>1. timers \in [DOMAIN timers -> [wait : Nat, due : Nat \cup {Off}]]
      BY <1>1 DEF MapsInv
    <3> QED BY <1>4, <1>11, <2>1, <2>2, <3>1
  <2>4. MapsInv'
    BY <1>1, <1>2, <1>3, <2>1, <2>3 DEF MapsInv
  <2>5. QueuesInv'
    BY <1>1, <1>2, <1>4, <1>10, <2>1, <2>3 DEF QueuesInv, Entries
  <2>6. FiredSteps \in Nat /\ FiredSteps # 0
    <3>1. h \in {x \in DOMAIN Fired : Fired[x] = MainStep}
      BY <1>5, <1>11 DEF Message
    <3>2. IsFiniteSet({x \in DOMAIN Fired : Fired[x] = MainStep}) /\ FiredSteps \in Nat
      BY <1>1, FiredTypes
    <3> QED BY <3>1, <3>2, FS_EmptySet DEF FiredSteps
  <2>7. MainStep \in DOMAIN begun /\ now >= begun[MainStep] + FiredSteps * Interval
    BY <1>1, <2>6 DEF PaceInv
  <2>8. now + Interval >= begun[MainStep] + (FiredSteps + 1) * Interval
    <3>1. begun[MainStep] \in Int /\ FiredSteps * Interval \in Int
          /\ (FiredSteps + 1) * Interval = FiredSteps * Interval + Interval
      BY <1>1, <2>2, <2>6, <2>7, Intervals DEF MapsInv
    <3> QED BY <2>2, <2>7, <3>1
  <2>9. PaceInv'
    BY <1>2, <1>9, <2>3, <2>7, <2>8 DEF PaceInv
  <2>10. OnceInv'
    <3>1. \A x \in DOMAIN timers' : timers'[x].due # Off => x \in DOMAIN begun'
      BY <1>1, <1>2, <2>3, <2>7 DEF OnceInv
    <3>2. ASSUME NEW x \in DOMAIN timers \ {MainStep}, x \notin DOMAIN events
          PROVE  \A j \in DOMAIN ready' : ready'[j] # x
      BY <1>1, <1>4, <3>2 DEF OnceInv
    <3> QED BY <1>1, <1>2, <1>3, <1>8, <2>1, <2>3, <3>1, <3>2 DEF OnceInv
  <2>11. StepInv'
    BY <1>1, <1>2, <1>3, <1>8, <1>9, <2>3 DEF StepInv, LateStart, Key
  <2> QED BY <2>4, <2>5, <2>9, <2>10, <2>11 DEF ScriptInv
<1>12. CASE i # MainStep
  <2>1. events' = [j \in DOMAIN events \ {i} |-> events[j]] /\ timers' = timers
    BY <1>2, <1>12 DEF TriggerEvent
  <2>2. /\ DOMAIN events' = DOMAIN events \ {i} /\ \A x \in DOMAIN events' : events'[x] = events[x]
        /\ events' \in [DOMAIN events' -> DOMAIN script]
    BY <1>1, <2>1 DEF MapsInv
  <2>3. MapsInv'
    BY <1>1, <1>2, <1>3, <2>1, <2>2 DEF MapsInv
  <2>4. QueuesInv'
    BY <1>1, <1>2, <1>4, <1>10, <2>1 DEF QueuesInv, Entries
  <2>5. Fired[h] = config[i] /\ Fired[h] # MainStep
    BY <1>5, <1>6, <1>12 DEF Message
  <2>6. timers[i].due = Off /\ i \in DOMAIN begun
    BY <1>1, <1>4, <1>5, <1>12, <2>5 DEF OnceInv
  <2>7. \A j \in DOMAIN ready' : ready'[j] # i
    <3> SUFFICES ASSUME NEW j \in DOMAIN ready', ready'[j] = i PROVE FALSE
      OBVIOUS
    <3>1. j + 1 \in DOMAIN ready /\ ready[j + 1] = i /\ j \in Nat \ {0}
      BY <1>4
    <3>2. /\ Len(done) + Len(queue) + (j + 1) \in DOMAIN Fired
          /\ Fired[Len(done) + Len(queue) + (j + 1)] = Fired[h]
      BY <1>5, <3>1
    <3>3. Len(done) + Len(queue) + (j + 1) = h
      BY <1>1, <1>5, <2>5, <3>2 DEF OnceInv
    <3>4. Len(done) \in Nat /\ Len(queue) \in Nat
      BY <1>1 DEF QueuesInv
    <3> QED BY <3>1, <3>3, <3>4 DEF h
  <2>8. OnceInv'
    <3>1. ASSUME NEW x \in DOMAIN timers \ {MainStep}
          PROVE  /\ x \notin DOMAIN events' \/ (\E j \in DOMAIN Fired : Fired[j] = config[x])
                      => timers[x].due = Off /\ x \in DOMAIN begun
                 /\ x \notin DOMAIN events' => \A j \in DOMAIN ready' : ready'[j] # x
      <4>1. CASE x = i
        BY <2>6, <2>7, <4>1
      <4>2. CASE x # i
        BY <1>1, <1>4, <2>2, <4>2 DEF OnceInv
      <4> QED BY <4>1, <4>2
    <3> QED BY <1>1, <1>2, <1>3, <1>8, <2>1, <3>1 DEF OnceInv
  <2>9. PaceInv'
    BY <1>1, <1>2, <1>9, <2>1 DEF PaceInv
  <2>10. StepInv'
    BY <1>1, <1>2, <1>3, <1>8, <1>9, <2>1 DEF StepInv, LateStart, Key
  <2> QED BY <2>3, <2>4, <2>8, <2>9, <2>10 DEF ScriptInv
<1> QED BY <1>11, <1>12

\* A step that leaves the event handler alone
LEMMA OtherStep ==
  ASSUME ScriptInv, UNCHANGED <<timerVars, done>>, phase' = phase \/ phase' # "events"
  PROVE  ScriptInv'
<1>1. Fired' = Fired
  BY DEF Fired, Message, config, Key, timerVars
<1>2. QueuesInv'
  BY DEF ScriptInv, QueuesInv, Entries, timerVars
<1> QED BY <1>1, <1>2, OrderStays DEF timerVars

-----------------------------------------------------------------------------
(* Scripts are followed *)

EventsInv == ScriptInv /\ abandoned \in BOOLEAN

LEMMA InitEvents == Init => EventsInv
<1> SUFFICES ASSUME Init PROVE EventsInv
  OBVIOUS
<1>1. /\ script \in Seq(EventKey) /\ timers = <<>> /\ events = <<>> /\ begun = <<>>
      /\ now \in 0..MaxTime /\ ready = <<>> /\ queue = <<>> /\ done = <<>>
      /\ abandoned = FALSE
  BY TimersAssumption DEF Init, TimersInit
<1>2. DOMAIN timers = {} /\ DOMAIN events = {} /\ DOMAIN begun = {}
  BY <1>1
<1>3. DOMAIN Fired = {} /\ FiredSteps = 0
  <2>1. DOMAIN Fired = {}
    BY <1>1 DEF Fired
  <2>2. {x \in DOMAIN Fired : Fired[x] = MainStep} = {}
    BY <2>1
  <2> QED BY <2>1, <2>2, FS_EmptySet DEF FiredSteps
<1>4. MapsInv
  BY <1>1, <1>2 DEF MapsInv
<1>5. QueuesInv
  BY <1>1, <1>2 DEF QueuesInv
<1>6. OnceInv /\ PaceInv /\ StepInv
  BY <1>1, <1>2, <1>3 DEF OnceInv, PaceInv, StepInv
<1> QED BY <1>1, <1>4, <1>5, <1>6 DEF EventsInv, ScriptInv

LEMMA EventsStep == EventsInv /\ [Next]_vars => EventsInv'
<1> SUFFICES ASSUME EventsInv, [Next]_vars PROVE EventsInv'
  OBVIOUS
<1> USE DEF In, keeps
<1>0. ScriptInv /\ abandoned \in BOOLEAN
  BY DEF EventsInv
<1>1. abandoned' \in BOOLEAN
  <2>1. abandoned' = abandoned \/ abandoned' = TRUE
    BY DEF Next, vars, Sim, Bind, BindNext, Bound, Start, Started, HandleStep, HandleActivation, Handle,
       Stop, StopTimers, Drained, Abandon, ReadShutdown, CloseNext, DeleteNext, Unload, Destroy, Io,
       IoHandler, Environment
  <2> QED BY <1>0, <2>1
<1> SUFFICES ScriptInv'
  BY <1>1 DEF EventsInv
<1>2. CASE Bind
  BY <1>0, <1>2, BindStep DEF Bind
<1>3. CASE Start
  BY <1>0, <1>3, StartStep DEF Start
<1>4. CASE HandleStep \/ HandleActivation
  BY <1>0, <1>4, HandleStepInv DEF HandleStep, HandleActivation, Handle
<1>5. CASE StopTimers
  BY <1>0, <1>5, StopAllStep DEF StopTimers
<1>6. CASE \/ BindNext \/ Bound \/ Started \/ Stop \/ Drained \/ Abandon \/ ReadShutdown
           \/ CloseNext \/ DeleteNext \/ Unload \/ Destroy \/ IoHandler
  <2>1. UNCHANGED <<timerVars, done>> /\ (phase' = phase \/ phase' # "events")
    BY <1>6 DEF BindNext, Bound, Started, Stop, Drained, Abandon, ReadShutdown, CloseNext, DeleteNext,
       Unload, Destroy, IoHandler
  <2> QED BY <1>0, <2>1, OtherStep
<1>7. CASE Io
  <2>1. phase # "events" /\ UNCHANGED <<phase, done>> /\ ((\E i \in DOMAIN timers : Expire(i)) \/ RunTimeout)
    BY <1>7 DEF Io, Running, IoTimers
  <2> QED BY <1>0, <2>1, ExpireStep, RunTimeoutStep
<1>8. CASE Environment
  <2>1. UNCHANGED <<phase, done>> /\ (Tick \/ UNCHANGED timerVars)
    BY <1>8 DEF Environment
  <2> QED BY <1>0, <2>1, TickStep, OtherStep
<1>9. CASE UNCHANGED vars
  <2>1. UNCHANGED <<timerVars, done, phase>>
    BY <1>9 DEF vars
  <2> QED BY <1>0, <2>1, OtherStep
<1> QED BY <1>2, <1>3, <1>4, <1>5, <1>6, <1>7, <1>8, <1>9 DEF Next, Sim

\* bind_control_events(), start_all(), the handlers of the io thread and the sim thread keep the
\* invariant in whatever order they take their steps.
THEOREM EventsInvariant == Spec => []EventsInv
BY InitEvents, EventsStep, PTL DEF Spec

\* The event handler, the layers and the sim thread keep their types: an expired timer and a
\* queued message always belong to a timer, and to an event of the configuration.
THEOREM HostTypes == Spec => []TypeOK
<1>1. ASSUME HostInv, EventsInv PROVE TypeOK
  <2>1. /\ now \in 0..MaxTime /\ abandoned \in BOOLEAN
        /\ DOMAIN events \subseteq DOMAIN timers /\ DOMAIN begun \subseteq DOMAIN timers
        /\ ready \in Seq(DOMAIN timers)
    BY <1>1 DEF EventsInv, ScriptInv, MapsInv, QueuesInv
  <2>2. queue \in Seq(Entries) /\ done \in Seq(Entries)
    BY <1>1 DEF EventsInv, ScriptInv, QueuesInv
  <2>3. queue \o done \in Seq(Entries)
    BY <2>2
  <2>4. HostTypeOK /\ phase \in Phases
    BY <1>1 DEF HostInv
  <2> QED BY <2>1, <2>3, <2>4 DEF TypeOK, Entries
<1> QED BY <1>1, HostInvariant, EventsInvariant, PTL

\* An event that was handled twice, or after more steps than it is scripted for, was started an
\* interval or more after the main step.
LEMMA LateOrFollowed ==
  ASSUME EventsInv, StartedTogether, NEW k \in DOMAIN script
  PROVE  /\ Cardinality(Positions(k)) <= 1
         /\ \A j \in Positions(k) : StepsBefore(j) <= script[k].first
<1>1. MapsInv /\ QueuesInv /\ OnceInv /\ PaceInv /\ StepInv
  BY DEF EventsInv, ScriptInv
<1>2. k # MainStep /\ script[k].first \in Nat
  BY <1>1, KeysOfEvents DEF MapsInv
<1>3. \A j \in DOMAIN done : j \in DOMAIN Fired /\ Fired[j] = done[j]
  BY <1>1, PartsOfOrder
<1>4. \A j, l \in Positions(k) : j = l
  BY <1>1, <1>2, <1>3 DEF Positions, OnceInv
<1>5. Cardinality(Positions(k)) <= 1
  <2>1. CASE Positions(k) = {}
    BY <2>1, FS_EmptySet
  <2>2. CASE Positions(k) # {}
    <3>1. PICK j : Positions(k) = {j}
      BY <1>4, <2>2
    <3>2. Cardinality({j}) = 1
      BY FS_Singleton
    <3> QED BY <3>1, <3>2
  <2> QED BY <2>1, <2>2
<1>6. ASSUME NEW j \in Positions(k) PROVE StepsBefore(j) <= script[k].first
  <2>1. j \in 1..Len(done) /\ Len(done) \in Nat /\ DOMAIN done = 1..Len(done) /\ done[j] = k
    BY <1>1 DEF Positions, QueuesInv
  <2>2. \A x \in 1..(j - 1) : x \in DOMAIN done
    BY <2>1
  <2>3. StepsBefore(j) = Cardinality(MainSteps(j))
    BY <1>3, <2>2 DEF StepsBefore, MainSteps
  <2>4. StepsBefore(j) \in Nat
    <3>1. IsFiniteSet(1..(j - 1))
      <4>1. j - 1 \in Int /\ 1 \in Int
        BY <2>1
      <4> QED BY <4>1, FS_Interval
    <3>2. IsFiniteSet({x \in 1..(j - 1) : done[x] = MainStep})
      BY <3>1, FS_Subset
    <3> QED BY <3>2, FS_CardinalityType DEF StepsBefore
  <2>5. SUFFICES ASSUME StepsBefore(j) > script[k].first PROVE FALSE
    BY <1>2, <2>4
  <2>6. LateStart(Key(k))
    BY <1>1, <1>2, <1>3, <2>1, <2>3, <2>5 DEF StepInv
  <2>7. /\ Key(k) \in DOMAIN begun /\ begun[Key(k)] >= begun[MainStep] + Interval
        /\ begun[Key(k)] \in Int /\ begun[MainStep] \in Int /\ Interval \in Int
    BY <1>1, <2>6, TimersAssumption DEF LateStart, MapsInv
  <2>8. begun[Key(k)] - begun[MainStep] < Interval
    BY <2>7 DEF StartedTogether
  <2> QED BY <2>7, <2>8
<1> QED BY <1>5, <1>6

\* The sim thread activates the nodes of an event at most once, and before it takes the step after
\* the one the event was scripted for, if start_all() took less than a step: however late the io
\* thread runs a handler and the sim thread reads a message, both take them in the order in which
\* the timers expired, and the main step is started again only when its handler runs.
THEOREM ScriptsAreFollowed == Spec => []ScriptIsFollowed
<1>1. EventsInv => ScriptIsFollowed
  BY LateOrFollowed DEF ScriptIsFollowed
<1> QED BY <1>1, EventsInvariant, PTL
=============================================================================
