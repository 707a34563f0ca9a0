---------------------------- MODULE SimulationHost ----------------------------
(***************************************************************************)
(* What a simulation does between its launch and its end, from the events   *)
(* of its configuration to the layers that take its steps: EventTimers and  *)
(* LayerHost over one io thread, driven by the sim thread.  How the threads *)
(* agree on each phase is in SimulationLifecycle.                           *)
(***************************************************************************)
EXTENDS EventTimers, LayerHost

VARIABLES phase,      (* where the sim thread is *)
          done,       (* history: the messages it has handled *)
          abandoned   (* history: it left without reading THREAD_SHUTDOWN *)

vars == <<timerVars, hostVars, phase, done, abandoned>>

Phases == {"events", "layers", "start", "serve", "stop", "drain", "shutdown", "close", "destroy",
           "gone"}

Init == TimersInit /\ HostInit /\ phase = "events" /\ done = <<>> /\ abandoned = FALSE

-----------------------------------------------------------------------------
In(from, to) == crash = "none" /\ phase = from /\ phase' = to
keeps == UNCHANGED <<done, abandoned>>

Bind == In("events", "layers") /\ BindControlEvents /\ keeps /\ UNCHANGED hostVars

\* wait_for_initialization(), wait_for_start(), start_all()
BindNext == In("layers", "layers") /\ BindLayer /\ keeps /\ UNCHANGED timerVars
Bound == In("layers", "start") /\ bound = Len(layers) /\ keeps /\ UNCHANGED <<timerVars, hostVars>>
Start == In("start", "start") /\ StartNext /\ keeps /\ UNCHANGED hostVars
Started == In("start", "serve") /\ Unstarted = {} /\ keeps /\ UNCHANGED <<timerVars, hostVars>>

\* The next message of the channel
Handle ==
  /\ In("serve", "serve") /\ queue # <<>>
  /\ queue' = Tail(queue)
  /\ done' = Append(done, Head(queue))
  /\ UNCHANGED <<hostVars, abandoned, script, timers, events, now, ready, begun>>

\* do_main_timestep(): every layer begins, updates and ends its step
HandleStep == queue # <<>> /\ Head(queue) = MainStep /\ Handle

\* handle_simulation_event() of another event: activate_nodes() of its nodes
HandleActivation == queue # <<>> /\ Head(queue) # MainStep /\ Handle

\* A stop is requested at any time; then do_shutdown_procedure().
Stop == In("serve", "stop") /\ keeps /\ UNCHANGED <<timerVars, hostVars>>
StopTimers == In("stop", "drain") /\ StopAll /\ AskSessions /\ keeps
Drained == In("drain", "shutdown") /\ SessionsClosed /\ keeps /\ UNCHANGED <<timerVars, hostVars>>

\* wait_for_shutdown(): the loop ends on a timeout once a stop was requested, or on a message
\* that is left over, which is an error; otherwise handle_shutdown_msg() runs.
Abandon ==
  /\ In("shutdown", "destroy")
  /\ abandoned' = TRUE
  /\ UNCHANGED <<timerVars, hostVars, done>>
ReadShutdown == In("shutdown", "close") /\ queue = <<>> /\ keeps /\ UNCHANGED <<timerVars, hostVars>>

\* The layers one after the other: a layer is closed when the one before it is deleted.
CloseNext ==
  /\ In("close", "close") /\ keeps /\ UNCHANGED timerVars
  /\ \A p \in Paths : layer[p] # "closed"
  /\ \E p \in Paths : CloseLayer(p)
DeleteNext == In("close", "close") /\ (\E p \in Paths : DeleteLayer(p)) /\ keeps /\ UNCHANGED timerVars
Unload == In("close", "destroy") /\ UnloadLibraries /\ keeps /\ UNCHANGED timerVars
Destroy == In("destroy", "gone") /\ DestroyLibraries /\ keeps /\ UNCHANGED timerVars

Sim ==
  \/ Bind \/ BindNext \/ Bound \/ Start \/ Started \/ HandleStep \/ HandleActivation
  \/ StopTimers \/ Drained \/ ReadShutdown \/ CloseNext \/ DeleteNext \/ Unload \/ Destroy

\* The io thread and the network run until the simulation is destroyed, after the io thread
\* was joined.
Running == crash = "none" /\ phase \notin {"events", "destroy", "gone"}
Io == Running /\ IoTimers /\ UNCHANGED <<hostVars, phase, done, abandoned>>
IoHandler == Running /\ IoLayers /\ UNCHANGED <<timerVars, phase, done, abandoned>>
Environment ==
  /\ Running
  /\ \/ Tick /\ UNCHANGED hostVars
     \/ Network /\ UNCHANGED timerVars
  /\ UNCHANGED <<phase, done, abandoned>>

Next == Sim \/ Stop \/ Abandon \/ Io \/ IoHandler \/ Environment

\* The sim thread and the io thread run; nothing makes time pass, the network answer or a stop
\* come.
Spec == Init /\ [][Next]_vars /\ WF_vars(Sim) /\ WF_vars(Io) /\ WF_vars(IoHandler)

-----------------------------------------------------------------------------
(* Properties *)

TypeOK ==
  /\ HostTypeOK
  /\ phase \in Phases /\ abandoned \in BOOLEAN /\ now \in 0..MaxTime
  /\ DOMAIN events \subseteq DOMAIN timers /\ DOMAIN begun \subseteq DOMAIN timers
  /\ ready \in Seq(DOMAIN timers)
  /\ queue \o done \in Seq({MainStep} \cup DOMAIN script)

\* start_all() took less than one step.
StartedTogether == \A i \in DOMAIN begun : begun[i] - begun[MainStep] < Interval

Positions(k) == {j \in DOMAIN done : done[j] = k}
StepsBefore(j) == Cardinality({i \in 1..(j - 1) : done[i] = MainStep})

\* However late handlers and messages are, the sim thread activates the nodes of an event once,
\* and before it takes the step after the one the event was scripted for.
ScriptIsFollowed ==
  StartedTogether =>
    \A k \in DOMAIN script : /\ Cardinality(Positions(k)) <= 1
                             /\ \A j \in Positions(k) : StepsBefore(j) <= script[k].first

\* Every event that is registered is triggered once its time comes, unless the simulation is
\* stopped or ends; a registered event is a one-off event whose key was free.
EventsHappen ==
  \A k \in UNION {DOMAIN s : s \in Scripts} :
    (phase = "serve" /\ k \in DOMAIN script /\ Registered(k) /\ begun[Key(k)] + WaitPeriod(k) <= now)
      ~> (Positions(k) # {} \/ phase # "serve" \/ crash # "none")

\* Code of a library is called (create, step, handlers, delete) only while it is loaded, unless
\* the program is terminated.
LibraryOutlivesLayer ==
  crash = "none" => \A p \in Paths : layer[p] \in {"live", "closed"} => lib[p] = "loaded"

\* Each way the program can be terminated has its cause: a layer that is listed twice, or a
\* simulation that is destroyed with its layers; a layer whose session was not asked to close, as
\* it was accepted too late or never; a request that overtook the PONG, so that more was read
\* after it; a receive that failed.  The handlers may still be queued when the layers are closed.
LateLayer == \E p \in Paths : layer[p] # "none" /\ session[p] \in {"none", "open"}
ListedTwice == \E i, j \in DOMAIN layers : i # j /\ layers[i] = layers[j]
CrashHasCause ==
  /\ crash = "pure_virtual" => ListedTwice \/ abandoned
  /\ crash = "not_connected" => LateLayer
  /\ crash = "null_socket" => LateLayer \/ mishaps # {}
=============================================================================
