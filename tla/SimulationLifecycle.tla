------------------------ MODULE SimulationLifecycle ------------------------
(***************************************************************************)
(* The life of one simulation: the three threads of the network program,  *)
(* from simulation::initialize() to the end of simulation::shutdown().     *)
(*                                                                         *)
(*   main thread   simulation_state::launch(), the running() poll of       *)
(*                 main(), simulation_state::cleanup(), the io shutdown     *)
(*   sim thread    simulation_main(): wait_for_initialization,             *)
(*                 wait_for_start, the message loop, the shutdown steps    *)
(*   io thread     io_main(): timer, signal and session completion         *)
(*                 handlers, one at a time                                 *)
(*                                                                         *)
(* A program counter per thread names the statement the thread is about to *)
(* execute; what happens between two pcs touches no state another thread   *)
(* reads.  A thread that spins on a condition is simply not enabled until   *)
(* the condition holds.                                                    *)
(***************************************************************************)
EXTENDS Naturals, Sequences, FiniteSets

CONSTANTS Peers,      (* the nodes and layers that may connect to the control port *)
          MaxEvents   (* bound: how often the main-step timer fires                *)

ASSUME ConstantsAssumption == MaxEvents \in Nat

VARIABLES
  mpc, spc, iopc,     (* program counters of the main, sim and io thread           *)
  state,              (* current_state                                             *)
  ctl, acks,          (* the two channel queues, main -> sim and sim -> main       *)
  tx,                 (* tx_channel and rx_channel of the main thread are non-null *)
  assigned,           (* simulation_thread holds the started thread                *)
  stop,               (* the stop token of the sim thread                          *)
  running, error, initialized, finalized,    (* checkpoints                        *)
  timer, fired,       (* the main-step timer, and how often it fired               *)
  peer,               (* what became of each peer's control connection             *)
  dead, closed_nodes, (* the length of dead_connections_queue, and the count       *)
  signal,             (* SIGINT/SIGTERM: the handler is armed once and not re-armed *)
  ioStopped,          (* io_context.stop() is in force                             *)
  ioStopReq           (* the stop token of the io thread                           *)

flagVars == <<running, error, initialized, finalized>>
timerVars == <<timer, fired>>
peerVars == <<peer, dead, closed_nodes>>
vars == <<mpc, spc, iopc, state, ctl, acks, tx, assigned, stop, running, error,
          initialized, finalized, timer, fired, peerVars, signal, ioStopped,
          ioStopReq>>

-----------------------------------------------------------------------------
States == {"LAUNCHING", "WAITING", "PROCESSING", "SHUTTING_DOWN", "STOPPED"}
Messages == {"THREAD_INITIALIZE", "THREAD_START", "THREAD_SHUTDOWN", "SIM_EVENT"}
Answers == {"ACK", "NACK"}

MainPcs == {"launch", "assign", "spin", "send_init", "init_ack", "launched", "poll1", "poll2",
            "cleanup", "send_shutdown", "shutdown_ack", "close_control", "join", "drop_channels",
            "stop_io", "request_io_stop", "join_io", "done"}
SimPcs == {"none", "channels", "enter", "await_init", "init_ack", "await_start", "start_test",
           "start_timers", "waiting", "await", "loop_test", "stop_timers", "ask_nodes", "drain",
           "poll", "await_shutdown", "shutdown_test", "shutdown_ack", "exit", "exited"}
IoPcs == {"run", "request", "rearm", "stopped", "test", "exited", "abort"}

\* A timer is idle, waiting for its expiry, expired with its handler queued, or in its handler.
TimerStates == {"idle", "armed", "queued", "firing"}

\* A connection is completed and its accept handler queued ("arriving"), in connections ("up"),
\* sent NODE_SHUTDOWN_REQUEST ("asked"), and its session has alerted the control once
\* ("answered") or, after a request that went out twice, once more ("repeated").
PeerStates == {"absent", "arriving", "up", "asked", "answered", "repeated"}

TypeOK ==
  /\ mpc \in MainPcs /\ spc \in SimPcs /\ iopc \in IoPcs
  /\ state \in States
  /\ ctl \in Seq(Messages) /\ acks \in Seq(Answers)
  /\ tx \in BOOLEAN /\ assigned \in BOOLEAN /\ stop \in BOOLEAN
  /\ running \in BOOLEAN /\ error \in BOOLEAN
  /\ initialized \in BOOLEAN /\ finalized \in BOOLEAN
  /\ timer \in TimerStates /\ fired \in 0..MaxEvents
  /\ peer \in [Peers -> PeerStates] /\ dead \in Nat /\ closed_nodes \in Nat
  /\ signal \in {"armed", "handled"}
  /\ ioStopped \in BOOLEAN /\ ioStopReq \in BOOLEAN

Init ==
  /\ mpc = "launch" /\ spc = "none" /\ iopc = "run"
  /\ state = "STOPPED"
  /\ ctl = <<>> /\ acks = <<>>
  /\ tx = FALSE /\ assigned = FALSE /\ stop = FALSE
  /\ running = FALSE /\ error = FALSE /\ initialized = FALSE /\ finalized = FALSE
  /\ timer = "idle" /\ fired = 0
  /\ peer = [p \in Peers |-> "absent"] /\ dead = 0 /\ closed_nodes = 0
  /\ signal = "armed"
  /\ ioStopped = FALSE /\ ioStopReq = FALSE

\* A failed assertion ends the whole process.
Alive == iopc # "abort"

MainGoes(from, to) == Alive /\ mpc = from /\ mpc' = to
SimGoes(from, to) == Alive /\ spc = from /\ spc' = to
IoGoes(from, to) == iopc = from /\ iopc' = to

-----------------------------------------------------------------------------
(* Main thread *)

\* launch(): the state is written without the mutex, then the thread starts.  The member
\* simulation_thread receives the jthread only after the thread is running.
MainLaunch ==
  /\ MainGoes("launch", "assign")
  /\ state' = "WAITING"
  /\ spc = "none" /\ spc' = "channels"
  /\ UNCHANGED <<iopc, ctl, acks, tx, assigned, stop, flagVars, timerVars, peerVars, signal,
                 ioStopped, ioStopReq>>

MainAssignThread ==
  /\ MainGoes("assign", "spin")
  /\ assigned' = TRUE
  /\ UNCHANGED <<spc, iopc, state, ctl, acks, tx, stop, flagVars, timerVars, peerVars, signal,
                 ioStopped, ioStopReq>>

\* while (simulation_in_state(SIMULATION_WAITING)) yield
MainSpinLaunch ==
  /\ MainGoes("spin", "send_init")
  /\ state # "WAITING"
  /\ UNCHANGED <<spc, iopc, state, ctl, acks, tx, assigned, stop, flagVars, timerVars, peerVars,
                 signal, ioStopped, ioStopReq>>

\* channel::push of a control message by the main thread
MainPush(from, m, to) ==
  /\ MainGoes(from, to)
  /\ ctl' = Append(ctl, m)
  /\ UNCHANGED <<spc, iopc, state, acks, tx, assigned, stop, flagVars, timerVars, peerVars, signal,
                 ioStopped, ioStopReq>>

MainSendInit == MainPush("send_init", "THREAD_INITIALIZE", "init_ack")

\* wait_for_ack(): the first answer ends the wait, a NACK records the error.  A timeout
\* (continue) evaluates the loop condition, which also ends the wait once error_occurred.
WaitForAck(from, to) ==
  /\ MainGoes(from, to)
  /\ \/ /\ acks # <<>>
        /\ acks' = Tail(acks)
        /\ error' = (error \/ Head(acks) # "ACK")
     \/ /\ acks = <<>> /\ error
        /\ UNCHANGED <<acks, error>>
  /\ UNCHANGED <<spc, iopc, state, ctl, tx, assigned, stop, running, initialized, finalized,
                 timerVars, peerVars, signal, ioStopped, ioStopReq>>

\* Fault: launch() goes on without taking the answer.
MainInitAckSkipped ==
  /\ MainGoes("init_ack", "launched")
  /\ UNCHANGED <<spc, iopc, state, ctl, acks, tx, assigned, stop, flagVars, timerVars, peerVars,
                 signal, ioStopped, ioStopReq>>

MainInitAck == WaitForAck("init_ack", "launched")

\* the rest of launch(): THREAD_START is pushed unless an error occurred; nothing acks it
MainSendStart ==
  /\ ~error
  /\ MainPush("launched", "THREAD_START", "poll1")

MainLaunchError ==
  /\ error
  /\ MainGoes("launched", "poll1")
  /\ UNCHANGED <<spc, iopc, state, ctl, acks, tx, assigned, stop, flagVars, timerVars, peerVars,
                 signal, ioStopped, ioStopReq>>

\* main(): do yield while (sim->running()); running() reads current_state twice
MainPollWaiting ==
  /\ MainGoes("poll1", "poll2")
  /\ state # "WAITING"
  /\ UNCHANGED <<spc, iopc, state, ctl, acks, tx, assigned, stop, flagVars, timerVars, peerVars,
                 signal, ioStopped, ioStopReq>>

MainPollProcessing ==
  /\ Alive /\ mpc = "poll2"
  /\ mpc' = IF state = "PROCESSING" THEN "poll1" ELSE "cleanup"
  /\ UNCHANGED <<spc, iopc, state, ctl, acks, tx, assigned, stop, flagVars, timerVars, peerVars,
                 signal, ioStopped, ioStopReq>>

\* cleanup(): while (!simulation_in_state(SIMULATION_SHUTTING_DOWN)) yield
MainSpinCleanup ==
  /\ MainGoes("cleanup", "send_shutdown")
  /\ state = "SHUTTING_DOWN"
  /\ UNCHANGED <<spc, iopc, state, ctl, acks, tx, assigned, stop, flagVars, timerVars, peerVars,
                 signal, ioStopped, ioStopReq>>

MainSendShutdown == MainPush("send_shutdown", "THREAD_SHUTDOWN", "shutdown_ack")

MainShutdownAck == WaitForAck("shutdown_ack", "close_control")

\* sim_control->shutdown(), called without controL_mtx: sessions stop, the acceptor closes
MainCloseControl ==
  /\ MainGoes("close_control", "join")
  /\ UNCHANGED <<spc, iopc, state, ctl, acks, tx, assigned, stop, flagVars, timerVars, peerVars,
                 signal, ioStopped, ioStopReq>>

\* spin until SIMULATION_STOPPED, then join the thread
MainJoin ==
  /\ MainGoes("join", "drop_channels")
  /\ state = "STOPPED" /\ spc = "exited"
  /\ UNCHANGED <<spc, iopc, state, ctl, acks, tx, assigned, stop, flagVars, timerVars, peerVars,
                 signal, ioStopped, ioStopReq>>

\* rx_channel = nullptr; tx_channel = nullptr: the queues die with the last channel
MainDropChannels ==
  /\ MainGoes("drop_channels", "stop_io")
  /\ tx' = FALSE
  /\ UNCHANGED <<spc, iopc, state, ctl, acks, assigned, stop, flagVars, timerVars, peerVars, signal,
                 ioStopped, ioStopReq>>

\* simulation::shutdown(): io_context->stop(), io_thread.request_stop(), io_thread.join()
MainStopIo ==
  /\ MainGoes("stop_io", "request_io_stop")
  /\ ioStopped' = TRUE
  /\ UNCHANGED <<spc, iopc, state, ctl, acks, tx, assigned, stop, flagVars, timerVars, peerVars,
                 signal, ioStopReq>>

MainRequestIoStop ==
  /\ MainGoes("request_io_stop", "join_io")
  /\ ioStopReq' = TRUE
  /\ UNCHANGED <<spc, iopc, state, ctl, acks, tx, assigned, stop, flagVars, timerVars, peerVars,
                 signal, ioStopped>>

MainJoinIo ==
  /\ MainGoes("join_io", "done")
  /\ iopc = "exited"
  /\ UNCHANGED <<spc, iopc, state, ctl, acks, tx, assigned, stop, flagVars, timerVars, peerVars,
                 signal, ioStopped, ioStopReq>>

Main ==
  \/ MainLaunch \/ MainAssignThread \/ MainSpinLaunch \/ MainSendInit \/ MainInitAck
  \/ MainSendStart \/ MainLaunchError \/ MainPollWaiting \/ MainPollProcessing
  \/ MainSpinCleanup \/ MainSendShutdown \/ MainShutdownAck \/ MainCloseControl
  \/ MainJoin \/ MainDropChannels \/ MainStopIo \/ MainRequestIoStop \/ MainJoinIo

-----------------------------------------------------------------------------
(* Simulation thread *)

\* What no action of the sim thread touches.
simKeeps == <<mpc, iopc, assigned, stop, fired, signal, ioStopped, ioStopReq>>

\* run_simulation_thread(): both channels are made and handed to the object under the mutex
SimMakeChannels ==
  /\ SimGoes("channels", "enter")
  /\ tx' = TRUE
  /\ UNCHANGED <<simKeeps, state, ctl, acks, flagVars, timer, peerVars>>

\* Fault: the timers run before the handshake is over.
SimEnterArmed ==
  /\ SimGoes("enter", "await_init")
  /\ state' = "LAUNCHING" /\ timer' = "armed"
  /\ UNCHANGED <<simKeeps, ctl, acks, tx, flagVars, peerVars>>

SimEnter ==
  /\ SimGoes("enter", "await_init")
  /\ state' = "LAUNCHING"
  /\ UNCHANGED <<simKeeps, ctl, acks, tx, flagVars, timer, peerVars>>

\* wait_for_initialization(): THREAD_INITIALIZE launches the nodes (the acceptor opens) and
\* binds every layer; any other message is an error.  Either way the loop is over.
SimInitMessage ==
  /\ SimGoes("await_init", "init_ack")
  /\ ctl # <<>>
  /\ ctl' = Tail(ctl)
  /\ initialized' = (Head(ctl) = "THREAD_INITIALIZE")
  /\ error' = (error \/ Head(ctl) # "THREAD_INITIALIZE")
  /\ UNCHANGED <<simKeeps, state, acks, tx, running, finalized, timer, peerVars>>

\* Fault: a timeout alone ends the wait.
SimInitGivesUpEarly ==
  /\ SimGoes("await_init", "init_ack")
  /\ ctl = <<>>
  /\ UNCHANGED <<simKeeps, state, ctl, acks, tx, flagVars, timer, peerVars>>

\* the await timed out and the loop condition ends the wait on a requested stop
SimInitGivesUp ==
  /\ SimGoes("await_init", "init_ack")
  /\ ctl = <<>> /\ stop
  /\ UNCHANGED <<simKeeps, state, ctl, acks, tx, flagVars, timer, peerVars>>

\* Fault: the acknowledgement keeps the id of the message it answers.
SimAnswerEchoes(from, to) ==
  /\ SimGoes(from, to)
  /\ acks' = Append(acks, IF error THEN "NACK" ELSE "THREAD_INITIALIZE")
  /\ UNCHANGED <<simKeeps, state, ctl, tx, flagVars, timer, peerVars>>

\* the acknowledgement that ends wait_for_initialization and wait_for_shutdown
SimAnswer(from, to) ==
  /\ SimGoes(from, to)
  /\ acks' = Append(acks, IF error THEN "NACK" ELSE "ACK")
  /\ UNCHANGED <<simKeeps, state, ctl, tx, flagVars, timer, peerVars>>

SimInitAck == SimAnswer("init_ack", "await_start")

\* wait_for_start(): THREAD_START sets running, any other message is an error
SimStartMessage ==
  /\ SimGoes("await_start", "start_test")
  /\ ctl # <<>>
  /\ ctl' = Tail(ctl)
  /\ running' = (running \/ Head(ctl) = "THREAD_START")
  /\ error' = (error \/ Head(ctl) # "THREAD_START")
  /\ UNCHANGED <<simKeeps, state, acks, tx, initialized, finalized, timer, peerVars>>

SimStartTimeout ==
  /\ SimGoes("await_start", "start_test")
  /\ ctl = <<>>
  /\ UNCHANGED <<simKeeps, state, ctl, acks, tx, flagVars, timer, peerVars>>

\* Fault: the wait for THREAD_START is not a loop.
SimStartTestOnce ==
  /\ Alive /\ spc = "start_test"
  /\ spc' = "start_timers"
  /\ UNCHANGED <<simKeeps, state, ctl, acks, tx, flagVars, timer, peerVars>>

\* the loop condition, evaluated after the io thread may have run stop()
SimStartTest ==
  /\ Alive /\ spc = "start_test"
  /\ spc' = IF running \/ error \/ stop THEN "start_timers" ELSE "await_start"
  /\ UNCHANGED <<simKeeps, state, ctl, acks, tx, flagVars, timer, peerVars>>

\* event_handler->start_all()
SimStartTimers ==
  /\ SimGoes("start_timers", "waiting")
  /\ timer' = "armed"
  /\ UNCHANGED <<simKeeps, state, ctl, acks, tx, flagVars, peerVars>>

SimWaiting ==
  /\ SimGoes("waiting", "await")
  /\ state' = "WAITING"
  /\ UNCHANGED <<simKeeps, ctl, acks, tx, flagVars, timer, peerVars>>

\* the loop takes a message: an event steps the layers, a control message is ignored
SimHandleMessage ==
  /\ SimGoes("await", "loop_test")
  /\ ctl # <<>>
  /\ ctl' = Tail(ctl)
  /\ state' = "PROCESSING"
  /\ UNCHANGED <<simKeeps, acks, tx, flagVars, timer, peerVars>>

\* Fault: the queue of dead connections is read and not emptied.
PolledAgain == closed_nodes' = closed_nodes + dead /\ UNCHANGED dead

\* simulation_control::poll(): every queued dead connection counts as a closed node
Polled == closed_nodes' = closed_nodes + dead /\ dead' = 0

\* the loop times out and polls the control
SimManage ==
  /\ SimGoes("await", "loop_test")
  /\ ctl = <<>>
  /\ state' = "PROCESSING"
  /\ Polled
  /\ UNCHANGED <<simKeeps, ctl, acks, tx, flagVars, timer, peer>>

SimLoopTest ==
  /\ Alive /\ spc = "loop_test"
  /\ spc' = IF running /\ ~stop /\ ~error THEN "waiting" ELSE "stop_timers"
  /\ UNCHANGED <<simKeeps, state, ctl, acks, tx, flagVars, timer, peerVars>>

\* event_handler->stop_all(): cancels a pending wait; an expired timer whose handler is
\* queued or running is past cancelling
SimStopTimers ==
  /\ SimGoes("stop_timers", "ask_nodes")
  /\ timer' = IF timer = "armed" THEN "idle" ELSE timer
  /\ UNCHANGED <<simKeeps, state, ctl, acks, tx, flagVars, peerVars>>

\* Fault: the state announces the shutdown before the nodes are gone.
SimAskNodesAnnounces ==
  /\ SimGoes("ask_nodes", "drain")
  /\ peer' = [p \in Peers |-> IF peer[p] = "up" THEN "asked" ELSE peer[p]]
  /\ state' = "SHUTTING_DOWN"
  /\ UNCHANGED <<simKeeps, ctl, acks, tx, flagVars, timer, dead, closed_nodes>>

\* sim_control->shutdown_nodes(): a request to every connection there is at this moment
SimAskNodes ==
  /\ SimGoes("ask_nodes", "drain")
  /\ peer' = [p \in Peers |-> IF peer[p] = "up" THEN "asked" ELSE peer[p]]
  /\ UNCHANGED <<simKeeps, state, ctl, acks, tx, flagVars, timer, dead, closed_nodes>>

connections == {p \in Peers : peer[p] \notin {"absent", "arriving"}}

\* Fault: an empty queue of dead connections is taken for a finished shutdown.
NothingDead == dead = 0

\* nodes_cleaned_up(): a comparison of two numbers, so a session that alerted twice stands for
\* another one, or makes the count overshoot for good
NodesCleanedUp == closed_nodes = Cardinality(connections)

SimNotDrained ==
  /\ SimGoes("drain", "poll")
  /\ ~NodesCleanedUp
  /\ UNCHANGED <<simKeeps, state, ctl, acks, tx, flagVars, timer, peerVars>>

\* Fault: the wait for the nodes does not poll.
SimPollIdle ==
  /\ SimGoes("poll", "drain")
  /\ UNCHANGED <<simKeeps, state, ctl, acks, tx, flagVars, timer, peerVars>>

SimPoll ==
  /\ SimGoes("poll", "drain")
  /\ Polled
  /\ UNCHANGED <<simKeeps, state, ctl, acks, tx, flagVars, timer, peer>>

SimDrained ==
  /\ SimGoes("drain", "await_shutdown")
  /\ NodesCleanedUp
  /\ state' = "SHUTTING_DOWN"
  /\ UNCHANGED <<simKeeps, ctl, acks, tx, flagVars, timer, peerVars>>

\* handle_shutdown_msg(): THREAD_SHUTDOWN shuts the layers down and unloads their
\* libraries, any other message is an error
SimShutdownMessage ==
  /\ SimGoes("await_shutdown", "shutdown_test")
  /\ ctl # <<>>
  /\ ctl' = Tail(ctl)
  /\ IF Head(ctl) = "THREAD_SHUTDOWN"
       THEN running' = FALSE /\ finalized' = TRUE /\ UNCHANGED error
       ELSE error' = TRUE /\ UNCHANGED <<running, finalized>>
  /\ UNCHANGED <<simKeeps, state, acks, tx, initialized, timer, peerVars>>

\* Fault: waiting for the next message is announced as it is in the main loop.
SimShutdownTimeoutWaiting ==
  /\ SimGoes("await_shutdown", "shutdown_test")
  /\ ctl = <<>>
  /\ state' = "WAITING"
  /\ UNCHANGED <<simKeeps, ctl, acks, tx, flagVars, timer, peerVars>>

SimShutdownTimeout ==
  /\ SimGoes("await_shutdown", "shutdown_test")
  /\ ctl = <<>>
  /\ UNCHANGED <<simKeeps, state, ctl, acks, tx, flagVars, timer, peerVars>>

\* while (!running && !error_occurred && !stop_requested)
SimShutdownTest ==
  /\ Alive /\ spc = "shutdown_test"
  /\ spc' = IF running \/ error \/ stop THEN "shutdown_ack" ELSE "await_shutdown"
  /\ UNCHANGED <<simKeeps, state, ctl, acks, tx, flagVars, timer, peerVars>>

SimShutdownAck == SimAnswer("shutdown_ack", "exit")

\* Fault: the thread empties its queue on the way out.
SimExitFlushes ==
  /\ SimGoes("exit", "exited")
  /\ state' = "STOPPED"
  /\ ctl' = <<>>
  /\ UNCHANGED <<simKeeps, acks, tx, flagVars, timer, peerVars>>

SimExit ==
  /\ SimGoes("exit", "exited")
  /\ state' = "STOPPED"
  /\ UNCHANGED <<simKeeps, ctl, acks, tx, flagVars, timer, peerVars>>

Sim ==
  \/ SimMakeChannels \/ SimEnter \/ SimInitMessage \/ SimInitGivesUp \/ SimInitAck
  \/ SimStartMessage \/ SimStartTimeout \/ SimStartTest \/ SimStartTimers \/ SimWaiting
  \/ SimHandleMessage \/ SimManage \/ SimLoopTest \/ SimStopTimers \/ SimAskNodes
  \/ SimNotDrained \/ SimPoll \/ SimDrained \/ SimShutdownMessage \/ SimShutdownTimeout
  \/ SimShutdownTest \/ SimShutdownAck \/ SimExit

-----------------------------------------------------------------------------
(* Io thread, and what the io context learns from outside *)

ioKeeps == <<mpc, spc, state, acks, tx, assigned, error, initialized, finalized, ioStopReq>>

\* a handler starts only while run() is running and the context is not stopped
IoServing == iopc = "run" /\ ~ioStopped

TimerExpires ==
  /\ Alive /\ timer = "armed" /\ fired < MaxEvents
  /\ timer' = "queued" /\ fired' = fired + 1
  /\ UNCHANGED <<ioKeeps, iopc, ctl, stop, running, peerVars, signal, ioStopped>>

\* on_timeout() with no error: the callback is handle_event(SIM_EVENT_MAIN_STEP), which
\* asserts tx_channel and pushes the event; a failed assertion terminates the program
IoTimeout ==
  /\ IoServing /\ timer = "queued"
  /\ timer' = "firing"
  /\ IF tx THEN iopc' = "rearm" /\ ctl' = Append(ctl, "SIM_EVENT")
           ELSE iopc' = "abort" /\ UNCHANGED ctl
  /\ UNCHANGED <<ioKeeps, fired, stop, running, peerVars, signal, ioStopped>>

\* still in on_timeout(): should_restart, so the timer is started again
IoRearm ==
  /\ IoGoes("rearm", "run")
  /\ timer' = "armed"
  /\ UNCHANGED <<ioKeeps, fired, ctl, stop, running, peerVars, signal, ioStopped>>

\* signal_handler(): stop() clears running and then requests the stop ...
IoSignal ==
  /\ IoServing /\ iopc' = "request"
  /\ signal = "armed" /\ signal' = "handled"
  /\ running' = FALSE
  /\ UNCHANGED <<ioKeeps, timer, fired, ctl, stop, peerVars, ioStopped>>

\* ... which reaches the sim thread only through the member holding it
IoRequestStop ==
  /\ IoGoes("request", "run")
  /\ stop' = (stop \/ assigned)
  /\ UNCHANGED <<ioKeeps, timer, fired, ctl, running, peerVars, signal, ioStopped>>

\* open_channel() was called once the nodes are launched, and the control is not shut down
AcceptorOpen == initialized /\ mpc \notin {"join", "drop_channels", "stop_io", "request_io_stop",
                                           "join_io", "done"}

\* the accept that is outstanding, one at a time, takes a connection and its handler is queued
IoConnect(p) ==
  /\ Alive /\ AcceptorOpen
  /\ peer[p] = "absent" /\ \A q \in Peers : peer[q] # "arriving"
  /\ peer' = [peer EXCEPT ![p] = "arriving"]
  /\ UNCHANGED <<ioKeeps, iopc, timer, fired, ctl, stop, running, dead, closed_nodes, signal,
                 ioStopped>>

\* handle_accept(): a queued handler adds its connection even after the acceptor was closed
IoAccept(p) ==
  /\ IoServing
  /\ peer[p] = "arriving"
  /\ peer' = [peer EXCEPT ![p] = "up"]
  /\ UNCHANGED <<ioKeeps, iopc, timer, fired, ctl, stop, running, dead, closed_nodes, signal,
                 ioStopped>>

\* The session reads an acknowledgement of the shutdown request: alert_session_shutdown().
\* It may do so once more, as ControlSession shows, or never.
IoPeerAck(p) ==
  /\ IoServing
  /\ \/ peer[p] = "asked" /\ peer' = [peer EXCEPT ![p] = "answered"]
     \/ peer[p] = "answered" /\ peer' = [peer EXCEPT ![p] = "repeated"]
  /\ dead' = dead + 1
  /\ UNCHANGED <<ioKeeps, iopc, timer, fired, ctl, stop, running, closed_nodes, signal, ioStopped>>

\* io_main(): run() returns once the context is stopped; the context is restarted unless
\* the thread was asked to stop by then, and the loop asks again
IoRunReturns ==
  /\ IoGoes("run", "stopped")
  /\ ioStopped
  /\ UNCHANGED <<ioKeeps, timer, fired, ctl, stop, running, peerVars, signal, ioStopped>>

IoRestart ==
  /\ IoGoes("stopped", "test")
  /\ ioStopped' = (ioStopped /\ ioStopReq)
  /\ UNCHANGED <<ioKeeps, timer, fired, ctl, stop, running, peerVars, signal>>

\* Fault: the loop of io_main() does not look at its stop token.
IoTestForever ==
  /\ IoGoes("test", "run")
  /\ UNCHANGED <<ioKeeps, timer, fired, ctl, stop, running, peerVars, signal, ioStopped>>

IoTest ==
  /\ iopc = "test"
  /\ iopc' = IF ioStopReq THEN "exited" ELSE "run"
  /\ UNCHANGED <<ioKeeps, timer, fired, ctl, stop, running, peerVars, signal, ioStopped>>

IoStep == IoTimeout \/ IoRearm \/ IoRequestStop \/ IoRunReturns \/ IoRestart \/ IoTest

Io == IoStep \/ TimerExpires \/ IoSignal \/ \E p \in Peers : IoConnect(p) \/ IoAccept(p) \/ IoPeerAck(p)

-----------------------------------------------------------------------------
Next == Main \/ Sim \/ Io

Spec == Init /\ [][Next]_vars

(* The operating system runs every thread that can run.  Signals, timers, connections and *)
(* the answers of the peers may or may not come.                                          *)
Fairness == WF_vars(Main) /\ WF_vars(Sim) /\ WF_vars(IoStep)

FairSpec == Spec /\ Fairness

-----------------------------------------------------------------------------
(* Safety *)

\* simulation_control is shut down by the main thread without its mutex.  The main thread gets
\* there only when the sim thread has left the loops that poll the control and ask the nodes
\* (the SHUTTING_DOWN state is the only hand-over).
ControlHandedOver ==
  mpc = "close_control" =>
    spc \in {"await_shutdown", "shutdown_test", "shutdown_ack", "exit", "exited"}

\* The main thread counts answers, it does not match them: the answer that ends cleanup() must
\* be the one of wait_for_shutdown, never a launch answer left in the channel.
ShutdownAnswerIsFresh ==
  mpc \in {"send_shutdown", "shutdown_ack"} /\ acks # <<>> => spc \in {"exit", "exited"}

\* The three control messages and the timer events share one queue whose reader rejects
\* what it does not expect.  Before the shutdown phase only a stop request can desynchronise
\* it: without one, launch() never fails and the loop never ends in an error.
NoErrorWithoutStop ==
  error /\ ~stop => state \in {"SHUTTING_DOWN", "STOPPED"}

\* The loop serves events and polls the control only over launched nodes and bound layers,
\* unless a stop overtook the launch.
ServesOnlyInitialized ==
  spc \in {"start_timers", "waiting", "await", "loop_test", "ask_nodes", "drain", "poll"} /\ ~stop
    => initialized

\* Layers may miss their shutdown (cleanup() goes on after any answer), but only because
\* THREAD_SHUTDOWN was never read: it is then still in the queue the main thread drops.
ShutdownRequestNotLost ==
  mpc \in {"shutdown_ack", "close_control", "join", "drop_channels"} /\ ~finalized
    => \E i \in DOMAIN ctl : ctl[i] = "THREAD_SHUTDOWN"

\* What the comparison of two counts is worth: when the main thread may clean up, the
\* connections that were asked and have not answered are no more than those that were counted
\* twice.  So with every session counted once, each one that was asked has answered.
DrainedBeforeHandOver ==
  state = "SHUTTING_DOWN" =>
    Cardinality({p \in Peers : peer[p] = "asked"})
      <= Cardinality({p \in Peers : peer[p] = "repeated"})

(* Action properties *)

\* current_state as seen by another thread: which state can follow which.
StateFollows ==
  {<<"STOPPED", "WAITING">>, <<"WAITING", "LAUNCHING">>, <<"WAITING", "PROCESSING">>,
   <<"LAUNCHING", "WAITING">>, <<"PROCESSING", "WAITING">>, <<"PROCESSING", "SHUTTING_DOWN">>,
   <<"SHUTTING_DOWN", "STOPPED">>}

\* Once the sim thread is past its loop the state only moves forward, SHUTTING_DOWN then
\* STOPPED, and a stopped simulation stays stopped: running() cannot become true again.
StateMovesForward ==
  [][state' # state => /\ <<state, state'>> \in StateFollows
                       /\ state = "STOPPED" => mpc = "launch"]_vars

\* A message of the main thread is only ever taken by the phase that waits for it, or after a
\* stop or an error: the loop never swallows THREAD_INITIALIZE, THREAD_START or THREAD_SHUTDOWN.
ControlMessageReachesItsPhase ==
  [][SimHandleMessage => Head(ctl) = "SIM_EVENT" \/ stop]_vars

-----------------------------------------------------------------------------
(* What the repository says of itself and the program does not do *)

\* simulation.cpp:85: "after launch the simulation controller will be running its main
\* controller loop".
LaunchEntersLoop ==
  mpc = "poll1" /\ signal = "armed" => spc \in {"start_timers", "waiting", "await", "loop_test"}

\* The assertion of handle_event(), simulation_state.cpp:97: "Simulation thread tx channel is
\* null" never fails.
TxChannelAlive == iopc # "abort"

-----------------------------------------------------------------------------
(* The service the threads implement together (refinement) *)

servicePhase ==
  CASE spc = "none" -> "idle"
    [] spc \in {"channels", "enter", "await_init", "init_ack", "await_start", "start_test"}
         -> "launching"
    [] spc \in {"start_timers", "waiting", "await", "loop_test", "stop_timers", "ask_nodes"}
         -> "serving"
    [] spc \in {"drain", "poll"} -> "draining"
    [] OTHER -> IF mpc \in {"drop_channels", "stop_io", "request_io_stop", "join_io", "done"}
                  THEN "gone" ELSE "down"

serviceConn ==
  [p \in Peers |-> CASE peer[p] \in {"absent", "arriving"} -> "none"
                     [] peer[p] = "up" -> "open"
                     [] peer[p] = "asked" -> "closing"
                     [] OTHER -> peer[p]]

Service == INSTANCE SimulationService WITH phase <- servicePhase, conn <- serviceConn

\* The three threads together give every connected peer the promised service.
ImplementsService == Service!ServiceSpec

-----------------------------------------------------------------------------
(* Liveness *)

\* The four ways a shutdown is known to hang or to be lost.
LostStop == signal = "handled" /\ iopc # "request" /\ ~stop   \* request_stop() on the empty jthread
Miscounted ==                   \* accepted after shutdown_nodes(), no answer, or one too many
  spc \in {"drain", "poll"} /\ \E p \in Peers : peer[p] \in {"up", "asked", "repeated"}
MissedWindow == mpc = "cleanup" /\ state = "STOPPED"          \* SHUTTING_DOWN came and went
IoRestarted == mpc = "join_io" /\ ~ioStopped                  \* restart() after io_context->stop()

\* A requested stop ends the sim thread, whatever it is waiting for, unless it counts the closed
\* connections forever and some connection has not been counted exactly once.
StopEndsThread == stop ~> (state = "STOPPED" \/ []Miscounted)

\* Ctrl-C ends the program, unless one of the hangs above happens.
SignalEndsProgram ==
  signal = "handled" ~>
    (mpc = "done" \/ iopc = "abort" \/ LostStop \/ MissedWindow \/ IoRestarted \/ []Miscounted)
=============================================================================
