# Formal models of tensorlib

TLA+ models, TLC runs and TLAPS proofs for this repository. Every definition is translated
from the C++ source; `PROJECT.json` maps each one to its lines.

## 1. Inventory

The repository has a numerical library (`tensorlib/`), a simulation server built on asio
(`network/`), a small neural library (`neural/`) and vendored code. Its hardest behaviour, threads
that hand state to each other and connections that are closed while they are in use, is in `network/`.

| Component | State | Operations | Interacts with |
|---|---|---|---|
| simulation lifecycle (`simulation_state`) | `current_state`, two channels, the jthread and its stop token, the flags `running`, `error_occurred`, `initialized`, `finalized` | `launch`, `cleanup`, `stop`, `handle_event`; on the sim thread the two handshakes, the message loop, the shutdown procedure | main thread by channel and by spinning on `current_state`; io thread by channel, timers and stop token |
| program and io loop (`simulation`, `main`) | `io_context`, io thread, signal set | `initialize`, `running`, `shutdown`, `signal_handler`, `bind_control_events`, `io_main` | the lifecycle and every asio handler |
| channel | a queue under a mutex | `push`, `receive`, `await` | main, sim and io thread |
| event handler, timers | `event_timers`, `events`, `should_restart` | register, `start_all`, `stop_all`, `trigger_event`, `on_timeout` | `handle_event` as a callback on the io thread |
| simulation control | `connections`, `dead_connections_queue`, `closed_nodes`, acceptor | `poll`, `shutdown_nodes`, `nodes_cleaned_up`, `alert_session_shutdown`, `shutdown` | sim, io and main thread |
| session | state, read and write buffer, `is_writing`, write queue | `start`, `begin_shutdown`, `stop`, completion handlers, message handlers | io and sim thread; its peer over TCP |
| simulation node, layer, layer control block | control connection, node connection, buffers | connect, answer, activate, step, close | the session; the dynamic library of the layer |
| dynamic libraries | handle, symbol cache | load, unload, look up | layers |
| simulation configuration | a struct | read one file, `process_events` | `simulation`, event handler |
| message formats | none | build, parse | sessions, nodes and layers |
| arena | pages, cursors, counters | open, allocate, free, close | everything that calls `make_ref` or `make_owning_ptr` |
| reference counting | counts, registry of live references | copy, move, assign, reset, release | arena |
| graph | edges per node, `has_loops` | build, load, add, remove, weigh; degrees, `has_cycle`, `topological_sort` | the simulation's configuration |
| linear algebra, combinatorics | matrices, vectors, the table of binomials | arithmetic, `n_choose_k` | neural networks |
| logger, subsystems, library state | singletons, loggers, sinks | open, close, register, send | arena |
| neural networks | layers, outputs | `forward`, `backpropogate`, `learn` | linear algebra |
| random numbers, Monte Carlo | generators | numerical code | none |

What makes each correct:

- *Lifecycle*: the main thread touches the control and the channels only when the sim thread
  has left them; a launch answer never answers a shutdown request; no more connections that were asked
  are missing at the hand-over than were counted twice; a stop ends the program.
- *Control and session*: a shutdown request is answered, its answer counted once, and a
  stopped session has no operation outstanding.
- *Timers*: an event is triggered once, and not after the step it was scripted for. *Layers and
  libraries*: code of a library is called only while it is loaded, and the program is terminated only for
  causes that can be named.
- *Arena*: two objects never share memory, a block lies in a page, the report is off only by what the
  callers of a release did not give back or gave back for nothing, the pages are returned. *References*:
  an object that is held is alive, and it is destroyed once.
- *Graph*: the loop flag, the degrees and the weights agree with the edges, a sort is empty if there
  is a cycle. *Logger*: an id names one sink, and a message reaches the sinks registered for it.
- *Algorithms*: they compute their definitions.

Hard behaviour: three threads (main, sim, io) that share flags, a plain enum and unlocked
containers; queued completion handlers that a cancel does not recall; a byte stream whose
receives may join two messages; timeouts that re-evaluate a loop condition; releases of a count in
two steps; bounded pages, ids and counters compared with `==`. `PROJECT.json` lists each hazard at
its line, with the properties that watch it or the reason none does.

## 2. Modules

| Module | Models | Composes or extends |
|---|---|---|
| `SimulationLifecycle` | `simulation_state`, `simulation`, `main`, the io loop, the main-step timer, and what the control keeps of each connection | refines `SimulationService` |
| `SimulationService` | the abstract promise: serve, ask every open connection to close, go down when all of them have answered once, or when one has answered for another | |
| `SimulationLifecycleProofs` | theorems about `SimulationLifecycle`: types, hand-over, the count, refinement, queues | |
| `Messages` | the messages of a control connection: header, fields, what a receive that joins several of them is parsed to | |
| `ControlSession` | one control connection: session, peer, both queues and buffers, the sim thread that ends it | extends `Messages` |
| `ControlSessionProofs` | theorems about `ControlSession` | |
| `EventTimers` | scripted events: keys, timers, expiries, queued handlers | |
| `LayerHost` | layers: their libraries, control blocks, connections and end | |
| `SimulationHost` | a simulation from launch to destruction | composes `EventTimers` and `LayerHost` |
| `SimulationHostProofs` | theorems about the layers and the events of `SimulationHost` | |
| `Arena`, `ArenaProofs` | the arena allocator and its theorems | |
| `Graph` | the directed graph: constructors, edge operations, queries and the topological sort | |
| `GraphProofs` | theorems about `Graph` | |
| `LinearOps` | the operations of matrices and vectors, dynamic and static, as operators | |
| `Matrices` | matrices and vectors of a program in any order of calls | extends `LinearOps` |
| `Binomials` | `n_choose_k` and its table | |
| `References` | counted references on two threads, buffers, owning pointers | |
| `LoggerLife` | the library's state, logger and sinks | |
| `NeuralNet` | a network of affine layers in training | instantiates `LinearOps` |
| `Tensorlib` | the five parts of the library | composes the five above it |
| `LibraryProofs` | theorems about references and the logger, as parts of `Tensorlib` | |
| `MatricesProofs` | theorems about the matrices and the binomials, as parts of `Tensorlib` | |
| `NeuralNetProofs` | theorems about the networks, as parts of `Tensorlib` | extends `MatricesProofs` |
| `MC...` | values of the constants for TLC | |

### SimulationLifecycle

One program counter per thread: `mpc` is in `launch()`, the poll of `main()`, `cleanup()` or
`simulation::shutdown()`; `spc` in `simulation_main()` and what it calls; `iopc` in a handler
or in `io_main()`. Actions carry the thread's name (`MainJoin`, `SimPoll`, `IoRearm`). An
action reaches from one access to shared state to the next. A thread that spins is not
enabled until its condition holds. `ctl` and `acks` are the channel queues, `state` is
`current_state`. A failed assertion on the io thread stops everything (`iopc = "abort"`).

The control knows its connections by two numbers: `poll()` adds the length of `dead_connections_queue`
(`dead`) to `closed_nodes`, and `nodes_cleaned_up()` compares that with the number of connections by
`==`. `peer[p]` says where the connection of `p` is: accepted by the network with its handler queued
(`arriving`; `IoConnect`, and `IoAccept`, which also runs when the acceptor was closed meanwhile), in
`connections` (`up`), asked, and, for the session behind it, which is in `ControlSession`, how often it alerted
the control: never, once (`answered`) or twice (`repeated`), as it may if a clobbered buffer sent the request
out twice. An alert that is one too many may stand for a session that gave none, and end the drain early, or
make the count overshoot, so that the drain never ends. `SimNotDrained` and `SimPoll` are the test and the
body of the drain loop.

`current_state` is a plain enum read by one thread while another writes it, `closed_nodes`
and `dead_connections_queue` are shared without a lock: these are data races. The model
takes each access as atomic, which is what the build does for a word, and lets the
threads interleave between accesses. A torn `std::queue` is not modelled.

### Messages and ControlSession

One connection between a session (handlers on the io thread, `begin_shutdown()` on the sim thread) and
its peer, a node or a layer. `write_message()` is five steps, because both threads enter it: they test
`is_writing`, fill the one buffer or the queue, send, and set `is_writing`. `toPeer` and `toSession` are
the two directions of the stream. A message is a record of its header and its fields; a receive takes one
or more messages, and both sides take the header of the first and the body of the last (`Received`).
`info` and `pinfo` are the session information of the two sides: the connection type a request must carry
is copied out of it when the request is built, so a request built before the PING has none. `mishaps`
records which race has happened (`swallowed`, `clobbered`, `ignored`), `quiet` that the shutdown began
after the handshake on an idle connection. `alerts` counts calls of `alert_session_shutdown()`. `closed`
and `SimDrained` are the control's `closed_nodes` and the drain loop, which poll the queue. A node may be
activated a second time (`NodeReplaced`): its first connection closes, and the session reads the end of
the stream (`SessionReadsEnd`).

### EventTimers, LayerHost, SimulationHost

`phase` is where the sim thread is; how the threads agree on it is in `SimulationLifecycle`, so
here a stop or a left-over message (`Abandon`) may come in any way that module allows. In `EventTimers`
`timers` and `events` are the two maps of the event handler by key, `ready` the handlers the io context
will run, `queue` the channel to the sim thread. Time is a clock of ticks that may advance at any
moment, also while handlers wait: a late io thread or sim thread is a behaviour. Events compare by
id, and an event without one gets the place in its list (`Key`), so keys may collide. In
`LayerHost` an operation of asio is outstanding, over with its handler queued, or gone; `CloseLayer`
fails those that are outstanding, but leaves the queued ones. `crash` names the ways the program
is terminated: a pure virtual call, an exception, a null socket.

The session of a layer is what `ControlSession` lets it be: the PONG may come before the request, behind it
(`Greets` in any state of the session), or be sent twice in its place, and so may the request (`AskSessions`);
a receive may join messages, of which the header of the first counts (`Received`). The layer reads on after
every message and after an error that is not the end of the connection (`OnRead`). A session is counted once
for every answer (`Counted`), and `SessionsClosed` compares the two numbers. `mishaps` is a history of what
went wrong on a connection: a request `overtaken` a PONG, a receive that ended in an `error`.

### Arena and References

`pages`, the cursors and the counters are the arena's members; `handed` is the history of the blocks
handed out and `living` those not yet freed. One call is one step: there is one caller.
`deallocate_from_arena()` takes the size its caller names, which is `sizeof` of the class of the pointer:
of a base, if an `owning_ptr` or `ref` of the base releases the object. So `Free` gives back any size up
to that of the block, and `lost` is the history of the bytes it did not. A null pointer is counted like a
block (`FreeNull`), and `nulls` counts those. `LoopFrees` is what the loop of `deallocate_arena()`
reaches.

In `References` the release of a reference is three steps (`Decrement`, `ReadCount`, `Free`), everything
else one. `lost` counts references that were assigned over and never released, `raced` the
objects two threads released at the same time. A class and its base are the sizes 2 and 1.

### Graph

`edges` and `has_loops` are the struct's members; an edge is its target and weight, its list
says where it starts. `origin` is the history of which constructor made the graph: `new_graph()`
and `get_Kn(n, true)` do not set `has_loops` when they make loops, `read_graph_from_flatbuffer()`
does. `num_edges` is left out, as nothing reads it. `DepthFirst` and `Kahn` are the two branches of
`topological_sort()`, with `Kahn`'s copy of the graph and its in-degrees, which the code takes in the
graph itself. A loop of the sort is the function of what holds after each of its steps, with as many steps as
it can have: the loop over the stack has at most one for each node and each edge, and `SortEnds` says that
these are enough. `CycleIsNotSorted` compares the sort with the definition of a cycle of the community module
`Graphs`; `SortGoesByRoots` says what the sort does look at.

### LinearOps, Matrices, Binomials, NeuralNet

Real numbers are integers here, and the comparison with epsilon is one with `Epsilon`; the code's
`epsilon_sum` and its like flush a result that is too small, and `LinearOps` does. `Matrices` compares
the dynamic matrices with the static ones of `matrix.hpp`, which do not flush. The product of two dynamic
matrices has the columns of its first factor: one with more columns in its second factor fails an
assertion (`ProductEnds`). The static operator only compiles for square factors of one size (the
`static_assert`s of `matrix.hpp`), and `matrix_product` is its loop for the others as well. `Both` leaves
out the columns that only one of the two products has, so that dynamic products lose columns is
described, not refuted. `Binomials` works in `natural_t`: `Wrap` is the number of its values, and a sum
that does not fit leaves its remainder, which later rows build on. In `NeuralNet` all layers have relu,
whose derivative is exact on integers; `learn()` steps by the sum over the rows, so that nothing is
divided. The reference is the derivative computed forwards (`Speeds`), of the cost the comment at
`ann.cpp:311` gives. `compute_cost()` adds the error of a row once per output; with one output, the only
number the runs use, the two agree.

### LoggerLife

The instance is made by whoever asks for it, so also after `shutdown_tensor()`. Sinks are their ids and
levels. `given` is the history of what `register_sink()` returned.

### Faults

An operator under a comment `Fault:` is a plausible mistake in the operator after it. It is
used by no specification; it documents, with the `mutants` of `PROJECT.json`, that the
property named there fails if the code makes that mistake.

## 3. Runs

| Run | Question | Result |
|---|---|---|
| `lifecycle` | Are the hand-over, the handshakes and the messages safe under every interleaving, what is the comparison of two counts worth, is the service implemented, and does a stop end the thread and a signal the program? | holds, 215 074 states |
| `launch_enters_loop` | Is the loop running when `launch()` returns (`simulation.cpp:85`)? | violated |
| `tx_channel_alive` | Does the assertion of `simulation_state.cpp:97` hold? | violated |
| `control_session` | Which shutdowns of a connection complete, and what is counted? | holds, 51 936 states |
| `layer_is_described` | Is a layer that introduces itself sent its description (`session.cpp:180`)? | violated |
| `host` | Are scripted events followed, do libraries outlive their layers, and what terminates the program? | holds, 917 497 states |
| `arena` | Are blocks apart, in their pages, packed, and accounted for? | holds, 155 537 states |
| `arena_returns_pages` | Does closing the arena free its pages (`arena.cpp:106`)? | violated |
| `graph` | Do the loop flag, the uniqueness of edges, the degrees and the weights survive every sequence of calls, and when does the sort return an order? | holds, 48 792 states |
| `graph_cycle` | Is a cyclic graph never sorted (`graph.cpp:277`)? | violated |
| `tensorlib` | Are matrices, binomials, references, sinks and gradients what they should be after any calls? | holds, 232 328 states |
| `gradient` | Is what `backpropogate()` returns the gradient of the cost (`ann.cpp:313`)? | violated |

The properties of `lifecycle`: `ControlHandedOver`, `DrainedBeforeHandOver` (the hand-over to
the main thread), `ShutdownAnswerIsFresh`, `NoErrorWithoutStop`, `ControlMessageReachesItsPhase`,
`ShutdownRequestNotLost` (the shared queues), `ServesOnlyInitialized`, `StateMovesForward`,
`ImplementsService`, `StopEndsThread` and `SignalEndsProgram`. Of `control_session`: `CountedAfterAsked`
and `CountedOnce` (the count), `QuietShutdownIsClean`, `QuietShutdownCompletes` and `ShutdownCompletes`
(which races end in a hang), `StoppedSessionIsQuiet`. Of `host`: `ScriptIsFollowed`, `EventsHappen`
(the events), `LibraryOutlivesLayer`, `CrashHasCause` (the layers). Of `arena`: `BlocksDisjoint`,
`BlocksInPages`, `AccountsAgree`, `PagesArePacked`. Of `graph`: `LoopsAreFlagged`, `StaysSimple`,
`QueriesAgree`, `SortOutcome`. Of `tensorlib`: `DynamicMatchesStatic`, `CountsSubsets`,
`HeldIsAlive`, `DestroyedOnce`, `MessageReachesItsSinks`, `OneSampleGradientIsExact`.

**What some properties concede.** Several say what does go wrong, and that nothing else does.

- `CountedAfterAsked`: a request that names no type is accepted when it arrives together with the
  session's PONG, whose session type then stands for its own.
- `DrainedBeforeHandOver`, `ImplementsService`: the code compares two numbers, so a session that is
  counted twice stands for one that never answered. What is left is a bound: no more are missing than
  were counted twice.
- `AccountsAgree`: the report is off by the bytes that releases through a base did not give back and by the
  releases of null, and by nothing else.
- `CountsSubsets`: a number of subsets that does not fit in a `natural_t` is answered by its remainder.
- `HeldIsAlive`: the count is the number of references and of those assigned over (`ref.hpp:71`),
  so such an object is never destroyed.
- `DestroyedOnce`: two threads that release the last two references at once may both find the count 0.
- `CrashHasCause`: a layer listed twice, or an abandoned shutdown, ends in a pure virtual call; a layer
  whose session was accepted too late to be asked, or never, in a socket that is not connected or null. A
  handler may also find the socket null after a request that overtook the PONG (`session.cpp:166-177`
  queues it behind the request), since the session is counted while the layer still reads, and after a
  receive that failed, since that is read again.
- `ScriptIsFollowed` supposes that `start_all()` took less than one step.

**The hangs.** The liveness properties name the ways a shutdown does not complete, as
alternatives in their conclusions. Each was checked to be necessary: without it TLC finds a
behaviour that ends there.

- `LostStop`: the signal comes before the jthread is in its member; the stop goes nowhere,
  and the handler is not armed again.
- `Miscounted`: the drain loop goes on while some connection is not counted exactly once: it was accepted
  after `shutdown_nodes()` and never asked, it gives no answer (there is no timeout), or it gave one
  too many, so that `closed_nodes` is past the number of connections.
- `MissedWindow`: `SHUTTING_DOWN` passes between two reads of `cleanup()`, which spins.
- `IoRestarted`: `io_main()` restarts the context after `stop()` and before the stop request.
- a failed assertion (`iopc = "abort"`) ends the program in another way.
- In `ControlSession`: `Stranded` (a message queued behind a write that has just ended),
  `Rejected` (asked before the handshake), `Lost` (a joined receive, a clobbered
  buffer, an answer that came before the state said so) and `Gone` (the peer's end of the stream, which
  tells the control nothing).

**Bounds.** `Peers` has two members: one that connects in time and one that is late, one that is
counted twice and one that is missing; the code treats connections alike. A session alerts the control twice at
most, once for each of the two messages that share its buffer. `MaxEvents = 2` timer expiries are
enough to have one event in the queue and one handler outstanding when the timers are stopped, and to
restart a timer once. One session has one peer: sessions share only the count. The queues of
`ControlSession` need no bound. `Kinds` has both.

`host`: a step of two ticks, so that an expiry can fall between two steps, and `MaxTime = 5`, two steps
and one tick; scripts of up to two events (no id, the main step's id, a generated id, a range and an
interval) are the fewest that collide, and two layers the fewest with one closed before the other and one
counted for the other. `MCInit` has every script from time 0 without layers, and every list of layers and
files with an empty script at the end of time: timers and layers share the sim and the io thread only,
and no action of one reads the state of the other.

For the arena three pages are the fewest for which the closing loop frees some but not all and a middle
page is left; a page of 12 bytes with alignment 4 and the sizes 1, 5 and 11 gives padding, exact fits and
a block that needs a page of its own; `MaxAllocs = 7` fills three pages in mixed ways and reaches the
failed assertion; one release of null (`MaxNulls`) shows what each adds. `graph` has three nodes, the
fewest with a cycle beside a root, two weights and lists of up to two edges, so that parallel edges
differ, and four edges in all; `graph_cycle` needs two nodes.

`tensorlib`: the parts share no state, so each behaviour uses one (`part`). Matrices: two registers, five
samples of different shapes, four calls. Binomials: up to 11, so that the table of nine rows grows by
one, by several and not at all, with `Wrap = 256`, which the row of 11 exceeds. References: two objects,
two threads with three slots, one of the base class, and five operations, the fewest for a copy on the
other thread and two releases of which one is assigned over. Logger: `MaxSinkId = 4` in place of
`0xFFFF`, so that six calls go round. Networks: up to three layers of parameters and one or two rows of
data, two steps of training.

**Deadlock** is not checked: each program really ends (the process exits, the connection is
closed, the arena is closed or aborted, a graph or a matrix is only used as long as its caller likes),
and the hangs above are found as liveness.

**Fairness.** `FairSpec` of the lifecycle assumes that the operating system runs the main, the sim and
the io thread whenever they can run (weak fairness of `Main`, `Sim` and `IoStep`), and nothing else.
Signals, connections, expiries and the answers of the peers are not fair: they may never come, as
`ControlSession` shows of the answers, and the code waits for them without a timeout; that it then drains
for ever is in the conclusions (`Miscounted`). In `ControlSession` the io handlers, the sim thread once
it has begun and the final stop are weakly fair, the begin of the shutdown is not. In `SimulationHost`
the sim thread (`Sim`) and the handlers of the io context (`Io`, `IoHandler`) are weakly fair; a stop,
the network and the passing of time are not.

## 4. Proofs

Each theorem holds for every value of the constants that satisfies the assumption of the module it is about.
An invariant a run checks is seldom inductive; what was added to it, and why, is the argument of its proof.
Every inductive invariant was first checked by TLC on the instance of its run.

**The lifecycle** (`ConstantsAssumption`: `MaxEvents` is a number; any set of peers, finite or not).

- `TypeCorrect`: `TypeOK` is inductive, one step per action.
- `HandOver`: `HandOverInv` is inductive relative to `TypeOK`. `ControlHandedOver` speaks of one main
  thread position, and says nothing of how it got there. The invariant adds that `state` is a function
  of the sim thread's position (`StateFollowsThread`), that a main thread position bounds the sim
  thread's (`ThreadOrder`), and that no connection is asked or counted before the drain loop
  (`AskedFromDrain`). `ControlIsHandedOver` and `StateOnlyMovesForward` follow.
- `NodesDrainedBeforeHandOver`: the code only has `closed_nodes`, so the proof says whose alerts it
  counts. By `AlertsAreAccounted`, `closed_nodes` and the queue of dead connections together are one for
  every session that answered and one more for every one that did so twice (`CountInv`). Those asked and
  those that answered are different connections, so when the drain ends because the numbers are equal, no
  more are asked than were counted twice; and no more are asked after that.
- `ThreadsImplementService`: every step maps to a step of `SimulationService` or to a stutter, under
  `servicePhase` and `serviceConn`. The end of the drain is the step that needs `CountInv`: equal numbers
  with no session counted twice mean that all have answered and none came late (`CountsTell`).
- `QueuesAreAccounted`: the threads take messages without matching them to
  what they sent, so freshness is a matter of counting. `MessagesInv` says of either queue what may be in
  it, in which order, given the positions of both threads: the answers sent so far (`Answered`) less
  those taken, the one initialization before any event, the shutdown after the last. From it follow
  `AnswersAreFresh`, `ErrorsFollowStops`, `LoopServesInitialized`, `ShutdownStaysQueued` and
  `LoopTakesOnlyEvents`.

**A connection** (`ControlSessionProofs`, `KindsAssumption`: nodes and layers). Nothing in the code
bounds a write queue. But a connection carries two exchanges, PING and PONG, request and acknowledgement,
and no step makes an exchange longer; so the messages that are queued, in a buffer, on a stream or counted are
bounded together by what is left of the exchanges. That bounds queues, streams and outstanding
operations (`SessionTypesHold`). An acknowledgement exists only where a request was read
(`CountedPeersWereAsked`), and the request and its answer are in one place, unless both threads used the
one write buffer at once (`ConnectionsAreCountedOnce`). For a shutdown that finds the connection at rest
the handshake is followed step by step, and then the phases of the shutdown (`QuietShutdownsAreClean`).

**Events** (`SimulationHostProofs`, `TimersAssumption`: a step is at least one tick and scripts are lists of
events; `LayersAssumption`). `HostTypes` and `ScriptsAreFollowed` follow from `EventsInvariant`. The sim thread
takes messages in the order of the queue, which is the order in which handlers ran, which is the order in
which timers expired. So the invariant orders all of them in one sequence (`Fired`), and says of it that an
event is in it once at most and the main step keeps pace with the clock: the main step that is armed
expires one interval after the last one, or later, so no more steps come before an expiry than fit before its
time. That `start_all()` took less than a step is the premise of the property itself.

**Layers** (`SimulationHostProofs`, `LayersAssumption`: the layers of a configuration are paths, of which there
are finitely many).

- `LibrariesOutliveLayers`: `LibraryOutlivesLayer` is not inductive, since `BindLayer` changes a library
  and `UnloadLibraries` all of them. `LibraryInv` adds that a library in the map is one of the
  `bound` layers handled so far and that a layer comes from a file that makes one.
- `CrashesHaveCauses`: layers are closed when the two numbers are equal. Unless a request overtook a
  PONG, a session is counted once at most, since its layer answers the request it reads and reads no
  other (`ConnectionInv`, where `Told` is the number of requests read); and if none is counted twice,
  equal numbers mean that each was counted (`EqualCounts`). So each that was asked was (`PhaseInv`), and
  for such a layer the request was the last thing to read: its receive can only fail when the socket is
  closed, and that handler does not use the socket.

**The arena** (`ArenaProofs`, `ArenaAssumption`: page size, alignment and number of pages are positive, a
block is smaller than a page and not empty; `MaxAllocs` and `MaxNulls` are numbers).

- `DistinctBlocksShareNoByte`: a block is placed by the cursors alone, so `BlocksDisjoint`
  needs that every block handed out, freed or not, ends before the cursors (`ArenaInv`).
- `BlocksLieInPages`: with `PagesInv`, and the arithmetic of the padding (`AlignedDivides`).
- `ArenaTypes`, `PagesStayPacked`: the last block ends at the cursors, and `num_pages` is the number of pages
  up to them (`ShapeInv`).
- `ReportIsAccounted`: a sum over the living blocks cannot be reasoned about by induction here; the model states
  it as the number of their bytes and of the bytes in `lost`, of which a release removes as many as its caller
  named (`FreeCounted`). Releases of null are added on the other side (`FreeNullCounted`).

**The graph** (`GraphProofs`, `GraphAssumption`: one node at least, positive weights). What the code finds by a
loop over a list is the entry of least index; that it exists is the well-foundedness of the naturals
(`LeastIndex`). On it rest the lemmas about the edge operations, and on those `GraphTypes`,
`FlagTellsOfLoops` and `EdgesStayUnique`, for lists of every length. `QueriesAnswerAlike` counts the edges of
a node in two ways: the nodes below `n` are led to by the edges that lead below `n`, by induction on `n`
(`UpTo`, a least counterexample again). The loops of the code that add up are the recursive function
`SumOf`; that its partial sums exist, and are the only ones (`SumsExist`, `SumIs`), is proved first.

The sort is proved about loop by loop: a loop whose steps stay in a set has its values there
(`LoopRuns`), and the set says what the loop keeps. A visit marks the nodes it lists and no others, as
deep as it goes (`FollowIs`, `VisitIs`); so between two visits the marked nodes are those listed, the
test for a cycle never holds, and depth first lists every node (`DepthFirstIs`). In the other branch the
stack together with the edges of the copy shrinks with every node taken (`TakeIs`), so the loop ends
(`SortEnds`). Where the flag tells the truth a node an edge leads to has an in-degree, so nothing is
pushed and what is listed are the nodes the stack began with (`KahnIs`). `SortHasItsOutcome` follows,
with a count of the places of a list without repetitions (`Pigeons`).

**References** (`LibraryProofs`, `ReferencesAssumption`: finitely many threads and references; the two
words that stand for no object are none). A release decrements the count and reads it later, so neither
the count nor what it says is stable. `RefInv` accounts for every object: the count is the number of
references that hold it and were not counted off, of values that are coming into a reference, and of
references assigned over (`CountInv`); a thread that goes on to free has read 0, and from 0 no holder
comes back (`LifeInv`); unless two threads were releasing it at once, one thread has counted it off
(`FreeInv`). Each operation changes the account by one element of a set (`PutCounts`, `BeginCounts`,
`OffCounts`, `DoneCounts`). `HeldObjectsLive` and `ObjectsDieOnce` follow, the latter with the bytes of
the arena (`LivingInv`).

**The logger** (`LibraryProofs`, `LoggerAssumption`: there is an id, and the empty name is no logger's).
`SinksInv` says that the sinks of the instance are the ids it returned, and the sinks of each of its loggers
those registered with it. It is stated of an instance and a history, as the initialization of the
library makes three changes in one step. `MessagesReachTheirSinks` follows.

**The binomials** (`MatricesProofs`, `BinomialsAssumption`: one row at least is computed in advance, and
a `natural_t` has two values or more). Subsets of `n + 1` numbers are those without `n + 1` and those
with it, so the numbers of subsets obey the rule the rows are built by (`Pascal`), and a sum of two
remainders leaves the remainder of the sum (`WrappedSum`); then every row of the table is the row of
those numbers and a table that grows stays one (`RowAfterIsNext`, `GrownIs`, by least counterexamples).
`CoefficientsCountSubsets` also needs that there are as many subsets as complements, since the code looks
up the smaller half (`ChooseSymmetric`).

**The matrices** (`MatricesProofs`, `MatricesAssumption`: epsilon is positive, the constructors make as many
elements as the size says). An element is found by row times columns plus column, which is inside the data and
tells the row and the column it came from (`InsideMatrix`, `PlaceTells`), so what is made of rows has their
elements in place (`FlattenPlaces`). A flush is off by less than epsilon; both dot products run in step, and
each step adds two flushes to what they differ by (`DotsAreNear`). `DynamicIsNearStatic` follows operation by
operation; its invariant `MatInv` is that every register holds a matrix and `vec` a list of numbers.

**The networks** (`NeuralNetProofs`, `NetworksAssumption`: two layers at least, of positive sizes, with
weights and biases that fit them, and one row of data at least). `forward()` asserts sizes that fit, a
network of one layer has no parameters, and the cost is divided by the number of rows. Of integers
nothing is flushed at epsilon 1 (`NothingFlushed`), so the vectors the network computes are exact.
Backpropagation computes the derivatives by the outputs from the last layer down, the reference computes
speeds from the parameter up, and one layer's product of what comes down and what goes up is the next
one's: the transposed matrix in the one is the matrix in the other (`Transposed`, `Adjoint`). So the
product at the last layer, which is the derivative of the cost of the row, is the product at the
parameter, which is what the row adds to the gradient (`RowAdds`). The recursions over the layers go by
induction up and down (`Upward`, `Downward`). `NetInv` says that the network and the gradient keep their
shapes, that the gradient has outputs for every layer in between, zeros before the first row, and, if
there is one row or no layer in between, that it holds the sum of the derivatives of the rows done
(`Sums`). Without that premise it does not: what a row leaves in the outputs of the gradient is added to
by the next (run `gradient`). `TrainingFollowsGradient` follows.

**Only model-checked.** Everything temporal beyond safety: `StopEndsThread`, `SignalEndsProgram`,
`ShutdownCompletes`, `QuietShutdownCompletes`, `StoppedSessionIsQuiet` and `EventsHappen` are liveness
under fairness. Every invariant the runs check is stated by a theorem. (What recursive definitions
compute is proved by least counterexamples over the naturals, as above, since the induction theorems of
the library take an operator.)

## 5. Not modelled

- `extern/` (vendored), `gpu/`, the generated message headers (`fb_specs/`) and configuration files.
- Random numbers, Monte Carlo, sigmoid, the finite difference, random initialization of networks,
  magnitudes and square roots: they are about real numbers or distributions, not steps or states.
- The node side of a layer (`listen_for_nodes`, its write queue, the simulation buffers): a layer
  begins to listen when it reads `SIM_DESCRIPTION`, and run `layer_is_described` shows that it is never sent.
  For the same reason `node_initialization_request` and the parser of a description are left out.
- `get_next_node_id()`, which one thread calls; `num_edges`, which nothing reads; views, which hold no
  count; the symbol cache of a library; patterns and text of the logger.
- Races whose outcomes cannot be listed: torn containers, and several threads in the arena.

Of asio the models take what the code relies on: handlers run one at a time on the io thread, a
cancel does not recall a queued handler, a stream keeps order and joins messages.

## 6. Findings

Each is a run that TLC refutes, listed with its lines in `PROJECT.json`: `launch()` returns before
the loop runs; a timer handler outlives the channel it asserts; a layer is never described; closing the
arena leaves every second page; a cyclic graph is sorted; the gradient over several rows carries the
deltas of the row before.

## 7. What is left

Models to come, if the code comes to reach them: the node side of a layer, composed with
`ControlSession`; two full sessions over one control, in place of the count of their alerts that
`SimulationLifecycle` and `LayerHost` have.
