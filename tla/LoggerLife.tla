------------------------------ MODULE LoggerLife ------------------------------
(***************************************************************************)
(* The library between init_tensor() and shutdown_tensor(): the logger and  *)
(* its sinks, a singleton that is made again by whoever asks for it, and    *)
(* the state that points to it and to the main arena.                       *)
(***************************************************************************)
EXTENDS Integers, Sequences, FiniteSets, SequencesExt

CONSTANTS MaxSinkId,   (* kMaxSinkId: 0xFFFF in the code *)
          Names,       (* names of loggers besides that of the core; "" stands for no logger *)
          MaxLogCalls  (* bound: calls in one behaviour *)

ASSUME LoggerAssumption == MaxSinkId \in Nat \ {0} /\ MaxLogCalls \in Nat /\ "" \notin Names

Core == "tensorlib-core-log"
Trace == 0
Info == 1
Off == 2               \* spdlog::level

NoLogger == [loggers |-> <<>>, sinks |-> <<>>, next |-> 0]    \* instance == nullptr
NewLogger == [loggers |-> <<>>, sinks |-> <<>>, next |-> 1]

VARIABLES logger,      (* the instance: loggers by name, sinks by id, next_sink_id *)
          up,          (* tensorlib() holds the logger and the arena *)
          given,       (* history: what register_sink() returned since the logger was made *)
          sent,        (* history: the message that was sent last, if nothing came after it, and
                          the sinks it reached *)
          failures,    (* history: calls that were written to the failure file only *)
          ended,       (* a failed assertion ended the program *)
          logCalls

logVars == <<logger, up, given, sent, failures, ended, logCalls>>

NothingSent == [to |-> Core, level |-> Off, sinks |-> {}]
LoggerInit ==
  /\ logger = NoLogger /\ up = FALSE /\ given = <<>> /\ sent = NothingSent
  /\ failures = 0 /\ ended = FALSE /\ logCalls = 0

-----------------------------------------------------------------------------
\* subsystem<logger>::get() makes an instance if there is none.
Instance(l) == IF l = NoLogger THEN NewLogger ELSE l

Extend(f, x, y) == [z \in DOMAIN f \cup {x} |-> IF z = x THEN y ELSE f[z]]

\* create_logger(): an existing logger stays.
Created(l, name, level) ==
  IF name \in DOMAIN l.loggers THEN l
  ELSE [l EXCEPT !.loggers = Extend(@, name, [level |-> level, sinks |-> {}])]

\* The loggers of these names get the sink.
WithSink(loggers, names, id) ==
  [n \in DOMAIN loggers |->
     IF n \in names THEN [loggers[n] EXCEPT !.sinks = @ \cup {id}] ELSE loggers[n]]

\* Fault: after the last id the first one is given again, whether it is in use or not.
RegisteredOver(l, names, level) ==
  LET id == IF l.next = MaxSinkId THEN 1 ELSE l.next + 1
  IN  [l EXCEPT !.next = id, !.sinks = Extend(@, id, level), !.loggers = WithSink(@, names, id)]

\* register_sink() of a sink that can be made.  The first id is 2; after the last one they begin
\* again at 1, and an id that is in use is refused.  The sink is added to those of the loggers
\* that exist.
Registered(l, names, level) ==
  LET id == IF l.next = MaxSinkId THEN 1 ELSE l.next + 1
      named == [l EXCEPT !.next = id]
  IN  IF id \in DOMAIN l.sinks THEN named
      ELSE [named EXCEPT !.sinks = Extend(@, id, level), !.loggers = WithSink(@, names, id)]

\* What the caller is told: the id, unless it was in use.
Given(l, names, level) ==
  LET m == Registered(l, names, level)
  IN  IF m.next \in DOMAIN l.sinks THEN <<>>
      ELSE <<[id |-> m.next, level |-> level, logs |-> names \cap DOMAIN l.loggers]>>

\* The logger drops what is below its level, and each sink what is below its own.
Reached(l, name, level) ==
  IF name \notin DOMAIN l.loggers \/ level < l.loggers[name].level THEN {}
  ELSE {id \in l.loggers[name].sinks : l.sinks[id] <= level}

-----------------------------------------------------------------------------
Calling == ~ended /\ logCalls < MaxLogCalls /\ logCalls' = logCalls + 1
Fails(n) == failures' = failures + n

\* The core logger with a console and a file
initialize_logger ==
  LET made == Created(Instance(logger), Core, Trace)
      console == Registered(made, {Core}, Info)
      both == Registered(console, {Core}, Trace)
  IN  /\ logger' = both
      /\ given' = given \o Given(made, {Core}, Info) \o Given(console, {Core}, Trace)
      /\ sent' = [to |-> Core, level |-> Info, sinks |-> Reached(both, Core, Info)]
      /\ Fails((IF Core \in DOMAIN logger.loggers THEN 1 ELSE 0) + 2 - (Len(given') - Len(given)))

\* The new state holds the instances of the logger and of the arena.
init_tensor == Calling /\ initialize_logger /\ up' = TRUE /\ UNCHANGED ended

\* The instance is destroyed, with the sinks it gave.
shutdown_logger == logger' = NoLogger /\ given' = <<>> /\ UNCHANGED failures

\* Then the arena is closed and the state cleared.  Without init_tensor() there is no arena, which
\* an assertion refuses; its message makes a logger.
shutdown_tensor ==
  /\ Calling
  /\ IF up THEN shutdown_logger /\ UNCHANGED ended
           ELSE logger' = Instance(logger) /\ ended' = TRUE /\ Fails(1) /\ UNCHANGED given
  /\ up' = FALSE /\ sent' = NothingSent

create_logger(name, level) ==
  /\ Calling
  /\ logger' = Created(Instance(logger), name, level)
  /\ Fails(IF name \in DOMAIN logger.loggers THEN 1 ELSE 0)
  /\ sent' = NothingSent /\ UNCHANGED <<up, given, ended>>

\* No loggers, no factory, no name, no pattern, or a factory that returns null: no id is used.
register_fails ==
  /\ Calling /\ logger' = Instance(logger) /\ Fails(1)
  /\ sent' = NothingSent /\ UNCHANGED <<up, given, ended>>

register_sink(names, level) ==
  LET l == Instance(logger)
  IN  /\ Calling
      /\ logger' = Registered(l, names, level)
      /\ given' = given \o Given(l, names, level)
      /\ Fails(IF given' = given THEN 1 ELSE Cardinality(names \ DOMAIN l.loggers))
      /\ sent' = NothingSent /\ UNCHANGED <<up, ended>>

\* send_log() to a logger
send_log(level, name) ==
  LET l == Instance(logger)
  IN  /\ Calling /\ logger' = l
      /\ sent' = [to |-> name, level |-> level, sinks |-> Reached(l, name, level)]
      /\ Fails(IF name \in DOMAIN l.loggers THEN 0 ELSE 1)
      /\ UNCHANGED <<up, given, ended>>

\* send_log() to a sink: its own level counts only if it is off.
send_to_sink(level, id) ==
  LET l == Instance(logger)
      found == id # 0 /\ id \in DOMAIN l.sinks
  IN  /\ Calling /\ logger' = l
      /\ sent' = [to |-> "", level |-> level,
                  sinks |-> IF found /\ l.sinks[id] # Off THEN {id} ELSE {}]
      /\ Fails(IF found THEN 0 ELSE 1)
      /\ UNCHANGED <<up, given, ended>>

LoggerNext ==
  \/ init_tensor \/ shutdown_tensor \/ register_fails
  \/ \E level \in {Trace, Info}, name \in Names : create_logger(name, level)
  \/ \E level \in {Trace, Off}, names \in {{Core}, Names, Names \cup {Core}} : register_sink(names, level)
  \/ \E level \in {Trace, Info} :
       \/ \E name \in Names \cup {Core} : send_log(level, name)
       \/ \E id \in {0, 2} : send_to_sink(level, id)

-----------------------------------------------------------------------------
\* An id that was returned names the sink it was returned for as long as the logger lives,
\* however often the ids begin again; and a message to a logger reaches every sink that was
\* registered with it and wants its level, and no other.
MessageReachesItsSinks ==
  /\ \A i, j \in DOMAIN given : given[i].id = given[j].id => i = j
  /\ \A i \in DOMAIN given : given[i].id \in DOMAIN logger.sinks
                             /\ logger.sinks[given[i].id] = given[i].level
  /\ sent.to \in DOMAIN logger.loggers /\ sent.level >= logger.loggers[sent.to].level
     /\ sent # NothingSent =>
       sent.sinks = {g.id : g \in {h \in ToSet(given) : sent.to \in h.logs /\ h.level <= sent.level}}
=============================================================================
