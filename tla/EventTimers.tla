----------------------------- MODULE EventTimers -----------------------------
(***************************************************************************)
(* The event handler of a simulation: the events of the configuration, the  *)
(* timers made for them, the io thread that runs the expired timers and the *)
(* queue it fills for the sim thread.  The timer with key 0 is the main     *)
(* step; it starts again after every expiry.                                *)
(***************************************************************************)
EXTENDS Integers, Sequences, FiniteSets, FiniteSetsExt

CONSTANTS Interval,   (* main_step_interval, in ticks of the clock *)
          MaxTime,    (* bound: the clock stops here *)
          Scripts     (* the lists of events a configuration may have *)

NoId == -1            \* an event without an id
Off == -1             \* a timer that does not wait
MainStep == 0         \* kMainStepEventId

\* event_key: the steps and the interval are natural_t.
EventKey == [id : Nat \cup {NoId}, interval : Nat, first : Nat, last : Nat]

ASSUME TimersAssumption ==
  /\ Interval \in Nat \ {0} /\ MaxTime \in Nat
  /\ Scripts \subseteq Seq(EventKey)

VARIABLES script,     (* the events of the configuration: id, interval, first and last step *)
          timers,     (* event_timers: the period and the expiry of each timer *)
          events,     (* events: the registered events that have not been triggered *)
          now,        (* the clock *)
          ready,      (* keys of the expired timers whose handlers the io context will run *)
          queue,      (* the channel to the sim thread: MainStep, or the place of an event *)
          begun       (* history: when start_all() started each timer *)

timerVars == <<script, timers, events, now, ready, queue, begun>>

\* process_events(): the counter of generate_event_id() advances for every event, also for
\* those that have an id, so it is the place in the list.
Key(k) == IF script[k].id = NoId THEN k ELSE script[k].id

\* ... and the map keeps the first event of each key.  The keys compare by id alone.
config == [i \in {Key(k) : k \in DOMAIN script} |-> Min({k \in DOMAIN script : Key(k) = i})]

\* An event whose time is not set keeps what its memory held, so it may be any of Scripts.
OneShot(k) == script[k].interval = 0 /\ script[k].first = script[k].last

TimersInit ==
  /\ script \in Scripts
  /\ timers = <<>> /\ events = <<>> /\ begun = <<>>
  /\ now \in 0..MaxTime /\ ready = <<>> /\ queue = <<>>

-----------------------------------------------------------------------------
\* Fault: steps are counted from one.
WaitLonger(k) == (script[k].first + 1) * Interval

\* wait_period of register_scripted_event(), for the one-off events that bind_control_events()
\* lets through.  For another event no timer is made, which the next assertion refuses.
WaitPeriod(k) == script[k].first * Interval

\* set_main_step_interval()
MainStepTimer == [wait |-> Interval, due |-> Off]

\* bind_control_events() on the main thread: the main step first, so an event with its key
\* finds the key taken and is dropped.
BindControlEvents ==
  LET registered == {i \in DOMAIN config : OneShot(config[i]) /\ i # MainStep}
  IN  /\ timers' = [i \in registered \cup {MainStep} |->
                      IF i = MainStep THEN MainStepTimer
                      ELSE [wait |-> WaitPeriod(config[i]), due |-> Off]]
      /\ events' = [i \in registered |-> config[i]]
      /\ UNCHANGED <<script, now, ready, queue, begun>>

\* start_all() on the sim thread starts one timer after the other in the order of their keys;
\* the first ones may expire meanwhile.
Unstarted == DOMAIN timers \ DOMAIN begun
StartNext ==
  /\ Unstarted # {}
  /\ LET i == Min(Unstarted)
     IN  /\ timers' = [timers EXCEPT ![i].due = now + timers[i].wait]
         /\ begun' = [j \in DOMAIN begun \cup {i} |-> IF j = i THEN now ELSE begun[j]]
  /\ UNCHANGED <<script, events, now, ready, queue>>

\* stop_all(): no timer waits any more, but a handler that is ready is not recalled.
StopAll ==
  /\ timers' = [i \in DOMAIN timers |-> [timers[i] EXCEPT !.due = Off]]
  /\ UNCHANGED <<script, events, now, ready, queue, begun>>

-----------------------------------------------------------------------------
Tick ==
  /\ now < MaxTime
  /\ now' = now + 1
  /\ UNCHANGED <<script, timers, events, ready, queue, begun>>

\* asio completes the waits that are over in the order of their expiry.
Waiting == {i \in DOMAIN timers : timers[i].due # Off}
Expire(i) ==
  /\ i \in Waiting /\ timers[i].due <= now
  /\ \A j \in Waiting : timers[i].due <= timers[j].due
  /\ timers' = [timers EXCEPT ![i].due = Off]
  /\ ready' = Append(ready, i)
  /\ UNCHANGED <<script, events, now, queue, begun>>

\* Fault: the event is erased before it is read.
TriggerEventErased(i) ==
  /\ events' = [j \in DOMAIN events \ {i} |-> events[j]]
  /\ UNCHANGED <<queue, timers>>

\* trigger_event() of a registered event: the message is pushed and the event forgotten.  Its
\* timer stays, as the io context may still hold its handler.
TriggerEvent(i) ==
  /\ queue' = Append(queue, events[i])
  /\ events' = [j \in DOMAIN events \ {i} |-> events[j]]
  /\ UNCHANGED timers

\* on_timeout() of the main step: the step is pushed and the timer started again, stopped or not.
MainTimeout ==
  /\ queue' = Append(queue, MainStep)
  /\ timers' = [timers EXCEPT ![MainStep].due = now + Interval]
  /\ UNCHANGED events

\* The io thread runs the next handler.
RunTimeout ==
  /\ ready # <<>>
  /\ ready' = Tail(ready)
  /\ IF Head(ready) = MainStep THEN MainTimeout ELSE TriggerEvent(Head(ready))
  /\ UNCHANGED <<script, now, begun>>

IoTimers == (\E i \in DOMAIN timers : Expire(i)) \/ RunTimeout

\* An event is registered unless it repeats or its key is taken: by the main step, by an earlier
\* event with its id, or by an earlier event whose place is its id.
Registered(k) == OneShot(k) /\ Key(k) # MainStep /\ config[Key(k)] = k
=============================================================================
