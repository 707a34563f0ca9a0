--------------------- MODULE SimulationLifecycleProofs ---------------------
(***************************************************************************)
(* Theorems about SimulationLifecycle, for every set of peers and every    *)
(* bound on the timer: types, the hand-over to the main thread, the        *)
(* service it implements, and which messages can be in the two queues      *)
(* between the main thread and the sim thread when a thread reads.         *)
(***************************************************************************)
EXTENDS SimulationLifecycle, FiniteSetTheorems, TLAPS

USE ConstantsAssumption

\* Every step keeps every variable in its type.
LEMMA TypeStep == TypeOK /\ [Next]_vars => TypeOK'
<1> SUFFICES ASSUME TypeOK, [Next]_vars PROVE TypeOK'
  OBVIOUS
<1> USE DEF TypeOK, States, Messages, Answers, MainPcs, SimPcs, IoPcs, TimerStates, PeerStates
<1>1. CASE MainLaunch
  BY <1>1 DEF MainLaunch, MainGoes, Alive, flagVars, timerVars, peerVars
<1>2. CASE MainAssignThread
  BY <1>2 DEF MainAssignThread, MainGoes, Alive, flagVars, timerVars, peerVars
<1>3. CASE MainSpinLaunch
  BY <1>3 DEF MainSpinLaunch, MainGoes, Alive, flagVars, timerVars, peerVars
<1>4. CASE MainSendInit
  BY <1>4 DEF MainSendInit, MainGoes, Alive, MainPush, flagVars, timerVars, peerVars
<1>5. CASE MainInitAck
  <2> USE <1>5 DEF MainInitAck, MainGoes, Alive, WaitForAck, flagVars, timerVars, peerVars
  <2>1. error' \in BOOLEAN
    BY ZenonT(40)
  <2>2. acks' = acks \/ (acks # <<>> /\ acks' = Tail(acks))
    OBVIOUS
  <2>3. acks \in Seq(Answers) /\ (acks # <<>> => Tail(acks) \in Seq(Answers))
    OBVIOUS
  <2>4. acks' \in Seq(Answers)
    BY <2>2, <2>3
  <2> QED
    BY <2>1, <2>4, SMTT(30)
<1>6. CASE MainSendStart
  BY <1>6 DEF MainSendStart, MainGoes, Alive, MainPush, flagVars, timerVars, peerVars
<1>7. CASE MainLaunchError
  BY <1>7 DEF MainLaunchError, MainGoes, Alive, flagVars, timerVars, peerVars
<1>8. CASE MainPollWaiting
  BY <1>8 DEF MainPollWaiting, MainGoes, Alive, flagVars, timerVars, peerVars
<1>9. CASE MainPollProcessing
  BY <1>9 DEF MainPollProcessing, MainGoes, Alive, flagVars, timerVars, peerVars
<1>10. CASE MainSpinCleanup
  BY <1>10 DEF MainSpinCleanup, MainGoes, Alive, flagVars, timerVars, peerVars
<1>11. CASE MainSendShutdown
  BY <1>11 DEF MainSendShutdown, MainGoes, Alive, MainPush, flagVars, timerVars, peerVars
<1>12. CASE MainShutdownAck
  <2> USE <1>12 DEF MainShutdownAck, MainGoes, Alive, WaitForAck, flagVars, timerVars, peerVars
  <2>1. error' \in BOOLEAN
    BY ZenonT(40)
  <2>2. acks' \in Seq(Answers)
    OBVIOUS
  <2> QED
    BY <2>1, <2>2, SMTT(30)
<1>13. CASE MainCloseControl
  BY <1>13 DEF MainCloseControl, MainGoes, Alive, flagVars, timerVars, peerVars
<1>14. CASE MainJoin
  BY <1>14 DEF MainJoin, MainGoes, Alive, flagVars, timerVars, peerVars
<1>15. CASE MainDropChannels
  <2>1. tx' \in BOOLEAN
    BY <1>15, Zenon DEF MainDropChannels, MainGoes, Alive, flagVars, timerVars, peerVars
  <2> QED
    BY <1>15, <2>1 DEF MainDropChannels, MainGoes, Alive, flagVars, timerVars, peerVars
<1>16. CASE MainStopIo
  BY <1>16 DEF MainStopIo, MainGoes, Alive, flagVars, timerVars, peerVars
<1>17. CASE MainRequestIoStop
  BY <1>17 DEF MainRequestIoStop, MainGoes, Alive, flagVars, timerVars, peerVars
<1>18. CASE MainJoinIo
  BY <1>18 DEF MainJoinIo, MainGoes, Alive, flagVars, timerVars, peerVars
<1>19. CASE SimMakeChannels
  BY <1>19 DEF SimMakeChannels, SimGoes, Alive, simKeeps, flagVars, timerVars, peerVars
<1>20. CASE SimEnter
  BY <1>20 DEF SimEnter, SimGoes, Alive, simKeeps, flagVars, timerVars, peerVars
<1>21. CASE SimInitMessage
  BY <1>21 DEF SimInitMessage, SimGoes, Alive, simKeeps, flagVars, timerVars, peerVars
<1>22. CASE SimInitGivesUp
  BY <1>22 DEF SimInitGivesUp, SimGoes, Alive, simKeeps, flagVars, timerVars, peerVars
<1>23. CASE SimInitAck
  BY <1>23 DEF SimInitAck, SimGoes, Alive, simKeeps, SimAnswer, flagVars, timerVars, peerVars
<1>24. CASE SimStartMessage
  BY <1>24 DEF SimStartMessage, SimGoes, Alive, simKeeps, flagVars, timerVars, peerVars
<1>25. CASE SimStartTimeout
  BY <1>25 DEF SimStartTimeout, SimGoes, Alive, simKeeps, flagVars, timerVars, peerVars
<1>26. CASE SimStartTest
  BY <1>26 DEF SimStartTest, SimGoes, Alive, simKeeps, flagVars, timerVars, peerVars
<1>27. CASE SimStartTimers
  BY <1>27 DEF SimStartTimers, SimGoes, Alive, simKeeps, flagVars, timerVars, peerVars
<1>28. CASE SimWaiting
  BY <1>28 DEF SimWaiting, SimGoes, Alive, simKeeps, flagVars, timerVars, peerVars
<1>29. CASE SimHandleMessage
  BY <1>29 DEF SimHandleMessage, SimGoes, Alive, simKeeps, flagVars, timerVars, peerVars
<1>30. CASE SimManage
  BY <1>30 DEF SimManage, SimGoes, Alive, simKeeps, Polled, flagVars, timerVars, peerVars
<1>31. CASE SimLoopTest
  BY <1>31 DEF SimLoopTest, SimGoes, Alive, simKeeps, flagVars, timerVars, peerVars
<1>32. CASE SimStopTimers
  BY <1>32 DEF SimStopTimers, SimGoes, Alive, simKeeps, flagVars, timerVars, peerVars
<1>33. CASE SimAskNodes
  BY <1>33 DEF SimAskNodes, SimGoes, Alive, simKeeps, flagVars, timerVars, peerVars
<1>34. CASE SimNotDrained
  BY <1>34 DEF SimNotDrained, SimGoes, Alive, simKeeps, flagVars, timerVars, peerVars
<1>53. CASE SimPoll
  BY <1>53 DEF SimPoll, SimGoes, Alive, simKeeps, Polled, flagVars, timerVars, peerVars
<1>35. CASE SimDrained
  BY <1>35 DEF SimDrained, SimGoes, Alive, simKeeps, flagVars, timerVars, peerVars
<1>36. CASE SimShutdownMessage
  <2>1. running' \in BOOLEAN /\ finalized' \in BOOLEAN /\ error' \in BOOLEAN
    BY <1>36, Zenon DEF SimShutdownMessage, SimGoes, Alive, simKeeps, flagVars, timerVars, peerVars
  <2> QED
    BY <1>36, <2>1 DEF SimShutdownMessage, SimGoes, Alive, simKeeps, flagVars, timerVars, peerVars
<1>37. CASE SimShutdownTimeout
  BY <1>37 DEF SimShutdownTimeout, SimGoes, Alive, simKeeps, flagVars, timerVars, peerVars
<1>38. CASE SimShutdownTest
  BY <1>38 DEF SimShutdownTest, SimGoes, Alive, simKeeps, flagVars, timerVars, peerVars
<1>39. CASE SimShutdownAck
  BY <1>39 DEF SimShutdownAck, SimGoes, Alive, simKeeps, SimAnswer, flagVars, timerVars, peerVars
<1>40. CASE SimExit
  BY <1>40 DEF SimExit, SimGoes, Alive, simKeeps, flagVars, timerVars, peerVars
<1>41. CASE IoTimeout
  BY <1>41 DEF IoTimeout, ioKeeps, IoServing, flagVars, timerVars, peerVars
<1>42. CASE IoRearm
  BY <1>42 DEF IoRearm, ioKeeps, IoGoes, flagVars, timerVars, peerVars
<1>43. CASE IoRequestStop
  BY <1>43 DEF IoRequestStop, ioKeeps, IoGoes, flagVars, timerVars, peerVars
<1>44. CASE IoRunReturns
  BY <1>44 DEF IoRunReturns, ioKeeps, IoGoes, flagVars, timerVars, peerVars
<1>45. CASE IoRestart
  BY <1>45 DEF IoRestart, ioKeeps, IoGoes, flagVars, timerVars, peerVars
<1>46. CASE IoTest
  BY <1>46 DEF IoTest, ioKeeps, flagVars, timerVars, peerVars
<1>47. CASE TimerExpires
  BY <1>47 DEF TimerExpires, ioKeeps, Alive, flagVars, timerVars, peerVars
<1>48. CASE IoSignal
  <2>1. running' \in BOOLEAN
    BY <1>48, Zenon DEF IoSignal, ioKeeps, IoServing, flagVars, timerVars, peerVars
  <2> QED
    BY <1>48, <2>1 DEF IoSignal, ioKeeps, IoServing, flagVars, timerVars, peerVars
<1>54. ASSUME NEW p \in Peers, IoConnect(p) PROVE TypeOK'
  BY <1>54 DEF IoConnect, ioKeeps, Alive, AcceptorOpen, flagVars, timerVars, peerVars
<1>49. ASSUME NEW p \in Peers, IoAccept(p) PROVE TypeOK'
  BY <1>49 DEF IoAccept, ioKeeps, IoServing, flagVars, timerVars, peerVars
<1>50. ASSUME NEW p \in Peers, IoPeerAck(p) PROVE TypeOK'
  BY <1>50 DEF IoPeerAck, ioKeeps, IoServing, flagVars, timerVars, peerVars
<1>51. CASE UNCHANGED vars
  BY <1>51 DEF vars, peerVars
<1>52. QED
  BY <1>1, <1>2, <1>3, <1>4, <1>5, <1>6, <1>7, <1>8, <1>9, <1>10, <1>11, <1>12, <1>13,
     <1>14, <1>15, <1>16, <1>17, <1>18, <1>19, <1>20, <1>21, <1>22, <1>23, <1>24, <1>25,
     <1>26, <1>27, <1>28, <1>29, <1>30, <1>31, <1>32, <1>33, <1>34, <1>35, <1>36, <1>37,
     <1>38, <1>39, <1>40, <1>41, <1>42, <1>43, <1>44, <1>45, <1>46, <1>47, <1>48, <1>49,
     <1>50, <1>51, <1>53, <1>54
  DEF Next, Main, Sim, Io, IoStep

\* Type correctness of the three threads and of everything they share.
THEOREM TypeCorrect == Spec => []TypeOK
<1>1. Init => TypeOK
  <2> SUFFICES ASSUME Init PROVE TypeOK
    OBVIOUS
  <2>1. /\ tx \in BOOLEAN /\ assigned \in BOOLEAN /\ stop \in BOOLEAN
        /\ running \in BOOLEAN /\ error \in BOOLEAN
        /\ initialized \in BOOLEAN /\ finalized \in BOOLEAN
        /\ ioStopped \in BOOLEAN /\ ioStopReq \in BOOLEAN
    BY Zenon DEF Init
  <2> QED
    BY <2>1 DEF Init, TypeOK, States, Messages, Answers, MainPcs, SimPcs, IoPcs, TimerStates, PeerStates
<1>2. TypeOK /\ [Next]_vars => TypeOK'
  BY TypeStep
<1>3. QED
  BY <1>1, <1>2, PTL DEF Spec
-----------------------------------------------------------------------------
(* The hand-over from the sim thread to the main thread.  The threads tell each other    *)
(* where they are through current_state alone; the inductive invariant says that the     *)
(* state is a function of the sim thread's pc, where the main thread can be for each pc  *)
(* of the sim thread, and in which phase a connection can be asked to close.             *)

Leaving == {"await_shutdown", "shutdown_test", "shutdown_ack", "exit", "exited"}
Launching == {"none", "channels", "enter", "await_init"}

StateFollowsThread ==
  /\ spc \in {"none", "exited"} => state = "STOPPED"
  /\ spc \in {"channels", "enter", "await"} => state = "WAITING"
  /\ spc \in {"await_init", "init_ack", "await_start", "start_test", "start_timers"}
       => state = "LAUNCHING"
  /\ spc = "waiting" => state \in {"LAUNCHING", "PROCESSING"}
  /\ spc \in {"loop_test", "stop_timers", "ask_nodes", "drain", "poll"} => state = "PROCESSING"
  /\ spc \in {"await_shutdown", "shutdown_test", "shutdown_ack", "exit"}
       => state = "SHUTTING_DOWN"

ThreadOrder ==
  /\ spc = "none" <=> mpc = "launch"
  /\ mpc \in {"send_shutdown", "shutdown_ack", "close_control", "join"} => spc \in Leaving
  /\ mpc \in {"drop_channels", "stop_io", "request_io_stop", "join_io", "done"} => spc = "exited"
  /\ spc \in Launching => ~initialized

AskedFromDrain ==
  spc \notin {"drain", "poll"} \cup Leaving =>
    /\ \A p \in Peers : peer[p] \in {"absent", "arriving", "up"}
    /\ dead = 0 /\ closed_nodes = 0
    /\ spc \in Launching => \A p \in Peers : peer[p] = "absent"

HandOverInv == StateFollowsThread /\ ThreadOrder /\ AskedFromDrain

\* The invariant is inductive, given the types.
LEMMA HandOverStep == TypeOK /\ HandOverInv /\ [Next]_vars => HandOverInv'
<1> SUFFICES ASSUME TypeOK, HandOverInv, [Next]_vars PROVE HandOverInv'
  OBVIOUS
<1> USE DEF HandOverInv, StateFollowsThread, ThreadOrder, AskedFromDrain, Leaving, Launching
<1>types. /\ mpc \in MainPcs /\ spc \in SimPcs /\ initialized \in BOOLEAN
      /\ state \in States /\ peer \in [Peers -> PeerStates] /\ dead \in Nat /\ closed_nodes \in Nat
  BY DEF TypeOK
<1> USE <1>types DEF MainPcs, SimPcs, States, PeerStates
<1>1. CASE MainLaunch
  BY <1>1 DEF MainLaunch, MainGoes, Alive, flagVars, timerVars, peerVars
<1>2. CASE MainAssignThread
  BY <1>2 DEF MainAssignThread, MainGoes, Alive, flagVars, timerVars, peerVars
<1>3. CASE MainSpinLaunch
  BY <1>3 DEF MainSpinLaunch, MainGoes, Alive, flagVars, timerVars, peerVars
<1>4. CASE MainSendInit
  BY <1>4 DEF MainSendInit, MainGoes, Alive, MainPush, flagVars, timerVars, peerVars
<1>5. CASE MainInitAck
  BY <1>5 DEF MainInitAck, MainGoes, Alive, WaitForAck, flagVars, timerVars, peerVars
<1>6. CASE MainSendStart
  BY <1>6 DEF MainSendStart, MainGoes, Alive, MainPush, flagVars, timerVars, peerVars
<1>7. CASE MainLaunchError
  BY <1>7 DEF MainLaunchError, MainGoes, Alive, flagVars, timerVars, peerVars
<1>8. CASE MainPollWaiting
  BY <1>8 DEF MainPollWaiting, MainGoes, Alive, flagVars, timerVars, peerVars
<1>9. CASE MainPollProcessing
  BY <1>9 DEF MainPollProcessing, MainGoes, Alive, flagVars, timerVars, peerVars
<1>10. CASE MainSpinCleanup
  BY <1>10 DEF MainSpinCleanup, MainGoes, Alive, flagVars, timerVars, peerVars
<1>11. CASE MainSendShutdown
  BY <1>11 DEF MainSendShutdown, MainGoes, Alive, MainPush, flagVars, timerVars, peerVars
<1>12. CASE MainShutdownAck
  BY <1>12 DEF MainShutdownAck, MainGoes, Alive, WaitForAck, flagVars, timerVars, peerVars
<1>13. CASE MainCloseControl
  BY <1>13 DEF MainCloseControl, MainGoes, Alive, flagVars, timerVars, peerVars
<1>14. CASE MainJoin
  BY <1>14 DEF MainJoin, MainGoes, Alive, flagVars, timerVars, peerVars
<1>15. CASE MainDropChannels
  BY <1>15 DEF MainDropChannels, MainGoes, Alive, flagVars, timerVars, peerVars
<1>16. CASE MainStopIo
  BY <1>16 DEF MainStopIo, MainGoes, Alive, flagVars, timerVars, peerVars
<1>17. CASE MainRequestIoStop
  BY <1>17 DEF MainRequestIoStop, MainGoes, Alive, flagVars, timerVars, peerVars
<1>18. CASE MainJoinIo
  BY <1>18 DEF MainJoinIo, MainGoes, Alive, flagVars, timerVars, peerVars
<1>19. CASE SimMakeChannels
  BY <1>19 DEF SimMakeChannels, SimGoes, Alive, simKeeps, flagVars, timerVars, peerVars
<1>20. CASE SimEnter
  BY <1>20 DEF SimEnter, SimGoes, Alive, simKeeps, flagVars, timerVars, peerVars
<1>21. CASE SimInitMessage
  BY <1>21 DEF SimInitMessage, SimGoes, Alive, simKeeps, flagVars, timerVars, peerVars
<1>22. CASE SimInitGivesUp
  BY <1>22 DEF SimInitGivesUp, SimGoes, Alive, simKeeps, flagVars, timerVars, peerVars
<1>23. CASE SimInitAck
  BY <1>23 DEF SimInitAck, SimGoes, Alive, simKeeps, SimAnswer, flagVars, timerVars, peerVars
<1>24. CASE SimStartMessage
  BY <1>24 DEF SimStartMessage, SimGoes, Alive, simKeeps, flagVars, timerVars, peerVars
<1>25. CASE SimStartTimeout
  BY <1>25 DEF SimStartTimeout, SimGoes, Alive, simKeeps, flagVars, timerVars, peerVars
<1>26. CASE SimStartTest
  BY <1>26 DEF SimStartTest, SimGoes, Alive, simKeeps, flagVars, timerVars, peerVars
<1>27. CASE SimStartTimers
  BY <1>27 DEF SimStartTimers, SimGoes, Alive, simKeeps, flagVars, timerVars, peerVars
<1>28. CASE SimWaiting
  BY <1>28 DEF SimWaiting, SimGoes, Alive, simKeeps, flagVars, timerVars, peerVars
<1>29. CASE SimHandleMessage
  BY <1>29 DEF SimHandleMessage, SimGoes, Alive, simKeeps, flagVars, timerVars, peerVars
<1>30. CASE SimManage
  BY <1>30 DEF SimManage, SimGoes, Alive, simKeeps, Polled, flagVars, timerVars, peerVars
<1>31. CASE SimLoopTest
  BY <1>31 DEF SimLoopTest, SimGoes, Alive, simKeeps, flagVars, timerVars, peerVars
<1>32. CASE SimStopTimers
  BY <1>32 DEF SimStopTimers, SimGoes, Alive, simKeeps, flagVars, timerVars, peerVars
<1>33. CASE SimAskNodes
  BY <1>33 DEF SimAskNodes, SimGoes, Alive, simKeeps, flagVars, timerVars, peerVars
<1>34. CASE SimNotDrained
  BY <1>34 DEF SimNotDrained, SimGoes, Alive, simKeeps, flagVars, timerVars, peerVars
<1>53. CASE SimPoll
  BY <1>53 DEF SimPoll, SimGoes, Alive, simKeeps, Polled, flagVars, timerVars, peerVars
<1>35. CASE SimDrained
  BY <1>35 DEF SimDrained, SimGoes, Alive, simKeeps, flagVars, timerVars, peerVars
<1>36. CASE SimShutdownMessage
  BY <1>36 DEF SimShutdownMessage, SimGoes, Alive, simKeeps, flagVars, timerVars, peerVars
<1>37. CASE SimShutdownTimeout
  BY <1>37 DEF SimShutdownTimeout, SimGoes, Alive, simKeeps, flagVars, timerVars, peerVars
<1>38. CASE SimShutdownTest
  BY <1>38 DEF SimShutdownTest, SimGoes, Alive, simKeeps, flagVars, timerVars, peerVars
<1>39. CASE SimShutdownAck
  BY <1>39 DEF SimShutdownAck, SimGoes, Alive, simKeeps, SimAnswer, flagVars, timerVars, peerVars
<1>40. CASE SimExit
  BY <1>40 DEF SimExit, SimGoes, Alive, simKeeps, flagVars, timerVars, peerVars
<1>41. CASE IoTimeout
  BY <1>41 DEF IoTimeout, ioKeeps, IoServing, flagVars, timerVars, peerVars
<1>42. CASE IoRearm
  BY <1>42 DEF IoRearm, ioKeeps, IoGoes, flagVars, timerVars, peerVars
<1>43. CASE IoRequestStop
  BY <1>43 DEF IoRequestStop, ioKeeps, IoGoes, flagVars, timerVars, peerVars
<1>44. CASE IoRunReturns
  BY <1>44 DEF IoRunReturns, ioKeeps, IoGoes, flagVars, timerVars, peerVars
<1>45. CASE IoRestart
  BY <1>45 DEF IoRestart, ioKeeps, IoGoes, flagVars, timerVars, peerVars
<1>46. CASE IoTest
  BY <1>46 DEF IoTest, ioKeeps, flagVars, timerVars, peerVars
<1>47. CASE TimerExpires
  BY <1>47 DEF TimerExpires, ioKeeps, Alive, flagVars, timerVars, peerVars
<1>48. CASE IoSignal
  BY <1>48 DEF IoSignal, ioKeeps, IoServing, flagVars, timerVars, peerVars
<1>54. ASSUME NEW p \in Peers, IoConnect(p) PROVE HandOverInv'
  BY <1>54 DEF IoConnect, ioKeeps, Alive, AcceptorOpen, flagVars, timerVars, peerVars
<1>49. ASSUME NEW p \in Peers, IoAccept(p) PROVE HandOverInv'
  BY <1>49 DEF IoAccept, ioKeeps, IoServing, flagVars, timerVars, peerVars
<1>50. ASSUME NEW p \in Peers, IoPeerAck(p) PROVE HandOverInv'
  BY <1>50 DEF IoPeerAck, ioKeeps, IoServing, flagVars, timerVars, peerVars
<1>51. CASE UNCHANGED vars
  BY <1>51 DEF vars, peerVars
<1>52. QED
  BY <1>1, <1>2, <1>3, <1>4, <1>5, <1>6, <1>7, <1>8, <1>9, <1>10, <1>11, <1>12, <1>13,
     <1>14, <1>15, <1>16, <1>17, <1>18, <1>19, <1>20, <1>21, <1>22, <1>23, <1>24, <1>25,
     <1>26, <1>27, <1>28, <1>29, <1>30, <1>31, <1>32, <1>33, <1>34, <1>35, <1>36, <1>37,
     <1>38, <1>39, <1>40, <1>41, <1>42, <1>43, <1>44, <1>45, <1>46, <1>47, <1>48, <1>49,
     <1>50, <1>51, <1>53, <1>54
  DEF Next, Main, Sim, Io, IoStep

\* The inductive invariant of the hand-over.
THEOREM HandOver == Spec => []HandOverInv
<1>1. Init => HandOverInv
  BY DEF Init, HandOverInv, StateFollowsThread, ThreadOrder, AskedFromDrain, Leaving, Launching
<1>2. TypeOK /\ HandOverInv /\ [Next]_vars => HandOverInv'
  BY HandOverStep
<1>3. QED
  BY <1>1, <1>2, TypeCorrect, PTL DEF Spec

\* The main thread calls sim_control->shutdown(), which takes no lock, only after the sim
\* thread has left every loop that uses the control.
THEOREM ControlIsHandedOver == Spec => []ControlHandedOver
<1>1. HandOverInv => ControlHandedOver
  BY DEF HandOverInv, ThreadOrder, Leaving, ControlHandedOver
<1>2. QED
  BY <1>1, HandOver, PTL

-----------------------------------------------------------------------------
(* The two counts.  closed_nodes is compared with the number of connections, but it counts   *)
(* alerts: the invariant says whose alerts they are.                                         *)

Of(states) == {p \in Peers : peer[p] \in states}

\* Every alert is one of a session that has answered or its second one; and once the sim thread
\* has taken the counts for equal, no more answers are missing than came twice.
CountInv ==
  /\ IsFiniteSet(connections)
  /\ closed_nodes + dead = Cardinality(Of({"answered", "repeated"})) + Cardinality(Of({"repeated"}))
  /\ spc \in Leaving => Cardinality(Of({"asked"})) <= Cardinality(Of({"repeated"}))

\* The connections in some states are finitely many, so they can be counted.
LEMMA ConnectionsAreFinite ==
  ASSUME IsFiniteSet(connections), NEW states, "absent" \notin states, "arriving" \notin states
  PROVE  /\ Of(states) \subseteq connections /\ IsFiniteSet(Of(states))
         /\ Cardinality(Of(states)) \in Nat /\ Cardinality(Of(states)) <= Cardinality(connections)
<1>1. Of(states) \subseteq connections
  BY DEF Of, connections
<1> QED
  BY <1>1, FS_Subset, FS_CardinalityType

\* Who is asked and who has answered are different connections.
LEMMA AskedAndAnswered ==
  ASSUME IsFiniteSet(connections)
  PROVE  Cardinality(Of({"asked"})) + Cardinality(Of({"answered", "repeated"}))
           <= Cardinality(connections)
<1> DEFINE A == Of({"asked"})  B == Of({"answered", "repeated"})
<1>1. /\ A \subseteq connections /\ IsFiniteSet(A) /\ Cardinality(A) \in Nat
      /\ B \subseteq connections /\ IsFiniteSet(B) /\ Cardinality(B) \in Nat
  BY ConnectionsAreFinite
<1>2. A \cap B = {}
  BY DEF Of
<1>3. Cardinality(A \cup B) = Cardinality(A) + Cardinality(B)
  <2>1. Cardinality(A \cup B) = Cardinality(A) + Cardinality(B) - Cardinality(A \cap B)
    BY <1>1, FS_Union
  <2>2. Cardinality(A \cap B) = 0
    BY <1>2, FS_EmptySet
  <2> HIDE DEF A, B
  <2> QED
    BY <2>1, <2>2, <1>1
<1>4. A \cup B \subseteq connections
  BY <1>1
<1> QED
  BY <1>3, <1>4, FS_Subset

\* The steps that touch the connections or the counts, or that end the drain.
LEMMA CountCases ==
  ASSUME [Next]_vars
  PROVE  \/ UNCHANGED peerVars /\ (spc' \in Leaving => spc \in Leaving)
         \/ SimManage \/ SimAskNodes \/ SimPoll \/ SimDrained
         \/ \E p \in Peers : IoConnect(p) \/ IoAccept(p) \/ IoPeerAck(p)
<1>1. CASE Main
  BY <1>1 DEF Main, MainLaunch, MainAssignThread, MainSpinLaunch, MainSendInit, MainInitAck,
       MainSendStart, MainLaunchError, MainPollWaiting, MainPollProcessing, MainSpinCleanup,
       MainSendShutdown, MainShutdownAck, MainCloseControl, MainJoin, MainDropChannels, MainStopIo,
       MainRequestIoStop, MainJoinIo, MainPush, WaitForAck, Leaving
<1>2. CASE Sim
  BY <1>2 DEF Sim, SimMakeChannels, SimEnter, SimInitMessage, SimInitGivesUp, SimInitAck,
       SimStartMessage, SimStartTimeout, SimStartTest, SimStartTimers, SimWaiting, SimHandleMessage,
       SimLoopTest, SimStopTimers, SimNotDrained, SimShutdownMessage, SimShutdownTimeout,
       SimShutdownTest, SimShutdownAck, SimExit, SimAnswer, SimGoes, Leaving
<1>3. CASE Io
  BY <1>3 DEF Io, IoStep, TimerExpires, IoTimeout, IoRearm, IoSignal, IoRequestStop, IoRunReturns,
       IoRestart, IoTest, ioKeeps
<1>4. CASE UNCHANGED vars
  BY <1>4 DEF vars
<1> QED
  BY <1>1, <1>2, <1>3, <1>4 DEF Next

LEMMA CountStep == TypeOK /\ HandOverInv /\ CountInv /\ [Next]_vars => CountInv'
<1> SUFFICES ASSUME TypeOK, HandOverInv, CountInv, [Next]_vars PROVE CountInv'
  OBVIOUS
<1> DEFINE Asked == Of({"asked"})  Once == Of({"answered", "repeated"})  Twice == Of({"repeated"})
<1>types. /\ spc \in SimPcs /\ peer \in [Peers -> PeerStates]
          /\ dead \in Nat /\ closed_nodes \in Nat
  BY DEF TypeOK
<1>fin. /\ IsFiniteSet(connections)
        /\ IsFiniteSet(Asked) /\ Cardinality(Asked) \in Nat
        /\ IsFiniteSet(Once) /\ Cardinality(Once) \in Nat
        /\ IsFiniteSet(Twice) /\ Cardinality(Twice) \in Nat
  BY ConnectionsAreFinite DEF CountInv
<1>inv. /\ closed_nodes + dead = Cardinality(Once) + Cardinality(Twice)
        /\ spc \in Leaving => Cardinality(Asked) <= Cardinality(Twice)
  BY DEF CountInv
<1>keep. ASSUME peer' = peer
         PROVE connections' = connections /\ Asked' = Asked /\ Once' = Once /\ Twice' = Twice
  BY <1>keep DEF connections, Of
<1>1. CASE UNCHANGED peerVars /\ (spc' \in Leaving => spc \in Leaving)
  BY <1>1, <1>keep, <1>fin, <1>inv DEF CountInv, peerVars
<1>2. CASE SimManage \/ SimPoll
  <2>1. /\ peer' = peer /\ closed_nodes' = closed_nodes + dead /\ dead' = 0
        /\ spc' \notin Leaving
    BY <1>2 DEF SimManage, SimPoll, Polled, SimGoes, Leaving
  <2>2. closed_nodes' + dead' = closed_nodes + dead
    BY <2>1, <1>types
  <2> QED
    BY <2>1, <2>2, <1>keep, <1>fin, <1>inv DEF CountInv
<1>3. CASE SimAskNodes
  <2>1. /\ peer' = [p \in Peers |-> IF peer[p] = "up" THEN "asked" ELSE peer[p]]
        /\ UNCHANGED <<dead, closed_nodes>> /\ spc' \notin Leaving
    BY <1>3 DEF SimAskNodes, SimGoes, Leaving
  <2>2. connections' = connections /\ Once' = Once /\ Twice' = Twice
    BY <2>1, <1>types DEF connections, Of
  <2> QED
    BY <2>1, <2>2, <1>fin, <1>inv DEF CountInv
<1>4. CASE SimDrained
  <2>1. peer' = peer /\ UNCHANGED <<dead, closed_nodes>> /\ closed_nodes = Cardinality(connections)
    BY <1>4 DEF SimDrained, NodesCleanedUp, peerVars
  <2>2. Cardinality(Asked) + Cardinality(Once) <= Cardinality(connections)
    BY <1>fin, AskedAndAnswered
  <2>3. Cardinality(Asked) <= Cardinality(Twice)
    BY <2>1, <2>2, <1>inv, <1>fin, <1>types
  <2> QED
    BY <2>1, <2>3, <1>keep, <1>fin, <1>inv DEF CountInv
<1>5. ASSUME NEW p \in Peers, IoConnect(p) PROVE CountInv'
  <2>1. /\ peer[p] = "absent" /\ peer' = [peer EXCEPT ![p] = "arriving"]
        /\ UNCHANGED <<dead, closed_nodes, spc>>
    BY <1>5 DEF IoConnect, ioKeeps
  <2>2. connections' = connections /\ Asked' = Asked /\ Once' = Once /\ Twice' = Twice
    BY <2>1, <1>types DEF connections, Of
  <2> QED
    BY <2>1, <2>2, <1>fin, <1>inv DEF CountInv
<1>6. ASSUME NEW p \in Peers, IoAccept(p) PROVE CountInv'
  <2>1. /\ peer[p] = "arriving" /\ peer' = [peer EXCEPT ![p] = "up"]
        /\ UNCHANGED <<dead, closed_nodes, spc>>
    BY <1>6 DEF IoAccept, ioKeeps
  <2>2. connections' = connections \cup {p} /\ Asked' = Asked /\ Once' = Once /\ Twice' = Twice
    BY <2>1, <1>types DEF connections, Of
  <2>3. IsFiniteSet(connections')
    BY <2>2, <1>fin, FS_AddElement
  <2> QED
    BY <2>1, <2>2, <2>3, <1>fin, <1>inv DEF CountInv
<1>7. ASSUME NEW p \in Peers, IoPeerAck(p) PROVE CountInv'
  <2>1. dead' = dead + 1 /\ UNCHANGED <<closed_nodes, spc>>
    BY <1>7 DEF IoPeerAck, ioKeeps
  <2>2. CASE peer[p] = "asked" /\ peer' = [peer EXCEPT ![p] = "answered"]
    <3>1. /\ connections' = connections /\ Asked' = Asked \ {p} /\ p \in Asked
          /\ Once' = Once \cup {p} /\ p \notin Once /\ Twice' = Twice
      BY <2>2, <1>types DEF connections, Of
    <3>2. Cardinality(Once') = Cardinality(Once) + 1 /\ Cardinality(Asked') <= Cardinality(Asked)
      BY <3>1, <1>fin, FS_AddElement, FS_Subset
    <3>3. Cardinality(Asked') \in Nat
      BY <3>1, <1>fin, FS_Subset, FS_CardinalityType
    <3>4. closed_nodes' + dead' = Cardinality(Once') + Cardinality(Twice')
      BY <2>1, <3>1, <3>2, <1>inv, <1>fin, <1>types
    <3>5. spc' \in Leaving => Cardinality(Asked') <= Cardinality(Twice')
      BY <2>1, <3>1, <3>2, <3>3, <1>inv, <1>fin
    <3> QED
      BY <3>1, <3>4, <3>5, <1>fin DEF CountInv
  <2>3. CASE peer[p] = "answered" /\ peer' = [peer EXCEPT ![p] = "repeated"]
    <3>1. /\ connections' = connections /\ Asked' = Asked /\ Once' = Once
          /\ Twice' = Twice \cup {p} /\ p \notin Twice
      BY <2>3, <1>types DEF connections, Of
    <3>2. Cardinality(Twice') = Cardinality(Twice) + 1
      BY <3>1, <1>fin, FS_AddElement
    <3>4. closed_nodes' + dead' = Cardinality(Once') + Cardinality(Twice')
      BY <2>1, <3>1, <3>2, <1>inv, <1>fin, <1>types
    <3>5. spc' \in Leaving => Cardinality(Asked') <= Cardinality(Twice')
      BY <2>1, <3>1, <3>2, <1>inv, <1>fin
    <3> QED
      BY <3>1, <3>4, <3>5, <1>fin DEF CountInv
  <2> QED
    BY <1>7, <2>2, <2>3 DEF IoPeerAck
<1> QED
  BY <1>1, <1>2, <1>3, <1>4, <1>5, <1>6, <1>7, CountCases

\* The account of closed_nodes and of the queue of dead connections.
THEOREM AlertsAreAccounted == Spec => []CountInv
<1>1. Init => CountInv
  <2> SUFFICES ASSUME Init PROVE CountInv
    OBVIOUS
  <2>1. connections = {} /\ Of({"answered", "repeated"}) = {} /\ Of({"repeated"}) = {}
    BY DEF Init, connections, Of
  <2> QED
    BY <2>1, FS_EmptySet DEF Init, CountInv, Leaving
<1>2. TypeOK /\ HandOverInv /\ CountInv /\ [Next]_vars => CountInv'
  BY CountStep
<1>3. QED
  BY <1>1, <1>2, TypeCorrect, HandOver, PTL DEF Spec

\* While the state is SHUTTING_DOWN the connections that were asked and have not answered are no
\* more than those whose session was counted twice: what a comparison of two counts is worth.
THEOREM NodesDrainedBeforeHandOver == Spec => []DrainedBeforeHandOver
<1>1. TypeOK /\ HandOverInv /\ CountInv => DrainedBeforeHandOver
  <2> SUFFICES ASSUME TypeOK, HandOverInv, CountInv, state = "SHUTTING_DOWN"
               PROVE  Cardinality({p \in Peers : peer[p] = "asked"})
                        <= Cardinality({p \in Peers : peer[p] = "repeated"})
    BY DEF DrainedBeforeHandOver
  <2>1. spc \in Leaving
    BY DEF TypeOK, SimPcs, HandOverInv, StateFollowsThread, Leaving
  <2>2. /\ Of({"asked"}) = {p \in Peers : peer[p] = "asked"}
        /\ Of({"repeated"}) = {p \in Peers : peer[p] = "repeated"}
    BY DEF Of
  <2> QED
    BY <2>1, <2>2 DEF CountInv
<1>2. QED
  BY <1>1, TypeCorrect, HandOver, AlertsAreAccounted, PTL

-----------------------------------------------------------------------------
\* current_state follows its successor relation, and nothing restarts a stopped simulation.
THEOREM StateOnlyMovesForward == Spec => StateMovesForward
<1> DEFINE Moves == state' # state => /\ <<state, state'>> \in StateFollows
                                      /\ state = "STOPPED" => mpc = "launch"
<1>1. ASSUME TypeOK, HandOverInv, [Next]_vars PROVE Moves
  <2> USE <1>1 DEF HandOverInv, StateFollowsThread, ThreadOrder, StateFollows
  <2>1. CASE MainLaunch
    BY <2>1 DEF MainLaunch, MainGoes
  <2>2. CASE SimEnter
    BY <2>2 DEF SimEnter, SimGoes
  <2>3. CASE SimWaiting
    BY <2>3 DEF SimWaiting, SimGoes
  <2>4. CASE SimHandleMessage \/ SimManage
    BY <2>4 DEF SimHandleMessage, SimManage, SimGoes
  <2>5. CASE SimDrained
    BY <2>5 DEF SimDrained, SimGoes
  <2>6. CASE SimExit
    BY <2>6 DEF SimExit, SimGoes
  <2>7. CASE Main /\ ~MainLaunch
    <3> HIDE DEF HandOverInv
    <3>1. state' = state
      BY <2>7 DEF Main, MainPush, WaitForAck, MainAssignThread, MainSpinLaunch,
         MainSendInit, MainInitAck, MainSendStart, MainLaunchError, MainPollWaiting,
         MainPollProcessing, MainSpinCleanup, MainSendShutdown, MainShutdownAck,
         MainCloseControl, MainJoin, MainDropChannels, MainStopIo, MainRequestIoStop,
         MainJoinIo
    <3>2. QED
      BY <3>1
  <2>8. CASE Sim /\ ~(SimEnter \/ SimWaiting \/ SimHandleMessage \/ SimManage \/ SimDrained \/ SimExit)
    <3>1. state' = state
      BY <2>8 DEF Sim, SimAnswer, SimMakeChannels, SimInitMessage, SimInitGivesUp,
         SimInitAck, SimStartMessage, SimStartTimeout, SimStartTest, SimStartTimers,
         SimLoopTest, SimStopTimers, SimAskNodes, SimNotDrained, SimPoll, SimShutdownMessage,
         SimShutdownTimeout, SimShutdownTest, SimShutdownAck
    <3>2. QED
      BY <3>1
  <2>9. CASE Io
    <3>1. state' = state
      BY <2>9 DEF Io, IoStep, ioKeeps, TimerExpires, IoTimeout, IoRearm, IoSignal, IoRequestStop,
                  IoConnect, IoAccept, IoPeerAck, IoRunReturns, IoRestart, IoTest
    <3>2. QED
      BY <3>1
  <2>10. CASE UNCHANGED vars
    BY <2>10 DEF vars
  <2>11. QED
    BY <1>1, <2>1, <2>2, <2>3, <2>4, <2>5, <2>6, <2>7, <2>8, <2>9, <2>10 DEF Next
<1>2. TypeOK /\ HandOverInv /\ [Next]_vars => [Moves]_vars
  BY <1>1
<1>3. QED
  BY <1>2, TypeCorrect, HandOver, PTL DEF Spec, StateMovesForward

-----------------------------------------------------------------------------
(* The threads implement the abstract service: every step of the three threads is a step *)
(* of SimulationService or leaves its phase and its connections alone.                   *)

\* The same phase and the same connections: a stutter of the service.
ServiceStutters == servicePhase' = servicePhase /\ serviceConn' = serviceConn

\* What the comparison in nodes_cleaned_up() says of the connections: each has answered once, or
\* one of them has done so for another.
LEMMA CountsTell ==
  ASSUME TypeOK, CountInv, closed_nodes = Cardinality(connections)
  PROVE  \/ \A p \in Peers : serviceConn[p] \in {"none", "answered"}
         \/ \E p \in Peers : serviceConn[p] = "repeated"
<1>1. CASE \E p \in Peers : peer[p] = "repeated"
  BY <1>1 DEF serviceConn
<1>2. CASE \A p \in Peers : peer[p] # "repeated"
  <2> DEFINE Once == Of({"answered", "repeated"})
  <2>1. Of({"repeated"}) = {}
    BY <1>2 DEF Of
  <2>2. /\ Once \subseteq connections /\ IsFiniteSet(connections) /\ Cardinality(Once) \in Nat
        /\ Cardinality(Once) <= Cardinality(connections)
    BY ConnectionsAreFinite DEF CountInv
  <2>3. Cardinality(Once) = Cardinality(connections)
    <3>1. closed_nodes + dead = Cardinality(Once) + 0 /\ closed_nodes \in Nat /\ dead \in Nat
      BY <2>1, FS_EmptySet DEF CountInv, TypeOK
    <3> HIDE DEF Once
    <3> QED
      BY <3>1, <2>2
  <2>4. Once = connections
    BY <2>2, <2>3, FS_Subset
  <2>5. \A p \in Peers : peer[p] \in {"absent", "arriving", "answered"}
    BY <2>4, <1>2 DEF Of, connections
  <2> QED
    BY <2>5 DEF serviceConn
<1> QED
  BY <1>1, <1>2

LEMMA ServiceStep ==
  ASSUME TypeOK, HandOverInv, CountInv, TypeOK', HandOverInv', [Next]_vars
  PROVE  [Service!ServiceNext]_<<servicePhase, serviceConn>>
<1> USE DEF ServiceStutters, servicePhase, serviceConn
<1>types. /\ mpc \in MainPcs /\ spc \in SimPcs /\ initialized \in BOOLEAN
      /\ peer \in [Peers -> PeerStates] /\ peer' \in [Peers -> PeerStates]
  BY DEF TypeOK
<1>inv. ThreadOrder /\ AskedFromDrain /\ StateFollowsThread
  BY DEF HandOverInv
<1> USE <1>types, <1>inv DEF MainPcs, SimPcs, PeerStates, ThreadOrder, AskedFromDrain, Leaving, Launching
<1>1. ASSUME MainLaunch PROVE Service!Launch
  BY <1>1 DEF MainLaunch, MainGoes, Alive, flagVars, timerVars, peerVars, Service!Launch
<1>2. ASSUME MainAssignThread PROVE ServiceStutters
  BY <1>2 DEF MainAssignThread, MainGoes, Alive, flagVars, timerVars, peerVars
<1>3. ASSUME MainSpinLaunch PROVE ServiceStutters
  BY <1>3 DEF MainSpinLaunch, MainGoes, Alive, flagVars, timerVars, peerVars
<1>4. ASSUME MainSendInit PROVE ServiceStutters
  BY <1>4 DEF MainSendInit, MainGoes, Alive, MainPush, flagVars, timerVars, peerVars
<1>5. ASSUME MainInitAck PROVE ServiceStutters
  BY <1>5 DEF MainInitAck, MainGoes, Alive, WaitForAck, flagVars, timerVars, peerVars
<1>6. ASSUME MainSendStart PROVE ServiceStutters
  BY <1>6 DEF MainSendStart, MainGoes, Alive, MainPush, flagVars, timerVars, peerVars
<1>7. ASSUME MainLaunchError PROVE ServiceStutters
  BY <1>7 DEF MainLaunchError, MainGoes, Alive, flagVars, timerVars, peerVars
<1>8. ASSUME MainPollWaiting PROVE ServiceStutters
  BY <1>8 DEF MainPollWaiting, MainGoes, Alive, flagVars, timerVars, peerVars
<1>9. ASSUME MainPollProcessing PROVE ServiceStutters
  BY <1>9 DEF MainPollProcessing, MainGoes, Alive, flagVars, timerVars, peerVars
<1>10. ASSUME MainSpinCleanup PROVE ServiceStutters
  BY <1>10 DEF MainSpinCleanup, MainGoes, Alive, flagVars, timerVars, peerVars
<1>11. ASSUME MainSendShutdown PROVE ServiceStutters
  BY <1>11 DEF MainSendShutdown, MainGoes, Alive, MainPush, flagVars, timerVars, peerVars
<1>12. ASSUME MainShutdownAck PROVE ServiceStutters
  BY <1>12 DEF MainShutdownAck, MainGoes, Alive, WaitForAck, flagVars, timerVars, peerVars
<1>13. ASSUME MainCloseControl PROVE ServiceStutters
  BY <1>13 DEF MainCloseControl, MainGoes, Alive, flagVars, timerVars, peerVars
<1>14. ASSUME MainJoin PROVE Service!Leave
  BY <1>14 DEF MainJoin, MainGoes, Alive, flagVars, timerVars, peerVars, Service!Leave
<1>15. ASSUME MainDropChannels PROVE ServiceStutters
  BY <1>15 DEF MainDropChannels, MainGoes, Alive, flagVars, timerVars, peerVars
<1>16. ASSUME MainStopIo PROVE ServiceStutters
  BY <1>16 DEF MainStopIo, MainGoes, Alive, flagVars, timerVars, peerVars
<1>17. ASSUME MainRequestIoStop PROVE ServiceStutters
  BY <1>17 DEF MainRequestIoStop, MainGoes, Alive, flagVars, timerVars, peerVars
<1>18. ASSUME MainJoinIo PROVE ServiceStutters
  BY <1>18 DEF MainJoinIo, MainGoes, Alive, flagVars, timerVars, peerVars
<1>19. ASSUME SimMakeChannels PROVE ServiceStutters
  BY <1>19 DEF SimMakeChannels, SimGoes, Alive, simKeeps, flagVars, timerVars, peerVars
<1>20. ASSUME SimEnter PROVE ServiceStutters
  BY <1>20 DEF SimEnter, SimGoes, Alive, simKeeps, flagVars, timerVars, peerVars
<1>21. ASSUME SimInitMessage PROVE ServiceStutters
  BY <1>21 DEF SimInitMessage, SimGoes, Alive, simKeeps, flagVars, timerVars, peerVars
<1>22. ASSUME SimInitGivesUp PROVE ServiceStutters
  BY <1>22 DEF SimInitGivesUp, SimGoes, Alive, simKeeps, flagVars, timerVars, peerVars
<1>23. ASSUME SimInitAck PROVE ServiceStutters
  BY <1>23 DEF SimInitAck, SimGoes, Alive, simKeeps, SimAnswer, flagVars, timerVars, peerVars
<1>24. ASSUME SimStartMessage PROVE ServiceStutters
  BY <1>24 DEF SimStartMessage, SimGoes, Alive, simKeeps, flagVars, timerVars, peerVars
<1>25. ASSUME SimStartTimeout PROVE ServiceStutters
  BY <1>25 DEF SimStartTimeout, SimGoes, Alive, simKeeps, flagVars, timerVars, peerVars
<1>26. ASSUME SimStartTest PROVE Service!Serve \/ ServiceStutters
  BY <1>26 DEF SimStartTest, SimGoes, Alive, simKeeps, flagVars, timerVars, peerVars, Service!Serve
<1>27. ASSUME SimStartTimers PROVE ServiceStutters
  BY <1>27 DEF SimStartTimers, SimGoes, Alive, simKeeps, flagVars, timerVars, peerVars
<1>28. ASSUME SimWaiting PROVE ServiceStutters
  BY <1>28 DEF SimWaiting, SimGoes, Alive, simKeeps, flagVars, timerVars, peerVars
<1>29. ASSUME SimHandleMessage PROVE ServiceStutters
  BY <1>29 DEF SimHandleMessage, SimGoes, Alive, simKeeps, flagVars, timerVars, peerVars
<1>30. ASSUME SimManage PROVE ServiceStutters
  BY <1>30 DEF SimManage, SimGoes, Alive, simKeeps, Polled, flagVars, timerVars, peerVars
<1>31. ASSUME SimLoopTest PROVE ServiceStutters
  BY <1>31 DEF SimLoopTest, SimGoes, Alive, simKeeps, flagVars, timerVars, peerVars
<1>32. ASSUME SimStopTimers PROVE ServiceStutters
  BY <1>32 DEF SimStopTimers, SimGoes, Alive, simKeeps, flagVars, timerVars, peerVars
<1>33. ASSUME SimAskNodes PROVE Service!Drain
  BY <1>33 DEF SimAskNodes, SimGoes, Alive, simKeeps, flagVars, timerVars, peerVars, Service!Drain
<1>34. ASSUME SimNotDrained PROVE ServiceStutters
  BY <1>34 DEF SimNotDrained, SimGoes, Alive, simKeeps, flagVars, timerVars, peerVars
<1>53. ASSUME SimPoll PROVE ServiceStutters
  BY <1>53 DEF SimPoll, SimGoes, Alive, simKeeps, Polled, flagVars, timerVars, peerVars
<1>35. ASSUME SimDrained PROVE Service!GoDown
  <2>1. /\ spc = "drain" /\ spc' = "await_shutdown" /\ UNCHANGED <<mpc, peer>>
        /\ closed_nodes = Cardinality(connections)
    BY <1>35 DEF SimDrained, SimGoes, simKeeps, NodesCleanedUp, peerVars
  <2>2. servicePhase = "draining" /\ servicePhase' = "down" /\ serviceConn' = serviceConn
    BY <2>1
  <2>3. \/ \A p \in Peers : serviceConn[p] \in {"none", "answered"}
        \/ \E p \in Peers : serviceConn[p] = "repeated"
    BY <2>1, CountsTell
  <2> QED
    BY <2>2, <2>3 DEF Service!GoDown
<1>36. ASSUME SimShutdownMessage PROVE ServiceStutters
  BY <1>36 DEF SimShutdownMessage, SimGoes, Alive, simKeeps, flagVars, timerVars, peerVars
<1>37. ASSUME SimShutdownTimeout PROVE ServiceStutters
  BY <1>37 DEF SimShutdownTimeout, SimGoes, Alive, simKeeps, flagVars, timerVars, peerVars
<1>38. ASSUME SimShutdownTest PROVE ServiceStutters
  BY <1>38 DEF SimShutdownTest, SimGoes, Alive, simKeeps, flagVars, timerVars, peerVars
<1>39. ASSUME SimShutdownAck PROVE ServiceStutters
  BY <1>39 DEF SimShutdownAck, SimGoes, Alive, simKeeps, SimAnswer, flagVars, timerVars, peerVars
<1>40. ASSUME SimExit PROVE ServiceStutters
  BY <1>40 DEF SimExit, SimGoes, Alive, simKeeps, flagVars, timerVars, peerVars
<1>41. ASSUME IoTimeout PROVE ServiceStutters
  BY <1>41 DEF IoTimeout, ioKeeps, IoServing, flagVars, timerVars, peerVars
<1>42. ASSUME IoRearm PROVE ServiceStutters
  BY <1>42 DEF IoRearm, ioKeeps, IoGoes, flagVars, timerVars, peerVars
<1>43. ASSUME IoRequestStop PROVE ServiceStutters
  BY <1>43 DEF IoRequestStop, ioKeeps, IoGoes, flagVars, timerVars, peerVars
<1>44. ASSUME IoRunReturns PROVE ServiceStutters
  BY <1>44 DEF IoRunReturns, ioKeeps, IoGoes, flagVars, timerVars, peerVars
<1>45. ASSUME IoRestart PROVE ServiceStutters
  BY <1>45 DEF IoRestart, ioKeeps, IoGoes, flagVars, timerVars, peerVars
<1>46. ASSUME IoTest PROVE ServiceStutters
  BY <1>46 DEF IoTest, ioKeeps, flagVars, timerVars, peerVars
<1>47. ASSUME TimerExpires PROVE ServiceStutters
  BY <1>47 DEF TimerExpires, ioKeeps, Alive, flagVars, timerVars, peerVars
<1>48. ASSUME IoSignal PROVE ServiceStutters
  BY <1>48 DEF IoSignal, ioKeeps, IoServing, flagVars, timerVars, peerVars
<1>54. ASSUME NEW p \in Peers, IoConnect(p) PROVE ServiceStutters
  BY <1>54 DEF IoConnect, ioKeeps, Alive, AcceptorOpen, flagVars, timerVars, peerVars
<1>49. ASSUME NEW p \in Peers, IoAccept(p) PROVE Service!Connect(p)
  BY <1>49 DEF IoAccept, ioKeeps, IoServing, flagVars, timerVars, peerVars, Service!Connect
<1>50. ASSUME NEW p \in Peers, IoPeerAck(p) PROVE Service!Answer(p)
  BY <1>50 DEF IoPeerAck, ioKeeps, IoServing, flagVars, timerVars, peerVars, Service!Answer
<1>51. ASSUME UNCHANGED vars PROVE ServiceStutters
  BY <1>51 DEF vars, peerVars
<1>52. QED
  BY <1>1, <1>2, <1>3, <1>4, <1>5, <1>6, <1>7, <1>8, <1>9, <1>10, <1>11, <1>12, <1>13,
     <1>14, <1>15, <1>16, <1>17, <1>18, <1>19, <1>20, <1>21, <1>22, <1>23, <1>24, <1>25,
     <1>26, <1>27, <1>28, <1>29, <1>30, <1>31, <1>32, <1>33, <1>34, <1>35, <1>36, <1>37,
     <1>38, <1>39, <1>40, <1>41, <1>42, <1>43, <1>44, <1>45, <1>46, <1>47, <1>48, <1>49,
     <1>50, <1>51, <1>53, <1>54
  DEF Next, Main, Sim, Io, IoStep, Service!ServiceNext

\* The three threads together implement the service the nodes and layers rely on.
THEOREM ThreadsImplementService == Spec => ImplementsService
<1>1. Init => Service!ServiceInit
  BY DEF Init, Service!ServiceInit, servicePhase, serviceConn
<1>2. TypeOK /\ TypeOK' /\ HandOverInv /\ HandOverInv' /\ CountInv /\ [Next]_vars
        => [Service!ServiceNext]_<<servicePhase, serviceConn>>
  BY ServiceStep
<1>3. QED
  BY <1>1, <1>2, TypeCorrect, HandOver, AlertsAreAccounted, PTL
     DEF Spec, ImplementsService, Service!ServiceSpec, Service!svars

-----------------------------------------------------------------------------
(* The two queues.  The threads count messages and answers without matching them, so what keeps *)
(* them together is an account of both queues by the positions of both threads.                 *)


\* Where the main thread has not taken the answer to THREAD_INITIALIZE, and where it has taken
\* this one and not the answer to THREAD_SHUTDOWN.
Asking == {"launch", "assign", "spin", "send_init", "init_ack"}
Running == {"launched", "poll1", "poll2", "cleanup", "send_shutdown", "shutdown_ack"}

\* How many answers the sim thread has sent.
Answered == IF spc \in Launching \cup {"init_ack"} THEN 0
            ELSE IF spc \in {"exit", "exited"} THEN 2 ELSE 1

\* Every answer the main thread has not taken is in the queue; before the first one there is no
\* error, which would end the wait, so the first one is an ACK.
AnswersAccounted ==
  /\ mpc \in Asking => Len(acks) = Answered /\ (acks # <<>> => Head(acks) = "ACK")
  /\ mpc \in Running => Len(acks) + 1 = Answered
  /\ spc \in Launching \cup {"init_ack"} => ~error

\* No event is pushed before the timers are started.
TimersNotStarted ==
  /\ spc \in Launching \cup {"init_ack", "await_start", "start_test", "start_timers"}
       => timer = "idle"
  /\ iopc = "rearm" => timer = "firing"

\* The messages that are in the queue: THREAD_INITIALIZE until the sim thread reads it, and as
\* long as no stop was requested also the ones it reads next.
MessagesAccounted ==
  /\ spc \in Launching \cup {"init_ack"} => ~running
  /\ spc \in Launching => ctl = IF mpc = "init_ack" THEN <<"THREAD_INITIALIZE">> ELSE <<>>
  /\ ~stop /\ spc \notin Launching =>
       /\ initialized /\ mpc \notin {"launch", "assign", "spin", "send_init"}
       /\ error => spc \in Leaving
       /\ spc = "init_ack" => mpc = "init_ack" /\ ctl = <<>>
       /\ spc \in {"await_start", "start_test"} =>
            /\ ctl = <<>> \/ ctl = <<"THREAD_START">>
            /\ mpc \in {"init_ack", "launched"} => ~running /\ ctl = <<>>
            /\ running => ctl = <<>>
       /\ spc \notin {"init_ack", "await_start", "start_test"} =>
            mpc \notin {"init_ack", "launched"}
       /\ spc \notin Leaving \cup {"init_ack", "await_start", "start_test"} =>
            \A i \in 1..Len(ctl) : ctl[i] = "SIM_EVENT"

\* THREAD_SHUTDOWN is in the queue until it is handled.
ShutdownAccounted ==
  mpc \in {"shutdown_ack", "close_control", "join", "drop_channels"} =>
    finalized \/ \E i \in 1..Len(ctl) : ctl[i] = "THREAD_SHUTDOWN"

MessagesInv == AnswersAccounted /\ TimersNotStarted /\ MessagesAccounted /\ ShutdownAccounted

-----------------------------------------------------------------------------
(* What most steps leave alone *)

LEMMA IoKeeps == Io => UNCHANGED ioKeeps
BY DEF Io, IoStep, TimerExpires, IoTimeout, IoRearm, IoSignal, IoRequestStop, IoConnect, IoAccept,
       IoPeerAck, IoRunReturns, IoRestart, IoTest

\* The main thread touches the queues, its own position, the channels, the io context and the
\* error flag only.
LEMMA MainKeeps ==
  ASSUME Main
  PROVE  /\ UNCHANGED <<iopc, stop, running, initialized, finalized, timer>>
         /\ spc' = spc \/ (spc = "none" /\ spc' = "channels")
BY DEF Main, MainLaunch, MainAssignThread, MainSpinLaunch, MainSendInit, MainInitAck, MainSendStart,
       MainLaunchError, MainPollWaiting, MainPollProcessing, MainSpinCleanup, MainSendShutdown,
       MainShutdownAck, MainCloseControl, MainJoin, MainDropChannels, MainStopIo,
       MainRequestIoStop, MainJoinIo, MainPush, WaitForAck, flagVars, timerVars, peerVars

LEMMA SimKeeps == Sim => UNCHANGED simKeeps
BY DEF Sim, SimMakeChannels, SimEnter, SimInitMessage, SimInitGivesUp, SimInitAck, SimStartMessage,
       SimStartTimeout, SimStartTest, SimStartTimers, SimWaiting, SimHandleMessage, SimManage,
       SimLoopTest, SimStopTimers, SimAskNodes, SimNotDrained, SimPoll, SimDrained, SimShutdownMessage,
       SimShutdownTimeout, SimShutdownTest, SimShutdownAck, SimExit, SimAnswer

\* A step of the main thread that waits for no answer and sends no message only moves on.
MainMoves ==
  \/ MainLaunch \/ MainAssignThread \/ MainSpinLaunch \/ MainLaunchError \/ MainPollWaiting
  \/ MainPollProcessing \/ MainSpinCleanup \/ MainCloseControl \/ MainJoin \/ MainDropChannels
  \/ MainStopIo \/ MainRequestIoStop \/ MainJoinIo

LEMMA MainMovesOn ==
  ASSUME MainMoves
  PROVE  /\ UNCHANGED <<ctl, acks, error>>
         /\ spc' = spc \/ (mpc = "launch" /\ spc = "none" /\ spc' = "channels")
         /\ mpc' \in Asking => mpc \in Asking
         /\ mpc' \in Running => mpc \in Running
         /\ mpc # "init_ack" /\ mpc' \notin {"launch", "init_ack", "launched", "shutdown_ack"}
         /\ mpc' \in {"close_control", "join", "drop_channels"} => mpc \in {"close_control", "join"}
         /\ mpc' \in {"assign", "spin", "send_init"} => mpc \in {"launch", "assign", "spin"}
BY DEF MainMoves, MainLaunch, MainAssignThread, MainSpinLaunch,
       MainLaunchError, MainPollWaiting, MainPollProcessing, MainSpinCleanup,
       MainCloseControl, MainJoin, MainDropChannels, MainStopIo,
       MainRequestIoStop, MainJoinIo, MainGoes, Asking, Running, flagVars

\* A step of the sim thread that reads no message and sends no answer.
SimMoves ==
  \/ SimMakeChannels \/ SimEnter \/ SimInitGivesUp \/ SimStartTimeout \/ SimStartTest
  \/ SimStartTimers \/ SimWaiting \/ SimManage \/ SimLoopTest \/ SimStopTimers \/ SimAskNodes
  \/ SimNotDrained \/ SimPoll \/ SimDrained \/ SimShutdownTimeout \/ SimShutdownTest \/ SimExit

LEMMA SimMovesOn ==
  ASSUME SimMoves, TypeOK
  PROVE  /\ UNCHANGED <<ctl, acks, flagVars>>
         /\ Answered' = Answered
         /\ spc' \in Launching => spc \in Launching
         /\ spc' = "init_ack" => stop
         /\ spc' \in {"await_start", "start_test"} => spc \in {"await_start", "start_test"}
         /\ spc' \notin Launching \cup {"init_ack", "await_start", "start_test"} =>
              \/ spc = "start_test" /\ (running \/ error \/ stop)
              \/ spc \notin Launching \cup {"init_ack", "await_start", "start_test"}
         /\ spc' \notin Leaving => spc \notin Leaving
BY DEF SimMoves, SimMakeChannels, SimEnter, SimInitGivesUp, SimStartTimeout, SimStartTest,
       SimStartTimers, SimWaiting, SimManage, SimLoopTest, SimStopTimers, SimAskNodes, SimNotDrained,
       SimPoll, SimDrained, SimShutdownTimeout, SimShutdownTest, SimExit, SimGoes, flagVars, Answered,
       Launching, Leaving, TypeOK, SimPcs

\* The steps of Next, by what they do to the queues.
LEMMA StepCases ==
  ASSUME [Next]_vars
  PROVE  \/ MainMoves \/ MainSendInit \/ MainInitAck \/ MainSendStart \/ MainSendShutdown
         \/ MainShutdownAck
         \/ SimMoves \/ SimInitMessage \/ SimInitAck \/ SimStartMessage \/ SimHandleMessage
         \/ SimShutdownMessage \/ SimShutdownAck
         \/ Io \/ UNCHANGED vars
BY DEF Next, Main, Sim, MainMoves, SimMoves

-----------------------------------------------------------------------------
(* The four parts of the invariant *)

LEMMA AnswersStep ==
  ASSUME TypeOK, AnswersAccounted, MessagesAccounted, [Next]_vars
  PROVE  AnswersAccounted'
<1> USE DEF AnswersAccounted
<1>types. mpc \in MainPcs /\ spc \in SimPcs /\ acks \in Seq(Answers) /\ error \in BOOLEAN
  BY DEF TypeOK
<1>1. CASE MainMoves
  BY <1>1, <1>types, MainMovesOn DEF Answered, Launching
<1>2. CASE MainSendInit \/ MainSendStart \/ MainSendShutdown
  BY <1>2, <1>types DEF MainSendInit, MainSendStart, MainSendShutdown, MainPush, MainGoes, flagVars,
                        Answered, Asking, Running
<1>3. CASE MainInitAck
  <2>1. Answered \in {0, 1, 2} /\ (Answered = 0 => ~error)
    BY DEF Answered
  <2>2. mpc = "init_ack" /\ mpc' = "launched" /\ Len(acks) = Answered /\ spc' = spc
    BY <1>3 DEF MainInitAck, WaitForAck, MainGoes, Asking
  <2>3. acks # <<>> /\ acks' = Tail(acks)
    <3>1. acks = <<>> => Len(acks) = 0
      OBVIOUS
    <3> QED BY <1>3, <2>1, <2>2, <3>1 DEF MainInitAck, WaitForAck
  <2>4. Len(acks') + 1 = Len(acks)
    BY <2>3, <1>types
  <2>5. Answered' = Answered
    BY <2>2 DEF Answered
  <2>6. Answered # 0
    BY <2>2, <2>4, <1>types, <2>3
  <2> QED BY <2>2, <2>4, <2>5, <2>6 DEF Asking, Running, Answered
<1>4. CASE MainShutdownAck
  BY <1>4, <1>types DEF MainShutdownAck, WaitForAck, MainGoes, Answered, Asking, Running, Launching
<1>5. CASE SimMoves
  <2>1. UNCHANGED <<mpc, acks, error>> /\ Answered' = Answered
    BY <1>5, SimMovesOn, SimKeeps DEF SimMoves, Sim, simKeeps, flagVars
  <2>2. spc \in Launching \cup {"init_ack"} <=> Answered = 0
    BY DEF Answered
  <2>3. spc' \in Launching \cup {"init_ack"} <=> Answered' = 0
    BY DEF Answered
  <2> QED BY <2>1, <2>2, <2>3
<1>6. CASE SimInitMessage
  <2>1. ~error'
    <3>1. ~error /\ ctl # <<>> /\ (error' <=> error \/ Head(ctl) # "THREAD_INITIALIZE")
      BY <1>6 DEF SimInitMessage, SimGoes, Launching
    <3>2. ctl \in {<<>>, <<"THREAD_INITIALIZE">>}
      BY <1>6 DEF SimInitMessage, SimGoes, MessagesAccounted, Launching
    <3> QED BY <3>1, <3>2
  <2> QED BY <1>6, <1>types, <2>1 DEF SimInitMessage, SimGoes, simKeeps, Answered, Launching
<1>7. CASE SimStartMessage \/ SimHandleMessage \/ SimShutdownMessage
  <2>1. Answered' = Answered /\ spc' \notin Launching \cup {"init_ack"} /\ UNCHANGED <<mpc, acks>>
    BY <1>7 DEF SimStartMessage, SimHandleMessage, SimShutdownMessage, SimGoes, simKeeps,
                Answered, Launching
  <2> QED BY <2>1
<1>8. CASE SimInitAck \/ SimShutdownAck
  <2>1. PICK a : acks' = Append(acks, a) /\ (~error => a = "ACK")
    BY <1>8 DEF SimInitAck, SimShutdownAck, SimAnswer
  <2>2. /\ Answered' = Answered + 1 /\ Answered \in {0, 1} /\ (Answered = 0 => ~error)
        /\ spc' \notin Launching \cup {"init_ack"} /\ mpc' = mpc
    BY <1>8 DEF SimInitAck, SimShutdownAck, SimAnswer, SimGoes, simKeeps, Answered, Launching
  <2>3. Len(acks') = Len(acks) + 1 /\ Len(acks) \in Nat
    BY <2>1, <1>types
  <2>4. mpc \in Asking => acks' # <<>> /\ Head(acks') = "ACK"
    <3>1. acks = <<>> => Len(acks) = 0 /\ Head(acks') = a
      BY <2>1
    <3>2. acks # <<>> => Len(acks) # 0 /\ Head(acks') = Head(acks)
      BY <2>1, <1>types
    <3> QED BY <2>1, <2>2, <2>3, <3>1, <3>2
  <2> QED BY <2>2, <2>3, <2>4
<1>9. CASE Io
  BY <1>9, IoKeeps DEF ioKeeps, Answered
<1>10. CASE UNCHANGED vars
  BY <1>10 DEF vars, Answered
<1> QED BY <1>1, <1>2, <1>3, <1>4, <1>5, <1>6, <1>7, <1>8, <1>9, <1>10, StepCases

LEMMA MessagesStep ==
  ASSUME TypeOK, HandOverInv, AnswersAccounted, TimersNotStarted, MessagesAccounted, [Next]_vars
  PROVE  MessagesAccounted'
<1> USE DEF MessagesAccounted
<1>types. /\ mpc \in MainPcs /\ spc \in SimPcs /\ ctl \in Seq(Messages) /\ acks \in Seq(Answers)
          /\ error \in BOOLEAN /\ running \in BOOLEAN /\ initialized \in BOOLEAN /\ stop \in BOOLEAN
  BY DEF TypeOK
<1>1. CASE MainMoves
  BY <1>1, MainMovesOn, MainKeeps DEF MainMoves, Main, Launching
<1>2. CASE MainSendInit
  <2>1. /\ mpc = "send_init" /\ mpc' = "init_ack" /\ ctl' = Append(ctl, "THREAD_INITIALIZE")
        /\ UNCHANGED <<spc, running, stop>>
    BY <1>2 DEF MainSendInit, MainPush, MainGoes, flagVars
  <2>2. spc \in Launching => ctl' = <<"THREAD_INITIALIZE">>
    BY <2>1
  <2> QED BY <2>1, <2>2
<1>3. CASE MainInitAck
  <2>1. /\ mpc = "init_ack" /\ mpc' = "launched" /\ UNCHANGED <<spc, ctl, stop, running, initialized>>
        /\ spc \notin Launching \cup {"init_ack"} /\ (error' => error)
    <3>1. Len(acks) = Answered /\ (acks # <<>> => Head(acks) = "ACK")
      BY <1>3 DEF MainInitAck, WaitForAck, MainGoes, AnswersAccounted, Asking
    <3>2. acks = <<>> <=> Len(acks) = 0
      BY <1>types
    <3>3. spc \in Launching \cup {"init_ack"} => acks = <<>> /\ ~error
      BY <3>1, <3>2 DEF Answered, AnswersAccounted
    <3> QED BY <1>3, <3>1, <3>3 DEF MainInitAck, WaitForAck, MainGoes
  <2> QED BY <2>1 DEF Leaving
<1>4. CASE MainSendStart
  <2>1. spc \notin Launching \cup {"init_ack"}
    <3>1. Len(acks) + 1 = Answered /\ Len(acks) \in Nat
      BY <1>4, <1>types DEF MainSendStart, MainPush, MainGoes, AnswersAccounted, Running
    <3> QED BY <3>1 DEF Answered
  <2>2. /\ mpc = "launched" /\ mpc' = "poll1" /\ ctl' = Append(ctl, "THREAD_START")
        /\ UNCHANGED <<spc, running, stop, initialized, error>>
    BY <1>4 DEF MainSendStart, MainPush, MainGoes, flagVars
  <2>3. ~stop => spc \in {"await_start", "start_test"} /\ ctl' = <<"THREAD_START">> /\ ~running
    <3>1. ~stop => spc \in {"await_start", "start_test"} /\ ctl = <<>> /\ ~running
      BY <2>1, <2>2
    <3>2. ctl = <<>> => ctl' = <<"THREAD_START">>
      BY <2>2
    <3> QED BY <3>1, <3>2
  <2> QED BY <2>1, <2>2, <2>3 DEF Leaving
<1>5. CASE MainSendShutdown \/ MainShutdownAck
  <2>1. spc \in Leaving /\ UNCHANGED <<spc, stop, running, initialized>>
        /\ mpc' \in {"shutdown_ack", "close_control"}
    BY <1>5 DEF MainSendShutdown, MainShutdownAck, MainPush, WaitForAck, MainGoes, flagVars,
                HandOverInv, ThreadOrder
  <2> QED BY <2>1 DEF Leaving, Launching
<1>6. CASE SimMoves
  <2>1. UNCHANGED <<mpc, stop>>
    BY <1>6, SimKeeps DEF SimMoves, Sim, simKeeps
  <2>2. UNCHANGED <<ctl, error, running, initialized>>
    BY <1>6, SimMovesOn DEF flagVars
  <2>3. spc' \in Launching => spc \in Launching
    BY <1>6, SimMovesOn
  <2>4. spc' = "init_ack" => stop
    BY <1>6, SimMovesOn
  <2>5. spc' \in {"await_start", "start_test"} => spc \in {"await_start", "start_test"}
    BY <1>6, SimMovesOn
  <2>6. spc' \notin Launching \cup {"init_ack", "await_start", "start_test"} =>
          \/ spc = "start_test" /\ (running \/ error \/ stop)
          \/ spc \notin Launching \cup {"init_ack", "await_start", "start_test"}
    BY <1>6, SimMovesOn
  <2>7. spc' \notin Leaving => spc \notin Leaving
    BY <1>6, SimMovesOn
  <2>8. /\ spc' \in Launching \cup {"init_ack"} => spc \in Launching \cup {"init_ack"}
        /\ ~stop /\ spc' \notin Launching => spc \notin Launching
    BY <1>6, <2>3, SimMovesOn DEF Answered, Launching
  <2>9. ~stop /\ spc \notin Leaving => ~error
    BY DEF AnswersAccounted
  <2>10. ASSUME ~stop, spc' \notin Launching
         PROVE  /\ error => spc' \in Leaving
                /\ spc' \notin Leaving \cup {"init_ack", "await_start", "start_test"} =>
                     \A i \in 1..Len(ctl) : ctl[i] = "SIM_EVENT"
    <3>1. error => spc' \in Leaving
      BY <2>7, <2>9, <2>10
    <3>2. CASE spc = "start_test" /\ running
      BY <3>1, <3>2, <2>8, <2>10
    <3>3. CASE spc \notin Launching \cup {"init_ack", "await_start", "start_test"}
      BY <3>1, <3>3, <2>7, <2>10
    <3>4. spc = "start_test" => spc \notin Leaving
      BY DEF Leaving
    <3> QED BY <3>1, <3>2, <3>3, <3>4, <2>6, <2>9, <2>10
  <2>11. ASSUME ~stop, spc' \notin Launching \cup {"init_ack", "await_start", "start_test"}
         PROVE  mpc \notin {"init_ack", "launched"}
    <3>1. CASE spc = "start_test" /\ running
      BY <3>1, <2>11, <2>8
    <3>2. spc = "start_test" => spc \notin Leaving
      BY DEF Leaving
    <3> QED BY <3>1, <3>2, <2>6, <2>9, <2>11
  <2> QED BY <2>1, <2>2, <2>3, <2>4, <2>5, <2>8, <2>10, <2>11
<1>7. CASE SimInitMessage
  <2>1. mpc = "init_ack" /\ ctl = <<"THREAD_INITIALIZE">> /\ ~error /\ ~running
    BY <1>7 DEF SimInitMessage, SimGoes, Launching, AnswersAccounted
  <2>2. Head(ctl) = "THREAD_INITIALIZE" /\ Tail(ctl) = <<>>
    BY <2>1
  <2> QED BY <1>7, <2>1, <2>2 DEF SimInitMessage, SimGoes, simKeeps, Launching
<1>8. CASE SimInitAck
  BY <1>8 DEF SimInitAck, SimAnswer, SimGoes, simKeeps, flagVars, Launching, Leaving
<1>9. CASE SimStartMessage
  <2>1. ~stop => ctl' = <<>> /\ Head(ctl) = "THREAD_START"
    <3>1. spc = "await_start" /\ ctl # <<>> /\ ctl' = Tail(ctl) /\ spc \notin Launching
      BY <1>9 DEF SimStartMessage, SimGoes, Launching
    <3>2. ~stop => ctl = <<"THREAD_START">>
      BY <3>1
    <3>3. Head(<<"THREAD_START">>) = "THREAD_START" /\ Tail(<<"THREAD_START">>) = <<>>
      OBVIOUS
    <3>4. ASSUME ~stop PROVE ctl' = <<>> /\ Head(ctl) = "THREAD_START"
      <4>1. ctl = <<"THREAD_START">> /\ ctl' = Tail(ctl)
        BY <3>1, <3>2, <3>4
      <4> QED BY <3>3, <4>1
    <3> QED BY <3>4
  <2> QED BY <1>9, <2>1 DEF SimStartMessage, SimGoes, simKeeps, Launching, Leaving
<1>10. CASE SimHandleMessage
  <2>1. \A i \in 1..Len(ctl') : i + 1 \in 1..Len(ctl) /\ ctl'[i] = ctl[i + 1]
    BY <1>10, <1>types DEF SimHandleMessage
  <2> QED BY <1>10, <2>1 DEF SimHandleMessage, SimGoes, simKeeps, flagVars, Launching, Leaving
<1>11. CASE SimShutdownMessage \/ SimShutdownAck
  <2>1. /\ spc \in Leaving /\ spc' \in Leaving /\ UNCHANGED <<mpc, stop, initialized>>
    BY <1>11 DEF SimShutdownMessage, SimShutdownAck, SimAnswer, SimGoes, simKeeps, flagVars, Leaving
  <2> QED BY <2>1 DEF Leaving, Launching
<1>12. CASE Io
  <2>1. UNCHANGED <<mpc, spc, error, initialized>>
    BY <1>12, IoKeeps DEF ioKeeps
  <2>2. (~stop' => ~stop) /\ (running' => running)
    BY <1>12, <1>types DEF Io, IoStep, TimerExpires, IoTimeout, IoRearm, IoSignal, IoRequestStop,
                IoConnect, IoAccept, IoPeerAck, IoRunReturns, IoRestart, IoTest
  <2>3. ctl' = ctl \/ (timer = "queued" /\ ctl' = Append(ctl, "SIM_EVENT"))
    BY <1>12 DEF Io, IoStep, TimerExpires, IoTimeout, IoRearm, IoSignal, IoRequestStop, IoConnect, IoAccept,
                 IoPeerAck, IoRunReturns, IoRestart, IoTest
  <2>4. CASE ctl' = ctl
    BY <2>1, <2>2, <2>4
  <2>5. CASE timer = "queued" /\ ctl' = Append(ctl, "SIM_EVENT")
    <3>1. spc \notin Launching \cup {"init_ack", "await_start", "start_test"}
      BY <2>5 DEF TimersNotStarted
    <3>2. ASSUME \A i \in 1..Len(ctl) : ctl[i] = "SIM_EVENT"
          PROVE  \A i \in 1..Len(ctl') : ctl'[i] = "SIM_EVENT"
      BY <2>5, <3>2, <1>types
    <3> QED BY <2>1, <2>2, <3>1, <3>2
  <2> QED BY <2>3, <2>4, <2>5
<1>13. CASE UNCHANGED vars
  BY <1>13 DEF vars
<1> QED BY <1>1, <1>2, <1>3, <1>4, <1>5, <1>6, <1>7, <1>8, <1>9, <1>10, <1>11, <1>12, <1>13, StepCases

LEMMA TimersStep ==
  ASSUME TypeOK, TimersNotStarted, [Next]_vars
  PROVE  TimersNotStarted'
<1> USE DEF TimersNotStarted
<1>types. spc \in SimPcs /\ iopc \in IoPcs /\ timer \in TimerStates
  BY DEF TypeOK
<1>1. CASE Main
  BY <1>1, MainKeeps DEF Launching
<1>2. CASE SimStartTimers
  BY <1>2 DEF SimStartTimers, SimGoes, simKeeps, Launching
<1>3. CASE Sim /\ ~SimStartTimers
  <2>1. timer' = timer \/ (timer = "armed" /\ timer' = "idle")
    BY <1>3 DEF Sim, SimMakeChannels, SimEnter, SimInitMessage, SimInitGivesUp, SimInitAck,
                SimStartMessage, SimStartTimeout, SimStartTest, SimWaiting, SimHandleMessage,
                SimManage, SimLoopTest, SimStopTimers, SimAskNodes, SimNotDrained, SimPoll, SimDrained,
                SimShutdownMessage, SimShutdownTimeout, SimShutdownTest, SimShutdownAck, SimExit,
                SimAnswer
  <2>2. /\ spc' \in Launching \cup {"init_ack", "await_start", "start_test", "start_timers"}
              => spc \in Launching \cup {"init_ack", "await_start", "start_test", "start_timers"}
        /\ iopc' = iopc
    BY <1>3, <1>types, SimKeeps
       DEF Sim, SimMakeChannels, SimEnter, SimInitMessage, SimInitGivesUp, SimInitAck,
           SimStartMessage, SimStartTimeout, SimStartTest, SimWaiting, SimHandleMessage,
           SimManage, SimLoopTest, SimStopTimers, SimAskNodes, SimNotDrained, SimPoll, SimDrained,
           SimShutdownMessage, SimShutdownTimeout, SimShutdownTest, SimShutdownAck, SimExit,
           SimAnswer, SimGoes, simKeeps, Launching
  <2> QED BY <2>1, <2>2
<1>4. CASE Io
  <2>1. spc' = spc
    BY <1>4, IoKeeps DEF ioKeeps
  <2>2. timer = "idle" /\ iopc # "rearm" => timer' = "idle"
    BY <1>4 DEF Io, IoStep, TimerExpires, IoTimeout, IoRearm, IoSignal, IoRequestStop, IoConnect, IoAccept,
                IoPeerAck, IoRunReturns, IoRestart, IoTest, IoGoes
  <2>3. iopc' = "rearm" => timer' = "firing"
    BY <1>4 DEF Io, IoStep, TimerExpires, IoTimeout, IoRearm, IoSignal, IoRequestStop, IoConnect, IoAccept,
                IoPeerAck, IoRunReturns, IoRestart, IoTest, IoGoes, IoServing
  <2> QED BY <2>1, <2>2, <2>3
<1>5. CASE UNCHANGED vars
  BY <1>5 DEF vars
<1> QED BY <1>1, <1>2, <1>3, <1>4, <1>5 DEF Next

LEMMA ShutdownStep ==
  ASSUME TypeOK, HandOverInv, ShutdownAccounted, [Next]_vars
  PROVE  ShutdownAccounted'
<1> USE DEF ShutdownAccounted
<1>types. ctl \in Seq(Messages) /\ finalized \in BOOLEAN
  BY DEF TypeOK
<1>1. CASE MainMoves
  BY <1>1, MainMovesOn, MainKeeps DEF MainMoves, Main
<1>2. CASE MainSendInit \/ MainSendStart \/ MainSendShutdown
  <2>1. CASE MainSendShutdown
    <3>1. ctl' = Append(ctl, "THREAD_SHUTDOWN")
      BY <2>1 DEF MainSendShutdown, MainPush
    <3>2. Len(ctl') \in 1..Len(ctl') /\ ctl'[Len(ctl')] = "THREAD_SHUTDOWN"
      BY <3>1, <1>types
    <3> QED BY <3>2
  <2> QED BY <1>2, <2>1 DEF MainSendInit, MainSendStart, MainPush, MainGoes
<1>3. CASE MainInitAck \/ MainShutdownAck
  BY <1>3 DEF MainInitAck, MainShutdownAck, WaitForAck, MainGoes
<1>4. CASE SimMoves
  BY <1>4, SimMovesOn, SimKeeps DEF SimMoves, Sim, simKeeps, flagVars
<1>5. CASE SimInitMessage \/ SimStartMessage \/ SimHandleMessage
  BY <1>5 DEF SimInitMessage, SimStartMessage, SimHandleMessage, SimGoes, simKeeps, HandOverInv,
              ThreadOrder, Leaving
<1>6. CASE SimShutdownMessage
  <2>1. /\ mpc' = mpc /\ ctl # <<>> /\ ctl' = Tail(ctl)
        /\ Head(ctl) = "THREAD_SHUTDOWN" => finalized'
        /\ finalized => finalized'
    BY <1>6 DEF SimShutdownMessage, simKeeps
  <2>2. ASSUME NEW i \in 1..Len(ctl), ctl[i] = "THREAD_SHUTDOWN", i # 1
        PROVE  i - 1 \in 1..Len(ctl') /\ ctl'[i - 1] = "THREAD_SHUTDOWN"
    BY <2>1, <2>2, <1>types
  <2>3. ctl[1] = Head(ctl)
    BY <2>1, <1>types
  <2> QED BY <2>1, <2>2, <2>3
<1>7. CASE SimInitAck \/ SimShutdownAck
  BY <1>7 DEF SimInitAck, SimShutdownAck, SimAnswer, simKeeps, flagVars
<1>8. CASE Io
  <2>1. UNCHANGED <<mpc, finalized>>
    BY <1>8, IoKeeps DEF ioKeeps
  <2>2. ctl' = ctl \/ ctl' = Append(ctl, "SIM_EVENT")
    BY <1>8 DEF Io, IoStep, TimerExpires, IoTimeout, IoRearm, IoSignal, IoRequestStop, IoConnect, IoAccept,
                IoPeerAck, IoRunReturns, IoRestart, IoTest
  <2>3. ASSUME NEW i \in 1..Len(ctl) PROVE i \in 1..Len(ctl') /\ ctl'[i] = ctl[i]
    BY <2>2, <1>types
  <2> QED BY <2>1, <2>3
<1>9. CASE UNCHANGED vars
  BY <1>9 DEF vars
<1> QED BY <1>1, <1>2, <1>3, <1>4, <1>5, <1>6, <1>7, <1>8, <1>9, StepCases

-----------------------------------------------------------------------------
(* The theorems *)

\* The account of both queues holds from the launch to the end of the simulation.
THEOREM QueuesAreAccounted == Spec => []MessagesInv
<1>1. Init => MessagesInv
  BY DEF Init, MessagesInv, AnswersAccounted, TimersNotStarted, MessagesAccounted, ShutdownAccounted,
         Answered, Asking, Running, Launching, Leaving
<1>2. TypeOK /\ HandOverInv /\ MessagesInv /\ [Next]_vars => MessagesInv'
  BY AnswersStep, TimersStep, MessagesStep, ShutdownStep DEF MessagesInv
<1> QED BY <1>1, <1>2, TypeCorrect, HandOver, PTL DEF Spec

\* wait_for_ack() takes whatever answer comes first, and the one that ends cleanup() is that of
\* wait_for_shutdown(): while the main thread sends THREAD_SHUTDOWN and waits, an answer in the
\* queue was sent by a sim thread that is about to exit.
THEOREM AnswersAreFresh == Spec => []ShutdownAnswerIsFresh
<1>1. TypeOK /\ MessagesInv => ShutdownAnswerIsFresh
  <2> SUFFICES ASSUME TypeOK, MessagesInv, mpc \in {"send_shutdown", "shutdown_ack"}, acks # <<>>
               PROVE  spc \in {"exit", "exited"}
    BY DEF ShutdownAnswerIsFresh
  <2>1. Len(acks) + 1 = Answered
    BY DEF MessagesInv, AnswersAccounted, Running
  <2>2. Len(acks) \in Nat \ {0}
    BY DEF TypeOK
  <2> QED BY <2>1, <2>2 DEF Answered
<1> QED BY <1>1, TypeCorrect, QueuesAreAccounted, PTL

\* Without a stop request no wait of the launch and no turn of the main loop ends in an error: each
\* finds the message it expects.  What is left of the events is an error for wait_for_shutdown()
\* alone.
THEOREM ErrorsFollowStops == Spec => []NoErrorWithoutStop
<1>1. TypeOK /\ HandOverInv /\ MessagesInv => NoErrorWithoutStop
  BY DEF TypeOK, SimPcs, HandOverInv, StateFollowsThread, MessagesInv, AnswersAccounted,
         MessagesAccounted, NoErrorWithoutStop, Leaving, Launching
<1> QED BY <1>1, TypeCorrect, HandOver, QueuesAreAccounted, PTL

\* The loop serves events, polls the control and asks the nodes only after launch_nodes() and the
\* layers are bound, unless a stop request overtook the launch.
THEOREM LoopServesInitialized == Spec => []ServesOnlyInitialized
<1>1. MessagesInv => ServesOnlyInitialized
  BY DEF MessagesInv, MessagesAccounted, ServesOnlyInitialized, Launching
<1> QED BY <1>1, QueuesAreAccounted, PTL

\* A main thread that goes on without its layers shut down leaves THREAD_SHUTDOWN in the queue.
THEOREM ShutdownStaysQueued == Spec => []ShutdownRequestNotLost
<1>1. TypeOK /\ MessagesInv => ShutdownRequestNotLost
  BY DEF TypeOK, MessagesInv, ShutdownAccounted, ShutdownRequestNotLost
<1> QED BY <1>1, TypeCorrect, QueuesAreAccounted, PTL

\* The main loop, which ignores control messages, takes none of them away from the phase that
\* waits for it unless a stop was requested.
THEOREM LoopTakesOnlyEvents == Spec => ControlMessageReachesItsPhase
<1>1. TypeOK /\ MessagesInv => (SimHandleMessage => Head(ctl) = "SIM_EVENT" \/ stop)
  <2> SUFFICES ASSUME TypeOK, MessagesInv, SimHandleMessage, ~stop PROVE Head(ctl) = "SIM_EVENT"
    OBVIOUS
  <2>1. spc = "await" /\ ctl # <<>> /\ ctl \in Seq(Messages)
    BY DEF SimHandleMessage, SimGoes, TypeOK
  <2>2. 1 \in 1..Len(ctl) /\ Head(ctl) = ctl[1]
    BY <2>1
  <2> QED BY <2>1, <2>2 DEF MessagesInv, MessagesAccounted, Launching, Leaving
<1> QED BY <1>1, TypeCorrect, QueuesAreAccounted, PTL DEF ControlMessageReachesItsPhase
=============================================================================
