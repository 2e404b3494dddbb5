-------------------------- MODULE ChatClientProofs --------------------------
(* Theorems about ChatClient for any number of turns, callers, permission  *)
(* requests, background tasks and connections.                             *)
EXTENDS ChatClient, TLAPS

-----------------------------------------------------------------------------
(* Lemmas about the values the steps build *)

LEMMA EventTypes ==
    /\ \A kind \in {"started", "user", "proxy", "completed", "failed", "end"} :
         Ev(kind) \in Event
    /\ \A r \in Requests : Ask(r) \in Event /\ Answer(r) \in Event
BY DEF Ev, Ask, Answer, Event

LEMMA MessageTypes ==
    ASSUME NEW m \in Message
    PROVE  /\ m.kind \in {"alive", "ended", "notified", "stopped"} => m.task \in Tasks
           /\ m.kind = "result" => m.result \in Result
BY DEF Message

LEMMA EmittedTypes ==
    /\ \A k \in Tasks, kind \in {"alive", "ended", "notified", "stopped"} :
         TaskMessage(kind, k) \in Message
    /\ \A t \in Turns \cup {"none"}, origin \in Origins :
         ResultMessage(origin, t) \in Message
BY DEF TaskMessage, ResultMessage, Message, Result

LEMMA NoResultType == NoResult \in Result
BY DEF NoResult, Result, Origins

LEMMA PutType ==
    ASSUME NEW t, NEW event \in Event,
           queue \in [Turns -> Seq(Event)], Put(t, event)
    PROVE  queue' \in [Turns -> Seq(Event)]
<1>1. CASE t \in Turns
  BY <1>1 DEF Put
<1>2. CASE t \notin Turns
  BY <1>2 DEF Put
<1> QED BY <1>1, <1>2

LEMMA HangupType ==
    ASSUME Hangup, CliType, injected' = injected
    PROVE  CliType'
<1>1. inbox' \in Seq(Message)
  BY DEF Hangup
<1>2. cliTask' \in [Tasks -> {"new", "running", "ended", "owed", "over"}]
  BY DEF Hangup
<1> QED BY <1>1, <1>2 DEF Hangup, CliType

LEMMA ConsumeType ==
    ASSUME NEW t \in Turns, StreamsType, Consume(t)
    PROVE  StreamsType'
<1>1. Head(queue[t]) \in Event
  BY DEF Consume, Dequeue, StreamsType
<1>2. queue' \in [Turns -> Seq(Event)]
  BY DEF Consume, Dequeue, StreamsType
<1>3. shown' \in [Turns -> SUBSET Event]
  BY <1>1 DEF Consume, Dequeue, StreamsType
<1>4. held' \in [Turns -> Terminal \cup {"none"}]
  BY <1>1 DEF Consume, Dequeue, StreamsType, HeldBack
<1> QED BY <1>2, <1>3, <1>4 DEF Consume, Dequeue, StreamsType

LEMMA BeginTurnType ==
    ASSUME NEW t \in Turns, StreamsType, BeginTurn(t)
    PROVE  StreamsType'
<1>1. <<Ev("started"), Ev("user")>> \in Seq(Event)
  BY EventTypes
<1>2. queue' \in [Turns -> Seq(Event)]
  BY <1>1 DEF BeginTurn, StreamsType
<1> QED BY <1>2 DEF BeginTurn, StreamsType, delivered

-----------------------------------------------------------------------------
(* Type correctness *)

\* Every state of the client is well typed, whatever the interleaving.
THEOREM TypeCorrect == Spec => []TypeOK
<1> USE DEF locks, control, inner, conn, turnState, locals, producer, delivered,
           streams, callbacks, cli
<1>1. Init => TypeOK
  <2> SUFFICES ASSUME Init PROVE TypeOK
    OBVIOUS
  <2>1. ControlType
    BY DEF Init, ControlType, Phases
  <2>2. ConnectionType
    BY DEF Init, ConnectionType
  <2>3. TurnType
    BY DEF Init, TurnType
  <2>4. ProducerType
    BY NoResultType DEF Init, ProducerType, ProducerPhases
  <2>5. StreamsType
    BY DEF Init, StreamsType
  <2>6. CallbacksType
    BY DEF Init, CallbacksType
  <2>7. CliType
    <3>1. inbox \in Seq(Message)
      BY DEF Init
    <3>2. cliTask \in [Tasks -> {"new", "running", "ended", "owed", "over"}]
      BY DEF Init
    <3> QED
      BY <3>1, <3>2 DEF Init, CliType
  <2> QED
    BY <2>1, <2>2, <2>3, <2>4, <2>5, <2>6, <2>7 DEF TypeOK
<1>2. TypeOK /\ [Next]_vars => TypeOK'
  <2> SUFFICES ASSUME TypeOK, [Next]_vars PROVE TypeOK'
    OBVIOUS
  <2>1. ASSUME NEW t \in Turns, Send(t) PROVE TypeOK'
    <3>1. ControlType'
      BY <2>1 DEF Send, TypeOK, ControlType, GoTo, Phases, Actors
    <3> QED
      BY <2>1, <3>1 DEF Send, TypeOK, ConnectionType, TurnType, ProducerType,
         StreamsType, CallbacksType, CliType
  <2>2. ASSUME NEW t \in Turns, Consume(t) PROVE TypeOK'
    <3>1. StreamsType'
      BY <2>2, ConsumeType DEF Consume, Dequeue, TypeOK, StreamsType
    <3> QED
      BY <2>2, <3>1 DEF Consume, Dequeue, TypeOK, ControlType, ConnectionType,
         TurnType, ProducerType, CallbacksType, CliType
  <2>3. ASSUME NEW t \in Turns, ConsumeEnd(t) PROVE TypeOK'
    <3>1. ControlType'
      BY <2>3 DEF ConsumeEnd, Dequeue, TypeOK, ControlType, GoTo, Phases,
         Actors
    <3>2. StreamsType'
      BY <2>3 DEF ConsumeEnd, Dequeue, TypeOK, StreamsType
    <3> QED
      BY <2>3, <3>1, <3>2 DEF ConsumeEnd, Dequeue, TypeOK, ConnectionType,
         TurnType, ProducerType, CallbacksType, CliType
  <2>4. ASSUME NEW t \in Turns, CloseQueue(t) PROVE TypeOK'
    <3>1. ControlType'
      BY <2>4 DEF CloseQueue, TypeOK, ControlType, GoTo, Phases, Actors
    <3>2. StreamsType'
      BY <2>4 DEF CloseQueue, TypeOK, StreamsType
    <3> QED
      BY <2>4, <3>1, <3>2 DEF CloseQueue, TypeOK, ConnectionType, TurnType,
         ProducerType, CallbacksType, CliType
  <2>5. ASSUME NEW t \in Turns, LeaveStream(t) PROVE TypeOK'
    <3>1. ControlType'
      BY <2>5 DEF LeaveStream, LockReleased, TypeOK, ControlType, GoTo, Phases, Actors
    <3>2. TurnType'
      BY <2>5 DEF LeaveStream, LockReleased, TypeOK, TurnType
    <3>3. ProducerType'
      BY <2>5 DEF LeaveStream, LockReleased, TypeOK, ProducerType, ProducerPhases
    <3>4. StreamsType'
      BY <2>5 DEF LeaveStream, LockReleased, TypeOK, StreamsType, TurnType
    <3> QED
      BY <2>5, <3>1, <3>2, <3>3, <3>4 DEF LeaveStream, LockReleased, TypeOK, ConnectionType,
         CallbacksType, CliType
  <2>6. ASSUME NEW t \in Turns, OnComplete(t) PROVE TypeOK'
    <3>1. ControlType'
      BY <2>6 DEF OnComplete, TypeOK, ControlType, GoTo, Phases, Actors
    <3> QED
      BY <2>6, <3>1 DEF OnComplete, TypeOK, ConnectionType, TurnType,
         ProducerType, StreamsType, CallbacksType, CliType
  <2>7. ASSUME NEW t \in Turns, ForwardTerminal(t) PROVE TypeOK'
    <3>1. ControlType'
      BY <2>7 DEF ForwardTerminal, TypeOK, ControlType, GoTo, Phases, Actors
    <3>2. StreamsType'
      BY <2>7, EventTypes DEF ForwardTerminal, TypeOK, StreamsType, Terminal
    <3> QED
      BY <2>7, <3>1, <3>2 DEF ForwardTerminal, TypeOK, ConnectionType,
         TurnType, ProducerType, CallbacksType, CliType
  <2>8. ASSUME NEW t \in Turns, Abandon(t) PROVE TypeOK'
    <3>1. ControlType'
      BY <2>8 DEF Abandon, Interrupt, TypeOK, ControlType, GoTo, Phases,
         Actors
    <3>2. TurnType'
      BY <2>8 DEF Abandon, Interrupt, TypeOK, TurnType
    <3>3. CallbacksType'
      BY <2>8 DEF Abandon, Interrupt, TypeOK, CallbacksType, DenyPending
    <3>4. CliType'
      BY <2>8 DEF Abandon, Interrupt, TypeOK, CliType, TurnType
    <3> QED
      BY <2>8, <3>1, <3>2, <3>3, <3>4 DEF Abandon, Interrupt, TypeOK,
         ConnectionType, ProducerType, StreamsType
  <2>9. ASSUME NEW t \in Turns, DrainTimesOut(t) PROVE TypeOK'
    <3>1. ProducerType'
      BY <2>9 DEF DrainTimesOut, Fail, TypeOK, ProducerType, ProducerPhases
    <3>2. CallbacksType'
      BY <2>9 DEF DrainTimesOut, Fail, TypeOK, CallbacksType, DenyPending
    <3> QED
      BY <2>9, <3>1, <3>2 DEF DrainTimesOut, Fail, TypeOK, ControlType,
         ConnectionType, TurnType, StreamsType, CliType
  <2>10. ASSUME NEW a \in Actors, TakeTurnLock(a) PROVE TypeOK'
    <3>1. ControlType'
      BY <2>10 DEF TakeTurnLock, TypeOK, ControlType, GoTo, Phases
    <3> QED
      BY <2>10, <3>1 DEF TakeTurnLock, TypeOK, ConnectionType, TurnType,
         ProducerType, StreamsType, CallbacksType, CliType
  <2>11. ASSUME NEW a \in Actors, AlreadyConnected(a) PROVE TypeOK'
    <3>1. ControlType'
      BY <2>11 DEF AlreadyConnected, Connected, BeginTurn, TypeOK,
         ControlType, GoTo, Phases
    <3>2. TurnType'
      BY <2>11 DEF AlreadyConnected, Connected, BeginTurn, TypeOK, TurnType
    <3>3. ProducerType'
      BY <2>11, NoResultType DEF AlreadyConnected, Connected, BeginTurn,
         TypeOK, ProducerType, ProducerPhases, ConnectionType
    <3>4. StreamsType'
      BY <2>11, BeginTurnType DEF AlreadyConnected, Connected, BeginTurn,
         TypeOK, StreamsType
    <3> QED
      BY <2>11, <3>1, <3>2, <3>3, <3>4 DEF AlreadyConnected, Connected,
         BeginTurn, TypeOK, ConnectionType, CallbacksType, CliType
  <2>12. ASSUME NEW a \in Actors, Open(a) PROVE TypeOK'
    <3>1. ControlType'
      BY <2>12 DEF Open, TypeOK, ControlType, GoTo, Phases
    <3> QED
      BY <2>12, <3>1 DEF Open, TypeOK, ConnectionType, TurnType, ProducerType,
         StreamsType, CallbacksType, CliType
  <2>13. ASSUME NEW a \in Actors, OpenSucceeds(a) PROVE TypeOK'
    <3>1. ControlType'
      BY <2>13 DEF OpenSucceeds, TypeOK, ControlType, GoTo, Phases
    <3>2. ConnectionType'
      BY <2>13 DEF OpenSucceeds, TypeOK, ConnectionType
    <3> QED
      BY <2>13, <3>1, <3>2 DEF OpenSucceeds, TypeOK, TurnType, ProducerType,
         StreamsType, CallbacksType, CliType
  <2>14. ASSUME NEW a \in Actors, ProbeSucceeds(a) PROVE TypeOK'
    <3>1. ControlType'
      BY <2>14 DEF ProbeSucceeds, Connected, BeginTurn, TypeOK, ControlType,
         GoTo, Phases
    <3>2. ConnectionType'
      BY <2>14 DEF ProbeSucceeds, Connected, BeginTurn, TypeOK, ConnectionType
    <3>3. TurnType'
      BY <2>14 DEF ProbeSucceeds, Connected, BeginTurn, TypeOK, TurnType
    <3>4. ProducerType'
      BY <2>14, NoResultType DEF ProbeSucceeds, Connected, BeginTurn, TypeOK,
         ProducerType, ProducerPhases, ConnectionType
    <3>5. StreamsType'
      BY <2>14, BeginTurnType DEF ProbeSucceeds, Connected, BeginTurn, TypeOK,
         StreamsType
    <3> QED
      BY <2>14, <3>1, <3>2, <3>3, <3>4, <3>5 DEF ProbeSucceeds, Connected,
         BeginTurn, TypeOK, CallbacksType, CliType
  <2>15. ASSUME NEW a \in Actors, ConnectRaises(a) PROVE TypeOK'
    <3>1. ControlType'
      BY <2>15 DEF ConnectRaises, TypeOK, ControlType, GoTo, Phases
    <3> QED
      BY <2>15, <3>1 DEF ConnectRaises, TypeOK, ConnectionType, TurnType,
         ProducerType, StreamsType, CallbacksType, CliType
  <2>16. ASSUME NEW a \in Closers, Close(a) PROVE TypeOK'
    <3>1. ControlType'
      BY <2>16, ClientAssumption DEF Close, Interrupt, TypeOK, ControlType,
         Closers, GoTo, Phases, Actors
    <3>2. TurnType'
      BY <2>16 DEF Close, Interrupt, TypeOK, TurnType
    <3>3. CallbacksType'
      BY <2>16 DEF Close, Interrupt, TypeOK, CallbacksType, DenyPending
    <3>4. CliType'
      BY <2>16 DEF Close, Interrupt, TypeOK, CliType, TurnType
    <3> QED
      BY <2>16, <3>1, <3>2, <3>3, <3>4 DEF Close, Interrupt, TypeOK,
         ConnectionType, ProducerType, StreamsType
  <2>17. ASSUME NEW a \in Closers, CloseTakesTurnLock(a) PROVE TypeOK'
    <3>1. ControlType'
      BY <2>17, ClientAssumption DEF CloseTakesTurnLock, TypeOK, ControlType,
         Closers, GoTo, Phases, Actors
    <3> QED
      BY <2>17, <3>1 DEF CloseTakesTurnLock, TypeOK, ConnectionType, TurnType,
         ProducerType, StreamsType, CallbacksType, CliType
  <2>18. ASSUME NEW a \in Closers, CloseTakesConnLock(a) PROVE TypeOK'
    <3>1. ControlType'
      BY <2>18, ClientAssumption DEF CloseTakesConnLock, TypeOK, ControlType,
         Closers, GoTo, Phases, Actors, AfterClose
    <3>2. ConnectionType'
      BY <2>18 DEF CloseTakesConnLock, TypeOK, ConnectionType
    <3> QED
      BY <2>18, <3>1, <3>2 DEF CloseTakesConnLock, TypeOK, TurnType,
         ProducerType, StreamsType, CallbacksType, CliType
  <2>19. ASSUME NEW a \in Closers, Disconnect(a) PROVE TypeOK'
    <3>1. ControlType'
      BY <2>19, ClientAssumption DEF Disconnect, Hangup, TypeOK, ControlType,
         Closers, GoTo, Phases, Actors, AfterClose
    <3>2. ConnectionType'
      BY <2>19 DEF Disconnect, Hangup, TypeOK, ConnectionType, OpenAfterHangup
    <3>3. CallbacksType'
      BY <2>19 DEF Disconnect, Hangup, TypeOK, CallbacksType
    <3>4. CliType'
      BY <2>19, HangupType DEF Disconnect, Hangup, TypeOK, CliType
    <3> QED
      BY <2>19, <3>1, <3>2, <3>3, <3>4 DEF Disconnect, Hangup, TypeOK,
         TurnType, ProducerType, StreamsType
  <2>20. ASSUME Rewind PROVE TypeOK'
    <3>1. ControlType'
      BY <2>20 DEF Rewind, TypeOK, ControlType, GoTo, Phases, Actors
    <3> QED
      BY <2>20, <3>1 DEF Rewind, TypeOK, ConnectionType, TurnType,
         ProducerType, StreamsType, CallbacksType, CliType
  <2>21. ASSUME RewindReturns PROVE TypeOK'
    <3>1. ControlType'
      BY <2>21 DEF RewindReturns, TypeOK, ControlType, GoTo, Phases, Actors
    <3> QED
      BY <2>21, <3>1 DEF RewindReturns, TypeOK, ConnectionType, TurnType,
         ProducerType, StreamsType, CallbacksType, CliType
  <2>22. ASSUME ControlCall PROVE TypeOK'
    <3>1. ControlType'
      BY <2>22 DEF ControlCall, TypeOK, ControlType, GoTo, Phases, Actors
    <3> QED
      BY <2>22, <3>1 DEF ControlCall, TypeOK, ConnectionType, TurnType,
         ProducerType, StreamsType, CallbacksType, CliType
  <2>23. ASSUME RequestStop PROVE TypeOK'
    <3>1. TurnType'
      BY <2>23 DEF RequestStop, Interrupt, TypeOK, TurnType
    <3>2. CallbacksType'
      BY <2>23 DEF RequestStop, Interrupt, TypeOK, CallbacksType, DenyPending
    <3>3. CliType'
      BY <2>23 DEF RequestStop, Interrupt, TypeOK, CliType, TurnType
    <3> QED
      BY <2>23, <3>1, <3>2, <3>3 DEF RequestStop, Interrupt, TypeOK,
         ControlType, ConnectionType, ProducerType, StreamsType
  <2>24. ASSUME SendQuery PROVE TypeOK'
    <3>1. ProducerType'
      BY <2>24 DEF SendQuery, TypeOK, ProducerType, ProducerPhases
    <3>2. CliType'
      BY <2>24 DEF SendQuery, TypeOK, CliType, TurnType
    <3> QED
      BY <2>24, <3>1, <3>2 DEF SendQuery, TypeOK, ControlType, ConnectionType,
         TurnType, StreamsType, CallbacksType
  <2>25. ASSUME QueryReturns PROVE TypeOK'
    <3>1. TurnType'
      BY <2>25 DEF QueryReturns, StopToForward, TypeOK, TurnType
    <3>2. ProducerType'
      BY <2>25 DEF QueryReturns, StopToForward, TypeOK, ProducerType,
         ProducerPhases
    <3>3. CliType'
      BY <2>25 DEF QueryReturns, StopToForward, TypeOK, CliType, TurnType
    <3> QED
      BY <2>25, <3>1, <3>2, <3>3 DEF QueryReturns, StopToForward, TypeOK,
         ControlType, ConnectionType, StreamsType, CallbacksType
  <2>26. ASSUME ReadTaskAlive PROVE TypeOK'
    <3>1. ProducerType'
      BY <2>26, MessageTypes DEF ReadTaskAlive, Reads, TypeOK, ProducerType,
         CliType
    <3>2. CliType'
      BY <2>26 DEF ReadTaskAlive, Reads, TypeOK, CliType
    <3> QED
      BY <2>26, <3>1, <3>2 DEF ReadTaskAlive, Reads, TypeOK, ControlType,
         ConnectionType, TurnType, StreamsType, CallbacksType
  <2>27. ASSUME ReadTaskEnded PROVE TypeOK'
    <3>1. ProducerType'
      BY <2>27 DEF ReadTaskEnded, Reads, TypeOK, ProducerType
    <3>2. CliType'
      BY <2>27 DEF ReadTaskEnded, Reads, TypeOK, CliType
    <3> QED
      BY <2>27, <3>1, <3>2 DEF ReadTaskEnded, Reads, TypeOK, ControlType,
         ConnectionType, TurnType, StreamsType, CallbacksType
  <2>28. ASSUME ReadNotification PROVE TypeOK'
    <3>1. ProducerType'
      BY <2>28 DEF ReadNotification, Reads, TypeOK, ProducerType
    <3>2. CliType'
      BY <2>28 DEF ReadNotification, Reads, TypeOK, CliType
    <3> QED
      BY <2>28, <3>1, <3>2 DEF ReadNotification, Reads, TypeOK, ControlType,
         ConnectionType, TurnType, StreamsType, CallbacksType
  <2>29. ASSUME ReadAnswer PROVE TypeOK'
    <3>1. ProducerType'
      BY <2>29, MessageTypes DEF ReadAnswer, Reads, TypeOK, ProducerType,
         CliType, ProducerPhases
    <3>2. CliType'
      BY <2>29 DEF ReadAnswer, Reads, TypeOK, CliType
    <3> QED
      BY <2>29, <3>1, <3>2 DEF ReadAnswer, Reads, TypeOK, ControlType,
         ConnectionType, TurnType, StreamsType, CallbacksType
  <2>30. ASSUME ReadOtherResult PROVE TypeOK'
    <3>1. ProducerType'
      BY <2>30, MessageTypes DEF ReadOtherResult, Reads, TypeOK, ProducerType,
         CliType, ProducerPhases
    <3>2. StreamsType'
      BY <2>30, EventTypes, PutType DEF ReadOtherResult, Reads, TypeOK,
         StreamsType, TurnType
    <3>3. CliType'
      BY <2>30 DEF ReadOtherResult, Reads, TypeOK, CliType
    <3> QED
      BY <2>30, <3>1, <3>2, <3>3 DEF ReadOtherResult, Reads, TypeOK,
         ControlType, ConnectionType, TurnType, CallbacksType
  <2>31. ASSUME ResponseEnds PROVE TypeOK'
    <3>1. ProducerType'
      BY <2>31 DEF ResponseEnds, Fail, TypeOK, ProducerType, ProducerPhases
    <3>2. CallbacksType'
      BY <2>31 DEF ResponseEnds, Fail, TypeOK, CallbacksType, DenyPending
    <3> QED
      BY <2>31, <3>1, <3>2 DEF ResponseEnds, Fail, TypeOK, ControlType,
         ConnectionType, TurnType, StreamsType, CliType
  <2>32. ASSUME ProducerRaises PROVE TypeOK'
    <3>1. ProducerType'
      BY <2>32 DEF ProducerRaises, Fail, TypeOK, ProducerType, ProducerPhases
    <3>2. CallbacksType'
      BY <2>32 DEF ProducerRaises, Fail, TypeOK, CallbacksType, DenyPending
    <3> QED
      BY <2>32, <3>1, <3>2 DEF ProducerRaises, Fail, TypeOK, ControlType,
         ConnectionType, TurnType, StreamsType, CliType
  <2>33. ASSUME Complete PROVE TypeOK'
    <3>1. TurnType'
      BY <2>33 DEF Complete, TypeOK, TurnType
    <3>2. ProducerType'
      BY <2>33 DEF Complete, TypeOK, ProducerType, ProducerPhases
    <3>3. StreamsType'
      BY <2>33, EventTypes, PutType DEF Complete, TypeOK, StreamsType,
         TurnType
    <3> QED
      BY <2>33, <3>1, <3>2, <3>3 DEF Complete, TypeOK, ControlType,
         ConnectionType, CallbacksType, CliType
  <2>34. ASSUME Discard PROVE TypeOK'
    <3>1. ControlType'
      BY <2>34 DEF Discard, Failed, TypeOK, ControlType
    <3>2. ConnectionType'
      BY <2>34 DEF Discard, Failed, TypeOK, ConnectionType
    <3>3. ProducerType'
      BY <2>34 DEF Discard, Failed, TypeOK, ProducerType, ProducerPhases
    <3>4. StreamsType'
      BY <2>34, EventTypes, PutType DEF Discard, Failed, TypeOK, StreamsType,
         TurnType
    <3> QED
      BY <2>34, <3>1, <3>2, <3>3, <3>4 DEF Discard, Failed, TypeOK, TurnType,
         CallbacksType, CliType
  <2>35. ASSUME DiscardReturns PROVE TypeOK'
    <3>1. ControlType'
      BY <2>35 DEF DiscardReturns, Failed, Hangup, TypeOK, ControlType
    <3>2. ConnectionType'
      BY <2>35 DEF DiscardReturns, Failed, Hangup, TypeOK, ConnectionType,
         OpenAfterHangup
    <3>3. ProducerType'
      BY <2>35 DEF DiscardReturns, Failed, Hangup, TypeOK, ProducerType,
         ProducerPhases
    <3>4. StreamsType'
      BY <2>35, EventTypes, PutType DEF DiscardReturns, Failed, Hangup,
         TypeOK, StreamsType, TurnType
    <3>5. CallbacksType'
      BY <2>35 DEF DiscardReturns, Failed, Hangup, TypeOK, CallbacksType
    <3>6. CliType'
      BY <2>35, HangupType DEF DiscardReturns, Failed, Hangup, TypeOK, CliType
    <3> QED
      BY <2>35, <3>1, <3>2, <3>3, <3>4, <3>5, <3>6 DEF DiscardReturns, Failed,
         Hangup, TypeOK, TurnType
  <2>36. ASSUME EndStream PROVE TypeOK'
    <3>1. TurnType'
      BY <2>36 DEF EndStream, NoLocals, TypeOK, TurnType
    <3>2. ProducerType'
      BY <2>36, NoResultType DEF EndStream, NoLocals, TypeOK, ProducerType,
         ProducerPhases
    <3>3. StreamsType'
      BY <2>36, EventTypes, PutType DEF EndStream, NoLocals, TypeOK,
         StreamsType, TurnType
    <3> QED
      BY <2>36, <3>1, <3>2, <3>3 DEF EndStream, NoLocals, TypeOK, ControlType,
         ConnectionType, CallbacksType, CliType
  <2>37. ASSUME NEW r \in Requests, DenyOutsideStream(r) PROVE TypeOK'
    <3>1. CallbacksType'
      BY <2>37 DEF DenyOutsideStream, TypeOK, CallbacksType
    <3> QED
      BY <2>37, <3>1 DEF DenyOutsideStream, TypeOK, ControlType,
         ConnectionType, TurnType, ProducerType, StreamsType, CliType
  <2>38. ASSUME NEW r \in Requests, AskPermission(r) PROVE TypeOK'
    <3>1. StreamsType'
      BY <2>38, EventTypes, PutType DEF AskPermission, TypeOK, StreamsType,
         TurnType
    <3>2. CallbacksType'
      BY <2>38 DEF AskPermission, TypeOK, CallbacksType, TurnType
    <3> QED
      BY <2>38, <3>1, <3>2 DEF AskPermission, TypeOK, ControlType,
         ConnectionType, TurnType, ProducerType, CliType
  <2>39. ASSUME NEW r \in Requests, AwaitDecision(r) PROVE TypeOK'
    <3>1. CallbacksType'
      BY <2>39 DEF AwaitDecision, TypeOK, CallbacksType
    <3> QED
      BY <2>39, <3>1 DEF AwaitDecision, TypeOK, ControlType, ConnectionType,
         TurnType, ProducerType, StreamsType, CliType
  <2>40. ASSUME NEW r \in Requests, ReportDecision(r) PROVE TypeOK'
    <3>1. StreamsType'
      BY <2>40, EventTypes, PutType DEF ReportDecision, TypeOK, StreamsType,
         CallbacksType
    <3>2. CallbacksType'
      BY <2>40 DEF ReportDecision, TypeOK, CallbacksType
    <3> QED
      BY <2>40, <3>1, <3>2 DEF ReportDecision, TypeOK, ControlType,
         ConnectionType, TurnType, ProducerType, CliType
  <2>41. ASSUME NEW r \in Requests, Resolve(r) PROVE TypeOK'
    <3>1. CallbacksType'
      BY <2>41 DEF Resolve, TypeOK, CallbacksType
    <3> QED
      BY <2>41, <3>1 DEF Resolve, TypeOK, ControlType, ConnectionType,
         TurnType, ProducerType, StreamsType, CliType
  <2>42. ASSUME NEW k \in Tasks, CliTaskStart(k) PROVE TypeOK'
    <3>1. CliType'
      BY <2>42, EmittedTypes DEF CliTaskStart, Emit, TypeOK, CliType
    <3> QED
      BY <2>42, <3>1 DEF CliTaskStart, Emit, TypeOK, ControlType,
         ConnectionType, TurnType, ProducerType, StreamsType, CallbacksType
  <2>43. ASSUME NEW k \in Tasks, CliTaskEnd(k) PROVE TypeOK'
    <3>1. CliType'
      BY <2>43, EmittedTypes DEF CliTaskEnd, Emit, TypeOK, CliType
    <3> QED
      BY <2>43, <3>1 DEF CliTaskEnd, Emit, TypeOK, ControlType,
         ConnectionType, TurnType, ProducerType, StreamsType, CallbacksType
  <2>44. ASSUME NEW k \in Tasks, CliNotify(k) PROVE TypeOK'
    <3>1. CliType'
      BY <2>44, EmittedTypes DEF CliNotify, Emit, TypeOK, CliType
    <3> QED
      BY <2>44, <3>1 DEF CliNotify, Emit, TypeOK, ControlType, ConnectionType,
         TurnType, ProducerType, StreamsType, CallbacksType
  <2>45. ASSUME NEW k \in Tasks, CliNotifyStopped(k) PROVE TypeOK'
    <3>1. CliType'
      BY <2>45, EmittedTypes DEF CliNotifyStopped, Emit, TypeOK, CliType
    <3> QED
      BY <2>45, <3>1 DEF CliNotifyStopped, Emit, TypeOK, ControlType,
         ConnectionType, TurnType, ProducerType, StreamsType, CallbacksType
  <2>46. ASSUME CliAnswer PROVE TypeOK'
    <3>1. CliType'
      BY <2>46, EmittedTypes DEF CliAnswer, Emit, TypeOK, CliType, Origins
    <3> QED
      BY <2>46, <3>1 DEF CliAnswer, Emit, TypeOK, ControlType, ConnectionType,
         TurnType, ProducerType, StreamsType, CallbacksType
  <2>47. ASSUME CliContinue PROVE TypeOK'
    <3>1. CliType'
      BY <2>47, EmittedTypes DEF CliContinue, Emit, TypeOK, CliType, Origins
    <3> QED
      BY <2>47, <3>1 DEF CliContinue, Emit, TypeOK, ControlType,
         ConnectionType, TurnType, ProducerType, StreamsType, CallbacksType
  <2>48. ASSUME CliInject PROVE TypeOK'
    <3>1. CliType'
      BY <2>48, EmittedTypes DEF CliInject, Emit, TypeOK, CliType, Origins
    <3> QED
      BY <2>48, <3>1 DEF CliInject, Emit, TypeOK, ControlType, ConnectionType,
         TurnType, ProducerType, StreamsType, CallbacksType
  <2>49. ASSUME CliDies PROVE TypeOK'
    <3>1. CliType'
      BY <2>49 DEF CliDies, TypeOK, CliType
    <3> QED
      BY <2>49, <3>1 DEF CliDies, TypeOK, ControlType, ConnectionType,
         TurnType, ProducerType, StreamsType, CallbacksType
  <2>50. ASSUME UNCHANGED vars PROVE TypeOK'
    <3> QED
      BY <2>50 DEF vars, TypeOK, ControlType, ConnectionType, TurnType,
         ProducerType, StreamsType, CallbacksType, CliType
  <2> QED
    BY <2>1, <2>2, <2>3, <2>4, <2>5, <2>6, <2>7, <2>8, <2>9, <2>10, <2>11,
       <2>12, <2>13, <2>14, <2>15, <2>16, <2>17, <2>18, <2>19, <2>20, <2>21,
       <2>22, <2>23, <2>24, <2>25, <2>26, <2>27, <2>28, <2>29, <2>30, <2>31,
       <2>32, <2>33, <2>34, <2>35, <2>36, <2>37, <2>38, <2>39, <2>40, <2>41,
       <2>42, <2>43, <2>44, <2>45, <2>46, <2>47, <2>48, <2>49, <2>50
    DEF Next, Connecting, ClosingStep, Produce, StreamStep, Callback, CliReports
<1> QED BY <1>1, <1>2, PTL DEF Spec

-----------------------------------------------------------------------------
(* The lock discipline *)

core == <<pc, turnLock, connLock, sdk, dropping, live, active, prod, using>>

LEMMA CoreUnchanged ==
    ASSUME LockDiscipline, UNCHANGED core
    PROVE  LockDiscipline'
BY DEF core, LockDiscipline, LockOwners, HoldsTurnLock, HoldsConnLock,
   ControlPhases, ActiveTurn, InStream, ConnectionUse

\* A producer that goes on, in its turn and without the connection lock.
LEMMA ProducerMoves ==
    ASSUME LockDiscipline,
           UNCHANGED <<pc, turnLock, connLock, sdk, dropping, live, active>>,
           prod \notin {"off", "discard", "finished"},
           prod' \notin {"off", "discard"},
           prod' \in Reading => prod \in Reading /\ using' = using
    PROVE  LockDiscipline'
BY DEF LockDiscipline, LockOwners, HoldsTurnLock, HoldsConnLock,
   ControlPhases, ActiveTurn, InStream, ConnectionUse

\* Every phase owns the locks it needs and nothing else, and what the locks
\* protect, the active turn and the connection, only their holder changes.
THEOREM Locking == Spec => []LockDiscipline
<1> USE ClientAssumption DEF locks, control, inner, conn, turnState, locals,
    producer, delivered, streams, callbacks, cli, Actors
<1>1. Init => LockDiscipline
  BY DEF Init, LockDiscipline, LockOwners, HoldsTurnLock, HoldsConnLock,
     ControlPhases, ActiveTurn, ConnectionUse, InStream, StreamPhases, Connects, Reading
<1>2. TypeOK /\ LockDiscipline /\ [Next]_vars => LockDiscipline'
  <2> SUFFICES ASSUME TypeOK, LockDiscipline, [Next]_vars PROVE LockDiscipline'
    OBVIOUS
  <2> USE DEF TypeOK, ControlType
  <2>1. ASSUME NEW t \in Turns, Send(t) PROVE LockDiscipline'
    <3>1. LockOwners'
      BY <2>1 DEF Send, GoTo, LockDiscipline, StreamPhases, Connects,
         LockOwners, HoldsTurnLock, HoldsConnLock
    <3>2. ControlPhases'
      BY <2>1 DEF Send, GoTo, LockDiscipline, StreamPhases, Connects,
         ControlPhases
    <3>3. ActiveTurn'
      BY <2>1 DEF Send, GoTo, LockDiscipline, StreamPhases, Connects,
         ActiveTurn, InStream
    <3>4. ConnectionUse'
      BY <2>1 DEF Send, GoTo, LockDiscipline, StreamPhases, Connects,
         ConnectionUse
    <3> QED
      BY <3>1, <3>2, <3>3, <3>4 DEF LockDiscipline
  <2>2. ASSUME NEW t \in Turns, ConsumeEnd(t) PROVE LockDiscipline'
    <3>1. LockOwners'
      BY <2>2 DEF ConsumeEnd, GoTo, Dequeue, LockDiscipline, StreamPhases,
         Connects, LockOwners, HoldsTurnLock, HoldsConnLock
    <3>2. ControlPhases'
      BY <2>2 DEF ConsumeEnd, GoTo, Dequeue, LockDiscipline, StreamPhases,
         Connects, ControlPhases
    <3>3. ActiveTurn'
      BY <2>2 DEF ConsumeEnd, GoTo, Dequeue, LockDiscipline, StreamPhases,
         Connects, ActiveTurn, InStream
    <3>4. ConnectionUse'
      BY <2>2 DEF ConsumeEnd, GoTo, Dequeue, LockDiscipline, StreamPhases,
         Connects, ConnectionUse
    <3> QED
      BY <3>1, <3>2, <3>3, <3>4 DEF LockDiscipline
  <2>3. ASSUME NEW t \in Turns, CloseQueue(t) PROVE LockDiscipline'
    <3>1. LockOwners'
      BY <2>3 DEF CloseQueue, GoTo, LockDiscipline, StreamPhases, Connects,
         LockOwners, HoldsTurnLock, HoldsConnLock
    <3>2. ControlPhases'
      BY <2>3 DEF CloseQueue, GoTo, LockDiscipline, StreamPhases, Connects,
         ControlPhases
    <3>3. ActiveTurn'
      BY <2>3 DEF CloseQueue, GoTo, LockDiscipline, StreamPhases, Connects,
         ActiveTurn, InStream
    <3>4. ConnectionUse'
      BY <2>3 DEF CloseQueue, GoTo, LockDiscipline, StreamPhases, Connects,
         ConnectionUse
    <3> QED
      BY <3>1, <3>2, <3>3, <3>4 DEF LockDiscipline
  <2>4. ASSUME NEW t \in Turns, OnComplete(t) PROVE LockDiscipline'
    <3>1. LockOwners'
      BY <2>4 DEF OnComplete, GoTo, LockDiscipline, StreamPhases, Connects,
         LockOwners, HoldsTurnLock, HoldsConnLock
    <3>2. ControlPhases'
      BY <2>4 DEF OnComplete, GoTo, LockDiscipline, StreamPhases, Connects,
         ControlPhases
    <3>3. ActiveTurn'
      BY <2>4 DEF OnComplete, GoTo, LockDiscipline, StreamPhases, Connects,
         ActiveTurn, InStream
    <3>4. ConnectionUse'
      BY <2>4 DEF OnComplete, GoTo, LockDiscipline, StreamPhases, Connects,
         ConnectionUse
    <3> QED
      BY <3>1, <3>2, <3>3, <3>4 DEF LockDiscipline
  <2>5. ASSUME NEW t \in Turns, ForwardTerminal(t) PROVE LockDiscipline'
    <3>1. LockOwners'
      BY <2>5 DEF ForwardTerminal, GoTo, LockDiscipline, StreamPhases,
         Connects, LockOwners, HoldsTurnLock, HoldsConnLock
    <3>2. ControlPhases'
      BY <2>5 DEF ForwardTerminal, GoTo, LockDiscipline, StreamPhases,
         Connects, ControlPhases
    <3>3. ActiveTurn'
      BY <2>5 DEF ForwardTerminal, GoTo, LockDiscipline, StreamPhases,
         Connects, ActiveTurn, InStream
    <3>4. ConnectionUse'
      BY <2>5 DEF ForwardTerminal, GoTo, LockDiscipline, StreamPhases,
         Connects, ConnectionUse
    <3> QED
      BY <3>1, <3>2, <3>3, <3>4 DEF LockDiscipline
  <2>6. ASSUME NEW t \in Turns, LeaveStream(t) PROVE LockDiscipline'
    <3>1. LockOwners'
      BY <2>6 DEF LeaveStream, LockReleased, GoTo, LockDiscipline, StreamPhases, Connects,
         LockOwners, HoldsTurnLock, HoldsConnLock, ActiveTurn
    <3>2. ControlPhases'
      BY <2>6 DEF LeaveStream, LockReleased, GoTo, LockDiscipline, StreamPhases, Connects,
         ControlPhases
    <3>3. ActiveTurn'
      BY <2>6 DEF LeaveStream, LockReleased, GoTo, LockDiscipline, StreamPhases, Connects,
         ActiveTurn, InStream, LockOwners, HoldsTurnLock, HoldsConnLock
    <3>4. ConnectionUse'
      BY <2>6 DEF LeaveStream, LockReleased, GoTo, LockDiscipline, StreamPhases, Connects,
         ConnectionUse, Reading, ActiveTurn, InStream
    <3> QED
      BY <3>1, <3>2, <3>3, <3>4 DEF LockDiscipline
  <2>7. ASSUME NEW t \in Turns, Abandon(t) PROVE LockDiscipline'
    <3>1. LockOwners'
      BY <2>7 DEF Abandon, Interrupt, GoTo, LockDiscipline, StreamPhases,
         Connects, LockOwners, HoldsTurnLock, HoldsConnLock
    <3>2. ControlPhases'
      BY <2>7 DEF Abandon, Interrupt, GoTo, LockDiscipline, StreamPhases,
         Connects, ControlPhases
    <3>3. ActiveTurn'
      BY <2>7 DEF Abandon, Interrupt, GoTo, LockDiscipline, StreamPhases,
         Connects, ActiveTurn, InStream
    <3>4. ConnectionUse'
      BY <2>7 DEF Abandon, Interrupt, GoTo, LockDiscipline, StreamPhases,
         Connects, ConnectionUse
    <3> QED
      BY <3>1, <3>2, <3>3, <3>4 DEF LockDiscipline
  <2>8. ASSUME NEW a \in Actors, TakeTurnLock(a) PROVE LockDiscipline'
    <3>1. LockOwners'
      BY <2>8 DEF TakeTurnLock, TurnLockFree, GoTo, LockDiscipline,
         StreamPhases, Connects, LockOwners, HoldsTurnLock, HoldsConnLock,
         ControlPhases
    <3>2. ControlPhases'
      BY <2>8 DEF TakeTurnLock, TurnLockFree, GoTo, LockDiscipline,
         StreamPhases, Connects, ControlPhases
    <3>3. ActiveTurn'
      BY <2>8 DEF TakeTurnLock, TurnLockFree, GoTo, LockDiscipline,
         StreamPhases, Connects, ActiveTurn, InStream
    <3>4. ConnectionUse'
      BY <2>8 DEF TakeTurnLock, TurnLockFree, GoTo, LockDiscipline,
         StreamPhases, Connects, ConnectionUse, LockOwners, HoldsTurnLock,
         HoldsConnLock
    <3> QED
      BY <3>1, <3>2, <3>3, <3>4 DEF LockDiscipline
  <2>9. ASSUME NEW a \in Actors, AlreadyConnected(a) PROVE LockDiscipline'
    <3>1. LockOwners'
      BY <2>9 DEF AlreadyConnected, ConnLockFree, Connected, BeginTurn, GoTo,
         LockDiscipline, StreamPhases, Connects, LockOwners, HoldsTurnLock,
         HoldsConnLock, ActiveTurn, InStream
    <3>2. ControlPhases'
      BY <2>9 DEF AlreadyConnected, ConnLockFree, Connected, BeginTurn, GoTo,
         LockDiscipline, StreamPhases, Connects, ControlPhases
    <3>3. ActiveTurn'
      BY <2>9 DEF AlreadyConnected, ConnLockFree, Connected, BeginTurn, GoTo,
         LockDiscipline, StreamPhases, Connects, ActiveTurn, InStream,
         LockOwners, HoldsTurnLock, HoldsConnLock
    <3>4. ConnectionUse'
      BY <2>9 DEF AlreadyConnected, ConnLockFree, Connected, BeginTurn, GoTo,
         LockDiscipline, StreamPhases, Connects, ConnectionUse, Reading
    <3> QED
      BY <3>1, <3>2, <3>3, <3>4 DEF LockDiscipline
  <2>10. ASSUME NEW a \in Actors, Open(a) PROVE LockDiscipline'
    <3>1. LockOwners'
      BY <2>10 DEF Open, ConnLockFree, GoTo, LockDiscipline, StreamPhases,
         Connects, LockOwners, HoldsTurnLock, HoldsConnLock
    <3>2. ControlPhases'
      BY <2>10 DEF Open, ConnLockFree, GoTo, LockDiscipline, StreamPhases,
         Connects, ControlPhases
    <3>3. ActiveTurn'
      BY <2>10 DEF Open, ConnLockFree, GoTo, LockDiscipline, StreamPhases,
         Connects, ActiveTurn, InStream
    <3>4. ConnectionUse'
      BY <2>10 DEF Open, ConnLockFree, GoTo, LockDiscipline, StreamPhases,
         Connects, ConnectionUse, LockOwners, HoldsTurnLock, HoldsConnLock
    <3> QED
      BY <3>1, <3>2, <3>3, <3>4 DEF LockDiscipline
  <2>11. ASSUME NEW a \in Actors, OpenSucceeds(a) PROVE LockDiscipline'
    <3>1. LockOwners'
      BY <2>11 DEF OpenSucceeds, GoTo, LockDiscipline, StreamPhases, Connects,
         LockOwners, HoldsTurnLock, HoldsConnLock
    <3>2. ControlPhases'
      BY <2>11 DEF OpenSucceeds, GoTo, LockDiscipline, StreamPhases, Connects,
         ControlPhases
    <3>3. ActiveTurn'
      BY <2>11 DEF OpenSucceeds, GoTo, LockDiscipline, StreamPhases, Connects,
         ActiveTurn, InStream
    <3>4. ConnectionUse'
      BY <2>11 DEF OpenSucceeds, GoTo, LockDiscipline, StreamPhases, Connects,
         ConnectionUse, LockOwners, HoldsTurnLock, HoldsConnLock,
         ConnectionType
    <3> QED
      BY <3>1, <3>2, <3>3, <3>4 DEF LockDiscipline
  <2>12. ASSUME NEW a \in Actors, ProbeSucceeds(a) PROVE LockDiscipline'
    <3>1. LockOwners'
      BY <2>12 DEF ProbeSucceeds, Connected, BeginTurn, GoTo, LockDiscipline,
         StreamPhases, Connects, LockOwners, HoldsTurnLock, HoldsConnLock
    <3>2. ControlPhases'
      BY <2>12 DEF ProbeSucceeds, Connected, BeginTurn, GoTo, LockDiscipline,
         StreamPhases, Connects, ControlPhases
    <3>3. ActiveTurn'
      BY <2>12 DEF ProbeSucceeds, Connected, BeginTurn, GoTo, LockDiscipline,
         StreamPhases, Connects, ActiveTurn, InStream, LockOwners,
         HoldsTurnLock, HoldsConnLock
    <3>4. ConnectionUse'
      BY <2>12 DEF ProbeSucceeds, Connected, BeginTurn, GoTo, LockDiscipline,
         StreamPhases, Connects, ConnectionUse, Reading
    <3> QED
      BY <3>1, <3>2, <3>3, <3>4 DEF LockDiscipline
  <2>13. ASSUME NEW a \in Actors, ConnectRaises(a) PROVE LockDiscipline'
    <3>1. LockOwners'
      BY <2>13 DEF ConnectRaises, GoTo, LockDiscipline, StreamPhases,
         Connects, LockOwners, HoldsTurnLock, HoldsConnLock
    <3>2. ControlPhases'
      BY <2>13 DEF ConnectRaises, GoTo, LockDiscipline, StreamPhases,
         Connects, ControlPhases
    <3>3. ActiveTurn'
      BY <2>13 DEF ConnectRaises, GoTo, LockDiscipline, StreamPhases,
         Connects, ActiveTurn, InStream
    <3>4. ConnectionUse'
      BY <2>13 DEF ConnectRaises, GoTo, LockDiscipline, StreamPhases,
         Connects, ConnectionUse, LockOwners, HoldsTurnLock, HoldsConnLock
    <3> QED
      BY <3>1, <3>2, <3>3, <3>4 DEF LockDiscipline
  <2>14. ASSUME Rewind PROVE LockDiscipline'
    <3>1. LockOwners'
      BY <2>14 DEF Rewind, GoTo, LockDiscipline, StreamPhases, Connects,
         LockOwners, HoldsTurnLock, HoldsConnLock
    <3>2. ControlPhases'
      BY <2>14 DEF Rewind, GoTo, LockDiscipline, StreamPhases, Connects,
         ControlPhases
    <3>3. ActiveTurn'
      BY <2>14 DEF Rewind, GoTo, LockDiscipline, StreamPhases, Connects,
         ActiveTurn, InStream
    <3>4. ConnectionUse'
      BY <2>14 DEF Rewind, GoTo, LockDiscipline, StreamPhases, Connects,
         ConnectionUse
    <3> QED
      BY <3>1, <3>2, <3>3, <3>4 DEF LockDiscipline
  <2>15. ASSUME RewindReturns PROVE LockDiscipline'
    <3>1. LockOwners'
      BY <2>15 DEF RewindReturns, GoTo, LockDiscipline, StreamPhases,
         Connects, LockOwners, HoldsTurnLock, HoldsConnLock
    <3>2. ControlPhases'
      BY <2>15 DEF RewindReturns, GoTo, LockDiscipline, StreamPhases,
         Connects, ControlPhases
    <3>3. ActiveTurn'
      BY <2>15 DEF RewindReturns, GoTo, LockDiscipline, StreamPhases,
         Connects, ActiveTurn, InStream
    <3>4. ConnectionUse'
      BY <2>15 DEF RewindReturns, GoTo, LockDiscipline, StreamPhases,
         Connects, ConnectionUse
    <3> QED
      BY <3>1, <3>2, <3>3, <3>4 DEF LockDiscipline
  <2>16. ASSUME ControlCall PROVE LockDiscipline'
    <3>1. LockOwners'
      BY <2>16 DEF ControlCall, GoTo, LockDiscipline, StreamPhases, Connects,
         LockOwners, HoldsTurnLock, HoldsConnLock
    <3>2. ControlPhases'
      BY <2>16 DEF ControlCall, GoTo, LockDiscipline, StreamPhases, Connects,
         ControlPhases
    <3>3. ActiveTurn'
      BY <2>16 DEF ControlCall, GoTo, LockDiscipline, StreamPhases, Connects,
         ActiveTurn, InStream
    <3>4. ConnectionUse'
      BY <2>16 DEF ControlCall, GoTo, LockDiscipline, StreamPhases, Connects,
         ConnectionUse
    <3> QED
      BY <3>1, <3>2, <3>3, <3>4 DEF LockDiscipline
  <2>17. ASSUME NEW a \in Closers, Close(a) PROVE LockDiscipline'
    <3>1. LockOwners'
      BY <2>17 DEF Close, Interrupt, GoTo, Closers, LockDiscipline,
         StreamPhases, Connects, LockOwners, HoldsTurnLock, HoldsConnLock
    <3>2. ControlPhases'
      BY <2>17 DEF Close, Interrupt, GoTo, Closers, LockDiscipline,
         StreamPhases, Connects, ControlPhases
    <3>3. ActiveTurn'
      BY <2>17 DEF Close, Interrupt, GoTo, Closers, LockDiscipline,
         StreamPhases, Connects, ActiveTurn, InStream
    <3>4. ConnectionUse'
      BY <2>17 DEF Close, Interrupt, GoTo, Closers, LockDiscipline,
         StreamPhases, Connects, ConnectionUse
    <3> QED
      BY <3>1, <3>2, <3>3, <3>4 DEF LockDiscipline
  <2>18. ASSUME NEW a \in Closers, CloseTakesTurnLock(a) PROVE LockDiscipline'
    <3>1. LockOwners'
      BY <2>18 DEF CloseTakesTurnLock, TurnLockFree, GoTo, Closers,
         LockDiscipline, StreamPhases, Connects, LockOwners, HoldsTurnLock,
         HoldsConnLock
    <3>2. ControlPhases'
      BY <2>18 DEF CloseTakesTurnLock, TurnLockFree, GoTo, Closers,
         LockDiscipline, StreamPhases, Connects, ControlPhases
    <3>3. ActiveTurn'
      BY <2>18 DEF CloseTakesTurnLock, TurnLockFree, GoTo, Closers,
         LockDiscipline, StreamPhases, Connects, ActiveTurn, InStream
    <3>4. ConnectionUse'
      BY <2>18 DEF CloseTakesTurnLock, TurnLockFree, GoTo, Closers,
         LockDiscipline, StreamPhases, Connects, ConnectionUse
    <3> QED
      BY <3>1, <3>2, <3>3, <3>4 DEF LockDiscipline
  <2>19. ASSUME NEW a \in Closers, CloseTakesConnLock(a) PROVE LockDiscipline'
    <3>1. LockOwners'
      BY <2>19 DEF CloseTakesConnLock, ConnLockFree, AfterClose, GoTo,
         Closers, LockDiscipline, StreamPhases, Connects, LockOwners,
         HoldsTurnLock, HoldsConnLock
    <3>2. ControlPhases'
      BY <2>19 DEF CloseTakesConnLock, ConnLockFree, AfterClose, GoTo,
         Closers, LockDiscipline, StreamPhases, Connects, ControlPhases
    <3>3. ActiveTurn'
      BY <2>19 DEF CloseTakesConnLock, ConnLockFree, AfterClose, GoTo,
         Closers, LockDiscipline, StreamPhases, Connects, ActiveTurn, InStream
    <3>4. ConnectionUse'
      BY <2>19 DEF CloseTakesConnLock, ConnLockFree, AfterClose, GoTo,
         Closers, LockDiscipline, StreamPhases, Connects, ConnectionUse,
         LockOwners, HoldsTurnLock, HoldsConnLock, ActiveTurn, InStream,
         Reading, TurnType
    <3> QED
      BY <3>1, <3>2, <3>3, <3>4 DEF LockDiscipline
  <2>20. ASSUME NEW a \in Closers, Disconnect(a) PROVE LockDiscipline'
    <3>1. LockOwners'
      BY <2>20 DEF Disconnect, Hangup, OpenAfterHangup, AfterClose, GoTo,
         Closers, LockDiscipline, StreamPhases, Connects, LockOwners,
         HoldsTurnLock, HoldsConnLock
    <3>2. ControlPhases'
      BY <2>20 DEF Disconnect, Hangup, OpenAfterHangup, AfterClose, GoTo,
         Closers, LockDiscipline, StreamPhases, Connects, ControlPhases
    <3>3. ActiveTurn'
      BY <2>20 DEF Disconnect, Hangup, OpenAfterHangup, AfterClose, GoTo,
         Closers, LockDiscipline, StreamPhases, Connects, ActiveTurn, InStream
    <3>4. ConnectionUse'
      BY <2>20 DEF Disconnect, Hangup, OpenAfterHangup, AfterClose, GoTo,
         Closers, LockDiscipline, StreamPhases, Connects, ConnectionUse,
         LockOwners, HoldsTurnLock, HoldsConnLock
    <3> QED
      BY <3>1, <3>2, <3>3, <3>4 DEF LockDiscipline
  <2>21. ASSUME Discard PROVE LockDiscipline'
    <3>1. LockOwners'
      BY <2>21 DEF Discard, ConnLockFree, OwnConnection, Failed,
         LockDiscipline, StreamPhases, Connects, LockOwners, HoldsTurnLock,
         HoldsConnLock
    <3>2. ControlPhases'
      BY <2>21 DEF Discard, ConnLockFree, OwnConnection, Failed,
         LockDiscipline, StreamPhases, Connects, ControlPhases
    <3>3. ActiveTurn'
      BY <2>21 DEF Discard, ConnLockFree, OwnConnection, Failed,
         LockDiscipline, StreamPhases, Connects, ActiveTurn, InStream
    <3>4. ConnectionUse'
      BY <2>21 DEF Discard, ConnLockFree, OwnConnection, Failed,
         LockDiscipline, StreamPhases, Connects, ConnectionUse, LockOwners,
         HoldsTurnLock, HoldsConnLock, Reading
    <3> QED
      BY <3>1, <3>2, <3>3, <3>4 DEF LockDiscipline
  <2>22. ASSUME DiscardReturns PROVE LockDiscipline'
    <3>1. LockOwners'
      BY <2>22 DEF DiscardReturns, Hangup, OpenAfterHangup, Failed,
         LockDiscipline, StreamPhases, Connects, LockOwners, HoldsTurnLock,
         HoldsConnLock
    <3>2. ControlPhases'
      BY <2>22 DEF DiscardReturns, Hangup, OpenAfterHangup, Failed,
         LockDiscipline, StreamPhases, Connects, ControlPhases
    <3>3. ActiveTurn'
      BY <2>22 DEF DiscardReturns, Hangup, OpenAfterHangup, Failed,
         LockDiscipline, StreamPhases, Connects, ActiveTurn, InStream
    <3>4. ConnectionUse'
      BY <2>22 DEF DiscardReturns, Hangup, OpenAfterHangup, Failed,
         LockDiscipline, StreamPhases, Connects, ConnectionUse, LockOwners,
         HoldsTurnLock, HoldsConnLock, Reading
    <3> QED
      BY <3>1, <3>2, <3>3, <3>4 DEF LockDiscipline
  <2>23. ASSUME NEW t \in Turns, DrainTimesOut(t) PROVE LockDiscipline'
    BY <2>23, ProducerMoves DEF DrainTimesOut, Fail, Reading
  <2>24. ASSUME SendQuery PROVE LockDiscipline'
    BY <2>24, ProducerMoves DEF SendQuery, Reading
  <2>25. ASSUME QueryReturns PROVE LockDiscipline'
    BY <2>25, ProducerMoves DEF QueryReturns, Reading
  <2>26. ASSUME ReadAnswer PROVE LockDiscipline'
    BY <2>26, ProducerMoves DEF ReadAnswer, Reads, Reading
  <2>27. ASSUME ReadOtherResult PROVE LockDiscipline'
    BY <2>27, ProducerMoves DEF ReadOtherResult, Reads, Reading
  <2>28. ASSUME ResponseEnds PROVE LockDiscipline'
    BY <2>28, ProducerMoves DEF ResponseEnds, Fail, Reading
  <2>29. ASSUME ProducerRaises PROVE LockDiscipline'
    BY <2>29, ProducerMoves DEF ProducerRaises, Fail, Reading
  <2>30. ASSUME Complete PROVE LockDiscipline'
    BY <2>30, ProducerMoves DEF Complete, Reading
  <2>31. ASSUME EndStream PROVE LockDiscipline'
    BY <2>31, ProducerMoves DEF EndStream, NoLocals, Reading
  <2>32. ASSUME NEW t \in Turns, Consume(t) PROVE LockDiscipline'
    BY <2>32, CoreUnchanged DEF Consume, Dequeue, core
  <2>33. ASSUME RequestStop PROVE LockDiscipline'
    BY <2>33, CoreUnchanged DEF RequestStop, core
  <2>34. ASSUME ReadTaskAlive PROVE LockDiscipline'
    BY <2>34, CoreUnchanged DEF ReadTaskAlive, Reads, core
  <2>35. ASSUME ReadTaskEnded PROVE LockDiscipline'
    BY <2>35, CoreUnchanged DEF ReadTaskEnded, Reads, core
  <2>36. ASSUME ReadNotification PROVE LockDiscipline'
    BY <2>36, CoreUnchanged DEF ReadNotification, Reads, core
  <2>37. ASSUME NEW r \in Requests, DenyOutsideStream(r) PROVE LockDiscipline'
    BY <2>37, CoreUnchanged DEF DenyOutsideStream, core
  <2>38. ASSUME NEW r \in Requests, AskPermission(r) PROVE LockDiscipline'
    BY <2>38, CoreUnchanged DEF AskPermission, core
  <2>39. ASSUME NEW r \in Requests, AwaitDecision(r) PROVE LockDiscipline'
    BY <2>39, CoreUnchanged DEF AwaitDecision, core
  <2>40. ASSUME NEW r \in Requests, ReportDecision(r) PROVE LockDiscipline'
    BY <2>40, CoreUnchanged DEF ReportDecision, core
  <2>41. ASSUME NEW r \in Requests, Resolve(r) PROVE LockDiscipline'
    BY <2>41, CoreUnchanged DEF Resolve, core
  <2>42. ASSUME NEW k \in Tasks, CliTaskStart(k) PROVE LockDiscipline'
    BY <2>42, CoreUnchanged DEF CliTaskStart, Emit, core
  <2>43. ASSUME NEW k \in Tasks, CliTaskEnd(k) PROVE LockDiscipline'
    BY <2>43, CoreUnchanged DEF CliTaskEnd, Emit, core
  <2>44. ASSUME NEW k \in Tasks, CliNotify(k) PROVE LockDiscipline'
    BY <2>44, CoreUnchanged DEF CliNotify, Emit, core
  <2>45. ASSUME NEW k \in Tasks, CliNotifyStopped(k) PROVE LockDiscipline'
    BY <2>45, CoreUnchanged DEF CliNotifyStopped, Emit, core
  <2>46. ASSUME CliAnswer PROVE LockDiscipline'
    BY <2>46, CoreUnchanged DEF CliAnswer, Emit, core
  <2>47. ASSUME CliContinue PROVE LockDiscipline'
    BY <2>47, CoreUnchanged DEF CliContinue, Emit, core
  <2>48. ASSUME CliInject PROVE LockDiscipline'
    BY <2>48, CoreUnchanged DEF CliInject, Emit, core
  <2>49. ASSUME CliDies PROVE LockDiscipline'
    BY <2>49, CoreUnchanged DEF CliDies, core
  <2>50. ASSUME UNCHANGED vars PROVE LockDiscipline'
    BY <2>50, CoreUnchanged DEF vars, core
  <2> QED
    BY <2>1, <2>2, <2>3, <2>4, <2>5, <2>6, <2>7, <2>8, <2>9, <2>10, <2>11,
       <2>12, <2>13, <2>14, <2>15, <2>16, <2>17, <2>18, <2>19, <2>20, <2>21,
       <2>22, <2>23, <2>24, <2>25, <2>26, <2>27, <2>28, <2>29, <2>30, <2>31,
       <2>32, <2>33, <2>34, <2>35, <2>36, <2>37, <2>38, <2>39, <2>40, <2>41,
       <2>42, <2>43, <2>44, <2>45, <2>46, <2>47, <2>48, <2>49, <2>50
    DEF Next, Connecting, ClosingStep, Produce, StreamStep, Callback, CliReports
<1> QED BY <1>1, <1>2, TypeCorrect, PTL DEF Spec

\* Turns are serialized, and a rewind never runs beside a turn.
THEOREM TurnsSerialized == Spec => []OneTurnAtATime
<1>1. TypeOK /\ LockDiscipline => OneTurnAtATime
  BY ClientAssumption DEF LockDiscipline, LockOwners, HoldsTurnLock,
     ActiveTurn, OneTurnAtATime, InStream, TypeOK, TurnType, Actors
<1> QED BY <1>1, TypeCorrect, Locking, PTL

\* There is never a second process, nor one that can no longer be closed.
THEOREM ConnectionUnique == Spec => []OneConnection
<1>1. LockDiscipline => OneConnection
  BY DEF LockDiscipline, ConnectionUse, OneConnection
<1> QED BY <1>1, Locking, PTL

\* Nobody closes or replaces the connection a producer reads from.
THEOREM ConnectionKept == Spec => []ProducerKeepsConnection
<1>1. LockDiscipline => ProducerKeepsConnection
  BY DEF LockDiscipline, ConnectionUse, ProducerKeepsConnection, Reading
<1> QED BY <1>1, Locking, PTL

-----------------------------------------------------------------------------
(* A stop reaches Claude Code *)

\* A producer that reads has submitted its query, so that every stop since
\* then was passed on at once, and every earlier one when the query returned.
StopPassedOn == prod = "receive" => submitted /\ (stopReq => cliStopped)

LEMMA StopUnchanged ==
    ASSUME StopPassedOn, UNCHANGED <<prod, submitted, stopReq, cliStopped>>
    PROVE  StopPassedOn'
BY DEF StopPassedOn

LEMMA NotReading ==
    ASSUME prod' # "receive"
    PROVE  StopPassedOn'
BY DEF StopPassedOn

LEMMA InterruptPassesOn ==
    ASSUME StopPassedOn, Interrupt, UNCHANGED <<prod, submitted>>
    PROVE  StopPassedOn'
BY DEF StopPassedOn, Interrupt

\* The invariant behind StopIsForwarded.
THEOREM StopsPassedOn == Spec => []StopPassedOn
<1> USE DEF locks, control, inner, conn, turnState, locals, producer, delivered,
           streams, callbacks, cli
<1>1. Init => StopPassedOn
  BY DEF Init, StopPassedOn
<1>2. TypeOK /\ LockDiscipline /\ StopPassedOn /\ [Next]_vars => StopPassedOn'
  <2> SUFFICES ASSUME TypeOK, LockDiscipline, StopPassedOn, [Next]_vars
               PROVE  StopPassedOn'
    OBVIOUS
  <2>1. ASSUME NEW t \in Turns, Send(t) \/ StreamStep(t) PROVE StopPassedOn'
    <3>1. CASE LeaveStream(t)
      BY <3>1, NotReading DEF LeaveStream
    <3> QED
      BY <2>1, <3>1, StopUnchanged DEF Send, StreamStep, Consume, ConsumeEnd, Dequeue,
         CloseQueue, OnComplete, ForwardTerminal
  <2>2. ASSUME NEW t \in Turns, Abandon(t) PROVE StopPassedOn'
    BY <2>2, InterruptPassesOn, StopUnchanged DEF Abandon
  <2>3. ASSUME NEW t \in Turns, DrainTimesOut(t) PROVE StopPassedOn'
    BY <2>3, NotReading DEF DrainTimesOut, Fail
  <2>4. ASSUME NEW a \in Actors, Connected(a), cliStopped' = cliStopped
        PROVE  StopPassedOn'
    BY <2>4, NotReading, StopUnchanged DEF Connected, BeginTurn
  <2>5. ASSUME NEW a \in Actors, TakeTurnLock(a) \/ Connecting(a) PROVE StopPassedOn'
    BY <2>5, <2>4, StopUnchanged DEF TakeTurnLock, Connecting, AlreadyConnected, Open,
       OpenSucceeds, ProbeSucceeds, ConnectRaises
  <2>6. ASSUME NEW a \in Closers, Close(a) PROVE StopPassedOn'
    BY <2>6, InterruptPassesOn DEF Close
  \* The transport closes only where no producer reads from it.
  <2>7. ASSUME NEW a \in Closers, Disconnect(a) PROVE StopPassedOn'
    <3>1. pc[a] = "disconnect" /\ a \in Actors /\ prod' = prod
      BY <2>7, ClientAssumption DEF Disconnect, Closers, Actors
    <3>2. ASSUME prod = "receive" PROVE FALSE
      <4>1. active \in Turns /\ InStream(active) /\ active \in Actors
        BY <3>2 DEF LockDiscipline, ActiveTurn, TypeOK, TurnType, Actors
      <4>2. turnLock = active /\ turnLock = a
        BY <3>1, <4>1 DEF LockDiscipline, LockOwners, HoldsTurnLock, InStream
      <4> QED
        BY <3>1, <4>1, <4>2 DEF InStream, StreamPhases
    <3> QED
      BY <3>1, <3>2, NotReading
  <2>8. ASSUME NEW a \in Closers, CloseTakesTurnLock(a) \/ CloseTakesConnLock(a)
        PROVE  StopPassedOn'
    BY <2>8, StopUnchanged DEF CloseTakesTurnLock, CloseTakesConnLock
  <2>9. ASSUME Rewind \/ RewindReturns \/ ControlCall PROVE StopPassedOn'
    BY <2>9, StopUnchanged DEF Rewind, RewindReturns, ControlCall
  <2>10. ASSUME RequestStop PROVE StopPassedOn'
    BY <2>10, InterruptPassesOn DEF RequestStop
  <2>11. ASSUME QueryReturns PROVE StopPassedOn'
    BY <2>11 DEF QueryReturns, StopToForward, StopPassedOn
  <2>12. ASSUME SendQuery \/ Complete \/ Discard \/ DiscardReturns \/ EndStream
                \/ ProducerRaises
         PROVE  StopPassedOn'
    BY <2>12, NotReading DEF SendQuery, Complete, Discard, Failed, DiscardReturns,
       EndStream, ProducerRaises, Fail
  <2>13. ASSUME \/ ReadTaskAlive \/ ReadTaskEnded \/ ReadNotification
                \/ ReadAnswer \/ ReadOtherResult
         PROVE  StopPassedOn'
    <3>1. /\ prod = "receive" /\ prod' \in {"receive", "finish"}
          /\ UNCHANGED <<submitted, stopReq, cliStopped>>
      BY <2>13 DEF ReadTaskAlive, ReadTaskEnded, ReadNotification, ReadAnswer,
         ReadOtherResult, Reads
    <3> QED
      BY <3>1, NotReading, StopUnchanged
  <2>14. ASSUME ResponseEnds PROVE StopPassedOn'
    BY <2>14, NotReading DEF ResponseEnds, Fail
  <2>15. ASSUME NEW r \in Requests,
                \/ DenyOutsideStream(r) \/ AskPermission(r)
                \/ Callback(r) \/ Resolve(r)
         PROVE  StopPassedOn'
    BY <2>15, StopUnchanged DEF DenyOutsideStream, AskPermission, Callback,
       AwaitDecision, ReportDecision, Resolve
  <2>16. ASSUME NEW k \in Tasks, CliTaskStart(k) \/ CliTaskEnd(k) \/ CliReports(k)
         PROVE  StopPassedOn'
    BY <2>16, StopUnchanged DEF CliTaskStart, CliTaskEnd, CliReports, CliNotify,
       CliNotifyStopped, Emit
  <2>17. ASSUME CliAnswer \/ CliContinue \/ CliInject \/ CliDies PROVE StopPassedOn'
    BY <2>17, StopUnchanged DEF CliAnswer, CliContinue, CliInject, CliDies, Emit
  <2>18. ASSUME UNCHANGED vars PROVE StopPassedOn'
    BY <2>18, StopUnchanged DEF vars
  <2> QED
    BY <2>1, <2>2, <2>3, <2>5, <2>6, <2>7, <2>8, <2>9, <2>10, <2>11, <2>12,
       <2>13, <2>14, <2>15, <2>16, <2>17, <2>18
    DEF Next, ClosingStep, Produce
<1> QED BY <1>1, <1>2, TypeCorrect, Locking, PTL DEF Spec

\* A stop that came before, while or after the query was sent has reached
\* Claude Code whenever the producer waits for its messages.
THEOREM StopsReachClaude == Spec => []StopIsForwarded
<1>1. StopPassedOn => StopIsForwarded
  BY DEF StopPassedOn, StopIsForwarded
<1> QED BY <1>1, StopsPassedOn, PTL

-----------------------------------------------------------------------------
(* A turn is decided by the answer to its own prompt *)

IsAnswer(m) == m.kind = "result" /\ m.result.origin = "human"

\* Where the SDK holds the answer to a prompt.
Unread == {i \in DOMAIN inbox : IsAnswer(inbox[i])}

Outstanding == cliTurn # "none" \/ Unread # {}

\* While the producer reads, the one answer to its prompt is still to be given,
\* waits to be read, or was read: in that order, and once.
OneAnswer ==
    /\ cliTurn \in {active, "none"}
    /\ cliTurn # "none" => Unread = {}
    /\ \A i \in Unread : inbox[i].result.turn = active
    /\ \A i, j \in Unread : i = j
    /\ Outstanding => deferred = NoResult
    /\ deferred # NoResult => deferred.turn = active
    /\ chosen \in {deferred, NoResult}

\* The strengthening of AnswerIsOwn: no answer is left over in the connection
\* when its producer is done, unless the connection is about to be closed.
AnswerBooks ==
    /\ prod \notin {"sent", "receive", "failing", "discard"} => ~Outstanding
    /\ prod = "query" => deferred = NoResult /\ chosen = NoResult
    /\ prod \in {"sent", "receive"} => OneAnswer
    /\ AnswerIsOwn

answers == <<active, deferred, chosen, inbox, cliTurn>>

LEMMA BooksUnchanged ==
    ASSUME AnswerBooks, UNCHANGED <<answers, prod>>
    PROVE  AnswerBooks'
BY DEF AnswerBooks, OneAnswer, Outstanding, Unread, IsAnswer, AnswerIsOwn, answers

\* The books of a turn that is given up are closed by the hangup.
LEMMA BooksGivenUp ==
    ASSUME prod' \in {"failing", "discard"}
    PROVE  AnswerBooks'
BY DEF AnswerBooks, AnswerIsOwn

LEMMA BooksSettled ==
    ASSUME AnswerBooks, UNCHANGED <<inbox, cliTurn>>,
           prod \notin {"sent", "receive", "failing", "discard"},
           prod' \in {"off", "ending", "finished"}
    PROVE  AnswerBooks'
BY DEF AnswerBooks, Outstanding, Unread, IsAnswer, AnswerIsOwn

LEMMA ReadingOne ==
    ASSUME inbox \in Seq(Message), inbox # <<>>, inbox' = Tail(inbox)
    PROVE  /\ \A i \in Unread' : i + 1 \in Unread /\ inbox'[i] = inbox[i + 1]
           /\ \A i \in Unread' : i \in Nat /\ i > 0
           /\ IsAnswer(Head(inbox)) => 1 \in Unread
<1>1. DOMAIN inbox = 1 .. Len(inbox) /\ Len(inbox) \in Nat /\ Len(inbox) > 0
  OBVIOUS
<1>2. DOMAIN inbox' = 1 .. (Len(inbox) - 1)
      /\ \A i \in DOMAIN inbox' : inbox'[i] = inbox[i + 1]
  OBVIOUS
<1> QED BY <1>1, <1>2 DEF Unread, IsAnswer

LEMMA AddingOne ==
    ASSUME inbox \in Seq(Message), NEW m \in Message, inbox' = Append(inbox, m)
    PROVE  \A i \in Unread' :
             \/ i \in Unread /\ inbox'[i] = inbox[i]
             \/ i = Len(inbox) + 1 /\ inbox'[i] = m /\ IsAnswer(m)
<1>1. DOMAIN inbox = 1 .. Len(inbox) /\ Len(inbox) \in Nat
  OBVIOUS
<1>2. /\ DOMAIN inbox' = 1 .. (Len(inbox) + 1)
      /\ \A i \in DOMAIN inbox : inbox'[i] = inbox[i]
      /\ inbox'[Len(inbox) + 1] = m
  OBVIOUS
<1> QED BY <1>1, <1>2 DEF Unread, IsAnswer

\* Every message but the answer itself leaves the books as they are.
LEMMA OtherMessage ==
    ASSUME AnswerBooks, inbox \in Seq(Message), NEW m \in Message, ~IsAnswer(m),
           inbox' = Append(inbox, m), UNCHANGED <<active, deferred, chosen, cliTurn, prod>>
    PROVE  AnswerBooks'
<1>1. \A i \in Unread' : i \in Unread /\ inbox'[i] = inbox[i]
  BY AddingOne
<1>2. Outstanding' => Outstanding
  BY <1>1 DEF Outstanding
<1>3. OneAnswer => OneAnswer'
  BY <1>1, <1>2 DEF OneAnswer
<1> QED BY <1>2, <1>3 DEF AnswerBooks, AnswerIsOwn

\* Nor does reading a message that is no answer, while nothing is chosen.
LEMMA OtherRead ==
    ASSUME prod = "receive", OneAnswer, inbox \in Seq(Message), inbox # <<>>,
           inbox' = Tail(inbox), UNCHANGED <<active, deferred, cliTurn>>
    PROVE  /\ Outstanding' => Outstanding
           /\ chosen' \in {deferred, NoResult} => OneAnswer'
<1>1. \A i \in Unread' : i + 1 \in Unread /\ inbox'[i] = inbox[i + 1]
  BY ReadingOne
<1>2. \A i, j \in Unread' : i = j
  BY <1>1, ReadingOne DEF OneAnswer
<1>3. Outstanding' => Outstanding
  BY <1>1 DEF Outstanding
<1>4. /\ cliTurn' # "none" => Unread' = {}
      /\ \A i \in Unread' : inbox'[i].result.turn = active
  BY <1>1 DEF OneAnswer
<1> QED BY <1>2, <1>3, <1>4 DEF OneAnswer

\* Once the answer is read there is no other.
LEMMA AnswerRead ==
    ASSUME OneAnswer, inbox \in Seq(Message), inbox # <<>>, IsAnswer(Head(inbox)),
           inbox' = Tail(inbox), cliTurn' = cliTurn
    PROVE  /\ Head(inbox).result.turn = active
           /\ deferred = NoResult /\ chosen = NoResult
           /\ ~Outstanding'
<1>1. 1 \in Unread /\ Head(inbox) = inbox[1]
  BY ReadingOne
<1>2. Unread' = {}
  <2> SUFFICES ASSUME NEW i \in Unread' PROVE FALSE
    OBVIOUS
  <2>1. i + 1 \in Unread /\ i \in Nat /\ i > 0
    BY ReadingOne
  <2>2. i + 1 = 1
    BY <1>1, <2>1 DEF OneAnswer
  <2> QED
    BY <2>1, <2>2
<1> QED BY <1>1, <1>2 DEF OneAnswer, Outstanding

\* The invariant behind AnswerIsOwn.
THEOREM AnswersBooked == Spec => []AnswerBooks
<1> USE DEF locks, control, inner, conn, turnState, locals, producer, delivered,
           streams, callbacks, cli
<1>1. Init => AnswerBooks
  BY DEF Init, AnswerBooks, Outstanding, Unread, AnswerIsOwn, NoResult
<1>2. TypeOK /\ LockDiscipline /\ AnswerBooks /\ [Next]_vars => AnswerBooks'
  <2> SUFFICES ASSUME TypeOK, LockDiscipline, AnswerBooks, [Next]_vars
               PROVE  AnswerBooks'
    OBVIOUS
  <2>t. /\ inbox \in Seq(Message) /\ active \in Turns \cup {"none"}
        /\ deferred \in Result /\ chosen \in Result
    BY DEF TypeOK, CliType, TurnType, ProducerType
  <2>1. ASSUME NEW t \in Turns, Send(t) \/ StreamStep(t) PROVE AnswerBooks'
    <3>1. CASE LeaveStream(t)
      <4>1. prod = "finished"
        BY <3>1 DEF LeaveStream, LockDiscipline, ActiveTurn
      <4> QED
        BY <3>1, <4>1, BooksSettled DEF LeaveStream
    <3> QED
      BY <2>1, <3>1, BooksUnchanged DEF Send, StreamStep, Consume, ConsumeEnd, Dequeue,
         CloseQueue, OnComplete, ForwardTerminal, answers
  <2>2. ASSUME NEW t \in Turns, Abandon(t) PROVE AnswerBooks'
    BY <2>2, BooksUnchanged DEF Abandon, answers
  <2>3. ASSUME NEW t \in Turns, DrainTimesOut(t) PROVE AnswerBooks'
    BY <2>3, BooksGivenUp DEF DrainTimesOut, Fail
  \* A turn begins where no other left its answer.
  <2>4. ASSUME NEW a \in Actors, pc[a] \in {"connlock", "probe"}, Connected(a),
               UNCHANGED <<inbox, cliTurn>>
        PROVE  AnswerBooks'
    <3>1. CASE a \in Turns /\ BeginTurn(a)
      <4>1. active = "none"
        <5>1. a # "control" /\ turnLock = a
          BY <2>4, <3>1, ClientAssumption
          DEF LockDiscipline, LockOwners, HoldsTurnLock, Connects
        <5>2. \A u \in Turns : ~InStream(u)
          BY <2>4, <3>1, <5>1 DEF LockDiscipline, LockOwners, HoldsTurnLock, InStream,
             StreamPhases, Actors
        <5> QED
          BY <5>2, <2>t DEF LockDiscipline, ActiveTurn
      <4>2. prod = "off"
        BY <4>1 DEF LockDiscipline, ActiveTurn
      <4>3. ~Outstanding'
        BY <2>4, <4>2 DEF AnswerBooks, Outstanding, Unread, IsAnswer
      <4> QED
        BY <3>1, <4>3 DEF BeginTurn, AnswerBooks, AnswerIsOwn, NoResult
    <3> QED
      BY <2>4, <3>1, BooksUnchanged DEF Connected, answers
  <2>5. ASSUME NEW a \in Actors, TakeTurnLock(a) \/ Connecting(a) PROVE AnswerBooks'
    BY <2>5, <2>4, BooksUnchanged DEF TakeTurnLock, Connecting, AlreadyConnected, Open,
       OpenSucceeds, ProbeSucceeds, ConnectRaises, answers
  <2>6. ASSUME NEW a \in Closers,
               Close(a) \/ CloseTakesTurnLock(a) \/ CloseTakesConnLock(a)
        PROVE  AnswerBooks'
    BY <2>6, BooksUnchanged DEF Close, CloseTakesTurnLock, CloseTakesConnLock, answers
  <2>7. ASSUME Hangup PROVE ~Outstanding' /\ Unread' = {} /\ cliTurn' = "none"
    BY <2>7 DEF Hangup, Outstanding, Unread
  <2>8. ASSUME NEW a \in Closers, Disconnect(a) PROVE AnswerBooks'
    BY <2>7, <2>8 DEF Disconnect, AnswerBooks, OneAnswer, AnswerIsOwn
  <2>9. ASSUME Rewind \/ RewindReturns \/ ControlCall \/ RequestStop PROVE AnswerBooks'
    BY <2>9, BooksUnchanged DEF Rewind, RewindReturns, ControlCall, RequestStop, answers
  <2>10. ASSUME SendQuery PROVE AnswerBooks'
    <3>1. Unread' = {}
      BY <2>10 DEF SendQuery, AnswerBooks, Outstanding, Unread, IsAnswer
    <3> QED
      BY <2>10, <3>1 DEF SendQuery, AnswerBooks, OneAnswer, AnswerIsOwn, NoResult
  <2>11. ASSUME QueryReturns PROVE AnswerBooks'
    <3>1. OneAnswer'
      BY <2>11 DEF QueryReturns, AnswerBooks, OneAnswer, Outstanding, Unread, IsAnswer
    <3> QED
      BY <2>11, <3>1 DEF QueryReturns, AnswerBooks, AnswerIsOwn
  <2>12. ASSUME \/ ReadTaskAlive \/ ReadTaskEnded \/ ReadNotification
                \/ ReadOtherResult /\ Head(inbox).result.origin # "human"
         PROVE  AnswerBooks'
    <3>1. /\ prod = "receive" /\ prod' \in {"receive", "finish"}
          /\ inbox # <<>> /\ inbox' = Tail(inbox)
          /\ UNCHANGED <<active, deferred, cliTurn>>
      BY <2>12 DEF ReadTaskAlive, ReadTaskEnded, ReadNotification, ReadOtherResult, Reads
    <3>2. OneAnswer
      BY <3>1 DEF AnswerBooks
    <3>3. /\ chosen' \in {deferred, NoResult} \/ prod' = "finish"
          /\ chosen'.origin = "human" => chosen' \in {deferred, NoResult}
          /\ prod' = "finish" => deferred # NoResult
      BY <2>12, <3>1, <3>2 DEF ReadTaskAlive, ReadTaskEnded, ReadNotification,
         ReadOtherResult, Reads, OneAnswer, EndsDeferred
    <3>4. /\ Outstanding' => Outstanding
          /\ chosen' \in {deferred, NoResult} => OneAnswer'
      BY <3>1, <3>2, <2>t, OtherRead
    <3>5. AnswerIsOwn'
      BY <3>1, <3>2, <3>3 DEF AnswerIsOwn, OneAnswer, NoResult
    <3> QED
      BY <3>1, <3>2, <3>3, <3>4, <3>5 DEF AnswerBooks, OneAnswer
  <2>13. ASSUME \/ ReadAnswer
                \/ ReadOtherResult /\ Head(inbox).result.origin = "human"
         PROVE  AnswerBooks'
    <3>1. /\ prod = "receive" /\ prod' \in {"receive", "finish"}
          /\ inbox # <<>> /\ inbox' = Tail(inbox) /\ IsAnswer(Head(inbox))
          /\ UNCHANGED <<active, cliTurn>>
      BY <2>13 DEF ReadAnswer, ReadOtherResult, Reads, IsAnswer
    <3>2. OneAnswer
      BY <3>1 DEF AnswerBooks
    <3>3. /\ Head(inbox).result.turn = active
          /\ deferred = NoResult /\ chosen = NoResult
          /\ ~Outstanding'
      BY <3>1, <3>2, <2>t, AnswerRead
    <3>4. \/ /\ deferred' = NoResult /\ chosen' = Head(inbox).result
             /\ prod' = "finish"
          \/ /\ deferred' = Head(inbox).result /\ chosen' = NoResult
             /\ prod' = "receive"
      BY <2>13, <3>3 DEF ReadAnswer, ReadOtherResult, EndsDeferred
    <3>5. AnswerIsOwn'
      BY <3>1, <3>3, <3>4 DEF AnswerIsOwn, NoResult
    <3>6. prod' = "receive" => OneAnswer'
      BY <3>1, <3>3, <3>4 DEF OneAnswer, Outstanding
    <3> QED
      BY <3>1, <3>3, <3>5, <3>6 DEF AnswerBooks
  <2>14. ASSUME ResponseEnds PROVE AnswerBooks'
    <3>1. CASE prod' = "failing"
      BY <3>1, BooksGivenUp
    <3>2. CASE prod' = "finish" /\ chosen' # NoResult
      <4>1. OneAnswer /\ ~Outstanding /\ chosen' \in {deferred, NoResult}
        BY <2>14, <3>2 DEF ResponseEnds, AnswerBooks, OneAnswer
      <4>2. ~Outstanding' /\ UNCHANGED <<active, deferred>>
        BY <2>14, <4>1 DEF ResponseEnds, Outstanding, Unread, IsAnswer
      <4>3. AnswerIsOwn'
        BY <3>2, <4>1, <4>2 DEF AnswerIsOwn, OneAnswer, NoResult
      <4> QED
        BY <3>2, <4>2, <4>3 DEF AnswerBooks
    <3> QED
      BY <2>14, <3>1, <3>2 DEF ResponseEnds, Fail
  <2>15. ASSUME ProducerRaises PROVE AnswerBooks'
    BY <2>15, BooksGivenUp DEF ProducerRaises, Fail
  <2>16. ASSUME Complete PROVE AnswerBooks'
    BY <2>16, BooksSettled DEF Complete
  \* A producer that failed never keeps its connection.
  <2>17. ASSUME Discard PROVE AnswerBooks'
    <3>1. OwnConnection
      BY <2>17 DEF Discard, OwnConnection, LockDiscipline, ConnectionUse, Reading
    <3> QED
      BY <2>17, <3>1, BooksGivenUp DEF Discard
  <2>18. ASSUME DiscardReturns PROVE AnswerBooks'
    BY <2>7, <2>18 DEF DiscardReturns, Failed, AnswerBooks, AnswerIsOwn
  <2>19. ASSUME EndStream PROVE AnswerBooks'
    BY <2>19, BooksSettled DEF EndStream
  <2>20. ASSUME NEW r \in Requests,
                \/ DenyOutsideStream(r) \/ AskPermission(r)
                \/ Callback(r) \/ Resolve(r)
         PROVE  AnswerBooks'
    BY <2>20, BooksUnchanged DEF DenyOutsideStream, AskPermission, Callback,
       AwaitDecision, ReportDecision, Resolve, answers
  <2>21. ASSUME NEW k \in Tasks, CliTaskStart(k) \/ CliTaskEnd(k) \/ CliReports(k)
         PROVE  AnswerBooks'
    <3>1. PICK kind \in {"alive", "ended", "notified", "stopped"} :
             inbox' = Append(inbox, TaskMessage(kind, k))
      BY <2>21 DEF CliTaskStart, CliTaskEnd, CliReports, CliNotify, CliNotifyStopped, Emit
    <3>2. UNCHANGED <<active, deferred, chosen, cliTurn, prod>>
      BY <2>21 DEF CliTaskStart, CliTaskEnd, CliReports, CliNotify, CliNotifyStopped, Emit
    <3>3. TaskMessage(kind, k) \in Message /\ ~IsAnswer(TaskMessage(kind, k))
      BY EmittedTypes DEF TaskMessage, IsAnswer
    <3> QED
      BY <3>1, <3>2, <3>3, <2>t, OtherMessage
  <2>22. ASSUME CliContinue \/ CliInject PROVE AnswerBooks'
    <3>1. PICK origin \in {"task-notification", "other"} :
             inbox' = Append(inbox, ResultMessage(origin, "none"))
      BY <2>22 DEF CliContinue, CliInject, Emit
    <3>2. UNCHANGED <<active, deferred, chosen, cliTurn, prod>>
      BY <2>22 DEF CliContinue, CliInject, Emit
    <3>3. ResultMessage(origin, "none") \in Message
          /\ ~IsAnswer(ResultMessage(origin, "none"))
      BY EmittedTypes DEF ResultMessage, IsAnswer, Origins
    <3> QED
      BY <3>1, <3>2, <3>3, <2>t, OtherMessage
  \* Claude Code answers the prompt it was sent, of the turn that still reads.
  <2>23. ASSUME CliAnswer PROVE AnswerBooks'
    <3> DEFINE m == ResultMessage("human", cliTurn)
    <3>1. /\ Outstanding /\ cliTurn # "none" /\ cliTurn' = "none"
          /\ inbox' = Append(inbox, m)
          /\ UNCHANGED <<active, deferred, chosen, prod>>
      BY <2>23 DEF CliAnswer, Emit, Outstanding
    <3>2. prod \in {"sent", "receive", "failing", "discard"}
      BY <3>1 DEF AnswerBooks
    <3>3. CASE prod \in {"failing", "discard"}
      BY <3>1, <3>3, BooksGivenUp
    <3>4. CASE prod \in {"sent", "receive"}
      <4>1. OneAnswer /\ cliTurn = active /\ Unread = {}
            /\ deferred = NoResult /\ chosen = NoResult
        BY <3>1, <3>4 DEF AnswerBooks, OneAnswer
      <4>2. m \in Message /\ m.result.turn = active
        BY <3>1, <4>1, <2>t, EmittedTypes DEF ResultMessage, Origins
      <4>3. \A i \in Unread' : i = Len(inbox) + 1 /\ inbox'[i] = m
        BY <3>1, <4>1, <4>2, <2>t, AddingOne
      <4>4. OneAnswer'
        BY <3>1, <4>1, <4>2, <4>3 DEF OneAnswer
      <4> QED
        BY <3>1, <3>4, <4>4 DEF AnswerBooks, AnswerIsOwn
    <3> QED
      BY <3>2, <3>3, <3>4
  <2>24. ASSUME CliDies PROVE AnswerBooks'
    BY <2>24, BooksUnchanged DEF CliDies, answers
  <2>25. ASSUME UNCHANGED vars PROVE AnswerBooks'
    BY <2>25, BooksUnchanged DEF vars, answers
  <2> QED
    BY <2>1, <2>2, <2>3, <2>5, <2>6, <2>8, <2>9, <2>10, <2>11, <2>12, <2>13,
       <2>14, <2>15, <2>16, <2>17, <2>18, <2>19, <2>20, <2>21, <2>22, <2>23,
       <2>24, <2>25
    DEF Next, ClosingStep, Produce, ReadOtherResult
<1> QED BY <1>1, <1>2, TypeCorrect, Locking, PTL DEF Spec

\* No turn is decided by the answer to another one's prompt, with background
\* tasks, injected turns, failures and turns that were given up.
THEOREM AnswersAreOwn == Spec => []AnswerIsOwn
<1>1. AnswerBooks => AnswerIsOwn
  BY DEF AnswerBooks
<1> QED BY <1>1, AnswersBooked, PTL

-----------------------------------------------------------------------------
(* ChatClient implements TurnProtocol, for any number of turns, callers,   *)
(* permission requests, background tasks and connections: what is queued   *)
(* for the handler of a turn, and what send returns, step by step.         *)


-----------------------------------------------------------------------------
(* The queue of a turn *)

\* The events the handler has to hear before it may hear e.
Needs(e) ==
    {n \in {Ev("started"), Ev("user")} \cup {Ask(r) : r \in Requests} :
       \/ n.kind = "started" /\ e.kind # "started"
       \/ n.kind = "user" /\ e.kind \notin {"started", "user"}
       \/ n.kind = "requested" /\ e.kind = "resolved" /\ e.req = n.req}

\* An event the handler heard (the set S), or will hear (the queue q).
Logged(q, S, e) == e \in S \/ \E i \in DOMAIN q : q[i] = e

InOrder(q, S) ==
    \A i \in DOMAIN q : \A n \in Needs(q[i]) :
        n \in S \/ \E j \in DOMAIN q : j < i /\ q[j] = n

Has(q, kinds) == \E i \in DOMAIN q : q[i].kind \in kinds

\* No terminal event comes after the end of the stream.
EndsLast(q) ==
    \A i, j \in DOMAIN q : q[i].kind = "end" /\ q[j].kind \in Terminal => j < i

LEMMA NeededKinds ==
    ASSUME NEW e, NEW n \in Needs(e)
    PROVE  n.kind \in {"started", "user", "requested"}
BY DEF Needs, Ev, Ask

\* A queue that grows by an event that is due.
LEMMA Growing ==
    ASSUME NEW q \in Seq(Event), NEW S, NEW e \in Event
    PROVE  /\ InOrder(q, S) /\ (\A n \in Needs(e) : Logged(q, S, n))
                => InOrder(Append(q, e), S)
           /\ \A n : Logged(q, S, n) => Logged(Append(q, e), S, n)
           /\ Logged(Append(q, e), S, e)
           /\ \A kinds : Has(Append(q, e), kinds) <=> Has(q, kinds) \/ e.kind \in kinds
           /\ EndsLast(q) /\ (e.kind \in Terminal => ~Has(q, {"end"}))
                => EndsLast(Append(q, e))
<1> DEFINE p == Append(q, e)
<1>1. DOMAIN q = 1 .. Len(q) /\ Len(q) \in Nat
  OBVIOUS
<1>2. /\ DOMAIN p = 1 .. (Len(q) + 1)
      /\ \A i \in DOMAIN q : p[i] = q[i]
      /\ p[Len(q) + 1] = e
  OBVIOUS
<1>3. DOMAIN p = DOMAIN q \cup {Len(q) + 1} /\ Len(q) + 1 \notin DOMAIN q
  BY <1>1, <1>2
<1> HIDE DEF p
<1>4. ASSUME InOrder(q, S), \A n \in Needs(e) : Logged(q, S, n) PROVE InOrder(p, S)
  <2> SUFFICES ASSUME NEW i \in DOMAIN p, NEW n \in Needs(p[i])
               PROVE  n \in S \/ \E j \in DOMAIN p : j < i /\ p[j] = n
    BY DEF InOrder
  <2>1. CASE i \in DOMAIN q
    <3>1. n \in Needs(q[i])
      BY <1>2, <2>1
    <3>2. n \in S \/ \E j \in DOMAIN q : j < i /\ q[j] = n
      BY <1>4, <2>1, <3>1 DEF InOrder
    <3> QED
      BY <1>2, <1>3, <3>2
  <2>2. CASE i = Len(q) + 1
    <3>1. n \in S \/ \E j \in DOMAIN q : q[j] = n
      BY <1>2, <1>4, <2>2 DEF Logged
    <3>2. \A j \in DOMAIN q : j < i
      BY <1>1, <2>2
    <3> QED
      BY <1>2, <1>3, <3>1, <3>2
  <2> QED
    BY <1>3, <2>1, <2>2
<1>5. /\ \A n : Logged(q, S, n) => Logged(p, S, n)
      /\ Logged(p, S, e)
  BY <1>2, <1>3 DEF Logged
<1>6. \A kinds : Has(p, kinds) <=> Has(q, kinds) \/ e.kind \in kinds
  BY <1>2, <1>3 DEF Has
<1>7. ASSUME EndsLast(q), e.kind \in Terminal => ~Has(q, {"end"}) PROVE EndsLast(p)
  <2> SUFFICES ASSUME NEW i \in DOMAIN p, NEW j \in DOMAIN p,
                      p[i].kind = "end", p[j].kind \in Terminal
               PROVE  j < i
    BY DEF EndsLast
  <2>1. CASE i \in DOMAIN q /\ j \in DOMAIN q
    BY <1>2, <1>7, <2>1 DEF EndsLast
  <2>2. CASE i \in DOMAIN q /\ j = Len(q) + 1
    BY <1>2, <1>7, <2>2 DEF Has
  <2>3. CASE i = Len(q) + 1 /\ j \in DOMAIN q
    BY <1>1, <2>3
  <2>4. CASE i = Len(q) + 1 /\ j = Len(q) + 1
    BY <1>2, <2>4 DEF Terminal
  <2> QED
    BY <1>3, <2>1, <2>2, <2>3, <2>4
<1> QED BY <1>4, <1>5, <1>6, <1>7 DEF p

\* A queue whose head is taken, and heard unless nothing has to wait for it.
LEMMA Taking ==
    ASSUME NEW q \in Seq(Event), q # <<>>, NEW S, NEW T,
           S \subseteq T,
           Head(q) \in T \/ Head(q).kind \notin {"started", "user", "requested"}
    PROVE  /\ InOrder(q, S) => Needs(Head(q)) \subseteq S /\ InOrder(Tail(q), T)
           /\ \A n : n.kind \in {"started", "user", "requested"} /\ Logged(q, S, n)
                => Logged(Tail(q), T, n)
           /\ \A kinds : Has(q, kinds) => Head(q).kind \in kinds \/ Has(Tail(q), kinds)
           /\ \A kinds : Has(Tail(q), kinds) => Has(q, kinds)
           /\ EndsLast(q) => EndsLast(Tail(q))
           /\ EndsLast(q) /\ Head(q).kind = "end" => ~Has(Tail(q), Terminal)
<1> DEFINE p == Tail(q)
<1>1. /\ DOMAIN q = 1 .. Len(q) /\ Len(q) \in Nat /\ Len(q) > 0
      /\ Head(q) = q[1]
  OBVIOUS
<1>2. /\ DOMAIN p = 1 .. (Len(q) - 1)
      /\ \A i \in DOMAIN p : p[i] = q[i + 1]
  OBVIOUS
<1>3. /\ \A i \in DOMAIN p : i + 1 \in DOMAIN q /\ i \in Nat
      /\ \A i \in DOMAIN q : i # 1 => i - 1 \in DOMAIN p /\ q[i] = p[i - 1]
      /\ 1 \in DOMAIN q
  <2>1. ASSUME NEW i \in DOMAIN q, i # 1 PROVE i - 1 \in DOMAIN p /\ q[i] = p[i - 1]
    <3>1. i \in 1 .. Len(q) /\ i - 1 \in 1 .. (Len(q) - 1) /\ (i - 1) + 1 = i
      BY <1>1, <2>1
    <3>2. p[i - 1] = q[(i - 1) + 1]
      BY <1>2, <3>1
    <3> QED
      BY <1>2, <3>1, <3>2
  <2>2. ASSUME NEW i \in DOMAIN p PROVE i + 1 \in DOMAIN q /\ i \in Nat
    <3>1. i \in 1 .. (Len(q) - 1)
      BY <1>2, <2>2
    <3> HIDE DEF p
    <3> QED
      BY <1>1, <3>1
  <2>3. 1 \in DOMAIN q
    BY <1>1
  <2> HIDE DEF p
  <2> QED
    BY <2>1, <2>2, <2>3
<1> HIDE DEF p
<1>4. ASSUME InOrder(q, S) PROVE Needs(Head(q)) \subseteq S /\ InOrder(p, T)
  <2>1. Needs(Head(q)) \subseteq S
    BY <1>1, <1>3, <1>4 DEF InOrder
  <2>2. ASSUME NEW i \in DOMAIN p, NEW n \in Needs(p[i])
        PROVE  n \in T \/ \E j \in DOMAIN p : j < i /\ p[j] = n
    <3>1. n \in Needs(q[i + 1]) /\ i + 1 \in DOMAIN q
      BY <1>2, <1>3, <2>2
    <3>2. n \in S \/ \E j \in DOMAIN q : j < i + 1 /\ q[j] = n
      BY <1>4, <3>1 DEF InOrder
    <3>3. CASE n \in S
      BY <3>3
    <3>4. ASSUME NEW j \in DOMAIN q, j < i + 1, q[j] = n
          PROVE  n \in T \/ \E k \in DOMAIN p : k < i /\ p[k] = n
      <4>1. CASE j = 1
        BY <1>1, <3>4, <4>1, NeededKinds, <2>2
      <4>2. CASE j # 1
        <5>1. j - 1 \in DOMAIN p /\ p[j - 1] = n
          BY <1>3, <3>4, <4>2
        <5>2. j - 1 < i
          BY <1>1, <1>3, <2>2, <3>4
        <5> QED
          BY <5>1, <5>2
      <4> QED
        BY <4>1, <4>2
    <3> QED
      BY <3>2, <3>3, <3>4
  <2> QED
    BY <2>1, <2>2 DEF InOrder
<1>5. ASSUME NEW n, n.kind \in {"started", "user", "requested"}, Logged(q, S, n)
      PROVE  Logged(p, T, n)
  <2>1. CASE n \in S
    BY <2>1 DEF Logged
  <2>2. ASSUME NEW i \in DOMAIN q, q[i] = n PROVE Logged(p, T, n)
    BY <1>1, <1>3, <1>5, <2>2 DEF Logged
  <2> QED
    BY <1>5, <2>1, <2>2 DEF Logged
<1>6. /\ \A kinds : Has(q, kinds) => Head(q).kind \in kinds \/ Has(p, kinds)
      /\ \A kinds : Has(p, kinds) => Has(q, kinds)
  BY <1>1, <1>2, <1>3 DEF Has
<1>7. ASSUME EndsLast(q) PROVE EndsLast(p)
  <2> SUFFICES ASSUME NEW i \in DOMAIN p, NEW j \in DOMAIN p,
                      p[i].kind = "end", p[j].kind \in Terminal
               PROVE  j < i
    BY DEF EndsLast
  <2>1. j + 1 < i + 1
    BY <1>2, <1>3, <1>7 DEF EndsLast
  <2> QED
    BY <1>3, <2>1
<1>8. ASSUME EndsLast(q), Head(q).kind = "end" PROVE ~Has(p, Terminal)
  <2> SUFFICES ASSUME NEW j \in DOMAIN p, p[j].kind \in Terminal PROVE FALSE
    BY DEF Has
  <2>1. j + 1 < 1
    BY <1>1, <1>2, <1>3, <1>8 DEF EndsLast
  <2> QED
    BY <1>3, <2>1
<1> QED BY <1>4, <1>5, <1>6, <1>7, <1>8 DEF p

\* The queue a turn begins with.
LEMMA Opening ==
    ASSUME NEW S
    PROVE  LET q == <<Ev("started"), Ev("user")>> IN
           /\ InOrder(q, S) /\ EndsLast(q)
           /\ Logged(q, S, Ev("started")) /\ Logged(q, S, Ev("user"))
           /\ ~Has(q, Terminal) /\ ~Has(q, {"end"})
<1> DEFINE q == <<Ev("started"), Ev("user")>>
<1>1. DOMAIN q = {1, 2} /\ q[1] = Ev("started") /\ q[2] = Ev("user")
  OBVIOUS
<1> HIDE DEF q
<1>2. Needs(Ev("started")) = {} /\ Needs(Ev("user")) \subseteq {Ev("started")}
  BY DEF Needs, Ev, Ask
<1>3. InOrder(q, S)
  BY <1>1, <1>2 DEF InOrder
<1>4. EndsLast(q) /\ ~Has(q, Terminal) /\ ~Has(q, {"end"})
  BY <1>1 DEF EndsLast, Has, Terminal, Ev
<1>5. Logged(q, S, Ev("started")) /\ Logged(q, S, Ev("user"))
  BY <1>1 DEF Logged
<1> QED BY <1>3, <1>4, <1>5 DEF q

-----------------------------------------------------------------------------
(* The story of a turn *)

QueueTells(t) ==
    /\ InOrder(queue[t], shown[t])
    /\ Logged(queue[t], shown[t], Ev("started"))
    /\ Logged(queue[t], shown[t], Ev("user"))
    /\ EndsLast(queue[t])

\* How far the producer, the consumer and the result of a turn are.
EndTells(t) ==
    /\ returned[t] = "none"
    /\ lastResult \in {t, "none"}
    /\ prod \notin {"ending", "finished"} =>
         lastResult = "none" /\ ~Has(queue[t], Terminal)
    /\ prod # "finished" => ~Has(queue[t], {"end"})
    /\ pc[t] \in {"ended", "clear"} => prod = "finished" /\ ~Has(queue[t], Terminal)
    /\ pc[t] \in {"clear", "quit"} => t \in closed
    /\ lastResult = t =>
         /\ ~Has(queue[t], {"failed"})
         /\ held[t] = "completed" \/ Has(queue[t], {"completed"})

Waiting == {"idle", "turnlock", "connlock", "open", "probe"}

\* The terminal event that is held back agrees with what send returns.
OutcomeTells(t) ==
    /\ held[t] # "none" => Ev("user") \in shown[t]
    /\ returned[t] # "none" => returned[t] = t /\ held[t] = "completed"
    /\ pc[t] \in Waiting => returned[t] = "none"

\* A callback reports a decision only to a queue that has its request.
AskTells(r) ==
    CallbackOpen(r) /\ cbTurn[r] \notin closed =>
        /\ cbTurn[r] \in Turns /\ cbTurn[r] = active
        /\ Logged(queue[cbTurn[r]], shown[cbTurn[r]], Ask(r))

Story ==
    /\ active # "none" => QueueTells(active) /\ EndTells(active)
    /\ \A t \in Turns : OutcomeTells(t)
    /\ \A r \in Requests : AskTells(r)

told == <<active, queue, shown, held, returned, closed, lastResult, cbTurn>>

\* A producer that goes on without coming to its end.
ProducerOn == prod' = prod \/ {prod, prod'} \cap {"ending", "finished"} = {}

\* A step that tells nothing.
LEMMA NothingTold ==
    ASSUME Story, UNCHANGED told, ProducerOn,
           active # "none" =>
             /\ pc'[active] \in {"ended", "clear"} => pc[active] \in {"ended", "clear"}
             /\ pc'[active] \in {"clear", "quit"} => pc[active] \in {"clear", "quit"},
           \A t \in Turns : pc'[t] \in Waiting => pc[t] \in Waiting,
           \A r \in Requests : CallbackOpen(r)' => CallbackOpen(r)
    PROVE  Story'
<1>1. active # "none" => QueueTells(active)' /\ EndTells(active)'
  BY DEF Story, told, ProducerOn, QueueTells, EndTells
<1>2. \A t \in Turns : OutcomeTells(t)'
  BY DEF Story, told, OutcomeTells
<1>3. \A r \in Requests : AskTells(r)'
  BY DEF Story, told, AskTells
<1>4. active' = active
  BY DEF told
<1> QED BY <1>1, <1>2, <1>3, <1>4 DEF Story

\* An event is put into the queue of the running turn, once it is due.
LEMMA EventTold ==
    ASSUME Story, StreamsType, active \in Turns, NEW e \in Event, Put(active, e),
           \A n \in Needs(e) : Logged(queue[active], shown[active], n),
           e.kind \in Terminal => prod # "finished",
           UNCHANGED <<pc, active, shown, held, returned, closed>>
    PROVE  /\ QueueTells(active)'
           /\ \A t \in Turns : OutcomeTells(t)'
           /\ \A kinds : Has(queue'[active], kinds)
                           <=> Has(queue[active], kinds) \/ e.kind \in kinds
           /\ \A n : Logged(queue[active], shown[active], n)
                       => Logged(queue'[active], shown'[active], n)
           /\ Logged(queue'[active], shown'[active], e)
<1>1. queue[active] \in Seq(Event) /\ queue'[active] = Append(queue[active], e)
  BY DEF StreamsType, Put
<1>2. QueueTells(active) /\ (e.kind \in Terminal => ~Has(queue[active], {"end"}))
  <2>1. active # "none"
    BY ClientAssumption
  <2> QED
    BY <2>1 DEF Story, EndTells
<1> DEFINE q == queue[active]
           S == shown[active]
           p == queue'[active]
<1>3. /\ InOrder(q, S) => InOrder(p, S)
      /\ \A n : Logged(q, S, n) => Logged(p, S, n)
      /\ Logged(p, S, e)
      /\ \A kinds : Has(p, kinds) <=> Has(q, kinds) \/ e.kind \in kinds
      /\ EndsLast(q) => EndsLast(p)
  BY <1>1, <1>2, Growing
<1>4. QueueTells(active)'
  BY <1>2, <1>3 DEF QueueTells, InOrder, Logged, EndsLast
<1>5. \A t \in Turns : OutcomeTells(t)'
  BY DEF Story, OutcomeTells
<1> QED BY <1>3, <1>4, <1>5

\* An event that ends nothing.
LEMMA PartTold ==
    ASSUME Story, StreamsType, active \in Turns, NEW e \in Event, Put(active, e),
           e.kind \notin Terminal \cup {"end"},
           \A n \in Needs(e) : Logged(queue[active], shown[active], n),
           UNCHANGED <<pc, active, shown, held, returned, closed, lastResult>>,
           ProducerOn
    PROVE  active' # "none" => QueueTells(active)' /\ EndTells(active)'
<1>1. /\ QueueTells(active)'
      /\ \A kinds : Has(queue'[active], kinds)
                      <=> Has(queue[active], kinds) \/ e.kind \in kinds
  BY EventTold DEF Terminal
<1>2. active # "none" /\ EndTells(active)
  BY ClientAssumption DEF Story
<1> QED BY <1>1, <1>2 DEF EndTells, ProducerOn, Terminal

\* The callbacks that were open keep what their queue has.
LEMMA AsksKept ==
    ASSUME Story, UNCHANGED <<active, closed, cbTurn>>, NEW r \in Requests,
           CallbackOpen(r)' => CallbackOpen(r),
           active \in Turns =>
             \A n : n = Ask(r) /\ Logged(queue[active], shown[active], n)
                      => Logged(queue'[active], shown'[active], n)
    PROVE  AskTells(r)'
BY DEF Story, AskTells, Ask

\* The steps that tell something.
LEMMA BeginTells ==
    ASSUME Story, LockDiscipline, active = "none", NEW t \in Turns, pc[t] \in Waiting,
           BeginTurn(t), GoTo(t, "stream"), pc \in [Actors -> Phases],
           queue \in [Turns -> Seq(Event)], UNCHANGED <<cb, cbTurn>>
    PROVE  Story'
<1>1. /\ active' = t /\ prod' = "query" /\ lastResult' = "none"
      /\ queue'[t] = <<Ev("started"), Ev("user")>>
      /\ UNCHANGED <<shown, held, returned, closed>>
      /\ pc'[t] = "stream" /\ \A u \in Turns : u # t => pc'[u] = pc[u]
  BY DEF BeginTurn, GoTo, delivered, Actors
<1> DEFINE q == queue'[t]
<1>a. /\ InOrder(q, shown[t]) /\ EndsLast(q)
      /\ Logged(q, shown[t], Ev("started")) /\ Logged(q, shown[t], Ev("user"))
      /\ ~Has(q, Terminal) /\ ~Has(q, {"end"})
  BY <1>1, Opening
<1>2. QueueTells(t)'
  BY <1>1, <1>a DEF QueueTells, InOrder, Logged, EndsLast
<1>3. ~Has(queue[t], Terminal)' /\ ~Has(queue[t], {"end"})'
  BY <1>1, <1>a DEF Has, Terminal
<1>4. returned[t] = "none"
  BY DEF Story, OutcomeTells
<1>5. EndTells(t)'
  BY <1>1, <1>3, <1>4, ClientAssumption DEF EndTells
<1>6. \A u \in Turns : OutcomeTells(u)'
  BY <1>1 DEF Story, OutcomeTells, Waiting
<1>7. \A r \in Requests : AskTells(r)'
  BY <1>1, ClientAssumption DEF Story, AskTells, CallbackOpen
<1> QED BY <1>1, <1>2, <1>5, <1>6, <1>7 DEF Story

LEMMA ConsumeTells ==
    ASSUME Story, LockDiscipline, StreamsType, NEW t \in Turns,
           pc \in [Actors -> Phases], Consume(t) \/ ConsumeEnd(t)
    PROVE  Story'
<1> DEFINE q == queue[t]
           e == Head(queue[t])
           S == shown[t]
           T == shown'[t]
<1>1. /\ pc[t] = "stream" /\ active = t /\ active # "none"
      /\ QueueTells(t) /\ EndTells(t) /\ OutcomeTells(t)
  BY ClientAssumption
  DEF Consume, ConsumeEnd, Dequeue, LockDiscipline, ActiveTurn, InStream, StreamPhases,
      Story
<1>2. /\ q \in Seq(Event) /\ q # <<>> /\ queue'[t] = Tail(q) /\ e \in Event
      /\ UNCHANGED <<active, prod, lastResult, returned, closed, cb, cbTurn>>
      /\ \A u \in Turns : u # t => /\ shown'[u] = shown[u] /\ held'[u] = held[u]
                                   /\ pc'[u] = pc[u]
  BY DEF Consume, ConsumeEnd, Dequeue, StreamsType, turnState, producer, callbacks, GoTo,
     Actors
<1>3. /\ S \subseteq T
      /\ e \in T \/ e.kind \notin {"started", "user", "requested"}
      /\ held'[t] = IF e.kind \in Terminal THEN e.kind ELSE held[t]
      /\ IF e.kind = "end" THEN pc'[t] = "ended" ELSE pc'[t] = "stream"
  BY <1>1 DEF Consume, ConsumeEnd, HeldBack, StreamsType, Terminal, GoTo, Actors
<1>4. /\ InOrder(q, S) => Needs(e) \subseteq S /\ InOrder(Tail(q), T)
      /\ \A n : n.kind \in {"started", "user", "requested"} /\ Logged(q, S, n)
           => Logged(Tail(q), T, n)
      /\ \A kinds : Has(q, kinds) => e.kind \in kinds \/ Has(Tail(q), kinds)
      /\ \A kinds : Has(Tail(q), kinds) => Has(q, kinds)
      /\ EndsLast(q) => EndsLast(Tail(q))
      /\ EndsLast(q) /\ e.kind = "end" => ~Has(Tail(q), Terminal)
  BY <1>2, <1>3, Taking
<1>5. Ev("started").kind = "started" /\ Ev("user").kind = "user"
      /\ \A r \in Requests : Ask(r).kind = "requested"
  BY DEF Ev, Ask
<1>6. QueueTells(t)'
  <2>1. /\ InOrder(Tail(q), T) /\ EndsLast(Tail(q))
        /\ Logged(Tail(q), T, Ev("started")) /\ Logged(Tail(q), T, Ev("user"))
    BY <1>1, <1>4, <1>5 DEF QueueTells
  <2> QED
    BY <1>2, <2>1 DEF QueueTells, InOrder, Logged, EndsLast
<1>7. EndTells(t)'
  <2>1. e.kind = "end" => prod = "finished" /\ Has(q, {"end"})
    <3>1. e.kind = "end" => Has(q, {"end"})
      BY <1>2 DEF Has
    <3> QED
      BY <1>1, <3>1 DEF EndTells
  <2>2. /\ Has(queue'[t], {"failed"}) => Has(q, {"failed"})
        /\ Has(queue'[t], {"end"}) => Has(q, {"end"})
        /\ Has(queue'[t], Terminal) => Has(q, Terminal)
        /\ e.kind = "end" => ~Has(queue'[t], Terminal)
        /\ Has(q, {"completed"}) => e.kind = "completed" \/ Has(queue'[t], {"completed"})
    BY <1>1, <1>2, <1>4 DEF QueueTells
  <2>3. e.kind = "failed" => Has(q, {"failed"})
    BY <1>2 DEF Has
  <2>4. lastResult = t =>
          /\ ~Has(queue'[t], {"failed"})
          /\ held'[t] = "completed" \/ Has(queue'[t], {"completed"})
    BY <1>1, <1>3, <2>2, <2>3 DEF EndTells, Terminal
  <2> QED
    BY <1>1, <1>2, <1>3, <2>1, <2>2, <2>4 DEF EndTells, Has
<1>8. OutcomeTells(t)'
  <2>1. e.kind \in Terminal => Ev("user") \in S
    <3>1. e.kind \in Terminal => Ev("user") \in Needs(e)
      BY <1>5 DEF Needs, Terminal
    <3> QED
      BY <1>1, <1>4, <3>1 DEF QueueTells
  <2> QED
    BY <1>1, <1>2, <1>3, <2>1 DEF OutcomeTells, EndTells, Waiting
<1>9. \A u \in Turns : OutcomeTells(u)'
  BY <1>2, <1>8 DEF Story, OutcomeTells
<1>10. \A r \in Requests : AskTells(r)'
  BY <1>1, <1>2, <1>4, <1>5 DEF Story, AskTells, CallbackOpen
<1> QED BY <1>1, <1>2, <1>6, <1>7, <1>9, <1>10 DEF Story

LEMMA LeaveTells ==
    ASSUME Story, LockDiscipline, TypeOK, NEW t \in Turns, LeaveStream(t)
    PROVE  Story'
<1>1. /\ active = t /\ active # "none" /\ EndTells(t) /\ OutcomeTells(t)
      /\ QueueTells(t) /\ pc[t] \in {"clear", "quit"}
  BY ClientAssumption
  DEF LeaveStream, LockDiscipline, ActiveTurn, InStream, StreamPhases, Story
<1>2. /\ active' = "none" /\ UNCHANGED <<held, shown, closed, cb, cbTurn>>
      /\ pc' = [pc EXCEPT ![t] = "complete"]
  BY DEF LeaveStream, callbacks, GoTo
<1>3. OutcomeTells(t)'
  <2>1. returned'[t] # "none" => returned'[t] = t /\ held[t] = "completed"
    BY <1>1 DEF LeaveStream, EndTells, Has, Terminal, TypeOK, StreamsType
  <2> QED
    BY <1>1, <1>2, <2>1 DEF OutcomeTells, TypeOK, ControlType, Actors, Waiting
<1>4. \A u \in Turns : OutcomeTells(u)'
  <2>1. \A u \in Turns : u # t => returned'[u] = returned[u] /\ pc'[u] = pc[u]
    BY <1>2 DEF LeaveStream, TypeOK, StreamsType, ControlType, Actors
  <2> QED
    BY <1>2, <1>3, <2>1 DEF Story, OutcomeTells
<1>5. \A r \in Requests : AskTells(r)'
  BY <1>1, <1>2 DEF Story, AskTells, CallbackOpen, EndTells
<1> QED BY <1>2, <1>4, <1>5 DEF Story

\* In a turn that began every event is due, a decision after its request.
LEMMA EventDue ==
    ASSUME NEW t, QueueTells(t), NEW e \in Event,
           \A r \in Requests : e = Answer(r) => Logged(queue[t], shown[t], Ask(r))
    PROVE  \A n \in Needs(e) : Logged(queue[t], shown[t], n)
<1> SUFFICES ASSUME NEW n \in Needs(e) PROVE Logged(queue[t], shown[t], n)
  OBVIOUS
<1>1. CASE n \in {Ev("started"), Ev("user")}
  BY <1>1 DEF QueueTells
<1>2. ASSUME NEW r \in Requests, n = Ask(r) PROVE Logged(queue[t], shown[t], n)
  <2>1. e.kind = "resolved" /\ e.req = r
    BY <1>2 DEF Needs, Ask
  <2>2. e = Answer(r)
    BY <2>1 DEF Event, Answer
  <2> QED
    BY <1>2, <2>2
<1> QED BY <1>1, <1>2 DEF Needs

\* A permission callback tells of its request, and of the decision.
LEMMA CallbackTells ==
    ASSUME Story, TypeOK, NEW r \in Requests, AskPermission(r) \/ ReportDecision(r)
    PROVE  Story'
<1>1. /\ cb' \in [Requests -> {"asking", "done"} \cup {cb[x] : x \in Requests}]
      /\ \A x \in Requests : x # r => cb'[x] = cb[x] /\ cbTurn'[x] = cbTurn[x]
      /\ UNCHANGED <<pc, active, shown, held, returned, closed, lastResult, prod>>
  BY DEF AskPermission, ReportDecision, control, turnState, producer, delivered, TypeOK,
     CallbacksType
<1>2. CASE UNCHANGED queue /\ cb'[r] = "done"
  <2>1. \A x \in Requests : AskTells(x)'
    BY <1>1, <1>2 DEF Story, AskTells, CallbackOpen
  <2>2. active # "none" => QueueTells(active)' /\ EndTells(active)'
    BY <1>1, <1>2 DEF Story, QueueTells, EndTells
  <2> QED
    BY <1>1, <2>1, <2>2 DEF Story, OutcomeTells
<1>3. CASE /\ AskPermission(r) /\ active \in Turns /\ active \notin closed
           /\ cb'[r] = "asking" /\ cbTurn'[r] = active /\ Put(active, Ask(r))
  <2>1. Ask(r) \in Event /\ Ask(r).kind = "requested" /\ \A x \in Requests : Ask(r) # Answer(x)
    BY EventTypes DEF Ask, Answer
  <2>2. \A n \in Needs(Ask(r)) : Logged(queue[active], shown[active], n)
    BY <2>1, <1>3, EventDue, ClientAssumption DEF Story
  <2>3. active' # "none" => QueueTells(active)' /\ EndTells(active)'
    BY <1>1, <1>3, <2>1, <2>2, PartTold DEF Terminal, ProducerOn, TypeOK
  <2>4. /\ \A t \in Turns : OutcomeTells(t)'
        /\ \A n : Logged(queue[active], shown[active], n)
                    => Logged(queue'[active], shown'[active], n)
        /\ Logged(queue'[active], shown'[active], Ask(r))
    BY <1>1, <1>3, <2>1, <2>2, EventTold DEF Terminal, TypeOK
  <2>5. \A x \in Requests : AskTells(x)'
    BY <1>1, <1>3, <2>4 DEF Story, AskTells, CallbackOpen, Logged
  <2> QED
    BY <2>3, <2>4, <2>5 DEF Story
<1>4. CASE /\ ReportDecision(r) /\ CallbackOpen(r) /\ cbTurn[r] \notin closed
           /\ cb'[r] = "done" /\ cbTurn' = cbTurn /\ Put(cbTurn[r], Answer(r))
  <2>1. Answer(r) \in Event /\ Answer(r).kind = "resolved"
        /\ \A x \in Requests : Answer(r) = Answer(x) => x = r
    BY EventTypes DEF Answer
  <2>2. /\ active \in Turns /\ cbTurn[r] = active
        /\ Logged(queue[active], shown[active], Ask(r))
    BY <1>4 DEF Story, AskTells
  <2>3. \A n \in Needs(Answer(r)) : Logged(queue[active], shown[active], n)
    BY <2>1, <2>2, EventDue, ClientAssumption DEF Story
  <2>4. active' # "none" => QueueTells(active)' /\ EndTells(active)'
    BY <1>1, <1>4, <2>1, <2>2, <2>3, PartTold DEF Terminal, ProducerOn, TypeOK
  <2>5. /\ \A t \in Turns : OutcomeTells(t)'
        /\ \A n : Logged(queue[active], shown[active], n)
                    => Logged(queue'[active], shown'[active], n)
    BY <1>1, <1>4, <2>1, <2>2, <2>3, EventTold DEF Terminal, TypeOK
  <2>6. \A x \in Requests : AskTells(x)'
    BY <1>1, <1>4, <2>5 DEF Story, AskTells, CallbackOpen, Logged
  <2> QED
    BY <2>4, <2>5, <2>6 DEF Story
<1> QED
  BY <1>1, <1>2, <1>3, <1>4
  DEF AskPermission, ReportDecision, TypeOK, CallbacksType, TurnType, CallbackOpen

\* The producer tells how its turn ends.
LEMMA EndingTells ==
    ASSUME Story, LockDiscipline, TypeOK, active \in Turns,
           UNCHANGED <<pc, active, shown, held, returned, closed, cbTurn>>,
           \A r \in Requests : CallbackOpen(r)' => CallbackOpen(r),
           \/ /\ prod = "finish" /\ prod' = "ending"
              /\ lastResult' = active /\ Put(active, Ev("completed"))
           \/ /\ prod \in {"failing", "discard"} /\ prod' = "ending"
              /\ lastResult' = lastResult /\ Put(active, Ev("failed"))
           \/ /\ prod = "ending" /\ prod' = "finished"
              /\ lastResult' = lastResult /\ Put(active, Ev("end"))
    PROVE  Story'
<1>1. PICK kind \in {"completed", "failed", "end"} :
         /\ Put(active, Ev(kind))
         /\ kind = "completed" => /\ prod = "finish" /\ prod' = "ending"
                                  /\ lastResult' = active
         /\ kind = "failed" => /\ prod \in {"failing", "discard"} /\ prod' = "ending"
                               /\ lastResult' = lastResult
         /\ kind = "end" => /\ prod = "ending" /\ prod' = "finished"
                            /\ lastResult' = lastResult
  OBVIOUS
<1>2. /\ Ev(kind) \in Event /\ Ev(kind).kind = kind
      /\ \A r \in Requests : Ev(kind) # Answer(r)
  BY EventTypes DEF Ev, Answer
<1>3. active # "none" /\ QueueTells(active) /\ EndTells(active)
  BY ClientAssumption DEF Story
<1>4. \A n \in Needs(Ev(kind)) : Logged(queue[active], shown[active], n)
  BY <1>2, <1>3, EventDue
<1>5. /\ QueueTells(active)'
      /\ \A t \in Turns : OutcomeTells(t)'
      /\ \A kinds : Has(queue'[active], kinds)
                      <=> Has(queue[active], kinds) \/ Ev(kind).kind \in kinds
      /\ \A n : Logged(queue[active], shown[active], n)
                  => Logged(queue'[active], shown'[active], n)
  BY <1>1, <1>2, <1>4, EventTold DEF Terminal, TypeOK
<1>6. EndTells(active)'
  <2>1. Has(queue[active], Terminal) <=> \/ Has(queue[active], {"completed"})
                                         \/ Has(queue[active], {"failed"})
    BY DEF Has, Terminal
  <2>2. Has(queue'[active], Terminal) <=> \/ Has(queue[active], Terminal)
                                          \/ kind \in Terminal
    BY <1>2, <1>5
  <2>3. /\ Has(queue'[active], {"end"}) <=> Has(queue[active], {"end"}) \/ kind = "end"
        /\ Has(queue'[active], {"completed"})
             <=> Has(queue[active], {"completed"}) \/ kind = "completed"
        /\ Has(queue'[active], {"failed"})
             <=> Has(queue[active], {"failed"}) \/ kind = "failed"
    BY <1>2, <1>5
  <2> QED
    BY <1>1, <1>3, <2>1, <2>2, <2>3 DEF EndTells, Has, Terminal
<1>7. \A r \in Requests : AskTells(r)'
  BY <1>5, AsksKept
<1> QED BY <1>3, <1>5, <1>6, <1>7 DEF Story

\* Steps of an actor outside the stream.
LEMMA ActorTells ==
    ASSUME Story, LockDiscipline, pc \in [Actors -> Phases], NEW a \in Actors,
           NEW phase, pc' = [pc EXCEPT ![a] = phase], UNCHANGED <<told, prod>>,
           phase \notin {"ended", "clear", "quit"},
           phase \in Waiting => pc[a] \in Waiting,
           \A r \in Requests : CallbackOpen(r)' => CallbackOpen(r)
    PROVE  Story'
<1>1. active # "none" =>
        /\ pc'[active] \in {"ended", "clear"} => pc[active] \in {"ended", "clear"}
        /\ pc'[active] \in {"clear", "quit"} => pc[active] \in {"clear", "quit"}
  <2>1. CASE active = a
    BY <2>1
  <2>2. CASE active # a
    BY <2>2
  <2> QED
    BY <2>1, <2>2
<1>2. \A t \in Turns : pc'[t] \in Waiting => pc[t] \in Waiting
  BY DEF Actors
<1> QED BY <1>1, <1>2, NothingTold DEF ProducerOn

\* The inductive invariant behind the refinement.
THEOREM StoryIsTold == Spec => []Story
<1> USE ClientAssumption DEF locks, control, inner, conn, turnState, locals, producer,
    delivered, streams, callbacks, cli
<1>1. Init => Story
  BY DEF Init, Story, OutcomeTells, AskTells, CallbackOpen
<1>2. TypeOK /\ LockDiscipline /\ Story /\ [Next]_vars => Story'
  <2> SUFFICES ASSUME TypeOK, LockDiscipline, Story, [Next]_vars PROVE Story'
    OBVIOUS
  <2>t. /\ pc \in [Actors -> Phases] /\ StreamsType /\ active \in Turns \cup {"none"}
        /\ queue \in [Turns -> Seq(Event)] /\ Turns \subseteq Actors
        /\ Closers \subseteq Actors
    BY DEF TypeOK, ControlType, TurnType, StreamsType, Actors, Closers
  <2>c. \A r \in Requests : cb' = cb => (CallbackOpen(r)' => CallbackOpen(r))
    BY DEF CallbackOpen
  <2>d. \A r \in Requests : DenyPending => (CallbackOpen(r)' => CallbackOpen(r))
    BY DEF CallbackOpen, DenyPending
  <2>h. \A r \in Requests : Hangup => (CallbackOpen(r)' => CallbackOpen(r))
    BY DEF CallbackOpen, Hangup
  <2>1. ASSUME NEW t \in Turns, Send(t) PROVE Story'
    BY <2>1, <2>t, <2>c, ActorTells DEF Send, GoTo, told, Waiting
  <2>2. ASSUME NEW t \in Turns, Consume(t) \/ ConsumeEnd(t) PROVE Story'
    BY <2>2, <2>t, ConsumeTells
  <2>3. ASSUME NEW t \in Turns, CloseQueue(t) PROVE Story'
    <3>1. /\ active = t /\ QueueTells(t) /\ EndTells(t) /\ active' = t
          /\ t \in closed' /\ closed \subseteq closed'
          /\ UNCHANGED <<queue, shown, held, returned, lastResult, prod, cb, cbTurn>>
          /\ pc'[t] \in {"clear", "quit"} /\ (pc'[t] = "clear" => pc[t] = "ended")
          /\ prod = "finished"
      BY <2>3, <2>t DEF CloseQueue, GoTo, LockDiscipline, ActiveTurn, InStream,
         StreamPhases, Story
    <3>2. QueueTells(t)' /\ EndTells(t)'
      BY <3>1 DEF QueueTells, EndTells
    <3>3. \A u \in Turns : OutcomeTells(u)'
      BY <2>3, <2>t, <3>1 DEF CloseQueue, GoTo, Story, OutcomeTells, Waiting
    <3>4. \A r \in Requests : AskTells(r)'
      BY <3>1 DEF Story, AskTells, CallbackOpen
    <3> QED
      BY <3>1, <3>2, <3>3, <3>4 DEF Story
  <2>4. ASSUME NEW t \in Turns, LeaveStream(t) PROVE Story'
    BY <2>4, LeaveTells
  <2>5. ASSUME NEW t \in Turns, OnComplete(t) PROVE Story'
    BY <2>5, <2>t, <2>c, ActorTells DEF OnComplete, GoTo, told, Waiting
  \* The terminal event is told after the stream.
  <2>6. ASSUME NEW t \in Turns, ForwardTerminal(t) PROVE Story'
    <3>1. /\ active # t /\ pc' = [pc EXCEPT ![t] = "done"]
          /\ UNCHANGED <<active, queue, held, returned, closed, lastResult, prod, cb, cbTurn>>
          /\ \A u \in Turns : u # t => shown'[u] = shown[u] /\ pc'[u] = pc[u]
          /\ shown[t] \subseteq shown'[t] /\ pc'[t] = "done"
      BY <2>6, <2>t DEF ForwardTerminal, GoTo, LockDiscipline, ActiveTurn, InStream,
         StreamPhases, StreamsType
    <3>2. active # "none" => QueueTells(active)' /\ EndTells(active)'
      BY <2>t, <3>1 DEF Story, QueueTells, EndTells
    <3>3. \A u \in Turns : OutcomeTells(u)'
      BY <3>1 DEF Story, OutcomeTells, Waiting
    <3>4. \A r \in Requests : AskTells(r)'
      BY <3>1 DEF Story, AskTells, CallbackOpen
    <3> QED
      BY <3>1, <3>2, <3>3, <3>4 DEF Story
  <2>7. ASSUME NEW t \in Turns, Abandon(t) PROVE Story'
    <3>1. \A r \in Requests : CallbackOpen(r)' => CallbackOpen(r)
      BY <2>7, <2>c, <2>d DEF Abandon, Interrupt
    <3> QED
      BY <2>7, <2>t, <3>1, ActorTells DEF Abandon, GoTo, told, Waiting
  <2>8. ASSUME NEW t \in Turns, DrainTimesOut(t) PROVE Story'
    BY <2>8, <2>d, NothingTold DEF DrainTimesOut, Fail, told, ProducerOn
  <2>9. ASSUME NEW a \in Actors, TakeTurnLock(a) \/ Open(a) \/ OpenSucceeds(a)
        PROVE  Story'
    <3>1. PICK phase \in {"connlock", "open", "probe"} :
             pc' = [pc EXCEPT ![a] = phase] /\ pc[a] \in Waiting
      BY <2>9 DEF TakeTurnLock, Open, OpenSucceeds, GoTo, Waiting
    <3>2. UNCHANGED <<told, prod, cb>>
      BY <2>9 DEF TakeTurnLock, Open, OpenSucceeds, told
    <3> QED
      BY <2>t, <2>c, <3>1, <3>2, ActorTells
  <2>10. ASSUME NEW a \in Actors, AlreadyConnected(a) \/ ProbeSucceeds(a)
         PROVE  Story'
    <3>1. Connected(a) /\ pc[a] \in {"connlock", "probe"} /\ UNCHANGED <<cb, cbTurn>>
      BY <2>10 DEF AlreadyConnected, ProbeSucceeds
    <3>2. CASE a \in Turns /\ GoTo(a, "stream") /\ BeginTurn(a)
      <4>1. a # "control" /\ turnLock = a
        BY <3>1, <3>2 DEF LockDiscipline, LockOwners, HoldsTurnLock, Connects
      <4>2. active = "none"
        BY <2>t, <3>1, <3>2, <4>1 DEF LockDiscipline, LockOwners, HoldsTurnLock,
           ActiveTurn, InStream, StreamPhases
      <4> QED
        BY <2>t, <3>1, <3>2, <4>2, BeginTells DEF Waiting
    <3>3. CASE /\ GoTo(a, "idle") \/ GoTo(a, "call")
               /\ UNCHANGED <<turnState, producer, streams>>
      <4>1. PICK phase \in {"idle", "call"} : pc' = [pc EXCEPT ![a] = phase]
        BY <3>3 DEF GoTo
      <4> QED
        BY <2>t, <2>c, <3>1, <3>3, <4>1, ActorTells DEF told, Waiting
    <3> QED
      BY <3>1, <3>2, <3>3 DEF Connected
  <2>11. ASSUME NEW a \in Actors, ConnectRaises(a) PROVE Story'
    <3>1. PICK phase \in {"complete", "idle"} : pc' = [pc EXCEPT ![a] = phase]
      BY <2>11 DEF ConnectRaises, GoTo
    <3> QED
      BY <2>11, <2>t, <2>c, <3>1, ActorTells DEF ConnectRaises, told, Waiting
  <2>12. ASSUME Rewind \/ RewindReturns \/ ControlCall PROVE Story'
    <3>1. /\ UNCHANGED <<told, prod, cb>>
          /\ \A t \in Turns : pc'[t] = pc[t]
      BY <2>12, <2>t DEF Rewind, RewindReturns, ControlCall, GoTo, told
    <3> QED
      BY <2>t, <2>c, <3>1, NothingTold DEF ProducerOn
  <2>13. ASSUME RequestStop PROVE Story'
    BY <2>13, <2>c, <2>d, NothingTold DEF RequestStop, Interrupt, told, ProducerOn
  <2>14. ASSUME NEW a \in Closers, Close(a) PROVE Story'
    <3>1. \A r \in Requests : CallbackOpen(r)' => CallbackOpen(r)
      BY <2>14, <2>c, <2>d DEF Close, Interrupt
    <3> QED
      BY <2>14, <2>t, <3>1, ActorTells DEF Close, GoTo, told, Waiting
  <2>15. ASSUME NEW a \in Closers, ClosingStep(a) PROVE Story'
    <3>1. PICK phase : pc' = [pc EXCEPT ![a] = phase]
                       /\ phase \in {"closeconn", "disconnect", AfterClose(a)}
      BY <2>15 DEF ClosingStep, CloseTakesTurnLock, CloseTakesConnLock, Disconnect, GoTo
    <3>2. CASE phase \in {"closeconn", "disconnect", "forward"}
      <4>1. UNCHANGED <<told, prod>> /\ \A r \in Requests : CallbackOpen(r)' => CallbackOpen(r)
        BY <2>15, <2>c, <2>h
        DEF ClosingStep, CloseTakesTurnLock, CloseTakesConnLock, Disconnect, told
      <4> QED
        BY <2>t, <3>1, <3>2, <4>1, ActorTells DEF Waiting
    <3>3. CASE a \notin Turns
      <4>1. UNCHANGED <<told, prod>> /\ \A r \in Requests : CallbackOpen(r)' => CallbackOpen(r)
        BY <2>15, <2>c, <2>h
        DEF ClosingStep, CloseTakesTurnLock, CloseTakesConnLock, Disconnect, told
      <4>2. \A t \in Turns : pc'[t] = pc[t]
        BY <2>t, <3>1, <3>3
      <4> QED
        BY <2>t, <4>1, <4>2, NothingTold DEF ProducerOn
    <3> QED
      BY <3>1, <3>2, <3>3 DEF AfterClose
  <2>16. ASSUME \/ SendQuery \/ QueryReturns \/ ReadTaskAlive \/ ReadTaskEnded
                \/ ReadNotification \/ ReadAnswer
         PROVE  Story'
    <3>1. UNCHANGED <<told, pc, cb>> /\ ProducerOn
      BY <2>16 DEF SendQuery, QueryReturns, ReadTaskAlive, ReadTaskEnded, ReadNotification,
         ReadAnswer, Reads, told, ProducerOn
    <3> QED
      BY <2>c, <3>1, NothingTold
  <2>17. ASSUME ResponseEnds \/ ProducerRaises PROVE Story'
    <3>1. UNCHANGED <<told, pc>> /\ ProducerOn
      BY <2>17 DEF ResponseEnds, ProducerRaises, Fail, told, ProducerOn
    <3>2. \A r \in Requests : CallbackOpen(r)' => CallbackOpen(r)
      BY <2>17, <2>c, <2>d DEF ResponseEnds, ProducerRaises, Fail
    <3> QED
      BY <3>1, <3>2, NothingTold
  <2>18. ASSUME ReadOtherResult PROVE Story'
    <3>1. /\ prod = "receive" /\ prod' \in {"receive", "finish"} /\ Put(active, Ev("proxy"))
          /\ UNCHANGED <<pc, active, shown, held, returned, closed, lastResult, cb, cbTurn>>
      BY <2>18 DEF ReadOtherResult, Reads
    <3>2. active \in Turns
      BY <2>t, <3>1 DEF LockDiscipline, ActiveTurn
    <3>3. /\ Ev("proxy") \in Event /\ Ev("proxy").kind = "proxy"
          /\ \A r \in Requests : Ev("proxy") # Answer(r)
      BY EventTypes DEF Ev, Answer
    <3>4. \A n \in Needs(Ev("proxy")) : Logged(queue[active], shown[active], n)
      BY <3>2, <3>3, EventDue DEF Story
    <3>5. active' # "none" => QueueTells(active)' /\ EndTells(active)'
      BY <2>t, <3>1, <3>2, <3>3, <3>4, PartTold DEF Terminal, ProducerOn
    <3>6. /\ \A t \in Turns : OutcomeTells(t)'
          /\ \A n : Logged(queue[active], shown[active], n)
                      => Logged(queue'[active], shown'[active], n)
      BY <2>t, <3>1, <3>2, <3>3, <3>4, EventTold DEF Terminal
    <3>7. \A r \in Requests : AskTells(r)'
      BY <2>c, <3>1, <3>6, AsksKept
    <3> QED
      BY <3>5, <3>6, <3>7 DEF Story
  <2>19. ASSUME Complete \/ EndStream PROVE Story'
    <3>1. active \in Turns
      BY <2>19, <2>t DEF Complete, EndStream, LockDiscipline, ActiveTurn
    <3> QED
      BY <2>19, <2>c, <3>1, EndingTells DEF Complete, EndStream
  <2>20. ASSUME Discard \/ DiscardReturns PROVE Story'
    <3>1. active \in Turns
      BY <2>20, <2>t DEF Discard, DiscardReturns, LockDiscipline, ActiveTurn
    <3>2. \A r \in Requests : CallbackOpen(r)' => CallbackOpen(r)
      BY <2>20, <2>c, <2>h DEF Discard, DiscardReturns
    <3>3. /\ UNCHANGED <<pc, active, shown, held, returned, closed, lastResult, cbTurn>>
          /\ prod \in {"failing", "discard"}
          /\ \/ UNCHANGED queue /\ prod' \in {"discard", "ending"}
             \/ Put(active, Ev("failed")) /\ prod' = "ending"
      BY <2>20 DEF Discard, DiscardReturns, Failed
    <3>4. CASE Put(active, Ev("failed")) /\ prod' = "ending"
      BY <3>1, <3>2, <3>3, <3>4, EndingTells
    \* A cancelled producer ends without a terminal event.
    <3>5. CASE UNCHANGED queue
      <4>1. active # "none" => QueueTells(active)' /\ EndTells(active)'
        BY <3>3, <3>5 DEF Story, QueueTells, EndTells, Has, Terminal
      <4>2. \A t \in Turns : OutcomeTells(t)'
        BY <3>3 DEF Story, OutcomeTells
      <4>3. \A r \in Requests : AskTells(r)'
        BY <3>2, <3>3, <3>5, AsksKept
      <4> QED
        BY <3>3, <4>1, <4>2, <4>3 DEF Story
    <3> QED
      BY <3>3, <3>4, <3>5
  <2>21. ASSUME NEW r \in Requests, AskPermission(r) \/ ReportDecision(r) PROVE Story'
    BY <2>21, CallbackTells
  <2>22. ASSUME NEW r \in Requests, DenyOutsideStream(r) \/ AwaitDecision(r) \/ Resolve(r)
         PROVE  Story'
    <3>1. UNCHANGED <<told, pc, prod>>
      BY <2>22 DEF DenyOutsideStream, AwaitDecision, Resolve, told
    <3>2. \A x \in Requests : CallbackOpen(x)' => CallbackOpen(x)
      BY <2>22 DEF DenyOutsideStream, AwaitDecision, Resolve, CallbackOpen, TypeOK,
         CallbacksType
    <3> QED
      BY <3>1, <3>2, NothingTold DEF ProducerOn
  <2>23. ASSUME NEW k \in Tasks, CliTaskStart(k) \/ CliTaskEnd(k) \/ CliReports(k)
         PROVE  Story'
    BY <2>23, <2>c, NothingTold DEF CliTaskStart, CliTaskEnd, CliReports, CliNotify,
       CliNotifyStopped, Emit, told, ProducerOn
  <2>24. ASSUME CliAnswer \/ CliContinue \/ CliInject \/ CliDies PROVE Story'
    BY <2>24, <2>c, NothingTold DEF CliAnswer, CliContinue, CliInject, CliDies, Emit, told,
       ProducerOn
  <2>25. ASSUME UNCHANGED vars PROVE Story'
    BY <2>25, <2>c, NothingTold DEF vars, told, ProducerOn
  <2> QED
    BY <2>1, <2>2, <2>3, <2>4, <2>5, <2>6, <2>7, <2>8, <2>9, <2>10, <2>11,
       <2>12, <2>13, <2>14, <2>15, <2>16, <2>17, <2>18, <2>19, <2>20, <2>21,
       <2>22, <2>23, <2>24, <2>25
    DEF Next, Connecting, Produce, StreamStep, Callback
<1> QED BY <1>1, <1>2, TypeCorrect, Locking, PTL DEF Spec

-----------------------------------------------------------------------------
(* The refinement *)

\* The stage of every turn, as Promise maps it.
Stage ==
    [t \in Turns |->
       IF InStream(t) THEN "running"
       ELSE IF pc[t] = "done" THEN "done"
       ELSE IF pc[t] \in {"complete", "closeturn", "closeconn",
                          "disconnect", "forward"}
            THEN "over" ELSE "waiting"]

heard == <<Stage, shown, returned>>

LEMMA SameStage ==
    ASSUME \A t \in Turns : Stage'[t] = Stage[t]
    PROVE  Stage' = Stage
BY DEF Stage

LEMMA OneMoves ==
    ASSUME NEW t \in Turns, \A u \in Turns : u # t => pc'[u] = pc[u]
    PROVE  Stage' = [Stage EXCEPT ![t] = Stage'[t]]
<1>1. \A u \in Turns : u # t => Stage'[u] = Stage[u]
  BY DEF Stage, InStream
<1> QED BY <1>1 DEF Stage

\* A step of an actor between phases of the same stage.
LEMMA StageKept ==
    ASSUME pc \in [Actors -> Phases], NEW a \in Actors, NEW phase,
           pc' = [pc EXCEPT ![a] = phase],
           a \in Turns =>
             \/ {pc[a], phase} \subseteq StreamPhases
             \/ {pc[a], phase} \subseteq Waiting
             \/ {pc[a], phase} \subseteq {"complete", "closeturn", "closeconn",
                                          "disconnect", "forward"}
    PROVE  Stage' = Stage
<1>1. \A t \in Turns : t # a => Stage'[t] = Stage[t]
  BY DEF Stage, InStream, Actors
<1>2. a \in Turns => Stage'[a] = Stage[a]
  BY DEF Stage, InStream, StreamPhases, Waiting
<1> QED BY <1>1, <1>2, SameStage

\* What the handler hears of a running turn, one event at a time.
LEMMA ShowIsNext ==
    ASSUME NEW t \in Turns, NEW e \in Event, e.kind \notin Terminal \cup {"end"},
           Needs(e) \subseteq shown[t], Stage[t] = "running",
           shown' = [shown EXCEPT ![t] = @ \cup {e}], Stage' = Stage, returned' = returned
    PROVE  Promise!ShowNext(t)
<1>1. /\ e.kind \notin {"started"} => Ev("started") \in shown[t]
      /\ e.kind \notin {"started", "user"} => Ev("user") \in shown[t]
      /\ \A r \in Requests : e = Answer(r) => Ask(r) \in shown[t]
  BY DEF Needs, Ev, Ask, Answer
<1>2. \/ e \in {Ev("started"), Ev("user"), Ev("proxy")}
      \/ \E r \in Requests : e \in {Ask(r), Answer(r)}
  BY DEF Event, Terminal, Ev, Ask, Answer
<1>3. Promise!Show(t, e)
  BY DEF Promise!Show, Stage
<1>4. /\ \A kind : Promise!Ev(kind) = Ev(kind)
      /\ \A r \in Requests : Promise!Ask(r) = Ask(r) /\ Promise!Answer(r) = Answer(r)
  BY DEF Promise!Ev, Promise!Ask, Promise!Answer, Ev, Ask, Answer
<1>5. /\ e = Ev("user") => Ev("started") \in shown[t]
      /\ e = Ev("proxy") => Ev("user") \in shown[t]
      /\ \A r \in Requests : e = Ask(r) => Ev("user") \in shown[t]
  BY <1>1 DEF Ev, Ask
<1>6. CASE e \in {Ev("started"), Ev("user"), Ev("proxy")}
  BY <1>3, <1>4, <1>5, <1>6 DEF Promise!ShowNext
<1>7. ASSUME NEW r \in Requests, e \in {Ask(r), Answer(r)} PROVE Promise!ShowNext(t)
  BY <1>1, <1>3, <1>4, <1>5, <1>7 DEF Promise!ShowNext
<1> QED BY <1>2, <1>6, <1>7

LEMMA Stutters ==
    ASSUME UNCHANGED heard
    PROVE  UNCHANGED Promise!vars
BY DEF heard, Stage, Promise!vars

\* A turn that moves on, in the words of TurnProtocol.
LEMMA Moves ==
    ASSUME NEW t \in Turns, NEW from, NEW to, Stage[t] = from,
           Stage' = [Stage EXCEPT ![t] = to]
    PROVE  Promise!Move(t, from, to)
BY DEF Promise!Move, Stage

\* The client implements the turn protocol: every step of any of its tasks is
\* a step of the protocol or changes nothing a caller of send can tell.
THEOREM PromiseIsKept == Spec => KeepsPromise
<1> USE ClientAssumption DEF locks, control, inner, conn, turnState, locals, producer,
    delivered, streams, callbacks, cli
<1>1. Init => Promise!Init
  BY DEF Init, Promise!Init, InStream, StreamPhases, Actors
<1>2. TypeOK /\ LockDiscipline /\ Story /\ [Next]_vars => [Promise!Next]_(Promise!vars)
  <2> DEFINE Kept == [Promise!Next]_(Promise!vars)
  <2> SUFFICES ASSUME TypeOK, LockDiscipline, Story, [Next]_vars PROVE Kept
    OBVIOUS
  <2>t. /\ pc \in [Actors -> Phases] /\ StreamsType /\ active \in Turns \cup {"none"}
        /\ Turns \subseteq Actors /\ Closers \subseteq Actors
    BY DEF TypeOK, ControlType, TurnType, Actors, Closers
  <2>s. UNCHANGED heard => Kept
    BY Stutters
  <2>p. pc' = pc => Stage' = Stage
    BY DEF Stage, InStream
  <2> HIDE DEF Kept
  <2>1. ASSUME NEW t \in Turns, \/ Send(t) \/ ConsumeEnd(t) \/ CloseQueue(t) \/ OnComplete(t)
                                \/ Abandon(t)
        PROVE  Kept
    <3>1. UNCHANGED <<shown, returned>>
      BY <2>1 DEF Send, ConsumeEnd, Dequeue, CloseQueue, OnComplete, Abandon
    <3>2. PICK phase :
            /\ pc' = [pc EXCEPT ![t] = phase]
            /\ \/ pc[t] \in StreamPhases /\ phase \in {"ended", "clear", "quit", "drain"}
               \/ pc[t] = "idle" /\ phase = "turnlock"
               \/ pc[t] = "complete" /\ phase = "forward"
      BY <2>1 DEF Send, ConsumeEnd, Dequeue, CloseQueue, OnComplete, Abandon, GoTo,
         StreamPhases
    <3>3. Stage' = Stage
      BY <2>t, <3>2, StageKept DEF StreamPhases, Waiting
    <3> QED
      BY <2>s, <3>1, <3>3 DEF heard
  <2>2. ASSUME NEW t \in Turns, Consume(t) PROVE Kept
    <3> DEFINE e == Head(queue[t])
    <3>1. /\ Stage' = Stage /\ returned' = returned
      BY <2>2, <2>p DEF Consume, Dequeue
    <3>2. CASE UNCHANGED shown
      BY <2>s, <3>1, <3>2 DEF heard
    <3>3. CASE ~HeldBack(e) /\ shown' = [shown EXCEPT ![t] = @ \cup {e}]
      <4>1. /\ pc[t] = "stream" /\ active = t /\ queue[t] \in Seq(Event)
            /\ queue[t] # <<>> /\ e \in Event /\ QueueTells(t)
        BY <2>2, <2>t DEF Consume, Dequeue, LockDiscipline, ActiveTurn, InStream,
           StreamPhases, StreamsType, Story
      <4>2. e.kind \notin Terminal \cup {"end"} /\ Stage[t] = "running"
        BY <2>2, <3>3, <4>1 DEF Consume, HeldBack, Stage, InStream, StreamPhases
      <4>3. Needs(e) \subseteq shown[t]
        <5>1. InOrder(queue[t], shown[t]) => Needs(e) \subseteq shown[t]
          <6>1. 1 \in DOMAIN queue[t] /\ e = queue[t][1]
            BY <4>1
          <6>2. \A j \in DOMAIN queue[t] : ~(j < 1)
            BY <4>1
          <6> QED
            BY <6>1, <6>2 DEF InOrder
        <5> QED
          BY <4>1, <5>1 DEF QueueTells
      <4>4. Promise!ShowNext(t)
        BY <3>1, <3>3, <4>1, <4>2, <4>3, ShowIsNext
      <4> QED
        BY <4>4 DEF Kept, Promise!Next
    <3> QED
      BY <2>2, <3>2, <3>3 DEF Consume
  <2>3. ASSUME NEW t \in Turns, LeaveStream(t) PROVE Kept
    <3>1. /\ active = t /\ returned[t] = "none" /\ lastResult \in {t, "none"}
          /\ Stage[t] = "running"
      BY <2>3, <2>t DEF LeaveStream, LockDiscipline, ActiveTurn, InStream, StreamPhases,
         Story, EndTells, Stage
    <3>2. Stage' = [Stage EXCEPT ![t] = "over"]
      <4>1. pc'[t] = "complete" /\ \A u \in Turns : u # t => pc'[u] = pc[u]
        BY <2>3, <2>t DEF LeaveStream, GoTo
      <4>2. Stage'[t] = "over"
        BY <4>1 DEF Stage, InStream, StreamPhases
      <4> QED
        BY <4>1, <4>2, OneMoves
    <3>3. returned' \in {returned, [returned EXCEPT ![t] = t]} /\ UNCHANGED shown
      BY <2>3, <2>t, <3>1 DEF LeaveStream, StreamsType
    <3>4. Promise!Leave(t)
      BY <3>1, <3>2, <3>3, Moves DEF Promise!Leave
    <3> QED
      BY <3>4 DEF Kept, Promise!Next
  \* The terminal event is the one the returned result, or its lack, calls for.
  <2>4. ASSUME NEW t \in Turns, ForwardTerminal(t) PROVE Kept
    <3>1. OutcomeTells(t) /\ Stage[t] = "over" /\ held[t] \in Terminal \cup {"none"}
          /\ UNCHANGED returned
      BY <2>4, <2>t DEF ForwardTerminal, Story, Stage, InStream, StreamPhases, StreamsType
    <3>2. Stage' = [Stage EXCEPT ![t] = "done"]
      <4>1. pc'[t] = "done" /\ \A u \in Turns : u # t => pc'[u] = pc[u]
        BY <2>4, <2>t DEF ForwardTerminal, GoTo
      <4>2. Stage'[t] = "done"
        BY <4>1 DEF Stage, InStream, StreamPhases
      <4> QED
        BY <4>1, <4>2, OneMoves
    <3>3. \A kind : Promise!Ev(kind) = Ev(kind)
      BY DEF Promise!Ev, Ev
    <3>4. \/ /\ returned[t] = t
             /\ shown' = [shown EXCEPT ![t] = @ \cup {Ev("completed")}]
          \/ /\ returned[t] = "none"
             /\ \/ UNCHANGED shown
                \/ /\ Ev("user") \in shown[t]
                   /\ \E kind \in {"completed", "failed"} :
                        shown' = [shown EXCEPT ![t] = @ \cup {Ev(kind)}]
      BY <2>4, <3>1 DEF ForwardTerminal, OutcomeTells, Terminal
    <3>5. Promise!Finish(t)
      BY <3>1, <3>2, <3>3, <3>4, Moves DEF Promise!Finish
    <3> QED
      BY <3>5 DEF Kept, Promise!Next
  <2>5. ASSUME NEW a \in Actors,
               TakeTurnLock(a) \/ Open(a) \/ OpenSucceeds(a)
        PROVE  Kept
    <3>1. UNCHANGED <<shown, returned>>
      BY <2>5 DEF TakeTurnLock, Open, OpenSucceeds
    <3>2. PICK phase \in {"connlock", "open", "probe"} :
             pc' = [pc EXCEPT ![a] = phase] /\ pc[a] \in Waiting
      BY <2>5 DEF TakeTurnLock, Open, OpenSucceeds, GoTo, Waiting
    <3>3. Stage' = Stage
      BY <2>t, <3>2, StageKept DEF Waiting
    <3> QED
      BY <2>s, <3>1, <3>3 DEF heard
  \* A turn starts when no other runs, or its connection is refused.
  <2>6. ASSUME NEW a \in Actors, AlreadyConnected(a) \/ ProbeSucceeds(a) PROVE Kept
    <3>1. Connected(a) /\ pc[a] \in {"connlock", "probe"}
      BY <2>6 DEF AlreadyConnected, ProbeSucceeds
    <3>2. CASE a \in Turns /\ GoTo(a, "stream") /\ BeginTurn(a)
      <4>1. a # "control" /\ turnLock = a
        BY <3>1, <3>2 DEF LockDiscipline, LockOwners, HoldsTurnLock, Connects
      <4>2. \A u \in Turns : ~InStream(u)
        BY <2>t, <3>1, <3>2, <4>1 DEF LockDiscipline, LockOwners, HoldsTurnLock,
           InStream, StreamPhases
      <4>3. \A u \in Turns : Stage[u] # "running"
        BY <4>2 DEF Stage
      <4>4. Stage[a] = "waiting"
        BY <3>1, <3>2 DEF Stage, InStream, StreamPhases
      <4>5. Stage' = [Stage EXCEPT ![a] = "running"]
        <5>1. pc'[a] = "stream" /\ \A u \in Turns : u # a => pc'[u] = pc[u]
          BY <2>t, <3>2 DEF GoTo
        <5>2. Stage'[a] = "running"
          BY <3>2, <5>1 DEF Stage, InStream, StreamPhases
        <5> QED
          BY <3>2, <5>1, <5>2, OneMoves
      <4>6. Promise!Start(a)
        <5>1. Promise!Move(a, "waiting", "running") /\ UNCHANGED <<shown, returned>>
          BY <3>2, <4>4, <4>5, Moves DEF BeginTurn
        <5> QED
          BY <4>3, <5>1 DEF Promise!Start, Stage
      <4> QED
        BY <3>2, <4>6 DEF Kept, Promise!Next
    <3>3. CASE /\ GoTo(a, "idle") \/ GoTo(a, "call")
               /\ a \notin Turns /\ UNCHANGED streams
      <4>1. Stage' = Stage
        BY <2>t, <3>3, StageKept DEF GoTo
      <4> QED
        BY <2>s, <3>3, <4>1 DEF heard
    <3> QED
      BY <3>1, <3>2, <3>3 DEF Connected
  <2>7. ASSUME NEW a \in Actors, ConnectRaises(a) PROVE Kept
    <3>1. UNCHANGED <<shown, returned>> /\ pc[a] \in {"open", "probe"}
          /\ pc' = [pc EXCEPT ![a] = IF a \in Turns THEN "complete" ELSE "idle"]
      BY <2>7 DEF ConnectRaises, GoTo
    <3>2. CASE a \in Turns
      <4>1. pc'[a] = "complete" /\ \A u \in Turns : u # a => pc'[u] = pc[u]
        BY <2>t, <3>1, <3>2
      <4>2. Stage[a] = "waiting" /\ Stage'[a] = "over"
        BY <3>1, <3>2, <4>1 DEF Stage, InStream, StreamPhases
      <4>3. Stage' = [Stage EXCEPT ![a] = "over"]
        BY <3>2, <4>1, <4>2, OneMoves
      <4>4. Promise!Refuse(a)
        BY <3>1, <3>2, <4>2, <4>3, Moves DEF Promise!Refuse
      <4> QED
        BY <3>2, <4>4 DEF Kept, Promise!Next
    <3>3. CASE a \notin Turns
      <4>1. Stage' = Stage
        BY <2>t, <3>1, <3>3, StageKept
      <4> QED
        BY <2>s, <3>1, <4>1 DEF heard
    <3> QED
      BY <3>2, <3>3
  <2>8. ASSUME Rewind \/ RewindReturns \/ ControlCall PROVE Kept
    <3>1. UNCHANGED <<shown, returned>> /\ \A t \in Turns : pc'[t] = pc[t]
      BY <2>8, <2>t DEF Rewind, RewindReturns, ControlCall, GoTo
    <3>2. Stage' = Stage
      BY <3>1, SameStage DEF Stage, InStream
    <3> QED
      BY <2>s, <3>1, <3>2 DEF heard
  <2>9. ASSUME NEW a \in Closers, Close(a) \/ ClosingStep(a) PROVE Kept
    <3>1. UNCHANGED <<shown, returned>>
      BY <2>9 DEF Close, ClosingStep, CloseTakesTurnLock, CloseTakesConnLock, Disconnect
    <3>2. PICK phase :
            /\ pc' = [pc EXCEPT ![a] = phase]
            /\ phase \in {"closeturn", "closeconn", "disconnect", AfterClose(a)}
            /\ a \in Turns => pc[a] \in {"complete", "closeturn", "closeconn", "disconnect"}
      BY <2>9 DEF Close, ClosingStep, CloseTakesTurnLock, CloseTakesConnLock, Disconnect,
         GoTo
    <3>3. Stage' = Stage
      BY <2>t, <3>2, StageKept DEF AfterClose
    <3> QED
      BY <2>s, <3>1, <3>3 DEF heard
  <2>10. ASSUME NEW t \in Turns, DrainTimesOut(t) PROVE Kept
    BY <2>10, <2>s, <2>p DEF DrainTimesOut, heard
  <2>11. ASSUME RequestStop \/ Produce \/ ProducerRaises PROVE Kept
    <3>1. UNCHANGED <<pc, shown, returned>>
      BY <2>11 DEF RequestStop, Produce, SendQuery, QueryReturns, ReadTaskAlive,
         ReadTaskEnded, ReadNotification, ReadAnswer, ReadOtherResult, Reads,
         ResponseEnds, Complete, Discard, DiscardReturns, EndStream, ProducerRaises
    <3> QED
      BY <2>s, <2>p, <3>1 DEF heard
  <2>12. ASSUME NEW r \in Requests,
                DenyOutsideStream(r) \/ AskPermission(r) \/ Callback(r) \/ Resolve(r)
         PROVE  Kept
    <3>1. UNCHANGED <<pc, shown, returned>>
      BY <2>12 DEF DenyOutsideStream, AskPermission, Callback, AwaitDecision,
         ReportDecision, Resolve
    <3> QED
      BY <2>s, <2>p, <3>1 DEF heard
  <2>13. ASSUME NEW k \in Tasks, CliTaskStart(k) \/ CliTaskEnd(k) \/ CliReports(k)
         PROVE  Kept
    <3>1. UNCHANGED <<pc, shown, returned>>
      BY <2>13 DEF CliTaskStart, CliTaskEnd, CliReports, CliNotify, CliNotifyStopped, Emit
    <3> QED
      BY <2>s, <2>p, <3>1 DEF heard
  <2>14. ASSUME CliAnswer \/ CliContinue \/ CliInject \/ CliDies \/ UNCHANGED vars
         PROVE  Kept
    <3>1. UNCHANGED <<pc, shown, returned>>
      BY <2>14 DEF CliAnswer, CliContinue, CliInject, CliDies, Emit, vars
    <3> QED
      BY <2>s, <2>p, <3>1 DEF heard
  <2> QED
    BY <2>1, <2>2, <2>3, <2>4, <2>5, <2>6, <2>7, <2>8, <2>9, <2>10, <2>11,
       <2>12, <2>13, <2>14
    DEF Next, Connecting, StreamStep
<1> QED
  BY <1>1, <1>2, TypeCorrect, Locking, StoryIsTold, PTL
  DEF Spec, KeepsPromise, Promise!Spec

=============================================================================
