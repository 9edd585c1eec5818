----------------------------- MODULE MCOsalServices -----------------------------
(* The services of the OSAL that share no state, one at a time: the heap with *)
(* the buffers on it, the message queues, the callback timers of a chip, and  *)
(* the software timers.                                                       *)
EXTENDS BufferViews, MsgQueue, CbTimers, OsalTimers

Moves == {-3, 2}

VARIABLE service

NoTimers == now = 0 /\ softTimers = {} /\ events = [t \in Tasks |-> {}]
NoQueue == head = [q \in Queues |-> Null] /\ next = [m \in Messages |-> Null]

ServicesInit ==
  /\ service \in {"heap", "queues", "callbacks", "timers"}
  /\ BufInit
  /\ IF service = "queues" THEN QueueInit ELSE NoQueue
  /\ CbInit
  /\ IF service = "timers" THEN TimerInit ELSE NoTimers

Heap == service = "heap" /\ BufNext /\ UNCHANGED <<queueVars, cbVars, timerVars>>
MessageLists == service = "queues" /\ QueueNext /\ UNCHANGED <<bufVars, cbVars, timerVars>>
Callbacks == service = "callbacks" /\ CbNext /\ UNCHANGED <<bufVars, queueVars, timerVars>>
SoftTimers == service = "timers" /\ TimerNext /\ UNCHANGED <<bufVars, queueVars, cbVars>>

ServicesNext == UNCHANGED service /\ (Heap \/ MessageLists \/ Callbacks \/ SoftTimers)

ServicesSpec ==
  /\ ServicesInit
  /\ [][ServicesNext]_<<service, bufVars, queueVars, cbVars, timerVars>>
  /\ \A c \in Chips :
       WF_cbVars(service = "callbacks" /\ DispatchDue(c) /\ UNCHANGED <<bufVars, queueVars, timerVars>>)
=============================================================================
