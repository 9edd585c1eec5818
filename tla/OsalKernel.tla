------------------------------ MODULE OsalKernel ------------------------------
(***************************************************************************)
(* The cooperative OSAL scheduler and its message queue, as the host       *)
(* answers the ROM entry points in soc/phy6252/osal.rs.  The kernel keeps  *)
(* one 16-bit event word per task (in guest RAM), the queue of sent        *)
(* messages and the task whose handler runs; everything between two ROM    *)
(* calls is guest code.                                                    *)
(*                                                                         *)
(* Guest code is cooperative and may call the kernel from task             *)
(* initialisation, a handler, an interrupt handler or a callback.  What    *)
(* its operations assume of it, the contract of the OSAL API, is:          *)
(*   - it sends and deallocates only messages it owns (variable "held");   *)
(*   - a task receives only its own messages, from its handler;            *)
(*   - a handler returns the flags it has not dealt with, and deals with   *)
(*     SYS_EVENT_MSG by calling osal_msg_receive at least once;            *)
(*   - SYS_EVENT_MSG is raised and cleared by the kernel alone.            *)
(***************************************************************************)
EXTENDS Integers, Sequences, SequencesExt, Selection

CONSTANTS
  TaskCount,   \* the byte at JT_COUNT_PTR: how many tasks the firmware has
  Flags,       \* the events of the application, SYS_EVENT_MSG excluded
  SysEventMsg, \* SYS_EVENT_MSG, 0x8000
  Payloads     \* the addresses osal_msg_allocate can return

ASSUME TaskCountAssumption == TaskCount \in 1..64
ASSUME FlagsAssumption == SysEventMsg \notin Flags

Tasks == 0 .. TaskCount - 1
InvalidTask == 255
Events == Flags \cup {SysEventMsg}

VARIABLES
  started,  \* HostOsal.started
  running,  \* HostOsal.running, InvalidTask for None
  events,   \* events[t]: the event word of task t
  messages, \* HostOsal.messages, oldest first
  allocs,   \* HostOsal.allocs, the blocks that hold messages
  dest,     \* dest[m]: the dest_id byte in the header of m
  inHand,   \* R1 of the running handler: flags it was given and still owes
  held      \* the messages guest code owns (has allocated or received)

vars == <<started, running, events, messages, allocs, dest, inHand, held>>

TypeOK ==
  /\ started \in BOOLEAN
  /\ running \in Tasks \cup {InvalidTask}
  /\ events \in [Tasks -> SUBSET Events]
  /\ messages \in Seq(Payloads)
  /\ allocs \subseteq Payloads
  /\ dest \in [Payloads -> Tasks \cup {InvalidTask}]
  /\ inHand \subseteq Events
  /\ held \subseteq Payloads

Init ==
  /\ started = FALSE
  /\ running = InvalidTask
  /\ events = [t \in Tasks |-> {}]
  /\ messages = <<>>
  /\ allocs = {}
  /\ dest = [m \in Payloads |-> InvalidTask]
  /\ inHand = {}
  /\ held = {}

-----------------------------------------------------------------------------
(* The scheduler. *)

Post(word, t, raised) == [word EXCEPT ![t] = @ \cup raised]

\* Runs the handler of the lowest-numbered task with a raised event and hands
\* it the whole word, or parks the CPU in the idle loop.
Dispatch(word) ==
  \/ /\ \A t \in Tasks : word[t] = {}
     /\ events' = word
     /\ running' = InvalidTask
     /\ inHand' = {}
  \/ \E t \in Tasks :
       /\ word[t] # {}
       /\ \A u \in Tasks : u < t => word[u] = {}
       /\ events' = [word EXCEPT ![t] = {}]
       /\ running' = t
       /\ inHand' = word[t]

\* osal_start_system, called once the tasks are initialised.
Start ==
  /\ ~started
  /\ started' = TRUE
  /\ Dispatch(events)
  /\ UNCHANGED <<messages, allocs, dest, held>>

\* The CPU fetches the idle loop: every such fetch looks for work again.
IdleDispatch ==
  /\ started
  /\ running = InvalidTask
  /\ \E t \in Tasks : events[t] # {}
  /\ Dispatch(events)
  /\ UNCHANGED <<started, messages, allocs, dest, held>>

\* Faulty variant: what was raised for the task while it ran is overwritten.
FinishOverwriting(left) ==
  /\ started
  /\ running # InvalidTask
  /\ Dispatch([events EXCEPT ![running] = left])
  /\ UNCHANGED <<started, messages, allocs, dest, held>>

\* The handler returns "left" into the scheduler, which raises it again for
\* the task that ran and dispatches the next one.
Finish(left) ==
  /\ started
  /\ running # InvalidTask
  /\ Dispatch(Post(events, running, left))
  /\ UNCHANGED <<started, messages, allocs, dest, held>>

\* The flags a handler may return: any it was given, SYS_EVENT_MSG included
\* unless it has called osal_msg_receive.
Leftovers == {left \in SUBSET inHand : SysEventMsg \in inHand => SysEventMsg \in left}

\* osal_set_event; also what the expiry of a timer does.
SetEvent(t, f) ==
  /\ events' = Post(events, t, {f})
  /\ UNCHANGED <<started, running, messages, allocs, dest, inHand, held>>

\* osal_clear_event reaches the event word only, not the flags in hand.
ClearEvent(t, f) ==
  /\ events' = [events EXCEPT ![t] = @ \ {f}]
  /\ UNCHANGED <<started, running, messages, allocs, dest, inHand, held>>

-----------------------------------------------------------------------------
(* Messages. *)

MsgAlloc(m) ==
  /\ m \notin allocs
  /\ allocs' = allocs \cup {m}
  /\ dest' = [dest EXCEPT ![m] = InvalidTask]
  /\ held' = held \cup {m}
  /\ UNCHANGED <<started, running, events, messages, inHand>>

\* Faulty variant: the message is queued without SYS_EVENT_MSG.
MsgSendSilent(t, m) ==
  /\ m \in held
  /\ m \in allocs
  /\ dest' = [dest EXCEPT ![m] = t]
  /\ messages' = Append(messages, m)
  /\ held' = held \ {m}
  /\ UNCHANGED <<started, running, events, allocs, inHand>>

\* osal_msg_send stamps the addressee, queues the message and raises its flag.
MsgSend(t, m) ==
  /\ m \in held
  /\ m \in allocs
  /\ dest' = [dest EXCEPT ![m] = t]
  /\ messages' = Append(messages, m)
  /\ events' = Post(events, t, {SysEventMsg})
  /\ held' = held \ {m}
  /\ UNCHANGED <<started, running, allocs, inHand>>

Addressed(queue, t) == {i \in DOMAIN queue : dest[queue[i]] = t}

\* Faulty variants of Take: SYS_EVENT_MSG is not raised again for what
\* remains; the entry stays in the queue.
TakeNoReannounce(t, i) ==
  /\ messages' = RemoveAt(messages, i)
  /\ held' = held \cup {messages[i]}
  /\ UNCHANGED events

TakeNoRemove(t, i) ==
  /\ held' = held \cup {messages[i]}
  /\ events' = Post(events, t, {SysEventMsg})
  /\ UNCHANGED messages

\* Entry i leaves the queue; when another message waits for t behind it,
\* SYS_EVENT_MSG is raised again.
Take(t, i) ==
  /\ messages' = RemoveAt(messages, i)
  /\ held' = held \cup {messages[i]}
  /\ events' = IF Addressed(messages', t) = {}
                 THEN events
                 ELSE Post(events, t, {SysEventMsg})

\* osal_msg_receive returns the oldest message addressed to the task, and
\* raises SYS_EVENT_MSG again when another one waits behind it.
MsgReceive(t) ==
  /\ running = t
  /\ inHand' = inHand \ {SysEventMsg}
  /\ \/ /\ Addressed(messages, t) = {}
        /\ UNCHANGED <<messages, held, events>>
     \/ \E i \in Addressed(messages, t) :
          /\ \A j \in Addressed(messages, t) : i <= j
          /\ Take(t, i)
  /\ UNCHANGED <<started, running, allocs, dest>>

MsgDealloc(m) ==
  /\ m \in held
  /\ m \in allocs
  /\ allocs' = allocs \ {m}
  /\ held' = held \ {m}
  /\ UNCHANGED <<started, running, events, messages, dest, inHand>>

-----------------------------------------------------------------------------
Next ==
  \/ Start
  \/ IdleDispatch
  \/ \E left \in Leftovers : Finish(left)
  \/ \E t \in Tasks, f \in Flags : SetEvent(t, f) \/ ClearEvent(t, f)
  \/ \E t \in Tasks : MsgReceive(t)
  \/ \E t \in Tasks, m \in Payloads : MsgSend(t, m)
  \/ \E m \in Payloads : MsgAlloc(m) \/ MsgDealloc(m)

Spec == Init /\ [][Next]_vars

\* The CPU keeps fetching, so the scheduler is never stopped for good; a
\* handler returns; and a handler that is given SYS_EVENT_MSG again and again
\* does not for ever return it unread.
Fairness ==
  /\ WF_vars(Start)
  /\ WF_vars(IdleDispatch)
  /\ WF_vars(\E left \in Leftovers : Finish(left))
  /\ \A t \in Tasks : SF_vars(SysEventMsg \in inHand /\ MsgReceive(t))

FairSpec == Spec /\ Fairness

-----------------------------------------------------------------------------
(* Properties. *)

\* Everything raised for t that t has not dealt with.
Pending(t) == events[t] \cup (IF running = t THEN inHand ELSE {})

\* A queued message is never stranded: its addressee has SYS_EVENT_MSG in its
\* event word or in the hand of its running handler, so it will be asked to
\* receive (osal.rs clears the whole word in dispatch and must raise the flag
\* again when msg_receive leaves messages behind).
NoStrandedMessage ==
  \A i \in DOMAIN messages : SysEventMsg \in Pending(dest[messages[i]])

\* Messages are conserved: every allocated block is owned by guest code or
\* queued, never both and never twice, and a queued one carries the task it
\* was sent to.  So a received message is always still allocated.
MessagesConserved ==
  /\ allocs = held \cup Range(messages)
  /\ held \cap Range(messages) = {}
  /\ IsInjective(messages)
  /\ \A m \in Range(messages) : dest[m] \in Tasks

\* The queued messages addressed to t, oldest first.
Mail(t) == Selected(messages, {m \in Payloads : dest[m] = t})

\* The kernel implements the mailboxes: a raised flag is shown to its task or
\* cleared, also when it is raised while the task runs, and each task takes
\* its messages in the order they were sent, whatever the tasks that share
\* the queue do.
Mailboxes ==
  INSTANCE TaskMailboxes WITH
    Nobody <- InvalidTask,
    waiting <- [t \in Tasks |-> events[t] \ {SysEventMsg}],
    serving <- running,
    shown <- inHand \ {SysEventMsg},
    box <- [t \in Tasks |-> Mail(t)]

ImplementsMailboxes == Mailboxes!Spec

\* Dispatch is by priority, so only this is promised: a message leaves the
\* queue once the tasks of higher priority than its addressee fall silent.
MessagesDelivered ==
  \A t \in Tasks, m \in Payloads :
    (<>[](\A u \in Tasks : u < t => events[u] = {})) =>
      ((m \in Range(messages) /\ dest[m] = t) ~> m \notin Range(messages))
=============================================================================
