-------------------------- MODULE OsalKernel_proofs --------------------------
(***************************************************************************)
(* Theorems about OsalKernel, for every number of tasks and every set of   *)
(* flags and messages.                                                     *)
(***************************************************************************)
EXTENDS OsalKernel, ProofLemmas, SequenceTheorems

-----------------------------------------------------------------------------
(* Lemmas about the message queue as a sequence. *)

\* Taking entry i out of a queue keeps the other entries, in their order.
LEMMA RemoveAtLemma ==
  ASSUME NEW S, NEW q \in Seq(S), NEW i \in 1..Len(q)
  PROVE  /\ RemoveAt(q, i) \in Seq(S)
         /\ Len(RemoveAt(q, i)) = Len(q) - 1
         /\ \A j \in 1..(Len(q) - 1) :
              RemoveAt(q, i)[j] = IF j < i THEN q[j] ELSE q[j + 1]
<1> DEFINE r == RemoveAt(q, i)
<1>1. r = SubSeq(q, 1, i - 1) \o SubSeq(q, i + 1, Len(q))
  BY DEF RemoveAt
<1> HIDE DEF r
<1>2. /\ r \in Seq(S) /\ Len(r) = Len(q) - 1
      /\ \A j \in 1..(Len(q) - 1) : r[j] = IF j < i THEN q[j] ELSE q[j + 1]
  BY ZenonT(30), <1>1, EntryLeaves
<1> QED BY <1>2 DEF r

\* An entry of a queue without repetitions, once taken out, is gone; every
\* other message stays, and there are still no repetitions.
LEMMA RemoveAtRange ==
  ASSUME NEW S, NEW q \in Seq(S), NEW i \in 1..Len(q), IsInjective(q)
  PROVE  /\ IsInjective(RemoveAt(q, i))
         /\ Range(RemoveAt(q, i)) = Range(q) \ {q[i]}
<1> DEFINE r == RemoveAt(q, i)
<1>1. /\ r \in Seq(S)
      /\ Len(r) = Len(q) - 1
      /\ \A j \in 1..(Len(q) - 1) : r[j] = IF j < i THEN q[j] ELSE q[j + 1]
  BY RemoveAtLemma
<1>2. DOMAIN r = 1..(Len(q) - 1) /\ DOMAIN q = 1..Len(q) /\ Len(q) \in Nat
  BY <1>1
<1> HIDE DEF r
<1> DEFINE from(j) == IF j < i THEN j ELSE j + 1
<1>a. \A j \in DOMAIN r : from(j) \in DOMAIN q \ {i} /\ r[j] = q[from(j)]
  BY <1>1, <1>2
<1>b. \A j, k \in DOMAIN r : from(j) = from(k) => j = k
  BY <1>2
<1>3. IsInjective(r)
  <2> SUFFICES ASSUME NEW j \in DOMAIN r, NEW k \in DOMAIN r, r[j] = r[k]
               PROVE  j = k
    BY DEF IsInjective
  <2> HIDE DEF from
  <2> QED BY <1>a, <1>b DEF IsInjective
<1>4. Range(r) \subseteq Range(q) \ {q[i]}
  <2> HIDE DEF from
  <2> QED BY <1>a, <1>2 DEF Range, IsInjective
<1>5. ASSUME NEW k \in 1..Len(q), k # i
      PROVE  q[k] \in Range(r)
  <2>1. CASE k < i
    <3>1. k \in 1..(Len(q) - 1) /\ r[k] = q[k]
      BY <2>1, <1>1, <1>2
    <3> QED BY <3>1, <1>2 DEF Range
  <2>2. CASE k > i
    <3>1. (k - 1) \in 1..(Len(q) - 1) /\ r[k - 1] = q[k]
      BY <2>2, <1>1, <1>2
    <3> QED BY <3>1, <1>2 DEF Range
  <2> QED BY <1>5, <2>1, <2>2
<1>6. Range(q) \ {q[i]} \subseteq Range(r)
  BY <1>5, <1>2 DEF Range
<1> QED BY <1>3, <1>4, <1>6 DEF r

\* Sending a message that is not queued yet.
LEMMA AppendRange ==
  ASSUME NEW S, NEW q \in Seq(S), NEW m \in S
  PROVE  /\ Append(q, m) \in Seq(S)
         /\ Range(Append(q, m)) = Range(q) \cup {m}
         /\ IsInjective(q) /\ m \notin Range(q) => IsInjective(Append(q, m))
<1>1. /\ Append(q, m) \in Seq(S)
      /\ Len(Append(q, m)) = Len(q) + 1
      /\ \A j \in 1..Len(q) : Append(q, m)[j] = q[j]
      /\ Append(q, m)[Len(q) + 1] = m
  BY AppendProperties
<1>2. /\ DOMAIN q = 1..Len(q)
      /\ DOMAIN Append(q, m) = 1..(Len(q) + 1)
      /\ Len(q) \in Nat
  BY <1>1
<1> DEFINE r == Append(q, m)
<1> HIDE DEF r
<1>3. Range(r) = Range(q) \cup {m}
  BY <1>1, <1>2 DEF Range, r
<1>4. ASSUME IsInjective(q), m \notin Range(q)
      PROVE  IsInjective(r)
  BY <1>1, <1>2, <1>4 DEF Range, IsInjective, r
<1> QED BY <1>1, <1>3, <1>4 DEF r

-----------------------------------------------------------------------------
(***************************************************************************)
(* The inductive invariant.  NoStrandedMessage speaks of the addressee of  *)
(* a queued message, so it needs MessagesConserved (the addressee is a     *)
(* task); Start dispatches from the event words alone, so it also needs    *)
(* that no handler runs before the scheduler is started.                   *)
(***************************************************************************)
NotRunningBeforeStart == ~started => running = InvalidTask

IInv ==
  /\ TypeOK
  /\ NotRunningBeforeStart
  /\ MessagesConserved
  /\ NoStrandedMessage

\* NoStrandedMessage, over the messages instead of their places in the queue.
LEMMA StrandedByMessage ==
  ASSUME TypeOK
  PROVE  NoStrandedMessage <=> \A m \in Range(messages) : SysEventMsg \in Pending(dest[m])
BY DEF TypeOK, NoStrandedMessage, Range

LEMMA InvalidTaskIsNoTask == InvalidTask \notin Tasks
BY TaskCountAssumption DEF InvalidTask, Tasks

LEMMA PostType ==
  ASSUME NEW word \in [Tasks -> SUBSET Events], NEW t \in Tasks, NEW raised \in SUBSET Events
  PROVE  /\ Post(word, t, raised) \in [Tasks -> SUBSET Events]
         /\ \A u \in Tasks : word[u] \subseteq Post(word, t, raised)[u]
         /\ Post(word, t, raised)[t] = word[t] \cup raised
BY DEF Post

\* Dispatching from the words "word" keeps every flag in them pending: it
\* stays in the event word or passes into the hand of the handler.
LEMMA DispatchKeepsFlags ==
  ASSUME NEW word \in [Tasks -> SUBSET Events], Dispatch(word)
  PROVE  /\ events' \in [Tasks -> SUBSET Events]
         /\ running' \in Tasks \cup {InvalidTask}
         /\ inHand' \in SUBSET Events
         /\ \A t \in Tasks : word[t] \subseteq Pending(t)'
<1>1. CASE /\ \A t \in Tasks : word[t] = {}
           /\ events' = word
           /\ running' = InvalidTask
           /\ inHand' = {}
  BY <1>1 DEF Pending
<1>2. ASSUME NEW t \in Tasks,
             events' = [word EXCEPT ![t] = {}],
             running' = t,
             inHand' = word[t]
      PROVE  /\ events' \in [Tasks -> SUBSET Events]
             /\ running' \in Tasks \cup {InvalidTask}
             /\ inHand' \in SUBSET Events
             /\ \A u \in Tasks : word[u] \subseteq Pending(u)'
  BY <1>2 DEF Pending
<1> QED BY <1>1, <1>2 DEF Dispatch

-----------------------------------------------------------------------------
LEMMA InitEstablishes == Init => IInv
<1> SUFFICES ASSUME Init PROVE IInv
  OBVIOUS
<1>1. TypeOK
  <2>1. messages \in Seq(Payloads)
    BY EmptySeq DEF Init
  <2>2. events \in [Tasks -> SUBSET Events] /\ dest \in [Payloads -> Tasks \cup {InvalidTask}]
    BY DEF Init
  <2> QED BY <2>1, <2>2 DEF Init, TypeOK
<1>2. NotRunningBeforeStart
  BY DEF Init, NotRunningBeforeStart
<1>3. MessagesConserved
  BY DEF Init, MessagesConserved, Range, IsInjective
<1>4. NoStrandedMessage
  BY DEF Init, NoStrandedMessage
<1> QED BY <1>1, <1>2, <1>3, <1>4 DEF IInv

\* A step that leaves the queue and the headers alone, and every pending
\* SYS_EVENT_MSG pending, strands nothing.
LEMMA QuietStep ==
  ASSUME IInv, UNCHANGED <<messages, allocs, dest, held>>,
         \A t \in Tasks : SysEventMsg \in Pending(t) => SysEventMsg \in Pending(t)'
  PROVE  MessagesConserved' /\ NoStrandedMessage'
<1>1. MessagesConserved'
  BY DEF IInv, MessagesConserved
<1>2. \A i \in DOMAIN messages : dest[messages[i]] \in Tasks
  BY DEF IInv, MessagesConserved, Range
<1>3. NoStrandedMessage'
  BY <1>2 DEF IInv, NoStrandedMessage
<1> QED BY <1>1, <1>3

LEMMA StartPreserves == IInv /\ Start => IInv'
<1> SUFFICES ASSUME IInv, Start PROVE IInv'
  OBVIOUS
<1>1. events \in [Tasks -> SUBSET Events] /\ Dispatch(events)
  BY DEF IInv, TypeOK, Start
<1>2. /\ events' \in [Tasks -> SUBSET Events]
      /\ running' \in Tasks \cup {InvalidTask}
      /\ inHand' \in SUBSET Events
      /\ \A t \in Tasks : events[t] \subseteq Pending(t)'
  BY <1>1, DispatchKeepsFlags
<1>3. \A t \in Tasks : Pending(t) = events[t]
  BY InvalidTaskIsNoTask DEF IInv, NotRunningBeforeStart, Start, Pending
<1>4. MessagesConserved' /\ NoStrandedMessage'
  BY <1>2, <1>3, QuietStep DEF Start
<1>5. TypeOK'
  BY <1>2 DEF IInv, TypeOK, Start
<1>6. NotRunningBeforeStart'
  BY DEF Start, NotRunningBeforeStart
<1> QED BY <1>4, <1>5, <1>6 DEF IInv

LEMMA IdleDispatchPreserves == IInv /\ IdleDispatch => IInv'
<1> SUFFICES ASSUME IInv, IdleDispatch PROVE IInv'
  OBVIOUS
<1>1. events \in [Tasks -> SUBSET Events] /\ Dispatch(events)
  BY DEF IInv, TypeOK, IdleDispatch
<1>2. /\ events' \in [Tasks -> SUBSET Events]
      /\ running' \in Tasks \cup {InvalidTask}
      /\ inHand' \in SUBSET Events
      /\ \A t \in Tasks : events[t] \subseteq Pending(t)'
  BY <1>1, DispatchKeepsFlags
<1>3. \A t \in Tasks : Pending(t) = events[t]
  BY InvalidTaskIsNoTask DEF IdleDispatch, Pending
<1>4. MessagesConserved' /\ NoStrandedMessage'
  BY <1>2, <1>3, QuietStep DEF IdleDispatch
<1>5. TypeOK'
  BY <1>2 DEF IInv, TypeOK, IdleDispatch
<1>6. NotRunningBeforeStart'
  BY DEF IdleDispatch, NotRunningBeforeStart
<1> QED BY <1>4, <1>5, <1>6 DEF IInv

LEMMA FinishPreserves ==
  ASSUME NEW left \in Leftovers
  PROVE  IInv /\ Finish(left) => IInv'
<1> SUFFICES ASSUME IInv, Finish(left) PROVE IInv'
  OBVIOUS
<1> DEFINE word == Post(events, running, left)
<1>1. running \in Tasks /\ left \in SUBSET Events /\ events \in [Tasks -> SUBSET Events]
  BY DEF IInv, TypeOK, Finish, Leftovers
<1>2. /\ word \in [Tasks -> SUBSET Events]
      /\ \A u \in Tasks : events[u] \subseteq word[u]
      /\ left \subseteq word[running]
  BY <1>1, PostType
<1>3. Dispatch(word)
  BY DEF Finish
<1> HIDE DEF word
<1>4. /\ events' \in [Tasks -> SUBSET Events]
      /\ running' \in Tasks \cup {InvalidTask}
      /\ inHand' \in SUBSET Events
      /\ \A t \in Tasks : word[t] \subseteq Pending(t)'
  BY <1>2, <1>3, DispatchKeepsFlags
<1>5. \A t \in Tasks : SysEventMsg \in Pending(t) => SysEventMsg \in word[t]
  BY <1>2 DEF Pending, Leftovers
<1>6. MessagesConserved' /\ NoStrandedMessage'
  BY <1>4, <1>5, QuietStep DEF Finish
<1>7. TypeOK'
  BY <1>4 DEF IInv, TypeOK, Finish
<1>8. NotRunningBeforeStart'
  BY DEF Finish, NotRunningBeforeStart
<1> QED BY <1>6, <1>7, <1>8 DEF IInv

LEMMA SetEventPreserves ==
  ASSUME NEW t \in Tasks, NEW f \in Flags
  PROVE  IInv /\ SetEvent(t, f) => IInv'
<1> SUFFICES ASSUME IInv, SetEvent(t, f) PROVE IInv'
  OBVIOUS
<1>1. /\ events' \in [Tasks -> SUBSET Events]
      /\ \A u \in Tasks : events[u] \subseteq events'[u]
  BY PostType DEF IInv, TypeOK, SetEvent, Events
<1>2. MessagesConserved' /\ NoStrandedMessage'
  BY <1>1, QuietStep DEF SetEvent, Pending
<1>3. TypeOK' /\ NotRunningBeforeStart'
  BY <1>1 DEF IInv, TypeOK, NotRunningBeforeStart, SetEvent
<1> QED BY <1>2, <1>3 DEF IInv

LEMMA ClearEventPreserves ==
  ASSUME NEW t \in Tasks, NEW f \in Flags
  PROVE  IInv /\ ClearEvent(t, f) => IInv'
<1> SUFFICES ASSUME IInv, ClearEvent(t, f) PROVE IInv'
  OBVIOUS
<1>1. f # SysEventMsg
  BY FlagsAssumption
<1>2. /\ events' \in [Tasks -> SUBSET Events]
      /\ \A u \in Tasks : SysEventMsg \in events[u] => SysEventMsg \in events'[u]
  BY <1>1 DEF IInv, TypeOK, ClearEvent
<1>3. MessagesConserved' /\ NoStrandedMessage'
  BY <1>2, QuietStep DEF ClearEvent, Pending
<1>4. TypeOK' /\ NotRunningBeforeStart'
  BY <1>2 DEF IInv, TypeOK, NotRunningBeforeStart, ClearEvent
<1> QED BY <1>3, <1>4 DEF IInv

LEMMA MsgAllocPreserves ==
  ASSUME NEW m \in Payloads
  PROVE  IInv /\ MsgAlloc(m) => IInv'
<1> SUFFICES ASSUME IInv, MsgAlloc(m) PROVE IInv'
  OBVIOUS
<1>1. TypeOK' /\ NotRunningBeforeStart'
  BY DEF IInv, TypeOK, NotRunningBeforeStart, MsgAlloc
<1>2. m \notin Range(messages)
  BY DEF IInv, MessagesConserved, MsgAlloc
<1>3. \A n \in Range(messages) : n \in Payloads /\ dest'[n] = dest[n]
  BY <1>2 DEF IInv, TypeOK, MessagesConserved, MsgAlloc, Range
<1>4. MessagesConserved'
  BY <1>2, <1>3 DEF IInv, MessagesConserved, MsgAlloc
<1>5. \A n \in Range(messages)' : SysEventMsg \in Pending(dest[n])'
  BY <1>3, StrandedByMessage DEF IInv, MsgAlloc, Pending
<1>6. NoStrandedMessage'
  BY <1>1, <1>5 DEF TypeOK, NoStrandedMessage, Range
<1> QED BY <1>1, <1>4, <1>6 DEF IInv

LEMMA MsgDeallocPreserves ==
  ASSUME NEW m \in Payloads
  PROVE  IInv /\ MsgDealloc(m) => IInv'
<1> SUFFICES ASSUME IInv, MsgDealloc(m) PROVE IInv'
  OBVIOUS
<1>1. TypeOK' /\ NotRunningBeforeStart'
  BY DEF IInv, TypeOK, NotRunningBeforeStart, MsgDealloc
<1>2. MessagesConserved'
  BY DEF IInv, MessagesConserved, MsgDealloc
<1>3. NoStrandedMessage'
  BY DEF IInv, NoStrandedMessage, Pending, MsgDealloc
<1> QED BY <1>1, <1>2, <1>3 DEF IInv

LEMMA MsgSendPreserves ==
  ASSUME NEW t \in Tasks, NEW m \in Payloads
  PROVE  IInv /\ MsgSend(t, m) => IInv'
<1> SUFFICES ASSUME IInv, MsgSend(t, m) PROVE IInv'
  OBVIOUS
<1>1. m \notin Range(messages)
  BY DEF IInv, MessagesConserved, MsgSend
<1>2. /\ messages' \in Seq(Payloads)
      /\ Range(messages)' = Range(messages) \cup {m}
      /\ IsInjective(messages)'
  <2>1. messages' = Append(messages, m)
    BY DEF MsgSend
  <2>2. messages \in Seq(Payloads) /\ IsInjective(messages)
    BY DEF IInv, TypeOK, MessagesConserved
  <2> QED BY <1>1, <2>1, <2>2, AppendRange
<1>3. /\ events' \in [Tasks -> SUBSET Events]
      /\ \A u \in Tasks : events[u] \subseteq events'[u]
      /\ SysEventMsg \in events'[t]
  BY SMTT(30), PostType DEF IInv, TypeOK, MsgSend, Events
<1>4. TypeOK' /\ NotRunningBeforeStart'
  BY <1>2, <1>3 DEF IInv, TypeOK, NotRunningBeforeStart, MsgSend
<1>5. \A n \in Range(messages)' :
        \/ n = m /\ dest'[n] = t
        \/ n \in Range(messages) /\ dest'[n] = dest[n] /\ dest[n] \in Tasks
  BY <1>1, <1>2 DEF IInv, TypeOK, MessagesConserved, MsgSend, Range
<1>6. MessagesConserved'
  BY <1>1, <1>2, <1>5 DEF IInv, MessagesConserved, MsgSend
<1>7. \A n \in Range(messages)' : SysEventMsg \in Pending(dest[n])'
  BY <1>3, <1>5, StrandedByMessage DEF IInv, MsgSend, Pending
<1>8. NoStrandedMessage'
  BY <1>4, <1>7 DEF TypeOK, NoStrandedMessage, Range
<1> QED BY <1>4, <1>6, <1>8 DEF IInv

\* The interesting step: the entry i leaves, and whoever still waits behind it
\* for the same task is announced again.
LEMMA TakePreserves ==
  ASSUME IInv, NEW t \in Tasks, NEW i \in Addressed(messages, t),
         running = t,
         inHand' = inHand \ {SysEventMsg},
         Take(t, i),
         UNCHANGED <<started, running, allocs, dest>>
  PROVE  IInv'
<1>1. messages \in Seq(Payloads) /\ IsInjective(messages) /\ i \in 1..Len(messages)
  BY DEF IInv, TypeOK, MessagesConserved, Addressed
<1>2. /\ messages' \in Seq(Payloads)
      /\ IsInjective(messages)'
      /\ Range(messages)' = Range(messages) \ {messages[i]}
  BY <1>1, RemoveAtLemma, RemoveAtRange DEF Take
<1>3. /\ events' \in [Tasks -> SUBSET Events]
      /\ \A u \in Tasks : events[u] \subseteq events'[u]
      /\ Addressed(messages', t) # {} => SysEventMsg \in events'[t]
  BY PostType DEF IInv, TypeOK, Take, Events
<1>4. TypeOK' /\ NotRunningBeforeStart'
  <2>1. messages[i] \in Payloads
    BY <1>1
  <2>2. held' \subseteq Payloads
    BY <2>1 DEF IInv, TypeOK, Take
  <2> QED BY <1>2, <1>3, <2>2 DEF IInv, TypeOK, NotRunningBeforeStart
<1>5. MessagesConserved'
  <2>1. messages[i] \in Range(messages)
    BY <1>1 DEF Range
  <2> QED BY <1>2, <2>1 DEF IInv, MessagesConserved, Take
<1>6. ASSUME NEW k \in DOMAIN messages'
      PROVE  SysEventMsg \in Pending(dest[messages[k]])'
  <2>1. messages'[k] \in Range(messages) /\ dest'[messages'[k]] = dest[messages'[k]]
    BY <1>2 DEF Range
  <2>2. CASE dest[messages'[k]] = t
    <3>1. k \in Addressed(messages', t)
      BY <2>2 DEF Addressed
    <3> QED BY <3>1, <2>1, <2>2, <1>3 DEF Pending
  <2>3. CASE dest[messages'[k]] # t
    <3>1. SysEventMsg \in Pending(dest[messages'[k]])
      BY <2>1, StrandedByMessage DEF IInv
    <3>2. dest[messages'[k]] \in Tasks
      BY <2>1 DEF IInv, MessagesConserved
    <3> QED BY <3>1, <3>2, <2>1, <2>3, <1>3 DEF Pending
  <2> QED BY <2>2, <2>3
<1>7. NoStrandedMessage'
  BY <1>6 DEF NoStrandedMessage
<1> QED BY <1>4, <1>5, <1>7 DEF IInv

LEMMA MsgReceivePreserves ==
  ASSUME NEW t \in Tasks
  PROVE  IInv /\ MsgReceive(t) => IInv'
<1> SUFFICES ASSUME IInv, MsgReceive(t) PROVE IInv'
  OBVIOUS
<1>1. CASE Addressed(messages, t) = {} /\ UNCHANGED <<messages, held, events>>
  <2>1. TypeOK' /\ NotRunningBeforeStart' /\ MessagesConserved'
    BY <1>1 DEF IInv, TypeOK, NotRunningBeforeStart, MessagesConserved, MsgReceive
  <2>2. \A k \in DOMAIN messages : dest[messages[k]] # t
    BY <1>1 DEF Addressed
  <2>3. NoStrandedMessage'
    BY <1>1, <2>2 DEF IInv, NoStrandedMessage, Pending, MsgReceive
  <2> QED BY <2>1, <2>3 DEF IInv
<1>2. ASSUME NEW i \in Addressed(messages, t), Take(t, i)
      PROVE  IInv'
  BY <1>2, TakePreserves DEF MsgReceive
<1> QED BY <1>1, <1>2 DEF MsgReceive

LEMMA StepPreserves == IInv /\ [Next]_vars => IInv'
<1> SUFFICES ASSUME IInv, [Next]_vars PROVE IInv'
  OBVIOUS
<1>1. CASE Start
  BY <1>1, StartPreserves
<1>2. CASE IdleDispatch
  BY <1>2, IdleDispatchPreserves
<1>3. CASE \E left \in Leftovers : Finish(left)
  BY <1>3, FinishPreserves
<1>4. CASE \E t \in Tasks, f \in Flags : SetEvent(t, f) \/ ClearEvent(t, f)
  BY <1>4, SetEventPreserves, ClearEventPreserves
<1>5. CASE \E t \in Tasks : MsgReceive(t)
  BY <1>5, MsgReceivePreserves
<1>6. CASE \E t \in Tasks, m \in Payloads : MsgSend(t, m)
  BY <1>6, MsgSendPreserves
<1>7. CASE \E m \in Payloads : MsgAlloc(m) \/ MsgDealloc(m)
  BY <1>7, MsgAllocPreserves, MsgDeallocPreserves
<1>8. CASE UNCHANGED vars
  BY <1>8 DEF vars, IInv, TypeOK, NotRunningBeforeStart, MessagesConserved,
              NoStrandedMessage, Pending
<1> QED BY <1>1, <1>2, <1>3, <1>4, <1>5, <1>6, <1>7, <1>8 DEF Next

\* IInv holds in every reachable state of every firmware.
THEOREM Inductive == Spec => []IInv
BY InitEstablishes, StepPreserves, PTL DEF Spec

\* The kernel's variables keep their types.
THEOREM TypeCorrect == Spec => []TypeOK
<1>1. IInv => TypeOK
  BY DEF IInv
<1> QED BY <1>1, Inductive, PTL

\* No message waits in the queue while its addressee has nothing to wake it:
\* SYS_EVENT_MSG is in its event word or in the hand of its handler.
THEOREM NothingStranded == Spec => []NoStrandedMessage
<1>1. IInv => NoStrandedMessage
  BY DEF IInv
<1> QED BY <1>1, Inductive, PTL

\* Every allocated message is owned by guest code or queued exactly once.
THEOREM Conservation == Spec => []MessagesConserved
<1>1. IInv => MessagesConserved
  BY DEF IInv
<1> QED BY <1>1, Inductive, PTL

-----------------------------------------------------------------------------
(* The refinement.  A handler that returns, an interrupt that raises a flag,  *)
(* a task that takes its mail: each is the step of the mailboxes of that      *)
(* name; a message that is allocated, freed or looked for in vain is none.    *)

Waiting == [t \in Tasks |-> events[t] \ {SysEventMsg}]
Boxes == [t \in Tasks |-> Mail(t)]

LEMMA MailKept ==
  ASSUME messages \in Seq(Payloads), messages' = messages,
         \A m \in Range(messages) : dest'[m] = dest[m]
  PROVE  Boxes' = Boxes
<1> SUFFICES ASSUME NEW t \in Tasks PROVE Mail(t)' = Mail(t)
  BY DEF Boxes
<1> DEFINE mine == {m \in Payloads : dest[m] = t}
           mine2 == {m \in Payloads : dest'[m] = t}
<1>1. \A k \in 1 .. Len(messages) : messages[k] \in mine2 <=> messages[k] \in mine
  BY DEF Range
<1> HIDE DEF mine, mine2
<1>2. Selected(messages, mine2) = Selected(messages, mine)
  BY <1>1, SelectedSame
<1> QED BY <1>2 DEF Mail, mine, mine2

LEMMA DispatchServes ==
  ASSUME NEW word \in [Tasks -> SUBSET Events], Dispatch(word),
         NEW flags, flags = [t \in Tasks |-> word[t] \ {SysEventMsg}]
  PROVE  Mailboxes!Serve(flags)
<1>1. CASE /\ \A t \in Tasks : word[t] = {}
           /\ events' = word
           /\ running' = InvalidTask
           /\ inHand' = {}
  <2>1. Waiting' = flags
    BY <1>1 DEF Waiting
  <2> QED BY <1>1, <2>1 DEF Mailboxes!Serve, Waiting
<1>2. ASSUME NEW t \in Tasks,
             events' = [word EXCEPT ![t] = {}],
             running' = t,
             inHand' = word[t]
      PROVE  Mailboxes!Serve(flags)
  <2>1. Waiting' = [flags EXCEPT ![t] = {}]
    BY <1>2 DEF Waiting
  <2>2. inHand' \ {SysEventMsg} = flags[t]
    BY <1>2
  <2> QED BY <1>2, <2>1, <2>2 DEF Mailboxes!Serve, Waiting
<1> QED BY <1>1, <1>2 DEF Dispatch

LEMMA WakeStep ==
  ASSUME IInv, Start \/ IdleDispatch
  PROVE  Mailboxes!Wake
<1>1. events \in [Tasks -> SUBSET Events] /\ Dispatch(events) /\ running = InvalidTask
  BY DEF IInv, TypeOK, NotRunningBeforeStart, Start, IdleDispatch
<1>2. Mailboxes!Serve(Waiting)
  BY <1>1, DispatchServes DEF Waiting, Mailboxes!Serve
<1>3. Boxes' = Boxes
  BY MailKept DEF IInv, TypeOK, Start, IdleDispatch
<1> QED BY <1>1, <1>2, <1>3 DEF Mailboxes!Wake, Waiting, Boxes

LEMMA ReturnStep ==
  ASSUME IInv, NEW left \in Leftovers, Finish(left)
  PROVE  \E l \in SUBSET (inHand \ {SysEventMsg}) : Mailboxes!Return(l)
<1> DEFINE word == Post(events, running, left)
           l == left \ {SysEventMsg}
<1>1. /\ running \in Tasks /\ left \in SUBSET Events /\ events \in [Tasks -> SUBSET Events]
      /\ running # InvalidTask /\ Dispatch(word)
      /\ l \in SUBSET (inHand \ {SysEventMsg})
  BY DEF IInv, TypeOK, Finish, Leftovers
<1>2. word \in [Tasks -> SUBSET Events]
  BY <1>1, PostType
<1>3. Mailboxes!Serve(Mailboxes!With(running, l))
  <2>1. Mailboxes!With(running, l) = [t \in Tasks |-> word[t] \ {SysEventMsg}]
    BY <1>1 DEF Post, Mailboxes!With
  <2> HIDE DEF word
  <2> QED BY <1>1, <1>2, <2>1, DispatchServes DEF Mailboxes!Serve
<1>5. Boxes' = Boxes
  BY MailKept DEF IInv, TypeOK, Finish
<1>6. Mailboxes!Return(l)
  BY <1>1, <1>3, <1>5 DEF Mailboxes!Return, Boxes
<1> QED BY <1>1, <1>6

LEMMA RaiseStep ==
  ASSUME IInv, NEW t \in Tasks, NEW f \in Flags, SetEvent(t, f)
  PROVE  Mailboxes!Raise(t, f)
<1>1. Waiting' = Mailboxes!With(t, {f})
  BY FlagsAssumption DEF IInv, TypeOK, SetEvent, Post, Waiting, Mailboxes!With
<1>2. Boxes' = Boxes
  BY MailKept DEF IInv, TypeOK, SetEvent
<1> QED BY <1>1, <1>2 DEF Mailboxes!Raise, SetEvent, Waiting, Boxes

LEMMA ClearStep ==
  ASSUME IInv, NEW t \in Tasks, NEW f \in Flags, ClearEvent(t, f)
  PROVE  Mailboxes!Clear(t, f)
<1>1. Waiting' = [Waiting EXCEPT ![t] = @ \ {f}]
  BY DEF IInv, TypeOK, ClearEvent, Waiting
<1>2. Boxes' = Boxes
  BY MailKept DEF IInv, TypeOK, ClearEvent
<1> QED BY <1>1, <1>2 DEF Mailboxes!Clear, ClearEvent, Waiting, Boxes

LEMMA DeliverStep ==
  ASSUME IInv, NEW t \in Tasks, NEW m \in Payloads, MsgSend(t, m)
  PROVE  Mailboxes!Deliver(t, m)
<1>1. /\ messages \in Seq(Payloads) /\ m \notin Range(messages)
      /\ dest \in [Payloads -> Tasks \cup {InvalidTask}]
  BY DEF IInv, TypeOK, MessagesConserved, MsgSend
<1>2. dest'[m] = t /\ \A k \in 1 .. Len(messages) : dest'[messages[k]] = dest[messages[k]]
  BY <1>1 DEF MsgSend, Range
<1>3. \A u \in Tasks : Mail(u)' = IF u = t THEN Append(Mail(u), m) ELSE Mail(u)
  <2> TAKE u \in Tasks
  <2>1. messages' = Append(messages, m)
    BY DEF MsgSend
  <2> DEFINE mine == {n \in Payloads : dest[n] = u}
             mine2 == {n \in Payloads : dest'[n] = u}
  <2>2. /\ \A k \in 1 .. Len(messages) : messages[k] \in mine2 <=> messages[k] \in mine
        /\ m \in mine2 <=> u = t
    BY <1>1, <1>2
  <2> HIDE DEF mine, mine2
  <2>3. Selected(Append(messages, m), mine2) = Fed(Selected(messages, mine), m, mine2)
    BY <1>1, <2>2, SelectedAppend
  <2>4. Mail(u) = Selected(messages, mine) /\ Mail(u)' = Selected(messages', mine2)
    BY DEF Mail, mine, mine2
  <2> QED BY <2>1, <2>2, <2>3, <2>4 DEF Fed
<1>4. Boxes' = [Boxes EXCEPT ![t] = Append(@, m)]
  BY <1>3 DEF Boxes
<1>5. Waiting' = Waiting
  BY DEF IInv, TypeOK, MsgSend, Post, Waiting
<1> QED BY <1>4, <1>5 DEF Mailboxes!Deliver, MsgSend, Waiting, Boxes

LEMMA TakeStep ==
  ASSUME IInv, NEW t \in Tasks, MsgReceive(t)
  PROVE  Mailboxes!Take(t) \/ UNCHANGED <<Waiting, running, inHand \ {SysEventMsg}, Boxes>>
<1>1. messages \in Seq(Payloads) /\ events \in [Tasks -> SUBSET Events]
  BY DEF IInv, TypeOK
<1>2. CASE Addressed(messages, t) = {} /\ UNCHANGED <<messages, held, events>>
  <2>1. Boxes' = Boxes
    BY <1>1, <1>2, MailKept DEF MsgReceive
  <2> QED BY <1>2, <2>1 DEF MsgReceive, Waiting
<1>3. ASSUME NEW i \in Addressed(messages, t),
             \A j \in Addressed(messages, t) : i <= j,
             Take(t, i)
      PROVE  Mailboxes!Take(t)
  <2>1. /\ i \in 1 .. Len(messages) /\ dest[messages[i]] = t
        /\ \A j \in 1 .. Len(messages) : dest[messages[j]] = t => i <= j
    BY <1>1, <1>3 DEF Addressed
  <2>a. /\ messages' \in Seq(Payloads) /\ dest' = dest
        /\ Len(messages') = Len(messages) - 1
        /\ \A j \in 1 .. (Len(messages) - 1) :
             messages'[j] = IF j < i THEN messages[j] ELSE messages[j + 1]
    BY <1>1, <1>3, <2>1, RemoveAtLemma DEF Take, MsgReceive
  <2>b. messages[i] \in Payloads
    BY <1>1, <2>1
  <2>2. Mail(t) # <<>> /\ Mail(t)' = Tail(Mail(t))
    <3> DEFINE mine == {m \in Payloads : dest[m] = t}
    <3>1. messages[i] \in mine /\ \A j \in 1 .. Len(messages) : messages[j] \in mine => i <= j
      BY <2>1, <2>b
    <3> HIDE DEF mine
    <3>2. Selected(messages, mine) # <<>> /\ Selected(messages', mine) = Tail(Selected(messages, mine))
      BY ZenonT(30), <1>1, <2>1, <2>a, <3>1, SelectedFirst
    <3> QED BY <2>a, <3>2 DEF Mail, mine
  <2>3. ASSUME NEW u \in Tasks, u # t
        PROVE  Mail(u)' = Mail(u)
    <3> DEFINE mine == {m \in Payloads : dest[m] = u}
    <3>1. messages[i] \notin mine
      BY <2>1, <2>3
    <3> HIDE DEF mine
    <3>2. Selected(messages', mine) = Selected(messages, mine)
      BY <1>1, <2>1, <2>a, <3>1, SelectedOthers
    <3> QED BY <2>a, <3>2 DEF Mail, mine
  <2>5. Boxes' = [Boxes EXCEPT ![t] = Tail(@)] /\ Boxes[t] # <<>>
    BY <2>2, <2>3 DEF Boxes
  <2>6. Waiting' = Waiting
    BY <1>1, <1>3 DEF Take, Post, Waiting
  <2> QED BY <2>5, <2>6 DEF Mailboxes!Take, MsgReceive, Waiting, Boxes
<1> QED BY <1>2, <1>3 DEF MsgReceive

LEMMA AllocStep ==
  ASSUME IInv, NEW m \in Payloads, MsgAlloc(m) \/ MsgDealloc(m)
  PROVE  UNCHANGED <<Waiting, running, inHand \ {SysEventMsg}, Boxes>>
<1>1. messages \in Seq(Payloads) /\ messages' = messages
  BY DEF IInv, TypeOK, MsgAlloc, MsgDealloc
<1>2. \A n \in Range(messages) : dest'[n] = dest[n]
  BY DEF IInv, TypeOK, MessagesConserved, MsgAlloc, MsgDealloc, Range
<1>3. Boxes' = Boxes
  BY <1>1, <1>2, MailKept
<1> QED BY <1>3 DEF MsgAlloc, MsgDealloc, Waiting

LEMMA MailboxesStep ==
  IInv /\ [Next]_vars =>
    [Mailboxes!Next]_<<Waiting, running, inHand \ {SysEventMsg}, Boxes>>
<1> SUFFICES ASSUME IInv, [Next]_vars
             PROVE  [Mailboxes!Next]_<<Waiting, running, inHand \ {SysEventMsg}, Boxes>>
  OBVIOUS
<1>1. CASE Start \/ IdleDispatch
  BY <1>1, WakeStep DEF Mailboxes!Next
<1>2. CASE \E left \in Leftovers : Finish(left)
  BY <1>2, ReturnStep DEF Mailboxes!Next
<1>3. CASE \E t \in Tasks, f \in Flags : SetEvent(t, f) \/ ClearEvent(t, f)
  BY <1>3, RaiseStep, ClearStep DEF Mailboxes!Next
<1>4. CASE \E t \in Tasks : MsgReceive(t)
  BY <1>4, TakeStep DEF Mailboxes!Next
<1>5. CASE \E t \in Tasks, m \in Payloads : MsgSend(t, m)
  BY <1>5, DeliverStep DEF Mailboxes!Next
<1>6. CASE \E m \in Payloads : MsgAlloc(m) \/ MsgDealloc(m)
  BY <1>6, AllocStep
<1>7. CASE UNCHANGED vars
  <2>1. Boxes' = Boxes
    BY <1>7 DEF vars, Boxes, Mail
  <2> QED BY <1>7, <2>1 DEF vars, Waiting
<1> QED BY <1>1, <1>2, <1>3, <1>4, <1>5, <1>6, <1>7 DEF Next

\* The shared queue and the event words implement one mailbox and one set of
\* waiting flags for each task: no flag is lost that is raised while its task
\* runs, and each task takes its own messages in the order they were sent.
THEOREM MailboxesRefined == Spec => ImplementsMailboxes
<1>1. Init => Mailboxes!Init
  <2> SUFFICES ASSUME Init PROVE Mailboxes!Init
    OBVIOUS
  <2>1. messages = <<>> /\ messages \in Seq(Payloads) /\ Len(messages) = 0
    BY EmptySeq DEF Init
  <2>2. \A t \in Tasks : Mail(t) = <<>>
    <3> TAKE t \in Tasks
    <3> DEFINE mine == {m \in Payloads : dest[m] = t}
    <3>1. /\ Selected(messages, mine) \in Seq(Payloads)
          /\ Len(Selected(messages, mine)) <= Len(messages)
      <4> HIDE DEF mine
      <4> QED BY <2>1, SelectedKept
    <3>2. Selected(messages, mine) = <<>>
      <4> HIDE DEF mine
      <4> QED BY <2>1, <3>1
    <3> QED BY <3>2 DEF Mail
  <2> QED BY <2>2 DEF Init, Mailboxes!Init
<1>2. IInv /\ [Next]_vars => [Mailboxes!Next]_(Mailboxes!mailboxVars)
  BY MailboxesStep DEF Mailboxes!mailboxVars, Waiting, Boxes
<1> QED BY <1>1, <1>2, Inductive, PTL DEF Spec, ImplementsMailboxes, Mailboxes!Spec
=============================================================================
