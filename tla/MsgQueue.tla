------------------------------- MODULE MsgQueue -------------------------------
(***************************************************************************)
(* The intrusive message queues of soc/phy6252/osal_queue.rs.  A queue is  *)
(* a word of guest memory that holds its first message, and every message  *)
(* holds the next one in its header, eight bytes below the payload.  The   *)
(* host walks the links through guest memory on every call.                *)
(*                                                                         *)
(* The firmware adds only messages that are in no queue, and takes one out *)
(* of the middle by naming the message before it.  The header of a message *)
(* outside the queues may hold anything: the heap recycles its block.      *)
(***************************************************************************)
EXTENDS Naturals, FiniteSets, Sequences, Functions

CONSTANTS
  Messages,
  Queues,
  Null,      \* the null pointer, 0
  MaxWalk,   \* MAX_WALK, 4096: how far an enqueue follows the links
  Stray,     \* bound: what the header of a message outside the queues may hold
  Limited,   \* the queues the firmware fills only with osal_msg_enqueue_max,
  Limit      \* ... and the limit it gives each time

ASSUME MessagesAssumption == IsFiniteSet(Messages)
ASSUME NullAssumption == Null \notin Messages /\ Stray \subseteq Messages \cup {Null}
ASSUME MaxWalkAssumption == MaxWalk \in Nat \ {0}
ASSUME LimitAssumption == Limited \subseteq Queues /\ Limit \in Nat \ {0}

VARIABLES
  head,  \* head[q]: the word at q_ptr
  next   \* next[m]: the link in the header of m

queueVars == <<head, next>>

Link == Messages \cup {Null}

QueueTypeOK ==
  /\ head \in [Queues -> Link]
  /\ next \in [Messages -> Link]

QueueInit ==
  /\ head = [q \in Queues |-> Null]
  /\ next \in [Messages -> Stray]

-----------------------------------------------------------------------------
(* Walking the links. *)

After(link) == IF link = Null THEN Null ELSE next[link]

\* Where k steps along the links lead from the head of q.  One step more than
\* there are messages tells a list that ends from one that does not.
Follow(q) ==
  LET step[k \in 0 .. Cardinality(Messages)] == IF k = 0 THEN head[q] ELSE After(step[k - 1])
  IN  step

\* A walk that has come to the null pointer stays there.
Length(q) ==
  LET walk == Follow(q)
  IN  Cardinality({k \in 0 .. Cardinality(Messages) : walk[k] # Null})

Contents(q) ==
  LET walk == Follow(q)
  IN  [i \in 1 .. Length(q) |-> walk[i - 1]]

Members(q) == Range(Contents(q))
InNoQueue(m) == \A q \in Queues : m \notin Members(q)

-----------------------------------------------------------------------------
(* The calls. *)

\* Faulty variant: the link that the message brings along is kept.
LinkLastDirty(q, m) ==
  IF head[q] = Null
    THEN head' = [head EXCEPT ![q] = m] /\ UNCHANGED next
    ELSE next' = [next EXCEPT ![Contents(q)[Length(q)]] = m] /\ UNCHANGED head

\* enqueue: the message ends the list it is linked to.
LinkLast(q, m) ==
  IF head[q] = Null
    THEN /\ head' = [head EXCEPT ![q] = m]
         /\ next' = [next EXCEPT ![m] = Null]
    ELSE /\ next' = [next EXCEPT ![m] = Null, ![Contents(q)[Length(q)]] = m]
         /\ UNCHANGED head

\* A list that is too long is refused, once the message is already cleared.
Enqueue(q, m) ==
  /\ InNoQueue(m)
  /\ IF Length(q) <= MaxWalk
       THEN LinkLast(q, m)
       ELSE next' = [next EXCEPT ![m] = Null] /\ UNCHANGED head

\* No limit is zero.
Allowed(q, limit) == limit = 0 \/ Length(q) < limit

\* osal_msg_enqueue_max; a full queue is left as it is.
EnqueueMax(q, m, limit) ==
  /\ Allowed(q, limit)
  /\ Enqueue(q, m)

\* Faulty variant: the rest of the list is forgotten.
DequeueAll(q) ==
  /\ head[q] # Null
  /\ head' = [head EXCEPT ![q] = Null]
  /\ next' = [next EXCEPT ![head[q]] = Null]

Dequeue(q) ==
  /\ head[q] # Null
  /\ head' = [head EXCEPT ![q] = next[head[q]]]
  /\ next' = [next EXCEPT ![head[q]] = Null]

\* osal_msg_extract looks at "before" only when m is not the first message,
\* and refuses a message that does not precede m.
Extract(q, m, before) ==
  /\ m \in Members(q)
  /\ \/ /\ head[q] = m
        /\ head' = [head EXCEPT ![q] = next[m]]
        /\ next' = [next EXCEPT ![m] = Null]
     \/ /\ head[q] # m
        /\ before \in Members(q)
        /\ next[before] = m
        /\ next' = [next EXCEPT ![before] = next[m], ![m] = Null]
        /\ UNCHANGED head

Push(q, m) ==
  /\ InNoQueue(m)
  /\ next' = [next EXCEPT ![m] = head[q]]
  /\ head' = [head EXCEPT ![q] = m]

\* The block of a message outside the queues is used for something else.
Recycle(m) ==
  /\ InNoQueue(m)
  /\ \E link \in Stray : next' = [next EXCEPT ![m] = link]
  /\ UNCHANGED head

QueueNext ==
  \/ \E q \in Queues :
       \/ Dequeue(q)
       \/ \E m \in Messages :
            \/ q \notin Limited /\ Enqueue(q, m)
            \/ q \notin Limited /\ EnqueueMax(q, m, 0)
            \/ q \in Limited /\ EnqueueMax(q, m, Limit)
            \/ q \notin Limited /\ Push(q, m)
            \/ \E before \in Link : Extract(q, m, before)
  \/ \E m \in Messages : Recycle(m)

QueueSpec == QueueInit /\ [][QueueNext]_queueVars

-----------------------------------------------------------------------------
(* Properties. *)

\* Every list ends, and no message is in two lists or twice in one: no call
\* walks for ever and none delivers a message twice.
ListsSound ==
  /\ \A q \in Queues :
       /\ Follow(q)[Cardinality(Messages)] = Null
       /\ \A i, j \in 1..Length(q) : Contents(q)[i] = Contents(q)[j] => i = j
  /\ \A p, q \in Queues : p # q => Members(p) \cap Members(q) = {}

\* The linked lists implement queues of messages.
MessageQueues == INSTANCE MessageQueues WITH queue <- [q \in Queues |-> Contents(q)]

ImplementsQueues == MessageQueues!Spec

=============================================================================
