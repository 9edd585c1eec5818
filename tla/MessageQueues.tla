---------------------------- MODULE MessageQueues ----------------------------
(***************************************************************************)
(* What the osal_msg_enqueue family promises the firmware: queues of       *)
(* messages, each message in one queue at most.                            *)
(***************************************************************************)
EXTENDS Sequences, SequencesExt, Naturals

CONSTANTS Queues, Messages

VARIABLE queue  \* queue[q]: the messages in q, the next to leave first

Init == queue = [q \in Queues |-> <<>>]

(* The queues that a call may leave of the queues it finds. *)

Free(found) == Messages \ UNION {Range(found[q]) : q \in Queues}

AddLast(found, q) == {[found EXCEPT ![q] = Append(@, m)] : m \in Free(found)}

AddFirst(found, q) == {[found EXCEPT ![q] = <<m>> \o @] : m \in Free(found)}

TakeOne(found, q) == {[found EXCEPT ![q] = RemoveAt(@, i)] : i \in DOMAIN found[q]}

Left(found) ==
  UNION {AddLast(found, q) \cup AddFirst(found, q) \cup TakeOne(found, q) : q \in Queues}

Next == queue' # queue /\ queue' \in Left(queue)

Spec == Init /\ [][Next]_queue
=============================================================================
