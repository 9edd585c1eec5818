---------------------------- MODULE TaskMailboxes ----------------------------
(***************************************************************************)
(* What the OSAL kernel promises the tasks of a PHY6252 firmware, without  *)
(* saying how.  Every task owns a set of waiting flags and a FIFO mailbox; *)
(* one task at a time is served.  A flag that waits is shown to its task   *)
(* or cleared by request, and nothing else makes it disappear; a message   *)
(* stays in its mailbox until its addressee, being served, takes it, and   *)
(* the oldest one leaves first.  Which task is served next, how mail is    *)
(* announced and how the mailboxes are stored is left open.                *)
(***************************************************************************)
EXTENDS Sequences

CONSTANTS Tasks, Nobody, Flags, Payloads

VARIABLES
  waiting, \* waiting[t]: the flags raised for t and not shown to it since
  serving, \* the task that is being served, or Nobody
  shown,   \* the flags it was shown
  box      \* box[t]: the messages sent to t and not taken yet, oldest first

mailboxVars == <<waiting, serving, shown, box>>

Init ==
  /\ waiting = [t \in Tasks |-> {}]
  /\ serving = Nobody
  /\ shown = {}
  /\ box = [t \in Tasks |-> <<>>]

\* What waits once the flags fs have been put before task t.
With(t, fs) == [u \in Tasks |-> IF u = t THEN waiting[u] \cup fs ELSE waiting[u]]

\* Some task is shown everything that waits for it; nobody is served only
\* when no flag waits.
Serve(flags) ==
  \/ /\ \A t \in Tasks : flags[t] = {}
     /\ waiting' = flags
     /\ serving' = Nobody
     /\ shown' = {}
  \/ \E t \in Tasks :
       /\ waiting' = [flags EXCEPT ![t] = {}]
       /\ serving' = t
       /\ shown' = flags[t]

Wake ==
  /\ serving = Nobody
  /\ Serve(waiting)
  /\ UNCHANGED box

\* The task served returns what it has not dealt with, which waits again.
Return(left) ==
  /\ serving # Nobody
  /\ Serve(With(serving, left))
  /\ UNCHANGED box

Raise(t, f) ==
  /\ waiting' = With(t, {f})
  /\ UNCHANGED <<serving, shown, box>>

Clear(t, f) ==
  /\ waiting' = [waiting EXCEPT ![t] = @ \ {f}]
  /\ UNCHANGED <<serving, shown, box>>

Deliver(t, m) ==
  /\ box' = [box EXCEPT ![t] = Append(@, m)]
  /\ UNCHANGED <<waiting, serving, shown>>

Take(t) ==
  /\ serving = t
  /\ box[t] # <<>>
  /\ box' = [box EXCEPT ![t] = Tail(@)]
  /\ UNCHANGED <<waiting, serving, shown>>

Next ==
  \/ Wake
  \/ \E left \in SUBSET shown : Return(left)
  \/ \E t \in Tasks :
       \/ \E f \in Flags : Raise(t, f) \/ Clear(t, f)
       \/ \E m \in Payloads : Deliver(t, m)
       \/ Take(t)

Spec == Init /\ [][Next]_mailboxVars
=============================================================================
