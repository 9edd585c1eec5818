\* Two tasks of different priority, one application flag, three messages: a
\* task can have several messages queued, interleaved with the other's.
CONSTANTS
  TaskCount = 2
  Flags = {flag}
  SysEventMsg = SYS_EVENT_MSG
  Payloads = {m1, m2, m3}
SPECIFICATION FairSpec
INVARIANTS
  NoStrandedMessage
  MessagesConserved
PROPERTIES
  ImplementsMailboxes
  MessagesDelivered
