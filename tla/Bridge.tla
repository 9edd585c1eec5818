------------------------------- MODULE Bridge -------------------------------
(***************************************************************************)
(* The bridge of ble_host.rs between two child processes: an emulator with *)
(* the firmware, and a helper that offers its characteristics on the host's*)
(* Bluetooth adapter.  Threads read the lines of the helper, the emulator  *)
(* and the user into one channel; the bridge takes them one at a time and  *)
(* writes lines into the pipes of the children.  It remembers whether it   *)
(* has told the emulator of a link, because a helper may report a write    *)
(* without a connection before it.                                         *)
(*                                                                         *)
(* The helper is modelled after what bluez.py prints.                      *)
(***************************************************************************)
EXTENDS Naturals, Sequences

CONSTANTS
  MaxEvents,   \* bound: what the central at the other end does
  MaxTyped,    \* bound: what the user types
  MaxFrames    \* bound: what the firmware sends

VARIABLES
  helper,      \* [alive, greeted, notifying]: its process and what it has told
  emulator,    \* [alive, link, notify]: its process and the mailbox
  channel,     \* channel[source]: lines that wait for the bridge
  pipe,        \* pipe[child]: lines that wait for a child
  connected,   \* the flag of bridge_loop
  ended,       \* how run has ended: "no", "code" or "error"
  past         \* history: [events, typed, frames, meddled, unlinked]

bridgeVars == <<helper, emulator, channel, pipe, connected, ended, past>>

Senders == {"helper", "emulator", "user"}

BridgeTypeOK ==
  /\ helper \in [alive : BOOLEAN, greeted : BOOLEAN, notifying : BOOLEAN]
  /\ emulator \in [alive : BOOLEAN, link : BOOLEAN, notify : BOOLEAN]
  /\ connected \in BOOLEAN
  /\ ended \in {"no", "code", "error"}

BridgeInit ==
  /\ helper = [alive |-> TRUE, greeted |-> FALSE, notifying |-> FALSE]
  /\ emulator = [alive |-> TRUE, link |-> FALSE, notify |-> FALSE]
  /\ channel = [source \in Senders |-> <<>>]
  /\ pipe = [child \in {"helper", "emulator"} |-> <<>>]
  /\ connected = FALSE
  /\ ended = "no"
  /\ past = [events |-> 0, typed |-> 0, frames |-> 0, meddled |-> FALSE, unlinked |-> FALSE]

Says(source, said) == channel' = [channel EXCEPT ![source] = @ \o said]

-----------------------------------------------------------------------------
(* The helper: callbacks of the Bluetooth adapter. *)

HelperDoes(said) ==
  /\ helper.alive /\ ended = "no" /\ past.events < MaxEvents
  /\ past' = [past EXCEPT !.events = @ + 1]
  /\ Says("helper", said)
  /\ UNCHANGED <<emulator, pipe, connected, ended>>

\* Only the first write of all is preceded by a connection.
CentralWrites ==
  /\ HelperDoes(IF helper.greeted THEN <<"RX">> ELSE <<"CONNECTED", "RX">>)
  /\ helper' = [helper EXCEPT !.greeted = TRUE]

CentralSubscribes ==
  /\ ~helper.notifying
  /\ HelperDoes(<<"CONNECTED", "SUBSCRIBED">>)
  /\ helper' = [helper EXCEPT !.notifying = TRUE]

\* A helper cannot see the link itself: the end of a subscription ends it.
CentralLeaves ==
  /\ helper.notifying
  /\ HelperDoes(<<"UNSUBSCRIBED", "DISCONNECTED">>)
  /\ helper' = [helper EXCEPT !.notifying = FALSE]

HelperFails ==
  /\ helper.alive /\ ended = "no"
  /\ helper' = [helper EXCEPT !.alive = FALSE]
  /\ UNCHANGED <<emulator, channel, pipe, connected, ended, past>>

HelperReads ==
  /\ helper.alive /\ pipe["helper"] # <<>>
  /\ pipe' = [pipe EXCEPT !["helper"] = Tail(@)]
  /\ helper' = [helper EXCEPT !.alive = Head(pipe["helper"]) # "QUIT"]
  /\ UNCHANGED <<emulator, channel, connected, ended, past>>

-----------------------------------------------------------------------------
(* The emulator: its line protocol, and the firmware. *)

EmulatorReads ==
  /\ emulator.alive /\ pipe["emulator"] # <<>>
  /\ LET line == Head(pipe["emulator"])
     IN  /\ emulator' =
              CASE line = "CONNECT"    -> [emulator EXCEPT !.link = TRUE]
                [] line = "DISCONNECT" -> [emulator EXCEPT !.link = FALSE, !.notify = FALSE]
                [] line = "CCCD1"     -> [emulator EXCEPT !.notify = TRUE]
                [] line = "CCCD0"     -> [emulator EXCEPT !.notify = FALSE]
                [] line = "quit"       -> [emulator EXCEPT !.alive = FALSE]
                [] line = "WRITE"      -> emulator
         /\ past' = [past EXCEPT !.unlinked =
                       @ \/ (line = "WRITE" /\ ~emulator.link /\ ~past.meddled)]
  /\ pipe' = [pipe EXCEPT !["emulator"] = Tail(@)]
  /\ UNCHANGED <<helper, channel, connected, ended>>

EmulatorSends ==
  /\ emulator.alive /\ emulator.notify /\ ended = "no" /\ past.frames < MaxFrames
  /\ past' = [past EXCEPT !.frames = @ + 1]
  /\ Says("emulator", <<"FRAME">>)
  /\ UNCHANGED <<helper, emulator, pipe, connected, ended>>

\* HCI_Disconnect, HCI_Reset, or a restart of the chip: nobody tells the bridge.
FirmwareUnlinks ==
  /\ emulator.alive /\ emulator.link /\ ended = "no"
  /\ emulator' = [emulator EXCEPT !.link = FALSE, !.notify = FALSE]
  /\ past' = [past EXCEPT !.meddled = TRUE]
  /\ UNCHANGED <<helper, channel, pipe, connected, ended>>

EmulatorStops ==
  /\ emulator.alive /\ ended = "no"
  /\ emulator' = [emulator EXCEPT !.alive = FALSE]
  /\ UNCHANGED <<helper, channel, pipe, connected, ended, past>>

\* The user may type any command; those for the link go past the flag.
UserTypes(line) ==
  /\ ended = "no" /\ past.typed < MaxTyped
  /\ past' = [past EXCEPT !.typed = @ + 1, !.meddled = @ \/ line # "quit"]
  /\ Says("user", <<line>>)
  /\ UNCHANGED <<helper, emulator, pipe, connected, ended>>

-----------------------------------------------------------------------------
(* The bridge. *)

\* Faulty variant: the flag stays when the link ends.
ForEmulatorStale(line) ==
  CASE line = "RX" -> [lines |-> IF connected THEN <<"WRITE">> ELSE <<"CONNECT", "WRITE">>,
                       flag |-> TRUE]
    [] line = "CONNECTED" -> [lines |-> IF connected THEN <<>> ELSE <<"CONNECT">>, flag |-> TRUE]
    [] line = "SUBSCRIBED" -> [lines |-> <<"CCCD1">>, flag |-> connected]
    [] line = "UNSUBSCRIBED" -> [lines |-> <<"CCCD0">>, flag |-> connected]
    [] line = "DISCONNECTED" -> [lines |-> <<"CCCD0", "DISCONNECT">>, flag |-> connected]

\* What a line of the helper becomes, and the flag after it.
ForEmulator(line) ==
  CASE line = "RX" -> [lines |-> IF connected THEN <<"WRITE">> ELSE <<"CONNECT", "WRITE">>,
                       flag |-> TRUE]
    [] line = "CONNECTED" -> [lines |-> IF connected THEN <<>> ELSE <<"CONNECT">>, flag |-> TRUE]
    [] line = "SUBSCRIBED" -> [lines |-> <<"CCCD1">>, flag |-> connected]
    [] line = "UNSUBSCRIBED" -> [lines |-> <<"CCCD0">>, flag |-> connected]
    [] line = "DISCONNECTED" -> [lines |-> <<"CCCD0", "DISCONNECT">>, flag |-> FALSE]

\* put: a child that has gone is an error, and the bridge ends with it.
Put(child, lines) ==
  IF lines # <<>> /\ ~(IF child = "helper" THEN helper.alive ELSE emulator.alive)
    THEN ended' = "error" /\ UNCHANGED pipe
    ELSE pipe' = [pipe EXCEPT ![child] = @ \o lines] /\ UNCHANGED ended

Takes(source) ==
  /\ ended = "no" /\ channel[source] # <<>>
  /\ channel' = [channel EXCEPT ![source] = Tail(@)]
  /\ UNCHANGED <<helper, emulator, past>>

FromHelper ==
  /\ Takes("helper")
  /\ LET what == ForEmulator(Head(channel["helper"]))
     IN  Put("emulator", what.lines) /\ connected' = what.flag

FromEmulator ==
  /\ Takes("emulator")
  /\ Put("helper", <<"TX">>)
  /\ UNCHANGED connected

\* "quit" goes to the helper as well, if it is there.
FromUser ==
  /\ Takes("user")
  /\ UNCHANGED connected
  /\ LET line == Head(channel["user"])
     IN  IF line = "quit" /\ emulator.alive
           THEN /\ pipe' = [pipe EXCEPT !["emulator"] = Append(@, "quit"),
                                        !["helper"] = IF helper.alive THEN Append(@, "QUIT") ELSE @]
                /\ UNCHANGED ended
           ELSE Put("emulator", <<line>>)

\* try_wait, the emulator first: stop_child ends both.
EmulatorGone ==
  /\ ended = "no" /\ ~emulator.alive
  /\ ended' = "code"
  /\ helper' = [helper EXCEPT !.alive = FALSE]
  /\ UNCHANGED <<emulator, channel, pipe, connected, past>>

\* An error returns from run before it stops a child.
HelperGone ==
  /\ ended = "no" /\ emulator.alive /\ ~helper.alive
  /\ ended' = "error"
  /\ UNCHANGED <<helper, emulator, channel, pipe, connected, past>>

BridgeSteps == FromHelper \/ FromEmulator \/ FromUser \/ EmulatorGone \/ HelperGone

BridgeNext ==
  \/ CentralWrites \/ CentralSubscribes \/ CentralLeaves
  \/ HelperFails \/ HelperReads
  \/ EmulatorReads \/ EmulatorSends \/ FirmwareUnlinks \/ EmulatorStops
  \/ \E line \in {"CONNECT", "DISCONNECT", "quit"} : UserTypes(line)
  \/ BridgeSteps

BridgeSpec == BridgeInit /\ [][BridgeNext]_bridgeVars

-----------------------------------------------------------------------------
(* Properties. *)

Quiet == \A source \in Senders : channel[source] = <<>>
Settled == Quiet /\ \A child \in DOMAIN pipe : pipe[child] = <<>>

\* As long as neither the user nor the firmware ends the link by itself, a
\* write of the central finds a link up in the emulator, although its helper
\* reports a connection only once and an end of the link more often; and when
\* all lines have arrived, the mailbox has the link and the subscription that
\* the helper has reported.
LinkFollows ==
  /\ ~past.unlinked
  /\ ended = "no" /\ emulator.alive /\ Settled /\ ~past.meddled =>
       emulator.link = connected /\ emulator.notify = helper.notifying
=============================================================================
