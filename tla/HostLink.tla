------------------------------- MODULE HostLink -------------------------------
(***************************************************************************)
(* The Bluetooth link between the host and the firmware of one chip: the   *)
(* commands of the line protocol (Chip::apply), the mailbox in memory      *)
(* (mailbox.rs), the millisecond tick of the chip with its system reset    *)
(* and ROM monitor (chip.rs, bootrom.rs), and the polls by which           *)
(* hci_rom.rs turns what it sees in the mailbox into HCI events for the    *)
(* guest's Bluetooth stack.                                                *)
(*                                                                         *)
(* Commands are applied between ticks.  During a tick the guest runs for a *)
(* burst of instructions, long or short, and the mailbox is polled         *)
(* whenever it is in the idle loop.  An injected event is allocated,       *)
(* filled and sent before the guest executes another instruction.          *)
(***************************************************************************)
EXTENDS Naturals, Sequences

CONSTANTS
  MaxPackets,    \* bound: how many packets the host writes
  MaxFrames,     \* bound: how many notifications the guest sends
  HeapCanFail    \* whether the guest's heap may have no room for an event

ASSUME BoundsAssumption ==
  MaxPackets \in Nat /\ MaxFrames \in Nat /\ HeapCanFail \in BOOLEAN

VARIABLES
  status,   \* STATUS of the mailbox: a set of "connected" and "notify"
  rx,       \* RX_SEQ and the packet in the RX slot
  tx,       \* TX_SEQ and the frame in the TX slot
  pending,  \* Chip.pending_rx
  lastTx,   \* Chip.last_tx_seq
  shadow,   \* RADIO_STATUS_SHADOW and RX_SEQ_SHADOW
  mode,     \* what the CPU executes, or the state of the ROM monitor
  turn,     \* whose turn it is: the host's, between ticks, or the chip's
  guest,    \* what the injected events have told the guest
  seen      \* history, see below

linkVars == <<status, rx, tx, pending, lastTx, shadow, mode, turn, guest, seen>>

\* "boot" is the guest before HCI_Init; "sync" and "monitor" are the ROM, which
\* waits for its entry sequence, or for commands.
Modes == {"boot", "task", "idle", "asleep", "sync", "monitor"}
Running == {"boot", "task", "idle"}
Flags == {"connected", "notify"}

\* History: the packets and frames so far, the newest frame that was collected,
\* and what the guest has not been told: "drop" is a link that ended since the
\* last poll, "lost" a link event that will never be sent.
Seen == [written : 0..MaxPackets, emitted : 0..MaxFrames, shown : 0..MaxFrames,
         owed : {"nothing", "drop", "lost"}]

\* Memory that was never written is zero (Phy6252Bus::new) or, as a comment in
\* init_hci has it, all ones.
Erased == MaxPackets + 1

TypeOK ==
  /\ status \in SUBSET Flags
  /\ rx \in [seq : 0..MaxPackets, packet : 0..MaxPackets]
  /\ tx \in [seq : 0..MaxFrames, frame : 0..MaxFrames]
  /\ pending \in Seq(1..MaxPackets)
  /\ lastTx \in 0..MaxFrames
  /\ shadow \in [status : SUBSET Flags, seq : 0..Erased]
  /\ mode \in Modes
  /\ turn \in {"host", "chip"}
  /\ guest.up \in BOOLEAN /\ guest.notify \in BOOLEAN
  /\ guest.packets \in Seq(0..MaxPackets)
  /\ seen \in Seen

Unlinked(packets) == [up |-> FALSE, notify |-> FALSE, packets |-> packets]

Init ==
  /\ status = {}
  /\ rx = [seq |-> 0, packet |-> 0]
  /\ tx = [seq |-> 0, frame |-> 0]
  /\ pending = <<>>
  /\ lastTx = 0
  /\ shadow \in {[status |-> {}, seq |-> 0], [status |-> Flags, seq |-> Erased]}
  /\ mode = "boot"
  /\ turn = "host"
  /\ guest = Unlinked(<<>>)
  /\ seen = [written |-> 0, emitted |-> 0, shown |-> 0, owed |-> "nothing"]

Drop == IF "connected" \in status /\ seen.owed = "nothing" THEN "drop" ELSE seen.owed

-----------------------------------------------------------------------------
(* Chip::apply: the commands of the host, between ticks. *)

Connect ==
  /\ turn = "host"
  /\ status' = status \cup {"connected"}
  /\ seen' = [seen EXCEPT !.owed = IF @ = "drop" THEN "lost" ELSE @]
  /\ UNCHANGED <<rx, tx, pending, lastTx, shadow, mode, turn, guest>>

\* Ending the link ends the subscription as well.
Disconnect ==
  /\ turn = "host"
  /\ status' = {}
  /\ seen' = [seen EXCEPT !.owed = Drop]
  /\ UNCHANGED <<rx, tx, pending, lastTx, shadow, mode, turn, guest>>

Cccd(on) ==
  /\ turn = "host"
  /\ status' = IF on THEN status \cup {"notify"} ELSE status \ {"notify"}
  /\ UNCHANGED <<rx, tx, pending, lastTx, shadow, mode, turn, guest, seen>>

Write ==
  /\ turn = "host"
  /\ seen.written < MaxPackets
  /\ pending' = Append(pending, seen.written + 1)
  /\ seen' = [seen EXCEPT !.written = @ + 1]
  /\ UNCHANGED <<status, rx, tx, lastTx, shadow, mode, turn, guest>>

\* A rising input pin wakes a sleeping CPU.
Wake ==
  /\ turn = "host"
  /\ mode = "asleep"
  /\ mode' = "task"
  /\ UNCHANGED <<status, rx, tx, pending, lastTx, shadow, turn, guest, seen>>

\* UXTDWU at 9600 baud opens the command monitor of the ROM.
EnterMonitor ==
  /\ turn = "host"
  /\ mode = "sync"
  /\ mode' = "monitor"
  /\ UNCHANGED <<status, rx, tx, pending, lastTx, shadow, turn, guest, seen>>

\* Faulty variant: the chip goes on counting from the last frame it has seen.
RestartStaleTx ==
  /\ turn = "host"
  /\ mode = "monitor"
  /\ status' = {}
  /\ rx' = [rx EXCEPT !.seq = 0]
  /\ tx' = [tx EXCEPT !.seq = 0]
  /\ pending' = <<>>
  /\ mode' = "boot"
  /\ guest' = Unlinked(guest.packets)
  /\ seen' = [seen EXCEPT !.owed = "nothing"]
  /\ UNCHANGED <<lastTx, shadow, turn>>

\* "reset" at 115200 baud starts the application: restart_application.
Restart ==
  /\ turn = "host"
  /\ mode = "monitor"
  /\ status' = {}
  /\ rx' = [rx EXCEPT !.seq = 0]
  /\ tx' = [tx EXCEPT !.seq = 0]
  /\ pending' = <<>>
  /\ lastTx' = 0
  /\ mode' = "boot"
  /\ guest' = Unlinked(guest.packets)
  /\ seen' = [seen EXCEPT !.owed = "nothing"]
  /\ UNCHANGED <<shadow, turn>>

-----------------------------------------------------------------------------
(* Chip::tick.  A chip that sleeps or is in the ROM does nothing in a tick. *)

\* One packet a tick goes into the slot, whether or not the last one was read.
TickStart ==
  /\ turn = "host"
  /\ mode \in Running
  /\ turn' = "chip"
  /\ IF pending = <<>>
       THEN UNCHANGED <<rx, pending>>
       ELSE /\ rx' = [seq |-> rx.seq + 1, packet |-> Head(pending)]
            /\ pending' = Tail(pending)
  /\ UNCHANGED <<status, tx, lastTx, shadow, mode, guest, seen>>

\* Chip::collect ends every tick: the newest frame is printed if its number is
\* not "last".
Collect(last) ==
  /\ turn = "chip"
  /\ turn' = "host"
  /\ lastTx' = tx.seq
  /\ seen' = IF tx.seq # last THEN [seen EXCEPT !.shown = tx.frame] ELSE seen
  /\ UNCHANGED <<status, rx, tx, shadow, guest>>

TickEnd == Collect(lastTx) /\ UNCHANGED <<pending, mode>>

\* WFI ends the burst.
Sleep ==
  /\ mode = "task"
  /\ mode' = "asleep"
  /\ Collect(lastTx)
  /\ UNCHANGED pending

\* A write to AIRCR ends the burst and enters the ROM; the frame counter is
\* cleared before the tick collects.
SystemReset ==
  /\ mode \in {"boot", "task"}
  /\ mode' = "sync"
  /\ pending' = <<>>
  /\ Collect(0)

-----------------------------------------------------------------------------
(* The guest, and the HCI calls that touch the link. *)

\* Faulty variant: the words of the last boot are kept.
HciInitStale ==
  /\ turn = "chip"
  /\ mode = "boot"
  /\ mode' = "task"
  /\ UNCHANGED <<status, rx, tx, pending, lastTx, shadow, turn, guest, seen>>

\* HCI_Init: init_hci.
HciInit ==
  /\ turn = "chip"
  /\ mode = "boot"
  /\ mode' = "task"
  /\ shadow' = [status |-> {}, seq |-> rx.seq]
  /\ UNCHANGED <<status, rx, tx, pending, lastTx, turn, guest, seen>>

\* A notification is put into the TX slot, over the one before it.
SendNotification ==
  /\ turn = "chip"
  /\ mode = "task"
  /\ seen.emitted < MaxFrames
  /\ tx' = [seq |-> tx.seq + 1, frame |-> seen.emitted + 1]
  /\ seen' = [seen EXCEPT !.emitted = @ + 1]
  /\ UNCHANGED <<status, rx, pending, lastTx, shadow, mode, turn, guest>>

\* HCI_Disconnect; without a link it only reports an error.
DisconnectCmd ==
  /\ turn = "chip"
  /\ mode = "task"
  /\ "connected" \in status
  /\ status' = {}
  /\ seen' = [seen EXCEPT !.owed = Drop]
  /\ UNCHANGED <<rx, tx, pending, lastTx, shadow, mode, turn, guest>>

\* HCI_Reset or LL_Reset0: the stack forgets its links by itself.
ResetCmd ==
  /\ turn = "chip"
  /\ mode = "task"
  /\ status' = {}
  /\ guest' = Unlinked(guest.packets)
  /\ seen' = [seen EXCEPT !.owed = Drop]
  /\ UNCHANGED <<rx, tx, pending, lastTx, shadow, mode, turn>>

GoIdle ==
  /\ turn = "chip"
  /\ mode = "task"
  /\ mode' = "idle"
  /\ UNCHANGED <<status, rx, tx, pending, lastTx, shadow, turn, guest, seen>>

-----------------------------------------------------------------------------
(* hci_rom::handle polls in the idle loop, in this order. *)

Idle == turn = "chip" /\ mode = "idle"

Linked(flags) == "connected" \in flags
Notifies(flags) == "notify" \in flags

LinkChanged == Linked(status) # Linked(shadow.status)
CccdChanged == Linked(status) /\ Notifies(status) # Notifies(shadow.status)
RxChanged == Linked(status) /\ rx.seq # shadow.seq

\* Whether the guest's heap has room.
Room == IF HeapCanFail THEN BOOLEAN ELSE {TRUE}

\* The shadow takes the whole status; an event that finds no room is not sent.
PollRadio(room) ==
  /\ Idle
  /\ LinkChanged
  /\ shadow' = [shadow EXCEPT !.status = status]
  /\ guest' = IF room THEN [guest EXCEPT !.up = Linked(status), !.notify = FALSE] ELSE guest
  /\ seen' = [seen EXCEPT !.owed = IF room THEN "nothing" ELSE "lost"]
  /\ UNCHANGED <<status, rx, tx, pending, lastTx, mode, turn>>

PollCccd(room) ==
  /\ Idle
  /\ ~LinkChanged
  /\ CccdChanged
  /\ shadow' = [shadow EXCEPT !.status = status]
  /\ guest' = IF room THEN [guest EXCEPT !.notify = Notifies(status)] ELSE guest
  /\ UNCHANGED <<status, rx, tx, pending, lastTx, mode, turn, seen>>

\* Faulty variant: the number of the packet is not remembered.
PollRxRepeating(room) ==
  /\ Idle
  /\ ~LinkChanged /\ ~CccdChanged
  /\ RxChanged
  /\ guest' = IF room THEN [guest EXCEPT !.packets = Append(@, rx.packet)] ELSE guest
  /\ UNCHANGED <<status, rx, tx, pending, lastTx, mode, turn, seen, shadow>>

PollRx(room) ==
  /\ Idle
  /\ ~LinkChanged /\ ~CccdChanged
  /\ RxChanged
  /\ shadow' = [shadow EXCEPT !.seq = rx.seq]
  /\ guest' = IF room THEN [guest EXCEPT !.packets = Append(@, rx.packet)] ELSE guest
  /\ UNCHANGED <<status, rx, tx, pending, lastTx, mode, turn, seen>>

Polled == ~LinkChanged /\ ~CccdChanged /\ ~RxChanged

\* The scheduler runs a task when there is nothing to inject.
RunTask ==
  /\ Idle
  /\ Polled
  /\ mode' = "task"
  /\ UNCHANGED <<status, rx, tx, pending, lastTx, shadow, turn, guest, seen>>

-----------------------------------------------------------------------------
Next ==
  \/ Connect
  \/ Disconnect
  \/ \E on \in BOOLEAN : Cccd(on)
  \/ Write
  \/ Wake
  \/ EnterMonitor
  \/ Restart
  \/ TickStart
  \/ TickEnd
  \/ Sleep
  \/ SystemReset
  \/ HciInit
  \/ SendNotification
  \/ DisconnectCmd
  \/ ResetCmd
  \/ GoIdle
  \/ \E room \in Room : PollRadio(room) \/ PollCccd(room) \/ PollRx(room)
  \/ RunTask

Spec == Init /\ [][Next]_linkVars

-----------------------------------------------------------------------------
(* Properties. *)

\* The guest receives packets in the order in which the host wrote them, none
\* twice and none that was never written: across slots that are overwritten,
\* links that come and go, sleep, and restarts that set the numbers of the
\* mailbox back.
WritesInOrder ==
  LET got == guest.packets
  IN  \A i \in DOMAIN got : got[i] > (IF i = 1 THEN 0 ELSE got[i - 1])

\* Between ticks the newest notification has been printed, also when a restart
\* has set the numbers of the mailbox back since the last one.
NewestFrameShown == turn = "host" => seen.shown = seen.emitted

\* Once the idle loop has nothing left to inject, the guest knows whether it
\* has a link, unless the event found no room in the heap, or the link was
\* there again before the idle loop saw that it had gone.
LinkTold ==
  Idle /\ Polled /\ seen.owed # "lost" => guest.up = Linked(status)

\* Once the idle loop has nothing left to inject, the guest of a linked chip
\* has been told whether the host subscribes to its notifications.
CccdTold ==
  Idle /\ Polled /\ Linked(status) /\ guest.up => guest.notify = Notifies(status)
=============================================================================
