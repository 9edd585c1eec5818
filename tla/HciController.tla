----------------------------- MODULE HciController -----------------------------
(***************************************************************************)
(* The Bluetooth controller that the firmware of one chip talks to: the    *)
(* HCI commands of hci_rom.rs, hci_extra.rs, hci_security.rs, hci_caps.rs  *)
(* and hci_task.rs, and the status calls of the link layer in ll_rom.rs.   *)
(*                                                                         *)
(* A command is answered by a message to a task.  The host cannot call the *)
(* guest's allocator as a function: it points the CPU at osal_msg_allocate *)
(* with a return address that holds no code, a trap, and goes on when the  *)
(* CPU arrives there.  What has to survive in the meantime lives in two    *)
(* registers, R2 (a magic number) and R3 (the stage), and in words of the  *)
(* mailbox.  There are three such engines, each with a trap of its own.    *)
(* The same way a change in the mailbox, seen while the CPU is in its idle *)
(* loop, becomes an event that no command asked for.                       *)
(***************************************************************************)
EXTENDS Naturals, Sequences, FiniteSets

CONSTANTS
  Blocks,    \* the blocks the guest's heap can hold at a time
  Null,      \* the null pointer
  TaskCount, \* the tasks of the firmware are 0 .. TaskCount - 1
  NoTask,    \* 0xFF in the slot of a layer
  RomStatusOps, RomReadOps,                           \* the commands of each kind
  ListOps, ExtraOps, CapsOps, LengthOps, SecurityOps, \* that the firmware uses
  Tables     \* the attribute tables the firmware may have, see Attribute

ASSUME BlocksAssumption ==
  Null \notin Blocks /\ Blocks \cap {"own", "success", "memory", "invalid", "inactive"} = {}
ASSUME TasksAssumption == TaskCount \in Nat \ {0} /\ NoTask \notin 0 .. TaskCount - 1

Tasks == 0 .. TaskCount - 1
Layers == {"GAP", "L2CAP", "SMP"}
Engines == {"rom", "extra", "security"}
Statuses == {"success", "memory", "invalid", "inactive"}
Flags == {"connected", "notify"}

\* R2 of the caller, the scratch buffer hci_caps points it at, or a magic number.
R2 == {"own", "scratch"} \cup Engines

Stages == {"own", "alloc", "status_alloc", "conn_alloc", "disconn_alloc", "rx_alloc",
           "data_alloc", "enc_alloc", "send", "status_send"}

VARIABLES
  cpu,      \* where the CPU is, R0 (as "to" when it is a task), R1, R2, R3, and LR
  resume,   \* resume[e]: return address and R2, R3 that engine e has saved
  pending,  \* the other words an engine keeps for its stage
  slots,    \* slots[l]: the task that layer l has registered
  heap,     \* the blocks that are allocated
  mail,     \* mail[t]: the blocks that are queued for task t
  link,     \* the mailbox, and the shadows of what hci_rom has seen of it
  handles,  \* RX_HANDLE_SHADOW and TX_CCCD_HANDLE_SHADOW, 0 when not known
  table,    \* the guest's attribute table
  call      \* history: who waits, for the answer to what, and what was sent

hciVars == <<cpu, resume, pending, slots, heap, mail, link, handles, table, call>>

Guest == {"boot", "task", "idle"}
Busy == cpu.pc \notin Guest

NoPending == [op |-> "none", status |-> "success", followup |-> FALSE, handle |-> 0,
              msg |-> Null, data |-> Null]
NoResume == [pc |-> "none", r2 |-> "own", r3 |-> "own"]

NoCall(who) == [who |-> who, op |-> "none", owed |-> <<>>, sent |-> <<>>]

TypeOK ==
  /\ cpu.pc \in Guest \cup {"osal_alloc", "osal_send"} \cup Engines
  /\ cpu.r0 \in Blocks \cup {Null, "own"} \cup Statuses
  /\ cpu.to \in Tasks
  /\ cpu.r1 \in Blocks \cup {Null}
  /\ cpu.r2 \in R2
  /\ cpu.r3 \in Stages
  /\ cpu.lr \in Engines \cup {"guest"}
  /\ \A e \in Engines :
       resume[e].pc \in Guest \cup {"none"} /\ resume[e].r2 \in R2 /\ resume[e].r3 \in Stages
  /\ pending.status \in Statuses /\ pending.followup \in BOOLEAN
  /\ pending.msg \in Blocks \cup {Null} /\ pending.data \in Blocks \cup {Null}
  /\ pending.handle \in Nat
  /\ slots \in [Layers -> Tasks \cup {NoTask}]
  /\ heap \subseteq Blocks
  /\ mail \in [Tasks -> SUBSET Blocks]
  /\ link.status \in SUBSET Flags /\ link.seen \in SUBSET Flags /\ link.fresh \in BOOLEAN
  /\ handles \in [{"rx", "cccd"} -> Nat]
  /\ call.who \in Guest

\* Memory that no layer has registered in is zero, which is a task as well; a
\* firmware may have initialised it to 0xFF.
Init ==
  /\ cpu = [pc |-> "boot", r0 |-> "success", to |-> 0, r1 |-> Null, r2 |-> "own", r3 |-> "own", lr |-> "guest"]
  /\ resume = [e \in Engines |-> NoResume]
  /\ pending = NoPending
  /\ slots \in {[l \in Layers |-> 0], [l \in Layers |-> NoTask]}
  /\ heap = {}
  /\ mail = [t \in Tasks |-> {}]
  /\ link = [status |-> {}, seen |-> {}, fresh |-> FALSE]
  /\ handles = [h \in {"rx", "cccd"} |-> 0]
  /\ table \in Tables
  /\ call = NoCall("boot")

Connected == "connected" \in link.status

-----------------------------------------------------------------------------
(* The machinery of a stage. *)

\* Point the CPU at the allocator; it comes back to the trap of engine e.
EnterAlloc(e, stage) ==
  cpu' = [cpu EXCEPT !.pc = "osal_alloc", !.r2 = e, !.r3 = stage, !.lr = e]

Save(e, returnTo, r2) ==
  resume' = [resume EXCEPT ![e] = [pc |-> returnTo, r2 |-> r2, r3 |-> cpu.r3]]

\* History: the events that answer a call.
Event(kind, words) == <<kind, words.op, words.status>>

Owed(stage, words) ==
  CASE stage = "alloc" -> <<Event("complete", words)>>
    [] stage = "status_alloc" ->
         IF words.followup THEN <<Event("status", words), Event("encrypted", words)>>
                           ELSE <<Event("status", words)>>
    [] stage = "conn_alloc" -> <<Event("connected", words)>>
    [] stage = "disconn_alloc" -> <<Event("disconnected", words)>>
    [] stage = "rx_alloc" -> <<Event("write", words)>>

Called(op, owed) == call' = [who |-> cpu.pc, op |-> op, owed |-> owed, sent |-> <<>>]

\* A command starts a stage: R2 holds what the caller, or hci_caps, has in it.
Begin(e, stage, op, r2, words) ==
  /\ Save(e, cpu.pc, r2)
  /\ EnterAlloc(e, stage)
  /\ pending' = words
  /\ Called(op, Owed(stage, words))

\* A command that is answered by its result alone.
Immediate(op, status) ==
  /\ cpu' = [cpu EXCEPT !.r0 = status]
  /\ Called(op, <<>>)
  /\ UNCHANGED <<resume, pending>>

\* Faulty variant: the caller's registers are not put back.
ResumeBare(e, r0) ==
  /\ cpu' = [cpu EXCEPT !.pc = resume[e].pc, !.r0 = r0, !.lr = "guest"]
  /\ resume' = [resume EXCEPT ![e] = NoResume]
  /\ pending' = NoPending

\* resume: back to the caller.  The words of the stage are written again before
\* they are read again, so they are forgotten here.
Resume(e, r0) ==
  /\ cpu' = [cpu EXCEPT !.pc = resume[e].pc, !.r0 = r0, !.r2 = resume[e].r2, !.r3 = resume[e].r3,
                        !.lr = "guest"]
  /\ resume' = [resume EXCEPT ![e] = NoResume]
  /\ pending' = NoPending

\* Faulty variant: a refused allocation is reported as success.
AllocFailedQuietly(e) == Resume(e, "success") /\ UNCHANGED call

\* finish_failed_alloc, finish_alloc_failure and finish_alloc_error.
AllocFailed(e) == Resume(e, "memory") /\ UNCHANGED call

EnterSend(e, stage, task, msg) ==
  cpu' = [cpu EXCEPT !.pc = "osal_send", !.to = task, !.r1 = msg, !.r2 = e, !.r3 = stage, !.lr = e]

\* An answer is on its way: event, command and status.
Answers(event) == call' = [call EXCEPT !.sent = Append(@, Event(event, pending))]

\* route_message.
Route(e, stage, layer, msg, event) ==
  /\ slots[layer] # NoTask
  /\ EnterSend(e, stage, slots[layer], msg)
  /\ Answers(event)
  /\ UNCHANGED resume

\* What the engines do without a task to send to: hci_rom stays on its trap
\* for good, hci_extra reports success, and hci_security takes the address of
\* the message for the result of sending it.  The block is lost in each case.
Unroutable(e, layer, msg) ==
  /\ slots[layer] = NoTask
  /\ CASE e = "rom" -> UNCHANGED <<cpu, resume, pending, call>>
       [] e = "extra" -> Resume(e, "success") /\ UNCHANGED call
       [] e = "security" -> Resume(e, msg) /\ UNCHANGED call

AtTrap(e, stage) == cpu.pc = e /\ cpu.r2 = e /\ cpu.r3 = stage

\* An allocation has ended: the message is filled in and sent.
FinishAlloc(e, stage, layer, event, next) ==
  /\ AtTrap(e, stage)
  /\ IF cpu.r0 = Null
       THEN AllocFailed(e)
       ELSE \/ Route(e, next, layer, cpu.r0, event) /\ UNCHANGED pending
            \/ Unroutable(e, layer, cpu.r0)
  /\ UNCHANGED <<slots, heap, mail, link, handles, table>>

\* finish_send and finish_return: the result of osal_msg_send is the result.
FinishSend(e) ==
  /\ AtTrap(e, "send")
  /\ Resume(e, cpu.r0)
  /\ UNCHANGED <<slots, heap, mail, link, handles, table, call>>

-----------------------------------------------------------------------------
(* HostOsal, as far as it is called here. *)

\* msg_alloc and alloc: the size asked for may or may not fit.
OsalAlloc ==
  /\ cpu.pc = "osal_alloc"
  /\ \E b \in (Blocks \ heap) \cup {Null} :
       /\ heap' = heap \cup ({b} \ {Null})
       /\ cpu' = [cpu EXCEPT !.r0 = b, !.pc = cpu.lr]
  /\ UNCHANGED <<resume, pending, slots, mail, link, handles, table, call>>

\* msg_send: the message and what it points at belong to the task.
OsalSend ==
  /\ cpu.pc = "osal_send"
  /\ mail' = [mail EXCEPT ![cpu.to] = @ \cup {cpu.r1} \cup ({pending.data} \ {Null})]
  /\ cpu' = [cpu EXCEPT !.r0 = "success", !.r1 = Null, !.to = 0, !.pc = cpu.lr]
  /\ UNCHANGED <<resume, pending, slots, heap, link, handles, table, call>>

-----------------------------------------------------------------------------
(* The commands. *)

InGuest == cpu.pc \in {"boot", "task"}
Command == InGuest /\ UNCHANGED <<slots, heap, mail, handles, table>>

Answer(op, status) == [NoPending EXCEPT !.op = op, !.status = status]

\* hci_rom: advertising and scanning; the parameters are only looked at.
SetRadio(op, valid) ==
  /\ Command
  /\ IF valid
       THEN Begin("rom", "alloc", op, "own", Answer(op, "success"))
       ELSE Immediate(op, "invalid")
  /\ UNCHANGED link

ReadController(op) ==
  /\ Command
  /\ Begin("rom", "alloc", op, "own", Answer(op, "success"))
  /\ UNCHANGED link

\* hci_extra: the completion of a command, on behalf of the guest.
CommandComplete(op, status, r2) == Begin("extra", "alloc", op, r2, Answer(op, status))

\* White list and resolving list; the clearing takes no parameters.
EditList(op, valid) ==
  /\ Command
  /\ IF valid THEN CommandComplete(op, "success", "own") ELSE Immediate(op, "invalid")
  /\ UNCHANGED link

\* The status of a connection: conn_active, read_rssi_cmd and others.
ConnectionStatus(handle) == IF handle = 0 /\ Connected THEN "success" ELSE "inactive"

ReadRssi(op, handle) ==
  /\ Command
  /\ CommandComplete(op, ConnectionStatus(handle), "own")
  /\ UNCHANGED link

\* host_num_completed_pkt_cmd, which has no event.
HostNumCompleted(valid) ==
  /\ Command
  /\ Immediate("HostNumCompleted", IF valid THEN "success" ELSE "invalid")
  /\ UNCHANGED link

\* The mailbox loses its link before the status is on its way.
Disconnect(handle) ==
  /\ Command
  /\ link' = [link EXCEPT !.status = IF ConnectionStatus(handle) = "success" THEN {} ELSE @]
  /\ Begin("extra", "status_alloc", "Disconnect", "own",
           Answer("Disconnect", ConnectionStatus(handle)))

\* hci_caps always completes; what it found wrong is in the event.
ControllerCaps(op, valid) ==
  /\ Command
  /\ CommandComplete(op, IF valid THEN "success" ELSE "invalid", "scratch")
  /\ UNCHANGED link

\* ll_rom::data_length_status; a handle beyond the connections of the chip is
\* a bad parameter.
DataLengthStatus(handle, valid) ==
  IF handle > 2 THEN "invalid"
  ELSE IF ConnectionStatus(handle) # "success" THEN "inactive"
  ELSE IF valid THEN "success" ELSE "invalid"

SetDataLength(op, handle, valid) ==
  /\ Command
  /\ CommandComplete(op, DataLengthStatus(handle, valid), "scratch")
  /\ UNCHANGED link

\* The same without an event: LL_SetDataLengh0, LL_ConnActive, LL_SetAdvParam0.
LlStatus(handle, valid) ==
  /\ Command
  /\ Immediate("LL", DataLengthStatus(handle, valid))
  /\ UNCHANGED link

\* The events of the controller's own tasks are work that the host has done
\* already: HCI_ProcessEvent and LL_ProcessEvent leave none over.
ProcessEvent ==
  /\ Command
  /\ Immediate("ProcessEvent", "success")
  /\ UNCHANGED link

\* HCI_Reset ends the link and goes on as a command complete event.
ResetCmd ==
  /\ Command
  /\ link' = [link EXCEPT !.status = {}]
  /\ CommandComplete("Reset", "success", "scratch")

\* LL_Reset0.
LlReset ==
  /\ Command
  /\ link' = [link EXCEPT !.status = {}]
  /\ Immediate("LL", "success")

\* hci_security: AES, and the two answers to a request for a key.
Encrypt(op, valid) ==
  /\ Command
  /\ IF valid
       THEN Begin("security", "alloc", op, "own", Answer(op, "success"))
       ELSE Immediate(op, "invalid")
  /\ UNCHANGED link

KeyReply(op, handle, valid) ==
  /\ Command
  /\ LET status == IF ConnectionStatus(handle) = "success" /\ ~valid
                     THEN "invalid" ELSE ConnectionStatus(handle)
     IN  Begin("security", "alloc", op, "own", Answer(op, status))
  /\ UNCHANGED link

\* The status event is followed by an event that reports the encryption.
StartEncrypt(handle, valid) ==
  /\ Command
  /\ IF ConnectionStatus(handle) = "success" /\ valid
       THEN Begin("security", "status_alloc", "StartEncrypt", "own",
                  [Answer("StartEncrypt", "success") EXCEPT !.followup = TRUE])
       ELSE Immediate("StartEncrypt", IF ConnectionStatus(handle) = "success"
                                        THEN "invalid" ELSE "inactive")
  /\ UNCHANGED link

-----------------------------------------------------------------------------
(* The stages. *)

\* finish_bdaddr_alloc, finish_buf_size_alloc, finish_status_alloc.
RomComplete == FinishAlloc("rom", "alloc", "GAP", "complete", "send")

RomConnection == FinishAlloc("rom", "conn_alloc", "GAP", "connected", "send")
RomDisconnection == FinishAlloc("rom", "disconn_alloc", "GAP", "disconnected", "send")

ExtraComplete == FinishAlloc("extra", "alloc", "GAP", "complete", "send")
ExtraStatus == FinishAlloc("extra", "status_alloc", "GAP", "status", "send")

SecurityComplete == FinishAlloc("security", "alloc", "SMP", "complete", "send")
SecurityStatus == FinishAlloc("security", "status_alloc", "SMP", "status", "status_send")
SecurityChange == FinishAlloc("security", "enc_alloc", "SMP", "encrypted", "send")

\* Faulty variant: the second stage saves the trap as its caller.
SecurityFollowupSaving ==
  /\ AtTrap("security", "status_send")
  /\ Save("security", "security", cpu.r2)
  /\ EnterAlloc("security", "enc_alloc")
  /\ UNCHANGED <<pending, slots, heap, mail, link, handles, table, call>>

\* finish_status_send: the resume address of the command still stands.
SecurityFollowup ==
  /\ AtTrap("security", "status_send")
  /\ IF pending.followup
       THEN EnterAlloc("security", "enc_alloc") /\ UNCHANGED <<resume, pending>>
       ELSE Resume("security", cpu.r0)
  /\ UNCHANGED <<slots, heap, mail, link, handles, table, call>>

\* finish_rx_msg_alloc: a second block for the packet itself.
RxMessage ==
  /\ AtTrap("rom", "rx_alloc")
  /\ IF cpu.r0 = Null
       THEN AllocFailed("rom")
       ELSE /\ EnterAlloc("rom", "data_alloc")
            /\ pending' = [pending EXCEPT !.msg = cpu.r0]
            /\ UNCHANGED <<resume, call>>
  /\ UNCHANGED <<slots, heap, mail, link, handles, table>>

\* Faulty variant: the packet is handed over without its data block.
RxDataUnlinked ==
  /\ AtTrap("rom", "data_alloc")
  /\ IF cpu.r0 = Null
       THEN AllocFailed("rom")
       ELSE \/ Route("rom", "send", "L2CAP", pending.msg, "write") /\ UNCHANGED pending
            \/ Unroutable("rom", "L2CAP", pending.msg)
  /\ UNCHANGED <<slots, heap, mail, link, handles, table>>

\* finish_rx_data_alloc: without the second block the first is left behind.
RxData ==
  /\ AtTrap("rom", "data_alloc")
  /\ IF cpu.r0 = Null
       THEN AllocFailed("rom")
       ELSE \/ /\ Route("rom", "send", "L2CAP", pending.msg, "write")
               /\ pending' = [pending EXCEPT !.data = cpu.r0]
            \/ Unroutable("rom", "L2CAP", pending.msg)
  /\ UNCHANGED <<slots, heap, mail, link, handles, table>>
-----------------------------------------------------------------------------
(* The guest. *)

\* init_hci: what is remembered of the mailbox starts afresh.
HciInit ==
  /\ cpu.pc = "boot"
  /\ link' = [link EXCEPT !.seen = {}, !.fresh = FALSE]
  /\ handles' = [h \in {"rx", "cccd"} |-> 0]
  /\ cpu' = [cpu EXCEPT !.r0 = "own"]
  /\ Called("Init", <<>>)
  /\ UNCHANGED <<resume, pending, slots, heap, mail, table>>

Register(layer, task) ==
  /\ cpu.pc = "boot"
  /\ slots' = [slots EXCEPT ![layer] = task]
  /\ cpu' = [cpu EXCEPT !.r0 = "own"]
  /\ Called("Register", <<>>)
  /\ UNCHANGED <<resume, pending, heap, mail, link, handles, table>>

\* The guest goes on with other code and forgets its last call.
GoOn(pc) ==
  /\ cpu' = [cpu EXCEPT !.pc = pc, !.r0 = "own", !.r2 = "own"]
  /\ call' = NoCall(pc)
  /\ UNCHANGED <<resume, pending, slots, link, handles, table>>

\* The scheduler starts; a firmware registers all layers before that.
Booted ==
  /\ cpu.pc = "boot"
  /\ \A l \in Layers : slots[l] \notin {0, NoTask}
  /\ GoOn("idle")
  /\ UNCHANGED <<heap, mail>>

\* A task receives a message and frees the block.
Receive(t, b) ==
  /\ cpu.pc = "task"
  /\ b \in mail[t]
  /\ mail' = [mail EXCEPT ![t] = @ \ {b}]
  /\ heap' = heap \ {b}
  /\ GoOn("task")

RunTask == cpu.pc = "idle" /\ GoOn("task") /\ UNCHANGED <<heap, mail>>
GoIdle == cpu.pc = "task" /\ GoOn("idle") /\ UNCHANGED <<heap, mail>>

-----------------------------------------------------------------------------
(* The idle loop: changes in the mailbox become events. *)

\* What the host writes into the mailbox between two bursts of the guest; what
\* it writes while a task runs is as good as written before the task ran.
HostSets(status, fresh) ==
  /\ call = NoCall("idle")
  /\ link' = [link EXCEPT !.status = status, !.fresh = @ \/ fresh]
  /\ UNCHANGED <<cpu, resume, pending, slots, heap, mail, handles, table, call>>

HostConnects == HostSets(link.status \cup {"connected"}, FALSE)
HostDisconnects == HostSets({}, FALSE)
HostWrites == HostSets(link.status, TRUE)

\* A host subscribes while it is connected (HostLink has the other cases).
HostSubscribes(on) ==
  /\ Connected
  /\ HostSets(IF on THEN link.status \cup {"notify"} ELSE link.status \ {"notify"}, FALSE)

HostIdle == cpu.pc = "idle" /\ cpu.r2 # "rom"

LinkChanged == Connected # ("connected" \in link.seen)
CccdChanged == Connected /\ (("notify" \in link.status) # ("notify" \in link.seen))

\* begin_async_event: the guest goes on in the idle loop.
BeginAsync(stage, op, handle) ==
  Begin("rom", stage, op, cpu.r2, [NoPending EXCEPT !.op = op, !.handle = handle])

PollRadio ==
  /\ HostIdle
  /\ slots["GAP"] > 0
  /\ LinkChanged
  /\ link' = [link EXCEPT !.seen = link.status]
  /\ BeginAsync(IF Connected THEN "conn_alloc" ELSE "disconn_alloc", "Link", 0)
  /\ UNCHANGED <<slots, heap, mail, handles, table>>

-----------------------------------------------------------------------------
(* The attributes of the guest, which the host writes to.  The table is read *)
(* from the guest's memory: one record for each attribute, in order.  "of"   *)
(* is the characteristic that it belongs to, which the record does not say. *)

Attribute(uuid, handle, writable, of) ==
  [uuid |-> uuid, handle |-> handle, writable |-> writable, of |-> of]

LongUuids == {"rx", "tx", "other"}

\* What a firmware registers: handles rise in the order of the attributes, and a
\* subscription follows the value of its characteristic, which has a long UUID.
Registrable(attributes) ==
  /\ attributes \in Seq([uuid : STRING, handle : Nat, writable : BOOLEAN, of : STRING])
  /\ \A i, j \in DOMAIN attributes :
       i < j /\ attributes[i].handle # 0 /\ attributes[j].handle # 0 =>
         attributes[i].handle < attributes[j].handle
  /\ \A j \in DOMAIN attributes : attributes[j].uuid = "cccd" =>
       \E i \in 1 .. (j - 1) :
         /\ attributes[i].uuid = attributes[j].of /\ attributes[i].uuid \in LongUuids
         /\ attributes[i].handle # 0
         /\ \A k \in (i + 1) .. (j - 1) : attributes[k].uuid \notin LongUuids

ASSUME TablesAssumption == \A attributes \in Tables : Registrable(attributes)

First(S) == CHOOSE i \in S : \A j \in S : i <= j

\* find_guest_attribute.
FindAttribute(uuid, mustWrite) ==
  {i \in DOMAIN table : /\ table[i].uuid = uuid
                        /\ table[i].handle # 0
                        /\ mustWrite => table[i].writable}

\* Faulty variant: the search goes on into the next characteristic.
FindCccdAnywhereAfter(i) ==
  {j \in DOMAIN table : /\ j \in (i + 1) .. (i + 8)
                        /\ table[j].handle > table[i].handle
                        /\ table[j].uuid = "cccd"
                        /\ table[j].writable}

\* find_cccd_after: the next attribute with a long UUID ends the search.
FindCccdAfter(i) ==
  {j \in DOMAIN table : /\ j \in (i + 1) .. (i + 8)
                        /\ table[j].handle > table[i].handle
                        /\ table[j].uuid = "cccd"
                        /\ table[j].writable
                        /\ \A k \in (i + 1) .. (j - 1) :
                             table[k].handle > table[i].handle => table[k].uuid \notin LongUuids}

\* resolve_rx_handle and resolve_tx_cccd_handle; 0 stands for "not found".
Resolve(which) ==
  LET found == IF which = "rx"
                 THEN FindAttribute("rx", TRUE)
                 ELSE IF FindAttribute("tx", FALSE) = {} THEN {}
                      ELSE FindCccdAfter(First(FindAttribute("tx", FALSE)))
  IN  IF handles[which] # 0 THEN handles[which]
      ELSE IF found = {} THEN 0 ELSE table[First(found)].handle

\* stage_att_write: without a handle nothing is sent.
StageAttWrite(which) ==
  /\ handles' = [handles EXCEPT ![which] = Resolve(which)]
  /\ IF Resolve(which) = 0
       THEN UNCHANGED <<cpu, resume, pending, call>>
       ELSE BeginAsync("rx_alloc", which, Resolve(which))
  /\ UNCHANGED <<slots, heap, mail, table>>

PollCccd ==
  /\ HostIdle
  /\ ~(slots["GAP"] > 0 /\ LinkChanged)
  /\ CccdChanged
  /\ link' = [link EXCEPT !.seen = link.status]
  /\ StageAttWrite("cccd")

PollRx ==
  /\ HostIdle
  /\ ~(slots["GAP"] > 0 /\ LinkChanged) /\ ~CccdChanged
  /\ Connected /\ link.fresh
  /\ link' = [link EXCEPT !.fresh = FALSE]
  /\ StageAttWrite("rx")

-----------------------------------------------------------------------------
Commands ==
  \/ \E op \in RomStatusOps, valid \in BOOLEAN : SetRadio(op, valid)
  \/ \E op \in RomReadOps : ReadController(op)
  \/ \E op \in ListOps, valid \in BOOLEAN : EditList(op, valid)
  \/ \E op \in ExtraOps, handle \in {0, 1} : ReadRssi(op, handle)
  \/ \E op \in CapsOps, valid \in BOOLEAN : ControllerCaps(op, valid)
  \/ \E op \in LengthOps, handle \in {0, 1, 3}, valid \in BOOLEAN : SetDataLength(op, handle, valid)
  \/ \E op \in SecurityOps, valid \in BOOLEAN :
       Encrypt(op, valid) \/ \E handle \in {0, 1} : KeyReply(op, handle, valid)
  \/ \E valid \in BOOLEAN, handle \in {0, 1} : StartEncrypt(handle, valid) \/ LlStatus(handle, valid)
  \/ \E valid \in BOOLEAN : HostNumCompleted(valid)
  \/ \E handle \in {0, 1} : Disconnect(handle)
  \/ ProcessEvent
  \/ ResetCmd
  \/ LlReset

Host ==
  \/ HostConnects
  \/ HostDisconnects
  \/ \E on \in BOOLEAN : HostSubscribes(on)
  \/ HostWrites

\* The steps of the host on behalf of the guest.
Stage ==
  \/ OsalAlloc
  \/ OsalSend
  \/ RomComplete
  \/ RomConnection
  \/ RomDisconnection
  \/ RxMessage
  \/ RxData
  \/ ExtraComplete
  \/ ExtraStatus
  \/ SecurityComplete
  \/ SecurityStatus
  \/ SecurityFollowup
  \/ SecurityChange
  \/ \E e \in Engines : FinishSend(e)

Next ==
  \/ Commands
  \/ Host
  \/ Stage
  \/ HciInit
  \/ \E layer \in Layers : Register(layer, TaskCount - 1)
  \/ Booted
  \/ \E t \in Tasks : \E b \in mail[t] : Receive(t, b)
  \/ RunTask
  \/ GoIdle
  \/ PollRadio
  \/ PollCccd
  \/ PollRx

Spec == Init /\ [][Next]_hciVars

\* The host executes a stage before the CPU fetches another instruction.
FairSpec == Spec /\ WF_hciVars(Stage)

-----------------------------------------------------------------------------
(* Properties. *)

Registered == \A l \in Layers : slots[l] # NoTask

\* Every call is answered by exactly the events it is owed, with its own
\* command and status, if it reports success; by only the first of them, or
\* none, if it reports that there was no memory; and by none if it reports
\* anything else: whatever allocations failed in between.
AnsweredOnce ==
  ~Busy /\ Registered =>
    CASE cpu.r0 = "success" -> call.sent = call.owed
      [] cpu.r0 = "memory" -> /\ Len(call.sent) < Len(call.owed)
                              /\ call.sent = SubSeq(call.owed, 1, Len(call.sent))
      [] OTHER -> call.sent = <<>>

\* The CPU comes back to the code that it was taken from, with a magic number
\* in no register: R2 would keep the idle loop from polling ever again, and a
\* command from the layer it interrupted would resume there.
CallerRestored ==
  [][Busy /\ ~Busy' => cpu'.pc = call.who /\ cpu'.r2 \notin Engines /\ cpu'.r3 = "own"]_hciVars

\* Allocated blocks that neither a task nor a stage knows of.
Lost ==
  heap \ ((UNION {mail[t] : t \in Tasks})
            \cup (IF cpu.pc \in Engines THEN {cpu.r0} ELSE {})
            \cup (IF cpu.pc = "osal_send" THEN {cpu.r1} ELSE {})
            \cup {pending.msg, pending.data})

\* No block of the guest's heap is lost, except the message of a packet whose
\* second block is refused, and what a firmware asks for before it has
\* registered the layer that is to get the answer.
NothingLost ==
  [][\/ Lost' \subseteq Lost
     \/ AtTrap("rom", "data_alloc") /\ cpu.r0 = Null
     \/ ~Registered]_hciVars

\* The host writes only to the attribute it means: the writable value of the
\* configured RX characteristic, or the subscription of the TX characteristic
\* and of no other.
WritesAddressed ==
  pending.handle # 0 =>
    \E i \in DOMAIN table :
      /\ table[i].handle = pending.handle
      /\ table[i].writable
      /\ pending.op = "rx" => table[i].uuid = "rx"
      /\ pending.op = "cccd" => table[i].uuid = "cccd" /\ table[i].of = "tx"

\* Every call and every injected event comes to an end, whatever is refused.
CallsReturn == Busy /\ Registered ~> ~Busy
=============================================================================
