---------------------------- MODULE HostLink_proofs ----------------------------
(***************************************************************************)
(* Theorems about HostLink, for every number of packets and notifications, *)
(* with and without room in the guest's heap.                              *)
(***************************************************************************)
EXTENDS HostLink, SequenceTheorems, TLAPS

-----------------------------------------------------------------------------
(* The inductive invariant. *)

\* The modes between HCI_Init and the end of a boot, in which the shadows count.
Up == {"task", "idle", "asleep"}

Typed ==
  /\ status \in SUBSET Flags
  /\ rx \in [seq : Nat, packet : Nat]
  /\ tx \in [seq : Nat, frame : Nat]
  /\ pending \in Seq(Nat)
  /\ lastTx \in Nat
  /\ shadow \in [status : SUBSET Flags, seq : Nat]
  /\ mode \in Modes
  /\ turn \in {"host", "chip"}
  /\ guest \in [up : BOOLEAN, notify : BOOLEAN, packets : Seq(Nat)]
  /\ seen \in [written : Nat, emitted : Nat, shown : Nat, owed : {"nothing", "drop", "lost"}]

Increasing(s) == \A i, j \in 1..Len(s) : i < j => s[i] < s[j]
AtMost(s, n) == \A i \in 1..Len(s) : s[i] <= n
Above(s, n) == \A i \in 1..Len(s) : n < s[i]

\* Packets that the guest has, that is in the slot and that wait are numbered in
\* this order.  When the number of the slot differs from its shadow, the guest
\* has not got the packet in it.
PacketsOk ==
  /\ rx.packet <= seen.written /\ seen.written <= MaxPackets
  /\ rx.seq # 0 => rx.packet # 0
  /\ rx.seq + Len(pending) <= seen.written /\ shadow.seq <= Erased
  /\ Increasing(pending) /\ Above(pending, rx.packet) /\ AtMost(pending, seen.written)
  /\ Increasing(guest.packets) /\ Above(guest.packets, 0) /\ AtMost(guest.packets, rx.packet)
  /\ mode \in Up =>
       /\ shadow.seq <= rx.seq
       /\ shadow.seq < rx.seq => \A i \in 1..Len(guest.packets) : guest.packets[i] < rx.packet

\* The slot holds the newest frame unless a restart has set its number to zero,
\* and it has been printed if its number is the last one that was seen.
FramesOk ==
  /\ lastTx <= tx.seq /\ tx.seq <= seen.emitted
  /\ tx.frame <= seen.emitted /\ seen.shown <= seen.emitted /\ seen.emitted <= MaxFrames
  /\ tx.seq # 0 => tx.frame = seen.emitted
  /\ tx.seq = lastTx => seen.shown = seen.emitted
  /\ turn = "host" => tx.seq = lastTx

\* What the guest knows of the link is what the shadow says, except for a link
\* that ended since the last poll.
LinkOk ==
  /\ mode = "boot" => ~guest.up
  /\ seen.owed = "drop" => ~Linked(status)
  /\ mode \in Up =>
       /\ seen.owed = "nothing" =>
            /\ guest.up = Linked(shadow.status)
            /\ Linked(shadow.status) => Linked(status)
       /\ seen.owed = "drop" /\ ~Linked(shadow.status) => ~guest.up

IInv == Typed /\ PacketsOk /\ FramesOk /\ LinkOk

-----------------------------------------------------------------------------
(* Each part, action by action. *)

\* The frames.
LEMMA FramesNext ==
  ASSUME Typed, FramesOk, [Next]_linkVars
  PROVE  FramesOk'
<1>1. CASE Connect
  BY <1>1 DEF Connect, Typed, FramesOk
<1>2. CASE Disconnect
  BY <1>2 DEF Disconnect, Typed, FramesOk
<1>3. CASE Write
  BY <1>3 DEF Write, Typed, FramesOk
<1>4. CASE Wake
  BY <1>4 DEF Wake, Typed, FramesOk
<1>5. CASE EnterMonitor
  BY <1>5 DEF EnterMonitor, Typed, FramesOk
<1>6. CASE Restart
  BY <1>6 DEF Restart, Typed, FramesOk
<1>7. CASE TickStart
  BY <1>7 DEF TickStart, Typed, FramesOk
<1>8. CASE TickEnd
  BY <1>8 DEF TickEnd, Collect, Typed, FramesOk
<1>9. CASE Sleep
  BY <1>9 DEF Sleep, Collect, Typed, FramesOk
<1>10. CASE SystemReset
  BY <1>10 DEF SystemReset, Collect, Typed, FramesOk
<1>11. CASE HciInit
  BY <1>11 DEF HciInit, Typed, FramesOk
<1>12. CASE SendNotification
  BY SMTT(30), <1>12, BoundsAssumption DEF SendNotification, Typed, FramesOk
<1>13. CASE DisconnectCmd
  BY <1>13 DEF DisconnectCmd, Typed, FramesOk
<1>14. CASE ResetCmd
  BY <1>14 DEF ResetCmd, Typed, FramesOk
<1>15. CASE GoIdle
  BY <1>15 DEF GoIdle, Typed, FramesOk
<1>16. CASE RunTask
  BY <1>16 DEF RunTask, Typed, FramesOk
<1>17. ASSUME NEW on \in BOOLEAN, Cccd(on)
      PROVE  FramesOk'
  BY <1>17 DEF Cccd, Typed, FramesOk
<1>18. ASSUME NEW room \in BOOLEAN, PollRadio(room)
      PROVE  FramesOk'
  BY <1>18 DEF PollRadio, Idle, Typed, FramesOk
<1>19. ASSUME NEW room \in BOOLEAN, PollCccd(room)
      PROVE  FramesOk'
  BY <1>19 DEF PollCccd, Idle, LinkChanged, Typed, FramesOk
<1>20. ASSUME NEW room \in BOOLEAN, PollRx(room)
      PROVE  FramesOk'
  BY <1>20 DEF PollRx, Idle, Typed, FramesOk
<1>21. CASE UNCHANGED linkVars
  BY <1>21 DEF linkVars, Typed, FramesOk
<1> QED
  BY <1>1, <1>2, <1>3, <1>4, <1>5, <1>6, <1>7, <1>8, <1>9, <1>10, <1>11, <1>12, <1>13, <1>14,
           <1>15, <1>16, <1>17, <1>18, <1>19, <1>20, <1>21
     DEF Next, Room

\* The link.
LEMMA LinkNext ==
  ASSUME Typed, LinkOk, [Next]_linkVars
  PROVE  LinkOk'
<1>1. CASE Connect
  BY <1>1 DEF Connect, Typed, LinkOk, Linked, Up, Flags
<1>2. CASE Disconnect
  BY <1>2 DEF Disconnect, Typed, LinkOk, Linked, Up, Drop, Flags
<1>3. CASE Write
  BY <1>3 DEF Write, Typed, LinkOk, Up
<1>4. CASE Wake
  BY <1>4 DEF Wake, Typed, LinkOk, Up
<1>5. CASE EnterMonitor
  BY <1>5 DEF EnterMonitor, Typed, LinkOk, Up
<1>6. CASE Restart
  BY <1>6 DEF Restart, Typed, LinkOk, Linked, Up, Unlinked, Flags
<1>7. CASE TickStart
  BY <1>7 DEF TickStart, Typed, LinkOk, Up
<1>8. CASE TickEnd
  BY <1>8 DEF TickEnd, Collect, Typed, LinkOk, Up
<1>9. CASE Sleep
  BY <1>9 DEF Sleep, Collect, Typed, LinkOk, Up
<1>10. CASE SystemReset
  BY <1>10 DEF SystemReset, Collect, Typed, LinkOk, Up
<1>11. CASE HciInit
  BY <1>11 DEF HciInit, Typed, LinkOk, Linked, Up, Flags
<1>12. CASE SendNotification
  BY <1>12 DEF SendNotification, Typed, LinkOk, Up
<1>13. CASE DisconnectCmd
  BY <1>13 DEF DisconnectCmd, Typed, LinkOk, Linked, Up, Drop, Flags
<1>14. CASE ResetCmd
  BY <1>14 DEF ResetCmd, Typed, LinkOk, Linked, Up, Unlinked, Drop, Flags
<1>15. CASE GoIdle
  BY <1>15 DEF GoIdle, Typed, LinkOk, Up
<1>16. CASE RunTask
  BY <1>16 DEF RunTask, Idle, Typed, LinkOk, Linked, Up, Flags
<1>17. ASSUME NEW on \in BOOLEAN, Cccd(on)
      PROVE  LinkOk'
  BY <1>17 DEF Cccd, Typed, LinkOk, Linked, Up, Flags
<1>18. ASSUME NEW room \in BOOLEAN, PollRadio(room)
      PROVE  LinkOk'
  BY <1>18 DEF PollRadio, Idle, Typed, LinkOk, Linked, Up, Flags
<1>19. ASSUME NEW room \in BOOLEAN, PollCccd(room)
      PROVE  LinkOk'
  BY <1>19 DEF PollCccd, Idle, LinkChanged, Typed, LinkOk, Linked, Up, Flags
<1>20. ASSUME NEW room \in BOOLEAN, PollRx(room)
      PROVE  LinkOk'
  BY <1>20 DEF PollRx, Idle, Typed, LinkOk, Up
<1>21. CASE UNCHANGED linkVars
  BY <1>21 DEF linkVars, Typed, LinkOk, Up
<1> QED
  BY <1>1, <1>2, <1>3, <1>4, <1>5, <1>6, <1>7, <1>8, <1>9, <1>10, <1>11, <1>12, <1>13, <1>14,
           <1>15, <1>16, <1>17, <1>18, <1>19, <1>20, <1>21
     DEF Next, Room

\* The packets.
LEMMA AppendLemma ==
  ASSUME NEW q \in Seq(Nat), NEW n \in Nat, Increasing(q), \A i \in 1..Len(q) : q[i] < n
  PROVE  /\ Append(q, n) \in Seq(Nat) /\ Len(Append(q, n)) = Len(q) + 1
         /\ Increasing(Append(q, n)) /\ AtMost(Append(q, n), n)
         /\ \A b : Above(q, b) /\ b < n => Above(Append(q, n), b)
<1> DEFINE r == Append(q, n)
<1>1. /\ r \in Seq(Nat) /\ Len(r) = Len(q) + 1 /\ Len(q) \in Nat
      /\ \A i \in 1..Len(q) : r[i] = q[i] /\ q[i] \in Nat
      /\ r[Len(q) + 1] = n
  BY AppendProperties
<1> HIDE DEF r
<1>2. \A i \in 1..Len(r) : i \in 1..Len(q) \/ i = Len(q) + 1
  BY <1>1
<1>3. Increasing(r)
  <2> SUFFICES ASSUME NEW i \in 1..Len(r), NEW j \in 1..Len(r), i < j
               PROVE  r[i] < r[j]
    BY DEF Increasing
  <2>0. Len(q) \in Nat /\ Len(r) = Len(q) + 1
    BY <1>1
  <2>1. i \in 1..Len(q) /\ (j \in 1..Len(q) \/ j = Len(q) + 1)
    BY <2>0
  <2>2. CASE j \in 1..Len(q)
    <3>1. q[i] < q[j]
      BY <2>1, <2>2 DEF Increasing
    <3> QED BY <1>1, <2>1, <2>2, <3>1
  <2>3. CASE j = Len(q) + 1
    <3>1. q[i] < n
      BY <2>1
    <3> QED BY <1>1, <2>1, <2>3, <3>1
  <2> QED BY <2>1, <2>2, <2>3
<1>4. AtMost(r, n)
  <2> SUFFICES ASSUME NEW i \in 1..Len(r) PROVE r[i] <= n
    BY DEF AtMost
  <2>1. CASE i \in 1..Len(q)
    <3>1. q[i] < n /\ r[i] = q[i] /\ q[i] \in Nat
      BY <1>1, <2>1
    <3> QED BY <3>1
  <2>2. CASE i = Len(q) + 1
    BY <1>1, <2>2
  <2> QED BY <1>2, <2>1, <2>2
<1>5. \A b : Above(q, b) /\ b < n => Above(r, b)
  BY <1>1, <1>2 DEF Above
<1> QED BY <1>1, <1>3, <1>4, <1>5 DEF r

LEMMA TailLemma ==
  ASSUME NEW q \in Seq(Nat), q # <<>>, Increasing(q), NEW n \in Nat, AtMost(q, n)
  PROVE  /\ Tail(q) \in Seq(Nat) /\ Len(Tail(q)) = Len(q) - 1
         /\ Head(q) \in Nat /\ Head(q) = q[1] /\ 1 \in 1..Len(q)
         /\ Increasing(Tail(q)) /\ AtMost(Tail(q), n) /\ Above(Tail(q), Head(q))
<1> DEFINE r == Tail(q)
<1>1. /\ r \in Seq(Nat) /\ Len(r) = Len(q) - 1 /\ Len(q) \in Nat /\ Len(q) >= 1
      /\ \A i \in 1..Len(r) : r[i] = q[i + 1] /\ i + 1 \in 1..Len(q)
      /\ Head(q) = q[1] /\ q[1] \in Nat
  BY HeadTailProperties, EmptySeq
<1> HIDE DEF r
<1>3. Increasing(r)
  <2> SUFFICES ASSUME NEW i \in 1..Len(r), NEW j \in 1..Len(r), i < j
               PROVE  r[i] < r[j]
    BY DEF Increasing
  <2>1. i + 1 \in 1..Len(q) /\ j + 1 \in 1..Len(q) /\ i + 1 < j + 1
    BY <1>1
  <2>2. q[i + 1] < q[j + 1]
    BY <2>1 DEF Increasing
  <2> QED BY <1>1, <2>2
<1>4. AtMost(r, n)
  <2> SUFFICES ASSUME NEW i \in 1..Len(r) PROVE r[i] <= n
    BY DEF AtMost
  <2>1. i + 1 \in 1..Len(q)
    BY <1>1
  <2> QED BY <1>1, <2>1 DEF AtMost
<1>5. Above(r, Head(q))
  <2> SUFFICES ASSUME NEW i \in 1..Len(r) PROVE q[1] < r[i]
    BY <1>1 DEF Above
  <2>1. i + 1 \in 1..Len(q) /\ 1 \in 1..Len(q) /\ 1 < i + 1
    BY <1>1
  <2>2. q[1] < q[i + 1]
    BY <2>1 DEF Increasing
  <2> QED BY <1>1, <2>2
<1> QED BY <1>1, <1>3, <1>4, <1>5 DEF r

LEMMA EmptyLemma ==
  /\ Len(<<>>) = 0 /\ Increasing(<<>>)
  /\ \A n : Above(<<>>, n) /\ AtMost(<<>>, n)
BY DEF Increasing, Above, AtMost

LEMMA PacketsNext ==
  ASSUME Typed, PacketsOk, [Next]_linkVars
  PROVE  PacketsOk'
<1>1. CASE Connect
  BY <1>1 DEF Connect, Typed, PacketsOk, Up
<1>2. CASE Disconnect
  BY <1>2 DEF Disconnect, Typed, PacketsOk, Up
<1>3. CASE Write
  <2> DEFINE n == seen.written + 1
  <2>1. /\ n \in Nat /\ n <= MaxPackets
        /\ pending' = Append(pending, n) /\ seen'.written = n
        /\ UNCHANGED <<rx, shadow, mode, guest>>
    BY SMTT(30), <1>3, BoundsAssumption DEF Write, Typed
  <2>2. pending \in Seq(Nat) /\ \A i \in 1..Len(pending) : pending[i] < n
    BY SMTT(30) DEF PacketsOk, Typed, AtMost
  <2> HIDE DEF n
  <2>3. /\ Len(pending') = Len(pending) + 1
        /\ Increasing(pending') /\ AtMost(pending', n) /\ Above(pending', rx.packet)
    <3>1. rx.packet < n /\ Increasing(pending) /\ Above(pending, rx.packet)
      BY DEF PacketsOk, Typed, n
    <3> QED BY <2>1, <2>2, <3>1, AppendLemma
  <2> QED BY <2>1, <2>3 DEF PacketsOk, Typed, n
<1>4. CASE Wake
  BY <1>4 DEF Wake, Typed, PacketsOk, Up
<1>5. CASE EnterMonitor
  BY <1>5 DEF EnterMonitor, Typed, PacketsOk, Up
<1>6. CASE Restart
  BY <1>6, EmptyLemma DEF Restart, Typed, PacketsOk, Up, Unlinked
<1>7. CASE TickStart
  <2>1. UNCHANGED <<shadow, guest, seen>> /\ (mode \in Up <=> mode' \in Up)
    BY <1>7 DEF TickStart
  <2>2. CASE pending = <<>>
    BY <1>7, <2>1, <2>2 DEF TickStart, PacketsOk
  <2>3. CASE pending # <<>>
    <3>1. rx' = [seq |-> rx.seq + 1, packet |-> Head(pending)] /\ pending' = Tail(pending)
      BY <1>7, <2>3 DEF TickStart
    <3>2. /\ pending \in Seq(Nat) /\ Increasing(pending) /\ seen.written \in Nat
          /\ AtMost(pending, seen.written) /\ Above(pending, rx.packet)
          /\ rx.seq \in Nat /\ rx.packet \in Nat /\ shadow.seq \in Nat
      BY DEF PacketsOk, Typed
    <3>3. /\ Len(pending') = Len(pending) - 1 /\ Len(pending) \in Nat
          /\ Increasing(pending') /\ AtMost(pending', seen.written) /\ Above(pending', Head(pending))
          /\ Head(pending) \in Nat /\ Head(pending) = pending[1] /\ 1 \in 1..Len(pending)
      BY <2>3, <3>1, <3>2, TailLemma
    <3>4. rx.packet < Head(pending) /\ Head(pending) <= seen.written
      BY <3>2, <3>3 DEF Above, AtMost
    <3>5. /\ \A i \in 1..Len(guest.packets) : guest.packets[i] < Head(pending)
          /\ AtMost(guest.packets, Head(pending))
      <4> SUFFICES ASSUME NEW i \in 1..Len(guest.packets)
                   PROVE  /\ guest.packets[i] < Head(pending)
                          /\ guest.packets[i] <= Head(pending)
        BY DEF AtMost
      <4>1. guest.packets[i] <= rx.packet
        BY DEF PacketsOk, AtMost
      <4>2. guest.packets[i] \in Nat
        BY DEF Typed
      <4> QED BY SMTT(30), <3>2, <3>3, <3>4, <4>1, <4>2
    <3>6. rx'.seq = rx.seq + 1 /\ rx'.packet = Head(pending)
      BY <3>1
    <3> QED BY SMTT(30), <2>1, <3>2, <3>3, <3>4, <3>5, <3>6 DEF PacketsOk
  <2> QED BY <2>2, <2>3
<1>8. CASE TickEnd
  BY <1>8 DEF TickEnd, Collect, Typed, PacketsOk, Up
<1>9. CASE Sleep
  BY <1>9 DEF Sleep, Collect, Typed, PacketsOk, Up
<1>10. CASE SystemReset
  BY <1>10, EmptyLemma DEF SystemReset, Collect, Typed, PacketsOk, Up
<1>11. CASE HciInit
  BY <1>11, BoundsAssumption DEF HciInit, Typed, PacketsOk, Up, Erased
<1>12. CASE SendNotification
  BY <1>12 DEF SendNotification, Typed, PacketsOk, Up
<1>13. CASE DisconnectCmd
  BY <1>13 DEF DisconnectCmd, Typed, PacketsOk, Up
<1>14. CASE ResetCmd
  BY <1>14 DEF ResetCmd, Typed, PacketsOk, Up, Unlinked
<1>15. CASE GoIdle
  BY <1>15 DEF GoIdle, Typed, PacketsOk, Up
<1>16. CASE RunTask
  BY <1>16 DEF RunTask, Idle, Typed, PacketsOk, Up
<1>17. ASSUME NEW on \in BOOLEAN, Cccd(on)
      PROVE  PacketsOk'
  BY <1>17 DEF Cccd, Typed, PacketsOk, Up
<1>18. ASSUME NEW room \in BOOLEAN, PollRadio(room)
      PROVE  PacketsOk'
  BY <1>18 DEF PollRadio, Idle, Typed, PacketsOk, Up
<1>19. ASSUME NEW room \in BOOLEAN, PollCccd(room)
      PROVE  PacketsOk'
  BY <1>19 DEF PollCccd, Idle, Typed, PacketsOk, Up
<1>20. ASSUME NEW room \in BOOLEAN, PollRx(room)
      PROVE  PacketsOk'
  <2>1. /\ shadow'.seq = rx.seq /\ UNCHANGED <<rx, pending, seen, mode>>
        /\ guest'.packets = guest.packets \/ guest'.packets = Append(guest.packets, rx.packet)
        /\ rx.seq # shadow.seq /\ mode \in Up
    BY <1>20 DEF PollRx, Idle, RxChanged, Typed, Up
  <2>2. /\ guest.packets \in Seq(Nat) /\ rx.packet \in Nat /\ 0 < rx.packet
        /\ Increasing(guest.packets) /\ \A i \in 1..Len(guest.packets) : guest.packets[i] < rx.packet
        /\ Above(guest.packets, 0)
    BY <2>1 DEF PacketsOk, Typed
  <2>3. /\ Increasing(guest'.packets) /\ Above(guest'.packets, 0)
        /\ AtMost(guest'.packets, rx.packet)
    BY <2>1, <2>2, AppendLemma DEF PacketsOk
  <2>4. rx.seq <= Erased
    BY BoundsAssumption DEF PacketsOk, Typed, Erased
  <2> QED BY <2>1, <2>3, <2>4 DEF PacketsOk, Typed
<1>21. CASE UNCHANGED linkVars
  BY <1>21 DEF linkVars, Typed, PacketsOk, Up
<1> QED
  BY <1>1, <1>2, <1>3, <1>4, <1>5, <1>6, <1>7, <1>8, <1>9, <1>10, <1>11, <1>12, <1>13, <1>14,
     <1>15, <1>16, <1>17, <1>18, <1>19, <1>20, <1>21
     DEF Next, Room

\* The types.
LEMMA TypedNext ==
  ASSUME Typed, [Next]_linkVars
  PROVE  Typed'
<1>1. CASE Connect
  BY <1>1 DEF Connect, Typed, Flags
<1>2. CASE Disconnect
  BY <1>2 DEF Disconnect, Drop, Typed, Flags
<1>3. CASE Write
  <2>1. pending' \in Seq(Nat)
    <3>1. pending' = Append(pending, seen.written + 1) /\ seen.written + 1 \in Nat
      BY <1>3 DEF Write, Typed
    <3> QED BY <3>1 DEF Typed
  <2>2. seen' \in [written : Nat, emitted : Nat, shown : Nat, owed : {"nothing", "drop", "lost"}]
    <3>1. seen.written + 1 \in Nat /\ seen' = [seen EXCEPT !.written = seen.written + 1]
      BY <1>3 DEF Write, Typed
    <3> QED BY <3>1 DEF Typed
  <2> QED BY <1>3, <2>1, <2>2 DEF Write, Typed
<1>4. CASE Wake
  BY <1>4 DEF Wake, Typed, Modes
<1>5. CASE EnterMonitor
  BY <1>5 DEF EnterMonitor, Typed, Modes
<1>6. CASE Restart
  <2>1. guest' \in [up : BOOLEAN, notify : BOOLEAN, packets : Seq(Nat)]
    BY <1>6 DEF Restart, Unlinked, Typed
  <2>2. pending' \in Seq(Nat)
    BY <1>6 DEF Restart
  <2> QED BY <1>6, <2>1, <2>2 DEF Restart, Typed, Modes
<1>7. CASE TickStart
  <2>1. CASE pending = <<>>
    BY <1>7, <2>1 DEF TickStart, Typed
  <2>2. CASE pending # <<>>
    <3>1. Head(pending) \in Nat /\ Tail(pending) \in Seq(Nat)
      BY <2>2 DEF Typed
    <3>2. rx' \in [seq : Nat, packet : Nat] /\ pending' \in Seq(Nat)
      <4>1. /\ rx' = [seq |-> rx.seq + 1, packet |-> Head(pending)]
            /\ pending' = Tail(pending)
        BY <1>7, <2>2 DEF TickStart
      <4>2. rx.seq + 1 \in Nat
        BY DEF Typed
      <4> QED BY <3>1, <4>1, <4>2
    <3> QED BY <1>7, <3>2 DEF TickStart, Typed
  <2> QED BY <2>1, <2>2
<1>8. CASE TickEnd
  BY <1>8 DEF TickEnd, Collect, Typed
<1>9. CASE Sleep
  BY <1>9 DEF Sleep, Collect, Typed, Modes
<1>10. CASE SystemReset
  <2>1. pending' \in Seq(Nat)
    BY <1>10 DEF SystemReset
  <2> QED BY <1>10, <2>1 DEF SystemReset, Collect, Typed, Modes
<1>11. CASE HciInit
  BY <1>11 DEF HciInit, Typed, Modes
<1>12. CASE SendNotification
  <2>1. tx' \in [seq : Nat, frame : Nat]
    BY <1>12 DEF SendNotification, Typed
  <2> QED BY <1>12, <2>1 DEF SendNotification, Typed
<1>13. CASE DisconnectCmd
  BY <1>13 DEF DisconnectCmd, Drop, Typed, Flags
<1>14. CASE ResetCmd
  BY <1>14 DEF ResetCmd, Unlinked, Drop, Typed, Flags
<1>15. CASE GoIdle
  BY <1>15 DEF GoIdle, Typed, Modes
<1>16. CASE RunTask
  BY <1>16 DEF RunTask, Typed, Modes
<1>17. ASSUME NEW on \in BOOLEAN, Cccd(on)
      PROVE  Typed'
  BY <1>17 DEF Cccd, Typed, Flags
<1>18. ASSUME NEW room \in BOOLEAN, PollRadio(room)
      PROVE  Typed'
  <2>1. guest' \in [up : BOOLEAN, notify : BOOLEAN, packets : Seq(Nat)]
    <3>1. Linked(status) \in BOOLEAN
      BY DEF Linked
    <3> QED BY <1>18, <3>1 DEF PollRadio, Typed
  <2>2. shadow' \in [status : SUBSET Flags, seq : Nat]
    BY <1>18 DEF PollRadio, Typed
  <2> QED BY <1>18, <2>1, <2>2 DEF PollRadio, Typed
<1>19. ASSUME NEW room \in BOOLEAN, PollCccd(room)
      PROVE  Typed'
  <2>1. guest' \in [up : BOOLEAN, notify : BOOLEAN, packets : Seq(Nat)]
    <3>1. Notifies(status) \in BOOLEAN
      BY DEF Notifies
    <3> QED BY <1>19, <3>1 DEF PollCccd, Typed
  <2>2. shadow' \in [status : SUBSET Flags, seq : Nat]
    BY <1>19 DEF PollCccd, Typed
  <2> QED BY <1>19, <2>1, <2>2 DEF PollCccd, Typed
<1>20. ASSUME NEW room \in BOOLEAN, PollRx(room)
      PROVE  Typed'
  <2>1. guest' \in [up : BOOLEAN, notify : BOOLEAN, packets : Seq(Nat)]
    <3>1. Append(guest.packets, rx.packet) \in Seq(Nat)
      BY DEF Typed
    <3> QED BY <1>20, <3>1 DEF PollRx, Typed
  <2>2. shadow' \in [status : SUBSET Flags, seq : Nat]
    BY <1>20 DEF PollRx, Typed
  <2> QED BY <1>20, <2>1, <2>2 DEF PollRx, Typed
<1>21. CASE UNCHANGED linkVars
  BY <1>21 DEF linkVars, Typed
<1> QED
  BY <1>1, <1>2, <1>3, <1>4, <1>5, <1>6, <1>7, <1>8, <1>9, <1>10, <1>11, <1>12, <1>13, <1>14,
     <1>15, <1>16, <1>17, <1>18, <1>19, <1>20, <1>21
     DEF Next, Room

LEMMA NextIInv == IInv /\ [Next]_linkVars => IInv'
BY TypedNext, PacketsNext, FramesNext, LinkNext DEF IInv

LEMMA InitIInv == Init => IInv
<1> SUFFICES ASSUME Init PROVE IInv
  OBVIOUS
<1> USE BoundsAssumption
<1>1. Typed
  BY DEF Init, Typed, Unlinked, Flags, Modes, Erased
<1>2. PacketsOk
  BY EmptyLemma DEF Init, PacketsOk, Unlinked, Up, Erased
<1>3. FramesOk
  BY DEF Init, FramesOk
<1>4. LinkOk
  BY DEF Init, LinkOk, Unlinked, Up
<1> QED BY <1>1, <1>2, <1>3, <1>4 DEF IInv

-----------------------------------------------------------------------------
(* What follows from it. *)

LEMMA IInvTypes == IInv => TypeOK
<1> SUFFICES ASSUME IInv PROVE TypeOK
  OBVIOUS
<1> USE BoundsAssumption
<1>1. ASSUME NEW q \in Seq(Nat), NEW S, \A i \in 1..Len(q) : q[i] \in S
      PROVE  q \in Seq(S)
  BY <1>1
<1>2. pending \in Seq(1..MaxPackets)
  <2>1. ASSUME NEW i \in 1..Len(pending)
        PROVE  pending[i] \in 1..MaxPackets
    <3>1. pending[i] \in Nat /\ rx.packet \in Nat /\ seen.written \in Nat
      BY SMTT(30) DEF IInv, Typed
    <3>2. rx.packet < pending[i] /\ pending[i] <= seen.written /\ seen.written <= MaxPackets
      BY DEF IInv, PacketsOk, Above, AtMost
    <3> QED BY <3>1, <3>2
  <2> QED BY <1>1, <2>1 DEF IInv, Typed
<1>3. guest.packets \in Seq(0..MaxPackets)
  <2>1. \A i \in 1..Len(guest.packets) : guest.packets[i] \in 0..MaxPackets
    BY SMTT(30) DEF IInv, Typed, PacketsOk, Above, AtMost
  <2> QED BY <1>1, <2>1 DEF IInv, Typed
<1>4. /\ rx.seq \in 0..MaxPackets /\ rx.packet \in 0..MaxPackets
      /\ seen.written \in 0..MaxPackets /\ shadow.seq \in 0..Erased
  BY DEF IInv, Typed, PacketsOk, Erased
<1>5. /\ tx.seq \in 0..MaxFrames /\ tx.frame \in 0..MaxFrames /\ lastTx \in 0..MaxFrames
      /\ seen.emitted \in 0..MaxFrames /\ seen.shown \in 0..MaxFrames
  BY DEF IInv, Typed, FramesOk
<1> QED BY <1>2, <1>3, <1>4, <1>5 DEF IInv, Typed, TypeOK, Seen

THEOREM Invariance == Spec => []IInv
BY InitIInv, NextIInv, PTL DEF Spec

\* Every variable keeps its type, whatever the host, the chip and the guest do.
THEOREM TypeCorrect == Spec => []TypeOK
BY Invariance, IInvTypes, PTL

\* However many packets the host writes: the guest gets them in order, and none
\* of them twice.
THEOREM InOrder == Spec => []WritesInOrder
<1>1. IInv => WritesInOrder
  <2> SUFFICES ASSUME IInv, NEW i \in 1..Len(guest.packets)
               PROVE  guest.packets[i] > (IF i = 1 THEN 0 ELSE guest.packets[i - 1])
    <3>1. DOMAIN guest.packets = 1..Len(guest.packets)
      BY DEF IInv, Typed
    <3> QED BY <3>1 DEF WritesInOrder
  <2>1. /\ guest.packets \in Seq(Nat) /\ guest.packets[i] \in Nat
        /\ Increasing(guest.packets) /\ Above(guest.packets, 0)
    BY SMTT(30) DEF IInv, Typed, PacketsOk
  <2>2. CASE i = 1
    BY <2>1, <2>2 DEF Above
  <2>3. CASE i # 1
    <3>1. i - 1 \in 1..Len(guest.packets) /\ i - 1 < i
      BY <2>3
    <3> QED BY <2>1, <2>3, <3>1 DEF Increasing
  <2> QED BY <2>2, <2>3
<1> QED BY <1>1, Invariance, PTL

\* However many notifications the guest sends: between ticks the newest one has
\* been printed.
THEOREM NewestShown == Spec => []NewestFrameShown
<1>1. IInv => NewestFrameShown
  BY DEF IInv, FramesOk, NewestFrameShown
<1> QED BY <1>1, Invariance, PTL

\* The guest knows whether it has a link once there is nothing left to inject,
\* in every interleaving of links, resets and polls.
THEOREM LinkKnown == Spec => []LinkTold
<1>1. IInv => LinkTold
  <2> SUFFICES ASSUME IInv, Idle, Polled, seen.owed # "lost"
               PROVE  guest.up = Linked(status)
    BY DEF LinkTold
  <2>1. mode \in Up /\ Linked(status) = Linked(shadow.status)
    BY DEF Idle, Polled, LinkChanged, Up, Linked
  <2>2. seen.owed \in {"nothing", "drop"} /\ guest.up \in BOOLEAN
    BY DEF IInv, Typed
  <2>3. CASE seen.owed = "nothing"
    BY <2>1, <2>3 DEF IInv, LinkOk
  <2>4. CASE seen.owed = "drop"
    <3>1. ~Linked(status) /\ ~guest.up
      BY <2>1, <2>4 DEF IInv, LinkOk
    <3> QED BY <2>2, <3>1 DEF Linked
  <2> QED BY <2>2, <2>3, <2>4
<1> QED BY <1>1, Invariance, PTL
=============================================================================
