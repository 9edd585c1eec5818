----------------------------- MODULE RadioWorld -----------------------------
(***************************************************************************)
(* The air between the chips: World of world.rs, with its looping virtual  *)
(* advertisers.  Once a millisecond, World::radio looks at every pair of a *)
(* listening chip and a transmitter, and tells the chip by a Scan packet   *)
(* what it begins to hear, and again on every beat of the transmitter, and *)
(* by a Gone packet what it no longer hears.  Chip::apply puts a packet    *)
(* into pending_rx, from where a tick that runs the CPU hands it to the    *)
(* firmware; a system reset and a restart of the application forget all    *)
(* of it.                                                                  *)
(*                                                                         *)
(* What a chip heard last is kept under the chip's position in the list    *)
(* and the MAC address of the transmitter, and a MAC address is a hash of  *)
(* the name of a chip.                                                     *)
(***************************************************************************)
EXTENDS Naturals, Sequences, FiniteSets

CONSTANTS
  Ids,        \* names of chips
  MacOf,      \* mac_from_id: MacOf[id], which need not be injective
  Places,     \* where a chip can be
  Audible,    \* the pairs of places within HEAR_M of each other
  Worlds,     \* Worlds[name]: the MAC addresses of its virtual advertisers, in order
  PathOf,     \* PathOf[mac][t]: where a virtual advertiser is, as a set of one place
  Period,     \* CROWD_PERIOD_MS
  BeatOf,     \* BeatOf[mac]: ADV_MS and something that depends on the address
  ClockSize   \* the clock of the world counts modulo this

ASSUME WorldAssumption ==
  /\ Audible \subseteq Places \X Places
  /\ Period \in Nat \ {0}
  /\ \A mac \in DOMAIN BeatOf : BeatOf[mac] \in Nat \ {0}
  /\ MacOf \in [Ids -> DOMAIN BeatOf]
  /\ \A name \in DOMAIN Worlds : Worlds[name] \in Seq(DOMAIN BeatOf)
  /\ ClockSize \in Nat \ {0}

VARIABLES
  nodes,     \* the chips in order: [id, at]
  world,     \* [name, looping]
  now,       \* now_ms
  lastLink,  \* World.last_link: the pairs <<position, mac>> that are true
  told,      \* history: told[id], the addresses that are there by the packets that the
             \* chip has taken since it last started, pending_rx included
  lost,      \* history: lost[id], what a reset made of told[id], until it is said again
  heard,     \* history: the pairs <<position, mac>> audible in the last millisecond
  steady     \* history: no chip has left this world, it was not replaced, and nobody
             \* typed a Scan or Gone packet of their own

worldVars == <<nodes, world, now, lastLink, told, lost, heard, steady>>

Macs == DOMAIN BeatOf
Listeners == DOMAIN nodes
Mac(i) == MacOf[nodes[i].id]

TypeOK ==
  /\ nodes \in Seq([id : Ids, at : Places])
  /\ world \in [name : DOMAIN Worlds, looping : BOOLEAN]
  /\ now \in 0..(ClockSize - 1)
  /\ lastLink \subseteq (1..Cardinality(Ids)) \X Macs
  /\ told \in [Ids -> SUBSET Macs] /\ lost \in [Ids -> SUBSET Macs]
  /\ heard \subseteq (1..Cardinality(Ids)) \X Macs
  /\ steady \in BOOLEAN

Nobody == [id \in Ids |-> {}]

\* The histories are given up.
Forgotten == told' = Nobody /\ lost' = Nobody

-----------------------------------------------------------------------------
(* World::radio. *)

\* Virtual::pose: a world that does not loop is empty after its period.
Pose(mac) ==
  IF ~world.looping /\ now >= Period THEN {} ELSE PathOf[mac][now % Period]

\* The transmitters, the virtual ones first: an address, and where it is now.
Sources ==
  LET virtuals == Worlds[world.name]
  IN  [k \in 1..(Len(virtuals) + Len(nodes)) |->
         IF k <= Len(virtuals)
           THEN [mac |-> virtuals[k], at |-> Pose(virtuals[k])]
           ELSE [mac |-> Mac(k - Len(virtuals)), at |-> {nodes[k - Len(virtuals)].at}]]

\* hear.
Hears(i, source) == \E place \in source.at : <<nodes[i].at, place>> \in Audible

\* Faulty variant: what is heard is said once only.
OnBeatNever(mac) == FALSE

OnBeat(mac) == now % BeatOf[mac] = 0

Latest(S) == CHOOSE k \in S : \A j \in S : j <= k

\* Whether the link was up when source k is looked at: it was set by the source
\* before it that has the same address, or else a millisecond ago.
Was(i, k) ==
  LET same == {j \in 1..(k - 1) : Sources[j].mac = Sources[k].mac}
  IN  IF same = {} THEN <<i, Sources[k].mac>> \in lastLink
                   ELSE Hears(i, Sources[Latest(same)])

\* The packets for listener i: which source they are about, and what they say.
Others(i) == {k \in DOMAIN Sources : Sources[k].mac # Mac(i)}
Scans(i) == {k \in Others(i) : /\ Hears(i, Sources[k])
                               /\ ~Was(i, k) \/ OnBeat(Sources[k].mac)}
Gones(i) == {k \in Others(i) : ~Hears(i, Sources[k]) /\ Was(i, k)}

\* What holds of an address after the packets about it, given what held before.
After(i, mac, before) ==
  LET about == {k \in Scans(i) \cup Gones(i) : Sources[k].mac = mac}
  IN  IF about = {} THEN before ELSE Latest(about) \in Scans(i)

Sourced(i) == {Sources[k].mac : k \in Others(i)}

LastHeard(i, mac) == Hears(i, Sources[Latest({k \in Others(i) : Sources[k].mac = mac})])

Keys == UNION {{i} \X Sourced(i) : i \in Listeners}

\* Faulty variant: what was heard is remembered for good.
RememberAll == lastLink' = lastLink \cup {key \in Keys : LastHeard(key[1], key[2])}

Remember ==
  lastLink' = (lastLink \ Keys) \cup {key \in Keys : LastHeard(key[1], key[2])}

\* What a chip was told after the packets of this millisecond, and what of that
\* which it has lost is neither gone nor due to be said again.
Taken(id) == {mac \in Macs : steady /\ \E i \in Listeners :
                nodes[i].id = id /\ After(i, mac, mac \in told[id])}
Unsaid(id) == {mac \in lost[id] : /\ now % BeatOf[mac] # 0
                                 /\ \E i \in Listeners : nodes[i].id = id /\ <<i, mac>> \in heard'}

\* Some of the chips start anew: Chip::enter_bootrom_after_system_reset, or
\* Chip::restart_application.  Both clear pending_rx.
StartAnew(ids) ==
  /\ told' = [id \in Ids |-> IF id \in ids THEN {} ELSE told[id]]
  /\ lost' = [id \in Ids |-> IF id \in ids THEN lost[id] \cup told[id] ELSE lost[id]]

Radio ==
  /\ Remember
  /\ heard' = {key \in Keys : \E k \in Others(key[1]) :
                 Sources[k].mac = key[2] /\ Hears(key[1], Sources[k])}

\* The packets are applied to the chips, some of which reset themselves before
\* the step is over.
Tell(reset) ==
  /\ told' = [id \in Ids |-> IF id \in reset THEN {} ELSE Taken(id)]
  /\ lost' = [id \in Ids |-> Unsaid(id) \cup (IF id \in reset THEN Taken(id) ELSE {})]

\* The clock of the world: wrapping_add.
NextMs == now' = (now + 1) % ClockSize

-----------------------------------------------------------------------------
MacsDistinct ==
  \A j, k \in DOMAIN Sources : Sources[j].mac = Sources[k].mac => j = k

\* In a world that keeps its chips, what a chip was told since it last started,
\* if only in packets that still wait in pending_rx, is true; and what it hears
\* but was not told is what a reset or a restart has made it forget, no longer
\* than until the next beat of the transmitter.  Nothing is claimed where two
\* transmitters share an address.
ToldWhatIsHeard ==
  steady /\ MacsDistinct =>
    \A i \in Listeners :
      LET id == nodes[i].id
      IN  /\ \A mac \in told[id] : <<i, mac>> \in heard
          /\ \A mac \in Macs \ told[id] : <<i, mac>> \in heard => mac \in lost[id]
=============================================================================
